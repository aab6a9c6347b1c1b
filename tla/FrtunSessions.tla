--------------------------- MODULE FrtunSessions ---------------------------
(***************************************************************************)
(* Pairing with the phone and asking it to sign: listen and FrtunStream    *)
(* (frontend/lib/wc/frtun/transport.ts), connect and FrtunSession          *)
(* (client.ts), the adapter (lib/wallet/mobile.ts).                        *)
(*                                                                         *)
(* Each pairing has a WebSocket to the bridge of its own.  Events of the   *)
(* socket are handled one at a time, with everything they let run: a frame *)
(* settles a request and the next one is sent before another event comes.  *)
(* Requests are known by their request_id; a pairing stands for the id of  *)
(* the getAccounts its adapter makes.  Keys and encryption are left out: a *)
(* frame that does not decrypt is "junk".                                  *)
(***************************************************************************)
EXTENDS Sequences, FiniteSets

CONSTANTS
    Pairings,
    Requests,       \* ids of the signMessage calls
    Nobody

ASSUME FrtunAssumption ==
    /\ Pairings \cap Requests = {}
    /\ Nobody \notin Pairings \cup Requests

VARIABLES
    link,           \* link[p]: the pairing and its socket
    given,          \* <<id, answer>>: what phones have answered
    settled         \* settled[id]: how the request ended, "no" until then

frtunVars == <<link, given, settled>>

Ids == Pairings \cup Requests
Answers == {"result", "error"}
Stages == {"none", "opening", "ready", "incoming", "key", "accounts", "paired", "failed"}
Kinds == {"ready", "refused", "incoming", "key", "junk"} \cup Answers
Frame == [kind : Kinds, re : Ids \cup {Nobody}]

\* stage: the event connect() waits for.  far: what the bridge has said.
\* asked: requests the phone has got.  wire: frames on their way.  queue: the
\* requests chained in `tail', the first of which waits in next().  Frames that
\* come while none waits go to the inbox, where the next request reads and
\* drops them (none can be its answer): here they are dropped as they come.
Link == [stage : Stages, socket : {"none", "opening", "open", "closing", "closed"},
         far : {"silent", "listening", "dialed", "gone"},
         asked : SUBSET Ids, wire : Seq(Frame), queue : Seq(Ids)]

FrtunTypeOK ==
    /\ link \in [Pairings -> Link]
    /\ given \subseteq Ids \X Answers
    /\ settled \in [Ids -> Answers \cup {"no", "failed"}]

FrtunInit ==
    /\ link = [p \in Pairings |-> [stage |-> "none", socket |-> "none", far |-> "silent",
                                   asked |-> {}, wire |-> <<>>, queue |-> <<>>]]
    /\ given = {}
    /\ settled = [id \in Ids |-> "no"]

Say(kind) == [kind |-> kind, re |-> Nobody]
Queued(p) == {link[p].queue[i] : i \in DOMAIN link[p].queue}
Become(p, l) == link' = [link EXCEPT ![p] = l]
Quietly == UNCHANGED <<given, settled>>

----------------------------------------------------------------------------
(* The socket and the bridge *)

\* adapter.connect: a new pairing starts to listen.
Listen(p) ==
    /\ link[p].stage = "none"
    /\ Become(p, [link[p] EXCEPT !.stage = "opening", !.socket = "opening"])
    /\ Quietly

Opened(p) ==
    /\ link[p].socket = "opening"
    /\ Become(p, [link[p] EXCEPT !.stage = "ready", !.socket = "open"])
    /\ Quietly

OpenFails(p) ==
    /\ link[p].socket = "opening"
    /\ Become(p, [link[p] EXCEPT !.stage = "failed", !.socket = "closed"])
    /\ Quietly

\* The bridge registers the listener, or refuses it, now or later.
BridgeSays(p) ==
    /\ link[p].socket = "open"
    /\ \/ /\ link[p].far = "silent"
          /\ Become(p, [link[p] EXCEPT !.far = "listening", !.wire = Append(@, Say("ready"))])
       \/ /\ link[p].far \in {"silent", "listening"}
          /\ Become(p, [link[p] EXCEPT !.far = "gone", !.wire = Append(@, Say("refused"))])
    /\ Quietly

\* The phone dials in; its first frame, the key, follows at once.
Dial(p) ==
    /\ link[p].socket = "open"
    /\ link[p].far = "listening"
    /\ \E first \in {"key", "junk"} :
          Become(p, [link[p] EXCEPT !.far = "dialed",
                                    !.wire = @ \o <<Say("incoming"), Say(first)>>])
    /\ Quietly

\* The phone's user answers a request, at any time after it arrived; or the
\* answer does not decrypt.
Answer(p, id) ==
    /\ link[p].socket = "open"
    /\ id \in link[p].asked
    /\ \A a \in Answers : <<id, a>> \notin given
    /\ \E a \in Answers :
          /\ given' = given \cup {<<id, a>>}
          /\ \E f \in {[kind |-> a, re |-> id], Say("junk")} :
                Become(p, [link[p] EXCEPT !.wire = Append(@, f)])
    /\ UNCHANGED settled

----------------------------------------------------------------------------
(* FrtunSession *)

\* The first of the queue is sent, which a socket that is closing swallows.
Sent(l, queue) == [l EXCEPT !.asked = IF queue # <<>> /\ l.socket = "open"
                                        THEN @ \cup {Head(queue)} ELSE @]

\* What a request that ends with `how' leaves: `tail' runs the next one, which
\* sends its frame if the socket is open.  getAccounts ends the pairing.
Settle(p, l, how) ==
    LET id == Head(l.queue)
        rest == Tail(l.queue)
    IN  /\ settled' = [settled EXCEPT ![id] = how]
        /\ Become(p, [Sent(l, rest) EXCEPT
                         !.queue = rest,
                         !.stage = IF id # p THEN @
                                   ELSE IF how = "result" THEN "paired" ELSE "failed"])
        /\ UNCHANGED given

\* sendRequest on the stream of p.  On a closed socket next() rejects.
Request(p, id) ==
    /\ settled[id] = "no"
    /\ \A q \in Pairings : id \notin Queued(q)
    /\ IF link[p].socket = "closed"
         THEN settled' = [settled EXCEPT ![id] = "failed"] /\ UNCHANGED link
         ELSE LET queue == Append(link[p].queue, id)
              IN  /\ Become(p, [Sent(link[p], queue) EXCEPT !.queue = queue])
                  /\ UNCHANGED settled
    /\ UNCHANGED given

RequestTimeout(p) ==
    /\ link[p].queue # <<>>
    /\ Settle(p, link[p], "failed")

----------------------------------------------------------------------------
(* Frames *)

Arrives(p, kinds) ==
    /\ link[p].socket = "open"
    /\ link[p].wire # <<>>
    /\ Head(link[p].wire).kind \in kinds

\* ws.close(): the browser delivers no frame any more.
Hung(l) == IF l.socket = "open" THEN [l EXCEPT !.socket = "closing", !.wire = <<>>] ELSE l

Taken(p) == [link[p] EXCEPT !.wire = Tail(@)]

\* listen() and connect() up to the session.
HearReady(p) ==
    /\ link[p].stage = "ready"
    /\ Arrives(p, {"ready"})
    /\ Become(p, [Taken(p) EXCEPT !.stage = "incoming"])
    /\ Quietly

HearRefusal(p) ==
    /\ link[p].stage \in {"ready", "incoming"}
    /\ Arrives(p, {"refused"})
    /\ Become(p, [Hung(link[p]) EXCEPT !.stage = "failed"])
    /\ Quietly

HearDial(p) ==
    /\ link[p].stage = "incoming"
    /\ Arrives(p, {"incoming"})
    /\ Become(p, [Taken(p) EXCEPT !.stage = "key"])
    /\ Quietly

HearKey(p) ==
    /\ link[p].stage = "key"
    /\ Arrives(p, {"key"})
    /\ Become(p, [Sent(Taken(p), <<p>>) EXCEPT !.stage = "accounts", !.queue = <<p>>])
    /\ Quietly

\* extractMobilePub throws; nobody closes the socket.
HearBadKey(p) ==
    /\ link[p].stage = "key"
    /\ Arrives(p, {"junk"})
    /\ Become(p, [Taken(p) EXCEPT !.stage = "failed"])
    /\ Quietly

\* Nobody waits for a frame.
HearNothing(p) ==
    /\ link[p].stage \in {"paired", "failed"}
    /\ link[p].queue = <<>>
    /\ Arrives(p, Kinds)
    /\ Become(p, Taken(p))
    /\ Quietly

\* Bug: the answer is taken for that of the request that waits.
HearAnyAnswer(p) ==
    /\ link[p].queue # <<>>
    /\ Arrives(p, Answers)
    /\ Settle(p, Taken(p), Head(link[p].wire).kind)

\* Bug: a frame that does not decrypt ends the request like an answer.
HearAnyFrame(p) ==
    /\ link[p].queue # <<>>
    /\ Arrives(p, Kinds)
    /\ Settle(p, Taken(p), Head(link[p].wire).kind)

\* The answer to the request that waits.
HearAnswer(p) ==
    /\ link[p].queue # <<>>
    /\ Arrives(p, Answers)
    /\ Head(link[p].wire).re = Head(link[p].queue)
    /\ Settle(p, Taken(p), Head(link[p].wire).kind)

\* A late answer to a request that timed out, or one that does not decrypt.
SkipFrame(p) ==
    /\ link[p].queue # <<>>
    /\ Arrives(p, Kinds)
    /\ LET f == Head(link[p].wire) IN f.kind = "junk" \/ f.re # Head(link[p].queue)
    /\ Become(p, Taken(p))
    /\ Quietly

----------------------------------------------------------------------------
(* Timers and the end of the socket *)

ScanTimeout(p) ==
    /\ link[p].stage = "incoming"
    /\ Become(p, [Hung(link[p]) EXCEPT !.stage = "failed"])
    /\ Quietly

\* The stream's reader gives up; the socket stays open.
KeyTimeout(p) ==
    /\ link[p].stage = "key"
    /\ Become(p, [link[p] EXCEPT !.stage = "failed"])
    /\ Quietly

\* FrtunStream.fail on the first request in the queue; every later one runs
\* into closedErr.
Dead(l) == [l EXCEPT !.socket = "closed", !.far = "gone", !.asked = {}, !.wire = <<>>, !.queue = <<>>,
                     !.stage = IF @ \in {"none", "paired"} THEN @ ELSE "failed"]
FailQueued(ps) ==
    settled' = [id \in Ids |-> IF \E p \in ps : id \in Queued(p) THEN "failed" ELSE settled[id]]

\* Bug: the waiter is told of the end of the socket, the chain is not.
DieFirstOnly(p) ==
    /\ link[p].socket \in {"open", "closing"}
    /\ Become(p, [Dead(link[p]) EXCEPT !.queue = IF link[p].queue = <<>> THEN @
                                                 ELSE Tail(link[p].queue)])
    /\ settled' = [id \in Ids |-> IF link[p].queue # <<>> /\ id = Head(link[p].queue)
                                    THEN "failed" ELSE settled[id]]
    /\ UNCHANGED given

\* The close event: the phone or the bridge hangs up, the network fails, or
\* the page closed the socket.
Die(p) ==
    /\ link[p].socket \in {"open", "closing"}
    /\ Become(p, Dead(link[p]))
    /\ FailQueued({p})
    /\ UNCHANGED given

----------------------------------------------------------------------------
\* What happens to p without the page: the bridge, the phone, the timers.
Transport(p) ==
    \/ Opened(p) \/ OpenFails(p) \/ BridgeSays(p) \/ Dial(p)
    \/ \E id \in Ids : Answer(p, id)
    \/ HearReady(p) \/ HearRefusal(p) \/ HearDial(p) \/ HearKey(p) \/ HearBadKey(p)
    \/ HearNothing(p) \/ HearAnswer(p) \/ SkipFrame(p)
    \/ RequestTimeout(p) \/ ScanTimeout(p) \/ KeyTimeout(p)
    \/ Die(p)

----------------------------------------------------------------------------
(* Properties *)

Outcome(id) ==
    IF \E p \in Pairings : id \in Queued(p) THEN "waiting"
    ELSE IF settled[id] = "no" THEN "idle" ELSE settled[id]

\* client.ts: responses are correlated "by request_id", and a stale response
\* to a request that timed out is dropped.  Whatever the phone answers, late,
\* twice as slow or never, each request is a call of WalletCalls.
FrtunCall == INSTANCE WalletCalls WITH
    Calls <- Ids, Answers <- Answers, given <- given,
    outcome <- [id \in Ids |-> Outcome(id)]
FrtunCalls == FrtunCall!Spec

\* transport.ts: "a request never hangs to its timeout on a dead socket".  Not
\* the one that waits, and none of those queued behind it.
DeadSettles == \A p \in Pairings : link[p].socket = "closed" => link[p].queue = <<>>

=============================================================================
