--------------------------- MODULE WalletProofs ---------------------------
(***************************************************************************)
(* What WalletContext guarantees for any number of pairings, requests and  *)
(* wallets, whatever phones, bridge and network do: a socket that is       *)
(* closed leaves no request waiting, the page shows the wallet it stores   *)
(* and messages, no wallet takes the place of another, and each request is *)
(* a call of WalletCalls.  And PopupRequests, for any number of calls: so  *)
(* is each of them.                                                        *)
(***************************************************************************)
EXTENDS WalletContext, PopupRequests, TLAPS

----------------------------------------------------------------------------
(* One socket *)

\* Before it is open, and after it is closed, a socket has no requests.
LinkOK(l) ==
    /\ l.stage = "none" <=> l.socket = "none"
    /\ l.stage = "opening" <=> l.socket = "opening"
    /\ l.socket \in {"none", "opening", "closed"} => l.queue = <<>>

LinksOK == \A p \in Pairings : LinkOK(link[p])

Started(l) == l.stage \notin {"none", "opening"}

\* What may become of a pairing.
Next1(l, m) == m \in Link /\ LinkOK(m) /\ (Started(l) => Started(m))

LEMMA HungNext ==
    ASSUME NEW l \in Link, LinkOK(l)
    PROVE  Next1(l, Hung(l)) /\ Hung(l).stage = l.stage /\ Hung(l).socket \notin {"open"}
                /\ (l.socket # "open" => Hung(l).socket = l.socket)
                /\ (l.socket = "open" => Hung(l).socket = "closing")
                /\ Hung(l).queue = l.queue
<1>1. <<>> \in Seq(Frame)
  OBVIOUS
<1> QED BY <1>1 DEF Next1, Hung, Link, LinkOK, Started, Stages

LEMMA DeadNext ==
    ASSUME NEW l \in Link, l.stage # "none", LinkOK(l)
    PROVE  Next1(l, Dead(l))
<1>1. <<>> \in Seq(Frame) /\ <<>> \in Seq(Ids)
  OBVIOUS
<1> QED BY <1>1 DEF Next1, Dead, Link, LinkOK, Started, Stages

LEMMA SentType ==
    ASSUME NEW l \in Link, NEW queue \in Seq(Ids)
    PROVE  /\ Sent(l, queue) \in Link
           /\ Sent(l, queue).stage = l.stage /\ Sent(l, queue).socket = l.socket
           /\ Sent(l, queue).queue = l.queue
<1>1. queue # <<>> => Head(queue) \in Ids
  OBVIOUS
<1> QED BY <1>1 DEF Sent, Link

LEMMA TakenNext ==
    ASSUME FrtunTypeOK, LinksOK, NEW p \in Pairings, link[p].wire # <<>>
    PROVE  /\ Taken(p) \in Link
           /\ Taken(p).stage = link[p].stage /\ Taken(p).socket = link[p].socket
           /\ Taken(p).queue = link[p].queue
           /\ Head(link[p].wire) \in Frame
<1>1. link[p] \in Link /\ link[p].wire \in Seq(Frame)
  BY DEF FrtunTypeOK, Link
<1>2. Tail(link[p].wire) \in Seq(Frame) /\ Head(link[p].wire) \in Frame
  BY <1>1
<1> QED BY <1>1, <1>2 DEF Taken, Link

StartedStay == \A p \in Pairings : Started(link[p]) => Started(link'[p])

LEMMA Evolves ==
    ASSUME FrtunTypeOK, LinksOK, NEW p \in Pairings, NEW l, Next1(link[p], l), Become(p, l),
           given' \subseteq Ids \X Answers, settled' \in [Ids -> Answers \cup {"no", "failed"}]
    PROVE  FrtunTypeOK' /\ LinksOK' /\ StartedStay
<1>1. \A q \in Pairings : link'[q] = IF q = p THEN l ELSE link[q]
  BY DEF Become, FrtunTypeOK
<1>2. FrtunTypeOK'
  BY <1>1 DEF Become, FrtunTypeOK, Next1
<1>3. LinksOK'
  BY <1>1 DEF LinksOK, Next1
<1>4. StartedStay
  BY <1>1 DEF StartedStay, Next1
<1> QED BY <1>2, <1>3, <1>4

LEMMA SettleStep ==
    ASSUME FrtunTypeOK, LinksOK, NEW p \in Pairings, NEW l \in Link, LinkOK(l),
           l.stage = link[p].stage, l.queue # <<>>, NEW how \in Answers \cup {"failed"},
           Settle(p, l, how)
    PROVE  FrtunTypeOK' /\ LinksOK' /\ StartedStay
<1> DEFINE id == Head(l.queue)
           rest == Tail(l.queue)
           sent == Sent(l, rest)
           new == [sent EXCEPT !.queue = rest,
                               !.stage = IF id # p THEN @
                                         ELSE IF how = "result" THEN "paired" ELSE "failed"]
<1>1. l.queue \in Seq(Ids) /\ id \in Ids /\ rest \in Seq(Ids)
  BY DEF Link
<1>2. sent \in Link /\ sent.stage = l.stage /\ sent.socket = l.socket
  BY <1>1, SentType
<1>3. l.socket \notin {"none", "opening", "closed"} /\ l.stage \notin {"none", "opening"}
  BY DEF LinkOK
<1>4. new \in Link /\ new.socket = l.socket /\ new.stage \notin {"none", "opening"}
  BY <1>1, <1>2, <1>3 DEF Link, Stages
<1>5. Next1(link[p], new)
  BY <1>3, <1>4 DEF Next1, LinkOK, Started
<1>6. given' = given /\ settled' = [settled EXCEPT ![id] = how] /\ Become(p, new)
  BY DEF Settle
<1>7. given' \subseteq Ids \X Answers /\ settled' \in [Ids -> Answers \cup {"no", "failed"}]
  BY <1>1, <1>6 DEF FrtunTypeOK
<1> QED BY <1>5, <1>6, <1>7, Evolves

LEMMA FailQueuedType ==
    ASSUME FrtunTypeOK, NEW ps, FailQueued(ps)
    PROVE  settled' \in [Ids -> Answers \cup {"no", "failed"}]
BY DEF FailQueued, FrtunTypeOK

\* The steps of a socket keep types and what LinkOK says.
LEMMA TransportStep ==
    ASSUME FrtunTypeOK, LinksOK, NEW p \in Pairings, Transport(p)
    PROVE  FrtunTypeOK' /\ LinksOK' /\ StartedStay
<1> DEFINE l == link[p]
           Same == given' \subseteq Ids \X Answers /\ settled' \in [Ids -> Answers \cup {"no", "failed"}]
<1>1. l \in Link /\ LinkOK(l) /\ l.wire \in Seq(Frame) /\ l.queue \in Seq(Ids)
  BY DEF FrtunTypeOK, LinksOK, Link
<1>2. Quietly => Same
  BY DEF Quietly, FrtunTypeOK
<1>3. ASSUME NEW m, Next1(l, m), Become(p, m), Same
      PROVE  FrtunTypeOK' /\ LinksOK' /\ StartedStay
  BY <1>3, Evolves
<1>4. CASE Opened(p)
  <2>1. Next1(l, [l EXCEPT !.stage = "ready", !.socket = "open"])
    BY <1>1, <1>4 DEF Opened, Next1, Link, LinkOK, Started, Stages
  <2> QED BY <1>2, <1>3, <1>4, <2>1 DEF Opened
<1>5. CASE OpenFails(p)
  <2>1. Next1(l, [l EXCEPT !.stage = "failed", !.socket = "closed"])
    BY <1>1, <1>5 DEF OpenFails, Next1, Link, LinkOK, Started, Stages
  <2> QED BY <1>2, <1>3, <1>5, <2>1 DEF OpenFails
<1>6. CASE BridgeSays(p)
  <2>1. Append(l.wire, Say("ready")) \in Seq(Frame) /\ Append(l.wire, Say("refused")) \in Seq(Frame)
    BY <1>1 DEF Say, Frame, Kinds
  <2>2. Next1(l, [l EXCEPT !.far = "listening", !.wire = Append(@, Say("ready"))])
    BY <1>1, <2>1 DEF Next1, Link, LinkOK, Started
  <2>3. Next1(l, [l EXCEPT !.far = "gone", !.wire = Append(@, Say("refused"))])
    BY <1>1, <2>1 DEF Next1, Link, LinkOK, Started
  <2> QED BY <1>2, <1>3, <1>6, <2>2, <2>3 DEF BridgeSays
<1>7. CASE Dial(p)
  <2>1. PICK first \in {"key", "junk"} :
           Become(p, [l EXCEPT !.far = "dialed", !.wire = @ \o <<Say("incoming"), Say(first)>>])
    BY <1>7 DEF Dial
  <2>2. Say("incoming") \in Frame /\ Say(first) \in Frame
    BY DEF Say, Frame, Kinds
  <2>3. l.wire \o <<Say("incoming"), Say(first)>> \in Seq(Frame)
    BY <1>1, <2>2
  <2>4. Next1(l, [l EXCEPT !.far = "dialed", !.wire = @ \o <<Say("incoming"), Say(first)>>])
    BY <1>1, <2>3 DEF Next1, Link, LinkOK, Started
  <2> QED BY <1>2, <1>3, <1>7, <2>1, <2>4 DEF Dial
<1>8. ASSUME NEW id \in Ids, Answer(p, id)
      PROVE  FrtunTypeOK' /\ LinksOK' /\ StartedStay
  <2>0. PICK a \in Answers :
           /\ given' = given \cup {<<id, a>>}
           /\ \E f \in {[kind |-> a, re |-> id], Say("junk")} :
                 Become(p, [l EXCEPT !.wire = Append(@, f)])
    BY <1>8 DEF Answer
  <2>1. PICK f \in {[kind |-> a, re |-> id], Say("junk")} :
           Become(p, [l EXCEPT !.wire = Append(@, f)])
    BY <2>0
  <2>2. f \in Frame
    BY DEF Say, Frame, Kinds
  <2>3. Append(l.wire, f) \in Seq(Frame)
    BY <1>1, <2>2
  <2>5. Next1(l, [l EXCEPT !.wire = Append(@, f)])
    BY <1>1, <2>3 DEF Next1, Link, LinkOK, Started
  <2>4. Same
    BY <1>8, <2>0 DEF Answer, FrtunTypeOK
  <2> QED BY <1>3, <2>1, <2>4, <2>5
<1>9. ASSUME NEW kinds, Arrives(p, kinds)
      PROVE  /\ Taken(p) \in Link /\ LinkOK(Taken(p)) /\ l.socket = "open"
             /\ Taken(p).stage = l.stage /\ Taken(p).socket = l.socket /\ Taken(p).queue = l.queue
             /\ Head(l.wire) \in Frame
  BY <1>1, <1>9, TakenNext DEF Arrives, LinkOK
<1>10. CASE HearReady(p)
  <2>1. Next1(l, [Taken(p) EXCEPT !.stage = "incoming"])
    BY <1>1, <1>9, <1>10 DEF HearReady, Next1, Link, LinkOK, Started, Stages
  <2> QED BY <1>2, <1>3, <1>10, <2>1 DEF HearReady
<1>11. CASE HearRefusal(p)
  <2>1. Next1(l, [Hung(l) EXCEPT !.stage = "failed"])
    BY <1>1, <1>9, <1>11, HungNext DEF HearRefusal, Next1, Link, LinkOK, Started, Stages
  <2> QED BY <1>2, <1>3, <1>11, <2>1 DEF HearRefusal
<1>12. CASE HearDial(p)
  <2>1. Next1(l, [Taken(p) EXCEPT !.stage = "key"])
    BY <1>1, <1>9, <1>12 DEF HearDial, Next1, Link, LinkOK, Started, Stages
  <2> QED BY <1>2, <1>3, <1>12, <2>1 DEF HearDial
<1>13. CASE HearKey(p)
  <2>1. Arrives(p, {"key"}) /\ l.stage = "key"
    BY <1>13 DEF HearKey
  <2>2. <<p>> \in Seq(Ids)
    BY DEF Ids
  <2>3. Taken(p) \in Link /\ Taken(p).stage = l.stage /\ Taken(p).socket = "open"
    BY <1>9, <2>1
  <2>4. /\ Sent(Taken(p), <<p>>) \in Link
        /\ Sent(Taken(p), <<p>>).stage = l.stage /\ Sent(Taken(p), <<p>>).socket = "open"
    BY <2>2, <2>3, SentType
  <2>5. Next1(l, [Sent(Taken(p), <<p>>) EXCEPT !.stage = "accounts", !.queue = <<p>>])
    BY <2>1, <2>2, <2>4 DEF Next1, Link, LinkOK, Started, Stages
  <2> QED BY <1>2, <1>3, <1>13, <2>5 DEF HearKey
<1>14. CASE HearBadKey(p)
  <2>1. Next1(l, [Taken(p) EXCEPT !.stage = "failed"])
    BY <1>1, <1>9, <1>14 DEF HearBadKey, Next1, Link, LinkOK, Started, Stages
  <2> QED BY <1>2, <1>3, <1>14, <2>1 DEF HearBadKey
<1>15. ASSUME NEW kinds, Arrives(p, kinds)
       PROVE  Next1(l, Taken(p))
  BY <1>9, <1>15 DEF Next1, Started
<1>16. CASE HearNothing(p)
  BY <1>2, <1>3, <1>15, <1>16 DEF HearNothing
<1>17. CASE HearAnswer(p)
  <2>1. Arrives(p, Answers) /\ l.queue # <<>> /\ Settle(p, Taken(p), Head(l.wire).kind)
    BY <1>17 DEF HearAnswer
  <2>2. Head(l.wire).kind \in Answers \cup {"failed"}
    BY <2>1 DEF Arrives
  <2> QED BY <1>9, <2>1, <2>2, SettleStep
<1>18. CASE SkipFrame(p)
  BY <1>2, <1>3, <1>15, <1>18 DEF SkipFrame
<1>19. CASE RequestTimeout(p)
  BY <1>1, <1>19, SettleStep DEF RequestTimeout
<1>20. CASE ScanTimeout(p)
  <2>1. Next1(l, [Hung(l) EXCEPT !.stage = "failed"])
    BY <1>1, <1>20, HungNext DEF ScanTimeout, Next1, Link, LinkOK, Started, Stages
  <2> QED BY <1>2, <1>3, <1>20, <2>1 DEF ScanTimeout
<1>21. CASE KeyTimeout(p)
  <2>1. Next1(l, [l EXCEPT !.stage = "failed"])
    BY <1>1, <1>21 DEF KeyTimeout, Next1, Link, LinkOK, Started, Stages
  <2> QED BY <1>2, <1>3, <1>21, <2>1 DEF KeyTimeout
<1>22. CASE Die(p)
  <2>1. l.stage # "none"
    BY <1>1, <1>22 DEF Die, LinkOK
  <2>2. Next1(l, Dead(l))
    BY <1>1, <2>1, DeadNext
  <2>3. Same
    BY <1>22, FailQueuedType DEF Die, FrtunTypeOK
  <2> QED BY <1>3, <1>22, <2>2, <2>3 DEF Die
<1> QED
  BY <1>4, <1>5, <1>6, <1>7, <1>8, <1>10, <1>11, <1>12, <1>13, <1>14, <1>16, <1>17, <1>18,
     <1>19, <1>20, <1>21, <1>22 DEF Transport

----------------------------------------------------------------------------
(* The page *)

ContextTypes ==
    /\ session \in Wallets \cup Pairings \cup {Nobody}
    /\ stored \in Wallets \cup {Nobody}
    /\ adapter \in Pairings \cup {Nobody}
    /\ modal \in {"closed", "select", "mobile"}
    /\ pairing \in Pairings \cup {Nobody}
    /\ connecting \in Wallets \cup {Nobody}

\* There is one way to a session at a time, and none while there is one.
OneWay ==
    /\ pairing # Nobody => modal = "mobile"
    /\ modal = "mobile" => connecting = Nobody
    /\ modal # "closed" \/ connecting # Nobody => session = Nobody

AdapterStarted == adapter # Nobody => Started(link[adapter])

WalletInv ==
    /\ FrtunTypeOK /\ ContextTypes
    /\ LinksOK
    /\ OneWay
    /\ StoredIsShown
    /\ AdapterStarted

LEMMA InitInv == WalletInit => WalletInv
<1> SUFFICES ASSUME WalletInit PROVE WalletInv
  OBVIOUS
<1> USE WalletAssumption, FrtunAssumption
<1>1. FrtunTypeOK
  <2>1. <<>> \in Seq(Frame) /\ <<>> \in Seq(Ids)
    OBVIOUS
  <2> QED BY <2>1 DEF WalletInit, FrtunInit, FrtunTypeOK, Link, Stages
<1>2. LinksOK
  BY DEF WalletInit, FrtunInit, LinksOK, LinkOK
<1>3. ContextTypes /\ OneWay /\ StoredIsShown /\ AdapterStarted
  BY DEF WalletInit, ContextTypes, OneWay, StoredIsShown, AdapterStarted
<1> QED BY <1>1, <1>2, <1>3 DEF WalletInv

LEMMA DisconnectStep ==
    ASSUME WalletInv, NEW p \in Pairings \cup {Nobody}, DisconnectAdapter(p)
    PROVE  FrtunTypeOK' /\ LinksOK' /\ StartedStay
<1>1. given' \subseteq Ids \X Answers /\ settled' \in [Ids -> Answers \cup {"no", "failed"}]
  BY DEF WalletInv, DisconnectAdapter, Quietly, FrtunTypeOK
<1>2. CASE p # Nobody /\ p \in link[p].asked
  <2>1. link[p] \in Link /\ LinkOK(link[p])
    BY <1>2 DEF WalletInv, FrtunTypeOK, LinksOK
  <2>2. Next1(link[p], Hung(link[p]))
    BY <2>1, HungNext
  <2>3. Become(p, Hung(link[p]))
    BY <1>2 DEF DisconnectAdapter, Become
  <2> QED BY <1>1, <1>2, <2>2, <2>3, Evolves DEF WalletInv
<1>3. CASE ~(p # Nobody /\ p \in link[p].asked)
  <2>1. link' = link
    BY <1>3 DEF DisconnectAdapter
  <2> QED BY <1>1, <2>1 DEF WalletInv, FrtunTypeOK, LinksOK, StartedStay
<1> QED BY <1>2, <1>3

LEMMA StartedAdapter ==
    ASSUME AdapterStarted, ContextTypes, StartedStay, adapter' = adapter
    PROVE  AdapterStarted'
BY DEF AdapterStarted, ContextTypes, StartedStay

\* What a step does to a socket, and with which of the page's variables.
LEMMA WalletStep ==
    ASSUME WalletInv, [WalletNext]_walletVars
    PROVE  WalletInv' /\ (session # Nobody /\ session' # session => session' = Nobody)
<1> DEFINE Sockets == FrtunTypeOK' /\ LinksOK' /\ StartedStay
           Kept == session # Nobody /\ session' # session => session' = Nobody
<1> USE WalletAssumption, FrtunAssumption
<1>0. FrtunTypeOK /\ ContextTypes /\ LinksOK /\ OneWay /\ StoredIsShown /\ AdapterStarted
  BY DEF WalletInv
<1>1. UNCHANGED frtunVars => Sockets
  BY <1>0 DEF frtunVars, FrtunTypeOK, LinksOK, StartedStay
<1>2. Sockets /\ adapter' = adapter => AdapterStarted'
  BY <1>0, StartedAdapter
<1>3. CASE OpenModal
  <2>1. ContextTypes' /\ OneWay' /\ StoredIsShown' /\ Kept
    BY <1>0, <1>3 DEF OpenModal, ContextTypes, OneWay, StoredIsShown
  <2> QED BY <1>1, <1>2, <1>3, <2>1 DEF OpenModal, WalletInv
<1>4. ASSUME NEW view \in {"closed", "select"}, LeavePairing(view)
      PROVE  WalletInv' /\ Kept
  <2>1. ContextTypes' /\ OneWay' /\ StoredIsShown' /\ Kept
    BY <1>0, <1>4 DEF LeavePairing, CancelPairing, ContextTypes, OneWay, StoredIsShown
  <2>2. Sockets
    BY <1>0, <1>4, DisconnectStep DEF LeavePairing, CancelPairing, ContextTypes
  <2> QED BY <1>2, <1>4, <2>1, <2>2 DEF LeavePairing, WalletInv
<1>5. ASSUME NEW p \in Pairings, StartPairing(p)
      PROVE  WalletInv' /\ Kept
  <2>1. ContextTypes' /\ OneWay' /\ StoredIsShown' /\ Kept
    BY <1>0, <1>5 DEF StartPairing, ContextTypes, OneWay, StoredIsShown
  <2>2. link[p] \in Link /\ LinkOK(link[p]) /\ link[p].stage = "none"
    BY <1>0, <1>5 DEF FrtunTypeOK, LinksOK, StartPairing, Listen
  <2>3. Next1(link[p], [link[p] EXCEPT !.stage = "opening", !.socket = "opening"])
    BY <2>2 DEF Next1, Link, LinkOK, Started, Stages
  <2>4. Sockets
    BY <1>0, <1>5, <2>3, Evolves DEF StartPairing, Listen, Quietly, FrtunTypeOK
  <2> QED BY <1>2, <1>5, <2>1, <2>4 DEF StartPairing, WalletInv
<1>6. ASSUME NEW p \in Pairings, Connection(p)
      PROVE  WalletInv' /\ Kept
  <2>1. Sockets
    BY <1>0, <1>6, TransportStep DEF Connection
  <2>2. CASE UNCHANGED <<session, stored, adapter, modal>> /\ pairing' \in {pairing, Nobody}
    <3>1. ContextTypes' /\ OneWay' /\ StoredIsShown' /\ Kept
      BY <1>0, <1>6, <2>2 DEF Connection, ContextTypes, OneWay, StoredIsShown
    <3> QED BY <1>2, <2>1, <2>2, <3>1 DEF WalletInv
  <2>3. CASE pairing = p /\ pairing' = Nobody /\ link'[p].stage = "paired" /\ AdoptMobile(p)
    <3>1. session = Nobody /\ connecting' = Nobody
      BY <1>0, <1>6, <2>3 DEF OneWay, Connection
    <3>2. ContextTypes' /\ OneWay' /\ StoredIsShown' /\ Kept
      BY <1>0, <2>3, <3>1 DEF AdoptMobile, Adopt, ContextTypes, OneWay, StoredIsShown
    <3>3. AdapterStarted'
      BY <2>3 DEF AdoptMobile, AdapterStarted, Started
    <3> QED BY <2>1, <3>2, <3>3 DEF WalletInv
  <2> QED BY <1>6, <2>2, <2>3 DEF Connection, PairingEnds
<1>7. ASSUME NEW w \in Wallets, ConnectWallet(w)
      PROVE  WalletInv' /\ Kept
  <2>1. ContextTypes' /\ OneWay' /\ StoredIsShown' /\ Kept
    BY <1>0, <1>7 DEF ConnectWallet, ContextTypes, OneWay, StoredIsShown
  <2> QED BY <1>1, <1>2, <1>7, <2>1 DEF ConnectWallet, WalletInv
<1>8. ASSUME NEW w \in Wallets, WalletConnects(w)
      PROVE  WalletInv' /\ Kept
  <2>1. session = Nobody
    BY <1>0, <1>8 DEF WalletConnects, OneWay
  <2>2. ContextTypes' /\ OneWay' /\ StoredIsShown' /\ Kept
    BY <1>0, <1>8, <2>1
       DEF WalletConnects, Adopt, CancelPairing, ContextTypes, OneWay, StoredIsShown
  <2>3. Sockets
    BY <1>0, <1>8, DisconnectStep DEF WalletConnects, CancelPairing, ContextTypes
  <2> QED BY <1>2, <1>8, <2>2, <2>3 DEF WalletConnects, WalletInv
<1>9. CASE WalletFails
  <2>1. ContextTypes' /\ OneWay' /\ StoredIsShown' /\ Kept
    BY <1>0, <1>9 DEF WalletFails, ContextTypes, OneWay, StoredIsShown
  <2> QED BY <1>1, <1>2, <1>9, <2>1 DEF WalletFails, WalletInv
<1>10. ASSUME NEW r \in Requests, Sign(r)
       PROVE  WalletInv' /\ Kept
  <2> DEFINE p == adapter
             l == link[p]
  <2>1. ContextTypes' /\ OneWay' /\ StoredIsShown' /\ Kept /\ adapter' = adapter
    BY <1>0, <1>10 DEF Sign, contextVars, ContextTypes, OneWay, StoredIsShown
  <2>2. p \in Pairings /\ l \in Link /\ LinkOK(l) /\ Started(l) /\ Request(p, r)
    BY <1>0, <1>10 DEF Sign, ContextTypes, FrtunTypeOK, LinksOK, AdapterStarted
  <2>3. r \in Ids
    BY DEF Ids
  <2>4. CASE l.socket = "closed"
    <3>1. link' = link /\ given' = given /\ settled' = [settled EXCEPT ![r] = "failed"]
      BY <2>2, <2>4 DEF Request
    <3> QED BY <1>0, <1>2, <2>1, <2>3, <3>1 DEF FrtunTypeOK, LinksOK, StartedStay, WalletInv
  <2>5. CASE l.socket # "closed"
    <3> DEFINE queue == Append(l.queue, r)
    <3>1. queue \in Seq(Ids)
      BY <2>2, <2>3 DEF Link
    <3>2. Sent(l, queue) \in Link /\ Sent(l, queue).stage = l.stage /\ Sent(l, queue).socket = l.socket
      BY <2>2, <3>1, SentType
    <3>3. Next1(l, [Sent(l, queue) EXCEPT !.queue = queue])
      BY <2>2, <2>5, <3>1, <3>2 DEF Next1, Link, LinkOK, Started
    <3>4. Become(p, [Sent(l, queue) EXCEPT !.queue = queue]) /\ UNCHANGED <<given, settled>>
      BY <2>2, <2>5 DEF Request
    <3>5. Sockets
      BY <1>0, <2>2, <3>3, <3>4, Evolves DEF FrtunTypeOK
    <3> QED BY <1>2, <2>1, <3>5 DEF WalletInv
  <2> QED BY <2>4, <2>5
<1>11. CASE Disconnect
  <2>1. ContextTypes' /\ OneWay' /\ StoredIsShown' /\ Kept /\ AdapterStarted'
    BY <1>0, <1>11 DEF Disconnect, ContextTypes, OneWay, StoredIsShown, AdapterStarted
  <2>2. Sockets
    BY <1>0, <1>11, DisconnectStep DEF Disconnect, ContextTypes, WalletInv
  <2> QED BY <2>1, <2>2 DEF WalletInv
<1>12. CASE Reload
  <2>1. ContextTypes' /\ OneWay' /\ StoredIsShown' /\ Kept /\ AdapterStarted'
    BY <1>0, <1>12 DEF Reload, ContextTypes, OneWay, StoredIsShown, AdapterStarted
  <2>2. \A p \in Pairings : link'[p] \in Link /\ LinkOK(link'[p])
    <3> TAKE p \in Pairings
    <3>1. link[p] \in Link /\ LinkOK(link[p])
      BY <1>0 DEF FrtunTypeOK, LinksOK
    <3>2. link'[p] = IF link[p].stage = "none" THEN link[p] ELSE Dead(link[p])
      BY <1>12 DEF Reload
    <3> QED BY <3>1, <3>2, DeadNext DEF Next1
  <2>3. link' \in [Pairings -> Link]
    BY <1>12, <2>2 DEF Reload
  <2>4. FrtunTypeOK'
    BY <1>0, <1>12, <2>3, FailQueuedType DEF Reload, FrtunTypeOK
  <2> QED BY <2>1, <2>2, <2>4 DEF LinksOK, WalletInv
<1>13. CASE UNCHANGED walletVars
  <2>1. UNCHANGED frtunVars /\ UNCHANGED contextVars
    BY <1>13 DEF walletVars
  <2>2. ContextTypes' /\ OneWay' /\ StoredIsShown' /\ Kept /\ adapter' = adapter
    BY <1>0, <2>1 DEF contextVars, ContextTypes, OneWay, StoredIsShown
  <2> QED BY <1>1, <1>2, <2>1, <2>2 DEF WalletInv
<1> QED
  BY <1>3, <1>4, <1>5, <1>6, <1>7, <1>8, <1>9, <1>10, <1>11, <1>12, <1>13 DEF WalletNext

LEMMA InvAlways == WalletSpec => []WalletInv
<1>1. WalletInv /\ [WalletNext]_walletVars => WalletInv'
  BY WalletStep
<1> QED BY <1>1, InitInv, PTL DEF WalletSpec

----------------------------------------------------------------------------
(* What follows *)

\* Every variable of the pairings and of the page keeps its type.
THEOREM WalletTypes == WalletSpec => []WalletTypeOK
<1>1. WalletInv => WalletTypeOK
  BY DEF WalletInv, ContextTypes, WalletTypeOK
<1> QED BY <1>1, InvAlways, PTL

\* transport.ts: a request never waits on a dead socket, whenever the socket
\* died: opening, paired, with requests queued, or because the page closed it.
THEOREM DeadSocketsSettle == WalletSpec => []DeadSettles
<1>1. WalletInv => DeadSettles
  BY DEF WalletInv, LinksOK, LinkOK, DeadSettles
<1> QED BY <1>1, InvAlways, PTL

\* VendorWalletContext.tsx: loading the page again shows the wallet it showed,
\* and messages go to the phone of the session.
THEOREM StorageFollows == WalletSpec => []StoredIsShown
<1>1. WalletInv => StoredIsShown
  BY DEF WalletInv
<1> QED BY <1>1, InvAlways, PTL

\* ConnectWalletModal.tsx: no pairing or popup that ends late replaces the
\* wallet shown.
THEOREM WalletNeverReplaced == WalletSpec => NoReplacement
<1>1. WalletInv /\ [WalletNext]_walletVars
        => [session # Nobody /\ session' # session => session' = Nobody]_walletVars
  BY WalletStep
<1> QED BY <1>1, InvAlways, PTL DEF WalletSpec, NoReplacement

----------------------------------------------------------------------------
(* The requests are calls *)

Elements(queue) == {queue[i] : i \in DOMAIN queue}
Members(l) == Elements(l.queue)
Once(queue) == \A i, j \in DOMAIN queue : queue[i] = queue[j] => i = j
Early(l) == l.stage \in {"none", "opening", "ready", "incoming", "key"}
Waits(id) == \E p \in Pairings : id \in Members(link[p])
Called(id) == Waits(id) \/ settled[id] # "no"

\* What waits in a queue has not ended, and getAccounts waits in that of its
\* own pairing.
QueueOK(p, l) ==
    /\ Once(l.queue)
    /\ \A id \in Members(l) : settled[id] = "no" /\ (id \in Pairings => id = p)

\* getAccounts is asked once, on a stream that nobody has used before.
StageOK(p, l) ==
    /\ Early(l) => l.queue = <<>> /\ settled[p] = "no"
    /\ l.stage = "paired" => p \notin Members(l)

\* The phone has got requests that were made, and its frames say what it said.
AskedOK(l) == \A id \in l.asked : Called(id)
WireOK(l) == \A i \in DOMAIN l.wire :
                l.wire[i].kind \in Answers => <<l.wire[i].re, l.wire[i].kind>> \in given

CallsInv ==
    /\ \A p \in Pairings : QueueOK(p, link[p]) /\ StageOK(p, link[p])
    /\ \A p \in Pairings : AskedOK(link[p]) /\ WireOK(link[p])
    /\ \A p, q \in Pairings : p # q => Members(link[p]) \cap Members(link[q]) = {}

LEMMA QueueTail ==
    ASSUME NEW queue \in Seq(Ids), queue # <<>>, Once(queue)
    PROVE  /\ Elements(Tail(queue)) = Elements(queue) \ {Head(queue)}
           /\ Head(queue) \in Elements(queue)
           /\ Once(Tail(queue))
<1>1. /\ Len(queue) \in Nat \ {0} /\ DOMAIN queue = 1..Len(queue)
      /\ DOMAIN Tail(queue) = 1..(Len(queue) - 1) /\ Head(queue) = queue[1]
      /\ \A i \in 1..(Len(queue) - 1) : Tail(queue)[i] = queue[i + 1]
  OBVIOUS
<1>2. \A i \in 1..Len(queue) : i = 1 \/ (i - 1 \in 1..(Len(queue) - 1) /\ (i - 1) + 1 = i)
  BY <1>1
<1>3. \A i \in 1..(Len(queue) - 1) : i + 1 \in 1..Len(queue) /\ i + 1 # 1
  BY <1>1
<1>4. 1 \in DOMAIN queue
  BY <1>1
<1>5. Elements(Tail(queue)) \subseteq Elements(queue) \ {Head(queue)}
  BY <1>1, <1>3, <1>4 DEF Elements, Once
<1>6. Elements(queue) \ {Head(queue)} \subseteq Elements(Tail(queue))
  <2> SUFFICES ASSUME NEW i \in 1..Len(queue), queue[i] # Head(queue)
               PROVE  queue[i] \in Elements(Tail(queue))
    BY <1>1 DEF Elements
  <2>1. i - 1 \in DOMAIN Tail(queue) /\ Tail(queue)[i - 1] = queue[i]
    BY <1>1, <1>2
  <2> QED BY <2>1 DEF Elements
<1>7. Once(Tail(queue))
  <2> SUFFICES ASSUME NEW i \in 1..(Len(queue) - 1), NEW j \in 1..(Len(queue) - 1),
                      queue[i + 1] = queue[j + 1]
               PROVE  i = j
    BY <1>1 DEF Once
  <2>1. i + 1 = j + 1
    BY <1>1, <1>3 DEF Once
  <2> QED BY <2>1
<1> QED BY <1>4, <1>5, <1>6, <1>7, <1>1 DEF Elements

LEMMA QueueAppend ==
    ASSUME NEW queue \in Seq(Ids), Once(queue), NEW id \in Ids, id \notin Elements(queue)
    PROVE  /\ Elements(Append(queue, id)) = Elements(queue) \cup {id}
           /\ Once(Append(queue, id)) /\ Append(queue, id) \in Seq(Ids) /\ Append(queue, id) # <<>>
           /\ Head(Append(queue, id)) \in Elements(queue) \cup {id}
<1> DEFINE n == Len(queue)
           longer == Append(queue, id)
<1>1. /\ n \in Nat /\ DOMAIN queue = 1..n /\ DOMAIN longer = 1..(n + 1)
      /\ longer \in Seq(Ids) /\ longer # <<>> /\ Head(longer) = longer[1]
      /\ \A i \in 1..n : longer[i] = queue[i]
      /\ longer[n + 1] = id
  OBVIOUS
<1> HIDE DEF longer, n
<1>2. /\ \A i \in 1..(n + 1) : i \in 1..n \/ i = n + 1
      /\ \A i \in 1..n : i \in 1..(n + 1)
      /\ n + 1 \in 1..(n + 1) /\ 1 \in 1..(n + 1)
  BY <1>1
<1>3. Elements(longer) = Elements(queue) \cup {id}
  BY <1>1, <1>2 DEF Elements
<1>4. Once(longer)
  BY <1>1, <1>2 DEF Once, Elements
<1>5. Head(longer) \in Elements(longer)
  BY <1>1, <1>2 DEF Elements
<1> QED BY <1>1, <1>3, <1>4, <1>5 DEF longer

Given(g) == g \in Ids \X Answers /\ Called(g[1])

\* What a call's outcome may become.
Proceeds(id) ==
    \/ Outcome(id)' = Outcome(id)
    \/ Outcome(id) = "idle" /\ Outcome(id)' = "waiting"
    \/ Outcome(id) = "waiting" /\ <<id, Outcome(id)'>> \in given
    \/ Outcome(id) \in {"idle", "waiting"} /\ Outcome(id)' = "failed"

CallsMove ==
    /\ given \subseteq given' /\ \A g \in given' \ given : Given(g)
    /\ \A id \in Ids : Proceeds(id)

\* A request that ends leaves its queue, if it was in one.
Ends(p, l, id) ==
    /\ settled[id] = "no"
    /\ id \notin Members(l)
    /\ \/ id \in Members(link[p])
       \/ ~Waits(id) /\ id \in Requests /\ settled'[id] = "failed"
    /\ settled'[id] = "failed" \/ (settled'[id] \in Answers /\ <<id, settled'[id]>> \in given)

\* The step of one pairing: new requests join its queue, those that end leave.
LEMMA OneLink ==
    ASSUME FrtunTypeOK, CallsInv, NEW p \in Pairings, NEW l, Become(p, l),
           given \subseteq given', \A g \in given' \ given : Given(g),
           \A id \in Ids : settled'[id] = settled[id] \/ Ends(p, l, id),
           Once(l.queue), Members(l) \subseteq Ids,
           \A id \in Members(l) \ Members(link[p]) : ~Called(id) /\ (id \in Pairings => id = p),
           \A id \in Members(link[p]) \ Members(l) : settled'[id] # settled[id],
           Early(l) => l.queue = <<>> /\ Early(link[p]),
           l.stage = "paired" => p \notin Members(l),
           \A id \in l.asked : id \in link[p].asked \/ id \in Members(l),
           \A i \in DOMAIN l.wire :
              l.wire[i].kind \in Answers => <<l.wire[i].re, l.wire[i].kind>> \in given'
    PROVE  CallsInv' /\ CallsMove
<1>1. /\ link' \in [Pairings -> {link'[q] : q \in Pairings}]
      /\ \A q \in Pairings : link'[q] = IF q = p THEN l ELSE link[q]
  BY DEF Become, FrtunTypeOK
<1>2. /\ \A q \in Pairings : Members(link[q]) \subseteq Ids
      /\ \A q \in Pairings : \A id \in Members(link[q]) : settled[id] = "no" /\ (id \in Pairings => id = q)
      /\ \A q, r \in Pairings : q # r => Members(link[q]) \cap Members(link[r]) = {}
      /\ Pairings \subseteq Ids /\ Pairings \cap Requests = {}
  <2>1. ASSUME NEW q \in Pairings
        PROVE  Members(link[q]) \subseteq Ids
    <3>1. link[q].queue \in Seq(Ids)
      BY DEF FrtunTypeOK, Link
    <3> QED BY <3>1 DEF Members, Elements
  <2> QED BY <2>1, FrtunAssumption DEF CallsInv, QueueOK, Ids
<1>3. \A id \in Ids : Waits(id)' <=> id \in Members(l) \/ (\E q \in Pairings \ {p} : id \in Members(link[q]))
  BY <1>1 DEF Waits, Members
<1>4. \A id \in Ids : Called(id) => Called(id)'
  <2> SUFFICES ASSUME NEW id \in Ids, Called(id) PROVE Called(id)'
    OBVIOUS
  <2>1. CASE settled[id] # "no"
    BY <2>1 DEF Called, Ends
  <2>2. CASE Waits(id) /\ settled[id] = "no"
    <3>1. PICK q \in Pairings : id \in Members(link[q])
      BY <2>2 DEF Waits
    <3> QED BY <1>3, <2>2, <3>1 DEF Called
  <2> QED BY <2>1, <2>2 DEF Called
<1>5. \A id \in Ids : Ends(p, l, id) => ~Waits(id)'
  BY <1>2, <1>3 DEF Ends, Waits
<1>6. ASSUME NEW q \in Pairings
      PROVE  QueueOK(q, link[q])' /\ StageOK(q, link[q])'
  <2>1. QueueOK(q, link[q]) /\ StageOK(q, link[q]) /\ link'[q] = IF q = p THEN l ELSE link[q]
    BY <1>1 DEF CallsInv
  <2>2. \A id \in Members(link'[q]) : settled'[id] = "no" /\ (id \in Pairings => id = q)
    <3> SUFFICES ASSUME NEW id \in Members(link'[q])
                 PROVE  settled'[id] = "no" /\ (id \in Pairings => id = q)
      OBVIOUS
    <3>1. id \in Ids /\ Waits(id)'
      BY <1>2, <2>1 DEF Waits
    <3>2. settled'[id] = settled[id]
      BY <1>5, <3>1
    <3> QED BY <1>2, <2>1, <3>1, <3>2 DEF Called
  <2>3. Early(link'[q]) => link'[q].queue = <<>> /\ settled'[q] = "no"
    <3> SUFFICES ASSUME Early(link'[q])
                 PROVE  link'[q].queue = <<>> /\ settled'[q] = "no"
      OBVIOUS
    <3>1. link'[q].queue = <<>> /\ link[q].queue = <<>> /\ settled[q] = "no"
      BY <2>1 DEF StageOK
    <3>2. q \notin Members(link[q])
      BY <3>1 DEF Members, Elements
    <3> QED BY <1>2, <3>1, <3>2 DEF Ends
  <2>4. link'[q].stage = "paired" => q \notin Members(link'[q])
    BY <2>1 DEF StageOK
  <2> QED BY <2>1, <2>2, <2>3, <2>4 DEF QueueOK, StageOK, Members, Early
<1>7. ASSUME NEW q \in Pairings
      PROVE  AskedOK(link[q])' /\ WireOK(link[q])'
  <2>1. AskedOK(link[q]) /\ WireOK(link[q]) /\ AskedOK(link[p]) /\ link'[q] = IF q = p THEN l ELSE link[q]
    BY <1>1 DEF CallsInv
  <2>2. link[q].asked \subseteq Ids
    BY DEF FrtunTypeOK, Link
  <2>3. \A id \in link'[q].asked : Called(id)'
    <3>1. \A id \in link[q].asked : Called(id)'
      BY <1>4, <2>1, <2>2 DEF AskedOK
    <3>2. \A id \in Members(l) : Called(id)'
      BY <1>3 DEF Called
    <3> QED BY <2>1, <3>1, <3>2
  <2>4. WireOK(link[q])'
    BY <2>1 DEF WireOK
  <2> QED BY <2>3, <2>4 DEF AskedOK
<1>8. \A q, r \in Pairings : q # r => Members(link'[q]) \cap Members(link'[r]) = {}
  <2>1. \A q \in Pairings : q # p => Members(l) \cap Members(link[q]) = {}
    BY <1>2 DEF Called, Waits
  <2> QED BY <1>1, <1>2, <2>1
<1>9. CallsInv'
  BY <1>6, <1>7, <1>8 DEF CallsInv, Members
<1>10. ASSUME NEW id \in Ids
       PROVE  Proceeds(id)
  <2>1. /\ Outcome(id) = IF Waits(id) THEN "waiting" ELSE IF settled[id] = "no" THEN "idle" ELSE settled[id]
        /\ Outcome(id)' = IF Waits(id)' THEN "waiting"
                          ELSE IF settled'[id] = "no" THEN "idle" ELSE settled'[id]
    BY DEF Outcome, Waits, Queued, Members, Elements
  <2>2. CASE Ends(p, l, id)
    <3>1. Outcome(id)' = settled'[id]
      BY <1>5, <2>1, <2>2 DEF Ends, Answers
    <3>2. Outcome(id) \in {"idle", "waiting"} /\ (id \in Members(link[p]) => Outcome(id) = "waiting")
      BY <2>1, <2>2 DEF Ends, Waits
    <3> QED BY <2>2, <3>1, <3>2 DEF Proceeds, Ends
  <2>3. CASE settled'[id] = settled[id] /\ Waits(id)
    <3>1. Waits(id)'
      BY <1>3, <2>3 DEF Waits
    <3> QED BY <2>1, <2>3, <3>1 DEF Proceeds
  <2>4. CASE settled'[id] = settled[id] /\ ~Waits(id)
    <3>1. Waits(id)' => settled[id] = "no"
      BY <1>3, <2>4 DEF Waits, Called
    <3> QED BY <2>1, <2>4, <3>1 DEF Proceeds
  <2> QED BY <2>2, <2>3, <2>4
<1> QED BY <1>9, <1>10 DEF CallsMove

\* Nothing joins or leaves the queue: the stage moves on, frames come and go.
LEMMA NoCall ==
    ASSUME FrtunTypeOK, CallsInv, NEW p \in Pairings, NEW l, Become(p, l), Quietly,
           l.queue = link[p].queue, Early(l) => Early(link[p]),
           l.stage = "paired" => link[p].stage = "paired", l.asked \subseteq link[p].asked,
           \A i \in DOMAIN l.wire : l.wire[i].kind \in Answers =>
              \E j \in DOMAIN link[p].wire : l.wire[i] = link[p].wire[j]
    PROVE  CallsInv' /\ CallsMove
<1>1. Members(l) = Members(link[p]) /\ given' = given /\ settled' = settled
  BY DEF Members, Quietly
<1>2. QueueOK(p, link[p]) /\ StageOK(p, link[p]) /\ WireOK(link[p])
  BY DEF CallsInv
<1>3. Members(link[p]) \subseteq Ids
  <2>1. link[p].queue \in Seq(Ids)
    BY DEF FrtunTypeOK, Link
  <2> QED BY <2>1 DEF Members, Elements
<1> QED BY <1>1, <1>2, <1>3, OneLink DEF QueueOK, StageOK, WireOK

LEMMA SentAsks ==
    ASSUME NEW l \in Link, NEW queue \in Seq(Ids)
    PROVE  /\ Sent(l, queue) \in Link /\ Sent(l, queue).wire = l.wire
           /\ Sent(l, queue).stage = l.stage /\ Sent(l, queue).queue = l.queue
           /\ Sent(l, queue).socket = l.socket
           /\ \A id \in Sent(l, queue).asked : id \in l.asked \/ id \in Elements(queue)
<1>1. queue # <<>> => Head(queue) \in Elements(queue) /\ Head(queue) \in Ids
  <2> SUFFICES ASSUME queue # <<>> PROVE Head(queue) \in Elements(queue) /\ Head(queue) \in Ids
    OBVIOUS
  <2>1. 1 \in DOMAIN queue /\ Head(queue) = queue[1] /\ Head(queue) \in Ids
    OBVIOUS
  <2> QED BY <2>1 DEF Elements
<1> DEFINE more == IF queue # <<>> /\ l.socket = "open" THEN l.asked \cup {Head(queue)} ELSE l.asked
<1>2. Sent(l, queue) = [l EXCEPT !.asked = more]
  BY DEF Sent
<1>3. more \subseteq Ids /\ \A id \in more : id \in l.asked \/ id \in Elements(queue)
  BY <1>1 DEF Link
<1> HIDE DEF more
<1> QED BY <1>2, <1>3 DEF Link

\* The first request of a queue ends.
LEMMA SettleCalls ==
    ASSUME FrtunTypeOK, CallsInv, NEW p \in Pairings, NEW l \in Link, NEW how, Settle(p, l, how),
           l.queue = link[p].queue, l.queue # <<>>, l.stage = link[p].stage,
           l.asked = link[p].asked,
           how = "failed" \/ (how \in Answers /\ <<Head(l.queue), how>> \in given),
           \A i \in DOMAIN l.wire : \E j \in DOMAIN link[p].wire : l.wire[i] = link[p].wire[j]
    PROVE  CallsInv' /\ CallsMove /\ (link[p].stage = "paired" => link'[p].stage = "paired")
<1> DEFINE id == Head(l.queue)
           rest == Tail(l.queue)
           new == [Sent(l, rest) EXCEPT !.queue = rest,
                                        !.stage = IF id # p THEN @
                                                  ELSE IF how = "result" THEN "paired" ELSE "failed"]
<1>1. /\ settled' = [settled EXCEPT ![id] = how] /\ Become(p, new) /\ given' = given
  BY DEF Settle
<1>2. /\ l.queue \in Seq(Ids) /\ rest \in Seq(Ids) /\ id \in Ids /\ Once(l.queue)
      /\ QueueOK(p, link[p]) /\ StageOK(p, link[p]) /\ AskedOK(link[p]) /\ WireOK(link[p])
  BY DEF Link, CallsInv, QueueOK
<1>3. /\ Elements(rest) = Members(link[p]) \ {id} /\ id \in Members(link[p]) /\ Once(rest)
      /\ Members(link[p]) \subseteq Ids
  <2>1. Members(link[p]) \subseteq Ids
    BY <1>2 DEF Members, Elements
  <2> QED BY <1>2, <2>1, QueueTail DEF Members
<1>4. /\ new.queue = rest /\ new.wire = l.wire
      /\ new.stage = IF id # p THEN link[p].stage ELSE IF how = "result" THEN "paired" ELSE "failed"
      /\ \A i \in new.asked : i \in link[p].asked \/ i \in Elements(rest)
  <2> DEFINE sent == Sent(l, rest)
  <2>1. /\ sent \in Link /\ sent.wire = l.wire /\ sent.stage = l.stage
        /\ \A i \in sent.asked : i \in l.asked \/ i \in Elements(rest)
    BY <1>2, SentAsks
  <2> HIDE DEF sent
  <2>2. new = [sent EXCEPT !.queue = rest,
                           !.stage = IF id # p THEN @ ELSE IF how = "result" THEN "paired" ELSE "failed"]
    BY DEF sent
  <2> HIDE DEF new, rest, id
  <2> QED BY <2>1, <2>2 DEF Link
<1> HIDE DEF new
<1>5. Members(new) = Members(link[p]) \ {id}
  BY <1>3, <1>4 DEF Members
<1> HIDE DEF id, rest
<1>6. Early(new) => new.queue = <<>> /\ Early(link[p])
  BY <1>2, <1>3, <1>4 DEF StageOK, Early, Members, Elements
<1>7. new.stage = "paired" => p \notin Members(new)
  BY <1>2, <1>4, <1>5 DEF StageOK
<1>8. settled[id] = "no" /\ how # "no" /\ settled \in [Ids -> Answers \cup {"no", "failed"}]
  BY <1>2, <1>3 DEF QueueOK, FrtunTypeOK, Answers, id
<1>9. \A i \in Ids : settled'[i] = settled[i] \/ Ends(p, new, i)
  <2>1. \A i \in Ids : i # id => settled'[i] = settled[i]
    BY <1>1, <1>8
  <2>2. settled'[id] = how
    BY <1>1, <1>2, <1>8
  <2>3. how = "failed" \/ (how \in Answers /\ <<id, how>> \in given)
    BY DEF id
  <2>4. Ends(p, new, id)
    BY <1>3, <1>5, <1>8, <2>2, <2>3 DEF Ends
  <2> QED BY <2>1, <2>4
<1>10. settled'[id] # settled[id]
  BY <1>1, <1>2, <1>8
<1>11. \A i \in DOMAIN new.wire : new.wire[i].kind \in Answers => <<new.wire[i].re, new.wire[i].kind>> \in given'
  BY <1>1, <1>2, <1>4 DEF WireOK
<1>12. CallsInv' /\ CallsMove
  <2>1. Once(new.queue) /\ Members(new) \subseteq Ids
    BY <1>3, <1>4, <1>5
  <2>2. Members(new) \ Members(link[p]) = {} /\ \A i \in Members(link[p]) \ Members(new) : i = id
    BY <1>5
  <2>3. \A i \in new.asked : i \in link[p].asked \/ i \in Members(new)
    BY <1>3, <1>4, <1>5
  <2> QED BY <1>1, <1>6, <1>7, <1>9, <1>10, <1>11, <2>1, <2>2, <2>3, OneLink
<1>13. link[p].stage = "paired" => link'[p].stage = "paired"
  BY <1>1, <1>2, <1>3, <1>4 DEF StageOK, Become, FrtunTypeOK
<1> QED BY <1>12, <1>13

\* A request joins the queue: none has been made of it before.
LEMMA JoinCalls ==
    ASSUME FrtunTypeOK, CallsInv, NEW p \in Pairings, NEW l \in Link, NEW id \in Ids,
           ~Called(id), id \in Pairings => id = p,
           l.queue = link[p].queue, l.asked = link[p].asked,
           \A i \in DOMAIN l.wire : \E j \in DOMAIN link[p].wire : l.wire[i] = link[p].wire[j],
           NEW stage, stage = "accounts" \/ (stage = link[p].stage /\ ~Early(link[p]) /\ id # p),
           NEW queue, queue = Append(l.queue, id),
           Become(p, [Sent(l, queue) EXCEPT !.stage = stage, !.queue = queue]),
           UNCHANGED <<given, settled>>
    PROVE  CallsInv' /\ CallsMove
<1> DEFINE new == [Sent(l, queue) EXCEPT !.stage = stage, !.queue = queue]
<1>1. /\ l.queue \in Seq(Ids) /\ Once(l.queue) /\ Members(link[p]) = Elements(l.queue)
      /\ QueueOK(p, link[p]) /\ StageOK(p, link[p]) /\ AskedOK(link[p]) /\ WireOK(link[p])
  BY DEF Link, CallsInv, QueueOK, Members
<1>2. id \notin Elements(l.queue) /\ Members(link[p]) \subseteq Ids
  BY <1>1 DEF Called, Waits, Elements
<1>3. Elements(queue) = Elements(l.queue) \cup {id} /\ Once(queue) /\ queue \in Seq(Ids) /\ queue # <<>>
  BY <1>1, <1>2, QueueAppend
<1>4. /\ new.queue = queue /\ new.wire = l.wire /\ new.stage = stage
      /\ \A i \in new.asked : i \in link[p].asked \/ i \in Elements(queue)
  <2> DEFINE sent == Sent(l, queue)
  <2>1. /\ sent \in Link /\ sent.wire = l.wire
        /\ \A i \in sent.asked : i \in l.asked \/ i \in Elements(queue)
    BY <1>3, SentAsks
  <2> HIDE DEF sent
  <2>2. new = [sent EXCEPT !.stage = stage, !.queue = queue]
    BY DEF sent
  <2> HIDE DEF new
  <2> QED BY <2>1, <2>2 DEF Link
<1> HIDE DEF new
<1>5. Members(new) = Members(link[p]) \cup {id}
  BY <1>1, <1>3, <1>4 DEF Members
<1>6. ~Early(new)
  BY <1>4 DEF Early
<1>7. new.stage = "paired" => p \notin Members(new)
  BY <1>1, <1>4, <1>5 DEF StageOK
<1>8. \A i \in DOMAIN new.wire : new.wire[i].kind \in Answers => <<new.wire[i].re, new.wire[i].kind>> \in given'
  BY <1>1, <1>4 DEF WireOK
<1>9. Become(p, new) /\ Once(new.queue) /\ Members(new) \subseteq Ids
  BY <1>2, <1>3, <1>4, <1>5 DEF new
<1>10. \A i \in new.asked : i \in link[p].asked \/ i \in Members(new)
  BY <1>1, <1>3, <1>4, <1>5
<1>11. \A i \in Members(new) \ Members(link[p]) : i = id
  BY <1>5
<1>12. Members(link[p]) \ Members(new) = {}
  BY <1>5
<1> QED BY <1>6, <1>7, <1>8, <1>9, <1>10, <1>11, <1>12, OneLink

PairedStay == \A p \in Pairings : link[p].stage = "paired" => link'[p].stage = "paired"

LEMMA DieCalls ==
    ASSUME FrtunTypeOK, CallsInv, NEW p \in Pairings, link[p].stage # "none", Become(p, Dead(link[p])),
           FailQueued({p}), UNCHANGED given
    PROVE  CallsInv' /\ CallsMove
<1> DEFINE l == Dead(link[p])
<1>1. link[p] \in Link /\ Members(link[p]) \subseteq Ids /\ QueueOK(p, link[p])
  <2>1. link[p] \in Link /\ link[p].queue \in Seq(Ids)
    BY DEF FrtunTypeOK, Link
  <2> QED BY <2>1 DEF Members, Elements, CallsInv
<1>2. /\ l.queue = <<>> /\ l.asked = {} /\ l.wire = <<>>
      /\ l.stage \in {"none", "paired", "failed"} /\ l.stage # "none"
  BY <1>1 DEF Dead, Link
<1> HIDE DEF l
<1>3. Members(l) = {} /\ Once(l.queue) /\ ~Early(l) /\ DOMAIN l.wire = {}
  BY <1>2 DEF Members, Elements, Once, Early
<1>4. \A id \in Ids : settled'[id] = IF id \in Members(link[p]) THEN "failed" ELSE settled[id]
  BY DEF FailQueued, Queued, Members, Elements
<1>5. \A id \in Ids : settled'[id] = settled[id] \/ Ends(p, l, id)
  BY <1>1, <1>3, <1>4 DEF Ends, QueueOK
<1>6. \A id \in Members(link[p]) : settled'[id] # settled[id]
  BY <1>1, <1>4 DEF QueueOK
<1>7. Become(p, l)
  BY DEF l
<1> QED BY <1>2, <1>3, <1>5, <1>6, <1>7, OneLink

LEMMA TransportCalls ==
    ASSUME FrtunTypeOK, LinksOK, CallsInv, NEW p \in Pairings, Transport(p)
    PROVE  CallsInv' /\ CallsMove /\ PairedStay
<1> DEFINE l == link[p]
           Goal == CallsInv' /\ CallsMove /\ PairedStay
<1>1. l \in Link /\ LinkOK(l) /\ l.wire \in Seq(Frame) /\ l.queue \in Seq(Ids)
  BY DEF FrtunTypeOK, LinksOK, Link
<1>2. ASSUME NEW m, Become(p, m), l.stage = "paired" => m.stage = "paired"
      PROVE  PairedStay
  BY <1>2 DEF PairedStay, Become, FrtunTypeOK
<1>3. ASSUME NEW m, Become(p, m), Quietly, m.queue = l.queue, m.asked = l.asked,
             Early(m) => Early(l), m.stage = "paired" <=> l.stage = "paired",
             \A i \in DOMAIN m.wire : m.wire[i].kind \in Answers =>
                \E j \in DOMAIN l.wire : m.wire[i] = l.wire[j]
      PROVE  Goal
  BY <1>2, <1>3, NoCall
<1> HIDE DEF Goal
<1>4. ASSUME NEW f
      PROVE  \A i \in DOMAIN Append(l.wire, f) :
                Append(l.wire, f)[i] = f \/ \E j \in DOMAIN l.wire : Append(l.wire, f)[i] = l.wire[j]
  BY <1>1
<1>5. CASE Opened(p)
  <2>1. l.stage = "opening" /\ Become(p, [l EXCEPT !.stage = "ready", !.socket = "open"]) /\ Quietly
    BY <1>1, <1>5 DEF Opened, LinkOK
  <2> QED BY <1>1, <1>3, <2>1 DEF Link, Early, Goal
<1>6. CASE OpenFails(p)
  <2>1. l.stage = "opening" /\ Become(p, [l EXCEPT !.stage = "failed", !.socket = "closed"]) /\ Quietly
    BY <1>1, <1>6 DEF OpenFails, LinkOK
  <2> QED BY <1>1, <1>3, <2>1 DEF Link, Early, Goal
<1>7. CASE BridgeSays(p)
  <2>1. PICK far \in {"listening", "gone"}, kind \in {"ready", "refused"} :
           Become(p, [l EXCEPT !.far = far, !.wire = Append(l.wire, Say(kind))]) /\ Quietly
    BY <1>7 DEF BridgeSays
  <2> DEFINE m == [l EXCEPT !.far = far, !.wire = Append(l.wire, Say(kind))]
  <2>2. /\ m.queue = l.queue /\ m.asked = l.asked /\ m.stage = l.stage
        /\ m.wire = Append(l.wire, Say(kind)) /\ Say(kind).kind \notin Answers
    BY <1>1 DEF Link, Say, Answers
  <2>3. Become(p, m) /\ Quietly
    BY <2>1
  <2> HIDE DEF m
  <2>4. \A i \in DOMAIN m.wire : m.wire[i] = Say(kind) \/ \E j \in DOMAIN l.wire : m.wire[i] = l.wire[j]
    BY <1>4, <2>2
  <2> QED BY <1>3, <2>2, <2>3, <2>4 DEF Early, Goal
<1>8. CASE Dial(p)
  <2>1. PICK first \in {"key", "junk"} :
           Become(p, [l EXCEPT !.far = "dialed", !.wire = l.wire \o <<Say("incoming"), Say(first)>>])
    BY <1>8 DEF Dial
  <2> DEFINE more == <<Say("incoming"), Say(first)>>
             m == [l EXCEPT !.far = "dialed", !.wire = l.wire \o more]
  <2>2. /\ m.queue = l.queue /\ m.asked = l.asked /\ m.stage = l.stage /\ m.wire = l.wire \o more
        /\ Say("incoming").kind \notin Answers /\ Say(first).kind \notin Answers
    BY <1>1 DEF Link, Say, Answers
  <2>3. Become(p, m) /\ Quietly
    BY <1>8, <2>1 DEF Dial
  <2> HIDE DEF m
  <2>4. \A i \in DOMAIN (l.wire \o more) :
           (l.wire \o more)[i] \in {Say("incoming"), Say(first)}
             \/ \E j \in DOMAIN l.wire : (l.wire \o more)[i] = l.wire[j]
    BY <1>1
  <2> QED BY <1>3, <2>2, <2>3, <2>4 DEF Early, Goal
<1>9. ASSUME NEW id \in Ids, Answer(p, id)
      PROVE  Goal
  <2>0. PICK a \in Answers :
           /\ given' = given \cup {<<id, a>>}
           /\ \E f \in {[kind |-> a, re |-> id], Say("junk")} :
                 Become(p, [l EXCEPT !.wire = Append(@, f)])
    BY <1>9 DEF Answer
  <2>1. PICK f \in {[kind |-> a, re |-> id], Say("junk")} :
           Become(p, [l EXCEPT !.wire = Append(l.wire, f)])
    BY <2>0
  <2> DEFINE m == [l EXCEPT !.wire = Append(l.wire, f)]
  <2>2. /\ m.queue = l.queue /\ m.asked = l.asked /\ m.stage = l.stage
        /\ m.wire = Append(l.wire, f) /\ Become(p, m) /\ settled' = settled
    BY <1>1, <1>9, <2>1 DEF Link, Answer
  <2> HIDE DEF m
  <2>3. QueueOK(p, l) /\ StageOK(p, l) /\ WireOK(l) /\ AskedOK(l) /\ Members(m) = Members(l)
    BY <2>2 DEF CallsInv, Members
  <2>4. f.kind \in Answers => <<f.re, f.kind>> \in given'
    BY <2>0, <2>1 DEF Say, Answers
  <2>5. \A i \in DOMAIN m.wire : m.wire[i].kind \in Answers => <<m.wire[i].re, m.wire[i].kind>> \in given'
    <3>1. \A i \in DOMAIN m.wire : m.wire[i] = f \/ \E j \in DOMAIN l.wire : m.wire[i] = l.wire[j]
      BY <1>4, <2>2
    <3> QED BY <2>0, <2>3, <2>4, <3>1 DEF WireOK
  <2>6. Given(<<id, a>>)
    BY <1>9, <2>3 DEF Given, AskedOK, Answer
  <2>7. \A g \in given' \ given : Given(g)
    BY <2>0, <2>6
  <2>8. Members(l) \subseteq Ids
    BY <1>1 DEF Members, Elements
  <2>9. CallsInv' /\ CallsMove
    BY <2>0, <2>2, <2>3, <2>5, <2>7, <2>8, OneLink DEF QueueOK, StageOK, Early
  <2> QED BY <1>2, <2>2, <2>9 DEF Goal
<1>10. ASSUME NEW kinds, Arrives(p, kinds)
       PROVE  /\ Taken(p) \in Link /\ l.socket = "open" /\ Taken(p).socket = l.socket
              /\ Taken(p).stage = l.stage /\ Taken(p).queue = l.queue /\ Taken(p).asked = l.asked
              /\ Taken(p).wire = Tail(l.wire) /\ 1 \in DOMAIN l.wire /\ Head(l.wire) = l.wire[1]
              /\ \A i \in DOMAIN Taken(p).wire : \E j \in DOMAIN l.wire : Taken(p).wire[i] = l.wire[j]
  <2>1. Tail(l.wire) \in Seq(Frame) /\ l.wire # <<>> /\ l.socket = "open"
    BY <1>1, <1>10 DEF Arrives
  <2>2. /\ \A i \in DOMAIN Tail(l.wire) : i + 1 \in DOMAIN l.wire /\ Tail(l.wire)[i] = l.wire[i + 1]
        /\ 1 \in DOMAIN l.wire /\ Head(l.wire) = l.wire[1]
    BY <1>1, <2>1
  <2>3. Taken(p) = [l EXCEPT !.wire = Tail(l.wire)]
    BY DEF Taken
  <2> DEFINE w == Tail(l.wire)
  <2>4. Taken(p) = [l EXCEPT !.wire = w] /\ w \in Seq(Frame)
    BY <2>1, <2>3
  <2> HIDE DEF w
  <2>5. /\ Taken(p) \in Link /\ Taken(p).stage = l.stage /\ Taken(p).queue = l.queue
        /\ Taken(p).asked = l.asked /\ Taken(p).socket = l.socket /\ Taken(p).wire = w
    BY <1>1, <2>4 DEF Link
  <2> QED BY <2>1, <2>2, <2>5 DEF w
\* A frame is read, and the stage moves on.
<1>11. ASSUME NEW kinds, Arrives(p, kinds), NEW stage, Quietly, Become(p, [Taken(p) EXCEPT !.stage = stage]),
              stage \in {"incoming", "key"} => Early(l), stage \in {"incoming", "key", "failed"},
              l.stage # "paired"
       PROVE  Goal
  <2> DEFINE t == Taken(p)
             m == [t EXCEPT !.stage = stage]
  <2>1. t \in Link /\ t.queue = l.queue /\ t.asked = l.asked
    BY <1>10, <1>11
  <2>2. \A i \in DOMAIN t.wire : \E j \in DOMAIN l.wire : t.wire[i] = l.wire[j]
    BY <1>10, <1>11
  <2>3. Become(p, m)
    BY <1>11
  <2> HIDE DEF t
  <2>4. m.queue = l.queue /\ m.asked = l.asked /\ m.wire = t.wire /\ m.stage = stage
    BY <2>1 DEF Link
  <2> HIDE DEF m
  <2> QED BY <1>3, <1>11, <2>2, <2>3, <2>4 DEF Early
<1>12. CASE HearReady(p)
  BY <1>11, <1>12 DEF HearReady, Early, Goal
<1>13. CASE HearDial(p)
  BY <1>11, <1>13 DEF HearDial, Early, Goal
<1>14. CASE HearBadKey(p)
  BY <1>11, <1>14 DEF HearBadKey, Goal
<1>15. ASSUME Become(p, Taken(p)), Quietly, NEW kinds, Arrives(p, kinds)
       PROVE  Goal
  BY <1>3, <1>10, <1>15 DEF Early
<1>16. CASE HearNothing(p)
  BY <1>15, <1>16 DEF HearNothing, Goal
<1>17. CASE SkipFrame(p)
  BY <1>15, <1>17 DEF SkipFrame, Goal
\* The page hangs up.
<1>18. ASSUME Quietly, l.stage # "paired", Become(p, [Hung(l) EXCEPT !.stage = "failed"])
       PROVE  Goal
  <2> DEFINE h == Hung(l)
             m == [h EXCEPT !.stage = "failed"]
  <2>1. /\ h \in Link /\ h.queue = l.queue /\ h.asked = l.asked
        /\ h.wire = l.wire \/ h.wire = <<>>
    BY <1>1, HungNext DEF Hung, Link, Next1
  <2>2. Become(p, m)
    BY <1>18
  <2> HIDE DEF h
  <2>3. m.queue = l.queue /\ m.asked = l.asked /\ m.wire = h.wire /\ m.stage = "failed"
    BY <2>1 DEF Link
  <2> HIDE DEF m
  <2>4. \A i \in DOMAIN m.wire : i \in DOMAIN l.wire /\ m.wire[i] = l.wire[i]
    BY <2>1, <2>3
  <2> QED BY <1>3, <1>18, <2>2, <2>3, <2>4 DEF Early
<1>19. CASE HearRefusal(p)
  BY <1>18, <1>19 DEF HearRefusal, Goal
<1>20. CASE ScanTimeout(p)
  BY <1>18, <1>20 DEF ScanTimeout, Goal
<1>21. CASE KeyTimeout(p)
  <2>1. Become(p, [l EXCEPT !.stage = "failed"]) /\ Quietly /\ l.stage = "key"
    BY <1>21 DEF KeyTimeout
  <2> QED BY <1>1, <1>3, <2>1 DEF Link, Early, Goal
<1>22. CASE HearKey(p)
  <2> DEFINE t == Taken(p)
  <2>1. /\ Arrives(p, {"key"}) /\ l.stage = "key" /\ UNCHANGED <<given, settled>>
        /\ Become(p, [Sent(t, <<p>>) EXCEPT !.stage = "accounts", !.queue = <<p>>])
    BY <1>22 DEF HearKey, Quietly
  <2>2. StageOK(p, l) /\ Early(l) /\ p \in Ids
    BY <2>1 DEF CallsInv, Early, Ids
  <2>3. l.queue = <<>> /\ settled[p] = "no"
    BY <2>2 DEF StageOK
  <2>4. /\ t \in Link /\ t.queue = l.queue /\ t.asked = l.asked
        /\ \A i \in DOMAIN t.wire : \E j \in DOMAIN l.wire : t.wire[i] = l.wire[j]
    BY <1>10, <2>1
  <2> HIDE DEF t
  <2>5. <<p>> = Append(t.queue, p)
    BY <2>3, <2>4
  <2>6. ~Called(p)
    <3>1. p \notin Members(l)
      BY <2>3 DEF Members, Elements
    <3>2. \A q \in Pairings : p \in Members(link[q]) => q = p
      BY DEF CallsInv, QueueOK
    <3> QED BY <2>3, <3>1, <3>2 DEF Called, Waits
  <2>7. CallsInv' /\ CallsMove
    BY <2>1, <2>2, <2>4, <2>5, <2>6, JoinCalls
  <2>8. PairedStay
    BY <2>1 DEF PairedStay, Become, FrtunTypeOK
  <2> QED BY <2>7, <2>8
<1>23. ASSUME NEW m \in Link, NEW how, Settle(p, m, how), m.queue = l.queue, m.queue # <<>>,
              m.stage = l.stage, m.asked = l.asked,
              how = "failed" \/ (how \in Answers /\ <<Head(m.queue), how>> \in given),
              \A i \in DOMAIN m.wire : \E j \in DOMAIN l.wire : m.wire[i] = l.wire[j]
       PROVE  Goal
  <2>1. CallsInv' /\ CallsMove /\ (l.stage = "paired" => link'[p].stage = "paired")
    BY <1>23, SettleCalls
  <2>2. \A q \in Pairings \ {p} : link'[q] = link[q]
    BY <1>23 DEF Settle, Become, FrtunTypeOK
  <2> QED BY <2>1, <2>2 DEF Goal, PairedStay
<1>24. CASE RequestTimeout(p)
  BY <1>1, <1>23, <1>24 DEF RequestTimeout, Goal
<1>25. CASE HearAnswer(p)
  <2> DEFINE t == Taken(p)
             f == l.wire[1]
  <2>1. /\ Arrives(p, Answers) /\ l.queue # <<>> /\ Head(l.wire).re = Head(l.queue)
        /\ Settle(p, t, Head(l.wire).kind) /\ Head(l.wire).kind \in Answers
    BY <1>25 DEF HearAnswer, Arrives
  <2>2. /\ t \in Link /\ t.queue = l.queue /\ t.asked = l.asked /\ t.stage = l.stage
        /\ 1 \in DOMAIN l.wire /\ Head(l.wire) = f
        /\ \A i \in DOMAIN t.wire : \E j \in DOMAIN l.wire : t.wire[i] = l.wire[j]
    BY <1>10, <2>1
  <2> HIDE DEF t
  <2>3. WireOK(l)
    BY DEF CallsInv
  <2>4. <<f.re, f.kind>> \in given
    BY <2>1, <2>2, <2>3 DEF WireOK
  <2> QED BY <1>23, <2>1, <2>2, <2>4 DEF Goal
<1>26. CASE Die(p)
  <2>1. l.stage # "none" /\ Become(p, Dead(l)) /\ FailQueued({p}) /\ given' = given
    BY <1>1, <1>26 DEF Die, LinkOK
  <2>2. l.stage = "paired" => Dead(l).stage = "paired"
    BY <1>1 DEF Dead, Link
  <2> QED BY <1>2, <2>1, <2>2, DieCalls DEF Goal
<1> QED
  BY <1>5, <1>6, <1>7, <1>8, <1>9, <1>12, <1>13, <1>14, <1>16, <1>17, <1>19, <1>20, <1>21,
     <1>22, <1>24, <1>25, <1>26 DEF Transport, Goal

LEMMA SameCalls ==
    ASSUME CallsInv, UNCHANGED frtunVars
    PROVE  CallsInv' /\ CallsMove /\ PairedStay
<1>1. link' = link /\ given' = given /\ settled' = settled
  BY DEF frtunVars
<1>2. CallsInv'
  BY <1>1 DEF CallsInv, QueueOK, StageOK, AskedOK, WireOK, Early, Called, Waits
<1>3. \A id \in Ids : Proceeds(id)
  BY <1>1 DEF Proceeds, Outcome, Queued
<1> QED BY <1>1, <1>2, <1>3 DEF CallsMove, PairedStay

LEMMA DisconnectCalls ==
    ASSUME FrtunTypeOK, LinksOK, CallsInv, NEW p \in Pairings \cup {Nobody}, DisconnectAdapter(p)
    PROVE  CallsInv' /\ CallsMove /\ PairedStay
<1>1. CASE p # Nobody /\ p \in link[p].asked
  <2> DEFINE h == Hung(link[p])
  <2>1. Become(p, h) /\ Quietly /\ p \in Pairings
    BY <1>1 DEF DisconnectAdapter, Become
  <2>2. link[p] \in Link /\ LinkOK(link[p])
    BY <2>1 DEF FrtunTypeOK, LinksOK
  <2>3. /\ h.queue = link[p].queue /\ h.asked = link[p].asked /\ h.stage = link[p].stage
        /\ h.wire = link[p].wire \/ h.wire = <<>>
    BY <2>2 DEF Hung, Link
  <2> HIDE DEF h
  <2>4. \A i \in DOMAIN h.wire : i \in DOMAIN link[p].wire /\ h.wire[i] = link[p].wire[i]
    BY <2>3
  <2>5. CallsInv' /\ CallsMove
    BY <2>1, <2>3, <2>4, NoCall DEF Early
  <2>6. PairedStay
    BY <2>1, <2>3 DEF PairedStay, Become, FrtunTypeOK
  <2> QED BY <2>5, <2>6
<1>2. CASE ~(p # Nobody /\ p \in link[p].asked)
  <2>1. UNCHANGED frtunVars
    BY <1>2 DEF DisconnectAdapter, Quietly, frtunVars
  <2> QED BY <2>1, SameCalls
<1> QED BY <1>1, <1>2

LEMMA RequestCalls ==
    ASSUME FrtunTypeOK, LinksOK, CallsInv, NEW p \in Pairings, link[p].stage = "paired",
           NEW r \in Requests, Request(p, r)
    PROVE  CallsInv' /\ CallsMove /\ PairedStay
<1> DEFINE l == link[p]
<1>1. /\ l \in Link /\ l.queue \in Seq(Ids) /\ r \in Ids /\ r \notin Pairings
      /\ QueueOK(p, l) /\ StageOK(p, l) /\ WireOK(l) /\ ~Early(l)
  BY FrtunAssumption DEF FrtunTypeOK, Link, Ids, CallsInv, Early
<1>2. ~Called(r) /\ settled[r] = "no" /\ given' = given
  BY DEF Request, Called, Waits, Members, Elements, Queued
<1>3. CASE l.socket = "closed"
  <2>1. settled' = [settled EXCEPT ![r] = "failed"] /\ link' = link
    BY <1>3 DEF Request
  <2>2. Become(p, l)
    BY <2>1 DEF Become, FrtunTypeOK
  <2>3. r \notin Members(l) /\ ~Waits(r)
    BY <1>2 DEF Called, Waits
  <2>4. \A id \in Ids : settled'[id] = settled[id] \/ Ends(p, l, id)
    BY <1>1, <1>2, <2>1, <2>3 DEF FrtunTypeOK, Ends
  <2>5. Members(l) \subseteq Ids
    BY <1>1 DEF Members, Elements
  <2>6. CallsInv' /\ CallsMove
    BY <1>1, <1>2, <2>2, <2>4, <2>5, OneLink DEF QueueOK, StageOK, WireOK
  <2> QED BY <2>1, <2>6 DEF PairedStay
<1>4. CASE l.socket # "closed"
  <2> DEFINE queue == Append(l.queue, r)
  <2>1. Become(p, [Sent(l, queue) EXCEPT !.queue = queue]) /\ settled' = settled
    BY <1>4 DEF Request
  <2>2. queue \in Seq(Ids)
    BY <1>1
  <2>3. Sent(l, queue) \in Link /\ Sent(l, queue).stage = l.stage
    BY <1>1, <2>2, SentAsks
  <2> HIDE DEF queue
  <2>4. [Sent(l, queue) EXCEPT !.queue = queue] = [Sent(l, queue) EXCEPT !.stage = l.stage, !.queue = queue]
    BY <2>3 DEF Link
  <2>5. CallsInv' /\ CallsMove
    BY <1>1, <1>2, <2>1, <2>4, JoinCalls DEF queue
  <2>6. [Sent(l, queue) EXCEPT !.queue = queue].stage = l.stage
    BY <2>3 DEF Link
  <2>7. PairedStay
    BY <2>1, <2>6 DEF PairedStay, Become, FrtunTypeOK
  <2> QED BY <2>5, <2>7
<1> QED BY <1>3, <1>4

LEMMA ReloadCalls ==
    ASSUME FrtunTypeOK, CallsInv, Reload
    PROVE  CallsInv' /\ CallsMove
<1>1. ASSUME NEW p \in Pairings
      PROVE  /\ link'[p].queue = <<>>
             /\ link'[p] = link[p] \/ (link'[p].asked = {} /\ link'[p].wire = <<>>)
             /\ Early(link'[p]) => Early(link[p])
  <2>1. link[p] \in Link /\ StageOK(p, link[p])
    BY DEF FrtunTypeOK, CallsInv
  <2>2. link'[p] = IF link[p].stage = "none" THEN link[p] ELSE Dead(link[p])
    BY DEF Reload
  <2>3. CASE link[p].stage = "none"
    BY <2>1, <2>2, <2>3 DEF StageOK, Early
  <2>4. CASE link[p].stage # "none"
    <3>1. /\ Dead(link[p]).queue = <<>> /\ Dead(link[p]).asked = {} /\ Dead(link[p]).wire = <<>>
          /\ Dead(link[p]).stage \in {"paired", "failed"}
      BY <2>1, <2>4 DEF Dead, Link
    <3> QED BY <2>2, <2>4, <3>1 DEF Early
  <2> QED BY <2>3, <2>4
<1>2. \A p \in Pairings : Members(link'[p]) = {} /\ Once(link'[p].queue)
  BY <1>1 DEF Members, Elements, Once
<1>3. /\ given' = given
      /\ \A id \in Ids : settled'[id] = IF Waits(id) THEN "failed" ELSE settled[id]
  BY DEF Reload, FailQueued, Waits, Queued, Members, Elements
<1>4. \A id \in Ids : ~Waits(id)' /\ (Called(id) => Called(id)')
  BY <1>2, <1>3 DEF Waits, Called, Members
<1>5. ASSUME NEW p \in Pairings
      PROVE  (QueueOK(p, link[p]) /\ StageOK(p, link[p]) /\ AskedOK(link[p]) /\ WireOK(link[p]))'
  <2>1. QueueOK(p, link[p])'
    BY <1>2 DEF QueueOK, Members
  <2>2. StageOK(p, link[p])'
    <3>1. Early(link'[p]) => settled[p] = "no" /\ p \notin Members(link[p])
      BY <1>1 DEF CallsInv, StageOK, Members, Elements
    <3>2. \A q \in Pairings : p \in Members(link[q]) => q = p
      BY DEF CallsInv, QueueOK
    <3>3. Early(link'[p]) => settled'[p] = "no"
      BY <1>3, <3>1, <3>2 DEF Waits, Ids
    <3> QED BY <1>1, <1>2, <3>3 DEF StageOK, Early, Members
  <2>3. AskedOK(link[p])'
    <3>1. AskedOK(link[p]) /\ link[p].asked \subseteq Ids
      BY DEF CallsInv, FrtunTypeOK, Link
    <3> QED BY <1>1, <1>4, <3>1 DEF AskedOK
  <2>4. WireOK(link[p])'
    <3>1. WireOK(link[p])
      BY DEF CallsInv
    <3> QED BY <1>1, <1>3, <3>1 DEF WireOK
  <2> QED BY <2>1, <2>2, <2>3, <2>4
<1>6. CallsInv'
  BY <1>2, <1>5 DEF CallsInv, Members
<1>7. ASSUME NEW id \in Ids
      PROVE  Proceeds(id)
  <2>1. /\ Outcome(id) = IF Waits(id) THEN "waiting" ELSE IF settled[id] = "no" THEN "idle" ELSE settled[id]
        /\ Outcome(id)' = IF Waits(id)' THEN "waiting"
                          ELSE IF settled'[id] = "no" THEN "idle" ELSE settled'[id]
    BY DEF Outcome, Waits, Queued, Members, Elements
  <2> QED BY <1>3, <1>4, <2>1 DEF Proceeds
<1> QED BY <1>3, <1>6, <1>7 DEF CallsMove

AdapterPaired == adapter # Nobody => link[adapter].stage = "paired"

LEMMA CallsStep ==
    ASSUME WalletInv, CallsInv, AdapterPaired, [WalletNext]_walletVars
    PROVE  CallsInv' /\ CallsMove /\ AdapterPaired'
<1>1. FrtunTypeOK /\ LinksOK /\ ContextTypes
  BY DEF WalletInv
<1>2. PairedStay /\ adapter' \in {adapter, Nobody} => AdapterPaired'
  BY <1>1 DEF PairedStay, AdapterPaired, ContextTypes
<1>3. CASE UNCHANGED frtunVars /\ adapter' = adapter
  BY <1>2, <1>3, SameCalls
<1>4. CASE OpenModal
  BY <1>3, <1>4 DEF OpenModal
<1>5. ASSUME NEW view \in {"closed", "select"}, LeavePairing(view)
      PROVE  CallsInv' /\ CallsMove /\ AdapterPaired'
  BY <1>1, <1>2, <1>5, DisconnectCalls DEF LeavePairing, CancelPairing, ContextTypes
<1>6. ASSUME NEW p \in Pairings, StartPairing(p)
      PROVE  CallsInv' /\ CallsMove /\ AdapterPaired'
  <2> DEFINE m == [link[p] EXCEPT !.stage = "opening", !.socket = "opening"]
  <2>1. Become(p, m) /\ Quietly /\ link[p].stage = "none" /\ adapter' = adapter /\ link[p] \in Link
    BY <1>1, <1>6 DEF StartPairing, Listen, FrtunTypeOK
  <2>2. m.queue = link[p].queue /\ m.asked = link[p].asked /\ m.wire = link[p].wire /\ m.stage = "opening"
    BY <2>1 DEF Link
  <2> HIDE DEF m
  <2>3. CallsInv' /\ CallsMove
    BY <1>1, <2>1, <2>2, NoCall DEF Early
  <2>4. PairedStay
    BY <1>1, <2>1 DEF PairedStay, Become, FrtunTypeOK
  <2> QED BY <1>2, <2>1, <2>3, <2>4
<1>7. ASSUME NEW p \in Pairings, Connection(p)
      PROVE  CallsInv' /\ CallsMove /\ AdapterPaired'
  <2>1. CallsInv' /\ CallsMove /\ PairedStay
    BY <1>1, <1>7, TransportCalls DEF Connection
  <2>2. adapter' = adapter \/ (adapter' = p /\ link'[p].stage = "paired")
    BY <1>7 DEF Connection, PairingEnds, AdoptMobile
  <2> QED BY <1>2, <2>1, <2>2 DEF AdapterPaired
<1>8. ASSUME NEW w \in Wallets, ConnectWallet(w)
      PROVE  CallsInv' /\ CallsMove /\ AdapterPaired'
  BY <1>3, <1>8 DEF ConnectWallet
<1>9. ASSUME NEW w \in Wallets, WalletConnects(w)
      PROVE  CallsInv' /\ CallsMove /\ AdapterPaired'
  BY <1>1, <1>2, <1>9, DisconnectCalls DEF WalletConnects, CancelPairing, ContextTypes
<1>10. CASE WalletFails
  BY <1>3, <1>10 DEF WalletFails
<1>11. ASSUME NEW r \in Requests, Sign(r)
       PROVE  CallsInv' /\ CallsMove /\ AdapterPaired'
  <2>1. adapter \in Pairings /\ link[adapter].stage = "paired" /\ Request(adapter, r) /\ adapter' = adapter
    BY <1>1, <1>11 DEF Sign, contextVars, ContextTypes, AdapterPaired
  <2> QED BY <1>1, <1>2, <2>1, RequestCalls
<1>12. CASE Disconnect
  BY <1>1, <1>2, <1>12, DisconnectCalls DEF Disconnect, ContextTypes
<1>13. CASE Reload
  BY <1>1, <1>13, ReloadCalls DEF Reload, AdapterPaired
<1>14. CASE UNCHANGED walletVars
  BY <1>3, <1>14 DEF walletVars, contextVars
<1> QED
  BY <1>4, <1>5, <1>6, <1>7, <1>8, <1>9, <1>10, <1>11, <1>12, <1>13, <1>14 DEF WalletNext

LEMMA CallsStart == WalletInit => CallsInv /\ AdapterPaired
<1> SUFFICES ASSUME WalletInit PROVE CallsInv /\ AdapterPaired
  OBVIOUS
<1>1. /\ adapter = Nobody /\ \A id \in Ids : settled[id] = "no"
      /\ \A p \in Pairings : link[p].queue = <<>> /\ link[p].asked = {} /\ link[p].wire = <<>>
                             /\ link[p].stage = "none"
  BY DEF WalletInit, FrtunInit
<1>2. \A p \in Pairings : Members(link[p]) = {} /\ Once(link[p].queue)
  BY <1>1 DEF Members, Elements, Once
<1> QED BY <1>1, <1>2 DEF CallsInv, QueueOK, StageOK, AskedOK, WireOK, AdapterPaired, Ids

\* client.ts: responses are correlated "by request_id".  Whatever phones,
\* bridge and network do, a request returns once, with an answer the phone
\* gave to that very request, or it fails: it is a call of WalletCalls, whose
\* promise that each call ends is all that is left to TLC.
THEOREM RequestsAreCalls == WalletSpec => FrtunCall!Safety /\ (FrtunCall!Settles => FrtunCalls)
<1>1. WalletInit => FrtunCall!Init
  BY DEF WalletInit, FrtunInit, FrtunCall!Init, Outcome, Queued
<1>2. WalletInv /\ CallsInv /\ AdapterPaired /\ [WalletNext]_walletVars
        => CallsInv' /\ AdapterPaired' /\ [FrtunCall!Next]_(FrtunCall!vars)
  <2> SUFFICES ASSUME WalletInv, CallsInv, AdapterPaired, [WalletNext]_walletVars
               PROVE  CallsInv' /\ AdapterPaired' /\ FrtunCall!Next
    OBVIOUS
  <2>1. CallsInv' /\ CallsMove /\ AdapterPaired'
    BY CallsStep
  <2>2. \A id \in Ids : Proceeds(id)
    BY <2>1 DEF CallsMove
  <2>3. \A g \in given' \ given : Outcome(g[1]) # "idle" /\ g[1] \in Ids /\ g[2] \in Answers
    <3>1. \A g \in given' \ given : g \in Ids \X Answers /\ Called(g[1])
      BY <2>1 DEF CallsMove, Given
    <3>2. \A id \in Ids : Called(id) => Outcome(id) # "idle"
      <4>1. \A id \in Ids : settled[id] # "idle"
        BY DEF WalletInv, FrtunTypeOK, Answers
      <4> QED BY <4>1 DEF Called, Outcome, Waits, Queued, Members, Elements
    <3> QED BY <3>1, <3>2
  <2> QED BY <2>1, <2>2, <2>3
       DEF CallsMove, Proceeds, FrtunCall!Next, FrtunCall!Make, FrtunCall!Return, FrtunCall!Fail,
           FrtunCall!Give
<1> QED BY <1>1, <1>2, CallsStart, InvAlways, PTL DEF WalletSpec, FrtunCall!Safety, FrtunCalls, FrtunCall!Spec

----------------------------------------------------------------------------
(* Calls to popup wallets *)

Asked(c) == call[c] \notin {"idle", "preset"}

\* A window that is open, or serves a call, has been opened.
WindowOK == window \in Window /\ (window.open \/ window.serving # NoPage => window.number > 0)

\* Whatever a page serves, has answered or has sent is about a call that was
\* made, and a message says what the page has answered.
PopupInv ==
    /\ PopupTypeOK
    /\ WindowOK
    /\ window.serving # NoPage => Asked(window.serving)
    /\ \A r \in replied : Asked(r[1])
    /\ \A i \in 1..Len(mail) : <<mail[i].re, mail[i].kind>> \in replied

LEMMA PopupStart == PopupInit => PopupInv
<1> SUFFICES ASSUME PopupInit PROVE PopupInv
  OBVIOUS
<1>1. <<>> \in Seq(Mail) /\ Len(<<>>) = 0 /\ mail = <<>>
  BY DEF PopupInit
<1>2. PopupTypeOK
  BY <1>1, PopupAssumption DEF PopupInit, PopupTypeOK, Window
<1> QED BY <1>1, <1>2 DEF PopupInit, PopupInv, PopupTypeOK, WindowOK

LEMMA OpenWindow ==
    ASSUME PopupTypeOK, WindowOK, NEW c \in PopupIds, Open(c)
    PROVE  WindowOK' /\ window'.serving = NoPage /\ popup' \in [PopupIds -> 0..MaxWindows]
<1> DEFINE number == IF window.open THEN window.number ELSE window.number + 1
<1>1. window.number \in 0..MaxWindows /\ window.open \in BOOLEAN /\ Serves[c] \in Origins
  BY PopupAssumption DEF PopupTypeOK, Window
<1>2. number \in 0..MaxWindows /\ number > 0
  BY <1>1, PopupAssumption DEF Open, WindowOK
<1>3. /\ window' = [number |-> number, open |-> TRUE, origin |-> Serves[c], serving |-> NoPage,
                    told |-> FALSE]
      /\ popup' = [popup EXCEPT ![c] = number]
  BY DEF Open
<1> HIDE DEF number
<1> QED BY <1>1, <1>2, <1>3 DEF PopupTypeOK, WindowOK, Window

LEMMA CloseWindowType ==
    ASSUME WindowOK, NEW b \in BOOLEAN, CloseIf(b)
    PROVE  WindowOK' /\ window'.serving \in {window.serving, NoPage}
<1>1. CASE b
  <2>1. window' = [window EXCEPT !.open = FALSE, !.serving = NoPage]
    BY <1>1 DEF CloseIf
  <2> QED BY <2>1 DEF WindowOK, Window
<1>2. CASE ~b
  BY <1>2 DEF CloseIf, WindowOK
<1> QED BY <1>1, <1>2

Ended(c) == call'[c] = "failed" \/ <<c, call'[c]>> \in replied

\* A call goes its way: made, waiting, ended.
Moves(c) ==
    \/ call'[c] = call[c]
    \/ call[c] = "idle" /\ call'[c] = "preset"
    \/ call[c] \in {"idle", "preset"} /\ call'[c] = "waiting"
    \/ call[c] \in {"idle", "preset"} /\ call'[c] = "failed"
    \/ call[c] = "waiting" /\ Ended(c)

LEMMA CallStep ==
    ASSUME PopupInv, [PopupNext]_popupVars
    PROVE  /\ PopupInv'
           /\ call' \in [PopupIds -> {"idle", "preset", "waiting", "failed"} \cup PopupAnswers]
           /\ \A c \in PopupIds : Moves(c)
           /\ replied \subseteq replied'
           /\ \A r \in replied' \ replied : r \in PopupIds \X PopupAnswers /\ Asked(r[1])
<1> DEFINE States == {"idle", "preset", "waiting", "failed"} \cup PopupAnswers
           Goal == /\ PopupInv'
                   /\ call' \in [PopupIds -> States]
                   /\ \A c \in PopupIds : Moves(c)
                   /\ replied \subseteq replied'
                   /\ \A r \in replied' \ replied : r \in PopupIds \X PopupAnswers /\ Asked(r[1])
<1>0. /\ PopupTypeOK /\ WindowOK /\ call \in [PopupIds -> States] /\ mail \in Seq(Mail)
      /\ popup \in [PopupIds -> 0..MaxWindows] /\ replied \subseteq PopupIds \X PopupAnswers
      /\ window \in Window
  BY DEF PopupInv, PopupTypeOK
\* One call moves, and nothing is said.
<1>2. ASSUME NEW c \in PopupIds, NEW to \in States, call' = [call EXCEPT ![c] = to], Moves(c),
             UNCHANGED <<mail, replied>>, WindowOK',
             window'.serving \in {window.serving, NoPage}, popup' \in [PopupIds -> 0..MaxWindows]
      PROVE  Goal
  <2>1. \A d \in PopupIds : Moves(d) /\ (Asked(d) => Asked(d)')
    BY <1>0, <1>2 DEF Moves, Asked, Ended, PopupAnswers
  <2>2. call' \in [PopupIds -> States]
    BY <1>0, <1>2
  <2>3. PopupTypeOK'
    BY <1>0, <1>2, <2>2 DEF PopupTypeOK, WindowOK
  <2>4. \A r \in replied : r[1] \in PopupIds
    BY <1>0
  <2>5. window'.serving # NoPage => window.serving \in PopupIds /\ window'.serving = window.serving
    BY <1>0, <1>2 DEF Window
  <2> QED BY <1>2, <2>1, <2>2, <2>3, <2>4, <2>5 DEF PopupInv
\* The window moves, and no call does.
<1>3. ASSUME UNCHANGED <<call, popup, mail, replied>>, WindowOK',
             window'.serving = NoPage \/ Asked(window'.serving)
      PROVE  Goal
  <2>1. PopupTypeOK'
    BY <1>0, <1>3 DEF PopupTypeOK, WindowOK
  <2>2. \A d \in PopupIds : Moves(d)
    BY <1>3 DEF Moves
  <2> QED BY <1>0, <1>3, <2>1, <2>2 DEF PopupInv, Asked
<1> HIDE DEF Goal
<1>4. ASSUME NEW c \in PopupIds, OpenPopup(c)
      PROVE  Goal
  BY <1>0, <1>2, <1>4, OpenWindow DEF OpenPopup, Moves
<1>5. ASSUME NEW c \in PopupIds, GiveUp(c)
      PROVE  Goal
  BY <1>0, <1>2, <1>5, CloseWindowType DEF GiveUp, Moves, Has
<1>6. ASSUME NEW c \in PopupIds, Ask(c)
      PROVE  Goal
  BY <1>0, <1>2, <1>6, OpenWindow DEF Ask, Moves, WindowOK
<1>7. ASSUME NEW c \in PopupIds, Blocked(c)
      PROVE  Goal
  BY <1>0, <1>2, <1>7 DEF Blocked, Moves, WindowOK
<1>8. ASSUME NEW c \in PopupIds, Closed(c)
      PROVE  Goal
  BY <1>0, <1>2, <1>8 DEF Closed, Moves, Ended, WindowOK
<1>9. ASSUME NEW c \in PopupIds, Timeout(c)
      PROVE  Goal
  BY <1>0, <1>2, <1>9, CloseWindowType DEF Timeout, Moves, Ended, Has
<1>10. ASSUME NEW c \in PopupIds, HearInit(c)
       PROVE  Goal
  <2>1. /\ window' = [window EXCEPT !.serving = c] /\ UNCHANGED <<call, popup, mail, replied>>
        /\ Asked(c) /\ window.open
    BY <1>10 DEF HearInit, Asked, Has
  <2>2. WindowOK' /\ window'.serving = c
    BY <1>0, <2>1 DEF WindowOK, Window
  <2> QED BY <1>3, <2>1, <2>2
<1>11. CASE ReloadPage
  <2>1. /\ window' = [window EXCEPT !.serving = NoPage, !.told = FALSE] /\ window.open
        /\ UNCHANGED <<call, popup, mail, replied>>
    BY <1>11 DEF ReloadPage
  <2>2. WindowOK' /\ window'.serving = NoPage
    BY <1>0, <2>1 DEF WindowOK, Window
  <2> QED BY <1>3, <2>1, <2>2 DEF Goal
<1>12. CASE CloseWindow
  <2>1. /\ window' = [window EXCEPT !.open = FALSE, !.serving = NoPage]
        /\ UNCHANGED <<call, popup, mail, replied>>
    BY <1>12 DEF CloseWindow, CloseIf
  <2>2. WindowOK' /\ window'.serving = NoPage
    BY <1>0, <2>1 DEF WindowOK, Window
  <2> QED BY <1>3, <2>1, <2>2 DEF Goal
<1>13. ASSUME NEW a \in PopupAnswers, Reply(a)
       PROVE  Goal
  <2> DEFINE c == window.serving
             m == [from |-> window.number, origin |-> window.origin, re |-> c, kind |-> a]
  <2>1. c \in PopupIds /\ Asked(c) /\ window.number \in Windows /\ window.origin \in Origins
    BY <1>0, <1>13, PopupAssumption DEF Reply, Window, PopupInv, WindowOK, Windows
  <2>2. /\ window' = [window EXCEPT !.told = TRUE] /\ mail' = Append(mail, m)
        /\ replied' = replied \cup {<<c, a>>} /\ UNCHANGED <<call, popup>>
    BY <1>13 DEF Reply
  <2>3. WindowOK' /\ window'.serving = c
    BY <1>0, <2>2 DEF WindowOK, Window
  <2>4. m \in Mail
    BY <2>1 DEF Mail
  <2> HIDE DEF m
  <2>5. /\ mail' \in Seq(Mail)
        /\ \A i \in 1..Len(mail') :
              mail'[i] = m \/ (i \in 1..Len(mail) /\ mail'[i] = mail[i])
    <3>1. /\ Append(mail, m) \in Seq(Mail) /\ Len(Append(mail, m)) = Len(mail) + 1
          /\ Len(mail) \in Nat
          /\ \A i \in 1..Len(mail) : Append(mail, m)[i] = mail[i]
          /\ Append(mail, m)[Len(mail) + 1] = m
      BY <1>0, <2>4
    <3>2. \A i \in 1..(Len(mail) + 1) : i = Len(mail) + 1 \/ i \in 1..Len(mail)
      BY <3>1
    <3>3. Len(mail') = Len(mail) + 1
      BY <2>2, <3>1
    <3> QED BY <2>2, <3>1, <3>2, <3>3
  <2>6. PopupTypeOK'
    BY <1>0, <2>1, <2>2, <2>3, <2>5 DEF PopupTypeOK, WindowOK
  <2>7. \A i \in 1..Len(mail') : <<mail'[i].re, mail'[i].kind>> \in replied'
    BY <2>2, <2>5 DEF PopupInv, m
  <2>8. \A r \in replied' : Asked(r[1])
    BY <2>1, <2>2 DEF PopupInv
  <2>9. \A d \in PopupIds : Moves(d)
    BY <2>2 DEF Moves
  <2> QED BY <1>0, <2>1, <2>2, <2>3, <2>6, <2>7, <2>8, <2>9 DEF Goal, PopupInv, Asked
<1>14. CASE Message
  <2> DEFINE m == Head(mail)
             theirs == {c \in PopupIds : For(c, m)}
  <2>1. /\ m \in Mail /\ Tail(mail) \in Seq(Mail) /\ <<m.re, m.kind>> \in replied
        /\ \A i \in 1..Len(Tail(mail)) : i + 1 \in 1..Len(mail) /\ Tail(mail)[i] = mail[i + 1]
    BY <1>0, <1>14 DEF Message, PopupInv
  <2>2. /\ call' = [c \in PopupIds |-> IF c \in theirs THEN m.kind ELSE call[c]]
        /\ mail' = Tail(mail) /\ UNCHANGED <<popup, replied>>
        /\ CloseIf(m.kind = "reject" /\ \E c \in theirs : Has(c))
    BY <1>14 DEF Message
  <2>3. WindowOK' /\ window'.serving \in {window.serving, NoPage}
    BY <1>0, <2>2, CloseWindowType DEF Has
  <2>4. call' \in [PopupIds -> States] /\ m.kind \in PopupAnswers
    BY <1>0, <2>1, <2>2 DEF Mail
  <2>5. \A c \in PopupIds : Moves(c) /\ (Asked(c) => Asked(c)')
    BY <2>1, <2>2, <2>4 DEF Moves, Asked, Ended, For, PopupAnswers
  <2>6. PopupTypeOK'
    BY <1>0, <2>1, <2>2, <2>3, <2>4 DEF PopupTypeOK, WindowOK
  <2>7. \A r \in replied' : Asked(r[1])'
    BY <1>0, <2>2, <2>5 DEF PopupInv
  <2>8. window'.serving # NoPage => Asked(window.serving)'
    BY <1>0, <2>3, <2>5 DEF PopupInv, Window
  <2>9. \A i \in 1..Len(mail') : <<mail'[i].re, mail'[i].kind>> \in replied'
    BY <2>1, <2>2 DEF PopupInv
  <2> QED BY <2>2, <2>3, <2>4, <2>5, <2>6, <2>7, <2>8, <2>9 DEF Goal, PopupInv
<1>15. CASE UNCHANGED popupVars
  <2>1. UNCHANGED <<call, popup, mail, replied>> /\ window' = window
    BY <1>15 DEF popupVars
  <2>2. WindowOK' /\ (window'.serving = NoPage \/ Asked(window'.serving))
    BY <2>1 DEF PopupInv, WindowOK
  <2> QED BY <1>3, <2>1, <2>2 DEF Goal
<1> QED
  BY <1>4, <1>5, <1>6, <1>7, <1>8, <1>9, <1>10, <1>11, <1>12, <1>13, <1>14, <1>15
     DEF PopupNext, Goal

\* protocol.ts: the request id is echoed back "on every popup response".  With
\* one window for all, whoever reloads or closes it and whatever pages already
\* gone have said, a request returns once, with an answer given to that very
\* request, or it fails: it is a call of WalletCalls, whose promise that each
\* call ends is all that is left to TLC.
THEOREM PopupsAreCalls == PopupSpec => PopupCall!Safety /\ (PopupCall!Settles => PopupCalls)
<1>1. PopupInit => PopupCall!Init
  BY DEF PopupInit, PopupCall!Init
<1>2. PopupInv /\ [PopupNext]_popupVars => PopupInv' /\ [PopupCall!Next]_(PopupCall!vars)
  <2> SUFFICES ASSUME PopupInv, [PopupNext]_popupVars
               PROVE  PopupInv' /\ PopupCall!Next
    OBVIOUS
  <2> DEFINE now(c) == IF call[c] = "preset" THEN "idle" ELSE call[c]
  <2>1. /\ PopupInv' /\ \A c \in PopupIds : Moves(c)
        /\ replied \subseteq replied'
        /\ \A r \in replied' \ replied : r \in PopupIds \X PopupAnswers /\ Asked(r[1])
    BY CallStep
  <2>2. \A c \in PopupIds : now(c)' # now(c) =>
           \/ now(c) = "idle" /\ now(c)' = "waiting"
           \/ now(c) = "waiting" /\ <<c, now(c)'>> \in replied
           \/ now(c) \in {"idle", "waiting"} /\ now(c)' = "failed"
    <3> SUFFICES ASSUME NEW c \in PopupIds, now(c)' # now(c)
                 PROVE  \/ now(c) = "idle" /\ now(c)' = "waiting"
                        \/ now(c) = "waiting" /\ <<c, now(c)'>> \in replied
                        \/ now(c) \in {"idle", "waiting"} /\ now(c)' = "failed"
      OBVIOUS
    <3>1. replied \subseteq PopupIds \X PopupAnswers
      BY DEF PopupInv, PopupTypeOK
    <3>2. call[c] = "waiting" /\ <<c, call'[c]>> \in replied => call'[c] # "preset"
      BY <3>1 DEF PopupAnswers
    <3> QED BY <2>1, <3>2 DEF Moves, Ended
  <2>3. \A r \in replied' \ replied : now(r[1]) # "idle" /\ r[2] \in PopupAnswers
    BY <2>1 DEF Asked
  <2> QED BY <2>1, <2>2, <2>3
       DEF PopupCall!Next, PopupCall!Make, PopupCall!Return, PopupCall!Fail, PopupCall!Give
<1> QED BY <1>1, <1>2, PopupStart, PTL DEF PopupSpec, PopupCall!Safety, PopupCalls, PopupCall!Spec

============================================================================
