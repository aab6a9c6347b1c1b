----------------------------- MODULE Profiles -----------------------------
(***************************************************************************)
(* One delegation and its profile: POST /delegators, which creates it, and *)
(* POST /delegator-updates, by which its owner changes name, description   *)
(* and icon (surtur-node/src/routes.ts, applyDelegatorUpdate in db.ts).    *)
(*                                                                         *)
(* Unlike a vote, an update is compared with the stored one after the wait *)
(* for espo, in the turn of the event loop that also writes it.            *)
(*                                                                         *)
(* Every node has every other as its peer and the DAO enabled; NodeConfig  *)
(* says how that comes about.  Records are well-formed and signed by the   *)
(* owner.                                                                  *)
(***************************************************************************)
EXTENDS Nonces, FiniteSets

CONSTANTS
    Nodes,
    Updates,        \* the updates the owner may sign, by their nonces
    NoUpdate,       \* the profile is that of the creation
    CreatedAt,      \* createdAtBlock of the delegation
    Allowance,      \* HEIGHT_ALLOWANCE
    MaxTip,         \* bound: the highest block mined
    MaxPosts,       \* bound: how many updates the owner's client posts
    Unreliable      \* may requests be lost, nodes crash, espo refuse or fail?

ASSUME ProfileAssumption ==
    /\ Updates \subseteq Nonce
    /\ NoUpdate \notin Updates
    /\ CreatedAt \in Nat /\ Allowance \in Nat /\ MaxTip \in Nat /\ MaxPosts \in Nat
    /\ CreatedAt <= MaxTip
    /\ Unreliable \in BOOLEAN

VARIABLES
    tip,            \* espo's tip
    known,          \* nodes with a row for the delegation
    creates,        \* nodes a POST /delegators is under way to
    creating,       \* its handlers that wait for espo
    profile,        \* profile[n]: the update in node n's row
    updateMsgs,     \* POST /delegator-updates requests under way
    updating,       \* its handlers that wait for the tip
    posts,          \* updates the client has posted
    acked,          \* acked[n]: the updates n answered "ok"
    missed          \* missed[n]: the updates that were lost on the way to n,
                    \* or that n failed at or refused

createVars == <<known, creates, creating>>
updateVars == <<profile, updateMsgs, updating, posts, acked, missed>>
vars == <<tip, createVars, updateVars>>

\* A creation waits for the tip, then for the balances that qualify it.
\* asked: the tip when a handler asked for it.
Creating == [at : Nodes, asked : 0..MaxTip, tipChecked : BOOLEAN]
UpdateMsg == [to : Nodes, update : Updates]
Updating == [at : Nodes, update : Updates, asked : 0..MaxTip]

TypeOK ==
    /\ tip \in 0..MaxTip
    /\ known \subseteq Nodes
    /\ creates \subseteq Nodes
    /\ creating \subseteq Creating
    /\ profile \in [Nodes -> Updates \cup {NoUpdate}]
    /\ updateMsgs \subseteq UpdateMsg
    /\ updating \subseteq Updating
    /\ posts \in 0..MaxPosts
    /\ acked \in [Nodes -> SUBSET Updates]
    /\ missed \in [Nodes -> SUBSET Updates]

Init ==
    /\ tip = CreatedAt
    /\ known = {}
    /\ creates = {}
    /\ creating = {}
    /\ profile = [n \in Nodes |-> NoUpdate]
    /\ updateMsgs = {}
    /\ updating = {}
    /\ posts = 0
    /\ acked = [n \in Nodes |-> {}]
    /\ missed = [n \in Nodes |-> {}]

Mine ==
    /\ tip < MaxTip
    /\ tip' = tip + 1
    /\ UNCHANGED <<createVars, updateVars>>

----------------------------------------------------------------------------
(* POST /delegators *)

\* The owner's client posts the creation, again if it likes.
Create(targets) ==
    /\ creates' = creates \cup targets
    /\ UNCHANGED <<tip, known, creating, updateVars>>

\* A known delegation, or a request that is lost.
DropCreate(n) ==
    /\ n \in creates
    /\ n \in known \/ Unreliable
    /\ creates' = creates \ {n}
    /\ UNCHANGED <<tip, known, creating, updateVars>>

StartCreate(n) ==
    /\ n \in creates
    /\ n \notin known
    /\ creates' = creates \ {n}
    /\ creating' = creating \cup {[at |-> n, asked |-> tip, tipChecked |-> FALSE]}
    /\ UNCHANGED <<tip, known, updateVars>>

\* Espo answers with a tip no older than the request.
CheckCreateTip(h) ==
    /\ h \in creating
    /\ ~h.tipChecked
    /\ \E t \in h.asked..tip :
          creating' = (creating \ {h}) \cup
              (IF InWindow(CreatedAt, t, Allowance)
                 THEN {[h EXCEPT !.tipChecked = TRUE]}
                 ELSE {})
    /\ UNCHANGED <<tip, known, creates, updateVars>>

\* INSERT OR IGNORE, and relay whether or not the row was new.
InsertCreate(h) ==
    /\ h \in creating
    /\ h.tipChecked
    /\ creating' = creating \ {h}
    /\ known' = known \cup {h.at}
    /\ creates' = creates \cup (Nodes \ {h.at})
    /\ UNCHANGED <<tip, updateVars>>

\* Espo fails, or says that the owner holds too little.
FailCreate(h) ==
    /\ Unreliable
    /\ h \in creating
    /\ creating' = creating \ {h}
    /\ UNCHANGED <<tip, known, creates, updateVars>>

----------------------------------------------------------------------------
(* POST /delegator-updates *)

PostUpdate(targets, u) == {[to |-> n, update |-> u] : n \in targets}

Miss(n, u) == missed' = [missed EXCEPT ![n] = @ \cup {u}]

\* The owner, seeing the delegation at some node, signs at the tip of the
\* moment; a post may repeat an earlier one.
PublishUpdate(u, targets) ==
    /\ posts < MaxPosts
    /\ known # {}
    /\ u.height <= tip
    /\ posts' = posts + 1
    /\ updateMsgs' = updateMsgs \cup PostUpdate(targets, u)
    /\ UNCHANGED <<tip, createVars, profile, updating, acked, missed>>

\* 400 "unknown delegator", or a request that is lost: nobody sends it again.
DropUpdate(m) ==
    /\ m \in updateMsgs
    /\ m.to \notin known \/ Unreliable
    /\ updateMsgs' = updateMsgs \ {m}
    /\ Miss(m.to, m.update)
    /\ UNCHANGED <<tip, createVars, profile, updating, posts, acked>>

\* Bug: the tip is taken for the height of the next block.
StartUpdateNextBlock(m) ==
    /\ m \in updateMsgs
    /\ m.to \in known
    /\ updateMsgs' = updateMsgs \ {m}
    /\ updating' = updating \cup {[at |-> m.to, update |-> m.update, asked |-> tip + 1]}
    /\ UNCHANGED <<tip, createVars, profile, posts, acked, missed>>

StartUpdate(m) ==
    /\ m \in updateMsgs
    /\ m.to \in known
    /\ updateMsgs' = updateMsgs \ {m}
    /\ updating' = updating \cup {[at |-> m.to, update |-> m.update, asked |-> tip]}
    /\ UNCHANGED <<tip, createVars, profile, posts, acked, missed>>

\* Espo's answer to a handler that asked at tip `asked' admits the update.
Admits(h) == \E t \in h.asked..tip : InWindow(h.update.height, t, Allowance)
Rejects(h) == \E t \in h.asked..tip : ~InWindow(h.update.height, t, Allowance)

\* The condition of applyDelegatorUpdate.
Newer(n, u) == profile[n] # NoUpdate => Beats(u, profile[n])

Ack(n, u) == acked' = [acked EXCEPT ![n] = @ \cup {u}]

EndUpdate(h) ==
    /\ updating' = updating \ {h}
    /\ UNCHANGED <<tip, createVars, posts>>

\* Bug: the update is written although a newer one is stored.
ApplyAnyUpdate(h) ==
    /\ h \in updating
    /\ Admits(h)
    /\ profile' = [profile EXCEPT ![h.at] = h.update]
    /\ Ack(h.at, h.update)
    /\ updateMsgs' = updateMsgs \cup PostUpdate(Nodes \ {h.at}, h.update)
    /\ EndUpdate(h)
    /\ UNCHANGED missed

\* Bug: an update that is applied is not relayed.
ApplyUpdateSilently(h) ==
    /\ h \in updating
    /\ Admits(h)
    /\ Newer(h.at, h.update)
    /\ profile' = [profile EXCEPT ![h.at] = h.update]
    /\ Ack(h.at, h.update)
    /\ EndUpdate(h)
    /\ UNCHANGED <<updateMsgs, missed>>

\* The stored update loses: write, answer and relay.
ApplyUpdate(h) ==
    /\ h \in updating
    /\ Admits(h)
    /\ Newer(h.at, h.update)
    /\ profile' = [profile EXCEPT ![h.at] = h.update]
    /\ Ack(h.at, h.update)
    /\ updateMsgs' = updateMsgs \cup PostUpdate(Nodes \ {h.at}, h.update)
    /\ EndUpdate(h)
    /\ UNCHANGED missed

\* The stored update wins or is the same: answer "known", relay nothing.
KeepUpdate(h) ==
    /\ h \in updating
    /\ Admits(h)
    /\ ~Newer(h.at, h.update)
    /\ Ack(h.at, h.update)
    /\ EndUpdate(h)
    /\ UNCHANGED <<profile, updateMsgs, missed>>

\* The height is too far from the tip, or espo fails.
RefuseUpdate(h) ==
    /\ h \in updating
    /\ Rejects(h) \/ Unreliable
    /\ Miss(h.at, h.update)
    /\ EndUpdate(h)
    /\ UNCHANGED <<profile, updateMsgs, acked>>

\* The process of n dies and restarts: its row stays, its handlers are gone.
Crash(n) ==
    /\ Unreliable
    /\ creating' = {h \in creating : h.at # n}
    /\ updating' = {h \in updating : h.at # n}
    /\ missed' = [missed EXCEPT ![n] = @ \cup {h.update : h \in updating \ updating'}]
    /\ UNCHANGED <<tip, known, creates, profile, updateMsgs, posts, acked>>

----------------------------------------------------------------------------
Progress ==
    \/ \E n \in Nodes : DropCreate(n) \/ StartCreate(n)
    \/ \E h \in creating : CheckCreateTip(h) \/ InsertCreate(h) \/ FailCreate(h)
    \/ \E m \in updateMsgs : DropUpdate(m) \/ StartUpdate(m)
    \/ \E h \in updating : ApplyUpdate(h) \/ KeepUpdate(h) \/ RefuseUpdate(h)

Next ==
    \/ Mine
    \/ \E targets \in SUBSET Nodes \ {{}} : Create(targets)
    \/ \E u \in Updates, targets \in SUBSET Nodes \ {{}} : PublishUpdate(u, targets)
    \/ Progress
    \/ \E n \in Nodes : Crash(n)

Spec == Init /\ [][Next]_vars

----------------------------------------------------------------------------
(* Properties *)

\* a is as new as b.
Covers(a, b) == a = b \/ Beats(a, b)

\* delegation.ts: "every node and client keeps the version with the HIGHEST
\* nonce (exact ties break on smallest signature)".  Every node keeps the
\* greatest of the updates it answered "ok" to, in whatever order they came
\* and however their handlers overlapped.
GreatestKept ==
    \A n \in Nodes :
        IF acked[n] = {}
          THEN profile[n] = NoUpdate
          ELSE profile[n] \in acked[n] /\ \A u \in acked[n] : Covers(profile[n], u)

\* A profile is only ever replaced by a newer one.
ProfileForward ==
    [][\A n \in Nodes :
          profile'[n] # profile[n] => profile[n] = NoUpdate \/ Beats(profile'[n], profile[n])]_vars

Quiet == updateMsgs = {} /\ updating = {}

\* A node at rest is behind another one only if it missed an update itself:
\* what it answered, and the order of it all, never leaves it behind.
BehindOnlyIfMissed ==
    Quiet => \A m, n \in Nodes :
        profile[m] # NoUpdate =>
            \/ profile[n] # NoUpdate /\ Covers(profile[n], profile[m])
            \/ \E u \in missed[n] : Covers(u, profile[m])

=============================================================================
