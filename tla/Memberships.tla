---------------------------- MODULE Memberships ----------------------------
(***************************************************************************)
(* Joining and leaving delegations: POST /delegations                      *)
(* (surtur-node/src/routes.ts) with hasDelegationAction and                *)
(* insertDelegationAction (db.ts).  A node keeps every action it accepts;  *)
(* who is a member at a height follows from them (DelegatedTally).         *)
(*                                                                         *)
(* Every node has every other as its peer and knows the DAO.  Actions are  *)
(* well-formed and signed by their address.                                *)
(***************************************************************************)
EXTENDS DelegatedTally

CONSTANTS
    Nodes,
    InitKnown,      \* InitKnown[n]: the delegations n has a row for at the start
    Allowance,      \* HEIGHT_ALLOWANCE
    MaxTip,         \* bound: the highest block mined
    MaxPosts,       \* bound: how many actions clients post
    Unreliable      \* may requests be lost, nodes crash, espo fail?

ASSUME MembershipAssumption ==
    /\ InitKnown \in [Nodes -> SUBSET Delegations]
    /\ Allowance \in Nat /\ MaxTip \in Nat /\ MaxPosts \in Nat
    /\ Unreliable \in BOOLEAN

VARIABLES
    tip,            \* espo's tip
    known,          \* known[n]: the delegations node n has a row for
    log,            \* log[n]: rows of node n's delegation_actions table
    msgs,           \* POST /delegations requests under way
    handlers,       \* handlers that wait for the tip
    posts,          \* actions clients have posted
    missed          \* missed[n]: the actions that were lost on the way to n,
                    \* or that n failed at or refused

vars == <<tip, known, log, msgs, handlers, posts, missed>>

Msg == [to : Nodes, action : Actions]
\* asked: the tip when the handler asked for it.
Handler == [at : Nodes, action : Actions, asked : 0..MaxTip]

TypeOK ==
    /\ tip \in 0..MaxTip
    /\ known \in [Nodes -> SUBSET Delegations]
    /\ log \in [Nodes -> SUBSET Actions]
    /\ msgs \subseteq Msg
    /\ handlers \subseteq Handler
    /\ posts \in 0..MaxPosts
    /\ missed \in [Nodes -> SUBSET Actions]

Init ==
    /\ tip = 0
    /\ known = InitKnown
    /\ log = [n \in Nodes |-> {}]
    /\ msgs = {}
    /\ handlers = {}
    /\ posts = 0
    /\ missed = [n \in Nodes |-> {}]

Mine ==
    /\ tip < MaxTip
    /\ tip' = tip + 1
    /\ UNCHANGED <<known, log, msgs, handlers, posts, missed>>

\* insertDelegator, the end of the creation Profiles models.
LearnDelegation(n, d) ==
    /\ known' = [known EXCEPT ![n] = @ \cup {d}]
    /\ UNCHANGED <<tip, log, msgs, handlers, posts, missed>>

PostAction(targets, a) == {[to |-> n, action |-> a] : n \in targets}

\* A member signs, at the tip of the moment, for a delegation some node
\* serves; a post may repeat an earlier one.
SubmitAction(a, targets) ==
    /\ posts < MaxPosts
    /\ \E n \in Nodes : a.delegation \in known[n]
    /\ a.height <= tip
    /\ posts' = posts + 1
    /\ msgs' = msgs \cup PostAction(targets, a)
    /\ UNCHANGED <<tip, known, log, handlers, missed>>

----------------------------------------------------------------------------
(* POST /delegations up to the request for the tip *)

\* The primary key of delegation_actions: all but the signature.
SameKey(a, b) ==
    /\ a.address = b.address /\ a.height = b.height /\ a.seq = b.seq
    /\ a.delegation = b.delegation /\ a.kind = b.kind

HasAction(n, a) == \E b \in log[n] : SameKey(a, b)

\* The owner of a delegation may not join one.
OwnerJoins(n, a) == a.kind = "join" /\ \E d \in known[n] : Owner[d] = a.address

Acceptable(n, a) == a.delegation \in known[n] /\ ~OwnerJoins(n, a)

Miss(n, a) == missed' = [missed EXCEPT ![n] = @ \cup {a}]

KnownAction(m) ==
    /\ m \in msgs
    /\ HasAction(m.to, m.action)
    /\ msgs' = msgs \ {m}
    /\ UNCHANGED <<tip, known, log, handlers, posts, missed>>

\* 400 "unknown delegator", 403 for an owner, or a request that is lost.
DropAction(m) ==
    /\ m \in msgs
    /\ Unreliable \/ ~(HasAction(m.to, m.action) \/ Acceptable(m.to, m.action))
    /\ msgs' = msgs \ {m}
    /\ Miss(m.to, m.action)
    /\ UNCHANGED <<tip, known, log, handlers, posts>>

\* Bug: the tip is taken for the height of the next block.
StartActionNextBlock(m) ==
    /\ m \in msgs
    /\ ~HasAction(m.to, m.action)
    /\ Acceptable(m.to, m.action)
    /\ msgs' = msgs \ {m}
    /\ handlers' = handlers \cup {[at |-> m.to, action |-> m.action, asked |-> tip + 1]}
    /\ UNCHANGED <<tip, known, log, posts, missed>>

StartAction(m) ==
    /\ m \in msgs
    /\ ~HasAction(m.to, m.action)
    /\ Acceptable(m.to, m.action)
    /\ msgs' = msgs \ {m}
    /\ handlers' = handlers \cup {[at |-> m.to, action |-> m.action, asked |-> tip]}
    /\ UNCHANGED <<tip, known, log, posts, missed>>

----------------------------------------------------------------------------
(* ... and after espo's answer *)

Admits(h) == \E t \in h.asked..tip : InWindow(h.action.height, t, Allowance)
Rejects(h) == \E t \in h.asked..tip : ~InWindow(h.action.height, t, Allowance)

\* Bug: an action is inserted without a relay.
InsertActionSilently(h) ==
    /\ h \in handlers
    /\ Admits(h)
    /\ handlers' = handlers \ {h}
    /\ log' = [log EXCEPT ![h.at] = IF HasAction(h.at, h.action) THEN @ ELSE @ \cup {h.action}]
    /\ UNCHANGED <<tip, known, msgs, posts, missed>>

\* INSERT OR IGNORE, and relay whether or not the row was new.
InsertAction(h) ==
    /\ h \in handlers
    /\ Admits(h)
    /\ handlers' = handlers \ {h}
    /\ log' = [log EXCEPT ![h.at] = IF HasAction(h.at, h.action) THEN @ ELSE @ \cup {h.action}]
    /\ msgs' = msgs \cup PostAction(Nodes \ {h.at}, h.action)
    /\ UNCHANGED <<tip, known, posts, missed>>

\* Bug: a refused action leaves its address without any.
RefuseActionForgets(h) ==
    /\ h \in handlers
    /\ Rejects(h) \/ Unreliable
    /\ handlers' = handlers \ {h}
    /\ log' = [log EXCEPT ![h.at] = {a \in @ : a.address # h.action.address}]
    /\ Miss(h.at, h.action)
    /\ UNCHANGED <<tip, known, msgs, posts>>

\* The height is too far from the tip, or espo fails.
RefuseAction(h) ==
    /\ h \in handlers
    /\ Rejects(h) \/ Unreliable
    /\ handlers' = handlers \ {h}
    /\ Miss(h.at, h.action)
    /\ UNCHANGED <<tip, known, log, msgs, posts>>

\* The process of n dies and restarts: its rows stay, its handlers are gone.
Crash(n) ==
    /\ Unreliable
    /\ handlers' = {h \in handlers : h.at # n}
    /\ missed' = [missed EXCEPT ![n] = @ \cup {h.action : h \in handlers \ handlers'}]
    /\ UNCHANGED <<tip, known, log, msgs, posts>>

----------------------------------------------------------------------------
Next ==
    \/ Mine
    \/ \E n \in Nodes, d \in Delegations : LearnDelegation(n, d)
    \/ \E a \in Actions, targets \in SUBSET Nodes \ {{}} : SubmitAction(a, targets)
    \/ \E m \in msgs : KnownAction(m) \/ DropAction(m) \/ StartAction(m)
    \/ \E h \in handlers : InsertAction(h) \/ RefuseAction(h)
    \/ \E n \in Nodes : Crash(n)

Spec == Init /\ [][Next]_vars

----------------------------------------------------------------------------
(* Properties *)

\* A height too old for any action node n may still insert.
Settled(n, e) ==
    /\ e < tip - Allowance
    /\ \A h \in handlers : h.at = n => e < h.asked - Allowance

\* routes.ts: "effective-state history can't be rewritten by backdated
\* joins/leaves".  Who was a member at a settled height never changes.
HistorySettled ==
    [][\A n \in Nodes, x \in Addresses, e \in 0..MaxTip :
          Settled(n, e) => Membership(log'[n], x, e) = Membership(log[n], x, e)]_vars

Quiet == msgs = {} /\ handlers = {}

\* delegation.ts: "The action with the HIGHEST nonce wins everywhere; exact
\* nonce ties converge on the lexicographically smallest signature".  Nodes at
\* rest that missed nothing agree on every member at every height.
MembersAgree ==
    Quiet => \A m, n \in Nodes :
        missed[m] = {} /\ missed[n] = {} =>
            \A x \in Addresses, e \in 0..MaxTip :
                Membership(log[m], x, e) = Membership(log[n], x, e)

\* A node at rest lacks an action that another one stores only if it missed
\* it: nothing a node stores is lost again, and whatever it stores it relays.
LackedOnlyIfMissed ==
    Quiet => \A m, n \in Nodes : \A a \in log[m] :
        HasAction(n, a) \/ \E b \in missed[n] : SameKey(a, b)

\* The order in which SQLite lists the rows does not matter to who is a member.
ResolveOrderFree ==
    \A n \in Nodes, x \in Addresses, e \in 0..MaxTip : \A rows \in Listings(log[n]) :
        RowsMembership(rows, x, e) = Membership(log[n], x, e)

\* No balance counts in two votes.
BalanceOnce ==
    \A n \in Nodes, e \in 0..MaxTip :
        \A v, w \in Counted(log[n], Addresses, e) :
            v # w => Carried(log[n], known[n], v, e) \cap Carried(log[n], known[n], w, e) = {}

\* A node asks espo for exactly the balances its tally adds up: a missing one
\* would count as zero.
PricedIsCarried ==
    \A n \in Nodes, e \in 0..MaxTip, voters \in SUBSET Addresses :
        Priced(log[n], known[n], voters, e)
            = UNION {Carried(log[n], known[n], v, e) : v \in Counted(log[n], voters, e)}

=============================================================================
