---------------------------- MODULE WalletCalls ----------------------------
(***************************************************************************)
(* What a wallet connection promises the page: a call returns once, with   *)
(* an answer the wallet gave to that very call, or fails, and it does one  *)
(* of the two in the end.  FrtunSessions (the phone, over a bridge) and    *)
(* PopupRequests (the popup, over postMessage) are compared with this.     *)
(***************************************************************************)
CONSTANTS Calls, Answers

VARIABLES
    outcome,    \* outcome[c]: "idle", "waiting", "failed" or the answer returned
    given       \* <<c, a>>: the wallet has answered call c with a

vars == <<outcome, given>>

Init ==
    /\ outcome = [c \in Calls |-> "idle"]
    /\ given = {}

Make(c) == outcome[c] = "idle" /\ outcome'[c] = "waiting"

Return(c) == outcome[c] = "waiting" /\ <<c, outcome'[c]>> \in given

Fail(c) == outcome[c] \in {"idle", "waiting"} /\ outcome'[c] = "failed"

\* The wallet answers a call that was made, perhaps more than once.
Give(c, a) == outcome[c] # "idle" /\ a \in Answers

\* Several calls may return or fail at once: a connection that breaks fails
\* all that wait.
Next ==
    /\ DOMAIN outcome' = Calls
    /\ \A c \in Calls : outcome'[c] # outcome[c] => Make(c) \/ Return(c) \/ Fail(c)
    /\ given \subseteq given'
    /\ \A g \in given' \ given : Give(g[1], g[2])

\* Each call is made once: that none waits for ever is that none waits in the end.
Settles == <>[](\A c \in Calls : outcome[c] # "waiting")

\* What a call never does: return what was not answered to it, return twice.
Safety == Init /\ [][Next]_vars

Spec == Safety /\ Settles

=============================================================================
