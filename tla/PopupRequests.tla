--------------------------- MODULE PopupRequests ---------------------------
(***************************************************************************)
(* Asking a popup wallet: SubfrostConnector.request (frontend/             *)
(* subfrost-connect/src/connector.ts) and the pages that open the popup in *)
(* the click and ask it after asynchronous work.                           *)
(*                                                                         *)
(* All calls of both connectors (SUBFROST and pizza.fun) open a window of  *)
(* one name: while it is open, opening it again loads another page into    *)
(* it.  The page inside is the wallet's and not in this repository; it     *)
(* serves the first init it hears and answers it, once per load.  Inits    *)
(* are sent when the page says it is ready and every 250 ms until acked,   *)
(* so a page that is ready hears one of each call that waits for it.       *)
(***************************************************************************)
EXTENDS Naturals, Sequences

CONSTANTS
    PopupIds,       \* request ids
    Origins,
    Serves,         \* Serves[c]: the origin of the connector that makes call c
    NoPage,         \* no init heard yet
    MaxWindows,     \* bound: windows opened anew
    MaxMail         \* bound: messages under way

ASSUME PopupAssumption ==
    /\ Serves \in [PopupIds -> Origins]
    /\ NoPage \notin PopupIds
    /\ MaxWindows \in Nat /\ MaxMail \in Nat

VARIABLES
    call,           \* call[c]: how far the call is, or how it ended
    popup,          \* popup[c]: the window it talks to, 0 for none
    window,         \* the window of the name, the last of `number' windows
    mail,           \* messages from pages to the opener
    replied         \* <<c, a>>: what pages have answered

popupVars == <<call, popup, window, mail, replied>>

PopupAnswers == {"result", "reject"}
Windows == 1..MaxWindows
Mail == [from : Windows, origin : Origins, re : PopupIds, kind : PopupAnswers]

\* serving: the call whose init the page has heard; told: has it answered?
Window == [number : 0..MaxWindows, open : BOOLEAN, origin : Origins,
           serving : PopupIds \cup {NoPage}, told : BOOLEAN]

PopupTypeOK ==
    /\ call \in [PopupIds -> {"idle", "preset", "waiting", "failed"} \cup PopupAnswers]
    /\ popup \in [PopupIds -> 0..MaxWindows]
    /\ window \in Window
    /\ mail \in Seq(Mail)
    /\ replied \subseteq PopupIds \X PopupAnswers

PopupInit ==
    /\ call = [c \in PopupIds |-> "idle"]
    /\ popup = [c \in PopupIds |-> 0]
    /\ \E o \in Origins :
          window = [number |-> 0, open |-> FALSE, origin |-> o, serving |-> NoPage, told |-> FALSE]
    /\ mail = <<>>
    /\ replied = {}

----------------------------------------------------------------------------
(* The page that asks *)

\* window.open with the shared name: a page of c's origin starts to load.
Open(c) ==
    /\ window.open \/ window.number < MaxWindows
    /\ window' = [number |-> IF window.open THEN window.number ELSE window.number + 1,
                  open |-> TRUE, origin |-> Serves[c], serving |-> NoPage, told |-> FALSE]
    /\ popup' = [popup EXCEPT ![c] = window'.number]

Has(c) == window.open /\ popup[c] = window.number
CloseIf(b) == window' = IF b THEN [window EXCEPT !.open = FALSE, !.serving = NoPage] ELSE window

\* openSignPopup, in the click.
OpenPopup(c) ==
    /\ call[c] = "idle"
    /\ Open(c)
    /\ call' = [call EXCEPT ![c] = "preset"]
    /\ UNCHANGED <<mail, replied>>

\* The work before the request fails: the popup is closed.
GiveUp(c) ==
    /\ call[c] = "preset"
    /\ CloseIf(Has(c))
    /\ call' = [call EXCEPT ![c] = "failed"]
    /\ UNCHANGED <<popup, mail, replied>>

\* request() with a popup that is still open, or opening one.
Ask(c) ==
    /\ call[c] \in {"idle", "preset"}
    /\ IF call[c] = "preset" /\ Has(c) THEN UNCHANGED <<window, popup>> ELSE Open(c)
    /\ call' = [call EXCEPT ![c] = "waiting"]
    /\ UNCHANGED <<mail, replied>>

\* POPUP_BLOCKED.
Blocked(c) ==
    /\ call[c] \in {"idle", "preset"}
    /\ ~(call[c] = "preset" /\ Has(c))
    /\ call' = [call EXCEPT ![c] = "failed"]
    /\ UNCHANGED <<popup, window, mail, replied>>

----------------------------------------------------------------------------
(* The window *)

\* postMessage reaches a page of the connector's origin only.
HearInit(c) ==
    /\ call[c] = "waiting"
    /\ Has(c) /\ window.origin = Serves[c]
    /\ window.serving = NoPage
    /\ window' = [window EXCEPT !.serving = c]
    /\ UNCHANGED <<call, popup, mail, replied>>

\* The user signs or rejects.
Reply(a) ==
    /\ window.serving # NoPage /\ ~window.told
    /\ Len(mail) < MaxMail
    /\ window' = [window EXCEPT !.told = TRUE]
    /\ mail' = Append(mail, [from |-> window.number, origin |-> window.origin,
                             re |-> window.serving, kind |-> a])
    /\ replied' = replied \cup {<<window.serving, a>>}
    /\ UNCHANGED <<call, popup>>

\* The user reloads the page, or closes the window, as the page itself does.
ReloadPage ==
    /\ window.open
    /\ window' = [window EXCEPT !.serving = NoPage, !.told = FALSE]
    /\ UNCHANGED <<call, popup, mail, replied>>

CloseWindow ==
    /\ window.open
    /\ CloseIf(TRUE)
    /\ UNCHANGED <<call, popup, mail, replied>>

----------------------------------------------------------------------------
(* The ends of a request *)

\* Bug: the request id is not compared.
ForAny(c, m) == call[c] = "waiting" /\ popup[c] = m.from /\ Serves[c] = m.origin

\* onMessage: from the call's popup, its origin, with its request id.
For(c, m) == call[c] = "waiting" /\ popup[c] = m.from /\ Serves[c] = m.origin /\ m.re = c

\* The message settles the call it is for; a rejection closes the window.
Message ==
    /\ mail # <<>>
    /\ LET m == Head(mail)
           theirs == {c \in PopupIds : For(c, m)}
       IN  /\ call' = [c \in PopupIds |-> IF c \in theirs THEN m.kind ELSE call[c]]
           /\ CloseIf(m.kind = "reject" /\ \E c \in theirs : Has(c))
    /\ mail' = Tail(mail)
    /\ UNCHANGED <<popup, replied>>

Closed(c) ==
    /\ call[c] = "waiting"
    /\ ~Has(c)
    /\ call' = [call EXCEPT ![c] = "failed"]
    /\ UNCHANGED <<popup, window, mail, replied>>

\* The window is closed, whatever call it serves by now.
Timeout(c) ==
    /\ call[c] = "waiting"
    /\ CloseIf(Has(c))
    /\ call' = [call EXCEPT ![c] = "failed"]
    /\ UNCHANGED <<popup, mail, replied>>

----------------------------------------------------------------------------
PopupNext ==
    \/ \E c \in PopupIds : OpenPopup(c) \/ GiveUp(c) \/ Ask(c) \/ Blocked(c)
    \/ \E c \in PopupIds : HearInit(c) \/ Closed(c) \/ Timeout(c)
    \/ \E a \in PopupAnswers : Reply(a)
    \/ ReloadPage \/ CloseWindow \/ Message

\* Only the timer of a call has to go off.
PopupFairness == \A c \in PopupIds : WF_popupVars(Timeout(c))

PopupSpec == PopupInit /\ [][PopupNext]_popupVars /\ PopupFairness

----------------------------------------------------------------------------
(* Properties *)

\* protocol.ts: the request id is "echoed back on every popup response".  With
\* one window for all, reloaded by the user or by the next call, closed by the
\* time-out of an older call, and answers of a page already gone, each
\* request is still a call of WalletCalls.
PopupCall == INSTANCE WalletCalls WITH
    Calls <- PopupIds, Answers <- PopupAnswers, given <- replied,
    outcome <- [c \in PopupIds |-> IF call[c] = "preset" THEN "idle" ELSE call[c]]
PopupCalls == PopupCall!Spec

=============================================================================
