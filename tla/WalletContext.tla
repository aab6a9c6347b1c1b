--------------------------- MODULE WalletContext ---------------------------
(***************************************************************************)
(* Which wallet the page shows: VendorWalletContext.tsx and the modal      *)
(* ConnectWalletModal.tsx on top of the pairings of FrtunSessions.         *)
(*                                                                         *)
(* The other wallets (the two popups and the extensions) are connected by  *)
(* one call that succeeds or fails some time later (PopupRequests says how *)
(* for the popups).  A mobile session is named by its pairing.  One tab:   *)
(* the storage several tabs share is not modelled.                         *)
(***************************************************************************)
EXTENDS FrtunSessions

CONSTANT Wallets        \* passport, pizza.fun, extensions

ASSUME WalletAssumption == Wallets \cap (Pairings \cup {Nobody}) = {}

VARIABLES
    session,        \* the wallet shown
    stored,         \* the session in localStorage
    adapter,        \* mobileAdapterRef
    modal,          \* the view of the modal
    pairing,        \* pairingAdapterRef
    connecting      \* the wallet whose connect call is under way

contextVars == <<session, stored, adapter, modal, pairing, connecting>>
walletVars == <<frtunVars, contextVars>>

WalletTypeOK ==
    /\ FrtunTypeOK
    /\ session \in Wallets \cup Pairings \cup {Nobody}
    /\ stored \in Wallets \cup {Nobody}
    /\ adapter \in Pairings \cup {Nobody}
    /\ modal \in {"closed", "select", "mobile"}
    /\ pairing \in Pairings \cup {Nobody}
    /\ connecting \in Wallets \cup {Nobody}

WalletInit ==
    /\ FrtunInit
    /\ stored \in Wallets \cup {Nobody}
    /\ session = stored
    /\ adapter = Nobody
    /\ modal = "closed"
    /\ pairing = Nobody
    /\ connecting = Nobody

----------------------------------------------------------------------------
(* The adapter *)

\* adapter.disconnect: it closes the stream once there is a session, and does
\* nothing to a pairing that still listens.
DisconnectAdapter(p) ==
    /\ link' = IF p # Nobody /\ p \in link[p].asked THEN [link EXCEPT ![p] = Hung(@)] ELSE link
    /\ Quietly

CancelPairing ==
    /\ pairing' = Nobody
    /\ DisconnectAdapter(pairing)

----------------------------------------------------------------------------
(* The modal *)

\* The button is there without a session, and not while a wallet connects.
OpenModal ==
    /\ session = Nobody /\ connecting = Nobody
    /\ modal = "closed"
    /\ modal' = "select"
    /\ UNCHANGED <<frtunVars, session, stored, adapter, pairing, connecting>>

\* close, or the way back from the pairing view.
LeavePairing(view) ==
    /\ modal # "closed" /\ view # modal
    /\ modal' = view
    /\ CancelPairing
    /\ UNCHANGED <<session, stored, adapter, connecting>>

\* A pairing is started, or retried after it failed.  Names are fresh: which
\* unused one is taken makes no difference.
StartPairing(p) ==
    /\ \/ modal = "select" /\ connecting = Nobody
       \/ modal = "mobile" /\ pairing = Nobody
    /\ Listen(p)
    /\ p = CHOOSE q \in Pairings : link[q].stage = "none"
    /\ modal' = "mobile"
    /\ pairing' = p
    /\ UNCHANGED <<session, stored, adapter, connecting>>

ConnectWallet(w) ==
    /\ modal = "select" /\ connecting = Nobody
    /\ connecting' = w
    /\ UNCHANGED <<frtunVars, session, stored, adapter, modal, pairing>>

----------------------------------------------------------------------------
(* adoptSession *)

\* A mobile session is not saved.
Adopt(w) ==
    /\ session' = w
    /\ stored' = IF w \in Wallets THEN w ELSE stored
    /\ modal' = "closed"

\* The wallet answers the connect call: the modal closes, which cancels the
\* pairing it shows.
WalletConnects(w) ==
    /\ connecting = w
    /\ connecting' = Nobody
    /\ Adopt(w)
    /\ CancelPairing
    /\ UNCHANGED adapter

WalletFails ==
    /\ connecting # Nobody
    /\ connecting' = Nobody
    /\ UNCHANGED <<frtunVars, session, stored, adapter, modal, pairing>>

AdoptMobile(p) ==
    /\ Adopt(p)
    /\ adapter' = p

\* Bug: the modal does not look whether the pairing is still its own.
PairingEndsAnyway(p) ==
    IF link[p].stage = "accounts" /\ link'[p].stage = "paired"
      THEN /\ pairing' = Nobody
           /\ AdoptMobile(p) \/ UNCHANGED <<session, stored, adapter, modal>>
      ELSE /\ pairing' = IF pairing = p /\ link'[p].stage = "failed" THEN Nobody ELSE pairing
           /\ UNCHANGED <<session, stored, adapter, modal>>

\* What startMobilePairing does as the connection of p goes on: it adopts the
\* session if the pairing was not cancelled, unless the phone has no address,
\* and drops a pairing that failed.
PairingEnds(p) ==
    IF pairing = p /\ link[p].stage = "accounts" /\ link'[p].stage = "paired"
      THEN /\ pairing' = Nobody
           /\ AdoptMobile(p) \/ UNCHANGED <<session, stored, adapter, modal>>
      ELSE /\ pairing' = IF pairing = p /\ link'[p].stage = "failed" THEN Nobody ELSE pairing
           /\ UNCHANGED <<session, stored, adapter, modal>>

Connection(p) ==
    /\ Transport(p)
    /\ PairingEnds(p)
    /\ UNCHANGED connecting

----------------------------------------------------------------------------
(* The session *)

Sign(r) ==
    /\ adapter # Nobody
    /\ Request(adapter, r)
    /\ r = CHOOSE q \in Requests : Outcome(q) = "idle"
    /\ UNCHANGED contextVars

\* Bug: the adapter is left in its ref.
DisconnectKeepsAdapter ==
    /\ session # Nobody
    /\ session' = Nobody
    /\ stored' = Nobody
    /\ DisconnectAdapter(adapter)
    /\ UNCHANGED <<adapter, modal, pairing, connecting>>

Disconnect ==
    /\ session # Nobody
    /\ session' = Nobody
    /\ stored' = Nobody
    /\ adapter' = Nobody
    /\ DisconnectAdapter(adapter)
    /\ UNCHANGED <<modal, pairing, connecting>>

\* The page is loaded again: only the storage survives.
Reload ==
    /\ session' = stored
    /\ adapter' = Nobody
    /\ modal' = "closed"
    /\ pairing' = Nobody
    /\ connecting' = Nobody
    /\ link' = [p \in Pairings |-> IF link[p].stage = "none" THEN link[p] ELSE Dead(link[p])]
    /\ FailQueued(Pairings)
    /\ UNCHANGED <<given, stored>>

----------------------------------------------------------------------------
WalletNext ==
    \/ OpenModal
    \/ \E view \in {"closed", "select"} : LeavePairing(view)
    \/ \E p \in Pairings : StartPairing(p) \/ Connection(p)
    \/ \E w \in Wallets : ConnectWallet(w) \/ WalletConnects(w)
    \/ WalletFails
    \/ \E r \in Requests : Sign(r)
    \/ Disconnect
    \/ Reload

\* Only the timer of a request has to go off (5 minutes, client.ts).  Nothing
\* is asked of the phone, the bridge or the network.
WalletFairness ==
    \A p \in Pairings : WF_walletVars(RequestTimeout(p) /\ PairingEnds(p) /\ UNCHANGED connecting)

WalletSpec == WalletInit /\ [][WalletNext]_walletVars /\ WalletFairness

----------------------------------------------------------------------------
(* Properties *)

\* mobile.ts, VendorWalletContext.tsx: a mobile session is "deliberately not
\* persisted", every other one is.  Loading the page again shows the wallet it
\* showed or, after a mobile session, none: never a wallet used before, nor
\* one that was disconnected.  And messages go to the phone of the session.
StoredIsShown ==
    /\ stored = IF session \in Wallets THEN session ELSE Nobody
    /\ adapter = IF session \in Pairings THEN session ELSE Nobody

\* ConnectWalletModal.tsx: "only adopt if this pairing wasn't cancelled".  The
\* wallet shown never changes into another one: a phone that accepts after
\* its pairing was given up, or a popup that answers late, finds its call
\* gone or no session in its way.
NoReplacement ==
    [][session # Nobody /\ session' # session => session' = Nobody]_walletVars

=============================================================================
