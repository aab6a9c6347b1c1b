--------------------------- MODULE SigningPages ---------------------------
(***************************************************************************)
(* How the pages of a delegation pick the nonce of what their user signs:  *)
(* join and leave (frontend/app/delegations/[dao]/[id]/page.tsx, act) and  *)
(* the owner's profile updates (.../[id]/edit/page.tsx, submit), sent to   *)
(* all nodes and read back from all of them (fanOutPost,                   *)
(* listDelegationActions and getDelegator in frontend/lib/dao/nodeStore.ts)*)
(*                                                                         *)
(* One address that signs in one tab; espo's tip only goes up.  What the   *)
(* nodes do with a record is in Memberships and Profiles; here a node      *)
(* stores it or does not, and relays nothing: that only makes it easier    *)
(* to hear of a record.                                                    *)
(***************************************************************************)
EXTENDS Nonces, FiniteSetsExt

CONSTANTS
    Stores,         \* the nodes
    MaxSigs,        \* bound: records that exist
    LastTip         \* bound: blocks

ASSUME SigningAssumption ==
    /\ MaxSigs \in Nat
    /\ LastTip \in Nat \ {0}

VARIABLES
    kind,           \* which page it is
    tip,            \* espo's tip
    records,        \* records[n]: those of the address that node n stores
    shownRows,      \* what the page's query holds
    loaded,         \* has the query been answered?
    submission,     \* what is under way
    posts,          \* requests under way, and to whom
    newest,         \* the last record that was accepted
    blind           \* see Blinds

signVars == <<kind, tip, records, shownRows, loaded, submission, posts, newest, blind>>

Sigs == 1..MaxSigs

Row == [height : 1..LastTip, seq : 0..MaxSigs, sig : Sigs]
Draft == [height : 1..LastTip, seq : 0..MaxSigs, sig : {0}]
NoRow == [height |-> 0, seq |-> 0, sig |-> 0]

\* captured: what the click's closure has of the query.
Submission == [stage : {"idle", "tip", "sign", "post", "reread"}, captured : SUBSET Row,
               row : Row \cup Draft \cup {NoRow}, ok : BOOLEAN]
NoSubmission == [stage |-> "idle", captured |-> {}, row |-> NoRow, ok |-> FALSE]

Stored == UNION {records[n] : n \in Stores}

SignTypeOK ==
    /\ kind \in {"membership", "profile"}
    /\ tip \in 1..LastTip
    /\ records \in [Stores -> SUBSET Row]
    /\ shownRows \subseteq Row
    /\ loaded \in BOOLEAN
    /\ submission \in Submission
    /\ posts \subseteq Stores \X Row
    /\ newest \in Row \cup {NoRow}
    /\ blind \in BOOLEAN

SignInit ==
    /\ kind \in {"membership", "profile"}
    /\ tip = 1
    /\ records = [n \in Stores |-> {}]
    /\ shownRows = {} /\ loaded = FALSE
    /\ submission = NoSubmission
    /\ posts = {}
    /\ newest = NoRow
    /\ blind = FALSE

----------------------------------------------------------------------------
MineTip ==
    /\ tip < LastTip
    /\ tip' = tip + 1
    /\ UNCHANGED <<kind, records, shownRows, loaded, submission, posts, newest, blind>>

\* Best(rows): the one that wins.
Best(rows) == CHOOSE r \in rows : \A s \in rows \ {r} : Beats(r, s)

\* The pages cannot know better after a read that did not hear of a record, a
\* click before the first read, a failure that was none, or when they are
\* left while they post.
Blinds(condition) == blind' = (blind \/ condition)

\* The query is answered by the nodes in S: all actions, or the update with
\* the highest nonce.
Hears(S) ==
    LET rows == UNION {records[n] : n \in S}
    IN  /\ shownRows' = IF kind = "profile" /\ rows # {} THEN {Best(rows)} ELSE rows
        /\ loaded' = (kind = "membership" \/ S # {})
        /\ Blinds(rows # Stored)

Read(S) ==
    /\ submission.stage # "reread"
    /\ Hears(S)
    /\ UNCHANGED <<kind, tip, records, submission, posts, newest>>

LeavePage ==
    /\ shownRows' = {} /\ loaded' = FALSE
    /\ submission' = NoSubmission
    /\ Blinds(submission.stage = "post")
    /\ UNCHANGED <<kind, tip, records, posts, newest>>

----------------------------------------------------------------------------
(* A submission *)

\* The edit page has no form before its query is answered; the other one has
\* its button.
Click ==
    /\ submission.stage = "idle"
    /\ kind = "profile" => loaded
    /\ submission' = [NoSubmission EXCEPT !.stage = "tip", !.captured = shownRows]
    /\ Blinds(~loaded)
    /\ UNCHANGED <<kind, tip, records, shownRows, loaded, posts, newest>>

\* Bug: the highest seq is taken again.
ActionSeqAgain(rows, height) ==
    LET mine == {r \in rows : r.height = height}
    IN  IF mine = {} THEN 0 ELSE Max({r.seq : r \in mine})

\* act: past every action at this height.
ActionSeq(rows, height) ==
    LET mine == {r \in rows : r.height = height}
    IN  IF mine = {} THEN 0 ELSE Max({r.seq : r \in mine}) + 1

\* submit: past the update served, if it is at this height.
UpdateSeq(rows, height) ==
    IF rows # {} /\ Best(rows).height = height THEN Best(rows).seq + 1 ELSE 0

TipKnown ==
    /\ submission.stage = "tip"
    /\ submission' = [submission EXCEPT !.stage = "sign",
                  !.row = [height |-> tip, sig |-> 0,
                           seq |-> IF kind = "profile" THEN UpdateSeq(submission.captured, tip)
                                                       ELSE ActionSeq(submission.captured, tip)]]
    /\ UNCHANGED <<kind, tip, records, shownRows, loaded, posts, newest, blind>>

Exist == Stored \cup {p[2] : p \in posts}

\* The wallet signs, some time later, and the record goes to all nodes.  That
\* signatures grow is the worst that can happen: the earlier of two records
\* wins a tie.
SignRow ==
    /\ submission.stage = "sign"
    /\ \E sig \in Sigs :
          /\ \A r \in Exist : r.sig < sig
          /\ submission' = [submission EXCEPT !.stage = "post", !.row.sig = sig]
    /\ posts' = posts \cup {<<n, submission'.row>> : n \in Stores}
    /\ UNCHANGED <<kind, tip, records, shownRows, loaded, newest, blind>>

\* No tip, or no signature.
SigningFails ==
    /\ submission.stage \in {"tip", "sign"}
    /\ submission' = NoSubmission
    /\ UNCHANGED <<kind, tip, records, shownRows, loaded, posts, newest, blind>>

\* A node stores the record or not, and the page hears "ok" or not.
NodeAnswers(n, r, stores, ok) ==
    /\ <<n, r>> \in posts
    /\ ok => stores
    /\ posts' = posts \ {<<n, r>>}
    /\ records' = IF stores THEN [records EXCEPT ![n] = @ \cup {r}] ELSE records
    /\ submission' = IF ok /\ submission.row = r THEN [submission EXCEPT !.ok = TRUE] ELSE submission
    /\ UNCHANGED <<kind, tip, shownRows, loaded, newest, blind>>

\* fanOutPost: "one acceptance is enough".  With it the query is made again
\* before the button is unlocked.
PostSettles ==
    /\ submission.stage = "post"
    /\ \A n \in Stores : <<n, submission.row>> \notin posts
    /\ IF submission.ok
         THEN /\ submission' = [submission EXCEPT !.stage = "reread"]
              /\ newest' = submission.row
              /\ UNCHANGED blind
         ELSE /\ submission' = NoSubmission
              /\ Blinds(submission.row \in Stored)
              /\ UNCHANGED newest
    /\ UNCHANGED <<kind, tip, records, shownRows, loaded, posts>>

Reread(S) ==
    /\ submission.stage = "reread"
    /\ Hears(S)
    /\ submission' = NoSubmission
    /\ UNCHANGED <<kind, tip, records, posts, newest>>

----------------------------------------------------------------------------
SignNext ==
    \/ MineTip \/ LeavePage \/ Click \/ TipKnown \/ SignRow \/ SigningFails \/ PostSettles
    \/ \E S \in SUBSET Stores : Read(S) \/ Reread(S)
    \/ \E p \in posts, stores, ok \in BOOLEAN : NodeAnswers(p[1], p[2], stores, ok)

SignSpec == SignInit /\ [][SignNext]_signVars

----------------------------------------------------------------------------
(* Properties *)

\* page.tsx: "seq bumps past any of MY actions already at this height";
\* edit/page.tsx: "Nonce beats the currently-served update (and any
\* same-height one)".  What was clicked last wins over all that was clicked
\* before, whichever nodes took it, as long as the page is not blind.
LastClickWins ==
    ~blind /\ submission.stage # "post" /\ newest # NoRow
        => \A r \in Stored \ {newest} : Beats(newest, r)

=============================================================================
