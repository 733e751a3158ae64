--------------------------- MODULE ReviewedReports ---------------------------
(***************************************************************************)
(* What the reports of one assessment promise the client who will read     *)
(* them, with no mention of requests, rows, locks or versions: reports are *)
(* numbered in the order they were begun; a report is submitted complete;  *)
(* from its approval on nothing in it changes, neither what its author     *)
(* wrote nor the findings it cites, unless it goes back to draft.          *)
(* While it is reviewed its own words are fixed, but the findings it cites *)
(* may still be edited.                                                    *)
(***************************************************************************)
EXTENDS Naturals

CONSTANTS
    Reports,    \* reports of the assessment
    Blank       \* the content of a report nobody has written yet

VARIABLE shelf  \* Reports -> [stage, number, own, cited]

Absent == "(none)"

\* `own` is what the author decides (the content, the findings cited), `cited`
\* the words of those findings.
Complete(own) == own.content # Blank /\ own.members # {}

Begun(r) == shelf[r].stage # Absent

Others(r) == \A q \in Reports \ {r} : shelf'[q] = shelf[q]

\* The stage of one report moves, and nothing in it.
Moves(r, to) ==
    shelf' = [shelf EXCEPT ![r].stage = to]

ShelfInit ==
    /\ DOMAIN shelf = Reports
    /\ \A r \in Reports : ~Begun(r) /\ shelf[r].number = 0

\* A new draft bears the number after the highest.
Prepare(r) ==
    /\ ~Begun(r)
    /\ DOMAIN shelf' = Reports
    /\ shelf'[r].stage = "DRAFT"
    /\ \A q \in Reports : shelf[q].number < shelf'[r].number
    /\ shelf'[r].number = 1 \/ \E q \in Reports : shelf'[r].number = shelf[q].number + 1
    /\ Others(r)

Rewrite(r) ==
    /\ shelf[r].stage = "DRAFT"
    /\ DOMAIN shelf' = Reports
    /\ shelf'[r].stage = "DRAFT"
    /\ shelf'[r].number = shelf[r].number
    /\ Others(r)

\* An edited finding changes every open report that cites it, and no other.
EditCited ==
    /\ DOMAIN shelf' = Reports
    /\ \A r \in Reports :
          /\ shelf'[r].stage = shelf[r].stage
          /\ shelf'[r].number = shelf[r].number
          /\ shelf'[r].own = shelf[r].own
          /\ shelf[r].stage \notin {"DRAFT", "IN_REVIEW"} => shelf'[r] = shelf[r]

Submit(r) ==
    /\ shelf[r].stage = "DRAFT"
    /\ Complete(shelf[r].own)
    /\ Moves(r, "IN_REVIEW")

Return(r) ==
    /\ shelf[r].stage \in {"IN_REVIEW", "READY_FOR_RELEASE"}
    /\ Moves(r, "DRAFT")

Approve(r) ==
    /\ shelf[r].stage = "IN_REVIEW"
    /\ Complete(shelf[r].own)
    /\ Moves(r, "READY_FOR_RELEASE")

ShelfNext ==
    \/ EditCited
    \/ \E r \in Reports : Prepare(r) \/ Rewrite(r) \/ Submit(r) \/ Return(r) \/ Approve(r)

ShelfSpec == ShelfInit /\ [][ShelfNext]_shelf

=============================================================================
