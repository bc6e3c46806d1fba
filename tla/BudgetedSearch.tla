--------------------------- MODULE BudgetedSearch ---------------------------
(***************************************************************************)
(* What a search under a budget promises: it measures a baseline, then     *)
(* tries at most `budget' candidates; the candidate it holds (the          *)
(* incumbent) is only ever replaced by a better one, and a search that is  *)
(* given up begins again from nothing.                                     *)
(***************************************************************************)
EXTENDS Integers

CONSTANTS Candidate,          \* what can be tried
          NoCandidate,        \* there is no incumbent yet
          Better(_, _)        \* a new score against the incumbent's

VARIABLES incumbent,          \* the best candidate so far
          score,              \* its score, whatever that is without one
          left                \* how many candidates may still be tried

searchVars == <<incumbent, score, left>>

SearchInit == incumbent = NoCandidate

\* The baseline is measured and the budget is set.
MeasureBaseline ==
    /\ incumbent = NoCandidate
    /\ incumbent' \in Candidate

\* One candidate is tried and discarded.
Discard ==
    /\ incumbent # NoCandidate
    /\ left > 0
    /\ left' = left - 1
    /\ UNCHANGED <<incumbent, score>>

\* One candidate is tried and is better than the incumbent.
Adopt ==
    /\ incumbent # NoCandidate
    /\ left > 0
    /\ left' = left - 1
    /\ incumbent' \in Candidate
    /\ Better(score', score)

\* The search is given up, or its result has been handed over.
GiveUp == incumbent' = NoCandidate

SearchNext == MeasureBaseline \/ Discard \/ Adopt \/ GiveUp

SearchSpec == SearchInit /\ [][SearchNext]_searchVars
=============================================================================
