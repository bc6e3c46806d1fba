-------------------------- MODULE MCAutoResearch --------------------------
EXTENDS AutoResearch

MCFile == {"f", "g"}
MCContent == 0..1
MCOriginal == [f \in MCFile |-> 0]
MCScore == 0..2

\* A hidden evaluator and a budget beyond what the input allows.
Holdout == [wellFormed |-> TRUE, revision |-> "none", aggregation |-> "worst",
            maxTrials |-> 5, inputTrials |-> 4, searchRuns |-> 0,
            validationRuns |-> 0, inputRuns |-> NoInput, editable |-> MCFile,
            protected |-> {"eval", "hidden"}, evaluator |-> "eval", holdout |-> "hidden"]
\* Several search runs; one file, because the trials are long.
Mean == [Holdout EXCEPT !.holdout = "none", !.aggregation = "mean", !.searchRuns = 3,
                        !.maxTrials = 1, !.inputTrials = NoInput, !.editable = {"f"}]
Median == [Mean EXCEPT !.aggregation = "median", !.searchRuns = 2,
                       !.validationRuns = 5, !.inputRuns = 9]
Rejected == {[Holdout EXCEPT !.protected = {"eval", "f"}, !.holdout = "none"],
             [Holdout EXCEPT !.revision = "differs"], [Holdout EXCEPT !.wellFormed = FALSE]}
MCRawSpecs == {Holdout, Mean, Median} \cup Rejected
=============================================================================
