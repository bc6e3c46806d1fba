------------------------ MODULE MCExperimentSearch ------------------------
EXTENDS ExperimentSearch

Routes == {"A", "B", "C"}
\* Two workers, with every default left to the code: a route to alter beside the
\* baseline, and two routes.
Altered == [wellFormed |-> TRUE, baseline |-> "A", others |-> {"B"}, maxTrials |-> 3,
            workers |-> 2, beam |-> 0, slots |-> 0, isolation |-> "readonly", runs |-> 1]
Parallel == [Altered EXCEPT !.others = {"B", "C"}, !.maxTrials = 2]
\* One route, one worker.
Serial == [Altered EXCEPT !.others = {}, !.workers = 0, !.isolation = "", !.maxTrials = 2]
Rejected == {[Parallel EXCEPT !.isolation = "serial"], [Serial EXCEPT !.wellFormed = FALSE]}
MCSpecs == {Altered, Parallel, Serial} \cup Rejected
=============================================================================
