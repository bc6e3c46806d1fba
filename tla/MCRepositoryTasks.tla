------------------------- MODULE MCRepositoryTasks -------------------------
(* Two repositories with a commit in common, one of them the curated one, and *)
(* requests with and without a revision, a query and uploads.                 *)
EXTENDS RepositoryTasks, TLC

CONSTANTS curated, other, c1, c2

MCHistory == curated :> {c1, c2} @@ other :> {c1}

Request(preferred, query, wellKnown, revisions, uploads) ==
    [preferred |-> preferred, query |-> query, wellKnown |-> wellKnown, fits |-> {curated},
     revisions |-> revisions, uploads |-> uploads, mode |-> "auto", fullRequested |-> uploads,
     skipRunner |-> FALSE, attention |-> wellKnown]

Unpinned == Request(NoRepo, "title", TRUE, {}, FALSE)
Preferred == Request(other, "none", FALSE, {c1}, TRUE)
Pin == Request(NoRepo, "arxiv", FALSE, {c1}, FALSE)

NoQuery == Request(NoRepo, "none", FALSE, {}, FALSE)
Conflict == Request(other, "title", FALSE, {c1, c2}, FALSE)

MCRequests == {<<Unpinned, Pin>>, <<Preferred, Pin>>, <<NoQuery, Conflict>>}
=============================================================================
