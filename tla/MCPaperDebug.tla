---------------------------- MODULE MCPaperDebug ----------------------------
(* Projects of each kind, and requirements that meet every branch: a plain    *)
(* one, a constrained one the installer refuses, one replaced for the old     *)
(* Python, one of the standard library and one of the workspace.              *)
EXTENDS PaperDebug, TLC

CONSTANTS np, npConstrained, old, os, utils, main, util, v1, v2, v3

MCRoot == np :> "numpy" @@ npConstrained :> "numpy" @@ old :> "old" @@ os :> "os" @@ utils :> "utils"
MCCompatible == [r \in Requirement |-> IF r = old THEN {np} ELSE {r}]

Project(kind, code, workspace, listed, smoke, mounted, given) ==
    [kind |-> kind, code |-> code, sources |-> workspace, listed |-> listed,
     smoke |-> smoke, mounted |-> mounted, given |-> given]

MCOriginal == {[f \in File |-> v1]}

MCProjects == {Project("code", {np, os}, {}, {}, FALSE, FALSE, FALSE),
               Project("code", {np, os}, {}, {}, FALSE, FALSE, TRUE),
               Project("code", {old}, {utils, np}, {npConstrained}, FALSE, TRUE, FALSE),
               Project("code", {np}, {utils}, {npConstrained}, TRUE, TRUE, FALSE),
               Project("direct", {}, {}, {}, FALSE, FALSE, FALSE),
               Project("paper", {}, {}, {}, FALSE, TRUE, FALSE)}
=============================================================================
