------------------------------ MODULE DurableLog ------------------------------
(***************************************************************************)
(* What a plan store promises.  Writes take effect one after the other; one  *)
(* that has been confirmed is kept for good, with all the writes before it;  *)
(* a crash may lose the last ones that were not, and nothing else.           *)
(*                                                                          *)
(* PlanStore implements this module.                                        *)
(***************************************************************************)
EXTENDS Naturals, Sequences

CONSTANT Writes

VARIABLES log,  \* the writes in effect
          kept  \* how many of them are kept for good

vars == <<log, kept>>

Init == log = <<>> /\ kept = 0

Apply(w) == log' = Append(log, w) /\ UNCHANGED kept

Confirm == kept' = Len(log) /\ UNCHANGED log

Lose == /\ \E n \in kept..Len(log) : log' = SubSeq(log, 1, n)
        /\ UNCHANGED kept

Next == (\E w \in Writes : Apply(w)) \/ Confirm \/ Lose

Spec == Init /\ [][Next]_vars
=============================================================================
