---------------------------- MODULE MCEventStream ----------------------------
(* Two workers, one watching browser, and a channel that holds one event.     *)
EXTENDS EventStream

CONSTANTS w1, w2, s1
=============================================================================
