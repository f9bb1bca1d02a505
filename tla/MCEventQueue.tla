---------------------------- MODULE MCEventQueue ----------------------------
(* Two callbacks and a queue of two: enough for both to be refused before  *)
(* either has counted, and for the queue to fill, drain and fill again.    *)
EXTENDS EventQueue, TLC

MCSymmetry == Permutations(Callbacks)
=============================================================================
