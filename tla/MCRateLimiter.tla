--------------------------- MODULE MCRateLimiter ---------------------------
(* Two callers over small windows.  The proportions keep what              *)
(* matters: the order gate is the shortest window and the tightest quota,  *)
(* the daily one the longest, and each of the three can be the one that is *)
(* full while the others are not.                                          *)
EXTENDS RateLimiter, TLC

MCLimit  == [minute |-> 2, day |-> 3, mutations |-> 1]
MCWindow == [minute |-> 3, day |-> 5, mutations |-> 2]

MCClasses == {"Read", "PlaceOrder"}

MCSymmetry == Permutations(Tasks)
============================================================================
