--------------------------- MODULE MCRestExecute ---------------------------
(* Two calls over a gate that admits two attempts per window (one order)   *)
(* and three a day: a retried read can use up the quota of the other call, *)
(* the deadline can pass in the gate, on the wire and in the backoff, and  *)
(* a Retry-After can fit within the deadline or not.                       *)
EXTENDS RestExecute, TLC

MCLimit  == [minute |-> 2, day |-> 3, mutations |-> 1]
MCWindow == [minute |-> 2, day |-> 6, mutations |-> 1]

MCClasses == {"Read", "PlaceOrder"}

MCRetryAfters == {0, 2}

MCSymmetry == Permutations(Calls)
============================================================================
