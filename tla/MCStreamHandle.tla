--------------------------- MODULE MCStreamHandle ---------------------------
(* Up to four subscriptions, one of another candle interval, on a handle   *)
(* that allows two; the family's automatic room is there as well, so that  *)
(* one run covers the replay and the leaves of every stream family.        *)
EXTENDS StreamHandle, TLC

MCInterval == [r \in Rooms |-> IF r = CHOOSE s \in Rooms : TRUE THEN "1second" ELSE "1minute"]
=============================================================================
