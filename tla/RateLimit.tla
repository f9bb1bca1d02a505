----------------------------- MODULE RateLimit -----------------------------
(***************************************************************************)
(* The pure rate gate of src/rate_limit.rs: three deques of recorded       *)
(* instants, pruned from the front and consulted by try_acquire_at.        *)
(*                                                                         *)
(* Durations are natural numbers of an unnamed tick.  Duration arithmetic  *)
(* saturates in the code; subtraction saturates here as well, and addition *)
(* cannot reach the u64 limit of a process uptime.                         *)
(***************************************************************************)
EXTENDS Integers, Sequences, FiniteSetsExt

Deque == {"minute", "day", "mutations"}

CONSTANTS Limit,   \* RateLimitPolicy: the capacity of each deque
          Window   \* the rolling window of each deque (60 s, 24 h and 1 s in the code)

ASSUME LimitAssumption  == Limit  \in [Deque -> Nat \ {0}]
ASSUME WindowAssumption == Window \in [Deque -> Nat \ {0}]

----------------------------------------------------------------------------
(* RequestClass and the deques a class is charged to. *)

OrderMutation == {"PlaceOrder", "ModifyOrder", "CancelOrder", "SquareOff", "GttMutation"}

RequestClass == {"Read", "SetFunds"} \cup OrderMutation

IsOrderMutation(class) == class \in OrderMutation

IsMutation(class) == class # "Read"

Charged(class) == IF IsOrderMutation(class) THEN Deque ELSE Deque \ {"mutations"}

----------------------------------------------------------------------------
(* prune: pop from the front while the front has left the window.  `now`   *)
(* is the caller's sample, so it can be behind an instant already stored.  *)

\* A bug that forgets an entry one tick before its window ends.
Expired_Early(q, i, now, window) == now + 1 >= q[i] + window

Expired(q, i, now, window) == now >= q[i] + window

\* How many entries the while loop pops: it stops at the first fresh one.
PrunedCount(q, now, window) ==
    LET stops == {n \in 0..Len(q) : n < Len(q) => ~ Expired(q, n + 1, now, window)}
    IN  CHOOSE n \in stops : \A m \in stops : n <= m

Prune(q, now, window) == SubSeq(q, PrunedCount(q, now, window) + 1, Len(q))

PruneAll(log, now) == [d \in Deque |-> Prune(log[d], now, Window[d])]

----------------------------------------------------------------------------
(* try_acquire_at: the longest wait demanded by a full deque, zero to admit. *)

Until(then, now, window) == IF then + window > now THEN then + window - now ELSE 0

\* A bug that admits one request too many.
Full_OffByOne(log, d) == Len(log[d]) > Limit[d]

Full(log, d) == Len(log[d]) >= Limit[d]

Demands(log, class, now) ==
    {Until(log[d][1], now, Window[d]) : d \in {e \in Charged(class) : Full(log, e)}}

\* A bug that lets the last full deque overwrite the wait of the others.
WaitFor_Shortest(log, class, now) ==
    IF Demands(log, class, now) = {} THEN 0 ELSE Min(Demands(log, class, now))

WaitFor(log, class, now) == Max(Demands(log, class, now) \cup {0})

Record(log, class, now) ==
    [d \in Deque |-> IF d \in Charged(class) THEN Append(log[d], now) ELSE log[d]]

\* A bug that records the request before it knows the decision.
TryAcquireAt_ChargesRefusals(log, class, now) ==
    LET pruned == PruneAll(log, now)
    IN  [wait |-> WaitFor(pruned, class, now), log |-> Record(pruned, class, now)]

TryAcquireAt(log, class, now) ==
    LET pruned == PruneAll(log, now)
        wait   == WaitFor(pruned, class, now)
    IN  [wait |-> wait,
         log  |-> IF wait = 0 THEN Record(pruned, class, now) ELSE pruned]
============================================================================
