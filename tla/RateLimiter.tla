---------------------------- MODULE RateLimiter ----------------------------
(***************************************************************************)
(* The rate gate as the clones of one BreezeClient use it: the acquire     *)
(* loop of src/client.rs over the shared RateLimiterModel.  A task samples *)
(* `elapsed` BEFORE it waits for the limiter's lock, so several tasks can  *)
(* present their samples in another order than the clock's; a refused task *)
(* sleeps without holding a place in any queue; and the surrounding        *)
(* tokio::time::timeout can drop the future at either await.               *)
(*                                                                         *)
(* One action is one stretch of code between two awaits.  The lock is held *)
(* only across the synchronous try_acquire_at, so taking it, deciding and  *)
(* releasing it are one action; any waiting task may be the next to get it *)
(* (tokio's lock is FIFO, which is one of the orders allowed here).        *)
(***************************************************************************)
EXTENDS RateLimit

CONSTANTS Tasks,     \* the concurrent callers of acquire
          Classes,   \* the request classes they use
          MaxSkew,   \* the longest a sample can be old when the lock is got
          MaxClock   \* bound on the clock

ASSUME ClassesAssumption == Classes \subseteq RequestClass
ASSUME SkewAssumption    == MaxSkew \in Nat
ASSUME ClockAssumption   == MaxClock \in Nat

VARIABLES clock,        \* ticks since ClientInner::started
          log,          \* RateLimiterModel: the recorded samples of each deque
          pc,           \* where each task stands in acquire
          class,        \* the class each task asked for
          sampled,      \* the `elapsed` each task holds
          wake,         \* when the sleep of each task ends
          admissions,   \* history: the instant of every admission, per deque
          undisturbed   \* history: tasks after whose refusal nobody was admitted

vars == <<clock, log, pc, class, sampled, wake, admissions, undisturbed>>

(* "locking": elapsed sampled, limiter.lock() pending;                     *)
(* "sleeping": refused, in tokio::time::sleep(wait).                       *)
Phase == {"idle", "locking", "sleeping"}

Init ==
    /\ clock = 0
    /\ log = [d \in Deque |-> <<>>]
    /\ pc = [t \in Tasks |-> "idle"]
    /\ class = [t \in Tasks |-> "Read"]
    /\ sampled = [t \in Tasks |-> 0]
    /\ wake = [t \in Tasks |-> 0]
    /\ admissions = [d \in Deque |-> <<>>]
    /\ undisturbed = {}

----------------------------------------------------------------------------
(* Time passes, but no sample may grow older than MaxSkew before its task  *)
(* gets the lock: the environment's side of the promise.                   *)
Tick ==
    /\ clock < MaxClock
    /\ \A t \in Tasks : pc[t] = "locking" => clock < sampled[t] + MaxSkew
    /\ clock' = clock + 1
    /\ UNCHANGED <<log, pc, class, sampled, wake, admissions, undisturbed>>

(* execute calls acquire, which samples the elapsed time at once. *)
Acquire(t, c) ==
    /\ pc[t] = "idle"
    /\ pc' = [pc EXCEPT ![t] = "locking"]
    /\ class' = [class EXCEPT ![t] = c]
    /\ sampled' = [sampled EXCEPT ![t] = clock]
    /\ UNCHANGED <<clock, log, wake, admissions, undisturbed>>

Decision(t) == TryAcquireAt(log, class[t], sampled[t])

(* acquire's locals (the class, the sample, the wake-up time) go away with *)
(* it, and an iteration's with the iteration.                              *)
Forget(f, t, nothing) == [f EXCEPT ![t] = nothing]

Return(t) ==
    /\ pc' = [pc EXCEPT ![t] = "idle"]
    /\ class' = Forget(class, t, "Read")
    /\ sampled' = Forget(sampled, t, 0)
    /\ wake' = Forget(wake, t, 0)

(* The lock is got and try_acquire_at answers Allow: acquire returns. *)
Allow(t) ==
    /\ pc[t] = "locking"
    /\ Decision(t).wait = 0
    /\ log' = Decision(t).log
    /\ Return(t)
    /\ admissions' = Record(admissions, class[t], clock)
    /\ undisturbed' = {}
    /\ UNCHANGED clock

(* The lock is got and try_acquire_at answers Wait: the deques stay pruned *)
(* and the task sleeps for the wait, counted from the instant of the call. *)
Refuse(t) ==
    /\ pc[t] = "locking"
    /\ Decision(t).wait > 0
    /\ log' = Decision(t).log
    /\ pc' = [pc EXCEPT ![t] = "sleeping"]
    /\ wake' = [wake EXCEPT ![t] = clock + Decision(t).wait]
    /\ sampled' = Forget(sampled, t, 0)
    /\ undisturbed' = undisturbed \cup {t}
    /\ UNCHANGED <<clock, class, admissions>>

(* The sleep is over (a timer may fire late) and the loop samples again. *)
Resume(t) ==
    /\ pc[t] = "sleeping"
    /\ clock >= wake[t]
    /\ pc' = [pc EXCEPT ![t] = "locking"]
    /\ sampled' = [sampled EXCEPT ![t] = clock]
    /\ wake' = Forget(wake, t, 0)
    /\ UNCHANGED <<clock, log, class, admissions, undisturbed>>

(* The total deadline drops the acquire future at one of its two awaits. *)
Cancel(t) ==
    /\ pc[t] # "idle"
    /\ Return(t)
    /\ undisturbed' = undisturbed \ {t}
    /\ UNCHANGED <<clock, log, admissions>>

Next ==
    \/ Tick
    \/ \E t \in Tasks :
        \/ \E c \in Classes : Acquire(t, c)
        \/ Allow(t)
        \/ Refuse(t)
        \/ Resume(t)
        \/ Cancel(t)

Spec == Init /\ [][Next]_vars

----------------------------------------------------------------------------
(* Every variable has its type, and no deque outgrows its capacity. *)
TypeOK ==
    /\ clock \in Nat
    /\ log \in [Deque -> Seq(Nat)]
    /\ \A d \in Deque : Len(log[d]) <= Limit[d]
    /\ pc \in [Tasks -> Phase]
    /\ class \in [Tasks -> RequestClass]
    /\ sampled \in [Tasks -> Nat]
    /\ wake \in [Tasks -> Nat]
    /\ admissions \in [Deque -> Seq(Nat)]
    /\ undisturbed \subseteq Tasks

(* Whatever the order in which tasks present their samples, Limit[d] + 1   *)
(* consecutive admissions charged to deque d span at least Window[d] less  *)
(* the age a sample can reach while its task waits for the lock.           *)
RollingWindow ==
    \A d \in Deque : \A i \in 1..(Len(admissions[d]) - Limit[d]) :
        admissions[d][i] + Window[d] <= admissions[d][i + Limit[d]] + MaxSkew

(* The documented rail: at most Limit[d] requests in ANY window, measured  *)
(* by the clock and not by the samples the tasks happened to take.         *)
ExactRollingWindow ==
    \A d \in Deque : \A i \in 1..(Len(admissions[d]) - Limit[d]) :
        admissions[d][i] + Window[d] <= admissions[d][i + Limit[d]]

(* A caller whose wait was not overtaken by another admission is admitted  *)
(* at its next try: the wait covers the full deques together, not one of   *)
(* them, and a late pruning never makes it too short.                      *)
OneSleepSuffices ==
    \A t \in undisturbed :
        pc[t] = "locking" => TryAcquireAt(log, class[t], sampled[t]).wait = 0

(* A refusal is never spurious: some deque of the class really took its    *)
(* capacity of admissions within the window that ends at the sample, even  *)
(* though stale samples can hold expired entries behind a fresh front.     *)
RefusalIsJustified ==
    [][\A t \in Tasks : pc[t] = "locking" /\ pc'[t] = "sleeping" =>
         \E d \in Charged(class[t]) :
            LET n == Len(admissions[d])
            IN  n >= Limit[d] /\ admissions[d][n + 1 - Limit[d]] + Window[d] > sampled[t]]_vars

Ledger == INSTANCE QuotaLedger
            WITH Ledgers <- Deque, Slack <- MaxSkew,
                 Charges <- {Charged(c) : c \in RequestClass}

(* The concurrent gate implements the abstract quota ledger. *)
ImplementsLedger == Ledger!LedgerSpec
============================================================================
