------------------------- MODULE RateLimiterProofs -------------------------
(***************************************************************************)
(* For every set of tasks, policy, window, skew and clock bound: the type  *)
(* of RateLimiter, its rolling window, the justification of every refusal, *)
(* and that it implements the QuotaLedger.                                 *)
(*                                                                         *)
(* The argument: the deque is the tail of the admission history (each      *)
(* stored sample at most MaxSkew older than the instant of its admission), *)
(* and whatever was popped had left its window but for that skew.  A new   *)
(* admission finds fewer than Limit entries stored, so the Limit-th one    *)
(* before it was popped.  RollingWindow alone says nothing of the deque,   *)
(* which is why it is not inductive.                                       *)
(***************************************************************************)
EXTENDS RateLimiter, RateLimitProofs

----------------------------------------------------------------------------
(* The inductive invariant. *)

(* Deque q holds the most recent admissions of history a, by their samples. *)
Mirrors(q, a) ==
    /\ Len(q) <= Len(a)
    /\ \A i \in 1..Len(q) :
        /\ q[i] <= a[Len(a) - Len(q) + i]
        /\ a[Len(a) - Len(q) + i] <= q[i] + MaxSkew

(* What q no longer holds of history a had left the window by instant now. *)
HasLeft(q, a, window, now) ==
    \A i \in 1..(Len(a) - Len(q)) : a[i] + window <= now + MaxSkew

(* History a was recorded in the order of the clock, up to instant now. *)
InOrder(a, now) ==
    /\ \A i \in 1..Len(a) : a[i] <= now
    /\ \A i, j \in 1..Len(a) : i <= j => a[i] <= a[j]

Windowed(a, limit, window) ==
    \A i \in 1..(Len(a) - limit) : a[i] + window <= a[i + limit] + MaxSkew

Accounted(q, a, limit, window, now) ==
    /\ Mirrors(q, a)
    /\ HasLeft(q, a, window, now)
    /\ InOrder(a, now)
    /\ Windowed(a, limit, window)

SamplesInTime ==
    \A t \in Tasks : pc[t] = "locking" => sampled[t] <= clock /\ clock <= sampled[t] + MaxSkew

IInv ==
    /\ TypeOK
    /\ SamplesInTime
    /\ \A d \in Deque : Accounted(log[d], admissions[d], Limit[d], Window[d], clock)

----------------------------------------------------------------------------
(* The operators of RateLimit keep the books. *)

(* Pruning with any sample that is not ahead of the clock keeps the books. *)
LEMMA PruneKeepsAccounts ==
    ASSUME NEW limit \in Nat \ {0}, NEW window \in Nat, NEW q \in Seq(Nat), NEW a \in Seq(Nat),
           NEW now \in Nat, NEW sample \in Nat, sample <= now,
           Accounted(q, a, limit, window, now)
    PROVE  Accounted(Prune(q, sample, window), a, limit, window, now)
<1>c. window \in Nat /\ MaxSkew \in Nat
  BY SkewAssumption
<1>l. Len(q) \in Nat /\ Len(a) \in Nat
  BY LenProperties
<1>0. /\ \A i \in 1..Len(q) : q[i] \in Nat
      /\ \A i \in 1..Len(a) : a[i] \in Nat
  BY ElementOfSeq
<1>1. PICK n : n = PrunedCount(q, sample, window)
  OBVIOUS
<1>2. n \in 0..Len(q) /\ \A i \in 1..n : q[i] + window <= sample
  BY <1>c, <1>1, PrunedCountProperties
<1>3. PICK p : p = Prune(q, sample, window)
  OBVIOUS
<1>4. p \in Seq(Nat) /\ Len(p) = Len(q) - n /\ \A i \in 1..Len(p) : p[i] = q[n + i]
  BY <1>c, <1>1, <1>3, PruneProperties
<1>5. Mirrors(p, a)
  <2>1. Len(p) <= Len(a)
    BY <1>l, <1>2, <1>4 DEF Accounted, Mirrors
  <2>2. ASSUME NEW i \in 1..Len(p)
        PROVE  p[i] <= a[Len(a) - Len(p) + i] /\ a[Len(a) - Len(p) + i] <= p[i] + MaxSkew
    <3>1. n + i \in 1..Len(q) /\ Len(a) - Len(q) + (n + i) = Len(a) - Len(p) + i
      BY <1>l, <1>2, <1>4
    <3>2. p[i] = q[n + i]
      BY <1>4
    <3>3. /\ q[n + i] <= a[Len(a) - Len(q) + (n + i)]
          /\ a[Len(a) - Len(q) + (n + i)] <= q[n + i] + MaxSkew
      BY <3>1 DEF Accounted, Mirrors
    <3>. QED
      BY <3>1, <3>2, <3>3
  <2>. QED
    BY <2>1, <2>2 DEF Mirrors
<1>6. ASSUME NEW i \in 1..(Len(a) - Len(p))
      PROVE  a[i] + window <= now + MaxSkew
  <2>1. CASE i \in 1..(Len(a) - Len(q))
    BY <2>1 DEF Accounted, HasLeft
  <2>2. CASE i \notin 1..(Len(a) - Len(q))
    <3>1. PICK k \in 1..n : i = Len(a) - Len(q) + k
      <4>1. i - (Len(a) - Len(q)) \in 1..n
        BY <1>l, <1>2, <1>4, <2>2 DEF Accounted, Mirrors
      <4>. QED
        BY <1>l, <4>1
    <3>2. k \in 1..Len(q) /\ q[k] + window <= sample
      BY <1>l, <1>2, <3>1
    <3>3. a[i] <= q[k] + MaxSkew
      BY <3>1, <3>2 DEF Accounted, Mirrors
    <3>4. i \in 1..Len(a)
      BY <1>l, <1>2, <1>4
    <3>5. PICK x \in Nat, y \in Nat : x = a[i] /\ y = q[k]
      BY <1>0, <3>2, <3>4
    <3>6. y + window <= sample /\ x <= y + MaxSkew
      BY <3>2, <3>3, <3>5
    <3>7. x + window <= now + MaxSkew
      BY <1>c, <3>6
    <3>. QED
      BY <3>5, <3>7
  <2>. QED
    BY <2>1, <2>2
<1>. QED
  BY <1>3, <1>5, <1>6 DEF Accounted, HasLeft

(* The Limit-th admission before a new one has been popped, so it is old.  *)
LEMMA RoomMeansOld ==
    ASSUME NEW limit \in Nat \ {0}, NEW window \in Nat, NEW q \in Seq(Nat), NEW a \in Seq(Nat), NEW now \in Nat,
           Accounted(q, a, limit, window, now), Len(q) < limit, Len(a) >= limit
    PROVE  a[Len(a) + 1 - limit] + window <= now + MaxSkew
<1>1. limit \in Nat \ {0} /\ Len(q) \in Nat /\ Len(a) \in Nat
  BY LenProperties
<1>2. Len(a) + 1 - limit \in 1..(Len(a) - Len(q))
  BY <1>1
<1>. QED
  BY <1>2 DEF Accounted, HasLeft

(* An admission at `now` on a sample in time keeps the books.              *)
LEMMA RecordKeepsAccounts ==
    ASSUME NEW limit \in Nat \ {0}, NEW window \in Nat, NEW q \in Seq(Nat), NEW a \in Seq(Nat),
           NEW now \in Nat, NEW sample \in Nat,
           sample <= now, now <= sample + MaxSkew,
           Accounted(q, a, limit, window, now), Len(q) < limit
    PROVE  Accounted(Append(q, sample), Append(a, now), limit, window, now)
<1>0. /\ window \in Nat /\ MaxSkew \in Nat /\ limit \in Nat \ {0}
      /\ Len(q) \in Nat /\ Len(a) \in Nat
  BY LenProperties, SkewAssumption
<1>1. PICK r : r = Append(q, sample)
  OBVIOUS
<1>2. PICK b : b = Append(a, now)
  OBVIOUS
<1>3. /\ Len(r) = Len(q) + 1 /\ \A i \in 1..Len(q) : r[i] = q[i]
      /\ r[Len(q) + 1] = sample
  BY <1>1, AppendProperties
<1>4. /\ Len(b) = Len(a) + 1 /\ \A i \in 1..Len(a) : b[i] = a[i]
      /\ b[Len(a) + 1] = now
  BY <1>2, AppendProperties
<1>5. Mirrors(r, b)
  <2>1. Len(r) <= Len(b)
    BY <1>0, <1>3, <1>4 DEF Accounted, Mirrors
  <2>2. ASSUME NEW i \in 1..Len(r)
        PROVE  r[i] <= b[Len(b) - Len(r) + i] /\ b[Len(b) - Len(r) + i] <= r[i] + MaxSkew
    <3>1. CASE i = Len(q) + 1
      <4>1. Len(b) - Len(r) + i = Len(a) + 1
        BY <1>0, <1>3, <1>4, <3>1
      <4>. QED
        BY <1>3, <1>4, <3>1, <4>1
    <3>2. CASE i # Len(q) + 1
      <4>1. /\ i \in 1..Len(q)
            /\ Len(b) - Len(r) + i = Len(a) - Len(q) + i
            /\ Len(a) - Len(q) + i \in 1..Len(a)
        BY <1>0, <1>3, <1>4, <3>2 DEF Accounted, Mirrors
      <4>. QED
        BY <1>3, <1>4, <4>1 DEF Accounted, Mirrors
    <3>. QED
      BY <3>1, <3>2
  <2>. QED
    BY <2>1, <2>2 DEF Mirrors
<1>6. HasLeft(r, b, window, now)
  <2>1. Len(b) - Len(r) = Len(a) - Len(q) /\ Len(a) - Len(q) <= Len(a)
    BY <1>0, <1>3, <1>4
  <2>2. \A i \in 1..(Len(a) - Len(q)) : b[i] = a[i]
    BY <1>0, <1>4, <2>1
  <2>. QED
    BY <2>1, <2>2 DEF Accounted, HasLeft
<1>7. InOrder(b, now)
  <2>1. \A i \in 1..Len(a) : a[i] <= now
    BY DEF Accounted, InOrder
  <2>2. ASSUME NEW i \in 1..Len(b) PROVE b[i] <= now
    <3>1. CASE i = Len(a) + 1
      BY <1>4, <3>1
    <3>2. CASE i # Len(a) + 1
      <4>1. i \in 1..Len(a)
        BY <1>0, <1>4, <3>2
      <4>. QED
        BY <1>4, <2>1, <4>1
    <3>. QED
      BY <3>1, <3>2
  <2>3. ASSUME NEW i \in 1..Len(b), NEW j \in 1..Len(b), i <= j PROVE b[i] <= b[j]
    <3>1. CASE j = Len(a) + 1
      BY <1>4, <2>2, <3>1
    <3>2. CASE j # Len(a) + 1
      <4>1. i \in 1..Len(a) /\ j \in 1..Len(a)
        BY <1>0, <1>4, <2>3, <3>2
      <4>. QED
        BY <1>4, <2>3, <4>1 DEF Accounted, InOrder
    <3>. QED
      BY <3>1, <3>2
  <2>. QED
    BY <2>2, <2>3 DEF InOrder
<1>8. Windowed(b, limit, window)
  <2>. SUFFICES ASSUME NEW i \in 1..(Len(b) - limit)
                PROVE  b[i] + window <= b[i + limit] + MaxSkew
    BY DEF Windowed
  <2>1. CASE i + limit = Len(b)
    <3>1. i = Len(a) + 1 - limit /\ Len(a) >= limit /\ i \in 1..Len(a)
      BY <1>0, <1>4, <2>1
    <3>2. a[i] + window <= now + MaxSkew
      BY <3>1, RoomMeansOld
    <3>. QED
      BY <1>4, <2>1, <3>1, <3>2
  <2>2. CASE i + limit # Len(b)
    <3>0. PICK la \in Nat : la = Len(a)
      BY <1>0
    <3>1. i \in 1..(la + 1 - limit) /\ i + limit # la + 1
      BY <1>4, <2>2, <3>0
    <3>2. i \in 1..(la - limit) /\ i \in 1..la /\ i + limit \in 1..la
      BY <3>1
    <3>3. i \in 1..(Len(a) - limit) /\ i \in 1..Len(a) /\ i + limit \in 1..Len(a)
      BY <3>0, <3>2
    <3>. QED
      BY <1>4, <3>3 DEF Accounted, Windowed
  <2>. QED
    BY <2>1, <2>2
<1>. QED
  BY <1>1, <1>2, <1>5, <1>6, <1>7, <1>8 DEF Accounted

----------------------------------------------------------------------------
(* The invariant is inductive. *)

LEMMA InitEstablishes == Init => IInv
<1>. SUFFICES ASSUME Init PROVE IInv
  OBVIOUS
<1>1. /\ <<>> \in Seq(Nat)
      /\ Len(<<>>) = 0
      /\ \A d \in Deque : Limit[d] \in Nat \ {0}
  BY LimitAssumption
<1>2. TypeOK
  BY <1>1 DEF Init, TypeOK, Phase, RequestClass
<1>3. SamplesInTime
  BY DEF Init, SamplesInTime
<1>4. ASSUME NEW d \in Deque PROVE Accounted(<<>>, <<>>, Limit[d], Window[d], 0)
  <2>1. \A i \in 1..(0 - Limit[d]) : FALSE
    BY <1>1
  <2>. QED
    BY <1>1, <2>1 DEF Accounted, Mirrors, HasLeft, InOrder, Windowed
<1>. QED
  BY <1>2, <1>3, <1>4 DEF Init, IInv

(* Type correctness and the age of the samples, one action at a time.      *)
LEMMA StepKeepsType == TypeOK /\ SamplesInTime /\ [Next]_vars => TypeOK' /\ SamplesInTime'
<1>. SUFFICES ASSUME TypeOK, SamplesInTime, [Next]_vars PROVE TypeOK' /\ SamplesInTime'
  OBVIOUS
<1>. USE SkewAssumption, ClassesAssumption
<1>1. CASE Tick
  BY <1>1 DEF Tick, TypeOK, SamplesInTime
<1>2. ASSUME NEW t \in Tasks, NEW c \in Classes, Acquire(t, c) PROVE TypeOK' /\ SamplesInTime'
  BY <1>2 DEF Acquire, TypeOK, SamplesInTime, Phase
<1>3. ASSUME NEW t \in Tasks, Allow(t) PROVE TypeOK' /\ SamplesInTime'
  <2>1. log' \in [Deque -> Seq(Nat)] /\ \A d \in Deque : Len(log'[d]) <= Limit[d]
    BY <1>3, DecisionKeepsType DEF Allow, Decision, TypeOK
  <2>2. admissions' \in [Deque -> Seq(Nat)]
    BY <1>3 DEF Allow, Record, TypeOK
  <2>3. class[t] \in RequestClass /\ "Read" \in RequestClass
    BY DEF TypeOK, RequestClass
  <2>. QED
    BY <1>3, <2>1, <2>2, <2>3 DEF Allow, Return, Forget, TypeOK, SamplesInTime, Phase
<1>4. ASSUME NEW t \in Tasks, Refuse(t) PROVE TypeOK' /\ SamplesInTime'
  <2>1. log' \in [Deque -> Seq(Nat)] /\ \A d \in Deque : Len(log'[d]) <= Limit[d]
    BY <1>4, DecisionKeepsType DEF Refuse, Decision, TypeOK
  <2>2. Decision(t).wait \in Nat
    BY DecisionProperties DEF Decision, TypeOK
  <2>3. clock + Decision(t).wait \in Nat
    BY <2>2 DEF TypeOK
  <2>. QED
    BY <1>4, <2>1, <2>3 DEF Refuse, Forget, TypeOK, SamplesInTime, Phase
<1>5. ASSUME NEW t \in Tasks, Resume(t) PROVE TypeOK' /\ SamplesInTime'
  BY <1>5 DEF Resume, Forget, TypeOK, SamplesInTime, Phase
<1>6. ASSUME NEW t \in Tasks, Cancel(t) PROVE TypeOK' /\ SamplesInTime'
  <2>1. "Read" \in RequestClass
    BY DEF RequestClass
  <2>. QED
    BY <1>6, <2>1 DEF Cancel, Return, Forget, TypeOK, SamplesInTime, Phase
<1>7. CASE UNCHANGED vars
  BY <1>7 DEF vars, TypeOK, SamplesInTime
<1>. QED
  BY <1>1, <1>2, <1>3, <1>4, <1>5, <1>6, <1>7 DEF Next

Books == \A d \in Deque : Accounted(log[d], admissions[d], Limit[d], Window[d], clock)

(* The answer a waiting task gets. *)
LEMMA AnswerProperties ==
    ASSUME IInv, NEW t \in Tasks
    PROVE  LET p == PruneAll(log, sampled[t])
           IN  /\ Allow(t) => /\ log' = Record(p, class[t], sampled[t])
                              /\ \A d \in Charged(class[t]) : Len(p[d]) < Limit[d]
               /\ Refuse(t) => /\ log' = p
                               /\ \E d \in Charged(class[t]) : ~ (Len(p[d]) < Limit[d])
<1>1. log \in [Deque -> Seq(Nat)] /\ sampled[t] \in Nat /\ class[t] \in RequestClass
  BY DEF IInv, TypeOK
<1>2. PICK p, r : p = PruneAll(log, sampled[t]) /\ r = Decision(t)
  OBVIOUS
<1>3. /\ r.wait \in Nat
      /\ r.wait = 0 => /\ r.log = Record(p, class[t], sampled[t])
                       /\ \A d \in Charged(class[t]) : Len(p[d]) < Limit[d]
      /\ r.wait # 0 => /\ r.log = p
                       /\ \E d \in Charged(class[t]) : ~ (Len(p[d]) < Limit[d])
  BY <1>1, <1>2, DecisionProperties DEF Decision
<1>4. Allow(t) => r.wait = 0 /\ log' = r.log
  BY <1>2 DEF Allow
<1>5. Refuse(t) => r.wait > 0 /\ log' = r.log
  BY <1>2 DEF Refuse
<1>6. r.wait > 0 => r.wait # 0
  BY <1>3
<1>. QED
  BY <1>2, <1>3, <1>4, <1>5, <1>6

(* Pruning at the sample of a waiting task keeps every deque's books.      *)
LEMMA PruneAllKeepsBooks ==
    ASSUME IInv, NEW t \in Tasks, pc[t] = "locking", NEW d \in Deque
    PROVE  /\ Accounted(PruneAll(log, sampled[t])[d], admissions[d], Limit[d], Window[d], clock)
           /\ PruneAll(log, sampled[t])[d] \in Seq(Nat)
<1>1. /\ Limit[d] \in Nat \ {0} /\ Window[d] \in Nat
      /\ log[d] \in Seq(Nat) /\ admissions[d] \in Seq(Nat)
      /\ clock \in Nat /\ sampled[t] \in Nat
      /\ log \in [Deque -> Seq(Nat)]
  BY LimitAssumption, WindowAssumption DEF IInv, TypeOK
<1>2. sampled[t] <= clock /\ Accounted(log[d], admissions[d], Limit[d], Window[d], clock)
  BY DEF IInv, SamplesInTime
<1>3. Accounted(Prune(log[d], sampled[t], Window[d]), admissions[d], Limit[d], Window[d], clock)
  BY <1>1, <1>2, PruneKeepsAccounts
<1>. QED
  BY <1>1, <1>3, PruneAllProperties

(* Time passing only ages the entries.                                     *)
LEMMA TickKeepsBooks == IInv /\ Tick => Books'
<1>. SUFFICES ASSUME IInv, Tick, NEW d \in Deque
              PROVE  Accounted(log[d], admissions[d], Limit[d], Window[d], clock + 1)
  BY DEF Books, Tick
<1>1. PICK a \in Seq(Nat) : a = admissions[d]
  BY DEF IInv, TypeOK
<1>2. PICK window \in Nat : window = Window[d]
  BY WindowAssumption
<1>3. Accounted(log[d], a, Limit[d], window, clock)
  BY <1>1, <1>2 DEF IInv
<1>4. clock \in Nat /\ MaxSkew \in Nat
  BY SkewAssumption DEF IInv, TypeOK
<1>5. Len(a) \in Nat /\ \A i \in 1..Len(a) : a[i] \in Nat
  BY LenProperties, ElementOfSeq
<1>6. HasLeft(log[d], a, window, clock + 1)
  <2>. SUFFICES ASSUME NEW i \in 1..(Len(a) - Len(log[d]))
                PROVE  a[i] + window <= (clock + 1) + MaxSkew
    BY DEF HasLeft
  <2>1. Len(log[d]) \in Nat
    BY LenProperties DEF IInv, TypeOK
  <2>2. i \in 1..Len(a)
    BY <1>5, <2>1
  <2>3. PICK x \in Nat : x = a[i]
    BY <1>5, <2>2
  <2>4. x + window <= clock + MaxSkew
    BY <1>3, <2>3 DEF Accounted, HasLeft
  <2>. QED
    BY <1>4, <2>3, <2>4
<1>7. InOrder(a, clock + 1)
  <2>1. ASSUME NEW i \in 1..Len(a) PROVE a[i] <= clock + 1
    <3>1. PICK x \in Nat : x = a[i]
      BY <1>5
    <3>2. x <= clock
      BY <1>3, <3>1 DEF Accounted, InOrder
    <3>. QED
      BY <1>4, <3>1, <3>2
  <2>. QED
    BY <1>3, <2>1 DEF Accounted, InOrder
<1>. QED
  BY <1>1, <1>2, <1>3, <1>6, <1>7 DEF Accounted

(* An admission is recorded on exactly the deques of its class.            *)
LEMMA AllowKeepsBooks == \A t \in Tasks : IInv /\ Allow(t) => Books'
<1>. SUFFICES ASSUME NEW t \in Tasks, IInv, Allow(t), NEW d \in Deque
              PROVE  Accounted(log'[d], admissions'[d], Limit[d], Window[d], clock)
  BY DEF Books, Allow
<1>1. PICK p : p = PruneAll(log, sampled[t])
  OBVIOUS
<1>2. log' = Record(p, class[t], sampled[t]) /\ \A e \in Charged(class[t]) : Len(p[e]) < Limit[e]
  BY <1>1, AnswerProperties
<1>3. Accounted(p[d], admissions[d], Limit[d], Window[d], clock) /\ p[d] \in Seq(Nat)
  BY <1>1, PruneAllKeepsBooks DEF Allow
<1>4. /\ Limit[d] \in Nat \ {0} /\ Window[d] \in Nat /\ admissions[d] \in Seq(Nat)
      /\ clock \in Nat /\ sampled[t] \in Nat
      /\ sampled[t] <= clock /\ clock <= sampled[t] + MaxSkew
  BY LimitAssumption, WindowAssumption DEF IInv, TypeOK, SamplesInTime, Allow
<1>5. CASE d \in Charged(class[t])
  <2>1. Accounted(Append(p[d], sampled[t]), Append(admissions[d], clock), Limit[d], Window[d], clock)
    BY <1>2, <1>3, <1>4, <1>5, RecordKeepsAccounts
  <2>. QED
    BY <1>2, <1>5, <2>1 DEF Allow, Record
<1>6. CASE d \notin Charged(class[t])
  BY <1>2, <1>3, <1>6 DEF Allow, Record
<1>. QED
  BY <1>5, <1>6

LEMMA StepKeepsIInv == IInv /\ [Next]_vars => IInv'
<1>. SUFFICES ASSUME IInv, [Next]_vars PROVE Books'
  BY StepKeepsType DEF IInv, Books
<1>1. CASE Tick
  BY <1>1, TickKeepsBooks
<1>2. ASSUME NEW t \in Tasks, NEW c \in Classes, Acquire(t, c) PROVE Books'
  BY <1>2 DEF Acquire, IInv, Books
<1>3. ASSUME NEW t \in Tasks, Allow(t) PROVE Books'
  BY <1>3, AllowKeepsBooks
<1>4. ASSUME NEW t \in Tasks, Refuse(t) PROVE Books'
  <2>1. log' = PruneAll(log, sampled[t])
    BY <1>4, AnswerProperties
  <2>. QED
    BY <1>4, <2>1, PruneAllKeepsBooks DEF Refuse, Books
<1>5. ASSUME NEW t \in Tasks, Resume(t) PROVE Books'
  BY <1>5 DEF Resume, IInv, Books
<1>6. ASSUME NEW t \in Tasks, Cancel(t) PROVE Books'
  BY <1>6 DEF Cancel, IInv, Books
<1>7. CASE UNCHANGED vars
  BY <1>7 DEF vars, IInv, Books
<1>. QED
  BY <1>1, <1>2, <1>3, <1>4, <1>5, <1>6, <1>7 DEF Next

THEOREM Invariance == Spec => []IInv
BY InitEstablishes, StepKeepsIInv, PTL DEF Spec

----------------------------------------------------------------------------
(* The theorems. *)

(* The limiter is correctly typed and no deque outgrows its capacity, for  *)
(* any number of clones, any policy and any window (rate_limit.rs).        *)
THEOREM TypeCorrect == Spec => []TypeOK
<1>1. IInv => TypeOK
  BY DEF IInv
<1>. QED
  BY Invariance, <1>1, PTL

(* The rolling window holds under every interleaving of the acquire loop   *)
(* of client.rs, up to the age of a sample when the lock is got.           *)
THEOREM WindowHolds == Spec => []RollingWindow
<1>1. IInv => RollingWindow
  BY DEF IInv, RollingWindow, Accounted, Windowed
<1>. QED
  BY Invariance, <1>1, PTL

(* With samples that are never late, it is the exact documented window.    *)
THEOREM ExactWithoutSkew ==
    ASSUME MaxSkew = 0
    PROVE  Spec => []ExactRollingWindow
<1>1. IInv => ExactRollingWindow
  <2>. SUFFICES ASSUME IInv, NEW d \in Deque, NEW i \in 1..(Len(admissions[d]) - Limit[d])
                PROVE  admissions[d][i] + Window[d] <= admissions[d][i + Limit[d]]
    BY DEF ExactRollingWindow
  <2>1. admissions[d][i] + Window[d] <= admissions[d][i + Limit[d]] + 0
    BY DEF IInv, Accounted, Windowed
  <2>2. Limit[d] \in Nat /\ Len(admissions[d]) \in Nat /\ admissions[d] \in Seq(Nat)
    BY LimitAssumption, LenProperties DEF IInv, TypeOK
  <2>3. PICK x \in Nat : x = admissions[d][i + Limit[d]]
    BY <2>2, ElementOfSeq
  <2>. QED
    BY <2>1, <2>3
<1>. QED
  BY Invariance, <1>1, PTL

(* A deque that refuses has taken its capacity within the window.          *)
LEMMA FullMeansRecent ==
    ASSUME IInv, NEW t \in Tasks, Refuse(t)
    PROVE  \E d \in Charged(class[t]) :
               LET n == Len(admissions[d])
               IN  n >= Limit[d] /\ admissions[d][n + 1 - Limit[d]] + Window[d] > sampled[t]
<1>1. PICK p : p = PruneAll(log, sampled[t])
  OBVIOUS
<1>2. PICK d \in Charged(class[t]) : ~ (Len(p[d]) < Limit[d])
  BY <1>1, AnswerProperties
<1>3. d \in Deque
  BY <1>2, ChargedDeques DEF IInv, TypeOK
<1>4. Accounted(p[d], admissions[d], Limit[d], Window[d], clock) /\ p[d] \in Seq(Nat)
  BY <1>1, <1>3, PruneAllKeepsBooks DEF Refuse
<1>5. PICK n \in Nat, limit \in Nat \ {0}, len \in Nat :
          n = Len(admissions[d]) /\ limit = Limit[d] /\ len = Len(p[d])
  BY <1>3, <1>4, LimitAssumption, LenProperties DEF IInv, TypeOK
<1>6. len <= limit
  <2>0. log \in [Deque -> Seq(Nat)] /\ sampled[t] \in Nat
    BY DEF IInv, TypeOK
  <2>1. Len(p[d]) <= Len(log[d]) /\ Len(log[d]) \in Nat
    BY <1>1, <1>3, <2>0, PruneAllProperties, LenProperties
  <2>2. Len(log[d]) <= Limit[d]
    BY <1>3 DEF IInv, TypeOK
  <2>. QED
    BY <1>5, <2>1, <2>2
<1>7. len = limit /\ n >= limit
  BY <1>2, <1>4, <1>5, <1>6 DEF Accounted, Mirrors
<1>8. p[d][1] <= admissions[d][n + 1 - limit]
  <2>1. 1 \in 1..len /\ n - len + 1 = n + 1 - limit
    BY <1>5, <1>7
  <2>. QED
    BY <1>4, <1>5, <2>1 DEF Accounted, Mirrors
<1>9. sampled[t] < p[d][1] + Window[d]
  <2>1. Len(p[d]) > 0
    BY <1>5, <1>7
  <2>. QED
    BY <1>1, <1>3, <2>1, PruneAllProperties DEF IInv, TypeOK
<1>10. PICK x \in Nat, y \in Nat : x = p[d][1] /\ y = admissions[d][n + 1 - limit]
  <2>1. 1 \in 1..len /\ n + 1 - limit \in 1..n
    BY <1>5, <1>7
  <2>2. admissions[d] \in Seq(Nat)
    BY <1>3 DEF IInv, TypeOK
  <2>. QED
    BY <1>4, <1>5, <2>1, <2>2, ElementOfSeq
<1>11. y + Window[d] > sampled[t]
  <2>1. Window[d] \in Nat /\ sampled[t] \in Nat
    BY <1>3, WindowAssumption DEF IInv, TypeOK
  <2>. QED
    BY <1>8, <1>9, <1>10, <2>1
<1>. QED
  BY <1>2, <1>5, <1>7, <1>10, <1>11

(* No task is refused while every deque it is charged to had room in the   *)
(* window that ends at its sample.                                         *)
THEOREM RefusalsJustified == Spec => RefusalIsJustified
<1>. DEFINE Justified(t) ==
        \E d \in Charged(class[t]) :
            LET n == Len(admissions[d])
            IN  n >= Limit[d] /\ admissions[d][n + 1 - Limit[d]] + Window[d] > sampled[t]
     Goal == \A t \in Tasks : pc[t] = "locking" /\ pc'[t] = "sleeping" => Justified(t)
<1>1. ASSUME IInv, NEW t \in Tasks, Refuse(t) PROVE Justified(t)
  BY <1>1, FullMeansRecent
<1>2. IInv /\ [Next]_vars => [Goal]_vars
  <2>. SUFFICES ASSUME IInv, [Next]_vars, NEW t \in Tasks, pc[t] = "locking", pc'[t] = "sleeping"
                PROVE  Refuse(t)
    BY <1>1
  <2>1. CASE Tick
    BY <2>1 DEF Tick
  <2>2. ASSUME NEW u \in Tasks, NEW c \in Classes, Acquire(u, c) PROVE FALSE
    BY <2>2 DEF Acquire, IInv, TypeOK
  <2>3. ASSUME NEW u \in Tasks, Allow(u) PROVE FALSE
    BY <2>3 DEF Allow, Return, IInv, TypeOK
  <2>4. ASSUME NEW u \in Tasks, Refuse(u) PROVE Refuse(t)
    BY <2>4 DEF Refuse, IInv, TypeOK
  <2>5. ASSUME NEW u \in Tasks, Resume(u) PROVE FALSE
    BY <2>5 DEF Resume, IInv, TypeOK
  <2>6. ASSUME NEW u \in Tasks, Cancel(u) PROVE FALSE
    BY <2>6 DEF Cancel, Return, IInv, TypeOK
  <2>7. CASE UNCHANGED vars
    BY <2>7 DEF vars
  <2>. QED
    BY <2>1, <2>2, <2>3, <2>4, <2>5, <2>6, <2>7 DEF Next
<1>3. IInv /\ IInv' /\ [Next]_vars => [Goal]_vars
  BY <1>2
<1>. QED
  BY Invariance, <1>2, PTL DEF Spec, RefusalIsJustified

(* A refused task that nobody disturbed waits for, or has waited until, an *)
(* instant at which every deque that was full for it lets its front go.    *)
Prompt ==
    \A t \in undisturbed :
        /\ pc[t] \in {"sleeping", "locking"}
        /\ \A d \in Charged(class[t]) :
            Full(log, d) =>
                log[d][1] + Window[d] <= IF pc[t] = "sleeping" THEN wake[t] ELSE sampled[t]

LEMMA FullFronts ==
    ASSUME TypeOK, NEW d \in Deque, Full(log, d)
    PROVE  log[d][1] \in Nat /\ Window[d] \in Nat
<1>1. log[d] \in Seq(Nat) /\ Limit[d] \in Nat \ {0} /\ Window[d] \in Nat
  BY LimitAssumption, WindowAssumption DEF TypeOK
<1>2. Len(log[d]) \in Nat /\ Len(log[d]) >= Limit[d]
  BY <1>1, LenProperties DEF Full
<1>3. 1 \in 1..Len(log[d])
  BY <1>1, <1>2
<1>. QED
  BY <1>1, <1>3, ElementOfSeq

LEMMA RefuseStaysPrompt ==
    ASSUME IInv, Prompt, NEW u \in Tasks, Refuse(u)
    PROVE  Prompt'
<1>. DEFINE p == PruneAll(log, sampled[u])
<1>1. /\ log \in [Deque -> Seq(Nat)] /\ \A d \in Deque : Len(log[d]) <= Limit[d]
      /\ clock \in Nat /\ sampled[u] \in Nat /\ class[u] \in RequestClass
      /\ sampled[u] <= clock
  BY DEF IInv, TypeOK, SamplesInTime, Refuse
<1>2. log' = p /\ Decision(u).wait \in Nat
  BY <1>1, DecisionProperties DEF Refuse, Decision
<1>3. ASSUME NEW d \in Deque, Full(p, d)
      PROVE  Full(log, d) /\ p[d][1] = log[d][1]
  BY <1>1, <1>3, FullAfterPruning
<1>4. \A t \in Tasks : Charged(class[t]) \subseteq Deque
  BY ChargedDeques DEF IInv, TypeOK
<1>5. ASSUME NEW t \in undisturbed, t # u, NEW d \in Charged(class[t]), Full(p, d)
      PROVE  p[d][1] + Window[d] <= IF pc[t] = "sleeping" THEN wake[t] ELSE sampled[t]
  <2>1. d \in Deque
    BY <1>4 DEF IInv, TypeOK
  <2>. QED
    BY <1>3, <1>5, <2>1 DEF Prompt
<1>6. ASSUME NEW d \in Charged(class[u]), Full(p, d)
      PROVE  p[d][1] + Window[d] <= clock + Decision(u).wait
  <2>1. d \in Deque
    BY <1>4
  <2>2. PICK front \in Nat : front = p[d][1]
    BY <1>3, <1>6, <2>1, FullFronts DEF IInv
  <2>3. Decision(u).wait >= Until(front, sampled[u], Window[d])
    BY <1>1, <1>6, <2>2, DecisionProperties DEF Decision
  <2>4. Window[d] \in Nat
    BY <2>1, WindowAssumption
  <2>5. front + Window[d] <= clock + Decision(u).wait
    BY <1>1, <1>2, <2>3, <2>4 DEF Until
  <2>. QED
    BY <2>2, <2>5
<1>. HIDE DEF p
<1>7. /\ pc' = [pc EXCEPT ![u] = "sleeping"]
      /\ wake' = [wake EXCEPT ![u] = clock + Decision(u).wait]
      /\ sampled' = [sampled EXCEPT ![u] = 0]
      /\ undisturbed' = undisturbed \cup {u} /\ class' = class
      /\ undisturbed \subseteq Tasks
      /\ pc \in [Tasks -> Phase] /\ wake \in [Tasks -> Nat] /\ sampled \in [Tasks -> Nat]
  BY DEF Refuse, Forget, IInv, TypeOK
<1>8. ASSUME NEW t \in undisturbed'
      PROVE  /\ pc'[t] \in {"sleeping", "locking"}
             /\ \A d \in Charged(class'[t]) :
                Full(log', d) => log'[d][1] + Window[d]
                                    <= IF pc'[t] = "sleeping" THEN wake'[t] ELSE sampled'[t]
  <2>1. CASE t = u
    BY <2>1, <1>2, <1>6, <1>7
  <2>2. CASE t # u
    <3>1. t \in undisturbed /\ t \in Tasks
      BY <1>7, <2>2
    <3>2. pc'[t] = pc[t] /\ wake'[t] = wake[t] /\ sampled'[t] = sampled[t]
      BY <1>7, <2>2, <3>1
    <3>. QED
      BY <1>2, <1>5, <1>7, <2>2, <3>1, <3>2 DEF Prompt
  <2>. QED
    BY <2>1, <2>2
<1>. QED
  BY <1>8 DEF Prompt, Full

LEMMA StaysPrompt == IInv /\ Prompt /\ [Next]_vars => Prompt'
<1>. SUFFICES ASSUME IInv, Prompt, [Next]_vars PROVE Prompt'
  OBVIOUS
<1>0. /\ undisturbed \subseteq Tasks /\ pc \in [Tasks -> Phase]
      /\ wake \in [Tasks -> Nat] /\ sampled \in [Tasks -> Nat] /\ clock \in Nat
      /\ class \in [Tasks -> RequestClass]
  BY DEF IInv, TypeOK
<1>1. CASE Tick \/ UNCHANGED vars
  BY <1>1 DEF Tick, vars, Prompt, Full
<1>2. ASSUME NEW t \in Tasks, NEW c \in Classes, Acquire(t, c) PROVE Prompt'
  BY <1>0, <1>2 DEF Acquire, Prompt, Full
<1>3. ASSUME NEW t \in Tasks, Allow(t) PROVE Prompt'
  BY <1>3 DEF Allow, Prompt
<1>4. ASSUME NEW t \in Tasks, Refuse(t) PROVE Prompt'
  BY <1>4, RefuseStaysPrompt
<1>5. ASSUME NEW t \in Tasks, Resume(t) PROVE Prompt'
  <2>1. ASSUME NEW u \in undisturbed', NEW d \in Charged(class'[u]), Full(log', d)
        PROVE  log'[d][1] + Window[d] <= IF pc'[u] = "sleeping" THEN wake'[u] ELSE sampled'[u]
    <3>1. u \in undisturbed /\ d \in Charged(class[u]) /\ Full(log, d) /\ d \in Deque
      BY <1>0, <1>5, <2>1, ChargedDeques DEF Resume, Full
    <3>2. PICK front \in Nat : front = log[d][1] /\ Window[d] \in Nat
      BY <3>1, FullFronts DEF IInv
    <3>3. front + Window[d] <= IF pc[u] = "sleeping" THEN wake[u] ELSE sampled[u]
      BY <3>1, <3>2 DEF Prompt
    <3>4. front + Window[d] <= IF pc'[u] = "sleeping" THEN wake'[u] ELSE sampled'[u]
      BY <1>0, <1>5, <3>1, <3>2, <3>3 DEF Resume, Forget
    <3>. QED
      BY <1>5, <3>2, <3>4 DEF Resume
  <2>2. \A u \in undisturbed' : pc'[u] \in {"sleeping", "locking"}
    BY <1>0, <1>5 DEF Resume, Prompt
  <2>. QED
    BY <2>1, <2>2 DEF Prompt, Full
<1>6. ASSUME NEW t \in Tasks, Cancel(t) PROVE Prompt'
  BY <1>0, <1>6 DEF Cancel, Return, Forget, Prompt, Full
<1>. QED
  BY <1>1, <1>2, <1>3, <1>4, <1>5, <1>6 DEF Next

LEMMA PromptIsEnough == IInv /\ Prompt => OneSleepSuffices
<1>. SUFFICES ASSUME IInv, Prompt, NEW t \in undisturbed, pc[t] = "locking"
              PROVE  TryAcquireAt(log, class[t], sampled[t]).wait = 0
  BY DEF OneSleepSuffices
<1>. DEFINE p == PruneAll(log, sampled[t])
<1>1. /\ log \in [Deque -> Seq(Nat)] /\ \A d \in Deque : Len(log[d]) <= Limit[d]
      /\ sampled[t] \in Nat /\ class[t] \in RequestClass
  BY DEF IInv, TypeOK
<1>2. ASSUME NEW d \in Charged(class[t]), ~ (Len(p[d]) < Limit[d])
      PROVE  FALSE
  <2>1. d \in Deque
    BY <1>1, ChargedDeques
  <2>2. Len(p[d]) \in Nat /\ Limit[d] \in Nat \ {0} /\ Window[d] \in Nat
    BY <1>1, <2>1, PruneAllProperties, LenProperties, LimitAssumption, WindowAssumption
  <2>3. Full(p, d) /\ Len(p[d]) > 0
    BY <1>2, <2>2 DEF Full
  <2>4. Full(log, d) /\ p[d][1] = log[d][1]
    BY <1>1, <2>1, <2>3, FullAfterPruning
  <2>5. PICK front \in Nat : front = log[d][1]
    BY <2>1, <2>4, FullFronts DEF IInv
  <2>6. sampled[t] < front + Window[d]
    BY <1>1, <2>1, <2>3, <2>4, <2>5, PruneAllProperties
  <2>7. front + Window[d] <= sampled[t]
    BY <2>4, <2>5 DEF Prompt
  <2>. QED
    BY <1>1, <2>2, <2>5, <2>6, <2>7
<1>. QED
  BY <1>1, <1>2, DecisionProperties

(* A caller whose wait nobody's admission overtook is admitted at its next *)
(* try: the wait covers all the full deques together, and other tasks'     *)
(* prunings never make it too short.                                       *)
THEOREM OneSleepIsEnough == Spec => []OneSleepSuffices
<1>1. Init => Prompt
  BY DEF Init, Prompt
<1>. QED
  BY Invariance, StaysPrompt, PromptIsEnough, <1>1, PTL DEF Spec

(* The lock, the samples, the deques and the sleeping tasks together do no *)
(* more than the abstract quota ledger allows.                             *)
THEOREM Refinement == Spec => ImplementsLedger
<1>1. Init => Ledger!LedgerInit
  BY DEF Init, Ledger!LedgerInit
<1>2. IInv /\ [Next]_vars => [Ledger!LedgerNext]_<<clock, admissions>>
  <2>. SUFFICES ASSUME IInv, [Next]_vars
                PROVE  [Ledger!LedgerNext]_<<clock, admissions>>
    OBVIOUS
  <2>1. CASE Tick
    BY <2>1 DEF Tick, Ledger!LedgerNext, Ledger!LedgerTick
  <2>2. ASSUME NEW t \in Tasks, Allow(t) PROVE Ledger!LedgerNext
    <3>1. PICK p : p = PruneAll(log, sampled[t])
      OBVIOUS
    <3>2. class[t] \in RequestClass
      BY DEF IInv, TypeOK
    <3>3. \A d \in Charged(class[t]) : Len(p[d]) < Limit[d]
      BY <2>2, <3>1, AnswerProperties
    <3>4. ASSUME NEW d \in Charged(class[t]) PROVE Ledger!HasRoom(d)
      <4>1. d \in Deque
        BY <3>2, ChargedDeques
      <4>2. Accounted(p[d], admissions[d], Limit[d], Window[d], clock) /\ p[d] \in Seq(Nat)
        BY <2>2, <3>1, <4>1, PruneAllKeepsBooks DEF Allow
      <4>3. /\ Limit[d] \in Nat \ {0} /\ Window[d] \in Nat /\ admissions[d] \in Seq(Nat)
            /\ Len(admissions[d]) \in Nat /\ clock \in Nat
        BY <4>1, LimitAssumption, WindowAssumption, LenProperties DEF IInv, TypeOK
      <4>4. CASE Len(admissions[d]) < Limit[d]
        BY <4>4 DEF Ledger!HasRoom
      <4>5. CASE Len(admissions[d]) >= Limit[d]
        BY <3>3, <4>2, <4>3, <4>5, RoomMeansOld DEF Ledger!HasRoom
      <4>. QED
        BY <4>3, <4>4, <4>5
    <3>5. Ledger!Admit(Charged(class[t]))
      BY <2>2, <3>4 DEF Allow, Record, Ledger!Admit
    <3>. QED
      BY <3>2, <3>5 DEF Ledger!LedgerNext
  <2>3. ASSUME NEW t \in Tasks, NEW c \in Classes, Acquire(t, c)
        PROVE  UNCHANGED <<clock, admissions>>
    BY <2>3 DEF Acquire
  <2>4. ASSUME NEW t \in Tasks, Refuse(t) \/ Resume(t) \/ Cancel(t)
        PROVE  UNCHANGED <<clock, admissions>>
    BY <2>4 DEF Refuse, Resume, Cancel
  <2>5. CASE UNCHANGED vars
    BY <2>5 DEF vars
  <2>. QED
    BY <2>1, <2>2, <2>3, <2>4, <2>5 DEF Next
<1>. QED
  BY Invariance, <1>1, <1>2, PTL DEF Spec, ImplementsLedger, Ledger!LedgerSpec, Ledger!ledgerVars
============================================================================
