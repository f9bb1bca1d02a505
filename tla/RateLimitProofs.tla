-------------------------- MODULE RateLimitProofs --------------------------
(***************************************************************************)
(* What the operators of RateLimit do, for every policy and every content  *)
(* of the deques: the loop of prune, and the decision of try_acquire_at.   *)
(***************************************************************************)
EXTENDS RateLimit, TLAPS, WellFoundedInduction, SequenceTheorems

----------------------------------------------------------------------------
(* prune. *)

(* Every non-empty set of naturals has a least element. *)
LEMMA LeastNatural ==
    ASSUME NEW S \in SUBSET Nat, S # {}
    PROVE  \E m \in S : \A k \in S : m <= k
<1>1. PICK x \in S : \A y \in S : ~ (<<y, x>> \in OpToRel(<, Nat))
  BY NatLessThanWellFounded, WFMin
<1>2. \A y \in S : ~ (y < x)
  BY <1>1 DEF OpToRel
<1>. QED
  BY <1>2

(* Every non-empty bounded set of naturals has a greatest element.         *)
LEMMA GreatestNatural ==
    ASSUME NEW S \in SUBSET Nat, S # {}, NEW b \in Nat, \A k \in S : k <= b
    PROVE  \E m \in S : \A k \in S : m >= k
<1>. DEFINE T == {n \in Nat : \E k \in S : n = b - k}
<1>1. T \in SUBSET Nat /\ T # {}
  <2>1. PICK k \in S : k \in Nat /\ k <= b
    OBVIOUS
  <2>2. b - k \in T
    BY <2>1
  <2>. QED
    BY <2>2
<1>2. \E r \in T : \A s \in T : r <= s
  BY <1>1, LeastNatural
<1>3. PICK m \in S : \A s \in T : b - m <= s
  BY <1>2
<1>4. ASSUME NEW k \in S PROVE m >= k
  <2>1. b - k \in T /\ k \in Nat /\ m \in Nat
    OBVIOUS
  <2>2. b - m <= b - k
    BY <1>3, <2>1
  <2>. QED
    BY <2>1, <2>2
<1>. QED
  BY <1>4

(* The loop of prune pops a run of expired entries and stops at the first  *)
(* one still in its window.                                                *)
LEMMA PrunedCountProperties ==
    ASSUME NEW q \in Seq(Nat), NEW now \in Nat, NEW window \in Nat
    PROVE  /\ PrunedCount(q, now, window) \in 0..Len(q)
           /\ \A i \in 1..PrunedCount(q, now, window) : q[i] + window <= now
           /\ PrunedCount(q, now, window) < Len(q)
                => now < q[PrunedCount(q, now, window) + 1] + window
<1>. DEFINE stops == {n \in 0..Len(q) : n < Len(q) => ~ Expired(q, n + 1, now, window)}
<1>0. Len(q) \in Nat /\ \A i \in 1..Len(q) : q[i] \in Nat
  BY LenProperties, ElementOfSeq
<1>1. Len(q) \in stops /\ stops \in SUBSET Nat
  BY <1>0
<1>2. \E m \in stops : \A k \in stops : m <= k
  BY <1>1, LeastNatural
<1>3. PICK n : n = PrunedCount(q, now, window)
  OBVIOUS
<1>4. n \in stops /\ \A k \in stops : n <= k
  BY <1>2, <1>3 DEF PrunedCount
<1>5. n \in 0..Len(q) /\ (n < Len(q) => ~ Expired(q, n + 1, now, window))
  BY <1>4
<1>6. ASSUME NEW i \in 1..n PROVE q[i] + window <= now
  <2>1. i - 1 \in 0..Len(q) /\ i - 1 < n /\ i - 1 < Len(q)
    BY <1>0, <1>5
  <2>2. CASE i - 1 \in stops
    <3>1. n <= i - 1
      BY <1>4, <2>2
    <3>. QED
      BY <1>5, <2>1, <3>1
  <2>3. CASE i - 1 \notin stops
    <3>1. Expired(q, (i - 1) + 1, now, window)
      BY <2>1, <2>3
    <3>. QED
      BY <1>0, <1>5, <3>1 DEF Expired
  <2>. QED
    BY <2>2, <2>3
<1>. QED
  BY <1>0, <1>3, <1>5, <1>6 DEF Expired

(* prune keeps the other entries in their order, and a fresh front.        *)
LEMMA PruneProperties ==
    ASSUME NEW q \in Seq(Nat), NEW now \in Nat, NEW window \in Nat
    PROVE  LET p == Prune(q, now, window)
               n == PrunedCount(q, now, window)
           IN  /\ p \in Seq(Nat)
               /\ Len(p) = Len(q) - n
               /\ \A i \in 1..Len(p) : p[i] = q[n + i]
               /\ Len(p) > 0 => now < p[1] + window
<1>0. Len(q) \in Nat /\ \A i \in 1..Len(q) : q[i] \in Nat
  BY LenProperties, ElementOfSeq
<1>1. PICK n : n = PrunedCount(q, now, window)
  OBVIOUS
<1>2. n \in 0..Len(q) /\ (n < Len(q) => now < q[n + 1] + window)
  BY <1>1, PrunedCountProperties
<1>3. PICK p : p = SubSeq(q, n + 1, Len(q))
  OBVIOUS
<1>4. /\ p \in Seq(Nat)
      /\ Len(p) = Len(q) - n
      /\ \A i \in 1..Len(p) : p[i] = q[n + i]
  BY <1>0, <1>2, <1>3
<1>5. ASSUME Len(p) > 0 PROVE now < p[1] + window
  <2>1. n < Len(q) /\ 1 \in 1..Len(p)
    BY <1>0, <1>2, <1>4, <1>5
  <2>2. p[1] = q[n + 1]
    BY <1>4, <2>1
  <2>. QED
    BY <1>2, <2>1, <2>2
<1>. QED
  BY <1>1, <1>3, <1>4, <1>5 DEF Prune

----------------------------------------------------------------------------
(* try_acquire_at as a whole. *)

LEMMA ChargedDeques == \A c \in RequestClass : Charged(c) \subseteq Deque
BY DEF Charged

LEMMA PruneAllProperties ==
    ASSUME NEW l \in [Deque -> Seq(Nat)], NEW now \in Nat
    PROVE  /\ PruneAll(l, now) \in [Deque -> Seq(Nat)]
           /\ \A d \in Deque : /\ PruneAll(l, now)[d] = Prune(l[d], now, Window[d])
                               /\ Len(PruneAll(l, now)[d]) <= Len(l[d])
                               /\ Len(PruneAll(l, now)[d]) > 0 =>
                                    now < PruneAll(l, now)[d][1] + Window[d]
<1>1. ASSUME NEW d \in Deque
      PROVE  /\ Prune(l[d], now, Window[d]) \in Seq(Nat)
             /\ Len(Prune(l[d], now, Window[d])) <= Len(l[d])
             /\ Len(Prune(l[d], now, Window[d])) > 0 =>
                    now < Prune(l[d], now, Window[d])[1] + Window[d]
  <2>1. l[d] \in Seq(Nat) /\ Window[d] \in Nat
    BY WindowAssumption
  <2>2. PICK q \in Seq(Nat) : q = l[d]
    BY <2>1
  <2>3. PICK n : n = PrunedCount(q, now, Window[d])
    OBVIOUS
  <2>4. n \in 0..Len(q)
    BY <2>1, <2>3, PrunedCountProperties
  <2>5. /\ Prune(q, now, Window[d]) \in Seq(Nat)
        /\ Len(Prune(q, now, Window[d])) = Len(q) - n
        /\ Len(Prune(q, now, Window[d])) > 0 => now < Prune(q, now, Window[d])[1] + Window[d]
    BY <2>1, <2>3, PruneProperties
  <2>6. Len(q) - n <= Len(q)
    BY <2>4, LenProperties
  <2>. QED
    BY <2>2, <2>5, <2>6
<1>. QED
  BY <1>1 DEF PruneAll

(* The request is admitted exactly when no deque it is charged to is full: *)
(* a full deque whose front is fresh always demands a positive wait.       *)
LEMMA WaitProperties ==
    ASSUME NEW l \in [Deque -> Seq(Nat)], NEW now \in Nat, NEW c \in RequestClass,
           \A d \in Deque : Len(l[d]) > 0 => now < l[d][1] + Window[d]
    PROVE  /\ WaitFor(l, c, now) \in Nat
           /\ WaitFor(l, c, now) = 0 <=> \A d \in Charged(c) : Len(l[d]) < Limit[d]
           /\ \A d \in Charged(c) :
                Full(l, d) => WaitFor(l, c, now) >= Until(l[d][1], now, Window[d])
<1>. DEFINE U(d) == Until(l[d][1], now, Window[d])
            D == Demands(l, c, now)
<1>1. ASSUME NEW d \in Deque, Full(l, d)
      PROVE  U(d) \in Nat \ {0}
  <2>1. Limit[d] \in Nat \ {0} /\ Window[d] \in Nat \ {0} /\ l[d] \in Seq(Nat)
    BY LimitAssumption, WindowAssumption
  <2>2. Len(l[d]) \in Nat /\ Len(l[d]) > 0
    BY <1>1, <2>1, LenProperties DEF Full
  <2>3. PICK x \in Nat : x = l[d][1]
    BY <2>1, <2>2, ElementOfSeq
  <2>4. now < x + Window[d]
    BY <2>2, <2>3
  <2>5. Until(x, now, Window[d]) \in Nat \ {0}
    BY <2>1, <2>4 DEF Until
  <2>. QED
    BY <2>3, <2>5
<1>2. D = {U(d) : d \in {e \in Charged(c) : Full(l, e)}}
  BY DEF Demands
<1>3. D \subseteq Nat \ {0}
  BY <1>1, <1>2, ChargedDeques
<1>4. \E m \in D \cup {0} : \A k \in D \cup {0} : m >= k
  <2>1. PICK x, y, z : D \subseteq {x, y, z}
    <3>1. D \subseteq {U("minute"), U("day"), U("mutations")}
      BY <1>2, ChargedDeques DEF Deque
    <3>. QED
      BY <3>1
  <2>2. PICK S : S = D \cup {0}
    OBVIOUS
  <2>3. S \in SUBSET Nat /\ S # {} /\ S \subseteq {x, y, z, 0}
    BY <1>3, <2>1, <2>2
  <2>4. PICK u \in Nat, v \in Nat, w \in Nat : S \subseteq {u, v, w, 0}
    <3>1. PICK u \in Nat : x \in S => u = x
      BY <2>3
    <3>2. PICK v \in Nat : y \in S => v = y
      BY <2>3
    <3>3. PICK w \in Nat : z \in S => w = z
      BY <2>3
    <3>4. \A k \in S : k \in {u, v, w, 0}
      BY <2>3, <3>1, <3>2, <3>3
    <3>. QED
      BY <3>4
  <2>5. u + v + w \in Nat /\ \A k \in S : k <= u + v + w
    BY <2>3, <2>4
  <2>6. \E m \in S : \A k \in S : m >= k
    BY <2>3, <2>5, GreatestNatural
  <2>. QED
    BY <2>2, <2>6
<1>5. /\ WaitFor(l, c, now) \in D \cup {0}
      /\ \A k \in D \cup {0} : WaitFor(l, c, now) >= k
  BY <1>4 DEF WaitFor, Max
<1>6. WaitFor(l, c, now) = 0 <=> D = {}
  BY <1>3, <1>5
<1>7. D = {} <=> \A d \in Charged(c) : ~ Full(l, d)
  BY <1>2
<1>8. ASSUME NEW d \in Charged(c) PROVE Full(l, d) <=> ~ (Len(l[d]) < Limit[d])
  <2>1. Limit[d] \in Nat /\ Len(l[d]) \in Nat
    BY ChargedDeques, LimitAssumption, LenProperties
  <2>. QED
    BY <2>1 DEF Full
<1>9. ASSUME NEW d \in Charged(c), Full(l, d) PROVE WaitFor(l, c, now) >= U(d)
  BY <1>2, <1>5, <1>9
<1>. QED
  BY <1>3, <1>5, <1>6, <1>7, <1>8, <1>9

(* What the answer of try_acquire_at says of the pruned deques. *)
LEMMA DecisionProperties ==
    ASSUME NEW l \in [Deque -> Seq(Nat)], NEW now \in Nat, NEW c \in RequestClass
    PROVE  LET p == PruneAll(l, now)
               r == TryAcquireAt(l, c, now)
           IN  /\ r.wait \in Nat
               /\ \A d \in Charged(c) :
                    Full(p, d) => r.wait >= Until(p[d][1], now, Window[d])
               /\ r.wait = 0 => /\ r.log = Record(p, c, now)
                                /\ \A d \in Charged(c) : Len(p[d]) < Limit[d]
               /\ r.wait # 0 => /\ r.log = p
                                /\ \E d \in Charged(c) : ~ (Len(p[d]) < Limit[d])
<1>1. PICK p : p = PruneAll(l, now)
  OBVIOUS
<1>2. /\ p \in [Deque -> Seq(Nat)]
      /\ \A d \in Deque : Len(p[d]) > 0 => now < p[d][1] + Window[d]
  BY <1>1, PruneAllProperties
<1>3. /\ WaitFor(p, c, now) \in Nat
      /\ WaitFor(p, c, now) = 0 <=> \A d \in Charged(c) : Len(p[d]) < Limit[d]
      /\ \A d \in Charged(c) :
            Full(p, d) => WaitFor(p, c, now) >= Until(p[d][1], now, Window[d])
  BY <1>2, WaitProperties
<1>. QED
  BY <1>1, <1>3 DEF TryAcquireAt

(* Either answer leaves every deque of its type and within its capacity.   *)
LEMMA DecisionKeepsType ==
    ASSUME NEW l \in [Deque -> Seq(Nat)], NEW now \in Nat, NEW c \in RequestClass,
           \A d \in Deque : Len(l[d]) <= Limit[d]
    PROVE  /\ TryAcquireAt(l, c, now).log \in [Deque -> Seq(Nat)]
           /\ \A d \in Deque : Len(TryAcquireAt(l, c, now).log[d]) <= Limit[d]
<1>1. PICK p : p = PruneAll(l, now)
  OBVIOUS
<1>2. /\ p \in [Deque -> Seq(Nat)]
      /\ \A d \in Deque : Len(p[d]) <= Len(l[d])
  BY <1>1, PruneAllProperties
<1>3. ASSUME NEW d \in Deque PROVE Len(p[d]) <= Limit[d]
  <2>1. Len(p[d]) \in Nat /\ Len(l[d]) \in Nat /\ Limit[d] \in Nat
    BY <1>2, LenProperties, LimitAssumption
  <2>. QED
    BY <1>2, <2>1
<1>4. CASE TryAcquireAt(l, c, now).wait # 0
  BY <1>1, <1>2, <1>3, <1>4, DecisionProperties
<1>5. CASE TryAcquireAt(l, c, now).wait = 0
  <2>1. /\ TryAcquireAt(l, c, now).log = Record(p, c, now)
        /\ \A d \in Charged(c) : Len(p[d]) < Limit[d]
    BY <1>1, <1>5, DecisionProperties
  <2>2. ASSUME NEW d \in Deque
        PROVE  Record(p, c, now)[d] \in Seq(Nat) /\ Len(Record(p, c, now)[d]) <= Limit[d]
    <3>0. Limit[d] \in Nat /\ Len(p[d]) \in Nat /\ p[d] \in Seq(Nat)
      BY <1>2, LenProperties, LimitAssumption
    <3>1. CASE d \in Charged(c)
      <4>1. Append(p[d], now) \in Seq(Nat) /\ Len(Append(p[d], now)) = Len(p[d]) + 1
        BY <3>0, AppendProperties
      <4>2. Len(p[d]) + 1 <= Limit[d]
        BY <2>1, <3>0, <3>1
      <4>. QED
        BY <3>1, <4>1, <4>2 DEF Record
    <3>2. CASE d \notin Charged(c)
      BY <1>3, <3>0, <3>2 DEF Record
    <3>. QED
      BY <3>1, <3>2
  <2>3. Record(p, c, now) = [d \in Deque |-> Record(p, c, now)[d]]
    BY DEF Record
  <2>. QED
    BY <2>1, <2>2, <2>3
<1>. QED
  BY <1>4, <1>5

(* A deque that is still full after pruning has lost nothing: its front is *)
(* the one it had.                                                         *)
LEMMA FullAfterPruning ==
    ASSUME NEW l \in [Deque -> Seq(Nat)], NEW now \in Nat, NEW d \in Deque,
           Len(l[d]) <= Limit[d], Full(PruneAll(l, now), d)
    PROVE  Full(l, d) /\ PruneAll(l, now)[d][1] = l[d][1]
<1>1. /\ l[d] \in Seq(Nat) /\ Window[d] \in Nat /\ Limit[d] \in Nat \ {0}
      /\ Len(l[d]) \in Nat
  BY WindowAssumption, LimitAssumption, LenProperties
<1>2. PICK q \in Seq(Nat) : q = l[d]
  BY <1>1
<1>3. PICK p : p = Prune(q, now, Window[d])
  OBVIOUS
<1>4. PruneAll(l, now)[d] = p
  BY <1>2, <1>3 DEF PruneAll
<1>5. PICK n : n = PrunedCount(q, now, Window[d])
  OBVIOUS
<1>6. n \in 0..Len(q)
  BY <1>1, <1>5, PrunedCountProperties
<1>7. Len(p) = Len(q) - n /\ \A i \in 1..Len(p) : p[i] = q[n + i]
  BY <1>1, <1>3, <1>5, PruneProperties
<1>8. PICK k \in Nat, m \in Nat : k = Len(q) /\ m = Limit[d]
  BY <1>1, <1>2
<1>9. k - n >= m /\ k <= m /\ m > 0
  BY <1>1, <1>2, <1>4, <1>7, <1>8 DEF Full
<1>10. n = 0 /\ k >= m /\ 1 \in 1..(k - n)
  BY <1>6, <1>8, <1>9
<1>11. p[1] = q[1]
  BY <1>7, <1>8, <1>10
<1>. QED
  BY <1>2, <1>4, <1>8, <1>10, <1>11 DEF Full
============================================================================
