------------------------- MODULE RestExecuteProofs -------------------------
(***************************************************************************)
(* For any number of calls, every policy, quota, set of timeouts and       *)
(* lateness: the type of RestExecute, that attempts are charged, that      *)
(* answers come in time, that a Retry-After is honoured, and that what the *)
(* caller of a mutation is told keeps MutationContract.                    *)
(*                                                                         *)
(* The argument for time: whatever a call awaits has a timer that is due   *)
(* by the deadline, or by the deadline and one lateness when the gate was  *)
(* late to let it send (Timely).  For honesty: a mutation is put on the    *)
(* wire once, and is then at the broker, answered or an orphan; which of   *)
(* the three tells what can still happen, and the answer says no more      *)
(* than that (Honest).                                                     *)
(***************************************************************************)
EXTENDS RestExecute, RateLimitProofs

Active(c) == pc[c] \notin {"idle", "done"}

\* What a phase says of the rest of a call.
Staged(c) ==
    /\ pc[c] = "idle" => class[c] = "Read" /\ via[c] = "execute"
    /\ Active(c) => attempt[c] >= 1
    /\ pc[c] = "backoff" => attempt[c] < MaxAttempts /\ ~ IsMutation(class[c])
    /\ via[c] = "authenticate" => ~ IsMutation(class[c])
    /\ pc[c] # "done" => result[c] = "none"

Timely(c) ==
    /\ Active(c) => clock <= Due(c) + Lateness
    /\ pc[c] \in {"gate", "backoff"} => wake[c] <= deadline[c]
    /\ pc[c] \in Sending =>
        FirstByte <= wake[c] /\ wake[c] - FirstByte <= deadline[c] + Lateness

\* The broker's Retry-After has passed, or will have when the sleep ends.
Patient(c) ==
    /\ pc[c] = "idle" => notBefore[c] = 0
    /\ pc[c] = "backoff" => notBefore[c] <= wake[c]
    /\ pc[c] \in {"gate", "throttled"} \cup Sending => notBefore[c] <= clock

Honest(c) ==
    /\ ~ IsMutation(class[c]) => effects[c] = 0 /\ orphans[c] = 0
    /\ pc[c] # "done" => orphans[c] = 0
    /\ pc[c] \notin Sending => ~ atBroker[c] /\ reply[c] = "none"
    /\ pc[c] \notin Sending \cup {"done"} => effects[c] = 0
    /\ pc[c] \in Sending => (atBroker[c] <=> reply[c] = "none")
    /\ pc[c] = "body" => reply[c] # "none"
    /\ pc[c] \in Sending /\ reply[c] \in {"none", "Refused", "RateLimited"} => effects[c] = 0
    /\ pc[c] \in Sending /\ reply[c] = "Ok" /\ IsMutation(class[c]) => effects[c] = 1
    /\ effects[c] + orphans[c] <= 1
    /\ pc[c] = "done" /\ IsMutation(class[c]) =>
        /\ result[c] # "none"
        /\ result[c] = "Ok" => effects[c] = 1
        /\ result[c] \notin {"Ok", "AmbiguousMutation"} => effects[c] = 0 /\ orphans[c] = 0

Charges(c) == via[c] = "execute" => wire[c] <= charged[c]

Local(c) == Staged(c) /\ Timely(c) /\ Patient(c) /\ Honest(c) /\ Charges(c)

Roomy == \A d \in Deque : Len(log[d]) <= Limit[d]

IInv == TypeOK /\ Roomy /\ \A c \in Calls : Local(c)

\* A call that a step leaves alone.
Idles(c) ==
    /\ pc'[c] = pc[c] /\ class'[c] = class[c] /\ via'[c] = via[c]
    /\ attempt'[c] = attempt[c] /\ result'[c] = result[c] /\ wake'[c] = wake[c]
    /\ deadline'[c] = deadline[c] /\ notBefore'[c] = notBefore[c]
    /\ effects'[c] = effects[c] /\ orphans'[c] = orphans[c] /\ atBroker'[c] = atBroker[c]
    /\ reply'[c] = reply[c] /\ wire'[c] = wire[c] /\ charged'[c] = charged[c]

(* The assumptions and the type, one fact each. *)
LEMMA Durations ==
    /\ MaxAttempts \in Nat \ {0} /\ 1 \in 0..MaxAttempts
    /\ BaseDelay \in Nat /\ MaxDelay \in Nat /\ FirstByte \in Nat
    /\ Total \in Nat /\ Lateness \in Nat
    /\ \A after \in RetryAfters : after \in Nat
  BY PolicyAssumption

Typed ==
    /\ clock \in Nat /\ log \in [Deque -> Seq(Nat)] /\ authenticated \in BOOLEAN
    /\ pc \in [Calls -> Phase] /\ class \in [Calls -> RequestClass]
    /\ via \in [Calls -> {"execute", "authenticate"}]
    /\ preparable \in [Calls -> BOOLEAN] /\ atBroker \in [Calls -> BOOLEAN]
    /\ reply \in [Calls -> Replies \cup {"none"}]
    /\ result \in [Calls -> Outcomes \cup {"none", "AmbiguousMutation"}]
    /\ attempt \in [Calls -> 0..MaxAttempts]
    /\ deadline \in [Calls -> Nat] /\ wake \in [Calls -> Nat]
    /\ retryAfter \in [Calls -> Nat] /\ orphans \in [Calls -> Nat]
    /\ effects \in [Calls -> Nat] /\ wire \in [Calls -> Nat]
    /\ charged \in [Calls -> Nat] /\ notBefore \in [Calls -> Nat]

LEMMA TypeIsTyped == TypeOK => Typed
  BY DEF TypeOK, Typed

LEMMA TypedIsType == Typed' => TypeOK'
  BY DEF TypeOK, Typed

USE Durations

LEMMA Framed ==
    ASSUME NEW c, Local(c), Idles(c), clock' = clock
    PROVE  Local(c)'
<1>1. Staged(c)' /\ Patient(c)' /\ Charges(c)'
  BY DEF Idles, Local, Staged, Patient, Charges, Active, Sending
<1>2. Honest(c)'
  BY DEF Idles, Local, Honest, Sending
<1>3. Due(c)' = Due(c)
  BY DEF Idles, Due, SendExpiry, Earlier, Later
<1>4. Timely(c)'
  BY <1>3 DEF Idles, Local, Timely, Active, Sending
<1>. QED
  BY <1>1, <1>2, <1>4 DEF Local

(* The types of one call's variables. *)
LEMMA CallTypes ==
    ASSUME TypeOK, NEW c \in Calls
    PROVE  /\ clock \in Nat /\ pc[c] \in Phase /\ class[c] \in RequestClass
           /\ via[c] \in {"execute", "authenticate"}
           /\ reply[c] \in Replies \cup {"none"}
           /\ attempt[c] \in 0..MaxAttempts
           /\ deadline[c] \in Nat /\ wake[c] \in Nat /\ retryAfter[c] \in Nat
           /\ orphans[c] \in Nat /\ effects[c] \in Nat /\ wire[c] \in Nat
           /\ charged[c] \in Nat /\ notBefore[c] \in Nat
  BY DEF TypeOK

(* A call runs at most one lateness after what it awaits is due. *)
LEMMA DueInTime ==
    ASSUME TypeOK, NEW c \in Calls, Active(c), Timely(c)
    PROVE  /\ Due(c) \in Int
           /\ Due(c) <= deadline[c] + Lateness
           /\ pc[c] \in {"gate", "throttled", "backoff"} => Due(c) <= deadline[c]
  BY CallTypes DEF Active, Timely, Due, SendExpiry, Earlier, Later, Sending, Phase

LEMMA DelayIsNatural ==
    ASSUME TypeOK, NEW c \in Calls, NEW outcome, attempt[c] >= 1
    PROVE  /\ retry_delay(c, outcome) \in Nat
           /\ outcome = "RateLimited" => retry_delay(c, outcome) >= retryAfter[c]
<1>1. PICK n \in 0..31 :
        n < MaxAttempts /\ n = IF attempt[c] - 1 < 31 THEN attempt[c] - 1 ELSE 31
  BY CallTypes
<1>2. PICK power \in Nat : power = 2^n
  BY <1>1, PowersAssumption
<1>3. backoff(attempt[c] - 1) \in Nat
  BY <1>1, <1>2 DEF backoff
<1>4. retryAfter[c] \in Nat
  BY CallTypes
<1>. QED
  BY <1>3, <1>4 DEF retry_delay

----------------------------------------------------------------------------
(* The steps. *)

(* A step of one call is judged by what it does to that call.              *)
LEMMA OneCall ==
    ASSUME IInv, NEW c \in Calls, clock' = clock, TypeOK', Roomy', Local(c)',
           \A d \in Calls \ {c} : Idles(d)
    PROVE  IInv'
<1>1. ASSUME NEW d \in Calls PROVE Local(d)'
  BY Framed DEF IInv
<1>. QED
  BY <1>1 DEF IInv

LEMMA InitKeeps == Init => IInv
<1>. SUFFICES ASSUME Init PROVE IInv
  OBVIOUS
<1>1. TypeOK
  BY DEF Init, TypeOK, Phase, RequestClass
<1>2. Roomy
  BY LimitAssumption DEF Init, Roomy
<1>3. ASSUME NEW c \in Calls PROVE Local(c)
  BY DEF Init, Local, Staged, Timely, Patient, Honest, Charges, Active, Sending, IsMutation
<1>. QED
  BY <1>1, <1>2, <1>3 DEF IInv

LEMMA TickKeeps ==
    ASSUME IInv, Tick
    PROVE  IInv'
<1>. USE DEF clientVars, brokerVars, historyVars
<1>1. TypeOK'
  BY DEF IInv, Tick, TypeOK
<1>2. Roomy'
  BY DEF IInv, Tick, Roomy
<1>3. ASSUME NEW c \in Calls PROVE Local(c)'
  <2>1. Staged(c)' /\ Honest(c)' /\ Charges(c)'
    BY DEF IInv, Tick, Local, Staged, Honest, Charges, Active, Sending
  <2>2. Patient(c)'
    BY CallTypes DEF IInv, Tick, Local, Patient, Sending
  <2>3. Due(c)' = Due(c)
    BY DEF Tick, Due, SendExpiry, Earlier, Later
  <2>4. ASSUME Active(c) PROVE clock + 1 <= Due(c) + Lateness
    BY <2>4, DueInTime, CallTypes DEF IInv, Local, Tick, Active
  <2>5. Timely(c)'
    BY <2>3, <2>4 DEF IInv, Local, Timely, Tick, Active, Sending
  <2>. QED
    BY <2>1, <2>2, <2>5 DEF Local
<1>. QED
  BY <1>1, <1>2, <1>3 DEF IInv

LEMMA ExecuteKeeps ==
    ASSUME IInv, NEW c \in Calls, NEW k \in Classes, NEW valid \in BOOLEAN,
           Execute(c, k, valid)
    PROVE  IInv'
<1>. USE DEF Execute, Begin, brokerVars, historyVars
<1>0. TypeOK /\ Typed /\ Local(c)
  BY TypeIsTyped DEF IInv
<1>1. TypeOK'
  <2>1. k \in RequestClass /\ clock \in Nat /\ clock + Total \in Nat
    BY <1>0, CallClassesAssumption DEF Typed
  <2>2. /\ pc' \in [Calls -> Phase]
        /\ result' \in [Calls -> Outcomes \cup {"none", "AmbiguousMutation"}]
    BY <1>0 DEF Typed, Phase, Outcomes
  <2>. QED
    BY <1>0, <2>1, <2>2, TypedIsType DEF Typed
<1>2. Roomy'
  BY DEF IInv, Roomy
<1>3. \A d \in Calls \ {c} : Idles(d)
  BY <1>0 DEF Typed, Idles
<1>4. /\ class'[c] = k /\ via'[c] = "execute" /\ attempt'[c] = 1
      /\ wake'[c] = clock /\ deadline'[c] = clock + Total
      /\ \/ pc'[c] = "done" /\ result'[c] = "TotalTimeout"
         \/ pc'[c] = "gate" /\ result'[c] = result[c]
  BY <1>0 DEF Typed
<1>. USE <1>0, <1>4, CallTypes
<1>5. Staged(c)' /\ Patient(c)' /\ Charges(c)'
  BY DEF Local, Staged, Patient, Charges, Active, Sending
<1>6. Timely(c)'
  BY DEF Timely, Active, Due, Sending
<1>7. Honest(c)'
  BY DEF Local, Staged, Honest, Sending, IsMutation
<1>. QED
  BY <1>1, <1>2, <1>3, <1>5, <1>6, <1>7, OneCall DEF Local

LEMMA AuthenticateKeeps ==
    ASSUME IInv, NEW c \in Calls, Authenticate(c)
    PROVE  IInv'
<1>. USE DEF Authenticate, Begin, Put
<1>0. TypeOK /\ Typed /\ Local(c)
  BY TypeIsTyped DEF IInv
<1>1. TypeOK'
  <2>1. clock \in Nat /\ clock + Total \in Nat /\ clock + FirstByte \in Nat
    BY <1>0 DEF Typed
  <2>2. deadline' \in [Calls -> Nat] /\ wake' \in [Calls -> Nat] /\ wire' \in [Calls -> Nat]
    BY <1>0, <2>1 DEF Typed
  <2>3. pc' \in [Calls -> Phase] /\ atBroker' \in [Calls -> BOOLEAN]
    BY <1>0 DEF Typed, Phase
  <2>4. /\ via' \in [Calls -> {"execute", "authenticate"}]
        /\ preparable' \in [Calls -> BOOLEAN] /\ attempt' \in [Calls -> 0..MaxAttempts]
    BY <1>0 DEF Typed
  <2>. QED
    BY <1>0, <2>1, <2>2, <2>3, <2>4, TypedIsType DEF Typed
<1>2. Roomy'
  BY DEF IInv, Roomy
<1>3. \A d \in Calls \ {c} : Idles(d)
  BY <1>0 DEF Typed, Idles
<1>4. /\ via'[c] = "authenticate" /\ attempt'[c] = 1 /\ pc'[c] = "sent"
      /\ wake'[c] = clock + FirstByte /\ deadline'[c] = clock + Total /\ atBroker'[c] = TRUE
  BY <1>0 DEF Typed
<1>. USE <1>0, <1>4, CallTypes
<1>5. Staged(c)' /\ Patient(c)' /\ Charges(c)'
  BY DEF Local, Staged, Patient, Charges, Active, Sending, IsMutation
<1>6. Timely(c)'
  BY DEF Timely, Active, Due, SendExpiry, Earlier, Later, Sending
<1>7. Honest(c)'
  BY DEF Local, Staged, Honest, Sending, IsMutation
<1>. QED
  BY <1>1, <1>2, <1>3, <1>5, <1>6, <1>7, OneCall DEF Local

(* What the gate's answer does to the deques. *)
LEMMA GateAnswers ==
    ASSUME IInv, NEW c \in Calls, log' = TryAcquireAt(log, class[c], clock).log
    PROVE  /\ TryAcquireAt(log, class[c], clock).wait \in Nat
           /\ log' \in [Deque -> Seq(Nat)]
           /\ Roomy'
<1>1. /\ log \in [Deque -> Seq(Nat)] /\ clock \in Nat /\ class[c] \in RequestClass
      /\ \A d \in Deque : Len(log[d]) <= Limit[d]
  BY DEF IInv, TypeOK, Roomy
<1>. QED
  BY <1>1, DecisionProperties, DecisionKeepsType DEF Roomy

(* A task that asks the gate does so no later than its deadline allows. *)
LEMMA AsksInTime ==
    ASSUME IInv, NEW c \in Calls, pc[c] \in {"gate", "throttled", "backoff"}
    PROVE  clock <= deadline[c] + Lateness
<1>1. TypeOK /\ Timely(c) /\ Active(c)
  BY DEF IInv, Local, Active
<1>2. Due(c) \in Int /\ Due(c) <= deadline[c] /\ clock <= Due(c) + Lateness
  BY <1>1, DueInTime DEF Timely
<1>. QED
  BY <1>1, <1>2, CallTypes

LEMMA AdmittedKeeps ==
    ASSUME IInv, NEW c \in Calls, Admitted(c)
    PROVE  IInv'
<1>0. TypeOK /\ Typed /\ Local(c) /\ pc[c] \in {"gate", "throttled"}
  BY TypeIsTyped DEF IInv, Admitted, AsksGate
<1>1. /\ clock' = clock
      /\ charged' = [charged EXCEPT ![c] = @ + 1]
      /\ UNCHANGED <<authenticated, class, via, preparable, deadline, reply, retryAfter,
                     orphans, effects, notBefore>>
  BY DEF Admitted, clientVars
<1>2. clock <= deadline[c] + Lateness /\ clock \in Nat /\ clock + FirstByte \in Nat
  BY <1>0, AsksInTime, CallTypes
<1>3. log' \in [Deque -> Seq(Nat)] /\ Roomy'
  BY GateAnswers DEF Admitted
<1>4. CASE Put(c) /\ UNCHANGED <<attempt, result>>
  <2>. USE <1>4 DEF Put
  <2>1. TypeOK'
    <3>1. /\ charged' \in [Calls -> Nat] /\ wake' \in [Calls -> Nat] /\ wire' \in [Calls -> Nat]
      <4>1. charged' \in [Calls -> Nat]
        BY <1>0, <1>1 DEF Typed
      <4>2. wake' \in [Calls -> Nat]
        BY <1>0, <1>2 DEF Typed
      <4>3. wire' \in [Calls -> Nat]
        BY <1>0 DEF Typed
      <4>. QED
        BY <4>1, <4>2, <4>3
    <3>2. pc' \in [Calls -> Phase] /\ atBroker' \in [Calls -> BOOLEAN]
      BY <1>0, <1>1 DEF Typed, Phase
    <3>. QED
      BY <1>0, <1>1, <1>2, <1>3, <3>1, <3>2, TypedIsType DEF Typed
  <2>2. \A d \in Calls \ {c} : Idles(d)
    BY <1>0, <1>1 DEF Typed, Idles
  <2>3. /\ pc'[c] = "sent" /\ wake'[c] = clock + FirstByte /\ atBroker'[c] = TRUE
        /\ wire'[c] = wire[c] + 1 /\ charged'[c] = charged[c] + 1
    BY <1>0, <1>1 DEF Typed
  <2>. USE <1>0, <1>1, <1>2, <2>3, CallTypes
  <2>4. Staged(c)' /\ Patient(c)' /\ Charges(c)'
    BY DEF Local, Staged, Patient, Charges, Active, Sending
  <2>5. Timely(c)'
    <3>1. clock <= SendExpiry(c)' /\ clock <= Due(c)' /\ Due(c)' \in Nat
      BY DEF Due, SendExpiry, Earlier, Later
    <3>2. FirstByte <= wake'[c] /\ wake'[c] - FirstByte <= deadline'[c] + Lateness
      OBVIOUS
    <3>3. clock <= Due(c)' + Lateness
      BY <3>1
    <3>. QED
      BY <3>2, <3>3 DEF Timely, Active, Sending
  <2>6. Honest(c)'
    BY DEF Local, Honest, Sending
  <2>. QED
    BY <1>3, <2>1, <2>2, <2>4, <2>5, <2>6, OneCall DEF Local
<1>5. CASE Finish(c, "Refused") /\ UNCHANGED <<wire, atBroker>>
  <2>. USE <1>5 DEF Finish
  <2>1. TypeOK'
    <3>1. /\ charged' \in [Calls -> Nat] /\ pc' \in [Calls -> Phase]
          /\ result' \in [Calls -> Outcomes \cup {"none", "AmbiguousMutation"}]
      BY <1>0, <1>1 DEF Typed, Phase, Outcomes, Replies
    <3>. QED
      BY <1>0, <1>1, <1>2, <1>3, <3>1, TypedIsType DEF Typed
  <2>2. \A d \in Calls \ {c} : Idles(d)
    BY <1>0, <1>1 DEF Typed, Idles
  <2>3. pc'[c] = "done" /\ result'[c] = "Refused" /\ charged'[c] = charged[c] + 1
    BY <1>0, <1>1 DEF Typed
  <2>. USE <1>0, <1>1, <2>3, CallTypes
  <2>4. Staged(c)' /\ Patient(c)' /\ Charges(c)' /\ Timely(c)'
    BY DEF Local, Staged, Patient, Charges, Timely, Active, Sending
  <2>5. Honest(c)'
    BY DEF Local, Honest, Sending
  <2>. QED
    BY <1>3, <2>1, <2>2, <2>4, <2>5, OneCall DEF Local
<1>. QED
  BY <1>4, <1>5 DEF Admitted

LEMMA ThrottledKeeps ==
    ASSUME IInv, NEW c \in Calls, Throttled(c)
    PROVE  IInv'
<1>0. TypeOK /\ Typed /\ Local(c) /\ pc[c] \in {"gate", "throttled"}
  BY TypeIsTyped DEF IInv, Throttled, AsksGate
<1>1. PICK wait \in Nat :
        /\ log' = TryAcquireAt(log, class[c], clock).log
        /\ wake' = [wake EXCEPT ![c] = clock + wait]
        /\ pc' = [pc EXCEPT ![c] = "throttled"]
        /\ clock' = clock
        /\ UNCHANGED <<attempt, result, clientVars, brokerVars, historyVars>>
  BY GateAnswers DEF Throttled
<1>. USE DEF clientVars, brokerVars, historyVars
<1>2. /\ log' \in [Deque -> Seq(Nat)] /\ Roomy' /\ clock <= deadline[c] + Lateness
      /\ clock + wait \in Nat
  BY <1>0, <1>1, GateAnswers, AsksInTime, CallTypes
<1>3. TypeOK'
  BY <1>0, <1>1, <1>2, TypedIsType DEF Typed, Phase
<1>4. \A d \in Calls \ {c} : Idles(d)
  BY <1>0, <1>1 DEF Typed, Idles
<1>5. pc'[c] = "throttled" /\ wake'[c] = clock + wait
  BY <1>0, <1>1 DEF Typed
<1>. USE <1>0, <1>1, <1>2, <1>5, CallTypes
<1>6. Staged(c)' /\ Patient(c)' /\ Charges(c)'
  BY DEF Local, Staged, Patient, Charges, Active, Sending
<1>7. Timely(c)'
  BY DEF Timely, Active, Due, Earlier, Sending
<1>8. Honest(c)'
  BY DEF Local, Honest, Sending
<1>. QED
  BY <1>3, <1>4, <1>6, <1>7, <1>8, OneCall DEF Local

LEMMA GateExpiresKeeps ==
    ASSUME IInv, NEW c \in Calls, GateExpires(c)
    PROVE  IInv'
<1>. USE DEF GateExpires, Finish, clientVars, brokerVars, historyVars
<1>0. TypeOK /\ Typed /\ Local(c)
  BY TypeIsTyped DEF IInv
<1>1. TypeOK'
  <2>1. pc' \in [Calls -> Phase]
    BY <1>0 DEF Typed, Phase
  <2>2. result' \in [Calls -> Outcomes \cup {"none", "AmbiguousMutation"}]
    BY <1>0 DEF Typed, Outcomes
  <2>. QED
    BY <1>0, <2>1, <2>2, TypedIsType DEF Typed
<1>2. Roomy'
  BY DEF IInv, Roomy
<1>3. \A d \in Calls \ {c} : Idles(d)
  BY <1>0 DEF Typed, Idles
<1>4. pc'[c] = "done" /\ result'[c] = "TotalTimeout"
  BY <1>0 DEF Typed
<1>5. Staged(c)' /\ Patient(c)' /\ Charges(c)' /\ Timely(c)' /\ Honest(c)'
  BY <1>0, <1>4
     DEF Local, Staged, Patient, Charges, Timely, Honest, Active, Sending
<1>. QED
  BY <1>1, <1>2, <1>3, <1>5, OneCall DEF Local

LEMMA BackoffEndsKeeps ==
    ASSUME IInv, NEW c \in Calls, BackoffEnds(c)
    PROVE  IInv'
<1>. USE DEF BackoffEnds, clientVars, brokerVars, historyVars
<1>0. TypeOK /\ Typed /\ Local(c)
  BY TypeIsTyped DEF IInv
<1>1. attempt[c] + 1 \in 1..MaxAttempts /\ clock \in Nat
  BY <1>0, CallTypes DEF Local, Staged
<1>2. TypeOK'
  <2>1. pc' \in [Calls -> Phase]
    <3>1. pc' = [pc EXCEPT ![c] = "gate"] \/ pc' = [pc EXCEPT ![c] = "done"]
      OBVIOUS
    <3>2. pc \in [Calls -> Phase]
      BY <1>0 DEF Typed
    <3>. QED
      BY <3>1, <3>2 DEF Phase
  <2>2. result' \in [Calls -> Outcomes \cup {"none", "AmbiguousMutation"}]
    BY <1>0 DEF Typed, Outcomes
  <2>3. wake' \in [Calls -> Nat]
    BY <1>0, <1>1 DEF Typed
  <2>4. attempt' \in [Calls -> 0..MaxAttempts]
    BY <1>0, <1>1 DEF Typed
  <2>. QED
    BY <1>0, <2>1, <2>2, <2>3, <2>4, TypedIsType DEF Typed
<1>3. Roomy'
  BY DEF IInv, Roomy
<1>4. \A d \in Calls \ {c} : Idles(d)
  BY <1>0 DEF Typed, Idles
<1>5. /\ attempt'[c] = attempt[c] + 1
      /\ \/ pc'[c] = "done" /\ result'[c] = "TotalTimeout"
         \/ /\ pc'[c] = "gate" /\ result'[c] = result[c]
            /\ wake'[c] = clock /\ clock < deadline[c]
  BY <1>0 DEF Typed
<1>. USE <1>0, <1>1, <1>5, CallTypes
<1>6. Staged(c)' /\ Patient(c)' /\ Charges(c)'
  BY DEF Local, Staged, Patient, Charges, Active, Sending
<1>7. Timely(c)'
  BY DEF Timely, Active, Due, Sending
<1>8. Honest(c)'
  BY DEF Local, Staged, Honest, Sending
<1>. QED
  BY <1>2, <1>3, <1>4, <1>6, <1>7, <1>8, OneCall DEF Local

LEMMA FirstByteArrivesKeeps ==
    ASSUME IInv, NEW c \in Calls, FirstByteArrives(c)
    PROVE  IInv'
<1>. USE DEF FirstByteArrives, clientVars, brokerVars, historyVars
<1>0. TypeOK /\ Typed /\ Local(c)
  BY TypeIsTyped DEF IInv
<1>1. TypeOK'
  BY <1>0, TypedIsType DEF Typed, Phase
<1>2. Roomy'
  BY DEF IInv, Roomy
<1>3. \A d \in Calls \ {c} : Idles(d)
  BY <1>0 DEF Typed, Idles
<1>4. pc'[c] = "body"
  BY <1>0 DEF Typed
<1>. USE <1>0, <1>4, CallTypes
<1>5. Staged(c)' /\ Patient(c)' /\ Charges(c)' /\ Honest(c)'
  BY DEF Local, Staged, Patient, Charges, Honest, Active, Sending
<1>6. Timely(c)'
  <2>1. SendExpiry(c)' = SendExpiry(c) /\ SendExpiry(c) \in Int
    BY DEF SendExpiry, Later, Local, Timely, Sending
  <2>2. clock <= SendExpiry(c) + Lateness
    BY <2>1 DEF Local, Timely, Active, Due, Earlier
  <2>. QED
    BY <2>1, <2>2 DEF Local, Timely, Active, Due, Sending
<1>. QED
  BY <1>1, <1>2, <1>3, <1>5, <1>6, OneCall DEF Local

(* What the broker does to one call while the client waits or has left.    *)
LEMMA BrokerAnswersKeeps ==
    ASSUME IInv, NEW c \in Calls, NEW kind \in Replies, NEW after \in RetryAfters,
           BrokerAnswers(c, kind, after)
    PROVE  IInv'
<1>. USE DEF BrokerAnswers, Executes, clientVars, historyVars
<1>0. TypeOK /\ Typed /\ Local(c)
  BY TypeIsTyped DEF IInv
<1>1. TypeOK'
  <2>1. atBroker' \in [Calls -> BOOLEAN] /\ reply' \in [Calls -> Replies \cup {"none"}]
    BY <1>0 DEF Typed
  <2>2. retryAfter' \in [Calls -> Nat]
    BY <1>0 DEF Typed
  <2>3. effects' \in [Calls -> Nat]
    <3>1. effects \in [Calls -> Nat] /\ effects[c] \in Nat
      BY <1>0 DEF Typed
    <3>2. PICK n \in Nat : effects' = [effects EXCEPT ![c] = n] \/ effects' = effects
      BY <3>1
    <3>. QED
      BY <3>1, <3>2
  <2>. QED
    BY <1>0, <2>1, <2>2, <2>3, TypedIsType DEF Typed
<1>2. Roomy'
  BY DEF IInv, Roomy
<1>3. \A d \in Calls \ {c} : Idles(d)
  BY <1>0 DEF Typed, Idles
<1>4. /\ pc[c] = "sent" /\ pc'[c] = "sent" /\ atBroker'[c] = FALSE /\ reply'[c] = kind
      /\ \/ /\ kind \in {"Ok"} \cup Inconclusive
            /\ effects'[c] = IF IsMutation(class[c]) THEN effects[c] + 1 ELSE effects[c]
         \/ kind # "Ok" /\ effects'[c] = effects[c]
  BY <1>0 DEF Typed
<1>. USE <1>0, <1>4, CallTypes
<1>5. Staged(c)' /\ Patient(c)' /\ Charges(c)'
  BY DEF Local, Staged, Patient, Charges, Active, Sending
<1>6. Timely(c)'
  <2>1. Due(c)' = Due(c)
    BY DEF Due, SendExpiry, Earlier, Later
  <2>. QED
    BY <2>1 DEF Local, Timely, Active, Sending
<1>7. Honest(c)'
  <2>1. atBroker[c] /\ reply[c] = "none" /\ effects[c] = 0 /\ orphans[c] = 0
    BY DEF Local, Honest, Sending
  <2>2. kind # "none"
    BY DEF Replies
  <2>. QED
    BY <2>1, <2>2 DEF Honest, Sending, Inconclusive
<1>. QED
  BY <1>1, <1>2, <1>3, <1>5, <1>6, <1>7, OneCall DEF Local

LEMMA BrokerCatchesUpKeeps ==
    ASSUME IInv, NEW c \in Calls, BrokerCatchesUp(c)
    PROVE  IInv'
<1>. USE DEF BrokerCatchesUp, Executes, clientVars, historyVars
<1>0. TypeOK /\ Typed /\ Local(c)
  BY TypeIsTyped DEF IInv
<1>1. orphans[c] > 0 /\ orphans[c] \in Nat /\ effects[c] \in Nat
  BY <1>0, CallTypes
<1>2. pc[c] = "done" /\ IsMutation(class[c]) /\ effects[c] = 0 /\ orphans[c] = 1
      /\ result[c] = "AmbiguousMutation"
  BY <1>0, <1>1 DEF Local, Honest
<1>3. TypeOK'
  <2>1. orphans' \in [Calls -> Nat]
    BY <1>0, <1>1 DEF Typed
  <2>2. effects' \in [Calls -> Nat]
    <3>1. effects \in [Calls -> Nat] /\ effects[c] \in Nat
      BY <1>0 DEF Typed
    <3>2. PICK n \in Nat : effects' = [effects EXCEPT ![c] = n] \/ effects' = effects
      BY <3>1
    <3>. QED
      BY <3>1, <3>2
  <2>. QED
    BY <1>0, <2>1, <2>2, TypedIsType DEF Typed
<1>4. Roomy'
  BY DEF IInv, Roomy
<1>5. \A d \in Calls \ {c} : Idles(d)
  BY <1>0 DEF Typed, Idles
<1>6. orphans'[c] = 0 /\ effects'[c] \in 0..1
  BY <1>0, <1>2 DEF Typed
<1>7. Staged(c)' /\ Patient(c)' /\ Charges(c)' /\ Timely(c)' /\ Honest(c)'
  BY <1>0, <1>2, <1>6
     DEF Local, Staged, Patient, Charges, Timely, Honest, Active, Sending
<1>. QED
  BY <1>3, <1>4, <1>5, <1>7, OneCall DEF Local

----------------------------------------------------------------------------
(* The end of an attempt. *)

Ends(c, told) ==
    /\ pc' = [pc EXCEPT ![c] = "done"]
    /\ result' = [result EXCEPT ![c] = told]
    /\ wake' = wake
    /\ IsMutation(class[c]) => told # "none"

Sleeps(c, delay) ==
    /\ ~ IsMutation(class[c]) /\ attempt[c] < MaxAttempts
    /\ clock + delay < deadline[c]
    /\ pc' = [pc EXCEPT ![c] = "backoff"]
    /\ wake' = [wake EXCEPT ![c] = clock + delay]
    /\ result' = result

(* A call is answered, and a mutation with what its outcome allows, or     *)
(* what is no mutation sleeps for at least the Retry-After it was given.   *)
LEMMA ConcludeOutcomes ==
    ASSUME IInv, NEW c \in Calls, pc[c] \in Sending, NEW outcome \in Outcomes,
           Conclude(c, outcome)
    PROVE  \/ \E told \in Outcomes \cup {"AmbiguousMutation"} :
                /\ Ends(c, told)
                /\ IsMutation(class[c]) =>
                    told = IF ambiguous_mutation(outcome) THEN "AmbiguousMutation" ELSE outcome
           \/ \E delay \in Nat :
                Sleeps(c, delay) /\ (outcome = "RateLimited" => retryAfter[c] <= delay)
<1>0. TypeOK /\ Local(c) /\ "none" \notin Outcomes /\ attempt[c] >= 1
  BY DEF IInv, Local, Staged, Active, Sending, Outcomes, Replies
<1>1. CASE via[c] = "authenticate" /\ Login(c, outcome)
  <2>1. ~ IsMutation(class[c])
    BY <1>0, <1>1 DEF Local, Staged
  <2>2. "Refused" \in Outcomes /\ "Ok" \in Outcomes
    BY DEF Outcomes, Replies
  <2>. QED
    BY <1>1, <2>1, <2>2 DEF Login, Finish, Ends
<1>2. CASE Settle(c, outcome)
  <2>1. "TotalTimeout" \in Outcomes
    BY DEF Outcomes
  <2>2. PICK delay \in Nat : /\ delay = retry_delay(c, outcome)
                             /\ outcome = "RateLimited" => retryAfter[c] <= delay
    BY <1>0, DelayIsNatural, CallTypes
  <2>3. CASE ~ MayRetry(c, outcome)
    <3>1. PICK told : /\ told = IF IsMutation(class[c]) /\ ambiguous_mutation(outcome)
                                THEN "AmbiguousMutation" ELSE outcome
                      /\ Finish(c, told)
      BY <1>2, <2>3 DEF Settle
    <3>2. told \in Outcomes \cup {"AmbiguousMutation"} /\ told # "none"
      BY <1>0, <3>1
    <3>. QED
      BY <3>1, <3>2 DEF Finish, Ends
  <2>4. CASE MayRetry(c, outcome) /\ ~ DelayFits(c, delay)
    <3>1. Finish(c, "TotalTimeout") /\ ~ IsMutation(class[c])
      BY <1>2, <2>2, <2>4 DEF Settle, MayRetry
    <3>. QED
      BY <2>1, <3>1 DEF Finish, Ends
  <2>5. CASE MayRetry(c, outcome) /\ DelayFits(c, delay)
    <3>1. Sleeps(c, delay)
      BY <1>2, <2>2, <2>5 DEF Settle, Sleeps, MayRetry, DelayFits
    <3>. QED
      BY <2>2, <3>1
  <2>. QED
    BY <2>3, <2>4, <2>5
<1>. QED
  BY <1>1, <1>2 DEF Conclude

LEMMA AttemptUnchanged ==
    ASSUME NEW c \in Calls, NEW outcome, Conclude(c, outcome)
    PROVE  attempt' = attempt
  BY DEF Conclude, Settle, Login, Finish

LEMMA ConcludeKeepsDeques ==
    ASSUME IInv, NEW c \in Calls, NEW outcome, Conclude(c, outcome)
    PROVE  log' \in [Deque -> Seq(Nat)] /\ authenticated' \in BOOLEAN /\ Roomy'
<1>1. CASE UNCHANGED <<authenticated, log>>
  BY <1>1 DEF IInv, TypeOK, Roomy
<1>2. CASE authenticated' = TRUE /\ log' = [d \in Deque |-> <<>>]
  BY <1>2, LimitAssumption DEF Roomy
<1>. QED
  BY <1>1, <1>2 DEF Conclude, Login

(* Honest survives the end of an attempt: either the answer is the         *)
(* broker's, or nothing is known of the attempt.                           *)
LEMMA ConcludeKeeps ==
    ASSUME IInv, NEW c \in Calls, pc[c] \in Sending, NEW outcome \in Outcomes,
           outcome = reply[c] \/ outcome \notin Replies,
           Conclude(c, outcome)
    PROVE  IInv'
<1>0. TypeOK /\ Typed /\ Local(c) /\ clock \in Nat /\ clock + retryAfter[c] \in Nat
  BY TypeIsTyped, CallTypes DEF IInv
<1>1. /\ clock' = clock /\ attempt' = attempt
      /\ orphans' = Abandoned(c)
      /\ atBroker' = [atBroker EXCEPT ![c] = FALSE]
      /\ reply' = [reply EXCEPT ![c] = "none"]
      /\ retryAfter' = [retryAfter EXCEPT ![c] = 0]
      /\ notBefore' = [notBefore EXCEPT ![c] = IF outcome = "RateLimited"
                                               THEN clock + retryAfter[c] ELSE @]
      /\ UNCHANGED <<class, via, preparable, deadline, effects, wire, charged>>
  BY AttemptUnchanged DEF Conclude
<1>2. log' \in [Deque -> Seq(Nat)] /\ authenticated' \in BOOLEAN /\ Roomy'
  BY ConcludeKeepsDeques
<1>3. /\ orphans' \in [Calls -> Nat] /\ atBroker' \in [Calls -> BOOLEAN]
      /\ reply' \in [Calls -> Replies \cup {"none"}] /\ retryAfter' \in [Calls -> Nat]
      /\ notBefore' \in [Calls -> Nat]
  <2>1. orphans' \in [Calls -> Nat]
    BY <1>0, <1>1 DEF Typed, Abandoned
  <2>2. retryAfter' \in [Calls -> Nat] /\ reply' \in [Calls -> Replies \cup {"none"}]
    BY <1>0, <1>1 DEF Typed
  <2>3. notBefore' \in [Calls -> Nat]
    BY <1>0, <1>1 DEF Typed
  <2>4. atBroker' \in [Calls -> BOOLEAN]
    BY <1>0, <1>1 DEF Typed
  <2>. QED
    BY <2>1, <2>2, <2>3, <2>4
<1>4. /\ atBroker'[c] = FALSE /\ reply'[c] = "none"
      /\ notBefore'[c] = IF outcome = "RateLimited" THEN clock + retryAfter[c] ELSE notBefore[c]
      /\ orphans'[c] = IF atBroker[c] /\ IsMutation(class[c]) THEN orphans[c] + 1 ELSE orphans[c]
      /\ effects'[c] = effects[c] /\ class'[c] = class[c] /\ via'[c] = via[c]
      /\ deadline'[c] = deadline[c] /\ wire'[c] = wire[c] /\ charged'[c] = charged[c]
      /\ attempt'[c] = attempt[c]
  BY <1>0, <1>1 DEF Typed, Abandoned
<1>5. ASSUME NEW d \in Calls \ {c}, pc'[d] = pc[d], result'[d] = result[d], wake'[d] = wake[d]
      PROVE  Idles(d)
  BY <1>0, <1>1, <1>5 DEF Typed, Abandoned, Idles
<1>6. Charges(c)'
  BY <1>0, <1>4 DEF Local, Charges
<1>7. ASSUME NEW told \in Outcomes \cup {"AmbiguousMutation"}, Ends(c, told),
             IsMutation(class[c]) =>
                told = IF ambiguous_mutation(outcome) THEN "AmbiguousMutation" ELSE outcome
      PROVE  IInv'
  <2>1. pc'[c] = "done" /\ result'[c] = told
    BY <1>0, <1>7 DEF Typed, Ends
  <2>2. TypeOK'
    <3>1. pc' \in [Calls -> Phase] /\ wake' \in [Calls -> Nat]
      BY <1>0, <1>7 DEF Typed, Phase, Ends
    <3>2. result' \in [Calls -> Outcomes \cup {"none", "AmbiguousMutation"}]
      BY <1>0, <1>7 DEF Typed, Ends
    <3>. QED
      BY <1>0, <1>1, <1>2, <1>3, <3>1, <3>2, TypedIsType DEF Typed
  <2>3. \A d \in Calls \ {c} : Idles(d)
    BY <1>0, <1>5, <1>7 DEF Typed, Ends
  <2>4. Staged(c)' /\ Patient(c)' /\ Timely(c)'
    BY <1>0, <1>4, <2>1 DEF Local, Staged, Patient, Timely, Active, Sending
  <2>5. Honest(c)'
    <3>. USE CallTypes
    <3>1. CASE ~ IsMutation(class[c])
      BY <1>0, <1>4, <2>1, <3>1 DEF Local, Honest, Sending
    <3>2. CASE IsMutation(class[c]) /\ outcome = reply[c]
      <4>1. outcome \in Replies /\ reply[c] # "none" /\ ~ atBroker[c] /\ orphans[c] = 0
        BY <1>0, <3>2 DEF Local, Honest, Sending, Outcomes, Replies
      <4>2. CASE outcome = "Ok"
        BY <1>0, <1>4, <1>7, <2>1, <3>2, <4>1, <4>2
           DEF Local, Honest, Sending, ambiguous_mutation
      <4>3. CASE outcome \in {"Refused", "RateLimited"}
        BY <1>0, <1>4, <1>7, <2>1, <3>2, <4>1, <4>3
           DEF Local, Honest, Sending, ambiguous_mutation
      <4>4. CASE outcome \in Inconclusive
        <5>1. told = "AmbiguousMutation"
          BY <1>7, <3>2, <4>4 DEF ambiguous_mutation, Inconclusive
        <5>. QED
          BY <1>0, <1>4, <2>1, <3>2, <4>1, <5>1 DEF Local, Honest, Sending
      <4>. QED
        BY <4>1, <4>2, <4>3, <4>4 DEF Replies, Inconclusive
    <3>3. CASE IsMutation(class[c]) /\ outcome \notin Replies
      <4>1. told = "AmbiguousMutation"
        BY <1>7, <3>3 DEF ambiguous_mutation, Outcomes
      <4>2. atBroker[c] => effects[c] = 0
        BY <1>0 DEF Local, Honest, Sending
      <4>. QED
        BY <1>0, <1>4, <2>1, <3>3, <4>1, <4>2 DEF Local, Honest, Sending
    <3>. QED
      BY <3>1, <3>2, <3>3
  <2>. QED
    BY <1>1, <1>2, <1>6, <2>2, <2>3, <2>4, <2>5, OneCall DEF Local
<1>8. ASSUME NEW delay \in Nat, Sleeps(c, delay), outcome = "RateLimited" => retryAfter[c] <= delay
      PROVE  IInv'
  <2>1. /\ pc'[c] = "backoff" /\ wake'[c] = clock + delay /\ result'[c] = result[c]
        /\ clock + delay < deadline[c] /\ ~ IsMutation(class[c]) /\ attempt[c] < MaxAttempts
    BY <1>0, <1>8 DEF Typed, Sleeps
  <2>2. TypeOK'
    <3>1. pc' \in [Calls -> Phase] /\ result' = result
      BY <1>0, <1>8 DEF Typed, Phase, Sleeps
    <3>2. wake' \in [Calls -> Nat]
      <4>1. clock + delay \in Nat /\ wake \in [Calls -> Nat]
        BY <1>0 DEF Typed
      <4>. QED
        BY <1>8, <4>1 DEF Sleeps
    <3>. QED
      BY <1>0, <1>1, <1>2, <1>3, <3>1, <3>2, TypedIsType DEF Typed
  <2>3. \A d \in Calls \ {c} : Idles(d)
    BY <1>0, <1>5, <1>8 DEF Typed, Sleeps
  <2>4. Staged(c)' /\ Honest(c)'
    BY <1>0, <1>4, <2>1 DEF Local, Staged, Honest, Active, Sending
  <2>5. Patient(c)'
    <3>1. notBefore[c] <= clock
      BY <1>0 DEF Local, Patient, Sending
    <3>2. notBefore'[c] <= wake'[c]
      BY <1>0, <1>4, <1>8, <2>1, <3>1, CallTypes
    <3>. QED
      BY <2>1, <3>2 DEF Patient, Sending
  <2>6. Timely(c)'
    BY <1>0, <1>1, <1>4, <2>1, CallTypes DEF Timely, Active, Due, Sending
  <2>. QED
    BY <1>1, <1>2, <1>6, <2>2, <2>3, <2>4, <2>5, <2>6, OneCall DEF Local
<1>. QED
  BY <1>7, <1>8, ConcludeOutcomes

LEMMA NextKeeps == IInv /\ [Next]_vars => IInv'
<1>. SUFFICES ASSUME IInv, [Next]_vars PROVE IInv'
  OBVIOUS
<1>1. CASE UNCHANGED vars
  <2>. USE <1>1 DEF vars, clientVars, brokerVars, historyVars
  <2>1. TypeOK' /\ Roomy'
    BY DEF IInv, TypeOK, Roomy
  <2>2. \A c \in Calls : Idles(c) /\ clock' = clock
    BY DEF Idles
  <2>. QED
    BY <2>1, <2>2, Framed DEF IInv
<1>2. ASSUME NEW c \in Calls, NEW outcome \in {"Transport", "ConnectTimeout"},
             ConnectionFails(c, outcome)
      PROVE  IInv'
  BY <1>2, ConcludeKeeps DEF ConnectionFails, Outcomes, Replies
<1>3. ASSUME NEW c \in Calls, FirstByteExpires(c) \/ TotalExpires(c) PROVE IInv'
  BY <1>3, ConcludeKeeps
     DEF FirstByteExpires, TotalExpires, UnderTotal, Sending, Outcomes, Replies
<1>4. ASSUME NEW c \in Calls, BodyArrives(c) PROVE IInv'
  <2>1. reply[c] \in Replies /\ pc[c] \in Sending
    BY <1>4 DEF IInv, Local, Honest, TypeOK, BodyArrives, Sending
  <2>2. reply[c] \in Outcomes
    BY <2>1 DEF Outcomes
  <2>. QED
    BY <1>4, <2>1, <2>2, ConcludeKeeps DEF BodyArrives
<1>. QED
  BY <1>1, <1>2, <1>3, <1>4, TickKeeps, ExecuteKeeps, AuthenticateKeeps, AdmittedKeeps,
     ThrottledKeeps, GateExpiresKeeps, BackoffEndsKeeps, FirstByteArrivesKeeps,
     BrokerAnswersKeeps, BrokerCatchesUpKeeps DEF Next

(* The strengthening is an invariant. *)
LEMMA Invariance == Spec => []IInv
  BY InitKeeps, NextKeeps, PTL DEF Spec

----------------------------------------------------------------------------
(* Every variable has its type, and no call makes more than MaxAttempts    *)
(* attempts (the loop of execute counts them).                             *)
THEOREM TypeCorrect == Spec => []TypeOK
<1>1. IInv => TypeOK
  BY DEF IInv
<1>. QED
  BY <1>1, Invariance, PTL

(* Every attempt of execute was charged to the rate gate (acquire comes    *)
(* before send_once in each turn of the loop).                             *)
THEOREM AttemptsCharged == Spec => []AttemptsAreCharged
<1>1. IInv => AttemptsAreCharged
  BY DEF IInv, Local, Charges, AttemptsAreCharged
<1>. QED
  BY <1>1, Invariance, PTL

(* No call outlives its total deadline by more than the lateness of two    *)
(* timers (execute bounds the gate, the send and the retry delay by what   *)
(* remains of it).                                                         *)
THEOREM InTime == Spec => []AnswersInTime
<1>1. ASSUME IInv, NEW c \in Calls, pc[c] \notin {"idle", "done"}
      PROVE  clock <= deadline[c] + 2 * Lateness
  <2>1. TypeOK /\ Active(c) /\ Timely(c)
    BY <1>1 DEF IInv, Local, Active
  <2>2. /\ Due(c) \in Int /\ Due(c) <= deadline[c] + Lateness
        /\ clock <= Due(c) + Lateness
    BY <2>1, DueInTime DEF Timely
  <2>. QED
    BY <2>1, <2>2, CallTypes
<1>2. IInv => AnswersInTime
  BY <1>1 DEF AnswersInTime
<1>. QED
  BY <1>2, Invariance, PTL

(* A retry does not reach the wire before the instant the broker's         *)
(* Retry-After named (retry_delay).                                        *)
THEOREM HonouredRetryAfter == Spec => RetryAfterHonoured
<1>1. ASSUME IInv, [Next]_vars, NEW c \in Calls, wire'[c] > wire[c]
      PROVE  clock >= notBefore[c]
  <2>0. TypeOK /\ Patient(c) /\ wire[c] \in Nat
    BY <1>1, CallTypes DEF IInv, Local
  <2>1. wire' # wire
    BY <1>1, <2>0
  <2>2. ASSUME NEW d \in Calls, Put(d) PROVE d = c
    BY <1>1, <2>0, <2>2 DEF Put, TypeOK
  <2>3. ASSUME NEW d \in Calls, Authenticate(d) PROVE clock >= notBefore[c]
    <3>1. d = c /\ pc[d] = "idle"
      BY <2>2, <2>3 DEF Authenticate, Begin
    <3>. QED
      BY <2>0, <3>1, CallTypes DEF Patient
  <2>4. ASSUME NEW d \in Calls, Admitted(d) PROVE clock >= notBefore[c]
    <3>1. Put(d)
      BY <2>1, <2>4 DEF Admitted
    <3>2. d = c /\ pc[d] \in {"gate", "throttled"}
      BY <2>2, <2>4, <3>1 DEF Admitted, AsksGate
    <3>. QED
      BY <2>0, <3>2, CallTypes DEF Patient, Sending
  <2>5. ASSUME NEW d \in Calls, NEW outcome, Conclude(d, outcome) PROVE FALSE
    BY <2>1, <2>5 DEF Conclude
  <2>6. CASE Tick \/ UNCHANGED vars
    BY <2>1, <2>6 DEF Tick, vars, historyVars
  <2>7. ASSUME NEW d \in Calls,
               \/ \E k \in Classes, valid \in BOOLEAN : Execute(d, k, valid)
               \/ Throttled(d) \/ GateExpires(d) \/ BackoffEnds(d) \/ FirstByteArrives(d)
               \/ \E kind \in Replies, after \in RetryAfters : BrokerAnswers(d, kind, after)
               \/ BrokerCatchesUp(d)
        PROVE  FALSE
    BY <2>1, <2>7 DEF Execute, Throttled, GateExpires, BackoffEnds, FirstByteArrives,
                      BrokerAnswers, BrokerCatchesUp, historyVars
  <2>8. ASSUME NEW d \in Calls,
               \/ BodyArrives(d) \/ FirstByteExpires(d) \/ TotalExpires(d)
               \/ \E outcome \in {"Transport", "ConnectTimeout"} : ConnectionFails(d, outcome)
        PROVE  FALSE
    BY <2>5, <2>8 DEF BodyArrives, FirstByteExpires, TotalExpires, ConnectionFails
  <2>. QED
    BY <1>1, <2>3, <2>4, <2>6, <2>7, <2>8 DEF Next
<1>2. IInv /\ [Next]_vars
        => [\A c \in Calls : wire'[c] > wire[c] => clock >= notBefore[c]]_vars
  BY <1>1
<1>. QED
  BY <1>2, Invariance, PTL DEF Spec, RetryAfterHonoured

----------------------------------------------------------------------------
(* What the caller of a mutation is told, told as MutationContract tells   *)
(* it: Ok means executed once, Error means never, and only                 *)
(* AmbiguousMutation leaves it open.                                       *)

Told(c) == IF IsMutation(class[c]) THEN Verdict(c) ELSE "none"

(* A step that changes what at most one call's caller knows. *)
LEMMA NothingTold ==
    ASSUME TypeOK, \A c \in Calls : Told(c)' = Told(c), effects' = effects
    PROVE  UNCHANGED Contract!contractVars
  BY DEF Contract!contractVars, Told

LEMMA AnswerTold ==
    ASSUME IInv, NEW c \in Calls, effects' = effects, Told(c) = "none",
           \A d \in Calls \ {c} : Told(d)' = Told(d),
           Told(c)' = "Ok" => effects[c] = 1,
           Told(c)' = "Error" => effects[c] = 0
    PROVE  [Contract!ContractNext]_(Contract!contractVars)
<1>1. CASE Told(c)' = "none"
  BY <1>1, NothingTold DEF IInv
<1>2. CASE Told(c)' # "none"
  <2>1. PICK what : what = Told(c)'
    OBVIOUS
  <2>2. what \in {"Ok", "Error", "Unknown"}
    BY <1>2, <2>1 DEF Told, Verdict
  <2>3. [d \in Calls |-> Told(d)'] = [[d \in Calls |-> Told(d)] EXCEPT ![c] = what]
    BY <2>1
  <2>4. Contract!Answer(c, what)
    BY <2>1, <2>3 DEF Contract!Answer, Told
  <2>. QED
    BY <2>2, <2>4 DEF Contract!ContractNext
<1>. QED
  BY <1>1, <1>2

(* Whatever the client does with a call that has no answer yet is one      *)
(* answer of the contract, or nothing: the invariant holds after the step. *)
LEMMA ClientTells ==
    ASSUME IInv, IInv', NEW c \in Calls, pc[c] # "done", effects' = effects,
           \A d \in Calls \ {c} : class'[d] = class[d] /\ result'[d] = result[d]
    PROVE  [Contract!ContractNext]_(Contract!contractVars)
<1>1. Staged(c) /\ Staged(c)' /\ Honest(c)'
  BY DEF IInv, Local
<1>2. Told(c) = "none"
  BY <1>1 DEF Staged, Told, Verdict
<1>3. CASE pc'[c] # "done"
  <2>1. Told(c)' = "none"
    BY <1>1, <1>3 DEF Staged, Told, Verdict
  <2>. QED
    BY <1>2, <2>1, AnswerTold DEF Told, Verdict
<1>4. CASE pc'[c] = "done" /\ ~ IsMutation(class'[c])
  <2>1. Told(c)' = "none"
    BY <1>4 DEF Told
  <2>. QED
    BY <1>2, <2>1, AnswerTold DEF Told, Verdict
<1>5. CASE pc'[c] = "done" /\ IsMutation(class'[c])
  <2>1. /\ Told(c)' = "Ok" => effects[c] = 1
        /\ Told(c)' = "Error" => effects[c] = 0
    BY <1>1, <1>5 DEF Honest, Told, Verdict
  <2>. QED
    BY <1>2, <2>1, AnswerTold DEF Told, Verdict
<1>. QED
  BY <1>3, <1>4, <1>5

(* The broker executes a mutation once, before its caller is told or when  *)
(* the caller was told that nothing is known.                              *)
LEMMA BrokerTakesEffect ==
    ASSUME IInv, NEW c \in Calls, Executes(c), UNCHANGED <<class, result>>,
           IsMutation(class[c]) => effects[c] = 0 /\ Told(c) \in {"none", "Unknown"}
    PROVE  [Contract!ContractNext]_(Contract!contractVars)
<1>0. TypeOK /\ \A d \in Calls : Told(d)' = Told(d)
  BY DEF IInv, Told, Verdict
<1>1. CASE ~ IsMutation(class[c])
  <2>1. effects' = effects
    BY <1>0, <1>1 DEF Executes, TypeOK
  <2>. QED
    BY <1>0, <2>1, NothingTold
<1>2. CASE IsMutation(class[c])
  <2>1. effects[c] = 0 /\ effects' = [effects EXCEPT ![c] = 1] /\ Told(c) \in {"none", "Unknown"}
    BY <1>0, <1>2 DEF Executes, TypeOK
  <2>2. Contract!TakeEffect(c)
    BY <1>0, <2>1 DEF Contract!TakeEffect, Told
  <2>. QED
    BY <2>2 DEF Contract!ContractNext
<1>. QED
  BY <1>1, <1>2

LEMMA StepKeepsContract ==
    IInv /\ IInv' /\ [Next]_vars => [Contract!ContractNext]_(Contract!contractVars)
<1>. SUFFICES ASSUME IInv, IInv', [Next]_vars
              PROVE  [Contract!ContractNext]_(Contract!contractVars)
  OBVIOUS
<1>0. TypeOK
  BY DEF IInv
<1>1. ASSUME UNCHANGED <<class, result, effects>>
      PROVE  [Contract!ContractNext]_(Contract!contractVars)
  BY <1>0, <1>1, NothingTold DEF Told, Verdict
<1>2. CASE Tick \/ UNCHANGED vars
  BY <1>1, <1>2 DEF Tick, vars, clientVars, brokerVars
<1>3. ASSUME NEW c \in Calls,
             Authenticate(c) \/ Throttled(c) \/ FirstByteArrives(c)
      PROVE  [Contract!ContractNext]_(Contract!contractVars)
  BY <1>1, <1>3 DEF Authenticate, Throttled, FirstByteArrives, clientVars, brokerVars
<1>4. ASSUME NEW c \in Calls, NEW k \in Classes, NEW valid \in BOOLEAN, Execute(c, k, valid)
      PROVE  [Contract!ContractNext]_(Contract!contractVars)
  BY <1>0, <1>4, ClientTells DEF Execute, Begin, brokerVars, TypeOK
<1>5. ASSUME NEW c \in Calls, Admitted(c) \/ GateExpires(c) \/ BackoffEnds(c)
      PROVE  [Contract!ContractNext]_(Contract!contractVars)
  <2>1. /\ pc[c] # "done" /\ effects' = effects /\ class' = class
        /\ result' = result \/ \E told : result' = [result EXCEPT ![c] = told]
    BY <1>5 DEF Admitted, AsksGate, GateExpires, BackoffEnds, Finish, clientVars, brokerVars
  <2>. QED
    BY <1>0, <2>1, ClientTells DEF TypeOK
<1>6. ASSUME NEW c \in Calls, NEW outcome, pc[c] # "done", Conclude(c, outcome)
      PROVE  [Contract!ContractNext]_(Contract!contractVars)
  <2>1. /\ effects' = effects /\ class' = class
        /\ result' = result \/ \E told : result' = [result EXCEPT ![c] = told]
    BY <1>6 DEF Conclude, Settle, Login, Finish
  <2>. QED
    BY <1>0, <1>6, <2>1, ClientTells DEF TypeOK
<1>7. ASSUME NEW c \in Calls,
             \/ BodyArrives(c) \/ FirstByteExpires(c) \/ TotalExpires(c)
             \/ \E outcome \in {"Transport", "ConnectTimeout"} : ConnectionFails(c, outcome)
      PROVE  [Contract!ContractNext]_(Contract!contractVars)
  BY <1>6, <1>7 DEF BodyArrives, FirstByteExpires, TotalExpires, ConnectionFails,
                    UnderTotal, Sending
<1>8. ASSUME NEW c \in Calls, NEW kind \in Replies, NEW after \in RetryAfters,
             BrokerAnswers(c, kind, after)
      PROVE  [Contract!ContractNext]_(Contract!contractVars)
  <2>1. effects[c] = 0 /\ Told(c) = "none" /\ UNCHANGED <<class, result>>
    BY <1>8 DEF BrokerAnswers, IInv, Local, Staged, Honest, Sending, Told, Verdict, clientVars
  <2>. QED
    BY <1>1, <1>8, <2>1, BrokerTakesEffect DEF BrokerAnswers
<1>9. ASSUME NEW c \in Calls, BrokerCatchesUp(c)
      PROVE  [Contract!ContractNext]_(Contract!contractVars)
  <2>1. Honest(c) /\ orphans[c] > 0 /\ orphans[c] \in Nat /\ effects[c] \in Nat
    BY <1>0, <1>9, CallTypes DEF BrokerCatchesUp, IInv, Local
  <2>2. effects[c] = 0 /\ result[c] = "AmbiguousMutation"
    BY <2>1 DEF Honest
  <2>3. Told(c) \in {"none", "Unknown"} /\ UNCHANGED <<class, result>>
    BY <1>9, <2>2 DEF BrokerCatchesUp, Told, Verdict, clientVars
  <2>. QED
    BY <1>1, <1>9, <2>2, <2>3, BrokerTakesEffect DEF BrokerCatchesUp
<1>. QED
  BY <1>2, <1>3, <1>4, <1>5, <1>7, <1>8, <1>9 DEF Next

(* What the caller of a mutation is told never contradicts what the broker *)
(* did or may still do (ambiguous_mutation, and no retry of a mutation).   *)
THEOREM Honesty == Spec => AnswersAreHonest
<1>1. Init => Contract!ContractInit
  BY DEF Init, Contract!ContractInit, IsMutation
<1>. QED
  BY <1>1, StepKeepsContract, Invariance, PTL
     DEF Spec, AnswersAreHonest, Contract!ContractSpec
============================================================================
