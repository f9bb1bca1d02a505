---------------------------- MODULE RestExecute ----------------------------
(***************************************************************************)
(* The REST path of src/client.rs: BreezeClient::execute with its retries, *)
(* deadlines and quota, authenticate, send_once, and the classification of *)
(* what came back, against a broker that can answer, refuse, stall, lose a *)
(* request or execute it after the client has given up.                    *)
(*                                                                         *)
(* One action is one stretch of code between two awaits, so an admission   *)
(* by the rate gate, prepare_request and the first poll of the send are    *)
(* one action.  Module RateLimiter has the acquire loop's own races; here  *)
(* a task that asks the gate gets its answer at once.                      *)
(*                                                                         *)
(* A timer fires at most Lateness ticks after it is due: the environment's *)
(* side of every promise about time.                                       *)
(***************************************************************************)
EXTENDS RateLimit

CONSTANTS Calls,         \* identities of the concurrent calls
          Classes,       \* the request classes they use
          MaxAttempts,   \* RetryPolicy.max_attempts
          BaseDelay,     \* RetryPolicy.base_delay
          MaxDelay,      \* RetryPolicy.max_delay
          FirstByte,     \* Timeouts.first_byte
          Total,         \* Timeouts.total
          RetryAfters,   \* values of the Retry-After header, 0 for none
          Lateness,      \* how late a timer can fire
          MaxStart,      \* bound: no call starts after this instant
          MaxClock       \* bound on the clock

ASSUME CallClassesAssumption == Classes \subseteq RequestClass
ASSUME PolicyAssumption ==
    /\ MaxAttempts \in Nat \ {0}
    /\ {BaseDelay, MaxDelay, FirstByte, Total, Lateness} \subseteq Nat
    /\ RetryAfters \subseteq Nat
\* Arithmetic that no solver knows.
ASSUME PowersAssumption == \A n \in 0..31 : n < MaxAttempts => 2^n \in Nat

VARIABLES clock, log,
          authenticated, \* the client holds a session token
          pc, class, attempt,
          via,           \* "execute" or "authenticate"
          preparable,    \* whether prepare_request will accept the request
          deadline,      \* execution_started + Timeouts.total
          wake,          \* when the timer of the current await is due
          reply,         \* the broker's answer to the current attempt
          retryAfter,    \* the Retry-After of that answer
          atBroker,      \* the current attempt can still be executed
          orphans,       \* abandoned attempts that can still be executed
          result,        \* what the caller was told
          effects,       \* history: executions by the broker
          wire,          \* history: attempts put on the wire
          charged,       \* history: admissions by the rate gate
          notBefore      \* history: when the broker allowed the next attempt

clientVars == <<authenticated, class, via, preparable, deadline>>
brokerVars == <<reply, retryAfter, atBroker, orphans, effects>>
historyVars == <<wire, charged, notBefore>>
vars == <<clock, log, pc, attempt, wake, result, clientVars, brokerVars, historyVars>>

----------------------------------------------------------------------------
(* Outcomes of an attempt.  "Refused" stands for Validation,               *)
(* Authentication, PermissionDenied, NotFound and Api outside 500..599;    *)
(* "Garbled" for Protocol and Decode.                                      *)
Replies == {"Ok", "Refused", "RateLimited", "ServerError", "ServerTimeout", "Garbled"}

Outcomes == Replies \cup {"Transport", "ConnectTimeout", "FirstByteTimeout", "TotalTimeout"}

\* A broker that answers with one of these may have executed the mutation.
Inconclusive == {"ServerError", "ServerTimeout", "Garbled"}

is_retryable(outcome) ==
    outcome \in {"ServerError", "Transport", "RateLimited",
                 "ConnectTimeout", "FirstByteTimeout", "ServerTimeout"}

ambiguous_mutation(outcome) ==
    outcome \in {"Transport", "ConnectTimeout", "FirstByteTimeout", "ServerTimeout",
                 "TotalTimeout", "Garbled", "ServerError"}

\* RetryPolicy::delay: the factor stops growing at 2^31.
backoff(retry) == LET delay == BaseDelay * 2^(IF retry < 31 THEN retry ELSE 31)
                  IN  IF delay < MaxDelay THEN delay ELSE MaxDelay

\* A bug that prefers the policy to the server's request.
retry_delay_IgnoresHeader(c, outcome) == backoff(attempt[c] - 1)

retry_delay(c, outcome) ==
    LET policy == backoff(attempt[c] - 1)
    IN  IF outcome = "RateLimited" /\ retryAfter[c] > policy THEN retryAfter[c] ELSE policy

\* "gate": about to ask the rate gate; "throttled": in acquire's sleep;
\* "sent": awaiting the first byte; "body": reading the body;
\* "backoff": in the sleep before a retry.
Phase == {"idle", "gate", "throttled", "sent", "body", "backoff", "done"}

Sending == {"sent", "body"}

Init ==
    /\ clock = 0
    /\ log = [d \in Deque |-> <<>>]
    /\ authenticated \in BOOLEAN
    /\ pc = [c \in Calls |-> "idle"]
    /\ class = [c \in Calls |-> "Read"]
    /\ via = [c \in Calls |-> "execute"]
    /\ preparable = [c \in Calls |-> TRUE]
    /\ reply = [c \in Calls |-> "none"]
    /\ atBroker = [c \in Calls |-> FALSE]
    /\ result = [c \in Calls |-> "none"]
    /\ attempt = [c \in Calls |-> 0]
    /\ deadline = [c \in Calls |-> 0]
    /\ wake = [c \in Calls |-> 0]
    /\ retryAfter = [c \in Calls |-> 0]
    /\ orphans = [c \in Calls |-> 0]
    /\ effects = [c \in Calls |-> 0]
    /\ wire = [c \in Calls |-> 0]
    /\ charged = [c \in Calls |-> 0]
    /\ notBefore = [c \in Calls |-> 0]

----------------------------------------------------------------------------
(* Time. *)

Earlier(a, b) == IF a < b THEN a ELSE b

Later(a, b) == IF a < b THEN b ELSE a

\* When the total timeout of a send is due: it was armed at the first poll.
SendExpiry(c) == Later(deadline[c], wake[c] - FirstByte)

\* When the timers of the current await next need the task to run.
Due(c) == CASE pc[c] \in {"gate", "backoff"} -> wake[c]
            [] pc[c] = "throttled"           -> Earlier(wake[c], deadline[c])
            [] pc[c] = "sent"                -> Earlier(wake[c], SendExpiry(c))
            [] pc[c] = "body"                -> SendExpiry(c)

Tick ==
    /\ clock < MaxClock
    /\ \A c \in Calls : pc[c] \notin {"idle", "done"} => clock < Due(c) + Lateness
    /\ clock' = clock + 1
    /\ UNCHANGED <<log, pc, attempt, wake, result, clientVars, brokerVars, historyVars>>

----------------------------------------------------------------------------
(* The end of a call.  What it abandons may still be executed. *)

Abandoned(c) == [orphans EXCEPT ![c] = IF atBroker[c] /\ IsMutation(class[c]) THEN @ + 1 ELSE @]

Finish(c, outcome) ==
    /\ pc' = [pc EXCEPT ![c] = "done"]
    /\ result' = [result EXCEPT ![c] = outcome]
    /\ UNCHANGED <<attempt, wake>>

\* A bug that counts the retries instead of the attempts.
MayRetry_OneMore(c, outcome) ==
    /\ attempt[c] <= MaxAttempts
    /\ ~ IsMutation(class[c])
    /\ is_retryable(outcome)

\* A bug that retries whatever failed in a retryable way.
MayRetry_Mutations(c, outcome) == attempt[c] < MaxAttempts /\ is_retryable(outcome)

MayRetry(c, outcome) ==
    /\ attempt[c] < MaxAttempts
    /\ ~ IsMutation(class[c])
    /\ is_retryable(outcome)

\* A bug that sleeps even when the retry cannot be made in time.
DelayFits_Unchecked(c, delay) == TRUE

DelayFits(c, delay) == clock + delay < deadline[c]

(* execute after send_once: answer, or sleep and try again. *)
Settle(c, outcome) ==
    LET delay == retry_delay(c, outcome)
    IN  \/ /\ ~ MayRetry(c, outcome)
           /\ Finish(c, IF IsMutation(class[c]) /\ ambiguous_mutation(outcome)
                        THEN "AmbiguousMutation" ELSE outcome)
        \/ /\ MayRetry(c, outcome)
           /\ ~ DelayFits(c, delay)
           /\ Finish(c, "TotalTimeout")
        \/ /\ MayRetry(c, outcome)
           /\ DelayFits(c, delay)
           /\ pc' = [pc EXCEPT ![c] = "backoff"]
           /\ wake' = [wake EXCEPT ![c] = clock + delay]
           /\ UNCHANGED <<attempt, result>>

(* authenticate after send_once: no retry, no second reading of the error; *)
(* a success without a session token is an authentication error, and one   *)
(* with a token makes a client with a rate gate of its own.                *)
Login(c, outcome) ==
    \/ /\ Finish(c, IF outcome = "Ok" THEN "Refused" ELSE outcome)
       /\ UNCHANGED <<authenticated, log>>
    \/ /\ outcome = "Ok"
       /\ Finish(c, "Ok")
       /\ authenticated' = TRUE
       /\ log' = [d \in Deque |-> <<>>]

(* send_once returned: the attempt is over for the client. *)
Conclude(c, outcome) ==
    /\ \/ /\ via[c] = "execute"
          /\ Settle(c, outcome)
          /\ UNCHANGED <<authenticated, log>>
       \/ /\ via[c] = "authenticate"
          /\ Login(c, outcome)
    /\ orphans' = Abandoned(c)
    /\ atBroker' = [atBroker EXCEPT ![c] = FALSE]
    /\ reply' = [reply EXCEPT ![c] = "none"]
    /\ retryAfter' = [retryAfter EXCEPT ![c] = 0]
    /\ notBefore' = [notBefore EXCEPT ![c] = IF outcome = "RateLimited"
                                             THEN clock + retryAfter[c] ELSE @]
    /\ UNCHANGED <<clock, class, via, preparable, deadline, effects, wire, charged>>

----------------------------------------------------------------------------
(* The calls. *)

Begin(c, entry, valid) ==
    /\ pc[c] = "idle"
    /\ clock <= MaxStart
    /\ via' = [via EXCEPT ![c] = entry]
    /\ preparable' = [preparable EXCEPT ![c] = valid]
    /\ deadline' = [deadline EXCEPT ![c] = clock + Total]
    /\ attempt' = [attempt EXCEPT ![c] = 1]

Put(c) ==
    /\ wire' = [wire EXCEPT ![c] = @ + 1]
    /\ atBroker' = [atBroker EXCEPT ![c] = TRUE]
    /\ pc' = [pc EXCEPT ![c] = "sent"]
    /\ wake' = [wake EXCEPT ![c] = clock + FirstByte]

(* execute is called; a zero total deadline has expired at once. *)
Execute(c, k, valid) ==
    /\ authenticated
    /\ Begin(c, "execute", valid)
    /\ class' = [class EXCEPT ![c] = k]
    /\ wake' = [wake EXCEPT ![c] = clock]
    /\ IF Total = 0 THEN /\ pc' = [pc EXCEPT ![c] = "done"]
                         /\ result' = [result EXCEPT ![c] = "TotalTimeout"]
                    ELSE /\ pc' = [pc EXCEPT ![c] = "gate"]
                         /\ UNCHANGED result
    /\ UNCHANGED <<clock, log, authenticated, brokerVars, historyVars>>

(* authenticate is called: it prepares (which cannot fail for this         *)
(* request) and sends, without asking the gate.                            *)
Authenticate(c) ==
    /\ ~ authenticated
    /\ \A other \in Calls : pc[other] \in {"idle", "done"}
    /\ Begin(c, "authenticate", TRUE)
    /\ Put(c)
    /\ UNCHANGED <<clock, log, authenticated, class, result, reply, retryAfter, orphans,
                   effects, charged, notBefore>>

AsksGate(c) == pc[c] = "gate" \/ (pc[c] = "throttled" /\ clock >= wake[c])

(* The gate admits the attempt, which is charged, prepared and sent (even  *)
(* when the deadline passed while it waited: the send is polled once).     *)
Admitted(c) ==
    LET decision == TryAcquireAt(log, class[c], clock)
    IN  /\ AsksGate(c)
        /\ decision.wait = 0
        /\ log' = decision.log
        /\ charged' = [charged EXCEPT ![c] = @ + 1]
        /\ \/ /\ preparable[c]
              /\ Put(c)
              /\ UNCHANGED <<attempt, result>>
           \/ /\ ~ preparable[c]
              /\ Finish(c, "Refused")
              /\ UNCHANGED <<wire, atBroker>>
        /\ UNCHANGED <<clock, clientVars, reply, retryAfter, orphans, effects, notBefore>>

Throttled(c) ==
    LET decision == TryAcquireAt(log, class[c], clock)
    IN  /\ AsksGate(c)
        /\ decision.wait > 0
        /\ log' = decision.log
        /\ pc' = [pc EXCEPT ![c] = "throttled"]
        /\ wake' = [wake EXCEPT ![c] = clock + decision.wait]
        /\ UNCHANGED <<clock, attempt, result, clientVars, brokerVars, historyVars>>

(* timeout(remaining, acquire) fires while the task sleeps in acquire. *)
GateExpires(c) ==
    /\ pc[c] = "throttled"
    /\ clock < wake[c]
    /\ clock >= deadline[c]
    /\ Finish(c, "TotalTimeout")
    /\ UNCHANGED <<clock, log, clientVars, brokerVars, historyVars>>

\* A bug that repeats the send without asking the gate again.
BackoffEnds_Ungated(c) ==
    /\ pc[c] = "backoff"
    /\ clock >= wake[c]
    /\ attempt' = [attempt EXCEPT ![c] = @ + 1]
    /\ Put(c)
    /\ UNCHANGED <<clock, log, result, clientVars, reply, retryAfter, orphans, effects,
                   charged, notBefore>>

(* The retry's sleep is over: the loop starts again. *)
BackoffEnds(c) ==
    /\ pc[c] = "backoff"
    /\ clock >= wake[c]
    /\ attempt' = [attempt EXCEPT ![c] = @ + 1]
    /\ IF clock < deadline[c]
       THEN /\ pc' = [pc EXCEPT ![c] = "gate"]
            /\ wake' = [wake EXCEPT ![c] = clock]
            /\ UNCHANGED result
       ELSE /\ pc' = [pc EXCEPT ![c] = "done"]
            /\ result' = [result EXCEPT ![c] = "TotalTimeout"]
            /\ UNCHANGED wake
    /\ UNCHANGED <<clock, log, clientVars, brokerVars, historyVars>>

----------------------------------------------------------------------------
(* What can happen to an attempt on the wire. *)

(* The response head arrives. *)
FirstByteArrives(c) ==
    /\ pc[c] = "sent"
    /\ reply[c] # "none"
    /\ pc' = [pc EXCEPT ![c] = "body"]
    /\ UNCHANGED <<clock, log, attempt, wake, result, clientVars, brokerVars, historyVars>>

(* The rest arrives and is decoded. *)
BodyArrives(c) ==
    /\ pc[c] = "body"
    /\ Conclude(c, reply[c])

(* The connection breaks, or reqwest's own (connect) timeout fires. *)
ConnectionFails(c, outcome) ==
    /\ pc[c] \in Sending
    /\ Conclude(c, outcome)

FirstByteExpires(c) ==
    /\ pc[c] = "sent"
    /\ clock >= wake[c]
    /\ Conclude(c, "FirstByteTimeout")

\* A bug that leaves the reading of the body outside the total timeout.
UnderTotal_HeadOnly(c) == pc[c] = "sent"

UnderTotal(c) == pc[c] \in Sending

TotalExpires(c) ==
    /\ UnderTotal(c)
    /\ clock >= deadline[c]
    /\ Conclude(c, "TotalTimeout")

----------------------------------------------------------------------------
(* The broker. *)

Executes(c) == effects' = [effects EXCEPT ![c] = IF IsMutation(class[c]) THEN @ + 1 ELSE @]

(* It answers the current attempt.  "Ok" means executed, "Refused" and     *)
(* "RateLimited" mean not executed, the rest means nothing.                *)
BrokerAnswers(c, kind, after) ==
    /\ pc[c] = "sent"
    /\ atBroker[c]
    /\ atBroker' = [atBroker EXCEPT ![c] = FALSE]
    /\ reply' = [reply EXCEPT ![c] = kind]
    /\ retryAfter' = [retryAfter EXCEPT ![c] = IF kind = "RateLimited" THEN after ELSE 0]
    /\ \/ kind \in {"Ok"} \cup Inconclusive /\ Executes(c)
       \/ kind # "Ok" /\ UNCHANGED effects
    /\ UNCHANGED <<clock, log, pc, attempt, wake, result, clientVars, orphans, historyVars>>

(* It gets to a request nobody waits for any more, or never will. *)
BrokerCatchesUp(c) ==
    /\ orphans[c] > 0
    /\ orphans' = [orphans EXCEPT ![c] = @ - 1]
    /\ Executes(c) \/ UNCHANGED effects
    /\ UNCHANGED <<clock, log, pc, attempt, wake, result, clientVars,
                   reply, retryAfter, atBroker, historyVars>>

----------------------------------------------------------------------------
ClientStep(c) ==
    \/ Admitted(c)
    \/ Throttled(c)
    \/ GateExpires(c)
    \/ BackoffEnds(c)
    \/ FirstByteExpires(c)
    \/ TotalExpires(c)

Next ==
    \/ Tick
    \/ \E c \in Calls :
        \/ \E k \in Classes, valid \in BOOLEAN : Execute(c, k, valid)
        \/ Authenticate(c)
        \/ Admitted(c)
        \/ Throttled(c)
        \/ GateExpires(c)
        \/ BackoffEnds(c)
        \/ FirstByteArrives(c)
        \/ BodyArrives(c)
        \/ \E outcome \in {"Transport", "ConnectTimeout"} : ConnectionFails(c, outcome)
        \/ FirstByteExpires(c)
        \/ TotalExpires(c)
        \/ \E kind \in Replies, after \in RetryAfters : BrokerAnswers(c, kind, after)
        \/ BrokerCatchesUp(c)

Spec == Init /\ [][Next]_vars

(* Timers fire and tasks run; the broker and the network owe nothing. *)
FairSpec == Spec /\ WF_vars(Tick) /\ \A c \in Calls : WF_vars(ClientStep(c))

----------------------------------------------------------------------------
(* Every variable has its type; no call makes more than MaxAttempts.       *)
TypeOK ==
    /\ clock \in Nat
    /\ log \in [Deque -> Seq(Nat)]
    /\ authenticated \in BOOLEAN
    /\ pc \in [Calls -> Phase]
    /\ class \in [Calls -> RequestClass]
    /\ via \in [Calls -> {"execute", "authenticate"}]
    /\ preparable \in [Calls -> BOOLEAN]
    /\ atBroker \in [Calls -> BOOLEAN]
    /\ reply \in [Calls -> Replies \cup {"none"}]
    /\ result \in [Calls -> Outcomes \cup {"none", "AmbiguousMutation"}]
    /\ attempt \in [Calls -> 0..MaxAttempts]
    /\ \A f \in {deadline, wake, retryAfter, orphans, effects, wire, charged, notBefore} :
        f \in [Calls -> Nat]

(* What the caller of a mutation is told never contradicts what the broker *)
(* did or may still do: see MutationContract.                              *)
Verdict(c) == CASE result[c] = "none"              -> "none"
                [] result[c] = "Ok"                -> "Ok"
                [] result[c] = "AmbiguousMutation" -> "Unknown"
                [] OTHER                           -> "Error"

Contract == INSTANCE MutationContract
              WITH Mutations <- Calls,
                   answer <- [c \in Calls |-> IF IsMutation(class[c]) THEN Verdict(c) ELSE "none"]

AnswersAreHonest == Contract!ContractSpec

(* A retry never reaches the wire before the instant the broker asked for. *)
RetryAfterHonoured == [][\A c \in Calls : wire'[c] > wire[c] => clock >= notBefore[c]]_vars

(* Every attempt of execute, first or repeated, was charged to the gate;   *)
(* the login of authenticate is not (src/client.rs:283).                   *)
AttemptsAreCharged == \A c \in Calls : via[c] = "execute" => wire[c] <= charged[c]

(* The total deadline encloses everything a call does, up to the lateness  *)
(* of the (at most two) timers that can fire one after the other.          *)
AnswersInTime ==
    \A c \in Calls : pc[c] \notin {"idle", "done"} => clock <= deadline[c] + 2 * Lateness

(* Every call is answered, whatever the broker and the network do.         *)
EveryCallAnswers == \A c \in Calls : pc[c] \in Phase \ {"idle", "done"} ~> pc[c] = "done"

(* docs/ARCHITECTURE.md: "Local validation occurs before quota is          *)
(* consumed": a request that fails locally has consumed none.              *)
ValidationBeforeQuota == \A c \in Calls : ~ preparable[c] => charged[c] = 0
============================================================================
