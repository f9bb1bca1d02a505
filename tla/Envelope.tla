------------------------------ MODULE Envelope ------------------------------
(***************************************************************************)
(* How one answer becomes a result: the body is read within a limit        *)
(* (send_once), its envelope is classified (response::decode_for) and, for *)
(* a mutation, the error is weighed once more (ambiguous_mutation); all in *)
(* src/client.rs.  What the broker did and what it says of it can differ   *)
(* in the ways a service and the proxies before it make possible.          *)
(***************************************************************************)
EXTENDS Integers

CONSTANTS None,       \* no answer, no declared length, no result yet
          MaxBytes    \* MAX_RESPONSE_BYTES

VARIABLES mutation,   \* whether the request changes something at the broker
          applied,    \* whether the broker has changed it
          answer,     \* what it, or something on the way, says
          read,       \* bytes of the body read
          result      \* what execute returns

envelopeVars == <<mutation, applied, answer, read, result>>

----------------------------------------------------------------------------
(* Answers.  A body that is no envelope has status 0.                      *)

Body(status, error, success) ==
    [envelope |-> TRUE, status |-> status, error |-> error, success |-> success]
NoEnvelope == [envelope |-> FALSE, status |-> 0, error |-> FALSE, success |-> "null"]

\* Content-Length is not always there.
Answers(https, bodies) ==
    {a \in [http : https, body : bodies, size : 1..(MaxBytes + 1),
            declared : {None} \cup 1..(MaxBytes + 1)] : a.declared \in {None, a.size}}

Refusals == {400, 401, 403, 404, 409, 429}
Failures == {408, 500, 503}

\* Done, with a response of the known shape, another, or none.
Done == Answers({200}, {Body(200, FALSE, s) : s \in {"known", "other", "null"}})

\* Refused, by the HTTP status or only in the envelope, whose status may
\* still be 200, and with a message or without.
Refused ==
    Answers({200}, {Body(200, TRUE, s) : s \in {"known", "null"}})
    \cup
    UNION {Answers({200, code}, {Body(code, e, "null") : e \in BOOLEAN}) : code \in Refusals}

\* Something went wrong on the way of doing it.
Failed ==
    UNION {Answers({200, code}, {Body(code, e, "null") : e \in BOOLEAN}) : code \in Failures}

\* A proxy's page in place of what the broker said.
Replaced == Answers({200, 302, 403, 429, 502}, {NoEnvelope})

----------------------------------------------------------------------------
(* Classification.                                                         *)

Success(http) == http \in 200..299

Effective(a) == IF Success(a.http) THEN a.body.status ELSE a.http

Category(code) ==
    CASE code = 400 -> "Validation"
      [] code = 401 -> "Authentication"
      [] code = 403 -> "PermissionDenied"
      [] code = 404 -> "NotFound"
      [] code = 408 -> "Timeout"
      [] code = 429 -> "RateLimited"
      [] OTHER      -> "Api"

X_Fails(a) == ~ Success(a.http)

Fails(a) == ~ Success(a.http) \/ a.body.status # 200 \/ a.body.error

decode_for(a) ==
    IF a.size > MaxBytes \/ ~ a.body.envelope THEN [is |-> "Protocol", code |-> 0]
    ELSE IF Fails(a) THEN [is |-> Category(Effective(a)), code |-> Effective(a)]
    ELSE CASE a.body.success = "null"  -> [is |-> "Protocol", code |-> 0]
           [] a.body.success = "other" -> [is |-> "Decode", code |-> 0]
           [] a.body.success = "known" -> [is |-> "Ok", code |-> 0]

Unclear(e) ==
    \/ e.is \in {"Transport", "Timeout", "Protocol", "Decode"}
    \/ e.is = "Api" /\ e.code \in 500..599

X_ambiguous_mutation(e) ==
    IF e.is \in {"Transport", "Timeout", "Protocol", "Decode"}
      THEN [is |-> "AmbiguousMutation", code |-> 0]
      ELSE e

ambiguous_mutation(e) == IF Unclear(e) THEN [is |-> "AmbiguousMutation", code |-> 0] ELSE e

Conclude(outcome) == result' = IF mutation THEN ambiguous_mutation(outcome) ELSE outcome

----------------------------------------------------------------------------

Init ==
    /\ mutation \in BOOLEAN
    /\ applied = FALSE
    /\ answer = None
    /\ read = 0
    /\ result = None

Answer(answers, effects) ==
    /\ answer = None
    /\ result = None
    /\ answer' \in answers
    /\ applied' \in effects
    /\ UNCHANGED <<mutation, read, result>>

BrokerDoes == Answer(Done, {TRUE})
BrokerRefuses == Answer(Refused, {FALSE})
BrokerFails == Answer(Failed, BOOLEAN)
ProxyAnswers == Answer(Replaced, BOOLEAN)

\* The connection fails before or within the answer.
ConnectionFails ==
    /\ result = None
    /\ IF answer = None THEN applied' \in BOOLEAN ELSE UNCHANGED applied
    /\ Conclude([is |-> "Transport", code |-> 0])
    /\ UNCHANGED <<mutation, answer, read>>

Receiving == result = None /\ answer # None

\* A length over the limit is believed; without one the bytes are counted.
TooLong == Receiving /\ answer.declared # None /\ answer.declared > MaxBytes

RefuseLength ==
    /\ TooLong
    /\ Conclude([is |-> "Protocol", code |-> 0])
    /\ UNCHANGED <<mutation, applied, answer, read>>

Chunk ==
    /\ Receiving /\ ~ TooLong
    /\ read < answer.size
    /\ IF read + 1 > MaxBytes
         THEN Conclude([is |-> "Protocol", code |-> 0]) /\ UNCHANGED read
         ELSE read' = read + 1 /\ UNCHANGED result
    /\ UNCHANGED <<mutation, applied, answer>>

BodyComplete ==
    /\ Receiving /\ ~ TooLong
    /\ read = answer.size
    /\ Conclude(decode_for(answer))
    /\ UNCHANGED <<mutation, applied, answer, read>>

Next ==
    \/ BrokerDoes \/ BrokerRefuses \/ BrokerFails \/ ProxyAnswers
    \/ ConnectionFails \/ RefuseLength \/ Chunk \/ BodyComplete

Spec == Init /\ [][Next]_envelopeVars

----------------------------------------------------------------------------
(* Properties.                                                             *)

\* A success is the broker's: neither a refusal sent with HTTP 200
\* (src/client.rs:813), nor a proxy's page, nor a body that was cut off is
\* taken for one.
OkMeansApplied == result # None /\ result.is = "Ok" => applied

\* A mutation that comes back with any error but AmbiguousMutation was not
\* made and may be tried again (src/client.rs:620): whatever could have been
\* said of a mutation that was made, in whatever status or with a response
\* that cannot be read, ends as ambiguous.
PlainErrorMeansRefused ==
    mutation /\ result # None /\ result.is \notin {"Ok", "AmbiguousMutation"} => ~ applied
=============================================================================
