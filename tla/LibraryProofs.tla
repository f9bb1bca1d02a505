--------------------------- MODULE LibraryProofs ---------------------------
(***************************************************************************)
(* The parts of the library, for every value of their constants.  Each     *)
(* part has a section: what it promises is proved of its own Spec.  The    *)
(* last section shows that the composition implements the specification    *)
(* of every part, so that what holds of the parts holds of it.             *)
(***************************************************************************)
EXTENDS Library, FiniteSetTheorems, SequenceTheorems, TLAPS

----------------------------------------------------------------------------
(* SecurityMaster: for all files and rows, in any number, lookup has the   *)
(* last row of a key, the diagnostics add up, and files share no key.      *)
(*                                                                         *)
(* The argument: a row is the only step that touches records, duplicates   *)
(* or accepted, and it touches all three.  The kinds of files whose rows   *)
(* are kept have an exchange each, and the exchange is part of the key     *)
(* (Filed).                                                                *)

(* The instances' operators on finite sets are the library's. *)
LEMMA SameFinite ==
    \A S : /\ (SM!IsFiniteSet(S) <=> IsFiniteSet(S)) /\ SM!Cardinality(S) = Cardinality(S)
           /\ FS!Cardinality(S) = Cardinality(S)
  BY DEF IsFiniteSet, SM!IsFiniteSet, Cardinality, SM!Cardinality, FS!Cardinality

Kept == SM!MasterFileKind \ {"MutualFunds"}

MasterTyped ==
    /\ reading \in SM!MasterFileKind \cup {Absent}
    /\ duplicates \in Nat
    /\ \E S : accepted \in Seq(S)

\* An accepted row is of the exchange of its file.
Filed ==
    \A i \in DOMAIN accepted :
        /\ accepted[i].file \in Kept
        /\ accepted[i].record.key.exchange = SM!ExchangeOf(accepted[i].file)

MasterIInv == MasterTyped /\ Filed /\ SM!LastRowWins /\ SM!CountsReconcile

(* Kinds of files have an exchange each (src/instruments.rs:257). *)
LEMMA AnExchangeEach ==
    ASSUME NEW a \in Kept, NEW b \in Kept, SM!ExchangeOf(a) = SM!ExchangeOf(b)
    PROVE  a = b
  BY DEF Kept, SM!MasterFileKind, SM!ExchangeOf

LEMMA FiledApart == Filed => SM!FilesDoNotOverlap
<1>. SUFFICES ASSUME Filed,
                     NEW i \in DOMAIN accepted, NEW j \in DOMAIN accepted,
                     accepted[i].record.key = accepted[j].record.key
              PROVE  accepted[i].file = accepted[j].file
  BY DEF SM!FilesDoNotOverlap
<1>1. SM!ExchangeOf(accepted[i].file) = SM!ExchangeOf(accepted[j].file)
  BY DEF Filed
<1>. QED
  BY <1>1, AnExchangeEach DEF Filed

(* What a row leaves alone. *)
LEMMA Unmoved ==
    ASSUME MasterIInv, UNCHANGED <<records, duplicates, accepted>>,
           reading' \in SM!MasterFileKind \cup {Absent}
    PROVE  MasterIInv'
<1>1. MasterTyped' /\ Filed'
  BY DEF MasterIInv, MasterTyped, Filed
<1>2. SM!LastRowWins'
  BY DEF MasterIInv, SM!LastRowWins, SM!Keys
<1>3. SM!CountsReconcile'
  BY DEF MasterIInv, SM!CountsReconcile, SM!Keys
<1>. QED
  BY <1>1, <1>2, <1>3 DEF MasterIInv

(* The step that moves them. *)
LEMMA Inserted ==
    ASSUME MasterIInv, NEW row, SM!InsertRow(row)
    PROVE  MasterIInv'
<1>. DEFINE record == SM!parse_record(reading, row)
            entry  == [record |-> record, file |-> reading]
<1>0. /\ reading \in Kept /\ reading' = reading
      /\ accepted' = Append(accepted, entry)
      /\ SM!Keys' = SM!Keys \cup {record.key}
      /\ \A k \in SM!Keys' : records'[k] = IF k = record.key THEN record ELSE records[k]
      /\ duplicates' = IF record.key \in SM!Keys THEN duplicates + 1 ELSE duplicates
  BY DEF MasterIInv, MasterTyped, SM!InsertRow, Kept, SM!Keys, SM!fileVars
<1>1. PICK S : accepted \in Seq(S) /\ entry \in S
  <2>1. PICK T : accepted \in Seq(T)
    BY DEF MasterIInv, MasterTyped
  <2>2. accepted \in Seq(T \cup {entry})
    BY <2>1
  <2>. QED
    BY <2>2
<1>. HIDE DEF entry
<1>2. /\ Len(accepted) \in Nat
      /\ DOMAIN accepted = 1..Len(accepted)
      /\ DOMAIN accepted' = 1..(Len(accepted) + 1)
      /\ Len(accepted') = Len(accepted) + 1
      /\ accepted'[Len(accepted) + 1] = entry
      /\ \A i \in 1..Len(accepted) : accepted'[i] = accepted[i]
      /\ accepted' \in Seq(S)
  BY <1>0, <1>1
<1>3. entry.record = record /\ entry.file = reading /\ record.key.exchange = SM!ExchangeOf(reading)
  BY DEF entry, SM!parse_record, SM!InstrumentKey
<1>. HIDE DEF record
<1>4. MasterTyped'
  BY <1>0, <1>2 DEF MasterTyped, MasterIInv, Kept
<1>5. Filed'
  <2>. SUFFICES ASSUME NEW i \in DOMAIN accepted'
                PROVE  /\ accepted'[i].file \in Kept
                       /\ accepted'[i].record.key.exchange = SM!ExchangeOf(accepted'[i].file)
    BY DEF Filed
  <2>1. CASE i = Len(accepted) + 1
    BY <2>1, <1>0, <1>2, <1>3
  <2>2. CASE i \in DOMAIN accepted
    BY <2>2, <1>2 DEF MasterIInv, Filed
  <2>. QED
    BY <2>1, <2>2, <1>2
<1>6. SM!LastRowWins'
  <2>1. ASSUME NEW i \in DOMAIN accepted'
        PROVE  accepted'[i].record.key \in SM!Keys'
    <3>1. CASE i = Len(accepted) + 1
      BY <3>1, <1>0, <1>2, <1>3
    <3>2. CASE i \in DOMAIN accepted
      BY <3>2, <1>0, <1>2 DEF MasterIInv, SM!LastRowWins
    <3>. QED
      BY <3>1, <3>2, <1>2
  <2>2. ASSUME NEW k \in SM!Keys'
        PROVE  \E i \in DOMAIN accepted' :
                /\ records'[k] = accepted'[i].record /\ accepted'[i].record.key = k
                /\ \A j \in DOMAIN accepted' : i < j => accepted'[j].record.key # k
    <3>1. CASE k = record.key
      <4>1. Len(accepted) + 1 \in DOMAIN accepted'
        BY <1>2
      <4>2. \A j \in DOMAIN accepted' : ~ (Len(accepted) + 1 < j)
        BY <1>2
      <4>3. /\ records'[k] = accepted'[Len(accepted) + 1].record
            /\ accepted'[Len(accepted) + 1].record.key = k
        BY <3>1, <1>0, <1>2, <1>3
      <4>. QED
        BY <4>1, <4>2, <4>3
    <3>2. CASE k # record.key
      <4>1. k \in SM!Keys /\ records'[k] = records[k]
        BY <3>2, <1>0
      <4>2. PICK i \in DOMAIN accepted :
              /\ records[k] = accepted[i].record /\ accepted[i].record.key = k
              /\ \A j \in DOMAIN accepted : i < j => accepted[j].record.key # k
        BY <4>1 DEF MasterIInv, SM!LastRowWins
      <4>3. i \in DOMAIN accepted' /\ accepted'[i] = accepted[i]
        BY <1>2
      <4>4. ASSUME NEW j \in DOMAIN accepted', i < j
            PROVE  accepted'[j].record.key # k
        <5>1. CASE j = Len(accepted) + 1
          BY <5>1, <1>2, <1>3, <3>2
        <5>2. CASE j \in DOMAIN accepted
          BY <5>2, <4>2, <4>4, <1>2
        <5>. QED
          BY <5>1, <5>2, <1>2
      <4>. QED
        BY <4>1, <4>2, <4>3, <4>4
    <3>. QED
      BY <3>1, <3>2
  <2>. QED
    BY <2>1, <2>2 DEF SM!LastRowWins
<1>7. SM!CountsReconcile'
  <2>1. /\ IsFiniteSet(SM!Keys) /\ Cardinality(SM!Keys) \in Nat
        /\ Cardinality(SM!Keys) + duplicates = Len(accepted) /\ duplicates \in Nat
    BY SameFinite, FS_CardinalityType DEF MasterIInv, SM!CountsReconcile, MasterTyped
  <2>2. /\ IsFiniteSet(SM!Keys')
        /\ Cardinality(SM!Keys') = IF record.key \in SM!Keys THEN Cardinality(SM!Keys)
                                                       ELSE Cardinality(SM!Keys) + 1
    BY <2>1, <1>0, FS_AddElement
  <2>3. Cardinality(SM!Keys') + duplicates' = Len(accepted) + 1
    BY <2>1, <2>2, <1>0, <1>2
  <2>. QED
    BY <2>2, <2>3, <1>2, SameFinite DEF SM!CountsReconcile
<1>. QED
  BY <1>4, <1>5, <1>6, <1>7 DEF MasterIInv

LEMMA MasterInit == SM!Init => MasterIInv
<1>. SUFFICES ASSUME SM!Init PROVE MasterIInv
  OBVIOUS
<1>1. MasterTyped /\ Filed
  BY DEF SM!Init, MasterTyped, Filed
<1>2. SM!Keys = {} /\ Len(accepted) = 0 /\ DOMAIN accepted = {}
  BY DEF SM!Init, SM!Keys
<1>3. SM!LastRowWins
  BY <1>2 DEF SM!LastRowWins
<1>4. SM!CountsReconcile
  BY <1>2, SameFinite, FS_EmptySet DEF SM!CountsReconcile, SM!Init
<1>. QED
  BY <1>1, <1>3, <1>4 DEF MasterIInv

LEMMA MasterNext == MasterIInv /\ [SM!Next]_SM!masterVars => MasterIInv'
<1>. SUFFICES ASSUME MasterIInv, [SM!Next]_SM!masterVars PROVE MasterIInv'
  OBVIOUS
<1>0. reading \in SM!MasterFileKind \cup {Absent}
  BY DEF MasterIInv, MasterTyped
<1>1. ASSUME NEW kind \in SM!MasterFileKind, NEW columns, SM!OpenFile(kind, columns)
      PROVE  MasterIInv'
  BY <1>1, Unmoved DEF SM!OpenFile, SM!countVars
<1>2. ASSUME NEW row, SM!SkipRow(row) PROVE MasterIInv'
  BY <1>0, <1>2, Unmoved DEF SM!SkipRow, SM!fileVars
<1>3. ASSUME NEW row, SM!MalformedRow(row) PROVE MasterIInv'
  BY <1>0, <1>3, Unmoved DEF SM!MalformedRow, SM!fileVars
<1>4. ASSUME NEW row, SM!InsertRow(row) PROVE MasterIInv'
  BY <1>4, Inserted
<1>5. CASE SM!BreakOff
  BY <1>5, Unmoved DEF SM!BreakOff, SM!countVars
<1>6. CASE SM!FinishFile
  BY <1>6, Unmoved DEF SM!FinishFile, SM!countVars
<1>7. CASE UNCHANGED SM!masterVars
  BY <1>0, <1>7, Unmoved DEF SM!masterVars, SM!countVars, SM!fileVars
<1>. QED
  BY <1>1, <1>2, <1>3, <1>4, <1>5, <1>6, <1>7 DEF SM!Next, SM!ReadRow

LEMMA MasterInvariance == SM!Spec => []MasterIInv
  BY MasterInit, MasterNext, PTL DEF SM!Spec

----------------------------------------------------------------------------

(* lookup answers with the last row accepted of a key, and with nothing    *)
(* that was not accepted, for all files however they end                   *)
(* (src/instruments.rs:187).                                               *)
THEOREM LookupHasTheLast == SM!Spec => []SM!LastRowWins
<1>1. MasterIInv => SM!LastRowWins
  BY DEF MasterIInv
<1>. QED
  BY MasterInvariance, <1>1, PTL

(* len() and the count of duplicates account for every accepted row        *)
(* (src/instruments.rs:188).                                               *)
THEOREM DiagnosticsAddUp == SM!Spec => []SM!CountsReconcile
<1>1. MasterIInv => SM!CountsReconcile
  BY DEF MasterIInv
<1>. QED
  BY MasterInvariance, <1>1, PTL

(* No two kinds of files have rows of one key (src/instruments.rs:257).    *)
THEOREM FilesApart == SM!Spec => []SM!FilesDoNotOverlap
<1>1. MasterIInv => SM!FilesDoNotOverlap
  BY FiledApart DEF MasterIInv
<1>. QED
  BY MasterInvariance, <1>1, PTL

----------------------------------------------------------------------------
(* Envelope: for every limit of the body, a success is the broker's, and a *)
(* plain error of a mutation means that it was not made.                   *)
(*                                                                         *)
(* The argument: what is answered tells what was done, as far as anything  *)
(* tells (Said); and of each kind of answer decode_for makes only results  *)
(* that agree with it, however long the body is.                           *)

\* What is known of the broker's deed once there is an answer.
Said ==
    \/ answer = None
    \/ answer \in EN!Done /\ applied
    \/ answer \in EN!Refused /\ ~ applied
    \/ answer \in EN!Failed
    \/ answer \in EN!Replaced

AnswerIInv == Said /\ EN!OkMeansApplied /\ EN!PlainErrorMeansRefused

----------------------------------------------------------------------------
(* What decode_for makes of each kind of answer (src/client.rs:800).       *)

(* A deed that was done is not denied. *)
LEMMA DoneIsNotDenied ==
    ASSUME NEW a \in EN!Done
    PROVE  EN!decode_for(a).is \in {"Ok", "Protocol", "Decode"}
<1>1. /\ a.http = 200 /\ a.body.envelope = TRUE
      /\ a.body.status = 200 /\ a.body.error = FALSE
  BY DEF EN!Done, EN!Answers, EN!Body
<1>2. EN!Success(a.http)
  BY <1>1 DEF EN!Success
<1>3. ~ EN!Fails(a)
  BY <1>1, <1>2, Zenon DEF EN!Fails
<1>4. a.body.success \in {"known", "other", "null"}
  BY DEF EN!Done, EN!Answers, EN!Body
<1>. QED
  BY <1>1, <1>3, <1>4 DEF EN!decode_for

(* A refusal is not a success. *)
LEMMA RefusalIsNoSuccess ==
    ASSUME NEW a \in EN!Refused
    PROVE  EN!decode_for(a).is # "Ok"
<1>1. a.body.envelope = TRUE /\ (a.body.status # 200 \/ a.body.error = TRUE)
  <2>1. ASSUME NEW code \in EN!Refusals,
               a \in EN!Answers({200, code}, {EN!Body(code, e, "null") : e \in BOOLEAN})
        PROVE  a.body.envelope = TRUE /\ a.body.status # 200
    BY <2>1 DEF EN!Answers, EN!Body, EN!Refusals
  <2>2. ASSUME a \in EN!Answers({200}, {EN!Body(200, TRUE, s) : s \in {"known", "null"}})
        PROVE  a.body.envelope = TRUE /\ a.body.error = TRUE
    BY <2>2 DEF EN!Answers, EN!Body
  <2>3. CASE a \in EN!Answers({200}, {EN!Body(200, TRUE, s) : s \in {"known", "null"}})
    BY <2>2, <2>3
  <2>4. CASE a \in UNION {EN!Answers({200, code}, {EN!Body(code, e, "null") : e \in BOOLEAN})
                            : code \in EN!Refusals}
    <3>1. PICK code \in EN!Refusals :
            a \in EN!Answers({200, code}, {EN!Body(code, e, "null") : e \in BOOLEAN})
      BY <2>4, Zenon
    <3>. QED
      BY <2>1, <3>1
  <2>. QED
    BY <2>3, <2>4, Zenon DEF EN!Refused
<1>2. EN!Fails(a)
  BY <1>1, Zenon DEF EN!Fails
<1>. QED
  BY <1>1, <1>2 DEF EN!decode_for, EN!Category

(* A failure is no success, and unclear. *)
LEMMA FailureIsUnclear ==
    ASSUME NEW a \in EN!Failed
    PROVE  EN!decode_for(a).is # "Ok" /\ EN!Unclear(EN!decode_for(a))
<1>1. /\ a.body.envelope = TRUE
      /\ a.body.status \in EN!Failures
      /\ a.http = 200 \/ a.http = a.body.status
  BY DEF EN!Failed, EN!Answers, EN!Body
<1>2. EN!Fails(a)
  <2>1. a.body.status # 200
    BY <1>1 DEF EN!Failures
  <2>. QED
    BY <2>1, Zenon DEF EN!Fails
<1>3. EN!Effective(a) \in EN!Failures
  BY <1>1 DEF EN!Effective, EN!Success, EN!Failures
<1>4. \/ EN!decode_for(a) = [is |-> "Protocol", code |-> 0]
      \/ EN!decode_for(a) = [is |-> EN!Category(EN!Effective(a)), code |-> EN!Effective(a)]
  BY <1>1, <1>2 DEF EN!decode_for
<1>5. EN!Category(408) = "Timeout" /\ EN!Category(500) = "Api" /\ EN!Category(503) = "Api"
  BY DEF EN!Category
<1>. QED
  BY <1>3, <1>4, <1>5 DEF EN!Unclear, EN!Failures

(* What is no envelope is unclear. *)
LEMMA ReplacementIsUnclear ==
    ASSUME NEW a \in EN!Replaced
    PROVE  EN!decode_for(a).is = "Protocol"
<1>1. a.body.envelope = FALSE
  BY DEF EN!Replaced, EN!Answers, EN!NoEnvelope
<1>. QED
  BY <1>1 DEF EN!decode_for

(* So the answer and the result agree. *)
LEMMA Agreement ==
    ASSUME Said, answer # None
    PROVE  LET e == EN!decode_for(answer) IN
           /\ e.is = "Ok" => applied
           /\ e.is # "Ok" /\ ~ EN!Unclear(e) => ~ applied
<1>1. CASE answer \in EN!Done /\ applied
  BY <1>1, DoneIsNotDenied DEF EN!Unclear
<1>2. CASE answer \in EN!Refused /\ ~ applied
  BY <1>2, RefusalIsNoSuccess
<1>3. CASE answer \in EN!Failed
  BY <1>3, FailureIsUnclear
<1>4. CASE answer \in EN!Replaced
  BY <1>4, ReplacementIsUnclear DEF EN!Unclear
<1>. QED
  BY <1>1, <1>2, <1>3, <1>4 DEF Said

----------------------------------------------------------------------------

(* A result that is in order: of a mutation the error is weighed again. *)
LEMMA Concluded ==
    ASSUME NEW e, EN!Conclude(e), UNCHANGED <<mutation, applied>>,
           e.is = "Ok" => applied,
           e.is # "Ok" /\ ~ EN!Unclear(e) => ~ applied
    PROVE  EN!OkMeansApplied' /\ EN!PlainErrorMeansRefused'
<1>1. EN!ambiguous_mutation(e).is = "Ok" => e.is = "Ok"
  BY DEF EN!ambiguous_mutation
<1>2. EN!ambiguous_mutation(e).is \notin {"Ok", "AmbiguousMutation"}
        => e.is # "Ok" /\ ~ EN!Unclear(e)
  BY DEF EN!ambiguous_mutation
<1>. QED
  BY <1>1, <1>2 DEF EN!Conclude, EN!OkMeansApplied, EN!PlainErrorMeansRefused

(* Where nothing is concluded there is no result yet. *)
LEMMA Unconcluded ==
    ASSUME result' = result, result = None
    PROVE  EN!OkMeansApplied' /\ EN!PlainErrorMeansRefused'
  BY DEF EN!OkMeansApplied, EN!PlainErrorMeansRefused

LEMMA AnswerInit == EN!Init => AnswerIInv
  BY DEF EN!Init, AnswerIInv, Said, EN!OkMeansApplied, EN!PlainErrorMeansRefused

LEMMA AnswerNext == AnswerIInv /\ [EN!Next]_EN!envelopeVars => AnswerIInv'
<1>. SUFFICES ASSUME AnswerIInv, [EN!Next]_EN!envelopeVars PROVE AnswerIInv'
  OBVIOUS
<1>1. CASE EN!BrokerDoes
  BY <1>1, Unconcluded DEF EN!BrokerDoes, EN!Answer, AnswerIInv, Said
<1>2. CASE EN!BrokerRefuses
  BY <1>2, Unconcluded DEF EN!BrokerRefuses, EN!Answer, AnswerIInv, Said
<1>3. CASE EN!BrokerFails
  BY <1>3, Unconcluded DEF EN!BrokerFails, EN!Answer, AnswerIInv, Said
<1>4. CASE EN!ProxyAnswers
  BY <1>4, Unconcluded DEF EN!ProxyAnswers, EN!Answer, AnswerIInv, Said
<1>5. CASE EN!ConnectionFails
  <2>1. Said'
    BY <1>5 DEF EN!ConnectionFails, AnswerIInv, Said
  <2>2. EN!ambiguous_mutation([is |-> "Transport", code |-> 0]).is = "AmbiguousMutation"
    BY DEF EN!ambiguous_mutation, EN!Unclear
  <2>3. EN!OkMeansApplied' /\ EN!PlainErrorMeansRefused'
    BY <1>5, <2>2 DEF EN!ConnectionFails, EN!Conclude, EN!OkMeansApplied, EN!PlainErrorMeansRefused
  <2>. QED
    BY <2>1, <2>3 DEF AnswerIInv
<1>6. ASSUME EN!Receiving, UNCHANGED <<mutation, applied, answer>>,
             \/ UNCHANGED result
             \/ EN!Conclude([is |-> "Protocol", code |-> 0])
             \/ EN!Conclude(EN!decode_for(answer))
      PROVE  AnswerIInv'
  <2>1. Said'
    BY <1>6 DEF AnswerIInv, Said
  <2>2. CASE UNCHANGED result
    BY <1>6, <2>1, <2>2, Unconcluded DEF EN!Receiving, AnswerIInv
  <2>3. CASE EN!Conclude([is |-> "Protocol", code |-> 0])
    BY <1>6, <2>1, <2>3, Concluded DEF EN!Unclear, AnswerIInv
  <2>4. CASE EN!Conclude(EN!decode_for(answer))
    BY <1>6, <2>1, <2>4, Concluded, Agreement DEF EN!Receiving, AnswerIInv
  <2>. QED
    BY <1>6, <2>2, <2>3, <2>4
<1>7. CASE EN!RefuseLength
  BY <1>6, <1>7 DEF EN!RefuseLength, EN!TooLong
<1>8. CASE EN!Chunk
  BY <1>6, <1>8 DEF EN!Chunk
<1>9. CASE EN!BodyComplete
  BY <1>6, <1>9 DEF EN!BodyComplete
<1>10. CASE UNCHANGED EN!envelopeVars
  BY <1>10 DEF EN!envelopeVars, AnswerIInv, Said, EN!OkMeansApplied, EN!PlainErrorMeansRefused
<1>. QED
  BY <1>1, <1>2, <1>3, <1>4, <1>5, <1>7, <1>8, <1>9, <1>10 DEF EN!Next

----------------------------------------------------------------------------

(* For every limit, a result of Ok means that the broker did what was      *)
(* asked: no refusal in whatever status, no proxy's page and no body that  *)
(* is cut off or too long becomes a success (src/client.rs:800).           *)
THEOREM SuccessIsTheBrokers == EN!Spec => []EN!OkMeansApplied
<1>1. AnswerIInv => EN!OkMeansApplied
  BY DEF AnswerIInv
<1>. QED
  BY AnswerInit, AnswerNext, <1>1, PTL DEF EN!Spec

(* For every limit, a mutation that ends with an error other than          *)
(* AmbiguousMutation was not made (src/client.rs:620).                     *)
THEOREM ErrorsAreRefusals == EN!Spec => []EN!PlainErrorMeansRefused
<1>1. AnswerIInv => EN!PlainErrorMeansRefused
  BY DEF AnswerIInv
<1>. QED
  BY AnswerInit, AnswerNext, <1>1, PTL DEF EN!Spec

----------------------------------------------------------------------------
(* FakeSocket: for any handles, subscriptions and bounds, a replayed       *)
(* connection is in balance, and a consumer that waits knows its losses    *)
(* but for one of each task that emits.                                    *)
(*                                                                         *)
(* The argument: as long as every handle has moved on before it changes    *)
(* what it wants, what the last connection lacks of a balance are the      *)
(* joins and the leaves that handles are still about to record on it       *)
(* (Balanced).  A queue that overflows has its capacity in it, and that is *)
(* not zero: while a consumer waits at an empty one, nothing is refused    *)
(* that was not before it looked (LossesBounded).                          *)

\* Where a handle can be in the middle of an operation.
Places == {"idle", "checked", "parked", "woken", "joining", "leaving", "polled", "receiving"}

Records ==
    [joins : [Subscriptions -> Int], leaves : [Subscriptions -> Int], replayed : BOOLEAN]

FakeTyped ==
    /\ connections \in Seq(Records)
    /\ index \in [Handles -> Nat]
    /\ op \in [Handles -> [at : Places, value : SUBSET Subscriptions]]
    /\ subscriptions \in [Handles -> SUBSET Subscriptions]
    /\ shutdown \in [Handles -> BOOLEAN]
    /\ behind \in [Handles -> BOOLEAN]
    /\ queue \in [Handles -> Nat]
    /\ dropped \in [Handles -> Nat]
    /\ refused \in [Emitters -> SUBSET Handles]

\* A handle is on a connection there is, and on one before it changes
\* anything.
Connected ==
    \A h \in Handles :
        /\ index[h] <= Len(connections)
        /\ op[h].at \in {"joining", "leaving"} => index[h] > 0

\* Handles whose join, or leave, of s is still to be recorded on the last
\* connection.
Joining(s) ==
    {h \in Handles : op[h].at = "joining" /\ s \in op[h].value /\ index[h] = FS!Current}
Leaving(s) ==
    {h \in Handles : op[h].at = "leaving" /\ s \in op[h].value /\ index[h] = FS!Current}

\* As long as nobody has changed what it wants before it moved on, what the
\* last connection lacks are the changes under way.
Balanced ==
    FS!Current > 0 /\ connections[FS!Current].replayed /\ (\A h \in Handles : ~ behind[h]) =>
        \A s \in Subscriptions :
            connections[FS!Current].joins[s] + Cardinality(Joining(s))
                = connections[FS!Current].leaves[s] + Cardinality(Leaving(s))
                    + Cardinality(FS!Wanting(s))

\* The tasks that are about to count a loss of h.
Uncounted(h) == {e \in Emitters : h \in refused[e]}

\* What a waiting consumer does not know, counted or not.
LossesBounded ==
    \A h \in Handles :
        op[h].at = "receiving" /\ queue[h] = 0
            => dropped[h] + Cardinality(Uncounted(h)) <= Cardinality(Emitters)

FakeIInv == FakeTyped /\ Connected /\ Balanced /\ LossesBounded
----------------------------------------------------------------------------

LEMMA Sizes ==
    ASSUME NEW S \in SUBSET Handles
    PROVE  IsFiniteSet(S) /\ Cardinality(S) \in Nat
  BY FakeAssumption, FS_Subset, FS_CardinalityType

LEMMA Gains ==
    ASSUME NEW S \in SUBSET Handles, NEW h \in Handles, h \notin S
    PROVE  Cardinality(S \cup {h}) = Cardinality(S) + 1
  BY Sizes, FS_AddElement

LEMMA Loses ==
    ASSUME NEW S \in SUBSET Handles, NEW h \in S
    PROVE  Cardinality(S \ {h}) = Cardinality(S) - 1
  BY Sizes, FS_RemoveElement

LEMMA Members ==
    ASSUME NEW s
    PROVE  /\ Joining(s) \in SUBSET Handles /\ Leaving(s) \in SUBSET Handles
           /\ FS!Wanting(s) \in SUBSET Handles
           /\ Cardinality(Joining(s)) \in Nat /\ Cardinality(Leaving(s)) \in Nat
           /\ Cardinality(FS!Wanting(s)) \in Nat
<1>1. /\ Joining(s) \in SUBSET Handles /\ Leaving(s) \in SUBSET Handles
      /\ FS!Wanting(s) \in SUBSET Handles
  BY DEF Joining, Leaving, FS!Wanting
<1>. QED
  BY <1>1, Sizes

----------------------------------------------------------------------------
(* Types. *)

LEMMA JoinRecorded ==
    ASSUME FakeTyped, NEW h \in Handles, FS!RecordJoin(h), index[h] \in 1..Len(connections)
    PROVE  /\ connections' \in Seq(Records)
           /\ Len(connections') = Len(connections)
           /\ \A n \in 1..Len(connections) :
                /\ connections'[n].replayed = connections[n].replayed
                /\ connections'[n].leaves = connections[n].leaves
                /\ \A s \in Subscriptions :
                    connections'[n].joins[s] = IF n = index[h] /\ s \in op[h].value
                                                THEN connections[n].joins[s] + 1
                                                ELSE connections[n].joins[s]
<1>. DEFINE i == index[h]
            values == op[h].value
            changed == [connections[i] EXCEPT !.joins = FS!Added(@, values)]
<1>1. connections \in Seq(Records)
  BY DEF FakeTyped
<1>2. ASSUME NEW c \in Records
      PROVE  LET d == [c EXCEPT !.joins = FS!Added(@, values)] IN
             /\ d \in Records
             /\ d.replayed = c.replayed /\ d.leaves = c.leaves
             /\ \A s \in Subscriptions :
                    d.joins[s] = IF s \in values THEN c.joins[s] + 1 ELSE c.joins[s]
  <2>1. FS!Added(c.joins, values) \in [Subscriptions -> Int]
    BY <1>2 DEF Records, FS!Added
  <2>. QED
    BY <1>2, <2>1 DEF Records, FS!Added
<1>3. connections[i] \in Records
  BY <1>1, ElementOfSeq
<1>4. connections' = [connections EXCEPT ![i] = changed] /\ i \in 1..Len(connections)
  BY DEF FS!RecordJoin
<1>5. /\ changed \in Records
      /\ changed.replayed = connections[i].replayed
      /\ changed.leaves = connections[i].leaves
      /\ \A s \in Subscriptions :
            changed.joins[s] = IF s \in values THEN connections[i].joins[s] + 1
                                              ELSE connections[i].joins[s]
  BY <1>2, <1>3
<1>. HIDE DEF changed, i, values
<1>6. /\ connections' \in Seq(Records)
      /\ Len(connections') = Len(connections)
      /\ \A n \in 1..Len(connections) :
            connections'[n] = IF n = i THEN changed ELSE connections[n]
  BY <1>1, <1>4, <1>5, ExceptSeq
<1>7. ASSUME NEW n \in 1..Len(connections)
      PROVE  /\ connections'[n].replayed = connections[n].replayed
             /\ connections'[n].leaves = connections[n].leaves
             /\ \A s \in Subscriptions :
                    connections'[n].joins[s] = IF n = i /\ s \in values
                                                THEN connections[n].joins[s] + 1
                                                ELSE connections[n].joins[s]
  <2>1. CASE n = i
    <3>1. connections'[n] = changed /\ connections[n] = connections[i]
      BY <1>6, <2>1
    <3>. QED
      BY <1>5, <2>1, <3>1
  <2>2. CASE n # i
    <3>1. connections'[n] = connections[n]
      BY <1>6, <2>2
    <3>. QED
      BY <2>2, <3>1
  <2>. QED
    BY <2>1, <2>2
<1>. QED
  BY <1>6, <1>7 DEF i, values

LEMMA LeavesRecorded ==
    ASSUME FakeTyped, NEW h \in Handles, FS!RecordLeaves(h), index[h] \in 1..Len(connections)
    PROVE  /\ connections' \in Seq(Records)
           /\ Len(connections') = Len(connections)
           /\ \A n \in 1..Len(connections) :
                /\ connections'[n].replayed = connections[n].replayed
                /\ connections'[n].joins = connections[n].joins
                /\ \A s \in Subscriptions :
                    connections'[n].leaves[s] = IF n = index[h] /\ s \in op[h].value
                                                THEN connections[n].leaves[s] + 1
                                                ELSE connections[n].leaves[s]
<1>. DEFINE i == index[h]
            values == op[h].value
            changed == [connections[i] EXCEPT !.leaves = FS!Added(@, values)]
<1>1. connections \in Seq(Records)
  BY DEF FakeTyped
<1>2. ASSUME NEW c \in Records
      PROVE  LET d == [c EXCEPT !.leaves = FS!Added(@, values)] IN
             /\ d \in Records
             /\ d.replayed = c.replayed /\ d.joins = c.joins
             /\ \A s \in Subscriptions :
                    d.leaves[s] = IF s \in values THEN c.leaves[s] + 1 ELSE c.leaves[s]
  <2>1. FS!Added(c.leaves, values) \in [Subscriptions -> Int]
    BY <1>2 DEF Records, FS!Added
  <2>. QED
    BY <1>2, <2>1 DEF Records, FS!Added
<1>3. connections[i] \in Records
  BY <1>1, ElementOfSeq
<1>4. connections' = [connections EXCEPT ![i] = changed] /\ i \in 1..Len(connections)
  BY DEF FS!RecordLeaves
<1>5. /\ changed \in Records
      /\ changed.replayed = connections[i].replayed
      /\ changed.joins = connections[i].joins
      /\ \A s \in Subscriptions :
            changed.leaves[s] = IF s \in values THEN connections[i].leaves[s] + 1
                                              ELSE connections[i].leaves[s]
  BY <1>2, <1>3
<1>. HIDE DEF changed, i, values
<1>6. /\ connections' \in Seq(Records)
      /\ Len(connections') = Len(connections)
      /\ \A n \in 1..Len(connections) :
            connections'[n] = IF n = i THEN changed ELSE connections[n]
  BY <1>1, <1>4, <1>5, ExceptSeq
<1>7. ASSUME NEW n \in 1..Len(connections)
      PROVE  /\ connections'[n].replayed = connections[n].replayed
             /\ connections'[n].joins = connections[n].joins
             /\ \A s \in Subscriptions :
                    connections'[n].leaves[s] = IF n = i /\ s \in values
                                                THEN connections[n].leaves[s] + 1
                                                ELSE connections[n].leaves[s]
  <2>1. CASE n = i
    <3>1. connections'[n] = changed /\ connections[n] = connections[i]
      BY <1>6, <2>1
    <3>. QED
      BY <1>5, <2>1, <3>1
  <2>2. CASE n # i
    <3>1. connections'[n] = connections[n]
      BY <1>6, <2>2
    <3>. QED
      BY <2>2, <3>1
  <2>. QED
    BY <2>1, <2>2
<1>. QED
  BY <1>6, <1>7 DEF i, values

LEMMA Appended ==
    ASSUME FakeTyped, NEW joins \in [Subscriptions -> Int], NEW replayed \in BOOLEAN,
           connections' = Append(connections, FS!ConnectionRecord(joins, replayed))
    PROVE  /\ connections' \in Seq(Records)
           /\ Len(connections') = Len(connections) + 1
           /\ connections'[Len(connections) + 1] = FS!ConnectionRecord(joins, replayed)
<1>1. FS!ConnectionRecord(joins, replayed) \in Records
  BY DEF FS!ConnectionRecord, Records, FS!Nobody
<1>2. connections \in Seq(Records)
  BY DEF FakeTyped
<1>. HIDE DEF Records
<1>. QED
  BY <1>1, <1>2

LEMMA ReplayTyped == FS!Replay \in [Subscriptions -> Int]
  BY Members, SameFinite DEF FS!Replay

LEMMA NobodyTyped == FS!Nobody \in [Subscriptions -> Int]
  BY DEF FS!Nobody
OpTyped == op \in [Handles -> [at : Places, value : SUBSET Subscriptions]]

EventsTyped ==
    /\ queue \in [Handles -> Nat]
    /\ dropped \in [Handles -> Nat]
    /\ refused \in [Emitters -> SUBSET Handles]

LEMMA OpMoves ==
    ASSUME FakeTyped, NEW h \in Handles, NEW place \in Places,
           NEW values \in SUBSET Subscriptions,
           op' = [op EXCEPT ![h] = [at |-> place, value |-> values]]
    PROVE  /\ OpTyped'
           /\ op'[h].at = place /\ op'[h].value = values
           /\ \A g \in Handles : g # h => op'[g] = op[g]
  BY DEF FakeTyped, OpTyped

\* The steps that touch neither connections nor what is wanted.
LEMMA Quiet ==
    ASSUME FakeIInv, UNCHANGED <<FS!recordVars, subscriptions, shutdown>>, OpTyped',
           \A h \in Handles :
              \/ op'[h] = op[h]
              \/ op[h].at \notin {"joining", "leaving"} /\ op'[h].at \notin {"joining", "leaving"}
    PROVE  /\ Connected' /\ Balanced'
           /\ EventsTyped' => FakeTyped'
<1>1. \A s : Joining(s)' = Joining(s) /\ Leaving(s)' = Leaving(s) /\ FS!Wanting(s)' = FS!Wanting(s)
  BY DEF Joining, Leaving, FS!Wanting, FS!Live, FS!recordVars, FS!Current
<1>2. Balanced'
  BY <1>1 DEF FakeIInv, Balanced, FS!recordVars, FS!Current
<1>3. Connected'
  BY DEF FakeIInv, Connected, FS!recordVars
<1>4. EventsTyped' => FakeTyped'
  BY DEF FakeIInv, FakeTyped, OpTyped, EventsTyped, FS!recordVars
<1>. QED
  BY <1>2, <1>3, <1>4

LEMMA Emitting ==
    ASSUME NEW h
    PROVE  /\ IsFiniteSet(Uncounted(h))
           /\ Cardinality(Uncounted(h)) \in Nat /\ Cardinality(Emitters) \in Nat
           /\ Cardinality(Uncounted(h)) <= Cardinality(Emitters)
<1>1. Uncounted(h) \in SUBSET Emitters /\ IsFiniteSet(Emitters)
  BY FakeAssumption DEF Uncounted
<1>. QED
  BY <1>1, FS_Subset, FS_CardinalityType

\* The steps that touch no events, and after which nobody waits that did not.
LEMMA EventsAside ==
    ASSUME FakeIInv, UNCHANGED FS!eventVars,
           \A h \in Handles : op'[h].at = "receiving" => op[h].at = "receiving"
    PROVE  LossesBounded'
<1>1. UNCHANGED <<queue, dropped, refused>>
  BY DEF FS!eventVars
<1>2. \A h : Uncounted(h)' = Uncounted(h)
  BY <1>1 DEF Uncounted
<1>. QED
  BY <1>1, <1>2 DEF FakeIInv, LossesBounded

\* The counts of a connection are numbers.
LEMMA Lasts ==
    ASSUME FakeTyped, FS!Current > 0, NEW s \in Subscriptions
    PROVE  connections[FS!Current].joins[s] \in Int /\ connections[FS!Current].leaves[s] \in Int
<1>1. FS!Current \in 1..Len(connections)
  BY LenProperties DEF FakeTyped, FS!Current
<1>2. connections[FS!Current] \in Records
  BY <1>1, ElementOfSeq DEF FakeTyped
<1>. QED
  BY <1>2 DEF Records

----------------------------------------------------------------------------
(* Connections. *)

LEMMA ConnectStep == ASSUME FakeIInv, NEW h \in Handles, FS!Connect(h) PROVE FakeIInv'
<1>1. /\ connections' \in Seq(Records)
      /\ Len(connections') = Len(connections) + 1
      /\ connections'[Len(connections) + 1] = FS!ConnectionRecord(FS!Nobody, FALSE)
  BY Appended, NobodyTyped DEF FakeIInv, FS!Connect
<1>2. Balanced'
  BY <1>1 DEF Balanced, FS!ConnectionRecord, FS!Current
<1>3. Len(connections) \in Nat
  BY LenProperties DEF FakeIInv, FakeTyped
<1>4. index' \in [Handles -> Nat] /\ \A g \in Handles : index'[g] = IF g = h THEN Len(connections) + 1 ELSE index[g]
  BY <1>3 DEF FakeIInv, FakeTyped, FS!Connect, FS!Current
<1>5. FakeTyped'
  BY <1>1, <1>4 DEF FakeIInv, FakeTyped, FS!Connect, FS!wishVars, FS!eventVars
<1>6. Connected'
  BY <1>1, <1>3, <1>4 DEF FakeIInv, FakeTyped, Connected, FS!Connect
<1>7. LossesBounded'
  BY EventsAside DEF FS!Connect
<1>. QED
  BY <1>2, <1>5, <1>6, <1>7 DEF FakeIInv

LEMMA AllowStep == ASSUME FakeIInv, FS!AllowNextConnection PROVE FakeIInv'
<1>1. /\ connections' \in Seq(Records)
      /\ Len(connections') = Len(connections) + 1
      /\ connections'[Len(connections) + 1] = FS!ConnectionRecord(FS!Replay, TRUE)
  BY Appended, ReplayTyped DEF FakeIInv, FS!AllowNextConnection
<1>2. Len(connections) \in Nat /\ index \in [Handles -> Nat]
  BY LenProperties DEF FakeIInv, FakeTyped
<1>3. OpTyped' /\ \A h \in Handles : op'[h] = IF op[h].at = "parked" THEN FS!At("woken") ELSE op[h]
  BY DEF FakeIInv, FakeTyped, OpTyped, FS!AllowNextConnection, FS!At, Places
<1>4. \A s : Joining(s)' = {} /\ Leaving(s)' = {} /\ FS!Wanting(s)' = FS!Wanting(s)
  <2>1. \A h \in Handles : index'[h] # FS!Current'
    BY <1>1, <1>2 DEF FakeIInv, Connected, FS!Current, FS!AllowNextConnection
  <2>. QED
    BY <2>1 DEF Joining, Leaving, FS!Wanting, FS!Live, FS!AllowNextConnection, FS!wishVars
<1>5. Balanced'
  <2>1. ASSUME NEW s \in Subscriptions
        PROVE  /\ connections'[FS!Current'].joins[s] = Cardinality(FS!Wanting(s)')
               /\ connections'[FS!Current'].leaves[s] = 0
    BY <1>1, <1>4, SameFinite DEF FS!Current, FS!ConnectionRecord, FS!Replay, FS!Nobody
  <2>2. \A s : Cardinality(Joining(s)') = 0 /\ Cardinality(Leaving(s)') = 0
    BY <1>4, FS_EmptySet
  <2>3. \A s : Cardinality(FS!Wanting(s)') \in Nat
    BY <1>4, Members
  <2>. QED
    BY <2>1, <2>2, <2>3 DEF Balanced
<1>6. FakeTyped'
  BY <1>1, <1>3 DEF FakeIInv, FakeTyped, OpTyped, FS!AllowNextConnection, FS!wishVars, FS!eventVars
<1>7. Connected'
  BY <1>1, <1>2, <1>3 DEF FakeIInv, FakeTyped, Connected, FS!AllowNextConnection, FS!At
<1>8. LossesBounded'
  <2>1. UNCHANGED FS!eventVars
    BY DEF FS!AllowNextConnection
  <2>2. \A h \in Handles : op'[h].at = "receiving" => op[h].at = "receiving"
    BY <1>3 DEF FS!At
  <2>. QED
    BY <2>1, <2>2, EventsAside
<1>. QED
  BY <1>5, <1>6, <1>7, <1>8 DEF FakeIInv

LEMMA WaitStep == ASSUME FakeIInv, NEW h \in Handles, FS!WaitUntilReconnected(h) PROVE FakeIInv'
<1>1. Len(connections) \in Nat /\ index \in [Handles -> Nat] /\ FS!Current = Len(connections)
  BY LenProperties DEF FakeIInv, FakeTyped, FS!Current
<1>2. PICK place \in {"idle", "checked"} : op' = [op EXCEPT ![h] = FS!At(place)]
  BY DEF FS!WaitUntilReconnected, FS!Idle, FS!At
<1>3. /\ OpTyped' /\ op'[h].at \in {"idle", "checked"}
      /\ \A g \in Handles : g # h => op'[g] = op[g]
  <2>1. place \in Places /\ op' = [op EXCEPT ![h] = [at |-> place, value |-> {}]]
    BY <1>2 DEF FS!At, Places
  <2>2. FakeTyped /\ {} \in SUBSET Subscriptions
    BY DEF FakeIInv
  <2>3. /\ OpTyped' /\ op'[h].at = place
        /\ \A g \in Handles : g # h => op'[g] = op[g]
    BY <2>1, <2>2, OpMoves
  <2>. QED
    BY <1>2, <2>3
<1>4. PICK i : /\ index' = [index EXCEPT ![h] = i]
               /\ i = index[h] \/ (i = FS!Current /\ FS!Current > index[h])
  <2>1. CASE FS!Current > index[h]
    BY <2>1 DEF FS!WaitUntilReconnected
  <2>2. CASE ~ (FS!Current > index[h])
    <3>1. index' = [index EXCEPT ![h] = index[h]]
      BY <1>1, <2>2 DEF FS!WaitUntilReconnected
    <3>. QED
      BY <3>1, Zenon
  <2>. QED
    BY <2>1, <2>2
<1>5. /\ index' \in [Handles -> Nat] /\ index'[h] # 0 /\ index[h] # 0
      /\ index'[h] = i
      /\ \A g \in Handles : g # h => index'[g] = index[g]
  BY <1>1, <1>4 DEF FS!WaitUntilReconnected
<1>6. UNCHANGED <<connections, behind, FS!wishVars, FS!eventVars, FS!Current>> /\ op[h].at \in {"idle", "woken"}
  BY DEF FS!WaitUntilReconnected, FS!Current
<1>7. \A s : Joining(s)' = Joining(s) /\ Leaving(s)' = Leaving(s) /\ FS!Wanting(s)' = FS!Wanting(s)
  BY <1>3, <1>5, <1>6 DEF Joining, Leaving, FS!Wanting, FS!Live, FS!wishVars
<1>8. Balanced'
  BY <1>6, <1>7 DEF FakeIInv, Balanced
<1>9. FakeTyped'
  BY <1>3, <1>5, <1>6 DEF FakeIInv, FakeTyped, OpTyped, FS!wishVars, FS!eventVars
<1>10. Connected'
  BY <1>1, <1>3, <1>4, <1>5, <1>6 DEF FakeIInv, Connected
<1>11. LossesBounded'
  BY <1>3, <1>6, EventsAside
<1>. QED
  BY <1>8, <1>9, <1>10, <1>11 DEF FakeIInv
----------------------------------------------------------------------------
(* Subscriptions. *)

\* What a change leaves in order.
LEMMA Changed ==
    ASSUME FakeIInv, NEW h \in Handles, NEW place \in {"joining", "leaving"},
           NEW values \in SUBSET Subscriptions, FS!Change(h, place, values)
    PROVE  /\ OpTyped'
           /\ op[h].at = "idle" /\ op'[h].at = place /\ op'[h].value = values
           /\ \A g \in Handles : g # h => op'[g] = op[g]
           /\ UNCHANGED <<connections, index, family, FS!eventVars, FS!Current>>
           /\ behind' \in [Handles -> BOOLEAN]
           /\ index[h] # 0 /\ shutdown[h] = FALSE
           /\ (\A g \in Handles : ~ behind'[g]) =>
                (\A g \in Handles : ~ behind[g]) /\ index[h] = FS!Current
           /\ Connected' /\ LossesBounded'
<1>1. FakeTyped /\ place \in Places /\ op' = [op EXCEPT ![h] = [at |-> place, value |-> values]]
  BY DEF FakeIInv, FS!Change, Places
<1>2. /\ OpTyped'
      /\ op'[h].at = place /\ op'[h].value = values
      /\ \A g \in Handles : g # h => op'[g] = op[g]
  BY <1>1, OpMoves
<1>3. op[h].at = "idle" /\ UNCHANGED <<connections, index, family, FS!eventVars, FS!Current>>
  BY DEF FS!Change, FS!Idle, FS!Current
<1>4. index[h] # 0 /\ shutdown[h] = FALSE
  BY <1>1 DEF FS!Change, FS!Live, FakeTyped
<1>5. /\ behind' = [behind EXCEPT ![h] = behind[h] \/ index[h] < FS!Current]
      /\ behind \in [Handles -> BOOLEAN]
  BY <1>1 DEF FS!Change, FakeTyped
<1>6. behind' \in [Handles -> BOOLEAN]
  BY <1>5
<1>7. (\A g \in Handles : ~ behind'[g]) => (\A g \in Handles : ~ behind[g]) /\ ~ (index[h] < FS!Current)
  BY <1>5, Zenon
<1>8. index[h] \in Nat /\ FS!Current \in Nat /\ index[h] <= FS!Current
  BY <1>1, LenProperties DEF FakeTyped, FakeIInv, Connected, FS!Current
<1>9. Connected'
  BY <1>2, <1>3, <1>4, <1>8 DEF FakeIInv, Connected
<1>10. LossesBounded'
  BY <1>2, <1>3, EventsAside
<1>. QED
  BY <1>2, <1>3, <1>4, <1>6, <1>7, <1>8, <1>9, <1>10

LEMMA SubscribeStep ==
    ASSUME FakeIInv, NEW h \in Handles, NEW s \in Subscriptions, FS!Subscribe(h, s)
    PROVE  FakeIInv'
<1>1. /\ OpTyped'
      /\ op[h].at = "idle" /\ op'[h].at = "joining" /\ op'[h].value = {s}
      /\ \A g \in Handles : g # h => op'[g] = op[g]
      /\ UNCHANGED <<connections, index, family, FS!eventVars, FS!Current>>
      /\ behind' \in [Handles -> BOOLEAN]
      /\ index[h] # 0 /\ shutdown[h] = FALSE
      /\ (\A g \in Handles : ~ behind'[g]) =>
                (\A g \in Handles : ~ behind[g]) /\ index[h] = FS!Current
      /\ Connected' /\ LossesBounded'
  <2>1. FS!Change(h, "joining", {s}) /\ {s} \in SUBSET Subscriptions
    BY DEF FS!Subscribe
  <2>. QED
    BY <2>1, Changed
<1>2. /\ subscriptions' \in [Handles -> SUBSET Subscriptions]
      /\ subscriptions'[h] = subscriptions[h] \cup {s} /\ s \notin subscriptions[h]
      /\ \A g \in Handles : g # h => subscriptions'[g] = subscriptions[g]
      /\ UNCHANGED shutdown
  BY DEF FakeIInv, FakeTyped, FS!Subscribe
<1>3. FakeTyped'
  BY <1>1, <1>2 DEF FakeIInv, FakeTyped, OpTyped, FS!eventVars
<1>4. Balanced'
  <2>. SUFFICES ASSUME FS!Current' > 0, connections'[FS!Current'].replayed,
                       \A g \in Handles : ~ behind'[g], NEW r \in Subscriptions
                PROVE  connections'[FS!Current'].joins[r] + Cardinality(Joining(r)')
                         = connections'[FS!Current'].leaves[r] + Cardinality(Leaving(r)')
                             + Cardinality(FS!Wanting(r)')
    BY DEF Balanced
  <2>1. /\ index[h] = FS!Current
        /\ connections[FS!Current].joins[r] + Cardinality(Joining(r))
              = connections[FS!Current].leaves[r] + Cardinality(Leaving(r)) + Cardinality(FS!Wanting(r))
        /\ connections[FS!Current].joins[r] \in Int /\ connections[FS!Current].leaves[r] \in Int
        /\ connections'[FS!Current'] = connections[FS!Current]
    BY <1>1, Lasts DEF FakeIInv, Balanced
  <2>2. Leaving(r)' = Leaving(r)
    BY <1>1 DEF Leaving
  <2>3. CASE r = s
    <3>1. /\ Joining(r)' = Joining(r) \cup {h} /\ h \notin Joining(r)
          /\ FS!Wanting(r)' = FS!Wanting(r) \cup {h} /\ h \notin FS!Wanting(r)
      BY <1>1, <1>2, <2>1, <2>3 DEF Joining, FS!Wanting, FS!Live
    <3>2. /\ Cardinality(Joining(r)') = Cardinality(Joining(r)) + 1
          /\ Cardinality(FS!Wanting(r)') = Cardinality(FS!Wanting(r)) + 1
      BY <3>1, Gains, Members
    <3>. QED
      BY <2>1, <2>2, <3>2, Members
  <2>4. CASE r # s
    <3>1. Joining(r)' = Joining(r) /\ FS!Wanting(r)' = FS!Wanting(r)
      BY <1>1, <1>2, <2>4 DEF Joining, FS!Wanting, FS!Live
    <3>. QED
      BY <2>1, <2>2, <3>1
  <2>. QED
    BY <2>3, <2>4
<1>. QED
  BY <1>1, <1>3, <1>4 DEF FakeIInv
\* A change that takes away: h no longer wants what it is about to leave.
LEMMA Withdrawn ==
    ASSUME FakeIInv, NEW h \in Handles, NEW values \in SUBSET Subscriptions,
           FS!Change(h, "leaving", values),
           subscriptions' \in [Handles -> SUBSET Subscriptions],
           shutdown' \in [Handles -> BOOLEAN],
           \A r \in Subscriptions :
              IF r \in values
                THEN h \in FS!Wanting(r) /\ FS!Wanting(r)' = FS!Wanting(r) \ {h}
                ELSE FS!Wanting(r)' = FS!Wanting(r)
    PROVE  FakeIInv'
<1>1. /\ OpTyped'
      /\ op[h].at = "idle" /\ op'[h].at = "leaving" /\ op'[h].value = values
      /\ \A g \in Handles : g # h => op'[g] = op[g]
      /\ UNCHANGED <<connections, index, family, FS!eventVars, FS!Current>>
      /\ behind' \in [Handles -> BOOLEAN]
      /\ (\A g \in Handles : ~ behind'[g]) =>
                (\A g \in Handles : ~ behind[g]) /\ index[h] = FS!Current
      /\ Connected' /\ LossesBounded'
  BY Changed
<1>2. FakeTyped'
  BY <1>1 DEF FakeIInv, FakeTyped, OpTyped, FS!eventVars
<1>3. Balanced'
  <2>. SUFFICES ASSUME FS!Current' > 0, connections'[FS!Current'].replayed,
                       \A g \in Handles : ~ behind'[g], NEW r \in Subscriptions
                PROVE  connections'[FS!Current'].joins[r] + Cardinality(Joining(r)')
                         = connections'[FS!Current'].leaves[r] + Cardinality(Leaving(r)')
                             + Cardinality(FS!Wanting(r)')
    BY DEF Balanced
  <2>1. /\ index[h] = FS!Current
        /\ connections[FS!Current].joins[r] + Cardinality(Joining(r))
              = connections[FS!Current].leaves[r] + Cardinality(Leaving(r)) + Cardinality(FS!Wanting(r))
        /\ connections[FS!Current].joins[r] \in Int /\ connections[FS!Current].leaves[r] \in Int
        /\ connections'[FS!Current'] = connections[FS!Current]
    BY <1>1, Lasts DEF FakeIInv, Balanced
  <2>2. Joining(r)' = Joining(r)
    BY <1>1 DEF Joining
  <2>3. CASE r \in values
    <3>1. /\ Leaving(r)' = Leaving(r) \cup {h} /\ h \notin Leaving(r)
          /\ FS!Wanting(r)' = FS!Wanting(r) \ {h} /\ h \in FS!Wanting(r)
      BY <1>1, <2>1, <2>3 DEF Leaving
    <3>2. /\ Cardinality(Leaving(r)') = Cardinality(Leaving(r)) + 1
          /\ Cardinality(FS!Wanting(r)') = Cardinality(FS!Wanting(r)) - 1
      BY <3>1, Gains, Loses, Members
    <3>3. /\ Cardinality(Joining(r)) \in Nat /\ Cardinality(Leaving(r)) \in Nat
          /\ Cardinality(FS!Wanting(r)) \in Nat
      BY Members
    <3>. QED
      BY <2>1, <2>2, <3>2, <3>3
  <2>4. CASE r \notin values
    <3>1. Leaving(r)' = Leaving(r) /\ FS!Wanting(r)' = FS!Wanting(r)
      BY <1>1, <2>4 DEF Leaving
    <3>. QED
      BY <2>1, <2>2, <3>1
  <2>. QED
    BY <2>3, <2>4
<1>. QED
  BY <1>1, <1>2, <1>3 DEF FakeIInv

LEMMA UnsubscribeStep ==
    ASSUME FakeIInv, NEW h \in Handles, NEW s \in Subscriptions, FS!Unsubscribe(h, s)
    PROVE  FakeIInv'
<1>1. FS!Change(h, "leaving", {s}) /\ {s} \in SUBSET Subscriptions
  BY DEF FS!Unsubscribe
<1>2. /\ subscriptions' \in [Handles -> SUBSET Subscriptions]
      /\ subscriptions'[h] = subscriptions[h] \ {s} /\ s \in subscriptions[h]
      /\ \A g \in Handles : g # h => subscriptions'[g] = subscriptions[g]
      /\ UNCHANGED <<shutdown, index>> /\ shutdown \in [Handles -> BOOLEAN] /\ FS!Live(h)
  BY DEF FakeIInv, FakeTyped, FS!Unsubscribe, FS!Change
<1>3. \A r \in Subscriptions :
        IF r \in {s} THEN h \in FS!Wanting(r) /\ FS!Wanting(r)' = FS!Wanting(r) \ {h}
                     ELSE FS!Wanting(r)' = FS!Wanting(r)
  BY <1>2 DEF FS!Wanting, FS!Live
<1>. QED
  BY <1>1, <1>2, <1>3, Withdrawn

LEMMA ShutdownStep == ASSUME FakeIInv, NEW h \in Handles, FS!Shutdown(h) PROVE FakeIInv'
<1>1. FS!Change(h, "leaving", subscriptions[h]) /\ subscriptions[h] \in SUBSET Subscriptions
  BY DEF FS!Shutdown, FakeIInv, FakeTyped
<1>2. /\ shutdown' \in [Handles -> BOOLEAN] /\ shutdown'[h] = TRUE
      /\ \A g \in Handles : g # h => shutdown'[g] = shutdown[g]
      /\ UNCHANGED <<subscriptions, index>> /\ FS!Live(h)
      /\ subscriptions \in [Handles -> SUBSET Subscriptions]
  BY DEF FakeIInv, FakeTyped, FS!Shutdown, FS!Change
<1>3. \A r \in Subscriptions :
        IF r \in subscriptions[h] THEN h \in FS!Wanting(r) /\ FS!Wanting(r)' = FS!Wanting(r) \ {h}
                                  ELSE FS!Wanting(r)' = FS!Wanting(r)
  BY <1>2 DEF FS!Wanting, FS!Live
<1>. QED
  BY <1>1, <1>2, <1>3, Withdrawn

LEMMA JoinStep == ASSUME FakeIInv, NEW h \in Handles, FS!RecordJoin(h) PROVE FakeIInv'
<1>1. /\ FakeTyped /\ op' = [op EXCEPT ![h] = [at |-> "idle", value |-> {}]]
      /\ "idle" \in Places /\ {} \in SUBSET Subscriptions
      /\ op[h].at = "joining"
  BY DEF FakeIInv, FS!RecordJoin, FS!Idle, Places
<1>2. /\ OpTyped' /\ op'[h].at = "idle"
      /\ \A g \in Handles : g # h => op'[g] = op[g]
  BY <1>1, OpMoves
<1>3. UNCHANGED <<made, index, behind, FS!wishVars, FS!eventVars>>
  BY DEF FS!RecordJoin
<1>4. index[h] \in 1..Len(connections) /\ Len(connections) \in Nat
  BY <1>1, LenProperties DEF FakeIInv, Connected, FakeTyped
<1>5. /\ connections' \in Seq(Records)
      /\ Len(connections') = Len(connections)
      /\ \A n \in 1..Len(connections) :
            /\ connections'[n].replayed = connections[n].replayed
            /\ connections'[n].leaves = connections[n].leaves
            /\ \A s \in Subscriptions :
                connections'[n].joins[s] = IF n = index[h] /\ s \in op[h].value
                                            THEN connections[n].joins[s] + 1
                                            ELSE connections[n].joins[s]
  BY <1>1, <1>4, JoinRecorded
<1>6. FakeTyped'
  BY <1>2, <1>3, <1>5 DEF FakeIInv, FakeTyped, OpTyped, FS!wishVars, FS!eventVars
<1>7. Connected'
  BY <1>2, <1>3, <1>5 DEF FakeIInv, Connected
<1>8. LossesBounded'
  BY <1>2, <1>3, EventsAside
<1>9. Balanced'
  <2>. SUFFICES ASSUME FS!Current' > 0, connections'[FS!Current'].replayed,
                       \A g \in Handles : ~ behind'[g], NEW r \in Subscriptions
                PROVE  connections'[FS!Current'].joins[r] + Cardinality(Joining(r)')
                         = connections'[FS!Current'].leaves[r] + Cardinality(Leaving(r)')
                             + Cardinality(FS!Wanting(r)')
    BY DEF Balanced
  <2>0. FS!Current' = FS!Current /\ FS!Current = Len(connections) /\ FS!Current > 0 /\ FS!Current \in 1..Len(connections)
    BY <1>4, <1>5 DEF FS!Current
  <2>1. connections[FS!Current].joins[r] \in Int /\ connections[FS!Current].leaves[r] \in Int
    BY <1>1, <2>0, Lasts
  <2>2. connections[FS!Current].replayed
    BY <1>5, <2>0
  <2>3. connections[FS!Current].joins[r] + Cardinality(Joining(r))
              = connections[FS!Current].leaves[r] + Cardinality(Leaving(r)) + Cardinality(FS!Wanting(r))
    BY <1>3, <2>0, <2>2 DEF FakeIInv, Balanced
  <2>4. Leaving(r)' = Leaving(r) /\ FS!Wanting(r)' = FS!Wanting(r)
    BY <1>1, <1>2, <1>3, <2>0 DEF Leaving, FS!Wanting, FS!Live, FS!wishVars
  <2>7. FS!Current' = FS!Current
    BY <2>0
  <2>5. CASE index[h] = FS!Current /\ r \in op[h].value
    <3>1. Joining(r)' = Joining(r) \ {h} /\ h \in Joining(r)
      BY <1>1, <1>2, <1>3, <2>0, <2>5 DEF Joining
    <3>2. Cardinality(Joining(r)') = Cardinality(Joining(r)) - 1
      BY <3>1, Loses, Members
    <3>3. /\ connections'[FS!Current].joins[r] = connections[FS!Current].joins[r] + 1
          /\ connections'[FS!Current].leaves[r] = connections[FS!Current].leaves[r]
      BY <1>5, <2>0, <2>5
    <3>4. /\ Cardinality(Joining(r)) \in Nat /\ Cardinality(Leaving(r)) \in Nat
          /\ Cardinality(FS!Wanting(r)) \in Nat
      BY Members
    <3>. QED
      BY <2>7, <2>1, <2>3, <2>4, <3>2, <3>3, <3>4
  <2>6. CASE ~ (index[h] = FS!Current /\ r \in op[h].value)
    <3>1. Joining(r)' = Joining(r)
      BY <1>1, <1>2, <1>3, <2>0, <2>6 DEF Joining
    <3>2. /\ connections'[FS!Current].joins[r] = connections[FS!Current].joins[r]
          /\ connections'[FS!Current].leaves[r] = connections[FS!Current].leaves[r]
      BY <1>5, <2>0, <2>6
    <3>. QED
      BY <2>0, <2>3, <2>4, <3>1, <3>2
  <2>. QED
    BY <2>5, <2>6
<1>. QED
  BY <1>6, <1>7, <1>8, <1>9 DEF FakeIInv

LEMMA LeavesStep == ASSUME FakeIInv, NEW h \in Handles, FS!RecordLeaves(h) PROVE FakeIInv'
<1>1. /\ FakeTyped /\ op' = [op EXCEPT ![h] = [at |-> "idle", value |-> {}]]
      /\ "idle" \in Places /\ {} \in SUBSET Subscriptions
      /\ op[h].at = "leaving"
  BY DEF FakeIInv, FS!RecordLeaves, FS!Idle, Places
<1>2. /\ OpTyped' /\ op'[h].at = "idle"
      /\ \A g \in Handles : g # h => op'[g] = op[g]
  BY <1>1, OpMoves
<1>3. UNCHANGED <<made, index, behind, FS!wishVars, FS!eventVars>>
  BY DEF FS!RecordLeaves
<1>4. index[h] \in 1..Len(connections) /\ Len(connections) \in Nat
  BY <1>1, LenProperties DEF FakeIInv, Connected, FakeTyped
<1>5. /\ connections' \in Seq(Records)
      /\ Len(connections') = Len(connections)
      /\ \A n \in 1..Len(connections) :
            /\ connections'[n].replayed = connections[n].replayed
            /\ connections'[n].joins = connections[n].joins
            /\ \A s \in Subscriptions :
                connections'[n].leaves[s] = IF n = index[h] /\ s \in op[h].value
                                            THEN connections[n].leaves[s] + 1
                                            ELSE connections[n].leaves[s]
  BY <1>1, <1>4, LeavesRecorded
<1>6. FakeTyped'
  BY <1>2, <1>3, <1>5 DEF FakeIInv, FakeTyped, OpTyped, FS!wishVars, FS!eventVars
<1>7. Connected'
  BY <1>2, <1>3, <1>5 DEF FakeIInv, Connected
<1>8. LossesBounded'
  BY <1>2, <1>3, EventsAside
<1>9. Balanced'
  <2>. SUFFICES ASSUME FS!Current' > 0, connections'[FS!Current'].replayed,
                       \A g \in Handles : ~ behind'[g], NEW r \in Subscriptions
                PROVE  connections'[FS!Current'].joins[r] + Cardinality(Joining(r)')
                         = connections'[FS!Current'].leaves[r] + Cardinality(Leaving(r)')
                             + Cardinality(FS!Wanting(r)')
    BY DEF Balanced
  <2>0. FS!Current' = FS!Current /\ FS!Current = Len(connections) /\ FS!Current > 0 /\ FS!Current \in 1..Len(connections)
    BY <1>4, <1>5 DEF FS!Current
  <2>1. connections[FS!Current].joins[r] \in Int /\ connections[FS!Current].leaves[r] \in Int
    BY <1>1, <2>0, Lasts
  <2>2. connections[FS!Current].replayed
    BY <1>5, <2>0
  <2>3. connections[FS!Current].joins[r] + Cardinality(Joining(r))
              = connections[FS!Current].leaves[r] + Cardinality(Leaving(r)) + Cardinality(FS!Wanting(r))
    BY <1>3, <2>0, <2>2 DEF FakeIInv, Balanced
  <2>4. Joining(r)' = Joining(r) /\ FS!Wanting(r)' = FS!Wanting(r)
    BY <1>1, <1>2, <1>3, <2>0 DEF Joining, FS!Wanting, FS!Live, FS!wishVars
  <2>7. FS!Current' = FS!Current
    BY <2>0
  <2>5. CASE index[h] = FS!Current /\ r \in op[h].value
    <3>1. Leaving(r)' = Leaving(r) \ {h} /\ h \in Leaving(r)
      BY <1>1, <1>2, <1>3, <2>0, <2>5 DEF Leaving
    <3>2. Cardinality(Leaving(r)') = Cardinality(Leaving(r)) - 1
      BY <3>1, Loses, Members
    <3>3. /\ connections'[FS!Current].leaves[r] = connections[FS!Current].leaves[r] + 1
          /\ connections'[FS!Current].joins[r] = connections[FS!Current].joins[r]
      BY <1>5, <2>0, <2>5
    <3>4. /\ Cardinality(Leaving(r)) \in Nat /\ Cardinality(Joining(r)) \in Nat
          /\ Cardinality(FS!Wanting(r)) \in Nat
      BY Members
    <3>. QED
      BY <2>7, <2>1, <2>3, <2>4, <3>2, <3>3, <3>4
  <2>6. CASE ~ (index[h] = FS!Current /\ r \in op[h].value)
    <3>1. Leaving(r)' = Leaving(r)
      BY <1>1, <1>2, <1>3, <2>0, <2>6 DEF Leaving
    <3>2. /\ connections'[FS!Current].joins[r] = connections[FS!Current].joins[r]
          /\ connections'[FS!Current].leaves[r] = connections[FS!Current].leaves[r]
      BY <1>5, <2>0, <2>6
    <3>. QED
      BY <2>0, <2>3, <2>4, <3>1, <3>2
  <2>. QED
    BY <2>5, <2>6
<1>. QED
  BY <1>6, <1>7, <1>8, <1>9 DEF FakeIInv

----------------------------------------------------------------------------
(* Waiting, and events. *)

\* Steps of one handle that changes neither connections nor wishes.
LEMMA Elsewhere ==
    ASSUME FakeIInv, NEW h \in Handles, NEW place \in Places,
           place \notin {"joining", "leaving"}, op[h].at \notin {"joining", "leaving"},
           op' = [op EXCEPT ![h] = [at |-> place, value |-> {}]],
           UNCHANGED <<FS!recordVars, subscriptions, shutdown>>,
           queue' \in [Handles -> Nat], dropped' \in [Handles -> Nat], UNCHANGED refused,
           \A g \in Handles \ {h} : queue'[g] = queue[g] /\ dropped'[g] = dropped[g],
           place = "receiving" /\ queue'[h] = 0 => dropped'[h] = 0
    PROVE  FakeIInv'
<1>1. FakeTyped /\ {} \in SUBSET Subscriptions
  BY DEF FakeIInv
<1>2. /\ OpTyped' /\ op'[h].at = place
      /\ \A g \in Handles : g # h => op'[g] = op[g]
  BY <1>1, OpMoves
<1>3. \A g \in Handles :
        \/ op'[g] = op[g]
        \/ op[g].at \notin {"joining", "leaving"} /\ op'[g].at \notin {"joining", "leaving"}
  BY <1>2
<1>4. FakeTyped' /\ Connected' /\ Balanced'
  <2>1. EventsTyped'
    BY <1>1 DEF EventsTyped, FakeTyped
  <2>. QED
    BY <1>2, <1>3, <2>1, Quiet
<1>5. LossesBounded'
  <2>. SUFFICES ASSUME NEW g \in Handles, op'[g].at = "receiving", queue'[g] = 0
                PROVE  dropped'[g] + Cardinality(Uncounted(g)') <= Cardinality(Emitters)
    BY DEF LossesBounded
  <2>1. Uncounted(g)' = Uncounted(g)
    BY DEF Uncounted
  <2>2. CASE g = h
    <3>1. dropped'[g] = 0
      BY <1>2, <2>2
    <3>. QED
      BY <2>1, <3>1, Emitting
  <2>3. CASE g # h
    BY <1>2, <2>1, <2>3 DEF FakeIInv, LossesBounded
  <2>. QED
    BY <2>2, <2>3
<1>. QED
  BY <1>4, <1>5 DEF FakeIInv

LEMMA WaitingSteps ==
    ASSUME FakeIInv, NEW h \in Handles, FS!Park(h) \/ FS!GiveUp(h)
    PROVE  FakeIInv'
<1>1. PICK place \in {"parked", "idle"} : op' = [op EXCEPT ![h] = [at |-> place, value |-> {}]]
  BY DEF FS!Park, FS!GiveUp, FS!At, FS!Idle
<1>2. /\ UNCHANGED <<FS!recordVars, subscriptions, shutdown, queue, dropped, refused>>
      /\ op[h].at \notin {"joining", "leaving"}
  BY DEF FS!Park, FS!GiveUp, FS!wishVars, FS!eventVars
<1>3. queue \in [Handles -> Nat] /\ dropped \in [Handles -> Nat]
  BY DEF FakeIInv, FakeTyped
<1>. QED
  BY <1>1, <1>2, <1>3, Elsewhere DEF Places

\* What leaves operations, wishes and connections alone.
LEMMA EmitterSteps ==
    ASSUME FakeIInv, UNCHANGED <<FS!recordVars, FS!wishVars, op>>, EventsTyped', LossesBounded'
    PROVE  FakeIInv'
<1>1. OpTyped' /\ op' = op /\ UNCHANGED <<FS!recordVars, subscriptions, shutdown>>
  BY DEF FakeIInv, FakeTyped, OpTyped, FS!wishVars
<1>. QED
  BY <1>1, Quiet DEF FakeIInv

LEMMA EmitStep ==
    ASSUME FakeIInv, NEW e \in Emitters, NEW k \in FS!Kinds, FS!Emit(e, k)
    PROVE  FakeIInv'
<1>1. UNCHANGED <<queue, dropped, refused, FS!recordVars, FS!wishVars, op>>
  BY DEF FS!Emit
<1>2. \A h : Uncounted(h)' = Uncounted(h)
  BY <1>1 DEF Uncounted
<1>3. EventsTyped' /\ LossesBounded'
  BY <1>1, <1>2 DEF FakeIInv, FakeTyped, EventsTyped, LossesBounded
<1>. QED
  BY <1>1, <1>3, EmitterSteps

\* A full queue is not empty.
LEMMA SendStep ==
    ASSUME FakeIInv, NEW e \in Emitters, NEW h \in Handles, FS!Send(e, h)
    PROVE  FakeIInv'
<1>1. UNCHANGED <<dropped, FS!recordVars, FS!wishVars, op>> /\ EventsTyped
  BY DEF FS!Send, FakeIInv, FakeTyped, EventsTyped
<1>2. CASE queue[h] < Capacity
  <2>1. queue' = [queue EXCEPT ![h] = queue[h] + 1] /\ UNCHANGED refused
    BY <1>2 DEF FS!Send
  <2>2. EventsTyped' /\ \A g \in Handles : queue'[g] = 0 => queue[g] = 0
    BY <1>1, <2>1 DEF EventsTyped
  <2>3. \A g : Uncounted(g)' = Uncounted(g)
    BY <2>1 DEF Uncounted
  <2>4. LossesBounded'
    BY <1>1, <2>2, <2>3 DEF FakeIInv, LossesBounded
  <2>. QED
    BY <1>1, <2>2, <2>4, EmitterSteps
<1>3. CASE ~ (queue[h] < Capacity)
  <2>1. refused' = [refused EXCEPT ![e] = {h}] /\ UNCHANGED queue
    BY <1>3 DEF FS!Send
  <2>2. EventsTyped' /\ queue[h] # 0
    BY <1>1, <1>3, <2>1, FakeAssumption DEF EventsTyped
  <2>3. \A g \in Handles : g # h => Uncounted(g)' \subseteq Uncounted(g)
    BY <1>1, <2>1 DEF Uncounted, EventsTyped
  <2>4. LossesBounded'
    <3>. SUFFICES ASSUME NEW g \in Handles, op'[g].at = "receiving", queue'[g] = 0
                  PROVE  dropped'[g] + Cardinality(Uncounted(g)') <= Cardinality(Emitters)
      BY DEF LossesBounded
    <3>1. g # h /\ dropped'[g] = dropped[g] /\ dropped[g] \in Nat
      BY <1>1, <2>1, <2>2 DEF EventsTyped
    <3>2. dropped[g] + Cardinality(Uncounted(g)) <= Cardinality(Emitters)
      BY <1>1, <2>1 DEF FakeIInv, LossesBounded
    <3>3. /\ Cardinality(Uncounted(g)') <= Cardinality(Uncounted(g))
          /\ Cardinality(Uncounted(g)') \in Nat
      <4>1. Uncounted(g)' \in SUBSET Uncounted(g)
        BY <2>3, <3>1
      <4>. QED
        BY <4>1, Emitting, FS_Subset, FS_CardinalityType
    <3>. QED
      BY <3>1, <3>2, <3>3, Emitting
  <2>. QED
    BY <1>1, <2>2, <2>4, EmitterSteps
<1>. QED
  BY <1>2, <1>3

\* A loss is counted: the consumer knows as little of it as before.
LEMMA CountStep ==
    ASSUME FakeIInv, NEW e \in Emitters, NEW h \in Handles, FS!CountDrop(e, h)
    PROVE  FakeIInv'
<1>1. UNCHANGED <<queue, FS!recordVars, FS!wishVars, op>> /\ EventsTyped
  BY DEF FS!CountDrop, FakeIInv, FakeTyped, EventsTyped
<1>2. /\ h \in refused[e] /\ refused' = [refused EXCEPT ![e] = {}]
      /\ dropped' = [dropped EXCEPT ![h] = dropped[h] + 1]
  BY DEF FS!CountDrop
<1>3. EventsTyped'
  BY <1>1, <1>2 DEF EventsTyped
<1>4. LossesBounded'
  <2>. SUFFICES ASSUME NEW g \in Handles, op'[g].at = "receiving", queue'[g] = 0
                PROVE  dropped'[g] + Cardinality(Uncounted(g)') <= Cardinality(Emitters)
    BY DEF LossesBounded
  <2>1. dropped[g] + Cardinality(Uncounted(g)) <= Cardinality(Emitters)
    BY <1>1 DEF FakeIInv, LossesBounded
  <2>2. Uncounted(g)' = Uncounted(g) \ {e}
    BY <1>1, <1>2 DEF Uncounted, EventsTyped
  <2>3. CASE g = h
    <3>1. e \in Uncounted(g) /\ dropped'[g] = dropped[g] + 1 /\ dropped[g] \in Nat
      BY <1>1, <1>2, <2>3 DEF Uncounted, EventsTyped
    <3>2. Cardinality(Uncounted(g)') = Cardinality(Uncounted(g)) - 1
      BY <2>2, <3>1, Emitting, FS_RemoveElement
    <3>. QED
      BY <2>1, <3>1, <3>2, Emitting
  <2>4. CASE g # h
    <3>1. dropped'[g] = dropped[g] /\ dropped[g] \in Nat
      BY <1>1, <1>2, <2>4 DEF EventsTyped
    <3>2. /\ Cardinality(Uncounted(g)') <= Cardinality(Uncounted(g))
          /\ Cardinality(Uncounted(g)') \in Nat
      <4>1. Uncounted(g)' \in SUBSET Uncounted(g)
        BY <2>2
      <4>. QED
        BY <4>1, Emitting, FS_Subset, FS_CardinalityType
    <3>. QED
      BY <2>1, <3>1, <3>2, Emitting
  <2>. QED
    BY <2>3, <2>4
<1>. QED
  BY <1>1, <1>3, <1>4, EmitterSteps

LEMMA EventStep == ASSUME FakeIInv, NEW h \in Handles, FS!NextEvent(h) PROVE FakeIInv'
<1>1. /\ queue \in [Handles -> Nat] /\ dropped \in [Handles -> Nat]
      /\ op \in [Handles -> [at : Places, value : SUBSET Subscriptions]]
  BY DEF FakeIInv, FakeTyped
<1>2. CASE FS!Poll(h)
  <2>1. /\ op[h] = [at |-> "idle", value |-> {}] /\ op[h].at = "idle"
        /\ UNCHANGED <<FS!recordVars, subscriptions, shutdown, dropped, refused>>
    BY <1>2 DEF FS!Poll, FS!Idle, FS!wishVars
  <2>2. CASE queue[h] > 0
    <3>1. /\ queue' \in [Handles -> Nat]
          /\ \A g \in Handles \ {h} : queue'[g] = queue[g]
      BY <1>1, <1>2, <2>2 DEF FS!Poll
    <3>2. op' = [op EXCEPT ![h] = [at |-> "idle", value |-> {}]]
      BY <1>1, <1>2, <2>1, <2>2 DEF FS!Poll
    <3>. QED
      BY <1>1, <2>1, <3>1, <3>2, Elsewhere DEF Places
  <2>3. CASE ~ (queue[h] > 0)
    <3>1. UNCHANGED queue /\ op' = [op EXCEPT ![h] = [at |-> "polled", value |-> {}]]
      BY <1>2, <2>3 DEF FS!Poll, FS!At
    <3>. QED
      BY <1>1, <2>1, <3>1, Elsewhere DEF Places
  <2>. QED
    BY <2>2, <2>3
<1>3. CASE FS!TakeDropped(h)
  <2>1. PICK place \in {"idle", "receiving"} : op' = [op EXCEPT ![h] = [at |-> place, value |-> {}]]
    BY <1>3 DEF FS!TakeDropped, FS!Idle, FS!At
  <2>2. /\ dropped' \in [Handles -> Nat] /\ dropped'[h] = 0
        /\ \A g \in Handles \ {h} : dropped'[g] = dropped[g]
        /\ op[h].at = "polled" /\ UNCHANGED <<FS!recordVars, subscriptions, shutdown, queue, refused>>
    BY <1>1, <1>3 DEF FS!TakeDropped, FS!wishVars
  <2>. QED
    BY <1>1, <2>1, <2>2, Elsewhere DEF Places
<1>4. CASE FS!Receive(h)
  <2>1. /\ queue' \in [Handles -> Nat]
        /\ \A g \in Handles \ {h} : queue'[g] = queue[g]
        /\ op' = [op EXCEPT ![h] = [at |-> "idle", value |-> {}]]
        /\ op[h].at = "receiving" /\ UNCHANGED <<FS!recordVars, subscriptions, shutdown, dropped, refused>>
    BY <1>1, <1>4 DEF FS!Receive, FS!Idle, FS!wishVars
  <2>. QED
    BY <1>1, <2>1, Elsewhere DEF Places
<1>. QED
  BY <1>2, <1>3, <1>4 DEF FS!NextEvent

----------------------------------------------------------------------------

LEMMA FakeInit == FS!Init => FakeIInv
<1>. SUFFICES ASSUME FS!Init PROVE FakeIInv
  OBVIOUS
<1>1. FakeTyped
  BY DEF FS!Init, FakeTyped, FS!Idle, Places
<1>2. Connected /\ Balanced /\ LossesBounded
  BY DEF FS!Init, Connected, Balanced, FS!Current, LossesBounded, FS!Idle
<1>. QED
  BY <1>1, <1>2 DEF FakeIInv

LEMMA FakeNext == FakeIInv /\ [FS!Next]_FS!fakeVars => FakeIInv'
<1>. SUFFICES ASSUME FakeIInv, [FS!Next]_FS!fakeVars PROVE FakeIInv'
  OBVIOUS
<1>1. CASE FS!AllowNextConnection
  BY <1>1, AllowStep
<1>2. ASSUME NEW h \in Handles,
             \/ FS!Connect(h) \/ FS!Shutdown(h) \/ FS!RecordJoin(h) \/ FS!RecordLeaves(h)
             \/ FS!Reconnect(h) \/ FS!NextEvent(h)
             \/ \E s \in Subscriptions : FS!Subscribe(h, s) \/ FS!Unsubscribe(h, s)
      PROVE  FakeIInv'
  <2>1. CASE FS!Connect(h) \/ FS!Shutdown(h) \/ FS!RecordJoin(h) \/ FS!RecordLeaves(h)
    BY <2>1, ConnectStep, ShutdownStep, JoinStep, LeavesStep
  <2>2. CASE FS!Reconnect(h) \/ FS!NextEvent(h)
    BY <2>2, WaitStep, WaitingSteps, EventStep DEF FS!Reconnect
  <2>3. CASE \E s \in Subscriptions : FS!Subscribe(h, s) \/ FS!Unsubscribe(h, s)
    BY <2>3, SubscribeStep, UnsubscribeStep
  <2>. QED
    BY <1>2, <2>1, <2>2, <2>3
<1>3. ASSUME NEW e \in Emitters,
             \/ \E k \in FS!Kinds : FS!Emit(e, k)
             \/ \E h \in Handles : FS!Send(e, h) \/ FS!CountDrop(e, h)
      PROVE  FakeIInv'
  BY <1>3, EmitStep, SendStep, CountStep
<1>4. CASE UNCHANGED FS!fakeVars
  BY <1>4 DEF FS!fakeVars, FS!recordVars, FS!wishVars, FS!eventVars, FakeIInv, FakeTyped, Connected,
       Balanced, LossesBounded, Uncounted, FS!Current, Joining, Leaving, FS!Wanting, FS!Live
<1>. QED
  BY <1>1, <1>2, <1>3, <1>4 DEF FS!Next

\* With no change under way nothing is pending.
LEMMA SettledBalances == FakeIInv => FS!ReplayBalances
<1>. SUFFICES ASSUME FakeIInv, FS!Current > 0, connections[FS!Current].replayed,
                     \A h \in Handles : ~ behind[h] /\ (op[h].value = {} \/ index[h] < FS!Current),
                     NEW s \in Subscriptions
              PROVE  connections[FS!Current].joins[s] - connections[FS!Current].leaves[s]
                        = Cardinality(FS!Wanting(s))
  BY SameFinite DEF FS!ReplayBalances
<1>1. connections[FS!Current].joins[s] + Cardinality(Joining(s))
        = connections[FS!Current].leaves[s] + Cardinality(Leaving(s)) + Cardinality(FS!Wanting(s))
  BY DEF FakeIInv, Balanced
<1>2. index \in [Handles -> Nat] /\ FS!Current \in Nat
  BY LenProperties DEF FakeIInv, FakeTyped, FS!Current
<1>3. Joining(s) = {} /\ Leaving(s) = {}
  BY <1>2 DEF Joining, Leaving
<1>4. Cardinality(Joining(s)) = 0 /\ Cardinality(Leaving(s)) = 0
  BY <1>3, FS_EmptySet
<1>5. /\ connections[FS!Current].joins[s] \in Int /\ connections[FS!Current].leaves[s] \in Int
      /\ Cardinality(FS!Wanting(s)) \in Nat
  BY Lasts, Members DEF FakeIInv
<1>. QED
  BY <1>1, <1>4, <1>5

(* On a replayed connection each subscription is joined once for each      *)
(* handle that wants it, whatever joins, leaves and reconnections          *)
(* interleave (src/streaming/testing.rs:69).                               *)
THEOREM ReplaysBalance == FS!Spec => []FS!ReplayBalances
  BY FakeInit, FakeNext, SettledBalances, PTL DEF FS!Spec

(* A consumer that waits at an empty queue knows of every loss but one of  *)
(* each task that emits (src/streaming/testing.rs:331).                    *)
THEOREM LossesAreTold == FS!Spec => []FS!ParkedLossBounded
<1>1. FakeIInv => FS!ParkedLossBounded
  <2>. SUFFICES ASSUME FakeIInv, NEW h \in Handles, op[h].at = "receiving", queue[h] = 0
                PROVE  dropped[h] <= FS!Cardinality(Emitters)
    BY DEF FS!ParkedLossBounded
  <2>1. dropped[h] + Cardinality(Uncounted(h)) <= Cardinality(Emitters) /\ dropped[h] \in Nat
    BY DEF FakeIInv, FakeTyped, LossesBounded
  <2>. QED
    BY <2>1, SameFinite, Emitting
<1>. QED
  BY FakeInit, FakeNext, <1>1, PTL DEF FS!Spec

----------------------------------------------------------------------------
(* Codec: no decoder panics, for any bound on depth rows, any number of    *)
(* columns left out and any cell garbled.                                  *)
(*                                                                         *)
(* The argument: each layout that is read without a check ends before the  *)
(* length that was compared beforehand, and whatever happens to a frame it *)
(* stays a sequence of cells, so that its length is a number.              *)

Types ==
    {"text", "symbol", "money", "count", "exchange", "right", "interval", "equity", "fno",
     "garbled", "other interval"}

Shapes == Types \cup {"row", "rows"}

Scalars   == [is : Types, column : Int, row : {<<>>}]
RowCells  == [is : Shapes, column : Int, row : Seq(Scalars)]
AnyCells  == [is : Shapes, column : Int, row : Seq(RowCells)]

Channels == {"tick", "order", "fno", "equity", "candle"}

(* A text is a row without cells, and a row an array without rows. *)
LEMMA CellsNest == Scalars \subseteq RowCells /\ RowCells \subseteq AnyCells
<1>0. <<>> \in Seq(Scalars)
  OBVIOUS
<1>1. Scalars \subseteq RowCells
  BY <1>0 DEF Scalars, RowCells, Shapes
<1>2. Seq(Scalars) \subseteq Seq(RowCells)
  BY <1>1
<1>. QED
  BY <1>1, <1>2 DEF RowCells, AnyCells

(* With at() no index is outside the frame. *)
LEMMA CheckedNotPanic == \A cells, layout : CD!Checked(cells, layout) # CD!Panic
  BY DEF CD!Checked, CD!Panic, CD!Error

LEMMA EventNotPanic ==
    ASSUME NEW fields, NEW levels, fields # CD!Panic, CD!Panic \notin levels
    PROVE  CD!Event(fields, levels) # CD!Panic
  BY DEF CD!Event, CD!Panic, CD!Error

LEMMA IndexedNotPanic ==
    ASSUME NEW cells, NEW layout, \A name \in DOMAIN layout : CD!Holds(cells, layout[name])
    PROVE  CD!Indexed(cells, layout) # CD!Panic
  BY CheckedNotPanic DEF CD!Indexed

(* The width that is checked covers the layout that is read. *)
LEMMA LevelNotPanic ==
    ASSUME NEW rows, NEW i, NEW width, NEW layout,
           CD!array(rows[i]) /\ width =>
                \A name \in DOMAIN layout : CD!Holds(rows[i].row, layout[name])
    PROVE  CD!Level(rows, i, width, layout) # CD!Panic
  BY IndexedNotPanic DEF CD!Level, CD!Error, CD!Panic

LEMMA QuoteTotal == \A q, cells : CD!decode_quote(q, cells) # CD!Panic
  BY CheckedNotPanic, EventNotPanic DEF CD!decode_quote, CD!Error, CD!Panic

(* A row of a book is read to the seventh cell, or the sixth or fourth. *)
LEMMA DepthTotal ==
    ASSUME NEW q, NEW cells \in Seq(AnyCells)
    PROVE  CD!decode_depth(q, cells) # CD!Panic
<1>. DEFINE exchange == CD!exchange_from_qualifier(q)
            rows == CD!Cell(cells, 2).row
            DepthLevel(i) == CD!Level(rows, i, CD!DepthWidth(exchange, Len(rows[i].row)),
                               CD!DepthLayout(exchange))
<1>. SUFFICES ASSUME CD!Holds(cells, 2) PROVE CD!decode_depth(q, cells) # CD!Panic
  BY DEF CD!decode_depth, CD!Error, CD!Panic
<1>1. rows \in Seq(RowCells)
  <2>1. 3 \in 1..Len(cells)
    BY DEF CD!Holds
  <2>2. cells[3] \in AnyCells
    BY <2>1, ElementOfSeq
  <2>. QED
    BY <2>2 DEF CD!Cell, AnyCells
<1>2. ASSUME NEW i \in DOMAIN rows PROVE DepthLevel(i) # CD!Panic
  <2>1. rows[i] \in RowCells
    BY <1>1, <1>2, LenProperties, ElementOfSeq
  <2>2. Len(rows[i].row) \in Nat
    BY <2>1, LenProperties DEF RowCells
  <2>. DEFINE n == Len(rows[i].row)
  <2>3. \A name \in DOMAIN CD!DepthLayout(exchange) :
            CD!DepthWidth(exchange, n) => CD!DepthLayout(exchange)[name] < n
    <3>. HIDE DEF n, exchange
    <3>1. CASE exchange = "Bse"
      BY <3>1 DEF CD!DepthLayout, CD!DepthWidth
    <3>2. CASE exchange = "Bfo"
      BY <3>2 DEF CD!DepthLayout, CD!DepthWidth
    <3>3. CASE exchange # "Bse" /\ exchange # "Bfo"
      BY <2>2, <3>3 DEF CD!DepthLayout, CD!DepthWidth, n
    <3>. QED
      BY <3>1, <3>2, <3>3
  <2>. QED
    BY <2>3, LevelNotPanic DEF CD!Holds
<1>3. CD!Event(CD!Checked(cells, <<>>), {DepthLevel(i) : i \in DOMAIN rows}) # CD!Panic
  BY <1>2, CheckedNotPanic, EventNotPanic
<1>. QED
  BY <1>3 DEF CD!decode_depth, CD!Error, CD!Panic

(* The 22 cells are looked for before they are read. *)
LEMMA CommodityTotal ==
    ASSUME NEW cells \in Seq(AnyCells)
    PROVE  CD!decode_commodity(cells) # CD!Panic
<1>. SUFFICES ASSUME ~ (Len(cells) < 22) PROVE CD!Book(cells) # CD!Panic
  BY DEF CD!decode_commodity, CD!Error, CD!Panic
<1>. DEFINE rows == SubSeq(cells, 23, Len(cells))
            BookLevel(i) == CD!Level(rows, i, Len(rows[i].row) = 8, CD!CommodityRow)
<1>1. CD!Indexed(cells, CD!CommodityQuote) # CD!Panic
  <2>1. 5 < Len(cells) /\ 17 < Len(cells)
    BY LenProperties
  <2>. QED
    BY <2>1, IndexedNotPanic DEF CD!CommodityQuote, CD!Holds
<1>2. ASSUME NEW i PROVE BookLevel(i) # CD!Panic
  <2>. HIDE DEF rows
  <2>1. \A name \in DOMAIN CD!CommodityRow : CD!CommodityRow[name] < 8
    BY DEF CD!CommodityRow
  <2>2. CD!array(rows[i]) /\ Len(rows[i].row) = 8 =>
            \A name \in DOMAIN CD!CommodityRow : CD!Holds(rows[i].row, CD!CommodityRow[name])
    BY <2>1 DEF CD!Holds
  <2>3. CD!array(rows[i]) /\ Len(rows[i].row) = 8 => CD!Indexed(rows[i].row, CD!CommodityRow) # CD!Panic
    BY <2>2, IndexedNotPanic
  <2>. QED
    BY <2>3 DEF CD!Level, CD!Error, CD!Panic
<1>3. CD!Event(CD!Indexed(cells, CD!CommodityQuote), {BookLevel(i) : i \in DOMAIN rows}) # CD!Panic
  BY <1>1, <1>2, EventNotPanic
<1>. QED
  BY <1>3 DEF CD!Book, CD!Error, CD!Panic

LEMMA TickTotal ==
    ASSUME NEW q, NEW data, NEW cells \in Seq(AnyCells)
    PROVE  CD!decode_tick(q, data, cells) # CD!Panic
  BY QuoteTotal, DepthTotal, CommodityTotal DEF CD!decode_tick, CD!Error, CD!Panic, CD!Unknown

LEMMA OrderTotal == \A cells : CD!decode_order_notification(cells) # CD!Panic
  BY CheckedNotPanic, EventNotPanic DEF CD!decode_order_notification, CD!Error, CD!Panic

(* A layout within the length of the frame is read without a check. *)
LEMMA FitsNotPanic ==
    ASSUME NEW cells, NEW layout, NEW n,
           Len(cells) = n, \A name \in DOMAIN layout : layout[name] < n
    PROVE  CD!Event(CD!Indexed(cells, layout), {}) # CD!Panic
<1>1. CD!Indexed(cells, layout) # CD!Panic
  BY IndexedNotPanic DEF CD!Holds
<1>. QED
  BY <1>1, EventNotPanic

LEMMA FnoTotal == \A cells : CD!decode_one_click_fno(cells) # CD!Panic
<1>. DEFINE layout == [strategy |-> 2, stock_code |-> 8, status |-> 27]
<1>1. \A name \in DOMAIN layout : layout[name] < 28
  OBVIOUS
<1>. QED
  BY <1>1, FitsNotPanic DEF CD!decode_one_click_fno, CD!Error, CD!Panic

LEMMA EquityTotal == \A cells : CD!decode_one_click_equity(cells) # CD!Panic
<1>. DEFINE layout == [stock_code |-> 1, subscription_type |-> 18, status |-> 17]
<1>1. \A name \in DOMAIN layout : layout[name] < 19
  OBVIOUS
<1>. QED
  BY <1>1, FitsNotPanic DEF CD!decode_one_click_equity, CD!Error, CD!Panic

LEMMA CandleTotal == \A cells : CD!decode_candle(cells) # CD!Panic
<1>1. ASSUME NEW n \in {9, 11, 13}
      PROVE  \A name \in DOMAIN CD!CandleLayout(n) : CD!CandleLayout(n)[name] < n
  <2>1. CASE n = 9
    BY <2>1 DEF CD!CandleLayout
  <2>2. CASE n = 11
    BY <2>2 DEF CD!CandleLayout
  <2>3. CASE n = 13
    BY <2>3 DEF CD!CandleLayout
  <2>. QED
    BY <2>1, <2>2, <2>3
<1>. QED
  BY <1>1, FitsNotPanic DEF CD!decode_candle, CD!Error, CD!Panic

(* Whatever the cells, a decoder that is asked answers. *)
LEMMA DecodeTotal ==
    ASSUME NEW f, f.channel \in Channels, NEW cells \in Seq(AnyCells)
    PROVE  CD!Decode(f, cells) # CD!Panic
  BY TickTotal, OrderTotal, FnoTotal, EquityTotal, CandleTotal
     DEF CD!Decode, Channels, CD!Error, CD!Panic

(* Frames.                                                                 *)

\* In an array of rows all are of one width.
Even(cell) ==
    cell.is = "rows" =>
        \A r \in DOMAIN cell.row : Len(cell.row[r].row) = Len(cell.row[1].row)

BrokerCells == {c \in AnyCells : Even(c)}

CodecIInv ==
    /\ feed.channel \in Channels
    /\ feed.cells \in Seq(BrokerCells)
    /\ frame \in Seq(AnyCells)
    /\ column \in Nat
    /\ event # CD!Panic

LEMMA ScalarTyped ==
    ASSUME NEW type \in Types, NEW i \in Int
    PROVE  CD!Scalar(type, i) \in Scalars /\ CD!Scalar(type, i) \in BrokerCells
<1>1. CD!Scalar(type, i) \in Scalars
  BY DEF CD!Scalar, Scalars, Types
<1>. QED
  BY <1>1, CellsNest DEF BrokerCells, Even, CD!Scalar, Types

(* What the broker sends is typed, feed by feed. *)
LEMMA CellsTyped ==
    ASSUME NEW types \in Seq(Types)
    PROVE  CD!Cells(types) \in Seq(BrokerCells)
  BY ScalarTyped, LenProperties DEF CD!Cells

LEMMA RowTyped ==
    ASSUME NEW types \in Seq(Types), NEW i \in Int
    PROVE  /\ CD!Row(types, i) \in RowCells /\ CD!Row(types, i) \in BrokerCells
           /\ Len(CD!Row(types, i).row) = Len(types)
<1>1. \A n \in 1..Len(types) : CD!Scalar(types[n], n) \in Scalars
  BY ScalarTyped, ElementOfSeq, LenProperties
<1>2. /\ [n \in DOMAIN types |-> CD!Scalar(types[n], n)] \in Seq(Scalars)
      /\ Len([n \in DOMAIN types |-> CD!Scalar(types[n], n)]) = Len(types)
  BY <1>1, LenProperties
<1>. DEFINE row == [n \in DOMAIN types |-> CD!Scalar(types[n], n)]
<1>3. CD!Row(types, i) = [is |-> "row", column |-> i, row |-> row]
  BY DEF CD!Row
<1>4. row \in Seq(Scalars) /\ Len(row) = Len(types)
  BY <1>2
<1>. HIDE DEF row
<1>5. CD!Row(types, i) \in RowCells /\ CD!Row(types, i).is = "row" /\ CD!Row(types, i).row = row
  BY <1>3, <1>4 DEF RowCells, Shapes
<1>. QED
  BY <1>4, <1>5, CellsNest DEF BrokerCells, Even

LEMMA BrokerRowsTyped ==
    ASSUME NEW n \in Nat, NEW types \in Seq(Types), NEW columns \in Int
    PROVE  /\ CD!BrokerRows(n, types, columns) \in Seq(RowCells)
           /\ CD!BrokerRows(n, types, columns) \in Seq(BrokerCells)
           /\ \A i \in DOMAIN CD!BrokerRows(n, types, columns) :
                Len(CD!BrokerRows(n, types, columns)[i].row) = Len(types)
<1>. DEFINE RowAt(i) == CD!Row(types, columns + i)
            rows == [i \in 1..n |-> RowAt(i)]
<1>1. \A i \in 1..n : /\ RowAt(i) \in RowCells /\ RowAt(i) \in BrokerCells
                      /\ Len(RowAt(i).row) = Len(types)
  BY RowTyped
<1>2. CD!BrokerRows(n, types, columns) = rows
  BY DEF CD!BrokerRows
<1>. HIDE DEF RowAt
<1>3. rows \in Seq(RowCells) /\ rows \in Seq(BrokerCells)
  BY <1>1
<1>4. \A i \in DOMAIN rows : Len(rows[i].row) = Len(types)
  BY <1>1
<1>. HIDE DEF rows
<1>. QED
  BY <1>2, <1>3, <1>4

LEMMA RowsTyped ==
    ASSUME NEW n \in Nat, NEW types \in Seq(Types)
    PROVE  CD!Rows(n, types) \in BrokerCells
<1>. DEFINE rows == CD!BrokerRows(n, types, 0)
<1>1. rows \in Seq(RowCells) /\ \A i \in DOMAIN rows : Len(rows[i].row) = Len(types)
  <2>1. 0 \in Int
    OBVIOUS
  <2>. QED
    BY <2>1, BrokerRowsTyped
<1>2. DOMAIN rows = 1..Len(rows) /\ Len(rows) \in Nat
  BY <1>1, LenProperties
<1>3. \A i \in DOMAIN rows : Len(rows[i].row) = Len(rows[1].row)
  BY <1>1, <1>2
<1>4. CD!Rows(n, types) = [is |-> "rows", column |-> 3, row |-> rows]
  BY DEF CD!Rows
<1>. HIDE DEF rows
<1>. QED
  BY <1>1, <1>3, <1>4 DEF AnyCells, BrokerCells, Even, Shapes

LEMMA TimesTyped ==
    ASSUME NEW n \in Nat, NEW type \in Types
    PROVE  CD!Times(n, type) \in Seq(Types) /\ Len(CD!Times(n, type)) = n
  BY DEF CD!Times

LEMMA QuoteTyped ==
    ASSUME NEW n \in {21, 22, 23}, NEW price \in Types
    PROVE  CD!Cells(CD!Quote(n, price)) \in Seq(BrokerCells)
<1>1. <<"symbol", "text">> \in Seq(Types)
  <2>1. "symbol" \in Types /\ "text" \in Types
    BY DEF Types
  <2>. QED
    BY <2>1
<1>2. CD!Times(n - 2, price) \in Seq(Types)
  BY TimesTyped
<1>3. CD!Quote(n, price) \in Seq(Types)
  BY <1>1, <1>2, ConcatProperties DEF CD!Quote
<1>. QED
  BY <1>3, CellsTyped

LEMMA OrderTyped ==
    ASSUME NEW type \in Types, NEW n \in {25, 28}
    PROVE  CD!Cells(CD!OrderFrame(type, n)) \in Seq(BrokerCells)
<1>. DEFINE s == CD!Times(n, "text")
<1>1. s \in Seq(Types) /\ Len(s) = n
  BY TimesTyped DEF Types
<1>2. [s EXCEPT ![12] = type] \in Seq(Types) /\ Len([s EXCEPT ![12] = type]) = n
  <2>. HIDE DEF s
  <2>. QED
    BY <1>1, ExceptSeq
<1>3. [[s EXCEPT ![12] = type] EXCEPT ![19] = "money"] \in Seq(Types)
  <2>. DEFINE t == [s EXCEPT ![12] = type]
  <2>1. t \in Seq(Types) /\ 19 \in 1..Len(t)
    BY <1>2
  <2>3. "money" \in Types
    BY DEF Types
  <2>. HIDE DEF t
  <2>2. [t EXCEPT ![19] = "money"] \in Seq(Types)
    BY <2>1, <2>3, ExceptSeq
  <2>. QED
    BY <2>2 DEF t
<1>4. CD!OrderFrame(type, n) \in Seq(Types)
  BY <1>3 DEF CD!OrderFrame
<1>. QED
  BY <1>4, CellsTyped

LEMMA CandleTyped ==
    ASSUME NEW price \in Types, NEW c \in CD!CandleFrames(price)
    PROVE  CD!Cells(c) \in Seq(BrokerCells)
<1>1. CD!Times(4, price) \in Seq(Types)
  BY TimesTyped
<1>2. /\ <<"exchange", "text">> \in Seq(Types) /\ <<"exchange", "text", "text">> \in Seq(Types)
      /\ <<"exchange", "text", "text", price, "right">> \in Seq(Types)
      /\ <<"count", "text", "interval">> \in Seq(Types)
      /\ <<"count", "count", "text", "interval">> \in Seq(Types)
  <2>1. /\ "exchange" \in Types /\ "text" \in Types /\ "right" \in Types
        /\ "count" \in Types /\ "interval" \in Types
    BY DEF Types
  <2>. QED
    BY <2>1
<1>. DEFINE ohlc == CD!Times(4, price)
<1>3. ohlc \in Seq(Types)
  BY <1>1
<1>. HIDE DEF ohlc
<1>4. /\ <<"exchange", "text">> \o ohlc \o <<"count", "text", "interval">> \in Seq(Types)
      /\ <<"exchange", "text", "text">> \o ohlc \o <<"count", "count", "text", "interval">>
            \in Seq(Types)
      /\ <<"exchange", "text", "text", price, "right">> \o ohlc
            \o <<"count", "count", "text", "interval">> \in Seq(Types)
  BY <1>2, <1>3, ConcatProperties
<1>5. c \in Seq(Types)
  BY <1>4 DEF CD!CandleFrames, ohlc
<1>. QED
  BY <1>5, CellsTyped

LEMMA DepthRowTyped ==
    ASSUME NEW exchange, NEW price \in Types
    PROVE  CD!DepthRow(exchange, price) \in Seq(Types)
<1>1. /\ <<price, "count", price, "count">> \in Seq(Types)
      /\ <<price, "count", "count", price, "count", "count">> \in Seq(Types)
      /\ <<price, "count", "count", "text", price, "count", "count", "text">> \in Seq(Types)
  <2>1. "count" \in Types /\ "text" \in Types
    BY DEF Types
  <2>. QED
    BY <2>1
<1>. QED
  BY <1>1 DEF CD!DepthRow

(* The feeds, one kind after the other. *)
CandleFeeds(price) ==
    {[channel |-> "candle", cells |-> CD!Cells(c)] : c \in CD!CandleFrames(price)}

QuoteFeeds(price) ==
    {CD!Tick(q, "quotes", CD!Cells(CD!Quote(n, price))) : q \in {1, 4}, n \in {21, 23}}

DepthCells(q, n, price) ==
    CD!Cells(<<"symbol", "text">>)
        \o <<CD!Rows(n, CD!DepthRow(CD!exchange_from_qualifier(q), price))>>

BookSizes == {MaxDepthRows, MaxDepthRows + 1}

DepthFeeds(price) ==
    {CD!Tick(q, "depth", DepthCells(q, n, price)) : q \in {1, 2, 4, 8}, n \in BookSizes}

BookRow(price) == <<"count", price, "count", "count", "count", price, "count", "count">>

CommodityCells(n, price) ==
    CD!Cells(CD!Quote(22, price)) \o CD!BrokerRows(n, BookRow(price), 22)

CommodityFeeds(price) == {CD!Tick(6, "quotes", CommodityCells(n, price)) : n \in BookSizes}

OtherFeeds ==
    {[channel |-> "order", cells |-> CD!Cells(CD!OrderFrame("equity", 25))],
     [channel |-> "order", cells |-> CD!Cells(CD!OrderFrame("fno", 28))],
     [channel |-> "fno", cells |-> CD!Cells(CD!Times(28, "text"))],
     [channel |-> "equity", cells |-> CD!Cells(CD!Times(19, "text"))]}

LEMMA OthersTyped ==
    ASSUME NEW f \in OtherFeeds
    PROVE  f.channel \in Channels /\ f.cells \in Seq(BrokerCells)
<1>1. /\ CD!Cells(CD!OrderFrame("equity", 25)) \in Seq(BrokerCells)
      /\ CD!Cells(CD!OrderFrame("fno", 28)) \in Seq(BrokerCells)
  BY OrderTyped DEF Types
<1>2. /\ CD!Cells(CD!Times(28, "text")) \in Seq(BrokerCells)
      /\ CD!Cells(CD!Times(19, "text")) \in Seq(BrokerCells)
  BY TimesTyped, CellsTyped DEF Types
<1>. QED
  BY <1>1, <1>2 DEF Channels, OtherFeeds

LEMMA DepthTyped ==
    ASSUME NEW q, NEW n \in Nat, NEW price \in Types
    PROVE  DepthCells(q, n, price) \in Seq(BrokerCells)
<1>1. <<"symbol", "text">> \in Seq(Types)
  <2>1. "symbol" \in Types /\ "text" \in Types
    BY DEF Types
  <2>. QED
    BY <2>1
<1>2. CD!Cells(<<"symbol", "text">>) \in Seq(BrokerCells)
  BY <1>1, CellsTyped
<1>. DEFINE rows == CD!Rows(n, CD!DepthRow(CD!exchange_from_qualifier(q), price))
<1>3. <<rows>> \in Seq(BrokerCells)
  BY DepthRowTyped, RowsTyped
<1>. QED
  BY <1>2, <1>3, ConcatProperties DEF DepthCells

LEMMA BookRowTyped ==
    ASSUME NEW price \in Types
    PROVE  BookRow(price) \in Seq(Types) /\ Len(BookRow(price)) = 8
<1>1. "count" \in Types
  BY DEF Types
<1>2. BookRow(price) \in Seq(Types)
  BY <1>1 DEF BookRow
<1>3. Len(BookRow(price)) = 8
  BY DEF BookRow
<1>. QED
  BY <1>2, <1>3

LEMMA CommodityTyped ==
    ASSUME NEW n \in Nat, NEW price \in Types
    PROVE  CommodityCells(n, price) \in Seq(BrokerCells)
<1>1. CD!Cells(CD!Quote(22, price)) \in Seq(BrokerCells)
  BY QuoteTyped
<1>2. BookRow(price) \in Seq(Types) /\ 22 \in Int
  BY BookRowTyped
<1>3. CD!BrokerRows(n, BookRow(price), 22) \in Seq(BrokerCells)
  BY <1>2, BrokerRowsTyped
<1>. QED
  BY <1>1, <1>3, ConcatProperties DEF CommodityCells

LEMMA FeedsAre ==
    ASSUME NEW f \in CD!Feeds
    PROVE  f \in OtherFeeds \/ \E price \in {"money", "count"} :
                \/ f \in CandleFeeds(price) \/ f \in QuoteFeeds(price)
                \/ f \in DepthFeeds(price) \/ f \in CommodityFeeds(price)
<1>1. CD!Feeds = OtherFeeds \cup UNION {CandleFeeds(price) \cup QuoteFeeds(price)
                    \cup DepthFeeds(price) \cup CommodityFeeds(price) : price \in {"money", "count"}}
  BY DEF CD!Feeds, OtherFeeds, CandleFeeds, QuoteFeeds, DepthFeeds, CommodityFeeds, BookRow,
         DepthCells, CommodityCells, BookSizes
<1>. QED
  BY <1>1

LEMMA BookSizesAreNat == BookSizes \subseteq Nat
  BY CodecAssumption DEF BookSizes

LEMMA FeedsTyped == \A f \in CD!Feeds : f.channel \in Channels /\ f.cells \in Seq(BrokerCells)
<1>. SUFFICES ASSUME NEW f \in CD!Feeds
              PROVE  f.channel \in Channels /\ f.cells \in Seq(BrokerCells)
  OBVIOUS
<1>2. CASE f \in OtherFeeds
  BY <1>2, OthersTyped
<1>3. ASSUME NEW price \in {"money", "count"},
             \/ f \in CandleFeeds(price) \/ f \in QuoteFeeds(price)
             \/ f \in DepthFeeds(price) \/ f \in CommodityFeeds(price)
      PROVE  f.channel \in Channels /\ f.cells \in Seq(BrokerCells)
  <2>0. price \in Types
    BY DEF Types
  <2>1. CASE f \in CandleFeeds(price)
    BY <2>0, <2>1, CandleTyped DEF Channels, CandleFeeds
  <2>2. CASE f \in QuoteFeeds(price)
    BY <2>0, <2>2, QuoteTyped DEF Channels, QuoteFeeds, CD!Tick
  <2>3. CASE f \in DepthFeeds(price)
    <3>1. PICK q \in {1, 2, 4, 8}, n \in BookSizes : f = CD!Tick(q, "depth", DepthCells(q, n, price))
      BY <2>3 DEF DepthFeeds
    <3>2. n \in Nat
      BY BookSizesAreNat
    <3>3. DepthCells(q, n, price) \in Seq(BrokerCells)
      BY <2>0, <3>2, DepthTyped
    <3>. QED
      BY <3>1, <3>3 DEF Channels, CD!Tick
  <2>4. CASE f \in CommodityFeeds(price)
    <3>1. PICK n \in BookSizes : f = CD!Tick(6, "quotes", CommodityCells(n, price))
      BY <2>4 DEF CommodityFeeds
    <3>2. n \in Nat
      BY BookSizesAreNat
    <3>3. CommodityCells(n, price) \in Seq(BrokerCells)
      BY <2>0, <3>2, CommodityTyped
    <3>. QED
      BY <3>1, <3>3 DEF Channels, CD!Tick
  <2>. QED
    BY <1>3, <2>1, <2>2, <2>3, <2>4
<1>. QED
  BY <1>2, <1>3, FeedsAre

(* What is left of a sequence that is cut or loses an element. *)
LEMMA Beginnings ==
    ASSUME NEW S, NEW s \in Seq(S), NEW n \in 0..(Len(s) - 1)
    PROVE  SubSeq(s, 1, n) \in Seq(S)
  BY LenProperties, SubSeqProperties

LEMMA Shorter ==
    ASSUME NEW S, NEW s \in Seq(S), NEW n \in 1..Len(s)
    PROVE  CD!RemoveAt(s, n) \in Seq(S)
<1>1. SubSeq(s, 1, n - 1) \in Seq(S) /\ SubSeq(s, n + 1, Len(s)) \in Seq(S)
  BY LenProperties, SubSeqProperties
<1>. QED
  BY <1>1, ConcatProperties DEF CD!RemoveAt

(* What becomes of a cell on its way is still a cell. *)
LEMMA DamagedTyped ==
    ASSUME NEW cell \in BrokerCells, NEW c \in CD!Damaged(cell)
    PROVE  c \in AnyCells
<1>1. cell \in AnyCells /\ cell.column \in Int /\ cell.row \in Seq(RowCells)
  BY DEF BrokerCells, AnyCells
<1>2. \A type \in Types : CD!Scalar(type, cell.column) \in AnyCells
  BY <1>1, ScalarTyped, CellsNest
<1>3. "garbled" \in Types /\ "text" \in Types /\ "other interval" \in Types
  BY DEF Types
<1>4. ASSUME NEW n \in 0..(Len(cell.row) - 1)
      PROVE  [cell EXCEPT !.row = SubSeq(@, 1, n)] \in AnyCells
  <2>1. SubSeq(cell.row, 1, n) \in Seq(RowCells)
    BY <1>1, <1>4, Beginnings
  <2>. QED
    BY <1>1, <2>1 DEF AnyCells
<1>. QED
  BY <1>2, <1>3, <1>4 DEF CD!Damaged

LEMMA NarrowedTyped ==
    ASSUME NEW cell \in BrokerCells, NEW c \in CD!Narrowed(cell)
    PROVE  c \in AnyCells
<1>1. cell \in AnyCells /\ cell.row \in Seq(RowCells)
  BY DEF BrokerCells, AnyCells
<1>2. CASE cell.is = "rows"
  <2>1. PICK n \in 1..Len(cell.row[1].row) :
            c = [cell EXCEPT !.row = [r \in DOMAIN cell.row |-> CD!Without(cell.row[r], n)]]
    BY <1>2 DEF CD!Narrowed
  <2>. DEFINE rows == [r \in DOMAIN cell.row |-> CD!Without(cell.row[r], n)]
  <2>2. ASSUME NEW r \in 1..Len(cell.row) PROVE CD!Without(cell.row[r], n) \in RowCells
    <3>1. cell.row[r] \in RowCells /\ r \in DOMAIN cell.row
      BY <1>1, ElementOfSeq, LenProperties
    <3>2. n \in 1..Len(cell.row[r].row)
      BY <1>2, <3>1 DEF BrokerCells, Even
    <3>3. CD!RemoveAt(cell.row[r].row, n) \in Seq(Scalars)
      BY <3>1, <3>2, Shorter DEF RowCells
    <3>. QED
      BY <3>1, <3>3 DEF RowCells, CD!Without
  <2>3. Len(cell.row) \in Nat /\ DOMAIN cell.row = 1..Len(cell.row)
    BY <1>1, LenProperties
  <2>4. c = [cell EXCEPT !.row = rows]
    BY <2>1
  <2>5. rows \in Seq(RowCells)
    BY <2>2, <2>3
  <2>. HIDE DEF rows
  <2>. QED
    BY <1>1, <2>4, <2>5 DEF AnyCells
<1>3. CASE cell.is # "rows"
  <2>1. PICK n \in DOMAIN cell.row : c = [cell EXCEPT !.row = CD!RemoveAt(@, n)]
    BY <1>3 DEF CD!Narrowed, CD!Without
  <2>2. CD!RemoveAt(cell.row, n) \in Seq(RowCells)
    BY <1>1, <2>1, LenProperties, Shorter
  <2>. QED
    BY <1>1, <2>1, <2>2 DEF AnyCells
<1>. QED
  BY <1>2, <1>3

(* The next cell is one of the broker's. *)
LEMMA NextCell == CodecIInv /\ column < Len(feed.cells) => CD!Next1 \in BrokerCells
<1>. SUFFICES ASSUME CodecIInv, column < Len(feed.cells) PROVE CD!Next1 \in BrokerCells
  OBVIOUS
<1>1. column + 1 \in 1..Len(feed.cells)
  BY LenProperties DEF CodecIInv
<1>. QED
  BY <1>1, ElementOfSeq DEF CodecIInv, CD!Next1

(* A cell that is appended to the frame. *)
LEMMA Appends ==
    ASSUME CodecIInv, column' = column + 1, UNCHANGED <<feed, event>>,
           NEW c \in AnyCells, frame' = Append(frame, c)
    PROVE  CodecIInv'
<1>1. Append(frame, c) \in Seq(AnyCells)
  BY DEF CodecIInv
<1>. QED
  BY <1>1 DEF CodecIInv

LEMMA CodecInit == CD!Init => CodecIInv
<1>1. <<>> \in Seq(AnyCells)
  OBVIOUS
<1>. QED
  BY <1>1, FeedsTyped DEF CD!Init, CodecIInv, CD!Nothing, CD!Panic

LEMMA CodecNext == CodecIInv /\ [CD!Next]_CD!codecVars => CodecIInv'
<1>. SUFFICES ASSUME CodecIInv, [CD!Next]_CD!codecVars PROVE CodecIInv'
  OBVIOUS
<1>1. CASE CD!Write
  <2>1. CD!Next1 \in AnyCells
    BY <1>1, NextCell DEF CD!Write, CD!Column, BrokerCells
  <2>. QED
    BY <1>1, <2>1, Appends DEF CD!Write, CD!Column
<1>2. CASE CD!Omit
  BY <1>2 DEF CD!Omit, CD!Column, CodecIInv
<1>3. CASE CD!Garble
  <2>1. PICK c \in CD!Damaged(CD!Next1) : frame' = Append(frame, c)
    BY <1>3 DEF CD!Garble, CD!Column
  <2>2. c \in AnyCells
    BY <1>3, NextCell, DamagedTyped DEF CD!Garble, CD!Column
  <2>. QED
    BY <1>3, <2>1, <2>2, Appends DEF CD!Garble, CD!Column
<1>4. CASE CD!OmitInRow
  <2>1. PICK c \in CD!Narrowed(CD!Next1) : frame' = Append(frame, c)
    BY <1>4 DEF CD!OmitInRow, CD!Column
  <2>2. c \in AnyCells
    BY <1>4, NextCell, NarrowedTyped DEF CD!OmitInRow, CD!Column
  <2>. QED
    BY <1>4, <2>1, <2>2, Appends DEF CD!OmitInRow, CD!Column
<1>5. CASE CD!Deliver
  BY <1>5, DecodeTotal DEF CD!Deliver, CodecIInv
<1>6. CASE UNCHANGED CD!codecVars
  BY <1>6 DEF CD!codecVars, CodecIInv
<1>. QED
  BY <1>1, <1>2, <1>3, <1>4, <1>5, <1>6 DEF CD!Next

(* No frame, however short or damaged, makes a decoder index outside it    *)
(* (src/streaming/codec.rs:124, :220, :236).                               *)
THEOREM FramesDecode == CD!Spec => []CD!DecodersAreTotal
<1>1. CodecIInv => CD!DecodersAreTotal
  BY DEF CodecIInv, CD!DecodersAreTotal
<1>. QED
  BY CodecInit, CodecNext, <1>1, PTL DEF CD!Spec

----------------------------------------------------------------------------
(* Codec: no field has the value of another column, if at most one is      *)
(* missing.                                                                *)
(*                                                                         *)
(* The argument: a frame has as many cells as columns were dealt with,     *)
(* each made from the cell of its column; or one less, each made from the  *)
(* cell of its column or of the next (Tracks).  In the first case each     *)
(* field of a layout is in its column, and a row of a book that lost one   *)
(* of its own is refused or lost one that is not read.  In the second the  *)
(* frame has the length of no other layout that its cells would satisfy,   *)
(* but for those the property names.                                       *)

(* What is known of the frames the broker means to send. *)
IsOrder(f) ==
    /\ f.channel = "order"
    /\ Len(f.cells) \in {25, 28}
    /\ f.cells[12].is \in {"equity", "fno"}

IsClick(f) ==
    \/ f.channel = "fno" /\ Len(f.cells) = 28
    \/ f.channel = "equity" /\ Len(f.cells) = 19

Intervals == {"interval", "other interval"}

IsCandle(f) ==
    /\ f.channel = "candle"
    /\ Len(f.cells) \in {9, 11, 13}
    /\ \A i \in 1..(Len(f.cells) - 1) : f.cells[i].is \notin Intervals

IsQuote(f) ==
    /\ f.channel = "tick" /\ f.data = "quotes" /\ f.qualifier # 6
    /\ Len(f.cells) \in {21, 23}
    /\ f.cells[1].is = "symbol"

\* The rows of a book as the broker means to send them.
FullRow(exchange, row) ==
    CASE exchange = "Bse" -> Len(row) = 4
      [] exchange = "Bfo" -> Len(row) = 6
      [] OTHER            -> Len(row) = 8 /\ row[8].is = "text"

IsDepth(f) ==
    /\ f.channel = "tick" /\ f.data = "depth"
    /\ Len(f.cells) = 3
    /\ f.cells[1].is = "symbol"
    /\ f.cells[3].is = "rows"
    /\ \A i \in DOMAIN f.cells[3].row :
        FullRow(CD!exchange_from_qualifier(f.qualifier), f.cells[3].row[i].row)

IsCommodity(f) ==
    /\ f.channel = "tick" /\ f.data = "quotes" /\ f.qualifier = 6
    /\ Len(f.cells) >= 22
    /\ f.cells[1].is = "symbol"
    /\ \A i \in 23..Len(f.cells) : f.cells[i].is = "row" /\ Len(f.cells[i].row) = 8

\* The cells are of the columns after the first n, one after the other.
Follows(cells, n) == \A i \in 1..Len(cells) : cells[i].column = n + i

Columns(cells) == Follows(cells, 0)

Shaped(f) ==
    /\ Columns(f.cells)
    /\ \/ IsOrder(f) \/ IsClick(f) \/ IsCandle(f) \/ IsQuote(f) \/ IsDepth(f)
       \/ IsCommodity(f)

LEMMA CellsColumns ==
    ASSUME NEW types \in Seq(Types)
    PROVE  /\ Columns(CD!Cells(types)) /\ Len(CD!Cells(types)) = Len(types)
           /\ \A i \in 1..Len(types) :
                CD!Cells(types)[i].is = types[i] /\ CD!Cells(types)[i].row = <<>>
<1>1. CD!Cells(types) = [i \in 1..Len(types) |-> [is |-> types[i], column |-> i, row |-> <<>>]]
  BY LenProperties DEF CD!Cells, CD!Scalar
<1>2. Len(types) \in Nat
  OBVIOUS
<1>. QED
  BY <1>1, <1>2 DEF Columns, Follows

LEMMA OrderShape ==
    ASSUME NEW type \in {"equity", "fno"}, NEW n \in {25, 28},
           NEW f, f = [channel |-> "order", cells |-> CD!Cells(CD!OrderFrame(type, n))]
    PROVE  Shaped(f)
<1>. DEFINE At(i) == IF i = 12 THEN type ELSE IF i = 19 THEN "money" ELSE "text"
            s == [i \in 1..n |-> At(i)]
<1>1. CD!OrderFrame(type, n) = s
  BY DEF CD!OrderFrame, CD!Times
<1>2. s \in Seq(Types) /\ Len(s) = n /\ s[12] = type
  <2>1. n \in Nat /\ 12 \in 1..n /\ At(12) = type
    OBVIOUS
  <2>2. \A i \in 1..n : At(i) \in Types
    BY DEF Types
  <2>. HIDE DEF At
  <2>3. s \in Seq(Types)
    BY <2>2
  <2>4. Len(s) = n
    BY <2>1
  <2>. QED
    BY <2>1, <2>3, <2>4
<1>. HIDE DEF s
<1>3. Columns(f.cells) /\ Len(f.cells) = n /\ f.cells[12].is = type
  BY <1>1, <1>2, CellsColumns
<1>4. IsOrder(f)
  BY <1>3 DEF IsOrder
<1>. QED
  BY <1>3, <1>4 DEF Shaped

LEMMA ClickShape ==
    ASSUME NEW f \in {[channel |-> "fno", cells |-> CD!Cells(CD!Times(28, "text"))],
                      [channel |-> "equity", cells |-> CD!Cells(CD!Times(19, "text"))]}
    PROVE  Shaped(f)
<1>1. /\ CD!Times(28, "text") \in Seq(Types) /\ Len(CD!Times(28, "text")) = 28
      /\ CD!Times(19, "text") \in Seq(Types) /\ Len(CD!Times(19, "text")) = 19
  BY TimesTyped DEF Types
<1>2. /\ Columns(CD!Cells(CD!Times(28, "text"))) /\ Len(CD!Cells(CD!Times(28, "text"))) = 28
      /\ Columns(CD!Cells(CD!Times(19, "text"))) /\ Len(CD!Cells(CD!Times(19, "text"))) = 19
  BY <1>1, CellsColumns
<1>. QED
  BY <1>2 DEF Shaped, IsClick

\* None of the first n is an interval.
NoInterval(s, n) == \A i \in 1..n : s[i] \notin Intervals

(* In three parts, the interval is at most at the end. *)
LEMMA TwoParts ==
    ASSUME NEW a \in Seq(Types), NEW b \in Seq(Types), NEW n \in 0..Len(b),
           NoInterval(a, Len(a)), NoInterval(b, n)
    PROVE  a \o b \in Seq(Types) /\ Len(a \o b) = Len(a) + Len(b) /\ NoInterval(a \o b, Len(a) + n)
<1>1. a \o b \in Seq(Types)
  BY ConcatProperties
<1>2. Len(a \o b) = Len(a) + Len(b)
  BY ConcatProperties
<1>3. \A i \in 1..(Len(a) + Len(b)) : (a \o b)[i] = IF i <= Len(a) THEN a[i] ELSE b[i - Len(a)]
  BY ConcatProperties
<1>4. ASSUME NEW i \in 1..(Len(a) + n) PROVE (a \o b)[i] \notin Intervals
  <2>0. i \in 1..(Len(a) + Len(b))
    OBVIOUS
  <2>1. CASE i <= Len(a)
    <3>1. i \in 1..Len(a)
      BY <2>1
    <3>. QED
      BY <1>3, <2>0, <2>1, <3>1 DEF NoInterval
  <2>2. CASE ~ (i <= Len(a))
    <3>1. i - Len(a) \in 1..n
      BY <2>2
    <3>. QED
      BY <1>3, <2>0, <2>2, <3>1 DEF NoInterval
  <2>. QED
    BY <2>1, <2>2
<1>. QED
  BY <1>1, <1>2, <1>4 DEF NoInterval

LEMMA ThreeParts ==
    ASSUME NEW a \in Seq(Types), NEW b \in Seq(Types), NEW c \in Seq(Types), Len(c) > 0,
           NoInterval(a, Len(a)), NoInterval(b, Len(b)), NoInterval(c, Len(c) - 1)
    PROVE  /\ a \o b \o c \in Seq(Types) /\ Len(a \o b \o c) = Len(a) + Len(b) + Len(c)
           /\ NoInterval(a \o b \o c, Len(a \o b \o c) - 1)
<1>. DEFINE ab == a \o b
<1>1. ab \in Seq(Types) /\ Len(ab) = Len(a) + Len(b) /\ NoInterval(ab, Len(ab))
  <2>1. Len(b) \in 0..Len(b)
    OBVIOUS
  <2>. QED
    BY <2>1, TwoParts
<1>2. Len(c) - 1 \in 0..Len(c)
  OBVIOUS
<1>. HIDE DEF ab
<1>3. /\ ab \o c \in Seq(Types) /\ Len(ab \o c) = Len(ab) + Len(c)
      /\ NoInterval(ab \o c, Len(ab) + (Len(c) - 1))
  BY <1>1, <1>2, TwoParts
<1>4. Len(ab) + (Len(c) - 1) = Len(ab \o c) - 1
  BY <1>1, <1>3
<1>. QED
  BY <1>1, <1>3, <1>4 DEF ab

LEMMA CandleShape ==
    ASSUME NEW price \in {"money", "count"}, NEW c \in CD!CandleFrames(price),
           NEW f, f = [channel |-> "candle", cells |-> CD!Cells(c)]
    PROVE  Shaped(f)
<1>. DEFINE ohlc == CD!Times(4, price)
            a9 == <<"exchange", "text">>
            a11 == <<"exchange", "text", "text">>
            a13 == <<"exchange", "text", "text", price, "right">>
            c9 == <<"count", "text", "interval">>
            c11 == <<"count", "count", "text", "interval">>
<1>0. /\ "exchange" \in Types /\ "text" \in Types /\ "right" \in Types
      /\ "count" \in Types /\ "interval" \in Types /\ price \in Types
  BY DEF Types
<1>1. ohlc \in Seq(Types) /\ Len(ohlc) = 4 /\ NoInterval(ohlc, 4)
  <2>1. ohlc \in Seq(Types) /\ Len(ohlc) = 4
    BY <1>0, TimesTyped
  <2>2. \A i \in 1..4 : ohlc[i] = price
    BY DEF CD!Times
  <2>. QED
    BY <2>1, <2>2 DEF NoInterval, Intervals
<1>2. a9 \in Seq(Types) /\ Len(a9) = 2 /\ NoInterval(a9, 2)
  <2>1. a9 \in Seq(Types)
    BY <1>0
  <2>2. Len(a9) = 2
    OBVIOUS
  <2>3. a9[1] = "exchange" /\ a9[2] = "text"
    OBVIOUS
  <2>. HIDE DEF a9
  <2>4. \A i \in 1..2 : i = 1 \/ i = 2
    OBVIOUS
  <2>. QED
    BY <2>1, <2>2, <2>3, <2>4 DEF NoInterval, Intervals
<1>3. a11 \in Seq(Types) /\ Len(a11) = 3 /\ NoInterval(a11, 3)
  <2>1. a11 \in Seq(Types)
    BY <1>0
  <2>2. Len(a11) = 3
    OBVIOUS
  <2>3. a11[1] = "exchange" /\ a11[2] = "text" /\ a11[3] = "text"
    OBVIOUS
  <2>. HIDE DEF a11
  <2>4. \A i \in 1..3 : i = 1 \/ i = 2 \/ i = 3
    OBVIOUS
  <2>. QED
    BY <2>1, <2>2, <2>3, <2>4 DEF NoInterval, Intervals
<1>4. a13 \in Seq(Types) /\ Len(a13) = 5 /\ NoInterval(a13, 5)
  <2>1. a13 \in Seq(Types)
    BY <1>0
  <2>2. Len(a13) = 5
    OBVIOUS
  <2>3. a13[1] = "exchange" /\ a13[2] = "text" /\ a13[3] = "text" /\ a13[4] = price /\ a13[5] = "right"
    OBVIOUS
  <2>. HIDE DEF a13
  <2>4. \A i \in 1..5 : i = 1 \/ i = 2 \/ i = 3 \/ i = 4 \/ i = 5
    OBVIOUS
  <2>. QED
    BY <2>1, <2>2, <2>3, <2>4 DEF NoInterval, Intervals
<1>5. c9 \in Seq(Types) /\ Len(c9) = 3 /\ NoInterval(c9, 2)
  <2>1. c9 \in Seq(Types)
    BY <1>0
  <2>2. Len(c9) = 3
    OBVIOUS
  <2>3. c9[1] = "count" /\ c9[2] = "text"
    OBVIOUS
  <2>. HIDE DEF c9
  <2>4. \A i \in 1..2 : i = 1 \/ i = 2
    OBVIOUS
  <2>. QED
    BY <2>1, <2>2, <2>3, <2>4 DEF NoInterval, Intervals
<1>6. c11 \in Seq(Types) /\ Len(c11) = 4 /\ NoInterval(c11, 3)
  <2>1. c11 \in Seq(Types)
    BY <1>0
  <2>2. Len(c11) = 4
    OBVIOUS
  <2>3. c11[1] = "count" /\ c11[2] = "count" /\ c11[3] = "text"
    OBVIOUS
  <2>. HIDE DEF c11
  <2>4. \A i \in 1..3 : i = 1 \/ i = 2 \/ i = 3
    OBVIOUS
  <2>. QED
    BY <2>1, <2>2, <2>3, <2>4 DEF NoInterval, Intervals
<1>7. c \in {a9 \o ohlc \o c9, a11 \o ohlc \o c11, a13 \o ohlc \o c11}
  BY DEF CD!CandleFrames
<1>. HIDE DEF ohlc, a9, a11, a13, c9, c11
<1>8. c \in Seq(Types) /\ Len(c) \in {9, 11, 13} /\ NoInterval(c, Len(c) - 1)
  <2>1. /\ a9 \o ohlc \o c9 \in Seq(Types) /\ Len(a9 \o ohlc \o c9) = 9
        /\ NoInterval(a9 \o ohlc \o c9, Len(a9 \o ohlc \o c9) - 1)
    <3>1. /\ NoInterval(a9, Len(a9)) /\ NoInterval(ohlc, Len(ohlc)) /\ NoInterval(c9, Len(c9) - 1)
          /\ Len(c9) > 0 /\ Len(a9) + Len(ohlc) + Len(c9) = 9
      BY <1>1, <1>2, <1>5
    <3>2. a9 \in Seq(Types) /\ ohlc \in Seq(Types) /\ c9 \in Seq(Types)
      BY <1>1, <1>2, <1>5
    <3>. QED
      BY <3>1, <3>2, ThreeParts
  <2>2. /\ a11 \o ohlc \o c11 \in Seq(Types) /\ Len(a11 \o ohlc \o c11) = 11
        /\ NoInterval(a11 \o ohlc \o c11, Len(a11 \o ohlc \o c11) - 1)
    <3>1. /\ NoInterval(a11, Len(a11)) /\ NoInterval(ohlc, Len(ohlc)) /\ NoInterval(c11, Len(c11) - 1)
          /\ Len(c11) > 0 /\ Len(a11) + Len(ohlc) + Len(c11) = 11
      BY <1>1, <1>3, <1>6
    <3>2. a11 \in Seq(Types) /\ ohlc \in Seq(Types) /\ c11 \in Seq(Types)
      BY <1>1, <1>3, <1>6
    <3>. QED
      BY <3>1, <3>2, ThreeParts
  <2>3. /\ a13 \o ohlc \o c11 \in Seq(Types) /\ Len(a13 \o ohlc \o c11) = 13
        /\ NoInterval(a13 \o ohlc \o c11, Len(a13 \o ohlc \o c11) - 1)
    <3>1. /\ NoInterval(a13, Len(a13)) /\ NoInterval(ohlc, Len(ohlc)) /\ NoInterval(c11, Len(c11) - 1)
          /\ Len(c11) > 0 /\ Len(a13) + Len(ohlc) + Len(c11) = 13
      BY <1>1, <1>4, <1>6
    <3>2. a13 \in Seq(Types) /\ ohlc \in Seq(Types) /\ c11 \in Seq(Types)
      BY <1>1, <1>4, <1>6
    <3>. QED
      BY <3>1, <3>2, ThreeParts
  <2>. QED
    BY <1>7, <2>1, <2>2, <2>3
<1>9. f.channel = "candle" /\ f.cells = CD!Cells(c)
  OBVIOUS
<1>10. Columns(f.cells) /\ Len(f.cells) = Len(c)
  BY <1>8, <1>9, CellsColumns
<1>11. \A i \in 1..(Len(f.cells) - 1) : f.cells[i].is \notin Intervals
  <2>1. \A i \in 1..Len(c) : f.cells[i].is = c[i]
    BY <1>8, <1>9, CellsColumns
  <2>2. \A i \in 1..(Len(c) - 1) : i \in 1..Len(c)
    BY <1>8
  <2>. QED
    BY <1>8, <1>10, <2>1, <2>2 DEF NoInterval
<1>12. IsCandle(f)
  BY <1>8, <1>9, <1>10, <1>11 DEF IsCandle
<1>. QED
  BY <1>10, <1>12 DEF Shaped

LEMMA QuoteCells ==
    ASSUME NEW n \in {21, 22, 23}, NEW price \in Types
    PROVE  /\ CD!Quote(n, price) \in Seq(Types) /\ Len(CD!Quote(n, price)) = n
           /\ CD!Quote(n, price)[1] = "symbol"
<1>. DEFINE s == <<"symbol", "text">>  t == CD!Times(n - 2, price)
<1>1. s \in Seq(Types) /\ Len(s) = 2 /\ s[1] = "symbol"
  <2>1. "symbol" \in Types /\ "text" \in Types
    BY DEF Types
  <2>. QED
    BY <2>1
<1>2. t \in Seq(Types) /\ Len(t) = n - 2
  BY TimesTyped
<1>3. CD!Quote(n, price) = s \o t
  BY DEF CD!Quote
<1>. HIDE DEF s, t
<1>4. s \o t \in Seq(Types) /\ Len(s \o t) = Len(s) + Len(t)
  BY <1>1, <1>2, ConcatProperties
<1>5. \A i \in 1..(Len(s) + Len(t)) : (s \o t)[i] = IF i <= Len(s) THEN s[i] ELSE t[i - Len(s)]
  BY <1>1, <1>2, ConcatProperties
<1>6. 1 \in 1..(Len(s) + Len(t)) /\ 1 <= Len(s)
  BY <1>1, <1>2
<1>7. (s \o t)[1] = "symbol"
  BY <1>1, <1>5, <1>6
<1>. QED
  BY <1>1, <1>2, <1>3, <1>4, <1>7

LEMMA QuoteShape ==
    ASSUME NEW q \in {1, 4}, NEW n \in {21, 23}, NEW price \in Types,
           NEW f, f = CD!Tick(q, "quotes", CD!Cells(CD!Quote(n, price)))
    PROVE  Shaped(f)
<1>1. /\ CD!Quote(n, price) \in Seq(Types) /\ Len(CD!Quote(n, price)) = n
      /\ CD!Quote(n, price)[1] = "symbol"
  BY QuoteCells
<1>2. f.channel = "tick" /\ f.data = "quotes" /\ f.qualifier = q /\ f.cells = CD!Cells(CD!Quote(n, price))
  BY DEF CD!Tick
<1>3. Columns(f.cells) /\ Len(f.cells) = n /\ f.cells[1].is = "symbol"
  BY <1>1, <1>2, CellsColumns
<1>4. IsQuote(f)
  <2>1. f.qualifier # 6
    BY <1>2
  <2>2. Len(f.cells) \in {21, 23}
    BY <1>3
  <2>. QED
    BY <1>2, <1>3, <2>1, <2>2 DEF IsQuote
<1>. QED
  BY <1>3, <1>4 DEF Shaped

(* Two parts whose columns go on from one another. *)
LEMMA JoinedColumns ==
    ASSUME NEW S, NEW s \in Seq(S), NEW t \in Seq(S), Columns(s),
           Follows(t, Len(s))
    PROVE  /\ Columns(s \o t) /\ Len(s \o t) = Len(s) + Len(t)
           /\ \A i \in 1..Len(s) : (s \o t)[i] = s[i]
           /\ \A i \in 1..Len(t) : (s \o t)[Len(s) + i] = t[i]
<1>1. /\ Len(s \o t) = Len(s) + Len(t)
      /\ \A i \in 1..(Len(s) + Len(t)) : (s \o t)[i] = IF i <= Len(s) THEN s[i] ELSE t[i - Len(s)]
  BY ConcatProperties
<1>2. \A i \in 1..Len(s) : (s \o t)[i] = s[i]
  BY <1>1
<1>3. \A i \in 1..Len(t) : (s \o t)[Len(s) + i] = t[i]
  <2>. SUFFICES ASSUME NEW i \in 1..Len(t) PROVE (s \o t)[Len(s) + i] = t[i]
    OBVIOUS
  <2>1. Len(s) + i \in 1..(Len(s) + Len(t)) /\ ~ (Len(s) + i <= Len(s)) /\ (Len(s) + i) - Len(s) = i
    OBVIOUS
  <2>. QED
    BY <1>1, <2>1
<1>4. ASSUME NEW i \in 1..(Len(s) + Len(t)) PROVE (s \o t)[i].column = i
  <2>1. CASE i <= Len(s)
    BY <1>1, <2>1 DEF Columns, Follows
  <2>2. CASE ~ (i <= Len(s))
    <3>1. i - Len(s) \in 1..Len(t)
      BY <2>2
    <3>. QED
      BY <1>1, <2>2, <3>1 DEF Follows
  <2>. QED
    BY <2>1, <2>2
<1>. QED
  BY <1>1, <1>2, <1>3, <1>4 DEF Columns, Follows

LEMMA RowsAre ==
    ASSUME NEW n \in Nat, NEW types, NEW columns \in Int
    PROVE  /\ DOMAIN CD!BrokerRows(n, types, columns) = 1..n
           /\ Len(CD!BrokerRows(n, types, columns)) = n
           /\ \A i \in 1..n : /\ CD!BrokerRows(n, types, columns)[i].is = "row"
                              /\ CD!BrokerRows(n, types, columns)[i].column = columns + i
                              /\ CD!BrokerRows(n, types, columns)[i].row
                                    = [k \in DOMAIN types |-> CD!Scalar(types[k], k)]
<1>. DEFINE RowAt(i) == CD!Row(types, columns + i)
<1>1. CD!BrokerRows(n, types, columns) = [i \in 1..n |-> RowAt(i)]
  BY DEF CD!BrokerRows
<1>2. \A i \in 1..n : /\ RowAt(i).is = "row" /\ RowAt(i).column = columns + i
                      /\ RowAt(i).row = [k \in DOMAIN types |-> CD!Scalar(types[k], k)]
  BY DEF CD!Row
<1>. HIDE DEF RowAt
<1>. QED
  BY <1>1, <1>2

LEMMA FullRows ==
    ASSUME NEW q \in {1, 2, 4, 8}, NEW price \in Types,
           NEW row,
           row = [k \in DOMAIN CD!DepthRow(CD!exchange_from_qualifier(q), price) |->
                    CD!Scalar(CD!DepthRow(CD!exchange_from_qualifier(q), price)[k], k)]
    PROVE  FullRow(CD!exchange_from_qualifier(q), row)
<1>. DEFINE x == CD!exchange_from_qualifier(q)
            types == CD!DepthRow(x, price)
<1>1. x \in {"Bse", "unknown", "Nse", "Bfo"}
  BY DEF CD!exchange_from_qualifier
<1>2. /\ x = "Bse" => types = <<price, "count", price, "count">>
      /\ x = "Bfo" => types = <<price, "count", "count", price, "count", "count">>
      /\ x \notin {"Bse", "Bfo"} => types = <<price, "count", "count", "text",
                                              price, "count", "count", "text">>
  <2>. HIDE DEF x
  <2>. QED
    BY <1>1 DEF CD!DepthRow
<1>3. row = [k \in DOMAIN types |-> CD!Scalar(types[k], k)]
  OBVIOUS
<1>. HIDE DEF x, types
<1>4. CASE x = "Bse"
  <2>1. DOMAIN types = 1..4
    BY <1>2, <1>4
  <2>2. row = [k \in 1..4 |-> CD!Scalar(types[k], k)]
    BY <1>3, <2>1
  <2>. QED
    BY <1>4, <2>2 DEF FullRow, x
<1>5. CASE x = "Bfo"
  <2>1. DOMAIN types = 1..6
    BY <1>2, <1>5
  <2>2. row = [k \in 1..6 |-> CD!Scalar(types[k], k)]
    BY <1>3, <2>1
  <2>. QED
    BY <1>5, <2>2 DEF FullRow, x
<1>6. CASE x \notin {"Bse", "Bfo"}
  <2>1. DOMAIN types = 1..8 /\ types[8] = "text"
    BY <1>2, <1>6
  <2>2. row = [k \in 1..8 |-> CD!Scalar(types[k], k)]
    BY <1>3, <2>1
  <2>3. Len(row) = 8 /\ row[8].is = "text"
    BY <2>1, <2>2 DEF CD!Scalar
  <2>. QED
    BY <1>6, <2>3 DEF FullRow, x
<1>. QED
  BY <1>4, <1>5, <1>6

LEMMA DepthShape ==
    ASSUME NEW q \in {1, 2, 4, 8}, NEW n \in Nat, NEW price \in Types,
           NEW f, f = CD!Tick(q, "depth", DepthCells(q, n, price))
    PROVE  Shaped(f)
<1>. DEFINE types == CD!DepthRow(CD!exchange_from_qualifier(q), price)
            s == CD!Cells(<<"symbol", "text">>)
            r == CD!Rows(n, types)
<1>1. f.channel = "tick" /\ f.data = "depth" /\ f.qualifier = q /\ f.cells = s \o <<r>>
  BY DEF CD!Tick, DepthCells
<1>2. <<"symbol", "text">> \in Seq(Types)
  <2>1. "symbol" \in Types /\ "text" \in Types
    BY DEF Types
  <2>. QED
    BY <2>1
<1>3. s \in Seq(BrokerCells) /\ Columns(s) /\ Len(s) = 2 /\ s[1].is = "symbol"
  <2>. DEFINE st == <<"symbol", "text">>
  <2>1. st \in Seq(Types) /\ Len(st) = 2 /\ st[1] = "symbol" /\ s = CD!Cells(st)
    BY <1>2
  <2>. HIDE DEF st, s
  <2>2. Columns(s) /\ Len(s) = 2
    BY <2>1, CellsColumns
  <2>3. 1 \in 1..Len(st) /\ \A i \in 1..Len(st) : s[i].is = st[i]
    BY <2>1, CellsColumns
  <2>4. s \in Seq(BrokerCells)
    BY <2>1, CellsTyped
  <2>. QED
    BY <2>1, <2>2, <2>3, <2>4
<1>4. r \in BrokerCells
  BY DepthRowTyped, RowsTyped
<1>5. r.column = 3 /\ r.is = "rows" /\ r.row = CD!BrokerRows(n, types, 0)
  BY DEF CD!Rows
<1>6. \A i \in DOMAIN r.row : FullRow(CD!exchange_from_qualifier(q), r.row[i].row)
  <2>1. \A i \in 1..n : CD!BrokerRows(n, types, 0)[i].row
                            = [k \in DOMAIN types |-> CD!Scalar(types[k], k)]
    BY RowsAre
  <2>2. DOMAIN CD!BrokerRows(n, types, 0) = 1..n
    BY RowsAre
  <2>. QED
    BY <1>5, <2>1, <2>2, FullRows
<1>. HIDE DEF s, r, types
<1>. DEFINE rr == <<r>>
<1>7. rr \in Seq(BrokerCells) /\ Len(rr) = 1 /\ rr[1] = r
  BY <1>4
<1>. HIDE DEF rr
<1>8. Follows(rr, Len(s))
  BY <1>3, <1>5, <1>7 DEF Follows
<1>9. /\ Columns(s \o rr) /\ Len(s \o rr) = Len(s) + Len(rr)
      /\ \A i \in 1..Len(s) : (s \o rr)[i] = s[i]
      /\ \A i \in 1..Len(rr) : (s \o rr)[Len(s) + i] = rr[i]
  <2>1. s \in Seq(BrokerCells) /\ rr \in Seq(BrokerCells) /\ Columns(s)
    BY <1>3, <1>7
  <2>. QED
    BY <1>8, <2>1, JoinedColumns
<1>10. f.cells = s \o rr
  BY <1>1 DEF rr
<1>11. /\ Columns(f.cells) /\ Len(f.cells) = 3 /\ f.cells[1] = s[1] /\ f.cells[3] = r
  <2>1. 1 \in 1..Len(s) /\ 1 \in 1..Len(rr) /\ Len(s) + 1 = 3 /\ Len(s) + Len(rr) = 3
    BY <1>3, <1>7
  <2>. QED
    BY <1>7, <1>9, <1>10, <2>1
<1>12. IsDepth(f)
  BY <1>1, <1>3, <1>5, <1>6, <1>11 DEF IsDepth
<1>. QED
  BY <1>11, <1>12 DEF Shaped

LEMMA CommodityShape ==
    ASSUME NEW n \in Nat, NEW price \in Types,
           NEW f, f = CD!Tick(6, "quotes", CommodityCells(n, price))
    PROVE  Shaped(f)
<1>. DEFINE types == BookRow(price)
            s == CD!Cells(CD!Quote(22, price))
            t == CD!BrokerRows(n, types, 22)
<1>1. f.channel = "tick" /\ f.data = "quotes" /\ f.qualifier = 6 /\ f.cells = s \o t
  BY DEF CD!Tick, CommodityCells
<1>2. types \in Seq(Types) /\ Len(types) = 8
  BY BookRowTyped
<1>3. s \in Seq(BrokerCells) /\ Columns(s) /\ Len(s) = 22 /\ s[1].is = "symbol"
  <2>. DEFINE quote == CD!Quote(22, price)
  <2>1. quote \in Seq(Types) /\ Len(quote) = 22 /\ quote[1] = "symbol"
    BY QuoteCells
  <2>2. s = CD!Cells(quote) /\ s \in Seq(BrokerCells)
    BY QuoteTyped
  <2>. HIDE DEF quote, s
  <2>3. Columns(s) /\ Len(s) = Len(quote)
    BY <2>1, <2>2, CellsColumns
  <2>4. \A i \in 1..Len(quote) : s[i].is = quote[i]
    BY <2>1, <2>2, CellsColumns
  <2>5. 1 \in 1..Len(quote)
    BY <2>1
  <2>. QED
    BY <2>1, <2>2, <2>3, <2>4, <2>5
<1>. HIDE DEF types
<1>4. t \in Seq(BrokerCells) /\ Len(t) = n
      /\ \A i \in 1..n : t[i].is = "row" /\ t[i].column = 22 + i /\ Len(t[i].row) = 8
  <2>1. 22 \in Int
    OBVIOUS
  <2>2. \A i \in 1..n : t[i].is = "row" /\ t[i].column = 22 + i
    <3>1. \A i \in 1..n : /\ CD!BrokerRows(n, types, 22)[i].is = "row"
                          /\ CD!BrokerRows(n, types, 22)[i].column = 22 + i
                          /\ CD!BrokerRows(n, types, 22)[i].row
                                = [k \in DOMAIN types |-> CD!Scalar(types[k], k)]
      BY <2>1, RowsAre
    <3>. QED
      BY <3>1
  <2>3. t \in Seq(BrokerCells) /\ Len(t) = n /\ DOMAIN t = 1..n
    BY <1>2, <2>1, BrokerRowsTyped, RowsAre
  <2>4. \A i \in DOMAIN t : Len(t[i].row) = 8
    BY <1>2, <2>1, BrokerRowsTyped
  <2>. QED
    BY <2>2, <2>3, <2>4
<1>. HIDE DEF s, t
<1>5. /\ Columns(f.cells) /\ Len(f.cells) = 22 + n /\ f.cells[1] = s[1]
      /\ \A i \in 1..n : f.cells[22 + i] = t[i]
  <2>1. Follows(t, Len(s))
    BY <1>3, <1>4 DEF Follows
  <2>2. /\ Columns(s \o t) /\ Len(s \o t) = Len(s) + Len(t)
        /\ \A i \in 1..Len(s) : (s \o t)[i] = s[i]
        /\ \A i \in 1..Len(t) : (s \o t)[Len(s) + i] = t[i]
    <3>1. t \in Seq(BrokerCells) /\ s \in Seq(BrokerCells) /\ Columns(s)
      BY <1>3, <1>4
    <3>. QED
      BY <2>1, <3>1, JoinedColumns
  <2>3. 1 \in 1..Len(s)
    BY <1>3
  <2>. QED
    BY <1>1, <1>3, <1>4, <2>2, <2>3
<1>6. ASSUME NEW i \in 23..(22 + n) PROVE f.cells[i].is = "row" /\ Len(f.cells[i].row) = 8
  <2>1. i - 22 \in 1..n /\ 22 + (i - 22) = i
    OBVIOUS
  <2>2. f.cells[22 + (i - 22)] = t[i - 22]
    BY <1>5, <2>1
  <2>. QED
    BY <1>4, <2>1, <2>2
<1>7. IsCommodity(f)
  <2>1. Len(f.cells) >= 22 /\ 23..Len(f.cells) = 23..(22 + n)
    BY <1>5
  <2>2. \A i \in 23..Len(f.cells) : f.cells[i].is = "row" /\ Len(f.cells[i].row) = 8
    BY <1>6, <2>1
  <2>. QED
    BY <1>1, <1>3, <1>5, <2>1, <2>2 DEF IsCommodity
<1>. QED
  BY <1>5, <1>7 DEF Shaped

(* Every feed has one of these shapes. *)
LEMMA FeedsShaped == ASSUME NEW f \in CD!Feeds PROVE Shaped(f)
<1>1. CASE f \in OtherFeeds
  <2>1. \/ f = [channel |-> "order", cells |-> CD!Cells(CD!OrderFrame("equity", 25))]
        \/ f = [channel |-> "order", cells |-> CD!Cells(CD!OrderFrame("fno", 28))]
        \/ f \in {[channel |-> "fno", cells |-> CD!Cells(CD!Times(28, "text"))],
                  [channel |-> "equity", cells |-> CD!Cells(CD!Times(19, "text"))]}
    BY <1>1 DEF OtherFeeds
  <2>. QED
    BY <2>1, OrderShape, ClickShape
<1>2. ASSUME NEW price \in {"money", "count"},
             \/ f \in CandleFeeds(price) \/ f \in QuoteFeeds(price)
             \/ f \in DepthFeeds(price) \/ f \in CommodityFeeds(price)
      PROVE  Shaped(f)
  <2>0. price \in Types
    BY DEF Types
  <2>1. CASE f \in CandleFeeds(price)
    BY <2>1, CandleShape DEF CandleFeeds
  <2>2. CASE f \in QuoteFeeds(price)
    BY <2>0, <2>2, QuoteShape DEF QuoteFeeds
  <2>3. CASE f \in DepthFeeds(price)
    BY <2>0, <2>3, BookSizesAreNat, DepthShape DEF DepthFeeds
  <2>4. CASE f \in CommodityFeeds(price)
    BY <2>0, <2>4, BookSizesAreNat, CommodityShape DEF CommodityFeeds
  <2>. QED
    BY <1>2, <2>1, <2>2, <2>3, <2>4
<1>. QED
  BY <1>1, <1>2, FeedsAre

(* What a cell of the frame is made of. *)
Made(c, b) == c = b \/ c \in CD!Damaged(b) \/ c \in CD!Narrowed(b)

\* With no column left out, and with one.
InPlace(cells, meant) == \A i \in 1..Len(cells) : Made(cells[i], meant[i])

Shifted(cells, meant) ==
    \A i \in 1..Len(cells) : Made(cells[i], meant[i]) \/ Made(cells[i], meant[i + 1])

Tracks ==
    \/ Len(frame) = column /\ InPlace(frame, feed.cells)
    \/ missing = 1 /\ Len(frame) + 1 = column /\ Shifted(frame, feed.cells)

ColumnIInv ==
    /\ CodecIInv
    /\ Shaped(feed)
    /\ column <= Len(feed.cells)
    /\ missing \in {0, 1}
    /\ Tracks
    /\ event = CD!Nothing \/ event = CD!Decode(feed, frame)

LEMMA AppendInPlace ==
    ASSUME NEW cells \in Seq(AnyCells), NEW c \in AnyCells, NEW meant, InPlace(cells, meant),
           Made(c, meant[Len(cells) + 1])
    PROVE  Len(Append(cells, c)) = Len(cells) + 1 /\ InPlace(Append(cells, c), meant)
<1>1. /\ Len(Append(cells, c)) = Len(cells) + 1
      /\ \A i \in 1..Len(cells) : Append(cells, c)[i] = cells[i]
      /\ Append(cells, c)[Len(cells) + 1] = c
  BY AppendProperties
<1>2. ASSUME NEW i \in 1..(Len(cells) + 1) PROVE Made(Append(cells, c)[i], meant[i])
  <2>1. CASE i \in 1..Len(cells)
    BY <1>1, <2>1 DEF InPlace
  <2>2. CASE i \notin 1..Len(cells)
    <3>1. i = Len(cells) + 1
      BY <2>2
    <3>. QED
      BY <1>1, <3>1
  <2>. QED
    BY <2>1, <2>2
<1>. QED
  BY <1>1, <1>2 DEF InPlace

LEMMA AppendShifted ==
    ASSUME NEW cells \in Seq(AnyCells), NEW c \in AnyCells, NEW meant, Shifted(cells, meant),
           Made(c, meant[(Len(cells) + 1) + 1])
    PROVE  Len(Append(cells, c)) = Len(cells) + 1 /\ Shifted(Append(cells, c), meant)
<1>1. /\ Len(Append(cells, c)) = Len(cells) + 1
      /\ \A i \in 1..Len(cells) : Append(cells, c)[i] = cells[i]
      /\ Append(cells, c)[Len(cells) + 1] = c
  BY AppendProperties
<1>2. ASSUME NEW i \in 1..(Len(cells) + 1)
      PROVE  Made(Append(cells, c)[i], meant[i]) \/ Made(Append(cells, c)[i], meant[i + 1])
  <2>1. CASE i \in 1..Len(cells)
    BY <1>1, <2>1 DEF Shifted
  <2>2. CASE i \notin 1..Len(cells)
    <3>1. i = Len(cells) + 1
      BY <2>2
    <3>. QED
      BY <1>1, <3>1
  <2>. QED
    BY <2>1, <2>2
<1>. QED
  BY <1>1, <1>2 DEF Shifted

(* A step that deals with the next column, whether or not it narrows it. *)
LEMMA TracksOn ==
    ASSUME ColumnIInv, CodecIInv', column < Len(feed.cells), event = CD!Nothing,
           column' = column + 1, UNCHANGED <<feed, event>>,
           missing' \in {0, 1}, missing <= missing',
           NEW c \in AnyCells, Made(c, CD!Next1), frame' = Append(frame, c)
    PROVE  ColumnIInv'
<1>1. frame \in Seq(AnyCells) /\ Len(frame) \in Nat /\ column \in Nat /\ Len(feed.cells) \in Nat
  BY LenProperties DEF ColumnIInv, CodecIInv
<1>2. Tracks'
  <2>1. CASE Len(frame) = column /\ InPlace(frame, feed.cells)
    <3>1. Made(c, feed.cells[Len(frame) + 1])
      BY <2>1 DEF CD!Next1
    <3>2. Len(frame') = Len(frame) + 1 /\ InPlace(frame', feed.cells)
      BY <1>1, <2>1, <3>1, AppendInPlace
    <3>. QED
      BY <2>1, <3>2 DEF Tracks
  <2>2. CASE missing = 1 /\ Len(frame) + 1 = column /\ Shifted(frame, feed.cells)
    <3>1. Made(c, feed.cells[(Len(frame) + 1) + 1])
      BY <2>2 DEF CD!Next1
    <3>2. Len(frame') = Len(frame) + 1 /\ Shifted(frame', feed.cells)
      BY <1>1, <2>2, <3>1, AppendShifted
    <3>3. missing' = 1
      BY <2>2
    <3>. QED
      BY <1>1, <2>2, <3>2, <3>3 DEF Tracks
  <2>. QED
    BY <2>1, <2>2 DEF ColumnIInv, Tracks
<1>3. column' <= Len(feed.cells)
  BY <1>1
<1>. QED
  BY <1>2, <1>3 DEF ColumnIInv

LEMMA ColumnInit == CD!Init => ColumnIInv
<1>. SUFFICES ASSUME CD!Init PROVE ColumnIInv
  OBVIOUS
<1>1. CodecIInv
  BY CodecInit
<1>2. Shaped(feed)
  BY FeedsShaped DEF CD!Init
<1>3. column <= Len(feed.cells)
  BY <1>1, LenProperties DEF CD!Init, CodecIInv
<1>4. Tracks
  BY DEF CD!Init, Tracks, InPlace
<1>. QED
  BY <1>1, <1>2, <1>3, <1>4 DEF CD!Init, ColumnIInv

LEMMA ColumnNext ==
    ASSUME MaxMissing \in {0, 1}, ColumnIInv, [CD!Next]_CD!codecVars
    PROVE  ColumnIInv'
<1>0. CodecIInv'
  BY CodecNext DEF ColumnIInv
<1>1. CASE CD!Write
  <2>1. CD!Next1 \in AnyCells /\ Made(CD!Next1, CD!Next1)
    BY <1>1, NextCell DEF CD!Write, CD!Column, BrokerCells, ColumnIInv, Made
  <2>2. missing' \in {0, 1} /\ missing <= missing'
    BY <1>1 DEF CD!Write, CD!Column, ColumnIInv
  <2>. QED
    BY <1>0, <1>1, <2>1, <2>2, TracksOn DEF CD!Write, CD!Column
<1>2. CASE CD!Omit
  <2>1. missing = 0 /\ missing' = 1 /\ column' = column + 1 /\ UNCHANGED <<feed, frame, event>>
    BY <1>2 DEF CD!Omit, CD!Column, ColumnIInv
  <2>2. column < Len(feed.cells) /\ column \in Nat /\ Len(feed.cells) \in Nat
    BY <1>2, LenProperties DEF CD!Omit, CD!Column, ColumnIInv, CodecIInv
  <2>3. Shifted(frame, feed.cells) /\ Len(frame) = column
    BY <2>1 DEF ColumnIInv, Tracks, InPlace, Shifted
  <2>4. Tracks'
    BY <2>1, <2>2, <2>3 DEF Tracks
  <2>5. column' <= Len(feed.cells)
    BY <2>1, <2>2
  <2>. QED
    BY <1>0, <2>1, <2>4, <2>5 DEF ColumnIInv
<1>3. CASE CD!Garble
  <2>1. PICK c \in CD!Damaged(CD!Next1) : frame' = Append(frame, c)
    BY <1>3 DEF CD!Garble, CD!Column
  <2>2. c \in AnyCells /\ Made(c, CD!Next1)
    BY <1>3, NextCell, DamagedTyped DEF CD!Garble, CD!Column, ColumnIInv, Made
  <2>3. missing' \in {0, 1} /\ missing <= missing'
    BY <1>3 DEF CD!Garble, CD!Column, ColumnIInv
  <2>. QED
    BY <1>0, <1>3, <2>1, <2>2, <2>3, TracksOn DEF CD!Garble, CD!Column
<1>4. CASE CD!OmitInRow
  <2>1. PICK c \in CD!Narrowed(CD!Next1) : frame' = Append(frame, c)
    BY <1>4 DEF CD!OmitInRow, CD!Column
  <2>2. c \in AnyCells /\ Made(c, CD!Next1)
    BY <1>4, NextCell, NarrowedTyped DEF CD!OmitInRow, CD!Column, ColumnIInv, Made
  <2>3. missing' \in {0, 1} /\ missing <= missing'
    BY <1>4 DEF CD!OmitInRow, CD!Column, ColumnIInv
  <2>. QED
    BY <1>0, <1>4, <2>1, <2>2, <2>3, TracksOn DEF CD!OmitInRow, CD!Column
<1>5. CASE CD!Deliver
  BY <1>0, <1>5 DEF CD!Deliver, ColumnIInv, Tracks
<1>6. CASE UNCHANGED CD!codecVars
  BY <1>0, <1>6 DEF CD!codecVars, ColumnIInv, Tracks
<1>. QED
  BY <1>1, <1>2, <1>3, <1>4, <1>5, <1>6 DEF CD!Next

(* What the change of a cell leaves of it: its column always, its type     *)
(* unless it then has none that a layout tells apart.                      *)
LEMMA MadeIs ==
    ASSUME NEW b \in BrokerCells, NEW c, Made(c, b)
    PROVE  /\ c.column = b.column
           /\ \/ c.is = b.is
              \/ c.is \in {"garbled", "text"}
              \/ c.is = "other interval" /\ b.is = "interval"
<1>. DEFINE Cut(row) == [b EXCEPT !.row = row]
<1>1. \A row : Cut(row).column = b.column /\ Cut(row).is = b.is
  BY DEF BrokerCells, AnyCells
<1>2. CASE c = b
  BY <1>2
<1>3. CASE c \in CD!Damaged(b)
  <2>1. \/ c \in {CD!Scalar("garbled", b.column), CD!Scalar("text", b.column)}
        \/ b.is = "interval" /\ c = CD!Scalar("other interval", b.column)
        \/ \E row : c = Cut(row)
    BY <1>3 DEF CD!Damaged
  <2>2. \A type : CD!Scalar(type, b.column).is = type /\ CD!Scalar(type, b.column).column = b.column
    BY DEF CD!Scalar
  <2>. HIDE DEF Cut
  <2>. QED
    BY <1>1, <2>1, <2>2
<1>4. CASE c \in CD!Narrowed(b)
  <2>1. \E row : c = Cut(row)
    BY <1>4 DEF CD!Narrowed, CD!Without
  <2>. HIDE DEF Cut
  <2>. QED
    BY <1>1, <2>1
<1>. QED
  BY <1>2, <1>3, <1>4 DEF Made

(* An array is the broker's, cut, or with a column left out. *)
LEMMA MadeArray ==
    ASSUME NEW b \in BrokerCells, NEW c, Made(c, b), CD!array(c)
    PROVE  \/ c = b
           \/ \E n \in 0..(Len(b.row) - 1) : c = [b EXCEPT !.row = SubSeq(b.row, 1, n)]
           \/ c \in CD!Narrowed(b)
<1>1. ASSUME c \in CD!Damaged(b)
      PROVE  \E n \in 0..(Len(b.row) - 1) : c = [b EXCEPT !.row = SubSeq(b.row, 1, n)]
  <2>1. \A type \in {"garbled", "text", "other interval"} : c # CD!Scalar(type, b.column)
    <3>1. \A type : CD!Scalar(type, b.column).is = type
      BY DEF CD!Scalar
    <3>. QED
      BY <3>1 DEF CD!array
  <2>. QED
    BY <1>1, <2>1 DEF CD!Damaged
<1>. QED
  BY <1>1 DEF Made

LEMMA RemovedLength ==
    ASSUME NEW S, NEW s \in Seq(S), NEW n \in 1..Len(s)
    PROVE  /\ Len(CD!RemoveAt(s, n)) = Len(s) - 1
           /\ \A i \in 1..(n - 1) : CD!RemoveAt(s, n)[i] = s[i]
           /\ \A i \in n..(Len(s) - 1) : CD!RemoveAt(s, n)[i] = s[i + 1]
<1>. DEFINE a == SubSeq(s, 1, n - 1)
            b == SubSeq(s, n + 1, Len(s))
<1>0. Len(s) \in Nat /\ n \in Nat
  OBVIOUS
<1>1. a \in Seq(S) /\ Len(a) = n - 1 /\ \A i \in 1..(n - 1) : a[i] = s[i]
  BY <1>0, SubSeqProperties
<1>2. b \in Seq(S) /\ Len(b) = Len(s) - n /\ \A i \in 1..(Len(s) - n) : b[i] = s[n + i]
  <2>. DEFINE m == n + 1
  <2>1. b \in Seq(S) /\ Len(b) = (IF m <= Len(s) THEN Len(s) - m + 1 ELSE 0)
    BY <1>0, SubSeqProperties
  <2>2. \A i \in 1..(Len(s) - m + 1) : b[i] = s[m + i - 1]
    BY <1>0, SubSeqProperties
  <2>. QED
    BY <1>0, <2>1, <2>2
<1>3. CD!RemoveAt(s, n) = a \o b
  BY DEF CD!RemoveAt
<1>. HIDE DEF a, b
<1>4. Len(a \o b) = Len(s) - 1
  <2>1. a \in Seq(S) /\ b \in Seq(S) /\ Len(a) = n - 1 /\ Len(b) = Len(s) - n
    BY <1>1, <1>2
  <2>2. Len(a \o b) = Len(a) + Len(b)
    BY <2>1, ConcatProperties
  <2>. QED
    BY <1>0, <2>1, <2>2
<1>5. \A i \in 1..(Len(a) + Len(b)) : (a \o b)[i] = IF i <= Len(a) THEN a[i] ELSE b[i - Len(a)]
  BY <1>1, <1>2, ConcatProperties
<1>6. ASSUME NEW i \in 1..(n - 1) PROVE (a \o b)[i] = s[i]
  <2>1. i \in 1..(Len(a) + Len(b)) /\ i <= Len(a)
    BY <1>0, <1>1, <1>2
  <2>. QED
    BY <1>1, <1>5, <2>1
<1>7. ASSUME NEW i \in n..(Len(s) - 1) PROVE (a \o b)[i] = s[i + 1]
  <2>1. i \in 1..(Len(a) + Len(b)) /\ ~ (i <= Len(a)) /\ i - Len(a) = i - (n - 1)
    BY <1>0, <1>1, <1>2
  <2>2. i - (n - 1) \in 1..(Len(s) - n) /\ n + (i - (n - 1)) = i + 1
    BY <1>0
  <2>3. b[i - (n - 1)] = s[i + 1]
    BY <1>2, <2>2
  <2>. QED
    BY <1>5, <2>1, <2>3
<1>. QED
  BY <1>3, <1>4, <1>6, <1>7

(* A row that is as wide as the broker's is the broker's. *)
LEMMA MadeRow ==
    ASSUME NEW b \in BrokerCells, b.is = "row", NEW c, Made(c, b), CD!array(c),
           Len(c.row) = Len(b.row)
    PROVE  c = b
<1>1. b.row \in Seq(RowCells) /\ Len(b.row) \in Nat
  BY DEF BrokerCells, AnyCells
<1>2. \A row : [b EXCEPT !.row = row].row = row
  BY DEF BrokerCells, AnyCells
<1>3. ASSUME NEW n \in 0..(Len(b.row) - 1), c = [b EXCEPT !.row = SubSeq(b.row, 1, n)]
      PROVE  FALSE
  <2>1. Len(SubSeq(b.row, 1, n)) = n
    BY <1>1, SubSeqProperties
  <2>. QED
    BY <1>1, <1>2, <1>3, <2>1
<1>4. ASSUME c \in CD!Narrowed(b) PROVE FALSE
  <2>1. PICK n \in DOMAIN b.row : c = [b EXCEPT !.row = CD!RemoveAt(b.row, n)]
    BY <1>4 DEF CD!Narrowed, CD!Without
  <2>2. Len(CD!RemoveAt(b.row, n)) = Len(b.row) - 1
    BY <1>1, RemovedLength
  <2>. QED
    BY <1>1, <1>2, <2>1, <2>2
<1>. QED
  BY <1>3, <1>4, MadeArray

(* What the property says of an event and of the whole frame's. *)
Agrees(e, whole) ==
    \/ whole.is = "error"
    \/ /\ \A name \in DOMAIN e.fields :
            name \in DOMAIN whole.fields /\ e.fields[name] = whole.fields[name]
       /\ e.levels \subseteq whole.levels

Positions(layout) == \A name \in DOMAIN layout : layout[name] \in Nat

\* The columns of a frame that is as the broker means to send it, or shorter.
LEMMA ColumnsInPlace ==
    ASSUME NEW b \in Seq(BrokerCells), NEW a \in Seq(AnyCells), InPlace(a, b), Len(a) <= Len(b),
           NEW i \in Nat, CD!Holds(a, i)
    PROVE  /\ CD!Holds(b, i) /\ CD!Cell(b, i) \in BrokerCells /\ Made(CD!Cell(a, i), CD!Cell(b, i))
           /\ CD!Cell(a, i).column = CD!Cell(b, i).column
<1>1. i + 1 \in 1..Len(a) /\ i + 1 \in 1..Len(b) /\ CD!Holds(b, i)
  BY DEF CD!Holds
<1>2. b[i + 1] \in BrokerCells /\ Made(a[i + 1], b[i + 1])
  BY <1>1, ElementOfSeq DEF InPlace
<1>. QED
  BY <1>1, <1>2, MadeIs DEF CD!Cell

\* What was read is told by the layout.
LEMMA CheckedIs ==
    ASSUME NEW cells, NEW layout, CD!Checked(cells, layout) # CD!Error
    PROVE  /\ \A name \in DOMAIN layout : CD!Holds(cells, layout[name])
           /\ DOMAIN CD!Checked(cells, layout).of = DOMAIN layout
           /\ \A name \in DOMAIN layout :
                CD!Checked(cells, layout).of[name] = CD!Cell(cells, layout[name]).column
  BY DEF CD!Checked

LEMMA EventIs ==
    ASSUME NEW fields, NEW levels, NEW e, e = CD!Event(fields, levels)
    PROVE  /\ e.is \in {"event", "error", "panic"}
           /\ e.is = "panic" => e = CD!Panic
           /\ e.is = "event" => /\ fields \notin {CD!Panic, CD!Error}
                                /\ CD!Panic \notin levels /\ CD!Error \notin levels
                                /\ e.fields = fields.of /\ e.levels = levels
  BY DEF CD!Event, CD!Panic, CD!Error

LEMMA EventAgrees ==
    ASSUME NEW a \in Seq(AnyCells), NEW b \in Seq(BrokerCells), InPlace(a, b), Len(a) <= Len(b),
           NEW layout, Positions(layout), NEW LA, NEW LB,
           NEW e, e = CD!Event(CD!Checked(a, layout), LA), e.is = "event",
           NEW w, w = CD!Event(CD!Checked(b, layout), LB), w # CD!Panic,
           w.is = "event" => LA \subseteq LB
    PROVE  Agrees(e, w)
<1>1. /\ CD!Checked(a, layout) # CD!Error
      /\ e.fields = CD!Checked(a, layout).of /\ e.levels = LA
  BY EventIs
<1>2. \/ w.is = "error"
      \/ /\ w.is = "event" /\ CD!Checked(b, layout) # CD!Error
         /\ w.fields = CD!Checked(b, layout).of /\ w.levels = LB
  BY EventIs
<1>3. ASSUME w.is = "event", CD!Checked(b, layout) # CD!Error,
             w.fields = CD!Checked(b, layout).of, w.levels = LB
      PROVE  Agrees(e, w)
  <2>1. DOMAIN e.fields = DOMAIN layout /\ DOMAIN w.fields = DOMAIN layout
    BY <1>1, <1>3, CheckedIs
  <2>2. ASSUME NEW name \in DOMAIN layout PROVE e.fields[name] = w.fields[name]
    <3>1. CD!Holds(a, layout[name]) /\ e.fields[name] = CD!Cell(a, layout[name]).column
      BY <1>1, <2>2, CheckedIs
    <3>2. w.fields[name] = CD!Cell(b, layout[name]).column
      BY <1>3, <2>2, CheckedIs
    <3>3. layout[name] \in Nat
      BY <2>2 DEF Positions
    <3>. QED
      BY <3>1, <3>2, <3>3, ColumnsInPlace
  <2>. QED
    BY <1>1, <1>3, <2>1, <2>2 DEF Agrees
<1>. QED
  BY <1>2, <1>3 DEF Agrees

LEMMA IndexedIs ==
    ASSUME NEW cells, NEW layout, NEW levels
    PROVE  \/ CD!Event(CD!Indexed(cells, layout), levels) = CD!Panic
           \/ CD!Event(CD!Indexed(cells, layout), levels) = CD!Event(CD!Checked(cells, layout), levels)
  BY DEF CD!Indexed, CD!Event

LEMMA IndexedAgrees ==
    ASSUME NEW a \in Seq(AnyCells), NEW b \in Seq(BrokerCells), InPlace(a, b), Len(a) <= Len(b),
           NEW layout, Positions(layout), NEW LA, NEW LB,
           NEW e, e = CD!Event(CD!Indexed(a, layout), LA), e.is = "event",
           NEW w, w = CD!Event(CD!Indexed(b, layout), LB), w # CD!Panic,
           w.is = "event" => LA \subseteq LB
    PROVE  Agrees(e, w)
<1>1. e # CD!Panic
  BY DEF CD!Panic
<1>2. /\ e = CD!Event(CD!Checked(a, layout), LA)
      /\ w = CD!Event(CD!Checked(b, layout), LB)
  BY <1>1, IndexedIs
<1>. QED
  BY <1>2, EventAgrees

(* Order and one-click frames, and candles. *)
LEMMA OrderAgrees ==
    ASSUME NEW b \in Seq(BrokerCells), Len(b) \in {25, 28}, b[12].is \in {"equity", "fno"},
           NEW a \in Seq(AnyCells), InPlace(a, b), Len(a) <= Len(b),
           NEW e, e = CD!decode_order_notification(a), e.is = "event"
    PROVE  Agrees(e, CD!decode_order_notification(b))
<1>1. /\ CD!Holds(a, 11) /\ CD!Cell(a, 11).is \in {"equity", "fno"}
      /\ e = CD!Event(CD!Checked(a, CD!OrderLayout(CD!Cell(a, 11).is)), {})
  BY DEF CD!decode_order_notification, CD!Error
<1>2. /\ CD!Holds(b, 11) /\ CD!Cell(b, 11).is \in {"equity", "fno"}
      /\ CD!decode_order_notification(b) = CD!Event(CD!Checked(b, CD!OrderLayout(CD!Cell(b, 11).is)), {})
  <2>0. \A m \in {25, 28} : m <= 256 /\ 11 < m
    OBVIOUS
  <2>1. Len(b) <= 256 /\ 11 < Len(b)
    BY <2>0
  <2>2. CD!Cell(b, 11) = b[12]
    BY DEF CD!Cell
  <2>. QED
    BY <2>1, <2>2 DEF CD!decode_order_notification, CD!Holds
<1>3. CD!Cell(a, 11).is = CD!Cell(b, 11).is
  <2>1. CD!Cell(b, 11) \in BrokerCells /\ Made(CD!Cell(a, 11), CD!Cell(b, 11))
    BY <1>1, ColumnsInPlace
  <2>2. \/ CD!Cell(a, 11).is = CD!Cell(b, 11).is
        \/ CD!Cell(a, 11).is \in {"garbled", "text"}
        \/ CD!Cell(a, 11).is = "other interval"
    BY <2>1, MadeIs
  <2>. QED
    BY <1>1, <2>2
<1>4. Positions(CD!OrderLayout(CD!Cell(b, 11).is))
  <2>1. CASE CD!Cell(b, 11).is = "equity"
    BY <2>1 DEF CD!OrderLayout, Positions
  <2>2. CASE CD!Cell(b, 11).is = "fno"
    BY <2>2 DEF CD!OrderLayout, Positions
  <2>. QED
    BY <1>2, <2>1, <2>2
<1>5. CD!decode_order_notification(b) # CD!Panic
  BY OrderTotal
<1>. QED
  BY <1>1, <1>2, <1>3, <1>4, <1>5, EventAgrees

\* A layout that is read without a check.
LEMMA ReadAgrees ==
    ASSUME NEW a \in Seq(AnyCells), NEW b \in Seq(BrokerCells), InPlace(a, b), Len(a) <= Len(b),
           NEW layout, Positions(layout),
           NEW e, e = CD!Event(CD!Indexed(a, layout), {}), e.is = "event",
           CD!Event(CD!Indexed(b, layout), {}) # CD!Panic
    PROVE  Agrees(e, CD!Event(CD!Indexed(b, layout), {}))
  BY IndexedAgrees

LEMMA FnoAgrees ==
    ASSUME NEW b \in Seq(BrokerCells), NEW a \in Seq(AnyCells), InPlace(a, b), Len(a) = Len(b),
           NEW e, e = CD!decode_one_click_fno(a), e.is = "event"
    PROVE  Agrees(e, CD!decode_one_click_fno(b))
<1>. DEFINE layout == [strategy |-> 2, stock_code |-> 8, status |-> 27]
<1>1. Len(a) = 28 /\ e = CD!Event(CD!Indexed(a, layout), {})
  BY DEF CD!decode_one_click_fno, CD!Error
<1>2. CD!decode_one_click_fno(b) = CD!Event(CD!Indexed(b, layout), {})
  BY <1>1 DEF CD!decode_one_click_fno
<1>3. Positions(layout)
  BY DEF Positions
<1>4. CD!decode_one_click_fno(b) # CD!Panic /\ Len(a) <= Len(b)
  BY <1>1, FnoTotal
<1>. HIDE DEF layout
<1>. QED
  BY <1>1, <1>2, <1>3, <1>4, ReadAgrees

LEMMA EquityAgrees ==
    ASSUME NEW b \in Seq(BrokerCells), NEW a \in Seq(AnyCells), InPlace(a, b), Len(a) = Len(b),
           NEW e, e = CD!decode_one_click_equity(a), e.is = "event"
    PROVE  Agrees(e, CD!decode_one_click_equity(b))
<1>. DEFINE layout == [stock_code |-> 1, subscription_type |-> 18, status |-> 17]
<1>1. Len(a) = 19 /\ e = CD!Event(CD!Indexed(a, layout), {})
  BY DEF CD!decode_one_click_equity, CD!Error
<1>2. CD!decode_one_click_equity(b) = CD!Event(CD!Indexed(b, layout), {})
  BY <1>1 DEF CD!decode_one_click_equity
<1>3. Positions(layout)
  BY DEF Positions
<1>4. CD!decode_one_click_equity(b) # CD!Panic /\ Len(a) <= Len(b)
  BY <1>1, EquityTotal
<1>. HIDE DEF layout
<1>. QED
  BY <1>1, <1>2, <1>3, <1>4, ReadAgrees

LEMMA CandleAgrees ==
    ASSUME NEW b \in Seq(BrokerCells), NEW a \in Seq(AnyCells), InPlace(a, b), Len(a) = Len(b),
           NEW e, e = CD!decode_candle(a), e.is = "event"
    PROVE  Agrees(e, CD!decode_candle(b))
<1>. DEFINE layout == CD!CandleLayout(Len(a))
<1>1. Len(a) \in {9, 11, 13} /\ e = CD!Event(CD!Indexed(a, layout), {})
  BY DEF CD!decode_candle, CD!Error
<1>2. CD!decode_candle(b) = CD!Event(CD!Indexed(b, layout), {})
  BY <1>1 DEF CD!decode_candle
<1>3. Positions(layout)
  <2>1. CASE Len(a) = 9
    BY <2>1 DEF CD!CandleLayout, Positions
  <2>2. CASE Len(a) = 11
    BY <2>2 DEF CD!CandleLayout, Positions
  <2>3. CASE Len(a) = 13
    BY <2>3 DEF CD!CandleLayout, Positions
  <2>. QED
    BY <1>1, <2>1, <2>2, <2>3
<1>4. CD!decode_candle(b) # CD!Panic /\ Len(a) <= Len(b)
  BY <1>1, CandleTotal
<1>. HIDE DEF layout
<1>. QED
  BY <1>1, <1>2, <1>3, <1>4, ReadAgrees

(* A candle's last cell is its interval, which no other column is: with a  *)
(* column left out it is not as long as any layout.                        *)
LEMMA CandleWhole ==
    ASSUME NEW f, IsCandle(f), f.cells \in Seq(BrokerCells),
           NEW a \in Seq(AnyCells), Len(a) + 1 <= Len(f.cells), Shifted(a, f.cells)
    PROVE  CD!decode_candle(a).is # "event"
<1>. SUFFICES ASSUME CD!decode_candle(a).is = "event" PROVE FALSE
  OBVIOUS
<1>. DEFINE n == Len(a)  layout == CD!CandleLayout(n)
<1>0. Len(f.cells) \in {9, 11, 13}
  BY DEF IsCandle
<1>1. n \in {9, 11, 13} /\ CD!decode_candle(a) = CD!Event(CD!Indexed(a, layout), {})
  BY DEF CD!decode_candle, CD!Error
<1>2. /\ "interval" \in DOMAIN layout /\ layout["interval"] = n - 1
  <2>1. CASE n = 9
    BY <2>1 DEF CD!CandleLayout
  <2>2. CASE n = 11
    BY <2>2 DEF CD!CandleLayout
  <2>3. CASE n = 13
    BY <2>3 DEF CD!CandleLayout
  <2>. QED
    BY <1>1, <2>1, <2>2, <2>3
<1>. HIDE DEF layout
<1>3. CD!Checked(a, layout) # CD!Error
  <2>1. CD!decode_candle(a) # CD!Panic
    BY CandleTotal
  <2>2. CD!decode_candle(a) = CD!Event(CD!Checked(a, layout), {})
    BY <1>1, <2>1, IndexedIs
  <2>. QED
    BY <2>2, EventIs
<1>4. a[n].is \in Intervals
  <2>1. CD!Parses("interval", CD!Cell(a, n - 1))
    BY <1>2, <1>3 DEF CD!Checked
  <2>2. CD!from_channel(CD!Cell(a, n - 1))
    BY <2>1 DEF CD!Parses, CD!Prices, CD!Numbers
  <2>3. CD!Cell(a, n - 1) = a[n]
    BY <1>1 DEF CD!Cell
  <2>. QED
    BY <2>2, <2>3 DEF CD!from_channel, Intervals
<1>5. ASSUME NEW i \in 1..Len(f.cells), Made(a[n], f.cells[i]) PROVE i = Len(f.cells)
  <2>1. f.cells[i].is \in Intervals
    BY <1>4, <1>5, ElementOfSeq, MadeIs DEF Intervals
  <2>. QED
    BY <2>1 DEF IsCandle
<1>6. Made(a[n], f.cells[n]) \/ Made(a[n], f.cells[n + 1])
  <2>0. \A m \in {9, 11, 13} : m \in Nat /\ m > 0
    OBVIOUS
  <2>1. n \in Nat /\ n > 0
    BY <1>1, <2>0
  <2>2. n \in 1..Len(a)
    BY <2>1
  <2>. QED
    BY <2>2 DEF Shifted
<1>7. n \in 1..Len(f.cells) /\ n + 1 \in 1..Len(f.cells) /\ n # Len(f.cells)
  <2>0. \A m \in {9, 11, 13} : m \in Nat /\ m > 0
    OBVIOUS
  <2>1. n \in Nat /\ n > 0
    BY <1>1, <2>0
  <2>3. Len(f.cells) \in Nat
    BY <1>0
  <2>2. n + 1 <= Len(f.cells)
    OBVIOUS
  <2>. QED
    BY <2>1, <2>2, <2>3
<1>8. n + 1 = Len(f.cells)
  BY <1>5, <1>6, <1>7
<1>. QED
  <2>1. \A m \in {9, 11, 13} : m + 1 \notin {9, 11, 13}
    OBVIOUS
  <2>. QED
    BY <1>0, <1>1, <1>8, <2>1

(* Ticks.  A row is read alike if it is the same in both frames. *)
LEMMA LevelIs ==
    ASSUME NEW rows, NEW i, NEW width, NEW layout,
           CD!Level(rows, i, width, layout) \notin {CD!Error, CD!Panic}
    PROVE  /\ CD!array(rows[i]) /\ width
           /\ CD!Level(rows, i, width, layout)
                = [is |-> "level", column |-> rows[i].column,
                   fields |-> CD!Indexed(rows[i].row, layout).of]
           /\ CD!Indexed(rows[i].row, layout) \notin {CD!Error, CD!Panic}
  BY DEF CD!Level

LEMMA LevelAgrees ==
    ASSUME NEW rows, NEW i, NEW width, NEW others, NEW wide, NEW layout,
           others[i] = rows[i], wide = width
    PROVE  CD!Level(rows, i, width, layout) = CD!Level(others, i, wide, layout)
  BY DEF CD!Level

LEMMA QuoteAgrees ==
    ASSUME NEW q, NEW b \in Seq(BrokerCells), NEW a \in Seq(AnyCells),
           InPlace(a, b), Len(a) = Len(b),
           NEW e, e = CD!decode_quote(q, a), e.is = "event"
    PROVE  Agrees(e, CD!decode_quote(q, b))
<1>. DEFINE layout == CD!QuoteLayout(Len(a))
<1>1. /\ CD!exchange_from_qualifier(q) # "unknown"
      /\ e = CD!Event(CD!Checked(a, layout), {})
  BY DEF CD!decode_quote, CD!Error
<1>2. CD!decode_quote(q, b) = CD!Event(CD!Checked(b, layout), {})
  BY <1>1 DEF CD!decode_quote
<1>3. Positions(layout)
  <2>1. CASE Len(a) = 23
    BY <2>1 DEF CD!QuoteLayout, Positions
  <2>2. CASE Len(a) # 23
    BY <2>2 DEF CD!QuoteLayout, Positions
  <2>. QED
    BY <2>1, <2>2
<1>4. CD!decode_quote(q, b) # CD!Panic /\ Len(a) <= Len(b)
  BY QuoteTotal
<1>. HIDE DEF layout
<1>. QED
  BY <1>1, <1>2, <1>3, <1>4, EventAgrees

\* The rows of a commodity frame, and what is made of them.
BookRows(cells) == SubSeq(cells, 23, Len(cells))
BookLevel(cells, i) ==
    CD!Level(BookRows(cells), i, Len(BookRows(cells)[i].row) = 8, CD!CommodityRow)
BookLevels(cells) == {BookLevel(cells, i) : i \in DOMAIN BookRows(cells)}

LEMMA CommodityIs ==
    ASSUME NEW cells, CD!decode_commodity(cells) # CD!Error
    PROVE  /\ ~ (Len(cells) < 22)
           /\ CD!decode_commodity(cells)
                = CD!Event(CD!Indexed(cells, CD!CommodityQuote), BookLevels(cells))
  BY DEF CD!decode_commodity, CD!Book, BookLevels, BookLevel, BookRows

LEMMA BookRowsAre ==
    ASSUME NEW S, NEW cells \in Seq(S), ~ (Len(cells) < 22)
    PROVE  /\ DOMAIN BookRows(cells) = 1..(Len(cells) - 22)
           /\ \A i \in 1..(Len(cells) - 22) : BookRows(cells)[i] = cells[22 + i]
<1>0. Len(cells) \in Nat
  OBVIOUS
<1>1. /\ SubSeq(cells, 23, Len(cells)) \in Seq(S)
      /\ Len(SubSeq(cells, 23, Len(cells)))
            = (IF 23 <= Len(cells) THEN Len(cells) - 23 + 1 ELSE 0)
  BY <1>0, SubSeqProperties
<1>2. \A i \in 1..(Len(cells) - 23 + 1) : SubSeq(cells, 23, Len(cells))[i] = cells[23 + i - 1]
  BY <1>0, SubSeqProperties
<1>3. Len(BookRows(cells)) = Len(cells) - 22 /\ BookRows(cells) \in Seq(S)
  <2>0. \A m \in Nat : ~ (m < 22) => (IF 23 <= m THEN m - 23 + 1 ELSE 0) = m - 22
    OBVIOUS
  <2>1. (IF 23 <= Len(cells) THEN Len(cells) - 23 + 1 ELSE 0) = Len(cells) - 22
    BY <1>0, <2>0
  <2>. QED
    BY <1>1, <2>1 DEF BookRows
<1>4. DOMAIN BookRows(cells) = 1..(Len(cells) - 22)
  BY <1>3, LenProperties
<1>5. ASSUME NEW i \in 1..(Len(cells) - 22) PROVE BookRows(cells)[i] = cells[22 + i]
  <2>1. i \in 1..(Len(cells) - 23 + 1) /\ 23 + i - 1 = 22 + i
    BY <1>0
  <2>. QED
    BY <1>2, <2>1 DEF BookRows
<1>. QED
  BY <1>4, <1>5

LEMMA CommodityAgrees ==
    ASSUME NEW f, IsCommodity(f), f.cells \in Seq(BrokerCells),
           NEW a \in Seq(AnyCells), InPlace(a, f.cells), Len(a) <= Len(f.cells),
           NEW e, e = CD!decode_commodity(a), e.is = "event"
    PROVE  Agrees(e, CD!decode_commodity(f.cells))
<1>. DEFINE b == f.cells
            w == CD!decode_commodity(b)
<1>0. Len(a) \in Nat /\ Len(b) \in Nat /\ b \in Seq(BrokerCells)
  OBVIOUS
<1>1. CASE w = CD!Error
  BY <1>1 DEF Agrees, CD!Error
<1>2. CASE w # CD!Error
  <2>1. e # CD!Error
    BY DEF CD!Error
  <2>2. /\ ~ (Len(a) < 22)
        /\ e = CD!Event(CD!Indexed(a, CD!CommodityQuote), BookLevels(a))
    BY <2>1, CommodityIs
  <2>3. /\ ~ (Len(b) < 22)
        /\ w = CD!Event(CD!Indexed(b, CD!CommodityQuote), BookLevels(b))
    BY <1>2, CommodityIs
  <2>4. ASSUME w.is = "event", NEW i \in DOMAIN BookRows(a) PROVE BookLevel(a, i) \in BookLevels(b)
    <3>1. i \in 1..(Len(a) - 22) /\ BookRows(a)[i] = a[22 + i]
      BY <2>2, <2>4, BookRowsAre
    <3>2. i \in DOMAIN BookRows(b) /\ BookRows(b)[i] = b[22 + i]
      <4>1. i \in 1..(Len(b) - 22)
        BY <1>0, <3>1
      <4>. QED
        BY <1>0, <2>3, <4>1, BookRowsAre
    <3>3. BookLevel(a, i) \notin {CD!Error, CD!Panic}
      <4>1. BookLevel(a, i) \in BookLevels(a)
        BY <2>4 DEF BookLevels
      <4>. QED
        BY <2>2, <4>1, EventIs
    <3>4. CD!array(BookRows(a)[i]) /\ Len(BookRows(a)[i].row) = 8
      BY <3>3, LevelIs DEF BookLevel
    <3>5. 22 + i \in 1..Len(a) /\ 22 + i \in 1..Len(b) /\ 22 + i \in 23..Len(b)
      BY <1>0, <3>1
    <3>6. /\ b[22 + i] \in BrokerCells /\ Made(a[22 + i], b[22 + i])
          /\ b[22 + i].is = "row" /\ Len(b[22 + i].row) = 8
      BY <1>0, <3>5, ElementOfSeq DEF InPlace, IsCommodity
    <3>7. a[22 + i] = b[22 + i]
      BY <3>1, <3>4, <3>6, MadeRow
    <3>8. BookLevel(a, i) = BookLevel(b, i)
      BY <3>1, <3>2, <3>7, LevelAgrees DEF BookLevel
    <3>. QED
      BY <3>2, <3>8 DEF BookLevels
  <2>5. w.is = "event" => BookLevels(a) \subseteq BookLevels(b)
    BY <2>4 DEF BookLevels
  <2>6. Positions(CD!CommodityQuote)
    BY DEF CD!CommodityQuote, Positions
  <2>7. w # CD!Panic
    <3>1. b \in Seq(AnyCells)
      BY <1>0 DEF BrokerCells
    <3>. QED
      BY <3>1, CommodityTotal
  <2>. HIDE DEF w, b
  <2>8. InPlace(a, b) /\ Len(a) <= Len(b)
    BY DEF b
  <2>9. Agrees(e, w)
    BY <1>0, <2>2, <2>3, <2>5, <2>6, <2>7, <2>8, IndexedAgrees
  <2>. QED
    BY <2>9 DEF w, b
<1>. QED
  BY <1>1, <1>2

(* Books.  A row without one of its columns is not as wide as it must be,  *)
(* or has a text where a number is read, or has lost what is not read.     *)
DepthLevel(x, rows, i) ==
    CD!Level(rows, i, CD!DepthWidth(x, Len(rows[i].row)), CD!DepthLayout(x))

DepthLevels(x, rows) == {DepthLevel(x, rows, i) : i \in DOMAIN rows}

LEMMA DepthIs ==
    ASSUME NEW q, NEW cells, CD!decode_depth(q, cells) # CD!Error
    PROVE  /\ CD!Holds(cells, 2) /\ CD!array(CD!Cell(cells, 2))
           /\ CD!exchange_from_qualifier(q) # "unknown"
           /\ CD!decode_depth(q, cells)
                = CD!Event(CD!Checked(cells, <<>>),
                           DepthLevels(CD!exchange_from_qualifier(q), CD!Cell(cells, 2).row))
  BY DEF CD!decode_depth, DepthLevels, DepthLevel

LEMMA SameCells ==
    ASSUME NEW a, NEW b, NEW layout,
           \A name \in DOMAIN layout : /\ CD!Holds(a, layout[name]) /\ CD!Holds(b, layout[name])
                                       /\ CD!Cell(a, layout[name]) = CD!Cell(b, layout[name])
    PROVE  CD!Indexed(a, layout) = CD!Indexed(b, layout)
  BY DEF CD!Indexed, CD!Checked

\* The row is of seven cells, and is read to the seventh.
LEMMA WideRow ==
    ASSUME NEW row \in Seq(Scalars), Len(row) = 8, row[8].is = "text", NEW n \in 1..8,
           NEW x, x \notin {"Bse", "Bfo"},
           CD!Indexed(CD!RemoveAt(row, n), CD!DepthLayout(x)) \notin {CD!Error, CD!Panic}
    PROVE  CD!Indexed(CD!RemoveAt(row, n), CD!DepthLayout(x)) = CD!Indexed(row, CD!DepthLayout(x))
<1>. DEFINE less == CD!RemoveAt(row, n)
            layout == CD!DepthLayout(x)
<1>1. layout = [buy_price |-> 0, buy_quantity |-> 1, buy_orders |-> 2,
                sell_price |-> 4, sell_quantity |-> 5, sell_orders |-> 6]
  BY DEF CD!DepthLayout
<1>2. /\ Len(less) = 7
      /\ \A i \in 1..(n - 1) : less[i] = row[i]
      /\ \A i \in n..7 : less[i] = row[i + 1]
  <2>1. n \in 1..Len(row) /\ Len(row) - 1 = 7
    OBVIOUS
  <2>. QED
    BY <2>1, RemovedLength
<1>3. \A name \in DOMAIN layout : CD!Parses(name, CD!Cell(less, layout[name]))
  BY DEF CD!Indexed, CD!Checked
<1>. HIDE DEF less
<1>4. less[7].is = "count"
  <2>1. "sell_orders" \in DOMAIN layout /\ layout["sell_orders"] = 6
    BY <1>1
  <2>2. CD!Parses("sell_orders", CD!Cell(less, 6))
    BY <1>3, <2>1
  <2>3. CD!count(CD!Cell(less, 6))
    BY <2>2 DEF CD!Parses, CD!Prices, CD!Numbers
  <2>. QED
    BY <2>3 DEF CD!count, CD!Cell
<1>5. n = 8
  <2>1. ASSUME n # 8 PROVE FALSE
    <3>1. 7 \in n..7
      BY <2>1
    <3>2. less[7] = row[8]
      BY <1>2, <3>1
    <3>. QED
      BY <1>4, <3>2
  <2>. QED
    BY <2>1
<1>6. \A i \in 1..7 : less[i] = row[i]
  BY <1>2, <1>5
<1>7. ASSUME NEW name \in DOMAIN layout
      PROVE  /\ CD!Holds(less, layout[name]) /\ CD!Holds(row, layout[name])
             /\ CD!Cell(less, layout[name]) = CD!Cell(row, layout[name])
  <2>1. layout[name] \in 0..6
    BY <1>1, <1>7
  <2>2. layout[name] + 1 \in 1..7 /\ layout[name] < 7 /\ layout[name] < 8
    BY <2>1
  <2>. QED
    BY <1>2, <1>6, <2>2 DEF CD!Holds, CD!Cell
<1>8. CD!Indexed(less, layout) = CD!Indexed(row, layout)
  <2>. HIDE DEF layout
  <2>. QED
    BY <1>7, SameCells
<1>. QED
  BY <1>8 DEF less

LEMMA NarrowedLevel ==
    ASSUME NEW x, NEW rows \in Seq(RowCells), NEW others, NEW i \in DOMAIN rows, NEW n \in Nat,
           FullRow(x, rows[i].row), n \in 1..Len(rows[i].row),
           others[i] = CD!Without(rows[i], n),
           DepthLevel(x, others, i) \notin {CD!Error, CD!Panic}
    PROVE  DepthLevel(x, others, i) = DepthLevel(x, rows, i)
<1>. DEFINE row == rows[i].row
            less == CD!RemoveAt(row, n)
<1>1. rows[i] \in RowCells
  BY ElementOfSeq, LenProperties
<1>2. /\ others[i].row = less /\ others[i].column = rows[i].column /\ others[i].is = rows[i].is
  BY <1>1 DEF CD!Without, RowCells
<1>3. row \in Seq(Scalars) /\ Len(row) \in Nat
  BY <1>1, LenProperties DEF RowCells
<1>4. Len(less) = Len(row) - 1
  BY <1>3, RemovedLength
<1>5. /\ CD!array(others[i]) /\ CD!DepthWidth(x, Len(less))
      /\ DepthLevel(x, others, i)
            = [is |-> "level", column |-> rows[i].column,
               fields |-> CD!Indexed(less, CD!DepthLayout(x)).of]
      /\ CD!Indexed(less, CD!DepthLayout(x)) \notin {CD!Error, CD!Panic}
  BY <1>2, LevelIs DEF DepthLevel
<1>. HIDE DEF less, row
<1>6. x \notin {"Bse", "Bfo"} /\ Len(row) = 8 /\ row[8].is = "text"
  <2>1. ASSUME x = "Bse" PROVE FALSE
    <3>1. Len(row) = 4
      BY <2>1 DEF FullRow, row
    <3>2. Len(less) = 4
      BY <1>5, <2>1 DEF CD!DepthWidth
    <3>3. 4 = 4 - 1
      BY <1>4, <3>1, <3>2, Zenon
    <3>. QED
      BY <3>3
  <2>2. ASSUME x = "Bfo" PROVE FALSE
    <3>1. Len(row) = 6
      BY <2>2 DEF FullRow, row
    <3>2. Len(less) = 6
      BY <1>5, <2>2 DEF CD!DepthWidth
    <3>3. 6 = 6 - 1
      BY <1>4, <3>1, <3>2, Zenon
    <3>. QED
      BY <3>3
  <2>. QED
    BY <2>1, <2>2 DEF FullRow, row
<1>7. CD!Indexed(less, CD!DepthLayout(x)) = CD!Indexed(row, CD!DepthLayout(x))
  <2>1. n \in 1..8
    BY <1>6 DEF row
  <2>. QED
    BY <1>3, <1>5, <1>6, <2>1, WideRow DEF less
<1>8. CD!array(rows[i]) /\ CD!DepthWidth(x, Len(row))
  BY <1>2, <1>5, <1>6 DEF CD!array, CD!DepthWidth
<1>9. DepthLevel(x, rows, i) = [is |-> "level", column |-> rows[i].column,
                                fields |-> CD!Indexed(row, CD!DepthLayout(x)).of]
  <2>1. CD!Indexed(rows[i].row, CD!DepthLayout(x)) \notin {CD!Error, CD!Panic}
    BY <1>5, <1>7 DEF row
  <2>. QED
    BY <1>8, <2>1 DEF DepthLevel, CD!Level, row
<1>. QED
  BY <1>5, <1>7, <1>9

LEMMA DepthAgrees ==
    ASSUME NEW f, IsDepth(f), f.cells \in Seq(BrokerCells),
           NEW a \in Seq(AnyCells), InPlace(a, f.cells), Len(a) <= Len(f.cells),
           NEW e, e = CD!decode_depth(f.qualifier, a), e.is = "event"
    PROVE  Agrees(e, CD!decode_depth(f.qualifier, f.cells))
<1>. DEFINE b == f.cells
            x == CD!exchange_from_qualifier(f.qualifier)
            w == CD!decode_depth(f.qualifier, b)
            c == CD!Cell(a, 2)
            r == CD!Cell(b, 2)
<1>1. CASE w = CD!Error
  BY <1>1 DEF Agrees, CD!Error
<1>2. CASE w # CD!Error
  <2>1. e # CD!Error
    BY DEF CD!Error
  <2>2. /\ CD!Holds(a, 2) /\ CD!array(c)
        /\ e = CD!Event(CD!Checked(a, <<>>), DepthLevels(x, c.row))
    BY <2>1, DepthIs
  <2>3. w = CD!Event(CD!Checked(b, <<>>), DepthLevels(x, r.row))
    BY <1>2, DepthIs
  <2>4. r \in BrokerCells /\ Made(c, r)
    BY <2>2, ColumnsInPlace
  <2>5. /\ r.is = "rows"
        /\ \A i \in DOMAIN r.row : FullRow(x, r.row[i].row)
    BY DEF IsDepth, CD!Cell
  <2>6. w # CD!Panic
    <3>1. b \in Seq(AnyCells)
      BY DEF BrokerCells
    <3>. QED
      BY <3>1, DepthTotal
  <2>7. \A level \in DepthLevels(x, c.row) : level \notin {CD!Error, CD!Panic}
    BY <2>2, EventIs
  <2>. HIDE DEF c, r, x
  <2>8. r.row \in Seq(RowCells) /\ Len(r.row) \in Nat /\ DOMAIN r.row = 1..Len(r.row)
    BY <2>4, LenProperties DEF BrokerCells, AnyCells
  <2>9. \A row : [r EXCEPT !.row = row].row = row
    BY <2>4 DEF BrokerCells, AnyCells
  <2>10. DepthLevels(x, c.row) \subseteq DepthLevels(x, r.row)
    <3>1. CASE c = r
      BY <3>1
    <3>2. ASSUME NEW n \in 0..(Len(r.row) - 1), c = [r EXCEPT !.row = SubSeq(r.row, 1, n)]
          PROVE  DepthLevels(x, c.row) \subseteq DepthLevels(x, r.row)
      <4>1. c.row = SubSeq(r.row, 1, n)
        BY <2>9, <3>2
      <4>2. DOMAIN c.row = 1..n /\ \A i \in 1..n : c.row[i] = r.row[i]
        BY <2>8, <4>1, SubSeqProperties
      <4>3. ASSUME NEW i \in DOMAIN c.row
            PROVE  i \in DOMAIN r.row /\ DepthLevel(x, c.row, i) = DepthLevel(x, r.row, i)
        <5>1. i \in DOMAIN r.row /\ c.row[i] = r.row[i]
          BY <2>8, <4>2, <4>3
        <5>. QED
          BY <5>1, LevelAgrees DEF DepthLevel
      <4>. QED
        BY <4>3 DEF DepthLevels
    <3>3. ASSUME c \in CD!Narrowed(r) PROVE DepthLevels(x, c.row) \subseteq DepthLevels(x, r.row)
      <4>1. PICK n \in 1..Len(r.row[1].row) :
                c = [r EXCEPT !.row = [i \in DOMAIN r.row |-> CD!Without(r.row[i], n)]]
        BY <2>5, <3>3 DEF CD!Narrowed
      <4>2. c.row = [i \in DOMAIN r.row |-> CD!Without(r.row[i], n)]
        BY <2>9, <4>1
      <4>3. ASSUME NEW i \in DOMAIN c.row
            PROVE  i \in DOMAIN r.row /\ DepthLevel(x, c.row, i) = DepthLevel(x, r.row, i)
        <5>1. i \in DOMAIN r.row /\ c.row[i] = CD!Without(r.row[i], n)
          BY <4>2, <4>3
        <5>2. FullRow(x, r.row[i].row)
          BY <2>5, <5>1
        <5>3. n \in 1..Len(r.row[i].row) /\ n \in Nat
          BY <2>4, <2>5, <5>1 DEF BrokerCells, Even
        <5>4. DepthLevel(x, c.row, i) \notin {CD!Error, CD!Panic}
          BY <2>7, <4>3 DEF DepthLevels
        <5>. QED
          BY <2>8, <5>1, <5>2, <5>3, <5>4, NarrowedLevel
      <4>. QED
        BY <4>3 DEF DepthLevels
    <3>. QED
      BY <2>2, <2>4, <3>1, <3>2, <3>3, MadeArray
  <2>11. Positions(<<>>)
    BY DEF Positions
  <2>. HIDE DEF w
  <2>12. Agrees(e, w)
    BY <2>2, <2>3, <2>6, <2>10, <2>11, EventAgrees
  <2>. QED
    BY <2>12 DEF w
<1>. QED
  BY <1>1, <1>2

(* The decoders together. *)
LEMMA TickIs ==
    ASSUME NEW q, NEW data, NEW cells, CD!decode_tick(q, data, cells).is = "event"
    PROVE  /\ data = "depth" => CD!decode_tick(q, data, cells) = CD!decode_depth(q, cells)
           /\ data = "quotes" /\ q = 6 => CD!decode_tick(q, data, cells) = CD!decode_commodity(cells)
           /\ data = "quotes" /\ q # 6 => /\ Len(cells) \in {21, 23}
                                          /\ CD!decode_tick(q, data, cells) = CD!decode_quote(q, cells)
  BY DEF CD!decode_tick, CD!Error, CD!Unknown

\* The whole frame begins with its symbol.
LEMMA WholeTick ==
    ASSUME NEW q, NEW data, NEW cells, Len(cells) \in Nat, Len(cells) > 0, cells[1].is = "symbol"
    PROVE  /\ data = "depth" => CD!decode_tick(q, data, cells) = CD!decode_depth(q, cells)
           /\ data = "quotes" /\ q = 6 => CD!decode_tick(q, data, cells) = CD!decode_commodity(cells)
           /\ data = "quotes" /\ q # 6 /\ Len(cells) \in {21, 23} =>
                CD!decode_tick(q, data, cells) = CD!decode_quote(q, cells)
<1>1. CD!Holds(cells, 0) /\ CD!Cell(cells, 0).is = "symbol"
  BY DEF CD!Holds, CD!Cell
<1>2. CD!text(CD!Cell(cells, 0))
  BY <1>1 DEF CD!text, CD!array
<1>. QED
  BY <1>1, <1>2 DEF CD!decode_tick

LEMMA InPlaceIsShifted == \A a, b : InPlace(a, b) => Shifted(a, b)
  BY DEF InPlace, Shifted

\* What the invariant says of a frame that was made an event of.
LEMMA EventOf ==
    ASSUME ColumnIInv, event.is = "event"
    PROVE  /\ event = CD!Decode(feed, frame)
           /\ feed.cells \in Seq(BrokerCells) /\ frame \in Seq(AnyCells)
           /\ Len(frame) \in Nat /\ Len(feed.cells) \in Nat
           /\ \/ InPlace(frame, feed.cells) /\ Len(frame) <= Len(feed.cells)
              \/ /\ missing > 0
                 /\ Shifted(frame, feed.cells) /\ Len(frame) + 1 <= Len(feed.cells)
<1>1. event = CD!Decode(feed, frame)
  BY DEF ColumnIInv, CD!Nothing
<1>2. feed.cells \in Seq(BrokerCells) /\ frame \in Seq(AnyCells)
  BY DEF ColumnIInv, CodecIInv
<1>3. Len(frame) \in Nat /\ Len(feed.cells) \in Nat
  BY <1>2, LenProperties
<1>. QED
  BY <1>1, <1>2, <1>3 DEF ColumnIInv, Tracks

LEMMA NotConfused ==
    ASSUME ColumnIInv, event.is = "event"
    PROVE  \/ CD!TakenForCash
           \/ CD!Open /\ missing > 0
           \/ Agrees(event, CD!Decode(feed, feed.cells))
<1>. DEFINE a == frame  b == feed.cells  n == Len(frame)
<1>1. /\ event = CD!Decode(feed, a)
      /\ b \in Seq(BrokerCells) /\ a \in Seq(AnyCells) /\ n \in Nat /\ Len(b) \in Nat
  BY EventOf
<1>2. \/ InPlace(a, b) /\ n <= Len(b)
      \/ missing > 0 /\ Shifted(a, b) /\ n + 1 <= Len(b)
  BY EventOf
<1>3. ASSUME Len(a) = Len(b) PROVE InPlace(a, b)
  BY <1>1, <1>2, <1>3
<1>4. CASE IsOrder(feed)
  <2>1. /\ event = CD!decode_order_notification(a)
        /\ CD!Decode(feed, b) = CD!decode_order_notification(b)
    BY <1>1, <1>4 DEF IsOrder, CD!Decode
  <2>2. CASE missing > 0 /\ Shifted(a, b) /\ n + 1 <= Len(b)
    BY <1>4, <2>2 DEF IsOrder, CD!Open
  <2>3. CASE InPlace(a, b) /\ n <= Len(b)
    <3>1. Agrees(event, CD!decode_order_notification(b))
      BY <1>1, <1>4, <2>1, <2>3, OrderAgrees DEF IsOrder
    <3>. QED
      BY <2>1, <3>1
  <2>. QED
    BY <1>2, <2>2, <2>3
<1>5. CASE IsClick(feed)
  <2>1. CASE feed.channel = "fno" /\ Len(feed.cells) = 28
    <3>1. event = CD!decode_one_click_fno(a) /\ CD!Decode(feed, b) = CD!decode_one_click_fno(b)
      BY <1>1, <2>1 DEF CD!Decode
    <3>2. Len(a) = 28
      BY <3>1 DEF CD!decode_one_click_fno, CD!Error
    <3>3. Agrees(event, CD!decode_one_click_fno(b))
      BY <1>1, <1>3, <2>1, <3>1, <3>2, FnoAgrees
    <3>. QED
      BY <3>1, <3>3
  <2>2. CASE feed.channel = "equity" /\ Len(feed.cells) = 19
    <3>1. event = CD!decode_one_click_equity(a) /\ CD!Decode(feed, b) = CD!decode_one_click_equity(b)
      BY <1>1, <2>2 DEF CD!Decode
    <3>2. Len(a) = 19
      BY <3>1 DEF CD!decode_one_click_equity, CD!Error
    <3>3. Agrees(event, CD!decode_one_click_equity(b))
      BY <1>1, <1>3, <2>2, <3>1, <3>2, EquityAgrees
    <3>. QED
      BY <3>1, <3>3
  <2>. QED
    BY <1>5, <2>1, <2>2 DEF IsClick
<1>6. CASE IsCandle(feed)
  <2>1. event = CD!decode_candle(a)
    BY <1>1, <1>6 DEF IsCandle, CD!Decode, CD!Error
  <2>2. CD!Decode(feed, b) = CD!decode_candle(b) \/ CD!Decode(feed, b) = CD!Error
    BY <1>6 DEF IsCandle, CD!Decode
  <2>3. Len(a) = Len(b)
    <3>1. ASSUME Len(a) + 1 <= Len(b) PROVE FALSE
      <4>1. Shifted(a, b)
        BY <1>2, InPlaceIsShifted
      <4>. QED
        BY <1>1, <1>6, <2>1, <3>1, <4>1, CandleWhole
    <3>. QED
      BY <1>1, <1>2, <3>1
  <2>4. Agrees(event, CD!decode_candle(b))
    BY <1>1, <1>3, <2>1, <2>3, CandleAgrees
  <2>5. \A e : Agrees(e, CD!Error)
    BY DEF Agrees, CD!Error
  <2>. QED
    BY <2>2, <2>4, <2>5
<1>7. CASE IsQuote(feed)
  <2>0. /\ feed.channel = "tick" /\ feed.data = "quotes" /\ feed.qualifier # 6
        /\ Len(b) \in {21, 23} /\ b[1].is = "symbol"
    BY <1>7 DEF IsQuote
  <2>1. event = CD!decode_tick(feed.qualifier, feed.data, a)
    BY <1>1, <2>0 DEF CD!Decode
  <2>2. Len(a) \in {21, 23} /\ event = CD!decode_quote(feed.qualifier, a)
    BY <2>0, <2>1, TickIs
  <2>3. CD!Decode(feed, b) = CD!decode_quote(feed.qualifier, b)
    <3>1. Len(b) > 0
      BY <2>0
    <3>. QED
      BY <1>1, <2>0, <3>1, WholeTick DEF CD!Decode
  <2>4. CASE Len(a) = Len(b)
    <3>1. Agrees(event, CD!decode_quote(feed.qualifier, b))
      BY <1>1, <1>3, <2>2, <2>4, QuoteAgrees
    <3>. QED
      BY <2>3, <3>1
  <2>5. CASE Len(a) # Len(b)
    <3>1. n <= Len(b)
      BY <1>1, <1>2
    <3>0. \A m, k \in {21, 23} : m # k /\ m <= k => m = 21 /\ k = 23
      OBVIOUS
    <3>2. Len(a) = 21 /\ Len(b) = 23
      BY <2>0, <2>2, <2>5, <3>0, <3>1
    <3>. QED
      BY <2>0, <3>2 DEF CD!TakenForCash
  <2>. QED
    BY <2>4, <2>5
<1>8. CASE IsDepth(feed)
  <2>0. /\ feed.channel = "tick" /\ feed.data = "depth" /\ Len(b) = 3 /\ b[1].is = "symbol"
    BY <1>8 DEF IsDepth
  <2>1. event = CD!decode_depth(feed.qualifier, a)
    BY <1>1, <2>0, TickIs DEF CD!Decode
  <2>2. CD!Decode(feed, b) = CD!decode_depth(feed.qualifier, b)
    BY <1>1, <2>0, WholeTick DEF CD!Decode
  <2>3. n > 2
    <3>1. event # CD!Error
      BY DEF CD!Error
    <3>. QED
      BY <1>1, <2>1, <3>1, DepthIs DEF CD!Holds
  <2>4. InPlace(a, b) /\ n <= Len(b)
    BY <1>1, <1>2, <2>0, <2>3
  <2>5. Agrees(event, CD!decode_depth(feed.qualifier, b))
    BY <1>1, <1>8, <2>1, <2>4, DepthAgrees
  <2>. QED
    BY <2>2, <2>5
<1>9. CASE IsCommodity(feed)
  <2>0. /\ feed.channel = "tick" /\ feed.data = "quotes" /\ feed.qualifier = 6
        /\ Len(b) >= 22 /\ b[1].is = "symbol"
    BY <1>9 DEF IsCommodity
  <2>1. event = CD!decode_commodity(a)
    BY <1>1, <2>0, TickIs DEF CD!Decode
  <2>2. CD!Decode(feed, b) = CD!decode_commodity(b)
    <3>1. Len(b) > 0
      BY <1>1, <2>0
    <3>. QED
      BY <1>1, <2>0, <3>1, WholeTick DEF CD!Decode
  <2>3. CASE missing > 0 /\ Shifted(a, b) /\ n + 1 <= Len(b)
    BY <2>0, <2>3 DEF CD!Open
  <2>4. CASE InPlace(a, b) /\ n <= Len(b)
    <3>1. Agrees(event, CD!decode_commodity(b))
      BY <1>1, <1>9, <2>1, <2>4, CommodityAgrees
    <3>. QED
      BY <2>2, <3>1
  <2>. QED
    BY <1>2, <2>3, <2>4
<1>. QED
  BY <1>4, <1>5, <1>6, <1>7, <1>8, <1>9 DEF ColumnIInv, Shaped

(* With at most one column missing, each field of an event has the value   *)
(* of its own column or there is no event, but for the three layouts that  *)
(* CD!ColumnsAreNotConfused names (src/streaming/codec.rs:238).            *)
THEOREM ColumnsStay ==
    ASSUME MaxMissing \in {0, 1}
    PROVE  CD!Spec => []CD!ColumnsAreNotConfused
<1>1. ColumnIInv /\ [CD!Next]_CD!codecVars => ColumnIInv'
  BY ColumnNext
<1>2. ColumnIInv => CD!ColumnsAreNotConfused
  BY NotConfused DEF CD!ColumnsAreNotConfused, Agrees
<1>. QED
  BY ColumnInit, <1>1, <1>2, PTL DEF CD!Spec

----------------------------------------------------------------------------
(* The composition.                                                        *)

(* The parts do not change places. *)
LEMMA PartStays == [LibraryNext]_vars => part' = part
  BY DEF LibraryNext, Master, Request, Frame, Response, Transport, vars

(* Every part's variables here are those it has. *)
LEMMA SameVariables ==
    /\ UNCHANGED masterVars => UNCHANGED SM!masterVars
    /\ UNCHANGED codecVars => UNCHANGED CD!codecVars
    /\ UNCHANGED envelopeVars => UNCHANGED EN!envelopeVars
    /\ UNCHANGED fakeVars => UNCHANGED FS!fakeVars
  BY DEF masterVars, SM!masterVars, SM!countVars, SM!fileVars, codecVars, CD!codecVars,
         envelopeVars, EN!envelopeVars, fakeVars, FS!fakeVars, FS!recordVars, FS!wishVars, FS!eventVars

LEMMA MasterSteps == [LibraryNext]_vars => [SM!Next]_SM!masterVars
  BY SameVariables, Zenon DEF LibraryNext, Master, Request, Frame, Response, Transport, vars

LEMMA RequestSteps ==
    part = "requests" /\ [LibraryNext]_vars => [Next]_requestVars
  BY DEF LibraryNext, Master, Request, Frame, Response, Transport, vars

LEMMA FrameSteps ==
    part = "codec" /\ [LibraryNext]_vars => [CD!Next]_CD!codecVars
  BY SameVariables DEF LibraryNext, Master, Request, Frame, Response, Transport, vars

LEMMA ResponseSteps ==
    part = "envelope" /\ [LibraryNext]_vars => [EN!Next]_EN!envelopeVars
  BY SameVariables DEF LibraryNext, Master, Request, Frame, Response, Transport, vars

LEMMA TransportSteps ==
    part = "fake" /\ [LibraryNext]_vars => [FS!Next]_FS!fakeVars
  BY SameVariables DEF LibraryNext, Master, Request, Frame, Response, Transport, vars

(* The composition implements the security master. *)
LEMMA MasterImplemented == LibrarySpec => SM!Spec
<1>1. LibraryInit => SM!Init
  BY DEF LibraryInit
<1>. QED
  BY <1>1, MasterSteps, PTL DEF LibrarySpec, SM!Spec

(* Where it is their part that moves, requests. *)
LEMMA RequestsImplemented == LibrarySpec /\ part = "requests" => Spec
<1>1. LibraryInit /\ part = "requests" => Init
  BY DEF LibraryInit
<1>2. part = "requests" /\ [LibraryNext]_vars => (part = "requests")'
  BY PartStays
<1>. QED
  BY <1>1, <1>2, RequestSteps, PTL DEF LibrarySpec, Spec

(* The codec, where its part does. *)
LEMMA CodecImplemented == LibrarySpec /\ part = "codec" => CD!Spec
<1>1. LibraryInit /\ part = "codec" => CD!Init
  BY DEF LibraryInit
<1>2. part = "codec" /\ [LibraryNext]_vars => (part = "codec")'
  BY PartStays
<1>. QED
  BY <1>1, <1>2, FrameSteps, PTL DEF LibrarySpec, CD!Spec

(* The envelope, where its part does. *)
LEMMA EnvelopeImplemented == LibrarySpec /\ part = "envelope" => EN!Spec
<1>1. LibraryInit /\ part = "envelope" => EN!Init
  BY DEF LibraryInit
<1>2. part = "envelope" /\ [LibraryNext]_vars => (part = "envelope")'
  BY PartStays
<1>. QED
  BY <1>1, <1>2, ResponseSteps, PTL DEF LibrarySpec, EN!Spec

(* The fake transport, where its part does. *)
LEMMA FakeImplemented == LibrarySpec /\ part = "fake" => FS!Spec
<1>1. LibraryInit /\ part = "fake" => FS!Init
  BY DEF LibraryInit
<1>2. part = "fake" /\ [LibraryNext]_vars => (part = "fake")'
  BY PartStays
<1>. QED
  BY <1>1, <1>2, TransportSteps, PTL DEF LibrarySpec, FS!Spec

(* lookup answers with the last row accepted of a key, over all files      *)
(* (src/instruments.rs:187).                                               *)
THEOREM LibraryLookup == LibrarySpec => []LastRowWins
  BY MasterImplemented, LookupHasTheLast, PTL DEF LastRowWins

(* Records and duplicates add up to the rows accepted                      *)
(* (src/instruments.rs:180).                                               *)
THEOREM LibraryCounts == LibrarySpec => []CountsReconcile
  BY MasterImplemented, DiagnosticsAddUp, PTL DEF CountsReconcile

(* No two files have a record of the same key (src/instruments.rs:257). *)
THEOREM LibraryFiles == LibrarySpec => []FilesDoNotOverlap
  BY MasterImplemented, FilesApart, PTL DEF FilesDoNotOverlap

(* No frame makes a decoder panic (src/streaming/codec.rs:124). *)
THEOREM LibraryDecodes == LibrarySpec => []DecodersAreTotal
<1>1. CD!DecodersAreTotal => DecodersAreTotal
  BY DEF DecodersAreTotal
<1>2. ~ (part = "codec") => DecodersAreTotal
  BY DEF DecodersAreTotal
<1>3. ~ (part = "codec") /\ [LibraryNext]_vars => (~ (part = "codec"))'
  BY PartStays
<1>. QED
  BY <1>1, <1>2, <1>3, CodecImplemented, FramesDecode, PTL DEF LibrarySpec

(* With at most one column missing, no field has another column's value    *)
(* (src/streaming/codec.rs:238).                                           *)
THEOREM LibraryColumns ==
    ASSUME MaxMissing \in {0, 1}
    PROVE  LibrarySpec => []ColumnsAreNotConfused
<1>1. CD!ColumnsAreNotConfused => ColumnsAreNotConfused
  BY DEF ColumnsAreNotConfused
<1>2. ~ (part = "codec") => ColumnsAreNotConfused
  BY DEF ColumnsAreNotConfused
<1>3. ~ (part = "codec") /\ [LibraryNext]_vars => (~ (part = "codec"))'
  BY PartStays
<1>. QED
  BY <1>1, <1>2, <1>3, CodecImplemented, ColumnsStay, PTL DEF LibrarySpec

(* A success is the broker's (src/client.rs:800). *)
THEOREM LibrarySuccess == LibrarySpec => []OkMeansApplied
<1>1. EN!OkMeansApplied => OkMeansApplied
  BY DEF OkMeansApplied
<1>2. ~ (part = "envelope") => OkMeansApplied
  BY DEF OkMeansApplied
<1>3. ~ (part = "envelope") /\ [LibraryNext]_vars => (~ (part = "envelope"))'
  BY PartStays
<1>. QED
  BY <1>1, <1>2, <1>3, EnvelopeImplemented, SuccessIsTheBrokers, PTL DEF LibrarySpec

(* An error that does not say the outcome is unknown means that the        *)
(* mutation was not made (src/client.rs:819).                              *)
THEOREM LibraryErrors == LibrarySpec => []PlainErrorMeansRefused
<1>1. EN!PlainErrorMeansRefused => PlainErrorMeansRefused
  BY DEF PlainErrorMeansRefused
<1>2. ~ (part = "envelope") => PlainErrorMeansRefused
  BY DEF PlainErrorMeansRefused
<1>3. ~ (part = "envelope") /\ [LibraryNext]_vars => (~ (part = "envelope"))'
  BY PartStays
<1>. QED
  BY <1>1, <1>2, <1>3, EnvelopeImplemented, ErrorsAreRefusals, PTL DEF LibrarySpec

(* A connection that replayed has each subscription once for every handle  *)
(* that wants it, unless one of them is still changing it                  *)
(* (src/streaming/testing.rs:69).                                          *)
THEOREM LibraryReplay == LibrarySpec => []ReplayBalances
<1>1. FS!ReplayBalances => ReplayBalances
  BY DEF ReplayBalances
<1>2. ~ (part = "fake") => ReplayBalances
  BY DEF ReplayBalances
<1>3. ~ (part = "fake") /\ [LibraryNext]_vars => (~ (part = "fake"))'
  BY PartStays
<1>. QED
  BY <1>1, <1>2, <1>3, FakeImplemented, ReplaysBalance, PTL DEF LibrarySpec

(* A consumer that waits at an empty queue knows of every loss but one of  *)
(* each task that emits (src/streaming/testing.rs:331).                    *)
THEOREM LibraryLosses == LibrarySpec => []ParkedLossBounded
<1>1. FS!ParkedLossBounded => ParkedLossBounded
  BY DEF ParkedLossBounded
<1>2. ~ (part = "fake") => ParkedLossBounded
  BY DEF ParkedLossBounded
<1>3. ~ (part = "fake") /\ [LibraryNext]_vars => (~ (part = "fake"))'
  BY PartStays
<1>. QED
  BY <1>1, <1>2, <1>3, FakeImplemented, LossesAreTold, PTL DEF LibrarySpec
=============================================================================
