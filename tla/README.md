# A verification of breeze-icici

TLA+ models of the Rust client for ICICI's Breeze API (`src/` is the crate's
repository), checked with TLC and, in part, proved with TLAPS. The library is
small where it is pure and delicate where it is concurrent: a rate limiter
shared by clones of a client, REST calls with nested deadlines that must never
lie about a mutation, and a stream handle whose callbacks run beside its caller.
Those have a module and a run each. The parts that are pure, or that share no
state with others, have a module each and one run together.

## 1. The system

| part | state | operations | who it meets |
|---|---|---|---|
| **Rate gate** (`rate_limit.rs`, `BreezeClient::acquire`) | three deques of admission times (minute, day, order mutations), behind an async mutex | `try_acquire_at`, the loop of `acquire` | every clone of a client |
| **REST execution** (`client.rs`: `execute`, `authenticate`, `send_once`) | per call: attempt, deadline, what is on the wire | prepare, ask the gate, send, read, retry, give up | the gate, the broker, the runtime's timers |
| **Event queue** (`streaming/production.rs`: `enqueue`, `next_event`) | a bounded channel and an atomic count of losses | try_send then count; try_recv, take the count, wait | Socket.IO callbacks and the caller |
| **Stream handle** (`streaming/production.rs`, `streaming/mod.rs`) | desired subscriptions, emission guard, generation, `Notify`, `closed` | connect, subscribe, unsubscribe, wait_until_reconnected, shutdown, drop; the open callback replays | the transport, which reconnects by itself |
| **Trading facade** (`services.rs`) | none | `modify` reads the order, then writes; the rest forwards | REST execution, the market |
| Requests (`orders.rs`, `gtt.rs`, `market.rs`, `account.rs`, `risk.rs`, `portfolio.rs`, `trades.rs`, `domain/`) | a draft while it is built | constructors, setters, `build`, `body` | REST execution |
| Security master (`instruments.rs`) | records by key, loaded files, diagnostics | ingest a file, look up | applications |
| Codecs (`streaming/codec.rs`, `decode_payload`) | none | decode ticks, depth, orders, candles | the stream's data callbacks |
| Response envelope (`client.rs`, `mod response`) | none | HTTP status and envelope to a result | REST execution |
| Fake transport (`streaming/testing.rs`) | connections, registered streams | the stream handle's operations, for tests | tests of applications |
| Auth, signing, clock, errors, endpoints | none | checksum, headers, redaction | REST execution |

What is hard, and what makes each part correct:

- *Rate gate.* A caller's elapsed time is sampled before it queues for the lock,
  so samples arrive stale and out of order; a deadline can drop the future at
  either await. Correct: no quota is exceeded (by more than staleness explains),
  nobody is refused without a full quota behind it, a wait is long enough.
- *REST execution.* Timeouts race answers, retries race deadlines, and a
  request nobody waits for may still be executed. Correct: the caller of a
  mutation is never told something the broker's behaviour contradicts; retries
  are charged and obey Retry-After; every call ends, in time.
- *Event queue.* No lock; two instructions on each side interleave. Correct: every
  event is delivered or counted as lost exactly once, and the caller learns of it.
- *Stream handle.* The replay of a reconnect runs against the caller's calls, any
  of which can be dropped at an await. Correct: the server's rooms follow the
  desired set, a reconnect is announced after its replay, no wakeup is lost, a
  disconnected handle stays silent.
- *Trading facade.* Between the read and the write of `modify` the order can be
  filled, cancelled or modified by others, and each of the two calls can fail by
  itself. Correct: a write follows a look at an open order, the caller is told
  nothing that the broker contradicts, an order that nobody asked to break a rule
  keeps it.
- *Requests.* A builder's methods come in any order, and `body()` relies on what
  only `build()` checked. Correct: what is built can be sent and keeps its rules,
  a mutation says that it is one, requests that ask for different things differ on the wire.
- *Security master.* A file can end part-way, be read twice, overlap itself.
  Correct: `lookup` has the last row, the diagnostics add up, files do not collide.
- *Codecs.* Positional layouts are told apart by their length. Correct: no frame
  panics a callback, none is decoded with its values shifted.
- *Envelope.* HTTP status, envelope status, error and body can disagree. Correct:
  a refusal is never a success, a mutation that was made never a plain error.
- *Fake transport.* Two mutexes, never held together, and handles that move to a
  new connection when they look. Correct: the record of a connection balances.

## 2. Modules

| module | models | state and actions in the code's terms |
|---|---|---|
| `RateLimit` | `RateLimiterModel` | operators: `TryAcquireAt(log, class, now)` is `try_acquire_at`; `Prune`, `Until`, `Charged` its parts. No state. |
| `RateLimiter` | `acquire` by concurrent tasks | `log` the three deques; `pc` where a task stands (waiting for the lock, sleeping); `sampled` its elapsed time; `Acquire`, `Allow`, `Refuse`, `Resume`, `Cancel` the steps between its awaits; `Tick` time. `admissions` and `undisturbed` are history. |
| `QuotaLedger` | what a gate promises | abstract: an admission is charged to ledgers that have room; no deques or samples. |
| `RestExecute` | `execute`, `authenticate`, `send_once`, over `RateLimit` | `pc` the await a call is in; `deadline`, `wake` its timers; `atBroker`, `orphans`, `reply`, `effects` the broker's side (external). One action per step between awaits; `Settle` is what follows `send_once` in `execute`, `Login` what follows it in `authenticate`. |
| `MutationContract` | what the caller of a mutation may be told | abstract: "Ok" only when executed once, "Error" only when never executed, "Unknown" otherwise. |
| `EventQueue` | `enqueue` and `next_event` | one action per atomic instruction; `callback[k] = "refused"` is between try_send and fetch_add. |
| `StreamHandle` | one production handle | `lock` the emission guard; `opening`, `toJoin` the open callback; `pc`, `target`, `leaving` the caller; `conn`, `joined` the transport and the server (external); `armed` the `Notified` future's snapshot. |
| `OrderRules` | what `OrderRequests` and `Trading` share | operators: `DisclosedFits`, `StopLossRelation`, the fields of a modification and its `build`. |
| `Trading` | `TradingService::modify`, `place`, `cancel` | `order` the broker's order (external); `pc` where each caller is between its awaits; `Call`, `ReadFails`, `Decline`, `Proceed`, `Send`, `Answer`, `DropCall` are modify's steps, `Market` the exchange. `wrote`, `origin` and the like are history. `modify` implements `MutationContract`. |
| `Instruments`, `OrderRequests`, `GttRequests`, `MarketRequests`, `AccountRequests`, `RiskRequests` | the request types of a file each | operators: `XNew` the drafts of a constructor, `XSetters` what each builder method can make of a draft, `XBuild` the guard of `build`, `XRequest` what the request is on the wire. `Instruments` is `domain/mod.rs`. |
| `Requests` | a request's life | `draft`, `calls`, `stage`, `sent`; `Init` a constructor, `Call` a builder method, `Build`, `Send` (`prepare_request` with its headers and class). |
| `SecurityMaster` | `ingest_file`, `lookup`, diagnostics | `records`, `loaded`, `malformed`, `duplicates` as in the struct; one action per turn of the loop; `accepted` is history. |
| `Codec` | `decode_payload` and every decoder | operators on frames whose cells are named by what they hold; the broker writes a frame column by column and may omit or damage some; `Deliver` decodes. |
| `Envelope` | the body loop of `send_once`, `decode_for`, `ambiguous_mutation` | the broker acts and answers, a proxy may replace the answer, the connection may fail; `Chunk` is a turn of the loop. |
| `FakeSocket` | `FakeSocketIo` and `TestStreamHandle` | `connections`, `index`, `subscriptions`, `queue`, `dropped` as in the structs; `emitting`, `refused` where each task's `emit` is. One action each time a mutex is held, and one each for `try_send`, for the count of its failure and for the swap of the counter. The `shutdown` flag, which only its own handle sets, goes with the mutex next to it, and `notify_waiters` with the connection it announces. |
| `Library` | the five parts above, from `Requests` on, side by side | `part` says which of them moves: they share no state, so one composition and one run hold them all. |
| `RateLimitProofs` | lemmas about the operators of `RateLimit` | used by the next two. |
| `RateLimiterProofs`, `RestExecuteProofs`, `EventQueueProofs`, `StreamHandleProofs`, `TradingProofs`, `RequestsProofs`, `LibraryProofs` | theorems about the module of the name | see section 5. |
| `MC*` | instances for TLC | values of the constants and symmetry. |

`RateLimiter` looks inside `acquire`; `RestExecute` uses the same operators
but takes sample and decision as one step, because what it asks (deadlines,
retries, honesty) does not depend on the age of a sample.

Definitions whose name begins with `X_`, or ends in `_Something` after a
definition's own name (`X_Replay`, `Expired_Early`), are deliberate bugs, used to see that a
property would notice; no specification uses them.

### Modelled from their use (external)

*The broker* answers an attempt with success, a refusal, a rate limit or an
inconclusive failure, executes inconclusive requests or not, and may execute a
request long after the client gave up; "Ok" means executed, a definite refusal
or rate limit means not executed. *The runtime*: timers fire at or after their
time, at most `Lateness` later; on a current-thread runtime nothing interleaves
between two awaits. *rust_socketio* runs the open callback of a connection to
its end before it reconnects, may finish a reconnect it had started when
`disconnect` is called, and loses emits on a dead connection silently or not.
*tokio's `Notify`*: `notify_waiters` wakes the futures created before it and
stores nothing for later ones. *The exchange* fills, rejects or cancels an open
order at any time. *The answer of a REST call* is the broker's or a
proxy's page; an envelope with a status below 500 other than 408 is taken to be
the broker's refusal, made before it did anything.

## 3. Runs

| run | question | result |
|---|---|---|
| `limiter` | do concurrent callers with stale samples and dropped futures keep the quotas? | holds: `RollingWindow`, `OneSleepSuffices`, `RefusalIsJustified`, and the refinement `ImplementsLedger` |
| `limiter_exact` | does the documented window hold in real time? | violated: see section 6 |
| `rest` | two calls over one gate, a broker that stalls, refuses, loses and executes late: is anybody misinformed, late, or uncharged? | holds: `AnswersAreHonest` (refinement of `MutationContract`), `RetryAfterHonoured`, `AttemptsAreCharged`, `AnswersInTime` |
| `rest_live` | does every call end, when broker and network owe nothing? | holds: `EveryCallAnswers` |
| `rest_validation` | is a request that fails locally free of charge? | violated |
| `queue` | two callbacks and the caller on a multi-threaded runtime | holds: `EveryEventAccounted`, `SilentLossBounded` |
| `queue_single` | the same on a current-thread runtime, with fairness | holds: no silent loss at all, `EveryEventSurfaces` |
| `queue_race` | does every loss surface on a multi-threaded runtime? | violated |
| `stream` | calls, cancellations, reconnects, shutdown and drop in any order | holds: `RoomsMatchDesired`, `ReleasedStaysSilent`, `ReplayBeforeNotice`, `ReconnectIsNoticed` |
| `stream_shutdown` | does a shutdown that answers Ok leave the socket disconnected? | violated |
| `trading` | two callers modify one order that the market and they themselves change | holds: `WriteFollowsLook`, `EachFieldIsItsSelectors`, `OnlyUncoupledChangesBreak`, and the refinement `AsPromised` of `MutationContract` |
| `library` | the parts that share no state, each by itself | holds: the thirteen properties named in section 4 |

### Bounds, and why they are enough

- *limiter*: two tasks; windows of 5 (day), 3 (minute) and 2 (orders) ticks with
  quotas of 3, 2 and 1, so that each can be the one that is full; `MaxSkew` 1, so that a sample
  can be stale and two can be presented in the wrong order; `MaxClock` 6, long
  enough for the longest window to pass and refill. Two tasks are enough for
  every race on one lock; the theorems of section 5 remove all these bounds.
- *rest*: two calls (the quota of one is used by the other's retry),
  `MaxAttempts` 3 as in `RetryPolicy::safe_reads`, a daily quota of 3 that the two
  use up, `Total` 4 against a first-byte timeout of 2, retry delays of 1 and a
  Retry-After of 2, so that the deadline can pass in the gate, on the wire, in the
  body and in the backoff; `Lateness` 1. Calls start at `MaxStart` or before, and
  `MaxClock` is past the last possible answer. `rest_live` has two attempts and no
  lateness, and lets the calls start at different times.
  `AnswersInTime` allows twice the lateness because two timers can be late one
  after the other, and is violated with less.
- *queue*: two callbacks, capacity 2, at most 8 events: the queue overflows,
  drains and overflows again. *queue_race*: one callback and capacity 1 are enough.
- *stream*: four subscriptions, one of another candle interval, with a limit of two
  (so that both refusals of `SubscriptionSet` happen), an automatic room as on the
  One Click families, three connections: every call can meet a connection loss
  before, during and after it, twice.
- *trading*: two callers with one call each, which is what the race between a read and another's
  write needs; an order that passes through every status; changes of price, quantity,
  disclosed quantity and trigger by themselves and together, for one side (the rules of the
  other mirror it). The theorems remove the bound on callers, changes and values.
- *library*: one initial state per part, and only that part moves.
  *Security master*: three rows; at most one kind of file ends well, so
  that a second kind meets it by breaking off, in either order and any number of times. *Requests*: every constructor, two builder calls, three where a
  rule ties three fields (limit price, square-off); of each domain type one
  value on each side of each bound. *Codec*: at most one column missing and one damaged, in
  commodity books of up to two levels: lengths differ by at most what a missing column makes of them.
  *Envelope*: a limit of two chunks, each status the code tells apart and one it
  does not. *Fake transport*: two handles (symmetric), three subscriptions of two kinds
  and two intervals, a limit of two, three connections, three changes or emits, and one task that emits: with
  room for one event, its second and third emit are refused, which is one loss more than the property allows to go
  unreported. Several tasks are left to the theorem.
- `CHECK_DEADLOCK FALSE` where the system may stop: calls have ended and the clock
  has reached its bound, or the handle is gone and the connections are used up.

### Fairness

`rest_live` assumes that time passes and that a task whose timer is due runs
(`WF` on `Tick` and on each call's own steps); nothing is assumed of
`BodyArrives`, `FirstByteArrives` or the broker. `queue_single` and `queue_race`
assume that a callback finishes `enqueue` (it has no await) and that the caller
keeps calling `next_event`, which is what the documents ask of it; nothing is
assumed of `Enqueue`. `stream` assumes that the open callback and the caller's
`wait_for_generation` are scheduled; nothing makes a connection come or go.

## 4. What the properties say

The comments at each property give its meaning. Some deserve a reason:

- `RefusalIsJustified` is not a restatement of `Full`: a deque can hold entries
  that have expired behind a front that has not, because samples are pushed out of
  order. It says that even then a refusal has the quota's number of real admissions
  behind it within the window.
- `RoomsMatchDesired` excuses rooms whose call was dropped half-way on the current
  connection, and only those: `subscribe` inserts before its emit, so a
  dropped one leaves a desired room that is not joined until the next replay.
- `SilentLossBounded` is what remains true of the race that `queue_race` shows:
  at most one loss per callback is unreported while the caller waits. `ParkedLossBounded` is the same of
  the fake transport, whose `emit` has that race too (`streaming/testing.rs:147`, `:148`), per task that emits.
  Neither has the answer `None` of `next_event`: a `FakeSocketIo` keeps a sender of every handle, and
  the production handle's socket is taken to keep its callbacks, which have theirs.
- `WriteFollowsLook` is about time, not about the guard it comes from: the look
  can be a retry's, an older attempt's, or stale, and the property only asks that the order
  was open at some moment of the call. `OnlyUncoupledChangesBreak` is as much as two
  builders can keep when each sees one request.
- `WireDistinguishes` compares what was sent with what every request that
  differs in one field would have sent, whatever was called before. `Meaning` names the
  two places where different arguments mean the same.
- `ReplayBalances` excepts handles that change what they want before they moved on
  to the last connection: section 6 has why.
- `PlainErrorMeansRefused` depends on what is assumed of the broker: an envelope
  with a status below 500, other than 408, refuses.

The run `library` checks the composition `Library`: of `SecurityMaster`: `LastRowWins`, `CountsReconcile`,
`FilesDoNotOverlap`; of `Requests`: `WireDistinguishes`, `BuiltBodiesHold`,
`MutationsAreNotReads`, `ChainKeepsIdentity`; of `Codec`: `DecodersAreTotal`,
`ColumnsAreNotConfused`; of `Envelope`: `OkMeansApplied`, `PlainErrorMeansRefused`; of
`FakeSocket`: `ReplayBalances`, `ParkedLossBounded`.

## 5. Theorems

All constants are arbitrary, under the named assumptions of the modules (quotas and
windows positive, a skew in `Nat`; for the queue, a finite set of callbacks and a
positive capacity; for the codecs, a number of depth rows; for the fake transport, a
finite set of handles and of emitting tasks and a capacity of at least one, as `tokio`'s channels ask
(`streaming/testing.rs:261`)). Nothing is left unproved.

`RateLimiterProofs`:

- `TypeCorrect`: `Spec => []TypeOK`.
- `WindowHolds`: `Spec => []RollingWindow`, for any number of tasks.
- `ExactWithoutSkew`: with `MaxSkew = 0`, `Spec => []ExactRollingWindow`. Together
  with the run `limiter_exact` it locates the cause of the excess in the
  staleness of the samples and nowhere else.
- `RefusalsJustified`: `Spec => RefusalIsJustified`.
- `Refinement`: `Spec => ImplementsLedger`.
- `OneSleepIsEnough`: `Spec => []OneSleepSuffices`.

The inductive invariant `IInv` adds to `TypeOK` what ties the deques to real
time. `RollingWindow` alone is not inductive, because nothing in it relates
`log`, which decides, to `admissions`, which is judged. `IInv` says that each
deque mirrors the last admissions charged to it by their samples, each no later than
its admission and at most `MaxSkew` earlier (`Mirrors`), that what has been popped had
left its window but for the skew (`HasLeft`), that admissions are in order of time
(`InOrder`), and that a sample in use is at most `MaxSkew` old (`SamplesInTime`). From it, a deque with
room means that the admission `Limit` places back was pruned, hence old, which
is the window; and a full deque means `Limit` recent admissions, which justifies
the refusal. The refinement is the same argument for each step. `OneSleepIsEnough` has
a strengthening of its own, `Prompt`: while no admission overtakes it, each deque
that is full for a sleeping task has a front that expires by the time it wakes.
What `prune` and `try_acquire_at` do to any deques is stated once, in
`RateLimitProofs` (`PrunedCountProperties`, `WaitProperties`, `DecisionProperties`).

`RestExecuteProofs`, for any calls, classes, quotas, timeouts, delays, Retry-Afters and lateness:

- `TypeCorrect`: `Spec => []TypeOK`, with at most `MaxAttempts` attempts a call.
- `AttemptsCharged`: `Spec => []AttemptsAreCharged`.
- `InTime`: `Spec => []AnswersInTime`.
- `HonouredRetryAfter`: `Spec => RetryAfterHonoured`.
- `Honesty`: `Spec => AnswersAreHonest`, the refinement of `MutationContract`.

`IInv` has a part for each. `Timely`: whatever a call awaits is due by its deadline, or,
on the wire, by the deadline and the one lateness with which the gate let it go; a
second timer can be late as much again, and no third follows. `Patient`: the instant the
broker named has passed, or will have when the retry's sleep ends. `Honest`: a mutation is on the
wire once and then at the broker, answered, or an orphan; which of the three it is
bounds what can still happen to it, and every answer `execute` gives says no more. The refinement then
needs only `IInv` before and after a step. `PowersAssumption`, that the at most 32 powers of
two in `RetryPolicy::delay` are natural numbers, is arithmetic the solvers lack; TLC
evaluates those a run can reach.

`EventQueueProofs`: `TypeCorrect`, `Accounting` (`Spec => []EveryEventAccounted`),
`SilentLoss` (`Spec => []SilentLossBounded`). `EveryEventAccounted` is
inductive given finiteness of the callbacks; `SilentLossBounded` is not: a
waiting caller can be unaware of losses counted since it took the counter, and each
came from a callback refused before. The strengthening, `Pending`, bounds the counted
losses together with the refused callbacks while the caller waits at an empty
queue.

`TradingProofs`: `TypeCorrect`, `WritesAreLookedAt`, `FieldsAreTheirSelectors`,
`DisclosedOutgrown` and the refinement `KeepsThePromise`, for any callers, changes and
orders. None of the three invariants is inductive. `Witnessed` adds that a call under
way while the order is open has seen it open, and that an open look or the write it
leads to implies the same; `Honest` that a write is either at the broker, applied or
refused, and that what the caller was told follows from which; `Untouched` that nobody
wrote an order that was never placed.

`StreamHandleProofs`, for any rooms, automatic rooms, limit and number of connections:
`TypeCorrect` (which keeps the set's limit and single interval through the rollbacks
of failed emits), `RoomsMatch`, `StaysSilent` and `NoticeAfterReplay` (`Spec =>
ReplayBeforeNotice`). The strengthening reads the holder of the emission guard off the
phases (`Locks`), says what a call in progress knows of its subscription (`Calling`), that
a dead connection has no rooms and a released handle replays nothing (`Silent`), and that
between the desired and the joined rooms stand only what the replay has still to join, the one
emit under way, and dropped calls (`Matched`). `StaysSilent` needs the look at
`closed` under the guard: a `Drop` does not wait for a replay under way, which then
speaks to a connection that is gone.

`RequestsProofs`, for all instruments, arguments and any number of builder calls: `ClassesMatch`
(`Spec => []MutationsAreNotReads`), `BodiesHold` (`Spec => []BuiltBodiesHold`), `ChainsMatch`
(`Spec => []ChainKeepsIdentity`) and `WiresTell` (`Spec => []WireDistinguishes`). The invariant
(`RequestIInv`) is that a draft has the type of its kind (`Drafts`), that a request was accepted by
`build`, and that what was sent was prepared from the draft as it is and had a body. The rest is about the
endpoints, kind by kind: their class, the outcome of their `body()`, and what the body tells.
`BodiesHold` rests for GTT orders on `build` looking at all that `body()` expects, in whatever order the
builder was used; for margin calculations, on the exchanges of an error being two. `ChainsMatch`
rests on a chain and a quote of one instrument having equal bodies.

`WiresTell` has a lemma for each kind (`PlaceTold`, ..., `LimitPriceTold`, `PositionTold`): equal
bodies come from drafts that ask for the same. Each goes field by field, and each substitute for an
absent value is harmless for a reason of its own: `""` is no identifier and no remark, `"0"` for a
disclosed quantity is no quantity, `"N"` is no action and no order type, and
`"0"` for the strike and `"others"` for the right say nothing that the exchange has not said,
since derivatives and shares have none in common (`ContractTold`). Cover fields of a margin
position are told to be on by the open quantity, which is then always sent (`PositionTold`); a
calculation's one exchange makes up for its positions not naming theirs
(`CalculationTold`). Two assumptions of `Instruments` carry it: that numbers that are sent have
different texts, none of them empty (`TextAssumption`), and that an absent value is none of the
values and words (`NoneAssumption`); TLC evaluates both for the values of the run. The proof needs
`build`'s checks for `squareoff`, `gtt`, `limit_price` and the calculation: what they refuse would have bodies
that are told from nothing.

`LibraryProofs` proves of each part of `Library` what the run `library` checks, first
of the part's own `Spec`, which is the substance, then of the composition (`LibrarySpec => []P`), which
is what the run checks. The lemmas in between (`MasterImplemented`, `RequestsImplemented`, `CodecImplemented`,
`EnvelopeImplemented`, `FakeImplemented`) say nothing of the code: the composition is made so that each holds.

- *Security master*: `LibraryLookup` (`LastRowWins`), `LibraryCounts` (`CountsReconcile`) and
  `LibraryFiles` (`FilesDoNotOverlap`), for all files and rows. The first two are inductive
  together, since one step moves all they relate; the third follows from `Filed`: a kept row
  has the exchange of its kind of file, and kinds have an exchange each.
- *Codec*: `LibraryDecodes` (`DecodersAreTotal`), for any numbers of rows and of columns
  missing or damaged. The layouts that are read without `at()` end before the length
  that was compared; of a frame only its nesting matters, which no damage changes (`CodecIInv`).
  `LibraryColumns` (`ColumnsAreNotConfused`), for any number of rows and at most one missing
  column (`MaxMissing \in {0, 1}`). The bound is part of what is claimed, not of the proof: with two
  missing, a candle of 11 cells has the length of one of 9 and only the types of its cells to
  tell it by. `ColumnIInv` adds to `CodecIInv` what shape the broker's feed has (`Shaped`) and that each
  cell of the frame was made from the cell of its column, or, once a column is missing, of
  its column or the next (`Tracks`). Each stream then has an argument of its own: a candle's last
  cell is its interval, which no other column is (`CandleWhole`); the lengths of one-click frames are fixed; a
  row of a book that lost a column is too narrow, has a text where a count is read, or lost the eighth
  cell, which nobody reads (`NarrowedLevel`).
- *Envelope*: `LibrarySuccess` (`OkMeansApplied`) and `LibraryErrors`
  (`PlainErrorMeansRefused`), for any body limit. `Said` ties each kind of answer to what the
  broker did; a lemma for each kind says which results `decode_for` can make of it.
- *Fake transport*: `LibraryReplay` (`ReplayBalances`) and `LibraryLosses` (`ParkedLossBounded`),
  for any handles, subscriptions, connections, emitting tasks and capacity. `ReplayBalances` excepts
  the time in which a handle is between its two mutexes, and is not inductive for that; `Balanced` counts
  such handles instead: on a replayed connection the joins recorded and those still to be, equal the leaves
  recorded, those still to be, and the handles that want the subscription. A lemma per
  action says which of the four counts it moves. `ParkedLossBounded` is not inductive either: `LossesBounded`
  adds to the losses that were counted those that a task is still to count, since counting turns one into the other.

Only model-checked: the liveness properties (`EveryCallAnswers`, `EveryEventSurfaces`,
`ReconnectIsNoticed`), which are out of the prover's reach.

## 6. Disagreements between code and documents

1. `acquire` samples before it waits for the lock (`client.rs:528`), so the
   "rolling minute" of `docs/ARCHITECTURE.md:187` can hold more than its quota by as
   much as a sample is old (`limiter_exact`).
2. `execute` prepares a request after it was charged (`client.rs:496`), against
   "Local validation occurs before quota is consumed" (`docs/ARCHITECTURE.md:65`;
   `rest_validation`). A margin request with mixed exchanges is refused there
   (`risk.rs:155`).
3. A loss counted just after `next_event` took the counter stays unreported
   while the feed is quiet (`streaming/production.rs:526`), against "Overflow
   becomes LaggedRequiresReconciliation" (`docs/ARCHITECTURE.md:209`; `queue_race`).
4. A `shutdown` dropped part-way makes the next one answer Ok, and drop do
   nothing, with the socket connected (`streaming/production.rs:347`), against
   "shutdown sends remaining leaves and disconnects" (`docs/ARCHITECTURE.md:207`;
   `stream_shutdown`).

The following were met while the modules were written; no run is spent on them.

5. `authenticate` sends without asking a gate (`client.rs:283`), against "Each
   actual attempt consumes the general REST budget" (`docs/ARCHITECTURE.md:65`).
   `AttemptsAreCharged` excepts the login.
6. `docs/SECURITY.md:69` says that constructors require positive quantities and
   prices and validate the trigger's direction. `Money` accepts zero and negative amounts,
   `GttLeg::stop_loss` looks at sales only (`gtt.rs:80`), `ModifyOrderBuilder`
   compares no trigger with no price.
7. A 5xx, 408 or 429 whose body is not an envelope becomes `Protocol` and is not
   retried (`client.rs:811`), while `docs/ARCHITECTURE.md:183` says that they are.
8. An order frame of an unknown layout, or a quote of an unknown exchange, is a
   decoding error (`streaming/codec.rs:185`, `:307`), while `docs/ARCHITECTURE.md:209` says that
   unknown well-formed data is returned as `StreamEvent::Unknown`.
9. Depth frames of qualifier 4 are labelled NSE, quotes of the same qualifier NFO
   (`streaming/codec.rs:65`, `:35`).
10. `docs/TEST_STRATEGY.md:120` promises exactly-once replay of the fake transport. To a
   handle that waits, another handle's `connect` looks like a reconnect although nothing is
   replayed on it; a leave between a reconnect and `wait_until_reconnected` is recorded on
   the old connection while the replay's join stays on the new one; and `connect` wakes nobody
   (`streaming/testing.rs:228`).

## 7. Not modelled

- Cryptography, header and URL formatting, redaction, secret containers, error texts,
  the endpoint set: formatting or arithmetic on bytes, with nothing to interleave.
- Of the codecs: the limits in bytes, the normalization of a payload's nesting, and the
  vocabulary of actions and statuses, which are tables of words. `ScriptCode`'s
  text is a symbol, and the name of a candle's interval is what tells candles apart.
- Of the requests: how decimals and dates are parsed and printed (each domain type is the set of
  values it accepts), and the response types, which are serde declarations.
- Of the stream handle: a `Drop` outside a runtime, and the candle callback's look at the
  desired set, which names the candle it enqueues.
- The internals of rust_socketio and reqwest beyond what section 2 says, and two
  clients for one account. Examples, scripts and test helpers.

## 8. What remains

- Two clients for one account: each has a gate of its own, and a new login starts an
  empty one, so what the account's quota sees is the sum. The documents promise nothing of it.
- The candle callback, which reads the desired set without the emission guard while
  it names a candle, composed with `StreamHandle`; and `StreamHandle` composed
  with `EventQueue`, to state when `next_event` ends after a shutdown. The second needs
  facts about when rust_socketio drops its callbacks.
- `ScriptCode` and the instrument's parsing of dates and decimals, as conversions.
