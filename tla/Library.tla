------------------------------ MODULE Library ------------------------------
(***************************************************************************)
(* The parts of the library that do not share state, each with its own     *)
(* variables: part says which of them moves, and the others stay as they   *)
(* begin.  So one run checks them all, and what is proved of the           *)
(* composition is proved of each.                                          *)
(***************************************************************************)
EXTENDS Requests

CONSTANTS Absent, Garbled,                     \* of SecurityMaster,
          FileRows, Headers, MaxRows, MaxFiles,
          MaxDepthRows, MaxMissing,            \* of Codec,
          MaxBytes,                            \* of Envelope,
          Handles, Subscriptions, Emitters,    \* and of FakeSocket
          KindOf(_), IntervalOf(_), Limit, Capacity, MaxConnections, MaxMoves

\* A number of depth rows (src/streaming/codec.rs:62).
ASSUME CodecAssumption == MaxDepthRows \in Nat

\* Finitely many handles are made and tasks started, and no channel without
\* room for an event (src/streaming/testing.rs:261).
ASSUME FakeAssumption ==
    IsFiniteSet(Handles) /\ IsFiniteSet(Emitters) /\ Capacity \in Nat \ {0}

VARIABLES
    part,
    records, loaded, malformed, duplicates, reading, header, accepted, ignored,
    feed, frame, column, missing, garbled, event,
    mutation, applied, answer, read, result,
    connections, family, index, subscriptions, shutdown, op, queue, dropped, emitting,
    refused, behind, made

SM == INSTANCE SecurityMaster WITH Rows <- FileRows

CD == INSTANCE Codec WITH MaxRows <- MaxDepthRows

EN == INSTANCE Envelope

FS == INSTANCE FakeSocket

masterVars == <<records, loaded, malformed, duplicates, reading, header, accepted, ignored>>
codecVars == <<feed, frame, column, missing, garbled, event>>
envelopeVars == <<mutation, applied, answer, read, result>>
fakeVars == <<connections, family, index, subscriptions, shutdown, op, queue, dropped,
              emitting, refused, behind, made>>
vars == <<part, masterVars, requestVars, codecVars, envelopeVars, fakeVars>>

----------------------------------------------------------------------------

LibraryInit ==
    /\ part \in {"master", "requests", "codec", "envelope", "fake"}
    /\ SM!Init
    /\ IF part = "requests"
         THEN Init
         ELSE draft = None /\ calls = None /\ stage = None /\ sent = None
    /\ IF part = "codec"
         THEN CD!Init
         ELSE /\ feed = None /\ frame = None /\ column = None /\ missing = None
              /\ garbled = None /\ event = None
    /\ IF part = "envelope"
         THEN EN!Init
         ELSE /\ mutation = None /\ applied = None /\ answer = None /\ read = None
              /\ result = None
    /\ IF part = "fake"
         THEN FS!Init
         ELSE /\ connections = None /\ family = None /\ index = None
              /\ subscriptions = None /\ shutdown = None /\ op = None /\ queue = None
              /\ dropped = None /\ emitting = None /\ refused = None
              /\ behind = None /\ made = None

Master ==
    /\ part = "master"
    /\ SM!Next
    /\ UNCHANGED <<part, requestVars, codecVars, envelopeVars, fakeVars>>

Request ==
    /\ part = "requests"
    /\ Next
    /\ UNCHANGED <<part, masterVars, codecVars, envelopeVars, fakeVars>>

Frame ==
    /\ part = "codec"
    /\ CD!Next
    /\ UNCHANGED <<part, masterVars, requestVars, envelopeVars, fakeVars>>

Response ==
    /\ part = "envelope"
    /\ EN!Next
    /\ UNCHANGED <<part, masterVars, requestVars, codecVars, fakeVars>>

Transport ==
    /\ part = "fake"
    /\ FS!Next
    /\ UNCHANGED <<part, masterVars, requestVars, codecVars, envelopeVars>>

LibraryNext == Master \/ Request \/ Frame \/ Response \/ Transport

LibrarySpec == LibraryInit /\ [][LibraryNext]_vars

----------------------------------------------------------------------------
(* The properties, each stated in full in its module; those of Requests are *)
(* checked as they stand.                                                  *)

\* lookup answers with the latest accepted row of a key, over all files.
LastRowWins == SM!LastRowWins

\* Records and duplicates add up to the rows that were accepted.
CountsReconcile == SM!CountsReconcile

\* Two files never have records of one key.
FilesDoNotOverlap == SM!FilesDoNotOverlap

\* No frame makes a decoder panic.
DecodersAreTotal == part = "codec" => CD!DecodersAreTotal

\* A frame with columns missing does not put values under other names.
ColumnsAreNotConfused == part = "codec" => CD!ColumnsAreNotConfused

\* A success is the broker's.
OkMeansApplied == part = "envelope" => EN!OkMeansApplied

\* A mutation that fails unambiguously was not made.
PlainErrorMeansRefused == part = "envelope" => EN!PlainErrorMeansRefused

\* A replayed connection has each wanted subscription once per handle.
ReplayBalances == part = "fake" => FS!ReplayBalances

\* A waiting consumer has been told of all losses but one per emitting task.
ParkedLossBounded == part = "fake" => FS!ParkedLossBounded
=============================================================================
