------------------------------ MODULE SyncFlush ------------------------------
(***************************************************************************)
(* src/src/encoder.rs: the rounds of `feed` and `sync_flush` inside one     *)
(* prepare, each a call of the backend with the room that `room_for` asks   *)
(* for.  Encoder takes the whole of it for one step, Flushed of Flate2.     *)
(*                                                                         *)
(* Octets are numbers here: those of the payload by their position, FRAME   *)
(* for what a block is framed with, and the five of an empty stored block   *)
(* as three.  Sizes are scaled down with them.                              *)
(***************************************************************************)
EXTENDS Flate2, SequencesExt

CONSTANTS
  BLOCK_ROOM, FRAMING_MARGIN, \* of the code
  MaxStored,   \* payload octets in one stored block
  MaxHeld,     \* octets the backend holds back at most
  Expansion,   \* octets a call may add beyond the headers of stored blocks
  Spare,       \* how much more room than asked for a Vec may hand out
  Lengths,     \* of the payloads a prepare is given
  Misbehaves,  \* whether the backend may break its contract
  MaxCalls     \* bound on the prepares

FRAME   == 0
MARKER  == <<-1, -2, -3>>   \* an empty stored block
TRAILER == <<-2, -3>>

\* What zlib asks of whoever flushes: room for more than the marker, twice.
ASSUME RoomAssumption ==
  /\ BLOCK_ROOM \in Nat /\ BLOCK_ROOM > 2 * Len(MARKER)
  /\ FRAMING_MARGIN \in Nat /\ FRAMING_MARGIN > 2 * Len(MARKER)
ASSUME SizesAssumption ==
  /\ MaxStored \in Nat \ {0} /\ MaxHeld \in Nat /\ Expansion \in Nat /\ Spare \in Nat
  /\ Lengths \subseteq Nat /\ Misbehaves \in BOOLEAN /\ MaxCalls \in Nat

VARIABLES
  call,     \* what the prepare was given
  phase,    \* "idle", in the loop of "feed" or "flush", or "done"
  input,    \* what feed has not handed over yet
  output,   \* the vector being written, and in the end what is returned
  result,   \* what the prepare returned
  backend,  \* the compressor
  before,   \* whether it was drained when the prepare began
  calls

vars == <<call, phase, input, output, result, backend, before, calls>>

Positions(n) == [i \in 1..n |-> i]

TypeOK ==
  /\ call.kind \in {"last", "nonfinal"} /\ \E n \in Lengths \cup {0} : call.payload = Positions(n)
  /\ phase \in {"idle", "feed", "flush", "done"}
  /\ \E i \in 0..Len(call.payload) : input = SubSeq(call.payload, i + 1, Len(call.payload))
  /\ phase = "feed" <=> (input # <<>> /\ result = "Ok")
  /\ output \in Seq(Int) /\ backend.pending \in Seq(Int)
  /\ result \in {"Ok", "CompressionFailed", "Stalled"}
  /\ backend.drained \in BOOLEAN /\ backend.mood \in {"sound", "broken"}
  /\ before \in BOOLEAN
  /\ calls \in 0..MaxCalls

Init ==
  /\ call = [kind |-> "last", payload |-> <<>>]
  /\ phase = "idle" /\ input = <<>> /\ output = <<>> /\ result = "Ok"
  /\ backend = [pending |-> <<>>, drained |-> FALSE, mood |-> "sound"]
  /\ before = FALSE /\ calls = 0

-----------------------------------------------------------------------------
(* The backend (external).  A call moves `consumed` octets of the input in  *)
(* and `produced` octets out, and leaves the compressor `now`.              *)

Round(consumed, produced, now) ==
  [consumed |-> consumed, produced |-> produced, now |-> now]

Smaller(x, y) == IF x < y THEN x ELSE y

Headers(n) == (n + MaxStored - 1) \div MaxStored
Frames(n)  == [i \in 1..n |-> FRAME]

\* The first octets of what is due go out, the others stay.
Emits(b, due, consumed, produced, drained) ==
  Round(consumed, SubSeq(due, 1, produced),
        [b EXCEPT !.pending = SubSeq(due, produced + 1, Len(due)), !.drained = drained])

\* With no flush asked for: it stops when the input is all in or the room is
\* full, and holds back what it likes of the rest.
Deflates(b, from, room) ==
  UNION {UNION {
    LET due == b.pending \o Frames(framing) \o SubSeq(from, 1, k)
    IN {Emits(b, due, k, p, FALSE) : p \in
          {p \in 0..Smaller(room, Len(due)) :
             (k = Len(from) \/ p = room) /\ Len(due) - p <= MaxHeld}}
    : framing \in IF k = 0 THEN {0} ELSE 0..(Headers(k) + Expansion)}
    : k \in 0..Len(from)}

\* With a sync flush: what is due does not leave room over, and the call stops
\* short of the marker; or the marker is due after it.  One that is then left
\* without room is armed again; one with room over is drained, and refuses the
\* next flush as redundant.
Flushes(b, room) ==
  IF b.drained /\ b.pending = <<>> THEN Round(0, <<>>, b)
  ELSE IF Len(b.pending) >= room THEN Emits(b, b.pending, 0, room, FALSE)
  ELSE LET due == b.pending \o MARKER
       IN Emits(b, due, 0, Smaller(room, Len(due)), Len(due) < room)

\* A broken one moves nothing, and never does again, or stops short.
Breaks(b) == {Round(0, <<>>, [b EXCEPT !.mood = "broken"])}
StopsShort(b, room) ==
  {[Emits(b, b.pending, 0, p, FALSE) EXCEPT !.now.mood = "broken"] :
     p \in {p \in 0..Len(b.pending) : p < room}}

\* The error a failing call, or one that ends the stream, is reported as.
\* Mutant: the backend's own kind leaks out.
drive_errorsLeaking == {"BufError"}
drive_errors == {"CompressionFailed"}

-----------------------------------------------------------------------------
(* The code.                                                                *)

\* Mutants: less slack than the framing needs; none at all.
room_forShort(payload_len) == Smaller(BLOCK_ROOM, payload_len + 4)
room_forExact(payload_len) == Smaller(BLOCK_ROOM, payload_len)
room_for(payload_len) == Smaller(BLOCK_ROOM, payload_len + FRAMING_MARGIN)

\* What `reserve` leaves spare for one round.
Rooms == LET asked == room_for(Len(call.payload)) IN asked..(asked + Spare)

\* A drained, sound compressor begins the next prepare where the last left it.
Begin(kind, n) ==
  /\ phase = "idle" \/ (phase = "done" /\ result = "Ok")
  /\ calls < MaxCalls /\ calls' = calls + 1
  /\ call' = [kind |-> kind, payload |-> Positions(n)]
  /\ phase' = IF n = 0 THEN "flush" ELSE "feed"
  /\ input' = Positions(n) /\ output' = <<>> /\ result' = "Ok"
  /\ before' = backend.drained
  /\ UNCHANGED backend

Fails(error) ==
  /\ phase' = "done" /\ result' = error
  /\ UNCHANGED <<call, input, output, before, calls>>

\* `drive` returns an error, wherever it is called from.
DriveFails ==
  /\ phase \in {"feed", "flush"} /\ Misbehaves
  /\ backend' = [backend EXCEPT !.mood = "broken"]
  /\ \E error \in drive_errors : Fails(error)

\* Mutant: only an error ends the loop.
MovedNothingNever(round) == FALSE
MovedNothing(round) == round.consumed = 0 /\ round.produced = <<>>

FeedRound ==
  /\ phase = "feed"
  /\ \E room \in Rooms :
     \E round \in IF backend.mood = "broken" THEN Breaks(backend)
                  ELSE Deflates(backend, input, room)
                         \cup (IF Misbehaves THEN Breaks(backend) ELSE {}) :
       /\ backend' = round.now
       /\ IF MovedNothing(round) THEN Fails("Stalled")
          ELSE /\ output' = output \o round.produced
               /\ input' = SubSeq(input, round.consumed + 1, Len(input))
               /\ phase' = IF input' = <<>> THEN "flush" ELSE "feed"
               /\ UNCHANGED <<call, result, before, calls>>

EndsWithTrailer(out) == IsSuffix(TRAILER, out)

Ok(bytes)     == [result |-> "Ok", bytes |-> bytes]
Failed(bytes) == [result |-> "CompressionFailed", bytes |-> bytes]

strip_or_synthesize(payload, out) ==
  IF EndsWithTrailer(out) THEN Ok(SubSeq(out, 1, Len(out) - Len(TRAILER)))
  ELSE IF payload = <<>> /\ out = <<>> THEN Ok(<<MARKER[1]>>)
  ELSE Failed(out)

\* Mutant: a fragment is taken as the backend left it.
produce_non_finalUnchecked(payload, out) == Ok(out)
produce_non_final(payload, out) ==
  IF EndsWithTrailer(out) \/ (payload = <<>> /\ out = <<>>) THEN Ok(out) ELSE Failed(out)

\* Mutant: the flush is never repeated.
FlushEndsAtOnce(round, room) == TRUE
FlushEnds(round, room) == Len(round.produced) < room

FlushRound ==
  /\ phase = "flush"
  /\ \E room \in Rooms :
     \E round \in IF backend.mood = "broken" THEN Breaks(backend)
                  ELSE {Flushes(backend, room)}
                         \cup (IF Misbehaves THEN StopsShort(backend, room) ELSE {}) :
       LET out == output \o round.produced
           last == IF call.kind = "last" THEN strip_or_synthesize(call.payload, out)
                   ELSE produce_non_final(call.payload, out)
       IN /\ backend' = round.now
          /\ IF FlushEnds(round, room)
             THEN phase' = "done" /\ output' = last.bytes /\ result' = last.result
             ELSE output' = out /\ UNCHANGED <<phase, result>>
  /\ UNCHANGED <<call, input, before, calls>>

Next ==
  \/ \E kind \in {"last", "nonfinal"}, n \in Lengths : Begin(kind, n)
  \/ FeedRound
  \/ FlushRound
  \/ DriveFails

Spec == Init /\ [][Next]_vars

\* The thread that prepares runs on; the host need not call.
FairSpec == Spec /\ WF_vars(FeedRound \/ FlushRound)

-----------------------------------------------------------------------------
(* Properties.                                                              *)

Returned == phase = "done" /\ result = "Ok"

\* Octets of a unit, and of an output without its framing.
OctetsOf(unit) ==
  IF unit.kind = "hdr" THEN <<MARKER[1]>> ELSE IF unit.kind = "trl" THEN TRAILER ELSE unit.text
Spelled(units) == FlattenSeq([i \in DOMAIN units |-> OctetsOf(units[i])])
Unframed(out)  ==
  LET kept[i \in 0..Len(out)] ==
        IF i = 0 THEN <<>>
        ELSE IF out[i] = FRAME THEN kept[i - 1] ELSE Append(kept[i - 1], out[i])
  IN kept[Len(out)]

\* However the rounds fall, a prepare returns what Encoder takes for one step:
\* the whole payload, once and in order, nothing of it left in the backend for
\* the next frame, and what the flush owes it; less the trailer on a last frame.
RoundsAreOneStep ==
  Returned =>
    /\ backend.pending = <<>>
    /\ \E units \in Flushed([hist |-> <<>>, drained |-> before], call.payload, 0) :
         IF call.kind = "nonfinal" THEN Unframed(output) = Spelled(units)
         ELSE \/ Unframed(output) \o TRAILER = Spelled(units)
              \/ units = <<>> /\ output = <<MARKER[1]>>

\* A sound backend is never taken for one that stalled or failed.
SoundNeverFails == phase = "done" /\ backend.mood = "sound" => result = "Ok"

\* The room is enough: no flush that completes fills it, so none is repeated
\* and no second empty block is on the wire.
NoRedundantBlock ==
  Returned => Cardinality({i \in DOMAIN output : output[i] = MARKER[1]}) <= 1

\* Every prepare returns, a backend that stops moving included.
PrepareReturns == phase \in {"feed", "flush"} ~> phase = "done"
=============================================================================
