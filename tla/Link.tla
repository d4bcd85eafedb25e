-------------------------------- MODULE Link --------------------------------
(***************************************************************************)
(* One direction of a connection between two hosts that use this crate:     *)
(* the encoder of src/src/encoder.rs at one end, the decoder of             *)
(* src/src/codec.rs at the other, and between them the units on the wire.   *)
(*                                                                         *)
(* Frames need not arrive as they were written: the receiving host hands    *)
(* the decoder pieces of any length, the last one of a message marked       *)
(* final, with a ceiling it may change from call to call.  Where a message  *)
(* ends the frame header says (FIN), not the octets.                        *)
(***************************************************************************)
EXTENDS Flate2

CONSTANTS
  None, Octet, Payload, \* as in Encoder
  Bits,                 \* the agreed window of this direction
  Limits, SCRATCH, UsizeMax,
  MaxCalls, MaxPieces   \* bounds on the calls of each end

\* What the two ends assume of these (Encoder, Decoder).
ASSUME NoneAssumption == None \notin Compressors(Octet)
ASSUME PayloadAssumption == Payload \subseteq Seq(Octet)
ASSUME BitsAssumption == Bits \in 8..15
ASSUME LimitAssumption == UsizeMax \in Nat \ {0} /\ Limits \subseteq 0..UsizeMax
ASSUME ScratchAssumption == SCRATCH \in Nat \ {0}
ASSUME CallsAssumption == MaxCalls \in Nat

VARIABLES
  compressor, tx_reset, guard, written, tx_result, message, peer, outbox, inbox, tx_calls,
  config, inflater, rx_reset, stream_open, delivered, poisoned, call, rx_result, held,
  rx_calls,
  wire,       \* the units under way, Fin after the last one of a message
  received    \* the messages the receiving host was handed

txVars == <<compressor, tx_reset, guard, written, tx_result, message, peer, outbox,
            inbox, tx_calls>>
rxVars == <<config, inflater, rx_reset, stream_open, delivered, poisoned, call, rx_result,
            held, rx_calls>>
vars == <<txVars, rxVars, wire, received>>

\* The two ends come with what is proved of them, for LinkProofs to cite.
Receiver == INSTANCE DecoderProofs WITH
  Octet <- Octet \cup {Junk}, Inputs <- Seq(Units(Octet \cup {Junk})),
  PeerBits <- {Bits}, MaxCalls <- MaxPieces,
  reset_between_messages <- rx_reset, result <- rx_result, calls <- rx_calls

Reach == Receiver!Reach(Bits)

Sender == INSTANCE EncoderProofs WITH
  Window <- Reach, PeerWindow <- Reach,
  reset_between_messages <- tx_reset, sent <- written, result <- tx_result, calls <- tx_calls

Fin == Mark("fin")

\* One agreement configures both ends: who starts its inflater over has the
\* other end's promise to do so with its compressor.
Init ==
  /\ Sender!Init /\ Receiver!Init
  /\ peer.resets = rx_reset
  /\ wire = <<>> /\ received = <<>>

-----------------------------------------------------------------------------

\* The sending host calls its encoder, or the stream it began; nothing moves.
Prepare ==
  /\ \/ \E payload \in Payload : Sender!PrepareMessage(payload)
     \/ Sender!BeginStreamingMessage
     \/ Sender!CallPoisoned
  /\ UNCHANGED <<rxVars, wire, received>>

PrepareFragment ==
  /\ \E payload \in Payload :
       Sender!PrepareNonFinalFragment(payload) \/ Sender!PrepareFinalFragment(payload)
  /\ UNCHANGED <<rxVars, wire, received>>

Resolve ==
  /\ Sender!Commit \/ Sender!CommitNonFinal \/ Sender!ResetToPlain \/ Sender!DropGuard
  /\ UNCHANGED <<rxVars, wire, received>>

Write ==
  /\ Sender!HostWrite
  /\ wire' = wire \o <<guard.bytes[written']>>
               \o (IF outbox' # outbox THEN <<Fin>> ELSE <<>>)
  /\ UNCHANGED <<rxVars, received>>

\* How many units of the current message have arrived, and whether all have.
Arrived(n) == n \in 0..Len(wire) /\ \A i \in 1..n : wire[i] # Fin
Ends(n)    == n < Len(wire) /\ wire[n + 1] = Fin

\* The receiving host hands the next piece over.
Hand(n, final, limit) ==
  /\ Arrived(n) /\ (final => Ends(n))
  /\ Receiver!Decompress(SubSeq(wire, 1, n), final, limit)
  /\ wire' = SubSeq(wire, IF final THEN n + 2 ELSE n + 1, Len(wire))
  /\ UNCHANGED <<txVars, received>>

\* A step of the call in progress, or the answer of a poisoned decoder.
Decode ==
  /\ \/ Receiver!InflateStep
     \/ Receiver!FeedTrailer
     \/ Receiver!ReturnNonFinal
     \/ Receiver!DecompressPoisoned
  /\ UNCHANGED <<txVars, wire, received>>

\* The call for the last piece of a message returns, or fails.
Complete ==
  /\ Receiver!ReturnFinal
  /\ received' = IF poisoned' THEN received ELSE Append(received, held \o call.out)
  /\ UNCHANGED <<txVars, wire>>

Next ==
  \/ Prepare \/ PrepareFragment
  \/ Resolve
  \/ Write
  \/ \E n \in 0..Len(wire), final \in BOOLEAN, limit \in Limits : Hand(n, final, limit)
  \/ Decode
  \/ Complete

Spec == Init /\ [][Next]_vars

-----------------------------------------------------------------------------
(* Properties.                                                              *)

\* What the two ends make together is the channel a host is promised.
Channel == INSTANCE MessageChannel WITH
  phase <- Sender!ChannelPhase,
  current <- IF Sender!Poisoned THEN <<>> ELSE message,
  sent <- outbox

\* However the host uses its transactions, however the frames are cut and the
\* backend portions its output, the decoder returns the messages that left the
\* encoder, whole, in order, as they were given.
EndToEnd == Channel!Spec

\* The decoder takes whatever the encoder may put on the wire: no stream of
\* this crate's making is refused as invalid by this crate.
OwnStreamsAreValid == rx_result.is # "InvalidStream"

\* The message the decoder is at, as far as it was given to the encoder.
MessageAt(n) == IF n <= Len(outbox) THEN outbox[n] ELSE message

\* A message is refused as too long only if it is longer than the ceiling that
\* refused it, counted over its own fragments alone.
RefusedPastCeiling ==
  rx_result.is = "MessageTooLong" =>
    Len(MessageAt(Len(received) + 1)) > rx_result.limit

\* With everything handed over and both ends between messages, all the encoder
\* may refer to the decoder holds, at the same distance.
EndsInStep ==
  /\ wire = <<>> /\ compressor # None
  /\ call.phase = "idle" /\ ~poisoned /\ Len(received) = Len(outbox)
  => Sender!IsSuffixOf(compressor.hist, inflater.hist)
=============================================================================
