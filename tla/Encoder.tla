------------------------------ MODULE Encoder ------------------------------
(***************************************************************************)
(* src/src/encoder.rs: the compressor of one connection and the             *)
(* transactions that move it out of the encoder and back.                   *)
(*                                                                         *)
(* The state of the code is `compressor` (the Option of Encoder), the       *)
(* agreed `reset_between_messages`, and `guard`: whichever of               *)
(* PreparedMessage, StreamingMessage, PreparedNonFinalFragment and          *)
(* PreparedFinalFragment is alive, with the compressor it holds.  The       *)
(* borrow lets one guard live at a time.  A guard may be dropped or leaked  *)
(* at any moment, between any two octets the host writes.                   *)
(*                                                                         *)
(* `peer` is a conforming inflater fed with what is on the wire; `outbox`   *)
(* and `inbox` are the messages whose last frame is on the wire, as they    *)
(* were given to the encoder and as that inflater decoded them.             *)
(***************************************************************************)
EXTENDS Flate2

CONSTANTS
  None,        \* no compressor: the encoder is vacant
  Octet,       \* payload octets
  Payload,     \* the payloads a call may be given
  Window,      \* how far back the compressor refers: local_max_window_bits
  PeerWindow,  \* how far back the peer's inflater reaches
  MaxCalls     \* bound on the calls that start or continue a message

ASSUME NoneAssumption == None \notin Compressors(Octet)
ASSUME PayloadAssumption == Payload \subseteq Seq(Octet)
\* What the handshake establishes (Handshake.tla): the peer's window is at
\* least the one this side compresses to.
ASSUME WindowAssumption ==
  Window \in Nat /\ PeerWindow \in Nat /\ Window <= PeerWindow
ASSUME CallsAssumption == MaxCalls \in Nat

VARIABLES
  compressor,             \* Encoder.compressor, None when taken
  reset_between_messages, \* Encoder.reset_between_messages
  guard,                  \* the live guard
  sent,                   \* how many units of guard.bytes are on the wire
  result,                 \* what the last call returned
  message,                \* the payload given so far for the current message
  peer,                   \* the conforming peer: inflater, text, resets
  outbox, inbox,          \* complete messages, as meant and as decoded
  calls

vars == <<compressor, reset_between_messages, guard, sent, result, message,
          peer, outbox, inbox, calls>>

-----------------------------------------------------------------------------

NoGuard == [kind |-> "none", compressor |-> None, bytes |-> <<>>]
Guard(kind, c, bytes) == [kind |-> kind, compressor |-> c, bytes |-> bytes]

Prepared == {"message", "nonfinal", "final"}  \* guards that hold octets
Closing  == {"message", "final"}              \* those that end a message

\* No guard and no compressor: every later call is refused.
Poisoned == compressor = None /\ guard.kind = "none"

TypeOK ==
  /\ compressor \in Compressors(Octet) \cup {None}
  /\ reset_between_messages \in BOOLEAN
  /\ guard \in [kind : Prepared \cup {"none", "stream"},
                compressor : Compressors(Octet) \cup {None},
                bytes : Seq(Units(Octet))]
  /\ sent \in 0..Len(guard.bytes)
  /\ result \in {"Ok", "Poisoned", "CompressionFailed", "Stalled"}
  /\ message \in Seq(Octet)
  /\ peer \in [inf : Inflaters(Octet), text : Seq(Octet), resets : BOOLEAN]
  /\ outbox \in Seq(Seq(Octet)) /\ inbox \in Seq(Seq(Octet))
  /\ calls \in 0..MaxCalls

\* A peer that starts over between messages has this side's promise to do the
\* same: local_no_context_takeover here, peer_no_context_takeover there.
Init ==
  /\ compressor = FreshCompress
  /\ reset_between_messages \in BOOLEAN
  /\ guard = NoGuard /\ sent = 0 /\ result = "Ok" /\ message = <<>>
  /\ \E resets \in BOOLEAN :
       /\ resets => reset_between_messages
       /\ peer = [inf |-> FreshInflate, text |-> <<>>, resets |-> resets]
  /\ outbox = <<>> /\ inbox = <<>> /\ calls = 0

-----------------------------------------------------------------------------
(* What one backend pass over a payload may come to.                        *)

Ok(bytes)     == [result |-> "Ok", bytes |-> bytes]
Failed(error) == [result |-> error, bytes |-> <<>>]

EndsWithTrailer(out) == out # <<>> /\ out[Len(out)] = Trl

\* Step 3: exactly the terminal trailer goes.  A message that produced nothing
\* is the one octet 0x00.
strip_or_synthesize(payload, out) ==
  IF EndsWithTrailer(out) THEN Ok(SubSeq(out, 1, Len(out) - 1))
  ELSE IF payload = <<>> /\ out = <<>> THEN Ok(<<Hdr>>)
  ELSE Failed("CompressionFailed")

\* Mutant: a non-final fragment loses its trailer as a message does.
keep_alignedStripping(payload, out) == strip_or_synthesize(payload, out)

keep_aligned(payload, out) ==
  IF EndsWithTrailer(out) \/ (payload = <<>> /\ out = <<>>) THEN Ok(out)
  ELSE Failed("CompressionFailed")

\* feed and sync_flush: an output, or the backend refuses, ends the stream or
\* stops moving.
produce_aligned(c, payload) ==
  Flushed(c, payload, Window) \cup Unflushed(c, payload, Window)
\* Mutant: the backend's own error kind leaks out.
BackendFaultsLeaking == {Failed("BufError"), Failed("Stalled")}

BackendFaults == {Failed("CompressionFailed"), Failed("Stalled")}

produce(c, payload) ==
  {strip_or_synthesize(payload, out) : out \in produce_aligned(c, payload)}
    \cup BackendFaults
produce_non_final(c, payload) ==
  {keep_aligned(payload, out) : out \in produce_aligned(c, payload)}
    \cup BackendFaults

reset(c) == FreshCompress

-----------------------------------------------------------------------------
(* The calls that take the compressor.                                      *)

MayCall == calls < MaxCalls /\ calls' = calls + 1

\* The guard an outcome leaves: none, and so a poisoned encoder, on an error.
Prepare(kind, c, payload, outcome) ==
  /\ result' = outcome.result
  /\ guard' = IF outcome.result = "Ok"
              THEN Guard(kind, Advanced(c, payload), outcome.bytes)
              ELSE NoGuard
  /\ sent' = 0
  /\ compressor' = None
  /\ message' = message \o payload
  /\ UNCHANGED <<reset_between_messages, peer, outbox, inbox>>

PrepareMessage(payload) ==
  /\ guard.kind = "none" /\ compressor # None /\ MayCall
  /\ \E outcome \in produce(compressor, payload) :
       Prepare("message", compressor, payload, outcome)

BeginStreamingMessage ==
  /\ guard.kind = "none" /\ compressor # None /\ MayCall
  /\ guard' = Guard("stream", compressor, <<>>)
  /\ compressor' = None
  /\ result' = "Ok"
  /\ UNCHANGED <<reset_between_messages, sent, message, peer, outbox, inbox>>

PrepareNonFinalFragment(payload) ==
  /\ guard.kind = "stream" /\ MayCall
  /\ \E outcome \in produce_non_final(guard.compressor, payload) :
       Prepare("nonfinal", guard.compressor, payload, outcome)

PrepareFinalFragment(payload) ==
  /\ guard.kind = "stream" /\ MayCall
  /\ \E outcome \in produce(guard.compressor, payload) :
       Prepare("final", guard.compressor, payload, outcome)

\* Mutant: a vacant encoder starts over with a new compressor.
CallPoisonedRebuilding ==
  /\ Poisoned
  /\ compressor' = FreshCompress /\ result' = "Ok"
  /\ UNCHANGED <<reset_between_messages, guard, sent, message, peer, outbox,
                 inbox, calls>>

\* prepare_message or begin_streaming_message on a vacant encoder.
CallPoisoned ==
  /\ Poisoned
  /\ result' = "Poisoned"
  /\ UNCHANGED <<compressor, reset_between_messages, guard, sent, message, peer,
                 outbox, inbox, calls>>

-----------------------------------------------------------------------------
(* The host writes what a guard holds, and the peer inflates it.  The last  *)
(* frame of a message carries FIN, and there the peer feeds the trailer     *)
(* back (RFC 7692 section 7.2.2) and starts over if it was agreed.          *)

PeerTakes(unit) ==
  \E a \in Accept(peer.inf, unit, PeerWindow) :
    /\ peer' = [peer EXCEPT !.inf = a.inf, !.text = @ \o a.text]
    /\ UNCHANGED <<outbox, inbox>>

PeerTakesLast(unit) ==
  \E a \in Accept(peer.inf, unit, PeerWindow) :
  \E b \in Accept(a.inf, Trl, PeerWindow) :
    /\ peer' = [peer EXCEPT !.inf = IF peer.resets THEN FreshInflate ELSE b.inf,
                            !.text = <<>>]
    /\ inbox' = Append(inbox, peer.text \o a.text \o b.text)
    /\ outbox' = Append(outbox, message)

HostWrite ==
  /\ sent < Len(guard.bytes)
  /\ sent' = sent + 1
  /\ IF sent' = Len(guard.bytes) /\ guard.kind \in Closing
     THEN PeerTakesLast(guard.bytes[sent'])
     ELSE PeerTakes(guard.bytes[sent'])
  /\ UNCHANGED <<compressor, reset_between_messages, guard, result, message, calls>>

-----------------------------------------------------------------------------
(* The calls that resolve a guard.  The host commits what it has written    *)
(* whole, and resets to plain only what it has not begun to write.          *)

Written == sent = Len(guard.bytes)

Restore(c) ==
  /\ compressor' = c
  /\ guard' = NoGuard /\ sent' = 0 /\ message' = <<>> /\ result' = "Ok"
  /\ UNCHANGED <<reset_between_messages, peer, outbox, inbox, calls>>

\* Mutant: the agreed reset is forgotten.
CommitKeepingHistory ==
  guard.kind \in Closing /\ Written /\ Restore(guard.compressor)

\* PreparedMessage::commit and PreparedFinalFragment::commit.
Commit ==
  /\ guard.kind \in Closing /\ Written
  /\ Restore(IF reset_between_messages THEN reset(guard.compressor)
             ELSE guard.compressor)

CommitNonFinal ==
  /\ guard.kind = "nonfinal" /\ Written
  /\ guard' = Guard("stream", guard.compressor, <<>>)
  /\ sent' = 0 /\ result' = "Ok"
  /\ UNCHANGED <<compressor, reset_between_messages, message, peer, outbox,
                 inbox, calls>>

\* Mutant: the abandoned candidate stays in the history.
ResetToPlainForgetting ==
  guard.kind = "message" /\ sent = 0 /\ Restore(guard.compressor)

ResetToPlain ==
  /\ guard.kind = "message" /\ sent = 0
  /\ Restore(reset(guard.compressor))

\* Mutant: a Drop that hands the compressor back.
DropGuardRestoring == guard.kind # "none" /\ Restore(guard.compressor)

\* Dropped, forgotten, or lost to a cancelled write: nothing runs.
DropGuard ==
  /\ guard.kind # "none"
  /\ guard' = NoGuard /\ sent' = 0
  /\ UNCHANGED <<compressor, reset_between_messages, result, message, peer,
                 outbox, inbox, calls>>

-----------------------------------------------------------------------------

Next ==
  \/ \E payload \in Payload :
       \/ PrepareMessage(payload)
       \/ PrepareNonFinalFragment(payload)
       \/ PrepareFinalFragment(payload)
  \/ BeginStreamingMessage
  \/ CallPoisoned
  \/ HostWrite
  \/ Commit
  \/ CommitNonFinal
  \/ ResetToPlain
  \/ DropGuard

Spec == Init /\ [][Next]_vars

-----------------------------------------------------------------------------
(* Properties.                                                              *)

\* Whatever was prepared, sent, abandoned or refused, the peer can decode what
\* is on the wire: every back-reference reaches something it holds, and every
\* trailer, the one it feeds back included, meets the block it completes.
PeerDecodes == peer.inf.mode \notin {"lost", "error", "done"}

\* Each message whose last frame is on the wire decodes to what the host gave
\* the encoder for it: no octet of an abandoned candidate, none missing.
MessagesArrive == inbox = outbox

\* An encoder that can start a message has a wire that ends at a message
\* boundary: nothing half sent, no block left open.
WholeMessagesOnly ==
  compressor # None => /\ peer.text = <<>> /\ message = <<>>
                       /\ peer.inf.mode \in {"start", "boundary"}

\* `s` is the end of `t`.
IsSuffixOf(s, t) ==
  /\ Len(s) <= Len(t)
  /\ \A i \in 1..Len(s) : s[i] = t[Len(t) - Len(s) + i]

\* Between messages, everything the next one may refer to is history the peer
\* holds at the same distance (the superset reset_to_plain speaks of).
HistoryHeld ==
  compressor # None => IsSuffixOf(compressor.hist, peer.inf.hist)

\* Poison is for good: once the compressor is gone no call brings it back, no
\* octet follows on the wire, and the answer is always Poisoned.
PoisonIsTerminal ==
  [][Poisoned => /\ Poisoned' /\ UNCHANGED <<peer, outbox, inbox>>
                 /\ result' = "Poisoned"]_vars

\* The channel this encoder makes with a conforming peer.
ChannelPhase ==
  CASE Poisoned                          -> "closed"
    [] guard.kind \in {"stream", "nonfinal"} -> "open"
    [] guard.kind \in Closing /\ ~Written -> "whole"
    [] guard.kind \in Closing /\ Written  -> "sent"
    [] OTHER                             -> "idle"

Channel == INSTANCE MessageChannel WITH
  phase <- ChannelPhase, current <- IF Poisoned THEN <<>> ELSE message,
  sent <- outbox, received <- inbox

\* The transactions of a host implement the channel: however it prepares,
\* writes, commits, resets and drops, a message leaves whole or not at all,
\* arrives as given, and a closed direction stays closed.
ImplementsChannel == Channel!Spec
=============================================================================
