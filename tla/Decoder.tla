------------------------------ MODULE Decoder ------------------------------
(***************************************************************************)
(* src/src/codec.rs: the inflater of one connection, the position it keeps  *)
(* in the DEFLATE stream, and the ceiling on what a message may produce.    *)
(*                                                                         *)
(* A call of `decompress` is a run of steps: each turn of the loop of       *)
(* `inflate`, with the backend call in it, is one InflateStep; what         *)
(* `decode` does around the loops is FeedTrailer and the two returns.  The  *)
(* backend hands out what it owes in any portions that fit the room it was  *)
(* given, and the input is any sequence of units: nothing here assumes that *)
(* the peer conforms.                                                       *)
(***************************************************************************)
EXTENDS Flate2

CONSTANTS
  Octet,       \* octets of decompressed text, Junk among them
  Inputs,      \* what a call may be handed: sequences of units
  Limits,      \* the ceilings a host may pass
  PeerBits,    \* the agreed peer_max_window_bits: 8..15
  SCRATCH,     \* octets of output taken per backend call
  UsizeMax,    \* usize::MAX
  MaxCalls     \* bound on the calls of decompress

ASSUME OctetAssumption == Junk \in Octet
ASSUME InputAssumption == Inputs \subseteq Seq(Units(Octet))
ASSUME LimitAssumption == UsizeMax \in Nat \ {0} /\ Limits \subseteq 0..UsizeMax
ASSUME ScratchAssumption == SCRATCH \in Nat \ {0}
ASSUME PeerBitsAssumption == PeerBits \subseteq 8..15

VARIABLES
  config,                 \* InflaterConfig.window_bits
  inflater,               \* the backend: position, history, output owed, width
  reset_between_messages, stream_open, delivered, poisoned,
  call,                   \* the call in progress
  result,                 \* what the last call returned
  held,                   \* the text the host was given for this message
  calls

vars == <<config, inflater, reset_between_messages, stream_open, delivered,
          poisoned, call, result, held, calls>>

-----------------------------------------------------------------------------
(* InflaterConfig                                                           *)

MIN_INFLATER_WINDOW_BITS     == 9
DEFAULT_INFLATER_WINDOW_BITS == 15

Larger(x, y)  == IF x < y THEN y ELSE x
Smaller(x, y) == IF x < y THEN x ELSE y

\* Mutant: no clamp to the floor.
for_peer_windowUnclamped(bits) == bits

for_peer_window(bits) == Larger(bits, MIN_INFLATER_WINDOW_BITS)

\* How far back a window reaches, in octets of this model.
Reach(bits) == bits - 8

\* A new inflater, and Decompress::reset, which forgets the width.
build(bits) ==
  [mode |-> "start", hist |-> <<>>, owed |-> <<>>, window_bits |-> bits]
reset == build(DEFAULT_INFLATER_WINDOW_BITS)

resets_in_place(bits) == bits = DEFAULT_INFLATER_WINDOW_BITS

\* Mutant: reset at every width.
reinitialisedAlwaysReset == reset

reinitialised == IF resets_in_place(config) THEN reset ELSE build(config)

-----------------------------------------------------------------------------

\* `turn` flips with every backend call: a loop that spins is then a behaviour
\* of its own and not a stutter.
Idle == [phase |-> "idle", input |-> <<>>, final |-> FALSE, limit |-> 0,
         out |-> <<>>, ended |-> FALSE, turn |-> 0]

Ok == [is |-> "Ok", size |-> 0, limit |-> 0]
Error(is) == [is |-> is, size |-> 0, limit |-> 0]
MessageTooLong(size, limit) ==
  [is |-> "MessageTooLong", size |-> size, limit |-> limit]

TypeOK ==
  /\ config \in MIN_INFLATER_WINDOW_BITS..DEFAULT_INFLATER_WINDOW_BITS
  /\ inflater \in [mode : Modes, hist : Seq(Octet), owed : Seq(Octet),
                   window_bits : MIN_INFLATER_WINDOW_BITS..DEFAULT_INFLATER_WINDOW_BITS]
  /\ reset_between_messages \in BOOLEAN /\ stream_open \in BOOLEAN
  /\ delivered \in 0..UsizeMax
  /\ poisoned \in BOOLEAN
  /\ call \in [phase : {"idle", "payload", "fed", "trailer", "closed"},
               input : Seq(Units(Octet)), final : BOOLEAN, limit : 0..UsizeMax,
               out : Seq(Octet), ended : BOOLEAN, turn : {0, 1}]
  /\ result \in [is : {"Ok", "Poisoned", "InvalidStream", "Stalled", "MessageTooLong"},
                 size : 0..UsizeMax, limit : 0..UsizeMax]
  /\ held \in Seq(Octet)
  /\ calls \in Nat

\* into_codecs
Init ==
  /\ \E bits \in PeerBits : config = for_peer_window(bits)
  /\ inflater = build(config)
  /\ reset_between_messages \in BOOLEAN
  /\ stream_open = FALSE /\ delivered = 0 /\ poisoned = FALSE
  /\ call = Idle /\ result = Ok /\ held = <<>> /\ calls = 0

-----------------------------------------------------------------------------
(* One call of the backend (external).  It writes what it owes, up to       *)
(* `room`, and takes a unit once what it owed before fits.  StreamEnd is    *)
(* reported when the last octet of the stream is out.  With nothing to take *)
(* and octets owed it writes at least one.                                  *)

Front(s, n) == SubSeq(s, 1, n)
Back(s, n)  == SubSeq(s, n + 1, Len(s))

Progress(inf, owed, n, taken, input, ended) ==
  [inf      |-> [inf EXCEPT !.owed = Back(owed, n)],
   produced |-> Front(owed, n), consumed |-> taken, input |-> input,
   ended    |-> ended /\ n = Len(owed)]

\* The widths a backend may enforce: the declared one (C zlib) or none below
\* the widest (zlib-rs).
Enforced(inf) == {Reach(inf.window_bits), Reach(DEFAULT_INFLATER_WINDOW_BITS)}

Writes(inf, input, room) ==
  {Progress(inf, inf.owed, n, FALSE, input, inf.mode = "done") :
     n \in 1..Smaller(room, Len(inf.owed))}

\* A unit taken: what was owed goes out, and as much of the rest as fits.
Portions(inf, input, room, a) ==
  LET owed == inf.owed \o a.text
      next == [inf EXCEPT !.mode = a.inf.mode, !.hist = a.inf.hist]
  IN {Progress(next, owed, n, TRUE, a.left \o Tail(input), a.ended) :
        n \in Len(inf.owed)..Smaller(room, Len(owed))}

Accepted(inf, u) ==
  UNION {Accept([mode |-> inf.mode, hist |-> inf.hist], u, reach) : reach \in Enforced(inf)}

Takes(inf, input, room) ==
  IF input = <<>> \/ inf.mode = "done" \/ Len(inf.owed) > room THEN {}
  ELSE UNION {Portions(inf, input, room, a) : a \in Accepted(inf, Head(input))}

\* No progress: nothing to take and nothing owed, or a backend that stalls.
Idles(inf, input, room) ==
  IF input = <<>> /\ inf.owed # <<>> /\ room > 0 THEN {}
  ELSE {Progress(inf, inf.owed, 0, FALSE, input, inf.mode = "done")}

Backend(inf, input, room) ==
  Writes(inf, input, room) \cup Takes(inf, input, room) \cup Idles(inf, input, room)

-----------------------------------------------------------------------------
(* decompress                                                               *)

saturating_add(x, y) == Smaller(x + y, UsizeMax)
saturating_sub(x, y) == IF x < y THEN 0 ELSE x - y

\* A refused call, and a call that starts.
DecompressPoisoned ==
  /\ call.phase = "idle" /\ poisoned
  /\ result' = Error("Poisoned")
  /\ UNCHANGED <<config, inflater, reset_between_messages, stream_open, delivered,
                 poisoned, call, held, calls>>

Decompress(input, final, limit) ==
  /\ call.phase = "idle" /\ ~poisoned
  /\ calls < MaxCalls /\ calls' = calls + 1
  /\ call' = [Idle EXCEPT !.phase = "payload", !.input = input,
                          !.final = final, !.limit = limit]
  /\ UNCHANGED <<config, inflater, reset_between_messages, stream_open, delivered,
                 poisoned, result, held>>

\* Mutant: a failed call leaves the decoder usable.
FailRecoverably(error) ==
  /\ result' = error /\ call' = Idle
  /\ UNCHANGED <<config, reset_between_messages, delivered, poisoned, held, calls>>

Fail(error) ==
  /\ poisoned' = TRUE /\ result' = error /\ call' = Idle
  /\ UNCHANGED <<config, reset_between_messages, delivered, held, calls>>

\* Mutants: a whole scratch buffer, and no room past the ceiling.
writableScratch == SCRATCH
writableExact ==
  Smaller(saturating_sub(call.limit, saturating_add(delivered, Len(call.out))), SCRATCH)

\* The room offered to the backend: one octet past what is still allowed.
writable ==
  LET allowance == saturating_sub(call.limit,
                                  saturating_add(delivered, Len(call.out)))
  IN Smaller(saturating_add(allowance, 1), SCRATCH)

Moved(o) == o.consumed \/ o.produced # <<>>
\* Mutant: the stall guard is gone.
StalledNever(o) == FALSE

Stalled(o) == ~Moved(o) /\ o.input # <<>>
Drained(o) == ~Moved(o) /\ o.input = <<>>

\* Mutant: the position is not moved with the inflater.
PositionForgotten(o) ==
  /\ inflater' = IF o.ended THEN reinitialised ELSE o.inf
  /\ stream_open' = (stream_open \/ o.consumed)

\* Where the stream stands after a backend call that was no error.
Position(o) ==
  IF o.ended
  THEN inflater' = reinitialised /\ stream_open' = FALSE
  ELSE inflater' = o.inf /\ stream_open' = (stream_open \/ o.consumed)

\* The loop ends when the backend neither moved nor has input left.
NextPhase(o) ==
  IF ~Drained(o) THEN call.phase
  ELSE IF call.phase = "payload" THEN "fed" ELSE "closed"

\* One turn of the loop of inflate.
InflateStep ==
  /\ call.phase \in {"payload", "trailer"}
  /\ \E o \in Backend(inflater, call.input, writable) :
       LET out  == call.out \o o.produced
           size == saturating_add(delivered, Len(out))
       IN IF o.inf.mode = "error"
          THEN Fail(Error("InvalidStream")) /\ UNCHANGED <<inflater, stream_open>>
          ELSE IF Stalled(o)
          THEN Fail(Error("Stalled")) /\ UNCHANGED <<inflater, stream_open>>
          ELSE IF size > call.limit
          THEN Fail(MessageTooLong(size, call.limit))
               /\ inflater' = o.inf /\ UNCHANGED stream_open
          ELSE /\ Position(o)
               /\ call' = [call EXCEPT !.phase = NextPhase(o), !.input = o.input,
                                       !.out = out, !.ended = @ \/ o.ended,
                                       !.turn = 1 - @]
               /\ UNCHANGED <<config, reset_between_messages, delivered, poisoned,
                              result, held, calls>>

\* The payload of a final fragment is in: the stripped trailer goes back, if
\* there is a block for it.
FeedTrailer ==
  /\ call.phase = "fed" /\ call.final
  /\ IF stream_open
     THEN /\ call' = [call EXCEPT !.phase = "trailer", !.input = <<Trl>>, !.ended = FALSE]
          /\ UNCHANGED <<config, reset_between_messages, delivered, poisoned,
                         result, held, calls>>
     ELSE Fail(Error("InvalidStream"))
  /\ UNCHANGED <<inflater, stream_open>>

\* Mutant: the total is that of the last call alone.
ReturnNonFinalOverwriting ==
  /\ call.phase = "fed" /\ ~call.final
  /\ delivered' = Len(call.out)
  /\ held' = held \o call.out
  /\ result' = Ok /\ call' = Idle
  /\ UNCHANGED <<config, inflater, reset_between_messages, stream_open, poisoned, calls>>

ReturnNonFinal ==
  /\ call.phase = "fed" /\ ~call.final
  /\ delivered' = saturating_add(delivered, Len(call.out))
  /\ held' = held \o call.out
  /\ result' = Ok /\ call' = Idle
  /\ UNCHANGED <<config, inflater, reset_between_messages, stream_open, poisoned, calls>>

\* Mutant: the agreed reset is forgotten.
ReturnFinalKeepingHistory ==
  /\ call.phase = "closed" /\ ~call.ended
  /\ delivered' = 0 /\ held' = <<>>
  /\ result' = Ok /\ call' = Idle
  /\ UNCHANGED <<config, inflater, stream_open, reset_between_messages, poisoned, calls>>

\* Mutant: the total runs on into the next message.
ReturnFinalKeepingTotal ==
  /\ call.phase = "closed" /\ ~call.ended
  /\ IF reset_between_messages
     THEN inflater' = reinitialised /\ stream_open' = FALSE
     ELSE UNCHANGED <<inflater, stream_open>>
  /\ delivered' = saturating_add(delivered, Len(call.out)) /\ held' = <<>>
  /\ result' = Ok /\ call' = Idle
  /\ UNCHANGED <<config, reset_between_messages, poisoned, calls>>

\* A stream that ended in the trailer was not the peer's to end.
ReturnFinal ==
  /\ call.phase = "closed"
  /\ IF call.ended
     THEN Fail(Error("InvalidStream")) /\ UNCHANGED <<inflater, stream_open>>
     ELSE /\ IF reset_between_messages
             THEN inflater' = reinitialised /\ stream_open' = FALSE
             ELSE UNCHANGED <<inflater, stream_open>>
          /\ delivered' = 0 /\ held' = <<>>
          /\ result' = Ok /\ call' = Idle
          /\ UNCHANGED <<config, reset_between_messages, poisoned, calls>>

-----------------------------------------------------------------------------

Next ==
  \/ DecompressPoisoned
  \/ \E input \in Inputs, final \in BOOLEAN, limit \in Limits :
       Decompress(input, final, limit)
  \/ InflateStep
  \/ FeedTrailer
  \/ ReturnNonFinal
  \/ ReturnFinal

Spec == Init /\ [][Next]_vars

\* A call runs on its caller's thread until it returns.
FairSpec == Spec /\ WF_vars(InflateStep \/ FeedTrailer \/ ReturnNonFinal \/ ReturnFinal)

-----------------------------------------------------------------------------
(* Properties.                                                              *)

\* The flag says where the backend stands: open exactly when octets were taken
\* into a stream that has not ended.
PositionTracked == ~poisoned => (stream_open <=> inflater.mode # "start")

\* A bomb stops one octet past the ceiling, or past what was already delivered
\* if the ceiling has fallen below it.  In that case a call that produces
\* nothing is refused too, with exactly what was delivered.
CeilingHolds ==
  /\ call.phase # "idle" =>
       saturating_add(delivered, Len(call.out)) <= Larger(call.limit, delivered)
  /\ result.is = "MessageTooLong" =>
       \/ result.size = Larger(result.limit, delivered) + 1
       \/ result.size = delivered /\ result.limit < delivered

\* A returned call leaves nothing behind: no octet the backend still owes.
NothingOwed == call.phase = "idle" /\ ~poisoned => inflater.owed = <<>>

\* The running total is what the host was given for this message, as far as a
\* usize counts, and the next message starts at none.
TotalIsHeld == ~poisoned => delivered = Smaller(Len(held), UsizeMax)

\* The negotiated width survives every reinitialisation.
WidthKept == inflater.window_bits = config

\* Agreed no-context-takeover: no history crosses from one message to the
\* next, and the next one starts a stream of its own.
NoHistoryAcrossMessages ==
  [][reset_between_messages /\ call.phase = "closed" /\ call'.phase = "idle" /\ ~poisoned' =>
       inflater'.hist = <<>> /\ ~stream_open']_vars

\* Every error is terminal: once a call has failed no later call succeeds,
\* touches the backend or hands the host a byte.
ErrorsAreTerminal ==
  [][result.is # "Ok" => result'.is # "Ok" /\ UNCHANGED <<inflater, held>>]_vars

\* Every call returns: the loop cannot spin.
CallsReturn == (call.phase # "idle") ~> (call.phase = "idle")

\* The comment at src/codec.rs:367, "the four octets always complete a block
\* already begun": the trailer never meets an inflater between two blocks.
TrailerCompletesABlock ==
  call.phase = "trailer" /\ call.input = <<Trl>> =>
    inflater.mode \notin {"start", "boundary"}

\* The doc of MessageTooLong: the size reported is one past the ceiling, or one
\* past what was already delivered when the host lowered the ceiling below it.
SizeIsOnePast ==
  result.is = "MessageTooLong" => result.size = Larger(result.limit, delivered) + 1

\* README.md:172, "DecompressedLimit has no unbounded spelling", and the doc of
\* that type: the byte after the ceiling is an error, over all fragments.  At
\* usize::MAX the total saturates and no byte is one too many.
NoUnboundedSpelling ==
  call.phase # "idle" =>
    Len(held) + Len(call.out) <= Larger(call.limit, Len(held))
=============================================================================
