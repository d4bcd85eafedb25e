--------------------------- MODULE DecoderProofs ---------------------------
(***************************************************************************)
(* Proofs about Decoder, for any octets, inputs, ceilings, widths, scratch  *)
(* and bound: nothing is assumed of what the peer sends.                    *)
(***************************************************************************)
EXTENDS Decoder, TLAPS

-----------------------------------------------------------------------------
(* The inductive invariant, part by part.                                   *)

\* A decoder that failed is between calls for good; any result but Ok says so.
PoisonInv ==
  /\ poisoned => call.phase = "idle"
  /\ result.is # "Ok" => poisoned

\* The loop of inflate ends with nothing owed, and what follows it owes nothing.
OwedInv ==
  call.phase \in {"fed", "closed"} \/ (call.phase = "idle" /\ ~poisoned) =>
    inflater.owed = <<>>

IInv ==
  /\ TypeOK
  /\ PoisonInv
  /\ PositionTracked
  /\ OwedInv
  /\ CeilingHolds
  /\ TotalIsHeld
  /\ WidthKept

-----------------------------------------------------------------------------
(* What the backend may answer.                                             *)

Widths == MIN_INFLATER_WINDOW_BITS..DEFAULT_INFLATER_WINDOW_BITS
States == [mode : Modes, hist : Seq(Octet), owed : Seq(Octet), window_bits : Widths]

\* Front and Back split a sequence in two.
LEMMA SplitSeq ==
  ASSUME NEW S, NEW s \in Seq(S), NEW n \in 0..Len(s)
  PROVE  /\ Front(s, n) \in Seq(S) /\ Len(Front(s, n)) = n
         /\ Back(s, n) \in Seq(S)
         /\ n = Len(s) => Back(s, n) = <<>>
         /\ s # <<>> /\ n = 0 => Back(s, n) # <<>>
  BY SMTT(60) DEF Front, Back

LEMMA JoinSeq ==
  ASSUME NEW S, NEW s \in Seq(S), NEW t \in Seq(S)
  PROVE  s \o t \in Seq(S) /\ Len(s \o t) = Len(s) + Len(t)
  OBVIOUS

LEMMA LenIsNat == ASSUME NEW S, NEW s \in Seq(S) PROVE Len(s) \in Nat
  OBVIOUS

\* A unit is taken to a typed state and text, never to the start of a stream.
LEMMA AcceptTyped ==
  ASSUME NEW inf \in Inflaters(Octet), NEW u \in Units(Octet), NEW reach,
         NEW a \in Accept(inf, u, reach)
  PROVE  /\ a.inf \in Inflaters(Octet) /\ a.inf.mode # "start"
         /\ a.text \in Seq(Octet) /\ a.ended \in BOOLEAN
         /\ a.left \in Seq(Units(Octet))
<1> DEFINE Sound(mode, text, ended, left) ==
             mode \in Modes \ {"start"} /\ text \in Seq(Octet) /\ ended \in BOOLEAN
               /\ left \in Seq(Units(Octet))
<1>1. Rest \in Units(Octet)
  BY DEF Rest, Mark, Units
<1>2. <<>> \in Seq(Units(Octet)) /\ <<Rest>> \in Seq(Units(Octet)) /\ <<>> \in Seq(Octet)
  BY <1>1
<1>3. <<Junk>> \in Seq(Octet)
  BY OctetAssumption
<1>4. ASSUME NEW mode, NEW text, NEW ended, NEW left, Sound(mode, text, ended, left),
             a = Taken(mode, inf, text, ended, left)
      PROVE  /\ a.inf \in Inflaters(Octet) /\ a.inf.mode # "start"
             /\ a.text \in Seq(Octet) /\ a.ended \in BOOLEAN
             /\ a.left \in Seq(Units(Octet))
  BY <1>4 DEF Taken, Inflaters
<1>5. u.text \in Seq(Octet) /\ u.dist \in Nat
  BY DEF Units
<1>6. Reaches(inf, u, reach) => Copied(inf, u) \in Seq(Octet)
  <2>1. CASE u.dist = 0 \/ u.text = <<>>
    BY <2>1, <1>5 DEF Copied
  <2>2. CASE u.dist # 0 /\ u.text # <<>> /\ Reaches(inf, u, reach)
    <3>1. inf.hist \in Seq(Octet) /\ Len(inf.hist) - u.dist + 1 \in 1..Len(inf.hist)
      BY <2>2, <1>5 DEF Reaches, Inflaters
    <3>2. At(inf.hist, u.dist) \in Octet
      BY <3>1 DEF At
    <3> QED
      BY <3>2, <2>2, <1>5 DEF Copied
  <2> QED
    BY <2>1, <2>2
<1>7. \E mode, text, ended, left :
        Sound(mode, text, ended, left) /\ a = Taken(mode, inf, text, ended, left)
  <2>1. a = Rejected(inf) => Sound("error", <<>>, FALSE, <<>>)
                               /\ a = Taken("error", inf, <<>>, FALSE, <<>>)
    BY <1>2 DEF Rejected, Moves, Modes
  <2>2. CASE inf.mode = "lost"
    <3>1. a = Moves("lost", inf, <<Junk>>) =>
            Sound("lost", <<Junk>>, FALSE, <<>>) /\ a = Taken("lost", inf, <<Junk>>, FALSE, <<>>)
      BY <1>2, <1>3 DEF Moves, Modes
    <3> QED
      BY <2>2, <2>1, <3>1 DEF Accept
  <2>3. CASE inf.mode # "lost" /\ a # Rejected(inf)
    <3>1. CASE u.kind = "data"
      <4>1. Reaches(inf, u, reach) /\ a = Taken("open", inf, Copied(inf, u), FALSE, <<>>)
        BY <3>1, <2>3 DEF Accept, Moves
      <4> QED
        BY <4>1, <1>2, <1>6 DEF Modes
    <3>2. CASE u.kind \in {"hdr", "finhdr"}
      <4>1. \E mode \in {"header", "final"} : a = Taken(mode, inf, <<>>, FALSE, <<>>)
        BY <3>2, <2>3 DEF Accept, Moves
      <4> QED
        BY <4>1, <1>2 DEF Modes
    <3>3. CASE u.kind = "finblk"
      <4>1. a = Taken("done", inf, u.text, TRUE, <<>>)
        BY <3>3, <2>3 DEF Accept
      <4> QED
        BY <4>1, <1>2, <1>5 DEF Modes
    <3>4. CASE u.kind \in {"trl", "tail"}
      <4>1. \/ \E mode \in {"boundary", "lost"} : a = Taken(mode, inf, <<>>, FALSE, <<>>)
            \/ \E left \in {<<>>, <<Rest>>} : a = Taken("done", inf, <<>>, TRUE, left)
        BY <3>4, <2>3 DEF Accept, Moves
      <4> QED
        BY <4>1, <1>2 DEF Modes
    <3> QED
      BY <3>1, <3>2, <3>3, <3>4 DEF Units
  <2> QED
    BY <2>1, <2>2, <2>3
<1> QED
  BY <1>4, <1>7

\* A state that owes something else, and one that stands elsewhere.
Owing(inf, owed)          == [inf EXCEPT !.owed = owed]
Standing(inf, mode, hist) == [inf EXCEPT !.mode = mode, !.hist = hist]

LEMMA OwingState ==
  ASSUME NEW inf \in States, NEW owed \in Seq(Octet)
  PROVE  /\ Owing(inf, owed) \in States /\ Owing(inf, owed).window_bits = inf.window_bits
         /\ Owing(inf, owed).mode = inf.mode /\ Owing(inf, owed).owed = owed
<1> DEFINE Texts == Seq(Octet)
<1>1. inf \in [mode : Modes, hist : Texts, owed : Texts, window_bits : Widths]
        /\ owed \in Texts
  BY DEF States
<1> HIDE DEF Texts
<1>2. LET now == [inf EXCEPT !.owed = owed]
      IN /\ now \in [mode : Modes, hist : Texts, owed : Texts, window_bits : Widths]
         /\ now.window_bits = inf.window_bits /\ now.mode = inf.mode /\ now.owed = owed
  BY <1>1
<1> QED
  BY <1>2 DEF Texts, States, Owing

LEMMA StandingState ==
  ASSUME NEW inf \in States, NEW mode \in Modes, NEW hist \in Seq(Octet)
  PROVE  LET now == Standing(inf, mode, hist)
         IN /\ now \in States /\ now.window_bits = inf.window_bits
            /\ now.mode = mode /\ now.owed = inf.owed
<1> DEFINE Texts == Seq(Octet)
<1>1. inf \in [mode : Modes, hist : Texts, owed : Texts, window_bits : Widths]
        /\ hist \in Texts
  BY DEF States
<1> HIDE DEF Texts
<1>2. LET now == [inf EXCEPT !.mode = mode, !.hist = hist]
      IN /\ now \in [mode : Modes, hist : Texts, owed : Texts, window_bits : Widths]
         /\ now.window_bits = inf.window_bits /\ now.mode = mode /\ now.owed = inf.owed
  BY <1>1
<1> QED
  BY <1>2 DEF Texts, States, Standing

\* What an outcome of the backend may be, and what it tells: bytes taken are
\* what leaves the start of a stream, and one that did nothing owes nothing.
Outcome(o, inf, room) ==
  /\ o.inf \in States /\ o.inf.window_bits = inf.window_bits
  /\ o.produced \in Seq(Octet) /\ Len(o.produced) <= room
  /\ o.consumed \in BOOLEAN /\ o.ended \in BOOLEAN /\ o.input \in Seq(Units(Octet))
  /\ IF o.consumed THEN o.inf.mode # "start" ELSE o.inf.mode = inf.mode
  /\ Drained(o) /\ room > 0 => o.inf.owed = <<>>

\* Progress is an outcome if it fits the room and, having nothing to take,
\* does not sit on what it owes.
LEMMA ProgressOutcome ==
  ASSUME NEW inf \in States, NEW next \in States, NEW room \in Nat,
         NEW owed \in Seq(Octet), NEW n \in 0..Len(owed), n <= room,
         NEW taken \in BOOLEAN, NEW input \in Seq(Units(Octet)), NEW ended \in BOOLEAN,
         next.window_bits = inf.window_bits,
         IF taken THEN next.mode # "start" ELSE next.mode = inf.mode,
         ~taken /\ n = 0 /\ input = <<>> /\ room > 0 => owed = <<>>
  PROVE  Outcome(Progress(next, owed, n, taken, input, ended), inf, room)
<1> DEFINE o == Progress(next, owed, n, taken, input, ended)
           back == Back(owed, n)
           front == Front(owed, n)
<1>1. /\ front \in Seq(Octet) /\ Len(front) = n /\ back \in Seq(Octet)
      /\ n = Len(owed) => back = <<>>
  BY SplitSeq
<1>2. /\ o.inf = Owing(next, back) /\ o.produced = front
      /\ o.consumed = taken /\ o.input = input /\ o.ended = (ended /\ n = Len(owed))
  BY DEF Progress, Owing
<1> HIDE DEF o, back, front
<1>3. /\ o.inf \in States /\ o.inf.window_bits = next.window_bits
      /\ o.inf.mode = next.mode /\ o.inf.owed = back
  BY <1>1, <1>2, OwingState
<1>4. Drained(o) /\ room > 0 => o.inf.owed = <<>>
  <2>1. Drained(o) => ~taken /\ n = 0 /\ input = <<>>
    BY <1>1, <1>2 DEF Drained, Moved
  <2> QED
    BY <2>1, <1>1, <1>3
<1>5. /\ o.consumed \in BOOLEAN /\ o.ended \in BOOLEAN
      /\ IF o.consumed THEN o.inf.mode # "start" ELSE o.inf.mode = inf.mode
  BY <1>2, <1>3
<1>6. Outcome(o, inf, room)
  BY <1>1, <1>2, <1>3, <1>4, <1>5 DEF Outcome
<1> QED
  BY <1>6 DEF o

LEMMA PortionsOutcome ==
  ASSUME NEW inf \in States, NEW input \in Seq(Units(Octet)), input # <<>>,
         NEW room \in Nat, NEW a, a.inf \in Inflaters(Octet), a.inf.mode # "start",
         a.text \in Seq(Octet), a.ended \in BOOLEAN, a.left \in Seq(Units(Octet)),
         NEW o \in Portions(inf, input, room, a)
  PROVE  Outcome(o, inf, room)
<1> DEFINE owed == inf.owed \o a.text
           next == Standing(inf, a.inf.mode, a.inf.hist)
           left == a.left \o Tail(input)
<1>1. a.inf.mode \in Modes /\ a.inf.hist \in Seq(Octet) /\ inf.owed \in Seq(Octet)
  BY DEF Inflaters, States
<1>2. next \in States /\ next.window_bits = inf.window_bits /\ next.mode = a.inf.mode
  BY <1>1, StandingState
<1>3. owed \in Seq(Octet) /\ Len(owed) \in Nat /\ Len(inf.owed) \in Nat
  BY <1>1, JoinSeq, LenIsNat, Zenon
<1>4. left \in Seq(Units(Octet))
  <2>1. Tail(input) \in Seq(Units(Octet))
    OBVIOUS
  <2> QED
    BY <2>1, JoinSeq, Zenon
<1>5. \E n \in Len(inf.owed)..Smaller(room, Len(owed)) :
        o = Progress(next, owed, n, TRUE, left, a.ended)
  BY DEF Portions, Standing
<1> HIDE DEF owed, next, left
<1>6. PICK n \in Len(inf.owed)..Smaller(room, Len(owed)) :
        o = Progress(next, owed, n, TRUE, left, a.ended)
  BY <1>5
<1>7. n \in 0..Len(owed) /\ n <= room
  BY <1>6, <1>3 DEF Smaller
<1> QED
  BY <1>2, <1>3, <1>4, <1>6, <1>7, ProgressOutcome

LEMMA AcceptedTyped ==
  ASSUME NEW inf \in States, NEW u \in Units(Octet), NEW a \in Accepted(inf, u)
  PROVE  /\ a.inf \in Inflaters(Octet) /\ a.inf.mode # "start"
         /\ a.text \in Seq(Octet) /\ a.ended \in BOOLEAN
         /\ a.left \in Seq(Units(Octet))
<1> DEFINE was == [mode |-> inf.mode, hist |-> inf.hist]
<1>1. was \in Inflaters(Octet)
  BY DEF States, Inflaters
<1>2. PICK reach : a \in Accept(was, u, reach)
  BY DEF Accepted
<1> HIDE DEF was
<1> QED
  BY <1>1, <1>2, AcceptTyped

\* Whatever the backend does with what it is handed is an outcome.
LEMMA BackendOutcome ==
  ASSUME NEW inf \in States, NEW input \in Seq(Units(Octet)), NEW room \in Nat,
         NEW o \in Backend(inf, input, room)
  PROVE  Outcome(o, inf, room)
<1>1. inf.owed \in Seq(Octet) /\ Len(inf.owed) \in Nat
  BY DEF States
<1>2. ASSUME o \in Writes(inf, input, room) PROVE Outcome(o, inf, room)
  <2>1. PICK n \in 1..Smaller(room, Len(inf.owed)) :
          o = Progress(inf, inf.owed, n, FALSE, input, inf.mode = "done")
    BY <1>2 DEF Writes
  <2>2. n \in 0..Len(inf.owed) /\ n <= room /\ n # 0
    BY <2>1, <1>1 DEF Smaller
  <2> QED
    BY <2>1, <2>2, <1>1, ProgressOutcome
<1>3. ASSUME o \in Idles(inf, input, room) PROVE Outcome(o, inf, room)
  <2>1. /\ o = Progress(inf, inf.owed, 0, FALSE, input, inf.mode = "done")
        /\ input = <<>> /\ room > 0 => inf.owed = <<>>
    BY <1>3 DEF Idles
  <2>2. 0 \in 0..Len(inf.owed) /\ 0 <= room
    BY <1>1
  <2> QED
    BY <2>1, <2>2, <1>1, ProgressOutcome
<1>4. ASSUME o \in Takes(inf, input, room) PROVE Outcome(o, inf, room)
  <2>1. /\ input # <<>>
        /\ \E a \in Accepted(inf, Head(input)) : o \in Portions(inf, input, room, a)
    BY <1>4 DEF Takes
  <2>2. Head(input) \in Units(Octet)
    BY <2>1
  <2> QED
    BY <2>1, <2>2, AcceptedTyped, PortionsOutcome
<1> QED
  BY <1>2, <1>3, <1>4 DEF Backend

-----------------------------------------------------------------------------
(* The arithmetic of the ceiling.                                           *)

\* Saturating arithmetic stays within a usize, and a running total that
\* saturates is the saturated total.
LEMMA Saturates ==
  ASSUME NEW x \in Nat, NEW y \in Nat
  PROVE  /\ saturating_add(x, y) \in 0..UsizeMax /\ saturating_sub(x, y) \in Nat
         /\ saturating_add(Smaller(x, UsizeMax), y) = Smaller(x + y, UsizeMax)
  BY LimitAssumption DEF saturating_add, saturating_sub, Smaller

LEMMA SmallerOf == ASSUME NEW x \in Nat, NEW y \in Nat, NEW n \in Nat, n <= Smaller(x, y)
                   PROVE  n <= x
  BY DEF Smaller

LEMMA UsizeIsNat == UsizeMax \in Nat /\ \A n \in 0..UsizeMax : n \in Nat
  BY LimitAssumption

\* One turn of the loop, the total so far being within bounds: what the room
\* lets through is over the ceiling by one, or past the delivery if the ceiling
\* has fallen below it.
LEMMA OnePast ==
  ASSUME NEW d \in 0..UsizeMax, NEW n \in Nat, NEW limit \in 0..UsizeMax,
         saturating_add(d, n) <= Larger(limit, d),
         NEW p \in Nat, p <= saturating_add(saturating_sub(limit, saturating_add(d, n)), 1),
         saturating_add(d, n + p) > limit
  PROVE  \/ saturating_add(d, n + p) = Larger(limit, d) + 1
         \/ saturating_add(d, n + p) = d /\ limit < d
  BY LimitAssumption DEF saturating_add, saturating_sub, Smaller, Larger

\* The room is never nothing, so a backend that owes an octet can move.
LEMMA Room == TypeOK => writable \in Nat \ {0}
<1> SUFFICES ASSUME TypeOK PROVE writable \in Nat \ {0}
  OBVIOUS
<1>1. /\ Len(call.out) \in Nat /\ call.limit \in 0..UsizeMax /\ delivered \in 0..UsizeMax
      /\ UsizeMax \in Nat \ {0} /\ SCRATCH \in Nat \ {0}
  BY LimitAssumption, ScratchAssumption DEF TypeOK
<1> QED
  BY <1>1 DEF writable, saturating_add, saturating_sub, Smaller

-----------------------------------------------------------------------------
(* The invariant holds at first, and no step breaks it.                     *)

\* A new inflater of a width in range, and one started over at the same width.
LEMMA Built ==
  ASSUME NEW bits \in Widths
  PROVE  LET new == build(bits)
         IN new \in States /\ new.window_bits = bits /\ new.mode = "start"
              /\ new.owed = <<>> /\ new.hist = <<>>
<1>1. "start" \in Modes /\ <<>> \in Seq(Octet)
  BY DEF Modes
<1> QED
  BY <1>1 DEF build, States

LEMMA Reinitialised ==
  config \in Widths =>
    /\ reinitialised \in States /\ reinitialised.window_bits = config
    /\ reinitialised.mode = "start" /\ reinitialised.owed = <<>>
    /\ reinitialised.hist = <<>>
<1>1. config \in Widths => reinitialised = build(config)
  BY DEF reinitialised, resets_in_place, reset, DEFAULT_INFLATER_WINDOW_BITS
<1> QED
  BY <1>1, Built

LEMMA Starts == Init => IInv
<1> SUFFICES ASSUME Init PROVE IInv
  OBVIOUS
<1>1. config \in Widths
  BY PeerBitsAssumption
     DEF Init, for_peer_window, Larger, Widths, MIN_INFLATER_WINDOW_BITS,
         DEFAULT_INFLATER_WINDOW_BITS
<1>2. /\ inflater \in States /\ inflater.window_bits = config
      /\ inflater.mode = "start" /\ inflater.owed = <<>>
  BY <1>1, Built DEF Init
<1>3. UsizeMax \in Nat /\ 0 \in 0..UsizeMax
  BY LimitAssumption
<1>4. <<>> \in Seq(Octet) /\ <<>> \in Seq(Units(Octet)) /\ Len(<<>>) = 0
  OBVIOUS
<1>5. TypeOK
  BY <1>1, <1>2, <1>3, <1>4 DEF Init, TypeOK, States, Widths, Idle, Ok
<1>6. PoisonInv /\ PositionTracked /\ OwedInv /\ WidthKept
  BY <1>2 DEF Init, PoisonInv, PositionTracked, OwedInv, WidthKept, Idle, Ok
<1>7. CeilingHolds /\ TotalIsHeld
  BY <1>3, <1>4 DEF Init, CeilingHolds, TotalIsHeld, Idle, Ok, Smaller
<1> QED
  BY <1>5, <1>6, <1>7 DEF IInv

Results ==
  [is : {"Ok", "Poisoned", "InvalidStream", "Stalled", "MessageTooLong"},
   size : 0..UsizeMax, limit : 0..UsizeMax]

\* A failing call keeps the invariant, whatever it leaves of the inflater.
LEMMA FailKeeps ==
  ASSUME IInv, NEW error \in Results, Fail(error), error.is # "Ok",
         inflater' \in States, inflater'.window_bits = config,
         stream_open' \in BOOLEAN,
         error.is = "MessageTooLong" =>
           \/ error.size = Larger(error.limit, delivered) + 1
           \/ error.size = delivered /\ error.limit < delivered
  PROVE  IInv'
<1>1. Idle \in [phase : {"idle", "payload", "fed", "trailer", "closed"},
                input : Seq(Units(Octet)), final : BOOLEAN, limit : 0..UsizeMax,
                out : Seq(Octet), ended : BOOLEAN, turn : {0, 1}]
        /\ Idle.phase = "idle"
  <2>1. 0 \in 0..UsizeMax /\ <<>> \in Seq(Octet) /\ <<>> \in Seq(Units(Octet))
    BY LimitAssumption
  <2> QED
    BY <2>1 DEF Idle
<1>2. TypeOK'
  BY <1>1 DEF IInv, TypeOK, Fail, Results, States, Widths
<1>3. PoisonInv' /\ PositionTracked' /\ OwedInv' /\ TotalIsHeld'
  BY <1>1 DEF Fail, PoisonInv, PositionTracked, OwedInv, TotalIsHeld
<1>4. CeilingHolds' /\ WidthKept'
  BY <1>1 DEF Fail, CeilingHolds, WidthKept
<1> QED
  BY <1>2, <1>3, <1>4 DEF IInv

\* The errors without a size are results.
LEMMA ErrorTyped ==
  ASSUME NEW is \in {"Poisoned", "InvalidStream", "Stalled"}
  PROVE  /\ Error(is) \in Results /\ Error(is).is = is
         /\ Error(is).is # "Ok" /\ Error(is).is # "MessageTooLong"
  BY LimitAssumption DEF Error, Results

LEMMA DecompressPoisonedKeeps == IInv /\ DecompressPoisoned => IInv'
<1> SUFFICES ASSUME IInv, DecompressPoisoned PROVE IInv'
  OBVIOUS
<1>1. /\ result' \in Results /\ result'.is = "Poisoned"
      /\ UNCHANGED <<config, inflater, reset_between_messages, stream_open, delivered,
                     poisoned, call, held, calls>>
  BY ErrorTyped DEF DecompressPoisoned
<1>2. TypeOK'
  BY <1>1 DEF IInv, TypeOK, Results
<1>3. PoisonInv' /\ PositionTracked' /\ OwedInv'
  BY <1>1 DEF IInv, DecompressPoisoned, PoisonInv, PositionTracked, OwedInv
<1>4. CeilingHolds' /\ TotalIsHeld' /\ WidthKept'
  <2>1. CeilingHolds /\ TotalIsHeld /\ WidthKept
    BY DEF IInv
  <2> QED
    BY <1>1, <2>1 DEF CeilingHolds, TotalIsHeld, WidthKept
<1> QED
  BY <1>2, <1>3, <1>4 DEF IInv

LEMMA DecompressKeeps ==
  ASSUME IInv, NEW input \in Inputs, NEW final \in BOOLEAN, NEW limit \in Limits,
         Decompress(input, final, limit)
  PROVE  IInv'
<1>1. /\ call' = [Idle EXCEPT !.phase = "payload", !.input = input,
                              !.final = final, !.limit = limit]
      /\ UNCHANGED <<config, inflater, reset_between_messages, stream_open, delivered,
                     poisoned, result, held>>
      /\ ~poisoned /\ calls \in Nat /\ calls' = calls + 1
  BY DEF Decompress, IInv, TypeOK
<1>2. /\ input \in Seq(Units(Octet)) /\ limit \in 0..UsizeMax
      /\ <<>> \in Seq(Octet)
  BY InputAssumption, LimitAssumption
<1>3. /\ call' \in [phase : {"idle", "payload", "fed", "trailer", "closed"},
                    input : Seq(Units(Octet)), final : BOOLEAN, limit : 0..UsizeMax,
                    out : Seq(Octet), ended : BOOLEAN, turn : {0, 1}]
      /\ call'.phase = "payload" /\ call'.out = <<>> /\ call'.limit = limit
  BY <1>1, <1>2 DEF Idle
<1>4. TypeOK'
  BY <1>1, <1>3, SMTT(60) DEF IInv, TypeOK
<1>5. PoisonInv' /\ PositionTracked' /\ OwedInv' /\ TotalIsHeld' /\ WidthKept'
  BY <1>1, <1>3
     DEF IInv, PoisonInv, PositionTracked, OwedInv, TotalIsHeld, WidthKept
<1>6. CeilingHolds'
  <2>1. delivered \in 0..UsizeMax /\ result.is # "MessageTooLong"
    BY <1>1 DEF IInv, TypeOK, PoisonInv
  <2>2. saturating_add(delivered, Len(<<>>)) <= Larger(limit, delivered)
    BY <2>1, <1>2, LimitAssumption DEF saturating_add, Smaller, Larger
  <2> QED
    BY <2>1, <2>2, <1>1, <1>3 DEF CeilingHolds
<1> QED
  BY <1>4, <1>5, <1>6 DEF IInv

LEMMA FeedTrailerKeeps == IInv /\ FeedTrailer => IInv'
<1> SUFFICES ASSUME IInv, FeedTrailer PROVE IInv'
  OBVIOUS
<1>1. /\ inflater \in States /\ inflater.window_bits = config /\ stream_open \in BOOLEAN
      /\ UNCHANGED <<inflater, stream_open>> /\ call.phase = "fed"
  BY DEF FeedTrailer, IInv, TypeOK, WidthKept, States, Widths
<1>2. ASSUME ~stream_open PROVE IInv'
  <2>1. Fail(Error("InvalidStream"))
    BY <1>2 DEF FeedTrailer
  <2> QED
    BY <2>1, <1>1, ErrorTyped, FailKeeps
<1>3. ASSUME stream_open PROVE IInv'
  <2>1. /\ call' = [call EXCEPT !.phase = "trailer", !.input = <<Trl>>, !.ended = FALSE]
        /\ UNCHANGED <<config, reset_between_messages, delivered, poisoned,
                       result, held, calls>>
    BY <1>3 DEF FeedTrailer
  <2>2. <<Trl>> \in Seq(Units(Octet))
    <3>1. Trl \in Units(Octet)
      BY DEF Trl, Mark, Units
    <3> QED
      BY <3>1
  <2>3. /\ call' \in [phase : {"idle", "payload", "fed", "trailer", "closed"},
                      input : Seq(Units(Octet)), final : BOOLEAN, limit : 0..UsizeMax,
                      out : Seq(Octet), ended : BOOLEAN, turn : {0, 1}]
        /\ call'.phase = "trailer" /\ call'.out = call.out /\ call'.limit = call.limit
    BY <2>1, <2>2 DEF IInv, TypeOK
  <2>4. TypeOK'
    BY <1>1, <2>1, <2>3 DEF IInv, TypeOK
  <2>5. PoisonInv' /\ PositionTracked' /\ OwedInv' /\ TotalIsHeld' /\ WidthKept'
    BY <1>1, <2>1, <2>3
       DEF IInv, PoisonInv, PositionTracked, OwedInv, TotalIsHeld, WidthKept
  <2>6. CeilingHolds'
    BY <1>1, <2>1, <2>3 DEF IInv, CeilingHolds
  <2> QED
    BY <2>4, <2>5, <2>6 DEF IInv
<1> QED
  BY <1>2, <1>3

\* What both returns that succeed leave behind.
LEMMA IdleTyped ==
  /\ Idle \in [phase : {"idle", "payload", "fed", "trailer", "closed"},
               input : Seq(Units(Octet)), final : BOOLEAN, limit : 0..UsizeMax,
               out : Seq(Octet), ended : BOOLEAN, turn : {0, 1}]
  /\ Idle.phase = "idle" /\ Ok \in Results /\ Ok.is = "Ok"
<1>1. 0 \in 0..UsizeMax /\ <<>> \in Seq(Octet) /\ <<>> \in Seq(Units(Octet))
  BY LimitAssumption
<1> QED
  BY <1>1 DEF Idle, Ok, Results

LEMMA ReturnNonFinalKeeps == IInv /\ ReturnNonFinal => IInv'
<1> SUFFICES ASSUME IInv, ReturnNonFinal PROVE IInv'
  OBVIOUS
<1>1. /\ delivered' = saturating_add(delivered, Len(call.out))
      /\ held' = held \o call.out /\ result' = Ok /\ call' = Idle
      /\ UNCHANGED <<config, inflater, reset_between_messages, stream_open, poisoned, calls>>
      /\ inflater.owed = <<>> /\ ~poisoned
  BY DEF ReturnNonFinal, IInv, OwedInv, PoisonInv
<1>2. /\ Len(call.out) \in Nat /\ Len(held) \in Nat /\ delivered \in 0..UsizeMax
      /\ held' \in Seq(Octet) /\ Len(held') = Len(held) + Len(call.out)
  <2>1. held \in Seq(Octet) /\ call.out \in Seq(Octet) /\ delivered \in 0..UsizeMax
    BY DEF IInv, TypeOK
  <2> QED
    BY <2>1, <1>1, JoinSeq, LenIsNat, Zenon
<1>3. delivered' \in 0..UsizeMax /\ delivered' = Smaller(Len(held'), UsizeMax)
  <2>1. delivered = Smaller(Len(held), UsizeMax)
    BY <1>1 DEF IInv, TotalIsHeld
  <2> QED
    BY <1>1, <1>2, <2>1, UsizeIsNat, Saturates, Zenon
<1>4. TypeOK'
  BY <1>1, <1>2, <1>3, IdleTyped DEF IInv, TypeOK, Results
<1>5. PoisonInv' /\ PositionTracked' /\ OwedInv' /\ TotalIsHeld' /\ WidthKept'
  BY <1>1, <1>3, IdleTyped
     DEF IInv, PoisonInv, PositionTracked, OwedInv, TotalIsHeld, WidthKept
<1>6. CeilingHolds'
  BY <1>1, IdleTyped DEF CeilingHolds
<1> QED
  BY <1>4, <1>5, <1>6 DEF IInv

LEMMA ReturnFinalKeeps == IInv /\ ReturnFinal => IInv'
<1> SUFFICES ASSUME IInv, ReturnFinal PROVE IInv'
  OBVIOUS
<1>1. /\ inflater \in States /\ inflater.window_bits = config /\ config \in Widths
      /\ stream_open \in BOOLEAN /\ inflater.owed = <<>> /\ ~poisoned
  BY DEF ReturnFinal, IInv, TypeOK, WidthKept, States, Widths, OwedInv, PoisonInv
<1>2. ASSUME call.ended PROVE IInv'
  <2>1. Fail(Error("InvalidStream")) /\ UNCHANGED <<inflater, stream_open>>
    BY <1>2 DEF ReturnFinal
  <2> QED
    BY <2>1, <1>1, ErrorTyped, FailKeeps
<1>3. ASSUME ~call.ended PROVE IInv'
  <2>1. /\ delivered' = 0 /\ held' = <<>> /\ result' = Ok /\ call' = Idle
        /\ UNCHANGED <<config, reset_between_messages, poisoned, calls>>
        /\ IF reset_between_messages
           THEN inflater' = reinitialised /\ stream_open' = FALSE
           ELSE UNCHANGED <<inflater, stream_open>>
    BY <1>3 DEF ReturnFinal
  <2>2. /\ inflater' \in States /\ inflater'.window_bits = config
        /\ inflater'.owed = <<>> /\ stream_open' \in BOOLEAN
        /\ stream_open' <=> inflater'.mode # "start"
    <3>1. CASE reset_between_messages
      BY <3>1, <2>1, <1>1, Reinitialised
    <3>2. CASE ~reset_between_messages
      BY <3>2, <2>1, <1>1 DEF IInv, PositionTracked
    <3> QED
      BY <3>1, <3>2
  <2>3. 0 \in 0..UsizeMax /\ <<>> \in Seq(Octet) /\ 0 = Smaller(Len(<<>>), UsizeMax)
    BY LimitAssumption DEF Smaller
  <2>4. TypeOK'
    BY <2>1, <2>2, <2>3, IdleTyped DEF IInv, TypeOK, Results, States, Widths
  <2>5. PoisonInv' /\ PositionTracked' /\ OwedInv' /\ TotalIsHeld' /\ WidthKept'
    BY <2>1, <2>2, <2>3, <1>1, IdleTyped
       DEF PoisonInv, PositionTracked, OwedInv, TotalIsHeld, WidthKept
  <2>6. CeilingHolds'
    BY <2>1, IdleTyped DEF CeilingHolds
  <2> QED
    BY <2>4, <2>5, <2>6 DEF IInv
<1> QED
  BY <1>2, <1>3 DEF IInv, TypeOK

\* A turn of the loop that goes on moves the position with the inflater.
LEMMA PositionMoves ==
  ASSUME IInv, ~poisoned, NEW o, Outcome(o, inflater, writable), Position(o)
  PROVE  /\ inflater' \in States /\ inflater'.window_bits = config
         /\ stream_open' \in BOOLEAN /\ (stream_open' <=> inflater'.mode # "start")
         /\ Drained(o) => inflater'.owed = <<>>
<1>1. /\ config \in Widths /\ inflater.window_bits = config /\ stream_open \in BOOLEAN
      /\ stream_open <=> inflater.mode # "start"
      /\ writable \in Nat \ {0}
  BY Room DEF IInv, TypeOK, WidthKept, PositionTracked, Widths
<1>2. /\ o.inf \in States /\ o.inf.window_bits = inflater.window_bits
      /\ o.consumed \in BOOLEAN
      /\ IF o.consumed THEN o.inf.mode # "start" ELSE o.inf.mode = inflater.mode
      /\ Drained(o) => o.inf.owed = <<>>
  BY <1>1 DEF Outcome
<1>3. CASE o.ended
  BY <1>3, <1>1, Reinitialised DEF Position
<1>4. CASE ~o.ended
  BY <1>4, <1>1, <1>2 DEF Position
<1> QED
  BY <1>3, <1>4

LEMMA InflateStepKeeps == IInv /\ InflateStep => IInv'
<1> SUFFICES ASSUME IInv, InflateStep PROVE IInv'
  OBVIOUS
<1>1. /\ call.phase \in {"payload", "trailer"} /\ ~poisoned
      /\ inflater \in States /\ inflater.window_bits = config /\ stream_open \in BOOLEAN
      /\ call.input \in Seq(Units(Octet)) /\ call.out \in Seq(Octet)
      /\ call.limit \in 0..UsizeMax /\ delivered \in 0..UsizeMax
      /\ writable \in Nat
  BY Room DEF InflateStep, IInv, TypeOK, PoisonInv, WidthKept, States, Widths
<1> DEFINE Turn(o) ==
       LET out  == call.out \o o.produced
           size == saturating_add(delivered, Len(out))
       IN IF o.inf.mode = "error"
          THEN Fail(Error("InvalidStream")) /\ UNCHANGED <<inflater, stream_open>>
          ELSE IF Stalled(o)
          THEN Fail(Error("Stalled")) /\ UNCHANGED <<inflater, stream_open>>
          ELSE IF size > call.limit
          THEN Fail(MessageTooLong(size, call.limit))
               /\ inflater' = o.inf /\ UNCHANGED stream_open
          ELSE /\ Position(o)
               /\ call' = [call EXCEPT !.phase = NextPhase(o), !.input = o.input,
                                       !.out = out, !.ended = @ \/ o.ended,
                                       !.turn = 1 - @]
               /\ UNCHANGED <<config, reset_between_messages, delivered, poisoned,
                              result, held, calls>>
<1>2. \E o \in Backend(inflater, call.input, writable) : Turn(o)
  BY DEF InflateStep
<1> HIDE DEF Turn
<1>3. \E o : Outcome(o, inflater, writable) /\ Turn(o)
  BY <1>1, <1>2, BackendOutcome
<1>4. PICK o : Outcome(o, inflater, writable) /\ Turn(o)
  BY <1>3
<1> DEFINE out  == call.out \o o.produced
           size == saturating_add(delivered, Len(out))
<1>5. /\ o.inf \in States /\ o.inf.window_bits = inflater.window_bits
      /\ o.produced \in Seq(Octet) /\ Len(o.produced) <= writable
      /\ o.consumed \in BOOLEAN /\ o.ended \in BOOLEAN /\ o.input \in Seq(Units(Octet))
  BY <1>4 DEF Outcome
<1>6. /\ out \in Seq(Octet) /\ Len(call.out) \in Nat /\ Len(o.produced) \in Nat
      /\ Len(out) = Len(call.out) + Len(o.produced)
  BY <1>1, <1>5, JoinSeq, LenIsNat, Zenon
<1>7. size \in 0..UsizeMax
  <2>1. Len(out) \in Nat /\ delivered \in Nat
    BY <1>1, <1>6, UsizeIsNat, LenIsNat, Zenon
  <2> QED
    BY <2>1, Saturates, Zenon
<1>8. CASE o.inf.mode = "error"
  <2>1. Fail(Error("InvalidStream")) /\ UNCHANGED <<inflater, stream_open>>
    BY <1>8, <1>4 DEF Turn
  <2> QED
    BY <2>1, <1>1, ErrorTyped, FailKeeps
<1>9. CASE o.inf.mode # "error" /\ Stalled(o)
  <2>1. Fail(Error("Stalled")) /\ UNCHANGED <<inflater, stream_open>>
    BY <1>9, <1>4 DEF Turn
  <2> QED
    BY <2>1, <1>1, ErrorTyped, FailKeeps
<1>10. CASE o.inf.mode # "error" /\ ~Stalled(o) /\ size > call.limit
  <2> DEFINE error == MessageTooLong(size, call.limit)
  <2>1. Fail(error) /\ inflater' = o.inf /\ UNCHANGED stream_open
    BY <1>10, <1>4 DEF Turn
  <2>2. /\ error \in Results /\ error.is = "MessageTooLong"
        /\ error.size = size /\ error.limit = call.limit
    <3> HIDE DEF size
    <3> QED
      BY <1>1, <1>7 DEF MessageTooLong, Results
  <2>3. \/ size = Larger(call.limit, delivered) + 1
        \/ size = delivered /\ call.limit < delivered
    <3>1. saturating_add(delivered, Len(call.out)) <= Larger(call.limit, delivered)
      BY <1>1 DEF IInv, CeilingHolds
    <3>2. Len(o.produced) <=
            saturating_add(saturating_sub(call.limit,
                                          saturating_add(delivered, Len(call.out))), 1)
      <4> DEFINE room == saturating_add(saturating_sub(call.limit,
                             saturating_add(delivered, Len(call.out))), 1)
      <4>1. room \in Nat /\ SCRATCH \in Nat
        BY <1>1, <1>6, UsizeIsNat, Saturates, ScratchAssumption
      <4>2. writable = Smaller(room, SCRATCH)
        BY DEF writable
      <4> HIDE DEF room
      <4> QED
        BY <4>1, <4>2, <1>5, <1>6, SmallerOf DEF room
    <3> DEFINE n == Len(call.out)
               p == Len(o.produced)
    <3>3. size = saturating_add(delivered, n + p) /\ size > call.limit
      BY <1>6, <1>10, Zenon
    <3>4. n \in Nat /\ p \in Nat
      BY <1>6
    <3> HIDE DEF n, p, size
    <3>5. /\ saturating_add(delivered, n) <= Larger(call.limit, delivered)
          /\ p <= saturating_add(saturating_sub(call.limit, saturating_add(delivered, n)), 1)
          /\ saturating_add(delivered, n + p) > call.limit
      BY <3>1, <3>2, <3>3 DEF n, p
    <3> QED
      BY <3>3, <3>4, <3>5, <1>1, OnePast, Zenon
  <2> HIDE DEF size, error
  <2> QED
    BY <2>1, <2>2, <2>3, <1>1, <1>5, FailKeeps
<1>11. CASE o.inf.mode # "error" /\ ~Stalled(o) /\ ~(size > call.limit)
  <2>1. /\ Position(o)
        /\ call' = [call EXCEPT !.phase = NextPhase(o), !.input = o.input,
                                !.out = out, !.ended = @ \/ o.ended, !.turn = 1 - @]
        /\ UNCHANGED <<config, reset_between_messages, delivered, poisoned,
                       result, held, calls>>
    BY <1>11, <1>4 DEF Turn
  <2>2. /\ inflater' \in States /\ inflater'.window_bits = config
        /\ stream_open' \in BOOLEAN /\ (stream_open' <=> inflater'.mode # "start")
        /\ Drained(o) => inflater'.owed = <<>>
    BY <2>1, <1>1, <1>4, PositionMoves
  <2> HIDE DEF out, size
  <2>3. /\ NextPhase(o) \in {"payload", "fed", "trailer", "closed"}
        /\ NextPhase(o) \in {"fed", "closed"} => Drained(o)
    BY <1>1 DEF NextPhase
  <2>4. /\ call' \in [phase : {"idle", "payload", "fed", "trailer", "closed"},
                      input : Seq(Units(Octet)), final : BOOLEAN, limit : 0..UsizeMax,
                      out : Seq(Octet), ended : BOOLEAN, turn : {0, 1}]
        /\ call'.phase = NextPhase(o) /\ call'.out = out /\ call'.limit = call.limit
    <3>1. call.turn \in {0, 1} => 1 - call.turn \in {0, 1}
      OBVIOUS
    <3>2. (call.ended \/ o.ended) \in BOOLEAN
      OBVIOUS
    <3> QED
      BY <3>1, <3>2, <2>1, <2>3, <1>5, <1>6 DEF IInv, TypeOK
  <2>5. TypeOK'
    BY <2>1, <2>2, <2>4 DEF IInv, TypeOK, States, Widths
  <2>6. PoisonInv' /\ PositionTracked' /\ OwedInv' /\ TotalIsHeld' /\ WidthKept'
    BY <1>1, <2>1, <2>2, <2>3, <2>4
       DEF IInv, PoisonInv, PositionTracked, OwedInv, TotalIsHeld, WidthKept
  <2>7. CeilingHolds'
    <3>1. saturating_add(delivered, Len(out)) <= Larger(call.limit, delivered)
      BY <1>1, <1>7, <1>11 DEF size, Larger
    <3>2. result.is # "MessageTooLong"
      BY <1>1 DEF IInv, PoisonInv
    <3> QED
      BY <3>1, <3>2, <2>1, <2>4 DEF CeilingHolds
  <2> QED
    BY <2>5, <2>6, <2>7 DEF IInv
<1> QED
  BY <1>8, <1>9, <1>10, <1>11

LEMMA Preserved == IInv /\ [Next]_vars => IInv'
<1> SUFFICES ASSUME IInv, [Next]_vars PROVE IInv'
  OBVIOUS
<1>1. CASE DecompressPoisoned
  BY <1>1, DecompressPoisonedKeeps
<1>2. ASSUME NEW input \in Inputs, NEW final \in BOOLEAN, NEW limit \in Limits,
             Decompress(input, final, limit)
      PROVE  IInv'
  BY <1>2, DecompressKeeps
<1>3. CASE InflateStep
  BY <1>3, InflateStepKeeps
<1>4. CASE FeedTrailer
  BY <1>4, FeedTrailerKeeps
<1>5. CASE ReturnNonFinal
  BY <1>5, ReturnNonFinalKeeps
<1>6. CASE ReturnFinal
  BY <1>6, ReturnFinalKeeps
<1>7. CASE UNCHANGED vars
  <2>1. IInv = IInv'
    BY <1>7 DEF vars, IInv, TypeOK, PoisonInv, PositionTracked, OwedInv, CeilingHolds,
                TotalIsHeld, WidthKept
  <2> QED
    BY <2>1
<1> QED
  BY <1>1, <1>2, <1>3, <1>4, <1>5, <1>6, <1>7 DEF Next

\* The inductive invariant: type correctness, an outcome for a poisoned decoder
\* only, and the position, the debt, the ceiling, the total and the width of
\* the properties below, together.
THEOREM Invariance == Spec => []IInv
<1> QED
  BY Starts, Preserved, PTL DEF Spec

-----------------------------------------------------------------------------
(* What follows for the properties.                                         *)

\* Type correctness, the total within a usize included.
THEOREM TypeCorrect == Spec => []TypeOK
<1>1. IInv => TypeOK
  BY DEF IInv
<1> QED
  BY <1>1, Invariance, PTL

\* The position the decoder keeps is the position the backend is at, so the
\* stripped trailer is fed exactly when octets of a stream came before it.
THEOREM PositionIsTracked == Spec => []PositionTracked
<1>1. IInv => PositionTracked
  BY DEF IInv
<1> QED
  BY <1>1, Invariance, PTL

\* No call holds more than its ceiling, whatever the input expands to, and the
\* size of the error is what its doc can mean.
THEOREM CeilingIsHeld == Spec => []CeilingHolds
<1>1. IInv => CeilingHolds
  BY DEF IInv
<1> QED
  BY <1>1, Invariance, PTL

\* A call that returned got everything out of the backend.
THEOREM NothingIsOwed == Spec => []NothingOwed
<1>1. IInv => NothingOwed
  BY DEF IInv, OwedInv, NothingOwed
<1> QED
  BY <1>1, Invariance, PTL

\* The running total is what the host holds of the message, saturated.
THEOREM TotalIsCounted == Spec => []TotalIsHeld
<1>1. IInv => TotalIsHeld
  BY DEF IInv
<1> QED
  BY <1>1, Invariance, PTL

\* The negotiated window survives every way of starting over.
THEOREM WidthIsKept == Spec => []WidthKept
<1>1. IInv => WidthKept
  BY DEF IInv
<1> QED
  BY <1>1, Invariance, PTL

\* Agreed no-context-takeover starts every message with no history.
THEOREM MessagesShareNoHistory == Spec => NoHistoryAcrossMessages
<1> DEFINE Fresh == reset_between_messages /\ call.phase = "closed"
                      /\ call'.phase = "idle" /\ ~poisoned' =>
                        inflater'.hist = <<>> /\ ~stream_open'
<1>1. IInv /\ [Next]_vars => [Fresh]_vars
  <2> SUFFICES ASSUME IInv, Next, reset_between_messages, call.phase = "closed",
                      call'.phase = "idle", ~poisoned'
               PROVE  inflater'.hist = <<>> /\ ~stream_open'
    OBVIOUS
  <2>1. ReturnFinal
    BY DEF Next, DecompressPoisoned, Decompress, InflateStep, FeedTrailer, ReturnNonFinal
  <2>2. inflater' = reinitialised /\ stream_open' = FALSE
    BY <2>1 DEF ReturnFinal, Fail
  <2> QED
    BY <2>2, Reinitialised DEF IInv, TypeOK, Widths
<1> QED
  BY <1>1, Invariance, PTL DEF Spec, NoHistoryAcrossMessages

\* A decoder that failed stays failed: no later call succeeds, moves the
\* backend or hands the host an octet.
THEOREM ErrorsEndTheDecoder == Spec => ErrorsAreTerminal
<1> DEFINE Terminal == result.is # "Ok" => result'.is # "Ok" /\ UNCHANGED <<inflater, held>>
<1>1. IInv /\ [Next]_vars => [Terminal]_vars
  <2> SUFFICES ASSUME IInv, Next, result.is # "Ok"
               PROVE  result'.is # "Ok" /\ UNCHANGED <<inflater, held>>
    OBVIOUS
  <2>1. poisoned /\ call.phase = "idle"
    BY DEF IInv, PoisonInv
  <2>2. DecompressPoisoned
    BY <2>1 DEF Next, Decompress, InflateStep, FeedTrailer, ReturnNonFinal, ReturnFinal
  <2> QED
    BY <2>2, ErrorTyped DEF DecompressPoisoned
<1> QED
  BY <1>1, Invariance, PTL DEF Spec, ErrorsAreTerminal

-----------------------------------------------------------------------------
(* The ceiling over all fragments.                                          *)

\* With no ceiling of usize::MAX no total ever saturates.
Below ==
  /\ ~poisoned => delivered < UsizeMax
  /\ call.phase # "idle" => call.limit < UsizeMax

LEMMA BelowPreserved ==
  ASSUME UsizeMax \notin Limits, IInv, Below, [Next]_vars
  PROVE  Below'
<1>1. /\ UsizeMax \in Nat \ {0} /\ delivered \in Nat /\ call.limit \in Nat
      /\ call \in [phase : {"idle", "payload", "fed", "trailer", "closed"},
                   input : Seq(Units(Octet)), final : BOOLEAN, limit : 0..UsizeMax,
                   out : Seq(Octet), ended : BOOLEAN, turn : {0, 1}]
  BY LimitAssumption DEF IInv, TypeOK
<1>2. CASE DecompressPoisoned
  BY <1>2 DEF DecompressPoisoned, Below
<1>3. ASSUME NEW input \in Inputs, NEW final \in BOOLEAN, NEW limit \in Limits,
             Decompress(input, final, limit)
      PROVE  Below'
  <2>1. limit < UsizeMax
    BY <1>1, LimitAssumption
  <2> QED
    BY <1>3, <2>1 DEF Decompress, Below, Idle
<1>4. ASSUME NEW error, Fail(error) PROVE Below'
  BY <1>4 DEF Fail, Below, Idle
<1>5. CASE InflateStep
  <2>1. \/ \E error : Fail(error)
        \/ \E o : /\ call' = [call EXCEPT !.phase = NextPhase(o), !.input = o.input,
                                          !.out = call.out \o o.produced,
                                          !.ended = @ \/ o.ended, !.turn = 1 - @]
                  /\ UNCHANGED <<delivered, poisoned>>
    BY <1>5 DEF InflateStep
  <2>2. ASSUME NEW o, UNCHANGED <<delivered, poisoned>>,
               call' = [call EXCEPT !.phase = NextPhase(o), !.input = o.input,
                                    !.out = call.out \o o.produced,
                                    !.ended = @ \/ o.ended, !.turn = 1 - @]
        PROVE  Below'
    <3>1. call'.limit = call.limit /\ call.phase # "idle"
      BY <2>2, <1>1, <1>5 DEF InflateStep
    <3> QED
      BY <3>1, <2>2 DEF Below
  <2> QED
    BY <2>1, <2>2, <1>4
<1>6. CASE FeedTrailer
  <2>1. CASE stream_open
    <3>1. call'.limit = call.limit /\ call.phase # "idle" /\ UNCHANGED <<delivered, poisoned>>
      BY <2>1, <1>1, <1>6 DEF FeedTrailer
    <3> QED
      BY <3>1 DEF Below
  <2> QED
    BY <2>1, <1>4, <1>6 DEF FeedTrailer
<1>7. CASE ReturnNonFinal
  <2>1. /\ delivered' = saturating_add(delivered, Len(call.out)) /\ call' = Idle
        /\ call.limit < UsizeMax /\ delivered < UsizeMax
    BY <1>7 DEF ReturnNonFinal, Below, IInv, PoisonInv
  <2>2. delivered' <= Larger(call.limit, delivered) /\ delivered' \in Nat
    <3>1. call.out \in Seq(Octet)
      BY DEF IInv, TypeOK
    <3>2. delivered' \in 0..UsizeMax
      BY <2>1, <3>1, <1>1, LenIsNat, Saturates, Zenon
    <3> QED
      BY <3>2, <2>1, <1>1, <1>7 DEF ReturnNonFinal, IInv, CeilingHolds
  <2>3. delivered' < UsizeMax
    BY <1>1, <2>1, <2>2 DEF Larger
  <2> QED
    BY <2>1, <2>3 DEF Below, Idle
<1>8. CASE ReturnFinal
  <2>1. CASE ~call.ended
    BY <2>1, <1>1, <1>8 DEF ReturnFinal, Below, Idle
  <2> QED
    BY <2>1, <1>4, <1>8 DEF ReturnFinal
<1>9. CASE UNCHANGED vars
  BY <1>9 DEF vars, Below
<1> QED
  BY <1>2, <1>3, <1>5, <1>6, <1>7, <1>8, <1>9 DEF Next

\* The doc of DecompressedLimit is wrong at that one value alone: with any
\* other ceilings no fragment takes a message past the larger of the ceiling
\* and what the host already held.
THEOREM BoundedBelowTheWidest ==
  ASSUME UsizeMax \notin Limits
  PROVE  Spec => []NoUnboundedSpelling
<1>1. Init => Below
  BY LimitAssumption DEF Init, Below, Idle
<1>2. IInv /\ Below /\ [Next]_vars => Below'
  BY BelowPreserved
<1>3. IInv /\ Below => NoUnboundedSpelling
  <2> SUFFICES ASSUME IInv, Below, call.phase # "idle"
               PROVE  Len(held) + Len(call.out) <= Larger(call.limit, Len(held))
    BY DEF NoUnboundedSpelling
  <2> DEFINE h == Len(held)
             n == Len(call.out)
  <2>1. ~poisoned /\ delivered < UsizeMax /\ call.limit < UsizeMax
    BY DEF IInv, PoisonInv, Below
  <2>2. /\ h \in Nat /\ n \in Nat /\ call.limit \in 0..UsizeMax
        /\ delivered = Smaller(h, UsizeMax) /\ UsizeMax \in Nat
    <3>1. held \in Seq(Octet) /\ call.out \in Seq(Octet) /\ call.limit \in 0..UsizeMax
      BY DEF IInv, TypeOK
    <3>2. delivered = Smaller(h, UsizeMax)
      BY <2>1 DEF IInv, TotalIsHeld
    <3> QED
      BY <3>1, <3>2, LenIsNat, UsizeIsNat, Zenon
  <2>3. saturating_add(delivered, n) <= Larger(call.limit, delivered)
    BY DEF IInv, CeilingHolds
  <2> HIDE DEF h, n
  <2>4. h + n <= Larger(call.limit, h)
    BY <2>1, <2>2, <2>3 DEF saturating_add, Smaller, Larger
  <2> QED
    BY <2>4 DEF h, n
<1> QED
  BY <1>1, <1>2, <1>3, Invariance, PTL DEF Spec
-----------------------------------------------------------------------------
(* For the module that hands the decoder what an encoder made (Link).       *)

\* Sequences put together again.
LEMMA FrontBack ==
  ASSUME NEW S, NEW s \in Seq(S), NEW n \in 0..Len(s)
  PROVE  Front(s, n) \o Back(s, n) = s
<1>1. /\ Front(s, n) \in Seq(S) /\ Len(Front(s, n)) = n
      /\ Back(s, n) \in Seq(S) /\ Len(Back(s, n)) = Len(s) - n
      /\ \A i \in 1..n : Front(s, n)[i] = s[i]
      /\ \A i \in 1..(Len(s) - n) : Back(s, n)[i] = s[n + i]
  BY SMTT(60) DEF Front, Back
<1> DEFINE f == Front(s, n)
           b == Back(s, n)
<1> HIDE DEF f, b
<1>2. /\ f \in Seq(S) /\ Len(f) = n /\ b \in Seq(S) /\ Len(b) = Len(s) - n
      /\ \A i \in 1..n : f[i] = s[i]
      /\ \A i \in 1..(Len(s) - n) : b[i] = s[n + i]
  BY <1>1 DEF f, b
<1>3. f \o b \in Seq(S) /\ Len(f \o b) = Len(s)
      /\ \A i \in 1..Len(s) : (f \o b)[i] = s[i]
  <2>1. Len(s) \in Nat /\ n \in Nat /\ n <= Len(s)
    OBVIOUS
  <2>2. /\ f \o b \in Seq(S) /\ Len(f \o b) = Len(f) + Len(b)
        /\ \A i \in 1..Len(f) : (f \o b)[i] = f[i]
        /\ \A i \in (Len(f) + 1)..(Len(f) + Len(b)) : (f \o b)[i] = b[i - Len(f)]
    BY <1>2
  <2>3. Len(f \o b) = Len(s)
    BY <1>2, <2>1, <2>2
  <2>4. ASSUME NEW i \in 1..Len(s) PROVE (f \o b)[i] = s[i]
    <3>1. CASE i <= n
      BY <3>1, <1>2, <2>1, <2>2
    <3>2. CASE ~(i <= n)
      <4>1. /\ i \in (Len(f) + 1)..(Len(f) + Len(b)) /\ i - Len(f) = i - n
            /\ i - n \in 1..(Len(s) - n) /\ n + (i - n) = i
        BY <3>2, <1>2, <2>1
      <4>2. (f \o b)[i] = b[i - n]
        BY <4>1, <2>2
      <4> QED
        BY <4>1, <4>2, <1>2
    <3> QED
      BY <3>1, <3>2
  <2> QED
    BY <2>2, <2>3, <2>4
<1> DEFINE whole == f \o b
<1>4. whole \in Seq(S) /\ Len(whole) = Len(s) /\ \A i \in 1..Len(s) : whole[i] = s[i]
  BY <1>3
<1> HIDE DEF whole
<1>5. whole = s
  BY <1>4
<1> QED
  BY <1>5 DEF whole, f, b

LEMMA HeadTail ==
  ASSUME NEW S, NEW s \in Seq(S), s # <<>>
  PROVE  /\ Head(s) \in S /\ Tail(s) \in Seq(S) /\ Head(s) = s[1]
         /\ <<s[1]>> \o Tail(s) = s
  OBVIOUS

LEMMA Regroup ==
  ASSUME NEW S, NEW s \in Seq(S), NEW t \in Seq(S), NEW u \in Seq(S)
  PROVE  (s \o t) \o u = s \o (t \o u)
  OBVIOUS

\* The same in the form of a function, which the provers can match.
Cat(s, t) == s \o t

LEMMA CatIsSeq ==
  ASSUME NEW S, NEW s \in Seq(S), NEW t \in Seq(S)
  PROVE  Cat(s, t) \in Seq(S)
  BY DEF Cat

LEMMA CatRegroups ==
  ASSUME NEW S, NEW s \in Seq(S), NEW t \in Seq(S), NEW u \in Seq(S)
  PROVE  Cat(Cat(s, t), u) = Cat(s, Cat(t, u))
  BY DEF Cat

\* Where a conforming stream leaves an inflater, and what may come next in it.
Sound == {"start", "boundary", "open", "header"}

After(kind) ==
  IF kind = "data" THEN "open" ELSE IF kind = "hdr" THEN "header" ELSE "boundary"

Follows(inf, u, reach) ==
  /\ inf.mode \in Sound /\ u.kind \in {"data", "hdr", "trl"}
  /\ IF u.kind = "data"
     THEN /\ inf.mode \in {"start", "boundary"} /\ u.text # <<>>
          /\ u.dist <= reach /\ u.dist <= Len(inf.hist)
          /\ u.dist # 0 => At(inf.hist, u.dist) = u.text[1]
     ELSE u.text = <<>> /\ inf.mode \in (IF u.kind = "hdr" THEN Sound \ {"header"} ELSE {"header"})

\* The backend has one way of taking such a unit, whichever window it enforces.
LEMMA FollowingTaken ==
  ASSUME NEW inf \in States, NEW u \in Units(Octet), Follows(inf, u, Reach(inf.window_bits))
  PROVE  Accepted(inf, u) =
           {Moves(After(u.kind), [mode |-> inf.mode, hist |-> inf.hist], u.text)}
<1> DEFINE was == [mode |-> inf.mode, hist |-> inf.hist]
<1>1. was.mode = inf.mode /\ was.hist = inf.hist
  OBVIOUS
<1>2. inf.window_bits \in Int /\ inf.window_bits <= DEFAULT_INFLATER_WINDOW_BITS
      /\ u.text \in Seq(Octet) /\ u.dist \in Nat
  BY DEF States, Widths, DEFAULT_INFLATER_WINDOW_BITS, MIN_INFLATER_WINDOW_BITS, Units
<1> HIDE DEF was
<1>3. ASSUME NEW reach \in Enforced(inf)
      PROVE  Accept(was, u, reach) = {Moves(After(u.kind), was, u.text)}
  <2>1. CASE u.kind = "data"
    <3>1. u.dist <= reach
      BY <2>1, <1>2
         DEF Enforced, Follows, Reach, DEFAULT_INFLATER_WINDOW_BITS
    <3>2. Reaches(was, u, reach) /\ BlockMayBegin(was) /\ was.mode # "lost"
      BY <2>1, <3>1, <1>1 DEF Follows, Reaches, BlockMayBegin
    <3>3. Copied(was, u) = u.text
      <4>1. u.text # <<>> /\ (u.dist # 0 => At(was.hist, u.dist) = u.text[1])
        BY <2>1, <1>1 DEF Follows
      <4>2. <<u.text[1]>> \o Tail(u.text) = u.text
        BY <4>1, <1>2, HeadTail
      <4> QED
        BY <4>1, <4>2 DEF Copied
    <3> QED
      BY <2>1, <3>2, <3>3 DEF Accept, After
  <2>2. CASE u.kind = "hdr"
    BY <2>2, <1>1 DEF Follows, Sound, Accept, BlockMayBegin, After
  <2>3. CASE u.kind = "trl"
    BY <2>3, <1>1 DEF Follows, Sound, Accept, BlockMayBegin, After
  <2> QED
    BY <2>1, <2>2, <2>3 DEF Follows
<1>4. Enforced(inf) # {}
  BY DEF Enforced
<1>5. Accepted(inf, u) = UNION {Accept(was, u, reach) : reach \in Enforced(inf)}
  BY DEF Accepted, was
<1>6. Accepted(inf, u) = {Moves(After(u.kind), was, u.text)}
  BY <1>3, <1>4, <1>5
<1> QED
  BY <1>6 DEF was

\* What comes out of a call of the backend and what is owed after it are what
\* was owed, in two.
Divided(o, next, owed, taken, input) ==
  /\ o.produced \in Seq(Octet) /\ o.inf.owed \in Seq(Octet)
  /\ o.produced \o o.inf.owed = owed
  /\ ~o.ended /\ o.consumed = taken /\ o.input = input
  /\ o.inf.mode = next.mode /\ o.inf.hist = next.hist

LEMMA ProgressDivides ==
  ASSUME NEW next \in States, NEW owed \in Seq(Octet), NEW n \in 0..Len(owed),
         NEW taken, NEW input
  PROVE  Divided(Progress(next, owed, n, taken, input, FALSE), next, owed, taken, input)
<1> DEFINE back == Back(owed, n)
           front == Front(owed, n)
           o == Progress(next, owed, n, taken, input, FALSE)
<1>1. front \in Seq(Octet) /\ back \in Seq(Octet) /\ front \o back = owed
  BY SplitSeq, FrontBack
<1>2. /\ o.inf = Owing(next, back) /\ o.produced = front
      /\ o.consumed = taken /\ o.input = input /\ ~o.ended
  BY DEF Progress, Owing
<1> HIDE DEF back, front, o
<1>3. Owing(next, back).owed = back /\ Owing(next, back).mode = next.mode
      /\ Owing(next, back).hist = next.hist
  BY <1>1 DEF Owing, States
<1>4. Divided(o, next, owed, taken, input)
  BY <1>1, <1>2, <1>3 DEF Divided
<1> QED
  BY <1>4 DEF o

\* A call that takes the unit in front, or none.
Conforming(o, inf, input) ==
  /\ ~o.ended /\ o.produced \in Seq(Octet) /\ o.inf.owed \in Seq(Octet)
  /\ \/ /\ ~o.consumed /\ o.input = input
        /\ o.inf.mode = inf.mode /\ o.inf.hist = inf.hist
        /\ o.produced \o o.inf.owed = inf.owed
     \/ /\ o.consumed /\ input # <<>> /\ o.input = Tail(input)
        /\ o.inf.mode = After(Head(input).kind)
        /\ o.inf.hist = inf.hist \o Head(input).text
        /\ o.produced \o o.inf.owed = inf.owed \o Head(input).text

LEMMA ConformingBackend ==
  ASSUME NEW inf \in States, NEW input \in Seq(Units(Octet)), NEW room \in Nat,
         NEW o \in Backend(inf, input, room), inf.mode \in Sound,
         input # <<>> => Follows(inf, Head(input), Reach(inf.window_bits))
  PROVE  Conforming(o, inf, input)
<1>1. inf.owed \in Seq(Octet) /\ Len(inf.owed) \in Nat /\ inf.hist \in Seq(Octet)
  BY DEF States
<1>2. (inf.mode = "done") = FALSE
  BY DEF Sound
<1>3. ASSUME o \in Writes(inf, input, room) \/ o \in Idles(inf, input, room)
      PROVE  Divided(o, inf, inf.owed, FALSE, input)
  <2>1. ASSUME o \in Writes(inf, input, room)
        PROVE  \E n \in 0..Len(inf.owed) : o = Progress(inf, inf.owed, n, FALSE, input, FALSE)
    <3>1. PICK n \in 1..Smaller(room, Len(inf.owed)) :
            o = Progress(inf, inf.owed, n, FALSE, input, FALSE)
      BY <2>1, <1>2 DEF Writes
    <3>2. n \in 0..Len(inf.owed)
      BY <3>1, <1>1 DEF Smaller
    <3> QED
      BY <3>1, <3>2
  <2>2. ASSUME o \in Idles(inf, input, room)
        PROVE  \E n \in 0..Len(inf.owed) : o = Progress(inf, inf.owed, n, FALSE, input, FALSE)
    <3>1. o = Progress(inf, inf.owed, 0, FALSE, input, FALSE)
      BY <2>2, <1>2 DEF Idles
    <3>2. 0 \in 0..Len(inf.owed)
      BY <1>1
    <3> QED
      BY <3>1, <3>2
  <2>3. PICK n \in 0..Len(inf.owed) : o = Progress(inf, inf.owed, n, FALSE, input, FALSE)
    BY <2>1, <2>2, <1>3
  <2> QED
    BY <2>3, <1>1, ProgressDivides
<1>4. ASSUME o \in Takes(inf, input, room)
      PROVE  /\ input # <<>>
             /\ \E next : /\ next.mode = After(Head(input).kind)
                          /\ next.hist = inf.hist \o Head(input).text
                          /\ Divided(o, next, inf.owed \o Head(input).text, TRUE, Tail(input))
  <2> DEFINE u == Head(input)
             rest == Tail(input)
             was == [mode |-> inf.mode, hist |-> inf.hist]
             a == Moves(After(u.kind), was, u.text)
  <2>1. /\ input # <<>>
        /\ \E b \in Accepted(inf, u) : o \in Portions(inf, input, room, b)
    BY <1>4 DEF Takes
  <2>2. u \in Units(Octet) /\ Follows(inf, u, Reach(inf.window_bits))
    BY <2>1, HeadTail
  <2>3. u.text \in Seq(Octet)
    BY <2>2 DEF Units
  <2>4. rest \in Seq(Units(Octet)) /\ <<>> \o rest = rest
    BY <2>1
  <2> HIDE DEF u, rest
  <2>5. o \in Portions(inf, input, room, a)
    BY <2>1, <2>2, FollowingTaken
  <2>6. /\ a.inf.mode = After(u.kind) /\ a.inf.hist = inf.hist \o u.text
        /\ a.text = u.text /\ a.ended = FALSE /\ a.left = <<>>
    BY DEF Moves, Taken
  <2> HIDE DEF a
  <2> DEFINE owed == inf.owed \o u.text
             hist == inf.hist \o u.text
             next == Standing(inf, After(u.kind), hist)
  <2>7. \E n \in Len(inf.owed)..Smaller(room, Len(owed)) :
          o = Progress(next, owed, n, TRUE, rest, FALSE)
    BY <2>4, <2>5, <2>6 DEF Portions, Standing, rest
  <2>8. owed \in Seq(Octet) /\ hist \in Seq(Octet) /\ Len(owed) \in Nat
    BY <1>1, <2>3, JoinSeq, LenIsNat, Zenon
  <2> HIDE DEF owed, hist
  <2>9. After(u.kind) \in Modes
    BY DEF After, Modes
  <2>10. next \in States /\ next.mode = After(u.kind) /\ next.hist = hist
    <3>1. next \in States /\ next.mode = After(u.kind)
      BY <2>8, <2>9, StandingState
    <3>2. next.hist = hist
      BY DEF Standing, States
    <3> QED
      BY <3>1, <3>2
  <2> HIDE DEF next
  <2>11. PICK n \in Len(inf.owed)..Smaller(room, Len(owed)) :
           o = Progress(next, owed, n, TRUE, rest, FALSE)
    BY <2>7
  <2>12. n \in 0..Len(owed)
    BY <2>8, <2>11, <1>1 DEF Smaller
  <2>13. Divided(o, next, owed, TRUE, rest)
    BY <2>8, <2>10, <2>11, <2>12, ProgressDivides
  <2> QED
    BY <2>1, <2>10, <2>13 DEF owed, hist, u, rest
<1>5. o \in Writes(inf, input, room) \/ o \in Idles(inf, input, room) \/ o \in Takes(inf, input, room)
  BY DEF Backend
<1>6. CASE o \in Takes(inf, input, room)
  <2> HIDE DEF After
  <2>1. PICK next : /\ next.mode = After(Head(input).kind)
                    /\ next.hist = inf.hist \o Head(input).text
                    /\ Divided(o, next, inf.owed \o Head(input).text, TRUE, Tail(input))
    BY <1>4, <1>6
  <2> QED
    BY <2>1, <1>4, <1>6 DEF Divided, Conforming
<1>7. CASE o \notin Takes(inf, input, room)
  BY <1>3, <1>5, <1>7 DEF Divided, Conforming
<1> QED
  BY <1>6, <1>7

\* All the text a message has come to, handed out or not.
Yielded == held \o call.out \o inflater.owed

\* A turn over a conforming stream stalls, passes the ceiling, or takes at most
\* the one unit in front; it never finds the stream invalid.
LEMMA ConformingTurn ==
  ASSUME IInv, InflateStep, inflater.mode \in Sound,
         call.input # <<>> => Follows(inflater, Head(call.input), Reach(config))
  PROVE  \/ Fail(Error("Stalled"))
         \/ \E size : /\ Fail(MessageTooLong(size, call.limit))
                      /\ \/ Len(Yielded) > call.limit
                         \/ /\ call.input # <<>>
                            /\ Len(Yielded \o Head(call.input).text) > call.limit
         \/ /\ UNCHANGED <<config, reset_between_messages, delivered, poisoned, result,
                           held, calls>>
            /\ call'.final = call.final /\ call'.limit = call.limit
            /\ call'.ended = call.ended
            /\ \/ /\ call'.input = call.input /\ Yielded' = Yielded
                  /\ inflater'.mode = inflater.mode /\ inflater'.hist = inflater.hist
               \/ /\ call.input # <<>> /\ call'.input = Tail(call.input)
                  /\ Yielded' = Yielded \o Head(call.input).text
                  /\ inflater'.mode = After(Head(call.input).kind)
                  /\ inflater'.hist = inflater.hist \o Head(call.input).text
            /\ \/ call'.phase = call.phase
               \/ /\ call'.input = <<>> /\ call.input = <<>>
                  /\ call'.phase = IF call.phase = "payload" THEN "fed" ELSE "closed"
<1>1. /\ inflater \in States /\ inflater.window_bits = config
      /\ call.input \in Seq(Units(Octet)) /\ call.out \in Seq(Octet)
      /\ call.limit \in 0..UsizeMax /\ delivered \in 0..UsizeMax
      /\ writable \in Nat /\ held \in Seq(Octet) /\ inflater.owed \in Seq(Octet)
      /\ call.ended \in BOOLEAN /\ ~poisoned
      /\ call.phase \in {"payload", "trailer"}
  BY Room DEF InflateStep, IInv, TypeOK, PoisonInv, WidthKept, States, Widths
<1> DEFINE Turn(o) ==
       LET out  == call.out \o o.produced
           size == saturating_add(delivered, Len(out))
       IN IF o.inf.mode = "error"
          THEN Fail(Error("InvalidStream")) /\ UNCHANGED <<inflater, stream_open>>
          ELSE IF Stalled(o)
          THEN Fail(Error("Stalled")) /\ UNCHANGED <<inflater, stream_open>>
          ELSE IF size > call.limit
          THEN Fail(MessageTooLong(size, call.limit))
               /\ inflater' = o.inf /\ UNCHANGED stream_open
          ELSE /\ Position(o)
               /\ call' = [call EXCEPT !.phase = NextPhase(o), !.input = o.input,
                                       !.out = out, !.ended = @ \/ o.ended,
                                       !.turn = 1 - @]
               /\ UNCHANGED <<config, reset_between_messages, delivered, poisoned,
                              result, held, calls>>
<1>2. \E o \in Backend(inflater, call.input, writable) : Turn(o)
  BY DEF InflateStep
<1> HIDE DEF Turn
<1>3. PICK o \in Backend(inflater, call.input, writable) : Turn(o)
  BY <1>2
<1>4. Conforming(o, inflater, call.input)
  <2> DEFINE inf == inflater
             input == call.input
             room == writable
  <2>1. /\ inf \in States /\ input \in Seq(Units(Octet)) /\ room \in Nat
        /\ o \in Backend(inf, input, room) /\ inf.mode \in Sound
        /\ input # <<>> => Follows(inf, Head(input), Reach(inf.window_bits))
    BY <1>1, <1>3
  <2> HIDE DEF inf, input, room
  <2>2. Conforming(o, inf, input)
    BY <2>1, ConformingBackend, SMTT(60)
  <2> QED
    BY <2>2 DEF inf, input
<1> DEFINE u == Head(call.input)
           out == call.out \o o.produced
<1>5. /\ ~o.ended /\ o.produced \in Seq(Octet) /\ o.inf.owed \in Seq(Octet)
      /\ \/ /\ ~o.consumed /\ o.input = call.input
            /\ o.inf.mode = inflater.mode /\ o.inf.hist = inflater.hist
            /\ o.produced \o o.inf.owed = inflater.owed
         \/ /\ o.consumed /\ call.input # <<>> /\ o.input = Tail(call.input)
            /\ o.inf.mode = After(u.kind) /\ o.inf.hist = inflater.hist \o u.text
            /\ o.produced \o o.inf.owed = inflater.owed \o u.text
      /\ o.inf.mode # "error"
  BY <1>4 DEF Conforming, Sound, After
<1>6. call.input # <<>> => u.text \in Seq(Octet)
  <2>1. call.input # <<>> => u \in Units(Octet)
    BY <1>1, HeadTail
  <2> QED
    BY <2>1 DEF Units
<1> HIDE DEF u
<1>7. /\ out \in Seq(Octet) /\ held \o out \in Seq(Octet)
      /\ Len(held \o out) = Len(held) + Len(out)
      /\ Len(held) \in Nat /\ Len(out) \in Nat
  BY <1>1, <1>5, JoinSeq, LenIsNat, ZenonT(60)
<1>8. (held \o out) \o o.inf.owed = IF o.consumed THEN Yielded \o u.text ELSE Yielded
  <2> DEFINE pq == Cat(held, call.out)
             r == o.produced
             s == o.inf.owed
             t == inflater.owed
             v == u.text
  <2>1. held \in Seq(Octet) /\ call.out \in Seq(Octet) /\ r \in Seq(Octet)
    BY <1>1, <1>5
  <2>2. s \in Seq(Octet)
    BY <1>5
  <2>3. t \in Seq(Octet) /\ (o.consumed => v \in Seq(Octet))
    BY <1>1, <1>5, <1>6
  <2>4. IF o.consumed THEN Cat(r, s) = Cat(t, v) ELSE Cat(r, s) = t
    BY <1>5 DEF Cat
  <2> HIDE DEF r, s, t, v
  <2>5. Cat(held, Cat(call.out, r)) = Cat(pq, r)
    BY <2>1, CatRegroups
  <2>6. pq \in Seq(Octet)
    BY <2>1, CatIsSeq, Zenon
  <2> HIDE DEF pq
  <2>7. Cat(Cat(pq, r), s) = Cat(pq, Cat(r, s))
    <3>1. r \in Seq(Octet)
      BY <2>1
    <3> QED
      BY <3>1, <2>2, <2>6, CatRegroups
  <2>8. o.consumed => Cat(Cat(pq, t), v) = Cat(pq, Cat(t, v))
    BY <2>3, <2>6, CatRegroups
  <2>9. Cat(Cat(held, Cat(call.out, r)), s) = IF o.consumed THEN Cat(Cat(pq, t), v) ELSE Cat(pq, t)
    BY <2>4, <2>5, <2>7, <2>8
  <2> QED
    BY <2>9 DEF Cat, Yielded, pq, r, s, t, v
<1> HIDE DEF out
<1>9. CASE Stalled(o)
  BY <1>9, <1>3, <1>5 DEF Turn
<1> DEFINE size == saturating_add(delivered, Len(out))
<1>10. CASE ~Stalled(o) /\ size > call.limit
  <2>1. Fail(MessageTooLong(size, call.limit))
    BY <1>10, <1>3, <1>5 DEF Turn, out
  <2>2. size <= Len(held \o out) /\ size \in Nat
    <3> DEFINE h == Len(held)
               n == Len(out)
               both == Len(held \o out)
    <3>1. delivered = Smaller(h, UsizeMax)
      BY <1>1 DEF IInv, TotalIsHeld
    <3>2. h \in Nat /\ n \in Nat /\ both = h + n /\ UsizeMax \in Nat
      BY <1>7, UsizeIsNat, Zenon
    <3> HIDE DEF h, n, both
    <3>3. saturating_add(delivered, n) <= both /\ saturating_add(delivered, n) \in Nat
      BY <3>1, <3>2 DEF saturating_add, Smaller
    <3> QED
      BY <3>3 DEF n, both
  <2> DEFINE whole == (held \o out) \o o.inf.owed
  <2>3. Len(whole) = Len(held \o out) + Len(o.inf.owed) /\ Len(o.inf.owed) \in Nat
        /\ Len(held \o out) \in Nat
    BY <1>5, <1>7, JoinSeq, LenIsNat, Zenon
  <2> DEFINE m == Len(whole)
             n == Len(held \o out)
             k == Len(o.inf.owed)
             limit == call.limit
  <2>4. size <= n /\ m = n + k /\ {size, n, k, limit} \subseteq Nat /\ size > limit
    BY <2>2, <2>3, <1>1, <1>10, UsizeIsNat, Zenon
  <2> HIDE DEF m, n, k, limit, whole, size
  <2>5. m > limit
    BY <2>4, SMTT(60)
  <2>6. \/ Len(Yielded) > limit
        \/ call.input # <<>> /\ Len(Yielded \o u.text) > limit
    BY <2>5, <1>5, <1>8 DEF whole, m
  <2> QED
    BY <2>1, <2>6 DEF u, limit
<1>11. CASE ~Stalled(o) /\ ~(size > call.limit)
  <2>1. /\ Position(o)
        /\ call' = [call EXCEPT !.phase = NextPhase(o), !.input = o.input,
                                !.out = out, !.ended = @ \/ o.ended, !.turn = 1 - @]
        /\ UNCHANGED <<config, reset_between_messages, delivered, poisoned,
                       result, held, calls>>
    BY <1>11, <1>3, <1>5 DEF Turn, out
  <2>2. inflater' = o.inf
    BY <2>1, <1>5 DEF Position
  <2> HIDE DEF size
  <2>3. /\ call'.phase = NextPhase(o) /\ call'.input = o.input /\ call'.out = out
        /\ call'.final = call.final /\ call'.limit = call.limit
        /\ call'.ended = (call.ended \/ o.ended)
    BY <2>1 DEF IInv, TypeOK
  <2>4. (call.ended \/ o.ended) = call.ended
    BY <1>1, <1>5
  <2>5. Yielded' = IF o.consumed THEN Yielded \o u.text ELSE Yielded
    <3>1. Yielded' = (held \o out) \o o.inf.owed
      BY <2>1, <2>2, <2>3 DEF Yielded
    <3> QED
      BY <3>1, <1>8
  <2>6. \/ call'.phase = call.phase
        \/ /\ call'.input = <<>> /\ call.input = <<>>
           /\ call'.phase = IF call.phase = "payload" THEN "fed" ELSE "closed"
    <3>1. Drained(o) => ~o.consumed /\ o.input = <<>>
      BY DEF Drained, Moved
    <3> QED
      BY <3>1, <2>3, <1>5 DEF NextPhase
  <2> QED
    BY <2>1, <2>2, <2>3, <2>4, <2>5, <2>6, <1>5, ZenonT(60) DEF u
<1> QED
  BY <1>9, <1>10, <1>11
=============================================================================
