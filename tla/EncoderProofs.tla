--------------------------- MODULE EncoderProofs ---------------------------
(***************************************************************************)
(* Proofs about Encoder, for every alphabet, payload set, window and bound. *)
(***************************************************************************)
EXTENDS Encoder, TLAPS

-----------------------------------------------------------------------------
(* The inductive invariant, part by part.                                   *)

\* The text a prepared guard has not put on the wire: its data, before the
\* first unit goes out.
Unsent == IF sent = 0 /\ guard.bytes # <<>> THEN guard.bytes[1].text ELSE <<>>

\* At most one data unit, in front; then headers and trailers in turn.
Framed(bytes) ==
  \A i \in 1..Len(bytes) :
    /\ bytes[i] \in Units(Octet)
    /\ bytes[i].kind \in {"data", "hdr", "trl"}
    /\ bytes[i].kind = "data" => i = 1
    /\ bytes[i].kind # "data" => bytes[i].text = <<>>
    /\ bytes[i].kind = "trl" <=> (i > 1 /\ bytes[i-1].kind = "hdr")

\* What ends the octets of each guard.
Ended(kind, bytes) ==
  /\ kind \in Closing => bytes # <<>>
  /\ bytes # <<>> => bytes[Len(bytes)].kind = IF kind \in Closing THEN "hdr" ELSE "trl"

\* A data unit refers to what `hist` holds.
Resolves(unit, hist) ==
  unit.kind = "data" =>
    /\ unit.text # <<>>
    /\ unit.dist \in 0..Window /\ unit.dist <= Len(hist)
    /\ unit.dist # 0 => At(hist, unit.dist) = unit.text[1]

AtBoundary == peer.inf.mode \in {"start", "boundary"}

\* Where the peer stands after a unit of each kind.
ModeAfter(kind) ==
  IF kind = "data" THEN "open" ELSE IF kind = "hdr" THEN "header" ELSE "boundary"

OneHolder ==
  /\ guard.kind = "none" => guard = NoGuard /\ sent = 0
  /\ guard.kind # "none" => compressor = None /\ guard.compressor \in Compressors(Octet)
  /\ guard.kind = "stream" => guard.bytes = <<>>

IdleInv ==
  compressor # None =>
    /\ peer.text = <<>> /\ message = <<>> /\ AtBoundary
    /\ IsSuffixOf(compressor.hist, peer.inf.hist)

StreamInv ==
  guard.kind = "stream" =>
    /\ peer.text = message /\ AtBoundary
    /\ IsSuffixOf(guard.compressor.hist, peer.inf.hist)

\* The message is complete on the wire, and the peer has ended it.
FinSent == guard.kind \in Closing /\ sent = Len(guard.bytes)

PreparedInv ==
  guard.kind \in Prepared =>
    /\ Framed(guard.bytes) /\ Ended(guard.kind, guard.bytes)
    /\ sent = 0 => /\ AtBoundary
                   /\ guard.bytes # <<>> => Resolves(guard.bytes[1], peer.inf.hist)
                   /\ guard.kind = "message" => peer.text = <<>>
    /\ (sent > 0 /\ ~FinSent) => peer.inf.mode = ModeAfter(guard.bytes[sent].kind)
    /\ ~FinSent => /\ peer.text \o Unsent = message
                   /\ IsSuffixOf(guard.compressor.hist, peer.inf.hist \o Unsent)
    /\ FinSent => /\ peer.text = <<>> /\ AtBoundary
                  /\ IF peer.resets THEN peer.inf.hist = <<>>
                     ELSE IsSuffixOf(guard.compressor.hist, peer.inf.hist)

IInv ==
  /\ TypeOK
  /\ PeerDecodes
  /\ MessagesArrive
  /\ peer.resets => reset_between_messages
  /\ OneHolder
  /\ IdleInv
  /\ StreamInv
  /\ PreparedInv

-----------------------------------------------------------------------------
(* The end of a history.                                                    *)

\* A reference within a suffix finds the same octet in the whole.
LEMMA SuffixAt ==
  ASSUME NEW S, NEW s \in Seq(S), NEW t \in Seq(S), IsSuffixOf(s, t),
         NEW d \in 1..Len(s)
  PROVE  d <= Len(t) /\ At(t, d) = At(s, d)
<1>1. Len(s) \in Nat /\ Len(t) \in Nat
  OBVIOUS
<1>2. Len(s) - d + 1 \in 1..Len(s)
  BY <1>1
<1>3. s[Len(s) - d + 1] = t[Len(t) - Len(s) + (Len(s) - d + 1)]
  BY <1>2 DEF IsSuffixOf
<1>4. Len(t) - Len(s) + (Len(s) - d + 1) = Len(t) - d + 1
  BY <1>1
<1> QED
  BY <1>1, <1>3, <1>4 DEF IsSuffixOf, At

\* Suffixes stay suffixes when both histories grow by the same text.
LEMMA SuffixGrows ==
  ASSUME NEW S, NEW s \in Seq(S), NEW t \in Seq(S), NEW p \in Seq(S),
         IsSuffixOf(s, t)
  PROVE  IsSuffixOf(s \o p, t \o p)
<1>1. /\ Len(s \o p) = Len(s) + Len(p)
      /\ Len(t \o p) = Len(t) + Len(p)
      /\ Len(s) <= Len(t)
  BY DEF IsSuffixOf
<1>2. ASSUME NEW i \in 1..Len(s \o p)
      PROVE  (s \o p)[i] = (t \o p)[Len(t \o p) - Len(s \o p) + i]
  <2>1. CASE i <= Len(s)
    <3>1. s[i] = t[Len(t) - Len(s) + i]
      BY <2>1, <1>1 DEF IsSuffixOf
    <3> QED
      BY <3>1, <2>1, <1>1
  <2>2. CASE i > Len(s)
    BY <2>2, <1>1
  <2> QED
    BY <2>1, <2>2, <1>1
<1> QED
  BY <1>1, <1>2 DEF IsSuffixOf

\* The empty history is a suffix of any, and every history one of itself.
LEMMA SuffixEmpty ==
  ASSUME NEW S, NEW t \in Seq(S)
  PROVE  IsSuffixOf(<<>>, t) /\ IsSuffixOf(t, t)
  BY DEF IsSuffixOf

\* Appending nothing.
LEMMA ConcatEmpty ==
  ASSUME NEW S, NEW s \in Seq(S)
  PROVE  s \o <<>> = s /\ <<>> \o s = s
  OBVIOUS

LEMMA ConcatAssoc ==
  ASSUME NEW S, NEW s \in Seq(S), NEW t \in Seq(S), NEW u \in Seq(S)
  PROVE  (s \o t) \o u = s \o (t \o u)
  OBVIOUS

-----------------------------------------------------------------------------
(* What the backend produces, and what the checks on it let through.        *)

LEMMA MarkUnits ==
  /\ Hdr \in Units(Octet) /\ Trl \in Units(Octet)
  /\ Hdr.kind = "hdr" /\ Trl.kind = "trl" /\ Hdr.text = <<>> /\ Trl.text = <<>>
  BY DEF Hdr, Trl, Mark, Units

\* An encoding of a payload refers only to what the compressor remembers.
LEMMA EncodingResolves ==
  ASSUME NEW c \in Compressors(Octet), NEW p \in Seq(Octet), p # <<>>,
         NEW u \in Encodings(c, p, Window)
  PROVE  u \in Units(Octet) /\ u.kind = "data" /\ u.text = p /\ Resolves(u, c.hist)
<1>1. PICK d \in {0} \cup {e \in 1..Window : e <= Len(c.hist) /\ At(c.hist, e) = p[1]} :
        u = Data(p, d)
  BY DEF Encodings
<1>2. c.hist \in Seq(Octet) /\ Len(c.hist) \in Nat
  BY DEF Compressors
<1>3. d \in 0..Window /\ d <= Len(c.hist)
  BY <1>1, <1>2, WindowAssumption
<1> QED
  BY <1>1, <1>3, WindowAssumption DEF Data, Units, Resolves

\* What resolves in a suffix resolves in the whole.
LEMMA SuffixResolves ==
  ASSUME NEW s \in Seq(Octet), NEW t \in Seq(Octet), IsSuffixOf(s, t),
         NEW u, Resolves(u, s)
  PROVE  Resolves(u, t)
<1> SUFFICES ASSUME u.kind = "data"
             PROVE  /\ u.dist <= Len(t)
                    /\ u.dist # 0 => At(t, u.dist) = u.text[1]
  BY DEF Resolves
<1>1. u.dist \in 0..Window /\ u.dist <= Len(s)
  BY DEF Resolves
<1>2. CASE u.dist = 0
  BY <1>2
<1>3. CASE u.dist # 0
  <2>1. u.dist \in 1..Len(s)
    BY <1>1, <1>3, WindowAssumption
  <2>2. u.dist <= Len(t) /\ At(t, u.dist) = At(s, u.dist)
    BY <2>1, SuffixAt
  <2> QED
    BY <2>2, <1>3 DEF Resolves
<1> QED
  BY <1>2, <1>3

\* The octets of a prepared guard, up to the data unit they may start with.
Chunk(bytes, payload, hist) ==
  bytes # <<>> =>
    /\ bytes[1].text = payload
    /\ Resolves(bytes[1], hist)

LEMMA FlushedFramed ==
  ASSUME NEW c \in Compressors(Octet), NEW p \in Seq(Octet),
         NEW out \in Flushed(c, p, Window)
  PROVE  /\ out \in Seq(Units(Octet)) /\ Framed(out) /\ Ended("nonfinal", out)
         /\ Chunk(out, p, c.hist)
         /\ p # <<>> => out # <<>>
         /\ out # <<>> => Len(out) > 1
<1>1. CASE p = <<>>
  <2>1. out \in {<<>>, <<Hdr, Trl>>}
    BY <1>1 DEF Flushed
  <2>2. CASE out = <<>>
    BY <2>2, <1>1 DEF Framed, Ended, Chunk, Closing
  <2>3. CASE out = <<Hdr, Trl>>
    BY <2>3, <1>1, MarkUnits DEF Framed, Ended, Chunk, Closing, Resolves
  <2> QED
    BY <2>1, <2>2, <2>3
<1>2. CASE p # <<>>
  <2>1. PICK u \in Encodings(c, p, Window) :
          out \in {<<u, Hdr, Trl>>, <<u, Hdr, Trl, Hdr, Trl>>}
    BY <1>2 DEF Flushed
  <2>2. u \in Units(Octet) /\ u.kind = "data" /\ u.text = p /\ Resolves(u, c.hist)
    BY <1>2, EncodingResolves
  <2>3. CASE out = <<u, Hdr, Trl>>
    BY <2>2, <2>3, MarkUnits DEF Framed, Ended, Chunk, Closing
  <2>4. CASE out = <<u, Hdr, Trl, Hdr, Trl>>
    BY <2>2, <2>4, MarkUnits DEF Framed, Ended, Chunk, Closing
  <2> QED
    BY <2>1, <2>3, <2>4
<1> QED
  BY <1>1, <1>2

\* An output without its flush never ends with a trailer.
LEMMA UnflushedCaught ==
  ASSUME NEW c \in Compressors(Octet), NEW p \in Seq(Octet),
         NEW out \in Unflushed(c, p, Window)
  PROVE  ~EndsWithTrailer(out) /\ ~(p = <<>> /\ out = <<>>)
<1>1. CASE p = <<>>
  <2>1. out = <<Hdr>> /\ Hdr # Trl
    BY <1>1, MarkUnits DEF Unflushed
  <2>2. Len(out) = 1 /\ out[1] = Hdr
    BY <2>1
  <2> QED
    BY <2>1, <2>2 DEF EndsWithTrailer
<1>2. CASE p # <<>> /\ out # <<>>
  <2>1. PICK u \in Encodings(c, p, Window) : out = <<u>>
    BY <1>2 DEF Unflushed
  <2> QED
    BY <2>1, <1>2, EncodingResolves, MarkUnits DEF EndsWithTrailer
<1>3. CASE p # <<>> /\ out = <<>>
  BY <1>3 DEF EndsWithTrailer
<1> QED
  BY <1>1, <1>2, <1>3

\* prepare_non_final_fragment: what it accepts ends in a trailer, or is nothing
\* for a chunk of nothing.
LEMMA NonFinalFramed ==
  ASSUME NEW c \in Compressors(Octet), NEW p \in Seq(Octet),
         NEW r \in produce_non_final(c, p)
  PROVE  /\ r.result \in {"Ok", "CompressionFailed", "Stalled"}
         /\ r.result = "Ok" =>
              /\ r.bytes \in Seq(Units(Octet)) /\ Framed(r.bytes)
              /\ Ended("nonfinal", r.bytes)
              /\ Chunk(r.bytes, p, c.hist)
              /\ p # <<>> => r.bytes # <<>>
<1>1. CASE r \in BackendFaults
  BY <1>1 DEF BackendFaults, Failed
<1>2. ASSUME NEW out \in produce_aligned(c, p), r = keep_aligned(p, out)
      PROVE  /\ r.result \in {"Ok", "CompressionFailed"}
             /\ r.result = "Ok" => r.bytes = out /\ out \in Flushed(c, p, Window)
  BY <1>2, UnflushedCaught DEF keep_aligned, produce_aligned, Ok, Failed
<1> QED
  BY <1>1, <1>2, FlushedFramed DEF produce_non_final

\* prepare_message and prepare_final_fragment: what they accept is never empty
\* and ends in the header whose trailer was stripped.
LEMMA CompleteFramed ==
  ASSUME NEW c \in Compressors(Octet), NEW p \in Seq(Octet),
         NEW r \in produce(c, p), NEW kind \in Closing
  PROVE  /\ r.result \in {"Ok", "CompressionFailed", "Stalled"}
         /\ r.result = "Ok" =>
              /\ r.bytes \in Seq(Units(Octet)) /\ Framed(r.bytes)
              /\ Ended(kind, r.bytes)
              /\ Chunk(r.bytes, p, c.hist)
              /\ r.bytes # <<>>
<1>1. CASE r \in BackendFaults
  BY <1>1 DEF BackendFaults, Failed
<1>2. ASSUME NEW out \in produce_aligned(c, p), r = strip_or_synthesize(p, out)
      PROVE  /\ r.result \in {"Ok", "CompressionFailed"}
             /\ r.result = "Ok" =>
                  /\ out \in Flushed(c, p, Window)
                  /\ \/ out # <<>> /\ r.bytes = SubSeq(out, 1, Len(out) - 1)
                     \/ out = <<>> /\ p = <<>> /\ r.bytes = <<Hdr>>
  BY <1>2, UnflushedCaught
     DEF strip_or_synthesize, produce_aligned, Ok, Failed, EndsWithTrailer
<1>3. ASSUME NEW out \in Flushed(c, p, Window), out # <<>>,
             r.bytes = SubSeq(out, 1, Len(out) - 1)
      PROVE  /\ r.bytes \in Seq(Units(Octet)) /\ Framed(r.bytes)
             /\ Ended(kind, r.bytes) /\ Chunk(r.bytes, p, c.hist) /\ r.bytes # <<>>
  <2>1. /\ out \in Seq(Units(Octet)) /\ Framed(out) /\ Ended("nonfinal", out)
        /\ Chunk(out, p, c.hist) /\ Len(out) > 1
    BY <1>3, FlushedFramed
  <2>2. /\ r.bytes \in Seq(Units(Octet)) /\ Len(r.bytes) = Len(out) - 1
        /\ \A i \in 1..Len(r.bytes) : r.bytes[i] = out[i]
    BY <1>3, <2>1
  <2>3. ASSUME NEW i \in 1..Len(r.bytes)
        PROVE  /\ i \in 1..Len(out) /\ r.bytes[i] = out[i]
               /\ i > 1 => r.bytes[i-1] = out[i-1]
    BY <2>1, <2>2
  <2>6. Framed(r.bytes)
    BY <2>1, <2>3, ZenonT(60) DEF Framed
  <2>4. out[Len(out)].kind = "trl" /\ out[Len(out) - 1].kind = "hdr"
    BY <2>1 DEF Ended, Framed, Closing
  <2>5. Ended(kind, r.bytes)
    BY <2>1, <2>2, <2>4, SMTT(60) DEF Ended, Closing
  <2> QED
    BY <2>1, <2>2, <2>5, <2>6 DEF Chunk
<1>4. ASSUME p = <<>>, r.bytes = <<Hdr>>
      PROVE  /\ r.bytes \in Seq(Units(Octet)) /\ Framed(r.bytes)
             /\ Ended(kind, r.bytes) /\ Chunk(r.bytes, p, c.hist) /\ r.bytes # <<>>
  BY <1>4, MarkUnits DEF Framed, Ended, Closing, Chunk, Resolves
<1> QED
  BY <1>1, <1>2, <1>3, <1>4 DEF produce

-----------------------------------------------------------------------------
(* How a conforming inflater takes each unit.                               *)

LEMMA TakesData ==
  ASSUME NEW inf \in Inflaters(Octet), NEW u \in Units(Octet), u.kind = "data",
         Resolves(u, inf.hist), BlockMayBegin(inf)
  PROVE  Accept(inf, u, PeerWindow) = {Moves("open", inf, u.text)}
<1>1. Reaches(inf, u, PeerWindow)
  BY WindowAssumption DEF Resolves, Reaches
<1>2. Copied(inf, u) = u.text
  BY DEF Copied, Resolves, Units
<1> QED
  BY <1>1, <1>2 DEF Accept, BlockMayBegin

LEMMA TakesHdr ==
  ASSUME NEW inf \in Inflaters(Octet), NEW u \in Units(Octet), u.kind = "hdr",
         BlockMayBegin(inf)
  PROVE  Accept(inf, u, PeerWindow) = {Moves("header", inf, <<>>)}
  BY DEF Accept, BlockMayBegin

LEMMA TakesTrl ==
  ASSUME NEW inf \in Inflaters(Octet), NEW u \in Units(Octet), u.kind = "trl",
         inf.mode = "header"
  PROVE  Accept(inf, u, PeerWindow) = {Moves("boundary", inf, <<>>)}
  BY DEF Accept, BlockMayBegin

-----------------------------------------------------------------------------
(* The invariant, one lemma per action that needs more than its definition. *)

LEMMA InitInv == Init => IInv
<1> SUFFICES ASSUME Init PROVE IInv
  OBVIOUS
<1>1. FreshCompress \in Compressors(Octet) /\ FreshInflate \in Inflaters(Octet)
  BY DEF FreshCompress, Compressors, FreshInflate, Inflaters, Modes
<1>2. compressor # None
  BY <1>1, NoneAssumption DEF Init
<1>3. TypeOK
  BY <1>1, CallsAssumption DEF Init, TypeOK, NoGuard, Prepared
<1>4. OneHolder
  BY DEF Init, OneHolder, NoGuard
<1>5. IdleInv
  BY DEF Init, IdleInv, AtBoundary, IsSuffixOf, FreshCompress, FreshInflate
<1>6. StreamInv /\ PreparedInv
  BY DEF Init, StreamInv, PreparedInv, NoGuard, Prepared
<1> QED
  BY <1>3, <1>4, <1>5, <1>6 DEF Init, IInv, PeerDecodes, MessagesArrive, FreshInflate

\* Every call that prepares octets, once it has a compressor whose history the
\* peer holds and a message the peer has decoded so far.
LEMMA PrepareInv ==
  ASSUME IInv, MayCall,
         NEW payload \in Payload, NEW c \in Compressors(Octet), NEW kind \in Prepared,
         NEW outcome,
         outcome.result \in {"Ok", "CompressionFailed", "Stalled"},
         outcome.result = "Ok" =>
           /\ outcome.bytes \in Seq(Units(Octet)) /\ Framed(outcome.bytes)
           /\ Ended(kind, outcome.bytes)
           /\ Chunk(outcome.bytes, payload, c.hist)
           /\ payload # <<>> => outcome.bytes # <<>>,
         peer.text = message, AtBoundary, IsSuffixOf(c.hist, peer.inf.hist),
         kind = "message" => peer.text = <<>>,
         Prepare(kind, c, payload, outcome)
  PROVE  IInv'
<1>1. /\ payload \in Seq(Octet) /\ c.hist \in Seq(Octet) /\ peer.inf.hist \in Seq(Octet)
      /\ message \in Seq(Octet)
  BY PayloadAssumption DEF Compressors, IInv, TypeOK, Inflaters
<1>2. Advanced(c, payload) \in Compressors(Octet) /\ Advanced(c, payload) # None
  <2>1. c.hist \o payload \in Seq(Octet)
    BY <1>1
  <2>2. Advanced(c, payload) \in Compressors(Octet)
    BY <2>1 DEF Advanced, Compressors
  <2> QED
    BY <2>2, NoneAssumption
<1>3. /\ compressor' = None /\ sent' = 0 /\ peer' = peer /\ message' = message \o payload
      /\ UNCHANGED <<reset_between_messages, outbox, inbox>>
  BY DEF Prepare
<1>4. calls' \in 0..MaxCalls
  BY CallsAssumption DEF MayCall, IInv, TypeOK
<1>5. CASE outcome.result # "Ok"
  <2>1. guard' = NoGuard /\ result' \in {"CompressionFailed", "Stalled"}
    BY <1>5 DEF Prepare
  <2>2. TypeOK'
    BY <2>1, <1>1, <1>3, <1>4 DEF TypeOK, IInv, NoGuard
  <2>3. OneHolder' /\ IdleInv' /\ StreamInv' /\ PreparedInv'
    BY <2>1, <1>3 DEF OneHolder, IdleInv, StreamInv, PreparedInv, NoGuard, Prepared
  <2> QED
    BY <2>2, <2>3, <1>3 DEF IInv, PeerDecodes, MessagesArrive
<1>6. CASE outcome.result = "Ok"
  <2>1. /\ guard' = Guard(kind, Advanced(c, payload), outcome.bytes) /\ result' = "Ok"
        /\ guard'.kind = kind /\ guard'.bytes = outcome.bytes
        /\ guard'.compressor = Advanced(c, payload)
    BY <1>6 DEF Prepare, Guard
  <2>2. TypeOK'
    BY <2>1, <1>1, <1>2, <1>3, <1>4, <1>6 DEF TypeOK, IInv, Guard
  <2>3. OneHolder' /\ IdleInv' /\ StreamInv'
    BY <2>1, <1>2, <1>3 DEF OneHolder, IdleInv, StreamInv, Prepared
  <2>4. Unsent' = payload
    BY <2>1, <1>3, <1>6 DEF Unsent, Chunk
  <2>5. ~FinSent'
    BY <2>1, <1>3, <1>6 DEF FinSent, Ended, Closing
  <2>6. IsSuffixOf(c.hist \o payload, peer.inf.hist \o payload)
    BY <1>1, SuffixGrows
  <2>7. outcome.bytes # <<>> => Resolves(outcome.bytes[1], peer.inf.hist)
    BY <1>1, <1>6, SuffixResolves DEF Chunk
  <2>8. /\ (peer.text \o Unsent)' = message'
        /\ IsSuffixOf(guard.compressor.hist, peer.inf.hist \o Unsent)'
    <3>0. Advanced(c, payload).hist = c.hist \o payload
      BY DEF Advanced
    <3>1. guard'.compressor.hist = c.hist \o payload
      BY <2>1, <3>0
    <3>2. (peer.text \o Unsent)' = peer.text \o payload
      BY <2>4, <1>3
    <3>3. (peer.inf.hist \o Unsent)' = peer.inf.hist \o payload
      BY <2>4, <1>3
    <3> QED
      BY <3>1, <3>2, <3>3, <2>6, <1>3
  <2>9. AtBoundary'
    BY <1>3 DEF AtBoundary
  <2>10. (Framed(guard.bytes) /\ Ended(guard.kind, guard.bytes))'
    BY <2>1, <1>6
  <2>11. PreparedInv'
    BY <2>1, <2>5, <2>7, <2>8, <2>9, <2>10, <1>3 DEF PreparedInv
  <2> QED
    BY <2>2, <2>3, <2>11, <1>3 DEF IInv, PeerDecodes, MessagesArrive
<1> QED
  BY <1>5, <1>6

\* A unit on the wire leaves the peer where the unit says, and yields its text.
LEMMA WriteAccepted ==
  ASSUME IInv, guard.kind \in Prepared, sent < Len(guard.bytes),
         NEW u, u = guard.bytes[sent + 1]
  PROVE  /\ u \in Units(Octet) /\ u.kind \in {"data", "hdr", "trl"}
         /\ u.text \in Seq(Octet) /\ u.text = Unsent
         /\ Accept(peer.inf, u, PeerWindow) = {Moves(ModeAfter(u.kind), peer.inf, u.text)}
<1>1. /\ guard.bytes \in Seq(Units(Octet)) /\ sent \in Nat
      /\ sent + 1 \in 1..Len(guard.bytes) /\ peer.inf \in Inflaters(Octet)
  BY DEF IInv, TypeOK
<1>2. /\ u \in Units(Octet) /\ u.kind \in {"data", "hdr", "trl"}
      /\ u.kind = "data" => sent = 0
      /\ u.kind # "data" => u.text = <<>>
      /\ u.kind = "trl" <=> (sent > 0 /\ guard.bytes[sent].kind = "hdr")
  BY <1>1 DEF IInv, PreparedInv, Framed
<1>3. u.text \in Seq(Octet)
  BY <1>2 DEF Units
<1>4. u.text = Unsent
  BY <1>1, <1>2 DEF Unsent
<1>5. CASE sent = 0
  <2>1. BlockMayBegin(peer.inf) /\ Resolves(u, peer.inf.hist)
    BY <1>1, <1>5 DEF IInv, PreparedInv, AtBoundary, BlockMayBegin
  <2>2. CASE u.kind = "data"
    BY <2>1, <2>2, <1>1, <1>2, <1>3, <1>4, TakesData DEF ModeAfter
  <2>3. CASE u.kind = "hdr"
    BY <2>1, <2>3, <1>1, <1>2, <1>3, <1>4, TakesHdr DEF ModeAfter
  <2> QED
    BY <2>2, <2>3, <1>2, <1>3, <1>4, <1>5
<1>6. CASE sent > 0
  <2>1. peer.inf.mode = ModeAfter(guard.bytes[sent].kind)
    BY <1>1, <1>6 DEF IInv, PreparedInv, FinSent
  <2>2. CASE u.kind = "trl"
    BY <2>1, <2>2, <1>1, <1>2, <1>3, <1>4, TakesTrl DEF ModeAfter
  <2>3. CASE u.kind = "hdr"
    <3>1. BlockMayBegin(peer.inf)
      BY <2>1, <2>3, <1>2, <1>6 DEF ModeAfter, BlockMayBegin
    <3> QED
      BY <3>1, <2>3, <1>1, <1>2, <1>3, <1>4, TakesHdr DEF ModeAfter
  <2> QED
    BY <2>2, <2>3, <1>1, <1>2, <1>3, <1>4, <1>6
<1> QED
  BY <1>1, <1>5, <1>6

\* What an accepted unit leaves behind.
LEMMA MovesFields ==
  ASSUME NEW inf \in Inflaters(Octet), NEW mode \in Modes, NEW text \in Seq(Octet)
  PROVE  /\ Moves(mode, inf, text).inf \in Inflaters(Octet)
         /\ Moves(mode, inf, text).inf.mode = mode
<1>1. inf.hist \o text \in Seq(Octet)
  BY DEF Inflaters
<1> QED
  BY <1>1 DEF Moves, Taken, Inflaters

LEMMA HostWriteInv == IInv /\ HostWrite => IInv'
<1> SUFFICES ASSUME IInv, HostWrite PROVE IInv'
  OBVIOUS
<1> DEFINE u == guard.bytes[sent + 1]
           last == sent + 1 = Len(guard.bytes) /\ guard.kind \in Closing
<1>1. /\ sent \in Nat /\ sent' = sent + 1 /\ sent < Len(guard.bytes)
      /\ guard.bytes \in Seq(Units(Octet)) /\ peer.inf \in Inflaters(Octet)
      /\ peer.text \in Seq(Octet) /\ peer.inf.hist \in Seq(Octet)
      /\ UNCHANGED <<compressor, reset_between_messages, guard, result, message, calls>>
  BY DEF HostWrite, IInv, TypeOK, Inflaters
<1>2. guard.kind \in Prepared
  BY <1>1 DEF IInv, TypeOK, OneHolder, NoGuard
<1>3. /\ u \in Units(Octet) /\ u.kind \in {"data", "hdr", "trl"}
      /\ u.text \in Seq(Octet) /\ u.text = Unsent
      /\ Accept(peer.inf, u, PeerWindow) = {Moves(ModeAfter(u.kind), peer.inf, u.text)}
  BY <1>1, <1>2, WriteAccepted
<1>4. ModeAfter(u.kind) \in Modes \ {"lost", "error", "done"}
  BY <1>3 DEF ModeAfter, Modes
<1> DEFINE a == Moves(ModeAfter(u.kind), peer.inf, u.text)
           b == Moves("boundary", a.inf, <<>>)
<1>5. /\ a.inf \in Inflaters(Octet) /\ a.inf.mode = ModeAfter(u.kind)
      /\ a.inf.hist = peer.inf.hist \o u.text /\ a.text = u.text
  <2> HIDE DEF u
  <2>1. ModeAfter(u.kind) \in Modes
    BY <1>4
  <2>2. a.inf \in Inflaters(Octet) /\ a.inf.mode = ModeAfter(u.kind)
    BY <2>1, <1>1, <1>3, MovesFields
  <2>3. a.inf.hist = peer.inf.hist \o u.text /\ a.text = u.text
    BY DEF Moves, Taken
  <2> QED
    BY <2>2, <2>3
<1>12. Accept(peer.inf, u, PeerWindow) = {a}
  BY <1>3
<1>13. /\ b.inf \in Inflaters(Octet) /\ b.inf.mode = "boundary"
       /\ b.inf.hist = a.inf.hist \o <<>> /\ b.text = <<>>
  <2>1. "boundary" \in Modes /\ <<>> \in Seq(Octet)
    BY DEF Modes
  <2> HIDE DEF a
  <2>2. a.inf \in Inflaters(Octet)
    BY <1>5
  <2>3. b.inf \in Inflaters(Octet) /\ b.inf.mode = "boundary"
    BY <2>1, <2>2, MovesFields
  <2>4. b.inf.hist = a.inf.hist \o <<>> /\ b.text = <<>>
    BY DEF Moves, Taken
  <2> QED
    BY <2>3, <2>4
<1>14. u.kind = "hdr" => Accept(a.inf, Trl, PeerWindow) = {b}
  BY <1>5, TakesTrl, MarkUnits DEF ModeAfter
<1> HIDE DEF a, b
<1>6. ~FinSent
  BY <1>1 DEF FinSent
<1>7. /\ peer.text \o u.text = message
      /\ IsSuffixOf(guard.compressor.hist, peer.inf.hist \o u.text)
      /\ Framed(guard.bytes) /\ Ended(guard.kind, guard.bytes)
  BY <1>2, <1>3, <1>6 DEF IInv, PreparedInv
<1>8. OneHolder' /\ StreamInv' /\ IdleInv'
  BY <1>1, <1>2 DEF IInv, OneHolder, StreamInv, IdleInv, Prepared
<1>9. /\ peer \in [inf : Inflaters(Octet), text : Seq(Octet), resets : BOOLEAN]
      /\ peer.resets => reset_between_messages'
  BY <1>1 DEF IInv, TypeOK
<1>10. CASE ~last
  <2>1. PeerTakes(u)
    BY <1>1, <1>10 DEF HostWrite
  <2>2. /\ peer' = [peer EXCEPT !.inf = a.inf, !.text = peer.text \o u.text]
        /\ UNCHANGED <<outbox, inbox>>
    BY <2>1, <1>5, <1>12 DEF PeerTakes
  <2>3. /\ peer'.inf = a.inf /\ peer'.text = message /\ peer'.resets = peer.resets
        /\ peer' \in [inf : Inflaters(Octet), text : Seq(Octet), resets : BOOLEAN]
    <3>1. message \in Seq(Octet) /\ peer.text \o u.text = message
      BY <1>7 DEF IInv, TypeOK
    <3> HIDE DEF u
    <3> QED
      BY <3>1, <2>2, <1>5, <1>9
  <2>4. TypeOK'
    BY <2>2, <2>3, <1>1 DEF IInv, TypeOK
  <2>5. /\ Unsent' = <<>> /\ ~FinSent' /\ sent' # 0
    BY <1>1, <1>10 DEF Unsent, FinSent
  <2>6. /\ (peer.text \o Unsent)' = message'
        /\ IsSuffixOf(guard.compressor.hist, peer.inf.hist \o Unsent)'
    <3>1. message \in Seq(Octet) /\ message \o <<>> = message
      BY ConcatEmpty DEF IInv, TypeOK
    <3>2. (peer.inf.hist \o u.text) \o <<>> = peer.inf.hist \o u.text
      BY <1>1, <1>3
    <3> QED
      BY <3>1, <3>2, <2>3, <2>5, <1>1, <1>5, <1>7
  <2>7. PreparedInv'
    BY <2>3, <2>5, <2>6, <1>1, <1>5, <1>7 DEF PreparedInv
  <2> QED
    BY <2>2, <2>3, <2>4, <2>7, <1>4, <1>5, <1>8, <1>9
       DEF IInv, PeerDecodes, MessagesArrive
<1>11. CASE last
  <2>1. PeerTakesLast(u)
    BY <1>1, <1>11 DEF HostWrite
  <2>2. u.kind = "hdr" /\ a.inf.mode = "header"
    BY <1>1, <1>5, <1>7, <1>11 DEF Ended, ModeAfter
  <2>5. /\ peer' = [peer EXCEPT !.inf = IF peer.resets THEN FreshInflate ELSE b.inf,
                                !.text = <<>>]
        /\ inbox' = Append(inbox, peer.text \o a.text \o b.text)
        /\ outbox' = Append(outbox, message)
    BY <2>1, <2>2, <1>12, <1>14 DEF PeerTakesLast
  <2>6. peer.text \o a.text \o b.text = message /\ message \in Seq(Octet)
    BY <1>5, <1>7, <1>13, ConcatEmpty DEF IInv, TypeOK
  <2>7. FreshInflate \in Inflaters(Octet) /\ FreshInflate.mode = "start" /\ FreshInflate.hist = <<>>
    BY DEF FreshInflate, Inflaters, Modes
  <2>8. /\ peer'.text = <<>> /\ peer'.resets = peer.resets
        /\ peer'.inf = IF peer.resets THEN FreshInflate ELSE b.inf
        /\ peer' \in [inf : Inflaters(Octet), text : Seq(Octet), resets : BOOLEAN]
    <3>1. IF peer.resets THEN FreshInflate \in Inflaters(Octet) ELSE b.inf \in Inflaters(Octet)
      BY <2>7, <1>13
    <3>2. <<>> \in Seq(Octet)
      OBVIOUS
    <3> QED
      BY <3>1, <3>2, <2>5, <1>9
  <2>9. TypeOK'
    BY <2>5, <2>6, <2>8, <1>1 DEF IInv, TypeOK, MessagesArrive
  <2>10. b.inf.hist = peer.inf.hist \o u.text
    BY <1>1, <1>3, <1>5, <1>13
  <2>11. FinSent' /\ sent' # 0
    BY <1>1, <1>11 DEF FinSent
  <2>12. PreparedInv'
    BY <2>7, <2>8, <2>10, <2>11, <1>1, <1>7, <1>13 DEF PreparedInv, AtBoundary
  <2> QED
    BY <2>5, <2>6, <2>7, <2>8, <2>9, <2>12, <1>8, <1>9, <1>13
       DEF IInv, PeerDecodes, MessagesArrive
<1> QED
  BY <1>10, <1>11

\* The compressor comes back, its history one the peer holds.
LEMMA RestoreInv ==
  ASSUME IInv, NEW c \in Compressors(Octet), Restore(c), AtBoundary, peer.text = <<>>,
         IsSuffixOf(c.hist, peer.inf.hist)
  PROVE  IInv'
<1>1. c # None
  BY NoneAssumption
<1>2. TypeOK'
  BY DEF IInv, TypeOK, Restore, NoGuard
<1>3. OneHolder' /\ IdleInv' /\ StreamInv' /\ PreparedInv'
  BY <1>1 DEF Restore, NoGuard, OneHolder, IdleInv, StreamInv, PreparedInv, Prepared, AtBoundary
<1> QED
  BY <1>2, <1>3 DEF IInv, Restore, PeerDecodes, MessagesArrive

LEMMA NextInv == IInv /\ [Next]_vars => IInv'
<1> SUFFICES ASSUME IInv, [Next]_vars PROVE IInv'
  OBVIOUS
<1>1. ASSUME NEW payload \in Payload, PrepareMessage(payload)
      PROVE  IInv'
  <2>1. compressor \in Compressors(Octet) /\ compressor # None /\ MayCall
    BY <1>1 DEF PrepareMessage, IInv, TypeOK
  <2>2. /\ peer.text = message /\ peer.text = <<>> /\ AtBoundary
        /\ IsSuffixOf(compressor.hist, peer.inf.hist)
    BY <2>1 DEF IInv, IdleInv
  <2>3. PICK outcome \in produce(compressor, payload) :
          Prepare("message", compressor, payload, outcome)
    BY <1>1 DEF PrepareMessage
  <2> QED
    BY <2>1, <2>2, <2>3, CompleteFramed, PrepareInv, PayloadAssumption DEF Closing, Prepared
<1>2. ASSUME NEW payload \in Payload,
             PrepareNonFinalFragment(payload) \/ PrepareFinalFragment(payload)
      PROVE  IInv'
  <2>1. guard.compressor \in Compressors(Octet) /\ guard.kind = "stream" /\ MayCall
    BY <1>2 DEF PrepareNonFinalFragment, PrepareFinalFragment, IInv, OneHolder
  <2>2. peer.text = message /\ AtBoundary
        /\ IsSuffixOf(guard.compressor.hist, peer.inf.hist)
    BY <2>1 DEF IInv, StreamInv
  <2>3. CASE PrepareNonFinalFragment(payload)
    <3>1. PICK outcome \in produce_non_final(guard.compressor, payload) :
            Prepare("nonfinal", guard.compressor, payload, outcome)
      BY <2>3 DEF PrepareNonFinalFragment
    <3> QED
      BY <2>1, <2>2, <3>1, NonFinalFramed, PrepareInv, PayloadAssumption DEF Prepared
  <2>4. CASE PrepareFinalFragment(payload)
    <3>1. PICK outcome \in produce(guard.compressor, payload) :
            Prepare("final", guard.compressor, payload, outcome)
      BY <2>4 DEF PrepareFinalFragment
    <3> QED
      BY <2>1, <2>2, <3>1, CompleteFramed, PrepareInv, PayloadAssumption DEF Closing, Prepared
  <2> QED
    BY <1>2, <2>3, <2>4
<1>3. ASSUME BeginStreamingMessage
      PROVE  IInv'
  <2>1. compressor \in Compressors(Octet) /\ compressor # None
    BY <1>3 DEF BeginStreamingMessage, IInv, TypeOK
  <2>2. /\ guard' = Guard("stream", compressor, <<>>) /\ compressor' = None /\ result' = "Ok"
        /\ guard'.kind = "stream" /\ guard'.compressor = compressor /\ guard'.bytes = <<>>
        /\ UNCHANGED <<reset_between_messages, sent, message, peer, outbox, inbox>>
        /\ sent = 0 /\ calls' \in 0..MaxCalls
    BY <1>3, CallsAssumption
       DEF BeginStreamingMessage, Guard, IInv, OneHolder, MayCall, TypeOK
  <2>3. TypeOK'
    BY <2>1, <2>2 DEF IInv, TypeOK, Guard
  <2>4. OneHolder' /\ IdleInv' /\ PreparedInv'
    BY <2>1, <2>2 DEF OneHolder, IdleInv, PreparedInv, Prepared
  <2>5. StreamInv'
    BY <2>1, <2>2 DEF IInv, IdleInv, StreamInv, AtBoundary
  <2> QED
    BY <2>2, <2>3, <2>4, <2>5 DEF IInv, PeerDecodes, MessagesArrive
<1>4. CASE CallPoisoned
  BY <1>4 DEF CallPoisoned, IInv, TypeOK, PeerDecodes, MessagesArrive, OneHolder, IdleInv,
              StreamInv, PreparedInv, AtBoundary, FinSent, Unsent
<1>5. CASE HostWrite
  BY <1>5, HostWriteInv
<1>6. CASE Commit
  <2>1. FinSent /\ guard.kind \in Prepared /\ guard.compressor \in Compressors(Octet)
    BY <1>6 DEF Commit, FinSent, Written, Closing, Prepared, IInv, OneHolder
  <2>2. AtBoundary /\ peer.text = <<>>
    BY <2>1 DEF IInv, PreparedInv
  <2>3. FreshCompress \in Compressors(Octet) /\ FreshCompress.hist = <<>>
    BY DEF FreshCompress, Compressors
  <2>4. peer.inf.hist \in Seq(Octet)
    BY DEF IInv, TypeOK, Inflaters
  <2>5. CASE reset_between_messages
    BY <1>6, <2>2, <2>3, <2>4, <2>5, SuffixEmpty, RestoreInv DEF Commit, reset
  <2>6. CASE ~reset_between_messages
    <3>1. IsSuffixOf(guard.compressor.hist, peer.inf.hist)
      BY <2>1, <2>6 DEF IInv, PreparedInv
    <3> QED
      BY <1>6, <2>1, <2>2, <2>6, <3>1, RestoreInv DEF Commit
  <2> QED
    BY <2>5, <2>6
<1>7. CASE CommitNonFinal
  <2>1. /\ guard.kind = "nonfinal" /\ sent = Len(guard.bytes) /\ ~FinSent
        /\ guard.compressor \in Compressors(Octet) /\ guard.bytes \in Seq(Units(Octet))
    BY <1>7 DEF CommitNonFinal, Written, FinSent, Closing, IInv, OneHolder, TypeOK
  <2>2. /\ guard' = Guard("stream", guard.compressor, <<>>) /\ sent' = 0 /\ result' = "Ok"
        /\ guard'.kind = "stream" /\ guard'.compressor = guard.compressor
        /\ guard'.bytes = <<>>
        /\ UNCHANGED <<compressor, reset_between_messages, message, peer, outbox, inbox, calls>>
    BY <1>7 DEF CommitNonFinal, Guard
  <2>3. Unsent = <<>>
    BY <2>1 DEF Unsent
  <2>4. peer.text = message /\ IsSuffixOf(guard.compressor.hist, peer.inf.hist)
    <3>1. peer.text \in Seq(Octet) /\ peer.inf.hist \in Seq(Octet)
      BY DEF IInv, TypeOK, Inflaters
    <3>2. peer.text \o <<>> = peer.text /\ peer.inf.hist \o <<>> = peer.inf.hist
      BY <3>1, ConcatEmpty
    <3> QED
      BY <2>1, <2>3, <3>2 DEF IInv, PreparedInv, Prepared
  <2>5. AtBoundary
    BY <2>1 DEF IInv, PreparedInv, Prepared, Ended, Closing, ModeAfter, AtBoundary
  <2>6. TypeOK'
    BY <2>1, <2>2 DEF IInv, TypeOK, Guard
  <2>7. OneHolder' /\ IdleInv' /\ PreparedInv'
    BY <2>1, <2>2 DEF IInv, OneHolder, IdleInv, PreparedInv, Prepared
  <2>8. StreamInv'
    BY <2>2, <2>4, <2>5 DEF StreamInv, AtBoundary
  <2> QED
    BY <2>2, <2>6, <2>7, <2>8 DEF IInv, PeerDecodes, MessagesArrive
<1>8. CASE ResetToPlain
  <2>1. guard.kind = "message" /\ sent = 0 /\ guard.kind \in Prepared /\ ~FinSent
    BY <1>8 DEF ResetToPlain, Prepared, FinSent, Closing, IInv, PreparedInv, Ended
  <2>2. AtBoundary /\ peer.inf.hist \in Seq(Octet)
    BY <2>1 DEF IInv, PreparedInv, TypeOK, Inflaters
  <2>3. FreshCompress \in Compressors(Octet) /\ FreshCompress.hist = <<>>
    BY DEF FreshCompress, Compressors
  <2>4. peer.text = <<>>
    BY <2>1 DEF IInv, PreparedInv
  <2> QED
    BY <1>8, <2>2, <2>3, <2>4, SuffixEmpty, RestoreInv DEF ResetToPlain, reset
<1>9. CASE DropGuard
  <2>1. /\ guard' = NoGuard /\ sent' = 0 /\ compressor' = None /\ compressor = None
        /\ UNCHANGED <<reset_between_messages, result, message, peer, outbox, inbox, calls>>
    BY <1>9 DEF DropGuard, IInv, OneHolder
  <2>2. TypeOK'
    BY <2>1 DEF IInv, TypeOK, NoGuard
  <2>3. OneHolder' /\ IdleInv' /\ StreamInv' /\ PreparedInv'
    BY <2>1 DEF OneHolder, IdleInv, StreamInv, PreparedInv, NoGuard, Prepared
  <2> QED
    BY <2>1, <2>2, <2>3 DEF IInv, PeerDecodes, MessagesArrive
<1>10. CASE UNCHANGED vars
  BY <1>10 DEF vars, IInv, TypeOK, PeerDecodes, MessagesArrive, OneHolder, IdleInv,
               StreamInv, PreparedInv, AtBoundary, FinSent, Unsent
<1> QED
  BY <1>1, <1>2, <1>3, <1>4, <1>5, <1>6, <1>7, <1>8, <1>9, <1>10 DEF Next

-----------------------------------------------------------------------------

LEMMA Invariance == Spec => []IInv
  BY InitInv, NextInv, PTL DEF Spec

\* The variables keep their types, under any schedule of calls, writes and
\* dropped guards.
THEOREM TypeCorrect == Spec => []TypeOK
<1>1. IInv => TypeOK
  BY DEF IInv
<1> QED
  BY <1>1, Invariance, PTL

\* Whatever was abandoned or refused, the peer can inflate what is on the wire
\* (prepare_message, the streaming prepares, commit and reset_to_plain).
THEOREM WireDecodes == Spec => []PeerDecodes
<1>1. IInv => PeerDecodes
  BY DEF IInv
<1> QED
  BY <1>1, Invariance, PTL

\* Every message whose last frame is out decodes to what was prepared for it.
THEOREM NothingLostNorAdded == Spec => []MessagesArrive
<1>1. IInv => MessagesArrive
  BY DEF IInv
<1> QED
  BY <1>1, Invariance, PTL

\* The encoder has its compressor only while the wire is between messages.
THEOREM BetweenMessages == Spec => []WholeMessagesOnly
<1>1. IInv => WholeMessagesOnly
  BY DEF IInv, IdleInv, AtBoundary, WholeMessagesOnly
<1> QED
  BY <1>1, Invariance, PTL

\* What a later message may refer to is what the peer holds.
THEOREM SharedHistory == Spec => []HistoryHeld
<1>1. IInv => HistoryHeld
  BY DEF IInv, IdleInv, HistoryHeld
<1> QED
  BY <1>1, Invariance, PTL

\* A vacant encoder stays vacant and refuses every call.
THEOREM PoisonForGood == Spec => PoisonIsTerminal
<1>1. IInv /\ [Next]_vars =>
        [Poisoned => /\ Poisoned' /\ UNCHANGED <<peer, outbox, inbox>>
                     /\ result' = "Poisoned"]_vars
  <2> SUFFICES ASSUME IInv, [Next]_vars, Poisoned, vars' # vars
               PROVE  /\ Poisoned' /\ UNCHANGED <<peer, outbox, inbox>>
                      /\ result' = "Poisoned"
    OBVIOUS
  <2>1. guard.kind = "none" /\ compressor = None /\ guard.bytes = <<>>
    BY DEF Poisoned, IInv, OneHolder, NoGuard
  <2>2. CASE CallPoisoned
    BY <2>1, <2>2 DEF CallPoisoned, Poisoned
  <2>3. /\ \A payload \in Payload : /\ ~PrepareMessage(payload)
                                    /\ ~PrepareNonFinalFragment(payload)
                                    /\ ~PrepareFinalFragment(payload)
        /\ ~BeginStreamingMessage /\ ~HostWrite /\ ~Commit /\ ~CommitNonFinal
        /\ ~ResetToPlain /\ ~DropGuard
    BY <2>1 DEF PrepareMessage, PrepareNonFinalFragment, PrepareFinalFragment,
       BeginStreamingMessage, HostWrite, Commit, CommitNonFinal, ResetToPlain, DropGuard,
       Closing, IInv, TypeOK
  <2> QED
    BY <2>2, <2>3 DEF Next
<1> QED
  BY <1>1, Invariance, PTL DEF Spec, PoisonIsTerminal
-----------------------------------------------------------------------------
(* For the module that puts another inflater in the peer's place (Link).    *)

\* What a write puts on the wire, where the peer stands before it and after.
LEMMA WriteMoves ==
  ASSUME IInv, HostWrite, NEW u, u = guard.bytes[sent + 1]
  PROVE  /\ u \in Units(Octet) /\ u.kind \in {"data", "hdr", "trl"} /\ u.text \in Seq(Octet)
         /\ u.kind = "data" => AtBoundary /\ Resolves(u, peer.inf.hist)
         /\ u.kind # "data" => u.text = <<>>
         /\ u.kind = "hdr" => BlockMayBegin(peer.inf)
         /\ u.kind = "trl" => peer.inf.mode = "header"
         /\ sent' = sent + 1 /\ peer'.resets = peer.resets
         /\ IF sent + 1 = Len(guard.bytes) /\ guard.kind \in Closing
            THEN /\ u.kind = "hdr" /\ peer.text = message
                 /\ outbox' = Append(outbox, message) /\ peer'.text = <<>>
                 /\ peer'.inf.mode = IF peer.resets THEN "start" ELSE "boundary"
                 /\ peer'.inf.hist = IF peer.resets THEN <<>> ELSE peer.inf.hist
            ELSE /\ outbox' = outbox /\ peer'.text = peer.text \o u.text
                 /\ peer'.inf.mode = ModeAfter(u.kind)
                 /\ peer'.inf.hist = peer.inf.hist \o u.text
<1>1. /\ sent \in Nat /\ sent' = sent + 1 /\ sent < Len(guard.bytes)
      /\ guard.bytes \in Seq(Units(Octet)) /\ peer.inf \in Inflaters(Octet)
      /\ peer.text \in Seq(Octet) /\ peer.inf.hist \in Seq(Octet) /\ message \in Seq(Octet)
      /\ peer \in [inf : Inflaters(Octet), text : Seq(Octet), resets : BOOLEAN]
  BY DEF HostWrite, IInv, TypeOK, Inflaters
<1>2. guard.kind \in Prepared
  BY <1>1 DEF IInv, TypeOK, OneHolder, NoGuard
<1>3. /\ u \in Units(Octet) /\ u.kind \in {"data", "hdr", "trl"}
      /\ u.text \in Seq(Octet) /\ u.text = Unsent
      /\ Accept(peer.inf, u, PeerWindow) = {Moves(ModeAfter(u.kind), peer.inf, u.text)}
  BY <1>1, <1>2, WriteAccepted
<1>4. sent + 1 \in 1..Len(guard.bytes) /\ ~FinSent
  BY <1>1 DEF FinSent
<1>5. /\ Framed(guard.bytes) /\ Ended(guard.kind, guard.bytes)
      /\ peer.text \o Unsent = message
      /\ sent = 0 => AtBoundary /\ Resolves(u, peer.inf.hist)
      /\ sent > 0 => peer.inf.mode = ModeAfter(guard.bytes[sent].kind)
  BY <1>1, <1>2, <1>4 DEF IInv, PreparedInv
<1>6. /\ u.kind = "data" => sent = 0
      /\ u.kind # "data" => u.text = <<>>
      /\ u.kind = "trl" <=> (sent > 0 /\ guard.bytes[sent].kind = "hdr")
  BY <1>1, <1>4, <1>5, SMTT(60) DEF Framed
<1>7. /\ u.kind = "data" => AtBoundary /\ Resolves(u, peer.inf.hist)
      /\ u.kind = "trl" => peer.inf.mode = "header"
  BY <1>5, <1>6 DEF ModeAfter
<1>8. u.kind = "hdr" => BlockMayBegin(peer.inf)
  <2>1. CASE sent = 0
    BY <2>1, <1>5 DEF AtBoundary, BlockMayBegin
  <2>2. CASE sent > 0
    BY <2>2, <1>5, <1>6 DEF ModeAfter, BlockMayBegin
  <2> QED
    BY <2>1, <2>2, <1>1
<1> DEFINE a == Moves(ModeAfter(u.kind), peer.inf, u.text)
<1>9. /\ a.inf.mode = ModeAfter(u.kind) /\ a.inf.hist = peer.inf.hist \o u.text
      /\ a.text = u.text
  BY DEF Moves, Taken
<1>10. a.inf \in Inflaters(Octet)
  <2>1. ModeAfter(u.kind) \in Modes
    BY DEF ModeAfter, Modes
  <2> QED
    BY <2>1, <1>1, <1>3, MovesFields
<1>11. Accept(peer.inf, u, PeerWindow) = {a}
  BY <1>3
<1> HIDE DEF a
<1>12. CASE sent + 1 = Len(guard.bytes) /\ guard.kind \in Closing
  <2>1. u.kind = "hdr"
    BY <1>12, <1>5 DEF Ended
  <2> DEFINE b == Moves("boundary", a.inf, <<>>)
  <2>2. Accept(a.inf, Trl, PeerWindow) = {b}
    BY <2>1, <1>9, <1>10, TakesTrl, MarkUnits DEF ModeAfter
  <2>3. b.inf.mode = "boundary" /\ b.inf.hist = a.inf.hist \o <<>>
    BY DEF Moves, Taken
  <2> HIDE DEF b
  <2>4. PeerTakesLast(u)
    BY <1>1, <1>12 DEF HostWrite
  <2>5. /\ peer' = [peer EXCEPT !.inf = IF peer.resets THEN FreshInflate ELSE b.inf,
                                !.text = <<>>]
        /\ outbox' = Append(outbox, message)
    BY <2>2, <2>4, <1>11 DEF PeerTakesLast
  <2>6. b.inf.hist = peer.inf.hist /\ peer.text = message
    <3>1. u.text = <<>>
      BY <2>1, <1>6
    <3>2. peer.inf.hist \o <<>> = peer.inf.hist /\ peer.text \o <<>> = peer.text
      BY <1>1, ConcatEmpty
    <3> QED
      BY <3>1, <3>2, <2>3, <1>3, <1>5, <1>9
  <2>7. FreshInflate.mode = "start" /\ FreshInflate.hist = <<>>
    BY DEF FreshInflate
  <2>8. /\ peer'.text = <<>> /\ peer'.resets = peer.resets
        /\ peer'.inf = IF peer.resets THEN FreshInflate ELSE b.inf
    BY <2>5, <1>1
  <2> QED
    BY <2>1, <2>3, <2>5, <2>6, <2>7, <2>8, <1>1, <1>3, <1>6, <1>7, <1>8, <1>12
<1>13. CASE ~(sent + 1 = Len(guard.bytes) /\ guard.kind \in Closing)
  <2>1. PeerTakes(u)
    BY <1>1, <1>13 DEF HostWrite
  <2>2. /\ peer' = [peer EXCEPT !.inf = a.inf, !.text = peer.text \o u.text]
        /\ outbox' = outbox
    BY <2>1, <1>9, <1>11 DEF PeerTakes
  <2>3. peer'.inf = a.inf /\ peer'.text = peer.text \o u.text /\ peer'.resets = peer.resets
    BY <2>2, <1>1
  <2> QED
    BY <2>2, <2>3, <1>1, <1>3, <1>6, <1>7, <1>8, <1>9, <1>13
<1> QED
  BY <1>12, <1>13

\* The peer never holds more of a message than was given of it, a candidate
\* that failed or was dropped included.
TextGiven == Len(peer.text) <= Len(message)

LEMMA TextGivenKeeps == IInv /\ IInv' /\ TextGiven /\ [Next]_vars => TextGiven'
<1> SUFFICES ASSUME IInv, IInv', TextGiven, [Next]_vars PROVE TextGiven'
  OBVIOUS
<1>1. /\ peer.text \in Seq(Octet) /\ message \in Seq(Octet)
      /\ Len(peer.text) \in Nat /\ Len(message) \in Nat
  BY DEF IInv, TypeOK
<1>2. ASSUME NEW payload \in Payload, NEW kind, NEW c, NEW outcome,
             Prepare(kind, c, payload, outcome)
      PROVE  TextGiven'
  <2>1. peer' = peer /\ message' = message \o payload /\ payload \in Seq(Octet)
    BY <1>2, PayloadAssumption DEF Prepare
  <2>2. Len(message \o payload) >= Len(message)
    BY <2>1, <1>1
  <2> QED
    BY <2>1, <2>2, <1>1 DEF TextGiven
<1>3. CASE \E payload \in Payload :
             PrepareMessage(payload) \/ PrepareNonFinalFragment(payload)
               \/ PrepareFinalFragment(payload)
  BY <1>2, <1>3 DEF PrepareMessage, PrepareNonFinalFragment, PrepareFinalFragment
<1>4. CASE HostWrite
  <2>1. message' = message
    BY <1>4 DEF HostWrite
  <2> DEFINE u == guard.bytes[sent + 1]
  <2>2. \/ peer'.text = <<>>
        \/ /\ peer'.text = peer.text \o u.text /\ u.text \in Seq(Octet)
           /\ u.text = Unsent /\ peer.text \o Unsent = message
    <3>1. /\ sent \in Nat /\ sent < Len(guard.bytes) /\ ~FinSent
          /\ guard.kind \in Prepared
      BY <1>4 DEF HostWrite, IInv, TypeOK, OneHolder, NoGuard, FinSent
    <3>2. u.text = Unsent
      BY <3>1, WriteAccepted
    <3>3. peer.text \o Unsent = message
      BY <3>1 DEF IInv, PreparedInv
    <3> QED
      BY <3>2, <3>3, <1>4, WriteMoves
  <2>3. CASE peer'.text = <<>>
    BY <2>1, <2>3, <1>1 DEF TextGiven
  <2>4. CASE peer'.text # <<>>
    <3>1. peer'.text = message
      BY <2>2, <2>4
    <3> QED
      BY <3>1, <2>1, <1>1 DEF TextGiven
  <2> QED
    BY <2>3, <2>4
<1>5. CASE BeginStreamingMessage \/ CallPoisoned \/ CommitNonFinal \/ DropGuard
             \/ UNCHANGED vars
  BY <1>5 DEF BeginStreamingMessage, CallPoisoned, CommitNonFinal, DropGuard, vars, TextGiven
<1>6. CASE Commit \/ ResetToPlain
  <2>1. compressor' # None
    <3>1. FreshCompress \in Compressors(Octet)
      BY DEF FreshCompress, Compressors
    <3>2. guard.compressor \in Compressors(Octet)
      BY <1>6 DEF Commit, ResetToPlain, Closing, IInv, OneHolder
    <3> QED
      BY <3>1, <3>2, <1>6, NoneAssumption DEF Commit, ResetToPlain, Restore, reset
  <2>2. peer'.text = <<>> /\ message' = <<>>
    BY <2>1 DEF IInv, IdleInv
  <2> QED
    BY <2>2 DEF TextGiven
<1> QED
  BY <1>3, <1>4, <1>5, <1>6 DEF Next

-----------------------------------------------------------------------------
(* The encoder and a conforming peer implement MessageChannel.              *)

\* What a guard, or none, stands for in the channel; and a guard that ends a
\* message holds at least one octet.
Phases ==
  /\ guard.kind = "none" /\ compressor = None => Poisoned /\ ChannelPhase = "closed"
  /\ compressor # None => ~Poisoned /\ ChannelPhase = "idle" /\ message = <<>>
  /\ guard.kind \in {"stream", "nonfinal"} => ~Poisoned /\ ChannelPhase = "open"
  /\ guard.kind \in Closing /\ sent # Len(guard.bytes) =>
       ~Poisoned /\ ChannelPhase = "whole"
  /\ guard.kind \in Closing /\ sent = Len(guard.bytes) =>
       ~Poisoned /\ ChannelPhase = "sent"
  /\ guard.kind \in Closing /\ sent = 0 => sent # Len(guard.bytes)

LEMMA PhaseOf == IInv => Phases
<1> SUFFICES ASSUME IInv PROVE Phases
  OBVIOUS
<1>1. guard.kind # "none" => compressor = None
  BY DEF IInv, OneHolder
<1>2. compressor # None => message = <<>>
  BY DEF IInv, IdleInv
<1>3. guard.kind \in Closing => guard.bytes # <<>> /\ guard.bytes \in Seq(Units(Octet))
  BY DEF IInv, TypeOK, PreparedInv, Ended, Closing, Prepared
<1>4. guard.kind \in Closing /\ sent = 0 => sent # Len(guard.bytes)
  BY <1>3
<1> QED
  BY <1>1, <1>2, <1>4 DEF Phases, ChannelPhase, Poisoned, Closing, Written

LEMMA PhaseOfNext == IInv' => Phases'
  BY PhaseOf, PTL

\* A prepare gives its payload to the channel, or closes it.
LEMMA PrepareGives ==
  ASSUME IInv, IInv', ~Poisoned, NEW payload \in Payload, NEW kind \in Prepared,
         NEW c, NEW outcome, Prepare(kind, c, payload, outcome),
         \/ ChannelPhase = "open"
         \/ ChannelPhase = "idle" /\ kind \in Closing
  PROVE  Channel!Next
<1>1. outbox' = outbox /\ inbox' = inbox /\ message' = message \o payload /\ sent' = 0
      /\ compressor' = None
  BY DEF Prepare
<1>2. CASE outcome.result = "Ok"
  <2>1. guard'.kind = kind
    BY <1>2 DEF Prepare, Guard
  <2>2. CASE kind \in Closing
    <3>1. ~Poisoned' /\ ChannelPhase' = "whole"
      <4>1. (sent # Len(guard.bytes))'
        BY <1>1, <2>1, <2>2, PhaseOfNext DEF Phases
      <4> QED
        BY <4>1, <2>1, <2>2, PhaseOf, PhaseOfNext DEF Phases
    <3>2. Channel!Give(payload, TRUE)
      BY <1>1, <3>1 DEF Channel!Give
    <3> QED
      BY <3>2 DEF Channel!Next
  <2>3. CASE kind \notin Closing
    <3>1. ~Poisoned' /\ ChannelPhase' = "open"
      <4>1. guard'.kind \in {"stream", "nonfinal"}
        BY <2>1, <2>3 DEF Prepared, Closing
      <4> QED
        BY <4>1, PhaseOf, PhaseOfNext DEF Phases
    <3>2. Channel!Give(payload, FALSE)
      BY <1>1, <2>3, <3>1 DEF Channel!Give
    <3> QED
      BY <3>2 DEF Channel!Next
  <2> QED
    BY <2>2, <2>3
<1>3. CASE outcome.result # "Ok"
  <2>1. guard'.kind = "none"
    BY <1>3 DEF Prepare, NoGuard
  <2>2. Poisoned' /\ ChannelPhase' = "closed"
    BY <1>1, <2>1, PhaseOf, PhaseOfNext DEF Phases
  <2>3. Channel!Close
    BY <1>1, <2>2 DEF Channel!Close
  <2> QED
    BY <2>3 DEF Channel!Next
<1> QED
  BY <1>2, <1>3

\* Every step of the encoder's is one of the channel's, or none.
LEMMA StepImplements ==
  ASSUME IInv, IInv', [Next]_vars
  PROVE  [Channel!Next]_(Channel!vars)
<1>1. ASSUME NEW payload \in Payload, PrepareMessage(payload)
      PROVE  Channel!Next
  <2>1. compressor # None
    BY <1>1 DEF PrepareMessage
  <2>2. PICK outcome \in produce(compressor, payload) :
          Prepare("message", compressor, payload, outcome)
    BY <1>1 DEF PrepareMessage
  <2> QED
    BY <2>1, <2>2, PhaseOf, PhaseOfNext, PrepareGives DEF Phases, Closing, Prepared
<1>2. ASSUME NEW payload \in Payload, PrepareNonFinalFragment(payload)
      PROVE  Channel!Next
  <2>1. guard.kind = "stream"
    BY <1>2 DEF PrepareNonFinalFragment
  <2>2. PICK outcome \in produce_non_final(guard.compressor, payload) :
          Prepare("nonfinal", guard.compressor, payload, outcome)
    BY <1>2 DEF PrepareNonFinalFragment
  <2> QED
    BY <2>1, <2>2, PhaseOf, PhaseOfNext, PrepareGives DEF Phases, Prepared
<1>3. ASSUME NEW payload \in Payload, PrepareFinalFragment(payload)
      PROVE  Channel!Next
  <2>1. guard.kind = "stream"
    BY <1>3 DEF PrepareFinalFragment
  <2>2. PICK outcome \in produce(guard.compressor, payload) :
          Prepare("final", guard.compressor, payload, outcome)
    BY <1>3 DEF PrepareFinalFragment
  <2> QED
    BY <2>1, <2>2, PhaseOf, PhaseOfNext, PrepareGives DEF Phases, Prepared
<1>4. CASE BeginStreamingMessage
  <2>1. compressor # None /\ guard'.kind = "stream"
        /\ UNCHANGED <<message, outbox, inbox>>
    BY <1>4 DEF BeginStreamingMessage, Guard
  <2>2. ~Poisoned /\ ~Poisoned' /\ ChannelPhase = "idle" /\ ChannelPhase' = "open"
    BY <2>1, PhaseOf, PhaseOfNext DEF Phases
  <2>3. Channel!Begin
    BY <2>1, <2>2 DEF Channel!Begin
  <2> QED
    BY <2>3 DEF Channel!Next
<1>5. CASE CallPoisoned
  <2>1. /\ Poisoned /\ guard.kind = "none" /\ compressor = None
        /\ UNCHANGED <<compressor, guard, outbox, inbox>>
    BY <1>5 DEF CallPoisoned, Poisoned
  <2>2. Poisoned' /\ ChannelPhase = "closed" /\ ChannelPhase' = "closed"
    BY <2>1, PhaseOf, PhaseOfNext DEF Phases
  <2> QED
    BY <2>1, <2>2 DEF Channel!vars
<1>6. CASE HostWrite
  <2>1. /\ sent \in Nat /\ sent < Len(guard.bytes) /\ sent' = sent + 1
        /\ UNCHANGED <<compressor, guard, message>>
    BY <1>6 DEF HostWrite, IInv, TypeOK
  <2>2. guard.kind \in Prepared
    BY <2>1 DEF IInv, TypeOK, OneHolder, NoGuard
  <2>3. CASE sent' = Len(guard.bytes) /\ guard.kind \in Closing
    <3>1. ~Poisoned /\ ~Poisoned' /\ ChannelPhase = "whole" /\ ChannelPhase' = "sent"
      <4>1. guard'.kind \in Closing /\ sent' = Len(guard'.bytes) /\ sent # Len(guard.bytes)
        BY <2>1, <2>3, SMTT(60)
      <4> QED
        BY <4>1, <2>3, PhaseOf, PhaseOfNext DEF Phases
    <3>2. outbox' = Append(outbox, message)
      BY <1>6, <2>3 DEF HostWrite, PeerTakesLast
    <3>3. inbox = outbox /\ inbox' = outbox'
      BY DEF IInv, MessagesArrive
    <3>4. Channel!Send
      BY <2>1, <3>1, <3>2, <3>3 DEF Channel!Send
    <3> QED
      BY <3>4 DEF Channel!Next
  <2>4. CASE ~(sent' = Len(guard.bytes) /\ guard.kind \in Closing)
    <3>1. outbox' = outbox /\ inbox' = inbox
      BY <1>6, <2>4 DEF HostWrite, PeerTakes
    <3>2. ~Poisoned /\ ~Poisoned' /\ ChannelPhase' = ChannelPhase
      <4>1. CASE guard.kind \in Closing
        <5>1. guard'.kind \in Closing /\ sent' # Len(guard'.bytes) /\ sent # Len(guard.bytes)
          BY <2>1, <2>4, <4>1
        <5> QED
          BY <5>1, <4>1, PhaseOf, PhaseOfNext DEF Phases
      <4>2. CASE guard.kind \notin Closing
        <5>1. guard.kind = "nonfinal" /\ guard'.kind = "nonfinal"
          BY <2>1, <2>2, <4>2 DEF Prepared, Closing
        <5> QED
          BY <5>1, PhaseOf, PhaseOfNext DEF Phases
      <4> QED
        BY <4>1, <4>2
    <3> QED
      BY <2>1, <3>1, <3>2 DEF Channel!vars
  <2> QED
    BY <2>3, <2>4
<1>7. CASE Commit
  <2>1. guard.kind \in Closing /\ sent = Len(guard.bytes)
        /\ UNCHANGED <<outbox, inbox>> /\ message' = <<>>
    BY <1>7 DEF Commit, Written, Restore
  <2>2. compressor' # None
    <3>1. FreshCompress \in Compressors(Octet) /\ guard.compressor \in Compressors(Octet)
      BY <2>1 DEF FreshCompress, Compressors, IInv, OneHolder, Closing
    <3> QED
      BY <1>7, <3>1, NoneAssumption DEF Commit, Restore, reset
  <2>3. ~Poisoned /\ ~Poisoned' /\ ChannelPhase = "sent" /\ ChannelPhase' = "idle"
    BY <2>1, <2>2, PhaseOf, PhaseOfNext DEF Phases
  <2>4. Channel!Settle
    BY <2>1, <2>3 DEF Channel!Settle
  <2> QED
    BY <2>4 DEF Channel!Next
<1>8. CASE CommitNonFinal
  <2>1. guard.kind = "nonfinal" /\ guard'.kind = "stream"
        /\ UNCHANGED <<message, outbox, inbox>>
    BY <1>8 DEF CommitNonFinal, Guard
  <2>2. ~Poisoned /\ ~Poisoned' /\ ChannelPhase' = ChannelPhase
    BY <2>1, PhaseOf, PhaseOfNext DEF Phases
  <2> QED
    BY <2>1, <2>2 DEF Channel!vars
<1>9. CASE ResetToPlain
  <2>1. guard.kind \in Closing /\ sent = 0
        /\ UNCHANGED <<outbox, inbox>> /\ message' = <<>>
    BY <1>9 DEF ResetToPlain, Closing, Restore
  <2>2. compressor' # None
    <3>1. FreshCompress \in Compressors(Octet)
      BY DEF FreshCompress, Compressors
    <3> QED
      BY <1>9, <3>1, NoneAssumption DEF ResetToPlain, Restore, reset
  <2>3. ~Poisoned /\ ~Poisoned' /\ ChannelPhase = "whole" /\ ChannelPhase' = "idle"
    BY <2>1, <2>2, PhaseOf, PhaseOfNext DEF Phases
  <2>4. Channel!Withdraw
    BY <2>1, <2>3 DEF Channel!Withdraw
  <2> QED
    BY <2>4 DEF Channel!Next
<1>10. CASE DropGuard
  <2>1. guard'.kind = "none" /\ compressor' = None /\ UNCHANGED <<outbox, inbox>>
    BY <1>10 DEF DropGuard, NoGuard, IInv, OneHolder
  <2>2. Poisoned' /\ ChannelPhase' = "closed"
    BY <2>1, PhaseOf, PhaseOfNext DEF Phases
  <2>3. Channel!Close
    BY <2>1, <2>2 DEF Channel!Close
  <2> QED
    BY <2>3 DEF Channel!Next
<1>11. CASE UNCHANGED vars
  BY <1>11 DEF vars, Channel!vars, ChannelPhase, Poisoned, Written
<1> QED
  BY <1>1, <1>2, <1>3, <1>4, <1>5, <1>6, <1>7, <1>8, <1>9, <1>10, <1>11 DEF Next

\* Whatever transactions a host makes of its encoder, and whenever it abandons
\* them, the encoder and a conforming peer implement the channel.
THEOREM Refinement == Spec => ImplementsChannel
<1>1. Init => Channel!Init
  <2> SUFFICES ASSUME Init PROVE Channel!Init
    OBVIOUS
  <2>1. FreshCompress \in Compressors(Octet)
    BY DEF FreshCompress, Compressors
  <2>2. IInv /\ compressor # None
    BY <2>1, InitInv, NoneAssumption DEF Init
  <2> QED
    BY <2>2, PhaseOf DEF Phases, Init, Channel!Init
<1>2. IInv /\ IInv' /\ [Next]_vars => [Channel!Next]_(Channel!vars)
  BY StepImplements
<1> QED
  BY <1>1, <1>2, Invariance, PTL DEF Spec, ImplementsChannel, Channel!Spec
=============================================================================
