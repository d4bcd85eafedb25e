--------------------------- MODULE SyncFlushProofs --------------------------
(***************************************************************************)
(* Proofs about SyncFlush, for any sizes of room, block and payload, any    *)
(* number of rounds, and a backend that keeps its contract or breaks it.    *)
(***************************************************************************)
EXTENDS SyncFlush, SequenceLemmas, FiniteSetTheorems

-----------------------------------------------------------------------------
(* Sequences of octets and markers.                                         *)

LEMMA JoinInts ==
  ASSUME NEW s \in Seq(Int), NEW t \in Seq(Int)
  PROVE  /\ s \o t \in Seq(Int) /\ Len(s \o t) = Len(s) + Len(t)
         /\ \A i \in 1..Len(s) : (s \o t)[i] = s[i]
         /\ \A i \in 1..Len(t) : (s \o t)[Len(s) + i] = t[i]
  OBVIOUS

LEMMA AssocInts ==
  ASSUME NEW s \in Seq(Int), NEW t \in Seq(Int), NEW u \in Seq(Int)
  PROVE  (s \o t) \o u = s \o (t \o u)
  BY JoinAssoc, SMTT(60)

-----------------------------------------------------------------------------
(* Unframed.                                                                *)

\* One octet more, and the function Unframed is defined by.
Keeps(kept, octet) == IF octet = FRAME THEN kept ELSE Append(kept, octet)

Kept(out, n) ==
  CHOOSE kept : kept = [i \in 0..n |-> IF i = 0 THEN <<>> ELSE Keeps(kept[i - 1], out[i])]

LEMMA KeepsOctet ==
  ASSUME NEW s \in Seq(Int), NEW t \in Seq(Int), NEW octet \in Int
  PROVE  /\ Keeps(t, octet) \in Seq(Int)
         /\ Keeps(s \o t, octet) = s \o Keeps(t, octet)
         /\ octet = FRAME => Keeps(t, octet) = t
         /\ octet # FRAME => Keeps(t, octet) = Append(t, octet)
<1>1. Append(t, octet) \in Seq(Int) /\ <<octet>> \in Seq(Int) /\ s \o t \in Seq(Int)
  BY JoinSeq
<1>2. \A u \in Seq(Int) : Append(u, octet) = u \o <<octet>>
  OBVIOUS
<1> DEFINE one == <<octet>>
<1>3. Append(s \o t, octet) = s \o Append(t, octet)
  <2>1. /\ Append(s \o t, octet) = (s \o t) \o one /\ Append(t, octet) = t \o one
        /\ one \in Seq(Int)
    BY <1>1, <1>2, Zenon
  <2> HIDE DEF one
  <2>2. (s \o t) \o one = s \o (t \o one)
    BY <2>1, AssocInts, Zenon
  <2> QED
    BY <2>1, <2>2, Zenon
<1> QED
  BY <1>1, <1>3, Zenon DEF Keeps

\* There is such a function.
LEMMA KeptExists ==
  ASSUME NEW out, NEW n \in Nat
  PROVE  Kept(out, n) = [i \in 0..n |->
           IF i = 0 THEN <<>> ELSE Keeps(Kept(out, n)[i - 1], out[i])]
<1> DEFINE Is(kept, m) ==
             kept = [i \in 0..m |-> IF i = 0 THEN <<>> ELSE Keeps(kept[i - 1], out[i])]
           S == {m \in 0..n : \E kept : Is(kept, m)}
<1>1. 0 \in S
  <2>1. Is([i \in 0..0 |-> <<>>], 0)
    <3>1. \A i \in 0..0 : i = 0
      OBVIOUS
    <3> QED
      BY <3>1, Zenon
  <2> HIDE DEF Is
  <2> QED
    BY <2>1
<1>2. ASSUME NEW m \in 1..n, m - 1 \in S PROVE m \in S
  <2>1. PICK kept : Is(kept, m - 1)
    BY <1>2
  <2> DEFINE more == Keeps(kept[m - 1], out[m])
             now  == [i \in 0..m |-> IF i = m THEN more ELSE kept[i]]
  <2>2. \A i \in 0..m : now[i] = IF i = 0 THEN <<>> ELSE Keeps(now[i - 1], out[i])
    <3> SUFFICES ASSUME NEW i \in 0..m
                 PROVE  now[i] = IF i = 0 THEN <<>> ELSE Keeps(now[i - 1], out[i])
      OBVIOUS
    <3>1. CASE i = m
      <4>1. now[m] = more /\ now[m - 1] = kept[m - 1] /\ m # 0
        OBVIOUS
      <4> QED
        BY <4>1, <3>1
    <3>2. CASE i # m
      <4>1. /\ i \in 0..(m - 1) /\ now[i] = kept[i]
            /\ i # 0 => now[i - 1] = kept[i - 1]
        BY <3>2
      <4>2. kept[i] = IF i = 0 THEN <<>> ELSE Keeps(kept[i - 1], out[i])
        BY <4>1, <2>1
      <4> HIDE DEF now, Is
      <4> QED
        BY <4>1, <4>2
    <3> QED
      BY <3>1, <3>2
  <2>3. Is(now, m)
    <3>1. now = [i \in 0..m |-> now[i]]
      OBVIOUS
    <3> HIDE DEF now
    <3> QED
      BY <3>1, <2>2
  <2> HIDE DEF Is, now
  <2> QED
    BY <2>3
<1>3. \E kept : Is(kept, n)
  <2> HIDE DEF Is
  <2>1. S \in SUBSET (0..n)
    OBVIOUS
  <2> HIDE DEF S
  <2>2. n \in S
    BY <1>1, <1>2, <2>1, UpTo
  <2> QED
    BY <2>2 DEF S
<1> QED
  BY <1>3 DEF Kept

\* What is kept of the first octets of a sequence, one after the other.
LEMMA KeptStep ==
  ASSUME NEW out \in Seq(Int)
  PROVE  LET n == Len(out) kept == Kept(out, n)
         IN /\ n \in Nat /\ Unframed(out) = kept[n] /\ kept[0] = <<>>
            /\ \A i \in 1..n : kept[i] = Keeps(kept[i - 1], out[i])
<1> DEFINE n == Len(out)
           kept == Kept(out, n)
           Body(f, i) == IF i = 0 THEN <<>> ELSE Keeps(f[i - 1], out[i])
<1>1. n \in Nat
  OBVIOUS
<1>2. kept = [i \in 0..n |-> Body(kept, i)]
  BY <1>1, KeptExists
<1>3. Unframed(out) = kept[n]
  BY DEF Unframed, Kept, Keeps
<1> HIDE DEF kept, n, Body
<1>4. \A i \in 0..n : kept[i] = Body(kept, i)
  BY <1>2, Zenon
<1>5. 0 \in 0..n /\ \A i \in 1..n : i \in 0..n /\ i # 0
  BY <1>1
<1>6. kept[0] = <<>> /\ \A i \in 1..n : kept[i] = Keeps(kept[i - 1], out[i])
  BY <1>4, <1>5, Zenon DEF Body
<1> QED
  BY <1>1, <1>3, <1>6 DEF kept, n

LEMMA KeptTyped ==
  ASSUME NEW out \in Seq(Int)
  PROVE  \A i \in 0..Len(out) : Kept(out, Len(out))[i] \in Seq(Int)
<1> DEFINE n == Len(out)
           kept == Kept(out, n)
           S == {i \in 0..n : kept[i] \in Seq(Int)}
<1>1. /\ n \in Nat /\ kept[0] = <<>>
      /\ \A i \in 1..n : kept[i] = Keeps(kept[i - 1], out[i])
  BY KeptStep
<1>2. \A i \in 1..n : out[i] \in Int
  OBVIOUS
<1> HIDE DEF n, kept
<1>3. 0 \in S /\ S \in SUBSET (0..n)
  <2>1. <<>> \in Seq(Int) /\ 0 \in 0..n
    BY <1>1
  <2> QED
    BY <1>1, <2>1, Zenon
<1>4. ASSUME NEW i \in 1..n, i - 1 \in S PROVE i \in S
  <2>1. kept[i - 1] \in Seq(Int) /\ out[i] \in Int /\ i \in 0..n
    BY <1>1, <1>2, <1>4
  <2> QED
    BY <2>1, <1>1, KeepsOctet
<1> HIDE DEF S
<1>5. \A i \in 0..n : i \in S
  BY <1>1, <1>3, <1>4, UpTo
<1> QED
  BY <1>5 DEF S, n, kept

LEMMA UnframedTyped == ASSUME NEW out \in Seq(Int) PROVE Unframed(out) \in Seq(Int)
<1>1. Len(out) \in Nat /\ Unframed(out) = Kept(out, Len(out))[Len(out)]
  BY KeptStep
<1>2. Len(out) \in 0..Len(out)
  BY <1>1
<1> QED
  BY <1>1, <1>2, KeptTyped

LEMMA UnframedEmpty == Unframed(<<>>) = <<>>
<1>1. <<>> \in Seq(Int) /\ Len(<<>>) = 0
  OBVIOUS
<1> QED
  BY <1>1, KeptStep

\* What is kept of two outputs is kept of each.
LEMMA UnframedJoin ==
  ASSUME NEW out \in Seq(Int), NEW more \in Seq(Int)
  PROVE  Unframed(out \o more) = Unframed(out) \o Unframed(more)
<1> DEFINE whole == out \o more
           m == Len(out)
           n == Len(more)
           first == Kept(out, m)
           second == Kept(more, n)
           both == Kept(whole, Len(whole))
           S == {i \in 0..m : both[i] = first[i]}
           T == {i \in 0..n : both[m + i] = first[m] \o second[i]}
<1>1. /\ whole \in Seq(Int) /\ Len(whole) = m + n
      /\ \A i \in 1..m : whole[i] = out[i]
      /\ \A i \in 1..n : whole[m + i] = more[i]
      /\ \A i \in 1..n : more[i] \in Int
  BY JoinSeq
<1>2. /\ m \in Nat /\ Unframed(out) = first[m] /\ first[0] = <<>>
      /\ \A i \in 1..m : first[i] = Keeps(first[i - 1], out[i])
  BY KeptStep
<1>3. /\ n \in Nat /\ Unframed(more) = second[n] /\ second[0] = <<>>
      /\ \A i \in 1..n : second[i] = Keeps(second[i - 1], more[i])
  BY KeptStep
<1>4. /\ Unframed(whole) = both[Len(whole)] /\ both[0] = <<>>
      /\ \A i \in 1..Len(whole) : both[i] = Keeps(both[i - 1], whole[i])
  BY <1>1, KeptStep
<1>5. /\ \A i \in 0..m : first[i] \in Seq(Int)
      /\ \A i \in 0..n : second[i] \in Seq(Int)
  BY KeptTyped
<1> HIDE DEF whole, m, n, first, second, both
<1>6. \A i \in 0..m : both[i] = first[i]
  <2>1. 0 \in S /\ S \in SUBSET (0..m)
    BY <1>2, <1>4
  <2>2. ASSUME NEW i \in 1..m, i - 1 \in S PROVE i \in S
    <3>1. /\ i \in 1..Len(whole) /\ i \in 0..m /\ both[i - 1] = first[i - 1]
          /\ whole[i] = out[i]
      BY <1>1, <1>2, <1>3, <2>2
    <3>2. both[i] = first[i]
      BY <3>1, <1>2, <1>4
    <3> QED
      BY <3>1, <3>2
  <2> HIDE DEF S
  <2>3. \A i \in 0..m : i \in S
    BY <1>2, <2>1, <2>2, UpTo
  <2> QED
    BY <2>3 DEF S
<1>7. \A i \in 0..n : both[m + i] = first[m] \o second[i]
  <2>1. 0 \in T /\ T \in SUBSET (0..n)
    <3>1. m \in 0..m /\ m + 0 = m /\ 0 \in 0..n
      BY <1>2, <1>3
    <3>2. first[m] \o <<>> = first[m]
      BY <3>1, <1>5, JoinEmpty
    <3>3. both[m + 0] = first[m] \o second[0]
      BY <3>1, <3>2, <1>3, <1>6
    <3> QED
      BY <3>1, <3>3
  <2>2. ASSUME NEW i \in 1..n, i - 1 \in T PROVE i \in T
    <3>1. /\ m + i \in 1..Len(whole) /\ i \in 0..n /\ i - 1 \in 0..n /\ m \in 0..m
          /\ (m + i) - 1 = m + (i - 1)
      BY <1>1, <1>2, <1>3
    <3>2. whole[m + i] = more[i] /\ more[i] \in Int
      BY <1>1
    <3>3. both[m + (i - 1)] = first[m] \o second[i - 1]
      BY <2>2
    <3>4. both[m + i] = Keeps(first[m] \o second[i - 1], more[i])
      BY <3>1, <3>2, <3>3, <1>4
    <3>5. second[i] = Keeps(second[i - 1], more[i])
      BY <1>3
    <3>6. first[m] \in Seq(Int) /\ second[i - 1] \in Seq(Int)
      BY <3>1, <1>5
    <3>7. both[m + i] = first[m] \o second[i]
      <4>1. Keeps(first[m] \o second[i - 1], more[i]) =
              first[m] \o Keeps(second[i - 1], more[i])
        BY <3>2, <3>6, KeepsOctet, ZenonT(60)
      <4> QED
        BY <3>4, <3>5, <4>1, Zenon
    <3> QED
      BY <3>1, <3>7
  <2> HIDE DEF T
  <2>3. \A i \in 0..n : i \in T
    BY <1>3, <2>1, <2>2, UpTo
  <2> QED
    BY <2>3 DEF T
<1>8. both[m + n] = first[m] \o second[n] /\ Unframed(whole) = both[m + n]
  <2>1. n \in 0..n /\ Len(whole) = m + n
    BY <1>1, <1>3
  <2> QED
    BY <2>1, <1>4, <1>7, Zenon
<1> QED
  BY <1>2, <1>3, <1>8, Zenon DEF whole

\* Nothing is kept of framing, and all of what holds none.
LEMMA UnframedFrames == ASSUME NEW f \in Nat PROVE Unframed(Frames(f)) = <<>>
<1> DEFINE out == Frames(f)
           kept == Kept(out, f)
           S == {i \in 0..f : kept[i] = <<>>}
<1>1. out \in Seq(Int) /\ Len(out) = f /\ \A i \in 1..f : out[i] = FRAME
  BY DEF Frames, FRAME
<1>2. /\ Unframed(out) = kept[f] /\ kept[0] = <<>>
      /\ \A i \in 1..f : kept[i] = Keeps(kept[i - 1], out[i])
  BY <1>1, KeptStep
<1> HIDE DEF out, kept
<1>3. 0 \in S /\ S \in SUBSET (0..f)
  BY <1>2
<1>4. ASSUME NEW i \in 1..f, i - 1 \in S PROVE i \in S
  BY <1>1, <1>2, <1>4 DEF Keeps
<1> HIDE DEF S
<1>5. f \in S
  BY <1>3, <1>4, UpTo
<1> QED
  BY <1>2, <1>5 DEF S, out

LEMMA UnframedPlain ==
  ASSUME NEW out \in Seq(Int), \A i \in 1..Len(out) : out[i] # FRAME
  PROVE  Unframed(out) = out
<1> DEFINE n == Len(out)
           kept == Kept(out, n)
           front(i) == SubSeq(out, 1, i)
           S == {i \in 0..n : kept[i] = front(i)}
<1>1. /\ n \in Nat /\ Unframed(out) = kept[n] /\ kept[0] = <<>>
      /\ \A i \in 1..n : kept[i] = Keeps(kept[i - 1], out[i])
  BY KeptStep
<1>2. ASSUME NEW i \in 1..n PROVE Keeps(front(i - 1), out[i]) = front(i)
  <2>1. Append(front(i - 1), out[i]) = front(i) /\ out[i] # FRAME
    BY <1>1
  <2> QED
    BY <2>1 DEF Keeps
<1>3. front(0) = <<>> /\ front(n) = out
  OBVIOUS
<1> HIDE DEF n, kept, front
<1>4. 0 \in S /\ S \in SUBSET (0..n)
  BY <1>1, <1>3
<1>5. ASSUME NEW i \in 1..n PROVE i - 1 \in S => i \in S
  <2>1. kept[i] = Keeps(kept[i - 1], out[i]) /\ i \in 0..n
    BY <1>1
  <2>2. Keeps(front(i - 1), out[i]) = front(i)
    BY <1>2
  <2> QED
    BY <2>1, <2>2, ZenonT(60)
<1> HIDE DEF S
<1>6. n \in S
  <2>1. n \in 0..n /\ n \in Nat
    BY <1>1
  <2> QED
    BY <1>4, <1>5, <2>1, UpTo, Zenon
<1> QED
  BY <1>1, <1>3, <1>6 DEF S

-----------------------------------------------------------------------------
(* Spelled.                                                                 *)

\* One sequence after the other, as many as a flush may yield.
LEMMA FlattenStep ==
  ASSUME NEW seqs, NEW n \in 1..5, Len(seqs) = n
  PROVE  LET flat == Flat(seqs, n)
         IN /\ FlattenSeq(seqs) = flat[n] /\ flat[1] = seqs[1]
            /\ n >= 2 => flat[2] = flat[1] \o seqs[2]
            /\ n >= 3 => flat[3] = flat[2] \o seqs[3]
            /\ n >= 4 => flat[4] = flat[3] \o seqs[4]
            /\ n >= 5 => flat[5] = flat[4] \o seqs[5]
<1> DEFINE flat == Flat(seqs, n)
           Body(f, i) == IF i = 1 THEN seqs[i] ELSE f[i - 1] \o seqs[i]
<1>0. n \in Nat
  OBVIOUS
<1>1. flat = [i \in 1..n |-> Body(flat, i)]
  BY <1>0, FlatExists, Zenon
<1>2. FlattenSeq(seqs) = flat[n]
  BY DEF FlattenSeq, Flat
<1> HIDE DEF flat, Body
<1>3. \A i \in 1..n : flat[i] = Body(flat, i)
  BY <1>1, Zenon
<1>4. flat[1] = seqs[1]
  <2>1. 1 \in 1..n
    OBVIOUS
  <2> QED
    BY <2>1, <1>3, Zenon DEF Body
<1>5. ASSUME NEW i \in 2..5, NEW j, j = i - 1 PROVE n >= i => flat[i] = flat[j] \o seqs[i]
  <2>1. n >= i => i \in 1..n /\ i # 1
    OBVIOUS
  <2> QED
    BY <2>1, <1>3, <1>5, Zenon DEF Body
<1>6. 1 = 2 - 1 /\ 2 = 3 - 1 /\ 3 = 4 - 1 /\ 4 = 5 - 1
        /\ 2 \in 2..5 /\ 3 \in 2..5 /\ 4 \in 2..5 /\ 5 \in 2..5
  OBVIOUS
<1>7. /\ n >= 2 => flat[2] = flat[1] \o seqs[2]
      /\ n >= 3 => flat[3] = flat[2] \o seqs[3]
      /\ n >= 4 => flat[4] = flat[3] \o seqs[4]
      /\ n >= 5 => flat[5] = flat[4] \o seqs[5]
  BY <1>5, <1>6, Zenon
<1> QED
  BY <1>2, <1>4, <1>7 DEF flat

\* The marker, and the octet that a synthesized one begins with.
LEMMA Markers ==
  /\ MARKER \in Seq(Int) /\ Len(MARKER) = 3
  /\ TRAILER \in Seq(Int) /\ Len(TRAILER) = 2
  /\ <<MARKER[1]>> \in Seq(Int) /\ <<MARKER[1]>> \o TRAILER = MARKER
  /\ \A s \in Seq(Int) : (s \o <<MARKER[1]>>) \o TRAILER = s \o MARKER
<1> DEFINE one == <<MARKER[1]>>
<1>1. MARKER \in Seq(Int) /\ Len(MARKER) = 3
  BY DEF MARKER
<1>2. TRAILER \in Seq(Int) /\ Len(TRAILER) = 2
  BY DEF TRAILER
<1>3. MARKER[1] = -1
  BY DEF MARKER
<1>4. one \in Seq(Int)
  BY <1>3
<1>5. one \o TRAILER = MARKER
  <2> DEFINE whole == one \o TRAILER
  <2>1. Len(one) = 1 /\ one[1] = MARKER[1]
    OBVIOUS
  <2>2. TRAILER[1] = MARKER[2] /\ TRAILER[2] = MARKER[3]
    BY DEF MARKER, TRAILER
  <2> HIDE DEF one
  <2>3. /\ whole \in Seq(Int) /\ Len(whole) = Len(one) + Len(TRAILER)
        /\ \A i \in 1..Len(one) : whole[i] = one[i]
        /\ \A i \in 1..Len(TRAILER) : whole[Len(one) + i] = TRAILER[i]
    BY <1>2, <1>4, JoinInts, Zenon
  <2> HIDE DEF whole
  <2>4. /\ whole \in Seq(Int) /\ Len(whole) = 3
        /\ whole[1] = one[1] /\ whole[2] = TRAILER[1] /\ whole[3] = TRAILER[2]
    BY <1>2, <2>1, <2>3
  <2>5. whole = MARKER
    BY <1>1, <2>1, <2>2, <2>4, SMTT(60)
  <2> QED
    BY <2>5 DEF whole
<1> HIDE DEF one
<1>6. \A s \in Seq(Int) : (s \o one) \o TRAILER = s \o MARKER
  <2> SUFFICES ASSUME NEW s \in Seq(Int) PROVE (s \o one) \o TRAILER = s \o MARKER
    OBVIOUS
  <2>1. (s \o one) \o TRAILER = s \o (one \o TRAILER)
    <3> HIDE DEF one
    <3>1. s \in Seq(Int) /\ one \in Seq(Int) /\ TRAILER \in Seq(Int)
      BY <1>2, <1>4
    <3> QED
      BY <3>1, AssocInts, Zenon
  <2> QED
    BY <2>1, <1>5, Zenon
<1> QED
  BY <1>1, <1>2, <1>4, <1>5, <1>6, Zenon DEF one

\* What the units a flush may yield come to in octets.
LEMMA SpelledUnits ==
  ASSUME NEW text \in Seq(Int)
  PROVE  LET u == Data(text, 0)
         IN /\ Spelled(<<>>) = <<>>
            /\ Spelled(<<Hdr, Trl>>) = MARKER
            /\ Spelled(<<u, Hdr, Trl>>) = text \o MARKER
            /\ Spelled(<<u, Hdr, Trl, Hdr, Trl>>) = (text \o MARKER) \o MARKER
<1> DEFINE u == Data(text, 0)
           hdr == <<MARKER[1]>>
           Octets(units) == [i \in DOMAIN units |-> OctetsOf(units[i])]
<1>1. /\ OctetsOf(u) = text /\ OctetsOf(Hdr) = hdr /\ OctetsOf(Trl) = TRAILER
  BY DEF OctetsOf, Data, Hdr, Trl, Mark
<1>2. hdr \in Seq(Int) /\ TRAILER \in Seq(Int) /\ MARKER \in Seq(Int) /\ hdr \o TRAILER = MARKER
  BY Markers, Zenon
<1>3. \A s \in Seq(Int) : (s \o hdr) \o TRAILER = s \o MARKER
  BY Markers, Zenon
<1> HIDE DEF u, hdr
<1>4. Spelled(<<>>) = <<>>
  BY DEF Spelled, FlattenSeq
<1>5. Spelled(<<Hdr, Trl>>) = MARKER
  <2> DEFINE seqs == Octets(<<Hdr, Trl>>)
             flat == Flat(seqs, 2)
  <2>1. Len(seqs) = 2 /\ seqs[1] = hdr /\ seqs[2] = TRAILER
    BY <1>1
  <2> HIDE DEF seqs
  <2>2. /\ FlattenSeq(seqs) = flat[2] /\ flat[1] = seqs[1]
        /\ flat[2] = flat[1] \o seqs[2]
    <3>1. 2 \in 1..5 /\ 2 >= 2
      OBVIOUS
    <3> QED
      BY <3>1, <2>1, FlattenStep, Zenon
  <2> HIDE DEF flat
  <2>3. FlattenSeq(seqs) = MARKER
    BY <2>1, <2>2, <1>2, Zenon
  <2> QED
    BY <2>3 DEF Spelled, seqs
<1>6. Spelled(<<u, Hdr, Trl>>) = text \o MARKER
  <2> DEFINE seqs == Octets(<<u, Hdr, Trl>>)
             flat == Flat(seqs, 3)
  <2>1. Len(seqs) = 3 /\ seqs[1] = text /\ seqs[2] = hdr /\ seqs[3] = TRAILER
    BY <1>1
  <2> HIDE DEF seqs
  <2>2. /\ FlattenSeq(seqs) = flat[3] /\ flat[1] = seqs[1]
        /\ flat[2] = flat[1] \o seqs[2] /\ flat[3] = flat[2] \o seqs[3]
    <3>1. 3 \in 1..5 /\ 3 >= 2 /\ 3 >= 3
      OBVIOUS
    <3> QED
      BY <3>1, <2>1, FlattenStep, Zenon
  <2> HIDE DEF flat
  <2>3. FlattenSeq(seqs) = text \o MARKER
    BY <2>1, <2>2, <1>3, Zenon
  <2> QED
    BY <2>3 DEF Spelled, seqs
<1>7. Spelled(<<u, Hdr, Trl, Hdr, Trl>>) = (text \o MARKER) \o MARKER
  <2> DEFINE seqs == Octets(<<u, Hdr, Trl, Hdr, Trl>>)
             flat == Flat(seqs, 5)
  <2>1. /\ Len(seqs) = 5 /\ seqs[1] = text /\ seqs[2] = hdr /\ seqs[3] = TRAILER
        /\ seqs[4] = hdr /\ seqs[5] = TRAILER
    BY <1>1
  <2> HIDE DEF seqs
  <2>2. /\ FlattenSeq(seqs) = flat[5] /\ flat[1] = seqs[1]
        /\ flat[2] = flat[1] \o seqs[2] /\ flat[3] = flat[2] \o seqs[3]
        /\ flat[4] = flat[3] \o seqs[4] /\ flat[5] = flat[4] \o seqs[5]
    <3>1. 5 \in 1..5 /\ 5 >= 2 /\ 5 >= 3 /\ 5 >= 4 /\ 5 >= 5
      OBVIOUS
    <3> QED
      BY <3>1, <2>1, FlattenStep, Zenon
  <2> HIDE DEF flat
  <2>3. flat[3] = text \o MARKER /\ text \o MARKER \in Seq(Int)
    BY <2>1, <2>2, <1>2, <1>3, JoinSeq, ZenonT(60)
  <2>4. FlattenSeq(seqs) = (text \o MARKER) \o MARKER
    BY <2>1, <2>2, <2>3, <1>3, Zenon
  <2> QED
    BY <2>4 DEF Spelled, seqs
<1> QED
  BY <1>4, <1>5, <1>6, <1>7 DEF u

-----------------------------------------------------------------------------
(* The inductive invariant.                                                 *)

Backends == [pending : Seq(Int), drained : BOOLEAN, mood : {"sound", "broken"}]

Size    == Len(call.payload)
Written == output \o backend.pending

\* What a fragment's output is, its trailer not yet stripped.
Wire == IF call.kind = "nonfinal" THEN output ELSE output \o TRAILER

\* The octets of a payload from one position to another.
Run(s, m, n) == s \in Seq(Nat) /\ Len(s) = n - m /\ \A i \in 1..(n - m) : s[i] = m + i

\* The payload and its framing, and nothing of a marker.
Carries(s, n) == s \in Seq(Nat) /\ Unframed(s) = Positions(n)

\* While payload is fed: what was taken is written or held back, in order.
FeedInv ==
  phase = "feed" =>
    /\ output \in Seq(Nat) /\ backend.pending \in Seq(Nat)
    /\ \E n \in 0..(Size - 1) :
         Run(input, n, Size) /\ Carries(Written, n)

\* A flush begins with no marker written, and goes on with one begun if the
\* room was full before all of it was out.
Unmarked ==
  /\ output \in Seq(Nat) /\ backend.pending \in Seq(Nat) /\ Carries(Written, Size)
  /\ Size = 0 => output = <<>> /\ backend.pending = <<>>
Marked ==
  /\ Size > 0 /\ Len(backend.pending) <= Len(MARKER)
  /\ \E s \in Seq(Nat) : Carries(s, Size) /\ Written = s \o MARKER

FlushInv ==
  phase = "flush" =>
    /\ result = "Ok" /\ input = <<>>
    /\ Unmarked \/ Marked
    /\ backend.drained => Size = 0
    /\ Size = 0 => backend.drained = before

\* What a prepare that succeeded left: the payload framed, and a marker or two;
\* or nothing, given nothing, with the octet a last frame needs made up.
Delivered ==
  \/ /\ Size = 0 => ~before
     /\ \E s \in Seq(Nat) :
          /\ Carries(s, Size)
          /\ Wire = s \o MARKER \/ (Size > 0 /\ Wire = (s \o MARKER) \o MARKER)
  \/ Size = 0 /\ output = IF call.kind = "nonfinal" THEN <<>> ELSE <<MARKER[1]>>

ReturnedInv ==
  /\ phase = "idle" => backend.pending = <<>>
  /\ phase = "idle" => input = <<>> /\ result = "Ok"
  /\ Returned => backend.pending = <<>> /\ input = <<>> /\ Delivered

IInv ==
  /\ TypeOK /\ backend \in Backends
  /\ FeedInv
  /\ FlushInv
  /\ ReturnedInv
  /\ SoundNeverFails

-----------------------------------------------------------------------------
(* Lemmas about the payload, the room, the trailer and the backend.         *)

LEMMA PositionsTyped ==
  ASSUME NEW n \in Nat
  PROVE  /\ Positions(n) \in Seq(Nat) /\ Positions(n) \in Seq(Int) /\ Len(Positions(n)) = n
         /\ Positions(n) = <<>> <=> n = 0
         /\ \A i \in 1..n : Positions(n)[i] = i
<1>1. /\ Positions(n) \in Seq(Nat) /\ Positions(n) \in Seq(Int) /\ Len(Positions(n)) = n
      /\ \A i \in 1..n : Positions(n)[i] = i
  BY DEF Positions
<1> QED
  BY <1>1

LEMMA IntsOfNats == ASSUME NEW s \in Seq(Nat) PROVE s \in Seq(Int)
  OBVIOUS

LEMMA RunWhole == ASSUME NEW n \in Nat PROVE Run(Positions(n), 0, n)
<1>1. n - 0 = n /\ \A i \in 1..n : 0 + i = i
  OBVIOUS
<1> QED
  BY <1>1, PositionsTyped DEF Run

LEMMA RunUnique ==
  ASSUME NEW m \in Nat, NEW n \in Nat, m <= n, NEW s, NEW t, Run(s, m, n), Run(t, m, n)
  PROVE  s = t
<1>1. /\ s \in Seq(Nat) /\ t \in Seq(Nat) /\ Len(s) = Len(t)
      /\ \A i \in 1..Len(s) : s[i] = t[i]
  BY DEF Run
<1> QED
  BY <1>1, SMTT(60)

LEMMA RunPart ==
  ASSUME NEW m \in Nat, NEW n \in Nat, NEW s, Run(s, m, n), NEW a \in Nat, NEW b \in a..(n - m)
  PROVE  Run(SubSeq(s, a + 1, b), m + a, m + b)
<1> DEFINE part == SubSeq(s, a + 1, b)
<1>1. s \in Seq(Nat) /\ Len(s) = n - m /\ \A i \in 1..(n - m) : s[i] = m + i
  BY DEF Run
<1>2. part \in Seq(Nat) /\ Len(part) = b - a /\ \A i \in 1..(b - a) : part[i] = s[a + i]
  <2>1. s \in Seq(Nat) /\ b \in a..Len(s)
    BY <1>1
  <2> QED
    BY <2>1, PartSeq
<1> HIDE DEF part
<1>3. /\ (m + b) - (m + a) = b - a
      /\ \A i \in 1..(b - a) : a + i \in 1..(n - m) /\ m + (a + i) = (m + a) + i
  OBVIOUS
<1>4. \A i \in 1..(b - a) : part[i] = (m + a) + i
  BY <1>1, <1>2, <1>3
<1>5. Run(part, m + a, m + b)
  BY <1>2, <1>3, <1>4, Zenon DEF Run
<1> QED
  BY <1>5 DEF part

LEMMA RunJoin ==
  ASSUME NEW m \in Nat, NEW n \in Nat, m <= n, NEW s, NEW t, Run(s, 0, m), Run(t, m, n)
  PROVE  Run(s \o t, 0, n)
<1> DEFINE whole == s \o t
<1>1. /\ s \in Seq(Nat) /\ Len(s) = m /\ \A i \in 1..m : s[i] = i
  BY DEF Run
<1>2. /\ t \in Seq(Nat) /\ Len(t) = n - m /\ \A i \in 1..(n - m) : t[i] = m + i
  BY DEF Run
<1>3. /\ whole \in Seq(Nat) /\ Len(whole) = Len(s) + Len(t)
      /\ \A i \in 1..Len(s) : whole[i] = s[i]
      /\ \A i \in 1..Len(t) : whole[Len(s) + i] = t[i]
  <2>1. s \in Seq(Nat) /\ t \in Seq(Nat)
    BY <1>1, <1>2, Zenon
  <2> QED
    BY <2>1
<1> HIDE DEF whole
<1>4. Len(whole) = n - 0
  BY <1>1, <1>2, <1>3
<1>5. \A i \in 1..(n - 0) : whole[i] = 0 + i
  <2> SUFFICES ASSUME NEW i \in 1..(n - 0) PROVE whole[i] = 0 + i
    OBVIOUS
  <2>1. CASE i <= m
    BY <2>1, <1>1, <1>3
  <2>2. CASE ~(i <= m)
    <3>1. i - m \in 1..(n - m) /\ m + (i - m) = 0 + i
      BY <2>2
    <3>2. whole[m + (i - m)] = t[i - m] /\ t[i - m] = m + (i - m)
      BY <3>1, <1>1, <1>2, <1>3
    <3> QED
      BY <3>1, <3>2
  <2> QED
    BY <2>1, <2>2, Zenon
<1>6. Run(whole, 0, n)
  BY <1>3, <1>4, <1>5, Zenon DEF Run
<1> QED
  BY <1>6 DEF whole

LEMMA RunTyped == ASSUME NEW m, NEW n, NEW s, Run(s, m, n) PROVE s \in Seq(Nat)
  BY DEF Run

LEMMA RunLen == ASSUME NEW m, NEW n, NEW s, Run(s, m, n) PROVE Len(s) = n - m
  BY DEF Run

LEMMA RunPlain ==
  ASSUME NEW m \in Nat, NEW n \in Nat, NEW s, Run(s, m, n)
  PROVE  Unframed(s) = s
<1>1. s \in Seq(Nat) /\ Len(s) = n - m /\ \A i \in 1..(n - m) : s[i] = m + i
  BY DEF Run
<1>2. s \in Seq(Int)
  BY <1>1, IntsOfNats
<1>3. \A i \in 1..Len(s) : s[i] # FRAME
  BY <1>1 DEF FRAME
<1> QED
  BY <1>2, <1>3, UnframedPlain

LEMMA RunEmpty ==
  ASSUME NEW m \in Nat, NEW n \in Nat, NEW s, Run(s, m, n)
  PROVE  (s = <<>>) <=> (m = n)
<1>1. s \in Seq(Nat) /\ Len(s) = n - m
  BY DEF Run
<1> QED
  BY <1>1

\* What is left of a payload, cut in two.
LEMMA RunCut ==
  ASSUME NEW m \in Nat, NEW n \in Nat, NEW s, Run(s, m, n), NEW k \in 0..(n - m)
  PROVE  /\ k \in Nat /\ m + k \in 0..n
         /\ Run(SubSeq(s, 1, k), m, m + k)
         /\ Run(SubSeq(s, k + 1, Len(s)), m + k, n)
<1>1. /\ k \in Nat /\ m + k \in Nat /\ m + k \in 0..n /\ m <= m + k /\ m + k <= n
      /\ 0 \in Nat /\ k \in 0..(n - m) /\ 0 + 1 = 1 /\ m + 0 = m
      /\ n - m \in k..(n - m) /\ m + (n - m) = n /\ 0 <= m + k
  OBVIOUS
<1>2. Run(SubSeq(s, 1, k), m, m + k)
  <2>1. Run(SubSeq(s, 0 + 1, k), m + 0, m + k)
    BY <1>1, RunPart, Zenon
  <2> QED
    BY <1>1, <2>1, Zenon
<1>3. Run(SubSeq(s, k + 1, Len(s)), m + k, n)
  <2>1. Run(SubSeq(s, k + 1, n - m), m + k, m + (n - m))
    BY <1>1, RunPart, Zenon
  <2>2. Len(s) = n - m
    BY RunLen, Zenon
  <2> QED
    BY <1>1, <2>1, <2>2, Zenon
<1> QED
  BY <1>1, <1>2, <1>3, Zenon

LEMMA RunGrows ==
  ASSUME NEW m \in Nat, NEW n \in Nat, m <= n, NEW s, Run(s, m, n)
  PROVE  Positions(m) \o s = Positions(n)
<1>1. Run(Positions(m), 0, m) /\ Run(Positions(n), 0, n) /\ 0 \in Nat /\ 0 <= n
  BY RunWhole
<1>2. Run(Positions(m) \o s, 0, n)
  BY <1>1, RunJoin, Zenon
<1> QED
  BY <1>1, <1>2, RunUnique, Zenon

\* Which makes it what is left from a later position on.
LEMMA RunRest ==
  ASSUME NEW m \in Nat, NEW n \in Nat, m <= n, NEW s
  PROVE  Run(s, m, n) <=> s = SubSeq(Positions(n), m + 1, n)
<1>1. m \in Nat /\ n \in m..(n - 0) /\ 0 + m = m /\ 0 + n = n /\ 0 \in Nat
  OBVIOUS
<1>2. Run(SubSeq(Positions(n), m + 1, n), 0 + m, 0 + n)
  BY <1>1, RunWhole, RunPart, Zenon
<1>3. Run(SubSeq(Positions(n), m + 1, n), m, n)
  BY <1>1, <1>2, Zenon
<1>4. Run(s, m, n) => s = SubSeq(Positions(n), m + 1, n)
  BY <1>3, RunUnique, Zenon
<1> QED
  BY <1>3, <1>4, Zenon

\* Payload and framing added to what carries the payload so far.
LEMMA CarriesMore ==
  ASSUME NEW m \in Nat, NEW k \in Nat, NEW front \in Seq(Nat), Unframed(front) = front,
         Positions(m) \o front = Positions(m + k), NEW f \in Nat, NEW s, Carries(s, m)
  PROVE  Carries((s \o Frames(f)) \o front, m + k)
<1> DEFINE frames == Frames(f)
<1>2. frames \in Seq(Nat)
  BY DEF Frames, FRAME
<1>3. Unframed(frames) = <<>>
  BY UnframedFrames
<1> HIDE DEF frames
<1>4. s \in Seq(Nat) /\ Unframed(s) = Positions(m)
  BY DEF Carries
<1>5. /\ s \o frames \in Seq(Nat) /\ (s \o frames) \o front \in Seq(Nat)
  BY <1>2, <1>4, JoinSeq, Zenon
<1>6. /\ s \in Seq(Int) /\ frames \in Seq(Int) /\ front \in Seq(Int)
      /\ s \o frames \in Seq(Int)
  BY <1>2, <1>4, <1>5, IntsOfNats, Zenon
<1>7. Unframed(s \o frames) = Positions(m)
  <2>1. Unframed(s \o frames) = Unframed(s) \o Unframed(frames)
    BY <1>6, UnframedJoin, Zenon
  <2>2. Positions(m) \o <<>> = Positions(m)
    BY PositionsTyped, JoinEmpty, Zenon
  <2> QED
    BY <2>1, <2>2, <1>3, <1>4, Zenon
<1>8. Unframed((s \o frames) \o front) = Positions(m + k)
  <2>1. Unframed((s \o frames) \o front) = Unframed(s \o frames) \o Unframed(front)
    BY <1>6, UnframedJoin, Zenon
  <2> QED
    BY <2>1, <1>7, Zenon
<1> QED
  BY <1>5, <1>8, Zenon DEF Carries, frames

\* The room of a round takes a marker twice, with an octet to spare.
LEMMA RoomTyped ==
  ASSUME NEW room \in Rooms, Size \in Nat
  PROVE  room \in Nat /\ room > 6 /\ room >= room_for(Size)
<1>1. Len(MARKER) = 3
  BY Markers
<1>2. room_for(Size) \in Nat /\ room_for(Size) > 6
  BY <1>1, RoomAssumption DEF room_for, Smaller
<1>3. room \in room_for(Size)..(room_for(Size) + Spare)
  BY DEF Rooms, Size
<1> QED
  BY <1>2, <1>3, SizesAssumption

\* What it is to end with the trailer.
LEMMA TrailerEnds ==
  ASSUME NEW out \in Seq(Int)
  PROVE  EndsWithTrailer(out) <=>
           Len(out) >= 2 /\ out[Len(out) - 1] = -2 /\ out[Len(out)] = -3
<1>1. /\ Reverse(TRAILER) = <<-3, -2>> /\ Len(Reverse(TRAILER)) = 2
  BY DEF Reverse, TRAILER
<1>2. /\ Reverse(out) \in Seq(Int) /\ Len(Reverse(out)) = Len(out)
      /\ Len(out) >= 2 => /\ Reverse(out)[1] = out[Len(out)]
                          /\ Reverse(out)[2] = out[Len(out) - 1]
  BY DEF Reverse
<1> QED
  BY <1>1, <1>2, SMTT(60) DEF EndsWithTrailer, IsSuffix, IsPrefix

LEMMA FrontNats ==
  ASSUME NEW s \in Seq(Int), NEW t \in Seq(Int), s \o t \in Seq(Nat)
  PROVE  s \in Seq(Nat)
<1> DEFINE whole == s \o t
<1>1. Len(whole) = Len(s) + Len(t) /\ \A i \in 1..Len(s) : whole[i] = s[i]
  BY JoinInts
<1>2. Len(s) \in Nat /\ Len(t) \in Nat /\ whole \in Seq(Nat)
  BY LenIsNat
<1> HIDE DEF whole
<1>3. \A i \in 1..Len(s) : s[i] \in Nat
  <2>1. \A i \in 1..Len(s) : i \in 1..Len(whole)
    BY <1>1, <1>2
  <2>2. \A i \in 1..Len(whole) : whole[i] \in Nat
    BY <1>2
  <2> QED
    BY <1>1, <2>1, <2>2, Zenon
<1> QED
  BY <1>3

LEMMA NoTrailer == ASSUME NEW out \in Seq(Nat) PROVE ~EndsWithTrailer(out)
<1>1. out \in Seq(Int) /\ Len(out) \in Nat /\ (Len(out) >= 2 => out[Len(out)] \in Nat)
  OBVIOUS
<1> QED
  BY <1>1, TrailerEnds

LEMMA MarkerEnds == ASSUME NEW s \in Seq(Int) PROVE EndsWithTrailer(s \o MARKER)
<1> DEFINE whole == s \o MARKER
<1>1. MARKER \in Seq(Int) /\ Len(MARKER) = 3 /\ MARKER[2] = -2 /\ MARKER[3] = -3
  BY DEF MARKER
<1>2. /\ whole \in Seq(Int) /\ Len(whole) = Len(s) + Len(MARKER)
      /\ \A i \in 1..Len(MARKER) : whole[Len(s) + i] = MARKER[i]
  BY <1>1, JoinInts
<1> HIDE DEF whole
<1>3. /\ Len(s) \in Nat /\ Len(whole) = Len(s) + 3 /\ Len(whole) - 1 = Len(s) + 2
      /\ whole[Len(s) + 2] = -2 /\ whole[Len(s) + 3] = -3
  BY <1>1, <1>2, LenIsNat
<1>4. EndsWithTrailer(whole)
  <2>1. Len(whole) >= 2
    BY <1>3
  <2>2. whole[Len(whole) - 1] = -2 /\ whole[Len(whole)] = -3
    BY <1>3, Zenon
  <2> QED
    BY <2>1, <2>2, <1>2, TrailerEnds, Zenon
<1> QED
  BY <1>4 DEF whole

\* Who has written the trailer has written the marker whole.
LEMMA MarkedEnd ==
  ASSUME NEW s \in Seq(Nat), NEW out \in Seq(Int), NEW rest \in Seq(Int),
         out \o rest = s \o MARKER, Len(rest) <= 3, EndsWithTrailer(out)
  PROVE  rest = <<>>
<1> DEFINE whole == s \o MARKER
           other == out \o rest
<1>1. /\ MARKER \in Seq(Int) /\ Len(MARKER) = 3
      /\ MARKER[1] = -1 /\ MARKER[2] = -2 /\ MARKER[3] = -3
  BY DEF MARKER
<1>2. s \in Seq(Int) /\ Len(s) \in Nat /\ \A i \in 1..Len(s) : s[i] \in Nat
  OBVIOUS
<1>3. /\ Len(whole) = Len(s) + Len(MARKER)
      /\ \A i \in 1..Len(s) : whole[i] = s[i]
      /\ \A i \in 1..Len(MARKER) : whole[Len(s) + i] = MARKER[i]
  BY <1>1, <1>2, JoinInts
<1>4. /\ Len(other) = Len(out) + Len(rest) /\ \A i \in 1..Len(out) : other[i] = out[i]
  BY JoinInts
<1>5. Len(out) \in Nat /\ Len(rest) \in Nat
  BY LenIsNat
<1>6. Len(out) >= 2 /\ out[Len(out)] = -3
  BY TrailerEnds
<1> HIDE DEF whole, other
<1>7. other = whole
  BY DEF whole, other
<1>8. Len(out) + Len(rest) = Len(s) + 3 /\ whole[Len(out)] = -3
  <2>1. Len(other) = Len(s) + 3
    BY <1>1, <1>3, <1>7, Zenon
  <2>2. Len(out) \in 1..Len(out)
    BY <1>5, <1>6
  <2>3. other[Len(out)] = -3
    BY <2>2, <1>4, <1>6, Zenon
  <2> QED
    BY <2>1, <2>3, <1>4, <1>7, Zenon
<1>9. /\ whole[Len(s) + 1] = -1 /\ whole[Len(s) + 2] = -2
      /\ \A i \in 1..Len(s) : whole[i] \in Nat
  <2>1. 1 \in 1..3 /\ 2 \in 1..3
    OBVIOUS
  <2>2. whole[Len(s) + 1] = -1 /\ whole[Len(s) + 2] = -2
    BY <2>1, <1>1, <1>3, Zenon
  <2> QED
    BY <2>2, <1>2, <1>3, Zenon
<1>10. /\ Len(out) # Len(s) + 1 /\ Len(out) # Len(s) + 2 /\ ~(Len(out) \in 1..Len(s))
  BY <1>8, <1>9, SMTT(60)
<1>11. Len(rest) = 0
  BY <1>2, <1>5, <1>6, <1>8, <1>10, SMTT(60)
<1> QED
  BY <1>11

\* What a finished flush returns, a last frame's octets without the trailer.
Finished(out) ==
  IF call.kind = "last" THEN strip_or_synthesize(call.payload, out)
  ELSE produce_non_final(call.payload, out)

LEMMA Finishes ==
  ASSUME NEW out \in Seq(Int), call.kind \in {"last", "nonfinal"}
  PROVE  /\ Finished(out).bytes \in Seq(Int) /\ Finished(out).result \in {"Ok", "CompressionFailed"}
         /\ Finished(out).result = "Ok" <=> EndsWithTrailer(out) \/ (call.payload = <<>> /\ out = <<>>)
         /\ EndsWithTrailer(out) =>
              out = IF call.kind = "nonfinal" THEN Finished(out).bytes ELSE Finished(out).bytes \o TRAILER
         /\ ~EndsWithTrailer(out) /\ Finished(out).result = "Ok" =>
              Finished(out).bytes = IF call.kind = "nonfinal" THEN <<>> ELSE <<MARKER[1]>>
<1> DEFINE front == SubSeq(out, 1, Len(out) - 2)
           back  == SubSeq(out, Len(out) - 2 + 1, Len(out))
<1>1. Len(TRAILER) = 2 /\ <<MARKER[1]>> \in Seq(Int)
  BY Markers
<1>2. ASSUME EndsWithTrailer(out) PROVE front \in Seq(Int) /\ front \o TRAILER = out
  <2>1. Len(out) >= 2 /\ out[Len(out) - 1] = -2 /\ out[Len(out)] = -3
    BY <1>2, TrailerEnds
  <2>2. Len(out) - 2 \in 0..Len(out) /\ Len(out) \in Nat
    BY <2>1
  <2>3. front \in Seq(Int) /\ front \o back = out
    BY <2>2, CutSeq
  <2>4. back = TRAILER
    <3>1. /\ Len(out) - 2 \in Nat /\ Len(out) \in (Len(out) - 2)..Len(out)
          /\ Len(out) - (Len(out) - 2) = 2
          /\ Len(out) - 2 + 1 = Len(out) - 1 /\ Len(out) - 2 + 2 = Len(out)
      BY <2>1, <2>2
    <3>2. /\ back \in Seq(Int) /\ Len(back) = 2
          /\ \A i \in 1..2 : back[i] = out[Len(out) - 2 + i]
      BY <3>1, PartSeq
    <3> HIDE DEF back
    <3>3. back[1] = -2 /\ back[2] = -3
      BY <2>1, <3>1, <3>2
    <3> QED
      BY <3>2, <3>3 DEF TRAILER
  <2> QED
    BY <2>3, <2>4
<1>3. CASE call.kind = "last"
  <2>1. CASE EndsWithTrailer(out)
    <3>1. Finished(out) = Ok(front)
      BY <1>1, <1>3, <2>1 DEF Finished, strip_or_synthesize
    <3> HIDE DEF front
    <3>2. Finished(out).bytes = front /\ Finished(out).result = "Ok"
      BY <3>1 DEF Ok
    <3> QED
      BY <3>2, <1>2, <1>3, <2>1
  <2>2. CASE ~EndsWithTrailer(out)
    <3>1. Finished(out) = IF call.payload = <<>> /\ out = <<>> THEN Ok(<<MARKER[1]>>) ELSE Failed(out)
      BY <1>3, <2>2 DEF Finished, strip_or_synthesize
    <3>2. CASE call.payload = <<>> /\ out = <<>>
      <4>1. Finished(out).bytes = <<MARKER[1]>> /\ Finished(out).result = "Ok"
        BY <3>1, <3>2 DEF Ok
      <4> QED
        BY <4>1, <1>1, <1>3, <2>2, <3>2
    <3>3. CASE ~(call.payload = <<>> /\ out = <<>>)
      <4>1. Finished(out).bytes = out /\ Finished(out).result = "CompressionFailed"
        BY <3>1, <3>3 DEF Failed
      <4> QED
        BY <4>1, <2>2, <3>3
    <3> QED
      BY <3>2, <3>3
  <2> QED
    BY <2>1, <2>2
<1>4. CASE call.kind = "nonfinal"
  <2>1. Finished(out) = IF EndsWithTrailer(out) \/ (call.payload = <<>> /\ out = <<>>)
                    THEN Ok(out) ELSE Failed(out)
    BY <1>4 DEF Finished, produce_non_final
  <2>2. /\ Finished(out).bytes = out
        /\ Finished(out).result = IF EndsWithTrailer(out) \/ (call.payload = <<>> /\ out = <<>>)
                              THEN "Ok" ELSE "CompressionFailed"
    BY <2>1 DEF Ok, Failed
  <2> QED
    BY <2>2, <1>4
<1> QED
  BY <1>3, <1>4

\* What a call of the backend did: of what was due it wrote the first `produced`
\* octets, and holds the others.
Does(round, due, consumed, produced, drained, mood) ==
  /\ round.consumed = consumed
  /\ round.produced \in Seq(Int) /\ Len(round.produced) = produced
  /\ round.now \in Backends /\ round.now.drained = drained /\ round.now.mood = mood
  /\ Len(round.now.pending) = Len(due) - produced
  /\ round.produced \o round.now.pending = due
  /\ due \in Seq(Nat) => round.produced \in Seq(Nat) /\ round.now.pending \in Seq(Nat)

LEMMA BackendFields ==
  ASSUME NEW b \in Backends, NEW rest \in Seq(Int), NEW drained \in BOOLEAN
  PROVE  LET now == [b EXCEPT !.pending = rest, !.drained = drained]
         IN /\ now \in Backends /\ now.pending = rest /\ now.drained = drained /\ now.mood = b.mood
            /\ [now EXCEPT !.mood = "broken"] \in Backends
            /\ [now EXCEPT !.mood = "broken"].pending = rest
            /\ [now EXCEPT !.mood = "broken"].drained = drained
            /\ [now EXCEPT !.mood = "broken"].mood = "broken"
  BY DEF Backends

LEMMA CutInts ==
  ASSUME NEW due \in Seq(Int), NEW p \in 0..Len(due)
  PROVE  /\ SubSeq(due, 1, p) \in Seq(Int) /\ Len(SubSeq(due, 1, p)) = p
         /\ SubSeq(due, p + 1, Len(due)) \in Seq(Int)
         /\ Len(SubSeq(due, p + 1, Len(due))) = Len(due) - p
         /\ SubSeq(due, 1, p) \o SubSeq(due, p + 1, Len(due)) = due
         /\ due \in Seq(Nat) =>
              SubSeq(due, 1, p) \in Seq(Nat) /\ SubSeq(due, p + 1, Len(due)) \in Seq(Nat)
<1> DEFINE front == SubSeq(due, 1, p)
           back  == SubSeq(due, p + 1, Len(due))
<1>1. /\ front \in Seq(Int) /\ Len(front) = p
      /\ back \in Seq(Int) /\ Len(back) = Len(due) - p
      /\ front \o back = due
  BY CutSeq, Zenon
<1>2. due \in Seq(Nat) =>
        SubSeq(due, 1, p) \in Seq(Nat) /\ SubSeq(due, p + 1, Len(due)) \in Seq(Nat)
  <2> SUFFICES ASSUME due \in Seq(Nat)
               PROVE  /\ SubSeq(due, 1, p) \in Seq(Nat)
                      /\ SubSeq(due, p + 1, Len(due)) \in Seq(Nat)
    OBVIOUS
  <2> QED
    BY CutSeq, Zenon
<1> QED
  BY <1>1, <1>2, Zenon

LEMMA CutDoes ==
  ASSUME NEW due \in Seq(Int), NEW consumed, NEW p \in 0..Len(due), NEW drained, NEW mood,
         NEW round, round.consumed = consumed, round.produced = SubSeq(due, 1, p),
         round.now \in Backends, round.now.drained = drained, round.now.mood = mood,
         round.now.pending = SubSeq(due, p + 1, Len(due))
  PROVE  Does(round, due, consumed, p, drained, mood)
<1> DEFINE front == SubSeq(due, 1, p)
           back  == SubSeq(due, p + 1, Len(due))
<1>1. /\ front \in Seq(Int) /\ Len(front) = p /\ Len(back) = Len(due) - p
      /\ front \o back = due
  BY CutInts, Zenon
<1>2. due \in Seq(Nat) => front \in Seq(Nat) /\ back \in Seq(Nat)
  BY CutInts, Zenon
<1> HIDE DEF front, back
<1>3. round.produced = front /\ round.now.pending = back
  BY DEF front, back
<1> QED
  BY <1>1, <1>2, <1>3, Zenon DEF Does

LEMMA EmitsDoes ==
  ASSUME NEW b \in Backends, NEW due \in Seq(Int), NEW consumed, NEW p \in 0..Len(due),
         NEW drained \in BOOLEAN
  PROVE  /\ Does(Emits(b, due, consumed, p, drained), due, consumed, p, drained, b.mood)
         /\ Does([Emits(b, due, consumed, p, drained) EXCEPT !.now.mood = "broken"],
                 due, consumed, p, drained, "broken")
<1> DEFINE front == SubSeq(due, 1, p)
           back  == SubSeq(due, p + 1, Len(due))
           now   == [b EXCEPT !.pending = back, !.drained = drained]
           late  == [now EXCEPT !.mood = "broken"]
           round == Emits(b, due, consumed, p, drained)
           last  == [round EXCEPT !.now.mood = "broken"]
<1>1. back \in Seq(Int)
  BY CutSeq
<1> HIDE DEF front, back
<1>2. round = [consumed |-> consumed, produced |-> front, now |-> now]
  BY DEF Emits, Round, front, back
<1>3. /\ now \in Backends /\ now.pending = back /\ now.drained = drained /\ now.mood = b.mood
      /\ late \in Backends /\ late.pending = back /\ late.drained = drained
      /\ late.mood = "broken"
  BY <1>1 DEF Backends
<1> HIDE DEF now, round
<1>4. round.consumed = consumed /\ round.produced = front /\ round.now = now
  BY <1>2
<1>5. last = [round EXCEPT !.now = [round.now EXCEPT !.mood = "broken"]]
  OBVIOUS
<1>6. last.consumed = consumed /\ last.produced = front /\ last.now = late
  BY <1>2, <1>4, <1>5
<1> HIDE DEF late, last
<1>7. Does(round, due, consumed, p, drained, b.mood)
  BY <1>3, <1>4, CutDoes DEF front, back
<1>8. Does(last, due, consumed, p, drained, "broken")
  BY <1>3, <1>6, CutDoes DEF front, back
<1> QED
  BY <1>7, <1>8 DEF round, last

\* One header to every stored block begun.
LEMMA HeadersTyped == ASSUME NEW n \in Nat PROVE Headers(n) \in Nat
<1>1. MaxStored \in Nat /\ MaxStored > 0 /\ n + MaxStored - 1 \in Nat
  BY SizesAssumption
<1> QED
  BY <1>1 DEF Headers

\* A call without a flush stops for want of input or of room.
LEMMA DeflatesDoes ==
  ASSUME NEW b \in Backends, NEW from \in Seq(Int), NEW room \in Nat,
         NEW round \in Deflates(b, from, room)
  PROVE  \E k \in 0..Len(from), f \in Nat, p \in Nat :
           /\ k = Len(from) \/ p = room
           /\ Does(round, (b.pending \o Frames(f)) \o SubSeq(from, 1, k), k, p, FALSE, b.mood)
           /\ f <= Headers(k) + Expansion
           /\ Len((b.pending \o Frames(f)) \o SubSeq(from, 1, k)) - p <= MaxHeld
<1> DEFINE due(k, f) == (b.pending \o Frames(f)) \o SubSeq(from, 1, k)
           Portions(k, f) == {p \in 0..Smaller(room, Len(due(k, f))) :
             (k = Len(from) \/ p = room) /\ Len(due(k, f)) - p <= MaxHeld}
           Framings(k) == IF k = 0 THEN {0} ELSE 0..(Headers(k) + Expansion)
           Rounds(k, f) == {Emits(b, due(k, f), k, p, FALSE) : p \in Portions(k, f)}
<1>1. round \in UNION {UNION {Rounds(k, f) : f \in Framings(k)} : k \in 0..Len(from)}
  BY DEF Deflates
<1> HIDE DEF due, Portions, Framings, Rounds
<1>2. PICK k \in 0..Len(from) : \E f \in Framings(k) : round \in Rounds(k, f)
  BY <1>1
<1>3. PICK f \in Framings(k) : round \in Rounds(k, f)
  BY <1>2
<1>4. PICK p \in Portions(k, f) : round = Emits(b, due(k, f), k, p, FALSE)
  BY <1>3 DEF Rounds
<1>5. f \in Nat /\ f <= Headers(k) + Expansion
  <2>1. k \in Nat
    OBVIOUS
  <2> DEFINE most == Headers(k) + Expansion
  <2>2. most \in Nat
    <3>1. Headers(k) \in Nat
      BY <2>1, HeadersTyped, Zenon
    <3>2. Expansion \in Nat
      BY SizesAssumption
    <3>3. \A x, y \in Nat : x + y \in Nat
      OBVIOUS
    <3> QED
      BY <3>1, <3>2, <3>3, Zenon
  <2>3. f \in {0} \/ f \in 0..most
    BY Zenon DEF Framings
  <2> HIDE DEF most
  <2>4. f \in Nat /\ f <= most
    BY <2>2, <2>3
  <2> QED
    BY <2>4 DEF most
<1>6. due(k, f) \in Seq(Int)
  <2>1. Frames(f) \in Seq(Int)
    BY <1>5 DEF Frames, FRAME
  <2>2. SubSeq(from, 1, k) \in Seq(Int)
    BY CutInts, Zenon
  <2>3. b.pending \in Seq(Int)
    BY DEF Backends
  <2> QED
    BY <2>1, <2>2, <2>3, JoinInts, Zenon DEF due
<1>7. /\ p \in 0..Len(due(k, f)) /\ p \in Nat /\ (k = Len(from) \/ p = room)
      /\ Len(due(k, f)) - p <= MaxHeld
  <2>1. Len(due(k, f)) \in Nat
    BY <1>6, LenIsNat
  <2> QED
    BY <2>1 DEF Smaller, Portions
<1>8. Does(round, due(k, f), k, p, FALSE, b.mood)
  BY <1>4, <1>6, <1>7, EmitsDoes
<1> QED
  BY <1>5, <1>7, <1>8 DEF due

\* A broken call, and a flush that stops short, write some of what is pending.
LEMMA BreaksDoes ==
  ASSUME NEW b \in Backends, NEW round \in Breaks(b)
  PROVE  Does(round, b.pending, 0, 0, b.drained, "broken")
<1>1. round = [consumed |-> 0, produced |-> <<>>, now |-> [b EXCEPT !.mood = "broken"]]
  BY DEF Breaks, Round
<1>2. /\ round.consumed = 0 /\ round.produced = <<>>
      /\ round.now \in Backends /\ round.now.drained = b.drained /\ round.now.mood = "broken"
      /\ round.now.pending = b.pending /\ b.pending \in Seq(Int)
  BY <1>1 DEF Backends
<1>3. SubSeq(b.pending, 1, 0) = <<>> /\ SubSeq(b.pending, 0 + 1, Len(b.pending)) = b.pending
      /\ 0 \in 0..Len(b.pending)
  BY <1>2
<1> QED
  BY <1>2, <1>3, CutDoes

LEMMA StopsDoes ==
  ASSUME NEW b \in Backends, NEW room \in Nat, NEW round \in StopsShort(b, room)
  PROVE  \E p \in 0..Len(b.pending) :
           p < room /\ Does(round, b.pending, 0, p, FALSE, "broken")
<1>1. b.pending \in Seq(Int)
  BY DEF Backends
<1>2. PICK p \in 0..Len(b.pending) :
        p < room /\ round = [Emits(b, b.pending, 0, p, FALSE) EXCEPT !.now.mood = "broken"]
  BY DEF StopsShort
<1>3. Does([Emits(b, b.pending, 0, p, FALSE) EXCEPT !.now.mood = "broken"],
           b.pending, 0, p, FALSE, "broken")
  BY <1>1, EmitsDoes, Zenon
<1> QED
  BY <1>2, <1>3

\* A sound flush refuses a redundant one, fills the room, or ends in the marker.
LEMMA FlushesDoes ==
  ASSUME NEW b \in Backends, NEW room \in Nat
  PROVE  LET round == Flushes(b, room)
             due   == b.pending \o MARKER
         IN \/ b.drained /\ b.pending = <<>> /\ Does(round, <<>>, 0, 0, TRUE, b.mood)
            \/ Len(b.pending) >= room /\ Does(round, b.pending, 0, room, FALSE, b.mood)
            \/ /\ ~(b.drained /\ b.pending = <<>>) /\ Len(b.pending) < room
               /\ Len(due) < room /\ Does(round, due, 0, Len(due), TRUE, b.mood)
            \/ /\ Len(b.pending) < room
               /\ Len(due) >= room /\ Does(round, due, 0, room, FALSE, b.mood)
<1> DEFINE due == b.pending \o MARKER
           round == Flushes(b, room)
<1>1. /\ b.pending \in Seq(Int) /\ b.drained \in BOOLEAN /\ MARKER \in Seq(Int)
      /\ Len(b.pending) \in Nat
  BY Markers DEF Backends
<1>2. due \in Seq(Int) /\ Len(due) \in Nat
  BY <1>1, JoinInts
<1> HIDE DEF due
<1>3. CASE b.drained /\ b.pending = <<>>
  <2>1. round = [consumed |-> 0, produced |-> <<>>, now |-> b]
    BY <1>3 DEF Flushes, Round
  <2> HIDE DEF round
  <2>2. /\ round.consumed = 0 /\ round.produced = <<>> /\ round.now = b
        /\ b.drained = TRUE /\ <<>> \in Seq(Int) /\ 0 \in 0..Len(<<>>)
        /\ SubSeq(<<>>, 1, 0) = <<>> /\ SubSeq(<<>>, 0 + 1, Len(<<>>)) = <<>>
    BY <2>1, <1>1, <1>3
  <2>3. Does(round, <<>>, 0, 0, TRUE, b.mood)
    BY <2>2, <1>3, CutDoes
  <2> QED
    BY <2>3, <1>3 DEF round
<1>4. CASE ~(b.drained /\ b.pending = <<>>) /\ Len(b.pending) >= room
  <2>0. room \in 0..Len(b.pending)
    BY <1>1, <1>4
  <2>1. round = Emits(b, b.pending, 0, room, FALSE) /\ room \in 0..Len(b.pending)
    BY <2>0, <1>4, Zenon DEF Flushes
  <2>2. Does(round, b.pending, 0, room, FALSE, b.mood)
    BY <2>1, <1>1, EmitsDoes
  <2> QED
    BY <2>2, <1>4
<1>5. CASE ~(b.drained /\ b.pending = <<>>) /\ ~(Len(b.pending) >= room)
  <2>1. round = Emits(b, due, 0, Smaller(room, Len(due)), Len(due) < room)
    BY <1>5, Zenon DEF Flushes, due
  <2>2. Len(b.pending) < room
    BY <1>1, <1>5
  <2>3. CASE Len(due) < room
    <3>1. Smaller(room, Len(due)) = Len(due) /\ Len(due) \in 0..Len(due) /\ (Len(due) < room) = TRUE
      BY <2>3, <1>2 DEF Smaller
    <3>2. round = Emits(b, due, 0, Len(due), TRUE)
      BY <2>1, <3>1, Zenon
    <3>3. Does(round, due, 0, Len(due), TRUE, b.mood)
      BY <3>1, <3>2, <1>2, EmitsDoes
    <3> QED
      BY <3>3, <2>2, <2>3, <1>5 DEF due
  <2>4. CASE ~(Len(due) < room)
    <3>1. /\ Smaller(room, Len(due)) = room /\ room \in 0..Len(due) /\ (Len(due) < room) = FALSE
          /\ Len(due) >= room
      BY <2>4, <1>2 DEF Smaller
    <3>2. round = Emits(b, due, 0, room, FALSE)
      BY <2>1, <3>1, Zenon
    <3>3. Does(round, due, 0, room, FALSE, b.mood)
      BY <3>1, <3>2, <1>2, EmitsDoes
    <3> QED
      BY <3>1, <3>3, <2>2 DEF due
  <2> QED
    BY <2>3, <2>4
<1> QED
  BY <1>3, <1>4, <1>5, Zenon DEF due

-----------------------------------------------------------------------------
(* The invariant is inductive.                                              *)

LEMMA PayloadTyped ==
  ASSUME TypeOK
  PROVE  /\ Size \in Nat /\ Size \in Lengths \cup {0} /\ call.payload = Positions(Size)
         /\ call.payload = <<>> <=> Size = 0
<1>1. PICK n \in Lengths \cup {0} : call.payload = Positions(n)
  BY DEF TypeOK
<1>2. n \in Nat
  BY SizesAssumption
<1>3. Size = n
  BY <1>1, <1>2, PositionsTyped, Zenon DEF Size
<1>4. Positions(n) = <<>> <=> n = 0
  BY <1>2, PositionsTyped, Zenon
<1> QED
  BY <1>1, <1>2, <1>3, <1>4, Zenon

LEMMA CarriesNothing == Carries(<<>> \o <<>>, 0)
<1>1. <<>> \o <<>> = <<>> /\ <<>> \in Seq(Nat)
  OBVIOUS
<1>2. Positions(0) = <<>>
  BY PositionsTyped
<1> QED
  BY <1>1, <1>2, UnframedEmpty, Zenon DEF Carries

LEMMA InitInv == ASSUME Init PROVE IInv
<1>1. TypeOK
  <2>1. /\ call.kind = "last" /\ call.payload = <<>> /\ input = <<>> /\ output = <<>>
        /\ phase = "idle" /\ result = "Ok" /\ before = FALSE /\ calls = 0
        /\ backend.pending = <<>> /\ backend.drained = FALSE /\ backend.mood = "sound"
    BY DEF Init
  <2>2. <<>> = Positions(0) /\ <<>> \in Seq(Int)
    BY PositionsTyped
  <2>3. \E n \in Lengths \cup {0} : call.payload = Positions(n)
    BY <2>1, <2>2
  <2>4. \E i \in 0..Len(call.payload) : input = SubSeq(call.payload, i + 1, Len(call.payload))
    <3>1. 0 \in 0..Len(<<>>) /\ <<>> = SubSeq(<<>>, 0 + 1, Len(<<>>))
      OBVIOUS
    <3> QED
      BY <2>1, <3>1, Zenon
  <2>5. 0 \in 0..MaxCalls
    BY SizesAssumption
  <2> QED
    BY <2>1, <2>2, <2>3, <2>4, <2>5 DEF TypeOK
<1>2. backend \in Backends
  <2>1. <<>> \in Seq(Int)
    OBVIOUS
  <2> QED
    BY <2>1 DEF Init, Backends
<1>3. FeedInv /\ FlushInv /\ ReturnedInv /\ SoundNeverFails
  BY DEF Init, FeedInv, FlushInv, ReturnedInv, Returned, SoundNeverFails
<1> QED
  BY <1>1, <1>2, <1>3 DEF IInv

\* A prepare begins with nothing of the last one in the compressor.
LEMMA BeginKeeps ==
  ASSUME IInv, NEW kind \in {"last", "nonfinal"}, NEW n \in Lengths, Begin(kind, n)
  PROVE  IInv'
<1>1. /\ TypeOK /\ backend \in Backends /\ backend.pending = <<>> /\ n \in Nat
  BY SizesAssumption DEF IInv, ReturnedInv, Returned, Begin
<1>2. /\ call' = [kind |-> kind, payload |-> Positions(n)] /\ calls' \in 0..MaxCalls
      /\ phase' = IF n = 0 THEN "flush" ELSE "feed"
      /\ input' = Positions(n) /\ output' = <<>> /\ result' = "Ok"
      /\ before' = backend.drained /\ backend' = backend
  BY <1>1, SizesAssumption DEF Begin, TypeOK
<1>3. call'.kind = kind /\ call'.payload = Positions(n)
  BY <1>2
<1>4. /\ Positions(n) \in Seq(Nat) /\ Len(Positions(n)) = n
      /\ Positions(n) = <<>> <=> n = 0
  BY <1>1, PositionsTyped, Zenon
<1>5. Size' = n /\ Written' = <<>> \o <<>>
  BY <1>1, <1>2, <1>3, <1>4, Zenon DEF Size, Written
<1>6. Run(Positions(n), 0, n) /\ Carries(Written', 0) /\ <<>> \in Seq(Nat) /\ <<>> \in Seq(Int)
  <2>1. <<>> \in Seq(Nat) /\ <<>> \in Seq(Int)
    OBVIOUS
  <2> QED
    BY <2>1, <1>1, <1>5, RunWhole, CarriesNothing, Zenon
<1>7. TypeOK'
  <2>1. \E i \in 0..Len(call'.payload) :
          input' = SubSeq(call'.payload, i + 1, Len(call'.payload))
    <3>1. 0 \in 0..n /\ 0 \in Nat /\ 0 <= n
      BY <1>1
    <3>2. Positions(n) = SubSeq(Positions(n), 0 + 1, n)
      BY <1>1, <1>6, <3>1, RunRest, Zenon
    <3> QED
      BY <3>1, <3>2, <1>2, <1>3, <1>4, Zenon
  <2>2. \E i \in Lengths \cup {0} : call'.payload = Positions(i)
    BY <1>3
  <2>3. phase' \in {"idle", "feed", "flush", "done"}
        /\ (phase' = "feed" <=> (input' # <<>> /\ result' = "Ok"))
    BY <1>2, <1>4
  <2>4. /\ output' \in Seq(Int) /\ backend'.pending \in Seq(Int)
        /\ result' \in {"Ok", "CompressionFailed", "Stalled"}
        /\ backend'.drained \in BOOLEAN /\ backend'.mood \in {"sound", "broken"}
        /\ before' \in BOOLEAN
    BY <1>1, <1>2, <1>6 DEF Backends
  <2> QED
    BY <2>1, <2>2, <2>3, <2>4, <1>2, <1>3, Zenon DEF TypeOK
<1>8. FeedInv'
  <2> SUFFICES ASSUME phase' = "feed"
               PROVE  /\ output' \in Seq(Nat) /\ backend'.pending \in Seq(Nat)
                      /\ \E m \in 0..(Size' - 1) : Run(input', m, Size') /\ Carries(Written', m)
    BY DEF FeedInv
  <2>1. 0 \in 0..(n - 1)
    BY <1>1, <1>2
  <2> QED
    BY <2>1, <1>1, <1>2, <1>5, <1>6, Zenon
<1>9. FlushInv'
  <2> SUFFICES ASSUME phase' = "flush"
               PROVE  /\ result' = "Ok" /\ input' = <<>> /\ Unmarked'
                      /\ backend'.drained => Size' = 0
                      /\ Size' = 0 => backend'.drained = before'
    BY DEF FlushInv
  <2>1. n = 0
    BY <1>2
  <2>2. Unmarked'
    BY <2>1, <1>1, <1>2, <1>5, <1>6, Zenon DEF Unmarked
  <2> QED
    BY <2>1, <2>2, <1>2, <1>4, <1>5, Zenon
<1>10. ReturnedInv' /\ SoundNeverFails'
  BY <1>2 DEF ReturnedInv, Returned, SoundNeverFails
<1> QED
  BY <1>1, <1>2, <1>7, <1>8, <1>9, <1>10 DEF IInv

\* A prepare that fails leaves a broken backend.
LEMMA FailKeeps ==
  ASSUME TypeOK, NEW error \in {"CompressionFailed", "Stalled"}, Fails(error),
         backend' \in Backends, backend'.mood = "broken"
  PROVE  IInv'
<1>1. /\ phase' = "done" /\ result' = error /\ error # "Ok"
      /\ call' = call /\ input' = input /\ output' = output /\ before' = before
      /\ calls' = calls
  BY DEF Fails
<1>2. TypeOK'
  <2>1. /\ backend'.pending \in Seq(Int) /\ backend'.drained \in BOOLEAN
        /\ backend'.mood \in {"sound", "broken"}
    BY DEF Backends
  <2> QED
    BY <1>1, <2>1 DEF TypeOK
<1>3. FeedInv' /\ FlushInv' /\ ReturnedInv' /\ SoundNeverFails'
  BY <1>1 DEF FeedInv, FlushInv, ReturnedInv, Returned, SoundNeverFails
<1> QED
  BY <1>2, <1>3 DEF IInv

LEMMA DriveFailsKeeps == ASSUME IInv, DriveFails PROVE IInv'
<1>1. TypeOK /\ backend \in Backends
  BY DEF IInv
<1>2. PICK error \in {"CompressionFailed"} : Fails(error)
  BY DEF DriveFails, drive_errors
<1>3. backend' \in Backends /\ backend'.mood = "broken"
  BY <1>1 DEF DriveFails, Backends
<1> QED
  BY <1>1, <1>2, <1>3, FailKeeps

LEMMA JoinNats == ASSUME NEW s \in Seq(Nat), NEW t \in Seq(Nat) PROVE s \o t \in Seq(Nat)
  OBVIOUS

LEMMA AssocNats ==
  ASSUME NEW s \in Seq(Nat), NEW t \in Seq(Nat), NEW u \in Seq(Nat)
  PROVE  (s \o t) \o u = s \o (t \o u)
  BY SMTT(60)

LEMMA FeedRoundKeeps ==
  ASSUME IInv, FeedRound
  PROVE  IInv' /\ (phase' = "flush" => Unmarked')
<1>1. /\ TypeOK /\ backend \in Backends /\ phase = "feed" /\ result = "Ok" /\ input # <<>>
      /\ output \in Seq(Nat) /\ backend.pending \in Seq(Nat) /\ Size \in Nat
      /\ call.payload = Positions(Size)
  BY PayloadTyped DEF IInv, FeedInv, FeedRound, TypeOK
<1>2. PICK m \in 0..(Size - 1) : Run(input, m, Size) /\ Carries(Written, m)
  BY <1>1 DEF IInv, FeedInv
<1>3. m \in Nat /\ m <= Size /\ m < Size /\ Size > 0 /\ input \in Seq(Nat) /\ Len(input) = Size - m
  <2>1. m \in Nat /\ m <= Size /\ m < Size /\ Size > 0
    BY <1>1
  <2> QED
    BY <2>1, <1>2, RunTyped, RunLen, Zenon
<1>4. PICK room \in Rooms :
        \E round \in IF backend.mood = "broken" THEN Breaks(backend)
                     ELSE Deflates(backend, input, room)
                            \cup (IF Misbehaves THEN Breaks(backend) ELSE {}) :
          /\ backend' = round.now
          /\ IF MovedNothing(round) THEN Fails("Stalled")
             ELSE /\ output' = output \o round.produced
                  /\ input' = SubSeq(input, round.consumed + 1, Len(input))
                  /\ phase' = IF input' = <<>> THEN "flush" ELSE "feed"
                  /\ UNCHANGED <<call, result, before, calls>>
  BY Zenon DEF FeedRound
<1>5. PICK round :
        /\ round \in Breaks(backend) \/ round \in Deflates(backend, input, room)
        /\ backend' = round.now
        /\ MovedNothing(round) => Fails("Stalled")
        /\ ~MovedNothing(round) =>
             /\ output' = output \o round.produced
             /\ input' = SubSeq(input, round.consumed + 1, Len(input))
             /\ phase' = IF input' = <<>> THEN "flush" ELSE "feed"
             /\ call' = call /\ result' = result /\ before' = before /\ calls' = calls
  BY <1>4
<1>6. room \in Nat /\ room > 6
  BY <1>1, RoomTyped
<1>7. CASE round \in Breaks(backend)
  <2>1. Does(round, backend.pending, 0, 0, backend.drained, "broken")
    BY <1>1, <1>7, BreaksDoes
  <2>2. /\ round.now \in Backends /\ round.now.mood = "broken" /\ MovedNothing(round)
    BY <2>1 DEF Does, MovedNothing
  <2> QED
    BY <2>2, <1>1, <1>5, FailKeeps DEF Fails
<1>8. CASE round \in Deflates(backend, input, room)
  <2>1. input \in Seq(Int)
    BY <1>3, IntsOfNats, Zenon
  <2>2. PICK k \in 0..Len(input), f \in Nat, p \in Nat :
          /\ k = Len(input) \/ p = room
          /\ Does(round, (backend.pending \o Frames(f)) \o SubSeq(input, 1, k),
                  k, p, FALSE, backend.mood)
    BY <1>1, <1>6, <1>8, <2>1, DeflatesDoes, Zenon
  <2> DEFINE front == SubSeq(input, 1, k)
             frames == Frames(f)
             due == (backend.pending \o frames) \o front
  <2>3. /\ k \in Nat /\ m + k \in 0..Size
        /\ Run(front, m, m + k) /\ Run(SubSeq(input, k + 1, Len(input)), m + k, Size)
        /\ Positions(m) \o front = Positions(m + k)
    <3>1. k \in 0..(Size - m)
      BY <1>3
    <3>2. /\ k \in Nat /\ m + k \in 0..Size
          /\ Run(front, m, m + k) /\ Run(SubSeq(input, k + 1, Len(input)), m + k, Size)
      BY <3>1, <1>1, <1>2, <1>3, RunCut, Zenon
    <3>3. m + k \in Nat /\ m <= m + k
      BY <3>2, <1>3
    <3>4. Positions(m) \o front = Positions(m + k)
      BY <3>2, <3>3, <1>3, RunGrows, Zenon
    <3> QED
      BY <3>2, <3>4, Zenon
  <2>4. front \in Seq(Nat) /\ Unframed(front) = front
    <3>1. m + k \in Nat
      BY <2>3
    <3> QED
      BY <3>1, <2>3, <1>3, RunTyped, RunPlain, Zenon
  <2>5. frames \in Seq(Nat)
    BY DEF Frames, FRAME
  <2> HIDE DEF front, frames
  <2>6. due \in Seq(Nat)
    <3>1. backend.pending \o frames \in Seq(Nat)
      BY <1>1, <2>5, JoinNats, Zenon
    <3> QED
      BY <3>1, <2>4, JoinNats, Zenon
  <2>7. /\ round.consumed = k /\ Len(round.produced) = p
        /\ round.produced \in Seq(Nat) /\ round.now.pending \in Seq(Nat)
        /\ round.produced \o round.now.pending = due
        /\ round.now \in Backends /\ round.now.drained = FALSE /\ round.now.mood = backend.mood
    BY <2>2, <2>6, Zenon DEF Does, front, frames
  <2>8. ~MovedNothing(round)
    <3>1. SUFFICES ASSUME round.consumed = 0, round.produced = <<>> PROVE FALSE
      BY DEF MovedNothing
    <3>2. k = 0 /\ p = 0
      BY <3>1, <2>7
    <3>3. k # Len(input)
      BY <3>2, <1>1, <1>3
    <3> QED
      BY <3>2, <3>3, <2>2, <1>6
  <2>9. /\ output' = output \o round.produced
        /\ input' = SubSeq(input, k + 1, Len(input))
        /\ phase' = IF input' = <<>> THEN "flush" ELSE "feed"
        /\ call' = call /\ result' = "Ok" /\ before' = before /\ calls' = calls
        /\ backend' = round.now
    BY <1>1, <1>5, <2>7, <2>8, Zenon
  <2>10. Run(input', m + k, Size) /\ m + k \in Nat /\ m + k <= Size
    BY <2>3, <2>9, <1>1
  <2>11. input' = <<>> <=> m + k = Size
    BY <2>10, <1>1, RunEmpty, Zenon
  <2>12. Size' = Size
    BY <2>9, Zenon DEF Size
  <2>13. output' \in Seq(Nat) /\ Written' = ((output \o backend.pending) \o frames) \o front
    <3>0. due = (backend.pending \o frames) \o front
      OBVIOUS
    <3> HIDE DEF due
    <3>1. output \o round.produced \in Seq(Nat)
      BY <1>1, <2>7, JoinNats, Zenon
    <3>2. (output \o round.produced) \o round.now.pending
            = ((output \o backend.pending) \o frames) \o front
      <4>1. (output \o round.produced) \o round.now.pending
              = output \o (round.produced \o round.now.pending)
        BY <1>1, <2>7, AssocNats, Zenon
      <4> DEFINE held == backend.pending \o frames
      <4>2. held \in Seq(Nat)
        BY <1>1, <2>5, JoinNats, Zenon
      <4>3. (output \o backend.pending) \o frames = output \o held
        BY <1>1, <2>5, AssocNats, Zenon
      <4>4. due = held \o front
        BY <3>0
      <4> HIDE DEF held
      <4>5. (output \o held) \o front = output \o (held \o front)
        BY <1>1, <2>4, <4>2, AssocNats, ZenonT(60)
      <4> QED
        BY <4>1, <4>3, <4>4, <4>5, <2>7, Zenon
    <3> QED
      BY <3>1, <3>2, <2>9, Zenon DEF Written
  <2>14. Carries(Written', m + k)
    <3>1. Carries((Written \o Frames(f)) \o front, m + k)
      BY <1>2, <1>3, <2>3, <2>4, CarriesMore, Zenon
    <3> QED
      BY <3>1, <2>13, Zenon DEF Written, frames
  <2>15. TypeOK'
    <3>1. input' = SubSeq(call.payload, m + k + 1, Len(call.payload)) /\ m + k \in 0..Len(call.payload)
      BY <1>1, <2>3, <2>10, RunRest, Zenon DEF Size
    <3>2. \E i \in 0..Len(call'.payload) :
            input' = SubSeq(call'.payload, i + 1, Len(call'.payload))
      BY <3>1, <2>9, Zenon
    <3>3. output' \in Seq(Int)
      BY <2>13, IntsOfNats, Zenon
    <3>4. /\ backend'.pending \in Seq(Int) /\ backend'.drained \in BOOLEAN
          /\ backend'.mood \in {"sound", "broken"}
      BY <2>7, <2>9 DEF Backends
    <3>5. /\ phase' \in {"idle", "feed", "flush", "done"}
          /\ phase' = "feed" <=> (input' # <<>> /\ result' = "Ok")
      BY <2>9
    <3>6. /\ call.kind \in {"last", "nonfinal"}
          /\ \E n \in Lengths \cup {0} : call.payload = Positions(n)
          /\ before \in BOOLEAN /\ calls \in 0..MaxCalls
      BY <1>1 DEF TypeOK
    <3>7. /\ call'.kind \in {"last", "nonfinal"}
          /\ \E n \in Lengths \cup {0} : call'.payload = Positions(n)
          /\ before' \in BOOLEAN /\ calls' \in 0..MaxCalls
          /\ result' \in {"Ok", "CompressionFailed", "Stalled"}
      BY <3>6, <2>9, Zenon
    <3> QED
      BY <3>2, <3>3, <3>4, <3>5, <3>7, Zenon DEF TypeOK
  <2>16. FeedInv'
    <3> SUFFICES ASSUME phase' = "feed"
                 PROVE  /\ output' \in Seq(Nat) /\ backend'.pending \in Seq(Nat)
                        /\ \E n \in 0..(Size' - 1) : Run(input', n, Size') /\ Carries(Written', n)
      BY DEF FeedInv
    <3>1. m + k # Size
      BY <2>9, <2>11
    <3>2. m + k \in 0..(Size - 1)
      BY <3>1, <2>10, <1>1
    <3> QED
      BY <3>2, <2>7, <2>9, <2>10, <2>12, <2>13, <2>14, Zenon
  <2>17. FlushInv' /\ (phase' = "flush" => Unmarked')
    <3> SUFFICES ASSUME phase' = "flush"
                 PROVE  /\ result' = "Ok" /\ input' = <<>> /\ Unmarked'
                        /\ backend'.drained => Size' = 0
                        /\ Size' = 0 => backend'.drained = before'
      BY DEF FlushInv
    <3>1. input' = <<>> /\ m + k = Size
      BY <2>9, <2>11
    <3>2. Size' # 0
      BY <2>12, <1>3
    <3>3. Unmarked'
      BY <3>1, <3>2, <2>7, <2>9, <2>12, <2>13, <2>14, Zenon DEF Unmarked
    <3> QED
      BY <3>1, <3>2, <3>3, <2>7, <2>9, Zenon
  <2>18. ReturnedInv' /\ SoundNeverFails'
    BY <2>9 DEF ReturnedInv, Returned, SoundNeverFails
  <2> QED
    BY <2>7, <2>9, <2>15, <2>16, <2>17, <2>18 DEF IInv
<1> QED
  BY <1>5, <1>7, <1>8

\* A flush that ends: with the trailer written it returns the frame, with
\* nothing given and nothing written it makes one up, and else it fails.
Ends(out) ==
  /\ EndsWithTrailer(out) =>
       /\ backend'.pending = <<>>
       /\ Size = 0 => ~before
       /\ \E s \in Seq(Nat) :
            Carries(s, Size) /\ (out = s \o MARKER \/ (Size > 0 /\ out = (s \o MARKER) \o MARKER))
  /\ out = <<>> /\ Size = 0 => backend'.pending = <<>>
  /\ backend'.mood = "sound" => EndsWithTrailer(out) \/ (out = <<>> /\ Size = 0)

LEMMA FlushTyped ==
  ASSUME IInv, FlushRound
  PROVE  /\ TypeOK /\ backend \in Backends /\ phase = "flush" /\ result = "Ok" /\ input = <<>>
         /\ Size \in Nat /\ call.kind \in {"last", "nonfinal"}
         /\ output \in Seq(Int) /\ backend.pending \in Seq(Int)
         /\ call.payload = <<>> <=> Size = 0
<1>1. TypeOK /\ backend \in Backends /\ phase = "flush" /\ FlushInv
  BY DEF IInv, FlushRound
<1>2. result = "Ok" /\ input = <<>>
  BY <1>1 DEF FlushInv
<1>3. /\ call.kind \in {"last", "nonfinal"} /\ output \in Seq(Int) /\ backend.pending \in Seq(Int)
  BY <1>1 DEF TypeOK
<1>4. Size \in Nat
  BY <1>1, PayloadTyped
<1>5. call.payload = <<>> <=> Size = 0
  BY <1>1, PayloadTyped
<1> QED
  BY <1>1, <1>2, <1>3, <1>4, <1>5

LEMMA EndKeeps ==
  ASSUME IInv, FlushRound, NEW out \in Seq(Int), Ends(out), backend' \in Backends,
         phase' = "done", output' = Finished(out).bytes, result' = Finished(out).result,
         call' = call, input' = input, before' = before, calls' = calls
  PROVE  IInv'
<1>1. /\ TypeOK /\ backend \in Backends /\ phase = "flush" /\ result = "Ok" /\ input = <<>>
      /\ Size \in Nat /\ call.kind \in {"last", "nonfinal"}
      /\ call.payload = <<>> <=> Size = 0
  BY FlushTyped, Zenon
<1>2. Finished(out).bytes \in Seq(Int) /\ Finished(out).result \in {"Ok", "CompressionFailed"}
  BY <1>1, Finishes
<1>3. Finished(out).result = "Ok" <=> EndsWithTrailer(out) \/ (Size = 0 /\ out = <<>>)
  BY <1>1, Finishes
<1>4. EndsWithTrailer(out) =>
        out = IF call.kind = "nonfinal" THEN Finished(out).bytes ELSE Finished(out).bytes \o TRAILER
  BY <1>1, Finishes
<1>5. ~EndsWithTrailer(out) /\ Finished(out).result = "Ok" =>
        Finished(out).bytes = IF call.kind = "nonfinal" THEN <<>> ELSE <<MARKER[1]>>
  BY <1>1, Finishes
<1>6. Size' = Size /\ call'.kind = call.kind
  BY Zenon DEF Size
<1>7. TypeOK'
  <2>1. /\ backend'.pending \in Seq(Int) /\ backend'.drained \in BOOLEAN
        /\ backend'.mood \in {"sound", "broken"}
    BY DEF Backends
  <2>2. /\ phase' \in {"idle", "feed", "flush", "done"}
        /\ ~(phase' = "feed") /\ ~(input' # <<>> /\ result' = "Ok")
        /\ result' \in {"Ok", "CompressionFailed", "Stalled"}
    BY <1>1, <1>2
  <2> QED
    BY <1>1, <1>2, <2>1, <2>2 DEF TypeOK
<1>8. Returned' => backend'.pending = <<>> /\ input' = <<>> /\ Delivered'
  <2> SUFFICES ASSUME result' = "Ok" PROVE backend'.pending = <<>> /\ input' = <<>> /\ Delivered'
    BY DEF Returned
  <2>1. EndsWithTrailer(out) \/ (Size = 0 /\ out = <<>>)
    BY <1>3
  <2>2. backend'.pending = <<>> /\ input' = <<>>
    BY <2>1, <1>1 DEF Ends
  <2>3. CASE EndsWithTrailer(out)
    <3>1. PICK s \in Seq(Nat) :
            Carries(s, Size) /\ (out = s \o MARKER \/ (Size > 0 /\ out = (s \o MARKER) \o MARKER))
      BY <2>3 DEF Ends
    <3>2. Wire' = out
      BY <2>3, <1>4, <1>6, Zenon DEF Wire
    <3>3. Size' = 0 => ~before'
      BY <2>3, <1>6 DEF Ends
    <3> QED
      BY <2>2, <3>1, <3>2, <3>3, <1>6, Zenon DEF Delivered
  <2>4. CASE ~EndsWithTrailer(out)
    <3>1. Size' = 0 /\ output' = IF call'.kind = "nonfinal" THEN <<>> ELSE <<MARKER[1]>>
      BY <2>1, <2>4, <1>5, <1>6, Zenon
    <3> QED
      BY <2>2, <3>1, Zenon DEF Delivered
  <2> QED
    BY <2>3, <2>4
<1>9. SoundNeverFails'
  <2> SUFFICES ASSUME backend'.mood = "sound" PROVE result' = "Ok"
    BY DEF SoundNeverFails
  <2> QED
    BY <1>3 DEF Ends
<1>10. FeedInv' /\ FlushInv' /\ ReturnedInv'
  BY <1>8 DEF FeedInv, FlushInv, ReturnedInv
<1> QED
  BY <1>7, <1>9, <1>10 DEF IInv

\* A flush that filled its room goes on.
LEMMA GoesOnKeeps ==
  ASSUME IInv, FlushRound, NEW out \in Seq(Int), backend' \in Backends,
         phase' = phase, output' = out, result' = result,
         call' = call, input' = input, before' = before, calls' = calls,
         Size > 0, backend'.drained = FALSE,
         \/ /\ out \in Seq(Nat) /\ backend'.pending \in Seq(Nat)
            /\ Carries(out \o backend'.pending, Size)
         \/ /\ Len(backend'.pending) <= Len(MARKER)
            /\ \E s \in Seq(Nat) : Carries(s, Size) /\ out \o backend'.pending = s \o MARKER
  PROVE  IInv'
<1>1. /\ TypeOK /\ backend \in Backends /\ phase = "flush" /\ result = "Ok" /\ input = <<>>
      /\ Size \in Nat /\ Size # 0
  BY FlushTyped
<1>2. Size' = Size /\ Written' = out \o backend'.pending
  BY Zenon DEF Size, Written
<1>3. TypeOK'
  <2>1. /\ backend'.pending \in Seq(Int) /\ backend'.drained \in BOOLEAN
        /\ backend'.mood \in {"sound", "broken"}
    BY DEF Backends
  <2> QED
    BY <1>1, <2>1 DEF TypeOK
<1>4. Unmarked' \/ Marked'
  BY <1>1, <1>2, Zenon DEF Unmarked, Marked
<1>5. FlushInv'
  BY <1>1, <1>2, <1>4, Zenon DEF FlushInv
<1>6. FeedInv' /\ ReturnedInv' /\ SoundNeverFails'
  BY <1>1 DEF FeedInv, ReturnedInv, Returned, SoundNeverFails
<1> QED
  BY <1>3, <1>5, <1>6 DEF IInv

LEMMA EmptySeq == ASSUME NEW S, NEW s \in Seq(S), Len(s) = 0 PROVE s = <<>>
  OBVIOUS

\* What a round of the flush leaves the output and the backend with.
LEMMA FlushWrites ==
  ASSUME IInv, FlushRound, NEW round, NEW due \in Seq(Int), NEW p, NEW d, NEW mood,
         Does(round, due, 0, p, d, mood), backend' = round.now
  PROVE  LET out == output \o round.produced
         IN /\ out \in Seq(Int) /\ backend' \in Backends /\ backend'.pending \in Seq(Int)
            /\ out \o backend'.pending = output \o due
            /\ backend'.drained = d /\ backend'.mood = mood
            /\ Len(round.produced) = p /\ Len(backend'.pending) = Len(due) - p
<1>1. output \in Seq(Int)
  BY FlushTyped, Zenon
<1>2. /\ round.produced \in Seq(Int) /\ backend' \in Backends
      /\ backend'.drained = d /\ backend'.mood = mood /\ Len(round.produced) = p
      /\ Len(backend'.pending) = Len(due) - p
  BY Zenon DEF Does
<1>3. round.produced \o backend'.pending = due
  BY Zenon DEF Does
<1>4. backend'.pending \in Seq(Int)
  BY <1>2 DEF Backends
<1>5. output \o round.produced \in Seq(Int)
  BY <1>1, <1>2, JoinInts, Zenon
<1>6. (output \o round.produced) \o backend'.pending = output \o (round.produced \o backend'.pending)
  BY <1>1, <1>2, <1>4, AssocInts, ZenonT(60)
<1> QED
  BY <1>2, <1>3, <1>4, <1>5, <1>6, Zenon

\* A flush that stopped short of the marker: the marker is written if it was
\* before, and then nothing is pending.
LEMMA StopsShortEnds ==
  ASSUME IInv, FlushRound, NEW out \in Seq(Int), NEW p \in Nat,
         backend'.pending \in Seq(Int), out \o backend'.pending = Written,
         Len(backend'.pending) = Len(backend.pending) - p, backend'.mood = "broken"
  PROVE  Ends(out)
<1>1. /\ TypeOK /\ Size \in Nat /\ output \in Seq(Int) /\ backend.pending \in Seq(Int)
      /\ Unmarked \/ Marked
  BY FlushTyped DEF IInv, FlushInv, FlushRound
<1>2. CASE Unmarked
  <2>1. ~EndsWithTrailer(out)
    <3>1. out \o backend'.pending \in Seq(Nat)
      BY <1>2 DEF Unmarked, Carries
    <3>2. out \in Seq(Nat)
      BY <3>1, FrontNats, Zenon
    <3> QED
      BY <3>2, NoTrailer, Zenon
  <2>2. Size = 0 => backend'.pending = <<>>
    <3> SUFFICES ASSUME Size = 0 PROVE backend'.pending = <<>>
      OBVIOUS
    <3>1. backend.pending = <<>>
      BY <1>2 DEF Unmarked
    <3>2. Len(backend'.pending) = 0 - p /\ Len(backend'.pending) \in Nat
      BY <3>1, LenIsNat
    <3>3. Len(backend'.pending) = 0
      BY <3>2
    <3> QED
      BY <3>3, EmptySeq, Zenon
  <2> QED
    BY <2>1, <2>2 DEF Ends
<1>3. CASE Marked
  <2>1. PICK s \in Seq(Nat) : Carries(s, Size) /\ out \o backend'.pending = s \o MARKER
    BY <1>3 DEF Marked
  <2>2. Size > 0 /\ Size # 0 /\ Len(backend'.pending) <= 3
    <3>1. Len(backend.pending) <= 3 /\ Size > 0
      BY <1>3, Markers DEF Marked
    <3>2. Len(backend.pending) \in Nat
      BY <1>1, LenIsNat
    <3> QED
      BY <3>1, <3>2, <1>1, SMTT(60)
  <2>3. EndsWithTrailer(out) => backend'.pending = <<>>
    BY <2>1, <2>2, MarkedEnd, Zenon
  <2>4. EndsWithTrailer(out) => out = s \o MARKER
    BY <2>1, <2>3, JoinEmpty, Zenon
  <2> QED
    BY <2>1, <2>2, <2>3, <2>4 DEF Ends
<1> QED
  BY <1>1, <1>2, <1>3

\* A sound flush: refused, as redundant.
LEMMA RefusedEnds ==
  ASSUME IInv, FlushRound, NEW out \in Seq(Int), backend.drained, backend.pending = <<>>,
         backend'.pending \in Seq(Int), out \o backend'.pending = output \o <<>>,
         Len(backend'.pending) = 0
  PROVE  Ends(out)
<1>1. Size = 0 /\ (Unmarked \/ Marked)
  BY DEF IInv, FlushInv, FlushRound
<1>2. output = <<>>
  BY <1>1 DEF Unmarked, Marked
<1>3. backend'.pending = <<>>
  BY EmptySeq, Zenon
<1>4. out = <<>>
  <2>1. out \o <<>> = out /\ <<>> \o <<>> = <<>>
    OBVIOUS
  <2> QED
    BY <2>1, <1>2, <1>3, Zenon
<1>5. <<>> \in Seq(Nat)
  OBVIOUS
<1>6. ~EndsWithTrailer(out)
  <2>1. out \in Seq(Nat)
    BY <1>4, <1>5
  <2> QED
    BY <2>1, NoTrailer, Zenon
<1> QED
  BY <1>1, <1>3, <1>4, <1>6, Zenon DEF Ends

\* One that had room for the marker, after a marker cut short or none.
LEMMA CompletedEnds ==
  ASSUME IInv, FlushRound, NEW out \in Seq(Int), ~(backend.drained /\ backend.pending = <<>>),
         backend'.pending = <<>>, out = output \o (backend.pending \o MARKER)
  PROVE  Ends(out)
<1>1. /\ Size \in Nat /\ output \in Seq(Int) /\ backend.pending \in Seq(Int)
      /\ Unmarked \/ Marked
      /\ backend.drained => Size = 0
      /\ Size = 0 => backend.drained = before
      /\ before \in BOOLEAN
  BY FlushTyped DEF IInv, FlushInv, FlushRound, TypeOK
<1>2. MARKER \in Seq(Int)
  BY Markers
<1>3. Written \in Seq(Int)
  BY <1>1, JoinInts, Zenon DEF Written
<1>4. Written \o MARKER = output \o (backend.pending \o MARKER)
  BY <1>1, <1>2, AssocInts, ZenonT(60) DEF Written
<1>5. out = Written \o MARKER
  BY <1>4, Zenon
<1>6. EndsWithTrailer(out)
  BY <1>3, <1>5, MarkerEnds, Zenon
<1>7. CASE Unmarked
  <2>1. Size = 0 => ~before
    BY <1>1, <1>7 DEF Unmarked
  <2>2. Written \in Seq(Nat) /\ Carries(Written, Size)
    BY <1>7 DEF Unmarked, Carries
  <2> QED
    BY <2>1, <2>2, <1>5, <1>6, Zenon DEF Ends
<1>8. CASE Marked
  <2>1. PICK s \in Seq(Nat) : Carries(s, Size) /\ Written = s \o MARKER
    BY <1>8 DEF Marked
  <2>2. Size > 0 /\ Size # 0
    BY <1>1, <1>8 DEF Marked
  <2>3. out = (s \o MARKER) \o MARKER
    BY <2>1, <1>5, Zenon
  <2> QED
    BY <2>1, <2>2, <2>3, <1>6, Zenon DEF Ends
<1> QED
  BY <1>1, <1>7, <1>8

LEMMA FlushRoundKeeps == ASSUME IInv, FlushRound PROVE IInv'
<1>1. /\ TypeOK /\ backend \in Backends /\ phase = "flush" /\ result = "Ok" /\ Size \in Nat
      /\ output \in Seq(Int) /\ backend.pending \in Seq(Int) /\ Len(backend.pending) \in Nat
      /\ MARKER \in Seq(Int) /\ Len(MARKER) = 3
      /\ Unmarked \/ Marked
  BY FlushTyped, Markers DEF IInv, FlushInv
<1>2. PICK room \in Rooms :
        \E round \in IF backend.mood = "broken" THEN Breaks(backend)
                     ELSE {Flushes(backend, room)}
                            \cup (IF Misbehaves THEN StopsShort(backend, room) ELSE {}) :
          LET out == output \o round.produced
          IN /\ backend' = round.now
             /\ IF FlushEnds(round, room)
                THEN phase' = "done" /\ output' = Finished(out).bytes /\ result' = Finished(out).result
                ELSE output' = out /\ UNCHANGED <<phase, result>>
  BY Zenon DEF FlushRound, Finished
<1>3. PICK round :
        /\ \/ round \in Breaks(backend) \/ round \in StopsShort(backend, room)
           \/ round = Flushes(backend, room)
        /\ backend' = round.now
        /\ IF FlushEnds(round, room)
           THEN /\ phase' = "done" /\ output' = Finished(output \o round.produced).bytes
                /\ result' = Finished(output \o round.produced).result
           ELSE output' = output \o round.produced /\ UNCHANGED <<phase, result>>
  BY <1>2
<1>4. call' = call /\ input' = input /\ before' = before /\ calls' = calls
  BY DEF FlushRound
<1>5. room \in Nat /\ room > 6
  BY <1>1, RoomTyped
<1> DEFINE out == output \o round.produced
<1>6. ASSUME NEW due \in Seq(Int), NEW p \in Nat, NEW d, NEW mood,
             Does(round, due, 0, p, d, mood), p < room, Ends(out)
      PROVE  IInv'
  <2>1. FlushEnds(round, room) /\ out \in Seq(Int) /\ backend' \in Backends
    <3>1. Len(round.produced) = p /\ out \in Seq(Int) /\ backend' \in Backends
      BY <1>3, <1>6, FlushWrites, Zenon
    <3> QED
      BY <3>1, <1>6 DEF FlushEnds
  <2>2. phase' = "done" /\ output' = Finished(out).bytes /\ result' = Finished(out).result
    BY <1>3, <2>1, Zenon
  <2> HIDE DEF out
  <2> QED
    BY <1>4, <1>6, <2>1, <2>2, EndKeeps, Zenon
<1>7. ASSUME NEW p \in 0..Len(backend.pending), NEW d, p < room,
             Does(round, backend.pending, 0, p, d, "broken")
      PROVE  IInv'
  <2>1. /\ out \in Seq(Int) /\ backend'.pending \in Seq(Int)
        /\ out \o backend'.pending = Written
        /\ backend'.mood = "broken"
        /\ Len(backend'.pending) = Len(backend.pending) - p
    BY <1>1, <1>3, <1>7, FlushWrites, Zenon DEF Written
  <2>2. p \in Nat
    OBVIOUS
  <2>3. Ends(out)
    <3> HIDE DEF out
    <3> QED
      BY <2>1, <2>2, StopsShortEnds, Zenon
  <2> HIDE DEF out
  <2> QED
    BY <1>1, <1>6, <1>7, <2>2, <2>3
<1>8. CASE round \in Breaks(backend)
  <2>1. Does(round, backend.pending, 0, 0, backend.drained, "broken")
    BY <1>1, <1>8, BreaksDoes, Zenon
  <2>2. 0 \in 0..Len(backend.pending) /\ 0 < room
    BY <1>1, <1>5
  <2> HIDE DEF out
  <2> QED
    BY <1>7, <2>1, <2>2, Zenon
<1>9. CASE round \in StopsShort(backend, room)
  <2>1. PICK p \in 0..Len(backend.pending) :
          p < room /\ Does(round, backend.pending, 0, p, FALSE, "broken")
    BY <1>1, <1>5, <1>9, StopsDoes, Zenon
  <2> HIDE DEF out
  <2> QED
    BY <1>7, <2>1, Zenon
<1>10. CASE round = Flushes(backend, room)
  <2> DEFINE due == backend.pending \o MARKER
  <2>1. due \in Seq(Int) /\ Len(due) = Len(backend.pending) + 3 /\ Len(due) \in Nat
    <3>1. due \in Seq(Int) /\ Len(due) = Len(backend.pending) + Len(MARKER)
      BY <1>1, JoinInts, Zenon
    <3> HIDE DEF due
    <3> QED
      BY <3>1, <1>1
  <2>2. \/ backend.drained /\ backend.pending = <<>> /\ Does(round, <<>>, 0, 0, TRUE, backend.mood)
        \/ /\ Len(backend.pending) >= room
           /\ Does(round, backend.pending, 0, room, FALSE, backend.mood)
        \/ /\ ~(backend.drained /\ backend.pending = <<>>) /\ Len(backend.pending) < room
           /\ Len(due) < room /\ Does(round, due, 0, Len(due), TRUE, backend.mood)
        \/ /\ Len(backend.pending) < room
           /\ Len(due) >= room /\ Does(round, due, 0, room, FALSE, backend.mood)
    BY <1>1, <1>5, <1>10, FlushesDoes, Zenon
  <2>3. Marked => Len(backend.pending) <= 3 /\ Size > 0
    BY <1>1 DEF Marked
  <2>4. Unmarked => /\ output \in Seq(Nat) /\ backend.pending \in Seq(Nat)
                    /\ Carries(Written, Size)
                    /\ Size = 0 => backend.pending = <<>>
    BY DEF Unmarked
  <2> HIDE DEF due
  <2>5. CASE /\ backend.drained /\ backend.pending = <<>>
             /\ Does(round, <<>>, 0, 0, TRUE, backend.mood)
    <3>1. <<>> \in Seq(Int) /\ Len(<<>>) - 0 = 0 /\ 0 \in Nat /\ 0 < room
      BY <1>5
    <3>2. /\ out \in Seq(Int) /\ backend'.pending \in Seq(Int)
          /\ out \o backend'.pending = output \o <<>>
          /\ Len(backend'.pending) = Len(<<>>) - 0
      BY <3>1, <2>5, <1>3, FlushWrites, Zenon
    <3> HIDE DEF out
    <3>3. Ends(out)
      BY <3>1, <3>2, <2>5, RefusedEnds, Zenon
    <3> QED
      BY <3>1, <3>3, <2>5, <1>6, Zenon
  <2>6. CASE /\ Len(backend.pending) >= room
             /\ Does(round, backend.pending, 0, room, FALSE, backend.mood)
    <3>1. /\ out \in Seq(Int) /\ backend' \in Backends /\ backend'.drained = FALSE
          /\ out \o backend'.pending = Written /\ Len(round.produced) = room
      BY <2>6, <1>1, <1>3, FlushWrites, Zenon DEF Written
    <3>2. Unmarked /\ Size > 0
      <4>1. Unmarked
        BY <2>3, <2>6, <1>1, <1>5
      <4>2. Size # 0
        BY <4>1, <2>4, <2>6, <1>5
      <4> QED
        BY <4>1, <4>2, <1>1
    <3>3. out \in Seq(Nat) /\ backend'.pending \in Seq(Nat)
      <4>1. round.produced \in Seq(Nat) /\ backend'.pending \in Seq(Nat)
        BY <3>2, <2>4, <2>6, <1>3, Zenon DEF Does
      <4> QED
        BY <4>1, <3>2, <2>4, JoinNats, Zenon
    <3>4. ~FlushEnds(round, room)
      BY <3>1, <1>5 DEF FlushEnds
    <3>5. output' = out /\ phase' = phase /\ result' = result
      BY <3>4, <1>3
    <3>6. Carries(out \o backend'.pending, Size)
      BY <3>1, <3>2, <2>4, Zenon
    <3> HIDE DEF out
    <3> QED
      BY <3>1, <3>2, <3>3, <3>5, <3>6, <1>4, GoesOnKeeps, Zenon
  <2>7. CASE /\ ~(backend.drained /\ backend.pending = <<>>) /\ Len(backend.pending) < room
             /\ Len(due) < room /\ Does(round, due, 0, Len(due), TRUE, backend.mood)
    <3>1. /\ out \in Seq(Int) /\ backend'.pending \in Seq(Int)
          /\ out \o backend'.pending = output \o due
          /\ Len(backend'.pending) = Len(due) - Len(due)
      BY <2>7, <2>1, <1>3, FlushWrites, Zenon
    <3> HIDE DEF out
    <3>2. backend'.pending = <<>>
      <4>1. Len(backend'.pending) = 0
        BY <3>1, <2>1
      <4> QED
        BY <4>1, <3>1, EmptySeq, Zenon
    <3>3. out = output \o due
      BY <3>1, <3>2, JoinEmpty, Zenon
    <3>4. Ends(out)
      BY <3>1, <3>2, <3>3, <2>7, CompletedEnds, Zenon DEF due
    <3> QED
      BY <3>4, <2>1, <2>7, <1>6, Zenon
  <2>8. CASE /\ Len(backend.pending) < room
             /\ Len(due) >= room /\ Does(round, due, 0, room, FALSE, backend.mood)
    <3>1. /\ out \in Seq(Int) /\ backend' \in Backends /\ backend'.drained = FALSE
          /\ out \o backend'.pending = output \o due /\ Len(round.produced) = room
          /\ Len(backend'.pending) = Len(due) - room
      BY <2>8, <2>1, <1>3, FlushWrites, Zenon
    <3>2. Unmarked /\ Size > 0
      <4>1. Unmarked
        BY <2>1, <2>3, <2>8, <1>1, <1>5
      <4>2. Size # 0
        <5>1. backend.pending = <<>> => Len(backend.pending) = 0
          OBVIOUS
        <5> QED
          BY <5>1, <4>1, <2>1, <2>4, <2>8, <1>5
      <4> QED
        BY <4>1, <4>2, <1>1
    <3>3. Len(backend'.pending) <= Len(MARKER)
      BY <3>1, <2>1, <2>8, <1>1, <1>5
    <3>4. ~FlushEnds(round, room)
      BY <3>1, <1>5 DEF FlushEnds
    <3>5. output' = out /\ phase' = phase /\ result' = result
      BY <3>4, <1>3
    <3> HIDE DEF out
    <3>6. Written \in Seq(Nat) /\ Carries(Written, Size)
      BY <3>2, <2>4 DEF Carries
    <3>7. Written \o MARKER = output \o due
      BY <1>1, AssocInts, Zenon DEF Written, due
    <3>8. \E s \in Seq(Nat) : Carries(s, Size) /\ out \o backend'.pending = s \o MARKER
      BY <3>1, <3>6, <3>7, Zenon
    <3> QED
      BY <3>1, <3>2, <3>3, <3>5, <3>8, <1>4, GoesOnKeeps, Zenon
  <2> QED
    BY <2>2, <2>5, <2>6, <2>7, <2>8, Zenon
<1> QED
  BY <1>3, <1>8, <1>9, <1>10, Zenon

LEMMA StutterKeeps == ASSUME IInv, UNCHANGED vars PROVE IInv'
<1>1. /\ call' = call /\ phase' = phase /\ input' = input /\ output' = output
      /\ result' = result /\ backend' = backend /\ before' = before /\ calls' = calls
  BY DEF vars
<1>2. /\ TypeOK' = TypeOK /\ FeedInv' = FeedInv /\ FlushInv' = FlushInv
      /\ ReturnedInv' = ReturnedInv /\ SoundNeverFails' = SoundNeverFails
  BY <1>1, Zenon DEF TypeOK, FeedInv, FlushInv, ReturnedInv, SoundNeverFails, Returned,
     Delivered, Unmarked, Marked, Written, Wire, Size
<1> QED
  BY <1>1, <1>2 DEF IInv

\* Whatever a step does, the invariant holds again.
LEMMA NextKeeps == ASSUME IInv, [Next]_vars PROVE IInv'
<1>1. ASSUME NEW kind \in {"last", "nonfinal"}, NEW n \in Lengths, Begin(kind, n)
      PROVE  IInv'
  BY <1>1, BeginKeeps
<1>2. CASE FeedRound
  BY <1>2, FeedRoundKeeps, Zenon
<1>3. CASE FlushRound
  BY <1>3, FlushRoundKeeps
<1>4. CASE DriveFails
  BY <1>4, DriveFailsKeeps
<1>5. CASE UNCHANGED vars
  BY <1>5, StutterKeeps
<1> QED
  BY <1>1, <1>2, <1>3, <1>4, <1>5 DEF Next

\* In every state what has been taken of the payload is written or held back, in
\* order, and what is on the wire is the payload, framed, and a marker or part of
\* one: the invariant the theorems below rest on.
THEOREM Invariance == Spec => []IInv
<1>1. Init => IInv
  BY InitInv
<1>2. IInv /\ [Next]_vars => IInv'
  BY NextKeeps
<1> QED
  BY <1>1, <1>2, PTL DEF Spec

-----------------------------------------------------------------------------
(* What follows from it.                                                    *)

\* The state of a prepare and of its backend keep their types, and the loop that
\* feeds runs while input is left.
THEOREM TypeCorrect == Spec => []TypeOK
<1>1. IInv => TypeOK
  BY DEF IInv
<1> QED
  BY <1>1, Invariance, PTL

\* A backend that keeps its contract is never reported as stalled or failed,
\* whatever room the vector hands out and whatever the backend holds back.
THEOREM SoundSucceeds == Spec => []SoundNeverFails
<1>1. IInv => SoundNeverFails
  BY DEF IInv
<1> QED
  BY <1>1, Invariance, PTL

LEMMA UnframedMarkers ==
  /\ Unframed(MARKER) = MARKER /\ Unframed(TRAILER) = TRAILER
<1>1. /\ MARKER \in Seq(Int) /\ \A i \in 1..Len(MARKER) : MARKER[i] # FRAME
  BY DEF MARKER, FRAME
<1>2. /\ TRAILER \in Seq(Int) /\ \A i \in 1..Len(TRAILER) : TRAILER[i] # FRAME
  BY DEF TRAILER, FRAME
<1> QED
  BY <1>1, <1>2, UnframedPlain

\* What Encoder takes a flush to yield, of the payload fed before it.
LEMMA FlushedUnits ==
  ASSUME TypeOK
  PROVE  LET units == Flushed([hist |-> <<>>, drained |-> before], call.payload, 0)
             u     == Data(call.payload, 0)
         IN /\ Size = 0 => <<>> \in units
            /\ Size = 0 /\ ~before => <<Hdr, Trl>> \in units
            /\ Size > 0 => <<u, Hdr, Trl>> \in units /\ <<u, Hdr, Trl, Hdr, Trl>> \in units
<1> DEFINE c == [hist |-> <<>>, drained |-> before]
           u == Data(call.payload, 0)
<1>1. call.payload = <<>> <=> Size = 0
  BY PayloadTyped
<1>2. Size > 0 => Size # 0
  BY PayloadTyped
<1>3. u \in Encodings(c, call.payload, 0)
  BY Zenon DEF Encodings
<1>4. c.drained = before
  OBVIOUS
<1> HIDE DEF c, u
<1>5. Size = 0 => <<>> \in Flushed(c, call.payload, 0)
  BY <1>1 DEF Flushed
<1>6. Size = 0 /\ ~before => <<Hdr, Trl>> \in Flushed(c, call.payload, 0)
  BY <1>1, <1>4 DEF Flushed
<1>7. Size > 0 => /\ <<u, Hdr, Trl>> \in Flushed(c, call.payload, 0)
                  /\ <<u, Hdr, Trl, Hdr, Trl>> \in Flushed(c, call.payload, 0)
  BY <1>1, <1>2, <1>3 DEF Flushed
<1> QED
  BY <1>5, <1>6, <1>7 DEF c, u

LEMMA DeliveredIsOneStep == ASSUME IInv PROVE RoundsAreOneStep
<1> SUFFICES ASSUME Returned PROVE RoundsAreOneStep
  BY DEF RoundsAreOneStep
<1>1. TypeOK /\ backend.pending = <<>> /\ Delivered
  BY DEF IInv, ReturnedInv
<1>2. /\ Size \in Nat /\ call.payload = Positions(Size) /\ (call.payload = <<>> <=> Size = 0)
      /\ output \in Seq(Int) /\ call.kind \in {"last", "nonfinal"}
  BY <1>1, PayloadTyped DEF TypeOK
<1>3. call.payload \in Seq(Int)
  BY <1>2, PositionsTyped
<1> DEFINE units == Flushed([hist |-> <<>>, drained |-> before], call.payload, 0)
           u == Data(call.payload, 0)
           Spells(x) == IF call.kind = "nonfinal" THEN Unframed(output) = Spelled(x)
                        ELSE \/ Unframed(output) \o TRAILER = Spelled(x)
                             \/ x = <<>> /\ output = <<MARKER[1]>>
<1>4. /\ Size = 0 => <<>> \in units
      /\ Size = 0 /\ ~before => <<Hdr, Trl>> \in units
      /\ Size > 0 => <<u, Hdr, Trl>> \in units /\ <<u, Hdr, Trl, Hdr, Trl>> \in units
  BY <1>1, FlushedUnits, Zenon
<1>5. /\ Spelled(<<>>) = <<>> /\ Spelled(<<Hdr, Trl>>) = MARKER
      /\ Spelled(<<u, Hdr, Trl>>) = call.payload \o MARKER
      /\ Spelled(<<u, Hdr, Trl, Hdr, Trl>>) = (call.payload \o MARKER) \o MARKER
  BY <1>3, SpelledUnits, Zenon
<1>6. MARKER \in Seq(Int) /\ TRAILER \in Seq(Int)
  BY Markers
<1>7. Unframed(Wire) = IF call.kind = "nonfinal" THEN Unframed(output)
                       ELSE Unframed(output) \o TRAILER
  <2>1. Unframed(output \o TRAILER) = Unframed(output) \o TRAILER
    BY <1>2, <1>6, UnframedJoin, UnframedMarkers
  <2> QED
    BY <2>1, Zenon DEF Wire
<1> HIDE DEF units, u
<1>8. \A x : Unframed(Wire) = Spelled(x) => Spells(x)
  BY <1>7, Zenon
<1>9. \E x \in units : Spells(x)
  <2>1. CASE Size = 0 /\ output = IF call.kind = "nonfinal" THEN <<>> ELSE <<MARKER[1]>>
    <3>1. Spells(<<>>)
      BY <2>1, <1>5, UnframedEmpty, Zenon
    <3> HIDE DEF Spells
    <3> QED
      BY <2>1, <3>1, <1>4, Zenon
  <2>2. CASE /\ Size = 0 => ~before
             /\ \E s \in Seq(Nat) :
                  /\ Carries(s, Size)
                  /\ Wire = s \o MARKER \/ (Size > 0 /\ Wire = (s \o MARKER) \o MARKER)
    <3>1. PICK s \in Seq(Nat) :
            /\ Carries(s, Size)
            /\ Wire = s \o MARKER \/ (Size > 0 /\ Wire = (s \o MARKER) \o MARKER)
      BY <2>2
    <3>2. s \in Seq(Int) /\ s \o MARKER \in Seq(Int)
      BY <1>6, IntsOfNats, JoinInts, Zenon
    <3>3. Unframed(s) = call.payload
      BY <3>1, <1>2 DEF Carries
    <3>4. Unframed(s \o MARKER) = call.payload \o MARKER
      BY <3>2, <3>3, <1>6, UnframedJoin, UnframedMarkers
    <3>5. Unframed((s \o MARKER) \o MARKER) = (call.payload \o MARKER) \o MARKER
      BY <3>2, <3>4, <1>6, UnframedJoin, UnframedMarkers
    <3> HIDE DEF Spells
    <3>6. CASE Size = 0
      <4>1. <<>> \o MARKER = MARKER
        BY <1>6, JoinEmpty
      <4>2. Wire = s \o MARKER
        BY <3>1, <3>6
      <4>3. Unframed(Wire) = Spelled(<<Hdr, Trl>>)
        BY <4>1, <4>2, <3>4, <3>6, <1>2, <1>5, Zenon
      <4> QED
        BY <4>3, <2>2, <3>6, <1>4, <1>8, Zenon
    <3>7. CASE Size # 0
      <4>1. Size > 0
        BY <3>7, <1>2
      <4>2. Unframed(Wire) = Spelled(<<u, Hdr, Trl>>) \/ Unframed(Wire) = Spelled(<<u, Hdr, Trl, Hdr, Trl>>)
        BY <3>1, <3>4, <3>5, <1>5, Zenon
      <4> QED
        BY <4>1, <4>2, <1>4, <1>8, Zenon
    <3> QED
      BY <3>6, <3>7
  <2> HIDE DEF Spells
  <2> QED
    BY <1>1, <2>1, <2>2, Zenon DEF Delivered
<1> QED
  BY <1>1, <1>9, Zenon DEF RoundsAreOneStep, units

\* However large the room, the blocks and what is held back, and however many
\* rounds they make of it: what a prepare returns is what one step of Encoder
\* writes, all of the payload in order with what the flush owes it, and nothing
\* is left in the compressor for the next frame.
THEOREM RoundsAreOne == Spec => []RoundsAreOneStep
<1>1. IInv => RoundsAreOneStep
  BY DeliveredIsOneStep
<1> QED
  BY <1>1, Invariance, PTL

-----------------------------------------------------------------------------
(* One marker, where the room is enough.                                    *)

\* The room for a payload of n octets covers what a flush finds held back: all
\* that the backend ever holds, or all that the payload can come to.
Covered(n) ==
  \/ MaxHeld + 3 < room_for(n)
  \/ \A k \in 0..n : k + Headers(k) + Expansion + 3 < room_for(n)

\* No flush is begun that its room does not complete.
OneMarker ==
  /\ phase = "feed" /\ ~(MaxHeld + 3 < room_for(Size)) => output = <<>> /\ backend.pending = <<>>
  /\ phase = "flush" => Unmarked /\ Len(backend.pending) + 3 < room_for(Size)
  /\ Returned => (\E s \in Seq(Nat) : Wire = s \o MARKER) \/ output \in {<<>>, <<MARKER[1]>>}

LEMMA RoomForTyped == ASSUME NEW n \in Nat PROVE room_for(n) \in Nat /\ room_for(n) > 6
<1>1. Len(MARKER) = 3
  BY Markers
<1> QED
  BY <1>1, RoomAssumption DEF room_for, Smaller

LEMMA BeginIsOne ==
  ASSUME IInv, NEW kind \in {"last", "nonfinal"}, NEW n \in Lengths, Begin(kind, n)
  PROVE  OneMarker'
<1>1. /\ backend.pending = <<>> /\ backend' = backend /\ output' = <<>>
      /\ phase' \in {"feed", "flush"} /\ call'.payload = Positions(n) /\ n \in Nat
  BY SizesAssumption DEF IInv, ReturnedInv, Returned, Begin
<1>2. Size' = n
  BY <1>1, PositionsTyped, Zenon DEF Size
<1>3. IInv'
  BY BeginKeeps
<1>4. phase' = "flush" => Unmarked'
  <2> SUFFICES ASSUME phase' = "flush" PROVE Unmarked'
    OBVIOUS
  <2>1. n = 0
    BY DEF Begin
  <2>2. ~Marked'
    BY <2>1, <1>2 DEF Marked
  <2> QED
    BY <2>2, <1>3 DEF IInv, FlushInv
<1>5. Len(backend'.pending) + 3 < room_for(Size')
  <2>1. Len(backend'.pending) = 0 /\ room_for(n) \in Nat /\ room_for(n) > 6
    BY <1>1, RoomForTyped
  <2> QED
    BY <2>1, <1>2
<1>6. ~Returned'
  BY <1>1 DEF Returned
<1> QED
  BY <1>1, <1>4, <1>5, <1>6 DEF OneMarker

\* What a feed leaves pending leaves room for the marker.
LEMMA UnmarkedAfterFeed ==
  ASSUME IInv, FeedRound, phase' = "flush"
  PROVE  Unmarked'
  BY FeedRoundKeeps

LEMMA FeedRoundIsOne ==
  ASSUME IInv, OneMarker, FeedRound, \A n \in Lengths : Covered(n)
  PROVE  OneMarker'
<1>1. /\ TypeOK /\ backend \in Backends /\ phase = "feed" /\ result = "Ok" /\ input # <<>>
      /\ backend.pending \in Seq(Nat) /\ Size \in Nat /\ Size \in Lengths \cup {0}
  BY PayloadTyped DEF IInv, FeedInv, FeedRound, TypeOK
<1>2. PICK m \in 0..(Size - 1) : Run(input, m, Size)
  BY <1>1 DEF IInv, FeedInv
<1>3. m \in Nat /\ Size > 0 /\ input \in Seq(Nat) /\ Len(input) = Size - m /\ Len(input) \in Nat
  <2>1. m \in Nat /\ Size > 0 /\ Size - m \in Nat
    BY <1>1
  <2>2. input \in Seq(Nat) /\ Len(input) = Size - m
    BY <1>2, RunTyped, RunLen, Zenon
  <2> QED
    BY <2>1, <2>2
<1>4. PICK room \in Rooms :
        \E round \in IF backend.mood = "broken" THEN Breaks(backend)
                     ELSE Deflates(backend, input, room)
                            \cup (IF Misbehaves THEN Breaks(backend) ELSE {}) :
          /\ backend' = round.now
          /\ IF MovedNothing(round) THEN Fails("Stalled")
             ELSE /\ output' = output \o round.produced
                  /\ input' = SubSeq(input, round.consumed + 1, Len(input))
                  /\ phase' = IF input' = <<>> THEN "flush" ELSE "feed"
                  /\ UNCHANGED <<call, result, before, calls>>
  BY Zenon DEF FeedRound
<1>5. PICK round :
        /\ round \in Breaks(backend) \/ round \in Deflates(backend, input, room)
        /\ backend' = round.now
        /\ MovedNothing(round) => Fails("Stalled")
        /\ ~MovedNothing(round) =>
             /\ output' = output \o round.produced
             /\ input' = SubSeq(input, round.consumed + 1, Len(input))
             /\ phase' = IF input' = <<>> THEN "flush" ELSE "feed"
             /\ call' = call /\ result' = result
  BY <1>4
<1>6. room \in Nat /\ room > 6 /\ room >= room_for(Size) /\ room_for(Size) \in Nat
  BY <1>1, RoomTyped, RoomForTyped
<1>7. CASE MovedNothing(round)
  BY <1>5, <1>7 DEF Fails, OneMarker, Returned
<1>8. CASE ~MovedNothing(round) /\ round \in Breaks(backend)
  <2>1. Does(round, backend.pending, 0, 0, backend.drained, "broken")
    BY <1>1, <1>8, BreaksDoes
  <2>2. MovedNothing(round)
    BY <2>1 DEF Does, MovedNothing
  <2> QED
    BY <1>8, <2>2
<1>9. CASE ~MovedNothing(round) /\ round \in Deflates(backend, input, room)
  <2>1. input \in Seq(Int)
    BY <1>3, IntsOfNats, Zenon
  <2>2. PICK k \in 0..Len(input), f \in Nat, p \in Nat :
          /\ k = Len(input) \/ p = room
          /\ Does(round, (backend.pending \o Frames(f)) \o SubSeq(input, 1, k),
                  k, p, FALSE, backend.mood)
          /\ f <= Headers(k) + Expansion
          /\ Len((backend.pending \o Frames(f)) \o SubSeq(input, 1, k)) - p <= MaxHeld
    <3>1. backend \in Backends /\ room \in Nat /\ round \in Deflates(backend, input, room)
      BY <1>1, <1>6, <1>9, Zenon
    <3> QED
      BY <2>1, <3>1, DeflatesDoes, ZenonT(60)
  <2> DEFINE due == (backend.pending \o Frames(f)) \o SubSeq(input, 1, k)
  <2>3. Len(due) = (Len(backend.pending) + f) + k /\ Len(backend.pending) \in Nat
    <3>1. Frames(f) \in Seq(Int) /\ Len(Frames(f)) = f
      BY DEF Frames, FRAME
    <3>2. backend.pending \in Seq(Int)
      BY <1>1, IntsOfNats, Zenon
    <3>3. SubSeq(input, 1, k) \in Seq(Int) /\ Len(SubSeq(input, 1, k)) = k
      BY <2>1, CutInts, Zenon
    <3>4. /\ backend.pending \o Frames(f) \in Seq(Int)
          /\ Len(backend.pending \o Frames(f)) = Len(backend.pending) + Len(Frames(f))
      BY <3>1, <3>2, JoinInts, Zenon
    <3>5. Len(due) = Len(backend.pending \o Frames(f)) + Len(SubSeq(input, 1, k))
      BY <3>3, <3>4, JoinInts, Zenon
    <3>6. Len(backend.pending) \in Nat
      BY <3>2, LenIsNat, Zenon
    <3> QED
      BY <3>1, <3>3, <3>4, <3>5, <3>6, Zenon
  <2> HIDE DEF due
  <2>4. /\ round.consumed = k /\ Len(round.now.pending) = Len(due) - p
        /\ round.now.pending \in Seq(Int) /\ Len(round.now.pending) \in Nat
        /\ Len(due) - p <= MaxHeld
    <3>1. round.consumed = k /\ Len(round.now.pending) = Len(due) - p /\ round.now \in Backends
      BY <2>2, Zenon DEF Does, due
    <3>2. round.now.pending \in Seq(Int)
      BY <3>1 DEF Backends
    <3>3. Len(due) - p <= MaxHeld
      BY <2>2, Zenon DEF due
    <3>4. Len(round.now.pending) \in Nat
      BY <3>2, LenIsNat, Zenon
    <3> QED
      BY <3>1, <3>2, <3>3, <3>4, Zenon
  <2>5. /\ input' = SubSeq(input, k + 1, Len(input))
        /\ phase' = IF input' = <<>> THEN "flush" ELSE "feed"
        /\ backend' = round.now /\ Size' = Size
    BY <1>5, <1>9, <2>4, Zenon DEF Size
  <2>6. CASE MaxHeld + 3 < room_for(Size)
    <3>1. Len(backend'.pending) + 3 < room_for(Size')
      BY <2>4, <2>5, <2>6, <1>6, SizesAssumption, SMTT(60)
    <3> QED
      BY <3>1, <2>5, <2>6, <1>9, UnmarkedAfterFeed DEF OneMarker, Returned
  <2>7. CASE ~(MaxHeld + 3 < room_for(Size))
    <3>1. backend.pending = <<>> /\ Len(backend.pending) = 0
      BY <2>7, <1>1 DEF OneMarker
    <3>2. k + Headers(k) + Expansion + 3 < room_for(Size)
      <4>1. Size \in Lengths /\ k \in 0..Size
        BY <1>1, <1>3
      <4> QED
        BY <4>1, <2>7 DEF Covered
    <3>3. Len(due) + 3 < room_for(Size)
      <4>1. k \in Nat /\ Headers(k) \in Nat /\ Expansion \in Nat
        BY HeadersTyped, SizesAssumption
      <4> QED
        BY <4>1, <3>1, <3>2, <2>2, <2>3, <1>6, SMTT(60)
    <3>4. k = Len(input)
      <4>1. Len(due) \in Nat
        BY <2>3
      <4>2. p # room
        BY <4>1, <3>3, <2>4, <1>6
      <4> QED
        BY <4>2, <2>2
    <3>5. input' = <<>> /\ phase' = "flush"
      <4>1. SubSeq(input, Len(input) + 1, Len(input)) = <<>>
        BY <1>3
      <4> QED
        BY <4>1, <3>4, <2>5
    <3>6. Len(backend'.pending) + 3 < room_for(Size')
      <4>1. Len(due) \in Nat
        BY <2>3
      <4> QED
        BY <4>1, <3>3, <2>4, <2>5, <1>6, SMTT(60)
    <3> QED
      BY <3>5, <3>6, UnmarkedAfterFeed DEF OneMarker, Returned
  <2> QED
    BY <2>6, <2>7
<1> QED
  BY <1>5, <1>7, <1>8, <1>9

\* A flush with room for the marker is over in one round.
LEMMA FlushRoundIsOne == ASSUME IInv, OneMarker, FlushRound PROVE OneMarker'
<1>1. /\ phase = "flush" /\ Unmarked /\ Size \in Nat /\ backend \in Backends
      /\ output \in Seq(Nat) /\ output \in Seq(Int) /\ backend.pending \in Seq(Int)
      /\ Len(backend.pending) \in Nat /\ Written \in Seq(Nat)
      /\ MARKER \in Seq(Int) /\ Len(MARKER) = 3
      /\ call.kind \in {"last", "nonfinal"}
  <2>1. phase = "flush" /\ Unmarked
    BY DEF OneMarker, FlushRound
  <2>2. output \in Seq(Nat) /\ Written \in Seq(Nat)
    BY <2>1 DEF Unmarked, Carries
  <2> QED
    BY <2>1, <2>2, FlushTyped, Markers, LenIsNat
<1>2. PICK room \in Rooms :
        \E round \in IF backend.mood = "broken" THEN Breaks(backend)
                     ELSE {Flushes(backend, room)}
                            \cup (IF Misbehaves THEN StopsShort(backend, room) ELSE {}) :
          LET out == output \o round.produced
          IN /\ backend' = round.now
             /\ IF FlushEnds(round, room)
                THEN phase' = "done" /\ output' = Finished(out).bytes /\ result' = Finished(out).result
                ELSE output' = out /\ UNCHANGED <<phase, result>>
  BY Zenon DEF FlushRound, Finished
<1>3. PICK round :
        /\ \/ round \in Breaks(backend) \/ round \in StopsShort(backend, room)
           \/ round = Flushes(backend, room)
        /\ backend' = round.now
        /\ FlushEnds(round, room) =>
             /\ phase' = "done" /\ output' = Finished(output \o round.produced).bytes
             /\ result' = Finished(output \o round.produced).result
  BY <1>2
<1>4. room \in Nat /\ room > 6 /\ Len(backend.pending) + 3 < room
  <2>1. room \in Nat /\ room > 6 /\ room >= room_for(Size)
    BY <1>1, RoomTyped
  <2>2. room_for(Size) \in Nat /\ Len(backend.pending) + 3 < room_for(Size)
    BY <1>1, RoomForTyped DEF OneMarker
  <2> QED
    BY <2>1, <2>2, <1>1
<1>5. call' = call
  BY DEF FlushRound
<1> DEFINE out == output \o round.produced
<1>6. ASSUME NEW due \in Seq(Int), NEW p \in Nat, NEW d, NEW mood,
             Does(round, due, 0, p, d, mood), p < room,
             EndsWithTrailer(out) => \E s \in Seq(Nat) : out = s \o MARKER
      PROVE  OneMarker'
  <2>1. out \in Seq(Int) /\ FlushEnds(round, room)
    <3>1. Len(round.produced) = p /\ out \in Seq(Int)
      BY <1>3, <1>6, FlushWrites, Zenon
    <3> QED
      BY <3>1, <1>6 DEF FlushEnds
  <2>2. phase' = "done" /\ output' = Finished(out).bytes /\ result' = Finished(out).result
    BY <1>3, <2>1, Zenon
  <2> HIDE DEF out
  <2>3. EndsWithTrailer(out) =>
          out = IF call.kind = "nonfinal" THEN Finished(out).bytes ELSE Finished(out).bytes \o TRAILER
    BY <1>1, <2>1, Finishes
  <2>4. ~EndsWithTrailer(out) /\ Finished(out).result = "Ok" =>
          Finished(out).bytes = IF call.kind = "nonfinal" THEN <<>> ELSE <<MARKER[1]>>
    BY <1>1, <2>1, Finishes
  <2>5. EndsWithTrailer(out) => \E s \in Seq(Nat) : Wire' = s \o MARKER
    BY <1>5, <1>6, <2>2, <2>3, Zenon DEF Wire
  <2>6. ~EndsWithTrailer(out) /\ result' = "Ok" => output' \in {<<>>, <<MARKER[1]>>}
    BY <2>2, <2>4
  <2> QED
    BY <2>2, <2>5, <2>6 DEF OneMarker, Returned
<1>7. ASSUME NEW due \in Seq(Int), NEW p \in Nat, NEW d, NEW mood,
             Does(round, due, 0, p, d, mood), p < room, output \o due \in Seq(Nat)
      PROVE  OneMarker'
  <2>1. out \in Seq(Int) /\ backend'.pending \in Seq(Int) /\ out \o backend'.pending = output \o due
    BY <1>3, <1>7, FlushWrites, Zenon
  <2> HIDE DEF out
  <2>2. out \o backend'.pending \in Seq(Nat)
    BY <2>1, <1>7
  <2>3. out \in Seq(Nat)
    BY <2>1, <2>2, FrontNats, Zenon
  <2>4. ~EndsWithTrailer(out)
    BY <2>3, NoTrailer, Zenon
  <2> QED
    BY <1>6, <1>7, <2>4, Zenon
<1>8. CASE round \in Breaks(backend)
  <2>1. Does(round, backend.pending, 0, 0, backend.drained, "broken")
    BY <1>1, <1>8, BreaksDoes, Zenon
  <2>2. 0 \in Nat /\ 0 < room
    BY <1>4
  <2> QED
    BY <1>1, <1>7, <2>1, <2>2, Zenon DEF Written
<1>9. CASE round \in StopsShort(backend, room)
  <2>1. PICK p \in 0..Len(backend.pending) :
          p < room /\ Does(round, backend.pending, 0, p, FALSE, "broken")
    BY <1>1, <1>4, <1>9, StopsDoes, Zenon
  <2>2. p \in Nat
    OBVIOUS
  <2> QED
    BY <1>1, <1>7, <2>1, <2>2, Zenon DEF Written
<1>10. CASE round = Flushes(backend, room)
  <2> DEFINE due == backend.pending \o MARKER
  <2>1. due \in Seq(Int) /\ Len(due) = Len(backend.pending) + 3 /\ Len(due) \in Nat
    <3>1. due \in Seq(Int) /\ Len(due) = Len(backend.pending) + Len(MARKER)
      BY <1>1, JoinInts, Zenon
    <3> HIDE DEF due
    <3> QED
      BY <3>1, <1>1
  <2>2. \/ backend.drained /\ backend.pending = <<>> /\ Does(round, <<>>, 0, 0, TRUE, backend.mood)
        \/ /\ Len(backend.pending) >= room
           /\ Does(round, backend.pending, 0, room, FALSE, backend.mood)
        \/ /\ ~(backend.drained /\ backend.pending = <<>>) /\ Len(backend.pending) < room
           /\ Len(due) < room /\ Does(round, due, 0, Len(due), TRUE, backend.mood)
        \/ /\ Len(backend.pending) < room
           /\ Len(due) >= room /\ Does(round, due, 0, room, FALSE, backend.mood)
    BY <1>1, <1>4, <1>10, FlushesDoes, Zenon
  <2> HIDE DEF due
  <2>3. CASE Does(round, <<>>, 0, 0, TRUE, backend.mood)
    <3>1. <<>> \in Seq(Int) /\ 0 \in Nat /\ 0 < room /\ output \o <<>> \in Seq(Nat)
      <4>1. output \o <<>> = output
        BY <1>1, JoinEmpty, Zenon
      <4> QED
        BY <4>1, <1>1, <1>4
    <3> QED
      BY <3>1, <2>3, <1>7, Zenon
  <2>4. CASE Len(due) < room /\ Does(round, due, 0, Len(due), TRUE, backend.mood)
    <3>1. /\ out \in Seq(Int) /\ backend'.pending \in Seq(Int)
          /\ out \o backend'.pending = output \o due
          /\ Len(backend'.pending) = Len(due) - Len(due)
      BY <2>4, <2>1, <1>3, FlushWrites, Zenon
    <3>2. Written \o MARKER = output \o due
      BY <1>1, AssocInts, Zenon DEF Written, due
    <3> HIDE DEF out
    <3>3. backend'.pending = <<>>
      <4>1. Len(backend'.pending) = 0
        BY <3>1, <2>1
      <4> QED
        BY <4>1, <3>1, EmptySeq, Zenon
    <3>4. out = Written \o MARKER
      BY <3>1, <3>2, <3>3, JoinEmpty, Zenon
    <3> QED
      BY <3>4, <2>1, <2>4, <1>1, <1>6, Zenon
  <2>5. ~(Len(backend.pending) >= room) /\ ~(Len(due) >= room)
    BY <2>1, <1>1, <1>4
  <2> QED
    BY <2>2, <2>3, <2>4, <2>5, Zenon
<1> QED
  BY <1>3, <1>8, <1>9, <1>10, Zenon

LEMMA StepIsOne ==
  ASSUME IInv, OneMarker, [Next]_vars, \A n \in Lengths : Covered(n)
  PROVE  OneMarker'
<1>1. ASSUME NEW kind \in {"last", "nonfinal"}, NEW n \in Lengths, Begin(kind, n)
      PROVE  OneMarker'
  BY <1>1, BeginIsOne
<1>2. CASE FeedRound
  BY <1>2, FeedRoundIsOne
<1>3. CASE FlushRound
  BY <1>3, FlushRoundIsOne
<1>4. CASE DriveFails
  <2>1. phase' = "done" /\ result' # "Ok"
    BY <1>4 DEF DriveFails, Fails, drive_errors
  <2> QED
    BY <2>1 DEF OneMarker, Returned
<1>5. CASE UNCHANGED vars
  <2>1. OneMarker' = OneMarker
    BY <1>5, Zenon DEF vars, OneMarker, Returned, Unmarked, Written, Wire, Size
  <2> QED
    BY <2>1
<1> QED
  BY <1>1, <1>2, <1>3, <1>4, <1>5 DEF Next

LEMMA OneIsNotRedundant == ASSUME IInv, OneMarker PROVE NoRedundantBlock
<1> SUFFICES ASSUME Returned
             PROVE  Cardinality({i \in DOMAIN output : output[i] = MARKER[1]}) <= 1
  BY DEF NoRedundantBlock
<1> DEFINE S == {i \in DOMAIN output : output[i] = MARKER[1]}
<1>1. output \in Seq(Int) /\ MARKER[1] = -1 /\ TRAILER \in Seq(Int)
  BY Markers DEF IInv, TypeOK, MARKER
<1>2. \E x : S \subseteq {x}
  <2>1. CASE output \in {<<>>, <<MARKER[1]>>}
    <3>1. DOMAIN output \subseteq {1}
      BY <2>1
    <3> QED
      BY <3>1, Zenon
  <2>2. CASE \E s \in Seq(Nat) : Wire = s \o MARKER
    <3>1. PICK s \in Seq(Nat) : Wire = s \o MARKER
      BY <2>2
    <3> DEFINE whole == s \o MARKER
    <3>2. /\ Len(s) \in Nat /\ Len(whole) = Len(s) + 3
          /\ \A i \in 1..Len(s) : whole[i] \in Nat
          /\ whole[Len(s) + 2] = -2 /\ whole[Len(s) + 3] = -3
      <4>1. /\ s \in Seq(Int) /\ MARKER \in Seq(Int) /\ Len(MARKER) = 3
            /\ MARKER[2] = -2 /\ MARKER[3] = -3
        BY IntsOfNats, Markers DEF MARKER
      <4>2. /\ Len(whole) = Len(s) + Len(MARKER)
            /\ \A i \in 1..Len(s) : whole[i] = s[i]
            /\ \A i \in 1..Len(MARKER) : whole[Len(s) + i] = MARKER[i]
        BY <4>1, JoinInts
      <4>3. Len(s) \in Nat /\ \A i \in 1..Len(s) : s[i] \in Nat
        OBVIOUS
      <4> HIDE DEF whole
      <4>4. whole[Len(s) + 2] = -2 /\ whole[Len(s) + 3] = -3
        <5>1. 2 \in 1..3 /\ 3 \in 1..3
          OBVIOUS
        <5> QED
          BY <5>1, <4>1, <4>2, Zenon
      <4>5. \A i \in 1..Len(s) : whole[i] \in Nat
        BY <4>2, <4>3, Zenon
      <4> QED
        BY <4>1, <4>2, <4>3, <4>4, <4>5, Zenon
    <3>3. \A i \in 1..Len(output) : i \in 1..Len(whole) /\ output[i] = whole[i]
      <4>1. CASE call.kind = "nonfinal"
        BY <4>1, <3>1 DEF Wire
      <4>2. CASE call.kind # "nonfinal"
        <5> DEFINE wire == output \o TRAILER
        <5>1. Len(wire) = Len(output) + Len(TRAILER) /\ \A i \in 1..Len(output) : wire[i] = output[i]
          BY <1>1, JoinInts
        <5>2. Len(output) \in Nat /\ Len(TRAILER) \in Nat
          BY <1>1, LenIsNat, Zenon
        <5>3. wire = whole
          BY <4>2, <3>1, Zenon DEF Wire
        <5> HIDE DEF wire, whole
        <5> QED
          BY <5>1, <5>2, <5>3
      <4> QED
        BY <4>1, <4>2
    <3> HIDE DEF whole
    <3>4. ASSUME NEW i \in S PROVE i = Len(s) + 1
      <4>1. i \in 1..Len(output) /\ output[i] = -1
        BY <1>1
      <4>2. i \in 1..(Len(s) + 3) /\ whole[i] = -1
        BY <4>1, <3>2, <3>3
      <4>3. ~(i \in 1..Len(s)) /\ i # Len(s) + 2 /\ i # Len(s) + 3
        BY <4>2, <3>2
      <4> QED
        BY <4>2, <4>3, <3>2
    <3> HIDE DEF S
    <3>5. S \subseteq {Len(s) + 1}
      BY <3>4
    <3> QED
      BY <3>5, Zenon
  <2> QED
    BY <2>1, <2>2 DEF OneMarker
<1> HIDE DEF S
<1>3. PICK x : S \subseteq {x}
  BY <1>2
<1>4. Cardinality(S) <= 1
  <2>1. IsFiniteSet({x}) /\ Cardinality({x}) = 1
    BY FS_Singleton
  <2>2. Cardinality(S) <= Cardinality({x})
    BY <1>3, <2>1, FS_Subset, Zenon
  <2> QED
    BY <2>1, <2>2
<1> QED
  BY <1>4 DEF S

\* The argument of room_for's comment: where the room of every length covers
\* what a flush may find held back, the flush that completes never fills it, so
\* none is repeated and at most one empty block is on the wire.
THEOREM RoomIsEnough ==
  ASSUME \A n \in Lengths : Covered(n)
  PROVE  Spec => []NoRedundantBlock
<1>1. Init => OneMarker
  BY DEF Init, OneMarker, Returned
<1>2. IInv /\ OneMarker /\ [Next]_vars => OneMarker'
  BY StepIsOne
<1>3. IInv /\ OneMarker => NoRedundantBlock
  BY OneIsNotRedundant
<1> QED
  BY <1>1, <1>2, <1>3, Invariance, PTL DEF Spec

=============================================================================
