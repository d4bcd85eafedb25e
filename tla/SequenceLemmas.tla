-------------------------- MODULE SequenceLemmas --------------------------
(***************************************************************************)
(* Lemmas about sequences, and the induction they are proved with.          *)
(***************************************************************************)
EXTENDS Integers, SequencesExt, TLAPS, WellFoundedInduction

-----------------------------------------------------------------------------
(* Lemmas about sequences.                                                  *)

\* A set of numbers that is not empty has a least element.
LEMMA LeastExists ==
  ASSUME NEW S \in SUBSET Nat, S # {}
  PROVE  \E x \in S : \A y \in S : x <= y
<1>1. PICK x \in S : \A y \in S : ~(<<y, x>> \in OpToRel(<, Nat))
  BY NatLessThanWellFounded, WFMin
<1>2. \A y \in S : x <= y
  <2>1. SUFFICES ASSUME NEW y \in S PROVE x <= y
    OBVIOUS
  <2>2. ~(y < x)
    BY <1>1 DEF OpToRel
  <2> QED
    BY <2>2
<1> QED
  BY <1>2

LEMMA GreatestExists ==
  ASSUME NEW n \in Nat, NEW S \in SUBSET (0..n), S # {}
  PROVE  \E x \in S : \A y \in S : y <= x
<1> DEFINE T == {i \in 0..n : n - i \in S}
<1>1. PICK x \in S : TRUE
  OBVIOUS
<1>2. n - x \in T /\ T \in SUBSET Nat
  OBVIOUS
<1> HIDE DEF T
<1>3. PICK i \in T : \A j \in T : i <= j
  BY <1>2, LeastExists
<1>4. n - i \in S /\ i \in Nat
  BY <1>3 DEF T
<1>5. ASSUME NEW y \in S PROVE y <= n - i
  <2>1. n - y \in T /\ y \in 0..n
    BY DEF T
  <2> QED
    BY <1>3, <1>4, <2>1
<1> QED
  BY <1>4, <1>5

LEMMA MinIs ==
  ASSUME NEW S \in SUBSET Nat, NEW x \in S, \A y \in S : x <= y
  PROVE  Min(S) = x
<1> DEFINE m == Min(S)
<1>1. m \in S /\ \A y \in S : m <= y
  BY Zenon DEF Min
<1> HIDE DEF m
<1>2. m \in Nat /\ x \in Nat /\ m <= x /\ x <= m
  BY <1>1
<1> QED
  BY <1>2 DEF m

LEMMA MaxIs ==
  ASSUME NEW S \in SUBSET Nat, NEW x \in S, \A y \in S : y <= x
  PROVE  Max(S) = x
<1> DEFINE m == Max(S)
<1>1. m \in S /\ \A y \in S : m >= y
  BY Zenon DEF Max
<1> HIDE DEF m
<1>2. m \in Nat /\ x \in Nat /\ m <= x /\ x <= m
  BY <1>1
<1> QED
  BY <1>2 DEF m

\* What holds of no octet, and goes on from one to the next, holds of all: the
\* set of those it fails for has no least element.
LEMMA UpTo ==
  ASSUME NEW n \in Nat, NEW S \in SUBSET (0..n), 0 \in S,
         \A i \in 1..n : i - 1 \in S => i \in S
  PROVE  \A i \in 0..n : i \in S
<1> SUFFICES ASSUME NEW i \in (0..n) \ S PROVE FALSE
  OBVIOUS
<1> DEFINE T == (0..n) \ S
<1>1. PICK x \in T : \A y \in T : x <= y
  <2>1. T \in SUBSET Nat /\ T # {}
    OBVIOUS
  <2> HIDE DEF T
  <2> QED
    BY <2>1, LeastExists
<1>2. x \in 1..n /\ x - 1 \in 0..n
  BY <1>1
<1>3. x - 1 \in S
  BY <1>1, <1>2
<1> QED
  BY <1>1, <1>2, <1>3

LEMMA LenIsNat == ASSUME NEW S, NEW s \in Seq(S) PROVE Len(s) \in Nat
  OBVIOUS

LEMMA JoinSeq ==
  ASSUME NEW S, NEW s \in Seq(S), NEW t \in Seq(S)
  PROVE  /\ s \o t \in Seq(S) /\ Len(s \o t) = Len(s) + Len(t)
         /\ \A i \in 1..Len(s) : (s \o t)[i] = s[i]
         /\ \A i \in 1..Len(t) : (s \o t)[Len(s) + i] = t[i]
  OBVIOUS

LEMMA JoinAssoc ==
  ASSUME NEW S, NEW s \in Seq(S), NEW t \in Seq(S), NEW u \in Seq(S)
  PROVE  (s \o t) \o u = s \o (t \o u)
  BY SMTT(60)

LEMMA JoinEmpty ==
  ASSUME NEW S, NEW s \in Seq(S)
  PROVE  s \o <<>> = s /\ <<>> \o s = s
  OBVIOUS

LEMMA PartSeq ==
  ASSUME NEW S, NEW s \in Seq(S), NEW m \in Nat, NEW n \in m..Len(s)
  PROVE  LET part == SubSeq(s, m + 1, n)
         IN /\ part \in Seq(S) /\ Len(part) = n - m
            /\ \A i \in 1..(n - m) : part[i] = s[m + i]
            /\ part = <<>> <=> n = m
  OBVIOUS

\* A sequence cut in two, after n elements.
LEMMA CutSeq ==
  ASSUME NEW S, NEW s \in Seq(S), NEW n \in 0..Len(s)
  PROVE  LET front == SubSeq(s, 1, n)
             back  == SubSeq(s, n + 1, Len(s))
         IN /\ front \in Seq(S) /\ Len(front) = n
            /\ back \in Seq(S) /\ Len(back) = Len(s) - n
            /\ front \o back = s
<1> DEFINE front == SubSeq(s, 1, n)
           back  == SubSeq(s, n + 1, Len(s))
<1>1. /\ front \in Seq(S) /\ Len(front) = n
      /\ \A i \in 1..n : front[i] = s[i]
  OBVIOUS
<1>2. /\ back \in Seq(S) /\ Len(back) = Len(s) - n
      /\ \A i \in 1..(Len(s) - n) : back[i] = s[n + i]
  OBVIOUS
<1> HIDE DEF front, back
<1>3. Len(front \o back) = Len(s) /\ front \o back \in Seq(S)
  <2>1. /\ front \o back \in Seq(S)
        /\ Len(front \o back) = Len(front) + Len(back)
    BY <1>1, <1>2, JoinSeq, Zenon
  <2>2. Len(s) \in Nat
    BY LenIsNat
  <2>3. Len(front) + Len(back) = Len(s)
    BY <2>2, <1>1, <1>2
  <2> QED
    BY <2>1, <2>3
<1>4. \A i \in 1..Len(s) : (front \o back)[i] = s[i]
  <2> SUFFICES ASSUME NEW i \in 1..Len(s) PROVE (front \o back)[i] = s[i]
    OBVIOUS
  <2>1. i \in Nat /\ n \in Nat /\ Len(s) \in Nat
    BY LenIsNat
  <2>2. CASE i <= n
    <3>1. i \in 1..n /\ i \in 1..Len(front)
      BY <2>1, <2>2, <1>1
    <3>2. (front \o back)[i] = front[i]
      BY <3>1, <1>1, <1>2, JoinSeq
    <3> QED
      BY <3>1, <3>2, <1>1
  <2>3. CASE ~(i <= n)
    <3>1. i - n \in 1..(Len(s) - n) /\ n + (i - n) = i
      BY <2>1, <2>3
    <3>2. (front \o back)[n + (i - n)] = back[i - n]
      BY <3>1, <1>1, <1>2, JoinSeq
    <3> QED
      BY <3>1, <3>2, <1>2
  <2> QED
    BY <2>2, <2>3, Zenon
<1>5. front \o back = s
  <2> DEFINE whole == front \o back
  <2>1. whole \in Seq(S) /\ Len(whole) = Len(s) /\ \A i \in 1..Len(s) : whole[i] = s[i]
    BY <1>3, <1>4
  <2> HIDE DEF whole
  <2>2. whole = s
    BY <2>1
  <2> QED
    BY <2>2 DEF whole
<1> QED
  BY <1>1, <1>2, <1>5 DEF front, back

-----------------------------------------------------------------------------
(* Recursive functions and induction.                                       *)

\* The function that begins with `base` and goes on with `step`, and that there
\* is one.
Unfolds(f, n, S, base, step) ==
  f \in [0..n -> S] /\ f[0] = base /\ \A i \in 1..n : f[i] = step[i][f[i - 1]]

LEMMA RecursionExists ==
  ASSUME NEW n \in Nat, NEW S, NEW base \in S, NEW step \in [1..n -> [S -> S]]
  PROVE  \E f : Unfolds(f, n, S, base, step)
<1> DEFINE Is(f, m) == /\ f \in [0..m -> S] /\ f[0] = base
                       /\ \A i \in 1..m : f[i] = step[i][f[i - 1]]
           M == {m \in 0..n : \E f : Is(f, m)}
<1>1. 0 \in M
  <2>1. Is([i \in 0..0 |-> base], 0)
    OBVIOUS
  <2> HIDE DEF Is
  <2> QED
    BY <2>1
<1>2. ASSUME NEW m \in 1..n PROVE m - 1 \in M => m \in M
  <2> SUFFICES ASSUME m - 1 \in M PROVE m \in M
    OBVIOUS
  <2>1. PICK f : Is(f, m - 1)
    OBVIOUS
  <2> DEFINE g == [i \in 0..m |-> IF i = m THEN step[m][f[m - 1]] ELSE f[i]]
  <2>2. g \in [0..m -> S]
    <3>1. f[m - 1] \in S /\ step[m] \in [S -> S]
      BY <2>1
    <3>2. step[m][f[m - 1]] \in S
      BY <3>1
    <3>3. \A i \in 0..m : i # m => f[i] \in S
      BY <2>1
    <3> QED
      BY <3>2, <3>3
  <2>3. g[0] = base
    BY <2>1
  <2>4. ASSUME NEW i \in 1..m PROVE g[i] = step[i][g[i - 1]]
    <3>1. g[i - 1] = f[i - 1]
      OBVIOUS
    <3>2. CASE i = m
      BY <3>1, <3>2
    <3>3. CASE i # m
      <4>1. i \in 1..(m - 1)
        BY <3>3
      <4>2. g[i] = f[i] /\ f[i] = step[i][f[i - 1]]
        BY <4>1, <2>1
      <4> QED
        BY <3>1, <4>2
    <3> QED
      BY <3>2, <3>3
  <2> HIDE DEF g
  <2>5. Is(g, m)
    BY <2>2, <2>3, <2>4
  <2> HIDE DEF Is
  <2> QED
    BY <2>5
<1>3. n \in M
  <2>1. M \in SUBSET (0..n) /\ n \in 0..n
    OBVIOUS
  <2> HIDE DEF M
  <2> QED
    BY <1>1, <1>2, <2>1, UpTo
<1> QED
  BY <1>3 DEF Unfolds

\* A sequence with one element more.
LEMMA AppendSeq ==
  ASSUME NEW X, NEW s \in Seq(X), NEW c \in X
  PROVE  /\ Append(s, c) \in Seq(X) /\ Len(Append(s, c)) = Len(s) + 1
         /\ \A i \in 1..Len(s) : Append(s, c)[i] = s[i]
         /\ Append(s, c)[Len(s) + 1] = c
         /\ DOMAIN Append(s, c) = 1..(Len(s) + 1)
  OBVIOUS

LEMMA OneSeq ==
  ASSUME NEW X, NEW c \in X
  PROVE  <<c>> \in Seq(X) /\ Len(<<c>>) = 1 /\ <<c>>[1] = c /\ <<c>> # <<>>
  OBVIOUS

LEMMA AppendIsJoin ==
  ASSUME NEW X, NEW s \in Seq(X), NEW c \in X
  PROVE  Append(s, c) = s \o <<c>>
  OBVIOUS

LEMMA JoinAppend ==
  ASSUME NEW X, NEW s \in Seq(X), NEW t \in Seq(X), NEW c \in X
  PROVE  s \o Append(t, c) = Append(s \o t, c)
<1> DEFINE one == <<c>>
<1>1. one \in Seq(X) /\ s \o t \in Seq(X)
  BY OneSeq, JoinSeq
<1>2. Append(t, c) = t \o one /\ Append(s \o t, c) = (s \o t) \o one
  BY <1>1, AppendIsJoin
<1> HIDE DEF one
<1>3. (s \o t) \o one = s \o (t \o one)
  BY <1>1, JoinAssoc
<1> QED
  BY <1>2, <1>3, Zenon

\* The elements of two sequences joined, and of one with an element more.
LEMMA JoinElements ==
  ASSUME NEW X, NEW s \in Seq(X), NEW t \in Seq(X)
  PROVE  ToSet(s \o t) = ToSet(s) \cup ToSet(t)
<1>1. ASSUME NEW i \in 1..Len(s \o t) PROVE (s \o t)[i] \in ToSet(s) \cup ToSet(t)
  <2>1. CASE i <= Len(s)
    BY <2>1 DEF ToSet
  <2>2. CASE ~(i <= Len(s))
    <3>1. i - Len(s) \in 1..Len(t) /\ (s \o t)[i] = t[i - Len(s)]
      BY <2>2
    <3> QED
      BY <3>1 DEF ToSet
  <2> QED
    BY <2>1, <2>2
<1>2. ASSUME NEW i \in 1..Len(s) PROVE s[i] \in ToSet(s \o t)
  <2>1. i \in 1..Len(s \o t) /\ (s \o t)[i] = s[i]
    OBVIOUS
  <2> QED
    BY <2>1 DEF ToSet
<1>3. ASSUME NEW i \in 1..Len(t) PROVE t[i] \in ToSet(s \o t)
  <2>1. Len(s) + i \in 1..Len(s \o t) /\ (s \o t)[Len(s) + i] = t[i]
    OBVIOUS
  <2> QED
    BY <2>1 DEF ToSet
<1>4. /\ DOMAIN (s \o t) = 1..Len(s \o t)
      /\ DOMAIN s = 1..Len(s) /\ DOMAIN t = 1..Len(t)
  OBVIOUS
<1>5. /\ \A x : x \in ToSet(s \o t) <=> \E i \in 1..Len(s \o t) : x = (s \o t)[i]
      /\ \A x : x \in ToSet(s) <=> \E i \in 1..Len(s) : x = s[i]
      /\ \A x : x \in ToSet(t) <=> \E i \in 1..Len(t) : x = t[i]
  BY <1>4, Zenon DEF ToSet
<1> QED
  BY <1>1, <1>2, <1>3, <1>5, Zenon

LEMMA AppendElements ==
  ASSUME NEW X, NEW s \in Seq(X), NEW c \in X
  PROVE  ToSet(Append(s, c)) = ToSet(s) \cup {c}
<1> DEFINE one == <<c>>
<1>1. one \in Seq(X) /\ ToSet(one) = {c}
  BY DEF ToSet
<1>2. Append(s, c) = s \o one
  OBVIOUS
<1> HIDE DEF one
<1>3. ToSet(s \o one) = ToSet(s) \cup ToSet(one)
  BY <1>1, JoinElements, SMT
<1> QED
  BY <1>1, <1>2, <1>3, Zenon

\* What holds of the empty sequence, and goes on with every element appended,
\* holds of all.
LEMMA SeqInduction ==
  ASSUME NEW X, NEW S, <<>> \in S,
         \A s \in Seq(X), c \in X : s \in S => Append(s, c) \in S
  PROVE  \A s \in Seq(X) : s \in S
<1> SUFFICES ASSUME NEW s \in Seq(X) PROVE s \in S
  OBVIOUS
<1> DEFINE n == Len(s)
           front(i) == SubSeq(s, 1, i)
           M == {i \in 0..n : front(i) \in S}
<1>1. n \in Nat /\ front(0) = <<>> /\ front(n) = s
  OBVIOUS
<1>2. ASSUME NEW i \in 1..n
      PROVE  /\ front(i - 1) \in Seq(X) /\ s[i] \in X
             /\ front(i) = Append(front(i - 1), s[i])
  OBVIOUS
<1> HIDE DEF n, front
<1>3. 0 \in M /\ M \in SUBSET (0..n)
  BY <1>1
<1>4. ASSUME NEW i \in 1..n PROVE i - 1 \in M => i \in M
  <2>1. front(i - 1) \in S => front(i) \in S
    BY <1>2
  <2>2. i \in 0..n
    BY <1>1
  <2> QED
    BY <2>1, <2>2, Zenon
<1> HIDE DEF M
<1>5. n \in M
  <2>1. n \in 0..n
    BY <1>1
  <2> QED
    BY <1>1, <1>3, <1>4, <2>1, UpTo, Zenon
<1> QED
  BY <1>1, <1>5 DEF M

-----------------------------------------------------------------------------
(* FlattenSeq.                                                              *)

\* The function FlattenSeq is defined by, and that there is one.
Flat(seqs, n) ==
  CHOOSE flat : flat = [i \in 1..n |-> IF i = 1 THEN seqs[i] ELSE flat[i - 1] \o seqs[i]]

LEMMA FlatExists ==
  ASSUME NEW seqs, NEW n \in Nat
  PROVE  Flat(seqs, n) =
           [i \in 1..n |-> IF i = 1 THEN seqs[i] ELSE Flat(seqs, n)[i - 1] \o seqs[i]]
<1> DEFINE Is(flat, m) ==
             flat = [i \in 1..m |-> IF i = 1 THEN seqs[i] ELSE flat[i - 1] \o seqs[i]]
           S == {m \in 0..n : \E flat : Is(flat, m)}
<1>1. 0 \in S
  <2>1. Is([i \in 1..0 |-> <<>>], 0)
    <3>1. \A i \in 1..0 : FALSE
      OBVIOUS
    <3> QED
      BY <3>1, Zenon
  <2> HIDE DEF Is
  <2> QED
    BY <2>1
<1>2. ASSUME NEW m \in 1..n, m - 1 \in S PROVE m \in S
  <2>1. PICK flat : Is(flat, m - 1)
    BY <1>2
  <2> DEFINE more == IF m = 1 THEN seqs[m] ELSE flat[m - 1] \o seqs[m]
             now  == [i \in 1..m |-> IF i = m THEN more ELSE flat[i]]
  <2>2. \A i \in 1..m : now[i] = IF i = 1 THEN seqs[i] ELSE now[i - 1] \o seqs[i]
    <3> SUFFICES ASSUME NEW i \in 1..m
                 PROVE  now[i] = IF i = 1 THEN seqs[i] ELSE now[i - 1] \o seqs[i]
      OBVIOUS
    <3>1. CASE i = m
      <4>1. now[m] = more /\ (m # 1 => now[m - 1] = flat[m - 1])
        OBVIOUS
      <4> HIDE DEF now
      <4> QED
        BY <4>1, <3>1, Zenon
    <3>2. CASE i # m
      <4>1. /\ i \in 1..(m - 1) /\ now[i] = flat[i]
            /\ i # 1 => now[i - 1] = flat[i - 1]
        BY <3>2
      <4>2. flat[i] = IF i = 1 THEN seqs[i] ELSE flat[i - 1] \o seqs[i]
        BY <4>1, <2>1, Zenon
      <4> HIDE DEF now, Is
      <4> QED
        BY <4>1, <4>2, Zenon
    <3> QED
      BY <3>1, <3>2
  <2>3. Is(now, m)
    <3>1. now = [i \in 1..m |-> now[i]]
      OBVIOUS
    <3> HIDE DEF now
    <3> QED
      BY <3>1, <2>2, Zenon
  <2> HIDE DEF Is, now
  <2> QED
    BY <2>3
<1>3. \E flat : Is(flat, n)
  <2> HIDE DEF Is
  <2>1. S \in SUBSET (0..n)
    OBVIOUS
  <2> HIDE DEF S
  <2>2. n \in S
    BY <1>1, <1>2, <2>1, UpTo
  <2> QED
    BY <2>2 DEF S
<1> QED
  BY <1>3 DEF Flat

LEMMA FlattenEmpty == FlattenSeq(<<>>) = <<>>
  BY DEF FlattenSeq

\* One sequence more, at the end.
LEMMA FlattenAppend ==
  ASSUME NEW X, NEW seqs \in Seq(Seq(X)), NEW s \in Seq(X)
  PROVE  FlattenSeq(Append(seqs, s)) = FlattenSeq(seqs) \o s
<1> DEFINE n == Len(seqs)
           more == Append(seqs, s)
           f == Flat(seqs, n)
           g == Flat(more, n + 1)
           M == {i \in 0..n : i # 0 => g[i] = f[i]}
<1>1. /\ n \in Nat /\ n + 1 \in Nat /\ Len(more) = n + 1 /\ more[n + 1] = s
      /\ \A i \in 1..n : more[i] = seqs[i]
  BY AppendSeq
<1> HIDE DEF n, more
<1>2. ASSUME NEW i \in 1..n PROVE f[i] = IF i = 1 THEN seqs[i] ELSE f[i - 1] \o seqs[i]
  <2>1. f = [j \in 1..n |-> IF j = 1 THEN seqs[j] ELSE f[j - 1] \o seqs[j]]
    BY <1>1, FlatExists, Zenon
  <2> HIDE DEF f
  <2> QED
    BY <2>1, Zenon
<1>3. ASSUME NEW i \in 1..(n + 1)
      PROVE  g[i] = IF i = 1 THEN more[i] ELSE g[i - 1] \o more[i]
  <2>1. g = [j \in 1..(n + 1) |-> IF j = 1 THEN more[j] ELSE g[j - 1] \o more[j]]
    BY <1>1, FlatExists, Zenon
  <2> HIDE DEF g
  <2> QED
    BY <2>1, Zenon
<1>4. FlattenSeq(more) = g[n + 1]
  BY <1>1 DEF FlattenSeq, Flat
<1>5. n # 0 => FlattenSeq(seqs) = f[n]
  BY <1>1 DEF FlattenSeq, Flat, n
<1> HIDE DEF f, g
<1>6. ASSUME NEW i \in 1..n PROVE i - 1 \in M => i \in M
  <2>1. i \in 1..(n + 1) /\ i \in 0..n /\ more[i] = seqs[i]
    BY <1>1
  <2>2. i # 1 => i - 1 \in 0..n /\ i - 1 # 0
    BY <1>1
  <2>3. f[i] = (IF i = 1 THEN seqs[i] ELSE f[i - 1] \o seqs[i])
    BY <1>2
  <2>4. g[i] = (IF i = 1 THEN seqs[i] ELSE g[i - 1] \o seqs[i])
    BY <2>1, <1>3
  <2> QED
    BY <2>1, <2>2, <2>3, <2>4, ZenonT(60)
<1>7. n \in M
  <2>1. 0 \in M /\ M \in SUBSET (0..n) /\ n \in 0..n
    BY <1>1
  <2> HIDE DEF M
  <2> QED
    BY <1>1, <1>6, <2>1, UpTo, Zenon
<1>8. CASE n = 0
  <2>1. seqs = <<>>
    BY <1>8 DEF n
  <2>2. g[1] = s
    BY <1>1, <1>3, <1>8
  <2>3. <<>> \o s = s
    BY JoinEmpty
  <2> QED
    BY <1>4, <1>8, <2>1, <2>2, <2>3, FlattenEmpty DEF more
<1>9. CASE n # 0
  <2>1. g[n + 1] = g[n] \o s
    <3>1. n + 1 \in 1..(n + 1) /\ n + 1 # 1 /\ (n + 1) - 1 = n
      BY <1>1, <1>9
    <3> QED
      BY <1>1, <1>3, <3>1, Zenon
  <2> QED
    BY <1>4, <1>5, <1>7, <1>9, <2>1, Zenon DEF more
<1> QED
  BY <1>8, <1>9

LEMMA FlattenTyped ==
  ASSUME NEW X, NEW seqs \in Seq(Seq(X))
  PROVE  FlattenSeq(seqs) \in Seq(X)
<1> DEFINE S == {t \in Seq(Seq(X)) : FlattenSeq(t) \in Seq(X)}
<1>1. <<>> \in S
  <2>1. <<>> \in Seq(Seq(X)) /\ <<>> \in Seq(X)
    OBVIOUS
  <2> QED
    BY <2>1, FlattenEmpty, Zenon
<1>2. ASSUME NEW t \in Seq(Seq(X)), NEW s \in Seq(X), t \in S PROVE Append(t, s) \in S
  <2>1. Append(t, s) \in Seq(Seq(X)) /\ FlattenSeq(t) \o s \in Seq(X)
    BY <1>2, AppendSeq, JoinSeq
  <2> QED
    BY <2>1, FlattenAppend, Zenon
<1> HIDE DEF S
<1>3. seqs \in S
  BY <1>1, <1>2, SeqInduction, Zenon
<1> QED
  BY <1>3 DEF S

\* The elements of a flattened sequence are those of the sequences in it.
LEMMA FlattenElements ==
  ASSUME NEW X, NEW seqs \in Seq(Seq(X))
  PROVE  ToSet(FlattenSeq(seqs)) = UNION {ToSet(t) : t \in ToSet(seqs)}
<1> DEFINE S == {t \in Seq(Seq(X)) : ToSet(FlattenSeq(t)) = UNION {ToSet(u) : u \in ToSet(t)}}
<1>1. <<>> \in S
  BY FlattenEmpty DEF ToSet
<1>2. ASSUME NEW t \in Seq(Seq(X)), NEW s \in Seq(X), t \in S PROVE Append(t, s) \in S
  <2>1. Append(t, s) \in Seq(Seq(X)) /\ FlattenSeq(t) \in Seq(X)
    BY AppendSeq, FlattenTyped
  <2>2. ToSet(FlattenSeq(Append(t, s))) = ToSet(FlattenSeq(t)) \cup ToSet(s)
    <3>1. FlattenSeq(Append(t, s)) = FlattenSeq(t) \o s
      BY FlattenAppend
    <3>2. ToSet(FlattenSeq(t) \o s) = ToSet(FlattenSeq(t)) \cup ToSet(s)
      BY <2>1, JoinElements
    <3> QED
      BY <3>1, <3>2, Zenon
  <2>3. ToSet(Append(t, s)) = ToSet(t) \cup {s}
    BY AppendElements
  <2> QED
    BY <1>2, <2>1, <2>2, <2>3, Zenon
<1> HIDE DEF S
<1>3. seqs \in S
  BY <1>1, <1>2, SeqInduction, Zenon
<1> QED
  BY <1>3 DEF S

-----------------------------------------------------------------------------
(* What a sequence is turned into, element by element, and joined.          *)

Turns(F, S, Y) == F \in [S -> Y]
Mapped(F, s) == [i \in DOMAIN s |-> F[s[i]]]
Flow(F, s) == FlattenSeq(Mapped(F, s))

\* Each element is turned in its place.
LEMMA MappedTyped ==
  ASSUME NEW S, NEW Y, NEW F, Turns(F, S, Y), NEW s \in Seq(S)
  PROVE  /\ Mapped(F, s) \in Seq(Y) /\ Len(Mapped(F, s)) = Len(s)
         /\ DOMAIN Mapped(F, s) = 1..Len(s)
         /\ \A i \in 1..Len(s) : Mapped(F, s)[i] = F[s[i]]
<1> DEFINE n == Len(s)
           m == Mapped(F, s)
<1>1. n \in Nat /\ DOMAIN s = 1..n /\ \A i \in 1..n : s[i] \in S
  OBVIOUS
<1>2. m = [i \in 1..n |-> F[s[i]]]
  BY <1>1, Zenon DEF Mapped
<1>3. \A i \in 1..n : F[s[i]] \in Y
  BY <1>1 DEF Turns
<1> HIDE DEF n, m
<1>4. m \in Seq(Y) /\ Len(m) = n /\ DOMAIN m = 1..n /\ \A i \in 1..n : m[i] = F[s[i]]
  BY <1>1, <1>2, <1>3
<1> QED
  BY <1>4, Zenon DEF n, m

LEMMA MappedStep ==
  ASSUME NEW S, NEW Y, NEW F, Turns(F, S, Y), NEW s \in Seq(S), NEW c \in S
  PROVE  Mapped(F, Append(s, c)) = Append(Mapped(F, s), F[c])
<1> DEFINE n == Len(s)
           t == Append(s, c)
           m == Mapped(F, s)
           lhs == Mapped(F, t)
           rhs == Append(m, F[c])
<1>1. n \in Nat
  BY LenIsNat
<1>2. /\ t \in Seq(S) /\ Len(t) = n + 1 /\ t[n + 1] = c /\ \A i \in 1..n : t[i] = s[i]
  BY AppendSeq
<1>3. m \in Seq(Y) /\ Len(m) = n /\ \A i \in 1..n : m[i] = F[s[i]]
  BY MappedTyped
<1> HIDE DEF n, t, m
<1>4. lhs \in Seq(Y) /\ Len(lhs) = n + 1 /\ \A i \in 1..(n + 1) : lhs[i] = F[t[i]]
  <2>1. lhs \in Seq(Y) /\ Len(lhs) = Len(t) /\ \A i \in 1..Len(t) : lhs[i] = F[t[i]]
    BY <1>2, MappedTyped
  <2> HIDE DEF lhs
  <2> QED
    BY <1>2, <2>1, Zenon
<1>5. /\ rhs \in Seq(Y) /\ Len(rhs) = n + 1 /\ rhs[n + 1] = F[c]
      /\ \A i \in 1..n : rhs[i] = m[i]
  <2>1. F[c] \in Y
    BY DEF Turns
  <2> DEFINE y == F[c]
  <2> HIDE DEF y
  <2>2. y \in Y /\ m \in Seq(Y)
    BY <1>3, <2>1, Zenon DEF y
  <2>3. /\ Append(m, y) \in Seq(Y) /\ Len(Append(m, y)) = Len(m) + 1 /\ Append(m, y)[Len(m) + 1] = y
        /\ \A i \in 1..Len(m) : Append(m, y)[i] = m[i]
    BY <2>2, AppendSeq
  <2> QED
    BY <1>3, <2>3, Zenon DEF y
<1> HIDE DEF lhs, rhs
<1>6. \A i \in 1..(n + 1) : lhs[i] = rhs[i]
  <2> SUFFICES ASSUME NEW i \in 1..(n + 1) PROVE lhs[i] = rhs[i]
    OBVIOUS
  <2>1. i = n + 1 \/ i \in 1..n
    BY <1>1
  <2> QED
    BY <1>2, <1>3, <1>4, <1>5, <2>1
<1>7. lhs = rhs
  BY <1>1, <1>4, <1>5, <1>6
<1> QED
  BY <1>7, Zenon DEF lhs, rhs, t, m

\* One more element adds what it is turned into at the end.
LEMMA FlowStep ==
  ASSUME NEW S, NEW X, NEW F, Turns(F, S, Seq(X)), NEW s \in Seq(S), NEW c \in S
  PROVE  Flow(F, Append(s, c)) = Flow(F, s) \o F[c] /\ Flow(F, s) \in Seq(X)
<1> DEFINE m == Mapped(F, s)
           y == F[c]
<1>1. Mapped(F, Append(s, c)) = Append(m, y) /\ m \in Seq(Seq(X))
  BY MappedStep, MappedTyped
<1>2. y \in Seq(X)
  BY DEF Turns
<1> HIDE DEF m, y
<1>3. FlattenSeq(Append(m, y)) = FlattenSeq(m) \o y /\ FlattenSeq(m) \in Seq(X)
  BY <1>1, <1>2, FlattenAppend, FlattenTyped
<1> QED
  BY <1>1, <1>3, Zenon DEF Flow, m, y

LEMMA FlowEmpty == ASSUME NEW F PROVE Flow(F, <<>>) = <<>>
<1>1. Mapped(F, <<>>) = <<>>
  BY DEF Mapped
<1> QED
  BY <1>1, FlattenEmpty, Zenon DEF Flow

LEMMA FlowTyped ==
  ASSUME NEW S, NEW X, NEW F, Turns(F, S, Seq(X)), NEW s \in Seq(S)
  PROVE  Flow(F, s) \in Seq(X)
<1>1. Mapped(F, s) \in Seq(Seq(X))
  BY MappedTyped, Zenon
<1> QED
  BY <1>1, FlattenTyped, Zenon DEF Flow

\* What is in it.
LEMMA FlowElements ==
  ASSUME NEW S, NEW X, NEW F, Turns(F, S, Seq(X)), NEW s \in Seq(S)
  PROVE  /\ \A x \in ToSet(Flow(F, s)) : \E c \in ToSet(s) : x \in ToSet(F[c])
         /\ \A c \in ToSet(s) : \A x \in ToSet(F[c]) : x \in ToSet(Flow(F, s))
<1> DEFINE m == Mapped(F, s)
           n == Len(s)
<1>1. m \in Seq(Seq(X)) /\ DOMAIN m = 1..n /\ \A i \in 1..n : m[i] = F[s[i]]
  BY MappedTyped
<1>2. DOMAIN s = 1..n
  OBVIOUS
<1> HIDE DEF m, n
<1>3. ToSet(FlattenSeq(m)) = UNION {ToSet(t) : t \in ToSet(m)}
  BY <1>1, FlattenElements, Zenon
<1>4. /\ \A t \in ToSet(m) : \E c \in ToSet(s) : t = F[c]
      /\ \A c \in ToSet(s) : F[c] \in ToSet(m)
  <2>1. ASSUME NEW t \in ToSet(m) PROVE \E c \in ToSet(s) : t = F[c]
    <3>1. PICK i \in 1..n : t = m[i]
      BY <1>1, Zenon DEF ToSet
    <3>2. s[i] \in ToSet(s) /\ t = F[s[i]]
      BY <1>1, <1>2, <3>1, Zenon DEF ToSet
    <3> QED
      BY <3>2, Zenon
  <2>2. ASSUME NEW c \in ToSet(s) PROVE F[c] \in ToSet(m)
    <3>1. PICK i \in 1..n : c = s[i]
      BY <1>2, Zenon DEF ToSet
    <3>2. m[i] = F[c]
      BY <1>1, <3>1, Zenon
    <3> QED
      BY <1>1, <3>1, <3>2, Zenon DEF ToSet
  <2> QED
    BY <2>1, <2>2, Zenon
<1>5. ASSUME NEW x \in ToSet(FlattenSeq(m)) PROVE \E c \in ToSet(s) : x \in ToSet(F[c])
  <2>1. PICK t \in ToSet(m) : x \in ToSet(t)
    BY <1>3, Zenon
  <2> QED
    BY <1>4, <2>1, Zenon
<1>6. ASSUME NEW c \in ToSet(s), NEW x \in ToSet(F[c]) PROVE x \in ToSet(FlattenSeq(m))
  <2>1. F[c] \in ToSet(m)
    BY <1>4, Zenon
  <2> QED
    BY <1>3, <2>1, Zenon
<1> QED
  BY <1>5, <1>6, Zenon DEF Flow, m

\* Two sequences in turn.
LEMMA FlowJoin ==
  ASSUME NEW S, NEW X, NEW F, Turns(F, S, Seq(X)), NEW s \in Seq(S), NEW t \in Seq(S)
  PROVE  Flow(F, s \o t) = Flow(F, s) \o Flow(F, t)
<1> DEFINE f == Flow(F, s)
           Q == {u \in Seq(S) : Flow(F, s \o u) = f \o Flow(F, u)}
<1>0. f \in Seq(X)
  BY FlowTyped, Zenon
<1> HIDE DEF f
<1>1. <<>> \in Q
  <2>1. <<>> \in Seq(S) /\ s \o <<>> = s /\ f \o <<>> = f
    BY <1>0, JoinEmpty
  <2>2. Flow(F, s \o <<>>) = f \o Flow(F, <<>>)
    BY <2>1, FlowEmpty, Zenon DEF f
  <2> QED
    BY <2>1, <2>2, Zenon
<1>2. ASSUME NEW u \in Seq(S), NEW c \in S, u \in Q PROVE Append(u, c) \in Q
  <2> DEFINE w == s \o u
             v == Append(u, c)
             g == Flow(F, u)
             y == F[c]
  <2>1. Flow(F, w) = f \o g
    BY <1>2, Zenon
  <2>2. w \in Seq(S) /\ v \in Seq(S)
    BY JoinSeq, AppendSeq
  <2>3. s \o v = Append(w, c)
    BY JoinAppend, SMTT(30)
  <2> HIDE DEF w
  <2>4. Flow(F, Append(w, c)) = Flow(F, w) \o y
    BY <2>2, FlowStep
  <2>5. Flow(F, v) = g \o y /\ g \in Seq(X) /\ y \in Seq(X)
    <3>1. y \in Seq(X)
      BY DEF Turns
    <3> QED
      BY <3>1, FlowStep
  <2> HIDE DEF g, y, v
  <2>6. (f \o g) \o y = f \o (g \o y)
    <3>1. g \in Seq(X) /\ y \in Seq(X)
      BY <2>5
    <3> QED
      BY <1>0, <3>1, JoinAssoc, SMTT(60)
  <2>7. Flow(F, s \o v) = f \o Flow(F, v)
    BY <2>1, <2>3, <2>4, <2>5, <2>6, Zenon
  <2> QED
    BY <2>2, <2>7, Zenon DEF v
<1> HIDE DEF Q
<1>3. t \in Q
  BY <1>1, <1>2, SeqInduction, Zenon
<1> QED
  BY <1>3, Zenon DEF Q, f

\* Nothing comes of elements that are left out.
LEMMA FlowNothing ==
  ASSUME NEW S, NEW X, NEW F, Turns(F, S, Seq(X)), NEW s \in Seq(S),
         \A c \in ToSet(s) : F[c] = <<>>
  PROVE  Flow(F, s) = <<>>
<1> DEFINE f == Flow(F, s)
<1>1. f \in Seq(X)
  BY FlowTyped, Zenon
<1>2. \A x : x \notin ToSet(<<>>)
  BY DEF ToSet
<1>3. \A x : x \notin ToSet(f)
  BY <1>2, FlowElements
<1> HIDE DEF f
<1>4. Len(f) \in Nat /\ DOMAIN f = 1..Len(f)
  BY <1>1
<1>5. \A i \in DOMAIN f : f[i] \in ToSet(f)
  BY Zenon DEF ToSet
<1>6. ~(Len(f) >= 1)
  <2>1. Len(f) >= 1 => 1 \in DOMAIN f
    BY <1>4
  <2> QED
    BY <1>3, <1>5, <2>1, Zenon
<1>7. f = <<>>
  BY <1>1, <1>4, <1>6
<1> QED
  BY <1>7, Zenon DEF f
=============================================================================
