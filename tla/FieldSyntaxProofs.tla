------------------------- MODULE FieldSyntaxProofs -------------------------
(***************************************************************************)
(* Proofs about FieldSyntax, for fields of any lines of any symbols.        *)
(***************************************************************************)
EXTENDS FieldSyntax, SequenceLemmas

-----------------------------------------------------------------------------
(* Quotes.                                                                  *)

States == {"plain", "quoted", "escaped"}

\* In what split finds itself at the end of `s`.
Ending(s) == Quoting(s)[Len(s)]

LEMMA AfterTyped == ASSUME NEW state \in States, NEW c PROVE After(state, c) \in States
  BY DEF States, After

LEMMA QuotingStep ==
  ASSUME NEW s \in Seq(Symbols)
  PROVE  /\ Quoting(s) \in [0..Len(s) -> States]
         /\ Quoting(s)[0] = "plain"
         /\ \A i \in 1..Len(s) : Quoting(s)[i] = After(Quoting(s)[i - 1], s[i])
<1> DEFINE n == Len(s)
           step == [i \in 1..n |-> [x \in States |-> After(x, s[i])]]
           Is(f) == f = [i \in 0..n |-> IF i = 0 THEN "plain" ELSE After(f[i - 1], s[i])]
<1>1. n \in Nat /\ "plain" \in States
  BY DEF States
<1>2. step \in [1..n -> [States -> States]]
  BY AfterTyped
<1>3. ASSUME NEW i \in 1..n, NEW x \in States PROVE step[i][x] = After(x, s[i])
  OBVIOUS
<1> HIDE DEF n, step
<1>4. PICK f : /\ f \in [0..n -> States] /\ f[0] = "plain"
               /\ \A i \in 1..n : f[i] = step[i][f[i - 1]]
  <2>1. \E f : Unfolds(f, n, States, "plain", step)
    BY <1>1, <1>2, RecursionExists
  <2> QED
    BY <2>1, Zenon DEF Unfolds
<1>5. ASSUME NEW i \in 0..n
      PROVE  f[i] = IF i = 0 THEN "plain" ELSE After(f[i - 1], s[i])
  <2>1. i # 0 => i \in 1..n /\ f[i - 1] \in States
    BY <1>1, <1>4
  <2> QED
    BY <2>1, <1>3, <1>4, Zenon
<1>6. Is(f)
  <2>1. f = [i \in 0..n |-> f[i]]
    BY <1>4
  <2> QED
    BY <2>1, <1>5, Zenon
<1> DEFINE q == Quoting(s)
<1>7. Is(q)
  <2>1. q = CHOOSE g : Is(g)
    BY DEF Quoting, n
  <2> HIDE DEF q, Is
  <2> QED
    BY <1>6, <2>1, Zenon
<1>8. ASSUME NEW i \in 0..n
      PROVE  q[i] = IF i = 0 THEN "plain" ELSE After(q[i - 1], s[i])
  <2> HIDE DEF q
  <2> QED
    BY <1>7, Zenon
<1> HIDE DEF q
<1>9. q[0] = "plain" /\ \A i \in 1..n : q[i] = After(q[i - 1], s[i])
  BY <1>1, <1>8
<1>10. n \in Nat /\ \A i \in 0..n : q[i] \in States
  <2> DEFINE M == {i \in 0..n : q[i] \in States}
  <2>1. /\ 0 \in M /\ M \in SUBSET (0..n)
        /\ \A i \in 1..n : i - 1 \in 0..n /\ i \in 0..n
    BY <1>1, <1>9
  <2>2. ASSUME NEW i \in 1..n PROVE i - 1 \in M => i \in M
    BY <1>9, <2>1, AfterTyped
  <2> HIDE DEF M
  <2>3. \A i \in 0..n : i \in M
    BY <1>1, <2>1, <2>2, UpTo, Zenon
  <2> QED
    BY <1>1, <2>3, Zenon DEF M
<1>11. q = [i \in 0..n |-> q[i]]
  <2>1. q = [i \in 0..n |-> IF i = 0 THEN "plain" ELSE After(q[i - 1], s[i])]
    BY <1>7, Zenon
  <2> QED
    BY <2>1
<1> QED
  BY <1>9, <1>10, <1>11 DEF n, q

LEMMA EndingTyped ==
  ASSUME NEW s \in Seq(Symbols)
  PROVE  Ending(s) \in States /\ \A i \in 0..Len(s) : Quoting(s)[i] \in States
<1> DEFINE q == Quoting(s)
           n == Len(s)
<1>1. q \in [0..n -> States]
  BY QuotingStep
<1>2. n \in 0..n
  BY LenIsNat
<1> HIDE DEF q, n
<1> QED
  BY <1>1, <1>2 DEF Ending, q, n

LEMMA EndingEmpty == Ending(<<>>) = "plain"
<1>1. <<>> \in Seq(Symbols) /\ Len(<<>>) = 0
  OBVIOUS
<1>2. Quoting(<<>>)[0] = "plain"
  BY <1>1, QuotingStep
<1> QED
  BY <1>1, <1>2, Zenon DEF Ending

\* What comes after an octet has no effect on where it is.
LEMMA QuotingAppend ==
  ASSUME NEW s \in Seq(Symbols), NEW c \in Symbols
  PROVE  /\ \A i \in 0..Len(s) : Quoting(Append(s, c))[i] = Quoting(s)[i]
         /\ Ending(Append(s, c)) = After(Ending(s), c)
<1> DEFINE n == Len(s)
           t == Append(s, c)
           p == Quoting(s)
           q == Quoting(t)
           M == {i \in 0..n : q[i] = p[i]}
<1>1. /\ n \in Nat /\ Len(t) = n + 1 /\ t \in Seq(Symbols) /\ t[n + 1] = c
      /\ \A i \in 1..n : t[i] = s[i]
  BY AppendSeq
<1>2. p[0] = "plain" /\ \A i \in 1..n : p[i] = After(p[i - 1], s[i])
  BY QuotingStep
<1>3. q[0] = "plain" /\ \A i \in 1..(n + 1) : q[i] = After(q[i - 1], t[i])
  <2> HIDE DEF t
  <2> QED
    BY <1>1, QuotingStep
<1> HIDE DEF n, t, p, q
<1>4. ASSUME NEW i \in 1..n PROVE i - 1 \in M => i \in M
  <2>1. i \in 1..(n + 1) /\ i \in 0..n
    BY <1>1
  <2> QED
    BY <1>1, <1>2, <1>3, <2>1, Zenon
<1>5. 0 \in M /\ M \in SUBSET (0..n)
  BY <1>1, <1>2, <1>3
<1> HIDE DEF M
<1>6. \A i \in 0..n : q[i] = p[i]
  <2>1. \A i \in 0..n : i \in M
    BY <1>1, <1>4, <1>5, UpTo, Zenon
  <2> QED
    BY <2>1, Zenon DEF M
<1>7. q[n + 1] = After(p[n], c)
  <2>1. n + 1 \in 1..(n + 1) /\ (n + 1) - 1 = n /\ n \in 0..n
    BY <1>1
  <2> QED
    BY <1>1, <1>3, <1>6, <2>1, Zenon
<1>8. Ending(t) = q[n + 1] /\ Ending(s) = p[n]
  BY <1>1 DEF Ending, n, p, q
<1> QED
  BY <1>6, <1>7, <1>8, Zenon DEF n, t, p, q

-----------------------------------------------------------------------------
(* Pieces.                                                                  *)

Sheets == Seq(Seq(Symbols)) \ {<<>>}
Unwritten == <<<<>>>>

\* One octet more, and the function PiecesAt is defined by.
Writes(pieces, c, cut) == IF cut THEN Append(pieces, <<>>) ELSE Extend(pieces, c)

Cutting(s, cuts) ==
  CHOOSE pieces : pieces = [i \in 0..Len(s) |->
    IF i = 0 THEN <<<<>>>>
    ELSE IF i \in cuts THEN Append(pieces[i - 1], <<>>) ELSE Extend(pieces[i - 1], s[i])]

LEMMA UnwrittenTyped ==
  /\ Unwritten \in Sheets /\ Len(Unwritten) = 1 /\ Unwritten[1] = <<>>
  /\ ToSet(Unwritten) = {<<>>}
<1>1. Unwritten \in Seq(Seq(Symbols)) /\ Len(Unwritten) = 1 /\ Unwritten[1] = <<>>
  BY DEF Unwritten
<1>2. Unwritten # <<>>
  <2>1. 1 \in DOMAIN Unwritten
    BY <1>1
  <2>2. \A i : i \notin DOMAIN <<>>
    OBVIOUS
  <2> QED
    BY <2>1, <2>2, Zenon
<1>3. ToSet(Unwritten) = {<<>>}
  <2>1. DOMAIN Unwritten = {1}
    BY <1>1
  <2> QED
    BY <1>1, <2>1 DEF ToSet
<1> QED
  BY <1>1, <1>2, <1>3, Zenon DEF Sheets

LEMMA SheetTyped ==
  ASSUME NEW p \in Sheets
  PROVE  p \in Seq(Seq(Symbols)) /\ Len(p) \in Nat /\ Len(p) \in 1..Len(p)
         /\ p[Len(p)] \in Seq(Symbols)
  BY DEF Sheets

\* The last piece goes on.
LEMMA ExtendDoes ==
  ASSUME NEW p \in Sheets, NEW c \in Symbols
  PROVE  /\ Extend(p, c) \in Sheets /\ Len(Extend(p, c)) = Len(p)
         /\ Extend(p, c)[Len(p)] = Append(p[Len(p)], c)
         /\ \A k \in 1..Len(p) : k # Len(p) => Extend(p, c)[k] = p[k]
<1> DEFINE n == Len(p)
           last == Append(p[n], c)
           q == Extend(p, c)
<1>1. p \in Seq(Seq(Symbols)) /\ n \in Nat /\ n \in 1..n /\ last \in Seq(Symbols)
  BY SheetTyped, AppendSeq
<1>2. q = [p EXCEPT ![n] = last]
  BY DEF Extend
<1> HIDE DEF last, q
<1>3. q \in Seq(Seq(Symbols)) /\ Len(q) = n
  BY <1>1, <1>2
<1>4. q[n] = last /\ \A k \in 1..n : k # n => q[k] = p[k]
  BY <1>1, <1>2
<1>5. q # <<>>
  BY <1>1, <1>3
<1> QED
  BY <1>3, <1>4, <1>5 DEF Sheets, last, q

\* A new one begins.
LEMMA BeginDoes ==
  ASSUME NEW p \in Sheets
  PROVE  /\ Append(p, <<>>) \in Sheets /\ Len(Append(p, <<>>)) = Len(p) + 1
         /\ Append(p, <<>>)[Len(p) + 1] = <<>>
         /\ \A k \in 1..Len(p) : Append(p, <<>>)[k] = p[k]
<1>1. p \in Seq(Seq(Symbols)) /\ <<>> \in Seq(Symbols) /\ Len(p) \in Nat
  BY SheetTyped
<1> DEFINE q == Append(p, <<>>)
<1>2. /\ q \in Seq(Seq(Symbols)) /\ Len(q) = Len(p) + 1 /\ q[Len(p) + 1] = <<>>
      /\ \A k \in 1..Len(p) : q[k] = p[k]
  BY <1>1, AppendSeq
<1> HIDE DEF q
<1>3. q # <<>>
  BY <1>1, <1>2
<1> QED
  BY <1>2, <1>3 DEF Sheets, q

LEMMA WritesTyped ==
  ASSUME NEW p \in Sheets, NEW c \in Symbols, NEW cut
  PROVE  Writes(p, c, cut) \in Sheets
  BY ExtendDoes, BeginDoes, Zenon DEF Writes

LEMMA CuttingStep ==
  ASSUME NEW s \in Seq(Symbols), NEW cuts
  PROVE  /\ PiecesAt(s, cuts) = Cutting(s, cuts)[Len(s)]
         /\ Cutting(s, cuts)[0] = Unwritten
         /\ \A i \in 1..Len(s) :
              Cutting(s, cuts)[i] = Writes(Cutting(s, cuts)[i - 1], s[i], i \in cuts)
<1> DEFINE n == Len(s)
           step == [i \in 1..n |-> [x \in Sheets |-> Writes(x, s[i], i \in cuts)]]
           Is(f) == f = [i \in 0..n |-> IF i = 0 THEN Unwritten
                                         ELSE Writes(f[i - 1], s[i], i \in cuts)]
<1>1. n \in Nat /\ Unwritten \in Sheets
  BY UnwrittenTyped
<1>2. step \in [1..n -> [Sheets -> Sheets]]
  <2>1. \A i \in 1..n : s[i] \in Symbols
    OBVIOUS
  <2>2. \A i \in 1..n, x \in Sheets : Writes(x, s[i], i \in cuts) \in Sheets
    BY <2>1, WritesTyped, Zenon
  <2> QED
    BY <2>2
<1>3. ASSUME NEW i \in 1..n, NEW x \in Sheets PROVE step[i][x] = Writes(x, s[i], i \in cuts)
  OBVIOUS
<1> HIDE DEF n, step
<1>4. PICK f : /\ f \in [0..n -> Sheets] /\ f[0] = Unwritten
               /\ \A i \in 1..n : f[i] = step[i][f[i - 1]]
  <2>1. \E f : Unfolds(f, n, Sheets, Unwritten, step)
    BY <1>1, <1>2, RecursionExists
  <2> QED
    BY <2>1, Zenon DEF Unfolds
<1>5. ASSUME NEW i \in 0..n
      PROVE  f[i] = IF i = 0 THEN Unwritten ELSE Writes(f[i - 1], s[i], i \in cuts)
  <2>1. i # 0 => i \in 1..n /\ f[i - 1] \in Sheets
    BY <1>1, <1>4
  <2> QED
    BY <2>1, <1>3, <1>4, Zenon
<1>6. Is(f)
  <2>1. f = [i \in 0..n |-> f[i]]
    BY <1>4
  <2> QED
    BY <2>1, <1>5, Zenon
<1> DEFINE q == Cutting(s, cuts)
<1>7. Is(q)
  <2>1. q = CHOOSE g : Is(g)
    BY DEF Cutting, Writes, Unwritten, n
  <2> HIDE DEF q, Is
  <2> QED
    BY <1>6, <2>1, Zenon
<1>8. ASSUME NEW i \in 0..n
      PROVE  q[i] = IF i = 0 THEN Unwritten ELSE Writes(q[i - 1], s[i], i \in cuts)
  <2> HIDE DEF q
  <2> QED
    BY <1>7, Zenon
<1>9. PiecesAt(s, cuts) = q[n]
  BY DEF PiecesAt, Cutting, n
<1> HIDE DEF q
<1>10. q[0] = Unwritten /\ \A i \in 1..n : q[i] = Writes(q[i - 1], s[i], i \in cuts)
  <2>1. 0 \in 0..n /\ \A i \in 1..n : i \in 0..n /\ i # 0
    BY <1>1
  <2> QED
    BY <1>8, <2>1, Zenon
<1> QED
  BY <1>9, <1>10 DEF n, q

LEMMA PiecesEmpty == ASSUME NEW cuts PROVE PiecesAt(<<>>, cuts) = Unwritten
<1>1. <<>> \in Seq(Symbols) /\ Len(<<>>) = 0
  OBVIOUS
<1>2. /\ PiecesAt(<<>>, cuts) = Cutting(<<>>, cuts)[Len(<<>>)]
      /\ Cutting(<<>>, cuts)[0] = Unwritten
  BY <1>1, CuttingStep, Zenon
<1> QED
  BY <1>1, <1>2, Zenon

\* One octet more is cut off or belongs to the last piece; where the octets
\* after it are cut has no effect on it.
LEMMA PiecesAppend ==
  ASSUME NEW s \in Seq(Symbols), NEW c \in Symbols, NEW cuts, NEW fewer,
         \A i \in 1..Len(s) : i \in fewer <=> i \in cuts
  PROVE  /\ Len(s) + 1 \in cuts =>
              PiecesAt(Append(s, c), cuts) = Append(PiecesAt(s, fewer), <<>>)
         /\ Len(s) + 1 \notin cuts =>
              PiecesAt(Append(s, c), cuts) = Extend(PiecesAt(s, fewer), c)
<1> DEFINE n == Len(s)
           t == Append(s, c)
           p == Cutting(s, fewer)
           q == Cutting(t, cuts)
           M == {i \in 0..n : q[i] = p[i]}
<1>1. /\ n \in Nat /\ Len(t) = n + 1 /\ t \in Seq(Symbols) /\ t[n + 1] = c
      /\ \A i \in 1..n : t[i] = s[i]
  BY AppendSeq, LenIsNat
<1>2. /\ PiecesAt(s, fewer) = p[n] /\ p[0] = Unwritten
      /\ \A i \in 1..n : p[i] = Writes(p[i - 1], s[i], i \in fewer)
  BY CuttingStep, Zenon
<1>3. /\ PiecesAt(t, cuts) = q[n + 1] /\ q[0] = Unwritten
      /\ \A i \in 1..(n + 1) : q[i] = Writes(q[i - 1], t[i], i \in cuts)
  <2> HIDE DEF t
  <2>1. /\ PiecesAt(t, cuts) = q[Len(t)] /\ q[0] = Unwritten
        /\ \A i \in 1..Len(t) : q[i] = Writes(q[i - 1], t[i], i \in cuts)
    BY <1>1, CuttingStep, Zenon
  <2> QED
    BY <1>1, <2>1, Zenon
<1>4. \A i \in 1..n : i \in fewer <=> i \in cuts
  OBVIOUS
<1> HIDE DEF n, t, p, q
<1>5. ASSUME NEW i \in 1..n PROVE i - 1 \in M => i \in M
  <2>1. i \in 1..(n + 1) /\ i \in 0..n
    BY <1>1
  <2>2. p[i] = Writes(p[i - 1], s[i], i \in fewer) /\ q[i] = Writes(q[i - 1], s[i], i \in cuts)
    BY <1>1, <1>2, <1>3, <2>1, Zenon
  <2>3. i \in fewer <=> i \in cuts
    BY <1>4
  <2> QED
    BY <2>1, <2>2, <2>3, Zenon DEF Writes
<1>6. 0 \in M /\ M \in SUBSET (0..n) /\ n \in 0..n
  BY <1>1, <1>2, <1>3
<1> HIDE DEF M
<1>7. q[n] = p[n]
  <2>1. \A i \in 0..n : i \in M
    BY <1>1, <1>5, <1>6, UpTo, Zenon
  <2> QED
    BY <1>6, <2>1, Zenon DEF M
<1>8. q[n + 1] = Writes(q[n], c, n + 1 \in cuts)
  <2>1. n + 1 \in 1..(n + 1) /\ (n + 1) - 1 = n
    BY <1>1
  <2> QED
    BY <1>1, <1>3, <2>1, Zenon
<1> QED
  BY <1>2, <1>3, <1>7, <1>8, Zenon DEF Writes, n, t

LEMMA PiecesTyped ==
  ASSUME NEW s \in Seq(Symbols), NEW cuts
  PROVE  PiecesAt(s, cuts) \in Sheets
<1> DEFINE S == {t \in Seq(Symbols) : PiecesAt(t, cuts) \in Sheets}
<1>1. <<>> \in S
  <2>1. <<>> \in Seq(Symbols)
    OBVIOUS
  <2> QED
    BY <2>1, PiecesEmpty, UnwrittenTyped, Zenon
<1>2. ASSUME NEW t \in Seq(Symbols), NEW c \in Symbols, t \in S PROVE Append(t, c) \in S
  <2>1. Append(t, c) \in Seq(Symbols)
    BY AppendSeq
  <2>2. \/ PiecesAt(Append(t, c), cuts) = Append(PiecesAt(t, cuts), <<>>)
        \/ PiecesAt(Append(t, c), cuts) = Extend(PiecesAt(t, cuts), c)
    BY PiecesAppend
  <2> QED
    BY <1>2, <2>1, <2>2, ExtendDoes, BeginDoes, Zenon
<1> HIDE DEF S
<1>3. s \in S
  BY <1>1, <1>2, SeqInduction, Zenon
<1> QED
  BY <1>3 DEF S

-----------------------------------------------------------------------------
(* The pieces of split, and those between all the delimiters there are.     *)

Cuts(s, d) == {i \in Places(s, d) : Quoting(s)[i - 1] = "plain"}
Pieces(s, d) == PiecesAt(s, Cuts(s, d))
AllPieces(s, d) == PiecesAt(s, Places(s, d))

LEMMA SplitIs ==
  ASSUME NEW s, NEW d
  PROVE  /\ split(s, d).error = "Ok" <=> Ending(s) = "plain"
         /\ Ending(s) = "plain" => split(s, d).value = Pieces(s, d)
         /\ Ending(s) # "plain" => split(s, d).error = "MalformedHeader"
  BY DEF split, Ending, Pieces, Cuts, Ok, Err

\* The pieces of a text with one octet more.
LEMMA PiecesStep ==
  ASSUME NEW s \in Seq(Symbols), NEW c \in Symbols, NEW d
  PROVE  /\ c = d /\ Ending(s) = "plain" =>
              Pieces(Append(s, c), d) = Append(Pieces(s, d), <<>>)
         /\ ~(c = d /\ Ending(s) = "plain") =>
              Pieces(Append(s, c), d) = Extend(Pieces(s, d), c)
<1> DEFINE t == Append(s, c)
           n == Len(s)
<1>1. /\ n \in Nat /\ DOMAIN t = 1..(n + 1) /\ t[n + 1] = c
      /\ \A i \in 1..n : t[i] = s[i]
  BY AppendSeq, LenIsNat
<1>2. /\ \A i \in 0..n : Quoting(t)[i] = Quoting(s)[i]
      /\ Ending(s) = Quoting(s)[n]
  BY QuotingAppend, Zenon DEF Ending
<1>0. DOMAIN s = 1..n
  OBVIOUS
<1> HIDE DEF t, n
<1>3. ASSUME NEW i \in 1..n PROVE i \in Cuts(s, d) <=> i \in Cuts(t, d)
  <2>1. i \in 1..(n + 1) /\ i - 1 \in 0..n
    BY <1>1
  <2> QED
    BY <1>0, <1>1, <1>2, <2>1, Zenon DEF Cuts, Places
<1>4. n + 1 \in Cuts(t, d) <=> c = d /\ Ending(s) = "plain"
  <2>1. n + 1 \in 1..(n + 1) /\ (n + 1) - 1 = n /\ n \in 0..n
    BY <1>1
  <2> QED
    BY <1>1, <1>2, <2>1, Zenon DEF Cuts, Places
<1> QED
  BY <1>3, <1>4, PiecesAppend DEF Pieces, t, n

LEMMA AllPiecesStep ==
  ASSUME NEW s \in Seq(Symbols), NEW c \in Symbols, NEW d
  PROVE  /\ c = d => AllPieces(Append(s, c), d) = Append(AllPieces(s, d), <<>>)
         /\ c # d => AllPieces(Append(s, c), d) = Extend(AllPieces(s, d), c)
<1> DEFINE t == Append(s, c)
           n == Len(s)
<1>1. /\ n \in Nat /\ DOMAIN t = 1..(n + 1) /\ t[n + 1] = c
      /\ \A i \in 1..n : t[i] = s[i]
  BY AppendSeq, LenIsNat
<1>0. DOMAIN s = 1..n
  OBVIOUS
<1> HIDE DEF t, n
<1>2. ASSUME NEW i \in 1..n PROVE i \in Places(s, d) <=> i \in Places(t, d)
  <2>1. i \in 1..(n + 1)
    BY <1>1
  <2> QED
    BY <1>0, <1>1, <2>1, Zenon DEF Places
<1>3. n + 1 \in Places(t, d) <=> c = d
  <2>1. n + 1 \in 1..(n + 1)
    BY <1>1
  <2> QED
    BY <1>1, <2>1, Zenon DEF Places
<1> QED
  BY <1>2, <1>3, PiecesAppend DEF AllPieces, t, n

LEMMA NoPiecesYet ==
  ASSUME NEW d
  PROVE  Pieces(<<>>, d) = Unwritten /\ AllPieces(<<>>, d) = Unwritten
  BY PiecesEmpty, Zenon DEF Pieces, AllPieces

LEMMA SheetsOf ==
  ASSUME NEW s \in Seq(Symbols), NEW d
  PROVE  Pieces(s, d) \in Sheets /\ AllPieces(s, d) \in Sheets
  BY PiecesTyped, Zenon DEF Pieces, AllPieces

-----------------------------------------------------------------------------
(* The parts of a balanced text are balanced.                               *)

\* Every piece but the last ends outside of quotes, and the last one where the
\* text does.
LEMMA PiecesEnd ==
  ASSUME NEW s \in Seq(Symbols), NEW d, d # "dquote"
  PROVE  LET p == Pieces(s, d)
         IN /\ \A k \in 1..Len(p) : k # Len(p) => Ending(p[k]) = "plain"
            /\ Ending(p[Len(p)]) = Ending(s)
<1> DEFINE p(t) == Pieces(t, d)
           Ends(t) == /\ \A k \in 1..Len(p(t)) : k # Len(p(t)) => Ending(p(t)[k]) = "plain"
                      /\ Ending(p(t)[Len(p(t))]) = Ending(t)
           S == {t \in Seq(Symbols) : Ends(t)}
<1>1. <<>> \in S
  <2>1. <<>> \in Seq(Symbols) /\ \A k \in 1..1 : k = 1
    OBVIOUS
  <2>2. p(<<>>) = Unwritten
    BY NoPiecesYet
  <2>3. Ends(<<>>)
    <3> HIDE DEF p
    <3> QED
      BY <2>1, <2>2, UnwrittenTyped, Zenon
  <2> HIDE DEF Ends
  <2> QED
    BY <2>1, <2>3, Zenon
<1>2. ASSUME NEW t \in Seq(Symbols), NEW c \in Symbols, t \in S PROVE Append(t, c) \in S
  <2> DEFINE q == p(t)
             r == p(Append(t, c))
             n == Len(q)
  <2>1. Append(t, c) \in Seq(Symbols) /\ Ending(Append(t, c)) = After(Ending(t), c)
    BY AppendSeq, QuotingAppend
  <2>2. /\ q \in Sheets /\ n \in Nat /\ n \in 1..n /\ q[n] \in Seq(Symbols)
        /\ \A k \in 1..n : k # n => Ending(q[k]) = "plain"
        /\ Ending(q[n]) = Ending(t)
    BY <1>2, SheetsOf, SheetTyped
  <2>3. CASE c = d /\ Ending(t) = "plain"
    <3>1. r = Append(q, <<>>)
      BY <2>3, PiecesStep
    <3>2. After(Ending(t), c) = "plain"
      BY <2>3 DEF After
    <3> HIDE DEF q, r
    <3>3. Len(r) = n + 1 /\ r[n + 1] = <<>> /\ \A k \in 1..n : r[k] = q[k]
      BY <2>2, <3>1, BeginDoes, Zenon
    <3> HIDE DEF n
    <3>4. ASSUME NEW k \in 1..(n + 1), k # n + 1 PROVE Ending(r[k]) = "plain"
      <4>1. k \in 1..n
        BY <2>2, <3>4
      <4> QED
        BY <2>2, <2>3, <3>3, <4>1, Zenon
    <3> QED
      BY <2>1, <3>2, <3>3, <3>4, EndingEmpty, Zenon DEF r
  <2>4. CASE ~(c = d /\ Ending(t) = "plain")
    <3>1. r = Extend(q, c)
      BY <2>4, PiecesStep
    <3> HIDE DEF q, r
    <3>2. /\ Len(r) = n /\ r[n] = Append(q[n], c)
          /\ \A k \in 1..n : k # n => r[k] = q[k]
      BY <2>2, <3>1, ExtendDoes, Zenon
    <3>3. Ending(r[n]) = After(Ending(t), c)
      BY <2>2, <3>2, QuotingAppend
    <3> HIDE DEF n
    <3> QED
      BY <2>1, <2>2, <3>2, <3>3, Zenon DEF r
  <2> QED
    BY <2>3, <2>4
<1> HIDE DEF S
<1>3. s \in S
  BY <1>1, <1>2, SeqInduction, Zenon
<1> QED
  BY <1>3, Zenon DEF S

LEMMA PartsBalanced ==
  ASSUME NEW s \in Seq(Symbols), NEW d, d # "dquote", split(s, d).error = "Ok"
  PROVE  /\ split(s, d).value \in Sheets
         /\ \A part \in ToSet(split(s, d).value) :
              part \in Seq(Symbols) /\ Ending(part) = "plain"
<1> DEFINE p == Pieces(s, d)
<1>1. Ending(s) = "plain" /\ split(s, d).value = p
  BY SplitIs
<1>2. p \in Sheets /\ p \in Seq(Seq(Symbols))
  BY SheetsOf, SheetTyped
<1>3. \A k \in 1..Len(p) : Ending(p[k]) = "plain"
  BY <1>1, PiecesEnd
<1> HIDE DEF p
<1>4. ASSUME NEW part \in ToSet(p) PROVE part \in Seq(Symbols) /\ Ending(part) = "plain"
  <2>1. PICK k \in 1..Len(p) : part = p[k]
    BY <1>2 DEF ToSet
  <2> QED
    BY <1>2, <1>3, <2>1
<1> QED
  BY <1>1, <1>2, <1>4, Zenon

-----------------------------------------------------------------------------
(* The lines are of symbols.                                                *)

Typed == lines \in Seq(Seq(Symbols))

LEMMA NamesAreSymbols ==
  /\ NAME \in Symbols /\ Flags \subseteq Symbols /\ Windows \subseteq Symbols
  /\ "comma" \in Symbols /\ "semicolon" \in Symbols /\ "equals" \in Symbols
  /\ "blank" \in Symbols /\ "dquote" \in Symbols /\ "backslash" \in Symbols
  /\ \A i \in 1..10 : Digits[i] \in Symbols
<1>1. DOMAIN Digits = 1..10
  BY DEF Digits
<1>2. \A i \in 1..10 : Digits[i] \in ToSet(Digits)
  BY <1>1, Zenon DEF ToSet
<1> QED
  BY <1>2, Zenon DEF Symbols

LEMMA WireFormTyped ==
  ASSUME NEW n \in Abstract!WireBits
  PROVE  WireForm(n) \in Seq(Symbols) /\ WireForm(n) # <<>>
<1>1. n \in Int /\ n >= 8 /\ n <= 15
  BY DEF Abstract!WireBits
<1>2. CASE n < 10
  <2>1. Digits[n + 1] \in Symbols
    BY <1>1, <1>2, NamesAreSymbols
  <2> QED
    BY <1>2, <2>1 DEF WireForm
<1>3. CASE ~(n < 10)
  <2>1. Digits[n - 9] \in Symbols /\ "1" \in Symbols
    <3>1. n - 9 \in 1..10
      BY <1>1, <1>3
    <3>2. "1" \in Symbols
      BY NamesAreSymbols DEF Digits
    <3> QED
      BY <3>1, <3>2, NamesAreSymbols
  <2> QED
    BY <1>3, <2>1 DEF WireForm
<1> QED
  BY <1>2, <1>3

LEMMA ParameterTyped ==
  ASSUME NEW name \in Flags \cup Windows, NEW value \in Abstract!WireBits \cup {Abstract!Valueless}
  PROVE  Parameter(name, value) \in Seq(Symbols)
<1>1. <<"semicolon", "blank", name>> \in Seq(Symbols) /\ <<"equals">> \in Seq(Symbols)
  BY NamesAreSymbols
<1>2. value # Abstract!Valueless => WireForm(value) \in Seq(Symbols)
  BY WireFormTyped
<1>3. <<>> \in Seq(Symbols)
  OBVIOUS
<1> DEFINE lead == <<"semicolon", "blank", name>>
           sign == <<"equals">>
           tail == IF value = Abstract!Valueless THEN <<>> ELSE sign \o WireForm(value)
<1>4. Parameter(name, value) = lead \o tail
  BY DEF Parameter
<1> HIDE DEF lead, sign
<1>5. tail \in Seq(Symbols)
  BY <1>1, <1>2, <1>3, JoinSeq DEF sign
<1> HIDE DEF tail
<1> QED
  BY <1>1, <1>4, <1>5, JoinSeq DEF lead

LEMMA RenderTyped == ASSUME NEW terms \in Abstract!Params PROVE render(terms) \in Seq(Symbols)
<1> DEFINE Flag(name) == OneIf(terms[name], Parameter(name, Abstract!Valueless))
           Width(name) == OneIf(terms[name] # Abstract!Absent, Parameter(name, terms[name]))
           name == <<NAME>>
<1>1. render(terms) = ((((name \o Flag("server_no_context_takeover"))
                            \o Flag("client_no_context_takeover"))
                            \o Width("server_max_window_bits"))
                            \o Width("client_max_window_bits"))
  BY DEF render
<1>2. name \in Seq(Symbols) /\ <<>> \in Seq(Symbols)
  BY NamesAreSymbols
<1>3. ASSUME NEW f \in Flags PROVE Flag(f) \in Seq(Symbols)
  BY <1>2, <1>3, ParameterTyped DEF OneIf
<1>4. /\ "server_no_context_takeover" \in Flags /\ "client_no_context_takeover" \in Flags
      /\ "server_max_window_bits" \in Windows /\ "client_max_window_bits" \in Windows
  BY DEF Flags, Windows, Abstract!Flags, Abstract!Windows
<1>5. ASSUME NEW w \in Windows PROVE Width(w) \in Seq(Symbols)
  <2>1. terms[w] # Abstract!Absent => terms[w] \in Abstract!WireBits \cup {Abstract!Valueless}
    BY <1>5 DEF Windows, Abstract!Windows, Abstract!Params
  <2>2. w \in Flags \cup Windows
    OBVIOUS
  <2> QED
    BY <1>2, <2>1, <2>2, ParameterTyped, Zenon DEF OneIf
<1> HIDE DEF Flag, Width, name
<1>6. /\ Flag("server_no_context_takeover") \in Seq(Symbols)
      /\ Flag("client_no_context_takeover") \in Seq(Symbols)
      /\ Width("server_max_window_bits") \in Seq(Symbols)
      /\ Width("client_max_window_bits") \in Seq(Symbols)
  BY <1>3, <1>4, <1>5, Zenon
<1> QED
  BY <1>1, <1>2, <1>6, JoinSeq

LEMMA TypedInit == Init => Typed
  BY FieldsAssumption DEF Init, Typed

LEMMA TypedNext == Typed /\ [Next]_vars => Typed'
<1> SUFFICES ASSUME Typed, [Next]_vars PROVE Typed'
  OBVIOUS
<1>1. CASE HostWrites
  <2>1. ASSUME NEW symbol \in Alphabet, Write(symbol) PROVE Typed'
    <3> DEFINE n == Len(lines)
               last == Append(lines[n], symbol)
    <3>1. n \in 1..n /\ lines[n] \in Seq(Symbols) /\ symbol \in Symbols
      BY <2>1, FieldsAssumption DEF Typed, Write
    <3>2. last \in Seq(Symbols)
      BY <3>1, AppendSeq
    <3>3. lines' = [lines EXCEPT ![n] = last]
      BY <2>1 DEF Write
    <3> HIDE DEF last
    <3> QED
      BY <3>1, <3>2, <3>3 DEF Typed
  <2>2. ASSUME NewLine PROVE Typed'
    BY <2>2 DEF NewLine, Typed
  <2> QED
    BY <1>1, <2>1, <2>2 DEF HostWrites
<1>2. ASSUME NEW terms \in Terms, install(terms) PROVE Typed'
  <2>1. render(terms) \in Seq(Symbols)
    BY FieldsAssumption, RenderTyped
  <2>2. lines' = Append(lines, render(terms))
    BY <1>2 DEF install
  <2> QED
    BY <2>1, <2>2, AppendSeq DEF Typed
<1>3. CASE HostEdits
  <2>1. PICK k \in DOMAIN lines :
          \E i, j \in 0..Len(lines[k]), put \in {<<>>} \cup {<<symbol>> : symbol \in Alphabet} :
            /\ j \in {i, i + 1}
            /\ lines' = [lines EXCEPT ![k] = SubSeq(@, 1, i) \o put \o SubSeq(@, j + 1, Len(@))]
    BY <1>3, Zenon DEF HostEdits
  <2> DEFINE line == lines[k]
  <2>2. PICK i \in 0..Len(line), j \in 0..Len(line), put \in {<<>>} \cup {<<symbol>> : symbol \in Alphabet} :
          lines' = [lines EXCEPT ![k] = SubSeq(line, 1, i) \o put \o SubSeq(line, j + 1, Len(line))]
    BY <2>1, Zenon
  <2>3. line \in Seq(Symbols)
    BY DEF Typed
  <2>4. put \in Seq(Symbols)
    <3>1. <<>> \in Seq(Symbols)
      OBVIOUS
    <3> QED
      BY <3>1, FieldsAssumption, OneSeq
  <2> DEFINE edited == SubSeq(line, 1, i) \o put \o SubSeq(line, j + 1, Len(line))
  <2>5. edited \in Seq(Symbols)
    <3>1. SubSeq(line, 1, i) \in Seq(Symbols) /\ SubSeq(line, j + 1, Len(line)) \in Seq(Symbols)
      BY <2>3, CutSeq, Zenon
    <3> QED
      BY <2>4, <3>1, JoinSeq, Zenon
  <2>6. lines' = [lines EXCEPT ![k] = edited]
    BY <2>2, Zenon
  <2> HIDE DEF edited
  <2> QED
    BY <2>5, <2>6 DEF Typed
<1>4. CASE UNCHANGED vars
  BY <1>4 DEF vars, Typed
<1> QED
  BY <1>1, <1>2, <1>3, <1>4 DEF Next

LEMMA TypedAlways == Spec => []Typed
  BY TypedInit, TypedNext, PTL DEF Spec

-----------------------------------------------------------------------------
(* PartsAreBalanced.                                                        *)

\* Whatever the field, every part of a line that splits is quote-balanced, so
\* that the error of segments (grammar.rs) is unreachable, as its doc says.
THEOREM PartsAlwaysBalanced == Spec => []PartsAreBalanced
<1>1. Typed => PartsAreBalanced
  <2> SUFFICES ASSUME Typed, NEW line \in ToSet(lines), elements(line).error = "Ok",
                      NEW element \in ToSet(elements(line).value)
               PROVE  segments(element).error = "Ok"
    BY Zenon DEF PartsAreBalanced
  <2>1. line \in Seq(Symbols)
    BY DEF Typed, ToSet
  <2>2. Ending(element) = "plain"
    <3>1. "comma" # "dquote"
      OBVIOUS
    <3> QED
      BY <2>1, <3>1, PartsBalanced, Zenon DEF elements
  <2> QED
    BY <2>2, SplitIs DEF segments
<1> QED
  BY <1>1, TypedAlways, PTL

-----------------------------------------------------------------------------
(* Lines and the one line they make.                                        *)

\* A last piece that goes on, behind others.
LEMMA ExtendJoined ==
  ASSUME NEW p \in Sheets, NEW q \in Sheets, NEW c \in Symbols
  PROVE  Extend(p \o q, c) = p \o Extend(q, c) /\ p \o q \in Sheets
<1> DEFINE m == Len(p)
           n == Len(q)
           pq == p \o q
           e == Extend(q, c)
           lhs == Extend(pq, c)
           rhs == p \o e
<1>1. /\ p \in Seq(Seq(Symbols)) /\ q \in Seq(Seq(Symbols)) /\ m \in Nat /\ n \in Nat /\ n \in 1..n
      /\ e \in Sheets /\ e \in Seq(Seq(Symbols)) /\ Len(e) = n
      /\ e[n] = Append(q[n], c) /\ \A k \in 1..n : k # n => e[k] = q[k]
  BY SheetTyped, ExtendDoes
<1>2. /\ pq \in Seq(Seq(Symbols)) /\ Len(pq) = m + n
      /\ \A k \in 1..m : pq[k] = p[k]
      /\ \A k \in 1..n : pq[m + k] = q[k]
  BY <1>1, JoinSeq
<1> HIDE DEF m, n, pq, e
<1>3. /\ rhs \in Seq(Seq(Symbols)) /\ Len(rhs) = m + n
      /\ \A k \in 1..m : rhs[k] = p[k]
      /\ \A k \in 1..n : rhs[m + k] = e[k]
  <2>1. /\ rhs \in Seq(Seq(Symbols)) /\ Len(rhs) = Len(p) + Len(e)
        /\ \A k \in 1..Len(p) : rhs[k] = p[k]
        /\ \A k \in 1..Len(e) : rhs[Len(p) + k] = e[k]
    <3>1. p \in Seq(Seq(Symbols)) /\ e \in Seq(Seq(Symbols))
      BY <1>1
    <3> QED
      BY <3>1, JoinSeq
  <2> HIDE DEF rhs
  <2> QED
    BY <1>1, <2>1, Zenon DEF m
<1> HIDE DEF rhs
<1>4. pq \in Sheets
  <2>1. pq # <<>>
    BY <1>1, <1>2
  <2> QED
    BY <1>2, <2>1, Zenon DEF Sheets
<1>5. /\ lhs \in Seq(Seq(Symbols)) /\ Len(lhs) = m + n
      /\ lhs[m + n] = Append(pq[m + n], c)
      /\ \A k \in 1..(m + n) : k # m + n => lhs[k] = pq[k]
  <2>1. /\ lhs \in Sheets /\ Len(lhs) = Len(pq) /\ lhs[Len(pq)] = Append(pq[Len(pq)], c)
        /\ \A k \in 1..Len(pq) : k # Len(pq) => lhs[k] = pq[k]
    BY <1>4, ExtendDoes, Zenon
  <2> HIDE DEF lhs
  <2> QED
    BY <1>2, <2>1, SheetTyped, Zenon
<1> HIDE DEF lhs
<1>6. ASSUME NEW k \in 1..(m + n) PROVE lhs[k] = rhs[k]
  <2>1. CASE k \in 1..m
    <3>1. k # m + n
      BY <2>1, <1>1
    <3> QED
      BY <2>1, <3>1, <1>2, <1>3, <1>5, Zenon
  <2>2. CASE k = m + n
    BY <2>2, <1>1, <1>2, <1>3, <1>5, Zenon
  <2>3. CASE k \notin 1..m /\ k # m + n
    <3> DEFINE j == k - m
    <3>1. j \in 1..n /\ j # n /\ m + j = k
      BY <2>3, <1>1
    <3> HIDE DEF j
    <3> QED
      BY <2>3, <3>1, <1>1, <1>2, <1>3, <1>5, ZenonT(60)
  <2> QED
    BY <2>1, <2>2, <2>3, Zenon
<1>7. lhs = rhs
  BY <1>3, <1>5, <1>6
<1> QED
  BY <1>4, <1>7, Zenon DEF lhs, rhs, pq, e

\* Behind a delimiter, quoted or not, begin pieces of their own.
LEMMA JoinedAll ==
  ASSUME NEW a \in Seq(Symbols), NEW b \in Seq(Symbols), NEW d \in Symbols
  PROVE  /\ a \o (<<d>> \o b) \in Seq(Symbols)
         /\ AllPieces(a \o (<<d>> \o b), d) = AllPieces(a, d) \o AllPieces(b, d)
<1> DEFINE whole(t) == a \o (<<d>> \o t)
           S == {t \in Seq(Symbols) : /\ whole(t) \in Seq(Symbols)
                                      /\ AllPieces(whole(t), d) = AllPieces(a, d) \o AllPieces(t, d)}
<1>1. <<>> \in S
  <2>1. whole(<<>>) = Append(a, d) /\ <<>> \in Seq(Symbols)
    <3>1. <<>> \in Seq(Symbols) /\ <<d>> \in Seq(Symbols)
      OBVIOUS
    <3>2. <<d>> \o <<>> = <<d>>
      BY <3>1, JoinEmpty
    <3> QED
      BY <3>1, <3>2, AppendIsJoin
  <2>2. whole(<<>>) \in Seq(Symbols)
    BY <2>1, AppendSeq
  <2>3. AllPieces(Append(a, d), d) = Append(AllPieces(a, d), <<>>)
    BY AllPiecesStep
  <2>4. ASSUME NEW p \in Sheets PROVE Append(p, <<>>) = p \o Unwritten
    <3>1. p \in Seq(Seq(Symbols)) /\ <<>> \in Seq(Symbols)
      BY SheetTyped
    <3> QED
      BY <3>1, AppendIsJoin DEF Unwritten
  <2> HIDE DEF whole
  <2>5. AllPieces(whole(<<>>), d) = AllPieces(a, d) \o AllPieces(<<>>, d)
    BY <2>1, <2>3, <2>4, NoPiecesYet, SheetsOf, Zenon
  <2> QED
    BY <2>1, <2>2, <2>5, Zenon
<1>2. ASSUME NEW t \in Seq(Symbols), NEW c \in Symbols, t \in S PROVE Append(t, c) \in S
  <2> DEFINE w == whole(t)
  <2>1. whole(Append(t, c)) = Append(w, c) /\ Append(t, c) \in Seq(Symbols)
    <3> DEFINE one == <<d>>
    <3>1. one \in Seq(Symbols) /\ one \o t \in Seq(Symbols) /\ Append(t, c) \in Seq(Symbols)
      BY JoinSeq, AppendSeq
    <3>2. whole(Append(t, c)) = a \o (one \o Append(t, c)) /\ w = a \o (one \o t)
      OBVIOUS
    <3> HIDE DEF one, whole, w
    <3>3. one \o Append(t, c) = Append(one \o t, c)
      BY <3>1, JoinAppend
    <3>4. a \o Append(one \o t, c) = Append(a \o (one \o t), c)
      BY <3>1, JoinAppend
    <3> QED
      BY <3>1, <3>2, <3>3, <3>4, Zenon
  <2>2. w \in Seq(Symbols) /\ AllPieces(w, d) = AllPieces(a, d) \o AllPieces(t, d)
    BY <1>2
  <2> HIDE DEF whole, w, S
  <2>3. Append(w, c) \in Seq(Symbols)
    BY <2>2, AppendSeq
  <2>4. ASSUME NEW p \in Sheets, NEW q \in Sheets
        PROVE  /\ Append(p \o q, <<>>) = p \o Append(q, <<>>)
               /\ Extend(p \o q, c) = p \o Extend(q, c)
    <3> DEFINE nil == <<>>
               X == Seq(Symbols)
    <3>1. p \in Seq(X) /\ q \in Seq(X) /\ nil \in X
      BY SheetTyped
    <3> HIDE DEF nil, X
    <3>2. p \o Append(q, nil) = Append(p \o q, nil)
      BY <3>1, JoinAppend
    <3> QED
      BY <3>2, ExtendJoined DEF nil
  <2>5. AllPieces(Append(w, c), d) = AllPieces(a, d) \o AllPieces(Append(t, c), d)
    <3>1. AllPieces(a, d) \in Sheets /\ AllPieces(t, d) \in Sheets
      BY SheetsOf
    <3>2. CASE c = d
      <4>1. /\ AllPieces(Append(w, c), d) = Append(AllPieces(w, d), <<>>)
            /\ AllPieces(Append(t, c), d) = Append(AllPieces(t, d), <<>>)
        BY <2>2, <3>2, AllPiecesStep, Zenon
      <4> QED
        BY <2>2, <2>4, <3>1, <4>1, Zenon
    <3>3. CASE c # d
      <4>1. /\ AllPieces(Append(w, c), d) = Extend(AllPieces(w, d), c)
            /\ AllPieces(Append(t, c), d) = Extend(AllPieces(t, d), c)
        BY <2>2, <3>3, AllPiecesStep, Zenon
      <4> QED
        BY <2>2, <2>4, <3>1, <4>1, Zenon
    <3> QED
      BY <3>2, <3>3, Zenon
  <2> QED
    BY <2>1, <2>3, <2>5, Zenon DEF S
<1> HIDE DEF S
<1>3. b \in S
  BY <1>1, <1>2, SeqInduction, Zenon
<1> QED
  BY <1>3 DEF S

\* What is cut at a delimiter outside of quotes: quotes and pieces of each part
\* are its own.
LEMMA JoinedPieces ==
  ASSUME NEW a \in Seq(Symbols), NEW b \in Seq(Symbols), NEW d \in Symbols,
         d # "dquote", Ending(a) = "plain"
  PROVE  /\ a \o (<<d>> \o b) \in Seq(Symbols)
         /\ Ending(a \o (<<d>> \o b)) = Ending(b)
         /\ Pieces(a \o (<<d>> \o b), d) = Pieces(a, d) \o Pieces(b, d)
         /\ AllPieces(a \o (<<d>> \o b), d) = AllPieces(a, d) \o AllPieces(b, d)
<1> DEFINE whole(t) == a \o (<<d>> \o t)
           S == {t \in Seq(Symbols) : /\ whole(t) \in Seq(Symbols)
                                      /\ Ending(whole(t)) = Ending(t)
                                      /\ Pieces(whole(t), d) = Pieces(a, d) \o Pieces(t, d)}
<1>1. <<>> \in S
  <2>1. whole(<<>>) = Append(a, d) /\ <<>> \in Seq(Symbols)
    <3>1. <<>> \in Seq(Symbols) /\ <<d>> \in Seq(Symbols)
      OBVIOUS
    <3>2. <<d>> \o <<>> = <<d>>
      BY <3>1, JoinEmpty
    <3> QED
      BY <3>1, <3>2, AppendIsJoin
  <2>2. whole(<<>>) \in Seq(Symbols)
    BY <2>1, AppendSeq
  <2>3. Ending(Append(a, d)) = "plain"
    BY QuotingAppend DEF After
  <2>4. Pieces(Append(a, d), d) = Append(Pieces(a, d), <<>>)
    BY PiecesStep
  <2>5. ASSUME NEW p \in Sheets PROVE Append(p, <<>>) = p \o Unwritten
    <3>1. p \in Seq(Seq(Symbols)) /\ <<>> \in Seq(Symbols)
      BY SheetTyped
    <3> QED
      BY <3>1, AppendIsJoin DEF Unwritten
  <2> HIDE DEF whole
  <2>6. Pieces(whole(<<>>), d) = Pieces(a, d) \o Pieces(<<>>, d)
    BY <2>1, <2>4, <2>5, NoPiecesYet, SheetsOf, Zenon
  <2> QED
    BY <2>1, <2>2, <2>3, <2>6, EndingEmpty, Zenon
<1>2. ASSUME NEW t \in Seq(Symbols), NEW c \in Symbols, t \in S PROVE Append(t, c) \in S
  <2> DEFINE w == whole(t)
  <2>1. whole(Append(t, c)) = Append(w, c) /\ Append(t, c) \in Seq(Symbols)
    <3> DEFINE one == <<d>>
    <3>1. one \in Seq(Symbols) /\ one \o t \in Seq(Symbols) /\ Append(t, c) \in Seq(Symbols)
      BY JoinSeq, AppendSeq
    <3>2. whole(Append(t, c)) = a \o (one \o Append(t, c)) /\ w = a \o (one \o t)
      OBVIOUS
    <3> HIDE DEF one, whole, w
    <3>3. one \o Append(t, c) = Append(one \o t, c)
      BY <3>1, JoinAppend
    <3>4. a \o Append(one \o t, c) = Append(a \o (one \o t), c)
      BY <3>1, JoinAppend
    <3> QED
      BY <3>1, <3>2, <3>3, <3>4, Zenon
  <2>2. /\ w \in Seq(Symbols) /\ Ending(w) = Ending(t)
        /\ Pieces(w, d) = Pieces(a, d) \o Pieces(t, d)
    BY <1>2
  <2> HIDE DEF whole, w, S
  <2>3. /\ Append(w, c) \in Seq(Symbols)
        /\ Ending(Append(w, c)) = Ending(Append(t, c))
    BY <2>2, AppendSeq, QuotingAppend
  <2>4. ASSUME NEW p \in Sheets, NEW q \in Sheets
        PROVE  /\ Append(p \o q, <<>>) = p \o Append(q, <<>>)
               /\ Extend(p \o q, c) = p \o Extend(q, c)
    <3> DEFINE nil == <<>>
               X == Seq(Symbols)
    <3>1. p \in Seq(X) /\ q \in Seq(X) /\ nil \in X
      BY SheetTyped
    <3> HIDE DEF nil, X
    <3>2. p \o Append(q, nil) = Append(p \o q, nil)
      BY <3>1, JoinAppend
    <3> QED
      BY <3>2, ExtendJoined DEF nil
  <2>5. Pieces(Append(w, c), d) = Pieces(a, d) \o Pieces(Append(t, c), d)
    <3>1. Pieces(a, d) \in Sheets /\ Pieces(t, d) \in Sheets
      BY SheetsOf
    <3>2. CASE c = d /\ Ending(t) = "plain"
      <4>1. Ending(w) = "plain" /\ w \in Seq(Symbols)
        BY <2>2, <3>2, Zenon
      <4>2. Pieces(Append(w, c), d) = Append(Pieces(w, d), <<>>)
        BY <3>2, <4>1, PiecesStep, Zenon
      <4>3. Pieces(Append(t, c), d) = Append(Pieces(t, d), <<>>)
        BY <3>2, PiecesStep, Zenon
      <4> QED
        BY <2>2, <2>4, <3>1, <4>2, <4>3, Zenon
    <3>3. CASE ~(c = d /\ Ending(t) = "plain")
      <4>1. /\ Pieces(Append(w, c), d) = Extend(Pieces(w, d), c)
            /\ Pieces(Append(t, c), d) = Extend(Pieces(t, d), c)
        BY <2>2, <3>3, PiecesStep
      <4> QED
        BY <2>2, <2>4, <3>1, <4>1, Zenon
    <3> QED
      BY <3>2, <3>3, Zenon
  <2> QED
    BY <2>1, <2>3, <2>5, Zenon DEF S
<1> HIDE DEF S
<1>3. b \in S
  BY <1>1, <1>2, SeqInduction, Zenon
<1>4. AllPieces(a \o (<<d>> \o b), d) = AllPieces(a, d) \o AllPieces(b, d)
  BY JoinedAll
<1> QED
  BY <1>3, <1>4, Zenon DEF S

\* The elements of a line, none if it does not split, and those of a field.
LEMMA ElementsTyped ==
  ASSUME NEW line \in Seq(Symbols)
  PROVE  elements(line).value \in Seq(Seq(Symbols))
<1>1. CASE Ending(line) = "plain"
  <2>1. elements(line).value = Pieces(line, "comma")
    BY <1>1, SplitIs DEF elements
  <2> QED
    BY <2>1, SheetsOf, SheetTyped
<1>2. CASE Ending(line) # "plain"
  <2>1. elements(line).value = <<>>
    BY <1>2 DEF elements, split, Err, Ending
  <2> QED
    BY <2>1
<1> QED
  BY <1>1, <1>2

LEMMA ElementsStep ==
  ASSUME NEW field \in Seq(Seq(Symbols)), NEW line \in Seq(Symbols)
  PROVE  /\ Elements(Append(field, line)) = Elements(field) \o elements(line).value
         /\ Elements(field) \in Seq(Seq(Symbols))
<1> DEFINE all(f) == [i \in DOMAIN f |-> elements(f[i]).value]
           n == Len(field)
           more == Append(field, line)
           last == elements(line).value
           Parts == Seq(Seq(Symbols))
<1>1. /\ n \in Nat /\ DOMAIN field = 1..n /\ \A i \in 1..n : field[i] \in Seq(Symbols)
  OBVIOUS
<1>2. /\ DOMAIN more = 1..(n + 1) /\ more[n + 1] = line /\ \A i \in 1..n : more[i] = field[i]
  BY AppendSeq
<1>3. last \in Parts /\ \A i \in 1..n : elements(field[i]).value \in Parts
  BY <1>1, ElementsTyped
<1> HIDE DEF n, more, last, Parts
<1>4. all(field) \in Seq(Parts) /\ Len(all(field)) = n
  BY <1>1, <1>3
<1>5. all(more) = Append(all(field), last)
  <2> DEFINE lhs == all(more)
             rhs == Append(all(field), last)
  <2>1. DOMAIN lhs = 1..(n + 1) /\ lhs[n + 1] = last /\ \A i \in 1..n : lhs[i] = all(field)[i]
    BY <1>1, <1>2 DEF last
  <2>2. lhs = [i \in 1..(n + 1) |-> lhs[i]]
    BY <2>1
  <2>3. /\ rhs \in Seq(Parts) /\ Len(rhs) = n + 1 /\ DOMAIN rhs = 1..(n + 1) /\ rhs[n + 1] = last
        /\ \A i \in 1..n : rhs[i] = all(field)[i]
    <3> HIDE DEF all
    <3> QED
      BY <1>3, <1>4, AppendSeq
  <2>4. rhs = [i \in 1..(n + 1) |-> rhs[i]]
    BY <2>3
  <2> HIDE DEF lhs, rhs
  <2>5. \A i \in 1..(n + 1) : lhs[i] = rhs[i]
    <3> SUFFICES ASSUME NEW i \in 1..(n + 1) PROVE lhs[i] = rhs[i]
      OBVIOUS
    <3>1. i = n + 1 \/ i \in 1..n
      BY <1>1
    <3> QED
      BY <2>1, <2>3, <3>1, Zenon
  <2>6. lhs = rhs
    BY <2>2, <2>4, <2>5, Zenon
  <2> QED
    BY <2>6 DEF lhs, rhs
<1>6. Elements(field) = FlattenSeq(all(field)) /\ Elements(more) = FlattenSeq(all(more))
  BY DEF Elements
<1> HIDE DEF all
<1>7. FlattenSeq(Append(all(field), last)) = FlattenSeq(all(field)) \o last
  BY <1>3, <1>4, FlattenAppend DEF Parts
<1>8. FlattenSeq(all(field)) \in Parts
  BY <1>4, FlattenTyped DEF Parts
<1> QED
  BY <1>5, <1>6, <1>7, <1>8, Zenon DEF more, last, Parts

LEMMA ElementsEmpty == Elements(<<>>) = <<>>
<1>1. [i \in DOMAIN <<>> |-> elements(<<>>[i]).value] = <<>>
  OBVIOUS
<1> QED
  BY <1>1, FlattenEmpty DEF Elements

LEMMA ElementsOfOne ==
  ASSUME NEW line \in Seq(Symbols)
  PROVE  Elements(<<line>>) = elements(line).value
<1>1. <<>> \in Seq(Seq(Symbols)) /\ <<line>> = Append(<<>>, line)
  OBVIOUS
<1>2. elements(line).value \in Seq(Seq(Symbols))
  BY ElementsTyped
<1>3. Elements(Append(<<>>, line)) = Elements(<<>>) \o elements(line).value
  BY <1>1, ElementsStep
<1>4. <<>> \o elements(line).value = elements(line).value
  BY <1>2, JoinEmpty
<1> QED
  BY <1>1, <1>3, <1>4, ElementsEmpty, Zenon

\* A line more, and the field it makes as one line.
LEMMA CombinedStep ==
  ASSUME NEW field \in Seq(Seq(Symbols)), NEW line \in Seq(Symbols)
  PROVE  /\ field = <<>> => Combined(Append(field, line)) = line
         /\ field # <<>> => Combined(Append(field, line)) = Combined(field) \o (<<"comma">> \o line)
         /\ Combined(field) \in Seq(Symbols)
<1> DEFINE comma == <<"comma">>
           all(f) == [i \in DOMAIN f |-> IF i = 1 THEN f[i] ELSE comma \o f[i]]
           n == Len(field)
           more == Append(field, line)
           last == IF n = 0 THEN line ELSE comma \o line
           Texts == Seq(Symbols)
<1>0. comma \in Texts
  BY NamesAreSymbols
<1>1. /\ n \in Nat /\ DOMAIN field = 1..n /\ \A i \in 1..n : field[i] \in Texts
      /\ field = <<>> <=> n = 0
  OBVIOUS
<1>2. /\ DOMAIN more = 1..(n + 1) /\ more[n + 1] = line /\ \A i \in 1..n : more[i] = field[i]
  BY AppendSeq
<1>3. last \in Texts /\ \A i \in 1..n : (IF i = 1 THEN field[i] ELSE comma \o field[i]) \in Texts
  <2> HIDE DEF comma
  <2>1. \A t \in Texts : comma \o t \in Texts
    BY <1>0, JoinSeq
  <2>2. line \in Texts
    OBVIOUS
  <2> QED
    BY <1>1, <2>1, <2>2, Zenon
<1>6. Combined(field) = FlattenSeq(all(field)) /\ Combined(more) = FlattenSeq(all(more))
  BY DEF Combined
<1> HIDE DEF n, more, comma, Texts
<1>4. all(field) \in Seq(Texts) /\ Len(all(field)) = n
  BY <1>1, <1>3
<1>5. all(more) = Append(all(field), last)
  <2> DEFINE lhs == all(more)
             rhs == Append(all(field), last)
  <2>1. DOMAIN lhs = 1..(n + 1) /\ lhs[n + 1] = last /\ \A i \in 1..n : lhs[i] = all(field)[i]
    BY <1>1, <1>2
  <2>2. lhs = [i \in 1..(n + 1) |-> lhs[i]]
    BY <2>1
  <2>3. /\ rhs \in Seq(Texts) /\ Len(rhs) = n + 1 /\ DOMAIN rhs = 1..(n + 1) /\ rhs[n + 1] = last
        /\ \A i \in 1..n : rhs[i] = all(field)[i]
    <3> HIDE DEF all, last
    <3> QED
      BY <1>3, <1>4, AppendSeq
  <2>4. rhs = [i \in 1..(n + 1) |-> rhs[i]]
    BY <2>3
  <2> HIDE DEF lhs, rhs
  <2>5. \A i \in 1..(n + 1) : lhs[i] = rhs[i]
    <3> SUFFICES ASSUME NEW i \in 1..(n + 1) PROVE lhs[i] = rhs[i]
      OBVIOUS
    <3>1. i = n + 1 \/ i \in 1..n
      BY <1>1
    <3> QED
      BY <2>1, <2>3, <3>1, Zenon
  <2>6. lhs = rhs
    BY <2>2, <2>4, <2>5, Zenon
  <2> QED
    BY <2>6 DEF lhs, rhs
<1>7. FlattenSeq(Append(all(field), last)) = FlattenSeq(all(field)) \o last
  <2> HIDE DEF all, last
  <2> QED
    BY <1>3, <1>4, FlattenAppend DEF Texts
<1>8. FlattenSeq(all(field)) \in Texts
  <2> HIDE DEF all
  <2> QED
    BY <1>4, FlattenTyped DEF Texts
<1>9. n = 0 => FlattenSeq(all(field)) = <<>>
  <2> HIDE DEF all
  <2>1. n = 0 => all(field) = <<>>
    BY <1>4
  <2> QED
    BY <2>1, FlattenEmpty
<1>10. n = 0 => Combined(more) = line
  <2>1. <<>> \o line = line
    BY JoinEmpty
  <2> HIDE DEF all
  <2> QED
    BY <1>5, <1>6, <1>7, <1>9, <2>1
<1>11. n # 0 => Combined(more) = Combined(field) \o (comma \o line)
  <2> HIDE DEF all
  <2> QED
    BY <1>5, <1>6, <1>7
<1> QED
  BY <1>1, <1>6, <1>8, <1>10, <1>11 DEF more, comma, Texts

\* Lines that end outside of quotes make one that does, of their elements.
LEMMA CombinedPieces ==
  ASSUME NEW field \in Seq(Seq(Symbols)), field # <<>>,
         \A i \in DOMAIN field : Ending(field[i]) = "plain"
  PROVE  /\ Combined(field) \in Seq(Symbols) /\ Ending(Combined(field)) = "plain"
         /\ elements(Combined(field)).value = Elements(field)
<1> DEFINE Plain(f) == \A i \in DOMAIN f : Ending(f[i]) = "plain"
           One(f) == /\ Combined(f) \in Seq(Symbols) /\ Ending(Combined(f)) = "plain"
                     /\ elements(Combined(f)).value = Elements(f)
           S == {f \in Seq(Seq(Symbols)) : f # <<>> /\ Plain(f) => One(f)}
           Lines == Seq(Symbols)
<1>1. <<>> \in S
  <2>1. <<>> \in Seq(Seq(Symbols))
    OBVIOUS
  <2> HIDE DEF One, Plain
  <2> QED
    BY <2>1, Zenon
<1>2. ASSUME NEW f \in Seq(Lines), NEW line \in Lines, f \in S PROVE Append(f, line) \in S
  <2> DEFINE g == Append(f, line)
             n == Len(f)
  <2>1. /\ g \in Seq(Lines) /\ n \in Nat /\ DOMAIN f = 1..n /\ DOMAIN g = 1..(n + 1)
        /\ g[n + 1] = line /\ \A i \in 1..n : g[i] = f[i]
    BY AppendSeq, LenIsNat
  <2>2. f # <<>> /\ Plain(f) => One(f)
    BY <1>2, Zenon
  <2> HIDE DEF S, g, One
  <2>3. ASSUME Plain(g) PROVE One(g)
    <3>1. Ending(line) = "plain" /\ Plain(f)
      <4>1. n + 1 \in 1..(n + 1) /\ \A i \in 1..n : i \in 1..(n + 1)
        BY <2>1
      <4> QED
        BY <2>1, <2>3, <4>1, Zenon
    <3>2. elements(line).value = Pieces(line, "comma")
      BY <3>1, SplitIs DEF elements
    <3>3. CASE f = <<>>
      <4>1. Combined(g) = line
        BY <3>3, CombinedStep DEF g, Lines
      <4>2. Elements(g) = elements(line).value
        <5>1. g = <<line>>
          BY <3>3 DEF g
        <5> QED
          BY <5>1, ElementsOfOne DEF Lines
      <4> QED
        BY <3>1, <4>1, <4>2, Zenon DEF One, Lines
    <3>4. CASE f # <<>>
      <4> DEFINE c == Combined(f)
      <4>1. c \in Seq(Symbols) /\ Ending(c) = "plain" /\ elements(c).value = Elements(f)
        BY <2>2, <3>1, <3>4, Zenon DEF One
      <4>2. elements(c).value = Pieces(c, "comma")
        BY <4>1, SplitIs DEF elements
      <4>3. Combined(g) = c \o (<<"comma">> \o line)
        BY <3>4, CombinedStep DEF g, Lines
      <4>4. Elements(g) = Elements(f) \o elements(line).value
        BY ElementsStep DEF g, Lines
      <4> HIDE DEF c
      <4>5. /\ Combined(g) \in Seq(Symbols) /\ Ending(Combined(g)) = "plain"
            /\ Pieces(Combined(g), "comma") = Pieces(c, "comma") \o Pieces(line, "comma")
        <5>1. "comma" \in Symbols /\ "comma" # "dquote" /\ line \in Seq(Symbols)
          BY NamesAreSymbols DEF Lines
        <5>2. /\ c \o (<<"comma">> \o line) \in Seq(Symbols)
              /\ Ending(c \o (<<"comma">> \o line)) = Ending(line)
              /\ Pieces(c \o (<<"comma">> \o line), "comma")
                   = Pieces(c, "comma") \o Pieces(line, "comma")
          BY <4>1, <5>1, JoinedPieces
        <5> QED
          BY <3>1, <4>3, <5>2
      <4>6. elements(Combined(g)).value = Pieces(Combined(g), "comma")
        BY <4>5, SplitIs DEF elements
      <4> QED
        BY <3>2, <4>1, <4>2, <4>4, <4>5, <4>6, Zenon DEF One
    <3> QED
      BY <3>3, <3>4
  <2> QED
    BY <2>1, <2>3, Zenon DEF S, g
<1> HIDE DEF S, One
<1>3. field \in S
  BY <1>1, <1>2, SeqInduction, Zenon DEF Lines
<1> QED
  BY <1>3, Zenon DEF S, One

-----------------------------------------------------------------------------
(* CombiningIsInvisible.                                                    *)

\* Every line can be cut in elements.
AllSplit(field) == \A i \in DOMAIN field : elements(field[i]).error = "Ok"

LEMMA LineOfField ==
  ASSUME NEW field \in Seq(Seq(Symbols))
  PROVE  /\ DOMAIN field = 1..Len(field) /\ Len(field) \in Nat
         /\ \A i \in DOMAIN field : field[i] \in Seq(Symbols)
         /\ \A i \in DOMAIN field : field[i] \in ToSet(field)
         /\ \A line \in ToSet(field) : \E i \in DOMAIN field : line = field[i]
  BY DEF ToSet

\* The walk over a field reaches its end just if all its lines split.
LEMMA ReadableIs ==
  ASSUME NEW field \in Seq(Seq(Symbols))
  PROVE  Readable(field) = field <=> AllSplit(field)
<1> DEFINE unread == {i \in DOMAIN field : elements(field[i]).error # "Ok"}
           least == Min(unread)
           n == Len(field)
<1>1. Readable(field) = IF unread = {} THEN field ELSE SubSeq(field, 1, least - 1)
  BY DEF Readable
<1>2. unread = {} <=> AllSplit(field)
  BY Zenon DEF AllSplit
<1>3. unread \in SUBSET Nat /\ unread \in SUBSET (1..n) /\ n \in Nat
  BY LineOfField
<1> HIDE DEF unread
<1>4. ASSUME unread # {} PROVE SubSeq(field, 1, least - 1) # field
  <2>1. \E x \in unread : \A y \in unread : x <= y
    BY <1>3, <1>4, LeastExists
  <2>2. least \in 1..n
    BY <2>1, <1>3 DEF Min
  <2> HIDE DEF least
  <2>3. Len(SubSeq(field, 1, least - 1)) = least - 1
    BY <2>2
  <2> QED
    BY <2>2, <2>3
<1> QED
  BY <1>1, <1>2, <1>4, Zenon

LEMMA ElementsSet ==
  ASSUME NEW field \in Seq(Seq(Symbols))
  PROVE  /\ \A e \in ToSet(Elements(field)) :
              \E line \in ToSet(field) : e \in ToSet(elements(line).value)
         /\ \A line \in ToSet(field) : \A e \in ToSet(elements(line).value) :
              e \in ToSet(Elements(field))
<1> DEFINE all == [i \in DOMAIN field |-> elements(field[i]).value]
           Parts == Seq(Seq(Symbols))
<1>1. all \in Seq(Parts) /\ DOMAIN all = DOMAIN field
  <2>1. \A i \in DOMAIN field : elements(field[i]).value \in Parts
    BY LineOfField, ElementsTyped, Zenon
  <2>2. DOMAIN field = 1..Len(field) /\ Len(field) \in Nat
    OBVIOUS
  <2> HIDE DEF Parts
  <2> QED
    BY <2>1, <2>2
<1>2. \A i \in DOMAIN field : all[i] = elements(field[i]).value
  OBVIOUS
<1>3. Elements(field) = FlattenSeq(all)
  BY DEF Elements
<1> HIDE DEF all
<1>4. ToSet(Elements(field)) = UNION {ToSet(t) : t \in ToSet(all)}
  BY <1>1, <1>3, FlattenElements DEF Parts
<1>5. \A i \in DOMAIN field : all[i] \in ToSet(all)
  BY <1>1, Zenon DEF ToSet
<1>6. \A t \in ToSet(all) : \E i \in DOMAIN field : t = all[i]
  BY <1>1, Zenon DEF ToSet
<1>7. ASSUME NEW e \in ToSet(Elements(field))
      PROVE  \E line \in ToSet(field) : e \in ToSet(elements(line).value)
  <2>1. PICK t \in ToSet(all) : e \in ToSet(t)
    BY <1>4, Zenon
  <2>2. PICK i \in DOMAIN field : t = elements(field[i]).value
    BY <1>2, <1>6, Zenon
  <2> QED
    BY <2>1, <2>2, LineOfField, Zenon
<1>8. ASSUME NEW line \in ToSet(field), NEW e \in ToSet(elements(line).value)
      PROVE  e \in ToSet(Elements(field))
  <2>1. PICK i \in DOMAIN field : line = field[i]
    BY LineOfField, Zenon
  <2>2. e \in ToSet(all[i]) /\ all[i] \in ToSet(all)
    BY <1>2, <1>5, <2>1, Zenon
  <2> QED
    BY <1>4, <2>2, Zenon
<1> QED
  BY <1>7, <1>8, Zenon

\* Once its lines split, validate asks nothing of a field but of its elements.
LEMMA ValidateReadsElements ==
  ASSUME NEW field \in Seq(Seq(Symbols)), field # <<>>, AllSplit(field)
  PROVE  validate(field) = "Ok" <=>
           /\ \A e \in ToSet(Elements(field)) : is_blank(e) \/ validate_element(e)
           /\ \E e \in ToSet(Elements(field)) : ~is_blank(e)
<1> DEFINE Populated(line) == \E element \in ToSet(elements(line).value) : ~is_blank(element)
           Sound(line) == \A element \in ToSet(elements(line).value) :
                            is_blank(element) \/ validate_element(element)
<1>1. validate(field) = "Ok" <=>
        /\ \A line \in ToSet(field) : elements(line).error = "Ok" /\ Sound(line)
        /\ field # <<>> => \E line \in ToSet(field) : Populated(line)
  BY DEF validate
<1>2. \A line \in ToSet(field) : elements(line).error = "Ok"
  BY LineOfField, ZenonT(60) DEF AllSplit
<1>3. (\A line \in ToSet(field) : Sound(line))
        <=> \A e \in ToSet(Elements(field)) : is_blank(e) \/ validate_element(e)
  BY ElementsSet, Zenon
<1>4. (\E line \in ToSet(field) : Populated(line))
        <=> \E e \in ToSet(Elements(field)) : ~is_blank(e)
  BY ElementsSet, Zenon
<1> QED
  BY <1>1, <1>2, <1>3, <1>4, Zenon

LEMMA ValidateTyped == ASSUME NEW field PROVE validate(field) \in {"Ok", "MalformedHeader"}
  BY DEF validate

LEMMA DeflateIs ==
  ASSUME NEW field, Readable(field) = field
  PROVE  contains_deflate(field) = IF Selections(field) # <<>> THEN "Yes" ELSE "No"
  BY Zenon DEF contains_deflate

\* A field all of whose lines split, as the one line it is combined to.
LEMMA CombinedReads ==
  ASSUME NEW field \in Seq(Seq(Symbols)), field # <<>>, AllSplit(field)
  PROVE  LET one == <<Combined(field)>>
         IN /\ Combined(field) \in Seq(Symbols) /\ one \in Seq(Seq(Symbols)) /\ one # <<>>
            /\ AllSplit(one) /\ Elements(one) = Elements(field)
<1> DEFINE c == Combined(field)
           one == <<c>>
<1>1. \A i \in DOMAIN field : Ending(field[i]) = "plain"
  BY SplitIs, Zenon DEF AllSplit, elements
<1>2. c \in Seq(Symbols) /\ Ending(c) = "plain" /\ elements(c).value = Elements(field)
  BY <1>1, CombinedPieces
<1> HIDE DEF c
<1>3. one \in Seq(Seq(Symbols)) /\ one # <<>> /\ DOMAIN one = {1} /\ one[1] = c
  BY <1>2
<1>4. AllSplit(one)
  <2>1. elements(c).error = "Ok"
    BY <1>2, SplitIs, Zenon DEF elements
  <2> HIDE DEF one
  <2> QED
    BY <1>3, <2>1 DEF AllSplit
<1>5. Elements(one) = Elements(field)
  BY <1>2, ElementsOfOne
<1> QED
  BY <1>2, <1>3, <1>4, <1>5 DEF c

\* A field whose lines all split is validated, and its deflate elements are
\* found, as if it had arrived as one line (validate, contains_deflate and the
\* walks of client.rs and negotiated.rs).
THEOREM CombiningAlwaysInvisible == Spec => []CombiningIsInvisible
<1>1. Typed => CombiningIsInvisible
  <2> DEFINE one == <<Combined(lines)>>
  <2> SUFFICES ASSUME Typed, Readable(lines) = lines, lines # <<>>
               PROVE  /\ validate(one) = validate(lines)
                      /\ contains_deflate(one) = contains_deflate(lines)
                      /\ Selections(one) = Selections(lines)
    BY Zenon DEF CombiningIsInvisible
  <2>1. lines \in Seq(Seq(Symbols)) /\ AllSplit(lines)
    BY ReadableIs DEF Typed
  <2>2. /\ one \in Seq(Seq(Symbols)) /\ one # <<>> /\ AllSplit(one)
        /\ Elements(one) = Elements(lines)
    BY <2>1, CombinedReads
  <2> HIDE DEF one
  <2>3. Selections(one) = Selections(lines)
    BY <2>2, Zenon DEF Selections
  <2>4. contains_deflate(one) = contains_deflate(lines)
    <3>1. Readable(one) = one
      BY <2>2, ReadableIs
    <3> QED
      BY <2>3, <3>1, DeflateIs, Zenon
  <2>5. validate(one) = "Ok" <=> validate(lines) = "Ok"
    BY <2>1, <2>2, ValidateReadsElements, Zenon
  <2> QED
    BY <2>3, <2>4, <2>5, ValidateTyped
<1> QED
  BY <1>1, TypedAlways, PTL

-----------------------------------------------------------------------------
(* Cutting at every delimiter, in quotes or not.                            *)

\* Every piece ends outside of quotes: no delimiter was in them.
LEMMA PlainPieces ==
  ASSUME NEW s \in Seq(Symbols), NEW d, d # "dquote",
         \A k \in 1..Len(AllPieces(s, d)) : Ending(AllPieces(s, d)[k]) = "plain"
  PROVE  Ending(s) = "plain" /\ Pieces(s, d) = AllPieces(s, d)
<1> DEFINE a(t) == AllPieces(t, d)
           Before(p) == \A k \in 1..Len(p) : k # Len(p) => Ending(p[k]) = "plain"
           Same(t) == Pieces(t, d) = a(t) /\ Ending(a(t)[Len(a(t))]) = Ending(t)
           S == {t \in Seq(Symbols) : Before(a(t)) => Same(t)}
<1>1. <<>> \in S
  <2>1. <<>> \in Seq(Symbols)
    OBVIOUS
  <2>2. Same(<<>>)
    BY NoPiecesYet, UnwrittenTyped
  <2> HIDE DEF Same, Before, a
  <2> QED
    BY <2>1, <2>2, Zenon
<1>2. ASSUME NEW t \in Seq(Symbols), NEW c \in Symbols, t \in S PROVE Append(t, c) \in S
  <2> DEFINE u == Append(t, c)
             q == a(t)
             r == a(u)
             n == Len(q)
  <2>1. u \in Seq(Symbols) /\ Ending(u) = After(Ending(t), c)
    BY AppendSeq, QuotingAppend
  <2>2. q \in Sheets /\ n \in Nat /\ n \in 1..n /\ q[n] \in Seq(Symbols)
    BY SheetsOf, SheetTyped
  <2>3. Before(q) => Same(t)
    BY <1>2, Zenon
  <2>4. ASSUME Before(r) PROVE Same(u)
    <3>1. CASE c = d
      <4>1. r = Append(q, <<>>)
        BY <3>1, AllPiecesStep, Zenon
      <4> HIDE DEF q, r, u
      <4>2. Len(r) = n + 1 /\ r[n + 1] = <<>> /\ \A k \in 1..n : r[k] = q[k]
        BY <2>2, <4>1, BeginDoes, Zenon
      <4> HIDE DEF n
      <4>3. \A k \in 1..n : Ending(q[k]) = "plain"
        <5>1. \A k \in 1..n : k \in 1..(n + 1) /\ k # n + 1
          BY <2>2
        <5> QED
          BY <2>4, <4>2, <5>1, Zenon
      <4>4. Pieces(t, d) = q /\ Ending(t) = "plain"
        BY <2>2, <2>3, <4>3, Zenon DEF n, q
      <4>5. Pieces(u, d) = r
        BY <3>1, <4>1, <4>4, PiecesStep, Zenon DEF u
      <4>6. Ending(u) = "plain"
        BY <2>1, <3>1, <4>4 DEF After
      <4> QED
        BY <4>2, <4>5, <4>6, EndingEmpty, Zenon DEF r
    <3>2. CASE c # d
      <4>1. r = Extend(q, c)
        BY <3>2, AllPiecesStep, Zenon
      <4> HIDE DEF q, r, u
      <4>2. /\ Len(r) = n /\ r[n] = Append(q[n], c)
            /\ \A k \in 1..n : k # n => r[k] = q[k]
        BY <2>2, <4>1, ExtendDoes, Zenon
      <4>3. Ending(r[n]) = After(Ending(q[n]), c)
        BY <2>2, <4>2, QuotingAppend
      <4> HIDE DEF n
      <4>4. Pieces(t, d) = q /\ Ending(q[n]) = Ending(t)
        <5>1. \A k \in 1..n : k # n => Ending(q[k]) = "plain"
          BY <2>4, <4>2, Zenon
        <5> QED
          BY <2>3, <5>1, Zenon DEF n, q
      <4>5. Pieces(u, d) = r
        BY <3>2, <4>1, <4>4, PiecesStep, Zenon DEF u
      <4> QED
        BY <2>1, <4>2, <4>3, <4>4, <4>5, Zenon DEF r
    <3> QED
      BY <3>1, <3>2, Zenon
  <2> HIDE DEF a, Same, Before
  <2> QED
    BY <2>1, <2>4, Zenon DEF u, r
<1> HIDE DEF S
<1>3. s \in S
  BY <1>1, <1>2, SeqInduction, Zenon
<1>4. Same(s)
  BY <1>3, Zenon DEF S
<1>5. Len(a(s)) \in 1..Len(a(s))
  BY SheetsOf, SheetTyped
<1> QED
  BY <1>4, <1>5, Zenon

\* No piece holds a delimiter: none was left in quotes.
LEMMA ClearPieces ==
  ASSUME NEW s \in Seq(Symbols), NEW d,
         \A k \in 1..Len(Pieces(s, d)) : d \notin ToSet(Pieces(s, d)[k])
  PROVE  Pieces(s, d) = AllPieces(s, d)
<1> DEFINE p(t) == Pieces(t, d)
           Clear(q) == \A k \in 1..Len(q) : d \notin ToSet(q[k])
           S == {t \in Seq(Symbols) : Clear(p(t)) => p(t) = AllPieces(t, d)}
<1>1. <<>> \in S
  <2>1. <<>> \in Seq(Symbols)
    OBVIOUS
  <2>2. p(<<>>) = AllPieces(<<>>, d)
    BY NoPiecesYet, Zenon
  <2> HIDE DEF Clear, p
  <2> QED
    BY <2>1, <2>2, Zenon
<1>2. ASSUME NEW t \in Seq(Symbols), NEW c \in Symbols, t \in S PROVE Append(t, c) \in S
  <2> DEFINE u == Append(t, c)
             q == p(t)
             r == p(u)
             n == Len(q)
  <2>1. u \in Seq(Symbols)
    BY AppendSeq
  <2>2. q \in Sheets /\ n \in Nat /\ n \in 1..n /\ q[n] \in Seq(Symbols)
    BY SheetsOf, SheetTyped
  <2>3. Clear(q) => q = AllPieces(t, d)
    BY <1>2, Zenon
  <2>4. ASSUME Clear(r) PROVE r = AllPieces(u, d)
    <3>1. CASE c = d /\ Ending(t) = "plain"
      <4>1. r = Append(q, <<>>)
        BY <3>1, PiecesStep, Zenon
      <4> HIDE DEF q, r, u
      <4>2. Len(r) = n + 1 /\ \A k \in 1..n : r[k] = q[k]
        BY <2>2, <4>1, BeginDoes, Zenon
      <4> HIDE DEF n
      <4>3. Clear(q)
        <5>1. \A k \in 1..n : k \in 1..(n + 1)
          BY <2>2
        <5> QED
          BY <2>4, <4>2, <5>1, Zenon DEF n
      <4>4. AllPieces(u, d) = Append(AllPieces(t, d), <<>>)
        BY <3>1, AllPiecesStep DEF u
      <4>5. q = AllPieces(t, d)
        BY <2>3, <4>3, Zenon
      <4> QED
        BY <4>1, <4>4, <4>5, Zenon
    <3>2. CASE ~(c = d /\ Ending(t) = "plain")
      <4>1. r = Extend(q, c)
        BY <3>2, PiecesStep, Zenon
      <4> HIDE DEF q, r, u
      <4>2. /\ Len(r) = n /\ r[n] = Append(q[n], c)
            /\ \A k \in 1..n : k # n => r[k] = q[k]
        BY <2>2, <4>1, ExtendDoes, Zenon
      <4>3. ToSet(r[n]) = ToSet(q[n]) \cup {c}
        BY <2>2, <4>2, AppendElements
      <4> HIDE DEF n
      <4>4. Clear(q) /\ c # d
        BY <2>2, <2>4, <4>2, <4>3, Zenon DEF n
      <4> QED
        BY <2>3, <4>1, <4>4, AllPiecesStep, Zenon DEF u
    <3> QED
      BY <3>1, <3>2, Zenon
  <2> HIDE DEF p, Clear
  <2> QED
    BY <2>1, <2>4, Zenon DEF u, r
<1> HIDE DEF S
<1>3. s \in S
  BY <1>1, <1>2, SeqInduction, Zenon
<1> QED
  BY <1>3, Zenon DEF S

\* An octet is a delimiter or in one of the pieces.
LEMMA OctetsOfPieces ==
  ASSUME NEW s \in Seq(Symbols), NEW d, NEW x \in ToSet(s), x # d
  PROVE  \E k \in 1..Len(AllPieces(s, d)) : x \in ToSet(AllPieces(s, d)[k])
<1> DEFINE a(t) == AllPieces(t, d)
           Within(q, y) == \E k \in 1..Len(q) : y \in ToSet(q[k])
           S == {t \in Seq(Symbols) : \A y \in ToSet(t) : y # d => Within(a(t), y)}
<1>1. <<>> \in S
  <2>1. <<>> \in Seq(Symbols) /\ ToSet(<<>>) = {}
    BY DEF ToSet
  <2> HIDE DEF Within, a
  <2> QED
    BY <2>1, Zenon
<1>2. ASSUME NEW t \in Seq(Symbols), NEW c \in Symbols, t \in S PROVE Append(t, c) \in S
  <2> DEFINE u == Append(t, c)
             q == a(t)
             r == a(u)
             n == Len(q)
  <2>1. u \in Seq(Symbols) /\ ToSet(u) = ToSet(t) \cup {c}
    BY AppendSeq, AppendElements
  <2>2. q \in Sheets /\ n \in Nat /\ n \in 1..n /\ q[n] \in Seq(Symbols)
    BY SheetsOf, SheetTyped
  <2>3. \A y \in ToSet(t) : y # d => Within(q, y)
    BY <1>2, Zenon
  <2>4. ASSUME NEW y \in ToSet(u), y # d PROVE Within(r, y)
    <3>1. CASE c = d
      <4>1. r = Append(q, <<>>)
        BY <3>1, AllPiecesStep, Zenon
      <4>2. y \in ToSet(t)
        BY <2>1, <2>4, <3>1, Zenon
      <4> HIDE DEF q, r, u
      <4>3. Len(r) = n + 1 /\ \A k \in 1..n : r[k] = q[k]
        BY <2>2, <4>1, BeginDoes, Zenon
      <4> HIDE DEF n
      <4>4. \A k \in 1..n : k \in 1..(n + 1)
        BY <2>2
      <4>5. PICK k \in 1..n : y \in ToSet(q[k])
        BY <2>3, <2>4, <4>2, Zenon DEF n
      <4> QED
        BY <4>3, <4>4, <4>5, Zenon
    <3>2. CASE c # d
      <4>1. r = Extend(q, c)
        BY <3>2, AllPiecesStep, Zenon
      <4> HIDE DEF q, r, u
      <4>2. /\ Len(r) = n /\ r[n] = Append(q[n], c)
            /\ \A k \in 1..n : k # n => r[k] = q[k]
        BY <2>2, <4>1, ExtendDoes, Zenon
      <4>3. ToSet(r[n]) = ToSet(q[n]) \cup {c}
        BY <2>2, <4>2, AppendElements
      <4> HIDE DEF n
      <4>4. CASE y = c
        BY <2>2, <4>2, <4>3, <4>4, Zenon
      <4>5. CASE y \in ToSet(t)
        <5>1. PICK k \in 1..n : y \in ToSet(q[k])
          BY <2>3, <2>4, <4>5, Zenon DEF n
        <5> QED
          BY <2>2, <4>2, <4>3, <5>1, Zenon
      <4> QED
        BY <2>1, <2>4, <4>4, <4>5, Zenon
    <3> QED
      BY <3>1, <3>2, Zenon
  <2> HIDE DEF a, Within
  <2> QED
    BY <2>1, <2>4, Zenon DEF u, r
<1> HIDE DEF S
<1>3. s \in S
  BY <1>1, <1>2, SeqInduction, Zenon
<1> QED
  BY <1>3, Zenon DEF S

\* Behind what ends outside of quotes, a text ends where it does alone.
LEMMA JoinEnding ==
  ASSUME NEW a \in Seq(Symbols), NEW b \in Seq(Symbols), Ending(a) = "plain"
  PROVE  Ending(a \o b) = Ending(b)
<1> DEFINE S == {t \in Seq(Symbols) : Ending(a \o t) = Ending(t)}
<1>1. <<>> \in S
  <2>1. <<>> \in Seq(Symbols) /\ a \o <<>> = a
    BY JoinEmpty
  <2> QED
    BY <2>1, EndingEmpty, Zenon
<1>2. ASSUME NEW t \in Seq(Symbols), NEW c \in Symbols, t \in S PROVE Append(t, c) \in S
  <2>1. a \o Append(t, c) = Append(a \o t, c) /\ a \o t \in Seq(Symbols)
    BY JoinAppend, JoinSeq
  <2>2. Ending(Append(a \o t, c)) = After(Ending(a \o t), c)
    BY <2>1, QuotingAppend, Zenon
  <2>3. Ending(Append(t, c)) = After(Ending(t), c) /\ Append(t, c) \in Seq(Symbols)
    BY QuotingAppend, AppendSeq
  <2> QED
    BY <1>2, <2>1, <2>2, <2>3, Zenon
<1> HIDE DEF S
<1>3. b \in S
  BY <1>1, <1>2, SeqInduction, Zenon
<1> QED
  BY <1>3, Zenon DEF S

\* Without a quote it ends outside of quotes.
LEMMA UnquotedEnding ==
  ASSUME NEW s \in Seq(Symbols), "dquote" \notin ToSet(s)
  PROVE  Ending(s) = "plain"
<1> DEFINE S == {t \in Seq(Symbols) : "dquote" \notin ToSet(t) => Ending(t) = "plain"}
<1>1. <<>> \in S
  <2>1. <<>> \in Seq(Symbols)
    OBVIOUS
  <2> QED
    BY <2>1, EndingEmpty, Zenon
<1>2. ASSUME NEW t \in Seq(Symbols), NEW c \in Symbols, t \in S PROVE Append(t, c) \in S
  <2>1. /\ Ending(Append(t, c)) = After(Ending(t), c) /\ Append(t, c) \in Seq(Symbols)
        /\ ToSet(Append(t, c)) = ToSet(t) \cup {c}
    BY QuotingAppend, AppendSeq, AppendElements
  <2>2. c # "dquote" => After("plain", c) = "plain"
    BY DEF After
  <2> QED
    BY <1>2, <2>1, <2>2, Zenon
<1> HIDE DEF S
<1>3. s \in S
  BY <1>1, <1>2, SeqInduction, Zenon
<1> QED
  BY <1>3, Zenon DEF S

=============================================================================
