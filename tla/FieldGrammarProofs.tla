------------------------- MODULE FieldGrammarProofs -------------------------
(***************************************************************************)
(* Proofs about FieldSyntax: that validate takes the list grammar, that a   *)
(* sealed field says what was installed, and that Grammar reads what the    *)
(* octets say.                                                              *)
(***************************************************************************)
EXTENDS FieldSyntaxProofs

-----------------------------------------------------------------------------
(* Blanks.                                                                  *)

\* A part of a text that is not empty.
LEMMA PartOf ==
  ASSUME NEW s \in Seq(Symbols), NEW i \in 1..(Len(s) + 1), NEW j \in 0..Len(s),
         SubSeq(s, i, j) # <<>>
  PROVE  LET part == SubSeq(s, i, j)
         IN /\ i \in 1..Len(s) /\ j \in i..Len(s)
            /\ part \in Seq(Symbols) /\ Len(part) = (j - i) + 1
            /\ part[1] = s[i] /\ part[Len(part)] = s[j]
            /\ \A k \in 1..Len(part) : part[k] = s[(i - 1) + k]
<1> DEFINE part == SubSeq(s, i, j)
           m == i - 1
           n == Len(s)
<1>1. n \in Nat
  OBVIOUS
<1>2. i <= j
  OBVIOUS
<1>3. i \in 1..n /\ j \in i..n /\ m \in Nat /\ j \in m..n /\ i = m + 1
  BY <1>1, <1>2
<1>4. /\ part \in Seq(Symbols) /\ Len(part) = j - m
      /\ \A k \in 1..(j - m) : part[k] = s[m + k]
  <2> HIDE DEF m
  <2>1. LET p == SubSeq(s, m + 1, j)
        IN /\ p \in Seq(Symbols) /\ Len(p) = j - m
           /\ \A k \in 1..(j - m) : p[k] = s[m + k]
    BY <1>3, PartSeq
  <2> QED
    BY <1>3, <2>1
<1> HIDE DEF part
<1>5. part[1] = s[i] /\ part[Len(part)] = s[j]
  <2>1. 1 \in 1..(j - m) /\ m + 1 = i /\ (j - m) \in 1..(j - m) /\ m + (j - m) = j
    BY <1>3
  <2> QED
    BY <1>4, <2>1
<1> QED
  BY <1>3, <1>4, <1>5 DEF part

\* `s` from `i` to `j`, with blanks around it and neither end one.
Solid(s, i, j) ==
  /\ i \in 1..Len(s) /\ j \in i..Len(s) /\ s[i] # "blank" /\ s[j] # "blank"
  /\ \A k \in 1..Len(s) : k < i \/ k > j => s[k] = "blank"

LEMMA TrimIs ==
  ASSUME NEW s \in Seq(Symbols), NEW i, NEW j, Solid(s, i, j)
  PROVE  trim(s) = SubSeq(s, i, j)
<1> DEFINE solid == {k \in DOMAIN s : s[k] # "blank"}
           n == Len(s)
<1>1. DOMAIN s = 1..n /\ n \in Nat
  OBVIOUS
<1>2. trim(s) = IF solid = {} THEN <<>> ELSE SubSeq(s, Min(solid), Max(solid))
  BY DEF trim
<1>3. /\ solid \in SUBSET (1..n) /\ i \in solid /\ j \in solid
      /\ \A k \in solid : i <= k /\ k <= j
  BY <1>1 DEF Solid
<1> HIDE DEF solid
<1>4. Min(solid) = i
  BY <1>1, <1>3, MinIs
<1>5. Max(solid) = j
  BY <1>1, <1>3, MaxIs
<1> QED
  BY <1>2, <1>3, <1>4, <1>5

LEMMA SolidExists ==
  ASSUME NEW s \in Seq(Symbols)
  PROVE  /\ ~IsBlank(s) => \E i, j : Solid(s, i, j)
         /\ IsBlank(s) => trim(s) = <<>>
<1> DEFINE solid == {k \in DOMAIN s : s[k] # "blank"}
           n == Len(s)
<1>1. DOMAIN s = 1..n /\ n \in Nat
  OBVIOUS
<1>2. solid = {} => trim(s) = <<>>
  BY Zenon DEF trim
<1>3. solid = {} <=> IsBlank(s)
  BY Zenon DEF IsBlank
<1>4. solid \in SUBSET (0..n) /\ solid \in SUBSET Nat /\ solid \in SUBSET (1..n)
  BY <1>1
<1>5. ASSUME NEW k \in solid PROVE s[k] # "blank"
  OBVIOUS
<1>6. ASSUME NEW k \in 1..n, k \notin solid PROVE s[k] = "blank"
  BY <1>1, <1>6
<1> HIDE DEF solid
<1>7. ASSUME solid # {} PROVE \E i, j : Solid(s, i, j)
  <2>1. PICK i \in solid : \A k \in solid : i <= k
    BY <1>4, <1>7, LeastExists
  <2>2. PICK j \in solid : \A k \in solid : k <= j
    BY <1>1, <1>4, <1>7, GreatestExists
  <2>3. i \in 1..n /\ j \in i..n
    BY <1>1, <1>4, <2>1, <2>2
  <2>4. ASSUME NEW k \in 1..n, k < i \/ k > j PROVE s[k] = "blank"
    <3>1. k \notin solid
      BY <1>1, <2>1, <2>2, <2>3, <2>4
    <3> QED
      BY <1>6, <3>1
  <2>5. Solid(s, i, j)
    BY <1>5, <2>3, <2>4 DEF Solid
  <2> QED
    BY <2>5
<1> QED
  BY <1>2, <1>3, <1>7, Zenon

\* What the ends of a text that is not blank are.
LEMMA TrimSolid ==
  ASSUME NEW s \in Seq(Symbols)
  PROVE  /\ trim(s) \in Seq(Symbols)
         /\ trim(s) = <<>> <=> IsBlank(s)
         /\ trim(s) # <<>> => \E i, j : Solid(s, i, j) /\ trim(s) = SubSeq(s, i, j)
<1>1. CASE IsBlank(s)
  <2>1. trim(s) = <<>>
    BY <1>1, SolidExists, Zenon
  <2>2. <<>> \in Seq(Symbols)
    OBVIOUS
  <2> QED
    BY <1>1, <2>1, <2>2, Zenon
<1>2. CASE ~IsBlank(s)
  <2>1. PICK i, j : Solid(s, i, j)
    BY <1>2, SolidExists, Zenon
  <2>2. trim(s) = SubSeq(s, i, j)
    BY <2>1, TrimIs, Zenon
  <2>3. SubSeq(s, i, j) \in Seq(Symbols) /\ SubSeq(s, i, j) # <<>>
    BY <2>1 DEF Solid
  <2> QED
    BY <1>2, <2>1, <2>2, <2>3, Zenon
<1> QED
  BY <1>1, <1>2, Zenon

\* Every octet of a text is a blank or one of its trimmed form.
LEMMA TrimOctets ==
  ASSUME NEW s \in Seq(Symbols), NEW c \in ToSet(s)
  PROVE  c = "blank" \/ c \in ToSet(trim(s))
<1>1. PICK k \in 1..Len(s) : c = s[k]
  BY DEF ToSet
<1>2. CASE trim(s) = <<>>
  <2>1. k \in DOMAIN s
    BY <1>1
  <2> QED
    BY <1>1, <1>2, <2>1, TrimSolid, Zenon DEF IsBlank
<1>3. CASE trim(s) # <<>>
  <2>1. PICK i, j : Solid(s, i, j) /\ trim(s) = SubSeq(s, i, j)
    BY <1>3, TrimSolid, Zenon
  <2>2. i \in 1..(Len(s) + 1) /\ j \in 0..Len(s) /\ i \in Nat /\ j \in Nat /\ k \in Nat
    BY <2>1 DEF Solid
  <2> DEFINE part == SubSeq(s, i, j)
  <2>3. /\ part \in Seq(Symbols) /\ Len(part) = (j - i) + 1
        /\ \A m \in 1..Len(part) : part[m] = s[(i - 1) + m]
    BY <1>3, <2>1, <2>2, PartOf
  <2> HIDE DEF part
  <2>4. CASE k < i \/ k > j
    BY <1>1, <2>1, <2>4 DEF Solid
  <2>5. CASE ~(k < i \/ k > j)
    <3>1. (k - i) + 1 \in 1..Len(part) /\ (i - 1) + ((k - i) + 1) = k
      BY <2>2, <2>3, <2>5
    <3>2. part[(k - i) + 1] = s[k] /\ (k - i) + 1 \in DOMAIN part
      BY <2>3, <3>1
    <3> QED
      BY <1>1, <2>1, <3>2 DEF ToSet, part
  <2> QED
    BY <2>4, <2>5
<1> QED
  BY <1>2, <1>3, Zenon

-----------------------------------------------------------------------------
(* Tokens, with blanks around them.                                         *)

LEMMA TokenOctets ==
  ASSUME NEW s \in Seq(Symbols)
  PROVE  IsToken(s) <=> s # <<>> /\ \A c \in ToSet(s) : is_tchar(c)
<1>1. (\A i \in DOMAIN s : is_tchar(s[i])) <=> \A c \in ToSet(s) : is_tchar(c)
  BY Zenon DEF ToSet
<1> QED
  BY <1>1, Zenon DEF IsToken

LEMMA TokenEnds ==
  ASSUME NEW s \in Seq(Symbols), IsToken(s)
  PROVE  s # <<>> /\ s[1] # "blank" /\ s[Len(s)] # "blank" /\ s[1] # "dquote"
<1>1. 1 \in DOMAIN s /\ Len(s) \in DOMAIN s
  BY DEF IsToken
<1> QED
  BY <1>1 DEF IsToken, is_tchar

LEMMA QuotedEnds ==
  ASSUME NEW s \in Seq(Symbols), IsQuotedToken(s)
  PROVE  s # <<>> /\ s[1] # "blank" /\ s[Len(s)] # "blank" /\ s[1] = "dquote"
<1>1. Len(s) > 2 /\ s[1] = "dquote" /\ s[Len(s)] = "dquote"
  BY DEF IsQuotedToken
<1> QED
  BY <1>1

\* What is padded to `s` is its trimmed form.
LEMMA PaddedIs ==
  ASSUME NEW s \in Seq(Symbols), NEW i \in 1..(Len(s) + 1), NEW j \in 0..Len(s),
         SubSeq(s, i, j) # <<>>, SubSeq(s, i, j)[1] # "blank",
         SubSeq(s, i, j)[Len(SubSeq(s, i, j))] # "blank",
         \A k \in DOMAIN s : k < i \/ k > j => s[k] = "blank"
  PROVE  trim(s) = SubSeq(s, i, j)
<1>1. /\ i \in 1..Len(s) /\ j \in i..Len(s)
      /\ SubSeq(s, i, j)[1] = s[i] /\ SubSeq(s, i, j)[Len(SubSeq(s, i, j))] = s[j]
  BY PartOf
<1>2. DOMAIN s = 1..Len(s)
  OBVIOUS
<1>3. Solid(s, i, j)
  BY <1>1, <1>2, Zenon DEF Solid
<1> QED
  BY <1>3, TrimIs, Zenon

\* The trimmed form is padded to `s`.
LEMMA TrimPads ==
  ASSUME NEW s \in Seq(Symbols), trim(s) # <<>>
  PROVE  \E i \in 1..(Len(s) + 1), j \in 0..Len(s) :
           /\ trim(s) = SubSeq(s, i, j)
           /\ \A k \in DOMAIN s : k < i \/ k > j => s[k] = "blank"
<1>1. PICK i, j : Solid(s, i, j) /\ trim(s) = SubSeq(s, i, j)
  BY TrimSolid, Zenon
<1>2. DOMAIN s = 1..Len(s) /\ i \in 1..(Len(s) + 1) /\ j \in 0..Len(s)
  BY <1>1 DEF Solid
<1>3. \A k \in 1..Len(s) : k < i \/ k > j => s[k] = "blank"
  BY <1>1, Zenon DEF Solid
<1>4. /\ trim(s) = SubSeq(s, i, j)
      /\ \A k \in DOMAIN s : k < i \/ k > j => s[k] = "blank"
  BY <1>1, <1>2, <1>3
<1>5. i \in 1..(Len(s) + 1) /\ j \in 0..Len(s)
  BY <1>2
<1> QED
  BY <1>4, <1>5, Zenon

LEMMA PaddedToken ==
  ASSUME NEW s \in Seq(Symbols)
  PROVE  Padded(s, IsToken) <=> IsToken(trim(s))
<1>1. ASSUME Padded(s, IsToken) PROVE IsToken(trim(s))
  <2>1. PICK i \in 1..(Len(s) + 1), j \in 0..Len(s) :
          /\ IsToken(SubSeq(s, i, j))
          /\ \A k \in DOMAIN s : k < i \/ k > j => s[k] = "blank"
    BY <1>1, Zenon DEF Padded
  <2> DEFINE part == SubSeq(s, i, j)
  <2>2. part # <<>>
    BY <2>1, Zenon DEF IsToken
  <2>3. part \in Seq(Symbols)
    BY <2>2, PartOf
  <2>4. part[1] # "blank" /\ part[Len(part)] # "blank"
    <3> HIDE DEF part
    <3> QED
      BY <2>1, <2>3, TokenEnds, Zenon DEF part
  <2>5. trim(s) = part
    BY <2>1, <2>2, <2>4, PaddedIs, Zenon
  <2> QED
    BY <2>1, <2>5, Zenon
<1>2. ASSUME IsToken(trim(s)) PROVE Padded(s, IsToken)
  <2>1. trim(s) # <<>>
    BY <1>2, Zenon DEF IsToken
  <2>2. PICK i \in 1..(Len(s) + 1), j \in 0..Len(s) :
          /\ trim(s) = SubSeq(s, i, j)
          /\ \A k \in DOMAIN s : k < i \/ k > j => s[k] = "blank"
    BY <2>1, TrimPads, Zenon
  <2>3. IsToken(SubSeq(s, i, j))
    BY <1>2, <2>2, Zenon
  <2> QED
    BY <2>2, <2>3, Zenon DEF Padded
<1> QED
  BY <1>1, <1>2, Zenon

LEMMA PaddedQuoted ==
  ASSUME NEW s \in Seq(Symbols)
  PROVE  Padded(s, IsQuotedToken) <=> IsQuotedToken(trim(s))
<1>1. ASSUME Padded(s, IsQuotedToken) PROVE IsQuotedToken(trim(s))
  <2>1. PICK i \in 1..(Len(s) + 1), j \in 0..Len(s) :
          /\ IsQuotedToken(SubSeq(s, i, j))
          /\ \A k \in DOMAIN s : k < i \/ k > j => s[k] = "blank"
    BY <1>1, Zenon DEF Padded
  <2> DEFINE part == SubSeq(s, i, j)
  <2>2. part # <<>>
    <3>1. Len(part) > 2
      BY <2>1, Zenon DEF IsQuotedToken
    <3> HIDE DEF part
    <3> QED
      BY <3>1
  <2>3. part \in Seq(Symbols)
    BY <2>2, PartOf
  <2>4. part[1] # "blank" /\ part[Len(part)] # "blank"
    <3> HIDE DEF part
    <3> QED
      BY <2>1, <2>3, QuotedEnds, Zenon DEF part
  <2>5. trim(s) = part
    BY <2>1, <2>2, <2>4, PaddedIs, Zenon
  <2> QED
    BY <2>1, <2>5, Zenon
<1>2. ASSUME IsQuotedToken(trim(s)) PROVE Padded(s, IsQuotedToken)
  <2>1. trim(s) # <<>>
    BY <1>2, TrimSolid, QuotedEnds, Zenon
  <2>2. PICK i \in 1..(Len(s) + 1), j \in 0..Len(s) :
          /\ trim(s) = SubSeq(s, i, j)
          /\ \A k \in DOMAIN s : k < i \/ k > j => s[k] = "blank"
    BY <2>1, TrimPads, Zenon
  <2>3. IsQuotedToken(SubSeq(s, i, j))
    BY <1>2, <2>2, Zenon
  <2> QED
    BY <2>2, <2>3, Zenon DEF Padded
<1> QED
  BY <1>1, <1>2, Zenon

\* What may be in a token with blanks around it, and in a quoted string that
\* stands for one.
LEMMA TokenHolds ==
  ASSUME NEW s \in Seq(Symbols), IsToken(trim(s)), NEW c \in ToSet(s)
  PROVE  c = "blank" \/ is_tchar(c)
<1>1. trim(s) \in Seq(Symbols)
  BY TrimSolid
<1> QED
  BY <1>1, TrimOctets, TokenOctets, Zenon

LEMMA QuotedHolds ==
  ASSUME NEW s \in Seq(Symbols), IsQuotedToken(trim(s)), NEW c \in ToSet(s)
  PROVE  c \in {"blank", "dquote", "backslash"} \/ is_tchar(c)
<1> DEFINE t == trim(s)
           n == Len(t)
<1>1. t \in Seq(Symbols)
  BY TrimSolid
<1>2. c = "blank" \/ c \in ToSet(t)
  BY TrimOctets, Zenon
<1>3. /\ n > 2 /\ t[1] = "dquote" /\ t[n] = "dquote"
      /\ \A i \in 2..(n - 1) : is_tchar(t[i]) \/ t[i] = "backslash"
  BY Zenon DEF IsQuotedToken
<1> HIDE DEF t
<1>4. ASSUME c \in ToSet(t) PROVE c \in {"dquote", "backslash"} \/ is_tchar(c)
  <2>1. PICK i \in 1..n : c = t[i]
    BY <1>1, <1>4 DEF ToSet
  <2>2. i = 1 \/ i = n \/ i \in 2..(n - 1)
    BY <1>1
  <2> QED
    BY <1>3, <2>1, <2>2, Zenon
<1> QED
  BY <1>2, <1>4, Zenon

-----------------------------------------------------------------------------
(* unquote.                                                                 *)

UnquotesToToken(t) == unquote(t).error = "Ok" /\ IsToken(unquote(t).value)

LEMMA UnquoteBare ==
  ASSUME NEW t \in Seq(Symbols), t = <<>> \/ t[1] # "dquote"
  PROVE  UnquotesToToken(t) <=> IsToken(t)
<1>1. t = <<>> \/ Head(t) # "dquote"
  OBVIOUS
<1>2. unquote(t) = IF Contains(t, "dquote") THEN Err("MalformedHeader") ELSE Ok(t)
  BY <1>1, Zenon DEF unquote
<1>3. Contains(t, "dquote") <=> "dquote" \in ToSet(t)
  BY DEF Contains, ToSet
<1>4. ~is_tchar("dquote")
  BY DEF is_tchar
<1>5. IsToken(t) => ~Contains(t, "dquote")
  BY <1>3, <1>4, TokenOctets, Zenon
<1>6. CASE Contains(t, "dquote")
  BY <1>2, <1>5, <1>6 DEF UnquotesToToken, Err
<1>7. CASE ~Contains(t, "dquote")
  <2>1. unquote(t).error = "Ok" /\ unquote(t).value = t
    BY <1>2, <1>7 DEF Ok
  <2> QED
    BY <2>1, Zenon DEF UnquotesToToken
<1> QED
  BY <1>6, <1>7, Zenon

\* What is between the quotes, without the backslashes that escape.
Text(t) == [i \in DOMAIN t |->
              OneIf(i \in 2..(Len(t) - 1) /\ Quoting(t)[i] # "escaped", <<t[i]>>)]

LEMMA TextOctets ==
  ASSUME NEW t \in Seq(Symbols)
  PROVE  /\ FlattenSeq(Text(t)) \in Seq(Symbols)
         /\ \A i \in 2..(Len(t) - 1) :
              Quoting(t)[i] # "escaped" => t[i] \in ToSet(FlattenSeq(Text(t)))
         /\ \A c \in ToSet(FlattenSeq(Text(t))) :
              \E i \in 2..(Len(t) - 1) : Quoting(t)[i] # "escaped" /\ c = t[i]
<1> DEFINE n == Len(t)
           inner(i) == i \in 2..(n - 1) /\ Quoting(t)[i] # "escaped"
           text == Text(t)
<1>1. DOMAIN t = 1..n /\ n \in Nat /\ \A i \in 1..n : t[i] \in Symbols
  OBVIOUS
<1>2. text = [i \in 1..n |-> OneIf(inner(i), <<t[i]>>)]
  BY <1>1, Zenon DEF Text
<1> HIDE DEF inner, text, n
<1>3. ASSUME NEW i \in 1..n
      PROVE  /\ text[i] \in Seq(Symbols)
             /\ inner(i) => ToSet(text[i]) = {t[i]}
             /\ ~inner(i) => ToSet(text[i]) = {}
  <2>1. text[i] = IF inner(i) THEN <<t[i]>> ELSE <<>>
    BY <1>2, Zenon DEF OneIf
  <2>2. <<t[i]>> \in Seq(Symbols) /\ ToSet(<<t[i]>>) = {t[i]}
    BY <1>1 DEF ToSet
  <2>3. <<>> \in Seq(Symbols) /\ ToSet(<<>>) = {}
    BY DEF ToSet
  <2> DEFINE one == <<t[i]>>
  <2> HIDE DEF one
  <2> QED
    BY <2>1, <2>2, <2>3, Zenon
<1>4. text \in Seq(Seq(Symbols)) /\ DOMAIN text = 1..n
  <2> DEFINE X == Seq(Symbols)
  <2>1. \A i \in 1..n : text[i] \in X
    BY <1>3, Zenon
  <2> HIDE DEF X
  <2>2. text = [i \in 1..n |-> text[i]]
    BY <1>2
  <2> QED
    BY <1>1, <2>1, <2>2 DEF X
<1>5. ToSet(FlattenSeq(text)) = UNION {ToSet(p) : p \in ToSet(text)} /\ FlattenSeq(text) \in Seq(Symbols)
  BY <1>4, FlattenElements, FlattenTyped
<1>6. \A i \in 1..n : text[i] \in ToSet(text)
  BY <1>4, Zenon DEF ToSet
<1>7. \A p \in ToSet(text) : \E i \in 1..n : p = text[i]
  BY <1>4, Zenon DEF ToSet
<1>8. ASSUME NEW i \in 2..(n - 1), Quoting(t)[i] # "escaped"
      PROVE  t[i] \in ToSet(FlattenSeq(text))
  <2>1. i \in 1..n /\ inner(i)
    BY <1>1, <1>8 DEF inner
  <2>2. t[i] \in ToSet(text[i]) /\ text[i] \in ToSet(text)
    BY <1>3, <1>6, <2>1, Zenon
  <2> QED
    BY <1>5, <2>2, Zenon
<1>9. ASSUME NEW c \in ToSet(FlattenSeq(text))
      PROVE  \E i \in 2..(n - 1) : Quoting(t)[i] # "escaped" /\ c = t[i]
  <2>1. PICK p \in ToSet(text) : c \in ToSet(p)
    BY <1>5, Zenon
  <2>2. PICK i \in 1..n : c \in ToSet(text[i])
    BY <1>7, <2>1, Zenon
  <2>3. inner(i) /\ c = t[i]
    BY <1>3, <2>2, Zenon
  <2> QED
    BY <2>3, Zenon DEF inner
<1> QED
  BY <1>5, <1>8, <1>9, Zenon DEF n, text

\* Where the scan of a quoted string that stands for a token is.
LEMMA QuotedStates ==
  ASSUME NEW t \in Seq(Symbols), IsQuotedToken(t)
  PROVE  LET n == Len(t)
             q == Quoting(t)
         IN /\ \A i \in 1..(n - 1) : q[i] \in {"quoted", "escaped"}
            /\ \A i \in 1..(n - 1) : q[i] = "escaped" => i > 1 /\ t[i] = "backslash"
            /\ q[n - 1] = "quoted" /\ q[n] = "plain"
<1> DEFINE n == Len(t)
           q == Quoting(t)
           M == {i \in 0..(n - 1) : i > 0 =>
                   /\ q[i] \in {"quoted", "escaped"}
                   /\ q[i] = "escaped" => i > 1 /\ t[i] = "backslash"}
<1>1. q[0] = "plain" /\ \A i \in 1..n : q[i] = After(q[i - 1], t[i])
  BY QuotingStep, Zenon
<1>2. /\ n > 2 /\ n \in Nat /\ t[1] = "dquote" /\ t[n] = "dquote"
      /\ \A i \in 2..(n - 1) : is_tchar(t[i]) \/ (t[i] = "backslash" /\ is_tchar(t[i+1]))
  BY DEF IsQuotedToken
<1> HIDE DEF n, q
<1>3. ASSUME NEW i \in 1..(n - 1), i - 1 \in M PROVE i \in M
  <2>1. i \in 1..n /\ i \in 0..(n - 1) /\ i > 0
    BY <1>2
  <2>2. q[i] = After(q[i - 1], t[i])
    BY <1>1, <2>1
  <2>3. CASE i = 1
    <3>1. q[i] = "quoted"
      BY <1>1, <1>2, <2>2, <2>3 DEF After
    <3> QED
      BY <2>1, <3>1
  <2>4. CASE i # 1
    <3>1. i \in 2..(n - 1) /\ i - 1 > 0 /\ i > 1
      BY <1>2, <2>4
    <3>2. is_tchar(t[i]) \/ t[i] = "backslash"
      BY <1>2, <3>1
    <3>3. t[i] # "dquote"
      BY <3>2 DEF is_tchar
    <3>4. q[i - 1] \in {"quoted", "escaped"}
      BY <1>3, <3>1
    <3>5. q[i] \in {"quoted", "escaped"} /\ (q[i] = "escaped" => t[i] = "backslash")
      BY <2>2, <3>3, <3>4 DEF After
    <3> QED
      BY <2>1, <3>1, <3>5
  <2> QED
    BY <2>3, <2>4
<1>4. 0 \in M /\ M \in SUBSET (0..(n - 1)) /\ n - 1 \in Nat
  BY <1>2
<1> HIDE DEF M
<1>5. \A i \in 0..(n - 1) : i \in M
  BY <1>3, <1>4, UpTo, Zenon
<1>6. ASSUME NEW i \in 1..(n - 1)
      PROVE  /\ q[i] \in {"quoted", "escaped"}
             /\ q[i] = "escaped" => i > 1 /\ t[i] = "backslash"
  <2>1. i \in 0..(n - 1) /\ i > 0
    BY <1>2
  <2> QED
    BY <1>5, <2>1 DEF M
<1>7. q[n - 1] = "quoted"
  <2>1. n - 1 \in 1..(n - 1) /\ n - 1 \in 2..(n - 1) /\ (n - 1) + 1 = n
    BY <1>2
  <2>2. q[n - 1] # "escaped"
    <3> SUFFICES ASSUME q[n - 1] = "escaped" PROVE FALSE
      OBVIOUS
    <3>1. t[n - 1] = "backslash"
      BY <1>6, <2>1
    <3>2. is_tchar(t[n - 1]) \/ is_tchar(t[n])
      BY <1>2, <2>1
    <3> QED
      BY <1>2, <3>1, <3>2 DEF is_tchar
  <2> QED
    BY <1>6, <2>1, <2>2
<1>8. q[n] = "plain"
  <2>1. q[n] = After(q[n - 1], t[n])
    BY <1>1, <1>2
  <2> QED
    BY <1>2, <1>7, <2>1 DEF After
<1> QED
  BY <1>6, <1>7, <1>8, Zenon DEF n, q

LEMMA UnquoteQuoted ==
  ASSUME NEW t \in Seq(Symbols), t # <<>>, t[1] = "dquote"
  PROVE  UnquotesToToken(t) <=> IsQuotedToken(t)
<1> DEFINE n == Len(t)
           q == Quoting(t)
           closed == {i \in DOMAIN t : i > 1 /\ q[i] = "plain"}
           flat == FlattenSeq(Text(t))
<1>1. DOMAIN t = 1..n /\ n \in Nat /\ n >= 1 /\ Head(t) = "dquote"
  OBVIOUS
<1>2. unquote(t) = IF closed = {} \/ Min(closed) # n THEN Err("MalformedHeader") ELSE Ok(flat)
  BY <1>1, Zenon DEF unquote, Text
<1>3. q[0] = "plain" /\ \A i \in 1..n : q[i] = After(q[i - 1], t[i])
  BY QuotingStep, Zenon
<1>4. \A i \in 0..n : q[i] \in States
  BY EndingTyped, Zenon
<1>5. q[1] = "quoted"
  <2>1. q[1] = After(q[0], t[1])
    BY <1>1, <1>3
  <2> QED
    BY <1>3, <2>1 DEF After
<1>6. /\ flat \in Seq(Symbols)
      /\ \A i \in 2..(n - 1) : q[i] # "escaped" => t[i] \in ToSet(flat)
      /\ \A c \in ToSet(flat) : \E i \in 2..(n - 1) : q[i] # "escaped" /\ c = t[i]
  BY TextOctets, Zenon
<1>7. \A i : i \in closed <=> i \in 1..n /\ i > 1 /\ q[i] = "plain"
  BY <1>1, Zenon
<1>8. UnquotesToToken(t) <=> closed # {} /\ Min(closed) = n /\ IsToken(flat)
  <2>1. CASE closed = {} \/ Min(closed) # n
    <3>1. unquote(t).error = "MalformedHeader"
      <4>1. unquote(t) = Err("MalformedHeader")
        BY <1>2, <2>1, Zenon
      <4> QED
        BY <4>1 DEF Err
    <3>2. "MalformedHeader" # "Ok"
      OBVIOUS
    <3> QED
      BY <2>1, <3>1, <3>2, Zenon DEF UnquotesToToken
  <2>2. CASE ~(closed = {} \/ Min(closed) # n)
    <3>1. unquote(t) = Ok(flat)
      BY <1>2, <2>2, Zenon
    <3> HIDE DEF flat, closed
    <3>2. unquote(t).error = "Ok" /\ unquote(t).value = flat
      BY <3>1 DEF Ok
    <3> QED
      BY <2>2, <3>2, Zenon DEF UnquotesToToken
  <2> QED
    BY <2>1, <2>2, Zenon
<1>9. IsToken(flat) <=>
        /\ \E i \in 2..(n - 1) : q[i] # "escaped"
        /\ \A i \in 2..(n - 1) : q[i] # "escaped" => is_tchar(t[i])
  <2> HIDE DEF flat, q, n
  <2>1. IsToken(flat) <=> flat # <<>> /\ \A c \in ToSet(flat) : is_tchar(c)
    BY <1>6, TokenOctets
  <2>2. flat # <<>> <=> \E c : c \in ToSet(flat)
    <3>1. flat # <<>> <=> 1 \in DOMAIN flat
      BY <1>6
    <3>2. flat = <<>> => ToSet(flat) = {}
      BY DEF ToSet
    <3>3. 1 \in DOMAIN flat => flat[1] \in ToSet(flat)
      BY Zenon DEF ToSet
    <3> QED
      BY <3>1, <3>2, <3>3, Zenon
  <2> QED
    BY <1>6, <2>1, <2>2, Zenon
<1> HIDE DEF n, q, closed, flat
<1>10. ASSUME closed # {}, Min(closed) = n, IsToken(flat) PROVE IsQuotedToken(t)
  <2>1. closed \in SUBSET Nat
    BY <1>1, <1>7
  <2>2. n \in closed /\ \A i \in closed : n <= i
    <3>1. PICK m \in closed : \A i \in closed : m <= i
      BY <1>10, <2>1, LeastExists
    <3>2. Min(closed) = m
      BY <2>1, <3>1, MinIs
    <3> QED
      BY <1>10, <3>1, <3>2
  <2>3. q[n] = "plain" /\ n > 1
    BY <1>7, <2>2
  <2>4. ASSUME NEW i \in 1..(n - 1) PROVE q[i] \in {"quoted", "escaped"}
    <3>1. i \in 1..n /\ i \in 0..n /\ i < n
      BY <1>1
    <3>2. q[i] # "plain"
      <4>1. CASE i = 1
        BY <1>5, <4>1
      <4>2. CASE i > 1
        BY <1>1, <1>7, <2>2, <3>1, <4>2
      <4> QED
        BY <3>1, <4>1, <4>2
    <3> QED
      BY <1>4, <3>1, <3>2 DEF States
  <2>5. t[n] = "dquote" /\ q[n - 1] = "quoted"
    <3>1. q[n] = After(q[n - 1], t[n]) /\ n - 1 \in 1..(n - 1)
      BY <1>1, <1>3, <2>3
    <3>2. q[n - 1] \in {"quoted", "escaped"}
      BY <2>4, <3>1
    <3> QED
      BY <2>3, <3>1, <3>2 DEF After
  <2>6. n > 2
    BY <1>1, <1>9, <1>10
  <2>7. ASSUME NEW i \in 2..(n - 1)
        PROVE  is_tchar(t[i]) \/ (t[i] = "backslash" /\ is_tchar(t[i + 1]))
    <3>1. CASE q[i] # "escaped"
      BY <1>9, <1>10, <3>1
    <3>2. CASE q[i] = "escaped"
      <4>1. i \in 1..n /\ i - 1 \in 1..(n - 1)
        BY <1>1
      <4>2. q[i] = After(q[i - 1], t[i]) /\ q[i - 1] \in {"quoted", "escaped"}
        BY <1>3, <2>4, <4>1
      <4>3. t[i] = "backslash"
        BY <3>2, <4>2 DEF After
      <4>4. i # n - 1
        BY <2>5, <3>2
      <4>5. i + 1 \in 2..(n - 1) /\ i + 1 \in 1..n /\ (i + 1) - 1 = i
        BY <1>1, <4>4
      <4>6. q[i + 1] = After(q[i], t[i + 1])
        BY <1>3, <4>5
      <4>7. q[i + 1] = "quoted"
        BY <3>2, <4>6 DEF After
      <4> QED
        BY <1>9, <1>10, <4>3, <4>5, <4>7
    <3> QED
      BY <3>1, <3>2
  <2> QED
    BY <2>5, <2>6, <2>7 DEF IsQuotedToken, n
<1>11. ASSUME IsQuotedToken(t) PROVE closed # {} /\ Min(closed) = n /\ IsToken(flat)
  <2>1. /\ n > 2 /\ t[n] = "dquote"
        /\ \A i \in 2..(n - 1) : is_tchar(t[i]) \/ (t[i] = "backslash" /\ is_tchar(t[i+1]))
    BY <1>11 DEF IsQuotedToken, n
  <2>2. /\ \A i \in 1..(n - 1) : q[i] \in {"quoted", "escaped"}
        /\ \A i \in 1..(n - 1) : q[i] = "escaped" => i > 1 /\ t[i] = "backslash"
        /\ q[n - 1] = "quoted" /\ q[n] = "plain"
    BY <1>11, QuotedStates, Zenon DEF n, q
  <2>3. n \in closed /\ closed \in SUBSET Nat
    BY <1>1, <1>7, <2>1, <2>2
  <2>4. ASSUME NEW i \in closed PROVE n <= i
    <3>1. i \in 1..n /\ q[i] = "plain"
      BY <1>7
    <3>2. i \notin 1..(n - 1)
      BY <2>2, <3>1
    <3> QED
      BY <1>1, <3>1, <3>2
  <2>5. closed # {} /\ Min(closed) = n
    BY <2>3, <2>4, MinIs
  <2>6. \E i \in 2..(n - 1) : q[i] # "escaped"
    <3>1. n - 1 \in 2..(n - 1)
      BY <1>1, <2>1
    <3> QED
      BY <2>2, <3>1
  <2>7. ASSUME NEW i \in 2..(n - 1), q[i] # "escaped" PROVE is_tchar(t[i])
    <3> SUFFICES ASSUME ~is_tchar(t[i]) PROVE FALSE
      OBVIOUS
    <3>1. t[i] = "backslash"
      BY <2>1
    <3>2. i \in 1..n /\ i - 1 \in 1..(n - 1) /\ i \in 1..(n - 1) /\ (i - 1) + 1 = i
      BY <1>1
    <3>3. q[i] = After(q[i - 1], t[i]) /\ q[i - 1] \in {"quoted", "escaped"}
      BY <1>3, <2>2, <3>2
    <3>4. q[i - 1] = "escaped"
      BY <2>7, <3>1, <3>3 DEF After
    <3>5. i - 1 > 1 /\ t[i - 1] = "backslash"
      BY <2>2, <3>2, <3>4
    <3>6. i - 1 \in 2..(n - 1)
      BY <3>2, <3>5
    <3>7. is_tchar(t[i - 1]) \/ is_tchar(t[i])
      BY <2>1, <3>2, <3>6
    <3> QED
      BY <3>1, <3>5, <3>7 DEF is_tchar
  <2> QED
    BY <1>9, <2>5, <2>6, <2>7
<1> QED
  BY <1>8, <1>10, <1>11, Zenon

\* A value stands for a token if it is one or quotes one.
LEMMA ValueIs ==
  ASSUME NEW value \in Seq(Symbols)
  PROVE  ValueIsToken(value)
           <=> Padded(value, IsToken) \/ Padded(value, IsQuotedToken)
<1> DEFINE t == trim(value)
<1>1. t \in Seq(Symbols)
  BY TrimSolid
<1>2. ValueIsToken(value) <=> UnquotesToToken(t)
  BY Zenon DEF ValueIsToken, UnquotesToToken
<1>3. /\ Padded(value, IsToken) <=> IsToken(t)
      /\ Padded(value, IsQuotedToken) <=> IsQuotedToken(t)
  BY PaddedToken, PaddedQuoted, Zenon
<1> HIDE DEF t
<1>4. CASE t = <<>> \/ t[1] # "dquote"
  BY <1>1, <1>2, <1>3, <1>4, UnquoteBare, QuotedEnds, Zenon
<1>5. CASE t # <<>> /\ t[1] = "dquote"
  BY <1>1, <1>2, <1>3, <1>5, UnquoteQuoted, TokenEnds, Zenon
<1> QED
  BY <1>4, <1>5, Zenon

-----------------------------------------------------------------------------
(* Parameters.                                                              *)

LEMMA TextJoin ==
  ASSUME NEW s \in Seq(Symbols), NEW t \in Seq(Symbols)
  PROVE  /\ s \o t \in Seq(Symbols)
         /\ ToSet(s \o t) = ToSet(s) \cup ToSet(t)
  BY JoinSeq, JoinElements

LEMMA TextAssoc ==
  ASSUME NEW s \in Seq(Symbols), NEW t \in Seq(Symbols), NEW u \in Seq(Symbols)
  PROVE  (s \o t) \o u = s \o (t \o u)
  BY JoinAssoc, SMTT(60)

\* A text cut at one of its octets.
LEMMA CutAt ==
  ASSUME NEW s \in Seq(Symbols), NEW e \in 1..Len(s)
  PROVE  LET a == SubSeq(s, 1, e - 1)
             b == SubSeq(s, e + 1, Len(s))
         IN /\ a \in Seq(Symbols) /\ b \in Seq(Symbols)
            /\ Len(a) = e - 1 /\ \A k \in 1..(e - 1) : a[k] = s[k]
            /\ s = a \o (<<s[e]>> \o b)
            /\ ToSet(s) = ToSet(a) \cup ({s[e]} \cup ToSet(b))
<1> DEFINE n == Len(s)
           a == SubSeq(s, 1, e - 1)
           b == SubSeq(s, e + 1, n)
           h == SubSeq(s, 1, e)
           one == <<s[e]>>
<1>1. n \in Nat /\ e \in 0..n /\ e - 1 \in 0..n /\ s[e] \in Symbols
  OBVIOUS
<1>2. /\ h \in Seq(Symbols) /\ Len(h) = e /\ b \in Seq(Symbols) /\ h \o b = s
      /\ \A k \in 1..e : h[k] = s[k]
  <2>1. h \in Seq(Symbols) /\ Len(h) = e /\ b \in Seq(Symbols) /\ h \o b = s
    BY <1>1, CutSeq
  <2>2. \A k \in 1..e : h[k] = s[k]
    BY <1>1
  <2> QED
    BY <2>1, <2>2
<1>3. /\ a \in Seq(Symbols) /\ Len(a) = e - 1
      /\ \A k \in 1..(e - 1) : a[k] = s[k]
  <2>1. a \in Seq(Symbols) /\ Len(a) = e - 1
    BY <1>1, CutSeq
  <2>2. \A k \in 1..(e - 1) : a[k] = s[k]
    BY <1>1
  <2> QED
    BY <2>1, <2>2
<1>4. one \in Seq(Symbols) /\ ToSet(one) = {s[e]}
  BY <1>1 DEF ToSet
<1> HIDE DEF a, b, h, one, n
<1>5. h = a \o one
  <2>1. Append(a, s[e]) \in Seq(Symbols) /\ Len(Append(a, s[e])) = e
        /\ \A k \in 1..(e - 1) : Append(a, s[e])[k] = a[k]
        /\ Append(a, s[e])[e] = s[e]
    <3>1. (e - 1) + 1 = e
      BY <1>1
    <3> QED
      BY <1>1, <1>3, <3>1, AppendSeq
  <2> DEFINE g == Append(a, s[e])
  <2> HIDE DEF g
  <2>2. \A k \in 1..e : g[k] = h[k]
    <3> SUFFICES ASSUME NEW k \in 1..e PROVE g[k] = h[k]
      OBVIOUS
    <3>1. k \in 1..(e - 1) \/ k = e
      BY <1>1
    <3> QED
      BY <1>2, <1>3, <2>1, <3>1 DEF g
  <2>3. g = h
    BY <1>2, <2>1, <2>2 DEF g
  <2> QED
    BY <1>1, <1>3, <2>3, AppendIsJoin DEF g, one
<1>6. s = a \o (one \o b)
  <2>1. a \in Seq(Symbols) /\ one \in Seq(Symbols) /\ b \in Seq(Symbols)
    BY <1>2, <1>3, <1>4
  <2>2. (a \o one) \o b = a \o (one \o b)
    BY <2>1, TextAssoc, ZenonT(60)
  <2> QED
    BY <1>2, <1>5, <2>2, Zenon
<1>7. ToSet(s) = ToSet(a) \cup ({s[e]} \cup ToSet(b))
  <2>1. one \o b \in Seq(Symbols) /\ ToSet(one \o b) = ToSet(one) \cup ToSet(b)
    BY <1>2, <1>4, TextJoin, Zenon
  <2>2. ToSet(a \o (one \o b)) = ToSet(a) \cup ToSet(one \o b)
    BY <1>3, <2>1, TextJoin, Zenon
  <2> QED
    BY <1>4, <1>6, <2>1, <2>2, Zenon
<1> QED
  BY <1>2, <1>3, <1>6, <1>7 DEF a, b, one, n

\* A text is its trimmed form with blanks around it.
LEMMA TrimCut ==
  ASSUME NEW s \in Seq(Symbols)
  PROVE  \E a, c \in Seq(Symbols) : IsBlank(a) /\ IsBlank(c) /\ s = (a \o trim(s)) \o c
<1>1. CASE trim(s) = <<>>
  <2>1. <<>> \in Seq(Symbols) /\ IsBlank(<<>>) /\ IsBlank(s)
    <3>1. <<>> \in Seq(Symbols) /\ \A i \in DOMAIN <<>> : FALSE
      OBVIOUS
    <3> QED
      BY <1>1, <3>1, TrimSolid, Zenon DEF IsBlank
  <2>2. s = (s \o <<>>) \o <<>>
    BY JoinEmpty
  <2> QED
    BY <1>1, <2>1, <2>2, Zenon
<1>2. CASE trim(s) # <<>>
  <2>1. PICK i, j : Solid(s, i, j) /\ trim(s) = SubSeq(s, i, j)
    BY <1>2, TrimSolid, Zenon
  <2> DEFINE n == Len(s)
             h == SubSeq(s, 1, j)
             c == SubSeq(s, j + 1, n)
             a == SubSeq(h, 1, i - 1)
             b == SubSeq(h, i, j)
  <2>2. /\ n \in Nat /\ i \in 1..n /\ j \in i..n /\ i \in Nat /\ j \in Nat /\ j \in 0..n
        /\ \A k \in 1..n : k < i \/ k > j => s[k] = "blank"
    BY <2>1 DEF Solid
  <2>3. /\ h \in Seq(Symbols) /\ Len(h) = j /\ c \in Seq(Symbols) /\ Len(c) = n - j
        /\ h \o c = s
    BY <2>2, CutSeq
  <2>4. \A k \in 1..j : h[k] = s[k]
    BY <2>2
  <2>5. \A k \in 1..(n - j) : c[k] = s[j + k]
    BY <2>2
  <2> HIDE DEF h, c
  <2>6. /\ a \in Seq(Symbols) /\ Len(a) = i - 1 /\ b \in Seq(Symbols) /\ Len(b) = j - (i - 1)
        /\ a \o b = h
    <3> DEFINE m == i - 1
    <3>1. m \in 0..Len(h) /\ m + 1 = i
      BY <2>2, <2>3
    <3>2. LET front == SubSeq(h, 1, m)
              back == SubSeq(h, m + 1, Len(h))
          IN /\ front \in Seq(Symbols) /\ Len(front) = m
             /\ back \in Seq(Symbols) /\ Len(back) = Len(h) - m
             /\ front \o back = h
      BY <2>3, <3>1, CutSeq
    <3> QED
      BY <2>3, <3>1, <3>2
  <2>7. /\ \A k \in 1..(i - 1) : a[k] = h[k]
        /\ \A k \in 1..(j - (i - 1)) : b[k] = h[(i - 1) + k]
    BY <2>2, <2>3
  <2>8. b = SubSeq(s, i, j)
    <3> DEFINE t == SubSeq(s, i, j)
    <3>1. /\ t \in Seq(Symbols) /\ Len(t) = j - (i - 1)
          /\ \A k \in 1..(j - (i - 1)) : t[k] = s[(i - 1) + k]
      BY <2>2
    <3> HIDE DEF t, b
    <3>2. \A k \in 1..(j - (i - 1)) : b[k] = t[k]
      <4> SUFFICES ASSUME NEW k \in 1..(j - (i - 1)) PROVE b[k] = t[k]
        OBVIOUS
      <4>1. (i - 1) + k \in 1..j
        BY <2>2
      <4> QED
        BY <2>4, <2>7, <3>1, <4>1
    <3>3. b = t
      BY <2>6, <3>1, <3>2
    <3> QED
      BY <3>3 DEF t
  <2> HIDE DEF a, b
  <2>9. \A k \in 1..Len(a) : a[k] = "blank"
    <3> SUFFICES ASSUME NEW k \in 1..(i - 1) PROVE a[k] = "blank"
      BY <2>6
    <3>1. k \in 1..j /\ k \in 1..n /\ k < i
      BY <2>2
    <3> QED
      BY <2>2, <2>4, <2>7, <3>1
  <2>10. \A k \in 1..Len(c) : c[k] = "blank"
    <3> SUFFICES ASSUME NEW k \in 1..(n - j) PROVE c[k] = "blank"
      BY <2>3
    <3>1. j + k \in 1..n /\ j + k > j
      BY <2>2
    <3> QED
      BY <2>2, <2>5, <3>1
  <2>11. IsBlank(a) /\ IsBlank(c)
    <3>1. DOMAIN a = 1..Len(a) /\ DOMAIN c = 1..Len(c)
      BY <2>3, <2>6
    <3> QED
      BY <2>9, <2>10, <3>1, Zenon DEF IsBlank
  <2>12. s = (a \o trim(s)) \o c
    BY <2>1, <2>3, <2>6, <2>8, Zenon
  <2> QED
    BY <2>3, <2>6, <2>11, <2>12, Zenon
<1> QED
  BY <1>1, <1>2, Zenon

\* Blanks around it do not change where a text ends.
LEMMA TrimEnding ==
  ASSUME NEW s \in Seq(Symbols), Ending(trim(s)) = "plain"
  PROVE  Ending(s) = "plain"
<1>1. ASSUME NEW t \in Seq(Symbols), IsBlank(t) PROVE Ending(t) = "plain"
  <2>1. "dquote" \notin ToSet(t)
    BY <1>1 DEF ToSet, IsBlank
  <2> QED
    BY <2>1, UnquotedEnding, Zenon
<1>2. PICK a \in Seq(Symbols), c \in Seq(Symbols) :
        IsBlank(a) /\ IsBlank(c) /\ s = (a \o trim(s)) \o c
  BY TrimCut, Zenon
<1> DEFINE h == a \o trim(s)
<1>3. trim(s) \in Seq(Symbols)
  BY TrimSolid
<1>4. h \in Seq(Symbols) /\ Ending(h) = "plain"
  <2>1. Ending(a) = "plain"
    BY <1>1, <1>2, Zenon
  <2> QED
    BY <1>3, <2>1, JoinEnding, TextJoin, Zenon
<1> HIDE DEF h
<1>5. Ending(h \o c) = "plain"
  <2>1. Ending(c) = "plain"
    BY <1>1, <1>2, Zenon
  <2> QED
    BY <1>4, <2>1, JoinEnding, Zenon
<1> QED
  BY <1>2, <1>5, Zenon DEF h

LEMMA SplitParameterIs ==
  ASSUME NEW s \in Seq(Symbols)
  PROVE  /\ "equals" \notin ToSet(s) =>
              split_parameter(s).name = trim(s) /\ ~split_parameter(s).valued
         /\ \A e \in 1..Len(s) :
              s[e] = "equals" /\ (\A k \in 1..(e - 1) : s[k] # "equals") =>
                /\ split_parameter(s).name = trim(SubSeq(s, 1, e - 1))
                /\ split_parameter(s).valued
                /\ split_parameter(s).value = SubSeq(s, e + 1, Len(s))
<1> DEFINE signs == {i \in DOMAIN s : s[i] = "equals"}
           at == IF signs = {} THEN Len(s) + 1 ELSE Min(signs)
           n == Len(s)
<1>1. split_parameter(s) = [name |-> trim(SubSeq(s, 1, at - 1)), valued |-> signs # {},
                            value |-> SubSeq(s, at + 1, Len(s))]
  BY Zenon DEF split_parameter
<1>2. DOMAIN s = 1..n /\ n \in Nat /\ signs \in SUBSET Nat /\ signs \in SUBSET (1..n)
  OBVIOUS
<1>3. signs = {} <=> "equals" \notin ToSet(s)
  BY Zenon DEF ToSet
<1>4. \A i : i \in signs <=> i \in 1..n /\ s[i] = "equals"
  BY <1>2, Zenon
<1> HIDE DEF signs
<1>6. ASSUME NEW e \in 1..n, s[e] = "equals", \A k \in 1..(e - 1) : s[k] # "equals"
      PROVE  at = e /\ signs # {}
  <2>1. e \in signs
    BY <1>4, <1>6
  <2>2. \A i \in signs : e <= i
    BY <1>2, <1>4, <1>6
  <2>3. Min(signs) = e
    BY <1>2, <2>1, <2>2, MinIs
  <2> QED
    BY <2>1, <2>3
<1>7. /\ split_parameter(s).name = trim(SubSeq(s, 1, at - 1))
      /\ split_parameter(s).valued = (signs # {})
      /\ split_parameter(s).value = SubSeq(s, at + 1, Len(s))
  <2> DEFINE p == split_parameter(s)
             name == trim(SubSeq(s, 1, at - 1))
             valued == signs # {}
             value == SubSeq(s, at + 1, Len(s))
  <2>1. p = [name |-> name, valued |-> valued, value |-> value]
    BY <1>1
  <2> HIDE DEF p, name, valued, value
  <2>2. p.name = name /\ p.valued = valued /\ p.value = value
    BY <2>1
  <2> QED
    BY <2>2 DEF p, name, valued, value
<1>5. signs = {} => SubSeq(s, 1, at - 1) = s
  <2>1. n + 1 - 1 = n /\ SubSeq(s, 1, n) = s
    BY <1>2
  <2> QED
    BY <2>1
<1> HIDE DEF at
<1> QED
  BY <1>3, <1>5, <1>6, <1>7, Zenon DEF n

\* What parse_params and validate_element ask of a parameter.
Sound(s) ==
  LET p == split_parameter(s) IN IsToken(p.name) /\ (p.valued => ValueIsToken(p.value))

\* The first `=` there is.
First(s, e) == e \in 1..Len(s) /\ s[e] = "equals" /\ \A k \in 1..(e - 1) : s[k] # "equals"

LEMMA FirstExists ==
  ASSUME NEW s \in Seq(Symbols), "equals" \in ToSet(s)
  PROVE  \E e : First(s, e)
<1> DEFINE signs == {i \in 1..Len(s) : s[i] = "equals"}
<1>1. signs \in SUBSET Nat /\ signs # {}
  BY DEF ToSet
<1> HIDE DEF signs
<1>2. PICK e \in signs : \A k \in signs : e <= k
  BY <1>1, LeastExists
<1>3. e \in 1..Len(s) /\ s[e] = "equals" /\ \A k \in 1..Len(s) : s[k] = "equals" => e <= k
  BY <1>2 DEF signs
<1>4. \A k \in 1..(e - 1) : k \in 1..Len(s) /\ ~(e <= k)
  BY <1>3
<1> QED
  BY <1>3, <1>4, Zenon DEF First

LEMMA SoundIs ==
  ASSUME NEW s \in Seq(Symbols)
  PROVE  /\ "equals" \notin ToSet(s) => (Sound(s) <=> IsToken(trim(s)))
         /\ \A e : First(s, e) =>
              (Sound(s) <=> /\ IsToken(trim(SubSeq(s, 1, e - 1)))
                            /\ ValueIsToken(SubSeq(s, e + 1, Len(s))))
  BY SplitParameterIs, Zenon DEF Sound, First

LEMMA ParamIs ==
  ASSUME NEW s \in Seq(Symbols)
  PROVE  IsParam(s) <=> Sound(s)
<1> DEFINE Valued(e) ==
      /\ e \in DOMAIN s
      /\ s[e] = "equals" /\ Padded(SubSeq(s, 1, e - 1), IsToken)
      /\ LET value == SubSeq(s, e + 1, Len(s))
         IN Padded(value, IsToken) \/ Padded(value, IsQuotedToken)
<1>1. IsParam(s) <=> IsToken(trim(s)) \/ \E e : Valued(e)
  BY PaddedToken, Zenon DEF IsParam
<1>2. DOMAIN s = 1..Len(s)
  OBVIOUS
<1>3. ASSUME "equals" \notin ToSet(s) PROVE IsParam(s) <=> Sound(s)
  <2>1. ~\E e : Valued(e)
    BY <1>3, Zenon DEF ToSet
  <2> HIDE DEF Valued
  <2> QED
    BY <1>1, <1>3, <2>1, SoundIs, Zenon
<1>4. ASSUME "equals" \in ToSet(s) PROVE IsParam(s) <=> Sound(s)
  <2>1. PICK e : First(s, e)
    BY <1>4, FirstExists, Zenon
  <2>2. e \in DOMAIN s /\ s[e] = "equals" /\ e \in 1..Len(s)
    BY <1>2, <2>1, Zenon DEF First
  <2>3. /\ SubSeq(s, 1, e - 1) \in Seq(Symbols)
        /\ SubSeq(s, e + 1, Len(s)) \in Seq(Symbols)
    BY <2>2, CutAt, Zenon
  <2>4. Valued(e) <=> Sound(s)
    <3>1. Padded(SubSeq(s, 1, e - 1), IsToken) <=> IsToken(trim(SubSeq(s, 1, e - 1)))
      BY <2>3, PaddedToken, Zenon
    <3>2. ValueIsToken(SubSeq(s, e + 1, Len(s)))
            <=> \/ Padded(SubSeq(s, e + 1, Len(s)), IsToken)
                \/ Padded(SubSeq(s, e + 1, Len(s)), IsQuotedToken)
      BY <2>3, ValueIs, Zenon
    <3> QED
      BY <2>1, <2>2, <3>1, <3>2, SoundIs, Zenon
  <2>5. ~IsToken(trim(s))
    <3>1. ~is_tchar("equals") /\ "equals" # "blank"
      BY DEF is_tchar
    <3> QED
      BY <1>4, <3>1, TokenHolds, Zenon
  <2>6. ASSUME NEW f, Valued(f) PROVE f = e
    <3>1. f \in 1..Len(s) /\ s[f] = "equals" /\ Padded(SubSeq(s, 1, f - 1), IsToken)
      BY <1>2, <2>6, Zenon
    <3> DEFINE a == SubSeq(s, 1, f - 1)
    <3>2. a \in Seq(Symbols) /\ Len(a) = f - 1 /\ \A k \in 1..(f - 1) : a[k] = s[k]
      BY <3>1, CutAt, Zenon
    <3>3. "equals" \notin ToSet(a)
      <4>1. IsToken(trim(a))
        BY <3>1, <3>2, PaddedToken, Zenon
      <4>2. ~is_tchar("equals") /\ "equals" # "blank"
        BY DEF is_tchar
      <4> HIDE DEF a
      <4> QED
        BY <3>2, <4>1, <4>2, TokenHolds, Zenon
    <3> HIDE DEF a, Valued
    <3>4. e \notin 1..(f - 1)
      <4> SUFFICES ASSUME e \in 1..(f - 1) PROVE FALSE
        OBVIOUS
      <4>1. a[e] = "equals" /\ e \in DOMAIN a
        BY <2>2, <3>2
      <4> QED
        BY <3>3, <4>1 DEF ToSet
    <3>5. f \notin 1..(e - 1)
      BY <2>1, <3>1 DEF First
    <3> QED
      BY <2>2, <3>1, <3>4, <3>5
  <2> HIDE DEF Valued
  <2> QED
    BY <1>1, <2>4, <2>5, <2>6, Zenon
<1> QED
  BY <1>3, <1>4, Zenon

\* No delimiter between elements or parameters is in one, and its quotes close.
LEMMA ParamHolds ==
  ASSUME NEW s \in Seq(Symbols), IsParam(s)
  PROVE  "comma" \notin ToSet(s) /\ "semicolon" \notin ToSet(s) /\ Ending(s) = "plain"
<1> DEFINE Clear(t) == "comma" \notin ToSet(t) /\ "semicolon" \notin ToSet(t)
<1>1. /\ ~is_tchar("comma") /\ ~is_tchar("semicolon") /\ ~is_tchar("dquote")
      /\ {"comma", "semicolon"} \cap {"blank", "dquote", "backslash", "equals"} = {}
      /\ "dquote" # "blank"
  BY DEF is_tchar
<1>2. ASSUME NEW t \in Seq(Symbols), IsToken(trim(t)) PROVE Clear(t) /\ Ending(t) = "plain"
  <2>1. Clear(t) /\ "dquote" \notin ToSet(t)
    BY <1>1, <1>2, TokenHolds, Zenon
  <2> QED
    BY <2>1, UnquotedEnding, Zenon
<1>3. ASSUME NEW t \in Seq(Symbols), IsQuotedToken(trim(t)) PROVE Clear(t) /\ Ending(t) = "plain"
  <2>1. Clear(t)
    BY <1>1, <1>3, QuotedHolds, Zenon
  <2>2. trim(t) \in Seq(Symbols)
    BY TrimSolid, Zenon
  <2>3. Ending(trim(t)) = "plain"
    BY <1>3, <2>2, QuotedStates, Zenon DEF Ending
  <2> QED
    BY <2>1, <2>3, TrimEnding, Zenon
<1> HIDE DEF Clear
<1>4. CASE IsToken(trim(s))
  BY <1>2, <1>4, Zenon DEF Clear
<1>5. ASSUME NEW e \in DOMAIN s, s[e] = "equals", Padded(SubSeq(s, 1, e - 1), IsToken),
             Padded(SubSeq(s, e + 1, Len(s)), IsToken) \/ Padded(SubSeq(s, e + 1, Len(s)), IsQuotedToken)
      PROVE  Clear(s) /\ Ending(s) = "plain"
  <2> DEFINE a == SubSeq(s, 1, e - 1)
             b == SubSeq(s, e + 1, Len(s))
  <2>1. e \in 1..Len(s)
    OBVIOUS
  <2>2. /\ a \in Seq(Symbols) /\ b \in Seq(Symbols) /\ s = a \o (<<s[e]>> \o b)
        /\ ToSet(s) = ToSet(a) \cup ({s[e]} \cup ToSet(b))
    BY <2>1, CutAt, Zenon
  <2>3. Clear(a) /\ Ending(a) = "plain"
    BY <1>2, <1>5, <2>2, PaddedToken, Zenon
  <2>4. Clear(b) /\ Ending(b) = "plain"
    BY <1>2, <1>3, <1>5, <2>2, PaddedToken, PaddedQuoted, Zenon
  <2> HIDE DEF a, b
  <2>5. Clear(s)
    BY <1>1, <1>5, <2>2, <2>3, <2>4 DEF Clear
  <2>6. Ending(s) = "plain"
    <3>1. "equals" \in Symbols /\ "equals" # "dquote"
      BY NamesAreSymbols
    <3>2. Ending(a \o (<<"equals">> \o b)) = Ending(b)
      BY <2>2, <2>3, <3>1, JoinedPieces
    <3> QED
      BY <1>5, <2>2, <2>4, <3>2
  <2> QED
    BY <2>5, <2>6
<1>6. IsToken(trim(s))
        \/ \E e \in DOMAIN s :
             /\ s[e] = "equals" /\ Padded(SubSeq(s, 1, e - 1), IsToken)
             /\ \/ Padded(SubSeq(s, e + 1, Len(s)), IsToken)
                \/ Padded(SubSeq(s, e + 1, Len(s)), IsQuotedToken)
  BY PaddedToken, Zenon DEF IsParam
<1> QED
  BY <1>4, <1>5, <1>6, Zenon DEF Clear

-----------------------------------------------------------------------------
(* The pieces between delimiters, by where they begin and end.              *)

LEMMA SubOfAppend ==
  ASSUME NEW t \in Seq(Symbols), NEW c \in Symbols, NEW i \in 1..(Len(t) + 1)
  PROVE  /\ \A j \in 0..Len(t) : SubSeq(Append(t, c), i, j) = SubSeq(t, i, j)
         /\ SubSeq(Append(t, c), i, Len(t) + 1) = Append(SubSeq(t, i, Len(t)), c)
         /\ SubSeq(Append(t, c), Len(t) + 2, Len(t) + 1) = <<>>
<1> DEFINE u == Append(t, c)
           n == Len(t)
<1>1. /\ u \in Seq(Symbols) /\ n \in Nat /\ Len(u) = n + 1 /\ u[n + 1] = c
      /\ \A k \in 1..n : u[k] = t[k]
  BY AppendSeq, LenIsNat
<1>2. ASSUME NEW j \in 0..n PROVE SubSeq(u, i, j) = SubSeq(t, i, j)
  <2> HIDE DEF u
  <2> QED
    BY <1>1
<1>3. SubSeq(u, i, n + 1) = Append(SubSeq(t, i, n), c)
  <2> DEFINE a == SubSeq(t, i, n)
             b == SubSeq(u, i, n + 1)
             m == i - 1
             e == Append(a, c)
  <2>1. m \in 0..n /\ m + 1 = i /\ m \in Nat /\ n \in m..n /\ n + 1 \in m..(n + 1)
    BY <1>1
  <2>2. a \in Seq(Symbols) /\ Len(a) = n - m /\ \A k \in 1..(n - m) : a[k] = t[m + k]
    <3>1. LET p == SubSeq(t, m + 1, n)
          IN p \in Seq(Symbols) /\ Len(p) = n - m /\ \A k \in 1..(n - m) : p[k] = t[m + k]
      BY <2>1, PartSeq
    <3> QED
      BY <2>1, <3>1
  <2>3. /\ b \in Seq(Symbols) /\ Len(b) = (n + 1) - m
        /\ \A k \in 1..((n + 1) - m) : b[k] = u[m + k]
    <3> HIDE DEF u
    <3>1. LET p == SubSeq(u, m + 1, n + 1)
          IN p \in Seq(Symbols) /\ Len(p) = (n + 1) - m /\ \A k \in 1..((n + 1) - m) : p[k] = u[m + k]
      BY <1>1, <2>1, PartSeq
    <3> QED
      BY <2>1, <3>1
  <2> HIDE DEF a, b, m, u
  <2>4. /\ e \in Seq(Symbols) /\ Len(e) = (n - m) + 1 /\ e[(n - m) + 1] = c
        /\ \A k \in 1..(n - m) : e[k] = a[k]
    BY <2>2, AppendSeq
  <2> HIDE DEF e
  <2>5. ASSUME NEW k \in 1..((n + 1) - m) PROVE b[k] = e[k]
    <3>1. CASE k = (n - m) + 1
      <4>1. m + k = n + 1
        BY <1>1, <2>1, <3>1
      <4> QED
        BY <1>1, <2>3, <2>4, <3>1, <4>1
    <3>2. CASE k # (n - m) + 1
      <4>1. k \in 1..(n - m) /\ m + k \in 1..n
        BY <1>1, <2>1, <3>2
      <4> QED
        BY <1>1, <2>2, <2>3, <2>4, <4>1
    <3> QED
      BY <3>1, <3>2
  <2>6. Len(b) = Len(e)
    BY <1>1, <2>1, <2>3, <2>4
  <2>7. b = e
    BY <2>3, <2>4, <2>5, <2>6
  <2> QED
    BY <2>7 DEF a, b, e
<1>4. SubSeq(u, n + 2, n + 1) = <<>>
  <2> HIDE DEF u
  <2> QED
    BY <1>1
<1> QED
  BY <1>2, <1>3, <1>4 DEF u, n

\* From after `i` to before `j` is a piece.
Gap(s, d, i, j) ==
  /\ i \in 0..Len(s) /\ j \in 1..(Len(s) + 1) /\ i < j
  /\ i = 0 \/ s[i] = d
  /\ j = Len(s) + 1 \/ s[j] = d
  /\ \A k \in (i + 1)..(j - 1) : s[k] # d

LEMMA BetweenGaps ==
  ASSUME NEW s, NEW d
  PROVE  \A x : x \in Between(s, d) <=> \E i, j : Gap(s, d, i, j) /\ x = SubSeq(s, i + 1, j - 1)
<1> DEFINE pairs == {p \in (0..Len(s)) \X (1..(Len(s) + 1)) :
        /\ p[1] < p[2]
        /\ p[1] = 0 \/ s[p[1]] = d
        /\ p[2] = Len(s) + 1 \/ s[p[2]] = d
        /\ \A k \in (p[1] + 1)..(p[2] - 1) : s[k] # d}
<1>1. Between(s, d) = {SubSeq(s, p[1] + 1, p[2] - 1) : p \in pairs}
  BY Zenon DEF Between
<1>2. ASSUME NEW p \in pairs PROVE Gap(s, d, p[1], p[2])
  BY DEF Gap
<1>3. ASSUME NEW i, NEW j, Gap(s, d, i, j)
      PROVE  \E p \in pairs : p[1] = i /\ p[2] = j
  <2> DEFINE p == <<i, j>>
  <2>1. p \in (0..Len(s)) \X (1..(Len(s) + 1)) /\ p[1] = i /\ p[2] = j
    BY <1>3 DEF Gap
  <2> HIDE DEF p
  <2>2. p \in pairs
    BY <1>3, <2>1, Zenon DEF Gap
  <2> QED
    BY <2>1, <2>2, Zenon
<1> HIDE DEF pairs
<1>4. ASSUME NEW x \in Between(s, d)
      PROVE  \E i, j : Gap(s, d, i, j) /\ x = SubSeq(s, i + 1, j - 1)
  <2>1. PICK p \in pairs : x = SubSeq(s, p[1] + 1, p[2] - 1)
    BY <1>1, Zenon
  <2> QED
    BY <1>2, <2>1, Zenon
<1>5. ASSUME NEW i, NEW j, Gap(s, d, i, j) PROVE SubSeq(s, i + 1, j - 1) \in Between(s, d)
  <2>1. PICK p \in pairs : p[1] = i /\ p[2] = j
    BY <1>3, <1>5, Zenon
  <2>2. SubSeq(s, p[1] + 1, p[2] - 1) \in Between(s, d)
    BY <1>1, Zenon
  <2> QED
    BY <2>1, <2>2
<1> QED
  BY <1>4, <1>5, Zenon

\* Gaps of a text with one octet more.
LEMMA GapStep ==
  ASSUME NEW t \in Seq(Symbols), NEW c \in Symbols, NEW d, NEW i
  PROVE  LET u == Append(t, c)
             n == Len(t)
         IN /\ \A j \in 1..n : Gap(u, d, i, j) <=> Gap(t, d, i, j)
            /\ Gap(u, d, i, n + 1) <=> c = d /\ Gap(t, d, i, n + 1)
            /\ c = d => (Gap(u, d, i, n + 2) <=> i = n + 1)
            /\ c # d => (Gap(u, d, i, n + 2) <=> Gap(t, d, i, n + 1))
<1> DEFINE u == Append(t, c)
           n == Len(t)
<1>1. /\ n \in Nat /\ Len(u) = n + 1 /\ u[n + 1] = c /\ \A k \in 1..n : u[k] = t[k]
  BY AppendSeq, LenIsNat
<1> HIDE DEF u, n
<1>2. ASSUME NEW j \in 1..n PROVE Gap(u, d, i, j) <=> Gap(t, d, i, j)
  <2>1. ASSUME Gap(u, d, i, j) PROVE Gap(t, d, i, j)
    BY <1>1, <1>2, <2>1 DEF Gap, n
  <2>2. ASSUME Gap(t, d, i, j) PROVE Gap(u, d, i, j)
    BY <1>1, <1>2, <2>2 DEF Gap, n
  <2> QED
    BY <2>1, <2>2
<1>3. Gap(u, d, i, n + 1) <=> c = d /\ Gap(t, d, i, n + 1)
  <2>1. ASSUME Gap(u, d, i, n + 1) PROVE c = d /\ Gap(t, d, i, n + 1)
    BY <1>1, <2>1 DEF Gap, n
  <2>2. ASSUME c = d, Gap(t, d, i, n + 1) PROVE Gap(u, d, i, n + 1)
    BY <1>1, <2>2 DEF Gap, n
  <2> QED
    BY <2>1, <2>2
<1>4. ASSUME c = d PROVE Gap(u, d, i, n + 2) <=> i = n + 1
  <2>1. ASSUME Gap(u, d, i, n + 2) PROVE i = n + 1
    <3>1. i \in 0..(n + 1) /\ \A k \in (i + 1)..(n + 1) : u[k] # d
      BY <1>1, <2>1 DEF Gap
    <3>2. n + 1 \notin (i + 1)..(n + 1)
      BY <1>1, <1>4, <3>1
    <3> QED
      BY <1>1, <3>1, <3>2
  <2>2. ASSUME i = n + 1 PROVE Gap(u, d, i, n + 2)
    BY <1>1, <1>4, <2>2 DEF Gap
  <2> QED
    BY <2>1, <2>2
<1>5. ASSUME c # d PROVE Gap(u, d, i, n + 2) <=> Gap(t, d, i, n + 1)
  <2>1. ASSUME Gap(u, d, i, n + 2) PROVE Gap(t, d, i, n + 1)
    <3>1. i \in 0..(n + 1) /\ (i = 0 \/ u[i] = d) /\ \A k \in (i + 1)..(n + 1) : u[k] # d
      BY <1>1, <2>1 DEF Gap
    <3>2. i # n + 1
      BY <1>1, <1>5, <3>1
    <3> QED
      BY <1>1, <3>1, <3>2 DEF Gap, n
  <2>2. ASSUME Gap(t, d, i, n + 1) PROVE Gap(u, d, i, n + 2)
    <3>1. /\ i \in 0..n /\ (i = 0 \/ t[i] = d)
          /\ \A k \in (i + 1)..n : t[k] # d
      BY <1>1, <2>2 DEF Gap, n
    <3>2. ASSUME NEW k \in (i + 1)..(n + 1) PROVE u[k] # d
      <4>1. k = n + 1 \/ (k \in (i + 1)..n /\ k \in 1..n)
        BY <1>1, <3>1
      <4> QED
        BY <1>1, <1>5, <3>1, <4>1
    <3>3. i = 0 \/ u[i] = d
      BY <1>1, <3>1
    <3> QED
      BY <1>1, <3>1, <3>2, <3>3 DEF Gap
  <2> QED
    BY <2>1, <2>2
<1> QED
  BY <1>2, <1>3, <1>4, <1>5 DEF u, n

\* One gap alone ends where the text does.
LEMMA LastGap ==
  ASSUME NEW s \in Seq(Symbols), NEW d, NEW i, NEW j,
         Gap(s, d, i, Len(s) + 1), Gap(s, d, j, Len(s) + 1)
  PROVE  i = j
<1> DEFINE n == Len(s)
<1>1. n \in Nat
  OBVIOUS
<1>2. /\ i \in 0..n /\ j \in 0..n /\ (i = 0 \/ s[i] = d) /\ (j = 0 \/ s[j] = d)
      /\ \A k \in (i + 1)..n : s[k] # d
      /\ \A k \in (j + 1)..n : s[k] # d
  BY <1>1 DEF Gap
<1> HIDE DEF n
<1>3. ~(i < j)
  <2> SUFFICES ASSUME i < j PROVE FALSE
    OBVIOUS
  <2>1. j \in (i + 1)..n /\ j # 0
    BY <1>1, <1>2
  <2> QED
    BY <1>2, <2>1
<1>4. ~(j < i)
  <2> SUFFICES ASSUME j < i PROVE FALSE
    OBVIOUS
  <2>1. i \in (j + 1)..n /\ i # 0
    BY <1>1, <1>2
  <2> QED
    BY <1>2, <2>1
<1> QED
  BY <1>1, <1>2, <1>3, <1>4

\* Every piece but the last is a gap that ends at a delimiter, every such gap is
\* one of them, and the last piece is the gap that ends where the text does.
CoversTo(p, n, t, m, d) ==
  /\ \A k \in 1..n : k # n =>
       \E i, j : j \in 1..m /\ Gap(t, d, i, j) /\ p[k] = SubSeq(t, i + 1, j - 1)
  /\ \A i, j : j \in 1..m /\ Gap(t, d, i, j) =>
       \E k \in 1..n : k # n /\ p[k] = SubSeq(t, i + 1, j - 1)
  /\ \E i : Gap(t, d, i, m + 1) /\ p[n] = SubSeq(t, i + 1, m)
Covers(p, t, d) == CoversTo(p, Len(p), t, Len(t), d)

LEMMA PiecesCover ==
  ASSUME NEW s \in Seq(Symbols), NEW d
  PROVE  Covers(AllPieces(s, d), s, d)
<1> DEFINE a(t) == AllPieces(t, d)
           S == {t \in Seq(Symbols) : Covers(a(t), t, d)}
<1>1. <<>> \in S
  <2>1. <<>> \in Seq(Symbols) /\ Len(<<>>) = 0
    OBVIOUS
  <2>2. Gap(<<>>, d, 0, Len(<<>>) + 1) /\ SubSeq(<<>>, 0 + 1, Len(<<>>)) = <<>>
    BY <2>1 DEF Gap
  <2>3. a(<<>>) = Unwritten
    BY NoPiecesYet, Zenon
  <2>4. \A j : j \notin 1..Len(<<>>)
    BY <2>1
  <2>5. \A k \in 1..1 : k = 1
    OBVIOUS
  <2>6. Covers(Unwritten, <<>>, d)
    <3>1. \E i : Gap(<<>>, d, i, Len(<<>>) + 1) /\ Unwritten[Len(Unwritten)] = SubSeq(<<>>, i + 1, Len(<<>>))
      BY <2>2, UnwrittenTyped, Zenon
    <3> QED
      BY <2>4, <2>5, <3>1, UnwrittenTyped, Zenon DEF Covers, CoversTo
  <2> QED
    BY <2>1, <2>3, <2>6, Zenon
<1>2. ASSUME NEW t \in Seq(Symbols), NEW c \in Symbols, t \in S PROVE Append(t, c) \in S
  <2> DEFINE u == Append(t, c)
             q == a(t)
             r == a(u)
             n == Len(q)
             m == Len(t)
  <2>1. u \in Seq(Symbols) /\ Len(u) = m + 1 /\ m \in Nat
    BY AppendSeq, LenIsNat
  <2>2. q \in Sheets /\ n \in Nat /\ n \in 1..n
    BY SheetsOf, SheetTyped
  <2>3. /\ \A k \in 1..n : k # n =>
             \E i, j : j \in 1..m /\ Gap(t, d, i, j) /\ q[k] = SubSeq(t, i + 1, j - 1)
        /\ \A i, j : j \in 1..m /\ Gap(t, d, i, j) =>
             \E k \in 1..n : k # n /\ q[k] = SubSeq(t, i + 1, j - 1)
    BY <1>2, Zenon DEF Covers, CoversTo
  <2>4. PICK l : Gap(t, d, l, m + 1) /\ q[n] = SubSeq(t, l + 1, m)
    BY <1>2, Zenon DEF Covers, CoversTo
  <2>5. ASSUME NEW i
        PROVE  /\ \A j \in 1..m : Gap(u, d, i, j) <=> Gap(t, d, i, j)
               /\ Gap(u, d, i, m + 1) <=> c = d /\ Gap(t, d, i, m + 1)
               /\ c = d => (Gap(u, d, i, m + 2) <=> i = m + 1)
               /\ c # d => (Gap(u, d, i, m + 2) <=> Gap(t, d, i, m + 1))
    BY GapStep, Zenon
  <2>6. /\ \A i \in 1..(m + 1) : \A j \in 0..m : SubSeq(u, i, j) = SubSeq(t, i, j)
        /\ \A i \in 1..(m + 1) : SubSeq(u, i, m + 1) = Append(SubSeq(t, i, m), c)
        /\ SubSeq(u, m + 2, m + 1) = <<>>
    <3>1. 1 \in 1..(m + 1)
      BY <2>1
    <3> QED
      BY <3>1, SubOfAppend, Zenon
  <2>7. ASSUME NEW i, NEW j, Gap(t, d, i, j)
        PROVE  i + 1 \in 1..(m + 1) /\ j - 1 \in 0..m /\ i \in Nat /\ j \in Nat
    BY <2>1, <2>7 DEF Gap
  <2>8. /\ (m + 1) - 1 = m /\ (m + 1) + 1 = m + 2 /\ m + 1 \in 1..(m + 1)
        /\ \A j \in 1..m : j \in 1..(m + 1) /\ j # m + 1
        /\ \A j \in 1..(m + 1) : j \in 1..m \/ j = m + 1
        /\ \A k \in 1..n : k \in 1..(n + 1) /\ k # n + 1
        /\ \A k \in 1..(n + 1) : k \in 1..n \/ k = n + 1
    BY <2>1, <2>2
  <2> HIDE DEF u, q, r, n, m, a, S
  <2>9. ASSUME c = d PROVE Covers(r, u, d)
    <3>1. r = Append(q, <<>>)
      BY <2>9, AllPiecesStep, Zenon DEF r, q, a, u
    <3>2. Len(r) = n + 1 /\ r[n + 1] = <<>> /\ \A k \in 1..n : r[k] = q[k]
      BY <2>2, <3>1, BeginDoes, Zenon DEF n
    <3>3. ASSUME NEW k \in 1..(n + 1), k # n + 1
          PROVE  \E i, j : j \in 1..(m + 1) /\ Gap(u, d, i, j) /\ r[k] = SubSeq(u, i + 1, j - 1)
      <4>1. k \in 1..n /\ r[k] = q[k]
        BY <2>8, <3>2, <3>3, Zenon
      <4>2. CASE k = n
        <5>1. Gap(u, d, l, m + 1)
          BY <2>4, <2>5, <2>9, Zenon
        <5>2. r[k] = SubSeq(u, l + 1, (m + 1) - 1)
          <6>1. l + 1 \in 1..(m + 1) /\ m \in 0..m
            BY <2>1, <2>4, <2>7
          <6> QED
            BY <2>4, <2>6, <2>8, <4>1, <4>2, <6>1, Zenon
        <5> QED
          BY <2>8, <5>1, <5>2, Zenon
      <4>3. CASE k # n
        <5>1. PICK i, j : j \in 1..m /\ Gap(t, d, i, j) /\ q[k] = SubSeq(t, i + 1, j - 1)
          BY <2>3, <4>1, <4>3, Zenon
        <5>2. Gap(u, d, i, j)
          BY <2>5, <5>1, Zenon
        <5>3. r[k] = SubSeq(u, i + 1, j - 1)
          BY <2>6, <2>7, <4>1, <5>1, Zenon
        <5> QED
          BY <2>8, <5>1, <5>2, <5>3, Zenon
      <4> QED
        BY <4>2, <4>3, Zenon
    <3>4. ASSUME NEW i, NEW j, j \in 1..(m + 1), Gap(u, d, i, j)
          PROVE  \E k \in 1..(n + 1) : k # n + 1 /\ r[k] = SubSeq(u, i + 1, j - 1)
      <4>1. CASE j \in 1..m
        <5>1. Gap(t, d, i, j)
          BY <2>5, <3>4, <4>1, Zenon
        <5>2. PICK k \in 1..n : q[k] = SubSeq(t, i + 1, j - 1)
          BY <2>3, <4>1, <5>1, Zenon
        <5>3. SubSeq(u, i + 1, j - 1) = SubSeq(t, i + 1, j - 1)
          BY <2>6, <2>7, <5>1, Zenon
        <5> QED
          BY <2>8, <3>2, <5>2, <5>3, Zenon
      <4>2. CASE j = m + 1
        <5>1. Gap(t, d, i, m + 1)
          BY <2>5, <3>4, <4>2, Zenon
        <5>2. i = l
          BY <2>4, <5>1, LastGap, Zenon DEF m
        <5>3. l + 1 \in 1..(m + 1) /\ m \in 0..m
          BY <2>1, <2>4, <2>7
        <5>4. SubSeq(u, i + 1, j - 1) = q[n]
          BY <2>4, <2>6, <2>8, <4>2, <5>2, <5>3, Zenon
        <5> QED
          BY <2>2, <2>8, <3>2, <5>4, Zenon
      <4> QED
        BY <2>8, <3>4, <4>1, <4>2, Zenon
    <3>5. Gap(u, d, m + 1, (m + 1) + 1) /\ r[n + 1] = SubSeq(u, (m + 1) + 1, m + 1)
      BY <2>5, <2>6, <2>8, <2>9, <3>2, Zenon
    <3> QED
      <4>1. CoversTo(r, n + 1, u, m + 1, d)
        BY <3>3, <3>4, <3>5, Zenon DEF CoversTo
      <4> QED
        BY <2>1, <3>2, <4>1, Zenon DEF Covers
  <2>10. ASSUME c # d PROVE Covers(r, u, d)
    <3>1. r = Extend(q, c)
      BY <2>10, AllPiecesStep, Zenon DEF r, q, a, u
    <3>2. /\ Len(r) = n /\ r[n] = Append(q[n], c)
          /\ \A k \in 1..n : k # n => r[k] = q[k]
      BY <2>2, <3>1, ExtendDoes, Zenon DEF n
    <3>3. ASSUME NEW k \in 1..n, k # n
          PROVE  \E i, j : j \in 1..(m + 1) /\ Gap(u, d, i, j) /\ r[k] = SubSeq(u, i + 1, j - 1)
      <4>1. PICK i, j : j \in 1..m /\ Gap(t, d, i, j) /\ q[k] = SubSeq(t, i + 1, j - 1)
        BY <2>3, <3>3, Zenon
      <4>2. Gap(u, d, i, j)
        BY <2>5, <4>1, Zenon
      <4>3. r[k] = SubSeq(u, i + 1, j - 1)
        BY <2>6, <2>7, <3>2, <3>3, <4>1, Zenon
      <4> QED
        BY <2>8, <4>1, <4>2, <4>3, Zenon
    <3>4. ASSUME NEW i, NEW j, j \in 1..(m + 1), Gap(u, d, i, j)
          PROVE  \E k \in 1..n : k # n /\ r[k] = SubSeq(u, i + 1, j - 1)
      <4>1. j \in 1..m
        BY <2>5, <2>8, <2>10, <3>4, Zenon
      <4>2. Gap(t, d, i, j)
        BY <2>5, <3>4, <4>1, Zenon
      <4>3. PICK k \in 1..n : k # n /\ q[k] = SubSeq(t, i + 1, j - 1)
        BY <2>3, <4>1, <4>2, Zenon
      <4>4. SubSeq(u, i + 1, j - 1) = SubSeq(t, i + 1, j - 1)
        BY <2>6, <2>7, <4>2, Zenon
      <4> QED
        BY <3>2, <4>3, <4>4, Zenon
    <3>5. Gap(u, d, l, (m + 1) + 1) /\ r[n] = SubSeq(u, l + 1, m + 1)
      <4>1. l + 1 \in 1..(m + 1)
        BY <2>4, <2>7
      <4> QED
        BY <2>4, <2>5, <2>6, <2>8, <2>10, <3>2, <4>1, Zenon
    <3> QED
      <4>1. CoversTo(r, n, u, m + 1, d)
        BY <3>3, <3>4, <3>5, Zenon DEF CoversTo
      <4> QED
        BY <2>1, <3>2, <4>1, Zenon DEF Covers
  <2>11. Covers(r, u, d)
    BY <2>9, <2>10, Zenon
  <2> QED
    BY <2>1, <2>11, Zenon DEF S, r, u
<1> HIDE DEF S
<1>3. s \in S
  BY <1>1, <1>2, SeqInduction, Zenon
<1> QED
  BY <1>3, Zenon DEF S

LEMMA BetweenIs ==
  ASSUME NEW s \in Seq(Symbols), NEW d
  PROVE  /\ \A x \in Between(s, d) : \E k \in 1..Len(AllPieces(s, d)) : x = AllPieces(s, d)[k]
         /\ \A k \in 1..Len(AllPieces(s, d)) : AllPieces(s, d)[k] \in Between(s, d)
<1> DEFINE p == AllPieces(s, d)
           n == Len(p)
           m == Len(s)
<1>1. n \in 1..n /\ m \in Nat /\ (m + 1) - 1 = m
  BY SheetsOf, SheetTyped, LenIsNat
<1>0. Covers(p, s, d)
  BY PiecesCover, Zenon
<1>2. /\ \A k \in 1..n : k # n =>
           \E i, j : j \in 1..m /\ Gap(s, d, i, j) /\ p[k] = SubSeq(s, i + 1, j - 1)
      /\ \A i, j : j \in 1..m /\ Gap(s, d, i, j) =>
           \E k \in 1..n : k # n /\ p[k] = SubSeq(s, i + 1, j - 1)
  BY <1>0, Zenon DEF Covers, CoversTo
<1>3. PICK l : Gap(s, d, l, m + 1) /\ p[n] = SubSeq(s, l + 1, m)
  BY <1>0, Zenon DEF Covers, CoversTo
<1>6. \A x : x \in Between(s, d) <=> \E i, j : Gap(s, d, i, j) /\ x = SubSeq(s, i + 1, j - 1)
  BY BetweenGaps, SMT
<1> HIDE DEF p, n, m
<1>4. ASSUME NEW x \in Between(s, d) PROVE \E k \in 1..n : x = p[k]
  <2>1. PICK i, j : Gap(s, d, i, j) /\ x = SubSeq(s, i + 1, j - 1)
    BY <1>4, <1>6, Zenon
  <2>2. j \in 1..m \/ j = m + 1
    BY <1>1, <2>1 DEF Gap, m
  <2>3. CASE j \in 1..m
    BY <1>2, <2>1, <2>3, Zenon
  <2>4. CASE j = m + 1
    <3>1. i = l
      BY <1>3, <2>1, <2>4, LastGap, Zenon DEF m
    <3> QED
      BY <1>1, <1>3, <2>1, <2>4, <3>1, Zenon
  <2> QED
    BY <2>2, <2>3, <2>4, Zenon
<1>5. ASSUME NEW k \in 1..n PROVE p[k] \in Between(s, d)
  <2>1. CASE k = n
    BY <1>1, <1>3, <1>6, <2>1, Zenon
  <2>2. CASE k # n
    BY <1>2, <1>6, <2>2, Zenon
  <2> QED
    BY <2>1, <2>2, Zenon
<1> QED
  BY <1>4, <1>5, Zenon DEF p, n

\* What lies between delimiters is what is cut at all of them.
LEMMA BetweenSet ==
  ASSUME NEW s \in Seq(Symbols), NEW d
  PROVE  Between(s, d) = ToSet(AllPieces(s, d))
<1> DEFINE p == AllPieces(s, d)
<1>1. p \in Seq(Seq(Symbols))
  BY SheetsOf, SheetTyped
<1>2. /\ \A x \in Between(s, d) : \E k \in 1..Len(p) : x = p[k]
      /\ \A k \in 1..Len(p) : p[k] \in Between(s, d)
  BY BetweenIs
<1> HIDE DEF p
<1>3. /\ \A k \in 1..Len(p) : p[k] \in ToSet(p)
      /\ \A x \in ToSet(p) : \E k \in 1..Len(p) : x = p[k]
  BY <1>1 DEF ToSet
<1>4. \A x : x \in Between(s, d) <=> x \in ToSet(p)
  BY <1>2, <1>3, Zenon
<1> QED
  BY <1>4, Zenon DEF p

LEMMA PiecesOf ==
  ASSUME NEW s \in Seq(Symbols), NEW d, NEW k \in 1..Len(AllPieces(s, d))
  PROVE  AllPieces(s, d)[k] \in Seq(Symbols)
<1>1. AllPieces(s, d) \in Seq(Seq(Symbols))
  BY SheetsOf, SheetTyped
<1> QED
  BY <1>1

\* Without a delimiter there is one piece.
LEMMA OnePiece ==
  ASSUME NEW s \in Seq(Symbols), NEW d, d \notin ToSet(s)
  PROVE  Len(AllPieces(s, d)) = 1 /\ AllPieces(s, d)[1] = s
<1> DEFINE p == AllPieces(s, d)
           n == Len(p)
           m == Len(s)
<1>1. n \in Nat /\ n \in 1..n /\ m \in Nat /\ \A i \in 1..m : s[i] # d
  BY SheetsOf, SheetTyped DEF ToSet
<1>2. CoversTo(p, n, s, m, d)
  BY PiecesCover, Zenon DEF Covers
<1> HIDE DEF p, n, m
<1>3. ~\E i, j : j \in 1..m /\ Gap(s, d, i, j)
  <2> SUFFICES ASSUME NEW i, NEW j, j \in 1..m, Gap(s, d, i, j) PROVE FALSE
    BY Zenon
  <2>1. s[j] = d
    BY <1>1 DEF Gap, m
  <2> QED
    BY <1>1, <2>1
<1>4. n = 1
  <2>1. \A k \in 1..n : k = n
    BY <1>2, <1>3, Zenon DEF CoversTo
  <2> QED
    BY <1>1, <2>1
<1>5. PICK i : Gap(s, d, i, m + 1) /\ p[n] = SubSeq(s, i + 1, m)
  BY <1>2, Zenon DEF CoversTo
<1>6. i = 0
  BY <1>1, <1>5 DEF Gap, m
<1>7. SubSeq(s, 0 + 1, m) = s
  BY <1>1 DEF m
<1> QED
  BY <1>4, <1>5, <1>6, <1>7 DEF p, n

\* The first piece ends before the first delimiter.
LEMMA FirstPiece ==
  ASSUME NEW s \in Seq(Symbols), NEW d \in Symbols, NEW e \in 1..Len(s), s[e] = d,
         \A k \in 1..(e - 1) : s[k] # d
  PROVE  LET a == SubSeq(s, 1, e - 1)
             b == SubSeq(s, e + 1, Len(s))
             p == AllPieces(s, d)
             q == AllPieces(b, d)
         IN /\ a \in Seq(Symbols) /\ b \in Seq(Symbols)
            /\ Len(p) = Len(q) + 1 /\ p[1] = a
            /\ \A k \in 1..Len(q) : p[k + 1] = q[k]
<1> DEFINE a == SubSeq(s, 1, e - 1)
           b == SubSeq(s, e + 1, Len(s))
           p == AllPieces(s, d)
           q == AllPieces(b, d)
           o == AllPieces(a, d)
<1>1. /\ a \in Seq(Symbols) /\ b \in Seq(Symbols)
      /\ Len(a) = e - 1 /\ \A k \in 1..(e - 1) : a[k] = s[k]
  BY CutAt
<1>9. s = a \o (<<d>> \o b)
  BY CutAt
<1> HIDE DEF a, b
<1>2. d \notin ToSet(a)
  BY <1>1 DEF ToSet
<1>3. Len(o) = 1 /\ o[1] = a
  BY <1>1, <1>2, OnePiece
<1>4. p = o \o q
  <2>1. AllPieces(a \o (<<d>> \o b), d) = o \o q
    BY <1>1, JoinedAll, Zenon
  <2> QED
    BY <1>9, <2>1
<1>5. o \in Seq(Seq(Symbols)) /\ q \in Seq(Seq(Symbols)) /\ Len(q) \in Nat
  BY <1>1, SheetsOf, SheetTyped
<1> HIDE DEF o, p, q
<1>6. /\ Len(p) = Len(o) + Len(q) /\ \A k \in 1..Len(o) : p[k] = o[k]
      /\ \A k \in 1..Len(q) : p[Len(o) + k] = q[k]
  BY <1>4, <1>5
<1>7. 1 \in 1..1 /\ 1 + Len(q) = Len(q) + 1 /\ \A k \in 1..Len(q) : 1 + k = k + 1
  BY <1>5
<1>8. Len(p) = Len(q) + 1 /\ p[1] = a /\ \A k \in 1..Len(q) : p[k + 1] = q[k]
  BY <1>3, <1>6, <1>7
<1> QED
  BY <1>1, <1>8, Zenon DEF a, b, p, q

-----------------------------------------------------------------------------
(* An element is what validate_element takes, or what the grammar does.     *)

\* The pieces of an extension: a name, and parameters.
Extends(p) == IsToken(trim(p[1])) /\ \A k \in 2..Len(p) : IsParam(p[k])

LEMMA ExtensionIs ==
  ASSUME NEW s \in Seq(Symbols)
  PROVE  IsExtension(s) <=> Extends(AllPieces(s, "semicolon"))
<1> DEFINE n == Len(s)
           p == AllPieces(s, "semicolon")
           Cut(i) == /\ i \in 0..n /\ Padded(SubSeq(s, 1, i), IsToken)
                     /\ i < n => /\ s[i + 1] = "semicolon"
                                 /\ \A x \in Between(SubSeq(s, i + 2, n), "semicolon") : IsParam(x)
<1>1. IsExtension(s) <=> \E i : Cut(i)
  BY Zenon DEF IsExtension
<1>2. n \in Nat /\ SubSeq(s, 1, n) = s /\ "semicolon" \in Symbols
  BY NamesAreSymbols
<1>3. ASSUME NEW i, Cut(i)
      PROVE  i \in 0..n /\ \A k \in 1..i : s[k] # "semicolon"
  <2>1. i \in 0..n /\ Padded(SubSeq(s, 1, i), IsToken)
    BY <1>3
  <2> DEFINE a == SubSeq(s, 1, i)
  <2>2. a \in Seq(Symbols) /\ Len(a) = i /\ \A k \in 1..i : a[k] = s[k]
    BY <2>1
  <2> HIDE DEF a
  <2>3. IsToken(trim(a))
    BY <2>1, <2>2, PaddedToken, Zenon DEF a
  <2>4. \A k \in 1..i : a[k] \in ToSet(a)
    BY <2>1, <2>2 DEF ToSet
  <2>5. "semicolon" # "blank" /\ ~is_tchar("semicolon")
    BY DEF is_tchar
  <2>6. \A c \in ToSet(a) : c # "semicolon"
    BY <2>2, <2>3, <2>5, TokenHolds, Zenon
  <2> QED
    BY <2>1, <2>2, <2>4, <2>6
<1> HIDE DEF n, p
<1>4. ASSUME "semicolon" \notin ToSet(s) PROVE IsExtension(s) <=> Extends(p)
  <2>1. Len(p) = 1 /\ p[1] = s
    BY <1>4, OnePiece DEF p
  <2>2. \A k \in 1..n : s[k] # "semicolon"
    BY <1>4 DEF ToSet, n
  <2>3. ASSUME NEW i, Cut(i) PROVE IsToken(trim(s))
    <3>1. i = n
      <4>1. i < n => i + 1 \in 1..n
        BY <1>2, <2>3
      <4> QED
        BY <1>2, <2>2, <2>3, <4>1
    <3> QED
      BY <1>2, <2>3, <3>1, PaddedToken, Zenon
  <2>4. ASSUME IsToken(trim(s)) PROVE Cut(n)
    <3>1. Padded(SubSeq(s, 1, n), IsToken)
      BY <1>2, <2>4, PaddedToken, Zenon
    <3>2. n \in 0..n /\ ~(n < n)
      BY <1>2
    <3> QED
      BY <3>1, <3>2, Zenon
  <2>5. \A k : k \notin 2..1
    OBVIOUS
  <2>6. Extends(p) <=> IsToken(trim(s))
    BY <2>1, <2>5, Zenon DEF Extends
  <2> HIDE DEF Cut
  <2> QED
    BY <1>1, <2>3, <2>4, <2>6, Zenon
<1>5. ASSUME "semicolon" \in ToSet(s) PROVE IsExtension(s) <=> Extends(p)
  <2> DEFINE signs == {i \in 1..n : s[i] = "semicolon"}
  <2>1. signs \in SUBSET Nat /\ signs # {}
    BY <1>5 DEF ToSet, n
  <2>2. PICK e \in signs : \A k \in signs : e <= k
    <3> HIDE DEF signs
    <3> QED
      BY <2>1, LeastExists
  <2>3. /\ e \in 1..n /\ s[e] = "semicolon" /\ e - 1 \in 0..n /\ (e - 1) + 1 = e
        /\ (e - 1) + 2 = e + 1 /\ e - 1 < n
    BY <1>2, <2>2
  <2>4. \A k \in 1..(e - 1) : s[k] # "semicolon"
    <3>1. \A k \in 1..(e - 1) : k \in 1..n /\ ~(e <= k)
      BY <1>2, <2>3
    <3>2. \A k \in 1..n : s[k] = "semicolon" => e <= k
      BY <2>2, Zenon
    <3> QED
      BY <3>1, <3>2, Zenon
  <2> HIDE DEF signs
  <2> DEFINE a == SubSeq(s, 1, e - 1)
             b == SubSeq(s, e + 1, n)
             q == AllPieces(b, "semicolon")
             m == Len(q)
  <2>5. /\ a \in Seq(Symbols) /\ b \in Seq(Symbols)
        /\ Len(p) = m + 1 /\ p[1] = a
        /\ \A k \in 1..m : p[k + 1] = q[k]
    BY <1>2, <2>3, <2>4, FirstPiece DEF n, p
  <2> HIDE DEF a, b, q, m
  <2>6. (\A x \in Between(b, "semicolon") : IsParam(x)) <=> \A k \in 1..m : IsParam(q[k])
    <3>1. /\ \A x \in Between(b, "semicolon") : \E k \in 1..m : x = q[k]
          /\ \A k \in 1..m : q[k] \in Between(b, "semicolon")
      BY <2>5, BetweenIs DEF q, m
    <3> QED
      BY <3>1, Zenon
  <2>7. (\A k \in 1..m : IsParam(q[k])) <=> \A k \in 2..Len(p) : IsParam(p[k])
    <3>1. m \in Nat
      BY <2>5, SheetsOf, SheetTyped DEF q, m
    <3>2. ASSUME NEW k \in 2..Len(p)
          PROVE k - 1 \in 1..m /\ p[k] = q[k - 1]
      <4>1. k - 1 \in 1..m /\ (k - 1) + 1 = k
        BY <2>5, <3>1
      <4> QED
        BY <2>5, <4>1
    <3>3. ASSUME NEW k \in 1..m PROVE k + 1 \in 2..Len(p)
      BY <2>5, <3>1
    <3> QED
      BY <2>5, <3>2, <3>3, Zenon
  <2>8. Padded(a, IsToken) <=> IsToken(trim(a))
    BY <2>5, PaddedToken, Zenon
  <2>9. Extends(p) <=> IsToken(trim(a)) /\ \A k \in 1..m : IsParam(q[k])
    BY <2>5, <2>7, Zenon DEF Extends
  <2>10. Cut(e - 1) <=> Padded(a, IsToken) /\ \A x \in Between(b, "semicolon") : IsParam(x)
    BY <2>3, Zenon DEF a, b
  <2>11. ASSUME NEW i, Cut(i) PROVE i = e - 1
    <3>1. i \in 0..n /\ (\A k \in 1..i : s[k] # "semicolon") /\ (i < n => s[i + 1] = "semicolon")
      BY <1>3, <2>11, Zenon
    <3>2. ~(e \in 1..i)
      BY <2>3, <3>1
    <3>3. i < n /\ i <= e - 1
      BY <1>2, <2>3, <3>1, <3>2
    <3>4. ~(i + 1 \in 1..(e - 1))
      BY <2>4, <3>1, <3>3
    <3> QED
      BY <1>2, <2>3, <3>1, <3>3, <3>4
  <2> HIDE DEF Cut
  <2> QED
    BY <1>1, <2>6, <2>8, <2>9, <2>10, <2>11, Zenon
<1> QED
  BY <1>4, <1>5, Zenon DEF p

\* No piece of an extension holds a delimiter, and each ends outside of quotes.
LEMMA ExtensionPieces ==
  ASSUME NEW p \in Sheets, Extends(p), NEW k \in 1..Len(p)
  PROVE  "comma" \notin ToSet(p[k]) /\ "semicolon" \notin ToSet(p[k]) /\ Ending(p[k]) = "plain"
<1>1. p[k] \in Seq(Symbols)
  BY SheetTyped
<1>2. CASE k = 1
  <2>1. IsToken(trim(p[k]))
    BY <1>2, Zenon DEF Extends
  <2>2. /\ "semicolon" # "blank" /\ ~is_tchar("semicolon")
        /\ "comma" # "blank" /\ ~is_tchar("comma")
        /\ "dquote" # "blank" /\ ~is_tchar("dquote")
    BY DEF is_tchar
  <2>3. /\ "comma" \notin ToSet(p[k]) /\ "semicolon" \notin ToSet(p[k])
        /\ "dquote" \notin ToSet(p[k])
    BY <1>1, <2>1, <2>2, TokenHolds, Zenon
  <2> QED
    BY <1>1, <2>3, UnquotedEnding, Zenon
<1>3. CASE k # 1
  <2>1. k \in 2..Len(p)
    BY <1>3
  <2>2. IsParam(p[k])
    BY <2>1, Zenon DEF Extends
  <2> QED
    BY <1>1, <2>2, ParamHolds, Zenon
<1> QED
  BY <1>2, <1>3, Zenon

\* An extension can be cut in segments where it has semicolons, and has no
\* commas.
LEMMA ExtensionReads ==
  ASSUME NEW s \in Seq(Symbols), Extends(AllPieces(s, "semicolon"))
  PROVE  /\ Ending(s) = "plain" /\ Pieces(s, "semicolon") = AllPieces(s, "semicolon")
         /\ "comma" \notin ToSet(s)
<1> DEFINE p == AllPieces(s, "semicolon")
<1>1. p \in Sheets
  BY SheetsOf
<1>2. Extends(p)
  OBVIOUS
<1> HIDE DEF p
<1>3. ASSUME NEW k \in 1..Len(p) PROVE "comma" \notin ToSet(p[k]) /\ Ending(p[k]) = "plain"
  BY <1>1, <1>2, ExtensionPieces, Zenon
<1>4. "comma" # "semicolon" /\ "semicolon" # "dquote"
  OBVIOUS
<1>5. Ending(s) = "plain" /\ Pieces(s, "semicolon") = p
  BY <1>3, <1>4, PlainPieces, Zenon DEF p
<1>6. "comma" \notin ToSet(s)
  BY <1>3, <1>4, OctetsOfPieces, Zenon DEF p
<1> QED
  BY <1>5, <1>6, Zenon DEF p

LEMMA ElementIs ==
  ASSUME NEW s \in Seq(Symbols)
  PROVE  validate_element(s) <=> IsExtension(s)
<1> DEFINE p == Pieces(s, "semicolon")
<1>1. p \in Sheets /\ \A k \in 1..Len(p) : p[k] \in Seq(Symbols)
  <2>1. p \in Sheets
    BY SheetsOf
  <2>2. p \in Seq(Seq(Symbols))
    BY <2>1, SheetTyped
  <2> HIDE DEF p
  <2> QED
    BY <2>1, <2>2
<1>2. validate_element(s) <=>
        /\ Ending(s) = "plain"
        /\ IsToken(trim(p[1])) /\ \A k \in 2..Len(p) : Sound(p[k])
  <2> DEFINE r == segments(s)
             Reads(q) == IsToken(trim(q[1])) /\ \A k \in 2..Len(q) : Sound(q[k])
  <2>1. validate_element(s) <=> r.error = "Ok" /\ Reads(r.value)
    BY Zenon DEF validate_element, Sound
  <2>2. /\ r.error = "Ok" <=> Ending(s) = "plain"
        /\ Ending(s) = "plain" => r.value = p
    BY SplitIs, Zenon DEF segments
  <2>3. validate_element(s) <=> Ending(s) = "plain" /\ Reads(p)
    <3> HIDE DEF Reads, r, p
    <3> QED
      BY <2>1, <2>2, Zenon
  <2> QED
    BY <2>3, Zenon
<1> HIDE DEF p
<1>3. (\A k \in 2..Len(p) : Sound(p[k])) <=> \A k \in 2..Len(p) : IsParam(p[k])
  <2>1. \A k \in 2..Len(p) : k \in 1..Len(p)
    OBVIOUS
  <2> QED
    BY <1>1, <2>1, ParamIs, Zenon
<1>4. validate_element(s) <=> Ending(s) = "plain" /\ Extends(p)
  BY <1>2, <1>3, Zenon DEF Extends
<1>5. ASSUME Extends(p) PROVE p = AllPieces(s, "semicolon")
  <2>1. \A k \in 1..Len(p) : "semicolon" \notin ToSet(p[k])
    BY <1>1, <1>5, ExtensionPieces, Zenon
  <2> QED
    BY <2>1, ClearPieces, Zenon DEF p
<1>6. Extends(AllPieces(s, "semicolon")) => Ending(s) = "plain" /\ p = AllPieces(s, "semicolon")
  BY ExtensionReads, Zenon DEF p
<1> QED
  BY <1>4, <1>5, <1>6, ExtensionIs, Zenon

\* A blank element ends outside of quotes and has no commas either.
LEMMA BlankReads ==
  ASSUME NEW s \in Seq(Symbols), IsBlank(s)
  PROVE  Ending(s) = "plain" /\ "comma" \notin ToSet(s)
<1>1. DOMAIN s = 1..Len(s)
  OBVIOUS
<1>2. \A c \in ToSet(s) : c = "blank"
  BY <1>1 DEF IsBlank, ToSet
<1>3. "comma" # "blank" /\ "dquote" # "blank"
  OBVIOUS
<1>4. "comma" \notin ToSet(s) /\ "dquote" \notin ToSet(s)
  BY <1>2, <1>3, Zenon
<1> QED
  BY <1>4, UnquotedEnding, Zenon

\* What validate asks of an element, and what the grammar does.
LEMMA ElementReads ==
  ASSUME NEW s \in Seq(Symbols)
  PROVE  /\ is_blank(s) <=> IsBlank(s)
         /\ validate_element(s) <=> IsExtension(s)
         /\ IsBlank(s) \/ IsExtension(s) => Ending(s) = "plain" /\ "comma" \notin ToSet(s)
  BY TrimSolid, ElementIs, ExtensionIs, ExtensionReads, BlankReads, Zenon DEF is_blank

-----------------------------------------------------------------------------
(* ValidateIsTheGrammar.                                                    *)

\* The pieces of a line are pieces of the list the lines make.
LEMMA LinePieces ==
  ASSUME NEW field \in Seq(Seq(Symbols)), NEW i \in DOMAIN field
  PROVE  /\ Combined(field) \in Seq(Symbols)
         /\ ToSet(AllPieces(field[i], "comma")) \subseteq ToSet(AllPieces(Combined(field), "comma"))
<1> DEFINE Lines == Seq(Symbols)
           P(t) == ToSet(AllPieces(t, "comma"))
           Held(f) == Combined(f) \in Lines /\ \A k \in DOMAIN f : P(f[k]) \subseteq P(Combined(f))
           S == {f \in Seq(Lines) : f # <<>> => Held(f)}
<1>1. <<>> \in S
  <2>1. <<>> \in Seq(Lines)
    OBVIOUS
  <2> HIDE DEF Held, Lines
  <2> QED
    BY <2>1, Zenon
<1>2. ASSUME NEW f \in Seq(Lines), NEW line \in Lines, f \in S PROVE Append(f, line) \in S
  <2> DEFINE g == Append(f, line)
             n == Len(f)
             c == Combined(f)
  <2>1. /\ g \in Seq(Lines) /\ n \in Nat /\ DOMAIN f = 1..n /\ DOMAIN g = 1..(n + 1)
        /\ g[n + 1] = line /\ \A k \in 1..n : g[k] = f[k]
    BY AppendSeq, LenIsNat
  <2>2. f # <<>> => Held(f)
    BY <1>2, Zenon
  <2>3. /\ f = <<>> => Combined(g) = line
        /\ f # <<>> => Combined(g) = c \o (<<"comma">> \o line)
        /\ c \in Lines
    BY CombinedStep, Zenon
  <2> HIDE DEF S, g, c, n
  <2>4. ASSUME f = <<>> PROVE Held(g)
    <3>1. n = 0
      BY <2>4 DEF n
    <3>2. \A k \in DOMAIN g : g[k] = line
      BY <2>1, <3>1
    <3> HIDE DEF P
    <3>3. \A k \in DOMAIN g : P(g[k]) \subseteq P(Combined(g))
      BY <2>3, <2>4, <3>2, Zenon
    <3> QED
      BY <2>3, <2>4, <3>3, Zenon
  <2>5. ASSUME f # <<>> PROVE Held(g)
    <3> DEFINE whole == c \o (<<"comma">> \o line)
               p == AllPieces(c, "comma")
               q == AllPieces(line, "comma")
    <3>1. "comma" \in Symbols
      BY NamesAreSymbols
    <3>2. whole \in Lines /\ AllPieces(whole, "comma") = p \o q
      BY <2>3, <3>1, JoinedAll, Zenon
    <3>3. p \in Seq(Lines) /\ q \in Seq(Lines)
      BY <2>3, SheetsOf, SheetTyped
    <3> HIDE DEF Lines, p, q, whole
    <3>4. ToSet(p \o q) = ToSet(p) \cup ToSet(q)
      BY <3>3, JoinElements
    <3>5. P(whole) = P(c) \cup P(line) /\ Combined(g) = whole
      BY <2>3, <2>5, <3>2, <3>4, Zenon DEF p, q, whole
    <3>6. \A k \in 1..n : P(g[k]) \subseteq P(c)
      <4> HIDE DEF P
      <4> QED
        BY <2>1, <2>2, <2>5, Zenon DEF c
    <3>7. ASSUME NEW k \in DOMAIN g PROVE P(g[k]) \subseteq P(Combined(g))
      <4>1. k = n + 1 \/ k \in 1..n
        BY <2>1
      <4> HIDE DEF P
      <4> QED
        BY <2>1, <3>5, <3>6, <4>1, Zenon
    <3> QED
      BY <3>2, <3>5, <3>7, Zenon
  <2>6. Held(g)
    <3> HIDE DEF Held
    <3> QED
      BY <2>4, <2>5, Zenon
  <2> QED
    BY <2>1, <2>6, Zenon DEF S, g
<1> HIDE DEF S, Held
<1>3. field \in S
  BY <1>1, <1>2, SeqInduction, Zenon DEF Lines
<1>4. field # <<>>
  OBVIOUS
<1>5. Held(field)
  BY <1>3, <1>4, Zenon DEF S
<1> QED
  BY <1>5, Zenon DEF Held, Lines

LEMMA FieldIsTheGrammar ==
  ASSUME NEW field \in Seq(Seq(Symbols)), field # <<>>
  PROVE  validate(field) = "Ok" <=> IsExtensionList(Combined(field))
<1> DEFINE c == Combined(field)
           List(set) == /\ \E e \in set : ~IsBlank(e)
                        /\ \A e \in set : IsBlank(e) \/ IsExtension(e)
           found == ToSet(Elements(field))
<1>1. /\ DOMAIN field = 1..Len(field) /\ Len(field) \in Nat /\ 1 \in DOMAIN field
      /\ \A i \in DOMAIN field : field[i] \in Seq(Symbols)
      /\ \A i \in DOMAIN field : field[i] \in ToSet(field)
  BY LineOfField
<1>2. c \in Seq(Symbols)
  BY <1>1, LinePieces
<1>3. IsExtensionList(c) <=> List(ToSet(AllPieces(c, "comma")))
  BY <1>2, BetweenSet, Zenon DEF IsExtensionList
<1>4. \A i \in DOMAIN field : elements(field[i]).error = "Ok" <=> Ending(field[i]) = "plain"
  BY SplitIs, Zenon DEF elements
<1> HIDE DEF c
<1>5. ASSUME AllSplit(field)
      PROVE  /\ Ending(c) = "plain" /\ Pieces(c, "comma") = Elements(field)
             /\ Elements(field) \in Seq(Seq(Symbols))
  <2>1. \A i \in DOMAIN field : Ending(field[i]) = "plain"
    BY <1>4, <1>5, Zenon DEF AllSplit
  <2>2. Ending(c) = "plain" /\ elements(c).value = Elements(field)
    BY <2>1, CombinedPieces DEF c
  <2>3. elements(c).value = Pieces(c, "comma")
    BY <2>2, SplitIs, Zenon DEF elements
  <2>4. Pieces(c, "comma") \in Seq(Seq(Symbols))
    BY <1>2, SheetsOf, SheetTyped
  <2> QED
    BY <2>2, <2>3, <2>4, Zenon
<1>6. ASSUME AllSplit(field) PROVE validate(field) = "Ok" <=> List(found)
  <2>1. \A e \in found : e \in Seq(Symbols)
    <3>1. Elements(field) \in Seq(Seq(Symbols))
      BY <1>5, <1>6, Zenon
    <3> QED
      BY <3>1 DEF ToSet
  <2>2. validate(field) = "Ok" <=>
          /\ \A e \in found : is_blank(e) \/ validate_element(e)
          /\ \E e \in found : ~is_blank(e)
    BY <1>6, ValidateReadsElements, Zenon
  <2>3. \A e \in found : /\ is_blank(e) <=> IsBlank(e)
                         /\ validate_element(e) <=> IsExtension(e)
    BY <2>1, ElementReads, Zenon
  <2> HIDE DEF found
  <2> QED
    BY <2>2, <2>3, Zenon
<1>7. ASSUME validate(field) = "Ok" PROVE IsExtensionList(c)
  <2>1. AllSplit(field)
    BY <1>1, <1>7, Zenon DEF AllSplit, validate
  <2>2. List(found)
    BY <1>6, <1>7, <2>1, Zenon
  <2> DEFINE p == Pieces(c, "comma")
  <2>3. p \in Seq(Seq(Symbols)) /\ p = Elements(field)
    BY <1>5, <2>1, Zenon
  <2> HIDE DEF p
  <2>4. \A k \in 1..Len(p) : p[k] \in Seq(Symbols) /\ p[k] \in ToSet(p)
    BY <2>3 DEF ToSet
  <2>5. \A k \in 1..Len(p) : "comma" \notin ToSet(p[k])
    BY <2>2, <2>3, <2>4, ElementReads, Zenon
  <2>6. p = AllPieces(c, "comma")
    BY <1>2, <2>5, ClearPieces, Zenon DEF p
  <2> HIDE DEF List
  <2> QED
    BY <1>3, <2>2, <2>3, <2>6, Zenon
<1>8. ASSUME IsExtensionList(c) PROVE validate(field) = "Ok"
  <2> DEFINE p == AllPieces(c, "comma")
  <2>1. p \in Seq(Seq(Symbols))
    BY <1>2, SheetsOf, SheetTyped
  <2>2. List(ToSet(p))
    BY <1>3, <1>8, Zenon
  <2> HIDE DEF p
  <2>3. \A x \in ToSet(p) : x \in Seq(Symbols)
    BY <2>1 DEF ToSet
  <2>4. \A x \in ToSet(p) : Ending(x) = "plain"
    BY <2>2, <2>3, ElementReads, Zenon
  <2>5. "comma" # "dquote"
    OBVIOUS
  <2>6. ASSUME NEW i \in DOMAIN field PROVE elements(field[i]).error = "Ok"
    <3> DEFINE line == field[i]
               q == AllPieces(line, "comma")
    <3>1. line \in Seq(Symbols)
      BY <1>1, Zenon
    <3>2. q \in Seq(Seq(Symbols)) /\ ToSet(q) \subseteq ToSet(p)
      BY <3>1, SheetsOf, SheetTyped, LinePieces DEF p, c
    <3> HIDE DEF q, line
    <3>3. \A k \in 1..Len(q) : q[k] \in ToSet(q)
      BY <3>2 DEF ToSet
    <3>4. \A k \in 1..Len(q) : Ending(q[k]) = "plain"
      BY <2>4, <3>2, <3>3, Zenon
    <3>5. Ending(line) = "plain"
      BY <2>5, <3>1, <3>4, PlainPieces, Zenon DEF q
    <3> QED
      BY <1>4, <3>5, Zenon DEF line
  <2>7. AllSplit(field)
    BY <2>6, Zenon DEF AllSplit
  <2>8. \A k \in 1..Len(p) : p[k] \in ToSet(p)
    BY <2>1 DEF ToSet
  <2>9. Pieces(c, "comma") = p
    BY <1>2, <2>4, <2>5, <2>8, PlainPieces, Zenon DEF p
  <2>10. p = Elements(field)
    BY <1>5, <2>7, <2>9, Zenon
  <2> HIDE DEF List
  <2> QED
    BY <1>6, <2>2, <2>7, <2>10, Zenon
<1> QED
  BY <1>7, <1>8, Zenon DEF c

\* validate takes exactly the fields that are extension lists of RFC 6455 once
\* their lines are combined: whatever a host writes, neither more nor less.
THEOREM ValidateAlwaysTheGrammar == Spec => []ValidateIsTheGrammar
<1>1. ASSUME Typed PROVE ValidateIsTheGrammar
  <2>1. lines \in Seq(Seq(Symbols))
    BY <1>1, Zenon DEF Typed
  <2>2. CASE lines = <<>>
    <3>1. \A line \in ToSet(<<>>) : FALSE
      BY DEF ToSet
    <3>2. validate(lines) = "Ok"
      BY <2>2, <3>1, Zenon DEF validate
    <3> QED
      BY <2>2, <3>2, Zenon DEF ValidateIsTheGrammar
  <2>3. CASE lines # <<>>
    BY <2>1, <2>3, FieldIsTheGrammar, Zenon DEF ValidateIsTheGrammar
  <2> QED
    BY <2>2, <2>3, Zenon
<1>2. Typed => ValidateIsTheGrammar
  BY <1>1
<1> QED
  BY <1>2, TypedAlways, PTL

-----------------------------------------------------------------------------
(* Blanks at the ends.                                                      *)

\* A part of the first of two texts.
LEMMA SubOfJoin ==
  ASSUME NEW s \in Seq(Symbols), NEW v \in Seq(Symbols), NEW i \in 1..(Len(s) + 1)
  PROVE  /\ \A j \in 0..Len(s) : SubSeq(s \o v, i, j) = SubSeq(s, i, j)
         /\ SubSeq(s \o v, i, Len(s \o v)) = SubSeq(s, i, Len(s)) \o v
<1> DEFINE n == Len(s)
           w == s \o v
           m == Len(v)
<1>1. /\ n \in Nat /\ m \in Nat /\ w \in Seq(Symbols) /\ Len(w) = n + m
      /\ \A k \in 1..n : w[k] = s[k]
      /\ \A k \in 1..m : w[n + k] = v[k]
  BY JoinSeq, LenIsNat
<1> HIDE DEF w
<1>2. ASSUME NEW j \in 0..n PROVE SubSeq(w, i, j) = SubSeq(s, i, j)
  <2>1. w \in Seq(Symbols) /\ Len(w) >= n /\ Len(w) \in Nat /\ n \in Nat /\ \A k \in 1..n : w[k] = s[k]
    BY <1>1
  <2> DEFINE a == SubSeq(w, i, j)
             b == SubSeq(s, i, j)
             l == IF i <= j THEN j - (i - 1) ELSE 0
  <2>2. /\ l \in Nat /\ a \in Seq(Symbols) /\ Len(a) = l
        /\ \A k \in 1..l : a[k] = w[(i - 1) + k]
    BY <2>1
  <2>3. b \in Seq(Symbols) /\ Len(b) = l /\ \A k \in 1..l : b[k] = s[(i - 1) + k]
    BY <2>1
  <2>4. \A k \in 1..l : (i - 1) + k \in 1..n
    BY <2>1
  <2> HIDE DEF a, b, l
  <2>5. \A k \in 1..l : a[k] = b[k]
    BY <2>1, <2>2, <2>3, <2>4
  <2>6. a = b
    BY <2>2, <2>3, <2>5
  <2> QED
    BY <2>6 DEF a, b
<1>3. SubSeq(w, i, n + m) = SubSeq(s, i, n) \o v
  <2> DEFINE a == SubSeq(s, i, n)
             b == SubSeq(w, i, n + m)
             l == n - (i - 1)
             e == a \o v
  <2>1. l \in Nat
    BY <1>1
  <2>2. a \in Seq(Symbols) /\ Len(a) = l /\ \A k \in 1..l : a[k] = s[(i - 1) + k]
    BY <1>1
  <2>3. /\ b \in Seq(Symbols) /\ Len(b) = l + m
        /\ \A k \in 1..(l + m) : b[k] = w[(i - 1) + k]
    BY <1>1
  <2> HIDE DEF a, b
  <2>4. /\ e \in Seq(Symbols) /\ Len(e) = l + m /\ \A k \in 1..l : e[k] = a[k]
        /\ \A k \in 1..m : e[l + k] = v[k]
    <3> HIDE DEF m, l
    <3>0. a \in Seq(Symbols)
      BY <2>2
    <3>1. /\ e \in Seq(Symbols) /\ Len(e) = Len(a) + Len(v)
          /\ \A k \in 1..Len(a) : e[k] = a[k]
          /\ \A k \in 1..Len(v) : e[Len(a) + k] = v[k]
      BY <3>0, JoinSeq
    <3> HIDE DEF e
    <3> QED
      BY <2>2, <3>1, Zenon DEF m
  <2> HIDE DEF e
  <2>5. ASSUME NEW k \in 1..(l + m) PROVE b[k] = e[k]
    <3>1. CASE k \in 1..l
      <4>1. (i - 1) + k \in 1..n
        BY <1>1, <3>1
      <4> QED
        BY <1>1, <2>2, <2>3, <2>4, <3>1, <4>1, Zenon
    <3>2. CASE k \notin 1..l
      <4>1. k - l \in 1..m /\ l + (k - l) = k /\ (i - 1) + k = n + (k - l)
        BY <1>1, <2>1, <3>2
      <4> QED
        BY <1>1, <2>3, <2>4, <4>1, ZenonT(60)
    <3> QED
      BY <3>1, <3>2
  <2>6. b = e
    <3> HIDE DEF l
    <3> QED
      BY <1>1, <2>1, <2>3, <2>4, <2>5
  <2> QED
    BY <2>6 DEF a, b, e
<1> QED
  BY <1>1, <1>2, <1>3 DEF n, m, w

LEMMA BlankOctets ==
  ASSUME NEW v \in Seq(Symbols), IsBlank(v)
  PROVE  \A c : c # "blank" => c \notin ToSet(v)
<1>1. \A c \in ToSet(v) : c = "blank"
  BY Zenon DEF IsBlank, ToSet
<1> QED
  BY <1>1, Zenon

\* Trimming does not see blanks behind.
LEMMA TrimBehind ==
  ASSUME NEW s \in Seq(Symbols), NEW v \in Seq(Symbols), IsBlank(v)
  PROVE  trim(s \o v) = trim(s)
<1> DEFINE n == Len(s)
           w == s \o v
           m == Len(v)
<1>1. /\ n \in Nat /\ m \in Nat /\ w \in Seq(Symbols) /\ Len(w) = n + m
      /\ \A k \in 1..n : w[k] = s[k]
      /\ \A k \in 1..m : w[n + k] = v[k]
  BY JoinSeq, LenIsNat
<1>2. DOMAIN w = 1..(n + m) /\ DOMAIN s = 1..n /\ DOMAIN v = 1..m
  BY <1>1
<1>3. \A k \in (n + 1)..(n + m) : w[k] = "blank"
  <2> HIDE DEF w, n, m
  <2> SUFFICES ASSUME NEW k \in (n + 1)..(n + m) PROVE w[k] = "blank"
    OBVIOUS
  <2>1. k - n \in 1..m /\ n + (k - n) = k
    BY <1>1
  <2>2. w[k] = v[k - n]
    BY <1>1, <2>1
  <2> QED
    BY <1>2, <2>1, <2>2, Zenon DEF IsBlank
<1> HIDE DEF w, n, m
<1>4. CASE trim(s) = <<>>
  <2>1. \A k \in 1..n : s[k] = "blank"
    BY <1>2, <1>4, TrimSolid, Zenon DEF IsBlank
  <2>2. \A k \in 1..(n + m) : w[k] = "blank"
    <3> SUFFICES ASSUME NEW k \in 1..(n + m) PROVE w[k] = "blank"
      OBVIOUS
    <3>1. k \in 1..n \/ k \in (n + 1)..(n + m)
      BY <1>1
    <3> QED
      BY <1>1, <1>3, <2>1, <3>1, Zenon
  <2>3. IsBlank(w)
    BY <1>2, <2>2, Zenon DEF IsBlank
  <2> QED
    BY <1>1, <1>4, <2>3, TrimSolid, Zenon DEF w
<1>5. CASE trim(s) # <<>>
  <2>1. PICK i, j : Solid(s, i, j) /\ trim(s) = SubSeq(s, i, j)
    BY <1>5, TrimSolid, Zenon
  <2>2. /\ i \in 1..n /\ j \in i..n /\ s[i] # "blank" /\ s[j] # "blank"
        /\ \A k \in 1..n : k < i \/ k > j => s[k] = "blank"
    BY <2>1, Zenon DEF Solid, n
  <2>3. i \in 1..Len(w) /\ j \in i..Len(w) /\ w[i] = s[i] /\ w[j] = s[j]
    BY <1>1, <2>2
  <2>4. \A k \in 1..Len(w) : k < i \/ k > j => w[k] = "blank"
    <3> SUFFICES ASSUME NEW k \in 1..(n + m), k < i \/ k > j PROVE w[k] = "blank"
      BY <1>1
    <3>1. k \in 1..n \/ k \in (n + 1)..(n + m)
      BY <1>1
    <3> QED
      BY <1>1, <1>3, <2>2, <3>1, Zenon
  <2>5. Solid(w, i, j)
    BY <2>2, <2>3, <2>4, Zenon DEF Solid
  <2>6. trim(w) = SubSeq(w, i, j)
    BY <1>1, <2>5, TrimIs, Zenon
  <2>7. i \in 1..(n + 1) /\ j \in 0..n
    BY <1>1, <2>2
  <2>8. SubSeq(w, i, j) = SubSeq(s, i, j)
    BY <2>7, SubOfJoin, Zenon DEF n, w
  <2> QED
    BY <2>1, <2>6, <2>8, Zenon DEF w
<1> QED
  BY <1>4, <1>5, Zenon

\* A text with no blank at its ends is trimmed.
LEMMA TrimTight ==
  ASSUME NEW s \in Seq(Symbols), s # <<>>, s[1] # "blank", s[Len(s)] # "blank"
  PROVE  trim(s) = s
<1> DEFINE n == Len(s)
<1>1. n \in Nat /\ 1 \in 1..n /\ n \in 1..n /\ SubSeq(s, 1, n) = s
  OBVIOUS
<1>2. \A k \in 1..n : ~(k < 1) /\ ~(k > n)
  BY <1>1
<1>3. Solid(s, 1, n)
  BY <1>1, <1>2, Zenon DEF Solid, n
<1> QED
  BY <1>1, <1>3, TrimIs, Zenon DEF n

\* Nor does reading a parameter see blanks behind.
LEMMA SplitBehind ==
  ASSUME NEW s \in Seq(Symbols), NEW v \in Seq(Symbols), IsBlank(v)
  PROVE  LET p == split_parameter(s)
             q == split_parameter(s \o v)
         IN /\ q.name = p.name /\ (q.valued <=> p.valued)
            /\ p.valued => trim(q.value) = trim(p.value)
<1> DEFINE w == s \o v
<1>1. /\ w \in Seq(Symbols) /\ ToSet(w) = ToSet(s) \cup ToSet(v)
      /\ \A k \in 1..Len(s) : w[k] = s[k]
      /\ Len(w) = Len(s) + Len(v) /\ Len(s) \in Nat /\ Len(v) \in Nat
  BY JoinSeq, TextJoin, LenIsNat
<1>2. "equals" \notin ToSet(v)
  <2>1. "equals" # "blank"
    OBVIOUS
  <2> QED
    BY <2>1, BlankOctets, Zenon
<1> HIDE DEF w
<1>3. CASE "equals" \notin ToSet(s)
  <2>1. "equals" \notin ToSet(w)
    BY <1>1, <1>2, <1>3
  <2>2. trim(w) = trim(s)
    BY TrimBehind, Zenon DEF w
  <2> QED
    BY <1>1, <1>3, <2>1, <2>2, SplitParameterIs, Zenon DEF w
<1>4. CASE "equals" \in ToSet(s)
  <2>1. PICK e : First(s, e)
    BY <1>4, FirstExists, Zenon
  <2>2. e \in 1..Len(s) /\ s[e] = "equals" /\ \A k \in 1..(e - 1) : s[k] # "equals"
    BY <2>1, Zenon DEF First
  <2>3. /\ e \in 1..Len(w) /\ w[e] = "equals" /\ \A k \in 1..(e - 1) : w[k] # "equals"
    <3> HIDE DEF First
    <3> QED
      BY <1>1, <2>2, SMTT(60)
  <2>4. /\ split_parameter(s).name = trim(SubSeq(s, 1, e - 1))
        /\ split_parameter(s).valued
        /\ split_parameter(s).value = SubSeq(s, e + 1, Len(s))
    BY <2>2, SplitParameterIs, Zenon
  <2>5. /\ split_parameter(w).name = trim(SubSeq(w, 1, e - 1))
        /\ split_parameter(w).valued
        /\ split_parameter(w).value = SubSeq(w, e + 1, Len(w))
    BY <1>1, <2>3, SplitParameterIs, Zenon
  <2>6. SubSeq(w, 1, e - 1) = SubSeq(s, 1, e - 1)
    <3>1. 1 \in 1..(Len(s) + 1) /\ e - 1 \in 0..Len(s)
      BY <1>1, <2>2
    <3> QED
      BY <3>1, SubOfJoin, Zenon DEF w
  <2> DEFINE a == SubSeq(s, e + 1, Len(s))
  <2>7. SubSeq(w, e + 1, Len(w)) = a \o v
    <3>1. e + 1 \in 1..(Len(s) + 1)
      BY <1>1, <2>2
    <3> QED
      BY <3>1, SubOfJoin, Zenon DEF w
  <2>8. a \in Seq(Symbols)
    BY <2>2, CutAt
  <2> HIDE DEF a
  <2>9. trim(a \o v) = trim(a)
    BY <2>8, TrimBehind, Zenon
  <2> QED
    BY <2>4, <2>5, <2>6, <2>7, <2>9, Zenon DEF w, a
<1> QED
  BY <1>3, <1>4, Zenon

LEMMA SettingBehind ==
  ASSUME NEW s \in Seq(Symbols), NEW v \in Seq(Symbols), IsBlank(v)
  PROVE  Setting(s \o v) = Setting(s)
<1> DEFINE p == split_parameter(s)
           q == split_parameter(s \o v)
<1>1. /\ q.name = p.name /\ (q.valued <=> p.valued)
      /\ p.valued => parse_bits(q.value) = parse_bits(p.value)
  BY SplitBehind, Zenon DEF parse_bits
<1> DEFINE Set(r) == IF r.name \notin Names THEN Err("UnknownParameter")
     ELSE IF Head(r.name) \in Flags
          THEN IF r.valued THEN Err("ParameterArity") ELSE Ok(TRUE)
     ELSE IF r.valued THEN parse_bits(r.value)
     ELSE IF Head(r.name) = "server_max_window_bits" THEN Err("ParameterArity")
     ELSE Ok(Abstract!Valueless)
<1>2. Setting(s) = Set(p) /\ Setting(s \o v) = Set(q)
  BY Zenon DEF Setting
<1> HIDE DEF p, q
<1>3. Set(q) = Set(p)
  <2>1. CASE p.valued
    BY <1>1, <2>1
  <2>2. CASE ~p.valued
    BY <1>1, <2>2
  <2> QED
    BY <2>1, <2>2
<1> HIDE DEF Set
<1> QED
  BY <1>2, <1>3, Zenon

-----------------------------------------------------------------------------
(* Pieces of longer texts.                                                  *)

\* Without quotes every delimiter cuts.
LEMMA UnquotedPieces ==
  ASSUME NEW s \in Seq(Symbols), NEW d, "dquote" \notin ToSet(s)
  PROVE  Pieces(s, d) = AllPieces(s, d) /\ Ending(s) = "plain"
<1> DEFINE S == {t \in Seq(Symbols) : "dquote" \notin ToSet(t) => Pieces(t, d) = AllPieces(t, d)}
<1>1. <<>> \in S
  <2>1. <<>> \in Seq(Symbols)
    OBVIOUS
  <2>2. Pieces(<<>>, d) = AllPieces(<<>>, d)
    BY NoPiecesYet, Zenon
  <2> QED
    BY <2>1, <2>2, Zenon
<1>2. ASSUME NEW t \in Seq(Symbols), NEW c \in Symbols, t \in S PROVE Append(t, c) \in S
  <2> DEFINE u == Append(t, c)
  <2>1. u \in Seq(Symbols) /\ ToSet(u) = ToSet(t) \cup {c}
    BY AppendSeq, AppendElements
  <2> HIDE DEF u
  <2>2. ASSUME "dquote" \notin ToSet(u) PROVE Pieces(u, d) = AllPieces(u, d)
    <3>1. "dquote" \notin ToSet(t)
      BY <2>1, <2>2
    <3>2. Pieces(t, d) = AllPieces(t, d) /\ Ending(t) = "plain"
      BY <1>2, <3>1, UnquotedEnding, Zenon
    <3>3. CASE c = d
      <4>1. Pieces(u, d) = Append(Pieces(t, d), <<>>)
        BY <3>2, <3>3, PiecesStep, Zenon DEF u
      <4>2. AllPieces(u, d) = Append(AllPieces(t, d), <<>>)
        BY <3>3, AllPiecesStep, Zenon DEF u
      <4> QED
        BY <3>2, <4>1, <4>2, Zenon
    <3>4. CASE c # d
      <4>1. Pieces(u, d) = Extend(Pieces(t, d), c)
        BY <3>4, PiecesStep, Zenon DEF u
      <4>2. AllPieces(u, d) = Extend(AllPieces(t, d), c)
        BY <3>4, AllPiecesStep, Zenon DEF u
      <4> QED
        BY <3>2, <4>1, <4>2, Zenon
    <3> QED
      BY <3>3, <3>4, Zenon
  <2> QED
    BY <2>1, <2>2, Zenon DEF u
<1> HIDE DEF S
<1>3. s \in S
  BY <1>1, <1>2, SeqInduction, Zenon
<1> QED
  BY <1>3, UnquotedEnding, Zenon DEF S

\* What has no delimiter goes on the last piece.
LEMMA LastPiece ==
  ASSUME NEW s \in Seq(Symbols), NEW v \in Seq(Symbols), NEW d, d \notin ToSet(v)
  PROVE  LET p == AllPieces(s, d)
             q == AllPieces(s \o v, d)
         IN /\ Len(q) = Len(p) /\ q[Len(p)] = p[Len(p)] \o v
            /\ \A k \in 1..Len(p) : k # Len(p) => q[k] = p[k]
<1> DEFINE p == AllPieces(s, d)
           n == Len(p)
           Grows(q, t) == /\ Len(q) = n /\ q[n] = p[n] \o t
                          /\ \A k \in 1..n : k # n => q[k] = p[k]
           S == {t \in Seq(Symbols) : d \notin ToSet(t) => Grows(AllPieces(s \o t, d), t)}
<1>0. p \in Sheets /\ n \in 1..n /\ p[n] \in Seq(Symbols)
  BY SheetsOf, SheetTyped
<1> HIDE DEF p, n
<1>1. <<>> \in S
  <2>1. <<>> \in Seq(Symbols)
    OBVIOUS
  <2>2. s \o <<>> = s /\ p[n] \o <<>> = p[n]
    BY <1>0, JoinEmpty
  <2>3. Grows(p, <<>>)
    BY <2>2, Zenon DEF n
  <2> HIDE DEF Grows
  <2> QED
    BY <2>1, <2>2, <2>3, Zenon DEF p
<1>2. ASSUME NEW t \in Seq(Symbols), NEW c \in Symbols, t \in S PROVE Append(t, c) \in S
  <2> DEFINE u == Append(t, c)
             q == AllPieces(s \o t, d)
             r == AllPieces(s \o u, d)
  <2>1. u \in Seq(Symbols) /\ ToSet(u) = ToSet(t) \cup {c}
    BY AppendSeq, AppendElements
  <2>2. s \o t \in Seq(Symbols) /\ s \o u = Append(s \o t, c) /\ p[n] \o u = Append(p[n] \o t, c)
    <3>1. s \o t \in Seq(Symbols)
      BY TextJoin
    <3>2. s \o Append(t, c) = Append(s \o t, c)
      BY JoinAppend, SMTT(30)
    <3> DEFINE last == p[n]
    <3>3. last \o Append(t, c) = Append(last \o t, c)
      <4>1. last \in Seq(Symbols)
        BY <1>0
      <4> HIDE DEF last
      <4> QED
        BY <4>1, JoinAppend, SMTT(30)
    <3> QED
      BY <3>1, <3>2, <3>3
  <2> HIDE DEF u
  <2>3. ASSUME d \notin ToSet(u) PROVE Grows(r, u)
    <3>1. d \notin ToSet(t) /\ c # d
      BY <2>1, <2>3
    <3>2. Grows(q, t)
      BY <1>2, <3>1, Zenon
    <3>3. r = Extend(q, c) /\ q \in Sheets
      <4>1. AllPieces(Append(s \o t, c), d) = Extend(AllPieces(s \o t, d), c)
        BY <2>2, <3>1, AllPiecesStep, Zenon
      <4> QED
        BY <2>2, <4>1, SheetsOf, Zenon
    <3> HIDE DEF q, r
    <3>4. /\ Len(r) = Len(q) /\ r[Len(q)] = Append(q[Len(q)], c)
          /\ \A k \in 1..Len(q) : k # Len(q) => r[k] = q[k]
      BY <3>3, ExtendDoes, Zenon
    <3> QED
      BY <2>2, <3>2, <3>4, Zenon
  <2> HIDE DEF Grows
  <2> QED
    BY <2>1, <2>3, Zenon DEF u
<1> HIDE DEF S
<1>3. v \in S
  BY <1>1, <1>2, SeqInduction, Zenon
<1> QED
  BY <1>3, Zenon DEF S, p, n

-----------------------------------------------------------------------------
(* What a client writes.                                                    *)

LEMMA DigitsAre ==
  /\ Digits \in Seq(Symbols) /\ Len(Digits) = 10 /\ DOMAIN Digits = 1..10
  /\ \A i, j \in 1..10 : Digits[i] = Digits[j] => i = j
  /\ \A i \in 1..10 : Digits[i] \notin {"dquote", "comma", "semicolon", "equals", "blank"}
<1>1. Len(Digits) = 10 /\ DOMAIN Digits = 1..10
  BY DEF Digits
<1>2. ASSUME NEW i \in 1..10, NEW j \in 1..10, Digits[i] = Digits[j] PROVE i = j
  BY <1>2, SMTT(60) DEF Digits
<1>3. ASSUME NEW i \in 1..10 PROVE Digits[i] \notin {"dquote", "comma", "semicolon", "equals", "blank"}
  BY <1>3, SMTT(60) DEF Digits
<1>4. Digits \in Seq(Symbols)
  <2>1. \A i \in 1..10 : Digits[i] \in Symbols
    BY NamesAreSymbols
  <2>2. Digits = [i \in 1..10 |-> Digits[i]]
    BY DEF Digits
  <2> DEFINE d == Digits
  <2>3. d = [i \in 1..10 |-> d[i]] /\ \A i \in 1..10 : d[i] \in Symbols
    BY <2>1, <2>2
  <2> HIDE DEF d
  <2>4. d \in Seq(Symbols)
    BY <2>3
  <2> QED
    BY <2>4 DEF d
<1> QED
  BY <1>1, <1>2, <1>3, <1>4

LEMMA DigitIs ==
  ASSUME NEW m \in 0..9
  PROVE  Value(Digits[m + 1]) = m /\ IsDigit(Digits[m + 1])
<1>1. m + 1 \in 1..10
  OBVIOUS
<1>2. \A k \in 0..9 : Digits[k + 1] = Digits[m + 1] => k = m
  <2> SUFFICES ASSUME NEW k \in 0..9, Digits[k + 1] = Digits[m + 1] PROVE k = m
    OBVIOUS
  <2>1. k + 1 \in 1..10
    OBVIOUS
  <2>2. k + 1 = m + 1
    BY <1>1, <2>1, DigitsAre, Zenon
  <2> QED
    BY <2>2
<1>3. Value(Digits[m + 1]) = m
  <2> DEFINE P(k) == Digits[k + 1] = Digits[m + 1]
  <2>1. \A k \in 0..9 : P(k) => k = m
    BY <1>2
  <2>2. P(m) /\ Value(Digits[m + 1]) = CHOOSE k \in 0..9 : P(k)
    BY DEF Value
  <2> HIDE DEF P
  <2> QED
    BY <2>1, <2>2
<1>4. Digits[m + 1] \in ToSet(Digits)
  BY <1>1, DigitsAre, Zenon DEF ToSet
<1> QED
  BY <1>3, <1>4 DEF IsDigit

\* A number of one or two digits is what they say.
LEMMA ShortNumber ==
  ASSUME NEW t \in Seq(Symbols), Len(t) \in 1..2, NEW a \in 0..9, NEW b \in 0..9,
         Value(t[1]) = a, Len(t) = 2 => Value(t[2]) = b
  PROVE  Number(t) = IF Len(t) = 1 THEN a ELSE a * 10 + b
<1> DEFINE n == Len(t)
           Adds(x, i) == Min({x * 10 + Value(t[i]), U8_MAX + 1})
           Is(f) == f = [i \in 0..n |-> IF i = 0 THEN 0 ELSE Adds(f[i - 1], i)]
           w == [i \in 0..n |-> IF i = 0 THEN 0 ELSE IF i = 1 THEN a ELSE a * 10 + b]
           total == CHOOSE f : Is(f)
<1>1. Number(t) = total[n]
  BY Zenon DEF Number
<1>2. ASSUME NEW x \in 0..256 PROVE Min({x, 256}) = x
  <2>1. {x, 256} \in SUBSET Nat /\ x \in {x, 256} /\ \A y \in {x, 256} : x <= y
    OBVIOUS
  <2> QED
    BY <2>1, MinIs, ZenonT(60)
<1>3. U8_MAX + 1 = 256
  BY DEF U8_MAX
<1>4. Adds(0, 1) = a
  <2>1. 0 * 10 + Value(t[1]) = a /\ a \in 0..256
    OBVIOUS
  <2>2. Min({0 * 10 + Value(t[1]), U8_MAX + 1}) = Min({a, 256})
    BY <1>3, <2>1, Zenon
  <2>3. Min({a, 256}) = a
    BY <1>2, <2>1, ZenonT(60)
  <2> QED
    BY <2>2, <2>3, Zenon
<1>5. n = 2 => Adds(a, 2) = a * 10 + b
  <2>1. n = 2 => a * 10 + Value(t[2]) = a * 10 + b
    OBVIOUS
  <2> DEFINE c == a * 10 + b
  <2>2. c \in 0..256
    OBVIOUS
  <2>3. ASSUME n = 2 PROVE Min({a * 10 + Value(t[2]), U8_MAX + 1}) = Min({c, 256})
    BY <1>3, <2>1, <2>3, Zenon
  <2> HIDE DEF c
  <2>4. Min({c, 256}) = c
    BY <1>2, <2>2, ZenonT(60)
  <2> QED
    BY <2>3, <2>4, Zenon DEF c
<1> HIDE DEF Adds
<1>6. Is(w)
  <2>1. n = 1 \/ n = 2
    OBVIOUS
  <2> DEFINE L(i) == IF i = 0 THEN 0 ELSE IF i = 1 THEN a ELSE a * 10 + b
             R(i) == IF i = 0 THEN 0 ELSE Adds(w[i - 1], i)
  <2>2. ASSUME NEW i \in 0..n PROVE L(i) = R(i)
    <3>1. CASE i = 0
      BY <3>1
    <3>2. CASE i = 1
      <4>1. w[i - 1] = 0
        BY <3>2
      <4> QED
        BY <1>4, <3>2, <4>1
    <3>3. CASE i = 2 /\ n = 2
      <4>1. w[i - 1] = a /\ ~(i = 0) /\ ~(i = 1)
        BY <3>3
      <4>2. R(i) = Adds(a, 2)
        BY <3>3, <4>1, Zenon
      <4>3. L(i) = a * 10 + b
        BY <4>1, Zenon
      <4> QED
        BY <1>5, <3>3, <4>2, <4>3, Zenon
    <3> HIDE DEF L, R, w, n
    <3>4. i = 0 \/ i = 1 \/ (i = 2 /\ n = 2)
      <4>1. i \in 0..n
        OBVIOUS
      <4> QED
        BY <2>1, <4>1, SMTT(20)
    <3> QED
      BY <3>1, <3>2, <3>3, <3>4, Zenon
  <2> QED
    BY <2>2
<1>7. Is(total)
  <2> HIDE DEF Is, w
  <2> QED
    BY <1>6
<1> HIDE DEF total
<1>8. total[0] = 0 /\ total[1] = a /\ (n = 2 => total[2] = a * 10 + b)
  <2>1. /\ total[0] = 0 /\ total[1] = Adds(total[0], 1)
        /\ n = 2 => total[2] = Adds(total[1], 2)
    BY <1>7
  <2> QED
    BY <1>4, <1>5, <2>1
<1>9. n = 1 \/ (n = 2 /\ 2 # 1)
  OBVIOUS
<1> QED
  BY <1>1, <1>8, <1>9, Zenon

\* How a width is written, and that it reads as itself.
LEMMA WireFormIs ==
  ASSUME NEW n \in Abstract!WireBits
  PROVE  LET t == WireForm(n)
         IN /\ t \in Seq(Symbols) /\ Len(t) \in 1..2
            /\ \A i \in 1..Len(t) :
                 IsDigit(t[i]) /\ t[i] \notin {"dquote", "comma", "semicolon", "equals", "blank"}
            /\ Len(t) > 1 => t[1] # "0"
            /\ Number(t) = n
<1> DEFINE t == WireForm(n)
<1>1. n \in Int /\ n >= 8 /\ n <= 15
  BY DEF Abstract!WireBits
<1>2. t \in Seq(Symbols)
  BY WireFormTyped
<1>3. CASE n < 10
  <2> DEFINE c == Digits[n + 1]
  <2>1. n \in 0..9 /\ n + 1 \in 1..10
    BY <1>1, <1>3
  <2>2. t = <<c>>
    BY <1>3 DEF WireForm
  <2>3. /\ Value(c) = n /\ IsDigit(c)
        /\ c \notin {"dquote", "comma", "semicolon", "equals", "blank"}
    BY <2>1, DigitIs, DigitsAre, Zenon
  <2> HIDE DEF c, t
  <2>4. Len(t) = 1 /\ t[1] = c
    BY <2>2
  <2>5. Number(t) = n
    <3>1. Len(t) \in 1..2 /\ Value(t[1]) = n /\ Len(t) # 2
      BY <2>3, <2>4
    <3> QED
      BY <1>2, <2>1, <2>4, <3>1, ShortNumber
  <2>6. ASSUME NEW i \in 1..Len(t) PROVE t[i] = c
    <3>1. i = 1
      BY <2>4
    <3> QED
      BY <2>4, <3>1
  <2>7. Len(t) \in 1..2 /\ ~(Len(t) > 1)
    BY <2>4
  <2> QED
    BY <1>2, <2>3, <2>5, <2>6, <2>7, Zenon DEF t
<1>4. CASE ~(n < 10)
  <2> DEFINE c == Digits[n - 9]
             one == Digits[2]
  <2>1. n - 10 \in 0..9 /\ (n - 10) + 1 = n - 9 /\ n - 9 \in 1..10 /\ 2 \in 1..10 /\ 1 + 1 = 2 /\ 1 \in 0..9
        /\ 1 * 10 + (n - 10) = n
    BY <1>1, <1>4
  <2>2. t = <<one, c>> /\ one # "0"
    BY <1>4 DEF WireForm, Digits
  <2>3. /\ Value(c) = n - 10 /\ IsDigit(c)
        /\ c \notin {"dquote", "comma", "semicolon", "equals", "blank"}
    <3>1. Value(Digits[(n - 10) + 1]) = n - 10 /\ IsDigit(Digits[(n - 10) + 1])
      BY <2>1, DigitIs, Zenon
    <3> QED
      BY <2>1, <3>1, DigitsAre, Zenon
  <2>4. /\ Value(one) = 1 /\ IsDigit(one)
        /\ one \notin {"dquote", "comma", "semicolon", "equals", "blank"}
    <3>1. Value(Digits[1 + 1]) = 1 /\ IsDigit(Digits[1 + 1])
      BY <2>1, DigitIs, Zenon
    <3> QED
      BY <2>1, <3>1, DigitsAre, Zenon
  <2> HIDE DEF c, one, t
  <2>5. Len(t) = 2 /\ t[1] = one /\ t[2] = c
    BY <2>2
  <2>6. Number(t) = n
    <3>1. Len(t) \in 1..2 /\ Value(t[1]) = 1 /\ Value(t[2]) = n - 10 /\ Len(t) # 1
      BY <2>3, <2>4, <2>5
    <3>2. Number(t) = IF Len(t) = 1 THEN 1 ELSE 1 * 10 + (n - 10)
      BY <1>2, <2>1, <3>1, ShortNumber
    <3> QED
      BY <2>1, <3>1, <3>2
  <2>7. ASSUME NEW i \in 1..Len(t) PROVE t[i] = one \/ t[i] = c
    <3>1. i = 1 \/ i = 2
      BY <2>5
    <3> QED
      BY <2>5, <3>1
  <2>8. Len(t) \in 1..2
    BY <2>5
  <2> QED
    BY <1>2, <2>2, <2>3, <2>4, <2>5, <2>6, <2>7, <2>8, Zenon DEF t
<1> QED
  BY <1>3, <1>4

Values == Abstract!WireBits \cup {Abstract!Valueless}

\* What follows the semicolon of a rendered parameter.
Body(name, value) ==
  IF value = Abstract!Valueless THEN <<"blank", name>>
  ELSE <<"blank", name, "equals">> \o WireForm(value)

LEMMA NamesAre ==
  ASSUME NEW name \in Flags \cup Windows \cup {NAME}
  PROVE  name \in Symbols /\ name \notin {"dquote", "comma", "semicolon", "equals", "blank"}
<1>1. name \in Symbols
  BY NamesAreSymbols
<1> QED
  BY <1>1, SMTT(30) DEF NAME, Flags, Windows, Abstract!NAME, Abstract!Flags, Abstract!Windows

LEMMA WidthsAre ==
  ASSUME NEW value \in Values
  PROVE  value # Abstract!Valueless => value \in Abstract!WireBits
BY DEF Values

LEMMA BodyTyped ==
  ASSUME NEW name \in Flags \cup Windows, NEW value \in Values
  PROVE  Body(name, value) \in Seq(Symbols) /\ Parameter(name, value) = <<"semicolon">> \o Body(name, value)
<1> DEFINE semicolon == <<"semicolon">>
           lead == <<"blank", name>>
           equals == <<"equals">>
           both == <<"semicolon", "blank", name>>
           all == <<"blank", name, "equals">>
           digits == WireForm(value)
<1>1. /\ semicolon \in Seq(Symbols) /\ lead \in Seq(Symbols) /\ equals \in Seq(Symbols)
      /\ both \in Seq(Symbols) /\ all \in Seq(Symbols)
      /\ both = semicolon \o lead /\ all = lead \o equals
  BY NamesAreSymbols
<1>2. /\ Parameter(name, value) = both \o (IF value = Abstract!Valueless THEN <<>> ELSE equals \o digits)
      /\ Body(name, value) = IF value = Abstract!Valueless THEN lead ELSE all \o digits
  BY DEF Parameter, Body
<1> HIDE DEF semicolon, lead, equals, both, all, digits
<1>3. CASE value = Abstract!Valueless
  <2>1. both \o <<>> = both
    BY <1>1, JoinEmpty
  <2> QED
    BY <1>1, <1>2, <1>3, <2>1, Zenon DEF semicolon
<1>4. CASE value # Abstract!Valueless
  <2>0. semicolon \in Seq(Symbols) /\ lead \in Seq(Symbols) /\ equals \in Seq(Symbols)
    BY <1>1
  <2>1. digits \in Seq(Symbols)
    BY <1>4, WidthsAre, WireFormTyped, Zenon DEF digits
  <2>2. equals \o digits \in Seq(Symbols) /\ all \o digits \in Seq(Symbols)
    BY <1>1, <2>1, TextJoin
  <2> DEFINE rest == equals \o digits
  <2> HIDE DEF rest
  <2>3. (semicolon \o lead) \o rest = semicolon \o (lead \o rest)
    <3>1. rest \in Seq(Symbols)
      BY <2>2 DEF rest
    <3> QED
      BY <2>0, <3>1, TextAssoc, ZenonT(60)
  <2>4. (lead \o equals) \o digits = lead \o (equals \o digits)
    BY <2>0, <2>1, TextAssoc, ZenonT(60)
  <2> QED
    BY <1>1, <1>2, <1>4, <2>2, <2>3, <2>4, Zenon DEF semicolon, rest
<1> QED
  BY <1>3, <1>4, Zenon

\* The name of a rendered parameter, and the digits behind it.
LEMMA BodyIs ==
  ASSUME NEW name \in Flags \cup Windows, NEW value \in Values
  PROVE  LET b == Body(name, value)
             p == split_parameter(b)
         IN /\ \A c \in ToSet(b) : c \notin {"dquote", "comma", "semicolon"}
            /\ b # <<>> /\ b[Len(b)] # "blank"
            /\ p.name = <<name>> /\ (p.valued <=> value # Abstract!Valueless)
            /\ value # Abstract!Valueless => p.value = WireForm(value)
<1> DEFINE b == Body(name, value)
           lead == <<"blank", name>>
           all == <<"blank", name, "equals">>
           digits == WireForm(value)
           one == <<name>>
<1>1. b \in Seq(Symbols)
  BY BodyTyped, Zenon
<1>2. /\ name \in Symbols /\ name \notin {"dquote", "comma", "semicolon", "equals", "blank"}
  BY NamesAre, Zenon
<1>3. /\ lead \in Seq(Symbols) /\ Len(lead) = 2 /\ lead[1] = "blank" /\ lead[2] = name
      /\ SubSeq(lead, 2, 2) = one
      /\ ToSet(lead) = {"blank", name}
  <2>1. ToSet(lead) = {"blank", name}
    BY DEF ToSet
  <2>2. lead \in Seq(Symbols) /\ Len(lead) = 2 /\ lead[1] = "blank" /\ lead[2] = name
    BY <1>2, NamesAreSymbols
  <2>3. one \in Seq(Symbols) /\ Len(one) = 1 /\ one[1] = name
    BY <1>2
  <2> DEFINE x == SubSeq(lead, 2, 2)
  <2> HIDE DEF lead, one
  <2>4. x \in Seq(Symbols) /\ Len(x) = 1 /\ x[1] = name
    BY <2>2
  <2> HIDE DEF x
  <2>5. x = one
    BY <2>3, <2>4
  <2> QED
    BY <2>1, <2>2, <2>5, Zenon DEF x
<1>4. /\ all \in Seq(Symbols) /\ Len(all) = 3
      /\ all[1] = "blank" /\ all[2] = name /\ all[3] = "equals"
      /\ SubSeq(all, 1, 2) = lead /\ SubSeq(all, 4, 3) = <<>>
      /\ ToSet(all) = {"blank", name, "equals"}
  <2>1. ToSet(all) = {"blank", name, "equals"}
    BY DEF ToSet
  <2>2. /\ all \in Seq(Symbols) /\ Len(all) = 3
        /\ all[1] = "blank" /\ all[2] = name /\ all[3] = "equals"
    BY <1>2, NamesAreSymbols
  <2> DEFINE x == SubSeq(all, 1, 2)
             y == SubSeq(all, 4, 3)
  <2> HIDE DEF all, lead
  <2>3. x \in Seq(Symbols) /\ Len(x) = 2 /\ x[1] = "blank" /\ x[2] = name /\ y = <<>>
    BY <2>2
  <2> HIDE DEF x
  <2>4. x = lead
    BY <1>3, <2>3
  <2> QED
    BY <2>1, <2>2, <2>3, <2>4, Zenon DEF x
<1>5. trim(lead) = one
  <2>1. 2 \in 1..Len(lead) /\ 2 \in 2..Len(lead) /\ lead[2] # "blank"
        /\ \A k \in 1..Len(lead) : k < 2 \/ k > 2 => lead[k] = "blank"
    BY <1>2, <1>3
  <2>2. Solid(lead, 2, 2)
    BY <2>1, Zenon DEF Solid
  <2> HIDE DEF lead
  <2> QED
    BY <1>3, <2>2, TrimIs, Zenon
<1>6. b = IF value = Abstract!Valueless THEN lead ELSE all \o digits
  BY DEF Body
<1> HIDE DEF b, lead, all, digits, one
<1>7. CASE value = Abstract!Valueless
  <2>1. b = lead
    BY <1>6, <1>7, Zenon
  <2>2. "equals" \notin ToSet(b)
    BY <1>2, <1>3, <2>1
  <2>3. split_parameter(b).name = one /\ ~split_parameter(b).valued
    BY <1>1, <1>5, <2>1, <2>2, SplitParameterIs, Zenon
  <2>4. \A c \in ToSet(b) : c \notin {"dquote", "comma", "semicolon"}
    BY <1>2, <1>3, <2>1
  <2>5. b # <<>> /\ b[Len(b)] # "blank"
    <3>1. Len(lead) = 2 /\ lead # <<>> /\ lead[2] # "blank"
      BY <1>2, <1>3
    <3> QED
      BY <2>1, <3>1, Zenon
  <2> QED
    BY <1>7, <2>3, <2>4, <2>5, Zenon DEF b, one
<1>8. CASE value # Abstract!Valueless
  <2>1. b = all \o digits
    BY <1>6, <1>8, Zenon
  <2>2. /\ digits \in Seq(Symbols) /\ Len(digits) \in 1..2
        /\ \A i \in 1..Len(digits) :
             digits[i] \notin {"dquote", "comma", "semicolon", "equals", "blank"}
    BY <1>8, WidthsAre, WireFormIs, Zenon DEF digits
  <2>3. /\ Len(b) = 3 + Len(digits) /\ b[1] = "blank" /\ b[2] = name /\ b[3] = "equals"
        /\ \A i \in 1..Len(digits) : b[3 + i] = digits[i]
    <3>1. /\ Len(all \o digits) = Len(all) + Len(digits)
          /\ \A i \in 1..Len(all) : (all \o digits)[i] = all[i]
          /\ \A i \in 1..Len(digits) : (all \o digits)[Len(all) + i] = digits[i]
      <4>1. all \in Seq(Symbols) /\ digits \in Seq(Symbols)
        BY <1>4, <2>2
      <4> QED
        BY <4>1, JoinSeq
    <3>2. 1 \in 1..Len(all) /\ 2 \in 1..Len(all) /\ 3 \in 1..Len(all)
      BY <1>4
    <3> QED
      BY <1>4, <2>1, <3>1, <3>2, Zenon
  <2>4. b # <<>> /\ b[Len(b)] # "blank"
    <3>1. Len(digits) \in 1..Len(digits) /\ Len(b) # 0
      BY <2>2, <2>3, SMTT(60)
    <3>2. b[3 + Len(digits)] # "blank"
      BY <2>2, <2>3, <3>1
    <3> QED
      BY <2>3, <3>1, <3>2
  <2>5. 3 \in 1..Len(b) /\ b[3] = "equals" /\ \A k \in 1..(3 - 1) : b[k] # "equals"
    <3>1. "blank" # "equals" /\ name # "equals" /\ \A k \in 1..(3 - 1) : k = 1 \/ k = 2
      BY <1>2
    <3>2. 3 \in 1..Len(b)
      BY <2>2, <2>3
    <3> QED
      BY <2>3, <3>1, <3>2, Zenon
  <2>6. /\ split_parameter(b).name = trim(SubSeq(b, 1, 3 - 1))
        /\ split_parameter(b).valued
        /\ split_parameter(b).value = SubSeq(b, 3 + 1, Len(b))
    BY <1>1, <2>5, SplitParameterIs, Zenon
  <2>7. SubSeq(b, 1, 3 - 1) = lead /\ SubSeq(b, 3 + 1, Len(b)) = digits
    <3>1. 1 \in 1..(Len(all) + 1) /\ 2 \in 0..Len(all) /\ 4 \in 1..(Len(all) + 1)
          /\ 3 - 1 = 2 /\ 3 + 1 = 4
      BY <1>4
    <3>2. SubSeq(all \o digits, 1, 2) = SubSeq(all, 1, 2)
      BY <1>4, <2>2, <3>1, SubOfJoin, ZenonT(60)
    <3>3. SubSeq(all \o digits, 4, Len(all \o digits)) = SubSeq(all, 4, Len(all)) \o digits
      BY <1>4, <2>2, <3>1, SubOfJoin, Zenon
    <3>4. SubSeq(all, 4, Len(all)) = <<>> /\ <<>> \o digits = digits
      BY <1>4, <2>2, JoinEmpty
    <3> QED
      BY <1>4, <2>1, <3>1, <3>2, <3>3, <3>4, Zenon
  <2>8. \A c \in ToSet(b) : c \notin {"dquote", "comma", "semicolon"}
    <3>1. ToSet(b) = ToSet(all) \cup ToSet(digits)
      BY <1>4, <2>1, <2>2, TextJoin
    <3>2. \A c \in ToSet(digits) : c \notin {"dquote", "comma", "semicolon"}
      <4>1. \A c \in ToSet(digits) : \E i \in 1..Len(digits) : c = digits[i]
        BY <2>2 DEF ToSet
      <4> QED
        BY <2>2, <4>1
    <3> QED
      BY <1>2, <1>4, <3>1, <3>2
  <2> QED
    BY <1>5, <1>8, <2>4, <2>6, <2>7, <2>8, Zenon DEF b, one, digits
<1> QED
  BY <1>7, <1>8, Zenon

\* The digits of a width parse as the width.
LEMMA BitsOfWidth ==
  ASSUME NEW n \in Abstract!WireBits
  PROVE  parse_bits(WireForm(n)) = Ok(n)
<1> DEFINE t == WireForm(n)
<1>1. /\ t \in Seq(Symbols) /\ Len(t) \in 1..2
      /\ \A i \in 1..Len(t) : IsDigit(t[i]) /\ t[i] \notin {"dquote", "comma", "semicolon", "equals", "blank"}
      /\ Len(t) > 1 => t[1] # "0"
      /\ Number(t) = n
  BY WireFormIs, Zenon
<1> HIDE DEF t
<1>2. /\ t # <<>> /\ 1 \in 1..Len(t) /\ Len(t) \in 1..Len(t) /\ Head(t) = t[1] /\ DOMAIN t = 1..Len(t)
  BY <1>1
<1>3. t[1] \notin {"dquote", "blank"} /\ t[Len(t)] # "blank"
  BY <1>1, <1>2
<1>4. trim(t) = t
  BY <1>1, <1>2, <1>3, TrimTight
<1>5. ~Contains(t, "dquote")
  <2>1. \A i \in DOMAIN t : t[i] # "dquote"
    BY <1>1, <1>2
  <2> QED
    BY <2>1 DEF Contains
<1>6. unquote(t) = Ok(t)
  <2>1. t = <<>> \/ Head(t) # "dquote"
    BY <1>2, <1>3
  <2> QED
    BY <1>5, <2>1, Zenon DEF unquote
<1>7. Ok(t).error = "Ok" /\ Ok(t).value = t
  BY DEF Ok
<1>8. /\ ~(\/ t = <<>> \/ (\E i \in DOMAIN t : ~IsDigit(t[i]))
           \/ (Len(t) > 1 /\ Head(t) = "0") \/ Number(t) \notin Abstract!WireBits)
  BY <1>1, <1>2, Zenon
<1>9. parse_bits(t) = Ok(Number(t))
  BY <1>4, <1>6, <1>7, <1>8, Zenon DEF parse_bits
<1> QED
  BY <1>1, <1>9, Zenon DEF t

\* The parameters of terms, and the value each is rendered with.
Given(terms, name) ==
  \/ name \in Flags /\ terms[name] = TRUE
  \/ name \in Windows /\ terms[name] # Abstract!Absent
ValueOf(terms, name) == IF name \in Flags THEN Abstract!Valueless ELSE terms[name]

LEMMA FieldsOfTerms ==
  ASSUME NEW terms \in Abstract!Params
  PROVE  /\ \A name \in Flags : terms[name] \in BOOLEAN
         /\ \A name \in Windows : terms[name] \in Values \cup {Abstract!Absent}
         /\ terms["server_max_window_bits"] # Abstract!Valueless
BY DEF Flags, Windows, Abstract!Flags, Abstract!Windows, Abstract!Params, Values,
       Abstract!Valueless, Abstract!NoValue, Abstract!Absent, Abstract!WireBits

\* A rendered parameter sets its slot to the term it stands for.
LEMMA BodySets ==
  ASSUME NEW terms \in Abstract!Params, NEW name \in Flags \cup Windows, Given(terms, name)
  PROVE  LET b == Body(name, ValueOf(terms, name))
         IN /\ ValueOf(terms, name) \in Values
            /\ split_parameter(b).name = <<name>> /\ Setting(b) = Ok(terms[name])
<1> DEFINE value == ValueOf(terms, name)
           b == Body(name, value)
           p == split_parameter(b)
           one == <<name>>
<1>1. Flags \cap Windows = {} /\ Abstract!Valueless \in Values
  BY DEF Flags, Windows, Abstract!Flags, Abstract!Windows, Values
<1>2. value \in Values
  BY <1>1, FieldsOfTerms DEF Given, ValueOf
<1> HIDE DEF value
<1>3. p.name = one /\ (p.valued <=> value # Abstract!Valueless)
      /\ (value # Abstract!Valueless => p.value = WireForm(value))
  BY <1>2, BodyIs, Zenon
<1>4. one \in Names /\ Head(one) = name
  BY DEF Names
<1> DEFINE Set(r) == IF r.name \notin Names THEN Err("UnknownParameter")
     ELSE IF Head(r.name) \in Flags
          THEN IF r.valued THEN Err("ParameterArity") ELSE Ok(TRUE)
     ELSE IF r.valued THEN parse_bits(r.value)
     ELSE IF Head(r.name) = "server_max_window_bits" THEN Err("ParameterArity")
     ELSE Ok(Abstract!Valueless)
<1>5. Setting(b) = Set(p)
  BY Zenon DEF Setting
<1> HIDE DEF p, b, one
<1>6. CASE name \in Flags
  <2>1. value = Abstract!Valueless /\ terms[name] = TRUE
    BY <1>1, <1>6 DEF value, ValueOf, Given
  <2>2. Set(p) = Ok(TRUE)
    BY <1>3, <1>4, <1>6, <2>1, Zenon
  <2> QED
    BY <1>2, <1>3, <1>5, <2>1, <2>2, Zenon DEF b, p, one, value
<1>7. CASE name \notin Flags /\ value # Abstract!Valueless
  <2>1. value = terms[name]
    BY <1>7, Zenon DEF value, ValueOf
  <2>2. parse_bits(WireForm(value)) = Ok(value)
    BY <1>2, <1>7, WidthsAre, BitsOfWidth, Zenon
  <2>3. Set(p) = Ok(value)
    BY <1>3, <1>4, <1>7, <2>2, Zenon
  <2> QED
    BY <1>2, <1>3, <1>5, <2>1, <2>3, Zenon DEF b, p, one, value
<1>8. CASE name \notin Flags /\ value = Abstract!Valueless
  <2>1. value = terms[name]
    BY <1>8, Zenon DEF value, ValueOf
  <2>2. name # "server_max_window_bits"
    BY <1>8, <2>1, FieldsOfTerms
  <2>3. Set(p) = Ok(Abstract!Valueless)
    BY <1>3, <1>4, <1>8, <2>2, Zenon
  <2> QED
    BY <1>2, <1>3, <1>5, <1>8, <2>1, <2>3, Zenon DEF b, p, one, value
<1> QED
  BY <1>6, <1>7, <1>8, Zenon

-----------------------------------------------------------------------------
(* What an element says: after the name, each of the parameters `names`     *)
(* once, as `terms` has it.                                                 *)

Declares(p, names, terms) ==
  /\ trim(p[1]) = <<NAME>>
  /\ \A k \in 2..Len(p) : \E name \in names :
       split_parameter(p[k]).name = <<name>> /\ Setting(p[k]) = Ok(terms[name])
  /\ \A name \in names : \E k \in 2..Len(p) : split_parameter(p[k]).name = <<name>>
  /\ \A j, k \in 2..Len(p) :
       split_parameter(p[j]).name = split_parameter(p[k]).name => j = k

Says(s, names, terms) ==
  /\ s \in Seq(Symbols) /\ \A c \in ToSet(s) : c \notin {"dquote", "comma"}
  /\ Declares(AllPieces(s, "semicolon"), names, terms)

LEMMA SaysName ==
  ASSUME NEW terms, NEW u \in Seq(Symbols), IsBlank(u)
  PROVE  Says(u \o <<NAME>>, {}, terms)
<1> DEFINE name == <<NAME>>
           s == u \o name
           n == Len(u)
           p == AllPieces(s, "semicolon")
<1>1. NAME \in Symbols /\ NAME \notin {"dquote", "comma", "semicolon", "blank"}
  BY NamesAre
<1>2. /\ name \in Seq(Symbols) /\ Len(name) = 1 /\ name[1] = NAME /\ ToSet(name) = {NAME}
  BY <1>1 DEF ToSet
<1>3. n \in Nat /\ DOMAIN u = 1..n
  BY LenIsNat
<1> HIDE DEF name
<1>4. /\ s \in Seq(Symbols) /\ Len(s) = n + 1 /\ s[n + 1] = NAME
      /\ \A k \in 1..n : s[k] = u[k]
  <2>1. /\ s \in Seq(Symbols) /\ Len(s) = n + Len(name)
        /\ \A k \in 1..n : s[k] = u[k]
        /\ \A k \in 1..Len(name) : s[n + k] = name[k]
    <3>1. u \in Seq(Symbols) /\ name \in Seq(Symbols)
      BY <1>2
    <3> QED
      BY <3>1, JoinSeq
  <2>2. 1 \in 1..1
    OBVIOUS
  <2> QED
    BY <1>2, <2>1, <2>2, Zenon
<1>5. ToSet(s) = ToSet(u) \cup {NAME}
  BY <1>2, TextJoin
<1> HIDE DEF s
<1>6. \A c \in ToSet(s) : c \notin {"dquote", "comma", "semicolon"}
  <2> SUFFICES ASSUME NEW c \in ToSet(s) PROVE c \notin {"dquote", "comma", "semicolon"}
    OBVIOUS
  <2>1. CASE c = NAME
    BY <1>1, <2>1, Zenon
  <2>2. CASE c # NAME
    <3>1. c \in ToSet(u)
      BY <1>5, <2>2
    <3>2. c = "blank"
      BY <3>1, BlankOctets, Zenon
    <3> QED
      BY <3>2
  <2> QED
    BY <2>1, <2>2, Zenon
<1>7. trim(s) = name
  <2>1. n + 1 \in 1..Len(s) /\ n + 1 \in (n + 1)..Len(s)
    BY <1>3, <1>4
  <2>2. \A k \in 1..Len(s) : k < n + 1 \/ k > n + 1 => s[k] = "blank"
    <3> SUFFICES ASSUME NEW k \in 1..Len(s), k < n + 1 \/ k > n + 1 PROVE s[k] = "blank"
      OBVIOUS
    <3>1. k \in 1..n
      BY <1>3, <1>4
    <3> QED
      BY <1>3, <1>4, <3>1, Zenon DEF IsBlank
  <2>3. Solid(s, n + 1, n + 1)
    BY <1>1, <1>4, <2>1, <2>2 DEF Solid
  <2>4. trim(s) = SubSeq(s, n + 1, n + 1)
    BY <1>4, <2>3, TrimIs, Zenon
  <2> DEFINE x == SubSeq(s, n + 1, n + 1)
  <2>5. x \in Seq(Symbols) /\ Len(x) = 1 /\ x[1] = NAME
    BY <1>3, <1>4
  <2> HIDE DEF x
  <2>6. x = name
    BY <1>2, <2>5
  <2> QED
    BY <2>4, <2>6, Zenon DEF x
<1>8. Len(p) = 1 /\ p[1] = s
  BY <1>4, <1>6, OnePiece, Zenon
<1> HIDE DEF p
<1>9. \A k : k \notin 2..Len(p)
  BY <1>8
<1>10. Declares(p, {}, terms)
  BY <1>7, <1>8, <1>9, Zenon DEF Declares, name
<1> QED
  BY <1>4, <1>6, <1>10 DEF Says, p, s, name

\* One more parameter, the same semicolon in front of it.
LEMMA SaysMore ==
  ASSUME NEW terms \in Abstract!Params, NEW names \in SUBSET (Flags \cup Windows),
         NEW s \in Seq(Symbols), Says(s, names, terms),
         NEW name \in (Flags \cup Windows) \ names, Given(terms, name)
  PROVE  Says(s \o Parameter(name, ValueOf(terms, name)), names \cup {name}, terms)
<1> DEFINE value == ValueOf(terms, name)
           b == Body(name, value)
           w == s \o (<<"semicolon">> \o b)
           p == AllPieces(s, "semicolon")
           o == AllPieces(b, "semicolon")
           q == AllPieces(w, "semicolon")
           n == Len(p)
           Of(x, a) == split_parameter(x).name = <<a>>
           Means(x, a) == split_parameter(x).name = <<a>> /\ Setting(x) = Ok(terms[a])
<1>1. value \in Values /\ Means(b, name)
  BY BodySets, Zenon
<1>2. b \in Seq(Symbols) /\ Parameter(name, value) = <<"semicolon">> \o b
  BY <1>1, BodyTyped, Zenon
<1>3. \A c \in ToSet(b) : c \notin {"dquote", "comma", "semicolon"}
  BY <1>1, BodyIs, Zenon
<1> HIDE DEF b
<1>4. /\ w \in Seq(Symbols) /\ q = p \o o
      /\ \A c \in ToSet(w) : c \notin {"dquote", "comma"}
  <2>1. "semicolon" \in Symbols
    BY NamesAreSymbols
  <2>2. w \in Seq(Symbols) /\ q = p \o o
    BY <1>2, <2>1, JoinedAll, Zenon
  <2> DEFINE sign == <<"semicolon">>
  <2>3. sign \in Seq(Symbols) /\ ToSet(sign) = {"semicolon"}
    BY <2>1 DEF ToSet
  <2> HIDE DEF sign
  <2>4. sign \o b \in Seq(Symbols) /\ ToSet(sign \o b) = {"semicolon"} \cup ToSet(b)
    BY <1>2, <2>3, TextJoin
  <2> DEFINE more == sign \o b
  <2> HIDE DEF more
  <2>5. ToSet(s \o more) = ToSet(s) \cup ToSet(more)
    BY <2>4, TextJoin DEF more
  <2>6. w = s \o more /\ ToSet(more) = {"semicolon"} \cup ToSet(b)
    BY <2>4, Zenon DEF more, sign
  <2>7. \A c \in ToSet(s) : c \notin {"dquote", "comma"}
    BY Zenon DEF Says
  <2>8. ASSUME NEW c \in ToSet(w) PROVE c \notin {"dquote", "comma"}
    <3>1. c \in ToSet(s) \/ c = "semicolon" \/ c \in ToSet(b)
      BY <2>5, <2>6
    <3>2. CASE c = "semicolon"
      BY <3>2
    <3> QED
      BY <1>3, <2>7, <3>1, <3>2
  <2> QED
    BY <2>2, <2>8, Zenon
<1>5. Len(o) = 1 /\ o[1] = b
  <2>1. "semicolon" \notin ToSet(b)
    BY <1>3
  <2> QED
    BY <1>2, <2>1, OnePiece, Zenon
<1>6. p \in Seq(Seq(Symbols)) /\ o \in Seq(Seq(Symbols)) /\ n \in 1..n /\ n \in Nat
  <2>1. p \in Sheets /\ o \in Sheets
    BY <1>2, SheetsOf, Zenon
  <2> HIDE DEF p, o
  <2> QED
    BY <2>1, SheetTyped
<1>7. Declares(p, names, terms)
  BY Zenon DEF Says
<1> HIDE DEF w, p, o, q
<1>8. Len(q) = n + 1 /\ q[n + 1] = b /\ \A k \in 1..n : q[k] = p[k]
  <2> DEFINE r == p \o o
  <2>1. /\ Len(r) = n + Len(o) /\ (\A k \in 1..n : r[k] = p[k])
        /\ \A k \in 1..Len(o) : r[n + k] = o[k]
    BY <1>6, JoinSeq
  <2>2. 1 \in 1..1
    OBVIOUS
  <2> HIDE DEF r
  <2>3. Len(r) = n + 1 /\ r[n + 1] = b /\ \A k \in 1..n : r[k] = p[k]
    BY <1>5, <2>1, <2>2, Zenon
  <2> QED
    BY <1>4, <2>3, Zenon DEF r
<1>9. /\ \A k \in 2..n : k \in 1..n /\ k \in 2..(n + 1) /\ k # n + 1
      /\ \A k \in 2..(n + 1) : k = n + 1 \/ k \in 2..n
      /\ 1 \in 1..n /\ n + 1 \in 2..(n + 1)
  BY <1>6
<1> HIDE DEF n
<1>10. /\ trim(p[1]) = <<NAME>>
       /\ \A k \in 2..n : \E a \in names : Means(p[k], a)
       /\ \A a \in names : \E k \in 2..n : Of(p[k], a)
       /\ \A j, k \in 2..n : split_parameter(p[j]).name = split_parameter(p[k]).name => j = k
  BY <1>7, Zenon DEF Declares, n
<1>11. \A k \in 2..n : ~Of(p[k], name) /\ q[k] = p[k]
  <2> SUFFICES ASSUME NEW k \in 2..n PROVE ~Of(p[k], name) /\ q[k] = p[k]
    OBVIOUS
  <2>1. PICK a \in names : split_parameter(p[k]).name = <<a>>
    BY <1>10, Zenon
  <2>2. a # name
    BY Zenon
  <2>3. <<a>> # <<name>>
    BY <2>2
  <2> QED
    BY <1>8, <1>9, <2>1, <2>3, Zenon
<1>12. ASSUME NEW k \in 2..(n + 1) PROVE \E a \in names \cup {name} : Means(q[k], a)
  <2>1. CASE k = n + 1
    BY <1>1, <1>8, <2>1, Zenon
  <2>2. CASE k \in 2..n
    <3>1. PICK a \in names : Means(p[k], a)
      BY <1>10, <2>2, Zenon
    <3>2. q[k] = p[k]
      BY <1>11, <2>2, Zenon
    <3>3. Means(q[k], a)
      BY <3>1, <3>2, Zenon
    <3>4. a \in names \cup {name}
      OBVIOUS
    <3> HIDE DEF Means
    <3> QED
      BY <3>3, <3>4, Zenon
  <2> QED
    BY <1>9, <2>1, <2>2, Zenon
<1>13. ASSUME NEW a \in names \cup {name} PROVE \E k \in 2..(n + 1) : Of(q[k], a)
  <2>1. CASE a = name
    BY <1>1, <1>8, <1>9, <2>1, Zenon
  <2>2. CASE a \in names
    BY <1>9, <1>10, <1>11, <2>2, Zenon
  <2> QED
    BY <2>1, <2>2, Zenon
<1>14. ASSUME NEW j \in 2..(n + 1), NEW k \in 2..(n + 1),
              split_parameter(q[j]).name = split_parameter(q[k]).name
       PROVE  j = k
  <2>1. CASE j \in 2..n /\ k \in 2..n
    BY <1>10, <1>11, <1>14, <2>1, Zenon
  <2>2. CASE j = n + 1 /\ k \in 2..n
    BY <1>1, <1>8, <1>11, <1>14, <2>2, Zenon
  <2>3. CASE k = n + 1 /\ j \in 2..n
    BY <1>1, <1>8, <1>11, <1>14, <2>3, Zenon
  <2>4. CASE k = n + 1 /\ j = n + 1
    BY <2>4
  <2> QED
    BY <1>9, <2>1, <2>2, <2>3, <2>4, Zenon
<1>15. trim(q[1]) = <<NAME>>
  BY <1>8, <1>9, <1>10, Zenon
<1>16. Declares(q, names \cup {name}, terms)
  BY <1>8, <1>12, <1>13, <1>14, <1>15, Zenon DEF Declares
<1> QED
  BY <1>2, <1>4, <1>16, Zenon DEF Says, w, q, value

\* Nor do blanks behind make a difference.
LEMMA SaysBehind ==
  ASSUME NEW terms, NEW names, NEW s \in Seq(Symbols), Says(s, names, terms),
         NEW v \in Seq(Symbols), IsBlank(v)
  PROVE  Says(s \o v, names, terms)
<1> DEFINE w == s \o v
           p == AllPieces(s, "semicolon")
           q == AllPieces(w, "semicolon")
           n == Len(p)
<1>1. w \in Seq(Symbols) /\ ToSet(w) = ToSet(s) \cup ToSet(v)
  BY TextJoin
<1>2. /\ "semicolon" \notin ToSet(v) /\ \A c \in ToSet(v) : c \notin {"dquote", "comma"}
  <2>1. "semicolon" # "blank" /\ \A c : c \in {"dquote", "comma"} => c # "blank"
    OBVIOUS
  <2> QED
    BY <2>1, BlankOctets, Zenon
<1>3. Declares(p, names, terms) /\ \A c \in ToSet(s) : c \notin {"dquote", "comma"}
  BY Zenon DEF Says
<1>4. \A c \in ToSet(w) : c \notin {"dquote", "comma"}
  BY <1>1, <1>2, <1>3
<1>5. /\ Len(q) = n /\ q[n] = p[n] \o v
      /\ \A k \in 1..n : k # n => q[k] = p[k]
  BY <1>2, LastPiece, ZenonT(60)
<1>6. n \in 1..n /\ n \in Nat /\ \A k \in 1..n : p[k] \in Seq(Symbols)
  <2>1. p \in Sheets
    BY SheetsOf, Zenon
  <2> HIDE DEF p
  <2> QED
    BY <2>1, SheetTyped
<1> HIDE DEF w, p, q, n
<1>7. ASSUME NEW k \in 1..n
      PROVE  /\ trim(q[k]) = trim(p[k]) /\ Setting(q[k]) = Setting(p[k])
             /\ split_parameter(q[k]).name = split_parameter(p[k]).name
  <2>1. CASE k # n
    BY <1>5, <2>1, Zenon
  <2>2. CASE k = n
    <3> DEFINE last == p[n]
    <3>1. last \in Seq(Symbols)
      BY <1>6
    <3> HIDE DEF last
    <3>2. /\ trim(last \o v) = trim(last) /\ Setting(last \o v) = Setting(last)
          /\ split_parameter(last \o v).name = split_parameter(last).name
      BY <3>1, TrimBehind, SettingBehind, SplitBehind, Zenon
    <3> QED
      BY <1>5, <2>2, <3>2, Zenon DEF last
  <2> QED
    BY <2>1, <2>2, Zenon
<1>8. 1 \in 1..n /\ \A k \in 2..n : k \in 1..n
  BY <1>6
<1>9. Declares(q, names, terms)
  <2>1. /\ trim(p[1]) = <<NAME>>
        /\ \A k \in 2..n : \E name \in names :
             split_parameter(p[k]).name = <<name>> /\ Setting(p[k]) = Ok(terms[name])
        /\ \A name \in names : \E k \in 2..n : split_parameter(p[k]).name = <<name>>
        /\ \A j, k \in 2..n :
             split_parameter(p[j]).name = split_parameter(p[k]).name => j = k
    BY <1>3, Zenon DEF Declares, n
  <2>2. trim(q[1]) = <<NAME>>
    BY <1>7, <1>8, <2>1, Zenon
  <2>3. \A k \in 2..n : \E name \in names :
             split_parameter(q[k]).name = <<name>> /\ Setting(q[k]) = Ok(terms[name])
    <3> SUFFICES ASSUME NEW k \in 2..n
                 PROVE  \E name \in names :
                   split_parameter(q[k]).name = <<name>> /\ Setting(q[k]) = Ok(terms[name])
      OBVIOUS
    <3>1. PICK name \in names :
            split_parameter(p[k]).name = <<name>> /\ Setting(p[k]) = Ok(terms[name])
      BY <2>1, Zenon
    <3>2. split_parameter(q[k]).name = <<name>> /\ Setting(q[k]) = Ok(terms[name])
      BY <1>7, <1>8, <3>1, Zenon
    <3> QED
      BY <3>2, Zenon
  <2>4. \A name \in names : \E k \in 2..n : split_parameter(q[k]).name = <<name>>
    BY <1>7, <1>8, <2>1, Zenon
  <2>5. \A j, k \in 2..n :
             split_parameter(q[j]).name = split_parameter(q[k]).name => j = k
    BY <1>7, <1>8, <2>1, Zenon
  <2> QED
    BY <1>5, <2>2, <2>3, <2>4, <2>5, Zenon DEF Declares
<1> QED
  BY <1>1, <1>4, <1>9, Zenon DEF Says, w, q

Term(terms, name) == OneIf(Given(terms, name), Parameter(name, ValueOf(terms, name)))
GivenOf(terms, names) == {name \in names : Given(terms, name)}

LEMMA NamesOfTerms ==
  /\ Flags = {"server_no_context_takeover", "client_no_context_takeover"}
  /\ Windows = {"server_max_window_bits", "client_max_window_bits"}
  /\ Flags \cap Windows = {}
BY DEF Flags, Windows, Abstract!Flags, Abstract!Windows

LEMMA RenderIs ==
  ASSUME NEW terms \in Abstract!Params
  PROVE  render(terms) =
           (((<<NAME>> \o Term(terms, "server_no_context_takeover"))
                       \o Term(terms, "client_no_context_takeover"))
                       \o Term(terms, "server_max_window_bits"))
                       \o Term(terms, "client_max_window_bits")
<1> DEFINE Flag(name) == OneIf(terms[name], Parameter(name, Abstract!Valueless))
           Width(name) == OneIf(terms[name] # Abstract!Absent, Parameter(name, terms[name]))
<1>1. render(terms) = (((<<NAME>> \o Flag("server_no_context_takeover"))
                            \o Flag("client_no_context_takeover"))
                            \o Width("server_max_window_bits"))
                            \o Width("client_max_window_bits")
  BY DEF render
<1>2. ASSUME NEW name \in Flags PROVE Flag(name) = Term(terms, name)
  <2>1. terms[name] = TRUE \/ terms[name] = FALSE
    BY FieldsOfTerms
  <2>2. Given(terms, name) <=> terms[name] = TRUE
    BY NamesOfTerms DEF Given
  <2>3. ValueOf(terms, name) = Abstract!Valueless
    BY DEF ValueOf
  <2>4. CASE terms[name] = TRUE
    BY <2>2, <2>3, <2>4, Zenon DEF OneIf, Term
  <2>5. CASE terms[name] = FALSE
    BY <2>2, <2>3, <2>5, Zenon DEF OneIf, Term
  <2> QED
    BY <2>1, <2>4, <2>5, Zenon
<1>3. ASSUME NEW name \in Windows PROVE Width(name) = Term(terms, name)
  <2>1. Given(terms, name) <=> terms[name] # Abstract!Absent
    BY NamesOfTerms DEF Given
  <2>2. ValueOf(terms, name) = terms[name]
    BY NamesOfTerms DEF ValueOf
  <2> QED
    BY <2>1, <2>2, Zenon DEF OneIf, Term
<1>4. /\ Flag("server_no_context_takeover") = Term(terms, "server_no_context_takeover")
      /\ Flag("client_no_context_takeover") = Term(terms, "client_no_context_takeover")
      /\ Width("server_max_window_bits") = Term(terms, "server_max_window_bits")
      /\ Width("client_max_window_bits") = Term(terms, "client_max_window_bits")
  BY <1>2, <1>3, NamesOfTerms, Zenon
<1> HIDE DEF Flag, Width
<1> QED
  BY <1>1, <1>4, Zenon

LEMMA TermTyped ==
  ASSUME NEW terms \in Abstract!Params, NEW name \in Flags \cup Windows
  PROVE  Term(terms, name) \in Seq(Symbols)
<1>1. CASE Given(terms, name)
  <2>1. ValueOf(terms, name) \in Values
    BY <1>1, BodySets, Zenon
  <2>2. Parameter(name, ValueOf(terms, name)) \in Seq(Symbols)
    BY <2>1, ParameterTyped, Zenon DEF Values
  <2> QED
    BY <1>1, <2>2, Zenon DEF Term, OneIf
<1>2. CASE ~Given(terms, name)
  <2>1. <<>> \in Seq(Symbols)
    OBVIOUS
  <2> QED
    BY <1>2, <2>1, Zenon DEF Term, OneIf
<1> QED
  BY <1>1, <1>2

LEMMA SaysTerm ==
  ASSUME NEW terms \in Abstract!Params, NEW names \in SUBSET (Flags \cup Windows),
         NEW s \in Seq(Symbols), Says(s, GivenOf(terms, names), terms),
         NEW name \in (Flags \cup Windows) \ names
  PROVE  Says(s \o Term(terms, name), GivenOf(terms, names \cup {name}), terms)
<1> DEFINE g == GivenOf(terms, names)
           h == GivenOf(terms, names \cup {name})
<1>1. g \in SUBSET (Flags \cup Windows) /\ name \notin g
  BY DEF GivenOf
<1>2. CASE Given(terms, name)
  <2>1. h = g \cup {name}
    BY <1>2 DEF GivenOf
  <2> HIDE DEF g, h
  <2>2. Says(s \o Parameter(name, ValueOf(terms, name)), g \cup {name}, terms)
    BY <1>1, <1>2, SaysMore, Zenon DEF g
  <2> QED
    BY <1>2, <2>1, <2>2, Zenon DEF Term, OneIf, h
<1>3. CASE ~Given(terms, name)
  <2>1. h = g
    BY <1>3 DEF GivenOf
  <2>2. s \o <<>> = s
    BY JoinEmpty
  <2> HIDE DEF g, h
  <2> QED
    BY <1>3, <2>1, <2>2, Zenon DEF Term, OneIf, g, h
<1> QED
  BY <1>2, <1>3

\* A text in front of a joined one may be joined to its first part.
Moves(s, t, u) == s \o (t \o u) = (s \o t) \o u
MovesFar(u, n, a, b, c, d) ==
  u \o ((((n \o a) \o b) \o c) \o d) = ((((u \o n) \o a) \o b) \o c) \o d

LEMMA JoinMoves ==
  ASSUME NEW s \in Seq(Symbols), NEW t \in Seq(Symbols), NEW u \in Seq(Symbols)
  PROVE  Moves(s, t, u) /\ t \o u \in Seq(Symbols)
<1>1. t \o u \in Seq(Symbols)
  BY TextJoin
<1>2. (s \o t) \o u = s \o (t \o u)
  BY TextAssoc, Zenon
<1> QED
  BY <1>1, <1>2, Zenon DEF Moves

LEMMA JoinMovesFar ==
  ASSUME NEW u \in Seq(Symbols), NEW n \in Seq(Symbols), NEW a \in Seq(Symbols),
         NEW b \in Seq(Symbols), NEW c \in Seq(Symbols), NEW d \in Seq(Symbols)
  PROVE  MovesFar(u, n, a, b, c, d)
<1> DEFINE r1 == n \o a
           r2 == r1 \o b
           r3 == r2 \o c
<1>1. Moves(u, n, a) /\ r1 \in Seq(Symbols)
  BY JoinMoves, Zenon
<1> HIDE DEF r1
<1>2. Moves(u, r1, b) /\ r2 \in Seq(Symbols)
  BY <1>1, JoinMoves, Zenon
<1> HIDE DEF r2
<1>3. Moves(u, r2, c) /\ r3 \in Seq(Symbols)
  BY <1>2, JoinMoves, Zenon
<1> HIDE DEF r3
<1>4. Moves(u, r3, d)
  BY <1>3, JoinMoves, Zenon
<1> QED
  BY <1>1, <1>2, <1>3, <1>4, Zenon DEF Moves, MovesFar, r1, r2, r3

\* The offer behind blanks, and blanks behind it.
LEMMA RenderSays ==
  ASSUME NEW terms \in Abstract!Params,
         NEW u \in Seq(Symbols), IsBlank(u), NEW v \in Seq(Symbols), IsBlank(v)
  PROVE  Says((u \o render(terms)) \o v, GivenOf(terms, Flags \cup Windows), terms)
<1> DEFINE A == Term(terms, "server_no_context_takeover")
           B == Term(terms, "client_no_context_takeover")
           C == Term(terms, "server_max_window_bits")
           D == Term(terms, "client_max_window_bits")
           N == <<NAME>>
           f1 == {"server_no_context_takeover"}
           f2 == f1 \cup {"client_no_context_takeover"}
           f3 == f2 \cup {"server_max_window_bits"}
           f4 == f3 \cup {"client_max_window_bits"}
<1>1. /\ A \in Seq(Symbols) /\ B \in Seq(Symbols) /\ C \in Seq(Symbols) /\ D \in Seq(Symbols)
  BY TermTyped, NamesOfTerms
<1>2. N \in Seq(Symbols)
  BY NamesAreSymbols
<1>3. render(terms) = (((N \o A) \o B) \o C) \o D
  BY RenderIs, Zenon
<1> HIDE DEF A, B, C, D, N
<1> DEFINE s0 == u \o N
           s1 == s0 \o A
           s2 == s1 \o B
           s3 == s2 \o C
           s4 == s3 \o D
<1>5. /\ s0 \in Seq(Symbols) /\ s1 \in Seq(Symbols) /\ s2 \in Seq(Symbols)
      /\ s3 \in Seq(Symbols) /\ s4 \in Seq(Symbols)
  <2>1. s0 \in Seq(Symbols)
    BY <1>2, TextJoin
  <2> HIDE DEF s0
  <2>2. s1 \in Seq(Symbols)
    BY <1>1, <2>1, TextJoin
  <2> HIDE DEF s1
  <2>3. s2 \in Seq(Symbols)
    BY <1>1, <2>2, TextJoin
  <2> HIDE DEF s2
  <2>4. s3 \in Seq(Symbols)
    BY <1>1, <2>3, TextJoin
  <2> HIDE DEF s3
  <2>5. s4 \in Seq(Symbols)
    BY <1>1, <2>4, TextJoin
  <2> QED
    BY <2>1, <2>2, <2>3, <2>4, <2>5
<1>6. u \o render(terms) = s4
  <2>1. MovesFar(u, N, A, B, C, D)
    BY <1>1, <1>2, JoinMovesFar, Zenon
  <2> QED
    BY <1>3, <2>1, Zenon DEF MovesFar
<1> HIDE DEF s0, s1, s2, s3, s4
<1>7. Says(s0, GivenOf(terms, {}), terms)
  <2>1. GivenOf(terms, {}) = {}
    BY DEF GivenOf
  <2> QED
    BY <2>1, SaysName, Zenon DEF s0, N
<1>8. /\ "server_no_context_takeover" \in (Flags \cup Windows) \ {}
      /\ "client_no_context_takeover" \in (Flags \cup Windows) \ f1
      /\ "server_max_window_bits" \in (Flags \cup Windows) \ f2
      /\ "client_max_window_bits" \in (Flags \cup Windows) \ f3
      /\ {} \cup {"server_no_context_takeover"} = f1 /\ {} \in SUBSET (Flags \cup Windows)
      /\ f1 \in SUBSET (Flags \cup Windows) /\ f2 \in SUBSET (Flags \cup Windows)
      /\ f3 \in SUBSET (Flags \cup Windows) /\ f4 = Flags \cup Windows
  BY NamesOfTerms
<1> HIDE DEF f1, f2, f3, f4
<1>9. Says(s1, GivenOf(terms, f1), terms)
  <2>1. Says(s0 \o A, GivenOf(terms, {} \cup {"server_no_context_takeover"}), terms)
    BY <1>5, <1>7, <1>8, SaysTerm, Zenon DEF A
  <2> QED
    BY <1>8, <2>1, Zenon DEF s1
<1>10. Says(s2, GivenOf(terms, f2), terms)
  BY <1>5, <1>8, <1>9, SaysTerm, Zenon DEF B, s2, f2
<1>11. Says(s3, GivenOf(terms, f3), terms)
  BY <1>5, <1>8, <1>10, SaysTerm, Zenon DEF C, s3, f3
<1>12. Says(s4, GivenOf(terms, f4), terms)
  BY <1>5, <1>8, <1>11, SaysTerm, Zenon DEF D, s4, f4
<1>13. Says(s4 \o v, GivenOf(terms, f4), terms)
  BY <1>5, <1>12, SaysBehind, Zenon
<1> QED
  BY <1>6, <1>8, <1>13, Zenon

\* An element that says the terms parses as the terms.
LEMMA SaysParses ==
  ASSUME NEW terms \in Abstract!Params, NEW e \in Seq(Symbols),
         Says(e, GivenOf(terms, Flags \cup Windows), terms)
  PROVE  parse_params(e) = Ok(terms) /\ is_deflate(e) /\ Ending(e) = "plain"
<1> DEFINE p == AllPieces(e, "semicolon")
           n == Len(p)
           given == Tail(segments(e).value)
           names == GivenOf(terms, Flags \cup Windows)
           Name(k) == split_parameter(given[k]).name
           Fault(k) == IF Setting(given[k]).error # "Ok" THEN Setting(given[k]).error
                       ELSE IF \E j \in 1..(k-1) : Name(j) = Name(k) THEN "DuplicateParameter"
                       ELSE "Ok"
           faults == {k \in DOMAIN given : Fault(k) # "Ok"}
           Slot(name, empty) ==
             IF \E k \in DOMAIN given : Name(k) = <<name>>
             THEN Setting(given[CHOOSE k \in DOMAIN given : Name(k) = <<name>>]).value
             ELSE empty
           all == [server_no_context_takeover |-> Slot("server_no_context_takeover", FALSE),
                   client_no_context_takeover |-> Slot("client_no_context_takeover", FALSE),
                   server_max_window_bits |-> Slot("server_max_window_bits", Abstract!Absent),
                   client_max_window_bits |-> Slot("client_max_window_bits", Abstract!Absent)]
<1>1. parse_params(e) = IF faults # {} THEN Err(Fault(Min(faults))) ELSE Ok(all)
  BY Zenon DEF parse_params
<1>2. /\ Ending(e) = "plain" /\ segments(e).value = p
  <2>1. "dquote" \notin ToSet(e)
    BY Zenon DEF Says
  <2>2. Pieces(e, "semicolon") = p /\ Ending(e) = "plain"
    BY <2>1, UnquotedPieces, Zenon
  <2> QED
    BY <2>2, SplitIs, Zenon DEF segments
<1>3. Declares(p, names, terms)
  BY Zenon DEF Says
<1>4. p \in Seq(Seq(Symbols)) /\ p # <<>> /\ n \in Nat /\ n >= 1
  <2>1. p \in Sheets
    BY SheetsOf, Zenon
  <2> HIDE DEF p
  <2> QED
    BY <2>1, SheetTyped DEF Sheets
<1> HIDE DEF p
<1>5. given = Tail(p)
  BY <1>2, Zenon
<1>6. DOMAIN given = 1..(n - 1) /\ \A k \in 1..(n - 1) : given[k] = p[k + 1]
  <2> DEFINE rest == Tail(p)
  <2>1. Len(rest) = n - 1 /\ DOMAIN rest = 1..(n - 1) /\ \A k \in 1..(n - 1) : rest[k] = p[k + 1]
    BY <1>4
  <2> HIDE DEF rest
  <2> QED
    BY <1>5, <2>1, Zenon DEF rest
<1>7. is_deflate(e)
  BY <1>2, <1>3, Zenon DEF is_deflate, Declares
<1> HIDE DEF given, n
<1>8. /\ \A k \in 2..n : \E name \in names :
           split_parameter(p[k]).name = <<name>> /\ Setting(p[k]) = Ok(terms[name])
      /\ \A name \in names : \E k \in 2..n : split_parameter(p[k]).name = <<name>>
      /\ \A j, k \in 2..n :
           split_parameter(p[j]).name = split_parameter(p[k]).name => j = k
  BY <1>3, Zenon DEF Declares, n
<1>9. /\ \A k \in 1..(n - 1) : k + 1 \in 2..n
      /\ \A k \in 2..n : k - 1 \in 1..(n - 1) /\ (k - 1) + 1 = k
      /\ \A k \in 1..(n - 1) : \A j \in 1..(k - 1) : j \in 1..(n - 1) /\ j + 1 # k + 1
      /\ \A j, k \in 1..(n - 1) : j + 1 = k + 1 => j = k
  BY <1>4
<1>10. \A k \in DOMAIN given : \E name \in names : Name(k) = <<name>> /\ Setting(given[k]) = Ok(terms[name])
  <2> SUFFICES ASSUME NEW k \in 1..(n - 1)
               PROVE  \E name \in names : Name(k) = <<name>> /\ Setting(given[k]) = Ok(terms[name])
    BY <1>6
  <2>1. PICK name \in names :
          split_parameter(p[k + 1]).name = <<name>> /\ Setting(p[k + 1]) = Ok(terms[name])
    BY <1>8, <1>9, Zenon
  <2>2. given[k] = p[k + 1]
    BY <1>6
  <2> QED
    BY <2>1, <2>2, Zenon
<1>11. ASSUME NEW k \in DOMAIN given PROVE Fault(k) = "Ok"
  <2>1. k \in 1..(n - 1)
    BY <1>6
  <2>2. PICK name \in names : Name(k) = <<name>> /\ Setting(given[k]) = Ok(terms[name])
    BY <1>10, Zenon
  <2>3. Setting(given[k]).error = "Ok"
    BY <2>2 DEF Ok
  <2>4. ASSUME NEW j \in 1..(k - 1), Name(j) = Name(k) PROVE FALSE
    <3>1. j \in 1..(n - 1) /\ j + 1 # k + 1
      BY <1>9, <2>1, Zenon
    <3>2. given[j] = p[j + 1] /\ given[k] = p[k + 1] /\ j + 1 \in 2..n /\ k + 1 \in 2..n
      BY <1>6, <1>9, <2>1, <3>1, Zenon
    <3> QED
      BY <1>8, <2>4, <3>1, <3>2, Zenon
  <2> QED
    BY <2>3, <2>4, Zenon
<1>12. faults = {}
  <2> HIDE DEF Fault
  <2> QED
    BY <1>11
<1>13. ASSUME NEW name \in names, NEW empty PROVE Slot(name, empty) = terms[name]
  <2> DEFINE Is(k) == k \in DOMAIN given /\ Name(k) = <<name>>
             c == CHOOSE k \in DOMAIN given : Name(k) = <<name>>
  <2>1. PICK k \in 2..n : split_parameter(p[k]).name = <<name>>
    BY <1>8, Zenon
  <2>2. Is(k - 1)
    BY <1>6, <1>9, <2>1, Zenon
  <2>3. c \in DOMAIN given /\ Name(c) = <<name>>
    BY <2>2, Zenon
  <2>4. Slot(name, empty) = Setting(given[c]).value
    BY <2>3, Zenon
  <2> HIDE DEF c
  <2>5. PICK a \in names : Name(c) = <<a>> /\ Setting(given[c]) = Ok(terms[a])
    BY <1>10, <2>3, Zenon
  <2>6. a = name
    <3>1. <<a>> = <<name>>
      BY <2>3, <2>5, Zenon
    <3> QED
      BY <3>1
  <2>7. Setting(given[c]) = Ok(terms[name])
    BY <2>5, <2>6, Zenon
  <2>8. Ok(terms[name]).value = terms[name]
    BY DEF Ok
  <2> QED
    BY <2>4, <2>7, <2>8, Zenon
<1>14. ASSUME NEW name \in (Flags \cup Windows) \ names, NEW empty PROVE Slot(name, empty) = empty
  <2>1. ASSUME NEW k \in DOMAIN given, Name(k) = <<name>> PROVE FALSE
    <3>1. PICK a \in names : Name(k) = <<a>>
      BY <1>10, Zenon
    <3>2. <<a>> = <<name>>
      BY <2>1, <3>1, Zenon
    <3>3. a = name
      BY <3>2
    <3> QED
      BY <3>3
  <2> QED
    BY <2>1, Zenon
<1> HIDE DEF Slot
<1>15. ASSUME NEW name \in Flags PROVE Slot(name, FALSE) = terms[name]
  <2>1. terms[name] = TRUE \/ terms[name] = FALSE
    BY FieldsOfTerms
  <2>2. name \in names <=> terms[name] = TRUE
    BY NamesOfTerms DEF GivenOf, Given
  <2> HIDE DEF names
  <2>3. CASE name \in names
    BY <1>13, <2>3, Zenon
  <2>4. CASE name \notin names
    <3>1. Slot(name, FALSE) = FALSE
      BY <1>14, <2>4, Zenon
    <3> QED
      BY <2>1, <2>2, <2>4, <3>1, Zenon
  <2> QED
    BY <2>3, <2>4, Zenon
<1>16. ASSUME NEW name \in Windows PROVE Slot(name, Abstract!Absent) = terms[name]
  <2>1. name \in names <=> terms[name] # Abstract!Absent
    BY NamesOfTerms DEF GivenOf, Given
  <2> HIDE DEF names
  <2>2. CASE name \in names
    BY <1>13, <2>2, Zenon
  <2>3. CASE name \notin names
    <3>1. Slot(name, Abstract!Absent) = Abstract!Absent
      BY <1>14, <2>3, Zenon
    <3> QED
      BY <2>1, <2>3, <3>1, Zenon
  <2> QED
    BY <2>2, <2>3, Zenon
<1>17. all = terms
  <2>1. /\ Slot("server_no_context_takeover", FALSE) = terms["server_no_context_takeover"]
        /\ Slot("client_no_context_takeover", FALSE) = terms["client_no_context_takeover"]
        /\ Slot("server_max_window_bits", Abstract!Absent) = terms["server_max_window_bits"]
        /\ Slot("client_max_window_bits", Abstract!Absent) = terms["client_max_window_bits"]
    BY <1>15, <1>16, NamesOfTerms, Zenon
  <2>2. terms = [server_no_context_takeover |-> terms["server_no_context_takeover"],
                 client_no_context_takeover |-> terms["client_no_context_takeover"],
                 server_max_window_bits |-> terms["server_max_window_bits"],
                 client_max_window_bits |-> terms["client_max_window_bits"]]
    BY DEF Abstract!Params
  <2> QED
    BY <2>1, <2>2, Zenon
<1> HIDE DEF all, faults, Fault
<1> QED
  BY <1>1, <1>2, <1>7, <1>12, <1>17, Zenon

-----------------------------------------------------------------------------
(* The offer as it is written.                                              *)

Tight(s) == s \in Seq(Symbols) /\ s # <<>> /\ s[1] # "blank" /\ s[Len(s)] # "blank"

LEMMA TightJoin ==
  ASSUME NEW s, Tight(s), NEW t, Tight(t)
  PROVE  Tight(s \o t)
<1> DEFINE w == s \o t
           n == Len(s)
           m == Len(t)
<1>1. s \in Seq(Symbols) /\ t \in Seq(Symbols)
  BY DEF Tight
<1>2. /\ w \in Seq(Symbols) /\ Len(w) = n + m
      /\ \A k \in 1..n : w[k] = s[k]
      /\ \A k \in 1..m : w[n + k] = t[k]
  BY <1>1, JoinSeq
<1>3. n \in Nat /\ m \in Nat /\ n >= 1 /\ m >= 1 /\ s[1] # "blank" /\ t[m] # "blank"
  BY DEF Tight
<1> HIDE DEF w, n, m
<1>4. 1 \in 1..n /\ m \in 1..m /\ Len(w) # 0
  BY <1>2, <1>3
<1>5. w[1] # "blank" /\ w[n + m] # "blank"
  BY <1>2, <1>3, <1>4, Zenon
<1>6. w # <<>>
  BY <1>4
<1> QED
  BY <1>2, <1>5, <1>6, Zenon DEF Tight, w

LEMMA TermTight ==
  ASSUME NEW terms \in Abstract!Params, NEW name \in Flags \cup Windows, NEW s, Tight(s)
  PROVE  Tight(s \o Term(terms, name))
<1>1. CASE Given(terms, name)
  <2> DEFINE value == ValueOf(terms, name)
             b == Body(name, value)
             sign == <<"semicolon">>
             w == sign \o b
  <2>1. value \in Values
    BY <1>1, BodySets, Zenon
  <2>2. b \in Seq(Symbols) /\ Parameter(name, value) = w
    BY <2>1, BodyTyped, Zenon
  <2>3. b # <<>> /\ b[Len(b)] # "blank"
    BY <2>1, BodyIs, Zenon
  <2>4. sign \in Seq(Symbols) /\ Len(sign) = 1 /\ sign[1] = "semicolon"
    BY NamesAreSymbols
  <2> HIDE DEF b, sign, value
  <2> DEFINE m == Len(b)
  <2>5. /\ w \in Seq(Symbols) /\ Len(w) = Len(sign) + m
        /\ \A k \in 1..Len(sign) : w[k] = sign[k]
        /\ \A k \in 1..m : w[Len(sign) + k] = b[k]
    <3>1. b \in Seq(Symbols) /\ sign \in Seq(Symbols)
      BY <2>2, <2>4
    <3> QED
      BY <3>1, JoinSeq
  <2>6. m \in Nat /\ m >= 1
    BY <2>2, <2>3
  <2> HIDE DEF w, m
  <2>7. 1 \in 1..1 /\ m \in 1..m /\ 1 + m # 0
    BY <2>6
  <2>8. w[1] = "semicolon" /\ w[1 + m] = b[m] /\ Len(w) = 1 + m
    BY <2>4, <2>5, <2>7, Zenon
  <2>9. w # <<>> /\ w[1] # "blank" /\ w[Len(w)] # "blank"
    <3>1. "semicolon" # "blank"
      OBVIOUS
    <3>2. w # <<>>
      BY <2>7, <2>8
    <3> QED
      BY <2>3, <2>8, <3>1, <3>2, Zenon DEF m
  <2>10. Tight(w)
    BY <2>5, <2>9, Zenon DEF Tight
  <2> QED
    BY <1>1, <2>2, <2>10, TightJoin, Zenon DEF Term, OneIf, value
<1>2. CASE ~Given(terms, name)
  <2>1. s \o <<>> = s
    BY JoinEmpty DEF Tight
  <2> QED
    BY <1>2, <2>1, Zenon DEF Term, OneIf
<1> QED
  BY <1>1, <1>2

LEMMA RenderTrimmed ==
  ASSUME NEW terms \in Abstract!Params
  PROVE  render(terms) \in Seq(Symbols) /\ trim(render(terms)) = render(terms)
<1> DEFINE A == Term(terms, "server_no_context_takeover")
           B == Term(terms, "client_no_context_takeover")
           C == Term(terms, "server_max_window_bits")
           D == Term(terms, "client_max_window_bits")
           N == <<NAME>>
           r == render(terms)
<1>1. r = (((N \o A) \o B) \o C) \o D
  BY RenderIs, Zenon
<1>2. /\ "server_no_context_takeover" \in Flags \cup Windows
      /\ "client_no_context_takeover" \in Flags \cup Windows
      /\ "server_max_window_bits" \in Flags \cup Windows
      /\ "client_max_window_bits" \in Flags \cup Windows
  BY NamesOfTerms
<1>3. Tight(N)
  <2>1. NAME \in Symbols /\ NAME # "blank"
    BY NamesAre
  <2> QED
    BY <2>1 DEF Tight
<1> HIDE DEF N
<1>4. Tight(N \o A)
  BY <1>2, <1>3, TermTight, Zenon
<1>5. Tight((N \o A) \o B)
  BY <1>2, <1>4, TermTight, Zenon
<1>6. Tight(((N \o A) \o B) \o C)
  BY <1>2, <1>5, TermTight, Zenon
<1>7. Tight((((N \o A) \o B) \o C) \o D)
  BY <1>2, <1>6, TermTight, Zenon
<1> HIDE DEF A, B, C, D, r
<1>8. Tight(r)
  BY <1>1, <1>7, Zenon
<1> QED
  BY <1>8, TrimTight, Zenon DEF Tight, r

LEMMA RenderReads ==
  ASSUME NEW terms \in Abstract!Params
  PROVE  /\ Says(render(terms), GivenOf(terms, Flags \cup Windows), terms)
         /\ elements(render(terms)).error = "Ok"
         /\ elements(render(terms)).value = <<render(terms)>>
         /\ is_deflate(render(terms))
<1> DEFINE r == render(terms)
           all == GivenOf(terms, Flags \cup Windows)
           none == <<>>
<1>1. r \in Seq(Symbols) /\ none \in Seq(Symbols) /\ IsBlank(none)
  BY RenderTyped DEF IsBlank
<1>2. none \o r = r /\ r \o none = r
  BY <1>1, JoinEmpty
<1>3. Says(r, all, terms)
  <2>1. Says((none \o r) \o none, all, terms)
    BY <1>1, RenderSays, Zenon
  <2> QED
    BY <1>2, <2>1, Zenon
<1> HIDE DEF r, all
<1>4. /\ "dquote" \notin ToSet(r) /\ "comma" \notin ToSet(r)
  BY <1>3 DEF Says
<1> DEFINE p == AllPieces(r, "comma")
           one == <<r>>
<1>5. Pieces(r, "comma") = p /\ Ending(r) = "plain"
  BY <1>1, <1>4, UnquotedPieces, Zenon
<1>6. p = one
  <2>1. p \in Seq(Seq(Symbols)) /\ Len(p) = 1 /\ p[1] = r
    BY <1>1, <1>4, OnePiece, SheetsOf, SheetTyped, Zenon
  <2>2. one \in Seq(Seq(Symbols)) /\ Len(one) = 1 /\ one[1] = r
    BY <1>1, OneSeq
  <2> HIDE DEF p, one
  <2> QED
    BY <2>1, <2>2
<1> HIDE DEF p, one
<1>7. elements(r).error = "Ok" /\ elements(r).value = one
  BY <1>5, <1>6, SplitIs, Zenon DEF elements
<1>8. is_deflate(r)
  BY <1>1, <1>3, SaysParses, Zenon DEF all
<1> QED
  BY <1>3, <1>7, <1>8, Zenon DEF r, all, one

\* An element that is the offer but for blanks around it parses as its terms.
LEMMA OfferParses ==
  ASSUME NEW terms \in Abstract!Params, NEW e \in Seq(Symbols), trim(e) = render(terms)
  PROVE  parse_params(e) = Ok(terms)
<1>1. PICK a \in Seq(Symbols), c \in Seq(Symbols) : IsBlank(a) /\ IsBlank(c) /\ e = (a \o trim(e)) \o c
  BY TrimCut, Zenon
<1>2. e = (a \o render(terms)) \o c
  BY <1>1, Zenon
<1>3. Says((a \o render(terms)) \o c, GivenOf(terms, Flags \cup Windows), terms)
  BY <1>1, RenderSays, Zenon
<1>4. Says(e, GivenOf(terms, Flags \cup Windows), terms)
  BY <1>2, <1>3, Zenon
<1> QED
  BY <1>4, SaysParses, Zenon

-----------------------------------------------------------------------------
(* The deflate elements of a field.                                         *)

LEMMA DeflatesStep ==
  ASSUME NEW found \in Seq(Seq(Symbols)), NEW e \in Seq(Symbols)
  PROVE  /\ Deflates(Append(found, e)) = Deflates(found) \o OneIf(is_deflate(e), <<e>>)
         /\ Deflates(found) \in Seq(Seq(Symbols))
<1> DEFINE all(f) == [k \in DOMAIN f |-> OneIf(is_deflate(f[k]), <<f[k]>>)]
           n == Len(found)
           more == Append(found, e)
           last == OneIf(is_deflate(e), <<e>>)
           Parts == Seq(Seq(Symbols))
<1>0. ASSUME NEW x \in Seq(Symbols) PROVE OneIf(is_deflate(x), <<x>>) \in Parts
  <2>1. <<x>> \in Parts /\ <<>> \in Parts
    BY OneSeq
  <2> QED
    BY <2>1, Zenon DEF OneIf
<1>1. /\ n \in Nat /\ DOMAIN found = 1..n /\ \A i \in 1..n : found[i] \in Seq(Symbols)
  OBVIOUS
<1>2. /\ DOMAIN more = 1..(n + 1) /\ more[n + 1] = e /\ \A i \in 1..n : more[i] = found[i]
  BY AppendSeq
<1>3. last \in Parts /\ \A i \in 1..n : OneIf(is_deflate(found[i]), <<found[i]>>) \in Parts
  BY <1>0, <1>1, Zenon
<1> HIDE DEF n, more, last, Parts
<1>4. all(found) \in Seq(Parts) /\ Len(all(found)) = n
  BY <1>1, <1>3
<1>5. all(more) = Append(all(found), last)
  <2> DEFINE lhs == all(more)
             rhs == Append(all(found), last)
  <2>1. DOMAIN lhs = 1..(n + 1) /\ lhs[n + 1] = last /\ \A i \in 1..n : lhs[i] = all(found)[i]
    <3>1. DOMAIN lhs = 1..(n + 1) /\ n + 1 \in 1..(n + 1) /\ \A i \in 1..n : i \in 1..(n + 1)
      BY <1>1, <1>2
    <3>2. \A i \in 1..(n + 1) : lhs[i] = OneIf(is_deflate(more[i]), <<more[i]>>)
      BY <1>2, Zenon
    <3>3. \A i \in 1..n : all(found)[i] = OneIf(is_deflate(found[i]), <<found[i]>>)
      BY <1>1, Zenon
    <3> HIDE DEF all
    <3> QED
      BY <1>2, <3>1, <3>2, <3>3, Zenon DEF last
  <2>2. lhs = [i \in 1..(n + 1) |-> lhs[i]]
    BY <1>2, Zenon
  <2>3. /\ rhs \in Seq(Parts) /\ Len(rhs) = n + 1 /\ DOMAIN rhs = 1..(n + 1) /\ rhs[n + 1] = last
        /\ \A i \in 1..n : rhs[i] = all(found)[i]
    <3> HIDE DEF all
    <3> QED
      BY <1>3, <1>4, AppendSeq
  <2>4. rhs = [i \in 1..(n + 1) |-> rhs[i]]
    BY <2>3
  <2> HIDE DEF lhs, rhs
  <2>5. \A i \in 1..(n + 1) : lhs[i] = rhs[i]
    <3> SUFFICES ASSUME NEW i \in 1..(n + 1) PROVE lhs[i] = rhs[i]
      OBVIOUS
    <3>1. i = n + 1 \/ i \in 1..n
      BY <1>1
    <3> QED
      BY <2>1, <2>3, <3>1, Zenon
  <2>6. lhs = rhs
    BY <2>2, <2>4, <2>5, Zenon
  <2> QED
    BY <2>6 DEF lhs, rhs
<1>6. Deflates(found) = FlattenSeq(all(found)) /\ Deflates(more) = FlattenSeq(all(more))
  BY DEF Deflates
<1> DEFINE old == all(found)
<1> HIDE DEF old
<1>7. old \in Seq(Seq(Seq(Symbols))) /\ last \in Seq(Seq(Symbols))
  BY <1>3, <1>4, Zenon DEF old, Parts
<1>8. /\ FlattenSeq(Append(old, last)) = FlattenSeq(old) \o last
      /\ FlattenSeq(old) \in Seq(Seq(Symbols))
  BY <1>7, FlattenAppend, FlattenTyped
<1> QED
  BY <1>5, <1>6, <1>8, Zenon DEF old, more, last

\* An offer behind a field without one is the one deflate element.
LEMMA InstalledAlone ==
  ASSUME NEW terms \in Abstract!Params, NEW field \in Seq(Seq(Symbols)),
         contains_deflate(field) = "No"
  PROVE  seal(Append(field, render(terms)), render(terms)) = "Ok"
<1> DEFINE r == render(terms)
           more == Append(field, r)
           one == <<r>>
           E == Elements(field)
<1>1. r \in Seq(Symbols) /\ trim(r) = r
  BY RenderTrimmed
<1>2. elements(r).error = "Ok" /\ elements(r).value = one /\ is_deflate(r)
  BY RenderReads, Zenon
<1> HIDE DEF r
<1>3. Readable(field) = field /\ Selections(field) = <<>>
  <2>1. "Yes" # "No" /\ "MalformedHeader" # "No"
    OBVIOUS
  <2> QED
    BY <2>1, Zenon DEF contains_deflate
<1>4. AllSplit(field)
  BY <1>3, ReadableIs, Zenon
<1>5. /\ more \in Seq(Seq(Symbols)) /\ DOMAIN more = 1..(Len(field) + 1)
      /\ more[Len(field) + 1] = r /\ \A i \in 1..Len(field) : more[i] = field[i]
  BY <1>1, AppendSeq
<1>6. AllSplit(more)
  <2> SUFFICES ASSUME NEW i \in 1..(Len(field) + 1) PROVE elements(more[i]).error = "Ok"
    BY <1>5, Zenon DEF AllSplit
  <2>1. i = Len(field) + 1 \/ i \in 1..Len(field)
    BY LenIsNat
  <2>2. DOMAIN field = 1..Len(field)
    OBVIOUS
  <2> HIDE DEF more
  <2> QED
    BY <1>2, <1>4, <1>5, <2>1, <2>2, Zenon DEF AllSplit
<1>7. Readable(more) = more
  BY <1>5, <1>6, ReadableIs, Zenon
<1>8. Elements(more) = E \o one /\ E \in Seq(Seq(Symbols))
  BY <1>1, <1>2, ElementsStep, Zenon
<1>9. E \o one = Append(E, r)
  <2> HIDE DEF E
  <2> QED
    BY <1>1, <1>8, AppendIsJoin
<1> HIDE DEF E, more
<1>10. Selections(more) = one
  <2>1. Deflates(Append(E, r)) = Deflates(E) \o OneIf(is_deflate(r), <<r>>)
    BY <1>1, <1>8, DeflatesStep, Zenon
  <2>2. Deflates(E) = <<>>
    BY <1>3, Zenon DEF Selections, E
  <2>3. <<>> \o one = one
    BY <1>1, OneSeq, JoinEmpty
  <2> QED
    BY <1>2, <1>8, <1>9, <2>1, <2>2, <2>3, Zenon DEF Selections, OneIf
<1>11. Len(one) = 1 /\ DOMAIN one = {1} /\ one[1] = r
  OBVIOUS
<1>12. ~\E k \in DOMAIN one : trim(one[k]) # r
  BY <1>1, <1>11, Zenon
<1> HIDE DEF one
<1>13. seal(more, r) = "Ok"
  BY <1>7, <1>10, <1>11, <1>12, Zenon DEF seal
<1> QED
  BY <1>13, Zenon DEF more, r

\* A sealed field has one deflate element, the offer.
LEMMA SealedReads ==
  ASSUME NEW terms \in Abstract!Params, NEW field \in Seq(Seq(Symbols)),
         seal(field, render(terms)) = "Ok"
  PROVE  {parse_params(element) : element \in ToSet(Selections(field))} = {Ok(terms)}
<1> DEFINE r == render(terms)
           found == Selections(field)
<1>1. /\ Readable(field) = field /\ Len(found) = 1
      /\ \A k \in DOMAIN found : trim(found[k]) = r
  <2>1. "OfferAltered" # "Ok" /\ "MalformedHeader" # "Ok"
    OBVIOUS
  <2>2. /\ ~\E k \in DOMAIN Selections(Readable(field)) : trim(Selections(Readable(field))[k]) # r
        /\ Readable(field) = field /\ Len(Selections(Readable(field))) = 1
    BY <2>1, Zenon DEF seal
  <2> QED
    BY <2>2, Zenon
<1>2. found \in Seq(Seq(Symbols))
  <2>1. Elements(field) \in Seq(Seq(Symbols))
    <3>1. <<>> \in Seq(Symbols)
      OBVIOUS
    <3> QED
      BY <3>1, ElementsStep, Zenon
  <2>2. <<>> \in Seq(Symbols)
    OBVIOUS
  <2> QED
    BY <2>1, <2>2, DeflatesStep, Zenon DEF Selections
<1> HIDE DEF found
<1>3. DOMAIN found = {1} /\ found[1] \in Seq(Symbols) /\ ToSet(found) = {found[1]}
  <2>1. DOMAIN found = {1}
    BY <1>1, <1>2
  <2>2. found[1] \in Seq(Symbols)
    BY <1>1, <1>2
  <2> QED
    BY <2>1, <2>2 DEF ToSet
<1>4. parse_params(found[1]) = Ok(terms)
  BY <1>1, <1>3, OfferParses, Zenon
<1> DEFINE e == found[1]
<1>5. ToSet(found) = {e} /\ parse_params(e) = Ok(terms)
  BY <1>3, <1>4
<1> HIDE DEF e
<1>6. {parse_params(element) : element \in ToSet(found)} = {Ok(terms)}
  BY <1>5
<1> QED
  BY <1>6, Zenon DEF found

-----------------------------------------------------------------------------
(* The invariant: what is installed went behind a field without an offer.   *)

Installation(i) ==
  \E field \in Seq(Seq(Symbols)), terms \in Abstract!Params :
    /\ contains_deflate(field) = "No"
    /\ i = [terms |-> terms, lines |-> Append(field, render(terms))]

InstalledBehind == installed # <<>> => Installation(installed[1])

LEMMA InstalledNext == Typed /\ InstalledBehind /\ [Next]_vars => InstalledBehind'
<1> SUFFICES ASSUME Typed, InstalledBehind, [Next]_vars PROVE InstalledBehind'
  OBVIOUS
<1>1. CASE UNCHANGED vars
  BY <1>1, Zenon DEF vars, InstalledBehind, Installation
<1>2. CASE HostWrites
  BY <1>2, Zenon DEF HostWrites, InstalledBehind, Installation
<1>3. CASE HostEdits
  BY <1>3, Zenon DEF HostEdits, InstalledBehind, Installation
<1>4. ASSUME NEW terms \in Terms, install(terms) PROVE InstalledBehind'
  <2>1. terms \in Abstract!Params
    BY FieldsAssumption, Zenon
  <2> DEFINE i == [terms |-> terms, lines |-> lines']
  <2>2. installed' = <<i>> /\ contains_deflate(lines) = "No" /\ lines' = Append(lines, render(terms))
    BY <1>4, Zenon DEF install
  <2>3. Installation(i)
    BY <2>1, <2>2, Zenon DEF Installation, Typed
  <2>4. installed'[1] = i
    BY <2>2
  <2> HIDE DEF i
  <2> QED
    BY <2>3, <2>4, Zenon DEF InstalledBehind
<1> QED
  BY <1>1, <1>2, <1>3, <1>4, Zenon DEF Next

LEMMA InstalledSealed == Typed /\ InstalledBehind => SealedIsMeant
<1> SUFFICES ASSUME Typed, InstalledBehind, installed # <<>>
             PROVE  LET offer == installed[1]
                        sealed == seal(lines, render(offer.terms)) = "Ok"
                    IN /\ sealed => {parse_params(element) : element \in ToSet(Selections(lines))}
                                      = {Ok(offer.terms)}
                       /\ lines = offer.lines => sealed
  BY Zenon DEF SealedIsMeant
<1> DEFINE offer == installed[1]
<1>1. PICK field \in Seq(Seq(Symbols)), terms \in Abstract!Params :
        /\ contains_deflate(field) = "No"
        /\ offer = [terms |-> terms, lines |-> Append(field, render(terms))]
  BY Zenon DEF InstalledBehind, Installation
<1> HIDE DEF offer
<1>2. offer.terms = terms /\ offer.lines = Append(field, render(terms))
  BY <1>1
<1>3. seal(lines, render(terms)) = "Ok" =>
        {parse_params(element) : element \in ToSet(Selections(lines))} = {Ok(terms)}
  BY SealedReads, Zenon DEF Typed
<1>4. seal(Append(field, render(terms)), render(terms)) = "Ok"
  BY <1>1, InstalledAlone, Zenon
<1> QED
  BY <1>2, <1>3, <1>4, Zenon DEF offer

\* A request that is sealed says what was installed, once, to whoever parses
\* it, whatever the host wrote around the offer or changed in it; and one that it
\* left alone is sealed: client.rs `install` and `finish`.
THEOREM SealedAlwaysMeant == Spec => []SealedIsMeant
<1>1. Init => InstalledBehind
  BY Zenon DEF Init, InstalledBehind
<1> QED
  BY <1>1, InstalledNext, InstalledSealed, TypedAlways, PTL DEF Spec

-----------------------------------------------------------------------------
(* The elements of a field, as Grammar has them.                            *)

Readings == {ElementOf(e) : e \in Seq(Symbols)} \cup {Abstract!Unbalanced}
OfLine == [line \in Seq(Symbols) |-> LineOf(line)]

\* A line has one reading for each of its elements, or one for all it is worth.
LEMMA LineOfTyped ==
  ASSUME NEW line \in Seq(Symbols)
  PROVE  LET v == elements(line).value
         IN /\ LineOf(line) \in Seq(Readings)
            /\ elements(line).error # "Ok" => LineOf(line) = <<Abstract!Unbalanced>>
            /\ elements(line).error = "Ok" =>
                 /\ v \in Sheets /\ Len(LineOf(line)) = Len(v) /\ DOMAIN LineOf(line) = DOMAIN v
                 /\ \A k \in 1..Len(v) : v[k] \in Seq(Symbols) /\ Ending(v[k]) = "plain"
                                         /\ LineOf(line)[k] = ElementOf(v[k])
<1> DEFINE v == elements(line).value
           l == LineOf(line)
           u == Abstract!Unbalanced
<1>1. CASE elements(line).error # "Ok"
  <2>1. l = <<u>>
    BY <1>1, Zenon DEF LineOf
  <2>2. u \in Readings
    BY DEF Readings
  <2> HIDE DEF u
  <2>3. <<u>> \in Seq(Readings)
    BY <2>2
  <2> QED
    BY <1>1, <2>1, <2>3, Zenon DEF u
<1>2. CASE elements(line).error = "Ok"
  <2>1. l = [k \in DOMAIN v |-> ElementOf(v[k])]
    BY <1>2, Zenon DEF LineOf
  <2>2. "comma" # "dquote"
    OBVIOUS
  <2>3. v \in Sheets /\ \A part \in ToSet(v) : part \in Seq(Symbols) /\ Ending(part) = "plain"
    BY <1>2, <2>2, PartsBalanced, Zenon DEF elements
  <2> HIDE DEF v, l
  <2>4. Len(v) \in Nat /\ DOMAIN v = 1..Len(v)
    BY <2>3, SheetTyped
  <2>5. \A k \in 1..Len(v) : v[k] \in ToSet(v)
    BY <2>4, Zenon DEF ToSet
  <2>6. \A k \in 1..Len(v) : v[k] \in Seq(Symbols) /\ Ending(v[k]) = "plain"
    BY <2>3, <2>5, Zenon
  <2>7. \A k \in 1..Len(v) : ElementOf(v[k]) \in Readings
    BY <2>6, Zenon DEF Readings
  <2>8. /\ l \in Seq(Readings) /\ Len(l) = Len(v) /\ DOMAIN l = DOMAIN v
        /\ \A k \in 1..Len(v) : l[k] = ElementOf(v[k])
    BY <2>1, <2>4, <2>7
  <2> QED
    BY <1>2, <2>3, <2>6, <2>8, Zenon DEF v, l
<1> QED
  BY <1>1, <1>2, Zenon

\* A field is read line after line.
LEMMA FieldOfFlow ==
  ASSUME NEW field \in Seq(Seq(Symbols))
  PROVE  FieldOf(field) = Flow(OfLine, field) /\ Turns(OfLine, Seq(Symbols), Seq(Readings))
<1>1. Turns(OfLine, Seq(Symbols), Seq(Readings))
  <2>1. \A line \in Seq(Symbols) : LineOf(line) \in Seq(Readings)
    BY LineOfTyped, Zenon
  <2> QED
    BY <2>1, Zenon DEF Turns, OfLine
<1>2. \A i \in DOMAIN field : field[i] \in Seq(Symbols)
  BY LineOfField, Zenon
<1>3. \A i \in DOMAIN field : OfLine[field[i]] = LineOf(field[i])
  BY <1>2, Zenon DEF OfLine
<1>4. [i \in DOMAIN field |-> LineOf(field[i])] = [i \in DOMAIN field |-> OfLine[field[i]]]
  BY <1>3, Zenon
<1> QED
  BY <1>1, <1>4, Zenon DEF FieldOf, Flow, Mapped

LEMMA FieldOfStep ==
  ASSUME NEW field \in Seq(Seq(Symbols)), NEW line \in Seq(Symbols)
  PROVE  /\ FieldOf(Append(field, line)) = FieldOf(field) \o LineOf(line)
         /\ FieldOf(field) \in Seq(Readings)
<1> DEFINE more == Append(field, line)
<1>1. more \in Seq(Seq(Symbols))
  BY AppendSeq
<1> HIDE DEF more
<1>2. FieldOf(field) = Flow(OfLine, field) /\ FieldOf(more) = Flow(OfLine, more)
  BY <1>1, FieldOfFlow, Zenon
<1>3. Turns(OfLine, Seq(Symbols), Seq(Readings)) /\ OfLine[line] = LineOf(line)
  BY FieldOfFlow, Zenon DEF OfLine
<1>4. Flow(OfLine, Append(field, line)) = Flow(OfLine, field) \o OfLine[line]
      /\ Flow(OfLine, field) \in Seq(Readings)
  BY <1>3, FlowStep
<1> QED
  BY <1>2, <1>3, <1>4, Zenon DEF more

\* How far a field is read when a line is added to it.
LEMMA ReadableStep ==
  ASSUME NEW field \in Seq(Seq(Symbols)), NEW line \in Seq(Symbols)
  PROVE  LET more == Append(field, line)
         IN /\ AllSplit(more) <=> AllSplit(field) /\ elements(line).error = "Ok"
            /\ AllSplit(more) => Readable(more) = more
            /\ ~AllSplit(more) => Readable(more) = Readable(field)
            /\ AllSplit(field) => Readable(field) = field
<1> DEFINE n == Len(field)
           more == Append(field, line)
           unread(f) == {i \in DOMAIN f : elements(f[i]).error # "Ok"}
<1>1. /\ n \in Nat /\ DOMAIN field = 1..n
  OBVIOUS
<1>2. /\ more \in Seq(Seq(Symbols)) /\ Len(more) = n + 1 /\ DOMAIN more = 1..(n + 1)
      /\ more[n + 1] = line /\ \A i \in 1..n : more[i] = field[i]
  BY AppendSeq
<1>3. \A i \in 1..(n + 1) : i = n + 1 \/ i \in 1..n
  BY <1>1
<1>4. n + 1 \in 1..(n + 1) /\ \A i \in 1..n : i \in 1..(n + 1)
  BY <1>1
<1> DEFINE bad == unread(field)
           worse == unread(more)
<1>5. /\ \A i : i \in bad <=> i \in 1..n /\ elements(field[i]).error # "Ok"
      /\ \A i : i \in worse <=> i \in 1..(n + 1) /\ elements(more[i]).error # "Ok"
  BY <1>1, <1>2, Zenon
<1>6. /\ Readable(field) = IF bad = {} THEN field ELSE SubSeq(field, 1, Min(bad) - 1)
      /\ Readable(more) = IF worse = {} THEN more ELSE SubSeq(more, 1, Min(worse) - 1)
  BY Zenon DEF Readable
<1>7. AllSplit(field) <=> bad = {}
  BY <1>1, <1>5, Zenon DEF AllSplit
<1>8. AllSplit(more) <=> worse = {}
  BY <1>2, <1>5, Zenon DEF AllSplit
<1> HIDE DEF n, more, bad, worse
<1>9. \A i \in 1..n : i \in worse <=> i \in bad
  BY <1>2, <1>4, <1>5, Zenon
<1>10. n + 1 \in worse <=> elements(line).error # "Ok"
  BY <1>2, <1>4, <1>5, Zenon
<1>11. worse = {} <=> bad = {} /\ elements(line).error = "Ok"
  BY <1>3, <1>5, <1>9, <1>10, Zenon
<1>12. bad \in SUBSET Nat /\ worse \in SUBSET Nat
  BY <1>1, <1>5
<1>13. CASE bad # {}
  <2>1. PICK x \in bad : \A y \in bad : x <= y
    BY <1>12, <1>13, LeastExists, Zenon
  <2>2. x \in 1..n
    BY <1>5, <2>1, Zenon
  <2>3. x \in worse /\ \A y \in worse : x <= y
    <3>1. x \in worse
      BY <1>9, <2>1, <2>2, Zenon
    <3>2. ASSUME NEW y \in worse PROVE x <= y
      <4>1. CASE y \in 1..n
        BY <1>9, <2>1, <3>2, <4>1, Zenon
      <4>2. CASE y = n + 1
        BY <1>1, <2>2, <4>2
      <4> QED
        BY <1>3, <1>5, <4>1, <4>2, Zenon
    <3> QED
      BY <3>1, <3>2, Zenon
  <2>4. Min(bad) = x /\ Min(worse) = x
    BY <1>12, <2>1, <2>3, MinIs, Zenon
  <2> DEFINE a == SubSeq(field, 1, x - 1)
             b == SubSeq(more, 1, x - 1)
  <2>5. a = b
    <3>1. /\ a \in Seq(Seq(Symbols)) /\ Len(a) = x - 1
          /\ \A k \in 1..(x - 1) : a[k] = field[k]
      BY <1>1, <2>2 DEF n
    <3>2. /\ b \in Seq(Seq(Symbols)) /\ Len(b) = x - 1
          /\ \A k \in 1..(x - 1) : b[k] = more[k]
      BY <1>1, <1>2, <2>2
    <3>3. \A k \in 1..(x - 1) : more[k] = field[k]
      BY <1>1, <1>2, <2>2
    <3> DEFINE y == x - 1
    <3>4. y \in Nat
      BY <2>2
    <3> HIDE DEF a, b, y
    <3>5. /\ a \in Seq(Seq(Symbols)) /\ Len(a) = y /\ b \in Seq(Seq(Symbols)) /\ Len(b) = y
          /\ \A k \in 1..y : a[k] = b[k]
      BY <3>1, <3>2, <3>3, Zenon DEF y
    <3> QED
      BY <3>4, <3>5
  <2> QED
    BY <1>6, <1>7, <1>8, <1>11, <1>13, <2>4, <2>5, Zenon DEF more
<1>14. CASE bad = {} /\ worse # {}
  <2>1. n + 1 \in worse /\ \A y \in worse : y = n + 1
    BY <1>3, <1>5, <1>9, <1>10, <1>11, <1>14, Zenon
  <2>2. \A y \in worse : n + 1 <= y
    BY <1>1, <2>1
  <2>3. Min(worse) = n + 1
    BY <1>12, <2>1, <2>2, MinIs, Zenon
  <2>4. SubSeq(more, 1, (n + 1) - 1) = field
    <3> DEFINE b == SubSeq(more, 1, (n + 1) - 1)
    <3>1. /\ b \in Seq(Seq(Symbols)) /\ Len(b) = n
          /\ \A k \in 1..n : b[k] = more[k]
      BY <1>1, <1>2
    <3> HIDE DEF b
    <3>2. field \in Seq(Seq(Symbols)) /\ Len(field) = n
      BY DEF n
    <3> QED
      BY <1>1, <1>2, <3>1, <3>2 DEF b
  <2> QED
    BY <1>6, <1>7, <1>8, <1>11, <1>14, <2>3, <2>4, Zenon DEF more
<1>15. CASE worse = {}
  BY <1>6, <1>7, <1>8, <1>11, <1>15, Zenon DEF more
<1> QED
  BY <1>13, <1>14, <1>15, Zenon

\* The elements that are read, one for one; and the first line that does not
\* split, as one element behind them.
ReadsAs(field, E, h) ==
  /\ E \in Seq(Seq(Symbols)) /\ h \in Seq(Readings) /\ Len(h) >= Len(E)
  /\ \A k \in 1..Len(E) : h[k] = ElementOf(E[k]) /\ Ending(E[k]) = "plain"
  /\ AllSplit(field) => Len(h) = Len(E)
  /\ ~AllSplit(field) => Len(h) > Len(E) /\ h[Len(E) + 1] = Abstract!Unbalanced

\* So are the elements of every field, as far as it is read.
LEMMA FieldReads ==
  ASSUME NEW field \in Seq(Seq(Symbols))
  PROVE  ReadsAs(field, Elements(Readable(field)), FieldOf(field))
<1> DEFINE Q == {f \in Seq(Seq(Symbols)) : ReadsAs(f, Elements(Readable(f)), FieldOf(f))}
           none == <<>>
<1>1. none \in Q
  <2>1. none \in Seq(Seq(Symbols)) /\ none \in Seq(Readings) /\ DOMAIN none = {} /\ Len(none) = 0
    OBVIOUS
  <2>2. AllSplit(none)
    BY <2>1, Zenon DEF AllSplit
  <2>3. Readable(none) = none
    BY <2>1, <2>2, ReadableIs, Zenon
  <2>4. Elements(none) = none
    BY ElementsEmpty, Zenon
  <2>5. FieldOf(none) = none
    BY <2>1, FieldOfFlow, FlowEmpty, Zenon
  <2> HIDE DEF none
  <2>6. ReadsAs(none, none, none)
    BY <2>1, <2>2 DEF ReadsAs
  <2> QED
    BY <2>1, <2>3, <2>4, <2>5, <2>6, Zenon
<1>2. ASSUME NEW f \in Seq(Seq(Symbols)), NEW line \in Seq(Symbols), f \in Q
      PROVE  Append(f, line) \in Q
  <2> DEFINE more == Append(f, line)
             E == Elements(Readable(f))
             D == Elements(Readable(more))
             h == FieldOf(f)
             g == FieldOf(more)
             l == LineOf(line)
             v == elements(line).value
             m == Len(E)
  <2>1. ReadsAs(f, E, h)
    BY <1>2, Zenon
  <2>2. more \in Seq(Seq(Symbols))
    BY AppendSeq
  <2>3. g = h \o l /\ l \in Seq(Readings)
    BY FieldOfStep, LineOfTyped, Zenon
  <2>4. /\ AllSplit(more) <=> AllSplit(f) /\ elements(line).error = "Ok"
        /\ AllSplit(more) => D = Elements(more) /\ E = Elements(f)
        /\ ~AllSplit(more) => D = E
    BY ReadableStep, Zenon
  <2>5. Elements(more) = Elements(f) \o v
    BY ElementsStep, Zenon
  <2>6. /\ E \in Seq(Seq(Symbols)) /\ h \in Seq(Readings) /\ Len(h) >= m
        /\ \A k \in 1..m : h[k] = ElementOf(E[k]) /\ Ending(E[k]) = "plain"
        /\ AllSplit(f) => Len(h) = m
        /\ ~AllSplit(f) => Len(h) > m /\ h[m + 1] = Abstract!Unbalanced
    BY <2>1, Zenon DEF ReadsAs
  <2>7. /\ elements(line).error # "Ok" => l = <<Abstract!Unbalanced>>
        /\ elements(line).error = "Ok" =>
                 /\ v \in Sheets /\ Len(l) = Len(v)
                 /\ \A k \in 1..Len(v) : v[k] \in Seq(Symbols) /\ Ending(v[k]) = "plain"
                                         /\ l[k] = ElementOf(v[k])
    BY LineOfTyped, Zenon
  <2> HIDE DEF more, E, D, h, g, l, v
  <2>8. m \in Nat /\ Len(h) \in Nat
    BY <2>6
  <2> HIDE DEF m
  <2>9. /\ g \in Seq(Readings) /\ Len(g) = Len(h) + Len(l) /\ Len(l) \in Nat
        /\ \A k \in 1..Len(h) : g[k] = h[k]
        /\ \A k \in 1..Len(l) : g[Len(h) + k] = l[k]
    <3>1. h \in Seq(Readings) /\ l \in Seq(Readings)
      BY <2>3, <2>6
    <3> DEFINE w == h \o l
    <3>2. /\ w \in Seq(Readings) /\ Len(w) = Len(h) + Len(l) /\ Len(l) \in Nat
          /\ \A k \in 1..Len(h) : w[k] = h[k]
          /\ \A k \in 1..Len(l) : w[Len(h) + k] = l[k]
      BY <3>1, JoinSeq, LenIsNat
    <3> HIDE DEF w
    <3> QED
      BY <2>3, <3>2, Zenon DEF w
  <2>10. CASE AllSplit(more)
    <3>1. /\ D = E \o v /\ v \in Sheets /\ Len(l) = Len(v) /\ Len(h) = m
          /\ \A k \in 1..Len(v) : Ending(v[k]) = "plain" /\ l[k] = ElementOf(v[k])
      BY <2>4, <2>5, <2>6, <2>7, <2>10, Zenon
    <3>2. v \in Seq(Seq(Symbols)) /\ E \in Seq(Seq(Symbols)) /\ Len(v) \in Nat
      BY <2>6, <3>1, SheetTyped
    <3>3. /\ D \in Seq(Seq(Symbols)) /\ Len(D) = m + Len(v)
          /\ \A k \in 1..m : D[k] = E[k]
          /\ \A k \in 1..Len(v) : D[m + k] = v[k]
      <4> DEFINE w == E \o v
      <4>1. /\ w \in Seq(Seq(Symbols)) /\ Len(w) = m + Len(v)
            /\ \A k \in 1..m : w[k] = E[k]
            /\ \A k \in 1..Len(v) : w[m + k] = v[k]
        BY <3>2, JoinSeq, SMTT(60) DEF m
      <4> HIDE DEF w
      <4> QED
        BY <3>1, <4>1, Zenon DEF w
    <3>4. Len(g) = Len(D) /\ Len(g) >= Len(D)
      BY <2>8, <2>9, <3>1, <3>2, <3>3
    <3>5. ASSUME NEW k \in 1..Len(D) PROVE g[k] = ElementOf(D[k]) /\ Ending(D[k]) = "plain"
      <4>1. CASE k \in 1..m
        BY <2>6, <2>9, <3>1, <3>3, <4>1, Zenon
      <4>2. CASE k \notin 1..m
        <5> DEFINE j == k - m
        <5>1. j \in 1..Len(v) /\ k = m + j
          BY <2>8, <3>2, <3>3, <4>2, SMTT(60)
        <5> HIDE DEF j
        <5>2. g[m + j] = l[j] /\ D[m + j] = v[j]
          BY <2>9, <3>1, <3>3, <5>1, Zenon
        <5> QED
          BY <3>1, <5>1, <5>2, Zenon
      <4> QED
        BY <4>1, <4>2
    <3>6. ReadsAs(more, D, g)
      BY <2>9, <2>10, <3>3, <3>4, <3>5, Zenon DEF ReadsAs
    <3> QED
      BY <2>2, <3>6, Zenon DEF D, g, more
  <2>11. CASE ~AllSplit(more)
    <3>1. D = E
      BY <2>4, <2>11, Zenon
    <3>2. \A k \in 1..m : g[k] = ElementOf(E[k]) /\ Ending(E[k]) = "plain"
      <4>1. \A k \in 1..m : g[k] = h[k]
        BY <2>6, <2>8, <2>9
      <4> QED
        BY <2>6, <4>1, Zenon
    <3>3. ASSUME AllSplit(f) PROVE Len(g) > m /\ Len(g) >= m /\ g[m + 1] = Abstract!Unbalanced
      <4>1. elements(line).error # "Ok"
        BY <2>4, <2>11, <3>3, Zenon
      <4>2. l = <<Abstract!Unbalanced>> /\ Len(h) = m
        BY <2>6, <2>7, <3>3, <4>1, Zenon
      <4> DEFINE u == Abstract!Unbalanced
      <4> HIDE DEF u
      <4>3. Len(l) = 1 /\ l[1] = u
        BY <4>2 DEF u
      <4>4. Len(g) > m /\ g[m + 1] = u /\ Len(g) >= m
        BY <2>8, <2>9, <4>2, <4>3
      <4> QED
        BY <4>4, Zenon DEF u
    <3>4. ASSUME ~AllSplit(f) PROVE Len(g) > m /\ Len(g) >= m /\ g[m + 1] = Abstract!Unbalanced
      <4>1. Len(h) > m /\ h[m + 1] = Abstract!Unbalanced
        BY <2>6, <3>4, Zenon
      <4>2. Len(g) > m /\ Len(g) >= m /\ m + 1 \in 1..Len(h)
        BY <2>8, <2>9, <4>1
      <4>3. g[m + 1] = Abstract!Unbalanced
        BY <2>9, <4>1, <4>2, Zenon
      <4> QED
        BY <4>2, <4>3, Zenon
    <3>5. ReadsAs(more, D, g)
      <4>1. ReadsAs(more, E, g)
        BY <2>6, <2>9, <2>11, <3>2, <3>3, <3>4, Zenon DEF ReadsAs, m
      <4> QED
        BY <3>1, <4>1, Zenon
    <3> QED
      BY <2>2, <3>5, Zenon DEF D, g, more
  <2> QED
    BY <2>10, <2>11 DEF more
<1> HIDE DEF Q
<1>3. field \in Q
  <2>1. none \in Q
    BY <1>1
  <2> QED
    BY <1>1, <1>2, SeqInduction DEF none
<1> QED
  BY <1>3, Zenon DEF Q

\* An element and its reading have the same name, blank or not, and are sound
\* together.
LEMMA ReadingOf ==
  ASSUME NEW e \in Seq(Symbols), Ending(e) = "plain"
  PROVE  LET a == ElementOf(e)
         IN /\ Abstract!is_deflate(a) <=> is_deflate(e)
            /\ a.name # "unbalanced"
            /\ Abstract!is_blank(a) <=> is_blank(e)
            /\ a.wellformed <=> is_blank(e) \/ IsExtension(e)
            /\ is_blank(e) => ~is_deflate(e)
            /\ ~is_blank(e) => a.params = [k \in DOMAIN Tail(segments(e).value) |->
                                             ParameterOf(Tail(segments(e).value)[k])]
<1> DEFINE a == ElementOf(e)
           sound == IsExtension(e)
           params == [k \in DOMAIN Tail(segments(e).value) |->
                                             ParameterOf(Tail(segments(e).value)[k])]
           name == IF is_deflate(e) THEN NAME ELSE "other"
           record == [name |-> name, params |-> params, wellformed |-> sound, form |-> "respelled"]
<1>1. ~is_blank(e) => a = record
  BY Zenon DEF ElementOf
<1>2. is_blank(e) => a = [name |-> "blank", params |-> <<>>, wellformed |-> TRUE, form |-> "respelled"]
  BY Zenon DEF ElementOf, Abstract!Blank, Abstract!Plain
<1>3. ASSUME is_blank(e) PROVE ~is_deflate(e)
  <2>1. IsBlank(e) /\ trim(e) = <<>>
    BY <1>3, TrimSolid, Zenon DEF is_blank
  <2>2. "semicolon" # "blank" /\ "dquote" # "blank"
    OBVIOUS
  <2>3. "semicolon" \notin ToSet(e) /\ "dquote" \notin ToSet(e)
    BY <2>1, <2>2, BlankOctets, Zenon
  <2>4. Pieces(e, "semicolon") = AllPieces(e, "semicolon")
    BY <2>3, UnquotedPieces, Zenon
  <2>5. AllPieces(e, "semicolon")[1] = e
    BY <2>3, OnePiece, Zenon
  <2>6. segments(e).value[1] = e
    BY <2>4, <2>5, SplitIs, Zenon DEF segments
  <2>7. <<>> # <<NAME>>
    OBVIOUS
  <2> QED
    BY <2>1, <2>6, <2>7, Zenon DEF is_deflate
<1>4. NAME # "other" /\ NAME # "blank" /\ NAME # "unbalanced" /\ NAME = Abstract!NAME
  BY DEF NAME, Abstract!NAME
<1> HIDE DEF a, sound, params
<1>5. CASE is_blank(e)
  <2>1. a.name = "blank" /\ a.wellformed
    BY <1>2, <1>5
  <2> QED
    BY <1>3, <1>4, <1>5, <2>1 DEF a, Abstract!is_deflate, Abstract!is_blank
<1>6. CASE ~is_blank(e)
  <2> HIDE DEF name
  <2>1. a.name = name /\ a.params = params /\ a.wellformed = sound
    BY <1>1, <1>6
  <2>2. name \in {NAME, "other"} /\ (name = NAME <=> is_deflate(e))
    BY <1>4, Zenon DEF name
  <2>3. "other" # "blank" /\ "other" # "unbalanced"
    OBVIOUS
  <2>4. Abstract!is_deflate(a) <=> is_deflate(e)
    BY <1>4, <2>1, <2>2, Zenon DEF Abstract!is_deflate
  <2>5. a.name # "unbalanced" /\ ~Abstract!is_blank(a)
    BY <1>4, <2>1, <2>2, <2>3, Zenon DEF Abstract!is_blank
  <2>6. a.wellformed <=> IsExtension(e)
    BY <2>1, Zenon DEF sound
  <2> QED
    BY <1>6, <2>1, <2>4, <2>5, <2>6, Zenon DEF a, params
<1> QED
  BY <1>5, <1>6, Zenon

OfDeflate == [x \in Seq(Symbols) |-> OneIf(is_deflate(x), <<x>>)]

\* A walk finds a deflate element if there is one.
LEMMA DeflatesOf ==
  ASSUME NEW found \in Seq(Seq(Symbols))
  PROVE  Deflates(found) # <<>> <=> \E e \in ToSet(found) : is_deflate(e)
<1>1. ASSUME NEW x \in Seq(Symbols) PROVE OneIf(is_deflate(x), <<x>>) \in Seq(Seq(Symbols))
  <2>1. <<x>> \in Seq(Seq(Symbols)) /\ <<>> \in Seq(Seq(Symbols))
    BY OneSeq
  <2> QED
    BY <2>1, Zenon DEF OneIf
<1>2. Turns(OfDeflate, Seq(Symbols), Seq(Seq(Symbols)))
  BY <1>1, Zenon DEF Turns, OfDeflate
<1>3. \A k \in DOMAIN found : found[k] \in Seq(Symbols)
  BY LineOfField, Zenon
<1>4. Deflates(found) = Flow(OfDeflate, found)
  <2>1. \A k \in DOMAIN found : OfDeflate[found[k]] = OneIf(is_deflate(found[k]), <<found[k]>>)
    BY <1>3, Zenon DEF OfDeflate
  <2>2. [k \in DOMAIN found |-> OneIf(is_deflate(found[k]), <<found[k]>>)]
          = [k \in DOMAIN found |-> OfDeflate[found[k]]]
    BY <2>1, Zenon
  <2> QED
    BY <2>2, Zenon DEF Deflates, Flow, Mapped
<1>5. \A e \in ToSet(found) : e \in Seq(Symbols) /\ OfDeflate[e] = OneIf(is_deflate(e), <<e>>)
  BY <1>3, Zenon DEF ToSet, OfDeflate
<1> DEFINE d == Flow(OfDeflate, found)
<1>6. /\ \A x \in ToSet(d) : \E c \in ToSet(found) : x \in ToSet(OfDeflate[c])
      /\ \A c \in ToSet(found) : \A x \in ToSet(OfDeflate[c]) : x \in ToSet(d)
  BY <1>2, FlowElements
<1>7. d \in Seq(Seq(Symbols))
  BY <1>2, FlowTyped
<1> HIDE DEF d
<1>8. /\ \A x : x \notin ToSet(<<>>)
      /\ \A x : x \in ToSet(<<x>>)
  BY DEF ToSet
<1>9. ASSUME NEW e \in ToSet(found), is_deflate(e) PROVE d # <<>>
  <2>1. OfDeflate[e] = <<e>>
    BY <1>5, <1>9, Zenon DEF OneIf
  <2>2. e \in ToSet(d)
    BY <1>6, <1>8, <2>1, Zenon
  <2> QED
    BY <1>8, <2>2, Zenon
<1>10. ASSUME d # <<>> PROVE \E e \in ToSet(found) : is_deflate(e)
  <2>1. d[1] \in ToSet(d)
    <3>1. 1 \in DOMAIN d
      BY <1>7, <1>10
    <3> QED
      BY <3>1, Zenon DEF ToSet
  <2>2. PICK c \in ToSet(found) : d[1] \in ToSet(OfDeflate[c])
    BY <1>6, <2>1, Zenon
  <2>3. OfDeflate[c] # <<>>
    BY <1>8, <2>2, Zenon
  <2>4. is_deflate(c)
    BY <1>5, <2>3, Zenon DEF OneIf
  <2> QED
    BY <2>4, Zenon
<1> QED
  BY <1>4, <1>9, <1>10, Zenon DEF d

\* What contains_deflate says of the walk.
LEMMA ContainsTyped ==
  ASSUME NEW field
  PROVE  /\ contains_deflate(field) = "Yes" <=> Selections(Readable(field)) # <<>>
         /\ contains_deflate(field) = "No" => Readable(field) = field
<1>1. "Yes" # "No" /\ "MalformedHeader" # "No" /\ "MalformedHeader" # "Yes"
  OBVIOUS
<1> QED
  BY <1>1, Zenon DEF contains_deflate

\* A field and its reading are validated and searched alike.
LEMMA FieldAgrees ==
  ASSUME NEW field \in Seq(Seq(Symbols))
  PROVE  LET h == FieldOf(field)
         IN /\ Abstract!validate(h) = validate(field)
            /\ contains_deflate(field) = "Yes" <=> Abstract!DeflatesIn(h) # {}
            /\ contains_deflate(field) = "No" => Abstract!Splits(h)
<1> DEFINE h == FieldOf(field)
           E == Elements(Readable(field))
           m == Len(E)
<1>1. ReadsAs(field, E, h)
  BY FieldReads, Zenon
<1>2. Readable(field) = field <=> AllSplit(field)
  BY ReadableIs, Zenon
<1>3. Selections(Readable(field)) = Deflates(E)
  BY Zenon DEF Selections
<1>4. AllSplit(field) => E = Elements(field)
  BY <1>2, Zenon
<1> HIDE DEF h, E
<1>5. /\ E \in Seq(Seq(Symbols)) /\ h \in Seq(Readings) /\ Len(h) >= m
      /\ \A k \in 1..m : h[k] = ElementOf(E[k]) /\ Ending(E[k]) = "plain"
      /\ AllSplit(field) => Len(h) = m
      /\ ~AllSplit(field) => Len(h) > m /\ h[m + 1] = Abstract!Unbalanced
  BY <1>1, Zenon DEF ReadsAs
<1>6. /\ m \in Nat /\ Len(h) \in Nat /\ DOMAIN h = 1..Len(h) /\ DOMAIN E = 1..m
      /\ \A k \in 1..m : E[k] \in Seq(Symbols)
  BY <1>5
<1> HIDE DEF m
<1>16. Len(h) >= m /\ (~AllSplit(field) => Len(h) > m)
  BY <1>5, Zenon
<1>17. \A i \in 1..m : i \in DOMAIN h /\ \A j \in 1..i : j \in 1..m
  <2>1. m \in Nat /\ Len(h) \in Nat /\ Len(h) >= m /\ DOMAIN h = 1..Len(h)
    BY <1>6, <1>16, Zenon
  <2> DEFINE l == Len(h)
             d == DOMAIN h
  <2> HIDE DEF l, d
  <2>2. m \in Nat /\ l \in Nat /\ l >= m /\ d = 1..l
    BY <2>1, Zenon DEF l, d
  <2>3. \A i \in 1..m : i \in d /\ \A j \in 1..i : j \in 1..m
    BY <2>2
  <2> QED
    BY <2>3, Zenon DEF d
<1>18. \A i \in DOMAIN h : i \notin 1..m => m + 1 \in 1..i /\ m + 1 \in DOMAIN h /\ Len(h) # m
  <2>1. m \in Nat /\ Len(h) \in Nat /\ Len(h) >= m /\ DOMAIN h = 1..Len(h)
    BY <1>6, <1>16, Zenon
  <2> DEFINE l == Len(h)
             d == DOMAIN h
  <2> HIDE DEF l, d
  <2>2. m \in Nat /\ l \in Nat /\ l >= m /\ d = 1..l
    BY <2>1, Zenon DEF l, d
  <2>3. \A i \in d : i \notin 1..m => m + 1 \in 1..i /\ m + 1 \in d /\ l # m
    BY <2>2
  <2> QED
    BY <2>3, Zenon DEF d, l
<1>19. ~AllSplit(field) => m + 1 \in DOMAIN h
  <2> SUFFICES ASSUME ~AllSplit(field) PROVE m + 1 \in DOMAIN h
    OBVIOUS
  <2>1. m \in Nat /\ Len(h) \in Nat /\ Len(h) > m /\ DOMAIN h = 1..Len(h)
    BY <1>6, <1>16, Zenon
  <2> DEFINE l == Len(h)
             d == DOMAIN h
  <2> HIDE DEF l, d
  <2>2. m \in Nat /\ l \in Nat /\ l > m /\ d = 1..l
    BY <2>1, Zenon DEF l, d
  <2>3. m + 1 \in d
    BY <2>2
  <2> QED
    BY <2>3, Zenon DEF d
<1>7. /\ \A k \in 1..m : E[k] \in ToSet(E)
      /\ \A e \in ToSet(E) : \E k \in 1..m : e = E[k]
  BY <1>6, Zenon DEF ToSet
<1>8. ASSUME NEW k \in 1..m
      PROVE  /\ Abstract!is_deflate(h[k]) <=> is_deflate(E[k])
             /\ h[k].name # "unbalanced"
             /\ Abstract!is_blank(h[k]) <=> is_blank(E[k])
             /\ h[k].wellformed <=> is_blank(E[k]) \/ IsExtension(E[k])
  BY <1>5, <1>6, ReadingOf, ZenonT(60)
<1>9. Abstract!Readable(h) = 1..m
  <2>1. ASSUME NEW i \in 1..m PROVE i \in Abstract!Readable(h)
    <3>1. i \in DOMAIN h /\ \A j \in 1..i : j \in 1..m
      BY <1>17, Zenon
    <3> QED
      BY <1>8, <3>1, Zenon DEF Abstract!Readable
  <2>2. ASSUME NEW i \in Abstract!Readable(h) PROVE i \in 1..m
    <3>1. i \in DOMAIN h /\ \A j \in 1..i : h[j].name # "unbalanced"
      BY Zenon DEF Abstract!Readable
    <3>2. SUFFICES ASSUME i \notin 1..m PROVE FALSE
      OBVIOUS
    <3>3. m + 1 \in 1..i /\ Len(h) # m
      BY <1>18, <3>1, <3>2, Zenon
    <3>4. h[m + 1] = Abstract!Unbalanced
      BY <1>5, <3>3, Zenon
    <3>5. Abstract!Unbalanced.name = "unbalanced"
      BY DEF Abstract!Unbalanced, Abstract!Plain
    <3> QED
      BY <3>1, <3>3, <3>4, <3>5, Zenon
  <2> QED
    BY <2>1, <2>2
<1>10. contains_deflate(field) = "Yes" <=> Abstract!DeflatesIn(h) # {}
  <2>1. Abstract!DeflatesIn(h) # {} <=> \E k \in 1..m : is_deflate(E[k])
    BY <1>8, <1>9 DEF Abstract!DeflatesIn
  <2>2. Deflates(E) # <<>> <=> \E e \in ToSet(E) : is_deflate(e)
    BY <1>5, DeflatesOf, Zenon
  <2> QED
    BY <1>3, <1>7, <2>1, <2>2, ContainsTyped, Zenon
<1>11. contains_deflate(field) = "No" => Abstract!Splits(h)
  <2> SUFFICES ASSUME contains_deflate(field) = "No" PROVE Abstract!Splits(h)
    OBVIOUS
  <2>1. AllSplit(field)
    BY <1>2, ContainsTyped, Zenon
  <2>2. Len(h) = m
    BY <1>5, <2>1, Zenon
  <2> QED
    BY <1>6, <1>9, <2>2, Zenon DEF Abstract!Splits
<1> DEFINE good == /\ \A i \in DOMAIN h : h[i].wellformed /\ h[i].name # "unbalanced"
                   /\ h # <<>> => \E i \in DOMAIN h : ~Abstract!is_blank(h[i])
<1>12. Abstract!validate(h) = IF good THEN "Ok" ELSE "MalformedHeader"
  BY Zenon DEF Abstract!validate
<1> HIDE DEF good
<1>13. good <=> validate(field) = "Ok"
  <2>1. CASE ~AllSplit(field)
    <3>1. validate(field) # "Ok"
      <4>1. PICK i \in DOMAIN field : elements(field[i]).error # "Ok"
        BY <2>1, Zenon DEF AllSplit
      <4>2. field[i] \in ToSet(field)
        BY LineOfField, Zenon
      <4>3. "MalformedHeader" # "Ok"
        OBVIOUS
      <4> QED
        BY <4>1, <4>2, <4>3, Zenon DEF validate
    <3>2. m + 1 \in DOMAIN h
      BY <1>19, <2>1, Zenon
    <3>3. h[m + 1].name = "unbalanced"
      <4>1. Abstract!Unbalanced.name = "unbalanced"
        BY DEF Abstract!Unbalanced, Abstract!Plain
      <4> QED
        BY <1>5, <2>1, <4>1, Zenon
    <3> QED
      BY <3>1, <3>2, <3>3, Zenon DEF good
  <2>2. CASE AllSplit(field) /\ field = <<>>
    <3>1. E = <<>>
      BY <1>4, <2>2, ElementsEmpty, Zenon
    <3>2. m = 0
      BY <3>1 DEF m
    <3>3. h = <<>> /\ DOMAIN h = {}
      BY <1>5, <1>6, <2>2, <3>2
    <3>4. good
      BY <3>3, Zenon DEF good
    <3>5. validate(<<>>) = "Ok"
      <4>1. \A line : line \notin ToSet(<<>>)
        BY DEF ToSet
      <4> QED
        BY <4>1, Zenon DEF validate
    <3> QED
      BY <2>2, <3>4, <3>5, Zenon
  <2>3. CASE AllSplit(field) /\ field # <<>>
    <3>1. DOMAIN h = 1..m /\ E = Elements(field)
      BY <1>4, <1>5, <1>6, <2>3, Zenon
    <3>2. validate(field) = "Ok" <=>
           /\ \A e \in ToSet(E) : is_blank(e) \/ validate_element(e)
           /\ \E e \in ToSet(E) : ~is_blank(e)
      BY <2>3, <3>1, ValidateReadsElements, Zenon
    <3>3. \A k \in 1..m : validate_element(E[k]) <=> IsExtension(E[k])
      BY <1>6, ElementIs, Zenon
    <3>4. h # <<>>
      <4> DEFINE line == field[1]
      <4>1. line \in Seq(Symbols) /\ line \in ToSet(field) /\ elements(line).error = "Ok"
        <5>1. 1 \in DOMAIN field
          BY <2>3
        <5> QED
          BY <2>3, <5>1, LineOfField, Zenon DEF AllSplit
      <4> DEFINE v == elements(line).value
      <4>2. v \in Sheets
        BY <4>1, LineOfTyped, Zenon
      <4> HIDE DEF v, line
      <4>3. Len(v) \in DOMAIN v
        BY <4>2, SheetTyped DEF Sheets
      <4>4. v[Len(v)] \in ToSet(v)
        BY <4>3, Zenon DEF ToSet
      <4>5. v[Len(v)] \in ToSet(E)
        BY <3>1, <4>1, <4>4, ElementsSet, Zenon DEF v
      <4>6. PICK k \in 1..m : TRUE
        BY <1>7, <4>5, Zenon
      <4> QED
        BY <1>6, <3>1, <4>6
    <3>5. good <=> /\ \A k \in 1..m : is_blank(E[k]) \/ IsExtension(E[k])
                   /\ \E k \in 1..m : ~is_blank(E[k])
      BY <1>8, <3>1, <3>4, Zenon DEF good
    <3> QED
      BY <1>7, <3>2, <3>3, <3>5, Zenon
  <2> QED
    BY <2>1, <2>2, <2>3, Zenon
<1>14. validate(field) \in {"Ok", "MalformedHeader"}
  BY ValidateTyped, Zenon
<1>15. Abstract!validate(h) = validate(field)
  BY <1>12, <1>13, <1>14, Zenon
<1> QED
  BY <1>10, <1>11, <1>15, Zenon DEF h

-----------------------------------------------------------------------------
(* Numbers.                                                                 *)

\* Checked arithmetic stops at the first number a u8 does not hold.
LEMMA Capped ==
  ASSUME NEW y \in Nat
  PROVE  Min({y, 256}) = IF y <= 256 THEN y ELSE 256
<1>1. {y, 256} \in SUBSET Nat
  OBVIOUS
<1>2. CASE y <= 256
  <2>1. y \in {y, 256} /\ \A z \in {y, 256} : y <= z
    BY <1>2
  <2>2. Min({y, 256}) = y
    BY <1>1, <2>1, MinIs, Zenon
  <2> QED
    BY <1>2, <2>2, Zenon
<1>3. CASE ~(y <= 256)
  <2>1. 256 \in {y, 256} /\ \A z \in {y, 256} : 256 <= z
    BY <1>3
  <2>2. Min({y, 256}) = 256
    BY <1>1, <2>1, MinIs, Zenon
  <2> QED
    BY <1>3, <2>2, Zenon
<1> QED
  BY <1>2, <1>3, Zenon

\* What Number adds up, digit by digit.
Totals(f, t) ==
  /\ f[0] = 0 /\ Number(t) = f[Len(t)]
  /\ \A i \in 0..Len(t) : f[i] \in 0..256
  /\ \A i \in 1..Len(t) : f[i] = Min({f[i - 1] * 10 + Value(t[i]), 256})

LEMMA NumberSteps ==
  ASSUME NEW t \in Seq(Symbols), \A i \in 1..Len(t) : Value(t[i]) \in 0..9
  PROVE  \E f : Totals(f, t)
<1> DEFINE n == Len(t)
           v(i) == Value(t[i])
           Adds(x, i) == Min({x * 10 + v(i), U8_MAX + 1})
           step == [i \in 1..n |-> [x \in 0..256 |-> Adds(x, i)]]
           Is(f) == f = [i \in 0..n |-> IF i = 0 THEN 0 ELSE Adds(f[i - 1], i)]
<1>1. n \in Nat /\ 0 \in 0..256
  BY LenIsNat
<1>2. U8_MAX + 1 = 256
  BY DEF U8_MAX
<1>3. \A i \in 1..n : v(i) \in 0..9
  OBVIOUS
<1>10. Number(t) = (CHOOSE f : Is(f))[n]
  BY Zenon DEF Number
<1>11. \A x, i : Adds(x, i) = Min({x * 10 + v(i), 256})
  BY <1>2, Zenon
<1> HIDE DEF v, Adds
<1>4. ASSUME NEW i \in 1..n, NEW x \in 0..256 PROVE Adds(x, i) \in 0..256
  <2> DEFINE y == x * 10 + v(i)
  <2>1. y \in Nat
    BY <1>3
  <2> HIDE DEF y
  <2>2. Min({y, 256}) = IF y <= 256 THEN y ELSE 256
    BY <2>1, Capped
  <2> DEFINE w == Min({y, 256})
  <2>4. w = IF y <= 256 THEN y ELSE 256
    BY <2>2
  <2> HIDE DEF w
  <2>5. w \in 0..256
    BY <2>1, <2>4
  <2>3. Min({y, 256}) \in 0..256
    BY <2>5, ZenonT(60) DEF w
  <2> QED
    BY <1>11, <2>3, Zenon DEF y
<1>5. step \in [1..n -> [0..256 -> 0..256]]
  BY <1>4
<1>6. ASSUME NEW i \in 1..n, NEW x \in 0..256 PROVE step[i][x] = Adds(x, i)
  OBVIOUS
<1> HIDE DEF n, step
<1>7. PICK f : /\ f \in [0..n -> 0..256] /\ f[0] = 0
               /\ \A i \in 1..n : f[i] = step[i][f[i - 1]]
  <2>1. \E f : Unfolds(f, n, 0..256, 0, step)
    <3> DEFINE R == 0..256
    <3>1. n \in Nat /\ 0 \in R /\ step \in [1..n -> [R -> R]]
      BY <1>1, <1>5, Zenon
    <3> HIDE DEF R
    <3>2. \E f : Unfolds(f, n, R, 0, step)
      BY <3>1, RecursionExists
    <3> QED
      BY <3>2, Zenon DEF R
  <2> QED
    BY <2>1, Zenon DEF Unfolds
<1>8. ASSUME NEW i \in 0..n
      PROVE  f[i] = IF i = 0 THEN 0 ELSE Adds(f[i - 1], i)
  <2>1. i # 0 => i \in 1..n /\ f[i - 1] \in 0..256
    BY <1>1, <1>7
  <2> QED
    BY <2>1, <1>6, <1>7, Zenon
<1>9. Is(f)
  <2>1. f = [i \in 0..n |-> f[i]]
    BY <1>7
  <2> QED
    BY <2>1, <1>8, Zenon
<1> DEFINE q == CHOOSE g : Is(g)
<1>12. Is(q)
  <2> HIDE DEF Is
  <2> QED
    BY <1>9, Zenon
<1>13. Number(t) = q[n]
  BY <1>10, Zenon
<1> HIDE DEF q
<1>14. ASSUME NEW i \in 0..n
      PROVE  q[i] = IF i = 0 THEN 0 ELSE Adds(q[i - 1], i)
  BY <1>12, Zenon
<1>15. q[0] = 0 /\ \A i \in 1..n : i \in 0..n /\ ~(i = 0) /\ q[i] = Adds(q[i - 1], i)
  <2>1. 0 \in 0..n /\ \A i \in 1..n : i \in 0..n /\ ~(i = 0)
    BY <1>1
  <2> QED
    BY <1>14, <2>1, Zenon
<1>16. \A i \in 0..n : q[i] \in 0..256
  <2> DEFINE T == {i \in 0..n : q[i] \in 0..256}
  <2>1. 0 \in T
    BY <1>1, <1>15
  <2>2. ASSUME NEW i \in 1..n, i - 1 \in T PROVE i \in T
    <3>1. q[i - 1] \in 0..256
      BY <2>2
    <3>2. Adds(q[i - 1], i) \in 0..256
      BY <1>4, <3>1, Zenon
    <3> QED
      BY <1>15, <3>2, Zenon
  <2>3. T \in SUBSET (0..n)
    OBVIOUS
  <2> HIDE DEF T
  <2>4. \A i \in 0..n : i \in T
    BY <1>1, <2>1, <2>2, <2>3, UpTo
  <2> QED
    BY <2>4, Zenon DEF T
<1>17. /\ q[0] = 0 /\ Number(t) = q[n] /\ \A i \in 0..n : q[i] \in 0..256
       /\ \A i \in 1..n : q[i] = Min({q[i - 1] * 10 + v(i), 256})
  BY <1>11, <1>13, <1>15, <1>16, Zenon
<1> QED
  <2>1. Totals(q, t)
    BY <1>17, Zenon DEF Totals, n, v
  <2> QED
    BY <2>1, Zenon

\* Three digits are no width, unless the first of them is zero.
LEMMA LongNumber ==
  ASSUME NEW t \in Seq(Symbols), Len(t) > 2,
         \A i \in 1..Len(t) : Value(t[i]) \in 0..9, Value(t[1]) # 0
  PROVE  Number(t) > 15
<1> DEFINE n == Len(t)
<1>1. n \in Nat /\ n > 2
  BY LenIsNat
<1>20. PICK f : Totals(f, t)
  BY NumberSteps, Zenon
<1>2. /\ f[0] = 0 /\ Number(t) = f[n]
      /\ \A i \in 0..n : f[i] \in 0..256
      /\ \A i \in 1..n : f[i] = Min({f[i - 1] * 10 + Value(t[i]), 256})
  BY <1>20, Zenon DEF Totals
<1> DEFINE v(i) == Value(t[i])
<1>3. \A i \in 1..n : v(i) \in 0..9
  OBVIOUS
<1>4. v(1) # 0
  OBVIOUS
<1>5. \A i \in 1..n : f[i] = Min({f[i - 1] * 10 + v(i), 256})
  BY <1>2, Zenon
<1> HIDE DEF n, v
<1> DEFINE Holds(x, i) == x \in 0..256 /\ (i >= 1 => x >= 1) /\ (i >= 2 => x >= 10) /\ (i >= 3 => x >= 16)
           T == {i \in 0..n : Holds(f[i], i)}
<1>6. 0 \in T
  BY <1>1, <1>2
<1>7. ASSUME NEW i \in 1..n, i - 1 \in T PROVE i \in T
  <2> DEFINE x == f[i - 1]
             y == x * 10 + v(i)
  <2>1. Holds(x, i - 1) /\ i \in Int /\ i >= 1 /\ i \in 0..n
    BY <1>1, <1>7
  <2>2. f[i] = Min({y, 256})
    BY <1>5, Zenon
  <2> HIDE DEF x
  <2>3. y \in Nat /\ (i = 1 => y >= 1) /\ (i >= 2 => y >= 10) /\ (i >= 3 => y >= 100)
    <3>1. x \in 0..256 /\ v(i) \in 0..9
      BY <1>3, <2>1
    <3>2. (i >= 2 => x >= 1) /\ (i >= 3 => x >= 10)
      BY <2>1
    <3>3. i = 1 => v(i) >= 1
      BY <1>4, <3>1
    <3> DEFINE w == v(i)
    <3> HIDE DEF w
    <3>4. x \in 0..256 /\ w \in 0..9 /\ (i = 1 => w >= 1)
      BY <3>1, <3>3 DEF w
    <3>5. x * 10 + w \in Nat /\ (i = 1 => x * 10 + w >= 1) /\ (i >= 2 => x * 10 + w >= 10)
          /\ (i >= 3 => x * 10 + w >= 100)
      BY <2>1, <3>2, <3>4
    <3> QED
      BY <3>5, Zenon DEF w
  <2> HIDE DEF y
  <2>4. Min({y, 256}) = IF y <= 256 THEN y ELSE 256
    BY <2>3, Capped
  <2> DEFINE w == Min({y, 256})
  <2>6. w = IF y <= 256 THEN y ELSE 256
    BY <2>4
  <2> HIDE DEF w
  <2>7. w \in 0..256 /\ (i >= 1 => w >= 1) /\ (i >= 2 => w >= 10) /\ (i >= 3 => w >= 16)
    BY <2>1, <2>3, <2>6
  <2>5. Holds(Min({y, 256}), i)
    BY <2>7, Zenon DEF w
  <2> QED
    BY <2>1, <2>2, <2>5, ZenonT(60)
<1>8. T \in SUBSET (0..n)
  OBVIOUS
<1> HIDE DEF T
<1>9. \A i \in 0..n : i \in T
  BY <1>1, <1>6, <1>7, <1>8, UpTo
<1>10. n \in T
  BY <1>1, <1>9
<1>12. f[n] > 15
  <2> DEFINE z == f[n]
  <2>1. Holds(f[n], n)
    <3> HIDE DEF Holds
    <3> QED
      BY <1>10, Zenon DEF T
  <2>2. z \in 0..256 /\ (n >= 3 => z >= 16)
    BY <2>1, Zenon
  <2> HIDE DEF z
  <2>3. z > 15
    BY <1>1, <2>2
  <2> QED
    BY <2>3, Zenon DEF z
<1> QED
  BY <1>2, <1>12, Zenon

\* What parse_bits takes.
Proper(t) ==
  /\ ~(t = <<>> \/ (\E i \in DOMAIN t : ~IsDigit(t[i])))
  /\ ~(Len(t) > 1 /\ Head(t) = "0")
  /\ Number(t) \in Abstract!WireBits

\* A digit has one value.
LEMMA DigitOf ==
  ASSUME NEW c, IsDigit(c)
  PROVE  Value(c) \in 0..9 /\ c = Digits[Value(c) + 1]
<1>1. PICK i \in 1..10 : c = Digits[i]
  BY DigitsAre, Zenon DEF IsDigit, ToSet
<1> DEFINE m == i - 1
<1>2. m \in 0..9 /\ i = m + 1
  OBVIOUS
<1> HIDE DEF m
<1>3. Value(Digits[m + 1]) = m
  BY <1>2, DigitIs, Zenon
<1>4. c = Digits[m + 1]
  BY <1>1, <1>2, Zenon
<1>5. Value(c) = m
  BY <1>3, <1>4, Zenon
<1> QED
  BY <1>2, <1>4, <1>5, Zenon

\* The texts it takes are the wire forms, and each is the form of its number.
LEMMA DigitsAgree ==
  ASSUME NEW t \in Seq(Symbols)
  PROVE  /\ Proper(t) <=> \E n \in Abstract!WireBits : t = WireForm(n)
         /\ \A n \in Abstract!WireBits : t = WireForm(n) => Number(t) = n
<1>1. ASSUME NEW n \in Abstract!WireBits, t = WireForm(n) PROVE Number(t) = n /\ Proper(t)
  <2>1. /\ Len(t) \in 1..2 /\ \A i \in 1..Len(t) : IsDigit(t[i])
        /\ Len(t) > 1 => t[1] # "0"
        /\ Number(t) = n
    BY <1>1, WireFormIs, Zenon
  <2>2. t # <<>> /\ Head(t) = t[1] /\ DOMAIN t = 1..Len(t)
    BY <2>1
  <2> QED
    BY <1>1, <2>1, <2>2, Zenon DEF Proper
<1>2. ASSUME Proper(t) PROVE \E n \in Abstract!WireBits : t = WireForm(n)
  <2> DEFINE k == Len(t)
             a == Value(t[1])
             b == Value(t[2])
             n == Number(t)
  <2>1. /\ t # <<>> /\ (\A i \in DOMAIN t : IsDigit(t[i]))
        /\ ~(k > 1 /\ Head(t) = "0") /\ n \in Abstract!WireBits
    BY <1>2, Zenon DEF Proper
  <2>2. k \in Nat /\ k > 0 /\ DOMAIN t = 1..k /\ Head(t) = t[1]
    BY <2>1
  <2>3. n \in 8..15
    BY <2>1, Zenon DEF Abstract!WireBits
  <2>4. \A i \in 1..k : Value(t[i]) \in 0..9 /\ t[i] = Digits[Value(t[i]) + 1]
    BY <2>1, <2>2, DigitOf, Zenon
  <2>5. 1 \in 1..k /\ (k = 2 => 2 \in 1..k)
    BY <2>2
  <2>6. a \in 0..9 /\ t[1] = Digits[a + 1] /\ (k = 2 => b \in 0..9 /\ t[2] = Digits[b + 1])
    BY <2>4, <2>5, Zenon
  <2>7. k > 1 => a # 0
    <3>1. Digits[0 + 1] = "0"
      BY DEF Digits
    <3> QED
      BY <2>1, <2>2, <2>6, <3>1, Zenon
  <2>8. CASE k = 1
    <3>1. n = a
      <4>1. Number(t) = IF Len(t) = 1 THEN a ELSE a * 10 + a
        BY <2>6, <2>8, ShortNumber
      <4> QED
        BY <2>8, <4>1, Zenon
    <3> HIDE DEF n
    <3>2. n < 10
      BY <2>6, <3>1
    <3>3. WireForm(n) = <<t[1]>>
      BY <2>6, <3>1, <3>2, Zenon DEF WireForm
    <3>4. t = <<t[1]>>
      <4> HIDE DEF a, b
      <4> QED
        BY <2>8 DEF k
    <3> QED
      BY <2>1, <3>3, <3>4, Zenon
  <2>9. CASE k = 2
    <3>1. n = a * 10 + b
      <4>1. Number(t) = IF Len(t) = 1 THEN a ELSE a * 10 + b
        <5> HIDE DEF a, b
        <5>2. Len(t) \in 1..2
          BY <2>9
        <5>1. Value(t[1]) = a /\ Value(t[2]) = b /\ a \in 0..9 /\ b \in 0..9 /\ Len(t) \in 1..2
          BY <2>6, <2>9, <5>2, Zenon DEF a, b
        <5> QED
          BY <5>1, ShortNumber, Zenon
      <4>2. Len(t) # 1
        BY <2>9
      <4> QED
        BY <4>1, <4>2, Zenon
    <3> HIDE DEF n, a, b
    <3>7. n \in 8..15 /\ a \in 0..9 /\ b \in 0..9 /\ a # 0
      <4>1. k > 1
        BY <2>9
      <4> QED
        BY <2>3, <2>6, <2>7, <2>9, <4>1, Zenon
    <3>2. a = 1 /\ b = n - 10 /\ ~(n < 10) /\ b + 1 = n - 9 /\ a + 1 = 2
      BY <3>1, <3>7
    <3>3. Digits[2] = "1"
      BY DEF Digits
    <3>4. t[1] = "1" /\ t[2] = Digits[n - 9]
      BY <2>6, <2>9, <3>2, <3>3, Zenon
    <3>5. WireForm(n) = <<t[1], t[2]>>
      BY <3>2, <3>4, Zenon DEF WireForm
    <3>6. t = <<t[1], t[2]>>
      BY <2>9 DEF k
    <3> QED
      BY <2>1, <3>5, <3>6, Zenon
  <2>10. CASE k > 2
    <3>1. a # 0
      BY <2>2, <2>7, <2>10
    <3>2. n > 15
      BY <2>4, <2>10, <3>1, LongNumber
    <3> QED
      BY <2>3, <3>2
  <2>11. k = 1 \/ k = 2 \/ k > 2
    BY <2>2
  <2> QED
    BY <2>8, <2>9, <2>10, <2>11, Zenon
<1> QED
  BY <1>1, <1>2, Zenon

-----------------------------------------------------------------------------
(* What a value stands for.                                                 *)

\* The octets of a value that are not its quotes, its escapes or its blanks.
Marks == {"dquote", "backslash", "blank"}
Letters == [c \in Symbols |-> OneIf(c \notin Marks, <<c>>)]
TextOf(value) == Flow(Letters, value)

\* Each octet adds itself, or nothing.
LEMMA LettersTurn ==
  /\ Turns(Letters, Symbols, Seq(Symbols))
  /\ \A c \in Symbols : /\ c \in Marks => Letters[c] = <<>>
                        /\ c \notin Marks => Letters[c] = <<c>>
<1>1. ASSUME NEW c \in Symbols PROVE OneIf(c \notin Marks, <<c>>) \in Seq(Symbols)
  <2>1. <<c>> \in Seq(Symbols) /\ <<>> \in Seq(Symbols)
    BY OneSeq
  <2> QED
    BY <2>1, Zenon DEF OneIf
<1>2. Turns(Letters, Symbols, Seq(Symbols))
  BY <1>1, Zenon DEF Turns, Letters
<1>3. \A c \in Symbols : Letters[c] = OneIf(c \notin Marks, <<c>>)
  BY Zenon DEF Letters
<1> QED
  BY <1>2, <1>3, Zenon DEF OneIf

\* The text Written goes by.
LEMMA TextOfTyped ==
  ASSUME NEW value \in Seq(Symbols)
  PROVE  /\ TextOf(value) \in Seq(Symbols)
         /\ TextOf(value) = FlattenSeq([i \in DOMAIN value |->
                OneIf(value[i] \notin {"dquote", "backslash", "blank"}, <<value[i]>>)])
<1>1. TextOf(value) \in Seq(Symbols)
  <2>1. Flow(Letters, value) \in Seq(Symbols)
    BY LettersTurn, FlowTyped
  <2> QED
    BY <2>1, Zenon DEF TextOf
<1>2. \A i \in DOMAIN value : value[i] \in Symbols
  OBVIOUS
<1>3. \A i \in DOMAIN value :
        Letters[value[i]] = OneIf(value[i] \notin {"dquote", "backslash", "blank"}, <<value[i]>>)
  BY <1>2, Zenon DEF Letters, Marks
<1>4. [i \in DOMAIN value |-> Letters[value[i]]]
        = [i \in DOMAIN value |->
             OneIf(value[i] \notin {"dquote", "backslash", "blank"}, <<value[i]>>)]
  BY <1>3, Zenon
<1> QED
  BY <1>1, <1>4, Zenon DEF TextOf, Flow, Mapped

\* No token character is left out.
LEMMA TcharMarks == \A c : is_tchar(c) => c \notin Marks
BY Zenon DEF is_tchar, Marks

\* A token stands for itself.
LEMMA TextOfToken ==
  ASSUME NEW t \in Seq(Symbols), \A c \in ToSet(t) : is_tchar(c)
  PROVE  TextOf(t) = t
<1> DEFINE Q == {u \in Seq(Symbols) : (\A c \in ToSet(u) : is_tchar(c)) => TextOf(u) = u}
<1>1. <<>> \in Q
  <2>1. <<>> \in Seq(Symbols)
    OBVIOUS
  <2>2. TextOf(<<>>) = <<>>
    BY FlowEmpty, Zenon DEF TextOf
  <2> QED
    BY <2>1, <2>2, Zenon
<1>2. ASSUME NEW u \in Seq(Symbols), NEW c \in Symbols, u \in Q PROVE Append(u, c) \in Q
  <2> DEFINE v == Append(u, c)
  <2>1. v \in Seq(Symbols)
    BY AppendSeq
  <2>2. ToSet(v) = ToSet(u) \cup {c}
    BY AppendElements
  <2>3. v = u \o <<c>>
    BY AppendIsJoin
  <2>4. Flow(Letters, Append(u, c)) = Flow(Letters, u) \o Letters[c]
    BY LettersTurn, FlowStep
  <2>5. (\A x \in ToSet(u) : is_tchar(x)) => TextOf(u) = u
    BY <1>2, Zenon
  <2> HIDE DEF v
  <2>6. ASSUME \A x \in ToSet(v) : is_tchar(x) PROVE TextOf(v) = v
    <3>1. (\A x \in ToSet(u) : is_tchar(x)) /\ is_tchar(c)
      BY <2>2, <2>6, Zenon
    <3>2. Letters[c] = <<c>>
      BY <3>1, LettersTurn, TcharMarks, Zenon
    <3> QED
      BY <2>3, <2>4, <2>5, <3>1, <3>2, Zenon DEF TextOf, v
  <2> QED
    BY <2>1, <2>6, Zenon DEF v
<1> HIDE DEF Q
<1>3. t \in Q
  BY <1>1, <1>2, SeqInduction, Zenon
<1> QED
  BY <1>3, Zenon DEF Q

\* So does what is written between quotes, without its escapes.
LEMMA TextOfQuoted ==
  ASSUME NEW t \in Seq(Symbols), IsQuotedToken(t)
  PROVE  TextOf(t) = FlattenSeq(Text(t))
<1> DEFINE n == Len(t)
           q == Quoting(t)
<1>1. n \in Nat /\ DOMAIN t = 1..n /\ \A i \in 1..n : t[i] \in Symbols
  OBVIOUS
<1>2. /\ n > 2 /\ t[1] = "dquote" /\ t[n] = "dquote"
      /\ \A i \in 2..(n - 1) :
           is_tchar(t[i]) \/ (t[i] = "backslash" /\ is_tchar(t[i+1]))
  BY Zenon DEF IsQuotedToken
<1>3. /\ \A i \in 1..(n - 1) : q[i] \in {"quoted", "escaped"}
      /\ \A i \in 1..(n - 1) : q[i] = "escaped" => i > 1 /\ t[i] = "backslash"
  BY QuotedStates, Zenon
<1>4. \A i \in 1..n : q[i] = After(q[i - 1], t[i])
  BY QuotingStep, Zenon
<1> HIDE DEF n, q
<1>5. ~is_tchar("backslash") /\ ~is_tchar("dquote")
  BY DEF is_tchar
<1>6. ASSUME NEW i \in 2..(n - 1) PROVE (q[i] # "escaped") <=> is_tchar(t[i])
  <2>1. i \in 1..(n - 1) /\ i \in 1..n /\ i - 1 \in 1..(n - 1) /\ (i - 1) + 1 = i
        /\ (i - 1 > 1 => i - 1 \in 2..(n - 1))
    BY <1>1, <1>2
  <2>2. CASE is_tchar(t[i])
    BY <1>3, <1>5, <2>1, <2>2, Zenon
  <2>3. CASE ~is_tchar(t[i])
    <3>1. t[i] = "backslash"
      BY <1>2, <2>3, Zenon
    <3>2. q[i - 1] # "escaped"
      <4> SUFFICES ASSUME q[i - 1] = "escaped" PROVE FALSE
        OBVIOUS
      <4>1. i - 1 > 1 /\ t[i - 1] = "backslash"
        BY <1>3, <2>1, Zenon
      <4>2. i - 1 \in 2..(n - 1)
        BY <2>1, <4>1, Zenon
      <4>3. is_tchar(t[i - 1]) \/ is_tchar(t[(i - 1) + 1])
        BY <1>2, <4>2, Zenon
      <4> QED
        BY <1>5, <2>1, <2>3, <4>1, <4>3, Zenon
    <3>3. q[i - 1] = "quoted"
      BY <1>3, <2>1, <3>2, Zenon
    <3>4. After("quoted", "backslash") = "escaped"
      BY DEF After
    <3>5. q[i] = "escaped"
      BY <1>4, <2>1, <3>1, <3>3, <3>4, Zenon
    <3> QED
      BY <2>3, <3>5
  <2> QED
    BY <2>2, <2>3
<1>7. ASSUME NEW i \in 1..n
      PROVE  Letters[t[i]] = OneIf(i \in 2..(n - 1) /\ q[i] # "escaped", <<t[i]>>)
  <2>1. CASE i \in 2..(n - 1)
    <3>1. is_tchar(t[i]) \/ t[i] = "backslash"
      BY <1>2, <2>1, Zenon
    <3>2. CASE is_tchar(t[i])
      <4>1. Letters[t[i]] = <<t[i]>>
        BY <1>1, <3>2, LettersTurn, TcharMarks, Zenon
      <4> QED
        BY <1>6, <2>1, <3>2, <4>1, Zenon DEF OneIf
    <3>3. CASE ~is_tchar(t[i])
      <4>1. t[i] \in Marks
        BY <3>1, <3>3 DEF Marks
      <4>2. Letters[t[i]] = <<>>
        BY <1>1, <4>1, LettersTurn, Zenon
      <4> QED
        BY <1>6, <2>1, <3>3, <4>2, Zenon DEF OneIf
    <3> QED
      BY <3>2, <3>3
  <2>2. CASE i \notin 2..(n - 1)
    <3>1. i = 1 \/ i = n
      BY <1>1, <1>2, <2>2
    <3>2. t[i] \in Marks
      <4>1. t[i] = "dquote"
        BY <1>2, <3>1, Zenon
      <4> QED
        BY <4>1 DEF Marks
    <3>3. Letters[t[i]] = <<>>
      BY <1>1, <3>2, LettersTurn, Zenon
    <3> QED
      BY <2>2, <3>3, Zenon DEF OneIf
  <2> QED
    BY <2>1, <2>2
<1>8. [i \in DOMAIN t |-> Letters[t[i]]] = Text(t)
  BY <1>1, <1>7, Zenon DEF Text, n, q
<1> QED
  BY <1>8, Zenon DEF TextOf, Flow, Mapped

\* A value that is a token, quoted or not, is read as its text.
LEMMA ValueReads ==
  ASSUME NEW value \in Seq(Symbols), ValueIsToken(value)
  PROVE  unquote(trim(value)) = Ok(TextOf(value)) /\ IsToken(TextOf(value))
<1> DEFINE v == trim(value)
           u == unquote(v)
<1>1. u.error = "Ok" /\ IsToken(u.value)
  BY Zenon DEF ValueIsToken
<1>2. v \in Seq(Symbols)
  BY TrimSolid, Zenon
<1>3. PICK a, c \in Seq(Symbols) : IsBlank(a) /\ IsBlank(c) /\ value = (a \o v) \o c
  BY TrimCut, Zenon
<1> HIDE DEF v
<1>4. TextOf(value) = TextOf(v)
  <2>1. ASSUME NEW b \in Seq(Symbols), IsBlank(b) PROVE Flow(Letters, b) = <<>>
    <3>1. ASSUME NEW x \in ToSet(b) PROVE Letters[x] = <<>>
      <4>1. x = "blank"
        BY <2>1, <3>1, BlankOctets, Zenon
      <4>2. x \in Marks
        BY <4>1 DEF Marks
      <4>3. x \in Symbols
        BY Zenon, <4>1, NamesAreSymbols
      <4> QED
        BY <4>2, <4>3, LettersTurn, Zenon
    <3> QED
      BY <3>1, LettersTurn, FlowNothing
  <2> DEFINE w == a \o v
  <2>2. w \in Seq(Symbols)
    BY <1>2, JoinSeq
  <2>3. Flow(Letters, a \o v) = Flow(Letters, a) \o Flow(Letters, v)
    BY <1>2, LettersTurn, FlowJoin, SMTT(60)
  <2> HIDE DEF w
  <2>4. Flow(Letters, w \o c) = Flow(Letters, w) \o Flow(Letters, c)
    BY <2>2, LettersTurn, FlowJoin, SMTT(60)
  <2> DEFINE f == Flow(Letters, v)
  <2>5. f \in Seq(Symbols)
    BY <1>2, LettersTurn, FlowTyped
  <2>6. Flow(Letters, a) = <<>> /\ Flow(Letters, c) = <<>>
    BY <1>3, <2>1, Zenon
  <2> HIDE DEF f
  <2>7. <<>> \o f = f /\ f \o <<>> = f
    BY <2>5, JoinEmpty
  <2>8. Flow(Letters, w) = f
    BY <2>3, <2>6, <2>7, Zenon DEF w, f
  <2> QED
    BY <1>3, <2>4, <2>6, <2>7, <2>8, Zenon DEF TextOf, w, f
<1>5. CASE v = <<>> \/ v[1] # "dquote"
  <2>1. Head(v) = v[1]
    BY <1>2
  <2>2. u = IF Contains(v, "dquote") THEN Err("MalformedHeader") ELSE Ok(v)
    BY <1>5, <2>1, Zenon DEF unquote
  <2>3. u = Ok(v)
    <3>1. Err("MalformedHeader").error # "Ok"
      BY DEF Err
    <3> QED
      BY <1>1, <2>2, <3>1, Zenon
  <2>4. Ok(v).value = v
    BY DEF Ok
  <2>5. IsToken(v)
    BY <1>1, <2>3, <2>4, Zenon
  <2>6. TextOf(v) = v
    BY <1>2, <2>5, TokenOctets, TextOfToken, Zenon
  <2> QED
    BY <1>4, <2>3, <2>5, <2>6, Zenon DEF v
<1>6. CASE ~(v = <<>> \/ v[1] # "dquote")
  <2>1. IsQuotedToken(v)
    BY <1>1, <1>2, <1>6, UnquoteQuoted, Zenon DEF UnquotesToToken
  <2>2. Head(v) = v[1]
    BY <1>2
  <2> DEFINE text == FlattenSeq(Text(v))
             closed == {i \in DOMAIN v : i > 1 /\ Quoting(v)[i] = "plain"}
  <2>3. u = IF closed = {} \/ Min(closed) # Len(v) THEN Err("MalformedHeader") ELSE Ok(text)
    BY <1>6, <2>2, Zenon DEF unquote, Text
  <2> HIDE DEF closed, text
  <2>4. u = Ok(text)
    <3>1. Err("MalformedHeader").error # "Ok"
      BY DEF Err
    <3> QED
      BY <1>1, <2>3, <3>1, Zenon
  <2>5. Ok(text).value = text
    BY DEF Ok
  <2>6. TextOf(v) = text
    BY <1>2, <2>1, TextOfQuoted, Zenon DEF text
  <2> QED
    BY <1>1, <1>4, <2>4, <2>5, <2>6, Zenon DEF v
<1> QED
  BY <1>5, <1>6

\* A width is read as the number it is written as, and anything else is refused.
LEMMA BitsAgree ==
  ASSUME NEW value \in Seq(Symbols), ValueIsToken(value)
  PROVE  \/ Written(value) \in Abstract!WireBits /\ parse_bits(value) = Ok(Written(value))
         \/ Written(value) = Abstract!BadBits /\ parse_bits(value) = Err("InvalidWindowBits")
<1> DEFINE t == TextOf(value)
           u == unquote(trim(value))
           W(n) == n \in Abstract!WireBits /\ t = WireForm(n)
<1>1. u = Ok(t) /\ t \in Seq(Symbols)
  BY ValueReads, TextOfTyped, Zenon
<1>2. Ok(t).error = "Ok" /\ Ok(t).value = t
  BY DEF Ok
<1>3. parse_bits(value) = IF Proper(t) THEN Ok(Number(t)) ELSE Err("InvalidWindowBits")
  <2> DEFINE bad == \/ t = <<>> \/ (\E i \in DOMAIN t : ~IsDigit(t[i]))
                    \/ (Len(t) > 1 /\ Head(t) = "0")
                    \/ Number(t) \notin Abstract!WireBits
  <2>1. parse_bits(value) = IF u.error # "Ok" THEN Err("MalformedHeader")
                            ELSE IF bad THEN Err("InvalidWindowBits") ELSE Ok(Number(t))
    BY <1>1, <1>2, Zenon DEF parse_bits
  <2>2. Proper(t) <=> ~bad
    BY Zenon DEF Proper
  <2> HIDE DEF bad
  <2> QED
    BY <1>1, <1>2, <2>1, <2>2, Zenon
<1>4. Written(value) = IF \E n \in Abstract!WireBits : t = WireForm(n)
                       THEN CHOOSE n \in Abstract!WireBits : t = WireForm(n)
                       ELSE Abstract!BadBits
  BY TextOfTyped, Zenon DEF Written
<1>5. /\ Proper(t) <=> \E n \in Abstract!WireBits : t = WireForm(n)
      /\ \A n \in Abstract!WireBits : t = WireForm(n) => Number(t) = n
  BY <1>1, DigitsAgree, Zenon
<1> DEFINE m == CHOOSE n \in Abstract!WireBits : t = WireForm(n)
<1> HIDE DEF t
<1>6. CASE Proper(t)
  <2>1. m \in Abstract!WireBits /\ t = WireForm(m)
    BY <1>5, <1>6, Zenon
  <2> QED
    BY <1>3, <1>4, <1>5, <1>6, <2>1, Zenon
<1>7. CASE ~Proper(t)
  BY <1>3, <1>4, <1>5, <1>7, Zenon
<1> QED
  BY <1>6, <1>7, Zenon

-----------------------------------------------------------------------------
(* What a parameter sets its slot to.                                       *)

\* What is wrong with a parameter by itself.
Own(q) ==
  IF q.name = "unknown" THEN "UnknownParameter"
  ELSE IF q.name \in Abstract!Flags /\ q.value # Abstract!NoValue THEN "ParameterArity"
  ELSE IF q.name = "server_max_window_bits" /\ q.value = Abstract!NoValue THEN "ParameterArity"
  ELSE IF q.name \in Abstract!Windows /\ q.value \notin Abstract!WireBits \cup {Abstract!NoValue}
       THEN "InvalidWindowBits"
  ELSE "Ok"

\* The names of parameters.
LEMMA KnownNames ==
  /\ \A x : x \in Names <=> \E name \in Flags \cup Windows : x = <<name>>
  /\ \A name : Head(<<name>>) = name
  /\ "unknown" \notin Flags \cup Windows
  /\ "server_max_window_bits" \in Windows
  /\ \A name \in Flags : name \notin Windows /\ name # "server_max_window_bits"
<1>1. \A x : x \in Names <=> \E name \in Flags \cup Windows : x = <<name>>
  BY Zenon DEF Names
<1>2. \A name : Head(<<name>>) = name
  OBVIOUS
<1>3. "unknown" \notin Flags \cup Windows /\ "server_max_window_bits" \in Windows
  BY NamesOfTerms
<1>4. \A name \in Flags : name \notin Windows
  BY NamesOfTerms, Zenon
<1> QED
  BY <1>1, <1>2, <1>3, <1>4, Zenon

\* A value is a part of its parameter.
LEMMA SplitTyped ==
  ASSUME NEW s \in Seq(Symbols)
  PROVE  LET p == split_parameter(s)
         IN p.valued \in BOOLEAN /\ (p.valued => p.value \in Seq(Symbols))
<1> DEFINE p == split_parameter(s)
<1>1. p.valued \in BOOLEAN
  BY DEF split_parameter
<1>2. ASSUME p.valued PROVE p.value \in Seq(Symbols)
  <2>1. "equals" \in ToSet(s)
    <3> SUFFICES ASSUME "equals" \notin ToSet(s) PROVE FALSE
      OBVIOUS
    <3> QED
      BY <1>2, SplitParameterIs, Zenon
  <2>2. PICK e : First(s, e)
    BY <2>1, FirstExists, Zenon
  <2>3. e \in 1..Len(s) /\ p.value = SubSeq(s, e + 1, Len(s))
    BY <2>2, SplitParameterIs, Zenon DEF First
  <2> QED
    BY <2>3, CutAt, Zenon
<1> QED
  BY <1>1, <1>2, Zenon

\* A parameter of a conforming element is read as its reading is, error for
\* error.
LEMMA SettingIs ==
  ASSUME NEW s \in Seq(Symbols), Sound(s)
  PROVE  LET q == ParameterOf(s)
             x == split_parameter(s).name
         IN /\ Setting(s).error = Own(q)
            /\ Own(q) = "Ok" => /\ q.name \in Flags \cup Windows
                                /\ q.name \in Flags => Setting(s).value = TRUE
                                /\ q.name \in Windows => Setting(s).value = q.value
            /\ x \in Names => q.name \in Flags \cup Windows /\ x = <<q.name>>
            /\ x \notin Names => q.name = "unknown"
<1> DEFINE p == split_parameter(s)
           x == p.name
           valued == p.valued
           w == Written(p.value)
           b == parse_bits(p.value)
           q == ParameterOf(s)
           none == Abstract!NoValue
           flag == Abstract!Flags
           window == Abstract!Windows
           bits == Abstract!WireBits
           bad == Abstract!BadBits
           name == IF x \in Names THEN Head(x) ELSE "unknown"
           value == IF valued THEN w ELSE none
<1>1. valued \in BOOLEAN /\ (valued => p.value \in Seq(Symbols))
  BY SplitTyped, Zenon
<1>2. valued => ValueIsToken(p.value)
  BY Zenon DEF Sound
<1>3. valued => \/ w \in bits /\ b = Ok(w)
                \/ w = bad /\ b = Err("InvalidWindowBits")
  BY <1>1, <1>2, BitsAgree, Zenon
<1>4. q.name = name /\ q.value = value
  <2>1. q = [name |-> name, value |-> value]
    BY Zenon DEF ParameterOf, Abstract!Param
  <2> HIDE DEF q, name, value
  <2> QED
    BY <2>1
<1>5. none \notin bits /\ bad \notin bits /\ bad # none
  BY DEF Abstract!NoValue, Abstract!BadBits, Abstract!WireBits
<1>6. /\ Setting(s) = IF x \notin Names THEN Err("UnknownParameter")
                      ELSE IF Head(x) \in Flags
                           THEN IF valued THEN Err("ParameterArity") ELSE Ok(TRUE)
                      ELSE IF valued THEN b
                      ELSE IF Head(x) = "server_max_window_bits" THEN Err("ParameterArity")
                      ELSE Ok(none)
  BY Zenon DEF Setting, Abstract!Valueless
<1>7. /\ \A e : Err(e).error = e
      /\ \A y : Ok(y).error = "Ok" /\ Ok(y).value = y
  BY DEF Err, Ok
<1>8. Flags = flag /\ Windows = window
  BY Zenon DEF Flags, Windows
<1>9. Own(q) = IF q.name = "unknown" THEN "UnknownParameter"
               ELSE IF q.name \in flag /\ q.value # none THEN "ParameterArity"
               ELSE IF q.name = "server_max_window_bits" /\ q.value = none THEN "ParameterArity"
               ELSE IF q.name \in window /\ q.value \notin bits \cup {none}
                    THEN "InvalidWindowBits"
               ELSE "Ok"
  BY Zenon DEF Own
<1>15. "UnknownParameter" # "Ok" /\ "ParameterArity" # "Ok" /\ "InvalidWindowBits" # "Ok"
  OBVIOUS
<1> HIDE DEF q, p, x, valued, w, b, none, flag, window, bits, bad, name, value
<1>10. CASE x \notin Names
  <2>1. q.name = "unknown"
    BY <1>4, <1>10, Zenon DEF name
  <2>2. Setting(s) = Err("UnknownParameter") /\ Own(q) = "UnknownParameter"
    BY <1>6, <1>9, <1>10, <2>1, Zenon
  <2> QED
    BY <1>7, <1>10, <1>15, <2>1, <2>2, Zenon DEF q, x, p
<1>11. CASE x \in Names
  <2>1. PICK n \in Flags \cup Windows : x = <<n>>
    BY <1>11, KnownNames, Zenon
  <2>2. q.name = n /\ Head(x) = n /\ n # "unknown"
    BY <1>4, <1>11, <2>1, KnownNames, Zenon DEF name
  <2>3. q.value = IF valued THEN w ELSE none
    BY <1>4, Zenon DEF value
  <2>4. CASE n \in Flags
    <3>1. n \notin Windows /\ n # "server_max_window_bits"
      BY <2>4, KnownNames, Zenon
    <3>2. CASE valued
      <4>1. q.value # none
        BY <1>3, <1>5, <2>3, <3>2, Zenon
      <4>2. Own(q) = "ParameterArity"
        BY <1>8, <1>9, <2>2, <2>4, <4>1, Zenon
      <4>3. Setting(s) = Err("ParameterArity")
        BY <1>6, <1>11, <2>2, <2>4, <3>2, Zenon
      <4> QED
        BY <1>7, <1>11, <1>15, <2>1, <2>2, <4>2, <4>3, Zenon DEF q, x, p
    <3>3. CASE ~valued
      <4>1. q.value = none
        BY <2>3, <3>3, Zenon
      <4>2. Own(q) = "Ok"
        BY <1>8, <1>9, <2>2, <3>1, <4>1, Zenon
      <4>3. Setting(s) = Ok(TRUE)
        BY <1>6, <1>11, <2>2, <2>4, <3>3, Zenon
      <4> QED
        BY <1>7, <1>11, <2>1, <2>2, <2>4, <3>1, <4>2, <4>3, Zenon DEF q, x, p
    <3> QED
      BY <3>2, <3>3, Zenon
  <2>5. CASE n \notin Flags
    <3>1. n \in Windows
      BY <2>1, <2>5, Zenon
    <3>2. CASE valued /\ w \in bits
      <4>1. q.value = w /\ w # none /\ w \in bits \cup {none} /\ b = Ok(w)
        <5>1. q.value = w /\ w # none /\ b = Ok(w)
          BY <1>3, <1>5, <2>3, <3>2, Zenon
        <5> QED
          BY <3>2, <5>1
      <4>2. Own(q) = "Ok"
        BY <1>8, <1>9, <2>2, <2>5, <4>1, Zenon
      <4>3. Setting(s) = Ok(w)
        BY <1>6, <1>11, <2>2, <2>5, <3>2, <4>1, Zenon
      <4> QED
        BY <1>7, <1>11, <2>1, <2>2, <2>5, <4>1, <4>2, <4>3, Zenon DEF q, x, p
    <3>3. CASE valued /\ w \notin bits
      <4>1. q.value = w /\ w # none /\ w \notin bits \cup {none} /\ b = Err("InvalidWindowBits")
        <5>1. q.value = w /\ w # none /\ b = Err("InvalidWindowBits")
          BY <1>3, <1>5, <2>3, <3>3, Zenon
        <5> QED
          BY <3>3, <5>1
      <4>2. Own(q) = "InvalidWindowBits"
        BY <1>8, <1>9, <2>2, <2>5, <3>1, <4>1, Zenon
      <4>3. Setting(s) = Err("InvalidWindowBits")
        BY <1>6, <1>11, <2>2, <2>5, <3>3, <4>1, Zenon
      <4> QED
        BY <1>7, <1>11, <1>15, <2>1, <2>2, <4>2, <4>3, Zenon DEF q, x, p
    <3>4. CASE ~valued /\ n = "server_max_window_bits"
      <4>1. q.value = none
        BY <2>3, <3>4, Zenon
      <4>2. Own(q) = "ParameterArity"
        BY <1>8, <1>9, <2>2, <2>5, <3>4, <4>1, Zenon
      <4>3. Setting(s) = Err("ParameterArity")
        BY <1>6, <1>11, <2>2, <2>5, <3>4, Zenon
      <4> QED
        BY <1>7, <1>11, <1>15, <2>1, <2>2, <4>2, <4>3, Zenon DEF q, x, p
    <3>5. CASE ~valued /\ n # "server_max_window_bits"
      <4>1. q.value = none /\ none \in bits \cup {none}
        <5>1. q.value = none
          BY <2>3, <3>5, Zenon
        <5> QED
          BY <5>1
      <4>2. Own(q) = "Ok"
        BY <1>8, <1>9, <2>2, <2>5, <3>5, <4>1, Zenon
      <4>3. Setting(s) = Ok(none)
        BY <1>6, <1>11, <2>2, <2>5, <3>5, Zenon
      <4> QED
        BY <1>7, <1>11, <2>1, <2>2, <2>5, <4>1, <4>2, <4>3, Zenon DEF q, x, p
    <3> QED
      BY <3>2, <3>3, <3>4, <3>5, Zenon
  <2> QED
    BY <2>4, <2>5, Zenon
<1> QED
  BY <1>10, <1>11, Zenon

-----------------------------------------------------------------------------
(* Parameters in turn.                                                      *)

\* The parameters of a conforming element, each sound.
LEMMA ParamsSound ==
  ASSUME NEW e \in Seq(Symbols), validate_element(e)
  PROVE  LET given == Tail(segments(e).value)
         IN \E m \in Nat : /\ DOMAIN given = 1..m
                           /\ \A k \in 1..m : given[k] \in Seq(Symbols) /\ Sound(given[k])
<1> DEFINE segs == segments(e).value
           given == Tail(segs)
           m == Len(segs) - 1
<1>1. segments(e).error = "Ok"
  BY Zenon DEF validate_element
<1>2. \A k \in 2..Len(segs) : Sound(segs[k])
  BY Zenon DEF validate_element, Sound
<1>3. "semicolon" # "dquote"
  OBVIOUS
<1>4. segs \in Sheets
  BY <1>1, <1>3, PartsBalanced, Zenon DEF segments
<1> HIDE DEF segs
<1>5. segs \in Seq(Seq(Symbols)) /\ segs # <<>>
  BY <1>4 DEF Sheets
<1>6. /\ m \in Nat /\ DOMAIN given = 1..m
      /\ \A k \in 1..m : given[k] = segs[k + 1] /\ k + 1 \in 2..Len(segs) /\ segs[k + 1] \in Seq(Symbols)
  BY <1>5
<1>7. \A k \in 1..m : given[k] \in Seq(Symbols) /\ Sound(given[k])
  BY <1>2, <1>6, Zenon
<1> HIDE DEF m, given
<1>8. \E l \in Nat : /\ DOMAIN given = 1..l
                     /\ \A k \in 1..l : given[k] \in Seq(Symbols) /\ Sound(given[k])
  BY <1>6, <1>7, Zenon
<1> QED
  BY <1>8, Zenon DEF given, segs

\* The first fault of a set of them, as each module finds it.
LEMMA FirstFault ==
  ASSUME NEW S \in SUBSET Nat, S # {}
  PROVE  Min(S) \in S /\ Min(S) = CHOOSE i \in S : \A j \in S : i <= j
<1>1. PICK x \in S : \A y \in S : x <= y
  BY LeastExists, Zenon
<1>2. Min(S) = x
  BY <1>1, MinIs, Zenon
<1> DEFINE c == CHOOSE i \in S : \A j \in S : i <= j
<1>3. c \in S /\ \A j \in S : c <= j
  BY <1>1, Zenon
<1> HIDE DEF c
<1>4. c = x
  BY <1>1, <1>3
<1> QED
  BY <1>1, <1>2, <1>4, Zenon DEF c

\* A conforming element's parameters are parsed as its reading's are.
LEMMA ParamsAgree ==
  ASSUME NEW e \in Seq(Symbols), validate_element(e)
  PROVE  LET given == Tail(segments(e).value)
             read == parse_params(e)
             meant == Abstract!parse_params([k \in DOMAIN given |-> ParameterOf(given[k])])
         IN read.error = meant.error /\ (read.error = "Ok" => read.value = meant.params)
<1> DEFINE given == Tail(segments(e).value)
           params == [k \in DOMAIN given |-> ParameterOf(given[k])]
           Set(k) == Setting(given[k])
           Name(k) == split_parameter(given[k]).name
           Twice(k) == \E j \in 1..(k - 1) : Name(j) = Name(k)
           Fault(k) == IF Set(k).error # "Ok" THEN Set(k).error
                       ELSE IF Twice(k) THEN "DuplicateParameter" ELSE "Ok"
           faults == {k \in DOMAIN given : Fault(k) # "Ok"}
           Seen(k) == \E j \in 1..(k - 1) : params[j].name = params[k].name
           Wrong(k) == Abstract!Fault(params, k)
           wrongs == {k \in DOMAIN params : Wrong(k) # "Ok"}
<1>1. PICK m \in Nat : /\ DOMAIN given = 1..m
                       /\ \A k \in 1..m : given[k] \in Seq(Symbols) /\ Sound(given[k])
  BY ParamsSound, Zenon
<1>2. DOMAIN params = 1..m /\ \A k \in 1..m : params[k] = ParameterOf(given[k])
  BY <1>1
<1>3. ASSUME NEW k \in 1..m
      PROVE  /\ Set(k).error = Own(params[k])
             /\ Own(params[k]) = "Ok" =>
                  /\ params[k].name \in Flags \cup Windows
                  /\ params[k].name \in Flags => Set(k).value = TRUE
                  /\ params[k].name \in Windows => Set(k).value = params[k].value
             /\ Name(k) \in Names => params[k].name \in Flags \cup Windows /\ Name(k) = <<params[k].name>>
             /\ Name(k) \notin Names => params[k].name = "unknown"
  <2>1. given[k] \in Seq(Symbols) /\ Sound(given[k]) /\ params[k] = ParameterOf(given[k])
    BY <1>1, <1>2, Zenon
  <2> QED
    BY <2>1, SettingIs, Zenon
<1>4. \A k : Wrong(k) = IF Own(params[k]) # "Ok" THEN Own(params[k])
                        ELSE IF Seen(k) THEN "DuplicateParameter" ELSE "Ok"
  <2> SUFFICES ASSUME NEW k
               PROVE  Wrong(k) = IF Own(params[k]) # "Ok" THEN Own(params[k])
                                 ELSE IF Seen(k) THEN "DuplicateParameter" ELSE "Ok"
    OBVIOUS
  <2> DEFINE p == params[k]
             seen == Seen(k)
             f == Wrong(k)
             a == p.name = "unknown"
             b == p.name \in Abstract!Flags /\ p.value # Abstract!NoValue
             c == p.name = "server_max_window_bits" /\ p.value = Abstract!NoValue
             d == p.name \in Abstract!Windows
                    /\ p.value \notin Abstract!WireBits \cup {Abstract!NoValue}
             o == Own(p)
  <2>1. f = IF a THEN "UnknownParameter" ELSE IF b THEN "ParameterArity"
            ELSE IF c THEN "ParameterArity" ELSE IF d THEN "InvalidWindowBits"
            ELSE IF seen THEN "DuplicateParameter" ELSE "Ok"
    BY Zenon DEF Abstract!Fault
  <2>2. o = IF a THEN "UnknownParameter" ELSE IF b THEN "ParameterArity"
            ELSE IF c THEN "ParameterArity" ELSE IF d THEN "InvalidWindowBits" ELSE "Ok"
    BY Zenon DEF Own
  <2>3. "UnknownParameter" # "Ok" /\ "ParameterArity" # "Ok" /\ "InvalidWindowBits" # "Ok"
    OBVIOUS
  <2> HIDE DEF p, seen, f, a, b, c, d, o
  <2>4. f = IF o # "Ok" THEN o ELSE IF seen THEN "DuplicateParameter" ELSE "Ok"
    BY <2>1, <2>2, <2>3, Zenon
  <2> QED
    BY <2>4, Zenon DEF f, o, p, seen
<1>5. "unknown" \notin Flags \cup Windows /\ "DuplicateParameter" # "Ok"
  BY KnownNames
<1>6. /\ \A x : x \in Names <=> \E name \in Flags \cup Windows : x = <<name>>
      /\ \A name : Head(<<name>>) = name
  BY KnownNames, Zenon
<1>7. ASSUME NEW k \in 1..m, NEW name \in Flags \cup Windows
      PROVE  Name(k) = <<name>> <=> params[k].name = name
  <2>1. ASSUME Name(k) = <<name>> PROVE params[k].name = name
    <3>1. Name(k) \in Names
      BY <1>6, <2>1, Zenon
    <3>2. <<name>> = <<params[k].name>>
      BY <1>3, <2>1, <3>1, Zenon
    <3> QED
      BY <1>6, <3>2, Zenon
  <2>2. ASSUME params[k].name = name PROVE Name(k) = <<name>>
    <3>1. Name(k) \in Names
      BY <1>3, <1>5, <2>2, Zenon
    <3> QED
      BY <1>3, <2>2, <3>1, Zenon
  <2> QED
    BY <2>1, <2>2, Zenon
<1> DEFINE read == parse_params(e)
           meant == Abstract!parse_params(params)
           Slot(name, empty) ==
             IF \E k \in DOMAIN given : Name(k) = <<name>>
             THEN Set(CHOOSE k \in DOMAIN given : Name(k) = <<name>>).value ELSE empty
           value == [server_no_context_takeover |-> Slot("server_no_context_takeover", FALSE),
                     client_no_context_takeover |-> Slot("client_no_context_takeover", FALSE),
                     server_max_window_bits |-> Slot("server_max_window_bits", Abstract!Absent),
                     client_max_window_bits |-> Slot("client_max_window_bits", Abstract!Absent)]
           mean == [server_no_context_takeover |-> Abstract!Has(params, "server_no_context_takeover"),
                    client_no_context_takeover |-> Abstract!Has(params, "client_no_context_takeover"),
                    server_max_window_bits     |-> Abstract!Bits(params, "server_max_window_bits"),
                    client_max_window_bits     |-> Abstract!Bits(params, "client_max_window_bits")]
           first == CHOOSE i \in wrongs : \A j \in wrongs : i <= j
           error == IF wrongs = {} THEN "Ok" ELSE Wrong(first)
<1>8. read = IF faults # {} THEN Err(Fault(Min(faults))) ELSE Ok(value)
  BY Zenon DEF parse_params
<1>9. meant.error = error /\ meant.params = mean
  <2>1. meant = [error |-> error, params |-> mean]
    BY Zenon DEF Abstract!parse_params
  <2> HIDE DEF meant, error, mean
  <2> QED
    BY <2>1
<1>10. DOMAIN given = 1..m
  BY <1>1, Zenon
<1>11. /\ \A x : Err(x).error = x
       /\ \A y : Ok(y).error = "Ok" /\ Ok(y).value = y
  BY DEF Err, Ok
<1>12. /\ \A k : k \in faults <=> k \in 1..m /\ Fault(k) # "Ok"
       /\ \A k : k \in wrongs <=> k \in 1..m /\ Wrong(k) # "Ok"
  BY <1>2, <1>10, Zenon
<1> HIDE DEF given, params, Set, Name, Wrong, value, mean
<1>13. \A k \in 1..m : \A j \in 1..(k - 1) : j \in 1..m
  BY <1>1
<1>14. ASSUME NEW k \in 1..m, Own(params[k]) = "Ok" PROVE Twice(k) <=> Seen(k)
  <2> DEFINE n == params[k].name
  <2>1. n \in Flags \cup Windows
    BY <1>3, <1>14, Zenon
  <2> HIDE DEF n
  <2>2. Name(k) = <<n>>
    BY <1>7, <2>1, Zenon DEF n
  <2>3. \A j \in 1..(k - 1) : Name(j) = <<n>> <=> params[j].name = n
    BY <1>7, <1>13, <2>1, Zenon
  <2> QED
    BY <2>2, <2>3, Zenon DEF n
<1>15. ASSUME NEW k \in 1..m PROVE Fault(k) = Wrong(k)
  <2> HIDE DEF Twice, Seen
  <2>1. Set(k).error = Own(params[k])
    BY <1>3, Zenon
  <2>2. Own(params[k]) = "Ok" => (Twice(k) <=> Seen(k))
    BY <1>14, Zenon
  <2> QED
    BY <1>4, <2>1, <2>2, Zenon
<1>16. faults = wrongs
  <2> HIDE DEF Fault, faults, wrongs
  <2>1. \A k : k \in faults <=> k \in wrongs
    BY <1>12, <1>15, Zenon
  <2> QED
    BY <2>1
<1>17. \A k \in 1..m : Wrong(k) = "Ok" => Own(params[k]) = "Ok" /\ ~Seen(k)
  <2> HIDE DEF Seen
  <2> QED
    BY <1>4, <1>5, Zenon
<1> HIDE DEF Fault
<1>18. CASE wrongs # {}
  <2>1. wrongs \in SUBSET Nat
    <3>1. \A k \in wrongs : k \in 1..m
      BY <1>12, Zenon
    <3> QED
      BY <3>1
  <2> DEFINE x == Min(wrongs)
  <2>2. x \in wrongs /\ x = first
    BY <1>18, <2>1, FirstFault, Zenon
  <2>3. read = Err(Fault(x))
    BY <1>8, <1>16, <1>18, Zenon
  <2>4. error = Wrong(first)
    BY <1>18, Zenon
  <2> HIDE DEF x, error, first, wrongs
  <2>5. x \in 1..m /\ Wrong(x) # "Ok"
    BY <1>12, <2>2, Zenon
  <2>6. Fault(x) = Wrong(x)
    BY <1>15, <2>5, Zenon
  <2> QED
    BY <1>9, <1>11, <2>2, <2>3, <2>4, <2>5, <2>6, Zenon DEF read, meant, params, given
<1>19. CASE wrongs = {}
  <2>1. read = Ok(value) /\ error = "Ok"
    BY <1>8, <1>16, <1>19, Zenon
  <2>2. \A k \in 1..m : Own(params[k]) = "Ok" /\ ~Seen(k)
    <3>1. \A k \in 1..m : Wrong(k) = "Ok"
      BY <1>12, <1>19, Zenon
    <3> HIDE DEF Seen
    <3> QED
      BY <1>17, <3>1, Zenon
  <2>3. ASSUME NEW i \in 1..m, NEW j \in 1..m, params[i].name = params[j].name PROVE i = j
    <3>1. ASSUME i < j PROVE FALSE
      <4>1. i \in 1..(j - 1)
        BY <3>1
      <4> QED
        BY <2>2, <2>3, <4>1, Zenon
    <3>2. ASSUME j < i PROVE FALSE
      <4>1. j \in 1..(i - 1)
        BY <3>2
      <4> QED
        BY <2>2, <2>3, <4>1, Zenon
    <3>3. i < j \/ j < i \/ i = j
      OBVIOUS
    <3> QED
      BY <3>1, <3>2, <3>3, Zenon
  <2>4. ASSUME NEW name \in Flags, NEW empty PROVE Slot(name, FALSE) = Abstract!Has(params, name)
    <3>1. \A k \in 1..m : Name(k) = <<name>> <=> params[k].name = name
      BY <1>7, Zenon
    <3> DEFINE c == CHOOSE k \in DOMAIN given : Name(k) = <<name>>
               some == \E k \in 1..m : Name(k) = <<name>>
    <3>2. Abstract!Has(params, name) <=> some
      BY <1>2, <3>1, Zenon DEF Abstract!Has
    <3>3. Slot(name, FALSE) = IF some THEN Set(c).value ELSE FALSE
      BY <1>10, Zenon
    <3>4. some => Set(c).value = TRUE
      <4> SUFFICES ASSUME some PROVE Set(c).value = TRUE
        OBVIOUS
      <4>1. c \in 1..m /\ Name(c) = <<name>>
        BY <1>10, Zenon
      <4> HIDE DEF c
      <4>2. params[c].name = name /\ Own(params[c]) = "Ok"
        BY <2>2, <3>1, <4>1, Zenon
      <4> QED
        BY <1>3, <4>1, <4>2, Zenon
    <3>5. Abstract!Has(params, name) \in BOOLEAN
      BY Zenon DEF Abstract!Has
    <3> HIDE DEF c, some, Slot
    <3>6. CASE some
      BY <3>2, <3>3, <3>4, <3>5, <3>6
    <3>7. CASE ~some
      BY <3>2, <3>3, <3>5, <3>7
    <3> QED
      BY <3>6, <3>7
  <2>5. ASSUME NEW name \in Windows PROVE Slot(name, Abstract!Absent) = Abstract!Bits(params, name)
    <3>1. \A k \in 1..m : Name(k) = <<name>> <=> params[k].name = name
      BY <1>7, Zenon
    <3> DEFINE c == CHOOSE k \in DOMAIN given : Name(k) = <<name>>
               i == CHOOSE k \in DOMAIN params : params[k].name = name
               some == \E k \in 1..m : Name(k) = <<name>>
    <3>2. Abstract!Has(params, name) <=> some
      BY <1>2, <3>1, Zenon DEF Abstract!Has
    <3>3. Slot(name, Abstract!Absent) = IF some THEN Set(c).value ELSE Abstract!Absent
      BY <1>10, Zenon
    <3>4. Abstract!Bits(params, name) = IF Abstract!Has(params, name) THEN params[i].value
                                        ELSE Abstract!Absent
      BY Zenon DEF Abstract!Bits
    <3>5. some => Set(c).value = params[i].value
      <4> SUFFICES ASSUME some PROVE Set(c).value = params[i].value
        OBVIOUS
      <4>1. c \in 1..m /\ Name(c) = <<name>>
        BY <1>10, Zenon
      <4>2. i \in 1..m /\ params[i].name = name
        <5>1. \E k \in DOMAIN params : params[k].name = name
          BY <1>2, <3>1, Zenon
        <5> QED
          BY <1>2, <5>1, Zenon
      <4> HIDE DEF c, i
      <4>3. params[c].name = name /\ Own(params[c]) = "Ok"
        BY <2>2, <3>1, <4>1, Zenon
      <4>4. c = i
        BY <2>3, <4>1, <4>2, <4>3, Zenon
      <4> QED
        BY <1>3, <4>1, <4>3, <4>4, Zenon
    <3> HIDE DEF c, i, some, Slot
    <3> QED
      BY <3>2, <3>3, <3>4, <3>5, Zenon
  <2>6. /\ "server_no_context_takeover" \in Flags /\ "client_no_context_takeover" \in Flags
        /\ "server_max_window_bits" \in Windows /\ "client_max_window_bits" \in Windows
    BY NamesOfTerms
  <2> HIDE DEF Slot
  <2>7. value = mean
    BY <2>4, <2>5, <2>6, Zenon DEF value, mean
  <2> HIDE DEF error
  <2> QED
    BY <1>9, <1>11, <2>1, <2>7, Zenon DEF read, meant, params, given
<1> QED
  BY <1>18, <1>19, Zenon

-----------------------------------------------------------------------------
(* The reading of every field the host can write.                           *)

\* Whatever the lines are.
LEMMA FieldIsRead ==
  Typed => GrammarIsTheReading
<1> SUFFICES ASSUME Typed PROVE GrammarIsTheReading
  OBVIOUS
<1> DEFINE field == FieldOf(lines)
<1>1. lines \in Seq(Seq(Symbols))
  BY Zenon DEF Typed
<1>2. /\ Abstract!validate(field) = validate(lines)
      /\ contains_deflate(lines) = "Yes" <=> Abstract!DeflatesIn(field) # {}
      /\ contains_deflate(lines) = "No" => Abstract!Splits(field)
  BY <1>1, FieldAgrees, Zenon
<1>3. ASSUME validate(lines) = "Ok", NEW line \in ToSet(lines), NEW k \in DOMAIN LineOf(line),
             is_deflate(elements(line).value[k])
      PROVE  LET read == parse_params(elements(line).value[k])
                 meant == Abstract!parse_params(LineOf(line)[k].params)
             IN /\ read.error = meant.error
                /\ read.error = "Ok" => read.value = meant.params
  <2> DEFINE v == elements(line).value
             e == v[k]
             params == [j \in DOMAIN Tail(segments(e).value) |-> ParameterOf(Tail(segments(e).value)[j])]
  <2>1. line \in Seq(Symbols)
    BY <1>1, LineOfField, Zenon
  <2>2. /\ elements(line).error = "Ok"
        /\ \A element \in ToSet(v) : is_blank(element) \/ validate_element(element)
    <3>1. "MalformedHeader" # "Ok"
      OBVIOUS
    <3> QED
      BY <1>3, <3>1, Zenon DEF validate
  <2>3. /\ v \in Sheets /\ DOMAIN LineOf(line) = DOMAIN v
        /\ \A j \in 1..Len(v) : /\ v[j] \in Seq(Symbols) /\ Ending(v[j]) = "plain"
                                /\ LineOf(line)[j] = ElementOf(v[j])
    BY <2>1, <2>2, LineOfTyped, Zenon
  <2> HIDE DEF v
  <2>4. DOMAIN v = 1..Len(v)
    BY <2>3, SheetTyped
  <2>5. k \in 1..Len(v) /\ e \in ToSet(v)
    BY <2>3, <2>4, Zenon DEF ToSet
  <2>6. e \in Seq(Symbols) /\ Ending(e) = "plain" /\ LineOf(line)[k] = ElementOf(e)
    BY <2>3, <2>5, Zenon
  <2>7. is_deflate(e)
    BY <1>3, Zenon DEF v
  <2> HIDE DEF e
  <2>8. ~is_blank(e) /\ ElementOf(e).params = params
    BY <2>6, <2>7, ReadingOf, Zenon
  <2>9. validate_element(e)
    BY <2>2, <2>5, <2>8, Zenon
  <2>10. LET read == parse_params(e)
             meant == Abstract!parse_params(params)
         IN /\ read.error = meant.error
            /\ read.error = "Ok" => read.value = meant.params
    BY <2>6, <2>9, ParamsAgree, Zenon
  <2>11. LineOf(line)[k].params = params
    BY <2>6, <2>8, Zenon
  <2> HIDE DEF params
  <2> QED
    BY <2>10, <2>11, Zenon DEF e, v
<1> QED
  BY <1>2, <1>3, Zenon DEF GrammarIsTheReading

\* Every field a host can write is validated, searched and parsed by the code as
\* the handshake's model has it read, error for error: the two models of
\* grammar.rs agree wherever the handshake's starts.
THEOREM ReadingAlwaysTheGrammar == Spec => []GrammarIsTheReading
BY TypedAlways, FieldIsRead, PTL
=============================================================================
