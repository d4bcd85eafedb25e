----------------------------- MODULE LinkProofs -----------------------------
(***************************************************************************)
(* Proofs about Link, from what is proved of its two ends.                  *)
(*                                                                         *)
(* The units that are under way lead the decoder from where it stands to    *)
(* where a conforming inflater that has taken all of them stands, by steps  *)
(* that are each conforming: this is the invariant, and every write adds a  *)
(* step at one end while the decoder takes them off at the other.           *)
(***************************************************************************)
EXTENDS Link, TLAPS

-----------------------------------------------------------------------------
(* What the ends assume of their constants follows from what Link assumes.  *)

LEMMA SameUnits ==
  /\ Sender!Units(Octet) = Units(Octet)
  /\ \A S : Receiver!Units(S) = Units(S)
  /\ Sender!Compressors(Octet) = Compressors(Octet)
  /\ Receiver!Trl = Trl /\ Receiver!Junk = Junk
  BY DEF Units, Sender!Units, Receiver!Units, Compressors, Sender!Compressors,
         Trl, Mark, Receiver!Trl, Receiver!Mark, Junk, Receiver!Junk

LEMMA EndsAssume ==
  /\ None \notin Sender!Compressors(Octet) /\ Payload \subseteq Seq(Octet)
  /\ Reach \in Nat /\ Reach <= Reach /\ MaxCalls \in Nat
  /\ Receiver!Junk \in Octet \cup {Junk} /\ {Bits} \subseteq 8..15
  /\ Seq(Units(Octet \cup {Junk})) \subseteq Seq(Receiver!Units(Octet \cup {Junk}))
  /\ UsizeMax \in Nat \ {0} /\ Limits \subseteq 0..UsizeMax
  /\ SCRATCH \in Nat \ {0}
<1>1. Reach \in Nat /\ Reach <= Reach
  BY BitsAssumption DEF Reach, Receiver!Reach
<1>2. {Bits} \subseteq 8..15
  BY BitsAssumption
<1> QED
  BY <1>1, <1>2, SameUnits, NoneAssumption, PayloadAssumption, LimitAssumption,
     ScratchAssumption, CallsAssumption

-----------------------------------------------------------------------------
(* Sequences.                                                               *)

LEMMA Longer ==
  ASSUME NEW S, NEW s \in Seq(S), NEW t \in Seq(S)
  PROVE  s \o t \in Seq(S) /\ Len(s) <= Len(s \o t) /\ Len(s) \in Nat /\ Len(s \o t) \in Nat
  OBVIOUS

LEMMA SeqWidens ==
  ASSUME NEW S, NEW T, S \subseteq T, NEW s \in Seq(S)
  PROVE  s \in Seq(T)
  OBVIOUS

\* The front of a sequence put before another.
LEMMA TailOfJoined ==
  ASSUME NEW S, NEW s \in Seq(S), NEW T, NEW t \in Seq(T), s # <<>>
  PROVE  Tail(s \o t) = Tail(s) \o t /\ Head(s \o t) = Head(s) /\ s \o t # <<>>
<1> DEFINE U == S \cup T
<1>1. s \in Seq(U) /\ t \in Seq(U)
  OBVIOUS
<1> HIDE DEF U
<1> QED
  BY <1>1

\* A sequence cut in two, or around one element, is put together again.
LEMMA CutInTwo ==
  ASSUME NEW S, NEW s \in Seq(S), NEW n \in 0..Len(s)
  PROVE  /\ SubSeq(s, 1, n) \in Seq(S) /\ SubSeq(s, n + 1, Len(s)) \in Seq(S)
         /\ SubSeq(s, 1, n) \o SubSeq(s, n + 1, Len(s)) = s
<1>1. SubSeq(s, 1, n) = Receiver!Front(s, n) /\ SubSeq(s, n + 1, Len(s)) = Receiver!Back(s, n)
  BY DEF Receiver!Front, Receiver!Back
<1>2. Receiver!Front(s, n) \in Seq(S) /\ Receiver!Back(s, n) \in Seq(S)
  BY EndsAssume, Receiver!SplitSeq
<1>3. Receiver!Front(s, n) \o Receiver!Back(s, n) = s
  BY EndsAssume, Receiver!FrontBack
<1> QED
  BY <1>1, <1>2, <1>3

LEMMA CutAround ==
  ASSUME NEW S, NEW s \in Seq(S), NEW n \in 0..Len(s), n < Len(s)
  PROVE  /\ SubSeq(s, n + 2, Len(s)) \in Seq(S)
         /\ (SubSeq(s, 1, n) \o <<s[n + 1]>>) \o SubSeq(s, n + 2, Len(s)) = s
<1>1. /\ n + 1 \in 0..Len(s) /\ (n + 1) + 1 = n + 2 /\ n \in Nat /\ Len(s) \in Nat
  OBVIOUS
<1>2. SubSeq(s, 1, n + 1) = SubSeq(s, 1, n) \o <<s[n + 1]>>
  <2> DEFINE f == SubSeq(s, 1, n)
             g == SubSeq(s, 1, n + 1)
             h == f \o <<s[n + 1]>>
  <2>1. /\ f \in Seq(S) /\ Len(f) = n /\ \A i \in 1..n : f[i] = s[i]
        /\ g \in Seq(S) /\ Len(g) = n + 1 /\ \A i \in 1..(n + 1) : g[i] = s[i]
        /\ s[n + 1] \in S
    BY <1>1
  <2> HIDE DEF f, g
  <2>2. h \in Seq(S) /\ Len(h) = n + 1 /\ \A i \in 1..(n + 1) : h[i] = s[i]
    BY <1>1, <2>1
  <2> HIDE DEF h
  <2>3. g = h
    BY <1>1, <2>1, <2>2
  <2> QED
    BY <2>3 DEF f, g, h
<1> QED
  BY <1>1, <1>2, CutInTwo

\* An element put between two sequences.
LEMMA PutBehind ==
  ASSUME NEW S, NEW s \in Seq(S), NEW t \in Seq(S), NEW u \in S, NEW v \in Seq(S)
  PROVE  /\ s \o (Append(t, u) \o v) = Append(s \o t, u) \o v
         /\ Append(t, u) \o v \in Seq(S) /\ Append(s \o t, u) \in Seq(S)
<1> DEFINE more == Append(t, u)
<1>1. more \in Seq(S) /\ s \o more = Append(s \o t, u)
  OBVIOUS
<1>2. ASSUME NEW m \in Seq(S) PROVE s \o (m \o v) = (s \o m) \o v
  OBVIOUS
<1>3. Append(s \o t, u) \in Seq(S) /\ more \o v \in Seq(S)
  OBVIOUS
<1> HIDE DEF more
<1> QED
  BY <1>1, <1>2, <1>3, Zenon DEF more

-----------------------------------------------------------------------------
(* The way from one position in the stream to another.                      *)

OnWire == Units(Octet) \cup {Fin}

\* A position: the inflater, the text of the message it is in, and how many
\* messages came before.  `tx` is what the sending end has given: its complete
\* messages, as much of the next as the peer can have, and the agreed reset.
Has(n, tx) == IF n <= Len(tx.sent) THEN tx.sent[n] ELSE tx.text

Bounded(s, tx) ==
  /\ s.text \in Seq(Octet \cup {Junk})
  /\ s.done \in 0..Len(tx.sent) /\ Len(s.text) <= Len(Has(s.done + 1, tx))

\* A unit that may come next: at the end of a message, the text is the message.
Fits(s, u, tx) ==
  IF u = Fin
  THEN s.mode = "header" /\ s.done < Len(tx.sent) /\ s.text = tx.sent[s.done + 1]
  ELSE Receiver!Follows(s, u, Reach)

\* The position after it.
Moved(s, u, tx) ==
  IF u = Fin
  THEN [mode |-> IF tx.resets THEN "start" ELSE "boundary",
        hist |-> IF tx.resets THEN <<>> ELSE s.hist,
        text |-> <<>>, done |-> s.done + 1]
  ELSE [mode |-> Receiver!After(u.kind), hist |-> s.hist \o u.text,
        text |-> s.text \o u.text, done |-> s.done]

Route(path, from, units, to, tx) ==
  /\ path[0] = from /\ path[Len(units)] = to
  /\ \A i \in 0..Len(units) : Bounded(path[i], tx)
  /\ \A i \in 1..Len(units) :
       Fits(path[i-1], units[i], tx) /\ path[i] = Moved(path[i-1], units[i], tx)

Leads(from, units, to, tx) == \E path : Route(path, from, units, to, tx)

Senders == [sent : Seq(Seq(Octet)), text : Seq(Octet), resets : BOOLEAN]

\* Nowhere to go: one position.
LEMMA NoWay ==
  ASSUME NEW from, NEW to, NEW tx
  PROVE  Leads(from, <<>>, to, tx) <=> from = to /\ Bounded(from, tx)
<1>1. ASSUME Leads(from, <<>>, to, tx) PROVE from = to /\ Bounded(from, tx)
  BY <1>1 DEF Leads, Route
<1>2. ASSUME from = to, Bounded(from, tx) PROVE Leads(from, <<>>, to, tx)
  <2>1. Route([i \in {0} |-> from], from, <<>>, to, tx)
    BY <1>2 DEF Route
  <2> QED
    BY <2>1 DEF Leads
<1> QED
  BY <1>1, <1>2

\* Every position on the way is within what was given.
LEMMA WayBounded ==
  ASSUME NEW from, NEW units \in Seq(OnWire), NEW to, NEW tx, Leads(from, units, to, tx)
  PROVE  Bounded(from, tx) /\ Bounded(to, tx)
<1>1. PICK path : Route(path, from, units, to, tx)
  BY DEF Leads
<1>2. 0 \in 0..Len(units) /\ Len(units) \in 0..Len(units)
  OBVIOUS
<1> QED
  BY <1>1, <1>2 DEF Route

\* The first step taken.
LEMMA WayDrops ==
  ASSUME NEW from, NEW units \in Seq(OnWire), NEW to, NEW tx, units # <<>>,
         Leads(from, units, to, tx)
  PROVE  /\ Fits(from, Head(units), tx)
         /\ Bounded(Moved(from, Head(units), tx), tx)
         /\ Leads(Moved(from, Head(units), tx), Tail(units), to, tx)
<1>1. PICK path : Route(path, from, units, to, tx)
  BY DEF Leads
<1> DEFINE rest == Tail(units)
           next == [i \in 0..Len(rest) |-> path[i + 1]]
<1>2. /\ Len(units) \in Nat /\ Len(units) > 0 /\ Len(rest) = Len(units) - 1
      /\ Head(units) = units[1]
      /\ \A i \in 1..Len(rest) : rest[i] = units[i + 1]
  OBVIOUS
<1>3. Fits(from, units[1], tx) /\ path[1] = Moved(from, units[1], tx)
  <2>1. 1 \in 1..Len(units) /\ 1 - 1 = 0
    BY <1>2
  <2> QED
    BY <2>1, <1>1 DEF Route
<1>4. Bounded(path[1], tx)
  <2>1. 1 \in 0..Len(units)
    BY <1>2
  <2> QED
    BY <2>1, <1>1 DEF Route
<1> HIDE DEF rest
<1>5. /\ next[0] = path[1] /\ next[Len(rest)] = path[Len(units)]
      /\ \A i \in 0..Len(rest) : next[i] = path[i + 1]
  BY <1>2
<1> HIDE DEF next
<1>6. ASSUME NEW i \in 0..Len(rest) PROVE Bounded(next[i], tx)
  <2>1. i + 1 \in 0..Len(units)
    BY <1>2
  <2> QED
    BY <2>1, <1>1, <1>5 DEF Route
<1>7. ASSUME NEW i \in 1..Len(rest)
      PROVE  Fits(next[i-1], rest[i], tx) /\ next[i] = Moved(next[i-1], rest[i], tx)
  <2>1. /\ i + 1 \in 1..Len(units) /\ (i + 1) - 1 = i /\ (i - 1) + 1 = i
        /\ i \in 0..Len(rest) /\ i - 1 \in 0..Len(rest)
    BY <1>2
  <2>2. Fits(path[(i + 1) - 1], units[i + 1], tx)
        /\ path[i + 1] = Moved(path[(i + 1) - 1], units[i + 1], tx)
    BY <2>1, <1>1 DEF Route
  <2>3. next[i] = path[i + 1] /\ next[i - 1] = path[i] /\ rest[i] = units[i + 1]
    BY <2>1, <1>2, <1>5
  <2> QED
    BY <2>1, <2>2, <2>3
<1>8. Route(next, path[1], rest, to, tx)
  BY <1>1, <1>5, <1>6, <1>7 DEF Route
<1> QED
  BY <1>2, <1>3, <1>4, <1>8 DEF Leads, rest

\* A step more at the far end.
LEMMA WayExtends ==
  ASSUME NEW from, NEW units \in Seq(OnWire), NEW to, NEW tx, NEW u \in OnWire,
         Leads(from, units, to, tx), Fits(to, u, tx), Bounded(Moved(to, u, tx), tx)
  PROVE  Leads(from, Append(units, u), Moved(to, u, tx), tx)
<1>1. PICK path : Route(path, from, units, to, tx)
  BY DEF Leads
<1> DEFINE n == Len(units)
           more == Append(units, u)
           end == Moved(to, u, tx)
           next == [i \in 0..(n + 1) |-> IF i <= n THEN path[i] ELSE end]
<1>2. /\ n \in Nat /\ Len(more) = n + 1 /\ more[n + 1] = u
      /\ \A i \in 1..n : more[i] = units[i]
  OBVIOUS
<1> HIDE DEF more, end
<1>3. next[n + 1] = end /\ next[0] = path[0] /\ \A i \in 0..n : next[i] = path[i]
  BY <1>2
<1> HIDE DEF next, n
<1>4. ASSUME NEW i \in 0..(n + 1) PROVE Bounded(next[i], tx)
  <2>1. CASE i = n + 1
    BY <2>1, <1>3 DEF end
  <2>2. CASE i # n + 1
    <3>1. i \in 0..n
      BY <2>2, <1>2
    <3> QED
      BY <3>1, <1>1, <1>3 DEF Route, n
  <2> QED
    BY <2>1, <2>2
<1>5. ASSUME NEW i \in 1..(n + 1)
      PROVE  Fits(next[i-1], more[i], tx) /\ next[i] = Moved(next[i-1], more[i], tx)
  <2>1. CASE i = n + 1
    <3>1. n \in 0..n /\ (n + 1) - 1 = n
      BY <1>2
    <3>2. next[n] = to
      BY <3>1, <1>1, <1>3 DEF Route, n
    <3> QED
      BY <2>1, <3>1, <3>2, <1>2, <1>3 DEF end
  <2>2. CASE i # n + 1
    <3>1. i \in 1..n /\ i \in 0..n /\ i - 1 \in 0..n
      BY <2>2, <1>2
    <3>2. Fits(path[i-1], units[i], tx) /\ path[i] = Moved(path[i-1], units[i], tx)
      BY <3>1, <1>1 DEF Route, n
    <3>3. next[i] = path[i] /\ next[i-1] = path[i-1] /\ more[i] = units[i]
      BY <3>1, <1>2, <1>3
    <3> QED
      BY <3>2, <3>3
  <2> QED
    BY <2>1, <2>2
<1>6. Route(next, from, more, end, tx)
  BY <1>1, <1>2, <1>3, <1>4, <1>5 DEF Route
<1> QED
  BY <1>6 DEF Leads, more, end

\* What the sending end gives only grows.
Grows(tx, then) ==
  /\ then.resets = tx.resets
  /\ \/ then.sent = tx.sent /\ Len(tx.text) <= Len(then.text)
     \/ \E m \in Seq(Octet) :
          then.sent = Append(tx.sent, m) /\ Len(tx.text) <= Len(m)

LEMMA HasGrows ==
  ASSUME NEW tx \in Senders, NEW then \in Senders, Grows(tx, then),
         NEW n \in 1..(Len(tx.sent) + 1)
  PROVE  /\ Len(Has(n, tx)) <= Len(Has(n, then))
         /\ Len(tx.sent) <= Len(then.sent)
         /\ n <= Len(tx.sent) => then.sent[n] = tx.sent[n]
         /\ Len(Has(n, tx)) \in Nat /\ Len(Has(n, then)) \in Nat
<1>1. /\ tx.sent \in Seq(Seq(Octet)) /\ tx.text \in Seq(Octet)
      /\ then.sent \in Seq(Seq(Octet)) /\ then.text \in Seq(Octet)
      /\ Len(tx.sent) \in Nat /\ Len(then.sent) \in Nat
  BY DEF Senders
<1>2. /\ \A i \in 1..Len(tx.sent) : tx.sent[i] \in Seq(Octet) /\ Len(tx.sent[i]) \in Nat
      /\ \A i \in 1..Len(then.sent) : then.sent[i] \in Seq(Octet) /\ Len(then.sent[i]) \in Nat
      /\ Len(tx.text) \in Nat /\ Len(then.text) \in Nat
  BY <1>1, SMTT(60)
<1>3. Len(Has(n, tx)) \in Nat /\ Len(Has(n, then)) \in Nat
  BY <1>1, <1>2 DEF Has
<1>4. CASE then.sent = tx.sent /\ Len(tx.text) <= Len(then.text)
  BY <1>1, <1>2, <1>3, <1>4 DEF Has
<1>5. ASSUME NEW m \in Seq(Octet), then.sent = Append(tx.sent, m), Len(tx.text) <= Len(m)
      PROVE  /\ Len(Has(n, tx)) <= Len(Has(n, then))
             /\ Len(tx.sent) <= Len(then.sent)
             /\ n <= Len(tx.sent) => then.sent[n] = tx.sent[n]
  <2>1. Len(then.sent) = Len(tx.sent) + 1 /\ n <= Len(then.sent)
    BY <1>1, <1>5
  <2>2. CASE n <= Len(tx.sent)
    <3>1. then.sent[n] = tx.sent[n]
      BY <2>2, <1>1, <1>5
    <3> QED
      BY <3>1, <2>1, <2>2, <1>1, <1>2 DEF Has
  <2>3. CASE ~(n <= Len(tx.sent))
    <3>1. n = Len(tx.sent) + 1 /\ then.sent[n] = m
      BY <2>3, <1>1, <1>5
    <3> QED
      BY <3>1, <2>1, <2>3, <1>1, <1>5 DEF Has
  <2> QED
    BY <2>2, <2>3
<1> QED
  BY <1>3, <1>4, <1>5 DEF Grows

LEMMA WayGrows ==
  ASSUME NEW from, NEW units \in Seq(OnWire), NEW to, NEW tx \in Senders,
         NEW then \in Senders, Grows(tx, then), Leads(from, units, to, tx)
  PROVE  Leads(from, units, to, then)
<1>1. PICK path : Route(path, from, units, to, tx)
  BY DEF Leads
<1>2. ASSUME NEW s, Bounded(s, tx) PROVE Bounded(s, then)
  <2> DEFINE n == s.done + 1
  <2>1. Len(tx.sent) \in Nat /\ Len(then.sent) \in Nat /\ Len(s.text) \in Nat
    BY <1>2 DEF Senders, Bounded
  <2>2. n \in 1..(Len(tx.sent) + 1)
    BY <2>1, <1>2 DEF Bounded
  <2> HIDE DEF n
  <2>3. /\ Len(Has(n, tx)) <= Len(Has(n, then)) /\ Len(tx.sent) <= Len(then.sent)
        /\ Len(Has(n, tx)) \in Nat /\ Len(Has(n, then)) \in Nat
    BY <2>2, HasGrows
  <2>4. Len(s.text) <= Len(Has(n, tx))
    BY <1>2 DEF Bounded, n
  <2>5. Len(s.text) <= Len(Has(n, then))
    BY <2>1, <2>3, <2>4
  <2> QED
    BY <2>1, <2>3, <2>5, <1>2 DEF Bounded, n
<1>3. ASSUME NEW s, NEW u, Bounded(s, tx), Fits(s, u, tx)
      PROVE  Fits(s, u, then) /\ Moved(s, u, then) = Moved(s, u, tx)
  <2>1. Moved(s, u, then) = Moved(s, u, tx)
    BY DEF Moved, Grows
  <2>2. CASE u = Fin
    <3>1. Len(tx.sent) \in Nat /\ Len(then.sent) \in Nat
      BY DEF Senders
    <3> DEFINE n == s.done + 1
    <3>2. n \in 1..(Len(tx.sent) + 1) /\ n <= Len(tx.sent) /\ s.done \in Nat
      BY <3>1, <2>2, <1>3 DEF Bounded, Fits
    <3>3. then.sent[n] = tx.sent[n] /\ Len(tx.sent) <= Len(then.sent)
      BY <3>2, HasGrows
    <3>4. s.done < Len(then.sent)
      BY <3>1, <3>2, <3>3
    <3> QED
      BY <3>3, <3>4, <2>1, <2>2, <1>3 DEF Fits
  <2>3. CASE u # Fin
    BY <2>1, <2>3, <1>3 DEF Fits
  <2> QED
    BY <2>2, <2>3
<1>4. ASSUME NEW i \in 1..Len(units)
      PROVE  Fits(path[i-1], units[i], then) /\ path[i] = Moved(path[i-1], units[i], then)
  <2>1. i - 1 \in 0..Len(units)
    OBVIOUS
  <2> QED
    BY <2>1, <1>1, <1>3 DEF Route
<1>5. Route(path, from, units, to, then)
  BY <1>1, <1>2, <1>4 DEF Route
<1> QED
  BY <1>5 DEF Leads

\* Where a conforming inflater ends, one stood all the way.
LEMMA WaySound ==
  ASSUME NEW from, NEW units \in Seq(OnWire), NEW to, NEW tx, Leads(from, units, to, tx),
         to.mode \in Receiver!Sound
  PROVE  from.mode \in Receiver!Sound
<1>1. CASE units = <<>>
  BY <1>1, NoWay
<1>2. CASE units # <<>>
  BY <1>2, WayDrops DEF Fits, Receiver!Follows, Receiver!Sound
<1> QED
  BY <1>1, <1>2

-----------------------------------------------------------------------------
(* The inductive invariant, part by part.                                   *)

Tx == [sent |-> outbox, text |-> peer.text, resets |-> rx_reset]

PeerAt ==
  [mode |-> peer.inf.mode, hist |-> peer.inf.hist, text |-> peer.text, done |-> Len(outbox)]

\* The decoder feeds back the trailer of a message whose last unit it has taken.
Trailing == call.phase \in {"trailer", "closed"}

DecoderAt ==
  [mode |-> IF Trailing THEN "header" ELSE inflater.mode, hist |-> inflater.hist,
   text |-> Receiver!Yielded, done |-> Len(received)]

\* What the call in progress has yet to take, and what it will after that.
Left ==
  (IF Trailing THEN <<>> ELSE call.input) \o (IF call.final THEN <<Fin>> ELSE <<>>)

WireInv == ~poisoned => Leads(DecoderAt, Left \o wire, PeerAt, Tx)

\* A call meets no end of the stream, and its trailer the block it completes.
CallInv ==
  /\ ~call.ended
  /\ call.phase = "idle" => call.input = <<>> /\ ~call.final /\ call.out = <<>>
  /\ call.phase \in {"fed", "closed"} => call.input = <<>>
  /\ IF Trailing
     THEN /\ call.final
          /\ \/ call.input = <<Trl>> /\ inflater.mode = "header"
             \/ call.input = <<>> /\ inflater.mode = "boundary"
     ELSE call.input \in Seq(Units(Octet))

RefusedInv ==
  rx_result.is = "MessageTooLong" =>
    Len(Has(Len(received) + 1, Tx)) > rx_result.limit

IInv ==
  /\ Sender!IInv /\ Sender!TextGiven /\ peer.inf.mode \in Receiver!Sound
  /\ Receiver!IInv
  /\ peer.resets = rx_reset /\ config = Receiver!for_peer_window(Bits)
  /\ wire \in Seq(OnWire)
  /\ received \in Seq(Seq(Octet)) /\ Len(received) <= Len(outbox)
  /\ OwnStreamsAreValid
  /\ CallInv
  /\ WireInv
  /\ RefusedInv

\* The shape of the sequences and of the sending end's side.
LEMMA Shapes ==
  ASSUME IInv
  PROVE  /\ Tx \in Senders /\ outbox \in Seq(Seq(Octet)) /\ Len(outbox) \in Nat
         /\ peer.text \in Seq(Octet) /\ message \in Seq(Octet)
         /\ Left \in Seq(OnWire) /\ wire \in Seq(OnWire) /\ Left \o wire \in Seq(OnWire)
         /\ Len(received) \in Nat
<1>1. /\ outbox \in Seq(Seq(Octet)) /\ peer.text \in Seq(Octet) /\ message \in Seq(Octet)
      /\ peer.resets \in BOOLEAN
  BY DEF IInv, Sender!IInv, Sender!TypeOK
<1>2. Tx \in Senders
  BY <1>1 DEF IInv, Tx, Senders
<1>3. Left \in Seq(OnWire)
  <2>1. (IF Trailing THEN <<>> ELSE call.input) \in Seq(OnWire)
    BY DEF IInv, CallInv, OnWire
  <2>2. (IF call.final THEN <<Fin>> ELSE <<>>) \in Seq(OnWire)
    BY SMTT(60) DEF OnWire
  <2> QED
    BY <2>1, <2>2 DEF Left
<1>4. wire \in Seq(OnWire) /\ Len(received) \in Nat
  BY DEF IInv
<1>5. Left \o wire \in Seq(OnWire)
  BY <1>3, <1>4
<1> QED
  BY <1>1, <1>2, <1>3, <1>4, <1>5

-----------------------------------------------------------------------------
(* Steps of the sending end.                                                *)

LEMMA SenderSide ==
  ASSUME IInv, [Sender!Next]_(Sender!vars)
  PROVE  Sender!IInv' /\ Sender!TextGiven'
<1>1. Sender!IInv'
  BY EndsAssume, Sender!NextInv DEF IInv
<1> QED
  BY <1>1, EndsAssume, Sender!TextGivenKeeps DEF IInv

\* What a step that leaves the decoder alone keeps.
LEMMA ReceiverRests ==
  ASSUME IInv, UNCHANGED <<rxVars, received>>
  PROVE  /\ Receiver!IInv' /\ CallInv' /\ OwnStreamsAreValid'
         /\ config' = Receiver!for_peer_window(Bits)
         /\ received' = received /\ poisoned' = poisoned /\ rx_result' = rx_result
         /\ rx_reset' = rx_reset /\ DecoderAt' = DecoderAt /\ Left' = Left
<1>1. Receiver!IInv'
  <2>1. [Receiver!Next]_(Receiver!vars)
    BY DEF rxVars, Receiver!vars
  <2> QED
    BY <2>1, EndsAssume, Receiver!Preserved DEF IInv
<1>2. CallInv' /\ Left' = Left
  BY DEF IInv, rxVars, CallInv, Left, Trailing
<1>3. DecoderAt' = DecoderAt
  BY DEF rxVars, DecoderAt, Trailing, Receiver!Yielded
<1> QED
  BY <1>1, <1>2, <1>3 DEF IInv, rxVars, OwnStreamsAreValid

\* A refusal stays due.
LEMMA RefusedGrows ==
  ASSUME IInv, Tx' \in Senders, Grows(Tx, Tx'), UNCHANGED <<received, rx_result>>
  PROVE  RefusedInv'
<1>1. Tx \in Senders /\ Len(received) \in Nat /\ Len(outbox) \in Nat
  BY Shapes
<1> DEFINE n == Len(received) + 1
<1>2. n \in 1..(Len(Tx.sent) + 1)
  BY <1>1 DEF IInv, Tx
<1>3. n' = n
  OBVIOUS
<1> HIDE DEF n
<1>4. /\ Len(Has(n, Tx)) <= Len(Has(n, Tx'))
      /\ Len(Has(n, Tx)) \in Nat /\ Len(Has(n, Tx')) \in Nat
  BY <1>1, <1>2, HasGrows
<1>5. rx_result.limit \in Nat
  BY EndsAssume DEF IInv, Receiver!IInv, Receiver!TypeOK
<1>6. rx_result.is = "MessageTooLong" => Len(Has(n, Tx)) > rx_result.limit
  BY DEF IInv, RefusedInv, n
<1>7. rx_result.is = "MessageTooLong" => Len(Has(n, Tx')) > rx_result.limit
  BY <1>4, <1>5, <1>6
<1> QED
  BY <1>3, <1>7 DEF RefusedInv, n

\* A call of the host's, or a guard resolved: nothing moves.
LEMMA QuietKeeps ==
  ASSUME IInv, [Sender!Next]_(Sender!vars), UNCHANGED <<peer, outbox, rxVars, wire, received>>
  PROVE  IInv'
<1>1. Sender!IInv' /\ Sender!TextGiven'
  BY SenderSide
<1>2. /\ Receiver!IInv' /\ CallInv' /\ OwnStreamsAreValid'
      /\ config' = Receiver!for_peer_window(Bits)
      /\ poisoned' = poisoned /\ rx_result' = rx_result
      /\ rx_reset' = rx_reset /\ DecoderAt' = DecoderAt /\ Left' = Left
  BY ReceiverRests
<1>3. Tx' = Tx /\ PeerAt' = PeerAt
  BY <1>2 DEF Tx, PeerAt
<1>4. WireInv' /\ RefusedInv'
  BY <1>2, <1>3 DEF IInv, WireInv, RefusedInv
<1> QED
  BY <1>1, <1>2, <1>4 DEF IInv

\* What the write of a unit is to the peer: a step that fits, and, at the end of
\* a message, the end.
LEMMA WriteSteps ==
  ASSUME IInv, Sender!HostWrite, rx_reset' = rx_reset,
         NEW u, u = guard.bytes[written + 1]
  PROVE  /\ u \in OnWire /\ u # Fin /\ u.text \in Seq(Octet)
         /\ Receiver!Follows(PeerAt, u, Reach)
         /\ written' = written + 1 /\ peer'.resets = peer.resets
         /\ \/ /\ outbox' = outbox /\ peer'.text = peer.text \o u.text
               /\ PeerAt' = Moved(PeerAt, u, Tx')
            \/ /\ outbox' = Append(outbox, message) /\ peer'.text = <<>>
               /\ peer.text = message /\ u.kind = "hdr" /\ u.text = <<>>
               /\ PeerAt' = Moved(Moved(PeerAt, u, Tx'), Fin, Tx')
<1>1. /\ u \in Sender!Units(Octet) /\ u.kind \in {"data", "hdr", "trl"} /\ u.text \in Seq(Octet)
      /\ u.kind = "data" => Sender!AtBoundary /\ Sender!Resolves(u, peer.inf.hist)
      /\ u.kind # "data" => u.text = <<>>
      /\ u.kind = "hdr" => Sender!BlockMayBegin(peer.inf)
      /\ u.kind = "trl" => peer.inf.mode = "header"
      /\ written' = written + 1 /\ peer'.resets = peer.resets
      /\ IF written + 1 = Len(guard.bytes) /\ guard.kind \in Sender!Closing
         THEN /\ u.kind = "hdr" /\ peer.text = message
              /\ outbox' = Append(outbox, message) /\ peer'.text = <<>>
              /\ peer'.inf.mode = IF peer.resets THEN "start" ELSE "boundary"
              /\ peer'.inf.hist = IF peer.resets THEN <<>> ELSE peer.inf.hist
         ELSE /\ outbox' = outbox /\ peer'.text = peer.text \o u.text
              /\ peer'.inf.mode = Sender!ModeAfter(u.kind)
              /\ peer'.inf.hist = peer.inf.hist \o u.text
  BY EndsAssume, Sender!WriteMoves DEF IInv
<1>2. u \in OnWire /\ u # Fin
  BY <1>1, SameUnits DEF OnWire, Fin, Mark, Units
<1>3. /\ PeerAt.mode = peer.inf.mode /\ PeerAt.hist = peer.inf.hist
      /\ PeerAt.text = peer.text /\ PeerAt.done = Len(outbox)
  BY DEF PeerAt
<1>4. Receiver!Follows(PeerAt, u, Reach)
  <2>1. CASE u.kind = "data"
    BY <2>1, <1>1, <1>3 DEF IInv, Receiver!Follows, Sender!AtBoundary, Sender!Resolves,
                            Sender!At, Receiver!At
  <2>2. CASE u.kind # "data"
    <3>1. PeerAt.mode \in (IF u.kind = "hdr" THEN Receiver!Sound \ {"header"} ELSE {"header"})
      BY <2>2, <1>1, <1>3 DEF Sender!BlockMayBegin, Receiver!Sound
    <3> QED
      BY <3>1, <2>2, <1>1, <1>3 DEF IInv, Receiver!Follows
  <2> QED
    BY <2>1, <2>2
<1>5. Sender!ModeAfter(u.kind) = Receiver!After(u.kind)
  BY DEF Sender!ModeAfter, Receiver!After
<1>6. Tx'.resets = rx_reset /\ peer.resets = rx_reset
  BY DEF Tx, IInv
<1>7. CASE written + 1 = Len(guard.bytes) /\ guard.kind \in Sender!Closing
  <2>1. /\ u.kind = "hdr" /\ peer.text = message /\ u.text = <<>>
        /\ outbox' = Append(outbox, message) /\ peer'.text = <<>>
        /\ peer'.inf.mode = IF rx_reset THEN "start" ELSE "boundary"
        /\ peer'.inf.hist = IF rx_reset THEN <<>> ELSE peer.inf.hist
    BY <1>1, <1>6, <1>7
  <2>2. peer.inf.hist \o <<>> = peer.inf.hist
    BY DEF IInv, Sender!IInv, Sender!TypeOK, Sender!Inflaters
  <2>3. Len(outbox') = Len(outbox) + 1
    BY <2>1, Shapes
  <2> DEFINE mid == Moved(PeerAt, u, Tx')
  <2>4. mid.hist = peer.inf.hist /\ mid.done = Len(outbox)
    BY <2>1, <2>2, <1>2, <1>3 DEF Moved
  <2> HIDE DEF mid
  <2>5. PeerAt' = Moved(mid, Fin, Tx')
    BY <2>1, <2>3, <2>4, <1>6 DEF Moved, PeerAt
  <2> QED
    BY <2>1, <2>5, <1>1, <1>2, <1>4 DEF mid
<1>8. CASE ~(written + 1 = Len(guard.bytes) /\ guard.kind \in Sender!Closing)
  <2>1. /\ outbox' = outbox /\ peer'.text = peer.text \o u.text
        /\ peer'.inf.mode = Receiver!After(u.kind)
        /\ peer'.inf.hist = peer.inf.hist \o u.text
    BY <1>1, <1>5, <1>8
  <2>2. PeerAt' = Moved(PeerAt, u, Tx')
    BY <2>1, <1>2, <1>3 DEF Moved, PeerAt
  <2> QED
    BY <2>1, <2>2, <1>1, <1>2, <1>4
<1> QED
  BY <1>7, <1>8

LEMMA WriteKeeps == ASSUME IInv, Write PROVE IInv'
<1> DEFINE u == guard.bytes[written + 1]
           fins == IF outbox' # outbox THEN <<Fin>> ELSE <<>>
<1>1. /\ Sender!HostWrite /\ UNCHANGED <<rxVars, received>>
      /\ wire' = wire \o <<guard.bytes[written']>> \o fins
  BY DEF Write
<1>2. Sender!IInv' /\ Sender!TextGiven'
  <2>1. [Sender!Next]_(Sender!vars)
    BY <1>1 DEF Sender!Next
  <2> QED
    BY <2>1, SenderSide
<1>3. /\ Receiver!IInv' /\ CallInv' /\ OwnStreamsAreValid'
      /\ config' = Receiver!for_peer_window(Bits)
      /\ received' = received /\ poisoned' = poisoned /\ rx_result' = rx_result
      /\ rx_reset' = rx_reset /\ DecoderAt' = DecoderAt /\ Left' = Left
  BY <1>1, ReceiverRests
<1>4. /\ u \in OnWire /\ u # Fin /\ u.text \in Seq(Octet)
      /\ Receiver!Follows(PeerAt, u, Reach)
      /\ written' = written + 1 /\ peer'.resets = peer.resets
      /\ \/ /\ outbox' = outbox /\ peer'.text = peer.text \o u.text
            /\ PeerAt' = Moved(PeerAt, u, Tx')
         \/ /\ outbox' = Append(outbox, message) /\ peer'.text = <<>>
            /\ peer.text = message /\ u.kind = "hdr" /\ u.text = <<>>
            /\ PeerAt' = Moved(Moved(PeerAt, u, Tx'), Fin, Tx')
  BY <1>1, <1>3, WriteSteps
<1>5. wire' = Append(wire, u) \o fins
  <2>1. wire \o <<u>> = Append(wire, u)
    BY <1>4, Shapes
  <2> QED
    BY <2>1, <1>1, <1>4
<1> HIDE DEF u
<1>6. /\ Tx \in Senders /\ outbox \in Seq(Seq(Octet)) /\ Len(outbox) \in Nat
      /\ peer.text \in Seq(Octet) /\ message \in Seq(Octet)
      /\ wire \in Seq(OnWire) /\ Left \in Seq(OnWire) /\ Left \o wire \in Seq(OnWire)
      /\ Len(received) \in Nat
  BY Shapes
<1>7. /\ Tx' \in Senders /\ Tx'.sent = outbox' /\ Tx'.text = peer'.text
      /\ Tx.sent = outbox /\ Tx.text = peer.text /\ Tx'.resets = Tx.resets
  <2>1. outbox' \in Seq(Seq(Octet)) /\ peer'.text \in Seq(Octet) /\ peer'.resets \in BOOLEAN
    BY <1>2 DEF Sender!IInv, Sender!TypeOK
  <2>2. rx_reset' \in BOOLEAN
    BY <1>3 DEF IInv, Receiver!IInv, Receiver!TypeOK
  <2> QED
    BY <2>1, <2>2, <1>3 DEF Tx, Senders
<1>8. Grows(Tx, Tx')
  <2>1. CASE outbox' = outbox /\ peer'.text = peer.text \o u.text
    <3>1. Len(peer.text) <= Len(peer.text \o u.text)
      BY <1>4, <1>6, Longer, Zenon
    <3> QED
      BY <3>1, <2>1, <1>7 DEF Grows
  <2>2. CASE outbox' = Append(outbox, message) /\ peer.text = message
    <3>1. Len(peer.text) <= Len(message)
      BY <2>2, <1>6
    <3> QED
      BY <3>1, <2>2, <1>6, <1>7 DEF Grows
  <2> QED
    BY <2>1, <2>2, <1>4
<1>9. RefusedInv'
  BY <1>3, <1>7, <1>8, RefusedGrows
<1>10. /\ DecoderAt' = DecoderAt /\ Left' \o wire' = Append(Left \o wire, u) \o fins
       /\ Append(Left \o wire, u) \in Seq(OnWire)
       /\ wire' \in Seq(OnWire)
  <2>1. fins \in Seq(OnWire) /\ u \in OnWire
    <3>1. Fin \in OnWire
      BY DEF OnWire
    <3>2. <<Fin>> \in Seq(OnWire) /\ <<>> \in Seq(OnWire)
      BY <3>1
    <3> QED
      BY <3>2, <1>4
  <2>2. wire \in Seq(OnWire) /\ Left \in Seq(OnWire)
    BY <1>6
  <2> HIDE DEF fins
  <2>3. /\ Left \o (Append(wire, u) \o fins) = Append(Left \o wire, u) \o fins
        /\ Append(wire, u) \o fins \in Seq(OnWire) /\ Append(Left \o wire, u) \in Seq(OnWire)
    BY <2>1, <2>2, PutBehind, Zenon
  <2> QED
    BY <2>3, <1>3, <1>5
<1>11. WireInv'
  <2> SUFFICES ASSUME ~poisoned'
               PROVE  Leads(DecoderAt, Append(Left \o wire, u) \o fins, PeerAt', Tx')
    BY <1>10 DEF WireInv
  <2>1. Leads(DecoderAt, Left \o wire, PeerAt, Tx)
    BY <1>3 DEF IInv, WireInv
  <2>2. Leads(DecoderAt, Left \o wire, PeerAt, Tx')
    BY <2>1, <1>6, <1>7, <1>8, WayGrows
  <2>3. Bounded(PeerAt, Tx')
    BY <2>2, <1>6, WayBounded
  <2>4. Fits(PeerAt, u, Tx')
    BY <1>4 DEF Fits
  <2>5. /\ PeerAt.mode = peer.inf.mode /\ PeerAt.hist = peer.inf.hist
        /\ PeerAt.text = peer.text /\ PeerAt.done = Len(outbox)
    BY DEF PeerAt
  <2> DEFINE mid == Moved(PeerAt, u, Tx')
  <2>6. /\ mid.mode = Receiver!After(u.kind) /\ mid.text = peer.text \o u.text
        /\ mid.done = Len(outbox)
    BY <2>5, <1>4 DEF Moved
  <2> HIDE DEF mid
  <2> DEFINE n == Len(outbox)
  <2>7. mid.text \in Seq(Octet \cup {Junk}) /\ Seq(Octet) \subseteq Seq(Octet \cup {Junk})
    BY <2>6, <1>4, <1>6
  <2>8. CASE outbox' = outbox /\ peer'.text = peer.text \o u.text /\ PeerAt' = mid
    <3>1. fins = <<>> /\ Append(Left \o wire, u) \o fins = Append(Left \o wire, u)
      BY <2>8, <1>10
    <3>2. /\ Tx'.sent = outbox /\ Tx'.text = mid.text /\ mid.done = n
          /\ n \in Nat
      BY <2>6, <2>8, <1>6, <1>7
    <3>3. Has(mid.done + 1, Tx') = mid.text
      BY <3>2 DEF Has
    <3>4. Bounded(mid, Tx')
      <4>1. Len(mid.text) \in Nat
        BY <2>7
      <4> QED
        BY <4>1, <3>2, <3>3, <2>7 DEF Bounded
    <3>5. Leads(DecoderAt, Append(Left \o wire, u), mid, Tx')
      BY <3>4, <2>2, <2>4, <1>4, <1>6, WayExtends DEF mid
    <3> QED
      BY <3>1, <3>5, <2>8
  <2>9. CASE /\ outbox' = Append(outbox, message) /\ peer'.text = <<>>
             /\ peer.text = message /\ u.kind = "hdr" /\ u.text = <<>>
             /\ PeerAt' = Moved(mid, Fin, Tx')
    <3>1. /\ Len(outbox') = Len(outbox) + 1 /\ outbox'[Len(outbox) + 1] = message
          /\ outbox' # outbox /\ Len(message) \in Nat
      BY <2>9, <1>6
    <3>2. mid.text = message
      <4>1. message \o <<>> = message
        BY <1>6
      <4> QED
        BY <4>1, <2>6, <2>9
    <3>3. Bounded(mid, Tx')
      <4>1. Has(mid.done + 1, Tx') = message
        BY <3>1, <2>6, <1>6, <1>7 DEF Has
      <4>2. /\ Len(Tx'.sent) = n + 1 /\ mid.done = n /\ n \in Nat
            /\ Len(mid.text) \in Nat /\ Len(mid.text) = Len(message)
        BY <3>1, <3>2, <2>6, <1>6, <1>7
      <4> QED
        BY <4>1, <4>2, <2>7 DEF Bounded
    <3>4. Leads(DecoderAt, Append(Left \o wire, u), mid, Tx')
      BY <3>3, <2>2, <2>4, <1>4, <1>6, WayExtends DEF mid
    <3>5. Fits(mid, Fin, Tx')
      BY <3>1, <3>2, <2>6, <2>9, <1>6, <1>7 DEF Fits, Receiver!After
    <3> DEFINE end == Moved(mid, Fin, Tx')
    <3>6. end.text = <<>> /\ end.done = Len(outbox) + 1
      BY <2>6 DEF Moved
    <3> HIDE DEF end
    <3>7. Bounded(end, Tx')
      <4>1. Has(end.done + 1, Tx') = <<>>
        BY <3>1, <3>6, <2>9, <1>6, <1>7 DEF Has
      <4> QED
        BY <4>1, <3>1, <3>6, <1>6, <1>7 DEF Bounded
    <3>8. Leads(DecoderAt, Append(Append(Left \o wire, u), Fin), end, Tx')
      <4>1. Fin \in OnWire
        BY DEF OnWire
      <4> QED
        BY <4>1, <3>4, <3>5, <3>7, <1>10, WayExtends DEF end
    <3>9. fins = <<Fin>> /\ Append(Left \o wire, u) \o fins = Append(Append(Left \o wire, u), Fin)
      <4>1. Append(Left \o wire, u) \o <<Fin>> = Append(Append(Left \o wire, u), Fin)
        BY <1>10 DEF OnWire
      <4> QED
        BY <4>1, <3>1
    <3> QED
      BY <3>8, <3>9, <2>9 DEF end
  <2> QED
    BY <2>8, <2>9, <1>4 DEF mid
<1>12. /\ peer'.inf.mode \in Receiver!Sound /\ peer'.resets = rx_reset'
       /\ Len(received') <= Len(outbox')
  <2>1. peer'.inf.mode = PeerAt'.mode
    BY DEF PeerAt
  <2>2. Receiver!After(u.kind) \in Receiver!Sound
    BY DEF Receiver!After, Receiver!Sound
  <2>3. PeerAt'.mode \in Receiver!Sound
    <3>1. Moved(PeerAt, u, Tx').mode \in Receiver!Sound
      BY <2>2, <1>4 DEF Moved
    <3>2. \A s : Moved(s, Fin, Tx').mode \in Receiver!Sound
      BY DEF Moved, Receiver!Sound
    <3> QED
      BY <3>1, <3>2, <1>4
  <2>4. Len(outbox) <= Len(outbox')
    <3>1. Len(Append(outbox, message)) = Len(outbox) + 1 /\ Len(outbox) \in Nat
      BY <1>6
    <3>2. outbox' = outbox \/ outbox' = Append(outbox, message)
      BY <1>4
    <3> QED
      BY <3>1, <3>2
  <2>5. Len(outbox') \in Nat
    BY <1>2 DEF Sender!IInv, Sender!TypeOK
  <2> QED
    BY <2>1, <2>3, <2>4, <2>5, <1>3, <1>4, <1>6 DEF IInv
<1> QED
  BY <1>2, <1>3, <1>9, <1>10, <1>11, <1>12 DEF IInv

-----------------------------------------------------------------------------
(* Steps of the receiving end.                                              *)

\* What a step that leaves the encoder alone keeps.
LEMMA SenderRests ==
  ASSUME IInv, UNCHANGED txVars, rx_reset' = rx_reset
  PROVE  /\ Sender!IInv' /\ Sender!TextGiven' /\ peer'.inf.mode \in Receiver!Sound
         /\ peer'.resets = rx_reset' /\ Tx' = Tx /\ PeerAt' = PeerAt /\ outbox' = outbox
<1>1. [Sender!Next]_(Sender!vars)
  BY DEF txVars, Sender!vars
<1>2. Sender!IInv' /\ Sender!TextGiven'
  BY <1>1, SenderSide
<1> QED
  BY <1>2 DEF txVars, IInv, Tx, PeerAt

\* Where the decoder stands, and the first unit before it, if the call in
\* progress has one.
LEMMA Heading ==
  ASSUME IInv, ~poisoned
  PROVE  /\ DecoderAt.mode \in Receiver!Sound /\ Bounded(DecoderAt, Tx)
         /\ Left # <<>> =>
              /\ Fits(DecoderAt, Head(Left), Tx)
              /\ Bounded(Moved(DecoderAt, Head(Left), Tx), Tx)
              /\ Leads(Moved(DecoderAt, Head(Left), Tx), Tail(Left) \o wire, PeerAt, Tx)
<1>1. Leads(DecoderAt, Left \o wire, PeerAt, Tx)
  BY DEF IInv, WireInv
<1>2. Left \in Seq(OnWire) /\ wire \in Seq(OnWire) /\ Left \o wire \in Seq(OnWire)
  BY Shapes
<1>3. PeerAt.mode \in Receiver!Sound
  BY DEF IInv, PeerAt
<1>4. DecoderAt.mode \in Receiver!Sound
  BY <1>1, <1>2, <1>3, WaySound
<1>5. Bounded(DecoderAt, Tx)
  BY <1>1, <1>2, WayBounded
<1>6. ASSUME Left # <<>>
      PROVE  /\ Fits(DecoderAt, Head(Left), Tx)
             /\ Bounded(Moved(DecoderAt, Head(Left), Tx), Tx)
             /\ Leads(Moved(DecoderAt, Head(Left), Tx), Tail(Left) \o wire, PeerAt, Tx)
  <2>1. /\ Head(Left \o wire) = Head(Left) /\ Tail(Left \o wire) = Tail(Left) \o wire
        /\ Left \o wire # <<>>
    BY <1>2, <1>6
  <2> QED
    BY <2>1, <1>1, <1>2, WayDrops
<1> QED
  BY <1>4, <1>5, <1>6

\* A decoder that stays where it is with all it had before it, or takes the
\* first unit, is still on the way.
LEMMA StaysOnTheWay ==
  ASSUME IInv, ~poisoned, Tx' = Tx, PeerAt' = PeerAt,
         \/ DecoderAt' = DecoderAt /\ Left' \o wire' = Left \o wire
         \/ /\ Left # <<>> /\ Left' = Tail(Left) /\ wire' = wire
            /\ DecoderAt' = Moved(DecoderAt, Head(Left), Tx)
  PROVE  WireInv'
<1>1. CASE DecoderAt' = DecoderAt /\ Left' \o wire' = Left \o wire
  BY <1>1 DEF IInv, WireInv
<1>2. CASE /\ Left # <<>> /\ Left' = Tail(Left) /\ wire' = wire
           /\ DecoderAt' = Moved(DecoderAt, Head(Left), Tx)
  BY <1>2, Heading DEF WireInv
<1> QED
  BY <1>1, <1>2

\* A call that fails, but not for an invalid stream.
LEMMA FailureKeeps ==
  ASSUME IInv, UNCHANGED <<txVars, wire, received, config, rx_reset>>, Receiver!IInv',
         poisoned', call' = Receiver!Idle, rx_result'.is # "InvalidStream",
         rx_result'.is = "MessageTooLong" =>
           Len(Has(Len(received) + 1, Tx)) > rx_result'.limit
  PROVE  IInv'
<1>1. /\ Sender!IInv' /\ Sender!TextGiven' /\ peer'.inf.mode \in Receiver!Sound
      /\ peer'.resets = rx_reset' /\ Tx' = Tx /\ outbox' = outbox
  BY SenderRests
<1>2. CallInv'
  BY DEF CallInv, Trailing, Receiver!Idle
<1>3. WireInv' /\ RefusedInv' /\ OwnStreamsAreValid'
  BY <1>1 DEF WireInv, RefusedInv, OwnStreamsAreValid
<1> QED
  BY <1>1, <1>2, <1>3 DEF IInv

\* A call that goes on or returns.
LEMMA ProgressKeeps ==
  ASSUME IInv, UNCHANGED <<txVars, config, rx_reset, poisoned>>, Receiver!IInv',
         CallInv', WireInv', wire' \in Seq(OnWire),
         rx_result' = rx_result \/ rx_result'.is = "Ok",
         \/ received' = received
         \/ /\ received' \in Seq(Seq(Octet)) /\ Len(received') <= Len(outbox)
            /\ rx_result'.is = "Ok"
  PROVE  IInv'
<1>1. /\ Sender!IInv' /\ Sender!TextGiven' /\ peer'.inf.mode \in Receiver!Sound
      /\ peer'.resets = rx_reset' /\ Tx' = Tx /\ outbox' = outbox
  BY SenderRests
<1>2. OwnStreamsAreValid' /\ RefusedInv'
  BY <1>1 DEF IInv, OwnStreamsAreValid, RefusedInv
<1> QED
  BY <1>1, <1>2 DEF IInv

\* A window as wide as the agreed one, or wider, changes nothing.
LEMMA WiderFollows ==
  ASSUME IInv, NEW inf, NEW u, Receiver!Follows(inf, u, Reach), u.dist \in Nat
  PROVE  Receiver!Follows(inf, u, Receiver!Reach(config))
<1>1. Reach <= Receiver!Reach(config) /\ Reach \in Int /\ Receiver!Reach(config) \in Int
  BY BitsAssumption
     DEF IInv, Reach, Receiver!Reach, Receiver!for_peer_window, Receiver!Larger,
         Receiver!MIN_INFLATER_WINDOW_BITS
<1> HIDE DEF Reach
<1> QED
  BY <1>1 DEF Receiver!Follows

\* The backend finds the next unit where it follows.
LEMMA NextFollows ==
  ASSUME IInv, Receiver!InflateStep
  PROVE  /\ ~poisoned /\ inflater.mode \in Receiver!Sound
         /\ call.input # <<>> =>
              Receiver!Follows(inflater, Head(call.input), Receiver!Reach(config))
         /\ IF Trailing
            THEN call.phase = "trailer"
            ELSE /\ call.phase = "payload" /\ call.input \in Seq(Units(Octet))
                 /\ call.input # <<>> =>
                      /\ Left # <<>> /\ Head(Left) = Head(call.input)
                      /\ Head(Left) # Fin /\ Head(Left) \in Units(Octet)
<1>1. ~poisoned /\ call.phase \in {"payload", "trailer"}
  BY DEF Receiver!InflateStep, IInv, Receiver!IInv, Receiver!PoisonInv
<1>2. CASE Trailing
  <2>1. inflater.mode \in Receiver!Sound
    BY <1>2 DEF IInv, CallInv, Receiver!Sound
  <2>2. ASSUME call.input # <<>>
        PROVE  Receiver!Follows(inflater, Head(call.input), Receiver!Reach(config))
    <3>1. call.input = <<Trl>> /\ inflater.mode = "header"
      BY <2>2, <1>2 DEF IInv, CallInv
    <3> QED
      BY <3>1 DEF Receiver!Follows, Receiver!Sound, Trl, Mark
  <2> QED
    BY <2>1, <2>2, <1>1, <1>2 DEF Trailing
<1>3. CASE ~Trailing
  <2>1. call.phase = "payload" /\ call.input \in Seq(Units(Octet))
    BY <1>1, <1>3 DEF Trailing, IInv, CallInv
  <2>2. DecoderAt.mode = inflater.mode /\ DecoderAt.hist = inflater.hist
    BY <1>3 DEF DecoderAt
  <2>3. ASSUME call.input # <<>>
        PROVE  /\ Left # <<>> /\ Head(Left) = Head(call.input)
               /\ Head(Left) # Fin /\ Head(Left) \in Units(Octet)
    <3> DEFINE fins == IF call.final THEN <<Fin>> ELSE <<>>
    <3>1. fins \in Seq({Fin})
      OBVIOUS
    <3> HIDE DEF fins
    <3>2. Left = call.input \o fins
      BY <1>3 DEF Left, fins
    <3>3. Left # <<>> /\ Head(Left) = Head(call.input)
      BY <3>1, <3>2, <2>1, <2>3
    <3>4. Head(call.input) \in Units(Octet)
      BY <2>1, <2>3
    <3> QED
      BY <3>3, <3>4 DEF Units, Fin, Mark
  <2>4. ASSUME call.input # <<>>
        PROVE  Receiver!Follows(inflater, Head(call.input), Receiver!Reach(config))
    <3>1. Receiver!Follows(DecoderAt, Head(call.input), Reach)
      BY <2>3, <2>4, <1>1, Heading DEF Fits
    <3>2. Receiver!Follows(inflater, Head(call.input), Reach)
      BY <3>1, <2>2 DEF Receiver!Follows
    <3>3. Head(call.input).dist \in Nat
      BY <2>3, <2>4 DEF Units
    <3> QED
      BY <3>2, <3>3, WiderFollows
  <2> QED
    BY <2>1, <2>2, <2>3, <2>4, <1>1, <1>3, Heading
<1> QED
  BY <1>2, <1>3

LEMMA InflateKeeps ==
  ASSUME IInv, Receiver!InflateStep, UNCHANGED <<txVars, wire, received>>
  PROVE  IInv'
<1>1. /\ ~poisoned /\ inflater.mode \in Receiver!Sound
      /\ call.input # <<>> =>
           Receiver!Follows(inflater, Head(call.input), Receiver!Reach(config))
      /\ IF Trailing
         THEN call.phase = "trailer"
         ELSE /\ call.phase = "payload" /\ call.input \in Seq(Units(Octet))
              /\ call.input # <<>> =>
                   /\ Left # <<>> /\ Head(Left) = Head(call.input)
                   /\ Head(Left) # Fin /\ Head(Left) \in Units(Octet)
  BY NextFollows
<1>2. Receiver!IInv'
  <2>1. Receiver!Next
    BY DEF Receiver!Next
  <2> QED
    BY <2>1, EndsAssume, Receiver!Preserved DEF IInv
<1>3. \/ Receiver!Fail(Receiver!Error("Stalled"))
      \/ \E size : /\ Receiver!Fail(Receiver!MessageTooLong(size, call.limit))
                   /\ \/ Len(Receiver!Yielded) > call.limit
                      \/ /\ call.input # <<>>
                         /\ Len(Receiver!Yielded \o Head(call.input).text) > call.limit
      \/ /\ UNCHANGED <<config, rx_reset, delivered, poisoned, rx_result, held, rx_calls>>
         /\ call'.final = call.final /\ call'.limit = call.limit
         /\ call'.ended = call.ended
         /\ \/ /\ call'.input = call.input /\ Receiver!Yielded' = Receiver!Yielded
               /\ inflater'.mode = inflater.mode /\ inflater'.hist = inflater.hist
            \/ /\ call.input # <<>> /\ call'.input = Tail(call.input)
               /\ Receiver!Yielded' = Receiver!Yielded \o Head(call.input).text
               /\ inflater'.mode = Receiver!After(Head(call.input).kind)
               /\ inflater'.hist = inflater.hist \o Head(call.input).text
         /\ \/ call'.phase = call.phase
            \/ /\ call'.input = <<>> /\ call.input = <<>>
               /\ call'.phase = IF call.phase = "payload" THEN "fed" ELSE "closed"
  BY <1>1, EndsAssume, Receiver!ConformingTurn DEF IInv
<1>4. /\ inflater.hist \in Seq(Octet \cup {Junk}) /\ Receiver!Yielded \in Seq(Octet \cup {Junk})
      /\ call.final \in BOOLEAN /\ Receiver!Yielded = DecoderAt.text
      /\ DecoderAt.done = Len(received)
  <2>1. /\ inflater.hist \in Seq(Octet \cup {Junk}) /\ call.final \in BOOLEAN
    BY DEF IInv, Receiver!IInv, Receiver!TypeOK
  <2>2. Receiver!Yielded = DecoderAt.text /\ DecoderAt.done = Len(received)
    BY DEF DecoderAt
  <2> QED
    BY <2>1, <2>2, <1>1, Heading DEF Bounded
<1>5. CASE Receiver!Fail(Receiver!Error("Stalled"))
  <2>1. rx_result'.is = "Stalled"
    BY <1>5 DEF Receiver!Fail, Receiver!Error
  <2> QED
    BY <2>1, <1>2, <1>5, FailureKeeps DEF Receiver!Fail
<1>6. ASSUME NEW size, Receiver!Fail(Receiver!MessageTooLong(size, call.limit)),
             \/ Len(Receiver!Yielded) > call.limit
             \/ /\ call.input # <<>>
                /\ Len(Receiver!Yielded \o Head(call.input).text) > call.limit
      PROVE  IInv'
  <2> DEFINE most == Len(Has(Len(received) + 1, Tx))
             limit == call.limit
  <2>1. rx_result'.is = "MessageTooLong" /\ rx_result'.limit = limit
    BY <1>6 DEF Receiver!Fail, Receiver!MessageTooLong
  <2>2. limit \in Nat /\ most \in Nat
    <3>1. limit \in Nat
      BY EndsAssume DEF IInv, Receiver!IInv, Receiver!TypeOK
    <3>2. Has(Len(received) + 1, Tx) \in Seq(Octet)
      BY Shapes DEF IInv, Has, Tx
    <3> QED
      BY <3>1, <3>2
  <2>3. ASSUME NEW t \in Seq(Octet \cup {Junk}), Len(t) <= most, Len(t) > limit
        PROVE  most > limit
    <3>1. Len(t) \in Nat
      OBVIOUS
    <3> HIDE DEF most, limit
    <3> QED
      BY <3>1, <2>2, <2>3
  <2>4. Len(Receiver!Yielded) <= most
    BY <1>1, <1>4, Heading DEF Bounded
  <2>5. ASSUME call.input # <<>>, Len(Receiver!Yielded \o Head(call.input).text) > limit
        PROVE  most > limit
    <3>1. CASE Trailing
      <4>1. Head(call.input).text = <<>>
        BY <3>1, <2>5 DEF IInv, CallInv, Trl, Mark
      <4>2. Receiver!Yielded \o <<>> = Receiver!Yielded
        BY <1>4
      <4> QED
        BY <4>1, <4>2, <2>3, <2>4, <2>5, <1>4
    <3>2. CASE ~Trailing
      <4> DEFINE next == Moved(DecoderAt, Head(Left), Tx)
      <4>1. Head(Left) = Head(call.input) /\ Bounded(next, Tx) /\ Head(Left) # Fin
        BY <3>2, <2>5, <1>1, Heading
      <4>2. next.text = Receiver!Yielded \o Head(call.input).text /\ next.done = Len(received)
        BY <4>1, <1>4 DEF Moved
      <4> QED
        BY <4>1, <4>2, <2>3, <2>5 DEF Bounded
    <3> QED
      BY <3>1, <3>2
  <2>6. most > limit
    BY <2>3, <2>4, <2>5, <1>4, <1>6
  <2> QED
    BY <2>1, <2>6, <1>2, <1>6, FailureKeeps DEF Receiver!Fail
<1> DEFINE Kept == /\ call'.input = call.input /\ Receiver!Yielded' = Receiver!Yielded
                   /\ inflater'.mode = inflater.mode /\ inflater'.hist = inflater.hist
           Took == /\ call.input # <<>> /\ call'.input = Tail(call.input)
                   /\ Receiver!Yielded' = Receiver!Yielded \o Head(call.input).text
                   /\ inflater'.mode = Receiver!After(Head(call.input).kind)
                   /\ inflater'.hist = inflater.hist \o Head(call.input).text
<1>7. ASSUME UNCHANGED <<config, rx_reset, delivered, poisoned, rx_result, held, rx_calls>>,
             call'.final = call.final, call'.ended = call.ended,
             Kept \/ Took,
             \/ call'.phase = call.phase
             \/ /\ call'.input = <<>> /\ call.input = <<>>
                /\ call'.phase = IF call.phase = "payload" THEN "fed" ELSE "closed"
      PROVE  IInv'
  <2>1. /\ Tx' = Tx /\ PeerAt' = PeerAt
    BY <1>7, SenderRests
  <2>2. CASE Trailing
    <3>1. Trailing' /\ call'.phase # "idle" /\ call.final
      BY <2>2, <1>1, <1>7 DEF Trailing, IInv, CallInv
    <3>2. /\ call'.phase = "closed" => call'.input = <<>>
          /\ call'.phase \in {"trailer", "closed"}
      BY <2>2, <1>1, <1>7
    <3>3. Left' = Left
      BY <3>1, <2>2, <1>7 DEF Left
    <3>4. /\ Receiver!Yielded' = Receiver!Yielded /\ inflater'.hist = inflater.hist
          /\ \/ call'.input = <<Trl>> /\ inflater'.mode = "header"
             \/ call'.input = <<>> /\ inflater'.mode = "boundary"
      <4>1. CASE Kept
        BY <4>1, <2>2 DEF IInv, CallInv
      <4>2. CASE Took
        <5>1. call.input = <<Trl>>
          BY <4>2, <2>2 DEF IInv, CallInv
        <5>2. Tail(call.input) = <<>> /\ Head(call.input) = Trl
          BY <5>1
        <5>3. Trl.text = <<>> /\ Trl.kind = "trl"
          BY DEF Trl, Mark
        <5>4. Receiver!Yielded \o <<>> = Receiver!Yielded /\ inflater.hist \o <<>> = inflater.hist
          BY <1>4
        <5>5. Receiver!After("trl") = "boundary"
          BY DEF Receiver!After
        <5> QED
          BY <4>2, <5>2, <5>3, <5>4, <5>5
      <4> QED
        BY <4>1, <4>2, <1>7
    <3>5. DecoderAt' = DecoderAt
      BY <3>1, <3>4, <2>2 DEF DecoderAt
    <3>6. CallInv'
      BY <3>1, <3>2, <3>4, <1>7 DEF CallInv, IInv
    <3>7. WireInv'
      BY <3>3, <3>5, <2>1, <1>1, StaysOnTheWay
    <3> QED
      BY <3>6, <3>7, <1>2, <1>7, ProgressKeeps DEF IInv
  <2>3. CASE ~Trailing
    <3>1. /\ call'.phase \in {"payload", "fed"} /\ (call'.phase = "fed" => call'.input = <<>>)
          /\ ~Trailing'
      BY <2>3, <1>1, <1>7 DEF Trailing
    <3>2. call'.input \in Seq(Units(Octet))
      <4>1. call.input \in Seq(Units(Octet))
        BY <2>3, <1>1
      <4>2. call.input # <<>> => Tail(call.input) \in Seq(Units(Octet))
        BY <4>1
      <4> QED
        BY <4>1, <4>2, <1>7
    <3>3. CallInv'
      BY <3>1, <3>2, <1>7 DEF CallInv, IInv
    <3>4. ASSUME Kept PROVE WireInv'
      <4>1. Left' = Left /\ DecoderAt' = DecoderAt
        BY <3>1, <3>4, <2>3, <1>7 DEF Left, DecoderAt
      <4> QED
        BY <4>1, <2>1, <1>1, StaysOnTheWay
    <3>5. ASSUME Took PROVE WireInv'
      <4>1. Left # <<>> /\ Head(Left) = Head(call.input) /\ Head(Left) # Fin
        BY <3>5, <2>3, <1>1
      <4>2. DecoderAt' = Moved(DecoderAt, Head(Left), Tx)
        BY <3>1, <3>5, <4>1, <2>3 DEF DecoderAt, Moved
      <4>3. Left' = Tail(Left)
        <5> DEFINE fins == IF call.final THEN <<Fin>> ELSE <<>>
        <5>1. fins \in Seq({Fin})
          <6>1. <<Fin>> \in Seq({Fin}) /\ <<>> \in Seq({Fin})
            OBVIOUS
          <6> QED
            BY <6>1
        <5>2. fins' = fins
          BY <1>7
        <5> HIDE DEF fins
        <5>3. Left = call.input \o fins /\ Left' = call'.input \o fins
          BY <3>1, <5>2, <2>3 DEF Left, fins
        <5>4. Tail(call.input \o fins) = Tail(call.input) \o fins
          BY <5>1, <3>5, <2>3, <1>1, TailOfJoined
        <5> QED
          BY <5>3, <5>4, <3>5
      <4> QED
        BY <4>1, <4>2, <4>3, <2>1, <1>1, StaysOnTheWay
    <3>6. WireInv'
      BY <3>4, <3>5, <1>7
    <3> QED
      BY <3>3, <3>6, <1>2, <1>7, ProgressKeeps DEF IInv
  <2> QED
    BY <2>2, <2>3
<1> QED
  BY <1>3, <1>5, <1>6, <1>7

\* The answer of a poisoned decoder.
LEMMA PoisonedKeeps ==
  ASSUME IInv, Receiver!DecompressPoisoned, UNCHANGED <<txVars, wire, received>>
  PROVE  IInv'
<1>1. Receiver!IInv'
  <2>1. Receiver!Next
    BY DEF Receiver!Next
  <2> QED
    BY <2>1, EndsAssume, Receiver!Preserved DEF IInv
<1>2. /\ poisoned /\ rx_result'.is = "Poisoned"
      /\ UNCHANGED <<config, inflater, rx_reset, poisoned, call, held>>
  BY DEF Receiver!DecompressPoisoned, Receiver!Error
<1>3. /\ Sender!IInv' /\ Sender!TextGiven' /\ peer'.inf.mode \in Receiver!Sound
      /\ peer'.resets = rx_reset' /\ outbox' = outbox
  BY <1>2, SenderRests
<1>4. CallInv' /\ WireInv' /\ RefusedInv' /\ OwnStreamsAreValid'
  BY <1>2 DEF IInv, CallInv, Trailing, WireInv, RefusedInv, OwnStreamsAreValid
<1> QED
  BY <1>1, <1>2, <1>3, <1>4 DEF IInv

\* With the payload in, the next thing on the way is the end of the message:
\* the trailer completes the block it belongs to.
LEMMA TrailerKeeps ==
  ASSUME IInv, Receiver!FeedTrailer, UNCHANGED <<txVars, wire, received>>
  PROVE  IInv'
<1>1. Receiver!IInv'
  <2>1. Receiver!Next
    BY DEF Receiver!Next
  <2> QED
    BY <2>1, EndsAssume, Receiver!Preserved DEF IInv
<1>2. call.phase = "fed" /\ call.final /\ ~Trailing /\ call.input = <<>> /\ ~poisoned
  BY DEF Receiver!FeedTrailer, Trailing, IInv, CallInv, Receiver!IInv, Receiver!PoisonInv
<1>3. Left = <<Fin>>
  BY <1>2 DEF Left
<1>4. DecoderAt.mode = "header" /\ DecoderAt.mode = inflater.mode
  <2>1. Left # <<>> /\ Head(Left) = Fin
    BY <1>3
  <2> QED
    BY <2>1, <1>2, Heading DEF Fits, DecoderAt
<1>5. stream_open
  BY <1>2, <1>4 DEF IInv, Receiver!IInv, Receiver!PositionTracked
<1>6. /\ call' = [call EXCEPT !.phase = "trailer", !.input = <<Receiver!Trl>>, !.ended = FALSE]
      /\ UNCHANGED <<config, rx_reset, delivered, poisoned, rx_result, held, inflater>>
  BY <1>5 DEF Receiver!FeedTrailer
<1>7. /\ call'.phase = "trailer" /\ call'.input = <<Trl>> /\ call'.ended = FALSE
      /\ call'.final = call.final /\ call'.out = call.out
  BY <1>6, SameUnits DEF IInv, Receiver!IInv, Receiver!TypeOK
<1>8. Trailing' /\ CallInv'
  BY <1>2, <1>4, <1>6, <1>7 DEF Trailing, CallInv
<1>9. Left' = Left
  BY <1>2, <1>3, <1>7, <1>8 DEF Left
<1>10. DecoderAt' = DecoderAt
  BY <1>2, <1>4, <1>6, <1>7, <1>8 DEF DecoderAt, Receiver!Yielded
<1>11. WireInv'
  BY <1>2, <1>6, <1>9, <1>10, StaysOnTheWay, SenderRests
<1> QED
  BY <1>1, <1>6, <1>8, <1>11, ProgressKeeps DEF IInv

\* A fragment that is not the last one is in.
LEMMA NonFinalKeeps ==
  ASSUME IInv, Receiver!ReturnNonFinal, UNCHANGED <<txVars, wire, received>>
  PROVE  IInv'
<1>1. Receiver!IInv'
  <2>1. Receiver!Next
    BY DEF Receiver!Next
  <2> QED
    BY <2>1, EndsAssume, Receiver!Preserved DEF IInv
<1>2. /\ call.phase = "fed" /\ ~call.final /\ ~Trailing /\ call.input = <<>> /\ ~poisoned
      /\ inflater.owed = <<>>
  BY DEF Receiver!ReturnNonFinal, Trailing, IInv, CallInv, Receiver!IInv, Receiver!PoisonInv,
         Receiver!OwedInv
<1>3. /\ held' = held \o call.out /\ call' = Receiver!Idle /\ rx_result' = Receiver!Ok
      /\ UNCHANGED <<config, inflater, rx_reset, poisoned>>
  BY DEF Receiver!ReturnNonFinal
<1>4. /\ call'.phase = "idle" /\ call'.input = <<>> /\ call'.final = FALSE
      /\ call'.ended = FALSE /\ call'.out = <<>> /\ rx_result'.is = "Ok"
  BY <1>3 DEF Receiver!Idle, Receiver!Ok
<1>5. ~Trailing' /\ CallInv'
  BY <1>4 DEF Trailing, CallInv
<1>6. Left = <<>> /\ Left' = <<>>
  BY <1>2, <1>4, <1>5 DEF Left
<1>7. Receiver!Yielded' = Receiver!Yielded
  <2>1. held \in Seq(Octet \cup {Junk}) /\ call.out \in Seq(Octet \cup {Junk})
    BY DEF IInv, Receiver!IInv, Receiver!TypeOK
  <2> DEFINE all == held \o call.out
  <2>2. all \in Seq(Octet \cup {Junk})
    BY <2>1
  <2>3. Receiver!Yielded = all \o <<>> /\ Receiver!Yielded' = (all \o <<>>) \o <<>>
    BY <1>2, <1>3, <1>4 DEF Receiver!Yielded
  <2> HIDE DEF all
  <2>4. all \o <<>> = all
    BY <2>2
  <2> QED
    BY <2>3, <2>4
<1>8. DecoderAt' = DecoderAt
  BY <1>2, <1>3, <1>5, <1>7 DEF DecoderAt
<1>9. WireInv'
  BY <1>2, <1>3, <1>6, <1>8, StaysOnTheWay, SenderRests
<1> QED
  BY <1>1, <1>3, <1>4, <1>5, <1>9, ProgressKeeps DEF IInv

\* The message the decoder completes is the one that was sent in its place.
LEMMA CompleteMoves ==
  ASSUME IInv, Complete
  PROVE  /\ ~poisoned /\ poisoned' = poisoned
         /\ Len(received) < Len(outbox)
         /\ received' = Append(received, outbox[Len(received) + 1])
         /\ call' = Receiver!Idle /\ rx_result' = Receiver!Ok
         /\ Left = <<Fin>> /\ DecoderAt' = Moved(DecoderAt, Fin, Tx)
         /\ UNCHANGED <<config, rx_reset>>
<1>1. Receiver!ReturnFinal /\ UNCHANGED <<txVars, wire>>
      /\ received' = IF poisoned' THEN received ELSE Append(received, held \o call.out)
  BY DEF Complete
<1>2. /\ call.phase = "closed" /\ Trailing /\ call.final /\ ~call.ended /\ ~poisoned
      /\ inflater.owed = <<>> /\ inflater.mode = "boundary"
  <2>1. call.phase = "closed" /\ Trailing
    BY <1>1 DEF Receiver!ReturnFinal, Trailing
  <2>2. call.final /\ ~call.ended /\ call.input = <<>>
    BY <2>1 DEF IInv, CallInv
  <2>3. <<Trl>> # <<>>
    OBVIOUS
  <2>4. inflater.mode = "boundary"
    BY <2>1, <2>2, <2>3 DEF IInv, CallInv
  <2>5. ~poisoned /\ inflater.owed = <<>>
    BY <2>1 DEF IInv, Receiver!IInv, Receiver!PoisonInv, Receiver!OwedInv
  <2> QED
    BY <2>1, <2>2, <2>4, <2>5
<1>3. /\ IF rx_reset
         THEN inflater' = Receiver!reinitialised
         ELSE UNCHANGED inflater
      /\ held' = <<>> /\ call' = Receiver!Idle /\ rx_result' = Receiver!Ok
      /\ UNCHANGED <<config, rx_reset, poisoned>>
  BY <1>1, <1>2 DEF Receiver!ReturnFinal
<1>4. Left = <<Fin>>
  BY <1>2 DEF Left
<1>5. /\ DecoderAt.text = Receiver!Yielded /\ DecoderAt.done = Len(received)
      /\ DecoderAt.hist = inflater.hist
  BY DEF DecoderAt
<1>6. Len(received) < Len(outbox) /\ Receiver!Yielded = outbox[Len(received) + 1]
  <2>1. Left # <<>> /\ Head(Left) = Fin
    BY <1>4
  <2> QED
    BY <2>1, <1>2, <1>5, Heading DEF Fits, Tx
<1>7. held \o call.out = Receiver!Yielded
  <2>1. held \in Seq(Octet \cup {Junk}) /\ call.out \in Seq(Octet \cup {Junk})
    BY DEF IInv, Receiver!IInv, Receiver!TypeOK
  <2> DEFINE all == held \o call.out
  <2>2. all \in Seq(Octet \cup {Junk})
    BY <2>1
  <2>3. Receiver!Yielded = all \o <<>>
    BY <1>2 DEF Receiver!Yielded
  <2> HIDE DEF all
  <2>4. all \o <<>> = all
    BY <2>2
  <2> QED
    BY <2>3, <2>4 DEF all
<1>8. received' = Append(received, outbox[Len(received) + 1])
  BY <1>1, <1>2, <1>3, <1>6, <1>7
<1>9. /\ inflater'.mode = IF rx_reset THEN "start" ELSE "boundary"
      /\ inflater'.hist = IF rx_reset THEN <<>> ELSE inflater.hist
      /\ inflater'.owed = <<>>
  <2>1. config \in Receiver!Widths
    BY DEF IInv, Receiver!IInv, Receiver!TypeOK, Receiver!Widths
  <2>2. /\ Receiver!reinitialised.mode = "start" /\ Receiver!reinitialised.owed = <<>>
        /\ Receiver!reinitialised.hist = <<>>
    BY <2>1, EndsAssume, Receiver!Reinitialised
  <2> QED
    BY <2>2, <1>2, <1>3
<1>10. /\ ~Trailing' /\ Receiver!Yielded' = <<>> /\ Len(received') = Len(received) + 1
  <2>1. call'.phase = "idle" /\ call'.out = <<>>
    BY <1>3 DEF Receiver!Idle
  <2>2. <<>> \o <<>> \o <<>> = <<>>
    OBVIOUS
  <2>3. Len(received') = Len(received) + 1
    BY <1>8 DEF IInv
  <2> QED
    BY <2>1, <2>2, <2>3, <1>3, <1>9 DEF Trailing, Receiver!Yielded
<1>11. DecoderAt' = Moved(DecoderAt, Fin, Tx)
  <2>1. Tx.resets = rx_reset
    BY DEF Tx
  <2> QED
    BY <2>1, <1>5, <1>9, <1>10 DEF DecoderAt, Moved
<1> QED
  BY <1>2, <1>3, <1>4, <1>6, <1>8, <1>11

LEMMA CompleteKeeps ==
  ASSUME IInv, Complete
  PROVE  IInv'
<1>1. /\ ~poisoned /\ poisoned' = poisoned
      /\ Len(received) < Len(outbox)
      /\ received' = Append(received, outbox[Len(received) + 1])
      /\ call' = Receiver!Idle /\ rx_result' = Receiver!Ok
      /\ Left = <<Fin>> /\ DecoderAt' = Moved(DecoderAt, Fin, Tx)
      /\ UNCHANGED <<config, rx_reset>>
  BY CompleteMoves
<1>2. Receiver!IInv' /\ UNCHANGED <<txVars, wire>>
  <2>1. Receiver!Next /\ UNCHANGED <<txVars, wire>>
    BY DEF Receiver!Next, Complete
  <2> QED
    BY <2>1, EndsAssume, Receiver!Preserved DEF IInv
<1>3. /\ call'.phase = "idle" /\ call'.input = <<>> /\ call'.final = FALSE
      /\ call'.ended = FALSE /\ call'.out = <<>> /\ rx_result'.is = "Ok"
  BY <1>1 DEF Receiver!Idle, Receiver!Ok
<1>4. ~Trailing' /\ CallInv'
  BY <1>3 DEF Trailing, CallInv
<1>5. Left' = <<>>
  BY <1>3, <1>4 DEF Left
<1>6. Left # <<>> /\ Head(Left) = Fin /\ Tail(Left) = <<>>
  BY <1>1
<1>7. WireInv'
  BY <1>1, <1>2, <1>5, <1>6, StaysOnTheWay, SenderRests
<1>8. received' \in Seq(Seq(Octet)) /\ Len(received') <= Len(outbox)
  <2>1. outbox \in Seq(Seq(Octet)) /\ received \in Seq(Seq(Octet))
    BY Shapes DEF IInv
  <2>2. outbox[Len(received) + 1] \in Seq(Octet)
    BY <2>1, <1>1
  <2> QED
    BY <2>1, <2>2, <1>1
<1> QED
  BY <1>1, <1>2, <1>3, <1>4, <1>7, <1>8, ProgressKeeps DEF IInv

\* A piece handed over goes from the wire to the call, the end of its message
\* with it if it is marked final: together they hold the same units.
LEMMA PieceMoves ==
  ASSUME NEW w \in Seq(OnWire), NEW n \in 0..Len(w), \A i \in 1..n : w[i] # Fin,
         NEW final \in BOOLEAN, final => n < Len(w) /\ w[n + 1] = Fin
  PROVE  LET piece == SubSeq(w, 1, n)
             rest  == SubSeq(w, IF final THEN n + 2 ELSE n + 1, Len(w))
         IN /\ piece \in Seq(Units(Octet)) /\ rest \in Seq(OnWire)
            /\ (piece \o (IF final THEN <<Fin>> ELSE <<>>)) \o rest = w
<1> DEFINE piece == SubSeq(w, 1, n)
           rest  == SubSeq(w, IF final THEN n + 2 ELSE n + 1, Len(w))
<1>1. /\ piece \in Seq(OnWire) /\ Len(piece) = n /\ \A i \in 1..n : piece[i] = w[i]
  OBVIOUS
<1>2. \A i \in 1..n : w[i] \in Units(Octet)
  BY DEF OnWire
<1> HIDE DEF piece
<1>3. piece \in Seq(Units(Octet))
  BY <1>1, <1>2
<1>4. CASE final
  <2>1. n < Len(w) /\ w[n + 1] = Fin /\ rest = SubSeq(w, n + 2, Len(w))
    BY <1>4
  <2>2. rest \in Seq(OnWire) /\ (piece \o <<Fin>>) \o rest = w
    BY <2>1, CutAround DEF piece
  <2> QED
    BY <2>2, <1>3, <1>4 DEF piece
<1>5. CASE ~final
  <2>1. rest = SubSeq(w, n + 1, Len(w))
    BY <1>5
  <2>2. rest \in Seq(OnWire) /\ piece \o rest = w
    BY <2>1, CutInTwo DEF piece
  <2>3. piece \o <<>> = piece
    BY <1>1
  <2> QED
    BY <2>2, <2>3, <1>3, <1>5 DEF piece
<1> QED
  BY <1>4, <1>5

LEMMA HandKeeps ==
  ASSUME IInv, NEW n, NEW final \in BOOLEAN, NEW limit \in Limits, Hand(n, final, limit)
  PROVE  IInv'
<1> DEFINE piece == SubSeq(wire, 1, n)
           fins == IF final THEN <<Fin>> ELSE <<>>
<1>1. /\ n \in 0..Len(wire) /\ \A i \in 1..n : wire[i] # Fin
      /\ final => n < Len(wire) /\ wire[n + 1] = Fin
      /\ Receiver!Decompress(piece, final, limit)
      /\ wire' = SubSeq(wire, IF final THEN n + 2 ELSE n + 1, Len(wire))
      /\ UNCHANGED <<txVars, received>>
  BY DEF Hand, Arrived, Ends
<1>2. wire \in Seq(OnWire)
  BY DEF IInv
<1>3. piece \in Seq(Units(Octet)) /\ wire' \in Seq(OnWire) /\ (piece \o fins) \o wire' = wire
  <2>1. /\ piece \in Seq(Units(Octet))
        /\ SubSeq(wire, IF final THEN n + 2 ELSE n + 1, Len(wire)) \in Seq(OnWire)
        /\ (piece \o fins) \o SubSeq(wire, IF final THEN n + 2 ELSE n + 1, Len(wire)) = wire
    BY <1>1, <1>2, PieceMoves, Zenon
  <2> QED
    BY <2>1, <1>1
<1> HIDE DEF piece
<1>4. /\ call.phase = "idle" /\ ~poisoned
      /\ call' = [Receiver!Idle EXCEPT !.phase = "payload", !.input = piece,
                                       !.final = final, !.limit = limit]
      /\ UNCHANGED <<config, inflater, rx_reset, poisoned, rx_result, held>>
  BY <1>1 DEF Receiver!Decompress
<1>5. /\ call'.phase = "payload" /\ call'.input = piece /\ call'.final = final
      /\ call'.ended = FALSE /\ call'.out = <<>>
  BY <1>4 DEF Receiver!Idle
<1>6. ~Trailing /\ ~Trailing' /\ CallInv'
  BY <1>3, <1>4, <1>5 DEF Trailing, CallInv
<1>7. call.input = <<>> /\ ~call.final /\ call.out = <<>>
  BY <1>4 DEF IInv, CallInv
<1>8. Receiver!IInv'
  <2>1. piece \in Seq(Units(Octet \cup {Junk}))
    <3>1. Units(Octet) \subseteq Units(Octet \cup {Junk})
      BY DEF Units
    <3> QED
      BY <3>1, <1>3, SeqWidens, Zenon
  <2>2. Receiver!Next
    BY <2>1, <1>1 DEF Receiver!Next
  <2> QED
    BY <2>2, EndsAssume, Receiver!Preserved DEF IInv
<1>9. Left' \o wire' = Left \o wire
  <2>1. Left = <<>> /\ Left' = piece \o fins
    BY <1>5, <1>6, <1>7 DEF Left
  <2>2. <<>> \o wire = wire
    BY <1>2
  <2> QED
    BY <2>1, <2>2, <1>3
<1>10. DecoderAt' = DecoderAt
  BY <1>1, <1>4, <1>5, <1>6, <1>7 DEF DecoderAt, Receiver!Yielded
<1>11. WireInv'
  BY <1>1, <1>4, <1>9, <1>10, StaysOnTheWay, SenderRests
<1> QED
  BY <1>1, <1>3, <1>4, <1>6, <1>8, <1>11, ProgressKeeps DEF IInv

-----------------------------------------------------------------------------
(* The invariant.                                                           *)

LEMMA InitInv == Init => IInv
<1> SUFFICES ASSUME Init PROVE IInv
  OBVIOUS
<1>1. /\ Sender!Init /\ Receiver!Init /\ peer.resets = rx_reset
      /\ wire = <<>> /\ received = <<>>
  BY DEF Init
<1>2. Sender!IInv /\ Receiver!IInv
  BY <1>1, EndsAssume, Sender!InitInv, Receiver!Starts
<1>3. /\ peer.inf = Sender!FreshInflate /\ peer.text = <<>> /\ message = <<>> /\ outbox = <<>>
  BY <1>1 DEF Sender!Init
<1>4. /\ peer.inf.mode = "start" /\ peer.inf.hist = <<>>
  BY <1>3 DEF Sender!FreshInflate
<1>5. /\ config = Receiver!for_peer_window(Bits) /\ inflater = Receiver!build(config)
      /\ call = Receiver!Idle /\ rx_result = Receiver!Ok /\ held = <<>> /\ ~poisoned
  BY <1>1 DEF Receiver!Init
<1>6. /\ inflater.mode = "start" /\ inflater.hist = <<>> /\ inflater.owed = <<>>
  BY <1>5 DEF Receiver!build
<1>7. /\ call.phase = "idle" /\ call.input = <<>> /\ call.final = FALSE
      /\ call.ended = FALSE /\ call.out = <<>> /\ rx_result.is = "Ok"
  BY <1>5 DEF Receiver!Idle, Receiver!Ok
<1>8. ~Trailing /\ CallInv
  BY <1>7 DEF Trailing, CallInv
<1>9. Left \o wire = <<>>
  BY <1>1, <1>7, <1>8 DEF Left
<1>10. DecoderAt = PeerAt
  <2>1. Receiver!Yielded = <<>>
    BY <1>5, <1>6, <1>7 DEF Receiver!Yielded
  <2>2. Len(outbox) = 0 /\ Len(received) = 0
    BY <1>1, <1>3
  <2> QED
    BY <2>1, <2>2, <1>3, <1>4, <1>6, <1>8 DEF DecoderAt, PeerAt
<1>11. WireInv
  <2>1. Bounded(PeerAt, Tx)
    <3>1. PeerAt.text = <<>> /\ PeerAt.done = 0 /\ Tx.sent = <<>> /\ Tx.text = <<>>
      BY <1>3 DEF PeerAt, Tx
    <3>2. Has(PeerAt.done + 1, Tx) = <<>>
      BY <3>1 DEF Has
    <3> QED
      BY <3>1, <3>2 DEF Bounded
  <2> QED
    BY <2>1, <1>9, <1>10, NoWay DEF WireInv
<1>12. Sender!TextGiven
  BY <1>3 DEF Sender!TextGiven
<1>13. /\ RefusedInv /\ OwnStreamsAreValid /\ peer.inf.mode \in Receiver!Sound
       /\ wire \in Seq(OnWire) /\ received \in Seq(Seq(Octet)) /\ Len(received) <= Len(outbox)
  BY <1>1, <1>3, <1>4, <1>7 DEF RefusedInv, OwnStreamsAreValid, Receiver!Sound
<1> QED
  BY <1>1, <1>2, <1>5, <1>8, <1>11, <1>12, <1>13 DEF IInv

LEMMA NextKeeps == IInv /\ [Next]_vars => IInv'
<1> SUFFICES ASSUME IInv, [Next]_vars PROVE IInv'
  OBVIOUS
<1>1. CASE Prepare \/ PrepareFragment
  <2>1. /\ [Sender!Next]_(Sender!vars) /\ UNCHANGED <<peer, outbox, rxVars, wire, received>>
    BY <1>1 DEF Prepare, PrepareFragment, Sender!Next, Sender!PrepareMessage, Sender!PrepareNonFinalFragment,
                Sender!PrepareFinalFragment, Sender!Prepare, Sender!BeginStreamingMessage,
                Sender!CallPoisoned
  <2> QED
    BY <2>1, QuietKeeps
<1>2. CASE Resolve
  <2>1. /\ [Sender!Next]_(Sender!vars) /\ UNCHANGED <<peer, outbox, rxVars, wire, received>>
    BY <1>2 DEF Resolve, Sender!Next, Sender!Commit, Sender!CommitNonFinal,
                Sender!ResetToPlain, Sender!DropGuard, Sender!Restore
  <2> QED
    BY <2>1, QuietKeeps
<1>3. CASE Write
  BY <1>3, WriteKeeps
<1>4. ASSUME NEW n \in 0..Len(wire), NEW final \in BOOLEAN, NEW limit \in Limits,
             Hand(n, final, limit)
      PROVE  IInv'
  BY <1>4, HandKeeps
<1>5. CASE Decode
  <2>1. UNCHANGED <<txVars, wire, received>>
    BY <1>5 DEF Decode
  <2>2. \/ Receiver!InflateStep \/ Receiver!FeedTrailer
        \/ Receiver!ReturnNonFinal \/ Receiver!DecompressPoisoned
    BY <1>5 DEF Decode
  <2> QED
    BY <2>1, <2>2, InflateKeeps, TrailerKeeps, NonFinalKeeps, PoisonedKeeps
<1>6. CASE Complete
  BY <1>6, CompleteKeeps
<1>7. CASE UNCHANGED vars
  <2>1. [Sender!Next]_(Sender!vars) /\ UNCHANGED <<peer, outbox, rxVars, wire, received>>
    BY <1>7 DEF vars, txVars, Sender!vars
  <2> QED
    BY <2>1, QuietKeeps
<1> QED
  BY <1>1, <1>2, <1>3, <1>4, <1>5, <1>6, <1>7 DEF Next

\* In every state that a run of the two ends reaches, what is under way leads the
\* decoder to where a conforming inflater of the written units stands.
THEOREM Invariance == Spec => []IInv
  BY InitInv, NextKeeps, PTL DEF Spec

-----------------------------------------------------------------------------
(* What the two ends make together.                                         *)

\* No unit this crate's encoder puts on the wire, after any transactions and
\* however the frames are cut, makes its decoder answer InvalidStream.
THEOREM OwnStreamsAccepted == Spec => []OwnStreamsAreValid
<1>1. IInv => OwnStreamsAreValid
  BY DEF IInv
<1> QED
  BY <1>1, Invariance, PTL

\* The decoder answers MessageTooLong only for a message whose own text is longer
\* than the ceiling of the call that refused it: no octet of an earlier message
\* or of an abandoned candidate counts.
THEOREM RefusalsAreDue == Spec => []RefusedPastCeiling
<1>1. IInv => RefusedPastCeiling
  <2> SUFFICES ASSUME IInv, rx_result.is = "MessageTooLong"
               PROVE  Len(MessageAt(Len(received) + 1)) > rx_result.limit
    BY DEF RefusedPastCeiling
  <2> DEFINE n == Len(received) + 1
  <2>1. Len(Has(n, Tx)) > rx_result.limit
    BY DEF IInv, RefusedInv
  <2> HIDE DEF n
  <2>2. CASE n <= Len(outbox)
    BY <2>1, <2>2 DEF Has, Tx, MessageAt, n
  <2>3. CASE ~(n <= Len(outbox))
    <3>1. Len(peer.text) > rx_result.limit
      BY <2>1, <2>3 DEF Has, Tx
    <3>2. Len(peer.text) <= Len(message)
      BY DEF IInv, Sender!TextGiven
    <3>3. rx_result.limit \in Nat /\ Len(peer.text) \in Nat /\ Len(message) \in Nat
      <4>1. rx_result.limit \in Nat
        BY EndsAssume DEF IInv, Receiver!IInv, Receiver!TypeOK
      <4> QED
        BY <4>1, Shapes
    <3>4. Len(message) > rx_result.limit
      BY <3>1, <3>2, <3>3
    <3> QED
      BY <3>4, <2>3 DEF MessageAt, n
  <2> QED
    BY <2>2, <2>3
<1> QED
  BY <1>1, Invariance, PTL

\* Between messages, with the wire empty, the history the encoder may refer to is
\* the end of the decoder's: resets, abandoned candidates and the trailer fed
\* back have left the two windows in step.
THEOREM WindowsInStep == Spec => []EndsInStep
<1>1. IInv => EndsInStep
  <2> SUFFICES ASSUME IInv, wire = <<>>, compressor # None, call.phase = "idle", ~poisoned
               PROVE  Sender!IsSuffixOf(compressor.hist, inflater.hist)
    BY DEF EndsInStep
  <2>1. ~Trailing /\ Left \o wire = <<>>
    BY DEF IInv, CallInv, Trailing, Left
  <2>2. DecoderAt = PeerAt
    <3>1. Leads(DecoderAt, <<>>, PeerAt, Tx)
      BY <2>1 DEF IInv, WireInv
    <3> QED
      BY <3>1, NoWay
  <2>3. inflater.hist = peer.inf.hist
    BY <2>2 DEF DecoderAt, PeerAt
  <2>4. Sender!IsSuffixOf(compressor.hist, peer.inf.hist)
    BY DEF IInv, Sender!IInv, Sender!IdleInv
  <2> QED
    BY <2>3, <2>4
<1> QED
  BY <1>1, Invariance, PTL

-----------------------------------------------------------------------------
(* The two ends implement MessageChannel.                                   *)

\* Where the sending end alone, with a conforming peer, makes a step of the
\* channel, so do the two, as long as nothing arrives.
LEMMA SenderImplements ==
  ASSUME IInv, IInv', [Sender!Next]_(Sender!vars), received' = received
  PROVE  [Channel!Next]_(Channel!vars)
<1>1. inbox = outbox /\ inbox' = outbox'
  BY DEF IInv, Sender!IInv, Sender!MessagesArrive
<1>2. [Sender!Channel!Next]_(Sender!Channel!vars)
  BY EndsAssume, Sender!StepImplements DEF IInv
<1>3. ~Sender!Channel!Receive
  BY <1>1, Shapes DEF Sender!Channel!Receive
<1>4. CASE Sender!Channel!Send
  BY <1>4 DEF Sender!Channel!Send, Channel!Send, Channel!Next
<1>5. ASSUME NEW payload \in Payload, NEW last \in BOOLEAN, Sender!Channel!Give(payload, last)
      PROVE  Channel!Next
  BY <1>5 DEF Sender!Channel!Give, Channel!Give, Channel!Next
<1>6. CASE \/ Sender!Channel!Begin \/ Sender!Channel!Settle
           \/ Sender!Channel!Withdraw \/ Sender!Channel!Close
  BY <1>6 DEF Sender!Channel!Begin, Channel!Begin, Sender!Channel!Settle, Channel!Settle,
              Sender!Channel!Withdraw, Channel!Withdraw, Sender!Channel!Close, Channel!Close,
              Channel!Next
<1>7. CASE UNCHANGED Sender!Channel!vars
  BY <1>7 DEF Sender!Channel!vars, Channel!vars
<1> QED
  BY <1>2, <1>3, <1>4, <1>5, <1>6, <1>7 DEF Sender!Channel!Next

\* What no step of the receiving end touches.
LEMMA ReceiverStutters ==
  ASSUME UNCHANGED <<txVars, received>>
  PROVE  UNCHANGED Channel!vars
  BY DEF txVars, Channel!vars, Sender!ChannelPhase, Sender!Poisoned, Sender!Written

LEMMA StepImplements ==
  ASSUME IInv, IInv', [Next]_vars
  PROVE  [Channel!Next]_(Channel!vars)
<1>1. CASE Prepare \/ PrepareFragment
  <2>1. [Sender!Next]_(Sender!vars) /\ received' = received
    BY <1>1 DEF Prepare, PrepareFragment, Sender!Next
  <2> QED
    BY <2>1, SenderImplements
<1>2. CASE Resolve
  <2>1. [Sender!Next]_(Sender!vars) /\ received' = received
    BY <1>2 DEF Resolve, Sender!Next
  <2> QED
    BY <2>1, SenderImplements
<1>3. CASE Write
  <2>1. [Sender!Next]_(Sender!vars) /\ received' = received
    BY <1>3 DEF Write, Sender!Next
  <2> QED
    BY <2>1, SenderImplements
<1>4. ASSUME NEW n \in 0..Len(wire), NEW final \in BOOLEAN, NEW limit \in Limits,
             Hand(n, final, limit)
      PROVE  [Channel!Next]_(Channel!vars)
  BY <1>4, ReceiverStutters DEF Hand
<1>5. CASE Decode
  BY <1>5, ReceiverStutters DEF Decode
<1>6. CASE Complete
  <2>1. /\ Len(received) < Len(outbox)
        /\ received' = Append(received, outbox[Len(received) + 1])
        /\ UNCHANGED txVars
    BY <1>6, CompleteMoves DEF Complete
  <2>2. Channel!Receive
    BY <2>1 DEF Channel!Receive, txVars, Sender!ChannelPhase, Sender!Poisoned, Sender!Written
  <2> QED
    BY <2>2 DEF Channel!Next
<1>7. CASE UNCHANGED vars
  BY <1>7, ReceiverStutters DEF vars
<1> QED
  BY <1>1, <1>2, <1>3, <1>4, <1>5, <1>6, <1>7 DEF Next

\* Whatever the sending host does with its transactions, however the frames are
\* cut, the ceilings move and the backends portion their work, the messages the
\* decoder returns are those that left the encoder, whole, in order, as given.
THEOREM Refinement == Spec => EndToEnd
<1>1. Init => Channel!Init
  <2> SUFFICES ASSUME Init PROVE Channel!Init
    OBVIOUS
  <2>1. Sender!FreshCompress \in Sender!Compressors(Octet)
    BY DEF Sender!FreshCompress, Sender!Compressors
  <2>2. Sender!IInv /\ compressor # None
    BY <2>1, EndsAssume, Sender!InitInv DEF Init, Sender!Init
  <2>3. Sender!Phases
    BY <2>2, EndsAssume, Sender!PhaseOf
  <2> QED
    BY <2>2, <2>3 DEF Sender!Phases, Init, Sender!Init, Channel!Init
<1>2. IInv /\ IInv' /\ [Next]_vars => [Channel!Next]_(Channel!vars)
  BY StepImplements
<1> QED
  BY <1>1, <1>2, Invariance, PTL DEF Spec, EndToEnd, Channel!Spec
=============================================================================
