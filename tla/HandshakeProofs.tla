-------------------------- MODULE HandshakeProofs --------------------------
(***************************************************************************)
(* Proofs about Handshake, for every set of configurations, every field a   *)
(* foreign peer may write, every addition and every number of edits.        *)
(***************************************************************************)
EXTENDS Handshake, TLAPS, SequenceTheorems, WellFoundedInduction

-----------------------------------------------------------------------------
(* Lemmas about the operators.                                              *)

\* A set of positions that is not empty has a first one: the code's walks
\* over elements and parameters stop at it.
LEMMA FirstExists ==
  ASSUME NEW S \in SUBSET Nat, S # {}
  PROVE  /\ (CHOOSE i \in S : \A j \in S : i <= j) \in S
         /\ \A j \in S : (CHOOSE i \in S : \A k \in S : i <= k) <= j
<1>1. PICK x \in S : \A y \in S : ~(<<y, x>> \in OpToRel(<, Nat))
  BY NatLessThanWellFounded, WFMin
<1>2. \A y \in S : x <= y
  <2>1. SUFFICES ASSUME NEW y \in S PROVE x <= y
    OBVIOUS
  <2>2. ~(y < x)
    BY <1>1 DEF OpToRel
  <2> QED
    BY <2>2
<1> QED
  BY <1>1, <1>2

\* A parameter list without a fault has typed values.
LEMMA ParsedTyped ==
  ASSUME NEW params \in Seq(Parameter), parse_params(params).error = "Ok"
  PROVE  parse_params(params).params \in Params
<1> DEFINE faults == {i \in DOMAIN params : Fault(params, i) # "Ok"}
<1>1. faults = {}
  <2>1. SUFFICES ASSUME faults # {} PROVE FALSE
    OBVIOUS
  <2>2. faults \in SUBSET Nat
    BY LenProperties
  <2>3. (CHOOSE i \in faults : \A j \in faults : i <= j) \in faults
    BY <2>1, <2>2, FirstExists
  <2> QED
    BY <2>1, <2>3 DEF parse_params
<1>2. ASSUME NEW i \in DOMAIN params
      PROVE  /\ params[i].name = "server_max_window_bits" => params[i].value \in WireBits
             /\ params[i].name = "client_max_window_bits"
                  => params[i].value \in WireBits \cup {NoValue}
  <2>1. params[i] \in Parameter
    BY LenProperties
  <2>2. Fault(params, i) = "Ok"
    BY <1>1
  <2> QED
    BY <2>1, <2>2 DEF Fault, Parameter, Flags, Windows, NoValue
<1>3. Bits(params, "server_max_window_bits") \in WireBits \cup {Absent}
  BY <1>2 DEF Bits, Has
<1>4. Bits(params, "client_max_window_bits") \in WireBits \cup {Absent, Valueless}
  BY <1>2 DEF Bits, Has, Valueless
<1> QED
  BY <1>3, <1>4 DEF parse_params, Params, Has

\* What either side renders is an element.
LEMMA RenderTyped ==
  ASSUME NEW server_nct \in BOOLEAN, NEW client_nct \in BOOLEAN,
         NEW server_bits \in WireBits \cup {Absent},
         NEW client_bits \in WireBits \cup {Absent, Valueless}
  PROVE  /\ render(server_nct, client_nct, server_bits, client_bits) \in Element
         /\ is_deflate(render(server_nct, client_nct, server_bits, client_bits))
<1>1. \A condition \in BOOLEAN, param \in Parameter : OneIf(condition, param) \in Seq(Parameter)
  BY DEF OneIf
<1>2. /\ Param("server_no_context_takeover", NoValue) \in Parameter
      /\ Param("client_no_context_takeover", NoValue) \in Parameter
      /\ server_bits # Absent => Param("server_max_window_bits", server_bits) \in Parameter
      /\ client_bits # Absent => Param("client_max_window_bits", client_bits) \in Parameter
  BY DEF Param, Parameter, Flags, Windows, NoValue, WireBits, Absent, Valueless
<1> DEFINE a == OneIf(server_nct, Param("server_no_context_takeover", NoValue))
           b == OneIf(client_nct, Param("client_no_context_takeover", NoValue))
           c == OneIf(server_bits # Absent, Param("server_max_window_bits", server_bits))
           d == OneIf(client_bits # Absent, Param("client_max_window_bits", client_bits))
<1>3. a \in Seq(Parameter) /\ b \in Seq(Parameter) /\ c \in Seq(Parameter) /\ d \in Seq(Parameter)
  BY <1>1, <1>2 DEF OneIf
<1>4. a \o b \o c \o d \in Seq(Parameter)
  <2> HIDE DEF a, b, c, d
  <2>1. a \o b \in Seq(Parameter)
    BY <1>3, ConcatProperties
  <2>2. a \o b \o c \in Seq(Parameter)
    BY <1>3, <2>1, ConcatProperties
  <2> QED
    BY <1>3, <2>2, ConcatProperties
<1> QED
  BY <1>4 DEF render, Deflate, Element, is_deflate

LEMMA OfferTyped ==
  ASSUME NEW config \in ClientConfig
  PROVE  render_offer(config) \in Element /\ is_deflate(render_offer(config))
<1>1. /\ config.server_no_context_takeover \in BOOLEAN
      /\ config.client_no_context_takeover \in BOOLEAN
      /\ config.server_max_window_bits \in WireBits
      /\ config.client_max_window_bits \in WireBits
  BY DEF ClientConfig, PeerBits, LocalBits, WireBits
<1> QED
  BY <1>1, RenderTyped DEF render_offer

\* The widths of an answer are what both ends can hold.
LEMMA WindowsTyped ==
  ASSUME NEW config \in ServerConfig, NEW offer \in Params, ~Declines(config, offer)
  PROVE  /\ server_window(config, offer) \in LocalBits \cup {Absent}
         /\ client_window(config, offer) \in WireBits \cup {Absent}
         /\ Or(server_window(config, offer), MAX_WINDOW_BITS) <= config.server_max_window_bits
<1>1. /\ config.server_max_window_bits \in LocalBits
      /\ config.client_max_window_bits \in WireBits
      /\ offer.server_max_window_bits \in WireBits \cup {Absent}
      /\ offer.client_max_window_bits \in WireBits \cup {Absent, Valueless}
  BY DEF ServerConfig, Params, PeerBits, WireBits
<1>2. offer.server_max_window_bits # 8
  BY DEF Declines
<1> QED
  BY <1>1, <1>2 DEF server_window, client_window, Min, Or, WireBits, LocalBits, Absent,
                    Valueless, NoValue, MAX_WINDOW_BITS

\* What a server proposes is an element, and what it would agree to is typed.
LEMMA SelectTyped ==
  ASSUME NEW config \in ServerConfig, NEW offer \in Params, ~Declines(config, offer)
  PROVE  /\ select(config, offer).proposed \in Element
         /\ is_deflate(select(config, offer).proposed)
         /\ select(config, offer).agreement \in Negotiated
<1> DEFINE server_nct == config.server_no_context_takeover \/ offer.server_no_context_takeover
           client_nct == config.client_no_context_takeover \/ offer.client_no_context_takeover
           server_bits == server_window(config, offer)
           client_bits == client_window(config, offer)
           bits == IF client_bits = MAX_WINDOW_BITS THEN Absent ELSE client_bits
<1>1. server_nct \in BOOLEAN /\ client_nct \in BOOLEAN
  BY DEF ServerConfig, Params
<1>2. server_bits \in WireBits \cup {Absent} /\ client_bits \in WireBits \cup {Absent}
  BY WindowsTyped DEF LocalBits, WireBits
<1>3. bits \in WireBits \cup {Absent, Valueless}
  BY <1>2
<1>4. select(config, offer) =
        [proposed  |-> render(server_nct, client_nct, server_bits, bits),
         agreement |-> new("Server", server_nct, client_nct, Or(server_bits, MAX_WINDOW_BITS),
                           Or(client_bits, MAX_WINDOW_BITS))]
  BY DEF select
<1> HIDE DEF server_nct, client_nct, server_bits, client_bits, bits
<1>5. new("Server", server_nct, client_nct, Or(server_bits, MAX_WINDOW_BITS),
          Or(client_bits, MAX_WINDOW_BITS)) \in Negotiated
  BY <1>1, <1>2 DEF new, Negotiated, Or, MAX_WINDOW_BITS, WireBits, PeerBits, Absent
<1>6. /\ render(server_nct, client_nct, server_bits, bits) \in Element
      /\ is_deflate(render(server_nct, client_nct, server_bits, bits))
  BY <1>1, <1>2, <1>3, RenderTyped
<1> QED
  BY <1>4, <1>5, <1>6

\* Why an answer is taken, and what is agreed then.
LEMMA AgreeTyped ==
  ASSUME NEW config \in ClientConfig, NEW answer \in Params
  PROVE  /\ agree(config, answer).error \in {"Ok"} \cup NegotiationErrors
         /\ agree(config, answer).agreed \in Options(Negotiated)
         /\ agree(config, answer).agreed # Nothing => Objection(config, answer) = "Ok"
<1>1. /\ config.server_no_context_takeover \in BOOLEAN
      /\ config.client_no_context_takeover \in BOOLEAN
      /\ config.server_max_window_bits \in WireBits
      /\ config.client_max_window_bits \in LocalBits
      /\ answer.server_no_context_takeover \in BOOLEAN
      /\ answer.client_no_context_takeover \in BOOLEAN
      /\ answer.server_max_window_bits \in WireBits \cup {Absent}
      /\ answer.client_max_window_bits \in WireBits \cup {Absent, Valueless}
  BY DEF ClientConfig, Params, PeerBits, WireBits
<1>2. CASE Objection(config, answer) # "Ok"
  <2>1. Objection(config, answer) \in NegotiationErrors
    BY <1>2 DEF Objection, NegotiationErrors
  <2> QED
    BY <1>2, <2>1 DEF agree, Refused, Options, Nothing
<1>3. CASE Objection(config, answer) = "Ok"
  <2> DEFINE server_bits == Or(answer.server_max_window_bits, MAX_WINDOW_BITS)
             client_bits == Min(Or(answer.client_max_window_bits, MAX_WINDOW_BITS),
                           config.client_max_window_bits)
             client_nct == config.client_no_context_takeover \/ answer.client_no_context_takeover
             n == new("Client", answer.server_no_context_takeover, client_nct, server_bits, client_bits)
  <2>1. server_bits \in PeerBits
    BY <1>1 DEF Or, WireBits, PeerBits, MAX_WINDOW_BITS
  <2>2. client_bits \in PeerBits
    BY <1>1, <1>3 DEF Objection, Or, Min, WireBits, PeerBits, LocalBits, Absent, Valueless,
                      NoValue, MAX_WINDOW_BITS
  <2>3. agree(config, answer) = Agreed(n)
    BY <1>3 DEF agree
  <2>4. client_nct \in BOOLEAN
    BY <1>1
  <2> HIDE DEF server_bits, client_bits, client_nct
  <2>5. n \in Negotiated
    BY <1>1, <2>1, <2>2, <2>4 DEF new, Negotiated
  <2> HIDE DEF n
  <2> QED
    BY <1>3, <2>3, <2>5 DEF Agreed, Options, Some
<1> QED
  BY <1>2, <1>3

\* What a host makes of a field is a field.
LEMMA RewrittenTyped ==
  ASSUME NEW field \in Seq(Element), NEW new_field \in Rewritten(field)
  PROVE  new_field \in Seq(Element)
<1>1. \A e \in Additions : e \in Element
  BY FieldAssumption
<1>2. ASSUME NEW e \in Additions, new_field = Append(field, e) PROVE new_field \in Seq(Element)
  BY <1>1, <1>2
<1>3. ASSUME NEW e \in Additions, new_field = <<e>> \o field PROVE new_field \in Seq(Element)
  <2>1. <<e>> \in Seq(Element)
    BY <1>1
  <2> QED
    BY <1>3, <2>1, ConcatProperties
<1>4. ASSUME NEW i \in DOMAIN field,
             new_field = SubSeq(field, 1, i - 1) \o SubSeq(field, i + 1, Len(field))
      PROVE  new_field \in Seq(Element)
  <2>1. /\ Len(field) \in Nat /\ i \in 1..Len(field)
        /\ \A j \in 1..Len(field) : field[j] \in Element
    BY LenProperties
  <2>2. SubSeq(field, 1, i - 1) \in Seq(Element)
    <3>1. 1 \in Int /\ i - 1 \in Int /\ \A j \in 1..(i - 1) : field[j] \in Element
      BY <2>1
    <3> QED
      BY <3>1, SubSeqProperties
  <2>3. SubSeq(field, i + 1, Len(field)) \in Seq(Element)
    <3>1. i + 1 \in Int /\ Len(field) \in Int /\ \A j \in (i + 1)..Len(field) : field[j] \in Element
      BY <2>1
    <3> QED
      BY <3>1, SubSeqProperties
  <2> QED
    BY <1>4, <2>2, <2>3, ConcatProperties
<1>5. ASSUME NEW i \in DOMAIN field, NEW e \in Additions, new_field = [field EXCEPT ![i] = e]
      PROVE  new_field \in Seq(Element)
  <2>1. i \in 1..Len(field)
    BY LenProperties
  <2> QED
    BY <1>1, <1>5, <2>1, ExceptSeq
<1>6. \/ \E e \in Additions : new_field = Append(field, e)
      \/ \E e \in Additions : new_field = <<e>> \o field
      \/ \E i \in DOMAIN field :
           new_field = SubSeq(field, 1, i - 1) \o SubSeq(field, i + 1, Len(field))
      \/ \E i \in DOMAIN field : \E e \in Additions : new_field = [field EXCEPT ![i] = e]
  BY DEF Rewritten
<1> QED
  BY <1>2, <1>3, <1>4, <1>5, <1>6

\* A field that is read to its end has its selections read.
LEMMA AllRead ==
  ASSUME NEW headers \in Seq(Element), validate(headers) = "Ok" \/ Unread(headers) = "Ok"
  PROVE  DeflatesIn(headers) = Selections(headers)
<1>1. DOMAIN headers = 1..Len(headers) /\ Len(headers) \in Nat
  BY LenProperties
<1>2. CASE validate(headers) = "Ok"
  <2>1. \A i \in DOMAIN headers : headers[i].name # "unbalanced"
    BY <1>2 DEF validate
  <2>2. \A i \in DOMAIN headers : \A j \in 1..i : j \in DOMAIN headers
    BY <1>1
  <2>3. Readable(headers) = DOMAIN headers
    BY <2>1, <2>2 DEF Readable
  <2> QED
    BY <2>3 DEF DeflatesIn, Selections
<1>3. CASE Unread(headers) = "Ok"
  BY <1>3 DEF Unread, Splits, DeflatesIn, Selections
<1> QED
  BY <1>2, <1>3

\* What a client takes for the server's answer is the one selection of the
\* response.
LEMMA SoleDeflate ==
  ASSUME NEW headers \in Seq(Element), validate(headers) = "Ok",
         sole_deflate(headers).error = "Ok"
  PROVE  /\ sole_deflate(headers).selected = Nothing => Selections(headers) = {}
         /\ sole_deflate(headers).selected # Nothing =>
              /\ \E i \in DOMAIN headers : Selections(headers) = {i}
              /\ sole_deflate(headers).selected[1] = Says(headers)
              /\ Says(headers) \in Params
<1> DEFINE deflates == DeflatesIn(headers)
           first    == CHOOSE i \in deflates : \A j \in deflates : i <= j
           rest     == deflates \ {first}
           parsed   == parse_params(headers[first].params)
<1>1. deflates = Selections(headers)
  BY AllRead
<1>2. CASE deflates = {}
  BY <1>1, <1>2 DEF sole_deflate
<1>3. CASE deflates # {}
  <2>1. parsed.error = "Ok"
    BY <1>3 DEF sole_deflate, Nothing
  <2>2. rest = {}
    <3>1. \A x : rest # {} =>
            sole_deflate(headers).error =
              LET second == CHOOSE i \in rest : \A j \in rest : i <= j
                  again == parse_params(headers[second].params)
              IN IF again.error # "Ok" THEN again.error ELSE "DuplicateExtension"
      BY <1>3, <2>1 DEF sole_deflate
    <3> QED
      BY <3>1
  <2>3. sole_deflate(headers).selected = Some(parsed.params)
    BY <1>3, <2>1, <2>2 DEF sole_deflate
  <2>4. deflates = {first} /\ first \in DOMAIN headers
    BY <1>3, <2>2 DEF DeflatesIn, Readable
  <2>5. Selections(headers) = {first} /\ (CHOOSE i \in Selections(headers) : TRUE) = first
    <3> HIDE DEF first
    <3> QED
      BY <1>1, <2>4
  <2>6. Says(headers) = parsed.params
    BY <2>5 DEF Says
  <2>7. headers[first].params \in Seq(Parameter)
    <3> HIDE DEF first
    <3>1. headers[first] \in Element
      BY <2>4, LenProperties
    <3> QED
      BY <3>1 DEF Element
  <2>8. parsed.params \in Params
    <3> HIDE DEF first
    <3> QED
      BY <2>1, <2>7, ParsedTyped
  <2> HIDE DEF parsed, first
  <2> QED
    BY <2>3, <2>4, <2>5, <2>6, <2>8 DEF Some, Nothing
<1> QED
  BY <1>2, <1>3

-----------------------------------------------------------------------------
(* What is rendered is read back: the parser, on the other side of the wire, *)
(* finds in an element the very terms it was rendered from.                 *)

Clean(params) ==
  params \in Seq(Parameter) /\ \A i \in DOMAIN params : Fault(params, i) = "Ok"

\* In a list without a fault no name comes twice.
LEMMA ValueOfName ==
  ASSUME NEW params, Clean(params), NEW i \in DOMAIN params
  PROVE  /\ Has(params, params[i].name)
         /\ Bits(params, params[i].name) = params[i].value
<1>1. DOMAIN params = 1..Len(params) /\ Len(params) \in Nat
  BY LenProperties DEF Clean
<1>2. \A j \in DOMAIN params : \A k \in 1..(j - 1) : params[k].name # params[j].name
  BY <1>1 DEF Clean, Fault
<1>3. \A j \in DOMAIN params : params[j].name = params[i].name => j = i
  <2>1. SUFFICES ASSUME NEW j \in DOMAIN params, params[j].name = params[i].name, j # i
                 PROVE  FALSE
    OBVIOUS
  <2>2. j \in 1..(i - 1) \/ i \in 1..(j - 1)
    BY <1>1, <2>1
  <2> QED
    BY <1>2, <2>1, <2>2
<1>4. Has(params, params[i].name)
  BY DEF Has
<1>5. (CHOOSE j \in DOMAIN params : params[j].name = params[i].name) = i
  BY <1>3
<1> QED
  BY <1>4, <1>5 DEF Bits

\* A parameter of a new name may follow.
LEMMA OneMore ==
  ASSUME NEW params, Clean(params), NEW condition \in BOOLEAN, NEW x,
         condition => /\ x \in Parameter
                      /\ Fault(<<x>>, 1) = "Ok"
                      /\ ~Has(params, x.name)
  PROVE  LET longer == params \o OneIf(condition, x) IN
         /\ Clean(longer)
         /\ \A name : /\ Has(longer, name) <=> Has(params, name) \/ (condition /\ name = x.name)
                      /\ Bits(longer, name) = IF condition /\ name = x.name THEN x.value
                                              ELSE Bits(params, name)
<1> DEFINE longer == params \o OneIf(condition, x)
<1>1. CASE ~condition
  <2>1. OneIf(condition, x) = <<>>
    BY <1>1 DEF OneIf
  <2>2. longer = params
    BY <2>1, ConcatEmptySeq DEF Clean
  <2> QED
    BY <1>1, <2>2
<1>2. CASE condition
  <2>1. /\ params \in Seq(Parameter) /\ <<x>> \in Seq(Parameter)
        /\ Len(<<x>>) = 1 /\ <<x>>[1] = x
    BY <1>2 DEF Clean
  <2>2. longer = params \o <<x>>
    BY <1>2 DEF OneIf
  <2>3. DOMAIN params = 1..Len(params) /\ Len(params) \in Nat
    BY <2>1, LenProperties
  <2>4. /\ longer \in Seq(Parameter)
        /\ Len(longer) = Len(params) + 1
        /\ \A i \in 1..(Len(params) + 1) :
             longer[i] = IF i <= Len(params) THEN params[i] ELSE <<x>>[i - Len(params)]
    BY <2>1, <2>2, ConcatProperties
  <2> HIDE DEF longer
  <2>5. /\ DOMAIN longer = 1..(Len(params) + 1)
        /\ \A i \in DOMAIN params : i \in DOMAIN longer /\ longer[i] = params[i]
        /\ Len(params) + 1 \in DOMAIN longer /\ longer[Len(params) + 1] = x
    BY <2>1, <2>3, <2>4, LenProperties
  <2>6. ASSUME NEW i \in DOMAIN longer PROVE Fault(longer, i) = "Ok"
    <3>1. CASE i \in DOMAIN params
      <4>1. Fault(params, i) = "Ok" /\ longer[i] = params[i]
        BY <2>5, <3>1 DEF Clean
      <4>2. \A j \in 1..(i - 1) : longer[j] = params[j]
        BY <2>3, <2>5, <3>1
      <4> QED
        BY <4>1, <4>2 DEF Fault
    <3>2. CASE i = Len(params) + 1
      <4>1. longer[i] = x
        BY <2>5, <3>2
      <4>2. \A j \in 1..(i - 1) : longer[j].name # x.name
        BY <1>2, <2>3, <2>5, <3>2 DEF Has
      <4>3. <<x>>[1] = x /\ Fault(<<x>>, 1) = "Ok"
        BY <1>2, <2>1
      <4> QED
        BY <4>1, <4>2, <4>3 DEF Fault
    <3> QED
      BY <2>3, <2>5, <3>1, <3>2
  <2>7. Clean(longer)
    BY <2>4, <2>6 DEF Clean
  <2>8. ASSUME NEW name PROVE Has(longer, name) <=> Has(params, name) \/ name = x.name
    BY <2>3, <2>5 DEF Has
  <2>9. ASSUME NEW name
        PROVE  Bits(longer, name) = IF name = x.name THEN x.value ELSE Bits(params, name)
    <3>1. CASE name = x.name
      BY <2>5, <2>7, <3>1, ValueOfName
    <3>2. CASE name # x.name /\ Has(params, name)
      <4>1. PICK i \in DOMAIN params : params[i].name = name
        BY <3>2 DEF Has
      <4>2. Bits(params, name) = params[i].value
        BY <4>1, ValueOfName
      <4>3. Bits(longer, name) = params[i].value
        BY <2>5, <2>7, <4>1, ValueOfName
      <4> QED
        BY <3>2, <4>2, <4>3
    <3>3. CASE name # x.name /\ ~Has(params, name)
      BY <2>8, <3>3 DEF Bits
    <3> QED
      BY <3>1, <3>2, <3>3
  <2> QED
    BY <1>2, <2>7, <2>8, <2>9 DEF longer
<1> QED
  BY <1>1, <1>2

LEMMA ParseRender ==
  ASSUME NEW server_nct \in BOOLEAN, NEW client_nct \in BOOLEAN,
         NEW server_bits \in WireBits \cup {Absent},
         NEW client_bits \in WireBits \cup {Absent, Valueless}
  PROVE  LET parsed == parse_params(render(server_nct, client_nct, server_bits, client_bits).params)
         IN /\ parsed.error = "Ok"
            /\ parsed.params = [server_no_context_takeover |-> server_nct,
                                client_no_context_takeover |-> client_nct,
                                server_max_window_bits |-> server_bits,
                                client_max_window_bits |-> client_bits]
<1> DEFINE x1 == Param("server_no_context_takeover", NoValue)
           x2 == Param("client_no_context_takeover", NoValue)
           x3 == Param("server_max_window_bits", server_bits)
           x4 == Param("client_max_window_bits", client_bits)
           g3 == server_bits # Absent
           g4 == client_bits # Absent
           q0 == <<>>
           q1 == q0 \o OneIf(server_nct, x1)
           q2 == q1 \o OneIf(client_nct, x2)
           q3 == q2 \o OneIf(g3, x3)
           q4 == q3 \o OneIf(g4, x4)
<1>1. /\ x1.name = "server_no_context_takeover" /\ x1.value = NoValue
      /\ x2.name = "client_no_context_takeover" /\ x2.value = NoValue
      /\ x3.name = "server_max_window_bits" /\ x3.value = server_bits
      /\ x4.name = "client_max_window_bits" /\ x4.value = client_bits
  BY DEF Param
<1>2. /\ x1 \in Parameter /\ x2 \in Parameter
      /\ g3 => x3 \in Parameter
      /\ g4 => x4 \in Parameter
  BY DEF Param, Parameter, Flags, Windows, NoValue, WireBits, Absent, Valueless
<1>3. \A x : <<x>>[1] = x
  OBVIOUS
<1>4. /\ Fault(<<x1>>, 1) = "Ok"
      /\ Fault(<<x2>>, 1) = "Ok"
      /\ g3 => Fault(<<x3>>, 1) = "Ok"
      /\ g4 => Fault(<<x4>>, 1) = "Ok"
  <2> HIDE DEF x1, x2, x3, x4
  <2> QED
    BY <1>1, <1>3 DEF Fault, Flags, Windows, WireBits, NoValue, Absent, Valueless
<1>5. Clean(q0) /\ \A name : ~Has(q0, name) /\ Bits(q0, name) = Absent
  BY DEF Clean, Has, Bits
<1>5a. g3 \in BOOLEAN /\ g4 \in BOOLEAN
  OBVIOUS
<1> HIDE DEF x1, x2, x3, x4, g3, g4
<1>6. q1 = OneIf(server_nct, x1)
  BY <1>2 DEF OneIf
<1> HIDE DEF q0
<1>7. /\ Clean(q1)
      /\ \A name : /\ Has(q1, name) <=> server_nct /\ name = x1.name
                   /\ Bits(q1, name) = IF server_nct /\ name = x1.name THEN x1.value ELSE Absent
  <2>1. ~Has(q0, x1.name)
    BY <1>5
  <2>2. /\ Clean(q1)
        /\ \A name : /\ Has(q1, name) <=> Has(q0, name) \/ (server_nct /\ name = x1.name)
                     /\ Bits(q1, name) = IF server_nct /\ name = x1.name THEN x1.value
                                         ELSE Bits(q0, name)
    BY <1>2, <1>4, <1>5, <2>1, OneMore
  <2> HIDE DEF q1
  <2> QED
    BY <1>5, <2>2
<1> HIDE DEF q1
<1>8. /\ Clean(q2)
      /\ \A name : /\ Has(q2, name) <=> Has(q1, name) \/ (client_nct /\ name = x2.name)
                   /\ Bits(q2, name) = IF client_nct /\ name = x2.name THEN x2.value
                                       ELSE Bits(q1, name)
  BY <1>1, <1>2, <1>4, <1>7, OneMore, SMTT(60)
<1> HIDE DEF q2
<1>9. /\ Clean(q3)
      /\ \A name : /\ Has(q3, name) <=> Has(q2, name) \/ (g3 /\ name = x3.name)
                   /\ Bits(q3, name) = IF g3 /\ name = x3.name THEN x3.value
                                       ELSE Bits(q2, name)
  <2>1. ~Has(q2, x3.name) /\ g3 \in BOOLEAN
    BY <1>1, <1>7, <1>8, <1>5a
  <2> QED
    BY <1>2, <1>4, <1>8, <2>1, OneMore, SMTT(60)
<1> HIDE DEF q3
<1>10. /\ Clean(q4)
       /\ \A name : /\ Has(q4, name) <=> Has(q3, name) \/ (g4 /\ name = x4.name)
                    /\ Bits(q4, name) = IF g4 /\ name = x4.name THEN x4.value
                                        ELSE Bits(q3, name)
  <2>1. ~Has(q3, x4.name) /\ g4 \in BOOLEAN
    BY <1>1, <1>7, <1>8, <1>9, <1>5a
  <2> QED
    BY <1>2, <1>4, <1>9, <2>1, OneMore
<1>11. render(server_nct, client_nct, server_bits, client_bits).params = q4
  BY <1>6 DEF render, Deflate, q2, q3, q4, x1, x2, x3, x4, g3, g4
<1> HIDE DEF q4
<1>12. parse_params(q4).error = "Ok"
  BY <1>10 DEF parse_params, Clean
<1>13. /\ Has(q4, "server_no_context_takeover") = server_nct
       /\ Has(q4, "client_no_context_takeover") = client_nct
  BY <1>1, <1>7, <1>8, <1>9, <1>10, ZenonT(60) DEF Has
<1>14. /\ Bits(q4, "server_max_window_bits") = server_bits
       /\ Bits(q4, "client_max_window_bits") = client_bits
  BY <1>1, <1>7, <1>8, <1>9, <1>10 DEF g3, g4
<1> QED
  BY <1>11, <1>12, <1>13, <1>14 DEF parse_params

-----------------------------------------------------------------------------
(* The inductive invariant, part by part.                                   *)

ClientState ==
  [config : ClientConfigs,
   phase : {"foreign", "building", "installed", "sealed", "done", "wrote"},
   offer : Options(Element), result : {"Ok"} \cup NegotiationErrors,
   agreed : Options(Negotiated)]
ServerState ==
  [config : ServerConfigs, phase : {"foreign", "waiting", "proposed", "done", "answered"},
   proposed : Options(Element), agreement : Options(Negotiated),
   result : {"Ok"} \cup NegotiationErrors, agreed : Options(Negotiated)]

Types ==
  /\ client \in ClientState
  /\ server \in ServerState
  /\ request \in Seq(Element)
  /\ response \in Seq(Element)
  /\ edits \in [request : 0..MaxEdits, response : 0..MaxEdits]

\* The one selection of a field, and that it is this element.
Sole(headers) == \E i \in DOMAIN headers : Selections(headers) = {i}
SoleIs(headers, element) ==
  \E i \in DOMAIN headers : headers[i] = element /\ Selections(headers) = {i}

\* What the client holds of its offer, phase by phase.
OfferInv ==
  /\ client.phase \in {"foreign", "building", "wrote"} => client.offer = Nothing
  /\ client.phase = "installed" => client.offer = Some(render_offer(client.config))
  /\ client.phase \in {"sealed", "done"} /\ client.offer # Nothing
       => SoleIs(request, render_offer(client.config))

\* What a server that proposed knows of the request that made it do so.
Chosen ==
  \E i \in Supportable(server.config, request) :
    /\ \A j \in Supportable(server.config, request) : i <= j
    /\ LET s == select(server.config, parse_params(request[i].params).params)
       IN server.proposed = Some(s.proposed) /\ server.agreement = Some(s.agreement)

ServerInv ==
  /\ server.phase \in {"foreign", "waiting"} => server.result = "Ok"
  /\ server.phase \in {"proposed", "done"} =>
       /\ client.phase \in {"sealed", "wrote", "done"}
       /\ server.result # "MalformedHeader" => validate(request) = "Ok"
       /\ server.result # "MalformedHeader" /\ server.proposed = Nothing
            => Supportable(server.config, request) = {}
  /\ server.phase = "proposed" => server.proposed # Nothing /\ server.result = "Ok"
  /\ server.proposed # Nothing =>
       server.phase \in {"proposed", "done"} /\ validate(request) = "Ok" /\ Chosen
  /\ server.agreed # Nothing =>
       /\ server.phase = "done" /\ server.proposed # Nothing
       /\ server.agreed = server.agreement
       /\ validate(response) = "Ok"
       /\ SoleIs(response, server.proposed[1])

\* What a client that has finished knows of the response it read.
AnswerInv ==
  /\ client.phase = "done" /\ (client.result = "Ok" \/ client.offer # Nothing)
       => server.phase \in {"done", "answered"}
  /\ client.phase = "done" /\ client.result = "Ok" /\ client.offer = Nothing
       => Selections(response) = {}
  /\ client.agreed # Nothing =>
       /\ client.phase = "done" /\ client.result = "Ok" /\ client.offer # Nothing
       /\ Sole(response)
       /\ Says(response) \in Params
       /\ client.agreed = agree(client.config, Says(response)).agreed

\* A response the server committed to is refused over composition or for what
\* it says, and for nothing else.
RefusalInv ==
  client.phase = "done" /\ client.offer # Nothing /\ server.agreed # Nothing =>
    \/ client.agreed # Nothing
    \/ client.result = "ExtensionConflict"
    \/ client.result = Objection(client.config, Says(response)) /\ client.result # "Ok"

IInv == Types /\ OfferInv /\ ServerInv /\ AnswerInv /\ RefusalInv

\* Whatever is configured is a configuration.
LEMMA Configured ==
  ASSUME Types
  PROVE  client.config \in ClientConfig /\ server.config \in ServerConfig
BY ConfigAssumption DEF Types, ClientState, ServerState

\* An alternative a server can take has typed terms it does not decline.
LEMMA SupportableTyped ==
  ASSUME NEW config, NEW headers \in Seq(Element), NEW i \in Supportable(config, headers)
  PROVE  /\ i \in DOMAIN headers /\ is_deflate(headers[i])
         /\ parse_params(headers[i].params).error = "Ok"
         /\ parse_params(headers[i].params).params \in Params
         /\ ~Declines(config, parse_params(headers[i].params).params)
<1>1. /\ i \in DOMAIN headers /\ is_deflate(headers[i])
      /\ parse_params(headers[i].params).error = "Ok"
      /\ ~Declines(config, parse_params(headers[i].params).params)
  BY DEF Supportable, DeflatesIn, Readable
<1>2. headers[i].params \in Seq(Parameter)
  <2>1. headers[i] \in Element
    BY <1>1, LenProperties
  <2> QED
    BY <2>1 DEF Element
<1> QED
  BY <1>1, <1>2, ParsedTyped

\* What an outcome a client finishes with is made of.
LEMMA AppliedTyped ==
  ASSUME NEW config \in ClientConfig, NEW offer \in Options(Element),
         NEW headers \in Seq(Element), validate(headers) = "Ok",
         NEW composition \in {"Compatible", "Conflict"}
  PROVE  LET a == Applied(config, offer, headers, composition) IN
         /\ a.error \in {"Ok"} \cup NegotiationErrors /\ a.agreed \in Options(Negotiated)
         /\ a.agreed # Nothing =>
              /\ a.error = "Ok" /\ offer # Nothing /\ Sole(headers) /\ Says(headers) \in Params
              /\ a.agreed = agree(config, Says(headers)).agreed
         /\ a.error = "Ok" /\ offer = Nothing => Selections(headers) = {}
         /\ sole_deflate(headers).error = "Ok" /\ sole_deflate(headers).selected # Nothing
              /\ offer # Nothing =>
                \/ a.agreed # Nothing
                \/ a.error = "ExtensionConflict"
                \/ a.error = Objection(config, Says(headers)) /\ a.error # "Ok"
<1> DEFINE s == sole_deflate(headers)
           a == Applied(config, offer, headers, composition)
<1>1. s.error \in {"Ok"} \cup NegotiationErrors
  <2> DEFINE Errors == {"Ok", "UnknownParameter", "ParameterArity", "InvalidWindowBits",
                        "DuplicateParameter"}
  <2>1. ASSUME NEW params PROVE parse_params(params).error \in Errors
    <3>1. \A i : Fault(params, i) \in Errors
      BY DEF Fault
    <3> HIDE DEF Errors
    <3>2. parse_params(params).error = "Ok" \/ \E i : parse_params(params).error = Fault(params, i)
      BY DEF parse_params
    <3>3. "Ok" \in Errors
      BY DEF Errors
    <3> QED
      BY <3>1, <3>2, <3>3
  <2> QED
    BY <2>1 DEF sole_deflate, NegotiationErrors
<1>2. CASE s.error # "Ok"
  <2>1. a = Refused(s.error)
    BY <1>2 DEF Applied
  <2> QED
    BY <1>1, <1>2, <2>1 DEF Refused, Options, Nothing
<1>3. CASE s.error = "Ok" /\ s.selected = Nothing
  <2>1. a = [error |-> "Ok", agreed |-> Nothing]
    BY <1>3 DEF Applied
  <2>2. Selections(headers) = {}
    BY <1>3, SoleDeflate
  <2> QED
    BY <1>3, <2>1, <2>2 DEF Options, Nothing
<1>4. CASE s.error = "Ok" /\ s.selected # Nothing
           /\ (offer = Nothing \/ composition = "Conflict")
  <2>1. a = IF offer = Nothing THEN Refused("UnsolicitedExtension") ELSE Refused("ExtensionConflict")
    BY <1>4 DEF Applied
  <2> QED
    BY <1>4, <2>1 DEF Refused, Options, Nothing, NegotiationErrors
<1>5. CASE s.error = "Ok" /\ s.selected # Nothing /\ offer # Nothing /\ composition # "Conflict"
  <2>1. /\ Sole(headers) /\ s.selected[1] = Says(headers) /\ Says(headers) \in Params
    BY <1>5, SoleDeflate DEF Sole
  <2>2. a = agree(config, Says(headers))
    BY <1>5, <2>1 DEF Applied
  <2>3. /\ a.error \in {"Ok"} \cup NegotiationErrors /\ a.agreed \in Options(Negotiated)
    BY <2>1, <2>2, AgreeTyped
  <2>4. \/ Objection(config, Says(headers)) # "Ok"
           /\ a = Refused(Objection(config, Says(headers)))
        \/ a.error = "Ok" /\ a.agreed # Nothing
    BY <2>2 DEF agree, Refused, Agreed, Nothing
  <2> QED
    BY <1>5, <2>1, <2>2, <2>3, <2>4 DEF Refused, Nothing
<1> QED
  BY <1>2, <1>3, <1>4, <1>5

\* A proposal is read back as the agreement it came with, and refines the
\* offer it answers.
LEMMA SelectRead ==
  ASSUME NEW config \in ServerConfig, NEW offer \in Params, ~Declines(config, offer)
  PROVE  LET s == select(config, offer)
             parsed == parse_params(s.proposed.params)
             sent == parsed.params
         IN /\ parsed.error = "Ok"
            /\ sent \in Params
            /\ s.agreement = new("Server", sent.server_no_context_takeover,
                                 sent.client_no_context_takeover,
                                 Or(sent.server_max_window_bits, MAX_WINDOW_BITS),
                                 Or(sent.client_max_window_bits, MAX_WINDOW_BITS))
            /\ s.agreement.server_max_window_bits \in LocalBits
            /\ sent.server_no_context_takeover =
                 (config.server_no_context_takeover \/ offer.server_no_context_takeover)
            /\ sent.client_no_context_takeover =
                 (config.client_no_context_takeover \/ offer.client_no_context_takeover)
            /\ sent.server_max_window_bits = server_window(config, offer)
            /\ sent.client_max_window_bits =
                 IF client_window(config, offer) = MAX_WINDOW_BITS THEN Absent
                 ELSE client_window(config, offer)
<1> DEFINE server_nct == config.server_no_context_takeover \/ offer.server_no_context_takeover
           client_nct == config.client_no_context_takeover \/ offer.client_no_context_takeover
           server_bits == server_window(config, offer)
           client_bits == client_window(config, offer)
           bits == IF client_bits = MAX_WINDOW_BITS THEN Absent ELSE client_bits
           element == render(server_nct, client_nct, server_bits, bits)
           terms == [server_no_context_takeover |-> server_nct,
                     client_no_context_takeover |-> client_nct,
                     server_max_window_bits |-> server_bits,
                     client_max_window_bits |-> bits]
           agreement == new("Server", server_nct, client_nct, Or(server_bits, MAX_WINDOW_BITS),
                            Or(client_bits, MAX_WINDOW_BITS))
<1>1. server_nct \in BOOLEAN /\ client_nct \in BOOLEAN
  BY DEF ServerConfig, Params
<1>2. server_bits \in LocalBits \cup {Absent} /\ client_bits \in WireBits \cup {Absent}
  BY WindowsTyped
<1>3. server_bits \in WireBits \cup {Absent} /\ bits \in WireBits \cup {Absent, Valueless}
  BY <1>2 DEF LocalBits, WireBits
<1>4. select(config, offer) = [proposed |-> element, agreement |-> agreement]
  BY DEF select
<1>5. Or(bits, MAX_WINDOW_BITS) = Or(client_bits, MAX_WINDOW_BITS)
  BY <1>2 DEF Or, Absent, MAX_WINDOW_BITS, WireBits
<1>6. Or(server_bits, MAX_WINDOW_BITS) \in LocalBits
  BY <1>2 DEF Or, LocalBits, MAX_WINDOW_BITS, Absent
<1> HIDE DEF server_nct, client_nct, server_bits, client_bits, bits
<1>7. parse_params(element.params).error = "Ok" /\ parse_params(element.params).params = terms
  BY <1>1, <1>3, ParseRender
<1>8. terms \in Params
  BY <1>1, <1>3 DEF Params
<1>9. agreement.server_max_window_bits \in LocalBits
  BY <1>6 DEF new
<1>10. /\ terms.server_no_context_takeover = server_nct
       /\ terms.client_no_context_takeover = client_nct
       /\ terms.server_max_window_bits = server_bits
       /\ terms.client_max_window_bits = bits
  OBVIOUS
<1>11. agreement = new("Server", terms.server_no_context_takeover,
                       terms.client_no_context_takeover,
                       Or(terms.server_max_window_bits, MAX_WINDOW_BITS),
                       Or(terms.client_max_window_bits, MAX_WINDOW_BITS))
  BY <1>5, <1>10
<1> HIDE DEF element, terms, agreement
<1>12. /\ select(config, offer).proposed = element
       /\ select(config, offer).agreement = agreement
       /\ parse_params(select(config, offer).proposed.params).error = "Ok"
       /\ parse_params(select(config, offer).proposed.params).params = terms
  BY <1>4, <1>7
<1> QED
  BY <1>8, <1>9, <1>10, <1>11, <1>12 DEF server_nct, client_nct, server_bits, bits, client_bits

\* What a field with one selection that parses is read as.
LEMMA SoleRead ==
  ASSUME NEW headers \in Seq(Element), validate(headers) = "Ok",
         NEW i \in DOMAIN headers, Selections(headers) = {i},
         parse_params(headers[i].params).error = "Ok"
  PROVE  /\ Says(headers) = parse_params(headers[i].params).params
         /\ sole_deflate(headers) = [error |-> "Ok", selected |-> Some(Says(headers))]
<1>1. DeflatesIn(headers) = {i}
  BY AllRead
<1>2. (CHOOSE j \in {i} : \A k \in {i} : j <= k) = i
  <2>1. i \in Nat
    BY LenProperties
  <2> QED
    BY <2>1
<1>3. Says(headers) = parse_params(headers[i].params).params
  <2>1. (CHOOSE j \in Selections(headers) : TRUE) = i
    OBVIOUS
  <2> QED
    BY <2>1 DEF Says
<1>4. {i} \ {i} = {} /\ {i} # {}
  OBVIOUS
<1>5. sole_deflate(headers) =
        [error |-> "Ok", selected |-> Some(parse_params(headers[i].params).params)]
  BY <1>1, <1>2, <1>4 DEF sole_deflate
<1> QED
  BY <1>3, <1>5

\* A proposal that stands is a selection a client can read.
LEMMA ChosenRead ==
  ASSUME Types, Chosen
  PROVE  /\ server.proposed # Nothing
         /\ server.proposed[1] \in Element /\ is_deflate(server.proposed[1])
         /\ server.agreement # Nothing /\ server.agreement[1] \in Negotiated
         /\ parse_params(server.proposed[1].params).error = "Ok"
         /\ LET sent == parse_params(server.proposed[1].params).params
            IN /\ sent \in Params
               /\ server.agreement[1] =
                    new("Server", sent.server_no_context_takeover,
                        sent.client_no_context_takeover,
                        Or(sent.server_max_window_bits, MAX_WINDOW_BITS),
                        Or(sent.client_max_window_bits, MAX_WINDOW_BITS))
               /\ server.agreement[1].server_max_window_bits \in LocalBits
<1> DEFINE offer(i) == parse_params(request[i].params).params
<1>1. PICK i \in Supportable(server.config, request) :
        LET s == select(server.config, offer(i))
        IN server.proposed = Some(s.proposed) /\ server.agreement = Some(s.agreement)
  BY DEF Chosen
<1>2. server.config \in ServerConfig /\ request \in Seq(Element)
  BY Configured DEF Types
<1>3. offer(i) \in Params /\ ~Declines(server.config, offer(i))
  BY <1>2, SupportableTyped
<1> HIDE DEF offer
<1>4. /\ server.proposed[1] = select(server.config, offer(i)).proposed
      /\ server.agreement[1] = select(server.config, offer(i)).agreement
      /\ server.proposed # Nothing /\ server.agreement # Nothing
  BY <1>1 DEF Some, Nothing
<1> QED
  BY <1>2, <1>3, <1>4, SelectTyped, SelectRead

-----------------------------------------------------------------------------
(* The invariant holds at first, and every action keeps it.                 *)

LEMMA InitInv ==
  ASSUME Init
  PROVE  IInv
<1>1. Types
  <2>1. <<>> \in Seq(Element)
    OBVIOUS
  <2>2. 0 \in 0..MaxEdits
    BY EditAssumption
  <2> QED
    BY <2>1, <2>2 DEF Init, Types, ClientState, ServerState, Options, Nothing
<1>2. /\ client.phase \in {"foreign", "building"} /\ client.offer = Nothing
      /\ client.agreed = Nothing
      /\ server.phase \in {"foreign", "waiting"} /\ server.proposed = Nothing
      /\ server.agreed = Nothing /\ server.result = "Ok"
  BY DEF Init
<1> QED
  BY <1>1, <1>2 DEF IInv, OfferInv, ServerInv, AnswerInv, RefusalInv

LEMMA EditRequestKeeps ==
  ASSUME IInv, EditRequest
  PROVE  IInv'
<1>1. Types'
  <2>1. request' \in Seq(Element)
    BY RewrittenTyped DEF IInv, Types, EditRequest
  <2>2. edits' \in [request : 0..MaxEdits, response : 0..MaxEdits]
    <3>1. /\ edits.request \in 0..MaxEdits /\ edits.request < MaxEdits
          /\ edits' = [edits EXCEPT !.request = edits.request + 1]
      BY DEF IInv, Types, EditRequest
    <3>2. edits.request + 1 \in 0..MaxEdits
      BY <3>1, EditAssumption
    <3> QED
      BY <3>1, <3>2 DEF IInv, Types
  <2> QED
    BY <2>1, <2>2 DEF IInv, Types, EditRequest
<1>2. /\ client.phase \in {"building", "installed"} /\ server.phase \notin {"proposed", "done"}
      /\ client' = client /\ server' = server /\ response' = response
  BY DEF IInv, ServerInv, EditRequest
<1>3. server.proposed = Nothing /\ server.agreed = Nothing
  BY <1>2 DEF IInv, ServerInv
<1>4. OfferInv'
  BY <1>2 DEF IInv, OfferInv
<1>5. ServerInv'
  BY <1>2, <1>3 DEF IInv, ServerInv
<1>6. AnswerInv' /\ RefusalInv'
  BY <1>2, <1>3 DEF IInv, AnswerInv, RefusalInv
<1> QED
  BY <1>1, <1>4, <1>5, <1>6 DEF IInv

LEMMA EditResponseKeeps ==
  ASSUME IInv, EditResponse
  PROVE  IInv'
<1>1. Types'
  <2>1. response' \in Seq(Element)
    BY RewrittenTyped DEF IInv, Types, EditResponse
  <2>2. edits' \in [request : 0..MaxEdits, response : 0..MaxEdits]
    <3>1. /\ edits.response \in 0..MaxEdits /\ edits.response < MaxEdits
          /\ edits' = [edits EXCEPT !.response = edits.response + 1]
      BY DEF IInv, Types, EditResponse
    <3>2. edits.response + 1 \in 0..MaxEdits
      BY <3>1, EditAssumption
    <3> QED
      BY <3>1, <3>2 DEF IInv, Types
  <2> QED
    BY <2>1, <2>2 DEF IInv, Types, EditResponse
<1>2. /\ server.phase = "proposed" /\ server.agreed = Nothing
      /\ client' = client /\ server' = server /\ request' = request
  BY DEF IInv, ServerInv, EditResponse
<1>3. /\ client.agreed = Nothing
      /\ ~(client.phase = "done" /\ (client.result = "Ok" \/ client.offer # Nothing))
  BY <1>2 DEF IInv, AnswerInv
<1>4. OfferInv'
  BY <1>2 DEF IInv, OfferInv
<1>5. ServerInv'
  BY <1>2 DEF IInv, ServerInv, Chosen
<1>6. AnswerInv' /\ RefusalInv'
  BY <1>2, <1>3 DEF AnswerInv, RefusalInv
<1> QED
  BY <1>1, <1>4, <1>5, <1>6 DEF IInv

\* A client that fails before it has sealed leaves nothing behind.
LEMMA ClientFailsKeeps ==
  ASSUME IInv, client.phase \in {"building", "installed"}, NEW error \in NegotiationErrors,
         ClientFails(error), UNCHANGED <<server, request, response, edits>>
  PROVE  IInv'
<1>1. /\ server.phase \notin {"proposed", "done"} /\ server.proposed = Nothing
      /\ server.agreed = Nothing /\ client.agreed = Nothing
  BY DEF IInv, ServerInv, AnswerInv
<1>2. error # "Ok"
  BY DEF NegotiationErrors
<1>3. client \in ClientState
  BY DEF IInv, Types
<1>4. /\ client' \in ClientState /\ client'.phase = "done" /\ client'.offer = Nothing
      /\ client'.result = error /\ client'.agreed = Nothing
  BY <1>1, <1>3 DEF ClientFails, ClientState, Options
<1>5. Types'
  BY <1>4 DEF IInv, Types
<1> QED
  BY <1>1, <1>2, <1>4, <1>5 DEF IInv, OfferInv, ServerInv, AnswerInv, RefusalInv

LEMMA UnreadTyped ==
  ASSUME NEW headers
  PROVE  Unread(headers) \in {"Ok"} \cup NegotiationErrors
BY DEF Unread, NegotiationErrors

LEMMA InstallKeeps ==
  ASSUME IInv, Install
  PROVE  IInv'
<1>1. client.phase = "building" /\ UNCHANGED <<server, response, edits>>
  BY DEF Install
<1>2. CASE contains_deflate(request)
  <2>1. ClientFails("OfferCollision") /\ UNCHANGED request
    BY <1>2 DEF Install
  <2> QED
    BY <1>1, <2>1, ClientFailsKeeps DEF NegotiationErrors
<1>3. CASE ~contains_deflate(request) /\ Unread(request) # "Ok"
  <2>1. ClientFails(Unread(request)) /\ UNCHANGED request
    BY <1>3 DEF Install
  <2> QED
    BY <1>1, <1>3, <2>1, ClientFailsKeeps, UnreadTyped
<1>4. CASE ~contains_deflate(request) /\ Unread(request) = "Ok"
  <2> DEFINE element == render_offer(client.config)
  <2>1. /\ request' = Append(request, element)
        /\ client' = [client EXCEPT !.phase = "installed", !.offer = Some(element)]
    BY <1>4 DEF Install
  <2>2. element \in Element
    BY Configured, OfferTyped DEF IInv
  <2>3. client \in ClientState /\ request \in Seq(Element)
    BY DEF IInv, Types
  <2>4. /\ client'.phase = "installed" /\ client'.offer = Some(element)
        /\ client'.config = client.config /\ client'.agreed = client.agreed
    BY <2>1, <2>3 DEF ClientState
  <2>5. client' \in ClientState
    <3>1. Some(element) \in Options(Element)
      BY <2>2 DEF Options
    <3> HIDE DEF element
    <3> QED
      BY <2>1, <2>3, <3>1 DEF ClientState
  <2>6. request' \in Seq(Element)
    <3> HIDE DEF element
    <3> QED
      BY <2>1, <2>2, <2>3
  <2>7. /\ server.phase \notin {"proposed", "done"} /\ server.proposed = Nothing
        /\ server.agreed = Nothing /\ client.agreed = Nothing
    BY <1>1 DEF IInv, ServerInv, AnswerInv
  <2>8. Types'
    BY <1>1, <2>5, <2>6 DEF IInv, Types
  <2>9. OfferInv'
    BY <2>4 DEF OfferInv
  <2> QED
    BY <1>1, <2>4, <2>7, <2>8, <2>9 DEF IInv, ServerInv, AnswerInv, RefusalInv
<1> QED
  BY <1>2, <1>3, <1>4

\* What it means that a field corresponds to an element.
LEMMA Corresponds ==
  ASSUME NEW headers \in Seq(Element), NEW element, NEW error \in NegotiationErrors
  PROVE  LET c == Correspondence(headers, element, error) IN
         /\ c.error \in {"Ok"} \cup NegotiationErrors
         /\ c.error = "Ok" /\ c.found = 1 => SoleIs(headers, element)
<1> DEFINE c == Correspondence(headers, element, error)
<1>1. CASE \E i \in DeflatesIn(headers) : headers[i] # element
  BY <1>1 DEF Correspondence
<1>2. CASE ~\E i \in DeflatesIn(headers) : headers[i] # element
  <2>1. c = [error |-> Unread(headers),
             found |-> IF DeflatesIn(headers) = {} THEN 0
                       ELSE IF \E i \in DeflatesIn(headers) : DeflatesIn(headers) = {i}
                       THEN 1 ELSE 2]
    BY <1>2 DEF Correspondence
  <2>2. c.error = "Ok" /\ c.found = 1 => SoleIs(headers, element)
    <3>1. SUFFICES ASSUME c.error = "Ok", c.found = 1 PROVE SoleIs(headers, element)
      OBVIOUS
    <3>2. PICK i \in DeflatesIn(headers) : DeflatesIn(headers) = {i}
      BY <2>1, <3>1
    <3>3. Selections(headers) = {i} /\ i \in DOMAIN headers
      BY <2>1, <3>1, <3>2, AllRead DEF Selections
    <3>4. headers[i] = element
      BY <1>2
    <3> QED
      BY <3>3, <3>4 DEF SoleIs
  <2> QED
    BY <2>1, <2>2, UnreadTyped
<1> QED
  BY <1>1, <1>2

LEMMA SealKeeps ==
  ASSUME IInv, Seal
  PROVE  IInv'
<1> DEFINE c == Correspondence(request, client.offer[1], "OfferAltered")
<1>1. client.phase = "installed" /\ UNCHANGED <<server, request, response, edits>>
  BY DEF Seal
<1>2. "OfferAltered" \in NegotiationErrors
  BY DEF NegotiationErrors
<1>3. /\ c.error \in {"Ok"} \cup NegotiationErrors
      /\ c.error = "Ok" /\ c.found = 1 => SoleIs(request, client.offer[1])
  BY <1>2, Corresponds DEF IInv, Types
<1>4. CASE c.error # "Ok"
  <2>1. ClientFails(c.error)
    BY <1>4 DEF Seal
  <2> HIDE DEF c
  <2> QED
    BY <1>1, <1>3, <1>4, <2>1, ClientFailsKeeps
<1>5. CASE c.error = "Ok" /\ c.found # 1
  <2>1. ClientFails("OfferAltered")
    BY <1>5 DEF Seal
  <2> QED
    BY <1>1, <1>2, <2>1, ClientFailsKeeps
<1>6. CASE c.error = "Ok" /\ c.found = 1
  <2>1. client' = [client EXCEPT !.phase = "sealed"]
    BY <1>6 DEF Seal
  <2>2. client \in ClientState
    BY DEF IInv, Types
  <2>3. /\ client' \in ClientState /\ client'.phase = "sealed"
        /\ client'.offer = client.offer /\ client'.config = client.config
        /\ client'.agreed = client.agreed
    BY <2>1, <2>2 DEF ClientState
  <2>4. SoleIs(request, render_offer(client.config))
    <3>1. client.offer[1] = render_offer(client.config)
      BY <1>1 DEF IInv, OfferInv, Some
    <3> HIDE DEF c
    <3> QED
      BY <1>3, <1>6, <3>1
  <2>5. /\ server.phase \notin {"proposed", "done"} /\ server.proposed = Nothing
        /\ server.agreed = Nothing /\ client.agreed = Nothing
    BY <1>1 DEF IInv, ServerInv, AnswerInv
  <2>6. Types'
    BY <1>1, <2>3 DEF IInv, Types
  <2>7. OfferInv'
    BY <1>1, <2>3, <2>4 DEF OfferInv
  <2> QED
    BY <1>1, <2>3, <2>5, <2>6, <2>7 DEF IInv, ServerInv, AnswerInv, RefusalInv
<1> QED
  BY <1>4, <1>5, <1>6

LEMMA SealWithoutOfferKeeps ==
  ASSUME IInv, SealWithoutOffer
  PROVE  IInv'
<1>1. client.phase = "building" /\ UNCHANGED <<server, request, response, edits>>
  BY DEF SealWithoutOffer
<1>2. CASE contains_deflate(request)
  <2>1. ClientFails("OfferCollision")
    BY <1>2 DEF SealWithoutOffer
  <2> QED
    BY <1>1, <2>1, ClientFailsKeeps DEF NegotiationErrors
<1>3. CASE ~contains_deflate(request) /\ Unread(request) # "Ok"
  <2>1. ClientFails(Unread(request))
    BY <1>3 DEF SealWithoutOffer
  <2> QED
    BY <1>1, <1>3, <2>1, ClientFailsKeeps, UnreadTyped
<1>4. CASE ~contains_deflate(request) /\ Unread(request) = "Ok"
  <2>1. client' = [client EXCEPT !.phase = "sealed"]
    BY <1>4 DEF SealWithoutOffer
  <2>2. client \in ClientState /\ client.offer = Nothing
    BY <1>1 DEF IInv, Types, OfferInv
  <2>3. /\ client' \in ClientState /\ client'.phase = "sealed"
        /\ client'.offer = Nothing /\ client'.agreed = client.agreed
    BY <2>1, <2>2 DEF ClientState
  <2>4. /\ server.phase \notin {"proposed", "done"} /\ server.proposed = Nothing
        /\ server.agreed = Nothing /\ client.agreed = Nothing
    BY <1>1 DEF IInv, ServerInv, AnswerInv
  <2>5. Types'
    BY <1>1, <2>3 DEF IInv, Types
  <2> QED
    BY <1>1, <2>3, <2>4, <2>5 DEF IInv, OfferInv, ServerInv, AnswerInv, RefusalInv
<1> QED
  BY <1>2, <1>3, <1>4

LEMMA ForeignRequestKeeps ==
  ASSUME IInv, ForeignRequest
  PROVE  IInv'
<1>1. /\ client.phase = "foreign" /\ UNCHANGED <<server, response, edits>>
      /\ request' \in Seq(Element) /\ client' = [client EXCEPT !.phase = "wrote"]
  BY FieldAssumption DEF ForeignRequest
<1>2. client \in ClientState /\ client.offer = Nothing
  BY <1>1 DEF IInv, Types, OfferInv
<1>3. /\ client' \in ClientState /\ client'.phase = "wrote"
      /\ client'.offer = Nothing /\ client'.agreed = client.agreed
  BY <1>1, <1>2 DEF ClientState
<1>4. /\ server.phase \notin {"proposed", "done"} /\ server.proposed = Nothing
      /\ server.agreed = Nothing /\ client.agreed = Nothing
  BY <1>1 DEF IInv, ServerInv, AnswerInv
<1>5. Types'
  BY <1>1, <1>3 DEF IInv, Types
<1> QED
  BY <1>1, <1>3, <1>4, <1>5 DEF IInv, OfferInv, ServerInv, AnswerInv, RefusalInv

LEMMA ForeignResponseKeeps ==
  ASSUME IInv, ForeignResponse
  PROVE  IInv'
<1>1. /\ server.phase = "foreign" /\ client.phase = "sealed"
      /\ UNCHANGED <<client, request, edits>>
      /\ response' \in Seq(Element) /\ server' = [server EXCEPT !.phase = "answered"]
  BY FieldAssumption DEF ForeignResponse
<1>2. server \in ServerState
  BY DEF IInv, Types
<1>3. /\ server' \in ServerState /\ server'.phase = "answered"
      /\ server'.proposed = server.proposed /\ server'.agreed = server.agreed
  BY <1>1, <1>2 DEF ServerState
<1>4. server.proposed = Nothing /\ server.agreed = Nothing /\ client.agreed = Nothing
  BY <1>1 DEF IInv, ServerInv, AnswerInv
<1>5. Types'
  BY <1>1, <1>3 DEF IInv, Types
<1> QED
  BY <1>1, <1>3, <1>4, <1>5 DEF IInv, OfferInv, ServerInv, AnswerInv, RefusalInv

LEMMA AcceptKeeps ==
  ASSUME IInv, Accept
  PROVE  IInv'
<1> DEFINE able  == Supportable(server.config, request)
           first == CHOOSE i \in able : \A j \in able : i <= j
           s     == select(server.config, parse_params(request[first].params).params)
<1>1. /\ server.phase = "waiting" /\ client.phase \in {"sealed", "wrote"}
      /\ UNCHANGED <<client, request, edits>>
  BY DEF Accept, Arrived
<1>2. /\ client.agreed = Nothing /\ server.agreed = Nothing
      /\ server.proposed = Nothing /\ server.result = "Ok"
  BY <1>1 DEF IInv, ServerInv, AnswerInv
<1>3. /\ server \in ServerState /\ request \in Seq(Element) /\ response \in Seq(Element)
      /\ server.config \in ServerConfig
  BY Configured DEF IInv, Types
<1>4. OfferInv' /\ AnswerInv' /\ RefusalInv'
  BY <1>1, <1>2 DEF IInv, OfferInv, AnswerInv, RefusalInv
<1>5. CASE validate(request) # "Ok"
  <2>1. /\ server' = [server EXCEPT !.phase = "done", !.result = validate(request)]
        /\ response' = response
    BY <1>5 DEF Accept
  <2>2. validate(request) = "MalformedHeader"
    BY <1>5 DEF validate
  <2>3. /\ server' \in ServerState /\ server'.phase = "done"
        /\ server'.result = "MalformedHeader"
        /\ server'.proposed = server.proposed /\ server'.agreed = server.agreed
    BY <1>3, <2>1, <2>2 DEF ServerState, NegotiationErrors
  <2>4. Types'
    BY <1>1, <2>1, <2>3 DEF IInv, Types
  <2>5. ServerInv'
    BY <1>1, <1>2, <2>3 DEF ServerInv
  <2> QED
    BY <1>4, <2>4, <2>5 DEF IInv
<1>6. CASE validate(request) = "Ok" /\ able = {}
  <2>1. server' = [server EXCEPT !.phase = "done"] /\ response' = response
    BY <1>6 DEF Accept
  <2>2. /\ server' \in ServerState /\ server'.phase = "done" /\ server'.config = server.config
        /\ server'.proposed = server.proposed /\ server'.agreed = server.agreed
    BY <1>3, <2>1 DEF ServerState
  <2>3. Types'
    BY <1>1, <2>1, <2>2 DEF IInv, Types
  <2>4. ServerInv'
    BY <1>1, <1>2, <1>6, <2>2, SMTT(60) DEF ServerInv
  <2> QED
    BY <1>4, <2>3, <2>4 DEF IInv
<1>7. CASE validate(request) = "Ok" /\ able # {}
  <2>1. /\ server' = [server EXCEPT !.phase = "proposed", !.proposed = Some(s.proposed),
                                    !.agreement = Some(s.agreement)]
        /\ response' = Append(response, s.proposed)
    BY <1>7 DEF Accept
  <2>2. first \in able /\ \A j \in able : first <= j
    <3>1. able \in SUBSET Nat
      <4>1. DOMAIN request \subseteq Nat
        BY <1>3, LenProperties
      <4> QED
        BY <4>1 DEF Supportable, DeflatesIn, Readable
    <3> HIDE DEF able
    <3> QED
      BY <1>7, <3>1, FirstExists
  <2> HIDE DEF first
  <2>3. s.proposed \in Element /\ s.agreement \in Negotiated
    BY <1>3, <2>2, SupportableTyped, SelectTyped
  <2>4. Some(s.proposed) \in Options(Element) /\ Some(s.agreement) \in Options(Negotiated)
    BY <2>3 DEF Options
  <2>5. /\ server' \in ServerState /\ server'.phase = "proposed" /\ server'.config = server.config
        /\ server'.proposed = Some(s.proposed) /\ server'.agreement = Some(s.agreement)
        /\ server'.agreed = server.agreed /\ server'.result = server.result
    <3> HIDE DEF s
    <3> QED
      BY <1>3, <2>1, <2>4 DEF ServerState
  <2>6. response' \in Seq(Element)
    <3> HIDE DEF s
    <3> QED
      BY <1>3, <2>1, <2>3
  <2>7. Types'
    BY <1>1, <2>5, <2>6 DEF IInv, Types
  <2>8. Chosen'
    BY <1>1, <2>2, <2>5 DEF Chosen
  <2>9. ServerInv'
    BY <1>1, <1>2, <1>7, <2>5, <2>8 DEF ServerInv, Some, Nothing
  <2> QED
    BY <1>4, <2>7, <2>9 DEF IInv
<1> QED
  BY <1>5, <1>6, <1>7, SMTT(60)

LEMMA ServerFinishKeeps ==
  ASSUME IInv, NEW composition \in {"Compatible", "Conflict"}, ServerFinish(composition)
  PROVE  IInv'
<1> DEFINE c == Correspondence(response, server.proposed[1], "ResponseAltered")
           outcome ==
             IF validate(response) # "Ok" THEN Refused(validate(response))
             ELSE IF c.error # "Ok" THEN Refused(c.error)
             ELSE IF c.found = 0 THEN [error |-> "Ok", agreed |-> Nothing]
             ELSE IF c.found # 1 THEN Refused("ResponseAltered")
             ELSE IF composition = "Conflict" THEN Refused("ExtensionConflict")
             ELSE Agreed(server.agreement[1])
<1>1. /\ server.phase = "proposed" /\ UNCHANGED <<client, request, response, edits>>
      /\ server' = [server EXCEPT !.phase = "done", !.result = outcome.error,
                                  !.agreed = outcome.agreed]
  BY DEF ServerFinish
<1>2. /\ server \in ServerState /\ response \in Seq(Element)
      /\ server.proposed # Nothing /\ Chosen /\ validate(request) = "Ok"
      /\ client.phase \in {"sealed", "wrote", "done"}
  BY <1>1 DEF IInv, Types, ServerInv
<1>3. server.agreement # Nothing /\ server.agreement[1] \in Negotiated
      /\ server.agreement = Some(server.agreement[1])
  <2>1. server.agreement = Some(server.agreement[1])
    BY <1>2 DEF Chosen, Some
  <2> QED
    BY <1>2, <2>1, ChosenRead DEF IInv
<1>4. /\ c.error \in {"Ok"} \cup NegotiationErrors
      /\ c.error = "Ok" /\ c.found = 1 => SoleIs(response, server.proposed[1])
  BY <1>2, Corresponds DEF NegotiationErrors
<1>5. /\ outcome.error \in {"Ok"} \cup NegotiationErrors /\ outcome.agreed \in Options(Negotiated)
      /\ outcome.agreed # Nothing =>
           /\ validate(response) = "Ok" /\ SoleIs(response, server.proposed[1])
           /\ outcome.agreed = server.agreement
  <2>1. \A x : Refused(x).error = x /\ Refused(x).agreed = Nothing
    BY DEF Refused, Nothing
  <2>2. Agreed(server.agreement[1]).error = "Ok"
        /\ Agreed(server.agreement[1]).agreed = server.agreement
    BY <1>3 DEF Agreed, Some
  <2>3. server.agreement \in Options(Negotiated) /\ Nothing \in Options(Negotiated)
    BY <1>2 DEF ServerState, Options
  <2>4. validate(response) \in {"Ok"} \cup NegotiationErrors
    BY DEF validate, NegotiationErrors
  <2>5. {"ResponseAltered", "ExtensionConflict"} \subseteq NegotiationErrors
    BY DEF NegotiationErrors
  <2> HIDE DEF c
  <2> QED
    BY <1>4, <2>1, <2>2, <2>3, <2>4, <2>5
<1> HIDE DEF outcome
<1>6. /\ server' \in ServerState /\ server'.phase = "done" /\ server'.config = server.config
      /\ server'.proposed = server.proposed /\ server'.agreement = server.agreement
      /\ server'.agreed = outcome.agreed
  BY <1>1, <1>2, <1>5 DEF ServerState
<1>7. /\ client.agreed = Nothing
      /\ ~(client.phase = "done" /\ (client.result = "Ok" \/ client.offer # Nothing))
  BY <1>1 DEF IInv, AnswerInv
<1>8. Types'
  BY <1>1, <1>6 DEF IInv, Types
<1>9. OfferInv' /\ AnswerInv' /\ RefusalInv'
  BY <1>1, <1>7 DEF IInv, OfferInv, AnswerInv, RefusalInv
<1>10. Chosen'
  BY <1>1, <1>2, <1>6 DEF Chosen
<1>11. ServerInv'
  BY <1>1, <1>2, <1>5, <1>6, <1>10 DEF ServerInv
<1> QED
  BY <1>8, <1>9, <1>11 DEF IInv

LEMMA ClientFinishKeeps ==
  ASSUME IInv, NEW composition \in {"Compatible", "Conflict"}, ClientFinish(composition)
  PROVE  IInv'
<1> DEFINE outcome == IF validate(response) # "Ok" THEN Refused(validate(response))
                      ELSE Applied(client.config, client.offer, response, composition)
<1>1. /\ client.phase = "sealed" /\ server.phase \in {"done", "answered"}
      /\ UNCHANGED <<server, request, response, edits>>
      /\ client' = [client EXCEPT !.phase = "done", !.result = outcome.error,
                                  !.agreed = outcome.agreed]
  BY DEF ClientFinish
<1>2. /\ client \in ClientState /\ client.config \in ClientConfig
      /\ client.offer \in Options(Element)
      /\ response \in Seq(Element)
  BY Configured DEF IInv, Types, ClientState
<1>3. /\ outcome.error \in {"Ok"} \cup NegotiationErrors /\ outcome.agreed \in Options(Negotiated)
      /\ outcome.agreed # Nothing =>
           /\ outcome.error = "Ok" /\ client.offer # Nothing
           /\ Sole(response) /\ Says(response) \in Params
           /\ outcome.agreed = agree(client.config, Says(response)).agreed
      /\ outcome.error = "Ok" /\ client.offer = Nothing => Selections(response) = {}
      /\ server.agreed # Nothing /\ client.offer # Nothing =>
           \/ outcome.agreed # Nothing
           \/ outcome.error = "ExtensionConflict"
           \/ outcome.error = Objection(client.config, Says(response)) /\ outcome.error # "Ok"
  <2>1. CASE validate(response) # "Ok"
    <3>1. validate(response) = "MalformedHeader" /\ server.agreed = Nothing
      BY <2>1 DEF validate, IInv, ServerInv
    <3>2. outcome.error = "MalformedHeader" /\ outcome.agreed = Nothing
      BY <2>1, <3>1 DEF Refused, Nothing
    <3> HIDE DEF outcome
    <3> QED
      BY <3>1, <3>2 DEF Options, NegotiationErrors
  <2>2. CASE validate(response) = "Ok"
    <3>1. outcome = Applied(client.config, client.offer, response, composition)
      BY <2>2
    <3>2. server.agreed # Nothing =>
            sole_deflate(response).error = "Ok" /\ sole_deflate(response).selected # Nothing
      <4>1. SUFFICES ASSUME server.agreed # Nothing
                     PROVE  /\ sole_deflate(response).error = "Ok"
                            /\ sole_deflate(response).selected # Nothing
        OBVIOUS
      <4>2. Types /\ Chosen /\ SoleIs(response, server.proposed[1])
        BY <4>1 DEF IInv, ServerInv
      <4>3. PICK i \in DOMAIN response :
              response[i] = server.proposed[1] /\ Selections(response) = {i}
        BY <4>2 DEF SoleIs
      <4>4. parse_params(response[i].params).error = "Ok"
        BY <4>2, <4>3, ChosenRead
      <4> QED
        BY <1>2, <2>2, <4>3, <4>4, SoleRead, SMTT(60) DEF Some, Nothing
    <3> HIDE DEF outcome
    <3> QED
      BY <1>2, <2>2, <3>1, <3>2, AppliedTyped
  <2> QED
    BY <2>1, <2>2
<1> HIDE DEF outcome
<1>4. /\ client' \in ClientState /\ client'.phase = "done" /\ client'.config = client.config
      /\ client'.offer = client.offer /\ client'.result = outcome.error
      /\ client'.agreed = outcome.agreed
  BY <1>1, <1>2, <1>3 DEF ClientState
<1>5. Types'
  BY <1>1, <1>4 DEF IInv, Types
<1>6. OfferInv'
  BY <1>1, <1>4 DEF IInv, OfferInv
<1>7. ServerInv'
  BY <1>1, <1>4 DEF IInv, ServerInv, Chosen
<1>8. AnswerInv'
  BY <1>1, <1>3, <1>4 DEF AnswerInv
<1>9. RefusalInv'
  BY <1>1, <1>3, <1>4 DEF RefusalInv
<1> QED
  BY <1>5, <1>6, <1>7, <1>8, <1>9 DEF IInv

\* A step that changes nothing.
LEMMA StutterKeeps ==
  ASSUME IInv, UNCHANGED vars
  PROVE  IInv'
<1>1. UNCHANGED <<client, server, request, response, edits>>
  BY DEF vars
<1> QED
  BY <1>1 DEF IInv, Types, OfferInv, ServerInv, AnswerInv, RefusalInv, Chosen

\* In every state of a handshake, the parts of the invariant hold.
THEOREM Invariance == Spec => []IInv
<1>1. IInv /\ [Next]_vars => IInv'
  <2>1. SUFFICES ASSUME IInv, [Next]_vars PROVE IInv'
    OBVIOUS
  <2>2. CASE EditRequest
    BY <2>1, <2>2, EditRequestKeeps
  <2>3. CASE Install
    BY <2>1, <2>3, InstallKeeps
  <2>4. CASE Seal
    BY <2>1, <2>4, SealKeeps
  <2>5. CASE SealWithoutOffer
    BY <2>1, <2>5, SealWithoutOfferKeeps
  <2>6. CASE ForeignRequest
    BY <2>1, <2>6, ForeignRequestKeeps
  <2>7. CASE Accept
    BY <2>1, <2>7, AcceptKeeps
  <2>8. CASE EditResponse
    BY <2>1, <2>8, EditResponseKeeps
  <2>9. ASSUME NEW composition \in {"Compatible", "Conflict"}, ServerFinish(composition)
        PROVE  IInv'
    BY <2>1, <2>9, ServerFinishKeeps
  <2>10. ASSUME NEW composition \in {"Compatible", "Conflict"}, ClientFinish(composition)
         PROVE  IInv'
    BY <2>1, <2>10, ClientFinishKeeps
  <2>11. CASE ForeignResponse
    BY <2>1, <2>11, ForeignResponseKeeps
  <2>12. CASE UNCHANGED vars
    BY <2>1, <2>12, StutterKeeps
  <2> QED
    BY <2>1, <2>2, <2>3, <2>4, <2>5, <2>6, <2>7, <2>8, <2>9, <2>10, <2>11, <2>12 DEF Next
<1> QED
  BY InitInv, <1>1, PTL DEF Spec

-----------------------------------------------------------------------------
(* What follows from it.                                                    *)

\* An option that holds something holds a member.
LEMMA OptionHolds ==
  ASSUME NEW S, NEW option \in Options(S), option # Nothing
  PROVE  option[1] \in S /\ option = Some(option[1])
BY DEF Options, Some, Nothing

\* Every value of client.rs and server.rs keeps its type, an agreement's
\* widths and every field's elements among them.
THEOREM TypeCorrect == Spec => []TypeOK
<1>1. IInv => TypeOK
  <2>1. SUFFICES ASSUME IInv PROVE TypeOK
    OBVIOUS
  <2>2. /\ client \in ClientState /\ server \in ServerState
        /\ request \in Seq(Element) /\ response \in Seq(Element)
        /\ edits \in [request : 0..MaxEdits, response : 0..MaxEdits]
    BY <2>1 DEF IInv, Types
  <2>3. /\ client.offer = Nothing \/ client.offer[1] \in Element
        /\ client.agreed = Nothing \/ client.agreed[1] \in Negotiated
    BY <2>2, OptionHolds DEF ClientState
  <2>4. /\ server.proposed = Nothing \/ server.proposed[1] \in Element
        /\ server.agreement = Nothing \/ server.agreement[1] \in Negotiated
        /\ server.agreed = Nothing \/ server.agreed[1] \in Negotiated
    BY <2>2, OptionHolds DEF ServerState
  <2>5. /\ \A i \in DOMAIN request : request[i] \in Element
        /\ \A i \in DOMAIN response : response[i] \in Element
    BY <2>2, LenProperties
  <2> QED
    BY <2>2, <2>3, <2>4, <2>5 DEF TypeOK, ClientState, ServerState
<1> QED
  BY <1>1, Invariance, PTL

\* What an accepted answer comes to.
LEMMA AgreedTerms ==
  ASSUME NEW config \in ClientConfig, NEW answer \in Params,
         agree(config, answer).agreed # Nothing
  PROVE  LET n == agree(config, answer).agreed[1] IN
         /\ n.role = "Client"
         /\ config.server_no_context_takeover => answer.server_no_context_takeover
         /\ n.server_no_context_takeover = answer.server_no_context_takeover
         /\ n.client_no_context_takeover =
              (config.client_no_context_takeover \/ answer.client_no_context_takeover)
         /\ n.server_max_window_bits = Or(answer.server_max_window_bits, MAX_WINDOW_BITS)
         /\ n.server_max_window_bits <= config.server_max_window_bits
         /\ n.server_max_window_bits \in WireBits
         /\ n.client_max_window_bits =
              Min(Or(answer.client_max_window_bits, MAX_WINDOW_BITS), config.client_max_window_bits)
         /\ n.client_max_window_bits \in LocalBits
         /\ n.client_max_window_bits <= config.client_max_window_bits
         /\ n.client_max_window_bits <= Or(answer.client_max_window_bits, MAX_WINDOW_BITS)
<1> DEFINE server_bits == Or(answer.server_max_window_bits, MAX_WINDOW_BITS)
           client_bits == Or(answer.client_max_window_bits, MAX_WINDOW_BITS)
           n == agree(config, answer).agreed[1]
<1>1. Objection(config, answer) = "Ok"
  BY AgreeTyped
<1>2. /\ config.server_max_window_bits \in WireBits
      /\ config.client_max_window_bits \in LocalBits
      /\ answer.server_max_window_bits \in WireBits \cup {Absent}
      /\ answer.client_max_window_bits \in WireBits \cup {Absent, Valueless}
  BY DEF ClientConfig, Params, PeerBits, WireBits
<1>3. /\ config.server_no_context_takeover => answer.server_no_context_takeover
      /\ server_bits <= config.server_max_window_bits
      /\ answer.client_max_window_bits \in LocalBits \cup {Absent}
  BY <1>1, <1>2 DEF Objection, Or, WireBits, Absent, MAX_WINDOW_BITS
<1>4. server_bits \in WireBits /\ client_bits \in LocalBits
  BY <1>2, <1>3 DEF Or, WireBits, LocalBits, MAX_WINDOW_BITS
<1>5. n = new("Client", answer.server_no_context_takeover,
              config.client_no_context_takeover \/ answer.client_no_context_takeover,
              server_bits, Min(client_bits, config.client_max_window_bits))
  BY <1>1 DEF agree, Agreed
<1>6. /\ n.role = "Client"
      /\ n.server_no_context_takeover = answer.server_no_context_takeover
      /\ n.client_no_context_takeover =
           (config.client_no_context_takeover \/ answer.client_no_context_takeover)
      /\ n.server_max_window_bits = server_bits
      /\ n.client_max_window_bits = Min(client_bits, config.client_max_window_bits)
  BY <1>5 DEF new
<1> HIDE DEF n, server_bits, client_bits
<1>7. /\ Min(client_bits, config.client_max_window_bits) \in LocalBits
      /\ Min(client_bits, config.client_max_window_bits) <= config.client_max_window_bits
      /\ Min(client_bits, config.client_max_window_bits) <= client_bits
  BY <1>2, <1>4 DEF Min, LocalBits
<1> QED
  BY <1>3, <1>4, <1>6, <1>7 DEF n, server_bits, client_bits

\* client.rs: whatever a server answers, foreign ones included, an agreement
\* keeps what the client configured and what the answer asked of it.
THEOREM ClientTermsKept == Spec => []ClientKeepsTerms
<1>1. IInv => ClientKeepsTerms
  <2>1. SUFFICES ASSUME IInv, client.agreed # Nothing PROVE ClientKeepsTerms
    BY DEF ClientKeepsTerms
  <2> DEFINE answer == Says(response)
  <2>2. /\ client.config \in ClientConfig /\ answer \in Params
        /\ client.agreed = agree(client.config, answer).agreed
    BY <2>1, Configured DEF IInv, AnswerInv
  <2>3. /\ answer.server_max_window_bits \in WireBits \cup {Absent}
        /\ Or(answer.server_max_window_bits, MAX_WINDOW_BITS) \in Int
    BY <2>2 DEF Params, Or, WireBits, MAX_WINDOW_BITS
  <2> HIDE DEF answer
  <2> DEFINE n == client.agreed[1]
  <2>4. /\ n.server_no_context_takeover = answer.server_no_context_takeover
        /\ client.config.server_no_context_takeover => answer.server_no_context_takeover
        /\ n.client_no_context_takeover =
             (client.config.client_no_context_takeover \/ answer.client_no_context_takeover)
        /\ n.server_max_window_bits = Or(answer.server_max_window_bits, MAX_WINDOW_BITS)
        /\ n.server_max_window_bits <= client.config.server_max_window_bits
        /\ n.client_max_window_bits <= client.config.client_max_window_bits
        /\ n.client_max_window_bits <= Or(answer.client_max_window_bits, MAX_WINDOW_BITS)
        /\ n.client_max_window_bits \in LocalBits
    BY <2>1, <2>2, AgreedTerms
  <2>5. Or(answer.server_max_window_bits, MAX_WINDOW_BITS) <= n.server_max_window_bits
    BY <2>3, <2>4
  <2>6. /\ client.config.server_no_context_takeover => n.server_no_context_takeover
        /\ n.server_no_context_takeover => answer.server_no_context_takeover
        /\ client.config.client_no_context_takeover \/ answer.client_no_context_takeover
             => n.client_no_context_takeover
    BY <2>4, Zenon
  <2> HIDE DEF n
  <2> QED
    BY <2>1, <2>4, <2>5, <2>6, Zenon DEF ClientKeepsTerms, answer, n
<1> QED
  BY <1>1, Invariance, PTL

\* client.rs: an agreement rests on a request that left with the client's own
\* offer, once and unaltered, and on a response that selected once.
THEOREM OwnOfferAgreed == Spec => []AgreedOverOwnOffer
<1>1. IInv => AgreedOverOwnOffer
  <2>1. SUFFICES ASSUME IInv, client.agreed # Nothing
                 PROVE  SoleIs(request, render_offer(client.config)) /\ Sole(response)
    BY DEF AgreedOverOwnOffer, SoleIs, Sole
  <2> QED
    BY <2>1 DEF IInv, AnswerInv, OfferInv
<1> QED
  BY <1>1, Invariance, PTL

\* client.rs: a response that names the extension to a client that offered
\* nothing never passes in silence.
THEOREM UnsolicitedRefused == Spec => []UnsolicitedFails
<1>1. IInv => UnsolicitedFails
  BY DEF IInv, AnswerInv, UnsolicitedFails
<1> QED
  BY <1>1, Invariance, PTL

\* What a server that agreed has sent.
LEMMA Committed ==
  ASSUME IInv, server.agreed # Nothing
  PROVE  LET sent == Says(response) IN
         /\ SoleIs(response, server.proposed[1])
         /\ sent = parse_params(server.proposed[1].params).params
         /\ sent \in Params
         /\ server.agreed[1] = new("Server", sent.server_no_context_takeover,
                                   sent.client_no_context_takeover,
                                   Or(sent.server_max_window_bits, MAX_WINDOW_BITS),
                                   Or(sent.client_max_window_bits, MAX_WINDOW_BITS))
         /\ server.agreed[1].server_max_window_bits \in LocalBits
<1>1. /\ Types /\ Chosen /\ server.agreed = server.agreement
      /\ validate(response) = "Ok" /\ SoleIs(response, server.proposed[1])
  BY DEF IInv, ServerInv
<1>2. PICK i \in DOMAIN response : response[i] = server.proposed[1] /\ Selections(response) = {i}
  BY <1>1 DEF SoleIs
<1>3. parse_params(server.proposed[1].params).error = "Ok"
  BY <1>1, ChosenRead
<1>4. Says(response) = parse_params(server.proposed[1].params).params
  BY <1>1, <1>2, <1>3, SoleRead DEF Types
<1> QED
  BY <1>1, <1>4, ChosenRead

\* server.rs: what the server builds its codecs from is what the response it
\* sent says, in the very bytes it proposed.
THEOREM CommittedIsSent == Spec => []AgreementIsOnTheWire
<1>1. IInv => AgreementIsOnTheWire
  <2>1. SUFFICES ASSUME IInv, server.agreed # Nothing PROVE AgreementIsOnTheWire
    BY DEF AgreementIsOnTheWire
  <2> DEFINE n == server.agreed[1]
  <2>2. local_max_window_bits(n) = n.server_max_window_bits
    BY <2>1, Committed DEF local_max_window_bits, ByRole, new
  <2>3. \E i \in DOMAIN response : Selections(response) = {i} /\ response[i] = server.proposed[1]
    BY <2>1, Committed DEF SoleIs
  <2> QED
    BY <2>1, <2>2, <2>3, Committed DEF AgreementIsOnTheWire
<1> QED
  BY <1>1, Invariance, PTL

\* Two ends that both agreed can talk: windows and resets fit, both ways.
THEOREM EndsFit == Spec => []EndsAreCompatible
<1>1. IInv => EndsAreCompatible
  <2>1. SUFFICES ASSUME IInv, client.agreed # Nothing, server.agreed # Nothing
                 PROVE  EndsAreCompatible
    BY DEF EndsAreCompatible
  <2> DEFINE c == client.agreed[1]
             s == server.agreed[1]
             answer == Says(response)
             config == client.config
  <2>2. /\ config \in ClientConfig /\ answer \in Params
        /\ client.agreed = agree(config, answer).agreed
    BY <2>1, Configured DEF IInv, AnswerInv
  <2>3. /\ c.role = "Client"
        /\ c.server_no_context_takeover = answer.server_no_context_takeover
        /\ c.client_no_context_takeover =
             (config.client_no_context_takeover \/ answer.client_no_context_takeover)
        /\ c.server_max_window_bits = Or(answer.server_max_window_bits, MAX_WINDOW_BITS)
        /\ c.client_max_window_bits \in LocalBits
        /\ c.client_max_window_bits <= Or(answer.client_max_window_bits, MAX_WINDOW_BITS)
    <3> HIDE DEF answer, config
    <3> QED
      BY <2>1, <2>2, AgreedTerms
  <2>4. /\ s.role = "Server"
        /\ s.server_no_context_takeover = answer.server_no_context_takeover
        /\ s.client_no_context_takeover = answer.client_no_context_takeover
        /\ s.server_max_window_bits = Or(answer.server_max_window_bits, MAX_WINDOW_BITS)
        /\ s.client_max_window_bits = Or(answer.client_max_window_bits, MAX_WINDOW_BITS)
        /\ s.server_max_window_bits \in LocalBits
    <3>1. /\ s = new("Server", answer.server_no_context_takeover,
                     answer.client_no_context_takeover,
                     Or(answer.server_max_window_bits, MAX_WINDOW_BITS),
                     Or(answer.client_max_window_bits, MAX_WINDOW_BITS))
          /\ s.server_max_window_bits \in LocalBits
      BY <2>1, Committed
    <3> HIDE DEF s, answer
    <3> QED
      BY <3>1 DEF new
  <2> HIDE DEF c, s, answer, config
  <2>5. /\ local_max_window_bits(c) = c.client_max_window_bits
        /\ peer_max_window_bits(c) = c.server_max_window_bits
        /\ local_no_context_takeover(c) = c.client_no_context_takeover
        /\ peer_no_context_takeover(c) = c.server_no_context_takeover
        /\ local_max_window_bits(s) = s.server_max_window_bits
        /\ peer_max_window_bits(s) = s.client_max_window_bits
        /\ local_no_context_takeover(s) = s.server_no_context_takeover
        /\ peer_no_context_takeover(s) = s.client_no_context_takeover
    BY <2>3, <2>4 DEF local_max_window_bits, peer_max_window_bits, local_no_context_takeover,
                      peer_no_context_takeover, ByRole
  <2>6. /\ local_max_window_bits(c) <= peer_max_window_bits(s)
        /\ local_max_window_bits(c) \in LocalBits
        /\ local_max_window_bits(s) <= peer_max_window_bits(c)
        /\ local_max_window_bits(s) \in LocalBits
    BY <2>3, <2>4, <2>5 DEF LocalBits
  <2>7. /\ peer_no_context_takeover(s) => local_no_context_takeover(c)
        /\ peer_no_context_takeover(c) => local_no_context_takeover(s)
    BY <2>3, <2>4, <2>5, Zenon
  <2>8. ASSUME NEW p \in {<<c, s>>, <<s, c>>}
        PROVE  /\ local_max_window_bits(p[1]) <= peer_max_window_bits(p[2])
               /\ local_max_window_bits(p[1]) \in LocalBits
               /\ peer_no_context_takeover(p[2]) => local_no_context_takeover(p[1])
    <3>1. \/ p[1] = c /\ p[2] = s
          \/ p[1] = s /\ p[2] = c
      BY <2>8
    <3> QED
      BY <2>6, <2>7, <3>1, Zenon
  <2> QED
    BY <2>8, Zenon DEF EndsAreCompatible, c, s
<1> QED
  BY <1>1, Invariance, PTL

\* The offers a server can honour are those it does not decline.
LEMMA HonourableIsSupportable ==
  ASSUME NEW config \in ServerConfig, NEW offer \in Params
  PROVE  Honourable(config, offer) <=> ~Declines(config, offer)
<1>1. /\ config.server_max_window_bits \in LocalBits
      /\ config.client_max_window_bits \in WireBits
      /\ offer.server_max_window_bits \in WireBits \cup {Absent}
  BY DEF ServerConfig, Params, PeerBits, WireBits
<1>2. Or(offer.server_max_window_bits, MAX_WINDOW_BITS) \in WireBits
  BY <1>1 DEF Or, WireBits, MAX_WINDOW_BITS
<1>3. (\E bits \in LocalBits : /\ bits <= config.server_max_window_bits
                              /\ bits <= Or(offer.server_max_window_bits, MAX_WINDOW_BITS))
        <=> offer.server_max_window_bits # 8
  <2>1. CASE offer.server_max_window_bits = 8
    BY <2>1 DEF Or, LocalBits, Absent
  <2>2. CASE offer.server_max_window_bits # 8
    <3>1. Or(offer.server_max_window_bits, MAX_WINDOW_BITS) # 8
      BY <2>2 DEF Or, MAX_WINDOW_BITS
    <3>2. 9 \in LocalBits /\ 9 <= config.server_max_window_bits
          /\ 9 <= Or(offer.server_max_window_bits, MAX_WINDOW_BITS)
      BY <1>1, <1>2, <3>1 DEF LocalBits, WireBits
    <3> QED
      BY <2>2, <3>2
  <2> QED
    BY <2>1, <2>2
<1>4. config.client_max_window_bits = MAX_WINDOW_BITS
        <=> ~(config.client_max_window_bits < MAX_WINDOW_BITS)
  BY <1>1 DEF WireBits, MAX_WINDOW_BITS
<1> QED
  BY <1>3, <1>4 DEF Honourable, Declines

\* A proposal refines the offer it answers, and keeps the server's own terms.
LEMMA SelectAnswers ==
  ASSUME NEW config \in ServerConfig, NEW offer \in Params, ~Declines(config, offer)
  PROVE  Answers(config, offer, parse_params(select(config, offer).proposed.params).params)
<1> DEFINE sent == parse_params(select(config, offer).proposed.params).params
<1>1. /\ sent.server_no_context_takeover =
           (config.server_no_context_takeover \/ offer.server_no_context_takeover)
      /\ sent.client_no_context_takeover =
           (config.client_no_context_takeover \/ offer.client_no_context_takeover)
      /\ sent.server_max_window_bits = server_window(config, offer)
      /\ sent.client_max_window_bits =
           IF client_window(config, offer) = MAX_WINDOW_BITS THEN Absent
           ELSE client_window(config, offer)
  BY SelectRead
<1> HIDE DEF sent
<1>2. /\ config.server_max_window_bits \in LocalBits
      /\ config.client_max_window_bits \in WireBits
      /\ offer.server_max_window_bits \in WireBits \cup {Absent}
      /\ offer.client_max_window_bits \in WireBits \cup {Absent, Valueless}
      /\ ~(offer.client_max_window_bits = Absent
             /\ config.client_max_window_bits < MAX_WINDOW_BITS)
  BY DEF ServerConfig, Params, PeerBits, WireBits, Declines
<1>3. Or(sent.server_max_window_bits, MAX_WINDOW_BITS)
        <= Min(Or(offer.server_max_window_bits, MAX_WINDOW_BITS), config.server_max_window_bits)
  BY <1>1, <1>2 DEF server_window, Or, Min, WireBits, LocalBits, Absent, MAX_WINDOW_BITS
<1>4. /\ Or(sent.client_max_window_bits, MAX_WINDOW_BITS) <= config.client_max_window_bits
      /\ sent.client_max_window_bits \in WireBits => offer.client_max_window_bits # Absent
  BY <1>1, <1>2 DEF client_window, Or, Min, WireBits, Absent, Valueless, NoValue, MAX_WINDOW_BITS
<1>5. /\ offer.server_no_context_takeover \/ config.server_no_context_takeover
           => sent.server_no_context_takeover
      /\ config.client_no_context_takeover => sent.client_no_context_takeover
  BY <1>1, Zenon
<1> QED
  BY <1>3, <1>4, <1>5, Zenon DEF Answers, sent

\* server.rs: the first alternative that can be honoured is the one answered,
\* in terms that refine it, and a decline means that there was none.
THEOREM FirstIsAnswered == Spec => []FirstAlternativeAnswered
<1>1. IInv => FirstAlternativeAnswered
  <2>1. SUFFICES ASSUME IInv, server.phase \in {"proposed", "done"},
                        server.result # "MalformedHeader"
                 PROVE  FirstAlternativeAnswered
    BY DEF FirstAlternativeAnswered
  <2> DEFINE able == Supportable(server.config, request)
             offer(i) == parse_params(request[i].params).params
  <2>2. /\ Types /\ request \in Seq(Element) /\ validate(request) = "Ok"
        /\ server.config \in ServerConfig
    BY <2>1, Configured DEF IInv, Types, ServerInv
  <2>3. Alternatives(server.config, request) = able
    <3>1. Selections(request) = DeflatesIn(request)
      BY <2>2, AllRead
    <3>2. ASSUME NEW i \in Selections(request), parse_params(request[i].params).error = "Ok"
          PROVE  Honourable(server.config, offer(i)) <=> ~Declines(server.config, offer(i))
      <4>1. request[i] \in Element
        BY <2>2, LenProperties DEF Selections
      <4>2. request[i].params \in Seq(Parameter)
        BY <4>1 DEF Element
      <4> QED
        BY <2>2, <3>2, <4>2, ParsedTyped, HonourableIsSupportable
    <3> QED
      BY <3>1, <3>2 DEF Alternatives, Supportable
  <2>4. CASE server.proposed = Nothing
    BY <2>1, <2>3, <2>4, SMTT(60) DEF IInv, ServerInv, FirstAlternativeAnswered
  <2>5. CASE server.proposed # Nothing
    <3>1. PICK i \in able :
            /\ \A j \in able : i <= j
            /\ server.proposed = Some(select(server.config, offer(i)).proposed)
      BY <2>1, <2>5 DEF IInv, ServerInv, Chosen
    <3>2. offer(i) \in Params /\ ~Declines(server.config, offer(i))
      BY <2>2, SupportableTyped
    <3>3. server.proposed[1] = select(server.config, offer(i)).proposed
      BY <3>1 DEF Some
    <3>4. Answers(server.config, offer(i), parse_params(server.proposed[1].params).params)
      <4> HIDE DEF offer
      <4> QED
        BY <2>2, <3>2, <3>3, SelectAnswers
    <3> QED
      BY <2>3, <2>5, <3>1, <3>4 DEF FirstAlternativeAnswered
  <2> QED
    BY <2>4, <2>5
<1> QED
  BY <1>1, Invariance, PTL

\* client.rs and server.rs together: a client of this crate takes what a
\* server of this crate committed to, but for composition and a window of 8.
THEOREM OwnEndsAgree == Spec => []OwnEndsConnect
<1>1. IInv => OwnEndsConnect
  <2>1. SUFFICES ASSUME IInv, client.phase = "done", server.agreed # Nothing,
                        client.offer # Nothing, client.agreed = Nothing,
                        client.result # "ExtensionConflict"
                 PROVE  /\ client.result = "ClientWindowTooNarrow"
                        /\ server.config.client_max_window_bits = 8
    BY DEF OwnEndsConnect
  <2> DEFINE mine == client.config
             theirs == server.config
             sent == Says(response)
             offer(i) == parse_params(request[i].params).params
  <2>2. /\ client.result = Objection(mine, sent) /\ client.result # "Ok"
        /\ SoleIs(request, render_offer(mine))
        /\ Types /\ Chosen
        /\ mine \in ClientConfig /\ theirs \in ServerConfig
        /\ request \in Seq(Element)
    BY <2>1, Configured DEF IInv, Types, RefusalInv, OfferInv, ServerInv
  <2>3. PICK i \in Supportable(theirs, request) :
          server.proposed = Some(select(theirs, offer(i)).proposed)
    BY <2>2 DEF Chosen
  <2>4. request[i] = render_offer(mine)
    <3>1. i \in Selections(request)
      BY <2>2, <2>3, SupportableTyped DEF Selections
    <3> QED
      BY <2>2, <3>1 DEF SoleIs
  <2>5. offer(i) \in Params /\ ~Declines(theirs, offer(i))
    BY <2>2, <2>3, SupportableTyped
  <2> DEFINE asked == IF mine.server_max_window_bits = MAX_WINDOW_BITS THEN Absent
                      ELSE mine.server_max_window_bits
             held == IF mine.client_max_window_bits = MAX_WINDOW_BITS THEN Valueless
                     ELSE mine.client_max_window_bits
  <2>6. /\ mine.server_no_context_takeover \in BOOLEAN
        /\ mine.client_no_context_takeover \in BOOLEAN
        /\ mine.server_max_window_bits \in WireBits
        /\ mine.client_max_window_bits \in LocalBits
        /\ theirs.server_max_window_bits \in LocalBits
        /\ theirs.client_max_window_bits \in WireBits
    BY <2>2 DEF ClientConfig, ServerConfig, PeerBits, WireBits
  <2> HIDE DEF mine, theirs
  <2>7. offer(i) = [server_no_context_takeover |-> mine.server_no_context_takeover,
                    client_no_context_takeover |-> mine.client_no_context_takeover,
                    server_max_window_bits |-> asked, client_max_window_bits |-> held]
    <3>1. asked \in WireBits \cup {Absent} /\ held \in WireBits \cup {Absent, Valueless}
      BY <2>6 DEF LocalBits, WireBits
    <3>2. render_offer(mine) = render(mine.server_no_context_takeover,
                                      mine.client_no_context_takeover, asked, held)
      BY DEF render_offer
    <3> HIDE DEF asked, held
    <3> QED
      BY <2>4, <2>6, <3>1, <3>2, ParseRender
  <2>8. /\ offer(i).server_no_context_takeover = mine.server_no_context_takeover
        /\ offer(i).server_max_window_bits = asked
        /\ offer(i).client_max_window_bits = held
    BY <2>7
  <2>9. sent = parse_params(select(theirs, offer(i)).proposed.params).params
    <3>1. server.proposed[1] = select(theirs, offer(i)).proposed
      BY <2>3 DEF Some
    <3> HIDE DEF offer
    <3> QED
      BY <2>1, <3>1, Committed
  <2> HIDE DEF offer, sent
  <2>10. /\ sent.server_no_context_takeover =
              (theirs.server_no_context_takeover \/ offer(i).server_no_context_takeover)
         /\ sent.server_max_window_bits = server_window(theirs, offer(i))
         /\ sent.client_max_window_bits =
              IF client_window(theirs, offer(i)) = MAX_WINDOW_BITS THEN Absent
              ELSE client_window(theirs, offer(i))
    BY <2>2, <2>5, <2>9, SelectRead
  <2>11. mine.server_no_context_takeover => sent.server_no_context_takeover
    BY <2>8, <2>10, Zenon
  <2>12. /\ ~(sent.server_max_window_bits > mine.server_max_window_bits)
         /\ ~(sent.server_max_window_bits = Absent
               /\ mine.server_max_window_bits < MAX_WINDOW_BITS)
    BY <2>6, <2>8, <2>10 DEF server_window, Min, LocalBits, WireBits, Absent, MAX_WINDOW_BITS
  <2>13. /\ sent.client_max_window_bits # Valueless
         /\ sent.client_max_window_bits \notin LocalBits \cup {Absent}
              => theirs.client_max_window_bits = 8
    BY <2>6, <2>8, <2>10 DEF client_window, Min, LocalBits, WireBits, Absent, Valueless, NoValue,
                             MAX_WINDOW_BITS
  <2>14. /\ client.result = "ClientWindowTooNarrow"
         /\ sent.client_max_window_bits \notin LocalBits \cup {Absent}
    BY <2>2, <2>11, <2>12, <2>13 DEF Objection
  <2> QED
    BY <2>13, <2>14 DEF theirs
<1> QED
  BY <1>1, Invariance, PTL
=============================================================================
