---------------------------- MODULE FieldSyntax ----------------------------
(***************************************************************************)
(* src/src/grammar.rs octet by octet: where elements, parameters and values *)
(* of a Sec-WebSocket-Extensions field end, what is a token, what a quoted  *)
(* string stands for, what is a number.  Grammar.tla starts where this      *)
(* module ends, and the last property says that it may.                     *)
(*                                                                         *)
(* An octet is the name of its class.  The names the code compares with are *)
(* symbols of their own; "word" is any other token character, and with one  *)
(* next to it a name is another name.                                       *)
(***************************************************************************)
EXTENDS Integers, FiniteSetsExt, SequencesExt

CONSTANTS
  Alphabet,    \* the symbols a field is made of
  Starts,      \* the fields a host begins with
  Terms,       \* what a client may have to render: Params
  MaxSymbols,  \* bound on the symbols a host writes
  MaxLines,    \* bound on the lines it begins
  EditCost     \* how many symbols of the bound an edit of an octet counts for

VARIABLES
  lines,       \* the field lines of a HeaderMap
  installed,   \* the terms the client installed, none or one, and the lines then
  grown        \* how much of its bound the host has written

vars == <<lines, installed, grown>>

Abstract == INSTANCE Grammar

NAME == Abstract!NAME
Flags == Abstract!Flags
Windows == Abstract!Windows
Names == {<<name>> : name \in Flags \cup Windows}

Digits == <<"0", "1", "2", "3", "4", "5", "6", "7", "8", "9">>
IsDigit(c) == c \in ToSet(Digits)
Value(c) == CHOOSE n \in 0..9 : Digits[n + 1] = c
is_tchar(c) == c \notin {"dquote", "backslash", "comma", "semicolon", "equals", "blank", "ctl"}

\* What an octet may be.
Symbols ==
  {"dquote", "backslash", "comma", "semicolon", "equals", "blank", "ctl", "word", NAME}
    \cup Flags \cup Windows \cup ToSet(Digits)

ASSUME FieldsAssumption ==
  /\ Alphabet \subseteq Symbols
  /\ Starts \subseteq Seq(Seq(Symbols))
  /\ Terms \subseteq Abstract!Params
  /\ MaxSymbols \in Nat /\ MaxLines \in Nat /\ EditCost \in Nat \ {0}

Ok(value) == [error |-> "Ok", value |-> value]
Err(error) == [error |-> error, value |-> <<>>]

OneIf(condition, s) == IF condition THEN s ELSE <<>>

-----------------------------------------------------------------------------
(* Delimiters.                                                              *)

\* What split knows after an octet: whether it is in a quoted string, behind a
\* backslash in one, or in neither.
After(state, c) ==
  CASE state = "plain"   -> IF c = "dquote" THEN "quoted" ELSE "plain"
    [] state = "escaped" -> "quoted"
    [] state = "quoted"  -> IF c = "backslash" THEN "escaped"
                            ELSE IF c = "dquote" THEN "plain" ELSE "quoted"

Quoting(s) ==
  LET state[i \in 0..Len(s)] == IF i = 0 THEN "plain" ELSE After(state[i-1], s[i])
  IN state

\* The pieces between the places where `s` is cut: an octet ends the last piece,
\* or belongs to it.
Extend(pieces, c) == [pieces EXCEPT ![Len(pieces)] = Append(@, c)]
PiecesAt(s, cuts) ==
  LET pieces[i \in 0..Len(s)] ==
        IF i = 0 THEN <<<<>>>>
        ELSE IF i \in cuts THEN Append(pieces[i-1], <<>>) ELSE Extend(pieces[i-1], s[i])
  IN pieces[Len(s)]

Places(s, delimiter) == {i \in DOMAIN s : s[i] = delimiter}

\* Mutant: a delimiter counts within quotes too.
splitAnywhere(s, delimiter) ==
  IF Quoting(s)[Len(s)] # "plain" THEN Err("MalformedHeader")
  ELSE Ok(PiecesAt(s, Places(s, delimiter)))

split(s, delimiter) ==
  LET state == Quoting(s)
  IN IF state[Len(s)] # "plain" THEN Err("MalformedHeader")
     ELSE Ok(PiecesAt(s, {i \in Places(s, delimiter) : state[i-1] = "plain"}))

elements(line) == split(line, "comma")
segments(element) == split(element, "semicolon")

trim(s) ==
  LET solid == {i \in DOMAIN s : s[i] # "blank"}
  IN IF solid = {} THEN <<>> ELSE SubSeq(s, Min(solid), Max(solid))

is_blank(element) == trim(element) = <<>>

\* Only asked of an element whose segments can be told.
is_deflate(element) == trim(segments(element).value[1]) = <<NAME>>

\* The name and, unless there is none, the value, at the first `=`.
split_parameter(segment) ==
  LET signs == {i \in DOMAIN segment : segment[i] = "equals"}
      at    == IF signs = {} THEN Len(segment) + 1 ELSE Min(signs)
  IN [name |-> trim(SubSeq(segment, 1, at - 1)), valued |-> signs # {},
      value |-> SubSeq(segment, at + 1, Len(segment))]

-----------------------------------------------------------------------------
(* Tokens and quoted strings.                                               *)

IsToken(s) == s # <<>> /\ \A i \in DOMAIN s : is_tchar(s[i])

\* One layer of quoting: the string must close, and at the last octet.
unquote(s) ==
  LET state  == Quoting(s)
      closed == {i \in DOMAIN s : i > 1 /\ state[i] = "plain"}
      text   == [i \in DOMAIN s |->
                   OneIf(i \in 2..(Len(s) - 1) /\ state[i] # "escaped", <<s[i]>>)]
  IN IF s = <<>> \/ Head(s) # "dquote"
     THEN IF Contains(s, "dquote") THEN Err("MalformedHeader") ELSE Ok(s)
     ELSE IF closed = {} \/ Min(closed) # Len(s) THEN Err("MalformedHeader")
     ELSE Ok(FlattenSeq(text))

ValueIsToken(value) ==
  LET text == unquote(trim(value)) IN text.error = "Ok" /\ IsToken(text.value)

validate_element(element) ==
  LET segs == segments(element).value
  IN /\ segments(element).error = "Ok"
     /\ IsToken(trim(segs[1]))
     /\ \A k \in 2..Len(segs) :
          LET p == split_parameter(segs[k])
          IN IsToken(p.name) /\ (p.valued => ValueIsToken(p.value))

\* Mutant: each line must name an extension.
validateEachLine(field) ==
  IF \A line \in ToSet(field) :
       /\ elements(line).error = "Ok"
       /\ \E element \in ToSet(elements(line).value) : ~is_blank(element)
       /\ \A element \in ToSet(elements(line).value) :
            is_blank(element) \/ validate_element(element)
  THEN "Ok" ELSE "MalformedHeader"

\* Every element of every line, and one at least if there is a line.
validate(field) ==
  LET Populated(line) ==
        \E element \in ToSet(elements(line).value) : ~is_blank(element)
  IN IF /\ \A line \in ToSet(field) :
             /\ elements(line).error = "Ok"
             /\ \A element \in ToSet(elements(line).value) :
                  is_blank(element) \/ validate_element(element)
        /\ field # <<>> => \E line \in ToSet(field) : Populated(line)
     THEN "Ok" ELSE "MalformedHeader"

-----------------------------------------------------------------------------
(* Parameters.                                                              *)

U8_MAX == 255

\* Mutant: u8 arithmetic that wraps.
NumberWrapping(digits) ==
  LET total[i \in 0..Len(digits)] ==
        IF i = 0 THEN 0 ELSE (total[i-1] * 10 + Value(digits[i])) % (U8_MAX + 1)
  IN total[Len(digits)]

\* Checked u8 arithmetic: past the largest, more digits do not bring it back.
Number(digits) ==
  LET total[i \in 0..Len(digits)] ==
        IF i = 0 THEN 0 ELSE Min({total[i-1] * 10 + Value(digits[i]), U8_MAX + 1})
  IN total[Len(digits)]

parse_bits(value) ==
  LET text == unquote(trim(value)).value
  IN IF unquote(trim(value)).error # "Ok" THEN Err("MalformedHeader")
     ELSE IF \/ text = <<>> \/ \E i \in DOMAIN text : ~IsDigit(text[i])
             \/ Len(text) > 1 /\ Head(text) = "0"
             \/ Number(text) \notin Abstract!WireBits
          THEN Err("InvalidWindowBits")
     ELSE Ok(Number(text))

\* What one parameter sets its slot to.
Setting(segment) ==
  LET p == split_parameter(segment)
  IN IF p.name \notin Names THEN Err("UnknownParameter")
     ELSE IF Head(p.name) \in Flags
          THEN IF p.valued THEN Err("ParameterArity") ELSE Ok(TRUE)
     ELSE IF p.valued THEN parse_bits(p.value)
     ELSE IF Head(p.name) = "server_max_window_bits" THEN Err("ParameterArity")
     ELSE Ok(Abstract!Valueless)

\* The parameters in turn: the first at fault, by itself or because its slot is
\* full, decides the error.
parse_params(element) ==
  LET given == Tail(segments(element).value)
      Name(k) == split_parameter(given[k]).name
      Fault(k) == IF Setting(given[k]).error # "Ok" THEN Setting(given[k]).error
                  ELSE IF \E j \in 1..(k-1) : Name(j) = Name(k) THEN "DuplicateParameter"
                  ELSE "Ok"
      faults == {k \in DOMAIN given : Fault(k) # "Ok"}
      Slot(name, empty) ==
        IF \E k \in DOMAIN given : Name(k) = <<name>>
        THEN Setting(given[CHOOSE k \in DOMAIN given : Name(k) = <<name>>]).value
        ELSE empty
  IN IF faults # {} THEN Err(Fault(Min(faults)))
     ELSE Ok([server_no_context_takeover |-> Slot("server_no_context_takeover", FALSE),
              client_no_context_takeover |-> Slot("client_no_context_takeover", FALSE),
              server_max_window_bits |-> Slot("server_max_window_bits", Abstract!Absent),
              client_max_window_bits |-> Slot("client_max_window_bits", Abstract!Absent)])

-----------------------------------------------------------------------------

(* client.rs and negotiated.rs.                                             *)

\* A walk over the lines stops at the first one that does not split, and meets
\* these deflate elements on the way.
Readable(field) ==
  LET unread == {i \in DOMAIN field : elements(field[i]).error # "Ok"}
  IN IF unread = {} THEN field ELSE SubSeq(field, 1, Min(unread) - 1)
Elements(field) == FlattenSeq([i \in DOMAIN field |-> elements(field[i]).value])
Deflates(found) ==
  FlattenSeq([k \in DOMAIN found |-> OneIf(is_deflate(found[k]), <<found[k]>>)])
Selections(field) == Deflates(Elements(field))

\* Mutant: only the first line is asked for.
contains_deflateFirst(field) ==
  IF field = <<>> THEN "No"
  ELSE IF elements(Head(field)).error # "Ok" THEN "MalformedHeader"
  ELSE IF Selections(<<Head(field)>>) # <<>> THEN "Yes" ELSE "No"

contains_deflate(field) ==
  IF Selections(Readable(field)) # <<>> THEN "Yes"
  ELSE IF Readable(field) = field THEN "No"
  ELSE "MalformedHeader"

\* The digits of a width.
WireForm(n) == IF n < 10 THEN <<Digits[n + 1]>> ELSE <<"1", Digits[n - 9]>>

Parameter(name, value) ==
  <<"semicolon", "blank", name>>
    \o (IF value = Abstract!Valueless THEN <<>> ELSE <<"equals">> \o WireForm(value))

render(terms) ==
  LET Flag(name) == OneIf(terms[name], Parameter(name, Abstract!Valueless))
      Width(name) == OneIf(terms[name] # Abstract!Absent, Parameter(name, terms[name]))
  IN <<NAME>> \o Flag("server_no_context_takeover") \o Flag("client_no_context_takeover")
       \o Width("server_max_window_bits") \o Width("client_max_window_bits")

\* Mutant: what follows the offer is not compared.
sealLoosely(field, offer) ==
  LET found == Selections(Readable(field))
  IN IF \E k \in DOMAIN found : ~IsPrefix(offer, trim(found[k])) THEN "OfferAltered"
     ELSE IF Readable(field) # field THEN "MalformedHeader"
     ELSE IF Len(found) # 1 THEN "OfferAltered"
     ELSE "Ok"

seal(field, offer) ==
  LET found == Selections(Readable(field))
  IN IF \E k \in DOMAIN found : trim(found[k]) # offer THEN "OfferAltered"
     ELSE IF Readable(field) # field THEN "MalformedHeader"
     ELSE IF Len(found) # 1 THEN "OfferAltered"
     ELSE "Ok"

-----------------------------------------------------------------------------
(* A host writes any field, symbol by symbol, before and after the client   *)
(* installs its offer in it, and edits what is there once it has.           *)

Init ==
  /\ lines \in Starts
  /\ installed = <<>> /\ grown = 0

Write(symbol) ==
  lines # <<>> /\ lines' = [lines EXCEPT ![Len(lines)] = Append(@, symbol)]
NewLine ==
  Len(lines) < MaxLines /\ lines' = Append(lines, <<>>)

HostWrites ==
  /\ grown < MaxSymbols /\ grown' = grown + 1
  /\ NewLine \/ \E symbol \in Alphabet : Write(symbol)
  /\ UNCHANGED installed

install(terms) ==
  /\ installed = <<>>
  /\ contains_deflate(lines) = "No"
  /\ lines' = Append(lines, render(terms))
  /\ installed' = <<[terms |-> terms, lines |-> lines']>>
  /\ UNCHANGED grown

\* Behind the offer, in front of it or in it, the host puts an octet in, leaves
\* one out or writes one over another.
HostEdits ==
  /\ installed # <<>>
  /\ grown + EditCost <= MaxSymbols /\ grown' = grown + EditCost
  /\ \E k \in DOMAIN lines :
       \E i, j \in 0..Len(lines[k]), put \in {<<>>} \cup {<<symbol>> : symbol \in Alphabet} :
         /\ j \in {i, i + 1}
         /\ lines' = [lines EXCEPT ![k] = SubSeq(@, 1, i) \o put \o SubSeq(@, j + 1, Len(@))]
  /\ UNCHANGED installed

Next == HostWrites \/ HostEdits \/ \E terms \in Terms : install(terms)

Spec == Init /\ [][Next]_vars

-----------------------------------------------------------------------------
(* The list grammar of RFC 6455 section 9.1, by where a text can be cut.  A *)
(* value must stand for a token, which holds no delimiter: here no cut has  *)
(* to know about quotes.                                                    *)

Between(s, delimiter) ==
  {SubSeq(s, p[1] + 1, p[2] - 1) : p \in
     {p \in (0..Len(s)) \X (1..(Len(s) + 1)) :
        /\ p[1] < p[2]
        /\ p[1] = 0 \/ s[p[1]] = delimiter
        /\ p[2] = Len(s) + 1 \/ s[p[2]] = delimiter
        /\ \A k \in (p[1] + 1)..(p[2] - 1) : s[k] # delimiter}}

\* `s` is one of `Of`, with blanks around it.
Padded(s, Of(_)) ==
  \E i \in 1..(Len(s) + 1), j \in 0..Len(s) :
    /\ Of(SubSeq(s, i, j))
    /\ \A k \in DOMAIN s : k < i \/ k > j => s[k] = "blank"

\* A quoted string that stands for a token: a backslash only before one of its
\* characters.
IsQuotedToken(s) ==
  LET n == Len(s)
  IN /\ n > 2 /\ s[1] = "dquote" /\ s[n] = "dquote"
     /\ \A i \in 2..(n - 1) :
          is_tchar(s[i]) \/ (s[i] = "backslash" /\ is_tchar(s[i+1]))

IsParam(s) ==
  \/ Padded(s, IsToken)
  \/ \E e \in DOMAIN s :
       /\ s[e] = "equals" /\ Padded(SubSeq(s, 1, e - 1), IsToken)
       /\ LET value == SubSeq(s, e + 1, Len(s))
          IN Padded(value, IsToken) \/ Padded(value, IsQuotedToken)

IsExtension(s) ==
  \E n \in 0..Len(s) :
    /\ Padded(SubSeq(s, 1, n), IsToken)
    /\ n < Len(s) => /\ s[n + 1] = "semicolon"
                     /\ \A p \in Between(SubSeq(s, n + 2, Len(s)), "semicolon") : IsParam(p)

IsBlank(s) == \A i \in DOMAIN s : s[i] = "blank"

IsExtensionList(s) ==
  /\ \E e \in Between(s, "comma") : ~IsBlank(e)
  /\ \A e \in Between(s, "comma") : IsBlank(e) \/ IsExtension(e)

\* The lines of a field, as the one list they are.
Combined(field) ==
  FlattenSeq([i \in DOMAIN field |-> IF i = 1 THEN field[i] ELSE <<"comma">> \o field[i]])

-----------------------------------------------------------------------------
(* Properties.                                                              *)

\* validate takes exactly the fields that are extension lists once their lines
\* are combined, however lines, quotes, escapes and blanks fall.
ValidateIsTheGrammar ==
  validate(lines) = "Ok" <=> lines = <<>> \/ IsExtensionList(Combined(lines))

\* The doc of segments, "every caller comes through elements, whose parts are
\* provably quote-balanced": its error is unreachable.
PartsAreBalanced ==
  \A line \in ToSet(lines) :
    elements(line).error = "Ok" =>
      \A element \in ToSet(elements(line).value) : segments(element).error = "Ok"

\* The number a parameter of a conforming field is written as, if it is one of
\* the wire forms of 8 to 15; quotes and escapes are not part of it.
Written(value) ==
  LET text == FlattenSeq([i \in DOMAIN value |->
                OneIf(value[i] \notin {"dquote", "backslash", "blank"}, <<value[i]>>)])
  IN IF \E n \in Abstract!WireBits : text = WireForm(n)
     THEN CHOOSE n \in Abstract!WireBits : text = WireForm(n)
     ELSE Abstract!BadBits

\* A parameter, an element, a line and a field as Grammar.tla has them.
ParameterOf(segment) ==
  LET p == split_parameter(segment)
  IN Abstract!Param(IF p.name \in Names THEN Head(p.name) ELSE "unknown",
                    IF p.valued THEN Written(p.value) ELSE Abstract!NoValue)
ElementOf(element) ==
  IF is_blank(element) THEN Abstract!Blank
  ELSE [name |-> IF is_deflate(element) THEN NAME ELSE "other",
        params |-> [k \in DOMAIN Tail(segments(element).value) |->
                      ParameterOf(Tail(segments(element).value)[k])],
        wellformed |-> IsExtension(element), form |-> "respelled"]
LineOf(line) ==
  IF elements(line).error # "Ok" THEN <<Abstract!Unbalanced>>
  ELSE [k \in DOMAIN elements(line).value |-> ElementOf(elements(line).value[k])]
FieldOf(field) == FlattenSeq([i \in DOMAIN field |-> LineOf(field[i])])

\* The fields of the handshake's model stand for all there are: it validates,
\* finds and parses them as the octets are, error for error.
GrammarIsTheReading ==
  LET field == FieldOf(lines)
      found == contains_deflate(lines)
  IN /\ Abstract!validate(field) = validate(lines)
     /\ found = "Yes" <=> Abstract!DeflatesIn(field) # {}
     /\ found = "No" => Abstract!Splits(field)
     /\ validate(lines) = "Ok" =>
          \A line \in ToSet(lines) : \A k \in DOMAIN LineOf(line) :
            is_deflate(elements(line).value[k]) =>
              LET read == parse_params(elements(line).value[k])
                  meant == Abstract!parse_params(LineOf(line)[k].params)
              IN /\ read.error = meant.error
                 /\ read.error = "Ok" => read.value = meant.params

\* However the lines of a field are combined on the way, each end reads the
\* same: the doc of finish, "every line is read as one list".
CombiningIsInvisible ==
  Readable(lines) = lines /\ lines # <<>> =>
    LET one == <<Combined(lines)>>
    IN /\ validate(one) = validate(lines)
       /\ contains_deflate(one) = contains_deflate(lines)
       /\ Selections(one) = Selections(lines)

\* A request that is sealed says what was installed, once, to whoever parses
\* it, whatever the host wrote around the offer or changed in it; and one it left
\* alone is sealed.
SealedIsMeant ==
  installed # <<>> =>
    LET offer == installed[1]
        sealed == seal(lines, render(offer.terms)) = "Ok"
    IN /\ sealed => {parse_params(element) : element \in ToSet(Selections(lines))}
                      = {Ok(offer.terms)}
       /\ lines = offer.lines => sealed
=============================================================================
