------------------------------ MODULE Grammar ------------------------------
(***************************************************************************)
(* src/src/grammar.rs: the Sec-WebSocket-Extensions field, and the          *)
(* parameters of a permessage-deflate element.                              *)
(*                                                                         *)
(* A HeaderMap is the sequence of the elements of all its field lines: the  *)
(* code reads every line as one list.  A line whose quotes do not balance   *)
(* yields no element at all; it stands in the sequence as one element named *)
(* "unbalanced".  What an element is written with beyond its parameters     *)
(* (quoting, inner whitespace) is its `form`: "rendered" is the spelling of *)
(* negotiated.rs, and every other spelling is "respelled".                  *)
(***************************************************************************)
EXTENDS Integers, Sequences

NAME == "permessage-deflate"

\* A parameter's value: a number, or none.  A value that is no number, or is
\* written with a leading zero, is refused exactly as a number outside 8..15.
NoValue == -1
BadBits == 0

Flags     == {"server_no_context_takeover", "client_no_context_takeover"}
Windows   == {"server_max_window_bits", "client_max_window_bits"}
Parameter == [name : Flags \cup Windows \cup {"unknown"}, value : NoValue..15]

Param(name, value) == [name |-> name, value |-> value]

\* `wellformed`: every name and unquoted value is a token.
Element ==
  [name : {NAME, "other", "blank", "unbalanced"}, params : Seq(Parameter),
   wellformed : BOOLEAN, form : {"rendered", "respelled"}]

Plain(name) ==
  [name |-> name, params |-> <<>>, wellformed |-> TRUE, form |-> "respelled"]
Deflate(params, form) ==
  [name |-> NAME, params |-> params, wellformed |-> TRUE, form |-> form]

Other      == Plain("other")
Blank      == Plain("blank")
Unbalanced == Plain("unbalanced")
Malformed(element) == [element EXCEPT !.wellformed = FALSE]

is_deflate(element) == element.name = NAME
is_blank(element)   == element.name = "blank"

-----------------------------------------------------------------------------

\* What a walk over the lines reads before a line it cannot split.
Readable(headers) ==
  {i \in DOMAIN headers : \A j \in 1..i : headers[j].name # "unbalanced"}
Splits(headers) == Readable(headers) = DOMAIN headers

DeflatesIn(headers) == {i \in Readable(headers) : is_deflate(headers[i])}

\* Every line and every element, before anything is selected.
validate(headers) ==
  IF /\ \A i \in DOMAIN headers : headers[i].wellformed /\ headers[i].name # "unbalanced"
     /\ headers # <<>> => \E i \in DOMAIN headers : ~is_blank(headers[i])
  THEN "Ok" ELSE "MalformedHeader"

-----------------------------------------------------------------------------
(* Params.  A parameter with an optional width is a number or Absent.       *)

Absent    == -2
Valueless == NoValue

WireBits == 8..15

Params ==
  [server_no_context_takeover : BOOLEAN, client_no_context_takeover : BOOLEAN,
   server_max_window_bits : WireBits \cup {Absent},
   client_max_window_bits : WireBits \cup {Absent, Valueless}]

\* Mutant: any number is a width.
FaultUnbounded(params, i) ==
  LET p == params[i]
      seen == \E j \in 1..(i - 1) : params[j].name = p.name
  IN IF p.name = "unknown" THEN "UnknownParameter"
     ELSE IF p.name \in Flags /\ p.value # NoValue THEN "ParameterArity"
     ELSE IF p.name = "server_max_window_bits" /\ p.value = NoValue THEN "ParameterArity"
     ELSE IF seen THEN "DuplicateParameter"
     ELSE "Ok"

\* no_value and parse_bits, by the parameter's name, and set_once.
Fault(params, i) ==
  LET p == params[i]
      seen == \E j \in 1..(i - 1) : params[j].name = p.name
  IN IF p.name = "unknown" THEN "UnknownParameter"
     ELSE IF p.name \in Flags /\ p.value # NoValue THEN "ParameterArity"
     ELSE IF p.name = "server_max_window_bits" /\ p.value = NoValue THEN "ParameterArity"
     ELSE IF p.name \in Windows /\ p.value \notin WireBits \cup {NoValue}
          THEN "InvalidWindowBits"
     ELSE IF seen THEN "DuplicateParameter"
     ELSE "Ok"

Has(params, name) == \E i \in DOMAIN params : params[i].name = name
Bits(params, name) ==
  IF Has(params, name)
  THEN params[CHOOSE i \in DOMAIN params : params[i].name = name].value
  ELSE Absent

\* The first parameter at fault decides the error.
parse_params(params) ==
  LET faults == {i \in DOMAIN params : Fault(params, i) # "Ok"}
      first == CHOOSE i \in faults : \A j \in faults : i <= j
  IN [error  |-> IF faults = {} THEN "Ok" ELSE Fault(params, first),
      params |->
        [server_no_context_takeover |-> Has(params, "server_no_context_takeover"),
         client_no_context_takeover |-> Has(params, "client_no_context_takeover"),
         server_max_window_bits     |-> Bits(params, "server_max_window_bits"),
         client_max_window_bits     |-> Bits(params, "client_max_window_bits")]]
=============================================================================
