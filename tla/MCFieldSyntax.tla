--------------------------- MODULE MCFieldSyntax ---------------------------
(* Instances of FieldSyntax: the delimiters alone, the parameters, and an   *)
(* offer in a field a host writes to.                                       *)
EXTENDS FieldSyntax

NoTerms == {}

Delimiters == {"dquote", "backslash", "comma", "semicolon", "equals", "blank"}

\* Everything up to the bound, and what may follow a parameter's `=`.
SyntaxAlphabet == Delimiters \cup {"word"}
SyntaxStarts   == {<<>>, <<<<>>>>, <<<<"word", "semicolon", "word", "equals">>>>}

\* Every parameter, and the digits that make the widths, their neighbours and
\* numbers that would be widths modulo 256.
ParamAlphabet == Delimiters \cup Flags \cup Windows
                   \cup {NAME, "word", "0", "1", "2", "4", "5", "6", "8"}
Bits(more) == <<<<NAME, "semicolon", "server_max_window_bits", "equals">> \o more>>
ParamStarts ==
  {<<<<NAME>>>>, Bits(<<>>), Bits(<<"dquote">>), <<<<NAME, "semicolon", "client_max_window_bits">>>>}

\* The symbols that change an offer, or that end it and begin something else,
\* and offers that are a prefix of others.
SealAlphabet == {"dquote", "comma", "semicolon", "equals", "blank", NAME, "8",
                 "client_no_context_takeover"}
SealStarts   == {<<>>, <<<<"word">>>>}
SealTerms ==
  {[server_no_context_takeover |-> FALSE, client_no_context_takeover |-> nct,
    server_max_window_bits |-> server, client_max_window_bits |-> client] :
     nct \in BOOLEAN, server \in {Abstract!Absent, 15},
     client \in {Abstract!Absent, Abstract!Valueless, 8}}
=============================================================================
