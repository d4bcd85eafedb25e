---------------------------- MODULE MCHandshake ----------------------------
(* Small instances of Handshake.  The widths are the two floors (8 on the   *)
(* wire, 9 for a compressor), one between, and the default.  The additions  *)
(* are what each check of a field is there to catch: a second copy of an    *)
(* offer and of a selection, a respelled one, a malformed element, a line   *)
(* that cannot be split, an empty position and another extension.           *)
EXTENDS Handshake

Configs(ofServer, ofClient) ==
  [server_no_context_takeover : BOOLEAN, client_no_context_takeover : BOOLEAN,
   server_max_window_bits : ofServer, client_max_window_bits : ofClient]

MCClientConfigs == Configs({8, 12, 15}, {9, 15})
MCServerConfigs == Configs({9, 15}, {8, 12, 15})

BareOffer     == render(FALSE, FALSE, Absent, Valueless)
BareSelection == render(FALSE, FALSE, Absent, Absent)

MCAdditions ==
  {Other, Blank, Malformed(Other), Unbalanced, BareOffer, BareSelection,
   [BareSelection EXCEPT !.form = "respelled"]}

\* Elements as a foreign peer may write them.
Foreign ==
  {Deflate(params, "respelled") : params \in
     {<<>>,
      <<Param("client_max_window_bits", NoValue)>>,
      <<Param("client_max_window_bits", 8)>>,
      <<Param("client_max_window_bits", 10)>>,
      <<Param("client_max_window_bits", 15), Param("server_max_window_bits", 9)>>,
      <<Param("server_max_window_bits", 8)>>,
      <<Param("server_max_window_bits", 12), Param("server_no_context_takeover", NoValue)>>,
      <<Param("client_no_context_takeover", NoValue), Param("client_max_window_bits", 12)>>,
      <<Param("server_max_window_bits", NoValue)>>,
      <<Param("server_max_window_bits", BadBits)>>,
      <<Param("server_no_context_takeover", 9)>>,
      <<Param("unknown", NoValue)>>,
      <<Param("client_no_context_takeover", NoValue), Param("client_no_context_takeover", NoValue)>>}}
    \cup {Other, Blank, Malformed(Other), Unbalanced}

MCForeign == {<<>>} \cup {<<e>> : e \in Foreign} \cup {<<e, f>> : e \in Foreign, f \in Foreign}
=============================================================================
