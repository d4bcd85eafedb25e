----------------------------- MODULE MCEncoder -----------------------------
(* A small instance of Encoder: two octets, payloads of at most two octets, *)
(* references two octets back, and MaxCalls calls.                          *)
EXTENDS Encoder

CONSTANTS a, b

MCOctet   == {a, b}
MCPayload == {<<>>, <<a>>, <<b>>, <<a, b>>}
=============================================================================
