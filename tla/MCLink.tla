------------------------------- MODULE MCLink -------------------------------
(* A small instance of Link: empty messages and ones of two octets, which a *)
(* later one may refer to; a window of two octets; ceilings for one octet   *)
(* and for two fragments.                                                   *)
EXTENDS Link

CONSTANTS o1, o2

MCOctet   == {o1, o2}
MCPayload == {<<>>, <<o2, o1>>}
=============================================================================
