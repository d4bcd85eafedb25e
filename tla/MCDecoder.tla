----------------------------- MODULE MCDecoder -----------------------------
(* A small instance of Decoder.  The inputs are every unit alone and pairs  *)
(* that end a message whole, end a stream inside it, or follow a block with *)
(* its own trailer; the data units expand to one and to three octets, and   *)
(* refer one octet back, two (past the narrowest window), or not at all.    *)
EXTENDS Decoder

CONSTANTS a, b

MCOctet == {a, b, Junk}

MCUnits == {Data(<<a>>, 0), Data(<<b, b, a>>, 0), Data(<<a>>, 1), Data(<<b>>, 2),
            Hdr, Trl, FinHdr, FinBlk(<<b>>)}

MCInputs ==
  {<<>>} \cup {<<u>> : u \in MCUnits}
    \cup {<<u, v>> : u \in MCUnits, v \in {Hdr, FinHdr}}
    \cup {<<Hdr, Trl>>, <<Data(<<a>>, 0), Hdr, Trl>>, <<FinBlk(<<>>), Hdr>>}
=============================================================================
