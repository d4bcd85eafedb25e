------------------------------- MODULE Flate2 -------------------------------
(***************************************************************************)
(* The DEFLATE backend as the code sees it through flate2: an external      *)
(* library, modelled from the calls src/src/encoder.rs and                  *)
(* src/src/codec.rs make and from what their comments and tests record.     *)
(*                                                                         *)
(* Compressed octets are abstracted to UNITS, the runs of octets the code   *)
(* and the peer can tell apart:                                             *)
(*   data     a run that inflates to `text`.  With `dist` # 0 its first     *)
(*            octet is a back-reference that far into the history;          *)
(*   hdr      the octet that ends the block in progress, if any, and opens  *)
(*            an empty stored block (0x00 at a byte boundary);              *)
(*   trl      00 00 ff ff, the length and its complement of that block;     *)
(*   finblk   a whole block with BFINAL set: the DEFLATE stream ends in it; *)
(*   finhdr   a BFINAL block that only some of 00 00 ff ff completes;       *)
(*   tail     what 00 00 ff ff leaves over when its first octets end one.   *)
(* Histories are kept whole; a window bounds how far a reference reaches.   *)
(***************************************************************************)
EXTENDS Integers, Sequences

Data(text, dist) == [kind |-> "data", text |-> text, dist |-> dist]
FinBlk(text)     == [kind |-> "finblk", text |-> text, dist |-> 0]
Mark(kind)       == [kind |-> kind, text |-> <<>>, dist |-> 0]

Hdr    == Mark("hdr")
Trl    == Mark("trl")
FinHdr == Mark("finhdr")
Rest   == Mark("tail")

Units(Octet) ==
  [kind : {"data", "hdr", "trl", "finblk", "finhdr", "tail"},
   text : Seq(Octet), dist : Nat]

\* The octet `dist` positions back from the end of a history.
At(hist, dist) == hist[Len(hist) - dist + 1]

\* What a stored block nobody sent copies to the output.
Junk == "junk"

-----------------------------------------------------------------------------
(* Compress.  `hist` is what a reference may reach; `drained` says that the *)
(* last call was a sync flush and left nothing pending.                     *)

FreshCompress == [hist |-> <<>>, drained |-> FALSE]

Compressors(Octet) == [hist : Seq(Octet), drained : BOOLEAN]

\* Every unit a compressor may turn a payload into: with no reference, or one
\* to an equal octet as far back as its history and its window reach.
Encodings(c, payload, window) ==
  {Data(payload, d) : d \in
     {0} \cup {e \in 1..window : e <= Len(c.hist) /\ At(c.hist, e) = payload[1]}}

\* A payload fed, then flushed, which ends it in an empty stored block; a flush
\* that fills its room exactly is repeated, and the repeat adds a second one.
\* The backend refuses a redundant flush, so a drained compressor answers an
\* empty payload with nothing; others may too.
Flushed(c, payload, window) ==
  IF payload = <<>>
  THEN {<<>>} \cup (IF c.drained THEN {} ELSE {<<Hdr, Trl>>})
  ELSE UNION {{<<u, Hdr, Trl>>, <<u, Hdr, Trl, Hdr, Trl>>} :
                u \in Encodings(c, payload, window)}

\* What a backend that breaks its contract may return: the payload without the
\* block the flush owes it, or nothing at all.
Unflushed(c, payload, window) ==
  IF payload = <<>>
  THEN {<<Hdr>>}
  ELSE {<<>>} \cup {<<u>> : u \in Encodings(c, payload, window)}

Advanced(c, payload) == [hist |-> c.hist \o payload, drained |-> TRUE]

-----------------------------------------------------------------------------
(* Decompress.  `mode` is the position in the bit stream:                   *)
(*   start     at the start of a DEFLATE stream;                            *)
(*   boundary  between two blocks of a stream;                              *)
(*   open      after a data unit, which may or may not have ended its block;*)
(*   header    an empty stored block is open and lacks its length;          *)
(*   final     a BFINAL block lacks what 00 00 ff ff holds;                 *)
(*   lost      00 00 ff ff was taken for a stored block's header: LEN is    *)
(*             ff00, and one octet of its complement is outstanding;        *)
(*   done      the stream ended, and only starting over leaves this mode;   *)
(*   error     the stream is invalid.                                       *)

Modes ==
  {"start", "boundary", "open", "header", "final", "lost", "done", "error"}

FreshInflate == [mode |-> "start", hist |-> <<>>]

Inflaters(Octet) == [mode : Modes, hist : Seq(Octet)]

\* A block may begin here.
BlockMayBegin(inf) == inf.mode \in {"start", "boundary", "open"}

\* A reference finds something within the window, and what it then copies.
Reaches(inf, u, window) == u.dist <= window /\ u.dist <= Len(inf.hist)
Copied(inf, u) ==
  IF u.dist = 0 \/ u.text = <<>> THEN u.text
  ELSE <<At(inf.hist, u.dist)>> \o Tail(u.text)

\* One unit taken: the inflater afterwards, the text it yields, whether the
\* DEFLATE stream ended, and what is then left over of the unit.
Taken(mode, inf, text, ended, left) ==
  [inf |-> [mode |-> mode, hist |-> inf.hist \o text],
   text |-> text, ended |-> ended, left |-> left]
Moves(mode, inf, text)  == Taken(mode, inf, text, FALSE, <<>>)
Rejected(inf)           == Moves("error", inf, <<>>)

\* Everything an inflater may do with a unit.
Accept(inf, u, window) ==
  IF inf.mode = "lost" THEN {Rejected(inf), Moves("lost", inf, <<Junk>>)}
  ELSE CASE u.kind = "data" ->
              IF BlockMayBegin(inf) /\ Reaches(inf, u, window)
              THEN {Moves("open", inf, Copied(inf, u))}
              ELSE {Rejected(inf)}
         [] u.kind \in {"hdr", "finhdr"} ->
              IF BlockMayBegin(inf)
              THEN {Moves(IF u.kind = "hdr" THEN "header" ELSE "final", inf, <<>>)}
              ELSE {Rejected(inf)}
         [] u.kind = "finblk" ->
              IF BlockMayBegin(inf)
              THEN {Taken("done", inf, u.text, TRUE, <<>>)}
              ELSE {Rejected(inf)}
         [] u.kind \in {"trl", "tail"} ->
              CASE inf.mode = "header" /\ u.kind = "trl" ->
                     {Moves("boundary", inf, <<>>)}
                [] inf.mode = "final" /\ u.kind = "trl" ->
                     {Taken("done", inf, <<>>, TRUE, left) : left \in {<<>>, <<Rest>>}}
                [] inf.mode \in {"start", "boundary"} ->
                     {Moves("lost", inf, <<>>)}
                [] inf.mode = "open" ->
                     {Rejected(inf), Moves("lost", inf, <<>>)}
                [] OTHER -> {Rejected(inf)}
=============================================================================
