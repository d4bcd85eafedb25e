---------------------------- MODULE MCSyncFlush ----------------------------
(* Small instances of SyncFlush, with lengths around every edge of room_for *)
(* and of a stored block.                                                   *)
EXTENDS SyncFlush

MCLengths == 0..11
=============================================================================
