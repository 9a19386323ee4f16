----------------------------- MODULE MCMemCache -----------------------------
(* Lines of 2 bytes.  One target has RAM at 0-3 and flash at 4-8, so that  *)
(* the line at 8 is only half mapped; the other has RAM at 0-1 and flash   *)
(* at 6-9.  The rest of 0..9 is peripheral space.  A request of 9 bytes is *)
(* served in two chunks, the second of which goes through the cache.       *)
EXTENDS MemCache

MCAddr    == 0..9
MCByte    == {0, 1}
MCHot     == {2, 8}
MCMaps    == {{0..3, 4..8}, {0..1, 6..9}}
MCLengths == {1, 2, 9}
=============================================================================
