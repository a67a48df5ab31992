---------------------------- MODULE MCRingBuffer ----------------------------
(***************************************************************************)
(* The ring buffer for TLC: two byte values, a memory of two cells, blocks *)
(* and reads of up to four bytes, expansion up to five cells.              *)
(***************************************************************************)
EXTENDS RingBuffer
=============================================================================
