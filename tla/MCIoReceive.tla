----------------------------- MODULE MCIoReceive ----------------------------
(***************************************************************************)
(* Bodies of no, one and two bytes, two of which look like a header or a   *)
(* part of one, and one that is larger than max_capacity.  Blocks of up to *)
(* four bytes cut every frame in every place; the third frame arrives in a *)
(* buffer that has been expanded and has wrapped.                          *)
(***************************************************************************)
EXTENDS IoReceive

MCBodies == {<< >>, <<9>>, <<9, 0>>, <<7, 7, 7, 7, 7>>}
=============================================================================
