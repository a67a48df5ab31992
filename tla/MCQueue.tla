------------------------------ MODULE MCQueue ------------------------------
(***************************************************************************)
(* The queue for TLC: two or three getters, a few pushes.                  *)
(***************************************************************************)
EXTENDS Queue
=============================================================================
