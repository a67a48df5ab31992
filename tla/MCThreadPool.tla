---------------------------- MODULE MCThreadPool ----------------------------
(***************************************************************************)
(* Two threads, and two workers, each registered once at any time: one     *)
(* is waited for by its caller, the other is freed by its caller when seen *)
(* idle.                                                                   *)
(***************************************************************************)
EXTENDS ThreadPool
=============================================================================
