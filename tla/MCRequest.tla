----------------------------- MODULE MCRequest ------------------------------
(***************************************************************************)
(* Two callers with categories of their own, as the client's functions     *)
(* have, and three requests between them, so that one caller can time out  *)
(* twice and then meet both late answers.                                  *)
(***************************************************************************)
EXTENDS Request

OwnCategory == [c \in Callers |-> c]
=============================================================================
