---------------------------- MODULE MCConnection ----------------------------
(***************************************************************************)
(* Two connections for one descriptor, with a key each.                    *)
(***************************************************************************)
EXTENDS Connection

KeyOfEach == [c \in Conns |-> IF c = 1 THEN {"k1"} ELSE {"k2"}]
=============================================================================
