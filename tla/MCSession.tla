----------------------------- MODULE MCSession ------------------------------
(***************************************************************************)
(* Two users, the first of them an admin, as server_init_db makes sure,    *)
(* and two descriptors.                                                    *)
(***************************************************************************)
EXTENDS Session

OneAdmin == [u \in Uids |-> IF u = "youmenu" THEN "admin" ELSE "menu"]
=============================================================================
