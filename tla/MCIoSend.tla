------------------------------ MODULE MCIoSend ------------------------------
(***************************************************************************)
(* Two connections that can get the same descriptor, or two descriptors.   *)
(***************************************************************************)
EXTENDS IoSend
=============================================================================
