---------------------------- MODULE MCClientConn ----------------------------
(***************************************************************************)
(* A small instance of ClientConn: two connections, two calling threads.   *)
(***************************************************************************)
EXTENDS ClientConn
=============================================================================
