-------------------------- MODULE MCServerSessions --------------------------
(* Instances of ServerSessions for TLC: two streams, one of them stalled. *)
EXTENDS ServerSessions

CONSTANTS s1, s2
=============================================================================
