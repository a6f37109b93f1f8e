-------------------------------- MODULE Pipe --------------------------------
(***************************************************************************)
(* What a ByteStream (bytestream.h) promises for one direction: the bytes  *)
(* come out in the order in which they were put in, none is lost, doubled  *)
(* or made up, and the reader learns of the end only behind the last of    *)
(* them, unless the connection broke.                                      *)
(***************************************************************************)
EXTENDS Naturals, Sequences

VARIABLES
    sent,       \* the bytes that write accepted
    got,        \* those that read returned
    closed,     \* the writer's side is closed
    ended,      \* a read failed: no more bytes will come
    broken      \* one of the ends gave the connection up

pipe == <<sent, got, closed, ended, broken>>

\* s is the beginning of t.
Begins(s, t) == \E n \in 0 .. Len(t) : s = SubSeq(t, 1, n)

Init == sent = <<>> /\ got = <<>> /\ ~closed /\ ~ended /\ ~broken

Write == /\ ~closed
         /\ Len(sent') > Len(sent) /\ Begins(sent, sent')
         /\ UNCHANGED <<got, closed, ended, broken>>

Close == closed' /\ UNCHANGED <<sent, got, ended, broken>>

Read == /\ Begins(got, got') /\ Begins(got', sent)
        /\ ended \/ broken \/ (closed /\ got' = sent) \/ ~ended'
        /\ UNCHANGED <<sent, closed, broken>>

Break == broken' /\ UNCHANGED <<sent, got, closed, ended>>

Next == Write \/ Close \/ Read \/ Break

Spec == Init /\ [][Next]_pipe
=============================================================================
