----------------------------- MODULE NativeQuic -----------------------------
(***************************************************************************)
(* The direct transport of native peers (native_quic.cpp): two endpoints,  *)
(* each with a worker thread that alone calls picoquic, the callbacks of   *)
(* the ICE agent's thread, and the application's threads, which read,      *)
(* write and close streams and shut the endpoint down.                     *)
(*                                                                         *)
(* picoquic and libjuice are external.  Between the two ends picoquic is   *)
(* reliable and keeps the order of a stream, until one end gives up; a     *)
(* packet that is lost, or that the agent does not take at once (it is     *)
(* kept in pendingSends), is one that is longer on its way.  A connection  *)
(* is made by the frames "hello", "reply" and "finish".                    *)
(***************************************************************************)
EXTENDS Naturals, Sequences, FiniteSets

CONSTANTS
    Id,             \* the streams, by number
    MaxWrite,       \* how many bytes a side writes to a stream, for each side
    ReadMax,        \* how many bytes a read asks for at most
    Chunk,          \* how many bytes the worker takes from a stream at a time; 64 KiB
    Faults          \* how often at most a path is lost, an endpoint fails or is shut down

ASSUME NativeQuicAssumption ==
    /\ Id \subseteq Nat /\ IsFiniteSet(Id) /\ Faults \in Nat
    /\ MaxWrite \in [{"client", "server"} -> Nat]
    /\ ReadMax \in Nat \ {0} /\ Chunk \in Nat \ {0}

Side == {"client", "server"}
Peer(s) == IF s = "client" THEN "server" ELSE "client"

VARIABLES
    worker,         \* where each worker is in run(); "gone" when it has ended
    todo,           \* the streams of the snapshot it goes through
    taken,          \* the chunk it has copied from the first of them: count and closeAfter
    conn,           \* it has a connection object
    iceConnected, established, failed, stopping,
    joining,        \* shutdown waits for the worker, or has destroyed picoquic and the agent
    opening,        \* openStreams of the client: connected() was asked, or the streams are made
    streams,        \* the streams each side has registered
    late,           \* those registered after the worker took its last snapshot
    rx, tx, localClosed, remoteClosed, finSent,
    reader,         \* the read call on each stream
    written, got, ended,    \* what the application wrote, read, and whether a read failed
    unsent,         \* frames picoquic will send
    net,            \* frames on the way to each side, those in its datagrams included
    faults          \* counts them

loopVars   == <<worker, todo, taken>>
connVars   == <<conn, established, failed, stopping, joining, opening>>
streamVars == <<streams, late, rx, tx, localClosed, remoteClosed, finSent>>
appVars    == <<reader, written, got, ended>>
netVars    == <<iceConnected, unsent, net, faults>>
vars == <<loopVars, connVars, streamVars, appVars, netVars>>

Hand(k) == [kind |-> k]
Nothing == [count |-> 0, fin |-> FALSE]
Each(v) == [s \in Side |-> v]
EachStream(v) == [s \in Side |-> [i \in Id |-> v]]

\* What is true of every state: the numbers of bytes on their way are those that were written.
TypeOK ==
    /\ worker \in [Side -> {"turn", "process", "pump", "added", "mark", "gone"}]
    /\ todo \in [Side -> SUBSET Id] /\ streams \in [Side -> SUBSET Id] /\ late \in [Side -> SUBSET Id]
    /\ {conn, iceConnected, established, failed, stopping} \subseteq [Side -> BOOLEAN]
    /\ joining \in [Side -> {"no", "joins", "destroyed"}] /\ opening \in {"no", "checked", "made"}
    /\ {localClosed, remoteClosed, finSent, ended} \subseteq [Side -> [Id -> BOOLEAN]]
    /\ \A s \in Side : late[s] \subseteq streams[s]
    /\ \A s \in Side, i \in Id :
          /\ Len(rx[s][i]) + Len(tx[s][i]) <= MaxWrite["client"] + MaxWrite["server"]
          /\ i \notin streams[s] => rx[s][i] = <<>> /\ tx[s][i] = <<>>
          /\ finSent[s][i] => localClosed[s][i] /\ tx[s][i] = <<>>

Init ==
    /\ worker = Each("turn") /\ todo = Each({}) /\ taken = Each(Nothing) /\ conn = Each(FALSE)
    /\ iceConnected = Each(FALSE) /\ established = Each(FALSE) /\ failed = Each(FALSE)
    /\ stopping = Each(FALSE) /\ joining = Each("no") /\ opening = "no"
    /\ streams = Each({}) /\ late = Each({})
    /\ rx = EachStream(<<>>) /\ tx = EachStream(<<>>)
    /\ localClosed = EachStream(FALSE) /\ remoteClosed = EachStream(FALSE) /\ finSent = EachStream(FALSE)
    /\ reader = EachStream([pc |-> "idle", want |-> 0])
    /\ written = EachStream(<<>>) /\ got = EachStream(<<>>) /\ ended = EachStream(FALSE)
    /\ unsent = Each(<<>>) /\ net = Each(<<>>) /\ faults = 0

SetS(f, s, v) == [f EXCEPT ![s] = v]
SetI(f, s, i, v) == [f EXCEPT ![s][i] = v]

\* Mutated: nobody is notified.
SleepsOn(s, i) == reader

\* cv.notify_all of a stream: a read that sleeps looks again.
Notified(s, i) ==
    IF reader[s][i].pc = "asleep" THEN [reader EXCEPT ![s][i].pc = "awake"] ELSE reader

\* ensure_stream: a worker that has ended will not look at a new stream any more.
Registered(s, i) ==
    /\ streams' = [streams EXCEPT ![s] = @ \cup {i}]
    /\ late' = IF i \notin streams[s] /\ worker[s] \in {"mark", "gone"}
                 THEN [late EXCEPT ![s] = @ \cup {i}] ELSE late

Fault == faults < Faults /\ faults' = faults + 1

(****************************** the ICE agent ******************************)

\* ice_state: a path was found, or went back to negotiation.
IceState(s, up) ==
    /\ joining[s] # "destroyed" /\ iceConnected[s] # up
    /\ IF up THEN UNCHANGED faults ELSE Fault
    /\ iceConnected' = SetS(iceConnected, s, up)
    /\ UNCHANGED <<loopVars, connVars, streamVars, appVars, unsent, net>>

\* ice_state: no path can be found.
IceFails(s) ==
    /\ joining[s] # "destroyed" /\ ~failed[s]
    /\ iceConnected' = SetS(iceConnected, s, FALSE) /\ failed' = SetS(failed, s, TRUE) /\ Fault
    /\ UNCHANGED <<loopVars, conn, established, stopping, joining, opening, streamVars, appVars, unsent, net>>

(******************************** the worker *******************************)

Goto(s, w) == worker' = SetS(worker, s, w)

\* What the worker does next: its streams one after the other, then "next".
Over(s, next, after) ==
    /\ todo' = [todo EXCEPT ![s] = streams[s]]
    /\ Goto(s, IF streams[s] = {} THEN after ELSE next)

\* From the end of one turn to the next: flush_quic, then the wait, of a second at most.  The path
\* may reject a packet, picoquic may close the connection for its idle timeout, or ICE may have
\* failed: then, or if it is told to stop, the worker ends.  The client makes its connection once
\* a path is there.
Turn(s) ==
    LET starts == iceConnected[s] /\ s = "client" /\ ~conn[s]
        kept   == IF iceConnected[s] THEN <<>> ELSE unsent[s]
    IN  /\ worker[s] = "turn"
        /\ \/ UNCHANGED <<failed, faults>>
           \/ ~stopping[s] /\ ~failed[s] /\ failed' = SetS(failed, s, TRUE) /\ Fault
        /\ net' = SetS(net, Peer(s), IF iceConnected[s] THEN net[Peer(s)] \o unsent[s] ELSE net[Peer(s)])
        /\ IF failed'[s] \/ stopping[s]
             THEN Over(s, "mark", "gone") /\ unsent' = SetS(unsent, s, kept) /\ UNCHANGED conn
             ELSE /\ Goto(s, "process") /\ UNCHANGED todo
                  /\ conn' = SetS(conn, s, conn[s] \/ starts)
                  /\ unsent' = SetS(unsent, s, IF starts THEN <<Hand("hello")>> ELSE kept)
        /\ UNCHANGED <<taken, established, stopping, joining, opening, streamVars, appVars, iceConnected>>

\* process_datagram and quic_event for a frame of the handshake.
Handshake(s) ==
    LET f == Head(net[s])
    IN  /\ worker[s] = "process" /\ net[s] # <<>> /\ f.kind # "data"
        /\ conn' = SetS(conn, s, TRUE)
        /\ established' = IF f.kind \in {"reply", "finish"} THEN SetS(established, s, TRUE) ELSE established
        /\ unsent' = CASE f.kind = "hello" -> [unsent EXCEPT ![s] = Append(@, Hand("reply"))]
                       [] f.kind = "reply" -> [unsent EXCEPT ![s] = Append(@, Hand("finish"))]
                       [] OTHER            -> unsent
        /\ net' = [net EXCEPT ![s] = Tail(@)]
        /\ UNCHANGED <<loopVars, failed, stopping, joining, opening, streamVars, appVars, iceConnected, faults>>

\* stream_data and stream_fin.  The server announces a stream that it did not know.  The branch
\* for stream_reset and stop_sending closes a stream that the peer resets; neither end of this
\* program calls picoquic_reset_stream or picoquic_stop_sending.
StreamData(s) ==
    LET f == Head(net[s])
    IN  /\ worker[s] = "process" /\ net[s] # <<>> /\ f.kind = "data"
        /\ Registered(s, f.id)
        /\ rx' = [rx EXCEPT ![s][f.id] = @ \o f.bytes]
        /\ remoteClosed' = IF f.fin THEN SetI(remoteClosed, s, f.id, TRUE) ELSE remoteClosed
        /\ reader' = Notified(s, f.id)
        /\ net' = [net EXCEPT ![s] = Tail(@)]
        /\ UNCHANGED <<loopVars, connVars, tx, localClosed, finSent, written, got, ended, iceConnected, unsent,
                       faults>>

Processed(s) ==
    /\ worker[s] = "process" /\ net[s] = <<>>
    /\ IF conn[s] /\ established[s]
         THEN Over(s, "pump", "turn")
         ELSE Goto(s, "turn") /\ UNCHANGED todo
    /\ UNCHANGED <<taken, connVars, streamVars, appVars, netVars>>

Least(S) == CHOOSE i \in S : \A j \in S : i <= j

\* One stream is done; the last one ends the stage.
Done(s, after) ==
    LET rest == todo[s] \ {Least(todo[s])}
    IN  todo' = SetS(todo, s, rest) /\ Goto(s, IF rest # {} THEN worker[s] ELSE after)

\* Mutated: the end is sent as soon as the stream is closed.
AtOnce(s, i, n) == localClosed[s][i] /\ ~finSent[s][i]
CloseAfter(s, i, n) == localClosed[s][i] /\ ~finSent[s][i] /\ n = Len(tx[s][i])

\* pump_streams copies a chunk of a stream under its lock and hands it to picoquic, or passes the
\* stream over ...
PumpAdd(s) ==
    LET i == Least(todo[s])
        n == IF Len(tx[s][i]) < Chunk THEN Len(tx[s][i]) ELSE Chunk
        fin == CloseAfter(s, i, n)
    IN  /\ worker[s] = "pump"
        /\ IF n = 0 /\ ~fin
             THEN Done(s, "turn") /\ UNCHANGED <<taken, unsent>>
             ELSE /\ unsent' = [unsent EXCEPT ![s] =
                         Append(@, [kind |-> "data", id |-> i, bytes |-> SubSeq(tx[s][i], 1, n), fin |-> fin])]
                  /\ taken' = SetS(taken, s, [count |-> n, fin |-> fin])
                  /\ Goto(s, "added") /\ UNCHANGED todo
        /\ UNCHANGED <<connVars, streamVars, appVars, iceConnected, net, faults>>

\* Mutated: the chunk stays; all that has been written goes with it.
Unpopped(s, i) == tx[s][i]
Emptied(s, i) == <<>>
Rest(s, i) == SubSeq(tx[s][i], taken[s].count + 1, Len(tx[s][i]))

\* ... and takes it from the stream under the lock again.
PumpPop(s) ==
    LET i == Least(todo[s])
    IN  /\ worker[s] = "added"
        /\ tx' = SetI(tx, s, i, Rest(s, i))
        /\ finSent' = IF taken[s].fin THEN SetI(finSent, s, i, TRUE) ELSE finSent
        /\ taken' = SetS(taken, s, Nothing)
        /\ todo' = [todo EXCEPT ![s] = @ \ {i}]
        /\ Goto(s, IF todo'[s] = {} THEN "turn" ELSE "pump")
        /\ UNCHANGED <<connVars, streams, late, rx, localClosed, remoteClosed, appVars,
                       netVars>>

\* The worker ends: every stream of its snapshot is closed for reading.
Mark(s) ==
    LET i == Least(todo[s])
    IN  /\ worker[s] = "mark"
        /\ remoteClosed' = SetI(remoteClosed, s, i, TRUE)
        /\ reader' = Notified(s, i)
        /\ Done(s, "gone")
        /\ UNCHANGED <<taken, connVars, streams, late, rx, tx, localClosed,
                       finSent, written, got, ended, netVars>>

Worker(s) == \/ Turn(s) \/ Handshake(s) \/ StreamData(s) \/ Processed(s)
             \/ PumpAdd(s) \/ PumpPop(s) \/ Mark(s)

(****************************** the application ****************************)

\* openStreams: connected() is asked under the lock ...
OpenCheck ==
    /\ opening = "no" /\ established["client"] /\ ~failed["client"]
    /\ opening' = "checked"
    /\ UNCHANGED <<loopVars, conn, established, failed, stopping, joining, streamVars, appVars, netVars>>

\* ... and make_streams registers the streams, one by one for each is an ensure_stream.
MakeStream(i) ==
    /\ opening = "checked" /\ i \notin streams["client"]
    /\ \A j \in Id : j < i => j \in streams["client"]
    /\ Registered("client", i)
    /\ opening' = IF streams'["client"] = Id THEN "made" ELSE opening
    /\ UNCHANGED <<loopVars, conn, established, failed, stopping, joining, rx, tx, localClosed, remoteClosed,
                   finSent, appVars, netVars>>

Has(s, i) == i \in streams[s] /\ (s = "client" => opening = "made")

\* Stream::write; the bytes of a side are numbered.
Write(s, i) ==
    /\ Has(s, i) /\ ~localClosed[s][i] /\ ~remoteClosed[s][i]
    /\ Len(written[s][i]) < MaxWrite[s]
    /\ LET b == Len(written[s][i]) + 1
       IN  /\ written' = [written EXCEPT ![s][i] = Append(@, b)]
           /\ tx' = [tx EXCEPT ![s][i] = Append(@, b)]
    /\ UNCHANGED <<loopVars, connVars, streams, late, rx, localClosed, remoteClosed, finSent, reader, got,
                   ended, netVars>>

\* Stream::close.
Close(s, i) ==
    /\ Has(s, i) /\ ~localClosed[s][i]
    /\ localClosed' = SetI(localClosed, s, i, TRUE)
    /\ reader' = Notified(s, i)
    /\ UNCHANGED <<loopVars, connVars, streams, late, rx, tx, remoteClosed, finSent, written, got, ended,
                   netVars>>

\* Stream::read is called ...
Read(s, i) ==
    /\ Has(s, i) /\ reader[s][i].pc = "idle" /\ ~ended[s][i]
    /\ \E n \in 1 .. ReadMax : reader' = SetI(reader, s, i, [pc |-> "awake", want |-> n])
    /\ UNCHANGED <<loopVars, connVars, streamVars, written, got, ended, netVars>>

\* ... and each time it is awake takes what there is; it returns when it has all it wants, or
\* fails at the end of the stream, or sleeps.
ReadOn(s, i) ==
    LET want == reader[s][i].want
        have == Len(rx[s][i])
        n == IF have < want THEN have ELSE want
        over == remoteClosed[s][i] \/ localClosed[s][i]
    IN  /\ reader[s][i].pc = "awake"
        /\ got' = [got EXCEPT ![s][i] = @ \o SubSeq(rx[s][i], 1, n)]
        /\ rx' = [rx EXCEPT ![s][i] = SubSeq(@, n + 1, have)]
        /\ reader' = CASE n = want         -> SetI(reader, s, i, [pc |-> "idle", want |-> 0])
                       [] n < want /\ over  -> SetI(reader, s, i, [pc |-> "idle", want |-> 0])
                       [] OTHER            -> SetI(reader, s, i, [pc |-> "asleep", want |-> want - n])
        /\ ended' = IF n < want /\ over THEN SetI(ended, s, i, TRUE) ELSE ended
        /\ UNCHANGED <<loopVars, connVars, streams, late, tx, localClosed, remoteClosed, finSent, written,
                       netVars>>

\* shutdown, by the endpoint's close or destructor: the worker is told ...
Shutdown(s) ==
    /\ ~stopping[s] /\ Fault
    /\ stopping' = SetS(stopping, s, TRUE)
    /\ failed' = SetS(failed, s, failed[s] \/ ~established[s])
    /\ joining' = SetS(joining, s, "joins")
    /\ UNCHANGED <<loopVars, conn, established, opening, streamVars, appVars, iceConnected, unsent, net>>

\* ... and joined; then the agent and picoquic are freed, with all they hold.
Destroy(s) ==
    /\ joining[s] = "joins" /\ worker[s] = "gone"
    /\ joining' = SetS(joining, s, "destroyed") /\ conn' = SetS(conn, s, FALSE)
    /\ unsent' = SetS(unsent, s, <<>>)
    /\ UNCHANGED <<loopVars, established, failed, stopping, opening, streamVars, appVars, iceConnected, net,
                   faults>>

App == \/ OpenCheck \/ (\E i \in Id : MakeStream(i))
       \/ \E s \in Side : Shutdown(s) \/ Destroy(s)
       \/ \E s \in Side, i \in Id : Write(s, i) \/ Close(s, i) \/ Read(s, i) \/ ReadOn(s, i)

Ice == \E s \in Side : IceFails(s) \/ (\E up \in BOOLEAN : IceState(s, up))

Next == App \/ Ice \/ \E s \in Side : Worker(s)

Spec == Init /\ [][Next]_vars

(***************************************************************************)
(* Fairness.  A worker takes turn after turn (its wait has a timeout) and  *)
(* handles what has come, a read that is awake goes on, and a join returns *)
(* once the worker is gone.                                                *)
(***************************************************************************)
FairSpec == /\ Spec
            /\ \A s \in Side : WF_vars(Worker(s)) /\ WF_vars(Destroy(s))
            /\ \A s \in Side, i \in Id : WF_vars(ReadOn(s, i))

(******************************** properties *******************************)

GivenUp(s) == failed[s] \/ stopping[s]

\* From each side to the other, every stream is a Pipe: bytes arrive in order, none is lost or
\* doubled, and a read fails only behind the last byte, or when one side gave the connection up
\* or the reader closed the stream itself.
Direction(s, i) == INSTANCE Pipe WITH
    sent <- written[s][i], got <- got[Peer(s)][i], closed <- localClosed[s][i],
    ended <- ended[Peer(s)][i],
    broken <- GivenUp("client") \/ GivenUp("server") \/ localClosed[Peer(s)][i]

Pipes == /\ \A s \in Side, i \in Id : Direction(s, i)!Init
         /\ [][\A s \in Side, i \in Id : [Direction(s, i)!Next]_(Direction(s, i)!pipe)]_vars

\* Once the worker has ended, no read waits for bytes that cannot come.  The streams made after
\* its last snapshot are the exception: nobody closes them.
ReadsEnd == \A s \in Side, i \in Id :
    worker[s] = "gone" /\ reader[s][i].pc # "idle" /\ i \notin late[s] ~> reader[s][i].pc = "idle"

\* Bytes that were written arrive at the other side, unless one of them gives up or the path is
\* lost.
Arrive == []<>(\/ \E s \in Side : GivenUp(s) \/ ~iceConnected[s]
               \/ \A s \in Side, i \in Id :
                     Len(written[s][i]) = Len(got[Peer(s)][i]) + Len(rx[Peer(s)][i]))
=============================================================================
