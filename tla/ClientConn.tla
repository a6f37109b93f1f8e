----------------------------- MODULE ClientConn -----------------------------
(***************************************************************************)
(* client/src/clients/client.cpp: a Client makes its connections one after *)
(* the other, each with a handshake, multiplexes the requests of many      *)
(* mount threads over them, each with a reader thread, and disconnects.  A *)
(* record carries the nonce counter of SecureChannel                       *)
(* (client/src/crypto/crypto.cpp), which the host opens only in the order  *)
(* it was counted.                                                         *)
(*                                                                         *)
(* The host end of a connection is the loop of Server::handleStream: one   *)
(* request after the other, the answer under the request's id; another of  *)
(* its threads sends OP_INVALIDATE over the same stream.  The stream keeps *)
(* order, holds a bounded number of records, and may break at any time.    *)
(***************************************************************************)
EXTENDS Integers, Sequences, FiniteSets

CONSTANTS
    Conn,           \* the connections, Client::conns_
    Caller,         \* mount and prefetch threads that call request
    Used,           \* the connections that are used and may break once they are made (bound)
    UpMax,          \* records a stream holds towards the host (send blocks on a full one)
    DownMax,        \* records a stream holds towards the client
    MaxCalls,       \* calls (bound)
    MaxNews         \* OP_INVALIDATE messages (bound)

NoOne == "no one"

ASSUME ClientConnAssumption ==
    UpMax \in Nat \ {0} /\ DownMax \in Nat \ {0} /\ MaxCalls \in Nat
    /\ MaxNews \in Nat /\ Used \subseteq Conn
    /\ IsFiniteSet(Conn) /\ Conn # {} /\ Conn \cap Caller = {} /\ NoOne \notin Caller

Id == 1 .. MaxCalls
Call == Conn \X Id

VARIABLES
    connected,      \* connected_
    owner,          \* the thread in connect or disconnect, and the connection it makes
    conns,          \* Client::conns_
    hand,           \* the message of the handshake that was sent last on a connection
    link,           \* is the stream of a connection usable
    alive,          \* Conn::alive
    nextId,         \* Conn::nextId
    pend,           \* Conn::pend: the ids registered
    answer,         \* the Pending of a call
    wmtx,           \* holder of Conn::wmtx
    tx,             \* SecureChannel::txCtr_ of the client's end
    up,             \* records on their way to the host
    rx,             \* SecureChannel::rxCtr_ of the host's end
    news,           \* how many OP_INVALIDATE were sent
    host,           \* the request the host's thread is running, 0 for none
    down,           \* records on their way to the client: the id answered, 0 for OP_INVALIDATE
    reader,         \* the reader threads
    caller,         \* the threads in request
    outcome,        \* history: how each call stands, as its caller sees it
    ran             \* history: the calls the host has run

netVars == <<link, tx, up, rx, host, news, down, ran>>
ownerVars == <<connected, owner, conns, hand>>
vars == <<ownerVars, alive, nextId, pend, answer, wmtx, reader, caller, outcome, netVars>>

SomeConn == CHOOSE c \in Conn : TRUE
Resting == [pc |-> "idle", c |-> SomeConn, id |-> 0, ctr |-> 0]
Waiting == [done |-> FALSE, status |-> "ok"]        \* as a Pending is constructed

TypeOK ==
    /\ connected \in BOOLEAN /\ conns \subseteq Conn
    /\ owner \in [pc : {"start", "dial", "greet", "greeted", "proven", "launch", "up", "fail", "closing",
                        "closed"}, c : Conn]
    /\ hand \in [Conn -> {"none", "hello", "challenge", "proof", "ok", "fail"}]
    /\ link \in [Conn -> BOOLEAN] /\ alive \in [Conn -> BOOLEAN]
    /\ nextId \in [Conn -> 1 .. MaxCalls + 1]
    /\ pend \in [Conn -> SUBSET Id]
    /\ answer \in [Call -> [done : BOOLEAN, status : {"ok", "eio"}]]
    /\ wmtx \in [Conn -> Caller \cup {NoOne}]
    /\ tx \in [Conn -> 0 .. MaxCalls] /\ rx \in [Conn -> 0 .. MaxCalls]
    /\ up \in [Conn -> Seq([ctr : 0 .. MaxCalls, id : Id])]
    /\ host \in [Conn -> 0 .. MaxCalls] /\ news \in 0 .. MaxNews
    /\ down \in [Conn -> Seq(0 .. MaxCalls)]
    /\ reader \in [Conn -> [pc : {"none", "check", "recv", "callback", "lookup", "deliver", "dead", "sweep",
                                  "gone"},
                            id : 0 .. MaxCalls]]
    /\ caller \in [Caller -> [pc : {"idle", "register", "lock", "seal", "write", "unsent", "wait",
                                    "answered", "late"},
                              c : Conn, id : 0 .. MaxCalls, ctr : 0 .. MaxCalls]]
    /\ outcome \in [Call -> {"none", "open", "ok", "eio"}]
    /\ ran \subseteq Call

Init ==
    /\ connected = FALSE /\ owner = [pc |-> "start", c |-> SomeConn] /\ conns = {}
    /\ hand = [c \in Conn |-> "none"]
    /\ link = [c \in Conn |-> FALSE] /\ alive = [c \in Conn |-> FALSE]
    /\ nextId = [c \in Conn |-> 1] /\ pend = [c \in Conn |-> {}]
    /\ answer = [k \in Call |-> Waiting]
    /\ wmtx = [c \in Conn |-> NoOne]
    /\ tx = [c \in Conn |-> 0] /\ rx = [c \in Conn |-> 0]
    /\ up = [c \in Conn |-> <<>>] /\ down = [c \in Conn |-> <<>>]
    /\ host = [c \in Conn |-> 0] /\ news = 0
    /\ reader = [c \in Conn |-> [pc |-> "none", id |-> 0]]
    /\ caller = [t \in Caller |-> Resting]
    /\ outcome = [k \in Call |-> "none"] /\ ran = {}

-----------------------------------------------------------------------------
(* Client::request.                                                        *)

At(t, pc) == caller[t].pc = pc
CallOf(t) == <<caller[t].c, caller[t].id>>
Goto(t, pc) == caller' = [caller EXCEPT ![t].pc = pc]
\* The call of t ends.
Ends(t, how) ==
    /\ caller' = [caller EXCEPT ![t] = Resting]
    /\ outcome' = [outcome EXCEPT ![CallOf(t)] = how]

\* Mutated: the id is not counted on, two calls get the same.
Reused(c) == nextId
Taken(c) == [nextId EXCEPT ![c] = @ + 1]

\* The round robin picks c, which is alive, and the call gets the next id of c.  (A request on
\* a connection that is not alive returns EIO at once and leaves no trace.)
Begin(t, c) ==
    /\ At(t, "idle") /\ connected /\ owner.pc = "up" /\ alive[c] /\ c \in Used
    /\ Cardinality({k \in Call : outcome[k] # "none"}) < MaxCalls
    /\ nextId' = Taken(c)
    /\ caller' = [caller EXCEPT ![t] = [pc |-> "register", c |-> c, id |-> nextId[c], ctr |-> 0]]
    /\ outcome' = [outcome EXCEPT ![<<c, nextId[c]>>] = "open"]
    /\ UNCHANGED <<ownerVars, alive, pend, answer, wmtx, reader, netVars>>

\* Under pmtx: the Pending is registered, unless the connection died meanwhile.
Register(t) ==
    /\ At(t, "register")
    /\ IF alive[caller[t].c]
       THEN /\ pend' = [pend EXCEPT ![caller[t].c] = @ \cup {caller[t].id}]
            /\ Goto(t, "lock")
            /\ UNCHANGED outcome
       ELSE Ends(t, "eio") /\ UNCHANGED pend
    /\ UNCHANGED <<ownerVars, alive, nextId, answer, wmtx, reader, netVars>>

\* Mutated: wmtx is not taken.
AlwaysFree(c) == TRUE
Free(c) == wmtx[c] = NoOne

LockWriter(t) ==
    /\ At(t, "lock") /\ Free(caller[t].c)
    /\ wmtx' = [wmtx EXCEPT ![caller[t].c] = t]
    /\ Goto(t, "seal")
    /\ UNCHANGED <<ownerVars, alive, nextId, pend, answer, reader, outcome, netVars>>

\* SecureChannel::send counts the record it is about to write.
Seal(t) ==
    /\ At(t, "seal")
    /\ tx' = [tx EXCEPT ![caller[t].c] = @ + 1]
    /\ caller' = [caller EXCEPT ![t].pc = "write", ![t].ctr = tx[caller[t].c]]
    /\ UNCHANGED <<ownerVars, alive, nextId, pend, answer, wmtx, reader, outcome, link, up, rx,
                   host, down, ran, news>>

\* ... and writes it: it blocks while the stream is full, and fails when it is broken.
Write(t) ==
    LET c == caller[t].c IN
    /\ At(t, "write")
    /\ \/ /\ link[c] /\ Len(up[c]) < UpMax
          /\ up' = [up EXCEPT ![c] = Append(@, [ctr |-> caller[t].ctr, id |-> caller[t].id])]
          /\ Goto(t, "wait")
       \/ /\ ~link[c]
          /\ Goto(t, "unsent")
          /\ UNCHANGED up
    /\ wmtx' = [wmtx EXCEPT ![c] = NoOne]
    /\ UNCHANGED <<ownerVars, alive, nextId, pend, answer, reader, outcome, link, tx, rx, host,
                   down, ran, news>>

Unregistered(t) == [pend EXCEPT ![caller[t].c] = @ \ {caller[t].id}]

Unsent(t) ==
    /\ At(t, "unsent")
    /\ pend' = Unregistered(t)
    /\ Ends(t, "eio")
    /\ UNCHANGED <<ownerVars, alive, nextId, answer, wmtx, reader, netVars>>

\* wait_for: the Pending is done ...
Woken(t) ==
    /\ At(t, "wait") /\ answer[CallOf(t)].done
    /\ Goto(t, "answered")
    /\ UNCHANGED <<ownerVars, alive, nextId, pend, answer, wmtx, reader, outcome, netVars>>

\* ... or ten seconds have passed.
Timeout(t) ==
    /\ At(t, "wait") /\ ~answer[CallOf(t)].done
    /\ Goto(t, "late")
    /\ UNCHANGED <<ownerVars, alive, nextId, pend, answer, wmtx, reader, outcome, netVars>>

\* Mutated: the status is read although nothing came; it still says success.
NeverLate(t) == FALSE
Late(t) == At(t, "late")

\* Under pmtx the Pending is unregistered; only a done one is looked at.
Finish(t) ==
    /\ At(t, "answered") \/ At(t, "late")
    /\ pend' = Unregistered(t)
    /\ Ends(t, IF Late(t) THEN "eio" ELSE answer[CallOf(t)].status)
    /\ UNCHANGED <<ownerVars, alive, nextId, answer, wmtx, reader, netVars>>

-----------------------------------------------------------------------------
(* Client::readerLoop.                                                     *)

Reads(c, pc) == reader[c].pc = pc
ReaderAt(c, pc) == reader' = [reader EXCEPT ![c].pc = pc]

\* The head of the loop.
CheckAlive(c) ==
    /\ Reads(c, "check")
    /\ ReaderAt(c, IF alive[c] THEN "recv" ELSE "dead")
    /\ UNCHANGED <<ownerVars, alive, nextId, pend, answer, wmtx, caller, outcome, netVars>>

Recv(c) ==
    /\ Reads(c, "recv") /\ down[c] # <<>>
    /\ reader' = [reader EXCEPT ![c] = [pc |-> IF Head(down[c]) = 0 THEN "callback" ELSE "lookup",
                                        id |-> Head(down[c])]]
    /\ down' = [down EXCEPT ![c] = Tail(@)]
    /\ UNCHANGED <<ownerVars, alive, nextId, pend, answer, wmtx, caller, outcome, link, tx, up, rx,
                   host, ran, news>>

\* OP_INVALIDATE: the callback of the cache has run (module BlockCache, Notified and on).
Callback(c) ==
    /\ Reads(c, "callback")
    /\ ReaderAt(c, "check")
    /\ UNCHANGED <<ownerVars, alive, nextId, pend, answer, wmtx, caller, outcome, netVars>>

\* Under pmtx: an id that is not registered, or no longer, is ignored.
Lookup(c) ==
    /\ Reads(c, "lookup")
    /\ ReaderAt(c, IF reader[c].id \in pend[c] THEN "deliver" ELSE "check")
    /\ UNCHANGED <<ownerVars, alive, nextId, pend, answer, wmtx, caller, outcome, netVars>>

\* Under the Pending's own mutex, which its caller may have given up by now.
Deliver(c) ==
    /\ Reads(c, "deliver")
    /\ answer' = [answer EXCEPT ![<<c, reader[c].id>>] = [done |-> TRUE, status |-> "ok"]]
    /\ ReaderAt(c, "check")
    /\ UNCHANGED <<ownerVars, alive, nextId, pend, wmtx, caller, outcome, netVars>>

\* A recv ends without a record: the stream is broken or closed, or brings one that is too large or
\* does not open, which leaves the stream as it is.
Lost(c) ==
    /\ Reads(c, "recv") /\ (~link[c] \/ down[c] # <<>>)
    /\ ReaderAt(c, "dead")
    /\ UNCHANGED <<ownerVars, alive, nextId, pend, answer, wmtx, caller, outcome, netVars>>

MarkDead(c) ==
    /\ Reads(c, "dead")
    /\ alive' = [alive EXCEPT ![c] = FALSE]
    /\ ReaderAt(c, "sweep")
    /\ UNCHANGED <<ownerVars, nextId, pend, answer, wmtx, caller, outcome, netVars>>

\* Mutated: the outstanding requests are left to their timeouts.
NotFailed(c) == answer
\* Every registered Pending is done with EIO, one that had been answered too.
Failed(c) == [k \in Call |-> IF k[1] = c /\ k[2] \in pend[c] THEN [done |-> TRUE, status |-> "eio"]
                             ELSE answer[k]]

Sweep(c) ==
    /\ Reads(c, "sweep")
    /\ answer' = Failed(c)
    /\ ReaderAt(c, "gone")
    /\ UNCHANGED <<ownerVars, alive, nextId, pend, wmtx, caller, outcome, netVars>>

-----------------------------------------------------------------------------
(* Client::connect and disconnect.                                         *)

OwnerGoes(pc) == owner' = [owner EXCEPT !.pc = pc]
Trying == owner.c
OwnerIdle == <<alive, nextId, pend, answer, wmtx, caller, outcome, tx, up, rx, host, news, down, ran>>

\* connect_socket: a stream is there within five seconds, or not.  A Client is used for one
\* session, so that the disconnect it begins with finds nothing.
Dial ==
    /\ owner.pc \in {"start", "dial"}
    /\ \E c \in Conn \ conns :
          \/ owner' = [pc |-> "greet", c |-> c] /\ link' = [link EXCEPT ![c] = TRUE]
          \/ owner' = [pc |-> "fail", c |-> c] /\ UNCHANGED link
    /\ UNCHANGED <<connected, conns, hand, reader, OwnerIdle>>

\* handshake: a message is sent and its answer is awaited, without a timeout.
Says(message, next) ==
    /\ IF link[Trying] THEN OwnerGoes(next) /\ hand' = [hand EXCEPT ![Trying] = message]
                       ELSE OwnerGoes("fail") /\ UNCHANGED hand
    /\ UNCHANGED <<connected, conns, link, alive, reader, OwnerIdle>>

SayHello == owner.pc = "greet" /\ Says("hello", "greeted")
Prove == owner.pc = "greeted" /\ hand[Trying] = "challenge" /\ Says("proof", "proven")

\* The connection is one of conns_; the last one is followed by the start of the readers.
Admitted ==
    /\ owner.pc = "proven" /\ hand[Trying] = "ok"
    /\ conns' = conns \cup {Trying}
    /\ alive' = [alive EXCEPT ![Trying] = TRUE]
    /\ connected' = (conns' = Conn)
    /\ OwnerGoes(IF conns' = Conn THEN "launch" ELSE "dial")
    /\ UNCHANGED <<hand, link, nextId, pend, answer, wmtx, reader, caller, outcome, tx, up, rx, host, down,
                   ran, news>>

Refused ==
    /\ owner.pc \in {"greeted", "proven"} 
    /\ hand[Trying] = "fail" \/ (~link[Trying] /\ hand[Trying] \in {"hello", "proof"})
    /\ OwnerGoes("fail")
    /\ UNCHANGED <<connected, conns, hand, link, reader, OwnerIdle>>

\* Mutated: the stream of the connection that failed stays open.
LeftOpen(c) == link
Closed(c) == [link EXCEPT ![c] = FALSE]

\* The connection that failed is closed, and then, with disconnect, those made before it.
Fail ==
    /\ owner.pc = "fail"
    /\ link' = Closed(Trying)
    /\ OwnerGoes("closing")
    /\ UNCHANGED <<connected, conns, hand, reader, OwnerIdle>>

Launch(c) ==
    /\ owner.pc = "launch" /\ reader[c].pc = "none"
    /\ reader' = [reader EXCEPT ![c].pc = "check"]
    /\ OwnerGoes(IF \A d \in Conn \ {c} : reader[d].pc # "none" THEN "up" ELSE "launch")
    /\ UNCHANGED <<connected, conns, hand, link, OwnerIdle>>

\* The owner has stopped the mount, so that no thread is in request any more.
Disconnect ==
    /\ owner.pc = "up" /\ \A t \in Caller : At(t, "idle")
    /\ connected' = FALSE /\ OwnerGoes("closing")
    /\ UNCHANGED <<conns, hand, link, reader, OwnerIdle>>

Joined(c) == reader[c].pc \in {"none", "gone"}

\* alive is cleared and the stream is closed, which unblocks the reader ...
CloseConn(c) ==
    /\ owner.pc = "closing" /\ c \in conns /\ (alive[c] \/ link[c])
    /\ alive' = [alive EXCEPT ![c] = FALSE]
    /\ link' = Closed(c)
    /\ UNCHANGED <<ownerVars, nextId, pend, answer, wmtx, reader, caller, outcome, tx, up, rx,
                   host, down, ran, news>>

\* ... which is joined before the connections are freed.
JoinReaders ==
    /\ owner.pc = "closing"
    /\ \A c \in conns : ~alive[c] /\ ~link[c] /\ Joined(c)
    /\ OwnerGoes("closed") /\ conns' = {}
    /\ UNCHANGED <<connected, hand, link, reader, OwnerIdle>>

\* connectStreams does the same over the streams of a NativeQuicEndpoint, which are open already.
OwnerStep ==
    \/ Dial \/ SayHello \/ Prove \/ Admitted \/ Refused \/ Fail \/ JoinReaders
    \/ \E c \in Conn : Launch(c) \/ CloseConn(c)

-----------------------------------------------------------------------------
(* The host and the network.                                               *)

\* Server::handshake: the host goes on with the next message, or sends AUTH_FAIL (and closes the
\* stream, a Break).
HostShakes(c) ==
    /\ link[c]
    /\ \E next \in CASE hand[c] = "hello" -> {"challenge", "fail"}
                         [] hand[c] = "proof" -> {"ok", "fail"}
                         [] OTHER             -> {} :
          hand' = [hand EXCEPT ![c] = next]
    /\ UNCHANGED <<connected, owner, conns, link, reader, OwnerIdle>>

Break(c) ==
    /\ link[c] /\ (c \in Used \/ hand[c] # "ok")
    /\ link' = [link EXCEPT ![c] = FALSE]
    /\ UNCHANGED <<ownerVars, alive, nextId, pend, answer, wmtx, reader, caller, outcome, tx, up,
                   rx, host, down, ran, news>>

\* The host receives a record; one out of order does not open and ends the session.
HostTakes(c) ==
    /\ host[c] = 0 /\ up[c] # <<>>
    /\ up' = [up EXCEPT ![c] = Tail(@)]
    /\ rx' = [rx EXCEPT ![c] = @ + 1]
    /\ IF Head(up[c]).ctr = rx[c]
       THEN host' = [host EXCEPT ![c] = Head(up[c]).id] /\ UNCHANGED link
       ELSE link' = [link EXCEPT ![c] = FALSE] /\ UNCHANGED host
    /\ UNCHANGED <<ownerVars, alive, nextId, pend, answer, wmtx, reader, caller, outcome, tx, down,
                   ran, news>>

\* It runs the request and answers it, if the stream still takes the answer.
HostAnswers(c) ==
    /\ host[c] # 0
    /\ ran' = ran \cup {<<c, host[c]>>}
    /\ host' = [host EXCEPT ![c] = 0]
    /\ \/ link[c] /\ Len(down[c]) < DownMax /\ down' = [down EXCEPT ![c] = Append(@, host[c])]
       \/ ~link[c] /\ UNCHANGED down
    /\ UNCHANGED <<ownerVars, alive, nextId, pend, answer, wmtx, reader, caller, outcome, link, tx,
                   up, rx, news>>

HostInvalidates(c) ==
    /\ c \in Used /\ news < MaxNews /\ news' = news + 1
    /\ link[c] /\ hand[c] = "ok" /\ Len(down[c]) < DownMax
    /\ down' = [down EXCEPT ![c] = Append(@, 0)]
    /\ UNCHANGED <<ownerVars, alive, nextId, pend, answer, wmtx, reader, caller, outcome, link, tx,
                   up, rx, host, ran>>

\* What was on its way is lost with the connection.
DropRecord(c) ==
    /\ ~link[c]
    /\ \/ down[c] # <<>> /\ down' = [down EXCEPT ![c] = <<>>] /\ UNCHANGED up
       \/ up[c] # <<>> /\ up' = [up EXCEPT ![c] = <<>>] /\ UNCHANGED down
    /\ UNCHANGED <<ownerVars, alive, nextId, pend, answer, wmtx, reader, caller, outcome, link, tx,
                   rx, host, ran, news>>

-----------------------------------------------------------------------------
CallerStep(t) ==
    \/ Register(t) \/ Seal(t) \/ Write(t) \/ Unsent(t) \/ Woken(t) \/ Finish(t)
ReaderStep(c) ==
    \/ CheckAlive(c) \/ Recv(c) \/ Callback(c) \/ Lookup(c) \/ Deliver(c) \/ Lost(c)
    \/ MarkDead(c) \/ Sweep(c)
HostStep(c) == HostShakes(c) \/ HostTakes(c) \/ HostAnswers(c)
Busy(c) == hand[c] \in {"hello", "proof"} \/ host[c] # 0 \/ up[c] # <<>>

Next ==
    \/ \E t \in Caller, c \in Conn : Begin(t, c)
    \/ \E t \in Caller : CallerStep(t) \/ LockWriter(t) \/ Timeout(t)
    \/ \E c \in Conn : ReaderStep(c) \/ Break(c)
    \/ \E c \in Conn : HostStep(c) \/ HostInvalidates(c) \/ DropRecord(c)
    \/ OwnerStep \/ Disconnect

Spec == Init /\ [][Next]_vars

\* Threads keep running and a mutex that is released again and again is got some time.  Of the
\* host and the network nothing is assumed: a property that needs more says so.
FairSpec ==
    /\ Spec
    /\ \A t \in Caller : WF_vars(CallerStep(t)) /\ SF_vars(LockWriter(t))
    /\ \A c \in Conn : WF_vars(ReaderStep(c))
    /\ WF_vars(OwnerStep)

\* The ten seconds of wait_for run out.
TimeoutsRunOut == \A t \in Caller : WF_vars(Timeout(t))

\* The host does not leave a request of a working stream alone for ever: it runs it or the
\* stream breaks.
HostLives == \A c \in Conn : WF_vars(HostStep(c) \/ (Break(c) /\ Busy(c)))

-----------------------------------------------------------------------------
(* What a Client promises.                                                 *)

\* The abstract calls of RemoteCall: every call ends once, with its own answer or EIO, and the
\* host runs it at most once.
Calls == INSTANCE RemoteCall WITH Call <- Call, outcome <- outcome, ran <- ran
Contract == Calls!Spec

\* connect is all or nothing: it leaves every connection ready, or no stream open and no reader
\* running, whichever connection failed; and so does disconnect.
AllOrNothing ==
    /\ owner.pc = "up" => conns = Conn
    /\ owner.pc = "closed" => \A c \in Conn : ~link[c] /\ Joined(c)

\* The records on a stream are in the order of their nonce counters, so the host opens each.
RecordsOpen == \A c \in Conn : \A i \in DOMAIN up[c] : up[c][i].ctr = rx[c] + i - 1

\* A call that waits is not missed by the end of its connection: it is registered, and the reader
\* that answers or fails what is registered has yet to end; and while the stream works, its request
\* or its answer is on the way.
UnderWay(c, i) ==
    \/ host[c] = i \/ \E j \in DOMAIN up[c] : up[c][j].id = i
    \/ \E j \in DOMAIN down[c] : down[c][j] = i
    \/ reader[c].pc \in {"lookup", "deliver"} /\ reader[c].id = i

NoCallIsMissed ==
    \A t \in Caller : At(t, "wait") /\ ~answer[CallOf(t)].done =>
        /\ caller[t].id \in pend[caller[t].c] /\ ~Joined(caller[t].c)
        /\ link[caller[t].c] => UnderWay(caller[t].c, caller[t].id)

\* While the host works or its streams break, every call returns, and no timeout is relied on,
\* and connect ends.  Whatever the host does, a call whose request is written returns, for its
\* wait ends in time, and disconnect returns, for it unblocks the readers it joins.
CallsReturn ==
    /\ HostLives => /\ \A t \in Caller : ~At(t, "idle") ~> At(t, "idle")
                    /\ <>(owner.pc \in {"up", "closed"})
    /\ TimeoutsRunOut => \A t \in Caller : At(t, "wait") ~> At(t, "idle")
    /\ owner.pc = "closing" ~> owner.pc = "closed"
=============================================================================
