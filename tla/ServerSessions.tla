--------------------------- MODULE ServerSessions ---------------------------
(***************************************************************************)
(* The sessions of the host, client/src/server/server.cpp: launchStream,   *)
(* the life of handleStream around its requests, the invalidation queue    *)
(* and the sender thread of each session, and stop.  (The count of clients *)
(* is in ClientCount.)                                                     *)
(*                                                                         *)
(* A session is served by two threads that share its stream: the handler,  *)
(* which reads requests and writes answers, and the sender, which writes   *)
(* OP_INVALIDATE.  The channel and the send mutex they use live in the     *)
(* handler's stack frame.  A client behind a stalled stream reads nothing: *)
(* a write to it blocks until the stream is closed.                        *)
(*                                                                         *)
(* Of a request only matters whether it changes a file; the broadcasts are *)
(* numbered.                                                               *)
(***************************************************************************)
EXTENDS Integers, Sequences, FiniteSets

CONSTANTS
    Stream,         \* streams that are accepted, by accept or by QUIC
    Stalled,        \* streams nobody reads at the other end
    QueueMax,       \* kMaxQueuedInvalidations
    MaxRequests     \* requests per stream (bound)

ASSUME ServerSessionsAssumption ==
    /\ Stalled \subseteq Stream /\ IsFiniteSet(Stream)
    /\ QueueMax \in Nat \ {0} /\ MaxRequests \in Nat

MaxNews == MaxRequests * Cardinality(Stream)

VARIABLES
    running,        \* running_
    stopper,        \* the thread in stop
    closing,        \* the streams it has still to close
    active,         \* activeStreams_
    connCount,      \* connCount_
    open,           \* is a stream open
    requests,       \* requests a stream's client has made
    handler,        \* the handler threads
    authed,         \* did the handshake of a stream succeed
    registered,     \* broadcastSessions_
    queue,          \* BroadcastSession::queue, numbers of broadcasts
    stopping,       \* BroadcastSession::stopping
    sender,         \* the sender threads
    carried,        \* the broadcast a sender has popped
    sendMutex,      \* who holds the send mutex of a stream
    news,           \* history: broadcasts so far
    since, heard    \* history: broadcasts when a session began, newest one sent to it

sessionVars == <<registered, queue, stopping, sender, carried, since, heard>>
stopVars == <<running, stopper, closing>>
vars == <<stopVars, active, connCount, open, requests, handler, authed, sessionVars,
          sendMutex, news>>

NoOne == "no one"

TypeOK ==
    /\ running \in BOOLEAN
    /\ stopper \in {"idle", "snapshot", "closing", "waiting", "done"}
    /\ closing \subseteq Stream /\ active \subseteq Stream
    /\ connCount \in 0 .. Cardinality(Stream)
    /\ open \in [Stream -> BOOLEAN]
    /\ requests \in [Stream -> 0 .. MaxRequests]
    /\ handler \in [Stream -> {"none", "unstarted", "refused", "handshake", "register", "recv",
                               "change", "reply", "send", "close", "unregister", "halt", "join",
                               "leave", "left"}]
    /\ authed \in [Stream -> BOOLEAN]
    /\ registered \subseteq Stream
    /\ queue \in [Stream -> Seq(Nat \ {0})] /\ \A s \in Stream : Len(queue[s]) <= QueueMax
    /\ stopping \in [Stream -> BOOLEAN]
    /\ sender \in [Stream -> {"none", "wait", "lock", "send", "gone"}]
    /\ carried \in [Stream -> Nat]
    /\ sendMutex \in [Stream -> {NoOne, "handler", "sender"}]
    /\ news \in Nat /\ since \in [Stream -> Nat] /\ heard \in [Stream -> Nat]

Init ==
    /\ running = TRUE /\ stopper = "idle" /\ closing = {}
    /\ active = {} /\ connCount = 0
    /\ open = [s \in Stream |-> TRUE] /\ requests = [s \in Stream |-> 0]
    /\ handler = [s \in Stream |-> "none"] /\ authed = [s \in Stream |-> FALSE]
    /\ registered = {} /\ queue = [s \in Stream |-> <<>>]
    /\ stopping = [s \in Stream |-> FALSE] /\ sender = [s \in Stream |-> "none"]
    /\ carried = [s \in Stream |-> 0] /\ sendMutex = [s \in Stream |-> NoOne]
    /\ news = 0 /\ since = [s \in Stream |-> 0] /\ heard = [s \in Stream |-> 0]

At(s, pc) == handler[s] = pc
Goto(s, pc) == handler' = [handler EXCEPT ![s] = pc]
\* A write to the stream of s can return: it is closed (and the write fails), or it is read.
Returns(s) == ~open[s] \/ s \notin Stalled

-----------------------------------------------------------------------------
(* A stream comes, or its client goes.                                     *)

\* Mutated: running_ is not looked at under connMtx_.
AlwaysAdmitted == TRUE
Admitted == running

Enrolled(s) == active \cup {s}

\* launchStream, under connMtx_; then the thread is started, or cannot be.
Launch(s) ==
    /\ At(s, "none")
    /\ IF Admitted
       THEN /\ active' = Enrolled(s) /\ connCount' = connCount + 1
            /\ \E pc \in {"handshake", "unstarted"} : Goto(s, pc)
            /\ UNCHANGED open
       ELSE /\ open' = [open EXCEPT ![s] = FALSE]
            /\ Goto(s, "refused")
            /\ UNCHANGED <<active, connCount>>
    /\ UNCHANGED <<stopVars, requests, authed, sessionVars, sendMutex, news>>

\* The catch clause of launchStream, under connMtx_.
Abandon(s) ==
    /\ At(s, "unstarted")
    /\ active' = active \ {s} /\ connCount' = connCount - 1
    /\ open' = [open EXCEPT ![s] = FALSE]
    /\ Goto(s, "left")
    /\ UNCHANGED <<stopVars, requests, authed, sessionVars, sendMutex, news>>

\* The client closes the stream, or the network breaks it.
Hangup(s) ==
    /\ open[s] /\ ~At(s, "none")
    /\ open' = [open EXCEPT ![s] = FALSE]
    /\ UNCHANGED <<stopVars, active, connCount, requests, handler, authed, sessionVars,
                   sendMutex, news>>

-----------------------------------------------------------------------------
(* handleStream.                                                           *)

Handshake(s) ==
    /\ At(s, "handshake")
    /\ \/ open[s] /\ authed' = [authed EXCEPT ![s] = TRUE] /\ Goto(s, "register")
       \/ Goto(s, "close") /\ UNCHANGED authed
    /\ UNCHANGED <<stopVars, active, connCount, open, requests, sessionVars,
                   sendMutex, news>>

\* registerSession: the sender starts, then the session joins the broadcasts.  (If its thread
\* cannot be started, the exception leaves the handler's thread, where nothing catches it, and ends
\* the program.)
Register(s) ==
    /\ At(s, "register")
    /\ sender' = [sender EXCEPT ![s] = "wait"]
    /\ registered' = registered \cup {s}
    /\ since' = [since EXCEPT ![s] = news]
    /\ Goto(s, "recv")
    /\ UNCHANGED <<stopVars, active, connCount, open, requests, authed, queue, stopping,
                   carried, heard, sendMutex, news>>

\* The next request: it changes a file, or is only to be answered.
Recv(s) ==
    /\ At(s, "recv") /\ open[s] /\ requests[s] < MaxRequests
    /\ requests' = [requests EXCEPT ![s] = @ + 1]
    /\ \E pc \in {"change", "reply"} : Goto(s, pc)
    /\ UNCHANGED <<stopVars, active, connCount, open, authed, sessionVars, sendMutex,
                   news>>

\* The stream is closed, or brought a frame the channel refuses.
RecvFails(s) ==
    /\ At(s, "recv")
    /\ Goto(s, "close")
    /\ UNCHANGED <<stopVars, active, connCount, open, requests, authed, sessionVars,
                   sendMutex, news>>

\* Mutated: a full queue refuses the new entry.
ShedNewest(q, n) == IF Len(q) >= QueueMax THEN q ELSE Append(q, n)
\* A full queue sheds its oldest entry.
Push(q, n) == Append(IF Len(q) >= QueueMax THEN Tail(q) ELSE q, n)

\* Mutated: the broadcast writes to every stream itself.
SendsItself == \A s \in registered : sendMutex[s] = NoOne
NeedsNothing == TRUE

\* broadcastInvalidate, under broadcastMtx_, to every session, the caller's included.
Broadcast(s) ==
    /\ At(s, "change") /\ NeedsNothing
    /\ news' = news + 1
    /\ queue' = [x \in Stream |-> IF x \in registered /\ ~stopping[x]
                                  THEN Push(queue[x], news + 1) ELSE queue[x]]
    /\ Goto(s, "reply")
    /\ UNCHANGED <<stopVars, active, connCount, open, requests, authed, registered, stopping,
                   sender, carried, since, heard, sendMutex>>

LockReply(s) ==
    /\ At(s, "reply") /\ sendMutex[s] = NoOne
    /\ sendMutex' = [sendMutex EXCEPT ![s] = "handler"]
    /\ Goto(s, "send")
    /\ UNCHANGED <<stopVars, active, connCount, open, requests, authed, sessionVars,
                   news>>

SendReply(s) ==
    /\ At(s, "send") /\ Returns(s)
    /\ sendMutex' = [sendMutex EXCEPT ![s] = NoOne]
    /\ Goto(s, IF open[s] THEN "recv" ELSE "close")
    /\ UNCHANGED <<stopVars, active, connCount, open, requests, authed, sessionVars,
                   news>>

Shut(s) == [open EXCEPT ![s] = FALSE]

CloseStream(s) ==
    /\ At(s, "close")
    /\ open' = Shut(s)
    /\ Goto(s, "unregister")
    /\ UNCHANGED <<stopVars, active, connCount, requests, authed, sessionVars,
                   sendMutex, news>>

\* unregisterSession: out of the broadcasts, ...
Unregister(s) ==
    /\ At(s, "unregister")
    /\ registered' = registered \ {s}
    /\ Goto(s, IF authed[s] THEN "halt" ELSE "leave")
    /\ UNCHANGED <<stopVars, active, connCount, open, requests, authed, queue, stopping,
                   sender, carried, since, heard, sendMutex, news>>

\* ... the sender is told to stop, ...
HaltSender(s) ==
    /\ At(s, "halt")
    /\ stopping' = [stopping EXCEPT ![s] = TRUE]
    /\ Goto(s, "join")
    /\ UNCHANGED <<stopVars, active, connCount, open, requests, authed, registered,
                   queue, sender, carried, since, heard, sendMutex, news>>

Joined(s) == sender[s] = "gone"

\* ... and is joined; the BroadcastSession goes, with what is still queued.
JoinSender(s) ==
    /\ At(s, "join") /\ Joined(s)
    /\ queue' = [queue EXCEPT ![s] = <<>>]
    /\ Goto(s, "leave")
    /\ UNCHANGED <<stopVars, active, connCount, open, requests, authed, registered, stopping,
                   sender, carried, since, heard, sendMutex, news>>

\* Under connMtx_; stop is woken by the last one.
Leave(s) ==
    /\ At(s, "leave")
    /\ active' = active \ {s} /\ connCount' = connCount - 1
    /\ Goto(s, "left")
    /\ UNCHANGED <<stopVars, open, requests, authed, sessionVars, sendMutex, news>>

-----------------------------------------------------------------------------
(* The sender thread of a session.                                         *)

SenderPops(s) ==
    /\ sender[s] = "wait" /\ ~stopping[s] /\ queue[s] # <<>>
    /\ carried' = [carried EXCEPT ![s] = Head(queue[s])]
    /\ queue' = [queue EXCEPT ![s] = Tail(@)]
    /\ sender' = [sender EXCEPT ![s] = "lock"]
    /\ UNCHANGED <<stopVars, active, connCount, open, requests, handler, authed,
                   registered, stopping, since, heard, sendMutex, news>>

SenderLocks(s) ==
    /\ sender[s] = "lock" /\ sendMutex[s] = NoOne
    /\ sendMutex' = [sendMutex EXCEPT ![s] = "sender"]
    /\ sender' = [sender EXCEPT ![s] = "send"]
    /\ UNCHANGED <<stopVars, active, connCount, open, requests, handler, authed,
                   registered, queue, stopping, carried, since, heard, news>>

SenderSends(s) ==
    /\ sender[s] = "send" /\ Returns(s)
    /\ heard' = IF open[s] THEN [heard EXCEPT ![s] = carried[s]] ELSE heard
    /\ sendMutex' = [sendMutex EXCEPT ![s] = NoOne]
    /\ carried' = [carried EXCEPT ![s] = 0]
    /\ sender' = [sender EXCEPT ![s] = "wait"]
    /\ UNCHANGED <<stopVars, active, connCount, open, requests, handler, authed,
                   registered, queue, stopping, since, news>>

SenderEnds(s) ==
    /\ sender[s] = "wait" /\ stopping[s]
    /\ sender' = [sender EXCEPT ![s] = "gone"]
    /\ UNCHANGED <<stopVars, active, connCount, open, requests, handler, authed,
                   registered, queue, stopping, carried, since, heard, sendMutex, news>>

-----------------------------------------------------------------------------
(* stop.                                                                   *)

\* running_ is exchanged, the listening socket closed.
StopBegins ==
    /\ stopper = "idle" /\ running
    /\ running' = FALSE /\ stopper' = "snapshot"
    /\ UNCHANGED <<closing, active, connCount, open, requests, handler, authed,
                   sessionVars, sendMutex, news>>

\* Under connMtx_.
Snapshot ==
    /\ stopper = "snapshot"
    /\ closing' = active /\ stopper' = "closing"
    /\ UNCHANGED <<running, active, connCount, open, requests, handler, authed,
                   sessionVars, sendMutex, news>>

CloseNext(s) ==
    /\ stopper = "closing" /\ s \in closing
    /\ closing' = closing \ {s}
    /\ open' = [open EXCEPT ![s] = FALSE]
    /\ UNCHANGED <<running, stopper, active, connCount, requests, handler, authed,
                   sessionVars, sendMutex, news>>

\* The accept thread is joined (its socket is closed) ...
AllClosed ==
    /\ stopper = "closing" /\ closing = {}
    /\ stopper' = "waiting"
    /\ UNCHANGED <<running, closing, active, connCount, open, requests, handler, authed,
                   sessionVars, sendMutex, news>>

\* ... and the last handler has left.
StopEnds ==
    /\ stopper = "waiting" /\ connCount = 0
    /\ stopper' = "done"
    /\ UNCHANGED <<running, closing, active, connCount, open, requests, handler, authed,
                   sessionVars, sendMutex, news>>

-----------------------------------------------------------------------------
HandlerStep(s) ==
    \/ Abandon(s) \/ Handshake(s) \/ Register(s) \/ Broadcast(s) \/ LockReply(s)
    \/ SendReply(s) \/ CloseStream(s) \/ Unregister(s) \/ HaltSender(s) \/ JoinSender(s)
    \/ Leave(s)
SenderStep(s) == SenderPops(s) \/ SenderLocks(s) \/ SenderSends(s) \/ SenderEnds(s)
StopStep == Snapshot \/ (\E s \in Stream : CloseNext(s)) \/ AllClosed \/ StopEnds

Next ==
    \/ \E s \in Stream : Launch(s) \/ Hangup(s) \/ Recv(s) \/ RecvFails(s)
    \/ \E s \in Stream : HandlerStep(s) \/ SenderStep(s)
    \/ StopBegins \/ StopStep

Spec == Init /\ [][Next]_vars

\* The handshake waits for the client's messages without a timeout; it ends by itself only once the
\* stream is closed.
OwnStep(s) == HandlerStep(s) /\ (At(s, "handshake") => ~open[s])

\* Threads run, and get a mutex that stays free (the two threads of a session contend for its
\* send mutex, and the requests are bounded).  No client need send anything, close anything or
\* read anything; nobody need stop the host.
Fairness ==
    /\ \A s \in Stream : WF_vars(OwnStep(s)) /\ WF_vars(~open[s] /\ RecvFails(s))
    /\ \A s \in Stream : WF_vars(SenderStep(s))
    /\ WF_vars(StopStep)

FairSpec == Spec /\ Fairness

-----------------------------------------------------------------------------
(* What must hold.                                                         *)

\* A sender thread uses the channel, the send mutex and the stream of its handler's frame: it
\* is gone before that frame is (unregisterSession joins it).  stop returns only when no handler
\* is left that could touch the Server, whatever was being accepted when it began (launchStream
\* looks at running_ under connMtx_).
NoDangling ==
    /\ \A s \in Stream : sender[s] \notin {"none", "gone"} => ~At(s, "left")
    /\ stopper = "done" => \A s \in Stream : handler[s] \in {"none", "refused", "left"}

\* The newest broadcast on its way to the client of s, or received there.
Newest(s) ==
    IF queue[s] # <<>> THEN queue[s][Len(queue[s])]
    ELSE IF carried[s] # 0 THEN carried[s] ELSE heard[s]

\* However many broadcasts a full queue sheds, the newest since a session began stays in its queue,
\* or is with its sender, or was sent, as long as the stream is open: what is shed has been
\* overtaken (broadcastInvalidate).
NewestKept == \A s \in registered : open[s] /\ since[s] < news => Newest(s) = news

\* A session somebody reads is sent the newest invalidation, or a newer one, however full its
\* queue gets and whatever happens to the streams of the others.
NewestHeard ==
    \A s \in Stream \ Stalled : \A n \in 1 .. MaxNews :
        (s \in registered /\ since[s] < n /\ news >= n) ~> (heard[s] >= n \/ ~open[s])

\* "one stalled client socket can never block request handling": the handler of a stream
\* somebody reads answers what it has received.
Isolation ==
    \A s \in Stream \ Stalled :
        (handler[s] \in {"change", "reply", "send"}) ~> (At(s, "recv") \/ At(s, "close"))

\* A session that fails is taken down, also when its sender is stuck in a write (handleStream
\* closes the stream before it joins the sender); so stop returns, even with clients that neither
\* send nor read.
SessionsEnd ==
    /\ \A s \in Stream : At(s, "close") ~> At(s, "left")
    /\ stopper # "idle" ~> stopper = "done"

\* A client that neither sends nor reads holds up nobody: not the handler of another, not the end of
\* its own session, not stop (handleStream, registerSession and stop in server.cpp).
NobodyBlocked == Isolation /\ SessionsEnd
=============================================================================
