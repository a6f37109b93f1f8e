------------------------ MODULE ServerSessionsProofs ------------------------
(***************************************************************************)
(* The sessions of the host, for every number of streams, stalled or not,  *)
(* requests and queue entries: no thread uses what its owner has left, and *)
(* the shedding queue of a session never loses the newest broadcast.       *)
(***************************************************************************)
EXTENDS ServerSessions, FiniteSetTheorems, TLAPS

-----------------------------------------------------------------------------
(* The inductive invariant.                                                *)

\* TypeOK, but for the bound of connCount.
Types ==
    /\ running \in BOOLEAN
    /\ stopper \in {"idle", "snapshot", "closing", "waiting", "done"}
    /\ closing \subseteq Stream /\ active \subseteq Stream /\ connCount \in Nat
    /\ open \in [Stream -> BOOLEAN]
    /\ requests \in [Stream -> 0 .. MaxRequests]
    /\ handler \in [Stream -> {"none", "unstarted", "refused", "handshake", "register", "recv",
                               "change", "reply", "send", "close", "unregister", "halt", "join",
                               "leave", "left"}]
    /\ authed \in [Stream -> BOOLEAN]
    /\ registered \subseteq Stream
    /\ queue \in [Stream -> Seq(Nat \ {0})] /\ \A s \in Stream : Len(queue[s]) <= QueueMax
    /\ stopping \in [Stream -> BOOLEAN]
    /\ sender \in [Stream -> {"none", "wait", "lock", "send", "gone"}]
    /\ carried \in [Stream -> Nat]
    /\ sendMutex \in [Stream -> {NoOne, "handler", "sender"}]
    /\ news \in Nat /\ since \in [Stream -> Nat] /\ heard \in [Stream -> Nat]

\* activeStreams_ and connCount_ agree: a stream is in both from its launch until its handler
\* has left.
Counted ==
    /\ active = {s \in Stream : handler[s] \notin {"none", "refused", "left"}}
    /\ connCount = Cardinality(active)

\* Once stop has seen nobody, nobody is admitted any more.
Ended == (stopper = "idle" <=> running) /\ (stopper = "done" => active = {})

\* A sender lives from registerSession until it is joined.
Paired ==
    \A s \in Stream :
        /\ handler[s] \in {"none", "unstarted", "refused", "handshake"} => ~authed[s]
        /\ handler[s] = "register" => authed[s]
        /\ sender[s] # "none" => authed[s] /\ handler[s] # "register"
        /\ sender[s] \notin {"none", "gone"} =>
               handler[s] \in {"recv", "change", "reply", "send", "close", "unregister", "halt",
                               "join"}

\* A session is among the broadcasts while nobody has told its sender to stop.
Listed ==
    \A s \in Stream :
        /\ stopping[s] => handler[s] \in {"join", "leave", "left"}
        /\ s \in registered =>
               handler[s] \in {"recv", "change", "reply", "send", "close", "unregister"}
        /\ sender[s] \in {"lock", "send"} => carried[s] # 0
        /\ since[s] <= news

SessionInv == Types /\ Counted /\ Ended /\ Paired /\ Listed /\ NewestKept

LEMMA SessionInit == Init => SessionInv
<1> SUFFICES ASSUME Init PROVE SessionInv
    OBVIOUS
<1>1. active = {} /\ connCount = 0 /\ Cardinality({}) = 0
    BY FS_EmptySet DEF Init
<1>2. <<>> \in Seq(Nat \ {0}) /\ Len(<<>>) <= QueueMax
    BY ServerSessionsAssumption
<1>3. queue \in [Stream -> Seq(Nat \ {0})] /\ \A s \in Stream : Len(queue[s]) <= QueueMax
    BY <1>2 DEF Init
<1>4. Types
    BY <1>1, <1>3, ServerSessionsAssumption DEF Init, Types
<1>5. Counted /\ Ended
    BY <1>1 DEF Init, Counted, Ended
<1>6. Paired /\ Listed /\ NewestKept
    BY DEF Init, Paired, Listed, NewestKept
<1> QED
    BY <1>4, <1>5, <1>6 DEF SessionInv

\* A stream enters activeStreams_ and leaves it once: connCount_ follows.
LEMMA CountFollows ==
    ASSUME Types, Counted, NEW s \in Stream
    PROVE  /\ s \notin active => Cardinality(active \cup {s}) = connCount + 1
           /\ s \in active => Cardinality(active \ {s}) = connCount - 1 /\ connCount - 1 \in Nat
<1>1. IsFiniteSet(active)
    BY ServerSessionsAssumption, FS_Subset DEF Types
<1>2. Cardinality(active \ {s}) \in Nat
    BY <1>1, FS_RemoveElement, FS_CardinalityType
<1>3. s \notin active => Cardinality(active \cup {s}) = connCount + 1
    BY <1>1, FS_AddElement DEF Counted
<1>4. s \in active => Cardinality(active \ {s}) = connCount - 1
    BY <1>1, FS_RemoveElement DEF Counted
<1> QED
    BY <1>2, <1>3, <1>4

\* launchStream, and the two ways out of activeStreams_.
LEMMA EnrolmentKeepsInv ==
    ASSUME SessionInv, NEW s \in Stream, Launch(s) \/ Abandon(s) \/ Leave(s)
    PROVE  SessionInv'
<1> USE DEF SessionInv, At, Goto, stopVars, sessionVars
<1>1. CASE Launch(s) /\ Admitted
    <2>1. PICK pc \in {"handshake", "unstarted"} : handler' = [handler EXCEPT ![s] = pc]
        BY <1>1 DEF Launch
    <2>2. s \notin active /\ active' = active \cup {s} /\ connCount' = connCount + 1
        BY <1>1 DEF Launch, Enrolled, Types, Counted
    <2>3. Types'
        BY <1>1, <2>1, <2>2 DEF Launch, Types
    <2>4. Ended'
        BY <1>1 DEF Launch, Admitted, Types, Ended
    <2>5. active' = {x \in Stream : handler'[x] \notin {"none", "refused", "left"}}
        BY <2>1, <2>2 DEF Types, Counted
    <2>6. Counted'
        BY <2>2, <2>5, CountFollows DEF Counted
    <2>7. Paired'
        BY <1>1, <2>1 DEF Launch, Types, Paired
    <2>8. Listed'
        BY <1>1, <2>1 DEF Launch, Types, Listed
    <2>9. NewestKept'
        BY <1>1 DEF Launch, Types, NewestKept, Newest
    <2> QED
        BY <2>3, <2>4, <2>6, <2>7, <2>8, <2>9
<1>2. CASE Launch(s) /\ ~Admitted
    <2>1. Types'
        BY <1>2 DEF Launch, Types
    <2>2. Ended' /\ Counted'
        BY <1>2 DEF Launch, Types, Ended, Counted
    <2>3. Paired'
        <3>1. handler' = [handler EXCEPT ![s] = "refused"] /\ handler[s] = "none"
              /\ authed' = authed /\ sender' = sender
            BY <1>2 DEF Launch
        <3> QED
            BY <3>1 DEF Types, Paired
    <2>4. Listed'
        BY <1>2 DEF Launch, Types, Listed
    <2>5. NewestKept'
        BY <1>2 DEF Launch, Types, NewestKept, Newest
    <2> QED
        BY <2>1, <2>2, <2>3, <2>4, <2>5
<1>3. CASE Abandon(s) \/ Leave(s)
    <2>1. /\ handler[s] \in {"unstarted", "leave"}
          /\ handler' = [handler EXCEPT ![s] = "left"]
          /\ open' \in {open, [open EXCEPT ![s] = FALSE]}
          /\ UNCHANGED <<stopVars, requests, authed, sessionVars, sendMutex, news>>
        BY <1>3 DEF Abandon, Leave
    <2>2. s \in active /\ active' = active \ {s} /\ connCount' = connCount - 1
        BY <1>3 DEF Abandon, Leave, Types, Counted
    <2>3. Types'
        BY <2>1, <2>2, CountFollows DEF Types
    <2>4. Ended'
        BY <2>1, <2>2 DEF Ended
    <2>5. active' = {x \in Stream : handler'[x] \notin {"none", "refused", "left"}}
        BY <2>1, <2>2 DEF Types, Counted
    <2>6. Counted'
        BY <2>2, <2>5, CountFollows DEF Counted
    <2>7. Paired' /\ Listed'
        BY <2>1 DEF Types, Paired, Listed
    <2>8. NewestKept'
        BY <2>1 DEF Types, NewestKept, Newest
    <2> QED
        BY <2>3, <2>4, <2>6, <2>7, <2>8
<1> QED
    BY <1>1, <1>2, <1>3

\* The handler of a stream: handshake, requests and answers, and the loss of the stream.
LEMMA HandlerKeepsInv ==
    ASSUME SessionInv, NEW s \in Stream,
           Hangup(s) \/ Handshake(s) \/ Recv(s) \/ RecvFails(s) \/ LockReply(s) \/ SendReply(s) \/ CloseStream(s)
    PROVE  SessionInv'
<1> USE DEF SessionInv, At, Goto, stopVars, sessionVars
<1>1. CASE Hangup(s)
    <2>1. Types'
        BY <1>1 DEF Hangup, Types
    <2>2. Ended' /\ Counted'
        BY <1>1 DEF Hangup, Types, Ended, Counted
    <2>3. Paired'
        BY <1>1 DEF Hangup, Types, Paired
    <2>4. Listed'
        BY <1>1 DEF Hangup, Types, Listed, Paired
    <2>5. NewestKept'
        BY <1>1 DEF Hangup, Types, NewestKept, Newest, Listed
    <2> QED
        BY <2>1, <2>2, <2>3, <2>4, <2>5
<1>2. CASE Handshake(s)
    <2>1. Types'
        BY <1>2 DEF Handshake, Types
    <2>2. Ended' /\ Counted'
        BY <1>2 DEF Handshake, Types, Ended, Counted
    <2>3. Paired'
        <3>1. handler[s] = "handshake" /\ sender[s] = "none" /\ sender' = sender
            BY <1>2 DEF Handshake, Types, Paired
        <3>2. \/ handler' = [handler EXCEPT ![s] = "register"] /\ authed' = [authed EXCEPT ![s] = TRUE]
              \/ handler' = [handler EXCEPT ![s] = "close"] /\ authed' = authed
            BY <1>2 DEF Handshake
        <3>3. \A x \in Stream \ {s} : handler'[x] = handler[x] /\ authed'[x] = authed[x]
            BY <3>2 DEF Types
        <3>4. \/ handler'[s] = "register" /\ authed'[s]
              \/ handler'[s] = "close"
            BY <3>2 DEF Types
        <3> QED
            BY <3>1, <3>3, <3>4 DEF Paired
    <2>4. Listed'
        BY <1>2 DEF Handshake, Types, Listed, Paired
    <2>5. NewestKept'
        BY <1>2 DEF Handshake, Types, NewestKept, Newest, Listed
    <2> QED
        BY <2>1, <2>2, <2>3, <2>4, <2>5
<1>3. CASE Recv(s)
    <2>1. Types'
        BY <1>3, ServerSessionsAssumption DEF Recv, Types
    <2>2. Ended' /\ Counted'
        BY <1>3 DEF Recv, Types, Ended, Counted
    <2>3. Paired'
        BY <1>3 DEF Recv, Types, Paired
    <2>4. Listed'
        BY <1>3 DEF Recv, Types, Listed, Paired
    <2>5. NewestKept'
        BY <1>3 DEF Recv, Types, NewestKept, Newest, Listed
    <2> QED
        BY <2>1, <2>2, <2>3, <2>4, <2>5
<1>4. CASE RecvFails(s)
    <2>1. Types'
        BY <1>4 DEF RecvFails, Types
    <2>2. Ended' /\ Counted'
        BY <1>4 DEF RecvFails, Types, Ended, Counted
    <2>3. Paired'
        BY <1>4 DEF RecvFails, Types, Paired
    <2>4. Listed'
        BY <1>4 DEF RecvFails, Types, Listed, Paired
    <2>5. NewestKept'
        BY <1>4 DEF RecvFails, Types, NewestKept, Newest, Listed
    <2> QED
        BY <2>1, <2>2, <2>3, <2>4, <2>5
<1>5. CASE LockReply(s)
    <2>1. Types'
        BY <1>5 DEF LockReply, Types
    <2>2. Ended' /\ Counted'
        BY <1>5 DEF LockReply, Types, Ended, Counted
    <2>3. Paired'
        BY <1>5 DEF LockReply, Types, Paired
    <2>4. Listed'
        BY <1>5 DEF LockReply, Types, Listed, Paired
    <2>5. NewestKept'
        BY <1>5 DEF LockReply, Types, NewestKept, Newest, Listed
    <2> QED
        BY <2>1, <2>2, <2>3, <2>4, <2>5
<1>6. CASE SendReply(s)
    <2>1. Types'
        BY <1>6 DEF SendReply, Types
    <2>2. Ended' /\ Counted'
        BY <1>6 DEF SendReply, Types, Ended, Counted
    <2>3. Paired'
        BY <1>6 DEF SendReply, Types, Paired
    <2>4. Listed'
        BY <1>6 DEF SendReply, Types, Listed, Paired
    <2>5. NewestKept'
        BY <1>6 DEF SendReply, Types, NewestKept, Newest, Listed
    <2> QED
        BY <2>1, <2>2, <2>3, <2>4, <2>5
<1>7. CASE CloseStream(s)
    <2>1. Types'
        BY <1>7 DEF CloseStream, Types, Shut
    <2>2. Ended' /\ Counted'
        BY <1>7 DEF CloseStream, Types, Ended, Counted
    <2>3. Paired'
        BY <1>7 DEF CloseStream, Types, Paired
    <2>4. Listed'
        BY <1>7 DEF CloseStream, Types, Listed, Paired
    <2>5. NewestKept'
        BY <1>7 DEF CloseStream, Types, NewestKept, Newest, Listed, Shut
    <2> QED
        BY <2>1, <2>2, <2>3, <2>4, <2>5
<1> QED
    BY <1>1, <1>2, <1>3, <1>4, <1>5, <1>6, <1>7

\* registerSession, and unregisterSession in its steps.
LEMMA RegistrationKeepsInv ==
    ASSUME SessionInv, NEW s \in Stream,
           Register(s) \/ Unregister(s) \/ HaltSender(s) \/ JoinSender(s)
    PROVE  SessionInv'
<1> USE DEF SessionInv, At, Goto, stopVars, sessionVars
<1>0. <<>> \in Seq(Nat \ {0}) /\ Len(<<>>) <= QueueMax
    BY ServerSessionsAssumption
<1>1. CASE Register(s)
    <2>1. Types'
        BY <1>1 DEF Register, Types
    <2>2. Ended' /\ Counted'
        BY <1>1 DEF Register, Types, Ended, Counted
    <2>3. Paired'
        BY <1>1 DEF Register, Types, Paired
    <2>4. Listed'
        BY <1>1 DEF Register, Types, Listed, Paired
    <2>5. NewestKept'
        BY <1>1 DEF Register, Types, NewestKept, Newest, Listed
    <2> QED
        BY <2>1, <2>2, <2>3, <2>4, <2>5
<1>2. CASE Unregister(s)
    <2>1. Types'
        BY <1>2 DEF Unregister, Types
    <2>2. Ended' /\ Counted'
        BY <1>2 DEF Unregister, Types, Ended, Counted
    <2>3. Paired'
        BY <1>2 DEF Unregister, Types, Paired
    <2>4. Listed'
        BY <1>2 DEF Unregister, Types, Listed, Paired
    <2>5. NewestKept'
        BY <1>2 DEF Unregister, Types, NewestKept, Newest, Listed
    <2> QED
        BY <2>1, <2>2, <2>3, <2>4, <2>5
<1>3. CASE HaltSender(s)
    <2>1. Types'
        BY <1>3 DEF HaltSender, Types
    <2>2. Ended' /\ Counted'
        BY <1>3 DEF HaltSender, Types, Ended, Counted
    <2>3. Paired'
        BY <1>3 DEF HaltSender, Types, Paired
    <2>4. Listed'
        BY <1>3 DEF HaltSender, Types, Listed, Paired
    <2>5. NewestKept'
        BY <1>3 DEF HaltSender, Types, NewestKept, Newest, Listed
    <2> QED
        BY <2>1, <2>2, <2>3, <2>4, <2>5
<1>4. CASE JoinSender(s)
    <2>1. Types'
        BY <1>4, <1>0 DEF JoinSender, Types
    <2>2. Ended' /\ Counted'
        BY <1>4 DEF JoinSender, Types, Ended, Counted
    <2>3. Paired'
        BY <1>4 DEF JoinSender, Types, Paired, Joined
    <2>4. Listed'
        BY <1>4 DEF JoinSender, Types, Listed, Paired
    <2>5. NewestKept'
        BY <1>4 DEF JoinSender, Types, NewestKept, Newest, Listed
    <2> QED
        BY <2>1, <2>2, <2>3, <2>4, <2>5
<1> QED
    BY <1>1, <1>2, <1>3, <1>4

\* The shedding queue keeps its bound, and what is pushed is its last entry.
LEMMA PushKeepsNewest ==
    ASSUME NEW q \in Seq(Nat \ {0}), Len(q) <= QueueMax, NEW n \in Nat \ {0}
    PROVE  /\ Push(q, n) \in Seq(Nat \ {0}) /\ Len(Push(q, n)) <= QueueMax
           /\ Push(q, n) # <<>> /\ Push(q, n)[Len(Push(q, n))] = n
<1> DEFINE kept == IF Len(q) >= QueueMax THEN Tail(q) ELSE q
<1>1. kept \in Seq(Nat \ {0}) /\ Len(kept) <= QueueMax - 1
    <2>1. CASE Len(q) >= QueueMax
        <3>1. q # <<>> /\ Len(q) = QueueMax
            BY <2>1, ServerSessionsAssumption
        <3>2. Tail(q) \in Seq(Nat \ {0}) /\ Len(Tail(q)) = Len(q) - 1
            BY <3>1
        <3> QED
            BY <2>1, <3>1, <3>2
    <2>2. CASE ~(Len(q) >= QueueMax)
        BY <2>2, ServerSessionsAssumption
    <2> QED
        BY <2>1, <2>2
<1>2. Push(q, n) = Append(kept, n)
    BY DEF Push
<1> HIDE DEF kept
<1>3. /\ Append(kept, n) \in Seq(Nat \ {0}) /\ Len(Append(kept, n)) = Len(kept) + 1
      /\ Append(kept, n)[Len(kept) + 1] = n
    BY <1>1
<1>4. Append(kept, n) # <<>>
    BY <1>1, <1>3
<1> QED
    BY <1>1, <1>2, <1>3, <1>4, ServerSessionsAssumption

\* What is popped leaves the last entry, unless it is the last.
LEMMA PopKeepsNewest ==
    ASSUME NEW q \in Seq(Nat \ {0}), q # <<>>
    PROVE  /\ Head(q) \in Nat \ {0} /\ Tail(q) \in Seq(Nat \ {0}) /\ Len(Tail(q)) = Len(q) - 1
           /\ Len(q) = 1 => Head(q) = q[Len(q)]
           /\ Len(q) > 1 => Tail(q)[Len(Tail(q))] = q[Len(q)]
           /\ Tail(q) = <<>> <=> Len(q) = 1
<1>1. Len(q) \in Nat /\ Len(q) >= 1 /\ Head(q) = q[1] /\ q[1] \in Nat \ {0}
    OBVIOUS
<1>2. Tail(q) \in Seq(Nat \ {0}) /\ Len(Tail(q)) = Len(q) - 1
    OBVIOUS
<1>3. Len(q) > 1 => Tail(q)[Len(q) - 1] = q[Len(q)]
    BY <1>1
<1>4. Tail(q) = <<>> <=> Len(q) = 1
    BY <1>1, <1>2
<1> QED
    BY <1>1, <1>2, <1>3, <1>4

\* broadcastInvalidate: every session that is listed has the newest entry.
LEMMA BroadcastKeepsInv ==
    ASSUME SessionInv, NEW s \in Stream, Broadcast(s)
    PROVE  SessionInv'
<1> USE DEF SessionInv, At, Goto, stopVars
<1>1. /\ handler[s] = "change" /\ handler' = [handler EXCEPT ![s] = "reply"]
      /\ news' = news + 1 /\ news \in Nat
      /\ UNCHANGED <<stopVars, active, connCount, open, requests, authed, registered, stopping,
                     sender, carried, since, heard, sendMutex>>
    BY DEF Broadcast, Types
<1>2. queue' = [x \in Stream |-> IF x \in registered /\ ~stopping[x]
                                 THEN Push(queue[x], news + 1) ELSE queue[x]]
    BY DEF Broadcast
<1>3. \A x \in Stream : queue[x] \in Seq(Nat \ {0}) /\ Len(queue[x]) <= QueueMax
    BY DEF Types
<1>4. \A x \in Stream : queue'[x] \in Seq(Nat \ {0}) /\ Len(queue'[x]) <= QueueMax
    BY <1>1, <1>2, <1>3, PushKeepsNewest
<1>5. Types'
    <2>1. queue' \in [Stream -> Seq(Nat \ {0})]
        <3>1. queue' = [x \in Stream |-> queue'[x]]
            BY <1>2
        <3> QED
            BY <1>4, <3>1
    <2>2. UNCHANGED <<running, stopper, closing>>
        BY <1>1
    <2>3. handler' \in [Stream -> {"none", "unstarted", "refused", "handshake", "register", "recv",
                                   "change", "reply", "send", "close", "unregister", "halt", "join",
                                   "leave", "left"}]
        BY <1>1 DEF Types
    <2> HIDE DEF SessionInv
    <2>4. Types
        BY DEF SessionInv
    <2> QED
        BY <1>1, <1>4, <2>1, <2>2, <2>3, <2>4 DEF Types
<1>6. Ended' /\ Counted'
    BY <1>1 DEF Types, Ended, Counted
<1>7. Paired'
    BY <1>1 DEF Types, Paired
<1>8. Listed'
    BY <1>1 DEF Types, Listed
<1>9. NewestKept'
    <2>1. \A x \in registered : queue'[x] # <<>> /\ queue'[x][Len(queue'[x])] = news + 1
        <3>1. \A x \in registered : x \in Stream /\ ~stopping[x]
            BY DEF Types, Listed
        <3> QED
            BY <1>1, <1>2, <1>3, <3>1, PushKeepsNewest
    <2> QED
        BY <1>1, <2>1 DEF NewestKept, Newest
<1> QED
    BY <1>5, <1>6, <1>7, <1>8, <1>9

\* The sender: what it takes from the queue it carries, and what it has sent was carried.
LEMMA SenderKeepsInv ==
    ASSUME SessionInv, NEW s \in Stream, SenderStep(s)
    PROVE  SessionInv'
<1> USE DEF SessionInv, stopVars
<1>1. CASE SenderPops(s)
    <2>1. /\ sender[s] = "wait" /\ sender' = [sender EXCEPT ![s] = "lock"]
          /\ UNCHANGED <<stopVars, active, connCount, open, requests, handler, authed,
                         registered, stopping, since, heard, sendMutex, news>>
        BY <1>1 DEF SenderPops
    <2>2. /\ queue[s] # <<>> /\ queue[s] \in Seq(Nat \ {0}) /\ Len(queue[s]) <= QueueMax
          /\ carried' = [carried EXCEPT ![s] = Head(queue[s])]
          /\ queue' = [queue EXCEPT ![s] = Tail(queue[s])]
        BY <1>1 DEF SenderPops, Types
    <2>3. /\ Head(queue[s]) \in Nat \ {0} /\ Tail(queue[s]) \in Seq(Nat \ {0})
          /\ Len(Tail(queue[s])) = Len(queue[s]) - 1
          /\ Len(queue[s]) = 1 => Head(queue[s]) = queue[s][Len(queue[s])]
          /\ Len(queue[s]) > 1 => Tail(queue[s])[Len(Tail(queue[s]))] = queue[s][Len(queue[s])]
          /\ Tail(queue[s]) = <<>> <=> Len(queue[s]) = 1
        BY <2>2, PopKeepsNewest
    <2>4. Types'
        <3>1. \A x \in Stream : queue'[x] \in Seq(Nat \ {0}) /\ Len(queue'[x]) <= QueueMax
            BY <2>2, <2>3, ServerSessionsAssumption DEF Types
        <3>2. queue' \in [Stream -> Seq(Nat \ {0})] /\ carried' \in [Stream -> Nat]
            BY <2>2, <2>3 DEF Types
        <3> QED
            BY <2>1, <3>1, <3>2 DEF Types
    <2>5. Ended' /\ Counted'
        BY <2>1 DEF Ended, Counted
    <2>6. Paired'
        BY <2>1 DEF Types, Paired
    <2>7. Listed'
        BY <2>1, <2>2, <2>3 DEF Types, Listed
    <2>8. NewestKept'
        <3>1. Newest(s)' = Newest(s)
            BY <2>1, <2>2, <2>3 DEF Types, Newest
        <3>2. \A x \in Stream \ {s} : Newest(x)' = Newest(x)
            BY <2>1, <2>2 DEF Types, Newest
        <3> QED
            BY <2>1, <3>1, <3>2 DEF Types, NewestKept
    <2> QED
        BY <2>4, <2>5, <2>6, <2>7, <2>8
<1>2. CASE SenderLocks(s)
    <2>1. Types'
        BY <1>2 DEF SenderLocks, Types
    <2>2. Ended' /\ Counted'
        BY <1>2 DEF SenderLocks, Ended, Counted
    <2>3. Paired'
        BY <1>2 DEF SenderLocks, Types, Paired
    <2>4. Listed'
        BY <1>2 DEF SenderLocks, Types, Listed
    <2>5. NewestKept'
        BY <1>2 DEF SenderLocks, Types, NewestKept, Newest
    <2> QED
        BY <2>1, <2>2, <2>3, <2>4, <2>5
<1>3. CASE SenderSends(s)
    <2>1. /\ sender[s] = "send" /\ sender' = [sender EXCEPT ![s] = "wait"]
          /\ carried[s] # 0 /\ carried' = [carried EXCEPT ![s] = 0]
          /\ UNCHANGED <<stopVars, active, connCount, open, requests, handler, authed,
                         registered, queue, stopping, since, news>>
        BY <1>3 DEF SenderSends, Listed
    <2>2. /\ open[s] => heard' = [heard EXCEPT ![s] = carried[s]]
          /\ ~open[s] => heard' = heard
        BY <1>3 DEF SenderSends
    <2>3. Types'
        <3>1. heard' \in [Stream -> Nat]
            <4>1. carried[s] \in Nat /\ heard \in [Stream -> Nat]
                BY DEF Types
            <4> QED
                BY <2>2, <4>1
        <3>2. sendMutex' = [sendMutex EXCEPT ![s] = NoOne]
            BY <1>3 DEF SenderSends
        <3> QED
            BY <2>1, <3>1, <3>2 DEF Types
    <2>4. Ended' /\ Counted'
        BY <2>1 DEF Ended, Counted
    <2>5. Paired'
        BY <2>1 DEF Types, Paired
    <2>6. Listed'
        BY <2>1 DEF Types, Listed
    <2>7. NewestKept'
        <3>1. open[s] => Newest(s)' = Newest(s)
            BY <2>1, <2>2 DEF Types, Newest
        <3>2. \A x \in Stream \ {s} : Newest(x)' = Newest(x)
            BY <2>1, <2>2 DEF Types, Newest
        <3> QED
            BY <2>1, <3>1, <3>2 DEF Types, NewestKept
    <2> QED
        BY <2>3, <2>4, <2>5, <2>6, <2>7
<1>4. CASE SenderEnds(s)
    <2>1. Types'
        BY <1>4 DEF SenderEnds, Types
    <2>2. Ended' /\ Counted'
        BY <1>4 DEF SenderEnds, Ended, Counted
    <2>3. Paired'
        BY <1>4 DEF SenderEnds, Types, Paired
    <2>4. Listed'
        BY <1>4 DEF SenderEnds, Types, Listed
    <2>5. NewestKept'
        BY <1>4 DEF SenderEnds, Types, NewestKept, Newest
    <2> QED
        BY <2>1, <2>2, <2>3, <2>4, <2>5
<1> QED
    BY <1>1, <1>2, <1>3, <1>4 DEF SenderStep

\* stop.
LEMMA StopKeepsInv ==
    ASSUME SessionInv, StopBegins \/ StopStep
    PROVE  SessionInv'
<1> USE DEF SessionInv, sessionVars
<1>1. UNCHANGED <<active, connCount, requests, handler, authed, sessionVars, sendMutex, news>>
    BY DEF StopBegins, StopStep, Snapshot, CloseNext, AllClosed, StopEnds
<1>2. /\ open' \in [Stream -> BOOLEAN] /\ \A s \in Stream : open'[s] => open[s]
    BY DEF StopBegins, StopStep, Snapshot, CloseNext, AllClosed, StopEnds, Types
<1>3. /\ running' \in BOOLEAN /\ closing' \subseteq Stream
      /\ stopper' \in {"idle", "snapshot", "closing", "waiting", "done"}
    BY DEF StopBegins, StopStep, Snapshot, CloseNext, AllClosed, StopEnds, Types
<1>4. Types'
    BY <1>1, <1>2, <1>3 DEF Types
<1>5. Counted' /\ Paired' /\ Listed'
    BY <1>1 DEF Counted, Paired, Listed
<1>6. Ended'
    <2>1. connCount = 0 => active = {}
        BY ServerSessionsAssumption, FS_Subset, FS_EmptySet DEF Types, Counted
    <2> QED
        BY <1>1, <2>1 DEF StopBegins, StopStep, Snapshot, CloseNext, AllClosed, StopEnds, Ended
<1>7. NewestKept'
    BY <1>1, <1>2 DEF Types, NewestKept, Newest
<1> QED
    BY <1>4, <1>5, <1>6, <1>7

LEMMA SessionNext == SessionInv /\ [Next]_vars => SessionInv'
<1> SUFFICES ASSUME SessionInv, [Next]_vars
             PROVE  SessionInv'
    OBVIOUS
<1>1. CASE UNCHANGED vars
    BY <1>1 DEF vars, stopVars, sessionVars, SessionInv, Types, Counted, Ended, Paired, Listed,
                NewestKept, Newest
<1>2. CASE StopBegins \/ StopStep
    BY <1>2, StopKeepsInv
<1>3. ASSUME NEW s \in Stream, Launch(s) \/ Hangup(s) \/ Recv(s) \/ RecvFails(s)
      PROVE  SessionInv'
    BY <1>3, EnrolmentKeepsInv, HandlerKeepsInv
<1>4. ASSUME NEW s \in Stream, HandlerStep(s) \/ SenderStep(s)
      PROVE  SessionInv'
    BY <1>4, EnrolmentKeepsInv, HandlerKeepsInv, RegistrationKeepsInv, BroadcastKeepsInv,
       SenderKeepsInv DEF HandlerStep
<1> QED
    BY <1>1, <1>2, <1>3, <1>4 DEF Next

THEOREM SessionInvariant == Spec => []SessionInv
<1> QED
    BY SessionInit, SessionNext, PTL DEF Spec

-----------------------------------------------------------------------------
(* What follows from it.                                                   *)

\* Every reachable state of the host is well typed; its queues are never longer than
\* kMaxQueuedInvalidations (broadcastInvalidate), and it counts no more streams than there are.
THEOREM SessionsTyped == Spec => []TypeOK
<1>1. SessionInv => TypeOK
    <2> SUFFICES ASSUME SessionInv PROVE TypeOK
        OBVIOUS
    <2>1. connCount <= Cardinality(Stream)
        BY ServerSessionsAssumption, FS_Subset DEF SessionInv, Types, Counted
    <2>2. Cardinality(Stream) \in Nat
        BY ServerSessionsAssumption, FS_CardinalityType
    <2> QED
        BY <2>1, <2>2 DEF SessionInv, Types, TypeOK
<1> QED
    BY <1>1, SessionInvariant, PTL

\* No sender thread outlives the frame of its handler (unregisterSession joins it), and stop
\* returns only when every handler has left, for any number of streams and at whatever moment
\* each was accepted (stop and launchStream in server.cpp).
THEOREM NobodyDangles == Spec => []NoDangling
<1>1. SessionInv => NoDangling
    BY DEF SessionInv, Types, Counted, Ended, Paired, NoDangling, At
<1> QED
    BY <1>1, SessionInvariant, PTL

\* However many broadcasts a full queue has shed, the newest one since a session began is in its
\* queue, or with its sender, or was sent, as long as its stream is open: what is shed has been
\* overtaken (broadcastInvalidate).
THEOREM NewestIsKept == Spec => []NewestKept
<1>1. SessionInv => NewestKept
    BY DEF SessionInv
<1> QED
    BY <1>1, SessionInvariant, PTL

=============================================================================
