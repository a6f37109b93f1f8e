----------------------------- MODULE ClientCount -----------------------------
(***************************************************************************)
(* The number of clients the host's window shows: sessions_ and            *)
(* onClientsChanged in client/src/server/server.cpp, the callback and      *)
(* refreshShareStatus in client/src/app/mainwindow.cpp.                    *)
(*                                                                         *)
(* A client comes over several parallel streams, each served by a thread   *)
(* that counts the stream when its handshake succeeds and discounts it     *)
(* when the stream fails, both under sessMtx_; it calls onClientsChanged   *)
(* afterwards, with the mutex released, so that the callbacks of two       *)
(* threads run in either order.  The callback posts an event to the        *)
(* window's thread.                                                        *)
(***************************************************************************)
EXTENDS Integers, FiniteSets

CONSTANTS
    Client,
    Streams     \* parallel streams of a client

ASSUME ClientCountAssumption == IsFiniteSet(Client) /\ Streams \in Nat \ {0}

Stream == Client \X (1 .. Streams)
ClientOf(s) == s[1]

VARIABLES
    running,    \* running_
    handler,    \* the thread of a stream, at the steps that count
    sessions,   \* sessions_: counted streams per client, 0 when it has no entry
    posted,     \* is an event of onClientsChanged in the window's queue
    shown       \* the number the window shows

vars == <<running, handler, sessions, posted, shown>>

\* sessions_.size(), with sessMtx_ held.
clientCount == Cardinality({c \in Client : sessions[c] # 0})

TypeOK ==
    /\ running \in BOOLEAN
    /\ handler \in [Stream -> {"away", "handshake", "added", "served", "removed"}]
    /\ sessions \in [Client -> 0 .. Streams]
    /\ posted \in BOOLEAN /\ shown \in 0 .. Cardinality(Client)

Init ==
    /\ running = TRUE
    /\ handler = [s \in Stream |-> "away"] /\ sessions = [c \in Client |-> 0]
    /\ posted = FALSE /\ shown = 0

\* Mutated: every stream that leaves takes its client's entry.
WholeClient(c) == 0
OneLess(c) == sessions[c] - 1

Last(c) == sessions[c] = 1

\* launchStream admits a stream while the host runs; its handshake may fail.
Launch(s) ==
    /\ running /\ handler[s] = "away"
    /\ handler' = [handler EXCEPT ![s] = "handshake"]
    /\ UNCHANGED <<running, sessions, posted, shown>>

HandshakeFails(s) ==
    /\ handler[s] = "handshake"
    /\ handler' = [handler EXCEPT ![s] = "away"]
    /\ UNCHANGED <<running, sessions, posted, shown>>

\* The handshake of s succeeded; its client's first stream adds the client.
Count(s) ==
    /\ handler[s] = "handshake"
    /\ sessions' = [sessions EXCEPT ![ClientOf(s)] = @ + 1]
    /\ handler' = [handler EXCEPT ![s] = IF sessions[ClientOf(s)] = 0 THEN "added" ELSE "served"]
    /\ UNCHANGED <<running, posted, shown>>

\* onClientsChanged after registerSession.
NotifyAdded(s) ==
    /\ handler[s] = "added"
    /\ posted' = TRUE
    /\ handler' = [handler EXCEPT ![s] = "served"]
    /\ UNCHANGED <<running, sessions, shown>>

\* The request loop of s has ended; the last stream of a client removes it.
Uncount(s) ==
    /\ handler[s] = "served"
    /\ sessions' = IF sessions[ClientOf(s)] = 0 THEN sessions
                   ELSE [sessions EXCEPT ![ClientOf(s)] = OneLess(ClientOf(s))]
    /\ handler' = [handler EXCEPT ![s] = IF Last(ClientOf(s)) THEN "removed" ELSE "away"]
    /\ UNCHANGED <<running, posted, shown>>

\* onClientsChanged at the end of handleStream.
NotifyRemoved(s) ==
    /\ handler[s] = "removed"
    /\ posted' = TRUE
    /\ handler' = [handler EXCEPT ![s] = "away"]
    /\ UNCHANGED <<running, sessions, shown>>

\* refreshShareStatus: the number of clients, or "Not hosting".
Refresh ==
    /\ posted
    /\ posted' = FALSE
    /\ shown' = IF running THEN clientCount ELSE 0
    /\ UNCHANGED <<running, handler, sessions>>

\* Server::stop; the streams it closes leave one by one.
Stop ==
    /\ running
    /\ running' = FALSE
    /\ UNCHANGED <<handler, sessions, posted, shown>>

Next ==
    \/ \E s \in Stream : Launch(s) \/ HandshakeFails(s) \/ Count(s)
    \/ \E s \in Stream : NotifyAdded(s) \/ Uncount(s) \/ NotifyRemoved(s)
    \/ Refresh \/ Stop

Spec == Init /\ [][Next]_vars

\* A client is counted as long as any of its streams is served, and no longer ("Eight parallel
\* transport streams are one client", server.cpp).
OneClient ==
    \A c \in Client :
        (sessions[c] # 0) <=> \E s \in Stream : ClientOf(s) = c /\ handler[s] \in {"added", "served"}

\* The window shows the number of clients once every change has been announced and every
\* announcement was handled, whatever order the callbacks of the handlers ran in.
ShownSettles ==
    (running /\ ~posted /\ \A s \in Stream : handler[s] \notin {"added", "removed"})
        => shown = clientCount

\* The count is right, and in the end the window shows it (registerSession, unregisterSession and
\* refreshShareStatus).
ClientsCounted == OneClient /\ ShownSettles
=============================================================================
