------------------------------ MODULE Mounting ------------------------------
(***************************************************************************)
(* Mounting a share from the desktop window: the work of the connect       *)
(* worker, a thread that resolves the code and tries the transports in     *)
(* turn, and the Mount object with the thread of its FUSE loop.  The       *)
(* window, which starts and stops the mount on its own thread, is in       *)
(* Desktop.                                                                *)
(*                                                                         *)
(* Every press of Connect makes a connection: an object of one of the      *)
(* three client classes.  A connection that breaks is an object still, but *)
(* connected() is false from then on.                                      *)
(***************************************************************************)
EXTENDS Naturals, FiniteSets

CONSTANTS
    Conn,           \* the connections that may be made, 1 .. n
    Kind            \* the transports a share code may name

ASSUME MountingAssumption == 
    /\ IsFiniteSet(Conn) /\ Conn = 1 .. Cardinality(Conn)
    /\ Kind \subseteq {"quic", "tcp", "web"} /\ "tcp" \in Kind

NoConn == 0

VARIABLES
    client,         \* the client object of each connection
    kind,           \* its class
    dropped,        \* the connections that broke by themselves
    connector,      \* connectWorker_: its connection and what it does next
    fuse,           \* fuse_ and cache_: the connection that is mounted
    loop,           \* the mount's thread_
    active,         \* active_
    stopping        \* stopping_

mounting == <<client, kind, dropped, connector, fuse, loop, active, stopping>>
mount    == <<fuse, loop, active, stopping>>

MountingTypeOK ==
    /\ client \in [Conn -> {"none", "up", "lost", "closed", "gone"}] /\ kind \in [Conn -> Kind]
    /\ dropped \subseteq Conn
    /\ connector.conn \in Conn \cup {NoConn}
    /\ connector.pc \in {"idle", "resolve", "quic", "tcp", "web", "connected", "failed", "posted"}
    /\ fuse \in Conn \cup {NoConn} /\ loop \in {"none", "running", "out", "ended"}
    /\ active \in BOOLEAN /\ stopping \in BOOLEAN

MountingInit ==
    /\ client = [c \in Conn |-> "none"] /\ kind = [c \in Conn |-> "tcp"] /\ dropped = {}
    /\ connector = [conn |-> NoConn, pc |-> "idle"]
    /\ fuse = NoConn /\ loop = "none" /\ active = FALSE /\ stopping = FALSE

Connecting(pc) == connector.pc = pc
Proceed(pc) == connector' = [connector EXCEPT !.pc = pc]

\* resolve_share_code opens a room or a blob; a code that only browsers use is tried as one of
\* theirs.
Resolve ==
    /\ Connecting("resolve")
    /\ \E next \in Kind \cup {"failed"} : Proceed(next)
    /\ UNCHANGED <<client, kind, dropped, mount>>

\* A transport connects, or the next one is tried: TCP after QUIC, nothing after TCP or WebRTC.
Try(k) ==
    /\ Connecting(k)
    /\ \/ /\ client' = [client EXCEPT ![connector.conn] = "up"]
          /\ kind' = [kind EXCEPT ![connector.conn] = k]
          /\ Proceed("connected")
       \/ Proceed(IF k = "quic" THEN "tcp" ELSE "failed") /\ UNCHANGED <<client, kind>>
    /\ UNCHANGED <<dropped, mount>>

\* The network or the host ends a connection.
Drop(c) ==
    /\ client[c] = "up"
    /\ client' = [client EXCEPT ![c] = "lost"] /\ dropped' = dropped \cup {c}
    /\ UNCHANGED <<kind, connector, mount>>

\* The user ejects the volume: fuse_loop_mt returns.
Eject ==
    /\ loop = "running"
    /\ loop' = "out"
    /\ UNCHANGED <<client, kind, dropped, connector, fuse, active, stopping>>

MountingStep == Resolve \/ (\E k \in Kind : Try(k)) \/ (\E c \in Conn : Drop(c)) \/ Eject

(************** Mount::start and stop, called by the window's thread *******)

\* The mount has a loop once fuse_mount succeeds; it is not active until the volume is seen.
StartLoop(c) ==
    /\ fuse' = c /\ loop' = "running"
    /\ active' = FALSE /\ stopping' = FALSE

Leaves == loop' = IF loop = "running" THEN "out" ELSE loop

\* fuse_exit and fuse_unmount; then the thread is joined.
HaltLoop ==
    /\ stopping' = TRUE /\ active' = FALSE
    /\ Leaves
    /\ UNCHANGED fuse

Joinable == loop # "none"
Joined == loop \in {"none", "ended"}

\* Mutated: the cache stays, over a client that goes.
CacheKept == UNCHANGED fuse
CacheDropped == fuse' = NoConn

\* After the join: fuse_destroy, cache_.reset.
EndLoop ==
    /\ Joined
    /\ CacheDropped /\ loop' = "none"
    /\ UNCHANGED <<active, stopping>>
=============================================================================
