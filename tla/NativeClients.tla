---------------------------- MODULE NativeClients ----------------------------
(***************************************************************************)
(* A native client that comes over QUIC, from its first signal to its      *)
(* place in the number of clients: NativeQuicRemoteClient in               *)
(* client/src/clients/web_compat.cpp, create_quic_peer and on_signal of    *)
(* the host in the same file, the life of the two endpoints of             *)
(* client/src/net/native_quic.cpp, and the room of worker.mjs between      *)
(* them.                                                                   *)
(*                                                                         *)
(* Client and host meet in a room whose messages arrive in order.  The     *)
(* client says hello and sends the description of its ICE endpoint, the    *)
(* host answers with its own.  Each description appears on an ICE thread   *)
(* whenever its candidates are gathered; either may come into the room     *)
(* first.  Over the established connection the client opens its streams,   *)
(* which the host serves and counts like those of any client               *)
(* (ClientCount, extended here).                                           *)
(***************************************************************************)
EXTENDS ClientCount, Sequences

CONSTANTS
    Native,     \* the client that comes over QUIC; the others come over TCP
    MaxFaults   \* bound: things that go wrong

ASSUME NativeAssumption == Native \in Client /\ MaxFaults \in Nat

VARIABLES
    hostIn,     \* the host's socket in the room: "away", "in", "gone"
    clientIn,   \* does the room know the client
    toHost, toClient,   \* messages of the room under way
    ws,         \* the client's socket: "none", "opening", "open", "closed"
    step,       \* the thread of connect and disconnect
    ready, pending,     \* ready; pendingDescription is not empty
    says,       \* what the client's socket thread and ICE thread have yet to send
    endpoint,   \* of either side: "none", "running", "failed" or "closed"
    gathered,   \* the sides whose description is complete
    remote,     \* the sides that were given the other's description
    established,    \* the sides whose QUIC connection is ready
    opened,     \* the streams the client opened
    faults

room == <<hostIn, clientIn, toHost, toClient, ws>>
own == <<step, ready, pending, says>>
ends == <<endpoint, gathered, remote, established>>
nativeVars == <<room, own, ends, opened, faults>>

Side == {"client", "host"}
Other(side) == CHOOSE other \in Side : other # side

NativeInit ==
    /\ Init
    /\ hostIn = "away" /\ clientIn = FALSE /\ toHost = <<>> /\ toClient = <<>> /\ ws = "none"
    /\ step = "idle" /\ ready = FALSE /\ pending = FALSE
    /\ says = [thread \in {"socket", "ice"} |-> <<>>]
    /\ endpoint = [side \in Side |-> "none"]
    /\ gathered = {} /\ remote = {} /\ established = {} /\ opened = {} /\ faults = 0

Fails == faults < MaxFaults /\ faults' = faults + 1

\* host.send and safeSend.
Told(message) == toClient' = IF clientIn THEN Append(toClient, message) ELSE toClient

\* pendingDescription, if it is there.
NotPending == <<>>      \* Mutated: the description is sent by the ICE thread only.
Pending == IF pending THEN <<"description">> ELSE <<>>

-----------------------------------------------------------------------------
(* The room.                                                               *)

AttachHost ==
    /\ hostIn = "away"
    /\ hostIn' = "in"
    /\ toHost' = IF clientIn THEN Append(toHost, "client-joined") ELSE toHost
    /\ Told("host-joined")
    /\ UNCHANGED <<clientIn, ws, own, ends, opened, faults>>

AttachClient ==
    /\ ws = "opening"
    /\ ws' = "open" /\ clientIn' = TRUE
    /\ toClient' = <<"ready">>
    /\ toHost' = IF hostIn = "in" THEN Append(toHost, "client-joined") ELSE toHost
    /\ UNCHANGED <<hostIn, own, ends, opened, faults>>

\* The host's socket is lost; its endpoints stay.
DetachHost ==
    /\ hostIn = "in" /\ Fails
    /\ hostIn' = "gone" /\ toHost' = <<>>
    /\ Told("host-left")
    /\ UNCHANGED <<clientIn, ws, own, ends, opened>>

Silence == toHost       \* Mutated: the host is not told.
Farewell == Append(toHost, "client-left")
DetachClient ==
    /\ clientIn /\ ws = "closed"
    /\ clientIn' = FALSE /\ toClient' = <<>>
    /\ toHost' = IF hostIn = "in" THEN Farewell ELSE toHost
    /\ UNCHANGED <<hostIn, ws, own, ends, opened, faults>>

-----------------------------------------------------------------------------
(* The two endpoints.                                                      *)

\* close: shutdown, once.
Shut(side) == IF endpoint[side] = "none" THEN endpoint ELSE [endpoint EXCEPT ![side] = "closed"]

\* ice_gathered.  The client's callback keeps the description under the mutex, and sends it when
\* the room has told the peer's name; the host's sends it.
Gather(side) ==
    /\ endpoint[side] = "running" /\ side \notin gathered
    /\ gathered' = gathered \cup {side}
    /\ IF side = "host"
       THEN /\ IF hostIn = "in" THEN Told("description") ELSE UNCHANGED toClient
            /\ UNCHANGED <<pending, says>>
       ELSE /\ pending' = TRUE
            /\ says' = IF ready THEN [says EXCEPT !["ice"] = <<"description">>] ELSE says
            /\ UNCHANGED toClient
    /\ UNCHANGED <<hostIn, clientIn, toHost, ws, step, ready, endpoint, remote,
                   established, opened, faults>>

\* ICE finds a path with both descriptions on both sides, QUIC shakes hands over it.
Establish(side) ==
    /\ \A s \in Side : endpoint[s] = "running"
    /\ gathered = Side /\ remote = Side /\ side \notin established
    /\ established' = established \cup {side}
    /\ UNCHANGED <<room, own, endpoint, gathered, remote, opened, faults>>

\* JUICE_STATE_FAILED, or QUIC's close or idle timeout, once the peer is gone.
LosePeer(side) ==
    /\ endpoint[side] = "running" /\ side \in remote
    /\ endpoint[Other(side)] \in {"failed", "closed"}
    /\ endpoint' = [endpoint EXCEPT ![side] = "failed"]
    /\ UNCHANGED <<room, own, gathered, remote, established, opened, faults>>

\* The path breaks, or ICE finds none.
BreakPath(side) ==
    /\ endpoint[side] = "running" /\ Fails
    /\ endpoint' = [endpoint EXCEPT ![side] = "failed"]
    /\ UNCHANGED <<room, own, gathered, remote, established, opened>>

-----------------------------------------------------------------------------
(* The client: connect, disconnect and the callbacks of its socket.  The   *)
(* flag dead only ends the first wait of connect, which may also time out  *)
(* at any step: it is left out.                                            *)

Connect ==
    /\ step = "idle"
    /\ endpoint' = [endpoint EXCEPT !["client"] = "running"]
    /\ ws' = "opening" /\ step' = "ready"
    /\ UNCHANGED <<hostIn, clientIn, toHost, toClient, ready, pending, says, gathered,
                   remote, established, opened, faults>>

\* The endpoint cannot start: no context, no ICE agent.
CannotConnect ==
    /\ step = "idle" /\ Fails
    /\ step' = "over"
    /\ UNCHANGED <<room, ready, pending, says, ends, opened>>

\* send: nothing, when disconnect has taken the socket.
Say(thread) ==
    /\ says[thread] # <<>>
    /\ says' = [says EXCEPT ![thread] = Tail(@)]
    /\ toHost' = IF ws = "open" /\ hostIn = "in" THEN Append(toHost, Head(says[thread])) ELSE toHost
    /\ UNCHANGED <<hostIn, clientIn, toClient, ws, step, ready, pending, ends, opened, faults>>

Hears(message) ==
    /\ ws = "open" /\ says["socket"] = <<>> /\ toClient # <<>> /\ Head(toClient) = message
    /\ toClient' = Tail(toClient)
    /\ UNCHANGED <<hostIn, clientIn, toHost, ws, step, pending, gathered, established, opened>>

Introduces == says' = [says EXCEPT !["socket"] = <<"hello">> \o Pending]

HearReady ==
    /\ Hears("ready") /\ ready' = TRUE /\ Introduces /\ UNCHANGED <<endpoint, remote, faults>>
HearHostJoined ==
    /\ Hears("host-joined") /\ Introduces /\ UNCHANGED <<ready, endpoint, remote, faults>>

\* host-left, native-quic-error: also an established connection is closed.
HearEnd ==
    /\ Hears("host-left") \/ Hears("error")
    /\ endpoint' = Shut("client")
    /\ UNCHANGED <<ready, says, remote, faults>>

\* juice_set_remote_description may refuse the description.
HearDescription ==
    /\ Hears("description")
    /\ \/ endpoint["client"] # "closed" /\ remote' = remote \cup {"client"} /\ UNCHANGED faults
       \/ endpoint["client"] = "closed" /\ UNCHANGED <<remote, faults>>
       \/ Fails /\ UNCHANGED remote
    /\ UNCHANGED <<ready, says, endpoint>>

LoseSocket ==
    /\ ws = "open" /\ Fails
    /\ ws' = "closed"
    /\ UNCHANGED <<hostIn, clientIn, toHost, toClient, own, ends, opened>>

\* cv.wait_for, waitConnected and openStreams.
Signalled ==
    /\ step = "ready" /\ ready
    /\ step' = "connected"
    /\ UNCHANGED <<room, ready, pending, says, ends, opened, faults>>

Connected ==
    /\ step = "connected" /\ "client" \in established /\ endpoint["client"] # "failed"
    /\ step' = "streams"
    /\ UNCHANGED <<room, ready, pending, says, ends, opened, faults>>

\* connectStreams: every stream has shaken hands.
Up ==
    /\ step = "streams" /\ Cardinality(opened) = Streams
    /\ \A s \in opened : handler[s] \in {"added", "served"}
    /\ step' = "up"
    /\ UNCHANGED <<room, ready, pending, says, ends, opened, faults>>

\* disconnect: after a failure or a timeout in connect, or when the user leaves.  The members
\* are taken under the mutex ...
Disconnect ==
    /\ step \in {"ready", "connected", "streams", "up"}
    /\ step' = "closing" /\ ws' = "closed"
    /\ ready' = FALSE /\ pending' = FALSE
    /\ UNCHANGED <<hostIn, clientIn, toHost, toClient, says, ends, opened, faults>>

\* ... and the endpoint closed after it.
CloseEndpoint ==
    /\ step = "closing"
    /\ endpoint' = Shut("client") /\ step' = "over"
    /\ UNCHANGED <<room, ready, pending, says, gathered, remote, established, opened, faults>>

-----------------------------------------------------------------------------
(* The host: on_signal.                                                    *)

HostHears(message) ==
    /\ hostIn = "in" /\ toHost # <<>> /\ Head(toHost) = message
    /\ toHost' = Tail(toHost)
    /\ UNCHANGED <<hostIn, clientIn, ws, own, gathered, established, opened>>

\* The timer of client-joined is for browsers: WebPeers.
HostHearsJoined == HostHears("client-joined") /\ UNCHANGED <<toClient, endpoint, remote, faults>>

\* create_quic_peer: the endpoint starts, unless there is one.
Created == IF endpoint["host"] = "none" THEN [endpoint EXCEPT !["host"] = "running"] ELSE endpoint
CannotStart == endpoint["host"] = "none" /\ Fails /\ Told("error") /\ UNCHANGED <<endpoint, remote>>

HostHearsHello ==
    /\ HostHears("hello")
    /\ \/ endpoint' = Created /\ UNCHANGED <<toClient, remote, faults>>
       \/ CannotStart

\* A description may overtake the hello: it makes the endpoint as well.
HostHearsDescription ==
    /\ HostHears("description")
    /\ \/ /\ endpoint' = Created
          /\ remote' = remote \cup {"host"}
          /\ UNCHANGED <<toClient, faults>>
       \/ CannotStart
       \/ /\ Fails /\ Told("error")
          /\ endpoint' = Created /\ UNCHANGED remote

\* client-left.
HostHearsLeft ==
    /\ HostHears("client-left")
    /\ endpoint' = Shut("host")
    /\ UNCHANGED <<toClient, remote, faults>>

\* WebRtcCompatHost::stop.
StopHost ==
    /\ hostIn = "in"
    /\ hostIn' = "gone" /\ toHost' = <<>>
    /\ Told("host-left")
    /\ endpoint' = Shut("host")
    /\ UNCHANGED <<clientIn, ws, own, gathered, remote, established, opened, faults>>

-----------------------------------------------------------------------------
(* Streams.                                                                *)

\* incomingStreamCallback: acceptStream, for each stream the client opens.
Serve(s) ==
    /\ Launch(s)
    /\ ClientOf(s) = Native =>
           /\ step = "streams" /\ s \notin opened
           /\ established = Side /\ \A side \in Side : endpoint[side] = "running"
    /\ opened' = IF ClientOf(s) = Native THEN opened \cup {s} ELSE opened
    /\ UNCHANGED <<room, own, ends, faults>>

\* A read of the stream fails, in the handshake or in the request loop.
Ends(s) == (HandshakeFails(s) \/ Uncount(s)) /\ UNCHANGED nativeVars
Notifies(s) == (NotifyAdded(s) \/ NotifyRemoved(s)) /\ UNCHANGED nativeVars
Counts(s) == Count(s) /\ UNCHANGED nativeVars
Window == Refresh /\ UNCHANGED nativeVars
StopServer == Stop /\ UNCHANGED nativeVars

-----------------------------------------------------------------------------
Room == AttachClient \/ DetachClient
Paths == \E side \in Side : Gather(side) \/ Establish(side) \/ LosePeer(side)
Callbacks ==
    \/ \E thread \in DOMAIN says : Say(thread)
    \/ HearReady \/ HearHostJoined \/ HearEnd \/ HearDescription
HostSteps == HostHearsJoined \/ HostHearsHello \/ HostHearsDescription \/ HostHearsLeft
Mishaps == DetachHost \/ LoseSocket \/ StopHost \/ \E side \in Side : BreakPath(side)
Thread == Connect \/ CannotConnect \/ Signalled \/ Connected \/ Up \/ Disconnect \/ CloseEndpoint

Signals == AttachHost \/ Room \/ Paths \/ Callbacks \/ HostSteps \/ Mishaps \/ Thread

NativeNext ==
    \/ Signals /\ UNCHANGED vars
    \/ \E s \in Stream : Serve(s) \/ Counts(s) \/ Ends(s) \/ Notifies(s)
    \/ Window \/ StopServer

NativeSpec == NativeInit /\ [][NativeNext]_<<vars, nativeVars>>

\* The room, the threads of the sockets and of ICE and the handlers of streams run; a stream of
\* the client fails at the host when its endpoint there is no longer running.  Nobody need
\* connect, disconnect or stop.
Fairness ==
    /\ WF_<<vars, nativeVars>>(Room /\ UNCHANGED vars)
    /\ WF_<<vars, nativeVars>>(Paths /\ UNCHANGED vars)
    /\ WF_<<vars, nativeVars>>(Callbacks /\ UNCHANGED vars)
    /\ WF_<<vars, nativeVars>>(HostSteps /\ UNCHANGED vars)
    /\ WF_<<vars, nativeVars>>(CloseEndpoint /\ UNCHANGED vars)
    /\ \A s \in Stream : WF_<<vars, nativeVars>>(Notifies(s))
    /\ \A s \in {Native} \X (1 .. Streams) :
           WF_<<vars, nativeVars>>(endpoint["host"] # "running" /\ Ends(s))

NativeFairSpec == NativeSpec /\ Fairness

-----------------------------------------------------------------------------
\* Once every message has been delivered, either side has the description the other gathered,
\* in whatever order host, client, hello and descriptions came into the room (the comments on
\* pendingDescription and on_signal in web_compat.cpp).
Negotiated ==
    (/\ faults = 0 /\ hostIn = "in" /\ ws = "open" /\ endpoint["client"] = "running"
     /\ toHost = <<>> /\ toClient = <<>> /\ \A thread \in DOMAIN says : says[thread] = <<>>)
        => /\ endpoint["host"] = "running"
           /\ \A side \in gathered : Other(side) \in remote

\* A client that has left leaves nothing behind: its endpoint and, if the host can be told, the
\* host's are down, and its streams are discounted, however far the connection had come.
LeavesNoTrace ==
    (step = "over") ~> /\ endpoint["client"] # "running" /\ sessions[Native] = 0
                       /\ hostIn = "in" => endpoint["host"] # "running"
=============================================================================
