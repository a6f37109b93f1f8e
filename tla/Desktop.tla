------------------------------- MODULE Desktop -------------------------------
(***************************************************************************)
(* The desktop window (mainwindow.cpp) over Hosting and Mounting.  Its     *)
(* thread runs an event loop: it handles the user's clicks and the results *)
(* that the workers and the mount's loop post to its queue, in the order   *)
(* they were posted, and it blocks where it joins a thread or waits for a  *)
(* volume.  Closing the window runs ~MainWindow, whose steps are the       *)
(* values of quit.  One of them, the removal of the published room, waits  *)
(* for its HTTP answer in a nested event loop, which handles posted        *)
(* results as the outer one does.                                          *)
(*                                                                         *)
(* Dialogs, labels and transfer rates are left out; the number of clients  *)
(* is in ClientCount.                                                      *)
(***************************************************************************)
EXTENDS Hosting, Mounting

VARIABLES
    server_,        \* the share whose Server the window holds
    webHost,        \* webCompatHost_: the share whose browser host it holds
    ticket_,        \* activeTicket_
    holds,          \* client_, quicClient_, webClient_: the connection of each class
    busyShare, busyConnect,
    shown,          \* the window says Connected
    queue,          \* the results posted to the window's thread
    gui,            \* where that thread is: "loop", or inside Mount::start or stop, and what
                    \* follows
    callback,       \* the mount has its ejected callback
    quit            \* "open", or the step of ~MainWindow

window == <<server_, webHost, ticket_, holds, busyShare, busyConnect, shown, queue, gui, callback, quit>>
vars == <<hosting, mounting, window>>

Events == [what : {"started", "stopped"}, of : Share] \cup [what : {"connected", "failed"}, of : Conn]
          \cup [what : {"ejected"}, of : {0}]
Steps == {"open", "connector", "worker", "mount", "clients", "web", "remove", "unmap", "server",
          "members", "events", "done", "crashed"}

From(e) == IF e.what \in {"started", "stopped"} THEN "share"
           ELSE IF e.what = "ejected" THEN "mount" ELSE "connect"

\* The variables have their types, and of each thread at most one result waits.
TypeOK ==
    /\ HostingTypeOK /\ MountingTypeOK
    /\ server_ \in Share \cup {NoShare} /\ webHost \in Share \cup {NoShare}
    /\ ticket_ \in Room \cup {NoRoom} /\ holds \in [Kind -> Conn \cup {NoConn}]
    /\ {busyShare, busyConnect, shown, callback} \subseteq BOOLEAN
    /\ \A i \in DOMAIN queue : queue[i] \in Events
    /\ \A i, j \in DOMAIN queue : From(queue[i]) = From(queue[j]) => i = j
    /\ gui.pc \in {"loop", "wait", "seen", "stop"} /\ quit \in Steps

Init ==
    /\ HostingInit /\ MountingInit
    /\ server_ = NoShare /\ webHost = NoShare /\ ticket_ = NoRoom
    /\ holds = [k \in Kind |-> NoConn]
    /\ busyShare = FALSE /\ busyConnect = FALSE /\ shown = FALSE
    /\ queue = <<>> /\ gui = [pc |-> "loop", then |-> "", conn |-> NoConn] /\ callback = TRUE /\ quit = "open"

InLoop == gui.pc = "loop"
Clicks == InLoop /\ quit = "open"
Handles == InLoop /\ queue # <<>> /\ quit \in {"open", "remove"}
Finished(pc) == pc \in {"idle", "posted"}       \* a worker that is joined at once

(******************************** results **********************************)

\* Mutated: a result overtakes those that wait.
Overtaking(e) == <<e>> \o queue
Posted(e) == Append(queue, e)

\* The share worker's last step.
SharePosts ==
    /\ worker.pc \in {"started", "stopped"}
    /\ queue' = Posted([what |-> worker.pc, of |-> worker.share])
    /\ Goto("posted")
    /\ UNCHANGED <<server, web, upnp, rooms, stray, ticket, mounting, server_, webHost, ticket_, holds,
                   busyShare, busyConnect, shown, gui, callback, quit>>

\* The connect worker's last step.
ConnectPosts ==
    /\ connector.pc \in {"connected", "failed"}
    /\ queue' = Posted([what |-> connector.pc, of |-> connector.conn])
    /\ Proceed("posted")
    /\ UNCHANGED <<hosting, client, kind, dropped, mount, server_, webHost, ticket_, holds, busyShare,
                   busyConnect, shown, gui, callback, quit>>

\* Mutated: the flags are tested the wrong way round.
StoppedByUs == stopping /\ active
Ejected == ~stopping /\ active

\* The mount's thread after its loop: an ejection that nobody asked for is announced.
LoopEnds ==
    /\ loop = "out" /\ loop' = "ended"
    /\ active' = (active /\ ~Ejected)
    /\ queue' = IF Ejected /\ callback THEN Posted([what |-> "ejected", of |-> 0]) ELSE queue
    /\ UNCHANGED <<hosting, client, kind, dropped, connector, fuse, stopping, server_, webHost,
                   ticket_, holds, busyShare, busyConnect, shown, gui, callback, quit>>

(********************************* hosting *********************************)

\* toggleShare, Host: the Server object is made, the worker does the rest.
PressHost(s) ==
    /\ Clicks /\ ~busyShare
    /\ server_ = NoShare /\ server[s] = "none" /\ \A t \in Share : t < s => server[t] # "none"
    /\ Finished(worker.pc)
    /\ server' = [server EXCEPT ![s] = "made"] /\ server_' = s /\ busyShare' = TRUE
    /\ worker' = [share |-> s, pc |-> "server", try |-> 1]
    /\ UNCHANGED <<web, upnp, rooms, stray, ticket, mounting, webHost, ticket_, holds, busyConnect, shown,
                   queue, gui, callback, quit>>

\* toggleShare, Stop hosting: the worker takes the objects and the ticket over.
PressStop ==
    /\ Clicks /\ ~busyShare
    /\ server_ # NoShare /\ server[server_] = "running"
    /\ Finished(worker.pc)
    /\ worker' = [share |-> server_, pc |-> "webstop", try |-> 1]
    /\ server_' = NoShare /\ webHost' = NoShare /\ ticket_' = NoRoom /\ busyShare' = TRUE
    /\ UNCHANGED <<server, web, upnp, rooms, stray, ticket, mounting, holds, busyConnect, shown, queue,
                   gui, callback, quit>>

\* Mutated: the ticket of a share that was started is not kept.
NotKept(s) == NoRoom
Kept(s) == ticket[s]

\* The result of start_hosting: the window takes the ticket and the browser host, or drops the
\* Server that did not start.
HandleShare ==
    /\ Handles /\ Head(queue).what \in {"started", "stopped"}
    /\ LET e == Head(queue)
           ok == e.what = "started" /\ server[e.of] = "running"
           failed == e.what = "started" /\ ~ok
       IN  /\ ticket_' = IF ok THEN Kept(e.of) ELSE ticket_
           /\ webHost' = IF ok /\ web[e.of] = "running" THEN e.of ELSE webHost
           /\ server_' = IF failed THEN NoShare ELSE server_
           /\ server' = IF failed THEN [server EXCEPT ![e.of] = "gone"] ELSE server
    /\ queue' = Tail(queue) /\ busyShare' = FALSE
    /\ UNCHANGED <<web, upnp, rooms, stray, ticket, worker, mounting, holds, busyConnect, shown, gui,
                   callback, quit>>

(******************************** mounting *********************************)

Connected == \E k \in Kind : holds[k] # NoConn /\ client[holds[k]] = "up"
Held == {holds[k] : k \in Kind} \ {NoConn}
Destroyed(cs) == [c \in Conn |-> IF c \in cs THEN "gone" ELSE client[c]]

Ready == ~busyConnect

\* toggleConnect while no client is connected, whatever is mounted.
PressConnect(c) ==
    /\ Clicks /\ Ready /\ ~Connected
    /\ client[c] = "none" /\ connector.conn + 1 = c
    /\ Finished(connector.pc)
    /\ connector' = [conn |-> c, pc |-> "resolve"] /\ busyConnect' = TRUE
    /\ UNCHANGED <<hosting, client, kind, dropped, mount, server_, webHost, ticket_, holds, busyShare, shown,
                   queue, gui, callback, quit>>

\* Mount::stop begins; what follows it is "then".
BeginStop(then) ==
    /\ HaltLoop
    /\ gui' = [gui EXCEPT !.pc = "stop", !.then = then]
    /\ UNCHANGED <<hosting, client, kind, dropped, connector, server_, webHost, ticket_, holds, busyShare,
                   busyConnect, shown>>

\* toggleConnect while a client is connected.
PressDisconnect ==
    /\ Clicks /\ Ready /\ Connected
    /\ BeginStop("drop")
    /\ UNCHANGED <<queue, callback, quit>>

\* onMountEjected.
HandleEjected ==
    /\ Handles /\ Head(queue).what = "ejected"
    /\ BeginStop("drop")
    /\ queue' = Tail(queue)
    /\ UNCHANGED <<callback, quit>>

HandleFailed ==
    /\ Handles /\ Head(queue).what = "failed"
    /\ queue' = Tail(queue) /\ busyConnect' = FALSE /\ shown' = FALSE
    /\ UNCHANGED <<hosting, mounting, server_, webHost, ticket_, holds, busyShare, gui, callback, quit>>

\* The connection succeeded.  The window's pointer of its class is replaced, which destroys the
\* object it held; then the share is mounted, or cannot be: something is mounted already, or FUSE
\* refuses.
HandleConnected ==
    /\ Handles /\ Head(queue).what = "connected"
    /\ LET c == Head(queue).of
           old == {holds[kind[c]]}
       IN  \/ /\ fuse = NoConn
              /\ StartLoop(c)
              /\ client' = Destroyed(old)
              /\ holds' = [holds EXCEPT ![kind[c]] = c]
              /\ gui' = [gui EXCEPT !.pc = "wait", !.conn = c] /\ UNCHANGED shown
           \/ /\ client' = Destroyed(old \cup {c})
              /\ holds' = [holds EXCEPT ![kind[c]] = NoConn]
              /\ shown' = FALSE /\ UNCHANGED <<mount, gui>>
    /\ queue' = Tail(queue) /\ busyConnect' = FALSE
    /\ UNCHANGED <<hosting, kind, dropped, connector, server_, webHost, ticket_, busyShare, callback, quit>>

\* wait_for_mountpoint sees the volume.
VolumeSeen ==
    /\ gui.pc = "wait" /\ loop = "running"
    /\ gui' = [gui EXCEPT !.pc = "seen"]
    /\ UNCHANGED <<hosting, mounting, server_, webHost, ticket_, holds, busyShare, busyConnect, shown, queue,
                   callback, quit>>

\* It does not see it within 25 seconds.
VolumeMissing ==
    /\ gui.pc = "wait"
    /\ BeginStop("unmounted")
    /\ UNCHANGED <<queue, callback, quit>>

\* The mount counts as active, whatever its loop has done since.
Activate ==
    /\ gui.pc = "seen"
    /\ active' = TRUE /\ shown' = TRUE
    /\ gui' = [gui EXCEPT !.pc = "loop"]
    /\ UNCHANGED <<hosting, client, kind, dropped, connector, fuse, loop, stopping, server_, webHost, ticket_,
                   holds, busyShare, busyConnect, queue, callback, quit>>

\* Mount::stop returns, and the caller goes on: the clients are disconnected and destroyed, or
\* only the one that could not be mounted, or ~MainWindow takes its next step.
EndStop ==
    /\ gui.pc = "stop" /\ EndLoop
    /\ gui' = [gui EXCEPT !.pc = "loop"]
    /\ LET goes == CASE gui.then = "drop" -> Held
                     [] gui.then = "unmounted" -> {gui.conn}
                     [] OTHER -> {}
       IN  /\ client' = Destroyed(goes)
           /\ holds' = [k \in Kind |-> IF holds[k] \in goes THEN NoConn ELSE holds[k]]
    /\ shown' = (shown /\ gui.then = "quit")
    /\ quit' = IF gui.then = "quit" THEN "clients" ELSE quit
    /\ UNCHANGED <<hosting, kind, dropped, connector, server_, webHost, ticket_, busyShare, busyConnect, queue,
                   callback>>

(******************************** ~MainWindow ******************************)

\* A step of the destructor that touches nothing but what "effect" says.
Close ==
    /\ Clicks
    /\ quit' = "connector"
    /\ UNCHANGED <<hosting, mounting, server_, webHost, ticket_, holds, busyShare, busyConnect, shown, queue,
                   gui, callback>>

JoinConnector ==
    /\ quit = "connector" /\ Finished(connector.pc)
    /\ quit' = "worker"
    /\ UNCHANGED <<hosting, mounting, server_, webHost, ticket_, holds, busyShare, busyConnect, shown, queue,
                   gui, callback>>

\* The second join; then the callback is taken from the mount and the mount is stopped.
JoinWorker ==
    /\ quit = "worker" /\ Finished(worker.pc)
    /\ quit' = "mount" /\ callback' = FALSE
    /\ BeginStop("quit")
    /\ UNCHANGED queue

\* disconnect of each client, then stop of the browser host.
QuitClients ==
    /\ quit = "clients"
    /\ client' = [c \in Conn |-> IF c \in Held THEN "closed" ELSE client[c]]
    /\ quit' = "web"
    /\ UNCHANGED <<hosting, kind, dropped, connector, mount, server_, webHost, ticket_, holds, busyShare,
                   busyConnect, shown, queue, gui, callback>>

QuitWeb ==
    /\ quit = "web"
    /\ web' = [s \in Share |-> IF s = webHost THEN "gone" ELSE web[s]]
    /\ quit' = IF ticket_ = NoRoom THEN "unmap" ELSE "remove"
    /\ UNCHANGED <<server, upnp, rooms, stray, ticket, worker, mounting, server_, webHost, ticket_, holds,
                   busyShare, busyConnect, shown, queue, gui, callback>>

\* The answer to the removal ends the nested event loop, when that handles nothing else.
RoomAnswered ==
    /\ quit = "remove" /\ InLoop
    /\ Removal(ticket_)
    /\ quit' = "unmap"
    /\ UNCHANGED <<server, web, upnp, ticket, worker, mounting, server_, webHost, ticket_, holds, busyShare,
                   busyConnect, shown, queue, gui, callback>>

QuitUnmap ==
    /\ quit = "unmap"
    /\ upnp' = Unmapped
    /\ quit' = "server"
    /\ UNCHANGED <<server, web, rooms, stray, ticket, worker, mounting, server_, webHost, ticket_, holds,
                   busyShare, busyConnect, shown, queue, gui, callback>>

QuitServer ==
    /\ quit = "server"
    /\ server' = [s \in Share |-> IF s = server_ THEN "stopped" ELSE server[s]]
    /\ quit' = "members"
    /\ UNCHANGED <<web, upnp, rooms, stray, ticket, worker, mounting, server_, webHost, ticket_, holds,
                   busyShare, busyConnect, shown, queue, gui, callback>>

\* The members are destroyed.  A thread that is still joinable ends the program: only the
\* mount's can be.
QuitMembers ==
    /\ quit = "members"
    /\ quit' = IF Joinable THEN "crashed" ELSE "events"
    /\ client' = IF Joinable THEN client ELSE Destroyed(Held)
    /\ server' = [s \in Share |-> IF s = server_ /\ ~Joinable THEN "gone" ELSE server[s]]
    /\ UNCHANGED <<web, upnp, rooms, stray, ticket, worker, kind, dropped, connector, mount, server_, webHost,
                   ticket_, holds, busyShare, busyConnect, shown, queue, gui, callback>>

\* Last, ~QObject drops the results that were posted and not handled, with what they hold.
QuitEvents ==
    /\ quit = "events"
    /\ client' = Destroyed({queue[i].of : i \in {j \in DOMAIN queue : queue[j].what = "connected"}})
    /\ web' = [s \in Share |-> IF web[s] = "running" THEN "gone" ELSE web[s]]
    /\ queue' = <<>> /\ quit' = "done"
    /\ UNCHANGED <<server, upnp, rooms, stray, ticket, worker, kind, dropped, connector, mount, server_,
                   webHost, ticket_, holds, busyShare, busyConnect, shown, gui, callback>>

Quits == \/ JoinConnector \/ JoinWorker \/ QuitClients \/ QuitWeb \/ RoomAnswered \/ QuitUnmap \/ QuitServer
         \/ QuitMembers \/ QuitEvents

User == \/ Close \/ PressStop \/ PressDisconnect
        \/ (\E s \in Share : PressHost(s)) \/ (\E c \in Conn : PressConnect(c))

Gui == HandleShare \/ HandleConnected \/ HandleFailed \/ HandleEjected \/ VolumeSeen \/ VolumeMissing
       \/ Activate \/ EndStop \/ Quits

Threads == \/ quit \notin {"done", "crashed"} /\ (SharePosts \/ ConnectPosts \/ LoopEnds)
           \/ quit \notin {"done", "crashed"} /\ HostingStep /\ UNCHANGED <<mounting, window>>
           \/ quit \notin {"done", "crashed"} /\ MountingStep /\ UNCHANGED <<hosting, window>>

Next == User \/ Gui \/ Threads

Spec == Init /\ [][Next]_vars

(***************************************************************************)
(* Fairness.  The threads of the program go on by themselves: the event    *)
(* loop handles what is posted, a volume is seen or given up after 25      *)
(* seconds, each step of the share worker returns (its requests time out), *)
(* and so do those of the connect worker that wait with a timeout.  What   *)
(* the user and the network do is not assumed.                             *)
(***************************************************************************)
Works == HostingStep /\ UNCHANGED <<mounting, window>>
Timed == (Resolve \/ Try("web")) /\ UNCHANGED <<hosting, window>>

FairSpec == /\ Spec
            /\ WF_vars(Gui) /\ WF_vars(SharePosts) /\ WF_vars(ConnectPosts) /\ WF_vars(Works) /\ WF_vars(Timed)

\* What has no timeout needs the host: the receives of Client::handshake, which follow the connect
\* of either native transport, and the blocking send of a FUSE call, for which the mount's loop
\* waits at its end.  The host, or the network by breaking the connection, lets them return.
Handshakes == (Try("quic") \/ Try("tcp")) /\ UNCHANGED <<hosting, window>>
HostAnswers == WF_vars(Handshakes) /\ WF_vars(LoopEnds)

(******************************** properties *******************************)

\* While the window is open, a room that is stored is in the hands of somebody who will remove
\* it: the window, the worker, or a result on its way from one to the other.  (A room whose
\* creation was not answered, or whose removal failed, is nobody's.)
Tickets == {ticket_} \cup {ticket[e.of] : e \in {queue[i] : i \in {j \in DOMAIN queue : queue[j].what = "started"}}}
           \cup {ticket[s] : s \in {t \in Share : t = worker.share /\ ~Finished(worker.pc)}}

\* And while it neither hosts nor is about to, nothing of a share is left: no server listens, no
\* browser host runs over a Server that is gone, no port is mapped.
NothingLeftBehind ==
    quit = "open" =>
        /\ rooms \ stray \subseteq Tickets
        /\ \A s \in Share : web[s] = "running" => server[s] = "running"
        /\ ~busyShare /\ server_ = NoShare =>
              /\ \A s \in Share : server[s] # "running" /\ web[s] # "running"
              /\ upnp = NoShare

\* A mount's client is destroyed only after the mount: "Drop the cache while the transport is
\* still alive".  The exception is a connection that broke under its mount: toggleConnect then
\* connects anew although something is mounted, and the result replaces the client.
MountHasClient == fuse # NoConn /\ client[fuse] = "gone" => fuse \in dropped

\* An ejection is handled before any mount made after it: while the window is open it never stops
\* a mount that nobody ejected.  (While the window closes, the nested event loop can mount a share
\* and then handle an ejection of the mount that ~MainWindow stopped.)
EjectHitsItsOwn == [][HandleEjected /\ quit = "open" => loop # "running"]_vars


\* The ejection of an active mount is noticed: the window says so, or is being closed.
EjectNoticed == HostAnswers => (loop = "out" /\ active /\ ~stopping ~> ~shown \/ quit # "open")
=============================================================================
