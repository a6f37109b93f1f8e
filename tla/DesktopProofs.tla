---------------------------- MODULE DesktopProofs ----------------------------
(***************************************************************************)
(* The desktop window with its two workers and its mount, for any number   *)
(* of shares, attempts, connections and transports: hosting leaves nothing *)
(* behind, a mount keeps its client, and an ejection stops the mount that  *)
(* was ejected.                                                            *)
(***************************************************************************)
EXTENDS Desktop, TLAPS

-----------------------------------------------------------------------------
(* The inductive invariant, by what it is about.                           *)

\* What is hosted or about to be, and what is on its way out.
Starting == {"server", "address", "cloudflare", "firebase", "web", "undo", "started"}
Stopping == {"webstop", "unmap", "srvstop", "remove", "destroy", "stopped"}
Connects1 == {"resolve", "quic", "tcp", "web", "connected", "failed"}

ShareTypes ==
    /\ server \in [Share -> {"none", "made", "running", "stopped", "gone"}]
    /\ web \in [Share -> {"none", "running", "gone"}]
    /\ upnp \in Share \cup {NoShare}
    /\ rooms \subseteq Room /\ stray \subseteq rooms
    /\ ticket \in [Share -> Room \cup {NoRoom}]
    /\ worker \in [share : Share \cup {NoShare}, pc : {"idle", "posted"} \cup Starting \cup Stopping,
                   try : 1 .. Attempts]
    /\ server_ \in Share \cup {NoShare} /\ webHost \in Share \cup {NoShare}
    /\ ticket_ \in Room \cup {NoRoom} /\ busyShare \in BOOLEAN

MountTypes ==
    /\ client \in [Conn -> {"none", "up", "lost", "closed", "gone"}] /\ kind \in [Conn -> Kind]
    /\ dropped \subseteq Conn
    /\ connector \in [conn : Conn \cup {NoConn}, pc : {"idle", "posted"} \cup Connects1]
    /\ fuse \in Conn \cup {NoConn} /\ loop \in {"none", "running", "out", "ended"}
    /\ active \in BOOLEAN /\ stopping \in BOOLEAN
    /\ holds \in [Kind -> Conn \cup {NoConn}] /\ busyConnect \in BOOLEAN /\ shown \in BOOLEAN
    /\ gui \in [pc : {"loop", "wait", "seen", "stop"}, then : {"", "drop", "unmounted", "quit"},
                conn : Conn \cup {NoConn}]

\* The queue, with at most one result of each thread; the callback is taken from the mount before
\* ~MainWindow stops it.
QueueTypes ==
    /\ queue \in Seq(Events) /\ quit \in Steps
    /\ callback \in BOOLEAN /\ (callback <=> quit \in {"open", "connector", "worker"})
    /\ \A i, j \in DOMAIN queue : From(queue[i]) = From(queue[j]) => i = j

Waiting == {queue[i] : i \in DOMAIN queue}

\* busyShare is set from the press of the button until the worker's result is handled.
ShareBusy ==
    /\ worker.pc \in Starting \cup Stopping =>
           busyShare /\ worker.share # NoShare /\ \A e \in Waiting : From(e) # "share"
    /\ \A e \in Waiting : From(e) = "share" => busyShare /\ worker.pc = "posted"

\* The window holds the Server that is started, not the one that is stopped; the ticket is its own
\* once the result of the start is handled.
Holding ==
    quit = "open" =>
        /\ worker.pc \in Starting => server_ = worker.share /\ ticket_ = NoRoom
        /\ worker.pc \in Stopping => server_ = NoShare
        /\ \A e \in Waiting : e.what = "started" => server_ = e.of /\ ticket_ = NoRoom
        /\ \A e \in Waiting : e.what = "stopped" => server_ = NoShare
        /\ server_ = NoShare => ticket_ = NoRoom
        /\ ticket_ # NoRoom => ticket_ = ticket[server_]

\* What runs, runs for the share the window holds or for the one the worker is taking down, in
\* this order.
Running ==
    quit = "open" =>
        /\ \A s \in Share : server[s] = "running" =>
               s = server_ \/ (s = worker.share /\ worker.pc \in {"webstop", "unmap", "srvstop"})
        /\ \A s \in Share : web[s] = "running" =>
               server[s] = "running" /\ (s = server_ \/ (s = worker.share /\ worker.pc = "webstop"))
        /\ upnp # NoShare =>
               \/ upnp = server_ /\ server[upnp] = "running"
               \/ upnp = worker.share /\ worker.pc \in {"webstop", "unmap"}
        /\ worker.pc = "server" => server[worker.share] = "made"
        /\ worker.pc \in {"address", "cloudflare", "firebase", "web"} => server[worker.share] = "running"
        /\ worker.pc \in {"address", "undo"} => web[worker.share] # "running"

\* A share that was not published, or no longer is, has no ticket; one has the room it names.
Ticketed ==
    /\ quit = "open" =>
          /\ \A s \in Share : server[s] = "none" => ticket[s] = NoRoom
          /\ worker.pc \in {"server", "address", "cloudflare", "firebase", "undo", "destroy", "stopped"} =>
                 ticket[worker.share] = NoRoom
          /\ worker.pc = "started" /\ server[worker.share] # "running" => ticket[worker.share] = NoRoom
          /\ \A e \in Waiting : e.what = "started" /\ server[e.of] # "running" => ticket[e.of] = NoRoom
          /\ rooms \ stray \subseteq Tickets

\* Until the window removes its room, what is ticketed is stored.
Stored ==
    /\ quit \notin {"open", "connector", "worker"} => Finished(worker.pc)
    /\ \A s \in Share : ticket[s] # NoRoom => ticket[s].share = s
    /\ worker.pc \in {"server", "address", "cloudflare", "firebase"} => ticket[worker.share] = NoRoom
    /\ ticket_ # NoRoom => \E s \in Share : ticket_ = ticket[s] /\ (Finished(worker.pc) \/ worker.share # s)
    /\ quit \in {"open", "connector", "worker", "mount", "clients", "web", "remove"} =>
           \A s \in Share : ticket[s] # NoRoom => ticket[s] \in rooms

\* busyConnect is set from the press of the button until the worker's result is handled, and until
\* then no client is connected.
ConnectBusy ==
    /\ connector.pc \in Connects1 =>
           busyConnect /\ connector.conn # NoConn /\ \A e \in Waiting : From(e) # "connect"
    /\ \A e \in Waiting : From(e) = "connect" => busyConnect /\ connector.pc = "posted"
    /\ busyConnect => \A k \in Kind : holds[k] # NoConn => client[holds[k]] # "up"

\* A connection is nobody's until its result is handled.
Coming ==
    /\ \A k \in Kind : holds[k] # NoConn => client[holds[k]] # "none"
    /\ connector.pc \in Connects1 \ {"connected"} => client[connector.conn] = "none"
    /\ connector.pc = "connected" =>
           client[connector.conn] \in {"up", "lost"} /\ connector.conn \notin Held /\ fuse # connector.conn
    /\ \A e \in Waiting : e.what = "connected" =>
           client[e.of] \in {"up", "lost"} /\ e.of \notin Held /\ fuse # e.of

\* A mount has a loop until it is stopped, and a client that is up or broke by itself.
Mounted ==
    /\ (loop = "none" <=> fuse = NoConn)
    /\ fuse # NoConn => client[fuse] = "up" \/ fuse \in dropped
    /\ \A c \in Conn : (client[c] = "lost" => c \in dropped) /\ (c \in dropped => client[c] # "none")
    /\ gui.pc = "wait" \/ (gui.pc = "stop" /\ gui.then = "unmounted") => gui.conn = fuse
    /\ gui.pc = "stop" /\ gui.then = "quit" => quit = "mount"
    /\ quit = "clients" => fuse = NoConn /\ gui.pc = "loop"

\* An ejection that waits is of the mount that is there still, or of one whose end came before the
\* results that wait before it.
Ejections ==
    /\ gui.pc # "loop" => ~active
    /\ callback =>
          \A i \in DOMAIN queue : queue[i].what = "ejected" =>
              /\ ~active /\ gui.pc \notin {"wait", "seen"} /\ loop \in {"ended", "none"}
              /\ loop = "none" \/ gui.pc = "stop" =>
                     \A j \in DOMAIN queue : j < i => queue[j].what # "connected"

DesktopInv ==
    /\ ShareTypes /\ MountTypes /\ QueueTypes
    /\ ShareBusy /\ Holding /\ Running /\ Ticketed /\ Stored
    /\ ConnectBusy /\ Coming /\ Mounted /\ Ejections
-----------------------------------------------------------------------------
(* The queue, and what a step leaves alone.                                *)

LEMMA Posting ==
    ASSUME QueueTypes, NEW e \in Events, queue' = Append(queue, e), UNCHANGED <<quit, callback>>,
           \A d \in Waiting : From(d) # From(e)
    PROVE  /\ QueueTypes' /\ Waiting' = Waiting \cup {e}
           /\ Len(queue) \in Nat /\ DOMAIN queue = 1 .. Len(queue) /\ DOMAIN queue' = 1 .. Len(queue) + 1
           /\ queue'[Len(queue) + 1] = e /\ \A i \in DOMAIN queue : queue'[i] = queue[i]
<1>1. queue \in Seq(Events)
    BY DEF QueueTypes
<1>2. /\ Len(queue) \in Nat /\ DOMAIN queue = 1 .. Len(queue) /\ DOMAIN queue' = 1 .. Len(queue) + 1
      /\ queue'[Len(queue) + 1] = e /\ \A i \in DOMAIN queue : queue'[i] = queue[i]
      /\ queue' \in Seq(Events)
    BY <1>1
<1>3. Waiting' = Waiting \cup {e}
    BY <1>2 DEF Waiting
<1>4. ASSUME NEW i \in DOMAIN queue', NEW j \in DOMAIN queue', From(queue'[i]) = From(queue'[j])
      PROVE  i = j
    <2>1. \A k \in DOMAIN queue : From(queue'[k]) # From(e)
        BY <1>2 DEF Waiting
    <2>2. CASE i \in DOMAIN queue /\ j \in DOMAIN queue
        BY <1>2, <1>4, <2>2 DEF QueueTypes
    <2>3. CASE i \notin DOMAIN queue \/ j \notin DOMAIN queue
        <3>1. \A k \in DOMAIN queue' : k \in DOMAIN queue \/ (k = Len(queue) + 1 /\ queue'[k] = e)
            BY <1>2
        <3> QED
            BY <1>4, <2>1, <2>3, <3>1
    <2> QED
        BY <2>2, <2>3
<1> QED
    BY <1>2, <1>3, <1>4 DEF QueueTypes

LEMMA Handling ==
    ASSUME QueueTypes, queue # <<>>, queue' = Tail(queue), UNCHANGED <<quit, callback>>
    PROVE  /\ QueueTypes' /\ Head(queue) \in Waiting /\ Head(queue) \in Events
           /\ \A e \in Waiting' : e \in Waiting /\ From(e) # From(Head(queue))
           /\ \A e \in Waiting : e \in Waiting' \/ e = Head(queue)
           /\ Len(queue) \in Nat /\ 1 \in DOMAIN queue /\ Head(queue) = queue[1]
           /\ DOMAIN queue = 1 .. Len(queue) /\ DOMAIN queue' = 1 .. Len(queue) - 1
           /\ \A i \in DOMAIN queue' : i + 1 \in DOMAIN queue /\ queue'[i] = queue[i + 1]
<1>1. queue \in Seq(Events)
    BY DEF QueueTypes
<1>2. /\ Len(queue) \in Nat /\ Len(queue) > 0 /\ DOMAIN queue = 1 .. Len(queue)
      /\ DOMAIN queue' = 1 .. Len(queue) - 1 /\ queue' \in Seq(Events)
      /\ Head(queue) = queue[1] /\ queue[1] \in Events
    BY <1>1
<1>3. \A i \in DOMAIN queue' : i \in Nat /\ i > 0 /\ i + 1 \in DOMAIN queue /\ queue'[i] = queue[i + 1]
    BY <1>1, <1>2
<1>4. ASSUME NEW i \in DOMAIN queue', NEW j \in DOMAIN queue', From(queue'[i]) = From(queue'[j])
      PROVE  i = j
    <2>1. i + 1 = j + 1
        BY <1>3, <1>4 DEF QueueTypes
    <2> QED
        BY <1>3, <2>1
<1>5. 1 \in DOMAIN queue /\ Head(queue) \in Waiting
    BY <1>2 DEF Waiting
<1>6. ASSUME NEW i \in DOMAIN queue'
      PROVE  queue'[i] \in Waiting /\ From(queue'[i]) # From(Head(queue))
    <2>1. i + 1 \in DOMAIN queue /\ i + 1 # 1 /\ queue'[i] = queue[i + 1]
        BY <1>3
    <2> QED
        BY <1>2, <1>5, <2>1 DEF QueueTypes, Waiting
<1>7. ASSUME NEW i \in DOMAIN queue PROVE queue[i] \in Waiting' \/ queue[i] = Head(queue)
    <2>1. CASE i # 1
        <3>1. i - 1 \in DOMAIN queue' /\ i - 1 + 1 = i
            BY <1>2, <2>1
        <3> QED
            BY <1>3, <3>1 DEF Waiting
    <2> QED
        BY <1>2, <2>1
<1> QED
    BY <1>2, <1>3, <1>4, <1>5, <1>6, <1>7 DEF QueueTypes, Waiting

\* A result is of one of the three threads.
LEMMA Results ==
    ASSUME QueueTypes
    PROVE  \A e \in Waiting :
              /\ e \in Events
              /\ From(e) = "share" <=> e.what \in {"started", "stopped"}
              /\ From(e) = "connect" <=> e.what \in {"connected", "failed"}
              /\ e.what \in {"started", "stopped"} => e.of \in Share
              /\ e.what \in {"connected", "failed"} => e.of \in Conn
<1> SUFFICES ASSUME NEW e \in Events
             PROVE  /\ From(e) = "share" <=> e.what \in {"started", "stopped"}
                    /\ From(e) = "connect" <=> e.what \in {"connected", "failed"}
                    /\ e.what \in {"started", "stopped"} => e.of \in Share
                    /\ e.what \in {"connected", "failed"} => e.of \in Conn
    BY DEF QueueTypes, Waiting
<1> QED
    BY DEF Events, From

LEMMA Numbers ==
    /\ NoShare \notin Share /\ NoConn \notin Conn /\ NoRoom \notin Room
    /\ 1 \in 1 .. Attempts /\ \A n \in 1 .. Attempts : n < Attempts => n + 1 \in 1 .. Attempts
<1>1. Share \subseteq 1 .. Cardinality(Share) /\ Conn \subseteq 1 .. Cardinality(Conn)
    BY HostingAssumption, MountingAssumption
<1>2. NoShare \notin Share /\ NoConn \notin Conn
    BY <1>1 DEF NoShare, NoConn
<1>3. \A r \in Room : r.share \in Share
    BY DEF Room
<1>4. NoRoom.share = NoShare
    BY DEF NoRoom
<1>5. Attempts \in Nat /\ Attempts > 0
    BY HostingAssumption
<1>6. 1 \in 1 .. Attempts /\ \A n \in 1 .. Attempts : n < Attempts => n + 1 \in 1 .. Attempts
    BY <1>5
<1> QED
    BY <1>2, <1>3, <1>4, <1>6

\* The rooms that somebody will remove.
InHand(r, t, tickets, events, w) ==
    \/ r = t
    \/ \E e \in events : e.what = "started" /\ r = tickets[e.of]
    \/ w.share \in Share /\ ~Finished(w.pc) /\ r = tickets[w.share]

LEMMA TicketsAre ==
    /\ \A r : r \in Tickets <=> InHand(r, ticket_, ticket, Waiting, worker)
    /\ \A r : r \in Tickets' <=> InHand(r, ticket_', ticket', Waiting', worker')
BY DEF Tickets, InHand, Waiting

LEMMA Frame ==
    ASSUME DesktopInv
    PROVE  /\ UNCHANGED <<server, web, upnp, rooms, stray, ticket, worker, server_, webHost, ticket_, busyShare>>
                  => ShareTypes'
           /\ UNCHANGED <<mounting, holds, busyConnect, shown, gui>> => MountTypes'
           /\ UNCHANGED <<queue, quit, callback>> => QueueTypes' /\ Waiting' = Waiting
           /\ UNCHANGED <<worker, busyShare, queue>> => ShareBusy'
           /\ UNCHANGED <<quit, worker, server_, ticket_, ticket, queue>> => Holding'
           /\ UNCHANGED <<quit, server, server_, worker, web, upnp>> => Running'
           /\ UNCHANGED <<quit, server, ticket, worker, queue, rooms, stray, ticket_>> => Ticketed'
           /\ UNCHANGED <<quit, worker, ticket, ticket_, rooms>> => Stored'
           /\ UNCHANGED <<connector, busyConnect, queue, holds, client>> => ConnectBusy'
           /\ UNCHANGED <<holds, client, connector, queue, fuse>> => Coming'
           /\ UNCHANGED <<loop, fuse, client, dropped, gui, quit>> => Mounted'
           /\ UNCHANGED <<gui, active, callback, queue, loop>> => Ejections'
<1> USE DEF DesktopInv
<1>1. UNCHANGED <<server, web, upnp, rooms, stray, ticket, worker, server_, webHost, ticket_, busyShare>>
          => ShareTypes'
    BY DEF ShareTypes
<1>2. UNCHANGED <<mounting, holds, busyConnect, shown, gui>> => MountTypes'
    BY DEF MountTypes, mounting
<1>3. UNCHANGED <<queue, quit, callback>> => QueueTypes' /\ Waiting' = Waiting
    BY DEF QueueTypes, Waiting
<1>4. UNCHANGED <<worker, busyShare, queue>> => ShareBusy'
    BY DEF ShareBusy, Waiting
<1>5. UNCHANGED <<quit, worker, server_, ticket_, ticket, queue>> => Holding'
    BY DEF Holding, Waiting
<1>6. UNCHANGED <<quit, server, server_, worker, web, upnp>> => Running'
    BY DEF Running
<1>7. UNCHANGED <<quit, server, ticket, worker, queue, rooms, stray, ticket_>> => Ticketed'
    BY DEF Ticketed, Waiting, Tickets
<1>8. UNCHANGED <<quit, worker, ticket, ticket_, rooms>> => Stored'
    BY DEF Stored
<1>9. UNCHANGED <<connector, busyConnect, queue, holds, client>> => ConnectBusy'
    BY DEF ConnectBusy, Waiting
<1>10. UNCHANGED <<holds, client, connector, queue, fuse>> => Coming'
    BY DEF Coming, Waiting, Held
<1>11. UNCHANGED <<loop, fuse, client, dropped, gui, quit>> => Mounted'
    BY DEF Mounted
<1>12. UNCHANGED <<gui, active, callback, queue, loop>> => Ejections'
    BY DEF Ejections
<1> QED
    BY <1>1, <1>2, <1>3, <1>4, <1>5, <1>6, <1>7, <1>8, <1>9, <1>10, <1>11, <1>12

LEMMA Nothing ==
    ASSUME NEW S
    PROVE  <<>> \in Seq(S) /\ DOMAIN <<>> = {} /\ Len(<<>>) = 0
OBVIOUS

\* What is assigned has its type, the rest is left alone.
LEMMA MountTyped ==
    ASSUME MountTypes,
           client' = client \/ client' \in [Conn -> {"none", "up", "lost", "closed", "gone"}],
           kind' = kind \/ kind' \in [Conn -> Kind],
           dropped' = dropped \/ dropped' \subseteq Conn,
           \/ connector' = connector
           \/ connector' \in [conn : Conn \cup {NoConn}, pc : {"idle", "posted"} \cup Connects1],
           fuse' = fuse \/ fuse' \in Conn \cup {NoConn},
           loop' = loop \/ loop' \in {"none", "running", "out", "ended"},
           active' = active \/ active' \in BOOLEAN,
           stopping' = stopping \/ stopping' \in BOOLEAN,
           holds' = holds \/ holds' \in [Kind -> Conn \cup {NoConn}],
           busyConnect' = busyConnect \/ busyConnect' \in BOOLEAN,
           shown' = shown \/ shown' \in BOOLEAN,
           \/ gui' = gui
           \/ gui' \in [pc : {"loop", "wait", "seen", "stop"}, then : {"", "drop", "unmounted", "quit"},
                       conn : Conn \cup {NoConn}]
    PROVE  MountTypes'
<1>0. /\ client \in [Conn -> {"none", "up", "lost", "closed", "gone"}] /\ kind \in [Conn -> Kind]
      /\ fuse \in Conn \cup {NoConn} /\ loop \in {"none", "running", "out", "ended"}
    BY DEF MountTypes
<1>1. client' \in [Conn -> {"none", "up", "lost", "closed", "gone"}]
    BY <1>0
<1>2. kind' \in [Conn -> Kind] /\ dropped' \subseteq Conn
    <2>1. kind' \in [Conn -> Kind]
        BY <1>0
    <2>2. dropped' \subseteq Conn
        BY DEF MountTypes
    <2> QED
        BY <2>1, <2>2
<1>3. connector' \in [conn : Conn \cup {NoConn}, pc : {"idle", "posted"} \cup Connects1]
    BY DEF MountTypes
<1>4. fuse' \in Conn \cup {NoConn} /\ loop' \in {"none", "running", "out", "ended"}
    <2>1. fuse' \in Conn \cup {NoConn}
        BY <1>0
    <2>2. loop' \in {"none", "running", "out", "ended"}
        BY <1>0
    <2> QED
        BY <2>1, <2>2
<1>5. active' \in BOOLEAN /\ stopping' \in BOOLEAN
    BY DEF MountTypes
<1>6. holds' \in [Kind -> Conn \cup {NoConn}]
    BY DEF MountTypes
<1>7. busyConnect' \in BOOLEAN /\ shown' \in BOOLEAN
    BY DEF MountTypes
<1>8. gui' \in [pc : {"loop", "wait", "seen", "stop"}, then : {"", "drop", "unmounted", "quit"},
              conn : Conn \cup {NoConn}]
    BY DEF MountTypes
<1> QED
    BY <1>1, <1>2, <1>3, <1>4, <1>5, <1>6, <1>7, <1>8 DEF MountTypes

\* What the window holds is a connection.
LEMMA Holds ==
    ASSUME MountTypes
    PROVE  \A k \in Kind : holds[k] # NoConn => holds[k] \in Conn /\ holds[k] \in Held
<1>1. holds \in [Kind -> Conn \cup {NoConn}]
    BY DEF MountTypes
<1> QED
    BY <1>1 DEF Held

LEMMA InitHolds == Init => DesktopInv
<1> SUFFICES ASSUME Init PROVE DesktopInv
    OBVIOUS
<1> USE DEF Init, HostingInit, MountingInit
<1>1. queue = <<>> /\ DOMAIN queue = {} /\ Waiting = {}
    <2>1. queue = <<>>
        OBVIOUS
    <2>2. DOMAIN queue = {}
        BY <2>1, Nothing
    <2> QED
        BY <2>1, <2>2 DEF Waiting
<1>2. ShareTypes
    <2>1. 1 \in 1 .. Attempts
        BY Numbers
    <2>2. worker \in [share : Share \cup {NoShare}, pc : {"idle", "posted"} \cup Starting \cup Stopping,
                     try : 1 .. Attempts]
        BY <2>1
    <2> QED
        BY <2>2 DEF ShareTypes
<1>3. MountTypes
    <2>1. "tcp" \in Kind
        BY MountingAssumption
    <2>2. connector \in [conn : Conn \cup {NoConn}, pc : {"idle", "posted"} \cup Connects1]
        OBVIOUS
    <2>3. gui \in [pc : {"loop", "wait", "seen", "stop"}, then : {"", "drop", "unmounted", "quit"},
                   conn : Conn \cup {NoConn}]
        OBVIOUS
    <2> QED
        BY <2>1, <2>2, <2>3 DEF MountTypes
<1>4. QueueTypes
    <2>1. queue \in Seq(Events)
        BY <1>1, Nothing
    <2> QED
        BY <1>1, <2>1 DEF QueueTypes, Steps
<1>5. ShareBusy /\ Holding /\ Running
    BY <1>1, Numbers DEF ShareBusy, Holding, Running, Starting, Stopping
<1>6. Ticketed /\ Stored
    BY <1>1 DEF Ticketed, Stored, Finished
<1>7. ConnectBusy /\ Coming /\ Mounted /\ Ejections
    BY <1>1 DEF ConnectBusy, Coming, Mounted, Ejections, Connects1, NoConn
<1> QED
    BY <1>2, <1>3, <1>4, <1>5, <1>6, <1>7 DEF DesktopInv
-----------------------------------------------------------------------------
(* The share worker.                                                       *)

Working == Starting \cup Stopping

\* The worker goes on with its share; only what it does to servers, ports and rooms is open.
LEMMA WorkKeepsInv ==
    ASSUME DesktopInv, UNCHANGED <<mounting, window>>,
           worker'.share = worker.share,
           \/ worker.pc \in Starting /\ worker'.pc \in Starting
           \/ worker.pc \in Stopping /\ worker'.pc \in Stopping,
           ShareTypes', Running', Ticketed', Stored'
    PROVE  DesktopInv'
<1> USE DEF mounting, window
<1>1. MountTypes' /\ QueueTypes' /\ ConnectBusy' /\ Coming' /\ Mounted' /\ Ejections' /\ Waiting' = Waiting
    BY Frame
<1>2. ShareBusy'
    BY <1>1 DEF DesktopInv, ShareBusy, Starting, Stopping
<1>3. Holding'
    <2> SUFFICES ASSUME quit = "open" PROVE Holding'
        BY DEF Holding
    <2>1. ticket_ = NoRoom
        BY DEF DesktopInv, Holding
    <2>2. \A e \in Waiting : e.what \notin {"started", "stopped"}
        BY Results DEF DesktopInv, ShareBusy
    <2>3. CASE worker.pc \in Starting /\ worker'.pc \in Starting
        BY <1>1, <2>1, <2>2, <2>3 DEF DesktopInv, Holding, Starting, Stopping
    <2>4. CASE worker.pc \in Stopping /\ worker'.pc \in Stopping
        BY <1>1, <2>1, <2>2, <2>4 DEF DesktopInv, Holding, Starting, Stopping
    <2> QED
        BY <2>3, <2>4
<1> QED
    BY <1>1, <1>2, <1>3 DEF DesktopInv

\* A step that publishes and removes nothing.
LEMMA QuietWorkKeepsInv ==
    ASSUME DesktopInv, UNCHANGED <<mounting, window, rooms, stray, ticket>>,
           worker'.share = worker.share,
           \/ worker.pc \in Starting /\ worker'.pc \in Starting
           \/ worker.pc \in Stopping /\ worker'.pc \in Stopping,
           ShareTypes', Running',
           \A s \in Share : server'[s] = "none" => server[s] = "none",
           worker'.pc \in {"server", "address", "cloudflare", "firebase"} => ticket[worker.share] = NoRoom,
           quit = "open" /\ (\/ worker'.pc \in {"undo", "destroy", "stopped"}
                             \/ worker'.pc = "started" /\ server'[worker.share] # "running") =>
               ticket[worker.share] = NoRoom
    PROVE  DesktopInv'
<1> USE DEF mounting, window
<1>1. ~Finished(worker.pc) /\ ~Finished(worker'.pc)
    BY DEF Finished, Starting, Stopping
<1>2. Waiting' = Waiting
    BY Frame
<1>3. \A e \in Waiting : e.what \notin {"started", "stopped"}
    BY Results DEF DesktopInv, ShareBusy
<1>4. Ticketed'
    <2> SUFFICES ASSUME quit = "open" PROVE Ticketed'
        BY DEF Ticketed
    <2>1. \A r : r \in Tickets => r \in Tickets'
        BY <1>1, <1>2, TicketsAre DEF InHand
    <2>2. rooms' \ stray' \subseteq Tickets'
        BY <2>1 DEF DesktopInv, Ticketed
    <2>3. \A s \in Share : server'[s] = "none" => ticket'[s] = NoRoom
        BY DEF DesktopInv, Ticketed
    <2> QED
        BY <1>2, <1>3, <2>2, <2>3 DEF Ticketed
<1>5. Stored'
    <2>1. ticket_' # NoRoom => \E s \in Share : ticket_' = ticket'[s] /\ worker'.share # s
        BY <1>1 DEF DesktopInv, Stored
    <2>2. quit' \in {"open", "connector", "worker"}
        BY <1>1 DEF DesktopInv, Stored
    <2> QED
        BY <2>1, <2>2 DEF DesktopInv, Stored
<1> QED
    BY <1>4, <1>5, WorkKeepsInv

LEMMA Goes ==
    ASSUME ShareTypes, NEW pc \in Working, Goto(pc)
    PROVE  /\ worker'.share = worker.share /\ worker'.pc = pc
           /\ worker' \in [share : Share \cup {NoShare}, pc : {"idle", "posted"} \cup Starting \cup Stopping,
                           try : 1 .. Attempts]
<1>1. worker \in [share : Share \cup {NoShare}, pc : {"idle", "posted"} \cup Starting \cup Stopping,
                  try : 1 .. Attempts]
    BY DEF ShareTypes
<1>2. worker' = [share |-> worker.share, pc |-> pc, try |-> 1]
    BY <1>1 DEF Goto
<1> QED
    BY <1>1, <1>2, Numbers DEF Working

LEMMA StartingKeepsInv ==
    ASSUME DesktopInv, UNCHANGED <<mounting, window>>,
           StartServer \/ PickAddress \/ StartWeb \/ Undo \/ (\E b \in Backend : NotConfigured(b))
    PROVE  DesktopInv'
<1> DEFINE s == worker.share
<1> USE DEF mounting, window, At
<1>0. /\ ShareTypes /\ worker.pc \in Starting /\ s \in Share /\ s # NoShare
      /\ quit = "open" => server_ = s
      /\ \A pc \in Starting : pc \in Working
    <2>1. worker.pc \in Starting
        BY DEF StartServer, PickAddress, StartWeb, Undo, NotConfigured, Starting, Backend
    <2>2. s \in Share \cup {NoShare}
        BY DEF DesktopInv, ShareTypes
    <2> QED
        BY <2>1, <2>2 DEF DesktopInv, ShareBusy, Holding, Working
<1>1. CASE StartServer
    <2>1. PICK pc \in {"address", "undo"} :
              /\ Goto(pc) /\ worker.pc = "server" /\ UNCHANGED <<web, upnp, rooms, stray, ticket>>
              /\ pc = "address" => server' = [server EXCEPT ![s] = "running"]
              /\ pc = "undo" => server' = server
        BY <1>1 DEF StartServer
    <2>2. worker'.share = s /\ worker'.pc = pc /\ pc \in Starting
        BY <1>0, <2>1, Goes DEF Starting
    <2>3. ShareTypes'
        BY <1>0, <2>1, <2>2, Goes DEF ShareTypes
    <2>4. Running'
        <3> SUFFICES ASSUME quit = "open" PROVE Running'
            BY DEF Running
        <3>1. server[s] = "made" /\ server_ = s
            BY <1>0, <2>1 DEF DesktopInv, Running
        <3>2. /\ \A t \in Share : server'[t] = IF t = s /\ pc = "address" THEN "running" ELSE server[t]
            BY <1>0, <2>1 DEF ShareTypes
        <3> QED
            BY <1>0, <2>1, <2>2, <3>1, <3>2, Numbers DEF DesktopInv, Running, ShareTypes
    <2>5. \A t \in Share : server'[t] = "none" => server[t] = "none"
        BY <1>0, <2>1 DEF ShareTypes
    <2>6. ticket[s] = NoRoom
        BY <2>1 DEF DesktopInv, Stored
    <2> QED
        BY <1>0, <2>1, <2>2, <2>3, <2>4, <2>5, <2>6, QuietWorkKeepsInv
<1>2. CASE PickAddress
    <2>1. PICK pc \in {"cloudflare", "undo"} : Goto(pc) /\ worker.pc = "address" /\ upnp' \in {upnp, s}
        BY <1>2 DEF PickAddress, MapOutcomes
    <2>2. worker'.share = s /\ worker'.pc = pc /\ pc \in Starting
        BY <1>0, <2>1, Goes DEF Starting
    <2>3. ShareTypes'
        BY <1>0, <1>2, <2>1, Goes DEF ShareTypes, PickAddress, Starting
    <2>4. Running'
        BY <1>0, <1>2, <2>1, <2>2 DEF DesktopInv, Running, PickAddress
    <2>5. ticket[s] = NoRoom
        BY <2>1 DEF DesktopInv, Stored
    <2> QED
        BY <1>0, <1>2, <2>2, <2>3, <2>4, <2>5, QuietWorkKeepsInv DEF PickAddress
<1>3. CASE StartWeb
    <2>1. Goto("started") /\ worker.pc = "web" /\ web' \in {web, [web EXCEPT ![s] = "running"]}
        BY <1>3 DEF StartWeb
    <2>2. worker'.share = s /\ worker'.pc = "started" /\ worker'.pc \in Starting
        BY <1>0, <2>1, Goes DEF Starting
    <2>3. ShareTypes'
        BY <1>0, <1>3, <2>1, Goes DEF ShareTypes, StartWeb, Starting
    <2>4. Running'
        <3>1. \A t \in Share : web'[t] = "running" => web[t] = "running" \/ t = s
            BY <1>0, <2>1 DEF ShareTypes
        <3> QED
            BY <1>0, <1>3, <2>1, <2>2, <3>1 DEF DesktopInv, Running, StartWeb
    <2>5. quit = "open" => server'[s] = "running"
        BY <1>3, <2>1 DEF DesktopInv, Running, StartWeb
    <2> QED
        BY <1>0, <1>3, <2>2, <2>3, <2>4, <2>5, QuietWorkKeepsInv DEF StartWeb
<1>4. CASE Undo
    <2>1. Goto("started") /\ worker.pc = "undo" /\ upnp' = NoShare
        BY <1>4 DEF Undo
    <2>2. worker'.share = s /\ worker'.pc = "started" /\ worker'.pc \in Starting
        BY <1>0, <2>1, Goes DEF Starting
    <2>3. \A t \in Share :
              server'[t] = IF t = s THEN (IF server[s] = "running" THEN "stopped" ELSE server[s]) ELSE server[t]
        BY <1>0, <1>4 DEF Undo, ShareTypes
    <2>4. ShareTypes'
        <3>1. server' \in [Share -> {"none", "made", "running", "stopped", "gone"}]
            BY <1>0, <1>4 DEF ShareTypes, Undo
        <3> QED
            BY <1>0, <1>4, <2>1, <3>1, Goes DEF ShareTypes, Undo, Starting
    <2>5. Running'
        <3> SUFFICES ASSUME quit = "open" PROVE Running'
            BY DEF Running
        <3>1. web[s] # "running" /\ server_ = s
            BY <1>0, <2>1 DEF DesktopInv, Running
        <3>2. \A t \in Share : server'[t] = "running" <=> (server[t] = "running" /\ t # s)
            BY <2>3
        <3>3. \A t \in Share : web[t] = "running" => server'[t] = "running"
            BY <3>1, <3>2 DEF DesktopInv, Running
        <3> QED
            BY <1>0, <1>4, <2>1, <2>2, <3>1, <3>2, <3>3, Numbers DEF DesktopInv, Running, Undo
    <2>6. quit = "open" => ticket[s] = NoRoom
        BY <2>1 DEF DesktopInv, Ticketed
    <2> QED
        BY <1>0, <1>4, <2>2, <2>3, <2>4, <2>5, <2>6, QuietWorkKeepsInv DEF Undo
<1>5. CASE \E b \in Backend : NotConfigured(b)
    <2>1. PICK pc \in {"firebase", "started"} :
              /\ Goto(pc) /\ UNCHANGED <<server, web, upnp, rooms, stray, ticket>>
              /\ worker.pc \in {"cloudflare", "firebase"}
        BY <1>5 DEF NotConfigured, Backend, After
    <2>2. worker'.share = s /\ worker'.pc = pc /\ worker'.pc \in Starting
        BY <1>0, <2>1, Goes DEF Starting
    <2>3. ShareTypes'
        BY <1>0, <2>1, <2>2, Goes DEF ShareTypes
    <2>4. Running'
        BY <1>0, <2>1, <2>2 DEF DesktopInv, Running
    <2>5. ticket[s] = NoRoom
        BY <2>1 DEF DesktopInv, Stored
    <2> QED
        BY <1>0, <2>1, <2>2, <2>3, <2>4, <2>5, QuietWorkKeepsInv
<1> QED
    BY <1>1, <1>2, <1>3, <1>4, <1>5
LEMMA PublishKeepsInv ==
    ASSUME DesktopInv, UNCHANGED <<mounting, window>>, NEW b \in Backend, Publish(b)
    PROVE  DesktopInv'
<1> DEFINE s == worker.share
           room == [share |-> s, backend |-> b, try |-> worker.try]
<1> USE DEF mounting, window, At
<1>0. /\ ShareTypes /\ worker.pc = b /\ b \in {"cloudflare", "firebase"} /\ worker.pc \in Starting
      /\ s \in Share /\ room \in Room /\ ticket[s] = NoRoom
      /\ UNCHANGED <<server, web, upnp>>
    <2>1. worker.pc = b /\ b \in {"cloudflare", "firebase"} /\ worker.pc \in Starting
        BY DEF Publish, Starting, Backend
    <2>2. s \in Share \cup {NoShare} /\ worker.try \in 1 .. Attempts
        BY DEF DesktopInv, ShareTypes
    <2>3. s \in Share
        BY <2>1, <2>2 DEF DesktopInv, ShareBusy
    <2> QED
        BY <2>1, <2>2, <2>3 DEF Room, DesktopInv, Stored, Publish
<1>1. PICK out \in CreateOutcomes(room) :
          /\ rooms' = out.rooms /\ stray' = out.stray
          /\ ticket' = IF out.ok THEN [ticket EXCEPT ![s] = room] ELSE ticket
          /\ CASE out.ok                           -> Goto("web")
               [] ~out.ok /\ worker.try < Attempts -> worker' = [worker EXCEPT !.try = @ + 1]
               [] OTHER                            -> Goto(After(b))
    BY DEF Publish
<1>2. /\ worker'.share = s /\ worker'.pc \in {"cloudflare", "firebase", "web", "started"}
      /\ out.ok <=> worker'.pc = "web"
      /\ worker' \in [share : Share \cup {NoShare}, pc : {"idle", "posted"} \cup Starting \cup Stopping,
                      try : 1 .. Attempts]
    <2>1. CASE out.ok
        <3>1. Goto("web") /\ "web" \in Working
            BY <1>1, <2>1 DEF Working, Starting
        <3> QED
            BY <1>0, <2>1, <3>1, Goes
    <2>2. CASE ~out.ok /\ worker.try < Attempts
        <3>1. worker' = [worker EXCEPT !.try = worker.try + 1]
            BY <1>1, <2>2
        <3>2. worker.try + 1 \in 1 .. Attempts
            BY <1>0, <2>2, Numbers DEF ShareTypes
        <3> QED
            BY <1>0, <2>2, <3>1, <3>2 DEF ShareTypes
    <2>3. CASE ~out.ok /\ ~(worker.try < Attempts)
        <3>1. Goto(After(b)) /\ After(b) \in {"firebase", "started"} /\ After(b) \in Working
            BY <1>0, <1>1, <2>3 DEF After, Working, Starting
        <3> QED
            BY <1>0, <2>3, <3>1, Goes
    <2> QED
        BY <2>1, <2>2, <2>3
<1>3. /\ rooms' \in {rooms, rooms \cup {room}} /\ stray' \in {stray, stray \cup {room}}
      /\ out.ok => rooms' = rooms \cup {room} /\ stray' = stray
      /\ ~out.ok => rooms' \ stray' \subseteq rooms \ stray
      /\ stray' \subseteq rooms'
    BY <1>0, <1>1 DEF CreateOutcomes, ShareTypes
<1>4. /\ ticket' \in [Share -> Room \cup {NoRoom}]
      /\ \A t \in Share : ticket'[t] = IF t = s /\ out.ok THEN room ELSE ticket[t]
    BY <1>0, <1>1 DEF ShareTypes
<1>5. ShareTypes'
    <2>1. rooms' \subseteq Room
        BY <1>0, <1>3 DEF ShareTypes
    <2> QED
        BY <1>0, <1>2, <1>3, <1>4, <2>1 DEF ShareTypes
<1>6. /\ ~Finished(worker.pc) /\ ~Finished(worker'.pc) /\ worker'.pc \in Starting
      /\ \A e \in Waiting : e.what \notin {"started", "stopped"}
    <2>1. \A e \in Waiting : e.what \notin {"started", "stopped"}
        BY <1>0, Results DEF DesktopInv, ShareBusy
    <2> QED
        BY <1>0, <1>2, <2>1 DEF Finished, Starting
<1>7. Running'
    BY <1>0, <1>2 DEF DesktopInv, Running
<1>8. Waiting' = Waiting
    BY Frame DEF DesktopInv
<1>9. Ticketed'
    <2> SUFFICES ASSUME quit = "open" PROVE Ticketed'
        BY DEF Ticketed
    <2>1. server[s] = "running" /\ ticket_ = NoRoom
        BY <1>0 DEF DesktopInv, Running, Holding
    <2>2. ASSUME NEW r \in rooms' \ stray' PROVE r \in Tickets'
        <3>1. CASE out.ok /\ r = room
            <4>1. r = ticket'[worker'.share]
                BY <1>0, <1>2, <1>4, <3>1
            <4> QED
                BY <1>0, <1>2, <1>6, <4>1, TicketsAre DEF InHand
        <3>2. CASE r \in rooms \ stray
            <4>1. r \in Room /\ r # NoRoom
                BY <1>0, <3>2, Numbers DEF ShareTypes
            <4>2. InHand(r, ticket_, ticket, Waiting, worker)
                BY <3>2, TicketsAre DEF DesktopInv, Ticketed
            <4> QED
                BY <1>0, <1>6, <2>1, <4>1, <4>2 DEF InHand
        <3> QED
            BY <1>3, <3>1, <3>2
    <2>3. \A t \in Share : server'[t] = "none" => ticket'[t] = NoRoom
        BY <1>0, <1>4, <2>1 DEF DesktopInv, Ticketed
    <2>4. worker'.pc # "web" => ticket'[worker'.share] = NoRoom
        BY <1>0, <1>2, <1>4
    <2> QED
        BY <1>2, <1>6, <1>8, <2>2, <2>3, <2>4 DEF Ticketed
<1>10. Stored'
    <2>1. ticket_' # NoRoom => \E t \in Share : ticket_' = ticket'[t] /\ worker'.share # t
        BY <1>0, <1>2, <1>4, <1>6 DEF DesktopInv, Stored
    <2>2. quit' \in {"open", "connector", "worker"}
        BY <1>6 DEF DesktopInv, Stored
    <2>3. ASSUME NEW t \in Share, ticket'[t] # NoRoom PROVE ticket'[t].share = t /\ ticket'[t] \in rooms'
        <3>1. \A u \in Share : ticket[u] # NoRoom => ticket[u].share = u /\ ticket[u] \in rooms
            BY <2>2 DEF DesktopInv, Stored
        <3>2. CASE t = s /\ out.ok
            BY <1>3, <1>4, <3>2
        <3>3. CASE ~(t = s /\ out.ok)
            BY <1>3, <1>4, <2>3, <3>1, <3>3
        <3> QED
            BY <3>2, <3>3
    <2>4. worker'.pc # "web" => ticket'[worker'.share] = NoRoom
        BY <1>0, <1>2, <1>4
    <2> QED
        BY <2>1, <2>2, <2>3, <2>4 DEF Stored
<1> QED
    BY <1>0, <1>2, <1>5, <1>6, <1>7, <1>9, <1>10, WorkKeepsInv

LEMMA StoppingKeepsInv ==
    ASSUME DesktopInv, UNCHANGED <<mounting, window>>, StopWeb \/ Unmap \/ StopServer \/ Destroy
    PROVE  DesktopInv'
<1> DEFINE s == worker.share
<1> USE DEF mounting, window, At
<1>0. /\ ShareTypes /\ worker.pc \in Stopping /\ s \in Share /\ s # NoShare
      /\ quit = "open" => server_ = NoShare
      /\ \A pc \in Stopping : pc \in Working
    <2>1. worker.pc \in Stopping
        BY DEF StopWeb, Unmap, StopServer, Destroy, Stopping
    <2>2. s \in Share \cup {NoShare}
        BY DEF DesktopInv, ShareTypes
    <2> QED
        BY <2>1, <2>2 DEF DesktopInv, ShareBusy, Holding, Working
<1>1. CASE StopWeb
    <2>1. Goto("unmap") /\ worker.pc = "webstop"
        BY <1>1 DEF StopWeb
    <2>2. worker'.share = s /\ worker'.pc = "unmap" /\ worker'.pc \in Stopping
        BY <1>0, <2>1, Goes DEF Stopping
    <2>3. /\ web' \in [Share -> {"none", "running", "gone"}]
          /\ \A t \in Share : web'[t] = "running" => web[t] = "running" /\ t # s
        BY <1>0, <1>1 DEF StopWeb, ShareTypes
    <2>4. ShareTypes'
        BY <1>0, <1>1, <2>1, <2>3, Goes DEF ShareTypes, StopWeb, Stopping
    <2>5. Running'
        BY <1>0, <1>1, <2>1, <2>2, <2>3, Numbers DEF DesktopInv, Running, StopWeb
    <2> QED
        BY <1>0, <1>1, <2>2, <2>4, <2>5, QuietWorkKeepsInv DEF StopWeb
<1>2. CASE Unmap
    <2>1. Goto("srvstop") /\ worker.pc = "unmap" /\ upnp' = NoShare
        BY <1>2 DEF Unmap, Unmapped
    <2>2. worker'.share = s /\ worker'.pc = "srvstop" /\ worker'.pc \in Stopping
        BY <1>0, <2>1, Goes DEF Stopping
    <2>3. ShareTypes'
        BY <1>0, <1>2, <2>1, Goes DEF ShareTypes, Unmap, Stopping
    <2>4. Running'
        BY <1>0, <1>2, <2>1, <2>2 DEF DesktopInv, Running, Unmap
    <2> QED
        BY <1>0, <1>2, <2>2, <2>3, <2>4, QuietWorkKeepsInv DEF Unmap
<1>3. CASE StopServer
    <2>1. Goto("remove") /\ worker.pc = "srvstop"
        BY <1>3 DEF StopServer
    <2>2. worker'.share = s /\ worker'.pc = "remove" /\ worker'.pc \in Stopping
        BY <1>0, <2>1, Goes DEF Stopping
    <2>3. /\ server' \in [Share -> {"none", "made", "running", "stopped", "gone"}]
          /\ \A t \in Share : server'[t] = IF t = s THEN "stopped" ELSE server[t]
        BY <1>0, <1>3 DEF StopServer, ShareTypes
    <2>4. ShareTypes'
        BY <1>0, <1>3, <2>1, <2>3, Goes DEF ShareTypes, StopServer, Stopping
    <2>5. Running'
        <3> SUFFICES ASSUME quit = "open" PROVE Running'
            BY DEF Running
        <3>1. upnp = NoShare /\ web[s] # "running" /\ server_ = NoShare
            BY <1>0, <2>1, Numbers DEF DesktopInv, Running, ShareTypes
        <3> QED
            BY <1>0, <1>3, <2>1, <2>2, <2>3, <3>1, Numbers DEF DesktopInv, Running, StopServer
    <2> QED
        BY <1>0, <1>3, <2>2, <2>3, <2>4, <2>5, QuietWorkKeepsInv DEF StopServer
<1>4. CASE Destroy
    <2>1. Goto("stopped") /\ worker.pc = "destroy"
        BY <1>4 DEF Destroy
    <2>2. worker'.share = s /\ worker'.pc = "stopped" /\ worker'.pc \in Stopping
        BY <1>0, <2>1, Goes DEF Stopping
    <2>3. /\ server' \in [Share -> {"none", "made", "running", "stopped", "gone"}]
          /\ \A t \in Share : server'[t] = IF t = s THEN "gone" ELSE server[t]
        BY <1>0, <1>4 DEF Destroy, ShareTypes
    <2>4. ShareTypes'
        BY <1>0, <1>4, <2>1, <2>3, Goes DEF ShareTypes, Destroy, Stopping
    <2>5. Running'
        <3> SUFFICES ASSUME quit = "open" PROVE Running'
            BY DEF Running
        <3>1. upnp = NoShare /\ web[s] # "running" /\ server_ = NoShare
            BY <1>0, <2>1, Numbers DEF DesktopInv, Running, ShareTypes
        <3> QED
            BY <1>0, <1>4, <2>1, <2>2, <2>3, <3>1, Numbers DEF DesktopInv, Running, Destroy
    <2>6. quit = "open" => ticket[s] = NoRoom
        BY <2>1 DEF DesktopInv, Ticketed
    <2> QED
        BY <1>0, <1>4, <2>2, <2>3, <2>4, <2>5, <2>6, QuietWorkKeepsInv DEF Destroy
<1> QED
    BY <1>1, <1>2, <1>3, <1>4

LEMMA RemoveRoomKeepsInv ==
    ASSUME DesktopInv, UNCHANGED <<mounting, window>>, RemoveRoom
    PROVE  DesktopInv'
<1> DEFINE s == worker.share
<1> USE DEF mounting, window, At
<1>0. /\ ShareTypes /\ worker.pc = "remove" /\ worker.pc \in Stopping /\ s \in Share
      /\ UNCHANGED <<server, web, upnp>>
    <2>1. s \in Share \cup {NoShare}
        BY DEF DesktopInv, ShareTypes
    <2> QED
        BY <2>1 DEF DesktopInv, ShareBusy, RemoveRoom, Stopping
<1>1. Goto("destroy") /\ "destroy" \in Working
    BY DEF RemoveRoom, Working, Stopping
<1>2. worker'.share = s /\ worker'.pc = "destroy" /\ worker'.pc \in Stopping
    BY <1>0, <1>1, Goes DEF Stopping
<1>3. /\ ticket' \in [Share -> Room \cup {NoRoom}]
      /\ \A t \in Share : ticket'[t] = IF t = s THEN NoRoom ELSE ticket[t]
    BY <1>0 DEF ShareTypes, RemoveRoom
<1>4. /\ ~Finished(worker.pc) /\ ~Finished(worker'.pc) /\ quit \in {"open", "connector", "worker"}
      /\ \A e \in Waiting : e.what \notin {"started", "stopped"}
    <2>1. \A e \in Waiting : e.what \notin {"started", "stopped"}
        BY <1>0, Results DEF DesktopInv, ShareBusy
    <2> QED
        BY <1>0, <1>2, <2>1 DEF Finished, DesktopInv, Stored
<1>5. /\ \A t \in Share : ticket[t] # NoRoom => ticket[t].share = t /\ ticket[t] \in rooms
      /\ rooms' \subseteq rooms /\ stray' \subseteq rooms' /\ ticket[s] \notin rooms' \ stray'
      /\ rooms' \ stray' \subseteq rooms \ stray
      /\ \A r \in rooms : r # ticket[s] => r \in rooms'
    <2>1. \A t \in Share : ticket[t] # NoRoom => ticket[t].share = t /\ ticket[t] \in rooms
        BY <1>4 DEF DesktopInv, Stored
    <2>2. NoRoom \notin rooms /\ stray \subseteq rooms
        BY <1>0, Numbers DEF ShareTypes
    <2> QED
        BY <1>0, <2>1, <2>2 DEF RemoveRoom, Removal
<1>6. ShareTypes'
    BY <1>0, <1>1, <1>3, <1>5, Goes DEF ShareTypes
<1>7. Running'
    BY <1>0, <1>2 DEF DesktopInv, Running
<1>8. Waiting' = Waiting
    BY Frame DEF DesktopInv
<1>9. Ticketed'
    <2> SUFFICES ASSUME quit = "open" PROVE Ticketed'
        BY DEF Ticketed
    <2>1. server_ = NoShare /\ ticket_ = NoRoom
        BY <1>0 DEF DesktopInv, Holding
    <2>2. ASSUME NEW r \in rooms' \ stray' PROVE r \in Tickets'
        <3>1. r \in rooms \ stray /\ r # ticket[s] /\ r # NoRoom
            BY <1>0, <1>5, Numbers DEF ShareTypes
        <3>2. InHand(r, ticket_, ticket, Waiting, worker)
            BY <3>1, TicketsAre DEF DesktopInv, Ticketed
        <3> QED
            BY <1>4, <2>1, <3>1, <3>2 DEF InHand
    <2>3. \A t \in Share : server'[t] = "none" => ticket'[t] = NoRoom
        BY <1>0, <1>3 DEF DesktopInv, Ticketed
    <2>4. ticket'[worker'.share] = NoRoom
        BY <1>0, <1>2, <1>3
    <2> QED
        BY <1>2, <1>4, <1>8, <2>2, <2>3, <2>4 DEF Ticketed
<1>10. Stored'
    <2>1. ticket_' # NoRoom => \E t \in Share : ticket_' = ticket'[t] /\ worker'.share # t
        BY <1>0, <1>2, <1>3, <1>4 DEF DesktopInv, Stored
    <2>2. ASSUME NEW t \in Share, ticket'[t] # NoRoom PROVE ticket'[t].share = t /\ ticket'[t] \in rooms'
        <3>1. t # s /\ ticket'[t] = ticket[t]
            BY <1>3, <2>2
        <3>2. ticket[t].share = t /\ ticket[t] \in rooms
            BY <1>5, <2>2, <3>1
        <3>3. ticket[t] # ticket[s]
            BY <1>0, <1>5, <2>2, <3>1, <3>2
        <3> QED
            BY <1>5, <3>1, <3>2, <3>3
    <2> QED
        BY <1>2, <1>4, <2>1, <2>2 DEF Stored
<1> QED
    BY <1>0, <1>2, <1>6, <1>7, <1>9, <1>10, WorkKeepsInv
-----------------------------------------------------------------------------
(* The window and the share worker.                                        *)

LEMMA EjectionsPosted ==
    ASSUME DesktopInv, NEW e \in Events, e.what # "ejected", queue' = Append(queue, e),
           \A d \in Waiting : From(d) # From(e), UNCHANGED <<quit, callback, gui, active, loop>>
    PROVE  Ejections'
<1>1. /\ Len(queue) \in Nat /\ DOMAIN queue = 1 .. Len(queue) /\ DOMAIN queue' = 1 .. Len(queue) + 1
      /\ queue'[Len(queue) + 1] = e /\ \A i \in DOMAIN queue : queue'[i] = queue[i]
    BY Posting DEF DesktopInv
<1>2. \A i \in DOMAIN queue' : queue'[i].what = "ejected" =>
          i \in DOMAIN queue /\ queue[i].what = "ejected" /\ \A j \in DOMAIN queue' : j < i =>
              j \in DOMAIN queue /\ queue'[j] = queue[j]
    BY <1>1
<1> QED
    BY <1>2 DEF DesktopInv, Ejections

LEMMA EjectionsHandled ==
    ASSUME DesktopInv, queue # <<>>, queue' = Tail(queue), UNCHANGED <<quit, callback, gui, active, loop>>
    PROVE  Ejections'
<1>1. /\ Len(queue) \in Nat /\ DOMAIN queue = 1 .. Len(queue) /\ DOMAIN queue' = 1 .. Len(queue) - 1
      /\ \A i \in DOMAIN queue' : i + 1 \in DOMAIN queue /\ queue'[i] = queue[i + 1]
    BY Handling DEF DesktopInv
<1>2. \A i, j \in DOMAIN queue' : j < i => j + 1 < i + 1
    BY <1>1
<1> QED
    BY <1>1, <1>2 DEF DesktopInv, Ejections

\* The worker and the window share nothing with the mount.
LEMMA HostingKeepsMount ==
    ASSUME DesktopInv, QueueTypes', UNCHANGED <<mounting, holds, busyConnect, gui, callback, quit>>,
           \A e \in Waiting' : e \in Waiting \/ From(e) = "share"
    PROVE  ConnectBusy' /\ Coming' /\ Mounted'
<1> USE DEF mounting
<1>1. \A e \in Waiting' : e.what = "connected" => e \in Waiting
    BY DEF From
<1>2. ConnectBusy'
    <2>1. \A e \in Waiting' : From(e) = "connect" => e \in Waiting
        BY DEF From
    <2> QED
        BY <2>1 DEF DesktopInv, ConnectBusy
<1>3. Coming'
    BY <1>1 DEF DesktopInv, Coming, Held
<1>4. Mounted'
    BY Frame DEF DesktopInv
<1> QED
    BY <1>2, <1>3, <1>4

LEMMA SharePostsKeepsInv ==
    ASSUME DesktopInv, SharePosts
    PROVE  DesktopInv'
<1> DEFINE s == worker.share
           e == [what |-> worker.pc, of |-> s]
<1> USE DEF mounting
<1>0. /\ ShareTypes /\ worker.pc \in {"started", "stopped"} /\ s \in Share /\ s # NoShare
      /\ UNCHANGED <<server, web, upnp, rooms, stray, ticket, server_, webHost, ticket_, busyShare>>
      /\ UNCHANGED <<mounting, holds, busyConnect, shown, gui, callback, quit>>
    <2>1. worker.pc \in {"started", "stopped"}
        BY DEF SharePosts
    <2>2. s \in Share \cup {NoShare}
        BY DEF DesktopInv, ShareTypes
    <2> QED
        BY <2>1, <2>2, Numbers DEF DesktopInv, ShareBusy, SharePosts, Starting, Stopping
<1>1. e \in Events /\ From(e) = "share"
    BY <1>0 DEF Events, From
<1>2. queue' = Append(queue, e) /\ worker' = [worker EXCEPT !.pc = "posted", !.try = 1]
    BY DEF SharePosts, Posted, Goto
<1>3. \A d \in Waiting : From(d) # "share"
    BY <1>0 DEF DesktopInv, ShareBusy, Starting, Stopping
<1>4. QueueTypes' /\ Waiting' = Waiting \cup {e}
    BY <1>0, <1>1, <1>2, <1>3, Posting DEF DesktopInv
<1>5. /\ worker'.share = s /\ worker'.pc = "posted"
      /\ worker' \in [share : Share \cup {NoShare}, pc : {"idle", "posted"} \cup Starting \cup Stopping,
                      try : 1 .. Attempts]
    <2>1. worker \in [share : Share \cup {NoShare}, pc : {"idle", "posted"} \cup Starting \cup Stopping,
                      try : 1 .. Attempts]
        BY <1>0 DEF ShareTypes
    <2>2. worker' = [share |-> s, pc |-> "posted", try |-> 1]
        BY <1>2, <2>1
    <2> QED
        BY <2>1, <2>2, Numbers
<1>6. ShareTypes' /\ MountTypes'
    <2>1. MountTypes'
        BY <1>0, Frame
    <2> QED
        BY <1>0, <1>5, <2>1 DEF ShareTypes
<1>7. ShareBusy'
    BY <1>0, <1>3, <1>4, <1>5 DEF DesktopInv, ShareBusy, Starting, Stopping
<1>8. \A d \in Waiting : d.what \notin {"started", "stopped"}
    BY <1>3, Results DEF DesktopInv
<1>9. Holding'
    <2> SUFFICES ASSUME quit = "open" PROVE Holding'
        BY <1>0 DEF Holding
    <2>1. /\ worker.pc = "started" => server_ = s /\ ticket_ = NoRoom
          /\ worker.pc = "stopped" => server_ = NoShare
        BY DEF DesktopInv, Holding, Starting, Stopping
    <2>2. \A d \in Waiting' : d.what \in {"started", "stopped"} => d = e
        BY <1>4, <1>8
    <2>3. worker'.pc \notin Starting \cup Stopping
        BY <1>5 DEF Starting, Stopping
    <2> QED
        BY <1>0, <2>1, <2>2, <2>3 DEF DesktopInv, Holding
<1>10. Running'
    BY <1>0, <1>5 DEF DesktopInv, Running
<1>11. Ticketed'
    <2> SUFFICES ASSUME quit = "open" PROVE Ticketed'
        BY <1>0 DEF Ticketed
    <2>1. /\ worker.pc = "stopped" => ticket[s] = NoRoom
          /\ worker.pc = "started" /\ server[s] # "running" => ticket[s] = NoRoom
        BY DEF DesktopInv, Ticketed
    <2>2. ASSUME NEW r \in rooms' \ stray' PROVE r \in Tickets'
        <3>1. r # NoRoom
            BY <1>0, <2>2, Numbers DEF ShareTypes
        <3>2. InHand(r, ticket_, ticket, Waiting, worker)
            BY <1>0, <2>2, TicketsAre DEF DesktopInv, Ticketed
        <3>3. CASE r = ticket[s]
            <4>1. e.what = "started" /\ r = ticket[e.of]
                BY <1>0, <2>1, <3>1, <3>3
            <4> QED
                BY <1>0, <1>4, <4>1, TicketsAre DEF InHand
        <3>4. CASE r # ticket[s]
            BY <1>0, <1>4, <3>2, <3>4, TicketsAre DEF InHand
        <3> QED
            BY <3>3, <3>4
    <2>3. \A d \in Waiting' : d.what = "started" => d = e
        BY <1>4, <1>8
    <2> QED
        BY <1>0, <1>5, <2>1, <2>2, <2>3 DEF DesktopInv, Ticketed
<1>12. Stored'
    <2>1. quit \in {"open", "connector", "worker"}
        BY <1>0 DEF DesktopInv, Stored, Finished
    <2>2. Finished(worker'.pc)
        BY <1>5 DEF Finished
    <2> QED
        BY <1>0, <1>5, <2>1, <2>2 DEF DesktopInv, Stored
<1>13. ConnectBusy' /\ Coming' /\ Mounted'
    BY <1>0, <1>1, <1>4, HostingKeepsMount
<1>14. Ejections'
    BY <1>0, <1>1, <1>2, <1>3, EjectionsPosted
<1> QED
    BY <1>4, <1>6, <1>7, <1>9, <1>10, <1>11, <1>12, <1>13, <1>14 DEF DesktopInv

LEMMA PressHostKeepsInv ==
    ASSUME DesktopInv, NEW s \in Share, PressHost(s)
    PROVE  DesktopInv'
<1> USE DEF mounting
<1>0. /\ ShareTypes /\ quit = "open" /\ ~busyShare /\ server_ = NoShare /\ server[s] = "none"
      /\ worker.pc \in {"idle", "posted"} /\ s # NoShare /\ ticket[s] = NoRoom /\ ticket_ = NoRoom
      /\ UNCHANGED <<web, upnp, rooms, stray, ticket, webHost, ticket_, queue, callback, quit>>
      /\ UNCHANGED <<mounting, holds, busyConnect, shown, gui>>
      /\ server_' = s /\ busyShare' = TRUE /\ worker' = [share |-> s, pc |-> "server", try |-> 1]
    <2>1. quit = "open" /\ server_ = NoShare /\ server[s] = "none"
        BY DEF PressHost, Clicks
    <2> QED
        BY <2>1, Numbers DEF PressHost, Finished, DesktopInv, Ticketed, Holding
<1>1. /\ server' \in [Share -> {"none", "made", "running", "stopped", "gone"}]
      /\ \A t \in Share : server'[t] = IF t = s THEN "made" ELSE server[t]
    BY <1>0 DEF PressHost, ShareTypes
<1>2. QueueTypes' /\ Waiting' = Waiting /\ MountTypes' /\ Ejections'
    BY <1>0, Frame
<1>3. \A e \in Waiting : From(e) # "share" /\ e.what \notin {"started", "stopped"}
    BY <1>0, Results DEF DesktopInv, ShareBusy
<1>4. ShareTypes'
    <2>1. worker' \in [share : Share \cup {NoShare}, pc : {"idle", "posted"} \cup Starting \cup Stopping,
                      try : 1 .. Attempts]
        BY <1>0, Numbers DEF Starting
    <2> QED
        BY <1>0, <1>1, <2>1 DEF ShareTypes
<1>5. ShareBusy'
    BY <1>0, <1>2, <1>3 DEF ShareBusy
<1>6. Holding'
    BY <1>0, <1>2, <1>3 DEF Holding, Stopping
<1>7. Running'
    <2>1. upnp = NoShare /\ \A t \in Share : server[t] # "running" /\ web[t] # "running"
        BY <1>0, Numbers DEF DesktopInv, Running, ShareTypes
    <2> QED
        BY <1>0, <1>1, <2>1 DEF Running
<1>8. Ticketed'
    <2>1. \A r \in Room : r \in Tickets => r \in Tickets'
        BY <1>0, <1>2, Numbers, TicketsAre DEF InHand, Finished
    <2>2. rooms' \ stray' \subseteq Tickets'
        BY <1>0, <2>1 DEF ShareTypes, DesktopInv, Ticketed
    <2> QED
        BY <1>0, <1>1, <1>2, <1>3, <2>2 DEF DesktopInv, Ticketed
<1>9. Stored'
    BY <1>0 DEF DesktopInv, Stored
<1>10. ConnectBusy' /\ Coming' /\ Mounted'
    BY <1>0, <1>2, HostingKeepsMount
<1> QED
    BY <1>2, <1>4, <1>5, <1>6, <1>7, <1>8, <1>9, <1>10 DEF DesktopInv
LEMMA PressStopKeepsInv ==
    ASSUME DesktopInv, PressStop
    PROVE  DesktopInv'
<1> DEFINE s == server_
<1> USE DEF mounting
<1>0. /\ ShareTypes /\ quit = "open" /\ ~busyShare /\ s \in Share /\ s # NoShare
      /\ server[s] = "running" /\ worker.pc \in {"idle", "posted"}
      /\ UNCHANGED <<server, web, upnp, rooms, stray, ticket, queue, callback, quit>>
      /\ UNCHANGED <<mounting, holds, busyConnect, shown, gui>>
      /\ server_' = NoShare /\ webHost' = NoShare /\ ticket_' = NoRoom /\ busyShare' = TRUE
      /\ worker' = [share |-> s, pc |-> "webstop", try |-> 1]
    BY DEF PressStop, Clicks, Finished, DesktopInv, ShareTypes
<1>1. QueueTypes' /\ Waiting' = Waiting /\ MountTypes' /\ Ejections'
    BY <1>0, Frame
<1>2. \A e \in Waiting : From(e) # "share" /\ e.what \notin {"started", "stopped"}
    BY <1>0, Results DEF DesktopInv, ShareBusy
<1>3. ShareTypes'
    <2>1. worker' \in [share : Share \cup {NoShare}, pc : {"idle", "posted"} \cup Starting \cup Stopping,
                      try : 1 .. Attempts]
        BY <1>0, Numbers DEF Stopping
    <2> QED
        BY <1>0, <2>1 DEF ShareTypes
<1>4. ShareBusy'
    BY <1>0, <1>1, <1>2 DEF ShareBusy
<1>5. Holding'
    BY <1>0, <1>1, <1>2 DEF Holding, Starting
<1>6. Running'
    <2>1. /\ \A t \in Share : server[t] = "running" => t = s
          /\ \A t \in Share : web[t] = "running" => server[t] = "running" /\ t = s
          /\ upnp # NoShare => upnp = s
        BY <1>0 DEF DesktopInv, Running
    <2> QED
        BY <1>0, <2>1 DEF Running
<1>7. Ticketed'
    <2>1. ticket_ # NoRoom => ticket_ = ticket[s]
        BY <1>0 DEF DesktopInv, Holding
    <2>2. ASSUME NEW r \in rooms' \ stray' PROVE r \in Tickets'
        <3>1. r # NoRoom
            BY <1>0, <2>2, Numbers DEF ShareTypes
        <3>2. InHand(r, ticket_, ticket, Waiting, worker)
            BY <1>0, <2>2, TicketsAre DEF DesktopInv, Ticketed
        <3>3. r = ticket[s]
            BY <1>0, <1>2, <2>1, <3>1, <3>2 DEF InHand, Finished
        <3>4. InHand(r, ticket_', ticket', Waiting', worker')
            BY <1>0, <3>3 DEF InHand, Finished
        <3> QED
            BY <3>4, TicketsAre
    <2> QED
        BY <1>0, <1>1, <1>2, <2>2 DEF DesktopInv, Ticketed
<1>8. Stored'
    BY <1>0 DEF DesktopInv, Stored
<1>9. ConnectBusy' /\ Coming' /\ Mounted'
    BY <1>0, <1>1, HostingKeepsMount
<1> QED
    BY <1>1, <1>3, <1>4, <1>5, <1>6, <1>7, <1>8, <1>9 DEF DesktopInv

LEMMA HandleShareKeepsInv ==
    ASSUME DesktopInv, HandleShare
    PROVE  DesktopInv'
<1> DEFINE e == Head(queue)
           s == e.of
           ok == e.what = "started" /\ server[s] = "running"
           failed == e.what = "started" /\ ~ok
<1> USE DEF mounting
<1>0. /\ ShareTypes /\ QueueTypes /\ queue # <<>> /\ queue' = Tail(queue) /\ busyShare' = FALSE
      /\ e.what \in {"started", "stopped"} /\ quit \in {"open", "remove"}
      /\ UNCHANGED <<web, upnp, rooms, stray, ticket, worker, mounting, holds, busyConnect, shown, gui,
                     callback, quit>>
      /\ ticket_' = IF ok THEN ticket[s] ELSE ticket_
      /\ webHost' = IF ok /\ web[s] = "running" THEN s ELSE webHost
      /\ server_' = IF failed THEN NoShare ELSE server_
      /\ server' = IF failed THEN [server EXCEPT ![s] = "gone"] ELSE server
    BY DEF HandleShare, Handles, Kept, DesktopInv
<1>1. /\ QueueTypes' /\ e \in Waiting
      /\ \A d \in Waiting' : d \in Waiting /\ From(d) # From(e)
      /\ \A d \in Waiting : d \in Waiting' \/ d = e
    BY <1>0, Handling
<1>2. From(e) = "share" /\ s \in Share /\ s # NoShare /\ worker.pc = "posted"
    BY <1>0, <1>1, Results, Numbers DEF DesktopInv, ShareBusy
<1>3. \A d \in Waiting' : From(d) # "share" /\ d.what \notin {"started", "stopped"}
    BY <1>0, <1>1, <1>2, Results
<1>4. worker.pc \notin Starting \cup Stopping /\ Finished(worker.pc)
    BY <1>2 DEF Starting, Stopping, Finished
<1>5. /\ server' \in [Share -> {"none", "made", "running", "stopped", "gone"}]
      /\ \A t \in Share : server'[t] = IF t = s /\ failed THEN "gone" ELSE server[t]
    BY <1>0, <1>2 DEF ShareTypes
<1>6. ShareTypes' /\ MountTypes'
    <2>1. ticket[s] \in Room \cup {NoRoom}
        BY <1>0, <1>2 DEF ShareTypes
    <2>2. MountTypes'
        BY <1>0, Frame
    <2> QED
        BY <1>0, <1>2, <1>5, <2>1, <2>2 DEF ShareTypes
<1>7. ShareBusy'
    BY <1>0, <1>3, <1>4 DEF ShareBusy
<1>8. quit = "open" =>
          /\ e.what = "started" => server_ = s /\ ticket_ = NoRoom
          /\ e.what = "stopped" => server_ = NoShare
          /\ failed => ticket[s] = NoRoom
    BY <1>1 DEF DesktopInv, Holding, Ticketed
<1>9. Holding'
    <2> SUFFICES ASSUME quit = "open" PROVE Holding'
        BY <1>0 DEF Holding
    <2>1. server_' = NoShare => ticket_' = NoRoom
        BY <1>0, <1>2, <1>8 DEF DesktopInv, Holding
    <2>2. ticket_' # NoRoom => ticket_' = ticket'[server_']
        BY <1>0, <1>8 DEF DesktopInv, Holding
    <2> QED
        BY <1>0, <1>3, <1>4, <2>1, <2>2 DEF Holding
<1>10. Running'
    <2> SUFFICES ASSUME quit = "open" PROVE Running'
        BY <1>0 DEF Running
    <2>1. /\ \A t \in Share : server[t] = "running" => t = server_
          /\ \A t \in Share : web[t] = "running" => server[t] = "running" /\ t = server_
          /\ upnp # NoShare => upnp = server_ /\ server[upnp] = "running"
        BY <1>2 DEF DesktopInv, Running
    <2>2. CASE failed
        <3>1. upnp = NoShare /\ \A t \in Share : server[t] # "running" /\ web[t] # "running"
            BY <1>8, <2>1, <2>2
        <3> QED
            BY <1>0, <1>2, <1>5, <3>1 DEF Running
    <2>3. CASE ~failed
        BY <1>0, <1>2, <1>5, <2>1, <2>3 DEF Running
    <2> QED
        BY <2>2, <2>3
<1>11. Ticketed'
    <2> SUFFICES ASSUME quit = "open" PROVE Ticketed'
        BY <1>0 DEF Ticketed
    <2>1. ASSUME NEW r \in rooms' \ stray' PROVE r \in Tickets'
        <3>1. r # NoRoom
            BY <1>0, <2>1, Numbers DEF ShareTypes
        <3>2. InHand(r, ticket_, ticket, Waiting, worker)
            BY <1>0, <2>1, TicketsAre DEF DesktopInv, Ticketed
        <3>3. r = ticket_ \/ (e.what = "started" /\ r = ticket[s])
            BY <1>1, <1>3, <1>4, <3>2 DEF InHand
        <3>4. r = ticket_'
            BY <1>0, <1>8, <3>1, <3>3
        <3> QED
            BY <3>4, TicketsAre DEF InHand
    <2>2. \A t \in Share : server'[t] = "none" => ticket'[t] = NoRoom
        BY <1>0, <1>5 DEF DesktopInv, Ticketed
    <2> QED
        BY <1>0, <1>2, <1>3, <2>1, <2>2 DEF Ticketed
<1>12. Stored'
    BY <1>0, <1>2, <1>4 DEF DesktopInv, Stored
<1>13. ConnectBusy' /\ Coming' /\ Mounted'
    BY <1>0, <1>1, HostingKeepsMount
<1>14. Ejections'
    BY <1>0, EjectionsHandled
<1> QED
    BY <1>1, <1>6, <1>7, <1>9, <1>10, <1>11, <1>12, <1>13, <1>14 DEF DesktopInv
-----------------------------------------------------------------------------
(* The connect worker, the network and the mount's loop.                   *)

\* They share nothing with the worker.
LEMMA MountKeepsHosting ==
    ASSUME DesktopInv, QueueTypes', UNCHANGED <<hosting, server_, webHost, ticket_, busyShare, quit>>,
           \A e \in Waiting' : e \in Waiting \/ From(e) # "share",
           \A e \in Waiting : e \in Waiting' \/ From(e) # "share"
    PROVE  ShareTypes' /\ ShareBusy' /\ Holding' /\ Running' /\ Ticketed' /\ Stored'
<1> USE DEF hosting
<1>1. ShareTypes' /\ Running' /\ Stored'
    BY Frame
<1>2. /\ \A e \in Waiting' : From(e) = "share" => e \in Waiting
      /\ \A e \in Waiting : From(e) = "share" => e \in Waiting'
      /\ \A e \in Waiting' : e.what \in {"started", "stopped"} => From(e) = "share"
      /\ \A e \in Waiting : e.what \in {"started", "stopped"} => From(e) = "share"
    BY DEF From
<1>3. ShareBusy'
    BY <1>2 DEF DesktopInv, ShareBusy
<1>4. Holding'
    BY <1>2 DEF DesktopInv, Holding
<1>5. Ticketed'
    <2>1. \A r : r \in Tickets => r \in Tickets'
        BY <1>2, TicketsAre DEF InHand
    <2>2. quit = "open" => rooms' \ stray' \subseteq Tickets'
        BY <2>1 DEF DesktopInv, Ticketed
    <2> QED
        BY <1>2, <2>2 DEF DesktopInv, Ticketed
<1> QED
    BY <1>1, <1>3, <1>4, <1>5

LEMMA Proceeds ==
    ASSUME MountTypes, NEW pc \in {"idle", "posted"} \cup Connects1, Proceed(pc)
    PROVE  /\ connector'.conn = connector.conn /\ connector'.pc = pc
           /\ connector' \in [conn : Conn \cup {NoConn}, pc : {"idle", "posted"} \cup Connects1]
BY DEF MountTypes, Proceed

LEMMA MountingStepKeepsInv ==
    ASSUME DesktopInv, MountingStep, UNCHANGED <<hosting, window>>
    PROVE  DesktopInv'
<1> DEFINE c == connector.conn
<1> USE DEF window, mount, Connecting
<1>0. /\ MountTypes /\ QueueTypes' /\ Waiting' = Waiting
      /\ connector.pc \in Connects1 => c \in Conn
    BY Frame DEF DesktopInv, MountTypes, ConnectBusy
<1>1. ShareTypes' /\ ShareBusy' /\ Holding' /\ Running' /\ Ticketed' /\ Stored'
    BY <1>0, MountKeepsHosting
<1>2. CASE Resolve
    <2>1. PICK pc \in Kind \cup {"failed"} : Proceed(pc)
        BY <1>2 DEF Resolve
    <2>2. connector.pc = "resolve" /\ UNCHANGED <<client, kind, dropped, fuse, loop, active, stopping>>
        BY <1>2 DEF Resolve
    <2>3. pc \in Connects1 \ {"connected"} /\ connector.pc \in Connects1 \ {"connected"}
        BY <2>2, MountingAssumption DEF Connects1
    <2>4. connector'.conn = c /\ connector'.pc = pc
        BY <1>0, <2>1, <2>3, Proceeds
    <2>5. MountTypes'
        BY <1>0, <2>1, <2>2, <2>3, Proceeds, MountTyped
    <2>6. ConnectBusy'
        BY <1>0, <2>2, <2>3, <2>4 DEF DesktopInv, ConnectBusy
    <2>7. Coming'
        BY <1>0, <2>2, <2>3, <2>4 DEF DesktopInv, Coming, Held, Connects1
    <2>8. Mounted' /\ Ejections'
        BY <2>2, Frame
    <2> QED
        BY <1>0, <1>1, <2>5, <2>6, <2>7, <2>8 DEF DesktopInv
<1>3. ASSUME NEW k \in Kind, Try(k) PROVE DesktopInv'
    <2>1. /\ connector.pc = k /\ k \in Connects1 \ {"connected"} /\ c \in Conn
          /\ UNCHANGED <<dropped, fuse, loop, active, stopping>>
        BY <1>0, <1>3, MountingAssumption DEF Try, Connects1
    <2>2. /\ client[c] = "none" /\ busyConnect /\ c # NoConn
          /\ \A e \in Waiting : From(e) # "connect" /\ e.what # "connected"
          /\ \A j \in Kind : holds[j] # NoConn => holds[j] # c
          /\ fuse # NoConn => fuse # c
        <3>1. client[c] = "none" /\ busyConnect /\ c # NoConn /\ \A e \in Waiting : From(e) # "connect"
            BY <2>1 DEF DesktopInv, Coming, ConnectBusy
        <3>2. \A j \in Kind : holds[j] # NoConn => client[holds[j]] # "none"
            BY DEF DesktopInv, Coming
        <3>3. fuse # NoConn => client[fuse] # "none"
            BY <1>0 DEF DesktopInv, Mounted, MountTypes
        <3>4. \A e \in Waiting : e.what # "connected"
            BY <3>1, Results DEF DesktopInv
        <3> QED
            BY <3>1, <3>2, <3>3, <3>4
    <2>3. CASE client' = [client EXCEPT ![c] = "up"] /\ kind' = [kind EXCEPT ![c] = k] /\ Proceed("connected")
        <3>1. connector'.conn = c /\ connector'.pc = "connected" /\ "connected" \in Connects1
            BY <1>0, <2>3, Proceeds DEF Connects1
        <3>2. \A d \in Conn : client'[d] = IF d = c THEN "up" ELSE client[d]
            BY <1>0, <2>3 DEF MountTypes
        <3>3. MountTypes'
            <4>1. /\ client' \in [Conn -> {"none", "up", "lost", "closed", "gone"}]
                  /\ kind' \in [Conn -> Kind]
                BY <1>0, <2>3 DEF MountTypes
            <4> QED
                BY <1>0, <2>1, <2>3, <3>1, <4>1, Proceeds, MountTyped
        <3>4. ConnectBusy'
            <4>1. \A j \in Kind : holds[j] # NoConn => holds[j] \in Conn /\ client[holds[j]] # "up"
                BY <1>0, <2>2 DEF DesktopInv, ConnectBusy, MountTypes
            <4>2. \A j \in Kind : holds[j] # NoConn => client'[holds[j]] # "up"
                BY <2>2, <3>2, <4>1
            <4> QED
                BY <1>0, <2>2, <3>1, <4>2 DEF ConnectBusy
        <3>5. Coming'
            <4>1. \A j \in Kind : holds[j] # NoConn => client'[holds[j]] # "none"
                <5>1. \A j \in Kind : holds[j] # NoConn => client[holds[j]] # "none"
                    BY DEF DesktopInv, Coming
                <5> QED
                    BY <1>0, <3>2, <5>1, Holds
            <4>2. c \notin Held /\ fuse # c
                BY <2>1, <2>2 DEF Held
            <4>3. Held' = Held
                BY <1>0 DEF Held
            <4>4. client'[c] = "up"
                BY <2>1, <3>2
            <4> QED
                BY <1>0, <2>1, <2>2, <3>1, <4>1, <4>2, <4>3, <4>4 DEF Coming
        <3>6. Mounted'
            <4>1. fuse # NoConn => fuse \in Conn /\ client'[fuse] = client[fuse]
                BY <1>0, <2>2, <3>2 DEF MountTypes
            <4>2. \A d \in Conn : (client'[d] = "lost" => d \in dropped) /\ (d \in dropped => client'[d] # "none")
                BY <3>2 DEF DesktopInv, Mounted
            <4> QED
                BY <1>0, <2>1, <4>1, <4>2 DEF DesktopInv, Mounted
        <3>7. Ejections'
            BY <2>1, Frame
        <3> QED
            BY <1>0, <1>1, <3>3, <3>4, <3>5, <3>6, <3>7 DEF DesktopInv
    <2>4. ASSUME NEW pc \in {"tcp", "failed"}, Proceed(pc), UNCHANGED <<client, kind>> PROVE DesktopInv'
        <3>1. connector'.conn = c /\ connector'.pc = pc /\ pc \in Connects1 \ {"connected"}
            BY <1>0, <2>4, Proceeds DEF Connects1
        <3>2. MountTypes'
            BY <1>0, <2>1, <2>4, <3>1, Proceeds, MountTyped
        <3>3. ConnectBusy' /\ Coming'
            BY <1>0, <2>1, <2>2, <2>4, <3>1 DEF DesktopInv, ConnectBusy, Coming, Held
        <3>4. Mounted' /\ Ejections'
            BY <2>1, <2>4, Frame
        <3> QED
            BY <1>0, <1>1, <3>2, <3>3, <3>4 DEF DesktopInv
    <2> QED
        BY <1>3, <2>3, <2>4 DEF Try
<1>4. ASSUME NEW d \in Conn, Drop(d) PROVE DesktopInv'
    <2>1. /\ client[d] = "up" /\ dropped' = dropped \cup {d}
          /\ UNCHANGED <<kind, connector, fuse, loop, active, stopping>>
          /\ \A x \in Conn : client'[x] = IF x = d THEN "lost" ELSE client[x]
        BY <1>0, <1>4 DEF Drop, MountTypes
    <2>2. MountTypes'
        <3>1. client' \in [Conn -> {"none", "up", "lost", "closed", "gone"}] /\ dropped' \subseteq Conn
            BY <1>0, <1>4, <2>1 DEF Drop, MountTypes
        <3> QED
            BY <1>0, <2>1, <3>1, MountTyped
    <2>3. ConnectBusy'
        <3>1. busyConnect => \A j \in Kind : holds[j] # NoConn => client'[holds[j]] # "up"
            BY <1>0, <2>1, Holds DEF DesktopInv, ConnectBusy
        <3> QED
            BY <1>0, <2>1, <3>1 DEF DesktopInv, ConnectBusy
    <2>4. Coming'
        <3>1. \A e \in Waiting : e.what = "connected" => e.of \in Conn
            BY Results DEF DesktopInv
        <3>2. \A j \in Kind : holds[j] # NoConn => holds[j] \in Conn
            BY <1>0 DEF MountTypes
        <3> QED
            BY <1>0, <2>1, <3>1, <3>2 DEF DesktopInv, Coming, Held, Connects1
    <2>5. Mounted'
        <3>1. fuse # NoConn => client'[fuse] = "up" \/ fuse \in dropped'
            BY <1>0, <2>1 DEF DesktopInv, Mounted, MountTypes
        <3>2. \A x \in Conn : (client'[x] = "lost" => x \in dropped') /\ (x \in dropped' => client'[x] # "none")
            BY <2>1 DEF DesktopInv, Mounted
        <3> QED
            BY <2>1, <3>1, <3>2 DEF DesktopInv, Mounted
    <2>6. Ejections'
        BY <2>1, Frame
    <2> QED
        BY <1>0, <1>1, <2>2, <2>3, <2>4, <2>5, <2>6 DEF DesktopInv
<1>5. CASE Eject
    <2>1. loop = "running" /\ loop' = "out" /\ UNCHANGED <<client, kind, dropped, connector, fuse, active, stopping>>
        BY <1>5 DEF Eject
    <2>2. MountTypes'
        BY <1>0, <2>1, MountTyped
    <2>3. ConnectBusy' /\ Coming'
        BY <2>1, Frame
    <2>4. Mounted'
        BY <2>1 DEF DesktopInv, Mounted
    <2>5. Ejections'
        BY <2>1 DEF DesktopInv, Ejections
    <2> QED
        BY <1>0, <1>1, <2>2, <2>3, <2>4, <2>5 DEF DesktopInv
<1> QED
    BY <1>2, <1>3, <1>4, <1>5 DEF MountingStep
LEMMA ConnectPostsKeepsInv ==
    ASSUME DesktopInv, ConnectPosts
    PROVE  DesktopInv'
<1> DEFINE c == connector.conn
           e == [what |-> connector.pc, of |-> c]
<1> USE DEF mount
<1>0. /\ MountTypes /\ connector.pc \in {"connected", "failed"} /\ connector.pc \in Connects1 /\ c \in Conn
      /\ queue' = Append(queue, e) /\ Proceed("posted")
      /\ UNCHANGED <<hosting, client, kind, dropped, fuse, loop, active, stopping, server_, webHost, ticket_,
                     holds, busyShare, busyConnect, shown, gui, callback, quit>>
    <2>1. connector.pc \in {"connected", "failed"} /\ connector.pc \in Connects1
        BY DEF ConnectPosts, Connects1
    <2>2. c \in Conn \cup {NoConn}
        BY DEF DesktopInv, MountTypes
    <2> QED
        BY <2>1, <2>2 DEF ConnectPosts, Posted, DesktopInv, ConnectBusy
<1>1. e \in Events /\ From(e) = "connect" /\ e.what # "ejected"
    BY <1>0 DEF Events, From
<1>2. \A d \in Waiting : From(d) # "connect" /\ d.what # "connected"
    BY <1>0, Results DEF DesktopInv, ConnectBusy
<1>3. QueueTypes' /\ Waiting' = Waiting \cup {e}
    BY <1>0, <1>1, <1>2, Posting DEF DesktopInv
<1>4. connector'.conn = c /\ connector'.pc = "posted" /\ connector'.pc \notin Connects1
    BY <1>0, Proceeds DEF Connects1
<1>5. MountTypes'
    <2>1. connector' \in [conn : Conn \cup {NoConn}, pc : {"idle", "posted"} \cup Connects1]
        BY <1>0, Proceeds
    <2> QED
        BY <1>0, <2>1, MountTyped
<1>6. ShareTypes' /\ ShareBusy' /\ Holding' /\ Running' /\ Ticketed' /\ Stored'
    BY <1>0, <1>1, <1>3, MountKeepsHosting
<1>7. ConnectBusy'
    BY <1>0, <1>2, <1>3, <1>4 DEF DesktopInv, ConnectBusy
<1>8. Coming'
    <2>1. ASSUME NEW d \in Waiting', d.what = "connected"
          PROVE  client[d.of] \in {"up", "lost"} /\ d.of \notin Held /\ fuse # d.of
        <3>1. d = e /\ connector.pc = "connected"
            BY <1>2, <1>3, <2>1
        <3> QED
            BY <3>1 DEF DesktopInv, Coming
    <2> QED
        BY <1>0, <1>4, <2>1 DEF DesktopInv, Coming, Held
<1>9. Mounted'
    BY <1>0, Frame
<1>10. Ejections'
    BY <1>0, <1>1, <1>2, EjectionsPosted
<1> QED
    BY <1>3, <1>5, <1>6, <1>7, <1>8, <1>9, <1>10 DEF DesktopInv

LEMMA LoopEndsKeepsInv ==
    ASSUME DesktopInv, LoopEnds
    PROVE  DesktopInv'
<1> DEFINE e == [what |-> "ejected", of |-> 0]
<1>0. /\ MountTypes /\ QueueTypes /\ loop = "out" /\ loop' = "ended" /\ active' = (active /\ ~(~stopping /\ active))
      /\ queue' = IF ~stopping /\ active /\ callback THEN Append(queue, e) ELSE queue
      /\ UNCHANGED <<hosting, client, kind, dropped, connector, fuse, stopping, server_, webHost,
                     ticket_, holds, busyShare, busyConnect, shown, gui, callback, quit>>
    BY DEF LoopEnds, Ejected, Posted, DesktopInv
<1>1. e \in Events /\ From(e) = "mount"
    BY DEF Events, From
<1>2. active /\ callback => \A i \in DOMAIN queue : From(queue[i]) # "mount" /\ queue[i].what # "ejected"
    <2>1. active /\ callback => \A i \in DOMAIN queue : queue[i].what # "ejected"
        BY DEF DesktopInv, Ejections
    <2>2. \A i \in DOMAIN queue : queue[i] \in Events
        BY <1>0 DEF QueueTypes
    <2>3. \A d \in Events : From(d) = "mount" => d.what = "ejected"
        BY DEF Events, From
    <2> QED
        BY <2>1, <2>2, <2>3
<1>3. MountTypes'
    <2>1. active' \in BOOLEAN
        BY <1>0
    <2> QED
        BY <1>0, <2>1, MountTyped
<1>4. Mounted'
    BY <1>0 DEF DesktopInv, Mounted
<1>5. CASE ~stopping /\ active /\ callback
    <2>1. queue' = Append(queue, e) /\ ~active'
        BY <1>0, <1>5
    <2>2. \A d \in Waiting : From(d) # From(e)
        BY <1>1, <1>2, <1>5 DEF Waiting
    <2>3. /\ QueueTypes' /\ Waiting' = Waiting \cup {e}
          /\ Len(queue) \in Nat /\ DOMAIN queue = 1 .. Len(queue) /\ DOMAIN queue' = 1 .. Len(queue) + 1
          /\ \A i \in DOMAIN queue : queue'[i] = queue[i]
        BY <1>0, <1>1, <2>1, <2>2, Posting
    <2>4. ShareTypes' /\ ShareBusy' /\ Holding' /\ Running' /\ Ticketed' /\ Stored'
        BY <1>0, <1>1, <2>3, MountKeepsHosting
    <2>5. ConnectBusy'
        BY <1>0, <1>1, <2>3 DEF DesktopInv, ConnectBusy
    <2>6. Coming'
        <3>1. \A d \in Waiting' : d.what = "connected" => d \in Waiting
            BY <2>3
        <3> QED
            BY <1>0, <3>1 DEF DesktopInv, Coming, Held
    <2>7. Ejections'
        <3>1. gui.pc = "loop"
            BY <1>5 DEF DesktopInv, Ejections
        <3> QED
            BY <1>0, <2>1, <3>1 DEF Ejections
    <2> QED
        BY <1>3, <1>4, <2>3, <2>4, <2>5, <2>6, <2>7 DEF DesktopInv
<1>6. CASE ~(~stopping /\ active /\ callback)
    <2>1. queue' = queue /\ (active' => active)
        BY <1>0, <1>6
    <2>2. QueueTypes' /\ Waiting' = Waiting
        BY <1>0, <2>1, Frame
    <2>3. ShareTypes' /\ ShareBusy' /\ Holding' /\ Running' /\ Ticketed' /\ Stored'
        BY <1>0, <2>2, MountKeepsHosting
    <2>4. ConnectBusy' /\ Coming'
        BY <1>0, <2>1, Frame
    <2>5. Ejections'
        BY <1>0, <2>1 DEF DesktopInv, Ejections
    <2> QED
        BY <1>3, <1>4, <2>2, <2>3, <2>4, <2>5 DEF DesktopInv
<1> QED
    BY <1>5, <1>6

-----------------------------------------------------------------------------
(* The window and its mount.                                               *)

\* Mount::stop begins.
LEMMA BeginStopKeepsMount ==
    ASSUME DesktopInv, NEW then \in {"drop", "unmounted", "quit"}, BeginStop(then),
           then = "unmounted" => gui.conn = fuse,
           quit' = IF then = "quit" THEN "mount" ELSE quit,
           quit # "clients"
    PROVE  /\ MountTypes' /\ Mounted' /\ gui'.pc = "stop" /\ ~active'
           /\ UNCHANGED <<client, kind, dropped, connector, fuse>> /\ (loop \in {"ended", "none"} => loop' = loop)
           /\ UNCHANGED <<hosting, server_, webHost, ticket_, holds, busyShare, busyConnect, shown>>
<1>1. /\ MountTypes /\ stopping' = TRUE /\ active' = FALSE
      /\ loop' = (IF loop = "running" THEN "out" ELSE loop)
      /\ gui' = [gui EXCEPT !.pc = "stop", !.then = then]
      /\ UNCHANGED <<hosting, client, kind, dropped, connector, fuse, server_, webHost, ticket_, holds, busyShare,
                     busyConnect, shown>>
    BY DEF BeginStop, HaltLoop, Leaves, DesktopInv
<1>2. gui' = [pc |-> "stop", then |-> then, conn |-> gui.conn]
    BY <1>1 DEF MountTypes
<1>3. MountTypes'
    <2>1. gui' \in [pc : {"loop", "wait", "seen", "stop"}, then : {"", "drop", "unmounted", "quit"},
                  conn : Conn \cup {NoConn}]
        BY <1>1, <1>2 DEF MountTypes
    <2>2. loop' = loop \/ loop' \in {"none", "running", "out", "ended"}
        BY <1>1
    <2> QED
        BY <1>1, <2>1, <2>2, MountTyped
<1>4. Mounted'
    BY <1>1, <1>2 DEF DesktopInv, Mounted
<1> QED
    BY <1>1, <1>2, <1>3, <1>4

LEMMA PressConnectKeepsInv ==
    ASSUME DesktopInv, NEW c \in Conn, PressConnect(c)
    PROVE  DesktopInv'
<1> USE DEF mount
<1>0. /\ MountTypes /\ ~busyConnect /\ ~Connected /\ client[c] = "none"
      /\ connector' = [conn |-> c, pc |-> "resolve"] /\ busyConnect' = TRUE
      /\ UNCHANGED <<hosting, client, kind, dropped, fuse, loop, active, stopping, server_, webHost, ticket_,
                     holds, busyShare, shown, queue, gui, callback, quit>>
    BY DEF PressConnect, Ready, DesktopInv
<1>1. QueueTypes' /\ Waiting' = Waiting /\ Mounted' /\ Ejections'
    BY <1>0, Frame
<1>2. ShareTypes' /\ ShareBusy' /\ Holding' /\ Running' /\ Ticketed' /\ Stored'
    BY <1>0, <1>1, MountKeepsHosting
<1>3. MountTypes'
    <2>1. connector' \in [conn : Conn \cup {NoConn}, pc : {"idle", "posted"} \cup Connects1]
        BY <1>0 DEF Connects1
    <2> QED
        BY <1>0, <2>1, MountTyped
<1>4. \A e \in Waiting : From(e) # "connect" /\ e.what # "connected"
    BY <1>0, Results DEF DesktopInv, ConnectBusy
<1>5. ConnectBusy'
    BY <1>0, <1>1, <1>4, Numbers DEF ConnectBusy, Connected
<1>6. Coming'
    BY <1>0, <1>1, <1>4 DEF DesktopInv, Coming
<1> QED
    BY <1>1, <1>2, <1>3, <1>5, <1>6 DEF DesktopInv
\* Disconnect and a volume that is not seen stop the mount; nothing is posted.
LEMMA StopPressedKeepsInv ==
    ASSUME DesktopInv, PressDisconnect \/ VolumeMissing
    PROVE  DesktopInv'
<1>1. PICK then \in {"drop", "unmounted"} :
          /\ BeginStop(then) /\ UNCHANGED <<queue, callback, quit>> /\ quit # "clients"
          /\ then = "drop" => ~busyConnect
          /\ then = "unmounted" => gui.pc = "wait"
    <2>1. CASE PressDisconnect
        BY <2>1 DEF PressDisconnect, Clicks, Ready
    <2>2. CASE VolumeMissing
        <3>1. quit # "clients"
            BY <2>2 DEF VolumeMissing, DesktopInv, Mounted
        <3> QED
            BY <2>2, <3>1 DEF VolumeMissing
    <2> QED
        BY <2>1, <2>2
<1>2. then = "unmounted" => gui.conn = fuse
    BY <1>1 DEF DesktopInv, Mounted
<1>3. /\ MountTypes' /\ Mounted' /\ gui'.pc = "stop" /\ ~active'
      /\ UNCHANGED <<client, kind, dropped, connector, fuse>> /\ (loop \in {"ended", "none"} => loop' = loop)
      /\ UNCHANGED <<hosting, server_, webHost, ticket_, holds, busyShare, busyConnect, shown>>
    BY <1>1, <1>2, BeginStopKeepsMount
<1>4. QueueTypes' /\ Waiting' = Waiting /\ ConnectBusy' /\ Coming'
    BY <1>1, <1>3, Frame
<1>5. ShareTypes' /\ ShareBusy' /\ Holding' /\ Running' /\ Ticketed' /\ Stored'
    BY <1>1, <1>3, <1>4, MountKeepsHosting
<1>6. Ejections'
    <2>1. ~busyConnect => \A j \in DOMAIN queue : queue[j].what # "connected"
        <3>1. ~busyConnect => \A e \in Waiting : e.what # "connected"
            BY Results DEF DesktopInv, ConnectBusy
        <3> QED
            BY <3>1 DEF Waiting
    <2>2. callback /\ gui.pc = "wait" => \A i \in DOMAIN queue : queue[i].what # "ejected"
        BY DEF DesktopInv, Ejections
    <2> QED
        BY <1>1, <1>3, <2>1, <2>2 DEF DesktopInv, Ejections
<1> QED
    BY <1>3, <1>4, <1>5, <1>6 DEF DesktopInv

LEMMA HandleEjectedKeepsInv ==
    ASSUME DesktopInv, HandleEjected
    PROVE  DesktopInv'
<1>1. /\ BeginStop("drop") /\ queue # <<>> /\ queue' = Tail(queue) /\ UNCHANGED <<callback, quit>>
      /\ Head(queue).what = "ejected" /\ quit \in {"open", "remove"}
    BY DEF HandleEjected, Handles
<1>2. /\ MountTypes' /\ Mounted' /\ gui'.pc = "stop" /\ ~active'
      /\ UNCHANGED <<client, kind, dropped, connector, fuse>> /\ (loop \in {"ended", "none"} => loop' = loop)
      /\ UNCHANGED <<hosting, server_, webHost, ticket_, holds, busyShare, busyConnect, shown>>
    BY <1>1, BeginStopKeepsMount
<1>3. /\ QueueTypes' /\ Head(queue) \in Waiting /\ Head(queue) \in Events
      /\ \A e \in Waiting' : e \in Waiting /\ From(e) # From(Head(queue))
      /\ \A e \in Waiting : e \in Waiting' \/ e = Head(queue)
    BY <1>1, Handling DEF DesktopInv
<1>4. From(Head(queue)) = "mount"
    BY <1>1 DEF From
<1>5. ShareTypes' /\ ShareBusy' /\ Holding' /\ Running' /\ Ticketed' /\ Stored'
    BY <1>1, <1>2, <1>3, <1>4, MountKeepsHosting
<1>6. ConnectBusy'
    BY <1>2, <1>3 DEF DesktopInv, ConnectBusy
<1>7. Coming'
    BY <1>2, <1>3 DEF DesktopInv, Coming, Held
<1>8. Ejections'
    <2>1. \A e \in Waiting' : e.what # "ejected"
        BY <1>3, <1>4 DEF From
    <2>2. \A i \in DOMAIN queue' : queue'[i].what # "ejected"
        BY <2>1 DEF Waiting
    <2> QED
        BY <1>2, <2>2 DEF Ejections
<1> QED
    BY <1>2, <1>3, <1>5, <1>6, <1>7, <1>8 DEF DesktopInv

LEMMA HandleFailedKeepsInv ==
    ASSUME DesktopInv, HandleFailed
    PROVE  DesktopInv'
<1> USE DEF mounting
<1>1. /\ queue # <<>> /\ queue' = Tail(queue) /\ busyConnect' = FALSE /\ shown' = FALSE
      /\ Head(queue).what = "failed"
      /\ UNCHANGED <<hosting, mounting, server_, webHost, ticket_, holds, busyShare, gui, callback, quit>>
    BY DEF HandleFailed, Handles
<1>2. /\ QueueTypes' /\ Head(queue) \in Waiting
      /\ \A e \in Waiting' : e \in Waiting /\ From(e) # From(Head(queue))
      /\ \A e \in Waiting : e \in Waiting' \/ e = Head(queue)
    BY <1>1, Handling DEF DesktopInv
<1>3. From(Head(queue)) = "connect" /\ connector.pc = "posted"
    BY <1>1, <1>2, Results DEF DesktopInv, ConnectBusy
<1>4. ShareTypes' /\ ShareBusy' /\ Holding' /\ Running' /\ Ticketed' /\ Stored'
    BY <1>1, <1>2, <1>3, MountKeepsHosting
<1>5. ConnectBusy'
    BY <1>1, <1>2, <1>3 DEF ConnectBusy, Connects1
<1>6. Coming'
    BY <1>1, <1>2 DEF DesktopInv, Coming, Held
<1>7. MountTypes' /\ Mounted'
    <2>1. MountTypes'
        BY <1>1, MountTyped DEF DesktopInv
    <2> QED
        BY <1>1, <2>1, Frame
<1>8. Ejections'
    BY <1>1, EjectionsHandled
<1> QED
    BY <1>2, <1>4, <1>5, <1>6, <1>7, <1>8 DEF DesktopInv

LEMMA HandleConnectedKeepsInv ==
    ASSUME DesktopInv, HandleConnected
    PROVE  DesktopInv'
<1> DEFINE c == Head(queue).of
           old == {holds[kind[c]]}
<1>1. /\ queue # <<>> /\ queue' = Tail(queue) /\ busyConnect' = FALSE
      /\ Head(queue).what = "connected" /\ quit \in {"open", "remove"}
      /\ UNCHANGED <<hosting, kind, dropped, connector, server_, webHost, ticket_, busyShare, callback, quit>>
    BY DEF HandleConnected, Handles
<1>2. /\ MountTypes /\ QueueTypes' /\ Head(queue) \in Waiting
      /\ \A e \in Waiting' : e \in Waiting /\ From(e) # From(Head(queue))
      /\ \A e \in Waiting : e \in Waiting' \/ e = Head(queue)
    BY <1>1, Handling DEF DesktopInv
<1>3. /\ From(Head(queue)) = "connect" /\ connector.pc = "posted" /\ c \in Conn /\ c # NoConn
      /\ client[c] \in {"up", "lost"} /\ c \notin Held /\ fuse # c /\ kind[c] \in Kind
      /\ \A k \in Kind : holds[k] # NoConn => client[holds[k]] # "up"
    <2>1. From(Head(queue)) = "connect" /\ c \in Conn
        BY <1>1, <1>2, Results DEF DesktopInv
    <2> QED
        BY <1>1, <1>2, <2>1, Numbers DEF DesktopInv, ConnectBusy, Coming, MountTypes
<1>4. \A e \in Waiting' : From(e) # "connect" /\ e.what # "connected"
    BY <1>2, <1>3 DEF From
<1>5. ShareTypes' /\ ShareBusy' /\ Holding' /\ Running' /\ Ticketed' /\ Stored'
    BY <1>1, <1>2, <1>3, MountKeepsHosting
<1>6. ConnectBusy'
    BY <1>1, <1>3, <1>4 DEF ConnectBusy, Connects1
<1>7. CASE /\ fuse = NoConn /\ StartLoop(c) /\ client' = Destroyed(old)
           /\ holds' = [holds EXCEPT ![kind[c]] = c]
           /\ gui' = [gui EXCEPT !.pc = "wait", !.conn = c] /\ UNCHANGED shown
    <2>1. /\ fuse' = c /\ loop' = "running" /\ active' = FALSE /\ stopping' = FALSE /\ loop = "none"
          /\ gui' = [pc |-> "wait", then |-> gui.then, conn |-> c]
        BY <1>2, <1>7 DEF StartLoop, DesktopInv, Mounted, MountTypes
    <2>2. /\ \A d \in Conn : client'[d] = IF d = holds[kind[c]] THEN "gone" ELSE client[d]
          /\ \A k \in Kind : holds'[k] = IF k = kind[c] THEN c ELSE holds[k]
          /\ c # holds[kind[c]]
        <3>1. \A k \in Kind : holds[k] # c
            BY <1>2, <1>3, Holds
        <3>2. holds' = [k \in Kind |-> IF k = kind[c] THEN c ELSE holds[k]]
            BY <1>2, <1>7 DEF MountTypes
        <3> QED
            BY <1>3, <1>7, <3>1, <3>2 DEF Destroyed
    <2>3. MountTypes'
        <3>1. client' \in [Conn -> {"none", "up", "lost", "closed", "gone"}]
            BY <1>2, <1>7 DEF Destroyed, MountTypes
        <3>2. holds' \in [Kind -> Conn \cup {NoConn}]
            BY <1>2, <1>3, <1>7 DEF MountTypes
        <3> QED
            <4>1. gui' \in [pc : {"loop", "wait", "seen", "stop"}, then : {"", "drop", "unmounted", "quit"},
                          conn : Conn \cup {NoConn}]
                BY <1>2, <1>3, <2>1 DEF MountTypes
            <4> QED
                BY <1>1, <1>2, <1>3, <1>7, <2>1, <3>1, <3>2, <4>1, MountTyped
    <2>4. Coming'
        <3>1. ASSUME NEW k \in Kind, holds'[k] # NoConn PROVE client'[holds'[k]] # "none"
            <4>1. \A j \in Kind : holds[j] # NoConn => holds[j] \in Conn /\ client[holds[j]] # "none"
                BY <1>2 DEF DesktopInv, Coming, MountTypes
            <4>2. holds'[k] \in Conn /\ client[holds'[k]] # "none"
                BY <1>3, <2>2, <3>1, <4>1
            <4> QED
                BY <2>2, <4>2
        <3>2. connector'.pc = "posted"
            BY <1>1, <1>3
        <3> QED
            BY <1>4, <3>1, <3>2 DEF Coming, Connects1
    <2>5. Mounted'
        <3>1. client'[c] = "up" \/ c \in dropped
            BY <1>3, <2>2 DEF DesktopInv, Mounted
        <3>2. \A d \in Conn : (client'[d] = "lost" => d \in dropped) /\ (d \in dropped => client'[d] # "none")
            BY <2>2 DEF DesktopInv, Mounted
        <3> QED
            BY <1>1, <1>3, <2>1, <3>1, <3>2 DEF Mounted
    <2>6. Ejections'
        <3>1. /\ 1 \in DOMAIN queue /\ Head(queue) = queue[1]
              /\ \A i \in DOMAIN queue' : i + 1 \in DOMAIN queue /\ 1 < i + 1 /\ queue'[i] = queue[i + 1]
            BY <1>1, Handling DEF DesktopInv
        <3>2. callback => \A i \in DOMAIN queue' : queue'[i].what # "ejected"
            BY <1>1, <2>1, <3>1 DEF DesktopInv, Ejections
        <3> QED
            BY <1>1, <2>1, <3>2 DEF Ejections
    <2> QED
        BY <1>2, <1>5, <1>6, <2>3, <2>4, <2>5, <2>6 DEF DesktopInv
<1>8. CASE /\ client' = Destroyed(old \cup {c}) /\ holds' = [holds EXCEPT ![kind[c]] = NoConn]
           /\ shown' = FALSE /\ UNCHANGED <<mount, gui>>
    <2>1. UNCHANGED <<fuse, loop, active, stopping, gui>>
        BY <1>8 DEF mount
    <2>2. /\ \A d \in Conn : client'[d] = IF d \in {c, holds[kind[c]]} THEN "gone" ELSE client[d]
          /\ \A k \in Kind : holds'[k] = IF k = kind[c] THEN NoConn ELSE holds[k]
        BY <1>2, <1>3, <1>8 DEF Destroyed, MountTypes
    <2>3. MountTypes'
        <3>1. client' \in [Conn -> {"none", "up", "lost", "closed", "gone"}]
            BY <1>2, <1>8 DEF Destroyed, MountTypes
        <3>2. holds' \in [Kind -> Conn \cup {NoConn}]
            BY <1>2, <1>3, <1>8 DEF MountTypes
        <3> QED
            BY <1>1, <1>2, <1>8, <2>1, <3>1, <3>2, MountTyped
    <2>4. Coming'
        <3>1. ASSUME NEW k \in Kind, holds'[k] # NoConn PROVE client'[holds'[k]] # "none"
            <4>1. \A j \in Kind : holds[j] # NoConn => holds[j] \in Conn /\ client[holds[j]] # "none"
                BY <1>2 DEF DesktopInv, Coming, MountTypes
            <4>2. holds'[k] \in Conn /\ client[holds'[k]] # "none"
                BY <1>3, <2>2, <3>1, <4>1
            <4> QED
                BY <2>2, <4>2
        <3>2. connector'.pc = "posted"
            BY <1>1, <1>3
        <3> QED
            BY <1>4, <3>1, <3>2 DEF Coming, Connects1
    <2>5. Mounted'
        <3>1. fuse # NoConn => client'[fuse] = "up" \/ fuse \in dropped
            <4>1. ASSUME fuse # NoConn, client[fuse] = "up" PROVE client'[fuse] = "up"
                <5>1. fuse \in Conn /\ fuse # c /\ fuse # holds[kind[c]]
                    BY <1>2, <1>3, <4>1 DEF MountTypes
                <5> QED
                    BY <2>2, <4>1, <5>1
            <4> QED
                BY <4>1 DEF DesktopInv, Mounted
        <3>2. \A d \in Conn : (client'[d] = "lost" => d \in dropped) /\ (d \in dropped => client'[d] # "none")
            BY <2>2 DEF DesktopInv, Mounted
        <3> QED
            BY <1>1, <2>1, <3>1, <3>2 DEF DesktopInv, Mounted
    <2>6. Ejections'
        BY <1>1, <2>1, EjectionsHandled
    <2> QED
        BY <1>2, <1>5, <1>6, <2>3, <2>4, <2>5, <2>6 DEF DesktopInv
<1> QED
    BY <1>7, <1>8 DEF HandleConnected
LEMMA VolumeKeepsInv ==
    ASSUME DesktopInv, VolumeSeen \/ Activate
    PROVE  DesktopInv'
<1> USE DEF mounting
<1>1. PICK pc \in {"seen", "loop"} :
          /\ gui' = [gui EXCEPT !.pc = pc]
          /\ UNCHANGED <<hosting, client, kind, dropped, connector, fuse, loop, stopping, server_, webHost, ticket_,
                         holds, busyShare, busyConnect, queue, callback, quit>>
          /\ gui.pc \in {"wait", "seen"}
          /\ active' \in BOOLEAN /\ (pc = "seen" => active' = active) /\ shown' \in BOOLEAN
    BY DEF VolumeSeen, Activate, DesktopInv, MountTypes
<1>2. gui' = [pc |-> pc, then |-> gui.then, conn |-> gui.conn]
    BY <1>1 DEF DesktopInv, MountTypes
<1>3. QueueTypes' /\ Waiting' = Waiting /\ ConnectBusy' /\ Coming'
    BY <1>1, Frame
<1>4. ShareTypes' /\ ShareBusy' /\ Holding' /\ Running' /\ Ticketed' /\ Stored'
    BY <1>1, <1>3, MountKeepsHosting
<1>5. MountTypes'
    <2>1. gui' \in [pc : {"loop", "wait", "seen", "stop"}, then : {"", "drop", "unmounted", "quit"},
                  conn : Conn \cup {NoConn}]
        BY <1>1, <1>2 DEF DesktopInv, MountTypes
    <2> QED
        BY <1>1, <2>1, MountTyped DEF DesktopInv
<1>6. Mounted'
    BY <1>1, <1>2 DEF DesktopInv, Mounted
<1>7. Ejections'
    BY <1>1, <1>2 DEF DesktopInv, Ejections
<1> QED
    BY <1>3, <1>4, <1>5, <1>6, <1>7 DEF DesktopInv

LEMMA ShareStays ==
    ASSUME DesktopInv, QueueTypes', UNCHANGED <<hosting, server_, webHost, ticket_, busyShare, queue>>,
           \/ quit' = quit
           \/ quit \in {"mount", "clients"} /\ quit' \in {"clients", "web"}
           \/ quit' \in {"events", "crashed"} /\ quit = "members"
           \/ quit = "worker" /\ quit' = "mount" /\ Finished(worker.pc)
    PROVE  ShareTypes' /\ ShareBusy' /\ Holding' /\ Running' /\ Ticketed' /\ Stored'
<1> USE DEF hosting
<1>1. ShareTypes' /\ ShareBusy'
    BY Frame
<1>2. Stored'
    BY DEF DesktopInv, Stored
<1>3. Holding' /\ Running' /\ Ticketed'
    <2>1. CASE quit' = quit
        BY <2>1, Frame
    <2>2. CASE quit' # "open"
        BY <2>2 DEF Holding, Running, Ticketed
    <2> QED
        BY <2>1, <2>2
<1> QED
    BY <1>1, <1>2, <1>3

LEMMA EndStopKeepsInv ==
    ASSUME DesktopInv, EndStop
    PROVE  DesktopInv'
<1>0. PICK goes \in {Held, {gui.conn}, {}} :
          /\ client' = Destroyed(goes)
          /\ holds' = [k \in Kind |-> IF holds[k] \in goes THEN NoConn ELSE holds[k]]
          /\ goes = {gui.conn} => gui.then = "unmounted" \/ gui.conn \in Held
    BY DEF EndStop
<1>1. /\ MountTypes /\ gui.pc = "stop" /\ fuse' = NoConn /\ loop' = "none" /\ UNCHANGED <<active, stopping>>
      /\ gui' = [gui EXCEPT !.pc = "loop"]
      /\ shown' \in BOOLEAN
      /\ quit' = IF gui.then = "quit" THEN "clients" ELSE quit
      /\ UNCHANGED <<hosting, kind, dropped, connector, server_, webHost, ticket_, busyShare, busyConnect,
                     queue, callback>>
    BY DEF EndStop, EndLoop, CacheDropped, DesktopInv
<1>2. gui' = [pc |-> "loop", then |-> gui.then, conn |-> gui.conn]
    BY <1>1 DEF MountTypes
<1>3. /\ gui.then = "quit" => quit = "mount"
      /\ gui.then = "unmounted" => gui.conn = fuse
      /\ ~active
    BY <1>1 DEF DesktopInv, Mounted, Ejections
<1>4. QueueTypes' /\ Waiting' = Waiting
    BY <1>1, <1>3 DEF DesktopInv, QueueTypes, Waiting, Steps
<1>5. ShareTypes' /\ ShareBusy' /\ Holding' /\ Running' /\ Ticketed' /\ Stored'
    BY <1>1, <1>3, <1>4, ShareStays
<1>6. /\ \A d \in Conn : client'[d] = IF d \in goes THEN "gone" ELSE client[d]
      /\ \A k \in Kind : holds'[k] # NoConn => holds'[k] = holds[k] /\ holds[k] \in Conn
      /\ Held' \subseteq Held
    <2>1. \A d \in Conn : client'[d] = IF d \in goes THEN "gone" ELSE client[d]
        BY <1>0 DEF Destroyed
    <2>2. \A k \in Kind : holds'[k] # NoConn => holds'[k] = holds[k] /\ holds[k] \in Conn
        BY <1>0, <1>1 DEF MountTypes
    <2>3. Held' \subseteq Held
        BY <2>2 DEF Held
    <2> QED
        BY <2>1, <2>2, <2>3
<1>7. MountTypes'
    <2>1. client' \in [Conn -> {"none", "up", "lost", "closed", "gone"}]
        BY <1>0, <1>1 DEF Destroyed, MountTypes
    <2>2. holds' \in [Kind -> Conn \cup {NoConn}]
        BY <1>0, <1>1 DEF MountTypes
    <2> QED
        <3>1. gui' \in [pc : {"loop", "wait", "seen", "stop"}, then : {"", "drop", "unmounted", "quit"},
                      conn : Conn \cup {NoConn}]
            BY <1>1, <1>2 DEF MountTypes
        <3> QED
            BY <1>1, <2>1, <2>2, <3>1, MountTyped
<1>8. ConnectBusy'
    <2>1. busyConnect => \A k \in Kind : holds'[k] # NoConn => client'[holds'[k]] # "up"
        BY <1>6 DEF DesktopInv, ConnectBusy
    <2> QED
        BY <1>1, <1>4, <2>1 DEF DesktopInv, ConnectBusy
<1>9. Coming'
    <2>1. ASSUME NEW c \in Conn, c \notin Held, fuse # c PROVE client'[c] = client[c]
        <3>1. c \notin goes
            BY <1>0, <1>3, <2>1
        <3> QED
            BY <1>6, <3>1
    <2>2. \A k \in Kind : holds'[k] # NoConn => client'[holds'[k]] # "none"
        BY <1>6 DEF DesktopInv, Coming
    <2>3. ASSUME connector.pc \in Connects1 \ {"connected"} PROVE client'[connector.conn] = "none"
        <3>1. connector.conn \in Conn /\ client[connector.conn] = "none"
            BY <1>1, <2>3 DEF DesktopInv, Coming, ConnectBusy, MountTypes
        <3>2. connector.conn \notin Held
            BY <3>1 DEF DesktopInv, Coming, Held
        <3>3. fuse # connector.conn
            <4>1. fuse # NoConn => client[fuse] = "up" \/ client[fuse] # "none"
                BY <1>1 DEF DesktopInv, Mounted, MountTypes
            <4> QED
                BY <3>1, <4>1, Numbers
        <3> QED
            BY <2>1, <3>1, <3>2, <3>3
    <2>4. ASSUME connector.pc = "connected"
          PROVE  client'[connector.conn] \in {"up", "lost"} /\ connector.conn \notin Held' /\ fuse' # connector.conn
        <3>1. connector.conn \in Conn /\ connector.conn # NoConn
            BY <1>1, <2>4 DEF DesktopInv, ConnectBusy, MountTypes, Connects1
        <3>2. client[connector.conn] \in {"up", "lost"} /\ connector.conn \notin Held /\ fuse # connector.conn
            BY <2>4 DEF DesktopInv, Coming
        <3> QED
            BY <1>1, <1>6, <2>1, <3>1, <3>2
    <2>5. ASSUME NEW e \in Waiting, e.what = "connected"
          PROVE  client'[e.of] \in {"up", "lost"} /\ e.of \notin Held' /\ fuse' # e.of
        <3>1. e.of \in Conn /\ e.of # NoConn
            BY <2>5, Results, Numbers DEF DesktopInv
        <3>2. client[e.of] \in {"up", "lost"} /\ e.of \notin Held /\ fuse # e.of
            BY <2>5 DEF DesktopInv, Coming
        <3> QED
            BY <1>1, <1>6, <2>1, <3>1, <3>2
    <2> QED
        BY <1>1, <1>4, <2>2, <2>3, <2>4, <2>5 DEF Coming
<1>10. Mounted'
    <2>1. \A d \in Conn : (client'[d] = "lost" => d \in dropped) /\ (d \in dropped => client'[d] # "none")
        BY <1>6 DEF DesktopInv, Mounted
    <2> QED
        BY <1>1, <1>2, <2>1 DEF Mounted
<1>11. Ejections'
    BY <1>1, <1>2, <1>3 DEF DesktopInv, Ejections
<1> QED
    BY <1>4, <1>5, <1>7, <1>8, <1>9, <1>10, <1>11 DEF DesktopInv
-----------------------------------------------------------------------------
(* ~MainWindow.                                                            *)

\* The steps that touch neither the mount nor the clients.
LEMMA QuitHostingKeepsInv ==
    ASSUME DesktopInv, Close \/ JoinConnector \/ QuitWeb \/ RoomAnswered \/ QuitUnmap \/ QuitServer
    PROVE  DesktopInv'
<1> USE DEF mounting
<1>1. /\ UNCHANGED <<mounting, ticket, worker, server_, webHost, ticket_, holds, busyShare, busyConnect, shown,
                     queue, gui, callback>>
      /\ \/ quit = "open" /\ quit' = "connector" /\ UNCHANGED <<server, web, upnp, rooms, stray>>
         \/ quit = "connector" /\ quit' = "worker" /\ UNCHANGED <<server, web, upnp, rooms, stray>>
         \/ quit = "web" /\ quit' \in {"unmap", "remove"} /\ UNCHANGED <<server, upnp, rooms, stray>>
         \/ quit = "remove" /\ quit' = "unmap" /\ UNCHANGED <<server, web, upnp>>
         \/ quit = "unmap" /\ quit' = "server" /\ UNCHANGED <<server, web, rooms, stray>>
         \/ quit = "server" /\ quit' = "members" /\ UNCHANGED <<web, upnp, rooms, stray>>
    BY DEF Close, Clicks, JoinConnector, QuitWeb, RoomAnswered, QuitUnmap, QuitServer, hosting
<1>2. /\ web' \in [Share -> {"none", "running", "gone"}]
      /\ upnp' \in Share \cup {NoShare}
      /\ server' \in [Share -> {"none", "made", "running", "stopped", "gone"}]
    BY DEF Close, JoinConnector, QuitWeb, RoomAnswered, QuitUnmap, QuitServer, Unmapped, hosting, DesktopInv,
           ShareTypes
<1>3. rooms' \subseteq Room /\ stray' \subseteq rooms'
    <2>1. ShareTypes
        BY DEF DesktopInv
    <2>2. CASE RoomAnswered
        <3>1. quit = "remove" => ticket_ = NoRoom \/ ticket_ \in rooms
            BY DEF DesktopInv, Stored
        <3> QED
            BY <2>1, <2>2, <3>1 DEF RoomAnswered, Removal, ShareTypes
    <2>3. CASE UNCHANGED <<rooms, stray>>
        BY <2>1, <2>3 DEF ShareTypes
    <2> QED
        BY <2>2, <2>3 DEF Close, JoinConnector, QuitWeb, QuitUnmap, QuitServer, hosting
<1>4. ShareTypes'
    BY <1>1, <1>2, <1>3 DEF DesktopInv, ShareTypes
<1>5. QueueTypes'
    BY <1>1 DEF DesktopInv, QueueTypes, Steps
<1>6. Holding' /\ Running' /\ Ticketed'
    BY <1>1 DEF Holding, Running, Ticketed
<1>7. Stored'
    BY <1>1 DEF DesktopInv, Stored
<1>8. MountTypes' /\ ShareBusy' /\ ConnectBusy' /\ Coming' /\ Ejections'
    BY <1>1, Frame
<1>9. Mounted'
    <2>1. gui.pc = "stop" /\ gui.then = "quit" => quit = "mount"
        BY DEF DesktopInv, Mounted
    <2> QED
        BY <1>1, <2>1 DEF DesktopInv, Mounted
<1> QED
    BY <1>4, <1>5, <1>6, <1>7, <1>8, <1>9 DEF DesktopInv

LEMMA JoinWorkerKeepsInv ==
    ASSUME DesktopInv, JoinWorker
    PROVE  DesktopInv'
<1>1. /\ quit = "worker" /\ quit' = "mount" /\ callback' = FALSE /\ Finished(worker.pc)
      /\ BeginStop("quit") /\ queue' = queue
    BY DEF JoinWorker
<1>2. /\ MountTypes' /\ Mounted' /\ gui'.pc = "stop" /\ ~active'
      /\ UNCHANGED <<client, kind, dropped, connector, fuse>>
      /\ UNCHANGED <<hosting, server_, webHost, ticket_, holds, busyShare, busyConnect, shown>>
    BY <1>1, BeginStopKeepsMount
<1>3. QueueTypes'
    BY <1>1 DEF DesktopInv, QueueTypes, Steps
<1>4. ShareTypes' /\ ShareBusy' /\ Holding' /\ Running' /\ Ticketed' /\ Stored'
    BY <1>1, <1>2, <1>3, ShareStays
<1>5. ConnectBusy' /\ Coming'
    BY <1>1, <1>2, Frame
<1>6. Ejections'
    BY <1>1, <1>2 DEF Ejections
<1> QED
    BY <1>2, <1>3, <1>4, <1>5, <1>6 DEF DesktopInv

\* The clients that the window holds are closed, then destroyed.
LEMMA HeldGo ==
    ASSUME DesktopInv, NEW how \in {"closed", "gone"},
           \A c \in Conn : client'[c] = IF c \in Held THEN how ELSE client[c],
           UNCHANGED <<connector, fuse, dropped, holds, busyConnect, queue>>
    PROVE  /\ ConnectBusy' /\ Coming'
           /\ \A d \in Conn : (client'[d] = "lost" => d \in dropped) /\ (d \in dropped => client'[d] # "none")
<1>1. MountTypes /\ Waiting' = Waiting /\ Held' = Held
    BY DEF DesktopInv, Waiting, Held
<1>2. \A k \in Kind : holds[k] # NoConn => client'[holds[k]] = how
    BY <1>1, Holds
<1>3. ConnectBusy'
    BY <1>1, <1>2 DEF DesktopInv, ConnectBusy
<1>4. ASSUME connector.pc \in Connects1
      PROVE  connector.conn \in Conn
    BY <1>1, <1>4 DEF DesktopInv, ConnectBusy, MountTypes
<1>5. ASSUME connector.pc \in Connects1 \ {"connected"} PROVE client'[connector.conn] = "none"
    <2>1. client[connector.conn] = "none"
        BY <1>5 DEF DesktopInv, Coming
    <2>2. connector.conn \notin Held
        BY <2>1 DEF DesktopInv, Coming, Held
    <2> QED
        BY <1>4, <1>5, <2>1, <2>2
<1>6. connector.pc = "connected" =>
          client'[connector.conn] \in {"up", "lost"} /\ connector.conn \notin Held /\ fuse # connector.conn
    BY <1>4 DEF DesktopInv, Coming, Connects1
<1>7. \A e \in Waiting : e.what = "connected" =>
          client'[e.of] \in {"up", "lost"} /\ e.of \notin Held /\ fuse # e.of
    BY Results DEF DesktopInv, Coming
<1>8. Coming'
    BY <1>1, <1>2, <1>5, <1>6, <1>7 DEF Coming
<1>9. \A d \in Conn : (client'[d] = "lost" => d \in dropped) /\ (d \in dropped => client'[d] # "none")
    BY DEF DesktopInv, Mounted
<1> QED
    BY <1>3, <1>8, <1>9

LEMMA QuitClientsKeepsInv ==
    ASSUME DesktopInv, QuitClients
    PROVE  DesktopInv'
<1>1. /\ MountTypes /\ quit = "clients" /\ quit' = "web"
      /\ UNCHANGED <<hosting, kind, dropped, connector, mount, server_, webHost, ticket_, holds, busyShare,
                     busyConnect, shown, queue, gui, callback>>
    BY DEF QuitClients, DesktopInv
<1>2. UNCHANGED <<fuse, loop, active, stopping>>
    BY <1>1 DEF mount
<1>3. /\ \A c \in Conn : client'[c] = IF c \in Held THEN "closed" ELSE client[c]
      /\ client' \in [Conn -> {"none", "up", "lost", "closed", "gone"}]
    BY DEF QuitClients, DesktopInv, MountTypes
<1>4. QueueTypes'
    BY <1>1 DEF DesktopInv, QueueTypes, Steps
<1>5. ShareTypes' /\ ShareBusy' /\ Holding' /\ Running' /\ Ticketed' /\ Stored'
    BY <1>1, <1>4, ShareStays
<1>6. MountTypes'
    BY <1>1, <1>3, MountTyped DEF mount
<1>7. /\ ConnectBusy' /\ Coming'
      /\ \A d \in Conn : (client'[d] = "lost" => d \in dropped) /\ (d \in dropped => client'[d] # "none")
    BY <1>1, <1>2, <1>3, HeldGo
<1>8. Mounted'
    <2>1. fuse = NoConn /\ gui.pc = "loop"
        BY <1>1 DEF DesktopInv, Mounted
    <2> QED
        BY <1>1, <1>2, <1>7, <2>1 DEF DesktopInv, Mounted
<1>9. Ejections'
    BY <1>1, <1>2, Frame
<1> QED
    BY <1>4, <1>5, <1>6, <1>7, <1>8, <1>9 DEF DesktopInv

LEMMA QuitMembersKeepsInv ==
    ASSUME DesktopInv, QuitMembers
    PROVE  DesktopInv'
<1>1. /\ MountTypes /\ ShareTypes /\ quit = "members" /\ quit' \in {"events", "crashed"}
      /\ UNCHANGED <<web, upnp, rooms, stray, ticket, worker, kind, dropped, connector, mount, server_, webHost,
                     ticket_, holds, busyShare, busyConnect, shown, queue, gui, callback>>
    BY DEF QuitMembers, DesktopInv
<1>2. UNCHANGED <<fuse, loop, active, stopping>>
    BY <1>1 DEF mount
<1>3. QueueTypes'
    BY <1>1 DEF DesktopInv, QueueTypes, Steps
<1>4. ShareTypes'
    <2>1. server' \in [Share -> {"none", "made", "running", "stopped", "gone"}]
        BY <1>1 DEF QuitMembers, ShareTypes
    <2> QED
        BY <1>1, <2>1 DEF ShareTypes
<1>5. Holding' /\ Running' /\ Ticketed'
    BY <1>1 DEF Holding, Running, Ticketed
<1>6. Stored'
    BY <1>1 DEF DesktopInv, Stored
<1>7. ShareBusy' /\ Ejections'
    BY <1>1, <1>2, Frame
<1>8. ~(gui.pc = "stop" /\ gui.then = "quit")
    BY <1>1 DEF DesktopInv, Mounted
<1>9. CASE Joinable
    <2>1. client' = client
        BY <1>9 DEF QuitMembers
    <2>2. MountTypes'
        BY <1>1, <2>1, MountTyped DEF mount
    <2>3. ConnectBusy' /\ Coming'
        BY <1>1, <1>2, <2>1, Frame
    <2>4. Mounted'
        BY <1>1, <1>2, <1>8, <2>1 DEF DesktopInv, Mounted
    <2> QED
        BY <1>3, <1>4, <1>5, <1>6, <1>7, <2>2, <2>3, <2>4 DEF DesktopInv
<1>10. CASE ~Joinable
    <2>1. client' = Destroyed(Held)
        BY <1>10 DEF QuitMembers
    <2>2. \A c \in Conn : client'[c] = IF c \in Held THEN "gone" ELSE client[c]
        BY <2>1 DEF Destroyed
    <2>3. client' \in [Conn -> {"none", "up", "lost", "closed", "gone"}]
        BY <1>1, <2>1 DEF Destroyed, MountTypes
    <2>4. MountTypes'
        BY <1>1, <2>3, MountTyped DEF mount
    <2>5. /\ ConnectBusy' /\ Coming'
          /\ \A d \in Conn : (client'[d] = "lost" => d \in dropped) /\ (d \in dropped => client'[d] # "none")
        BY <1>1, <1>2, <2>2, HeldGo
    <2>6. fuse = NoConn
        BY <1>10 DEF Joinable, DesktopInv, Mounted
    <2>7. Mounted'
        BY <1>1, <1>2, <1>8, <2>5, <2>6 DEF DesktopInv, Mounted
    <2> QED
        BY <1>3, <1>4, <1>5, <1>6, <1>7, <2>4, <2>5, <2>7 DEF DesktopInv
<1> QED
    BY <1>9, <1>10

LEMMA QuitEventsKeepsInv ==
    ASSUME DesktopInv, QuitEvents
    PROVE  DesktopInv'
<1> DEFINE cs == {queue[i].of : i \in {j \in DOMAIN queue : queue[j].what = "connected"}}
<1>1. /\ MountTypes /\ ShareTypes /\ quit = "events" /\ queue' = <<>> /\ quit' = "done"
      /\ client' = Destroyed(cs)
      /\ UNCHANGED <<server, upnp, rooms, stray, ticket, worker, kind, dropped, connector, mount, server_,
                     webHost, ticket_, holds, busyShare, busyConnect, shown, gui, callback>>
    BY DEF QuitEvents, DesktopInv
<1>2. UNCHANGED <<fuse, loop, active, stopping>>
    BY <1>1 DEF mount
<1>3. DOMAIN queue' = {} /\ Waiting' = {} /\ queue' \in Seq(Events)
    <2>1. DOMAIN queue' = {} /\ queue' \in Seq(Events)
        BY <1>1, Nothing
    <2> QED
        BY <2>1 DEF Waiting
<1>4. QueueTypes'
    BY <1>1, <1>3 DEF DesktopInv, QueueTypes, Steps
<1>5. ShareTypes'
    <2>1. web' \in [Share -> {"none", "running", "gone"}]
        BY <1>1 DEF QuitEvents, ShareTypes
    <2> QED
        BY <1>1, <2>1 DEF ShareTypes
<1>6. Holding' /\ Running' /\ Ticketed'
    BY <1>1 DEF Holding, Running, Ticketed
<1>7. Stored'
    BY <1>1 DEF DesktopInv, Stored
<1>8. ShareBusy'
    BY <1>1, <1>3 DEF DesktopInv, ShareBusy
<1>9. \A c \in cs : \E e \in Waiting : e.what = "connected" /\ e.of = c
    BY DEF Waiting
<1>10. \A c \in cs : c \notin Held /\ c # fuse /\ connector.pc \notin Connects1
    <2>1. \A e \in Waiting : e.what = "connected" => e.of \notin Held /\ fuse # e.of
        BY DEF DesktopInv, Coming
    <2>2. \A e \in Waiting : e.what = "connected" => connector.pc \notin Connects1
        BY Results DEF DesktopInv, ConnectBusy
    <2> QED
        BY <1>9, <2>1, <2>2
<1>11. /\ \A c \in Conn : client'[c] = IF c \in cs THEN "gone" ELSE client[c]
       /\ client' \in [Conn -> {"none", "up", "lost", "closed", "gone"}]
    <2> HIDE DEF cs
    <2> QED
        BY <1>1 DEF Destroyed, MountTypes
<1> HIDE DEF cs
<1>12. MountTypes'
    BY <1>1, <1>11, MountTyped DEF mount
<1>13. \A k \in Kind : holds[k] # NoConn => holds[k] \in Conn /\ client'[holds[k]] = client[holds[k]]
    BY <1>1, <1>10, <1>11, Holds
<1>14. ConnectBusy'
    BY <1>1, <1>3, <1>13 DEF DesktopInv, ConnectBusy
<1>15. Coming'
    <2>1. ASSUME connector.pc \in Connects1 PROVE client'[connector.conn] = client[connector.conn]
        <3>1. connector.conn \in Conn
            BY <1>1, <2>1 DEF DesktopInv, ConnectBusy, MountTypes
        <3> QED
            BY <1>10, <1>11, <2>1, <3>1
    <2>2. Held' = Held
        BY <1>1 DEF Held
    <2>3. "connected" \in Connects1
        BY DEF Connects1
    <2> QED
        BY <1>1, <1>2, <1>3, <1>13, <2>1, <2>2, <2>3 DEF DesktopInv, Coming
<1>16. Mounted'
    <2>1. \A d \in Conn : (client'[d] = "lost" => d \in dropped) /\ (d \in dropped => client'[d] # "none")
        BY <1>11 DEF DesktopInv, Mounted
    <2>2. fuse # NoConn => client'[fuse] = client[fuse]
        BY <1>1, <1>10, <1>11 DEF MountTypes
    <2>3. ~(gui.pc = "stop" /\ gui.then = "quit")
        BY <1>1 DEF DesktopInv, Mounted
    <2> QED
        BY <1>1, <1>2, <2>1, <2>2, <2>3 DEF DesktopInv, Mounted
<1>17. Ejections'
    BY <1>1, <1>2, <1>3 DEF DesktopInv, Ejections
<1> QED
    BY <1>4, <1>5, <1>6, <1>7, <1>8, <1>12, <1>14, <1>15, <1>16, <1>17 DEF DesktopInv

-----------------------------------------------------------------------------
(* The theorems.                                                           *)

LEMMA StepKeepsInv == DesktopInv /\ [Next]_vars => DesktopInv'
<1> SUFFICES ASSUME DesktopInv, [Next]_vars PROVE DesktopInv'
    OBVIOUS
<1>1. CASE User
    BY <1>1, PressStopKeepsInv, StopPressedKeepsInv, PressHostKeepsInv, PressConnectKeepsInv,
       QuitHostingKeepsInv DEF User
<1>2. CASE Gui
    <2>1. CASE Quits
        BY <2>1, QuitHostingKeepsInv, JoinWorkerKeepsInv, QuitClientsKeepsInv, QuitMembersKeepsInv,
           QuitEventsKeepsInv DEF Quits
    <2>2. CASE HandleShare \/ HandleConnected \/ HandleFailed \/ HandleEjected
        BY <2>2, HandleShareKeepsInv, HandleConnectedKeepsInv, HandleFailedKeepsInv, HandleEjectedKeepsInv
    <2>3. CASE VolumeSeen \/ VolumeMissing \/ Activate \/ EndStop
        BY <2>3, VolumeKeepsInv, StopPressedKeepsInv, EndStopKeepsInv
    <2> QED
        BY <1>2, <2>1, <2>2, <2>3 DEF Gui
<1>3. CASE SharePosts \/ ConnectPosts \/ LoopEnds
    BY <1>3, SharePostsKeepsInv, ConnectPostsKeepsInv, LoopEndsKeepsInv
<1>4. CASE HostingStep /\ UNCHANGED <<mounting, window>>
    BY <1>4, StartingKeepsInv, PublishKeepsInv, StoppingKeepsInv, RemoveRoomKeepsInv DEF HostingStep
<1>5. CASE MountingStep /\ UNCHANGED <<hosting, window>>
    BY <1>5, MountingStepKeepsInv
<1>6. CASE UNCHANGED vars
    BY <1>6, Frame DEF DesktopInv, vars, hosting, mounting, window
<1> QED
    BY <1>1, <1>2, <1>3, <1>4, <1>5, <1>6 DEF Next, Threads

\* Every state of the program satisfies the inductive invariant.
THEOREM DesktopInvariant == Spec => []DesktopInv
<1>1. Init => DesktopInv
    BY InitHolds
<1>2. DesktopInv /\ [Next]_vars => DesktopInv'
    BY StepKeepsInv
<1> QED
    BY <1>1, <1>2, PTL DEF Spec

\* The variables of window, workers and mount have their types, and each thread has at most one
\* result in the queue.
THEOREM DesktopTyped == Spec => []TypeOK
<1>1. DesktopInv => HostingTypeOK
    BY DEF DesktopInv, ShareTypes, HostingTypeOK, Starting, Stopping
<1>2. DesktopInv => MountingTypeOK
    BY DEF DesktopInv, MountTypes, MountingTypeOK, Connects1
<1>3. DesktopInv => TypeOK
    <2>1. DesktopInv => \A i \in DOMAIN queue : queue[i] \in Events
        BY DEF DesktopInv, QueueTypes
    <2> QED
        BY <1>1, <1>2, <2>1 DEF DesktopInv, ShareTypes, MountTypes, QueueTypes, TypeOK
<1> QED
    BY <1>3, DesktopInvariant, PTL

\* While the window is open a stored room is in the hands of somebody who will remove it, and when
\* it neither hosts nor is about to, no server, browser host or port mapping of a share is left
\* (toggleShare and its two workers).
THEOREM NothingIsLeft == Spec => []NothingLeftBehind
<1>1. DesktopInv => NothingLeftBehind
    <2> SUFFICES ASSUME DesktopInv, quit = "open" PROVE NothingLeftBehind
        BY DEF NothingLeftBehind
    <2>1. rooms \ stray \subseteq Tickets
        BY DEF DesktopInv, Ticketed
    <2>2. \A s \in Share : web[s] = "running" => server[s] = "running"
        BY DEF DesktopInv, Running
    <2>3. ASSUME ~busyShare, server_ = NoShare
          PROVE  /\ \A s \in Share : server[s] # "running" /\ web[s] # "running"
                 /\ upnp = NoShare
        <3>1. worker.pc \notin {"webstop", "unmap", "srvstop"}
            BY <2>3 DEF DesktopInv, ShareBusy, Stopping
        <3>2. \A s \in Share : s # server_
            BY <2>3, Numbers
        <3>3. \A s \in Share : server[s] # "running"
            BY <3>1, <3>2 DEF DesktopInv, Running
        <3>4. upnp = NoShare
            BY <2>3, <3>1 DEF DesktopInv, Running
        <3> QED
            BY <2>2, <3>3, <3>4
    <2> QED
        BY <2>1, <2>2, <2>3 DEF NothingLeftBehind
<1> QED
    BY <1>1, DesktopInvariant, PTL

\* A mount's client is destroyed only after the mount, unless the connection broke under it.
THEOREM MountsHaveClients == Spec => []MountHasClient
<1>1. DesktopInv => MountHasClient
    BY DEF DesktopInv, Mounted, MountHasClient
<1> QED
    BY <1>1, DesktopInvariant, PTL

\* While the window is open, onMountEjected never stops a mount that runs: the ejection in the
\* queue is of the mount that was ejected.
THEOREM EjectionsHitTheirOwn == Spec => EjectHitsItsOwn
<1>1. DesktopInv /\ [Next]_vars => [HandleEjected /\ quit = "open" => loop # "running"]_vars
    <2> SUFFICES ASSUME DesktopInv, HandleEjected, quit = "open" PROVE loop # "running"
        OBVIOUS
    <2>1. queue # <<>> /\ Head(queue).what = "ejected"
        BY DEF HandleEjected, Handles
    <2>2. callback
        BY DEF DesktopInv, QueueTypes
    <2>3. 1 \in DOMAIN queue /\ Head(queue) = queue[1]
        <3>1. queue \in Seq(Events)
            BY DEF DesktopInv, QueueTypes
        <3> QED
            BY <2>1, <3>1
    <2> QED
        BY <2>1, <2>2, <2>3 DEF DesktopInv, Ejections
<1> QED
    BY <1>1, DesktopInvariant, PTL DEF Spec, EjectHitsItsOwn

=============================================================================
