------------------------------- MODULE Hosting -------------------------------
(***************************************************************************)
(* Hosting a folder from the desktop window: the work of the share worker, *)
(* a thread that starts the server, maps a port, publishes a room and      *)
(* starts the host for browsers (start_hosting and a lambda of             *)
(* MainWindow::toggleShare), and that undoes all this when hosting stops.  *)
(* What the window does before and after is in Desktop.                    *)
(*                                                                         *)
(* A share is one press of Host.  Each has a Server object, perhaps a      *)
(* WebRtcCompatHost object, which keeps a pointer to that Server, and the  *)
(* room its ticket names.  The signalling services are external: a create  *)
(* that fails may have stored the room all the same (its answer was lost), *)
(* and a removal may fail.                                                 *)
(***************************************************************************)
EXTENDS Naturals, Sequences, FiniteSets

CONSTANTS
    Share,          \* the shares that may be started, 1 .. n
    Attempts        \* how often a service is tried; 12 in the code

ASSUME HostingAssumption ==
    /\ IsFiniteSet(Share) /\ Share = 1 .. Cardinality(Share)
    /\ Attempts \in Nat /\ Attempts > 0

Backend == {"cloudflare", "firebase"}
NoShare == 0
NoRoom  == [share |-> NoShare]          \* ticket.cloudPublished = false
Room    == [share : Share, backend : Backend, try : 1 .. Attempts]

VARIABLES
    server,         \* the Server object of each share
    web,            \* its WebRtcCompatHost object
    upnp,           \* the share whose port upnp_ maps
    rooms,          \* the rooms the services store
    stray,          \* those nobody can be blamed for: the answer to their creation was lost, or
                    \* the service failed to remove them
    ticket,         \* the ticket of each share, in the worker's hands or in its result
    worker          \* shareWorker_: its share, what it does next, the attempt it makes

hosting == <<server, web, upnp, rooms, stray, ticket, worker>>

HostingTypeOK ==
    /\ server \in [Share -> {"none", "made", "running", "stopped", "gone"}]
    /\ web \in [Share -> {"none", "running", "gone"}]
    /\ upnp \in Share \cup {NoShare}
    /\ rooms \subseteq Room /\ stray \subseteq rooms
    /\ ticket \in [Share -> Room \cup {NoRoom}]
    /\ worker.share \in Share \cup {NoShare} /\ worker.try \in 1 .. Attempts
    /\ worker.pc \in {"idle", "server", "address", "cloudflare", "firebase", "web", "undo", "started",
                      "webstop", "unmap", "srvstop", "remove", "destroy", "stopped", "posted"}

HostingInit ==
    /\ server = [s \in Share |-> "none"] /\ web = [s \in Share |-> "none"]
    /\ upnp = NoShare /\ rooms = {} /\ stray = {}
    /\ ticket = [s \in Share |-> NoRoom]
    /\ worker = [share |-> NoShare, pc |-> "idle", try |-> 1]

At(pc) == worker.pc = pc
Goto(pc) == worker' = [worker EXCEPT !.pc = pc, !.try = 1]

(*************************** starting: start_hosting ***********************)

\* Server::start listens, or cannot.
StartServer ==
    /\ At("server")
    /\ \/ server' = [server EXCEPT ![worker.share] = "running"] /\ Goto("address")
       \/ Goto("undo") /\ UNCHANGED server
    /\ UNCHANGED <<web, upnp, rooms, stray, ticket>>

\* Upnp::map finds a port of the router that it may forward, or none.
MapOutcomes == {upnp, worker.share}

\* Only a share beyond the LAN without a global IPv6 address maps a port; if none can be mapped
\* it goes on with an address of the LAN.  Then the token is sealed into the offline blob; if that
\* fails, hosting fails with the port mapped.
PickAddress ==
    /\ At("address")
    /\ upnp' \in MapOutcomes
    /\ \E next \in {"cloudflare", "undo"} : Goto(next)
    /\ UNCHANGED <<server, web, rooms, stray, ticket>>

After(b) == IF b = "cloudflare" THEN "firebase" ELSE "started"

\* What comes of a request that stores a room: it is stored and acknowledged, or nothing is
\* stored, or it is stored and the answer lost.
CreateOutcomes(room) ==
    {[ok |-> TRUE,  rooms |-> rooms \cup {room}, stray |-> stray],
     [ok |-> FALSE, rooms |-> rooms,             stray |-> stray],
     [ok |-> FALSE, rooms |-> rooms \cup {room}, stray |-> stray \cup {room}]}

\* One attempt at a service, with a room code of its own.  After a failure the next attempt
\* follows, then the next service, then hosting without a room.
Publish(b) ==
    LET room == [share |-> worker.share, backend |-> b, try |-> worker.try]
    IN  /\ At(b)
        /\ \E out \in CreateOutcomes(room) :
              /\ rooms' = out.rooms /\ stray' = out.stray
              /\ ticket' = IF out.ok THEN [ticket EXCEPT ![worker.share] = room] ELSE ticket
              /\ CASE out.ok                        -> Goto("web")
                   [] ~out.ok /\ worker.try < Attempts -> worker' = [worker EXCEPT !.try = @ + 1]
                   [] OTHER                          -> Goto(After(b))
        /\ UNCHANGED <<server, web, upnp>>

\* A service that is not configured is not asked.
NotConfigured(b) ==
    /\ At(b) /\ worker.try = 1
    /\ Goto(After(b))
    /\ UNCHANGED <<server, web, upnp, rooms, stray, ticket>>

\* Only a published share is announced to browsers; if that fails it is hosted without them.
StartWeb ==
    /\ At("web")
    /\ web' \in {web, [web EXCEPT ![worker.share] = "running"]}
    /\ Goto("started")
    /\ UNCHANGED <<server, upnp, rooms, stray, ticket>>

\* Hosting failed: the port and the socket are given back on the worker's thread.
Undo ==
    /\ At("undo")
    /\ upnp' = NoShare
    /\ server' = [server EXCEPT ![worker.share] = IF @ = "running" THEN "stopped" ELSE @]
    /\ Goto("started")
    /\ UNCHANGED <<web, rooms, stray, ticket>>

(******************** stopping: the other lambda of toggleShare ************)

StopWeb ==
    /\ At("webstop")
    /\ web' = [web EXCEPT ![worker.share] = IF @ = "running" THEN "gone" ELSE @]
    /\ Goto("unmap")
    /\ UNCHANGED <<server, upnp, rooms, stray, ticket>>

Unmapped == NoShare

Unmap ==
    /\ At("unmap")
    /\ upnp' = Unmapped
    /\ Goto("srvstop")
    /\ UNCHANGED <<server, web, rooms, stray, ticket>>

StopServer ==
    /\ At("srvstop")
    /\ server' = [server EXCEPT ![worker.share] = "stopped"]
    /\ Goto("remove")
    /\ UNCHANGED <<web, upnp, rooms, stray, ticket>>

\* remove_published_room, whose failure nobody looks at.
Removal(room) ==
    IF room = NoRoom
      THEN UNCHANGED <<rooms, stray>>
      ELSE \/ rooms' = rooms \ {room} /\ stray' = stray \ {room}
           \/ stray' = stray \cup {room} /\ UNCHANGED rooms

RemoveRoom ==
    /\ At("remove")
    /\ Removal(ticket[worker.share])
    /\ ticket' = [ticket EXCEPT ![worker.share] = NoRoom]
    /\ Goto("destroy")
    /\ UNCHANGED <<server, web, upnp>>

Destroy ==
    /\ At("destroy")
    /\ server' = [server EXCEPT ![worker.share] = "gone"]
    /\ Goto("stopped")
    /\ UNCHANGED <<web, upnp, rooms, stray, ticket>>

\* What the worker does by itself; it posts its result once it is "started" or "stopped".
HostingStep ==
    \/ StartServer \/ PickAddress \/ StartWeb \/ Undo
    \/ \E b \in Backend : Publish(b) \/ NotConfigured(b)
    \/ StopWeb \/ Unmap \/ StopServer \/ RemoveRoom \/ Destroy
=============================================================================
