------------------------------ MODULE WebPeers ------------------------------
(***************************************************************************)
(* The host for browsers and for peers behind a room (WebRtcCompatHost in  *)
(* web_compat.cpp): which peers it keeps a WebRTC connection or a QUIC     *)
(* endpoint for, while they join, say what they are, and leave.            *)
(*                                                                         *)
(* The news of the peers come over a web socket to the signalling worker,  *)
(* in order, or from a room in the Firebase database, which a thread polls *)
(* (FirebaseCompatRelay).  Either way one thread, called the signalling    *)
(* thread here, runs on_signal.  Other threads are a timer for each peer   *)
(* that joined, the callbacks of libdatachannel, stop, and the window that *)
(* shows the number of clients.                                            *)
(*                                                                         *)
(* A peer is silent (a browser), says compat-hello, or native-quic-hello.  *)
(* Offers, answers and candidates, which change nothing here, are left     *)
(* out; what is said over the connections is in WebFiles.                  *)
(***************************************************************************)
EXTENDS Naturals, Sequences, FiniteSets, SequencesExt

CONSTANTS
    Peer,           \* the peers
    Says            \* what each of them says: "silent", "compat" or "quic"

ASSUME WebPeersAssumption ==
    /\ IsFiniteSet(Peer)
    /\ Says \in [Peer -> {"silent", "compat", "quic"}]

Inst == Peer \X {"timer", "hello"}      \* connections by who makes them
None == <<>>

VARIABLES
    relay,          \* how news come: "cloud" or "firebase"
    where, said,    \* each peer: it is out, in the room or has left; it has said what it is
    room,           \* Firebase: the clients and signals that are stored
    seenClients, seenSignals, poll,     \* the poller's
    inbox,          \* news for the signalling thread
    hand,           \* what that thread is doing, for which peer
    timer,          \* the timer of each peer
    live,
    pcs, channels,  \* the connection and the channel of each peer, which are made together
    closing,        \* connections that were dropped: their onClosed is to come
    quicPeers,      \* the peers with an endpoint in the map
    endpoint,       \* the endpoint of each peer
    departedPeers,
    stop,           \* where stop() is
    stopped,        \* the endpoints it has taken from the map
    owed, shown,    \* notifications on their way to the window, and the number it shows
    offered,        \* the peers a WebRTC connection was made for, whose making sends an offer
    refused,        \* those told that they get no endpoint
    handled         \* how often what each peer said was handled

outside == <<relay, where, said, room>>
news    == <<seenClients, seenSignals, poll, inbox>>
maps    == <<pcs, channels, closing, quicPeers, endpoint, departedPeers>>
count   == <<owed, shown>>
ghosts  == <<offered, refused, handled>>
peersVars == <<outside, news, hand, timer, live, maps, stop, stopped, count, ghosts>>

Clients == {p \in Peer : channels[p] # None}

\* The variables have their types; no signal is handled twice, though the database may keep it.
PeersTypeOK ==
    /\ relay \in {"cloud", "firebase"} /\ where \in [Peer -> {"out", "in", "left"}]
    /\ said \subseteq Peer /\ room \in [clients : SUBSET Peer, signals : SUBSET Peer]
    /\ seenClients \subseteq Peer /\ seenSignals \subseteq Peer /\ poll \in {"clients", "signals"}
    /\ \A i \in DOMAIN inbox : inbox[i].kind \in {"joined", "left", "signal"} /\ inbox[i].peer \in Peer
    /\ hand.pc \in {"idle", "make", "start", "keep", "close"}
    /\ timer \in [Peer -> {"none", "sleeping", "decided", "done"}]
    /\ live \in BOOLEAN
    /\ pcs \in [Peer -> Inst \cup {None}] /\ channels = pcs /\ closing \subseteq Inst
    /\ quicPeers \subseteq Peer /\ endpoint \in [Peer -> {"none", "up", "closed"}]
    /\ departedPeers \subseteq Peer /\ stopped \subseteq Peer
    /\ offered \subseteq Peer /\ refused \subseteq Peer
    /\ stop \in {"no", "closing", "join", "close", "done"} /\ owed \in Nat /\ shown \in 0 .. Cardinality(Peer)
    /\ handled \in [Peer -> 0 .. 1]

\* The host is live: start found one of the two services.
PeersInit ==
    /\ relay \in {"cloud", "firebase"}
    /\ where = [p \in Peer |-> "out"] /\ said = {} /\ room = [clients |-> {}, signals |-> {}]
    /\ seenClients = {} /\ seenSignals = {} /\ poll = "clients" /\ inbox = <<>>
    /\ hand = [pc |-> "idle"] /\ timer = [p \in Peer |-> "none"] /\ live = TRUE
    /\ pcs = [p \in Peer |-> None] /\ channels = pcs /\ closing = {}
    /\ quicPeers = {} /\ endpoint = [p \in Peer |-> "none"] /\ departedPeers = {}
    /\ stop = "no" /\ stopped = {}
    /\ owed = 0 /\ shown = 0
    /\ offered = {} /\ refused = {} /\ handled = [p \in Peer |-> 0]

News(k, p) == [kind |-> k, peer |-> p]

(********************************* the peers *******************************)

\* The worker forwards at once; the database stores.
Join(p) ==
    /\ where[p] = "out"
    /\ where' = [where EXCEPT ![p] = "in"]
    /\ IF relay = "cloud" THEN inbox' = Append(inbox, News("joined", p)) /\ UNCHANGED room
                          ELSE room' = [room EXCEPT !.clients = @ \cup {p}] /\ UNCHANGED inbox
    /\ UNCHANGED <<relay, said, seenClients, seenSignals, poll, hand, timer, live, maps, stop, stopped, count,
                   ghosts>>

Say(p) ==
    /\ where[p] = "in" /\ p \notin said /\ Says[p] # "silent"
    /\ said' = said \cup {p}
    /\ IF relay = "cloud" THEN inbox' = Append(inbox, News("signal", p)) /\ UNCHANGED room
                          ELSE room' = [room EXCEPT !.signals = @ \cup {p}] /\ UNCHANGED inbox
    /\ UNCHANGED <<relay, where, seenClients, seenSignals, poll, hand, timer, live, maps, stop, stopped, count,
                   ghosts>>

Leave(p) ==
    /\ where[p] = "in"
    /\ where' = [where EXCEPT ![p] = "left"]
    /\ IF relay = "cloud" THEN inbox' = Append(inbox, News("left", p)) /\ UNCHANGED room
                          ELSE room' = [room EXCEPT !.clients = @ \ {p}] /\ UNCHANGED inbox
    /\ UNCHANGED <<relay, said, seenClients, seenSignals, poll, hand, timer, live, maps, stop, stopped, count,
                   ghosts>>

(******************************* pollHost **********************************)

\* A round asks for the clients, then for the signals, and goes on to its end when the relay is
\* closed in between.
Polls(step) == /\ relay = "firebase" /\ poll = step /\ inbox = <<>> /\ hand.pc = "idle"
               /\ live \/ step = "signals"

\* The same news of each of S, in whatever order the database lists them.
All(k, S) == {[i \in 1 .. Cardinality(S) |-> News(k, q[i])] : q \in SetToSeqs(S)}

\* The request fails or times out: the round goes on without its answer.
PollFails ==
    /\ Polls(poll)
    /\ poll' = IF poll = "clients" THEN "signals" ELSE "clients"
    /\ UNCHANGED <<outside, seenClients, seenSignals, inbox, hand, timer, live, maps, stop, stopped, count, ghosts>>

\* The clients of the room are compared with those seen before.  Without any the database has no
\* such path, the answer is no object, and nobody is found to have left.
PollClients ==
    /\ Polls("clients")
    /\ IF room.clients = {}
         THEN UNCHANGED <<inbox, seenClients>>
         ELSE /\ \E j \in All("joined", room.clients \ seenClients), l \in All("left", seenClients \ room.clients) :
                 inbox' = j \o l
              /\ seenClients' = room.clients
    /\ poll' = "signals"
    /\ UNCHANGED <<outside, seenSignals, hand, timer, live, maps, stop, stopped, count, ghosts>>

\* Mutated: the deletion is relied upon.
Forgotten(new) == {}
Remembered(new) == seenSignals \cup new

\* Signals that were not seen are handed over; each is deleted then, or stays if that fails.
PollSignals ==
    LET new == room.signals \ seenSignals
    IN  /\ Polls("signals")
        /\ inbox' \in All("signal", new)
        /\ seenSignals' = Remembered(new)
        /\ \E stay \in SUBSET new : room' = [room EXCEPT !.signals = (@ \ new) \cup stay]
        /\ poll' = "clients"
        /\ UNCHANGED <<relay, where, said, seenClients, hand, timer, live, maps, stop, stopped, count, ghosts>>

(***************************** the connections *****************************)

\* Mutated: whether the number of channels changes is found out too late.
NoChange(p) == 0
Change(p) == IF channels[p] = None THEN 1 ELSE 0

\* Mutated: create_peer asks only before it takes the lock.
Unasked == TRUE
StillLive == live

\* The end of create_peer, under the lock.  A connection of the peer that is replaced goes, and
\* its onClosed comes.
Install(c) ==
    LET p == c[1] IN
    IF StillLive
      THEN /\ pcs' = [pcs EXCEPT ![p] = c] /\ channels' = [channels EXCEPT ![p] = c]
           /\ closing' = closing \cup ({pcs[p]} \ {None})
           /\ owed' = owed + Change(p)
           /\ offered' = offered \cup {p}
      ELSE UNCHANGED <<pcs, channels, closing, owed, offered>>

\* onClosed of a channel: its connection was dropped by the host, or the peer or the network ended
\* it.  The entries go by the name of the peer, whosever they are by now.
OnClosed(c) ==
    LET p == c[1] IN
    /\ c \in closing \/ pcs[p] = c
    /\ pcs' = [pcs EXCEPT ![p] = None] /\ channels' = [channels EXCEPT ![p] = None]
    /\ closing' = (closing \cup ({pcs[p]} \ {None})) \ {c}
    /\ owed' = owed + (IF channels[p] # None THEN 1 ELSE 0)
    /\ UNCHANGED <<outside, news, hand, timer, live, quicPeers, endpoint, departedPeers, stop, stopped, shown, ghosts>>

\* Mutated: the offer goes to those who left.
Left(p) == live /\ p \in departedPeers

\* A peer that has neither said hello nor left within 300 ms gets an offer.
Silent(p) == live /\ p \notin departedPeers /\ p \notin quicPeers /\ pcs[p] = None

TimerWakes(p) ==
    /\ timer[p] = "sleeping"
    /\ timer' = [timer EXCEPT ![p] = IF Silent(p) THEN "decided" ELSE "done"]
    /\ UNCHANGED <<outside, news, hand, live, maps, stop, stopped, count, ghosts>>

\* It decided under the lock and makes the connection without it.
TimerMakes(p) ==
    /\ timer[p] = "decided"
    /\ Install(<<p, "timer">>)
    /\ timer' = [timer EXCEPT ![p] = "done"]
    /\ UNCHANGED <<outside, news, hand, live, quicPeers, endpoint, departedPeers, stop, stopped, shown,
                   refused, handled>>

(*************************** the signalling thread *************************)

Takes(k) == hand.pc = "idle" /\ inbox # <<>> /\ Head(inbox).kind = k /\ inbox' = Tail(inbox)
Busy(pc, p) == hand' = [pc |-> pc, peer |-> p]
Free == hand' = [pc |-> "idle"]

ClientJoined ==
    LET p == Head(inbox).peer
    IN  /\ Takes("joined")
        /\ IF live THEN /\ departedPeers' = departedPeers \ {p}
                        /\ timer' = [timer EXCEPT ![p] = "sleeping"]
                   ELSE UNCHANGED <<departedPeers, timer>>
        /\ UNCHANGED <<outside, seenClients, seenSignals, poll, hand, live, pcs, channels, closing, quicPeers,
                       endpoint, stop, stopped, count, ghosts>>

\* Under the lock everything of the peer goes; the endpoint is closed after it.
ClientLeft ==
    LET p == Head(inbox).peer
    IN  /\ Takes("left")
        /\ departedPeers' = departedPeers \cup {p}
        /\ pcs' = [pcs EXCEPT ![p] = None] /\ channels' = [channels EXCEPT ![p] = None]
        /\ closing' = closing \cup ({pcs[p]} \ {None})
        /\ owed' = owed + (IF channels[p] # None THEN 1 ELSE 0)
        /\ quicPeers' = quicPeers \ {p}
        /\ IF p \in quicPeers THEN Busy("close", p) ELSE UNCHANGED hand
        /\ UNCHANGED <<outside, seenClients, seenSignals, poll, timer, live, endpoint, stop, stopped, shown, ghosts>>

\* Mutated: a peer that was made an offer needs no endpoint.
HasAny(p) == p \in quicPeers \/ pcs[p] # None
HasEndpoint(p) == p \in quicPeers

\* native-quic-hello, or a description from a peer without endpoint: an endpoint is made unless
\* there is one.  compat-hello: a connection, unless there is one.
Signal ==
    LET p == Head(inbox).peer
    IN  /\ Takes("signal")
        /\ handled' = [handled EXCEPT ![p] = @ + 1]
        /\ CASE Says[p] = "quic" /\ live /\ ~HasEndpoint(p) -> Busy("start", p)
             [] Says[p] = "compat" /\ pcs[p] = None        -> Busy("make", p)
             [] OTHER                                     -> UNCHANGED hand
        /\ UNCHANGED <<outside, seenClients, seenSignals, poll, timer, live, maps, stop, stopped, count,
                       offered, refused>>

HelloMakes ==
    /\ hand.pc = "make"
    /\ Install(<<hand.peer, "hello">>)
    /\ Free
    /\ UNCHANGED <<outside, news, timer, live, quicPeers, endpoint, departedPeers, stop, stopped, shown,
                   refused, handled>>

\* The endpoint starts, or cannot, of which the peer is told.
QuicStarts ==
    /\ hand.pc = "start"
    /\ \/ endpoint' = [endpoint EXCEPT ![hand.peer] = "up"] /\ Busy("keep", hand.peer) /\ UNCHANGED refused
       \/ refused' = refused \cup {hand.peer} /\ Free /\ UNCHANGED endpoint
    /\ UNCHANGED <<outside, news, timer, live, pcs, channels, closing, quicPeers, departedPeers, stop, stopped,
                   count, offered, handled>>

\* It is kept, or closed because the host stops.
QuicKeeps ==
    /\ hand.pc = "keep"
    /\ IF StillLive
         THEN quicPeers' = quicPeers \cup {hand.peer} /\ Free
         ELSE Busy("close", hand.peer) /\ UNCHANGED quicPeers
    /\ UNCHANGED <<outside, news, timer, live, pcs, channels, closing, endpoint, departedPeers, stop, stopped,
                   count, ghosts>>

QuicCloses ==
    /\ hand.pc = "close"
    /\ endpoint' = [endpoint EXCEPT ![hand.peer] = "closed"]
    /\ Free
    /\ UNCHANGED <<outside, news, timer, live, pcs, channels, closing, quicPeers, departedPeers, stop, stopped,
                   count, ghosts>>

Signalling == ClientJoined \/ ClientLeft \/ Signal \/ HelloMakes \/ QuicStarts \/ QuicKeeps \/ QuicCloses

(*********************************** stop **********************************)

\* The web socket is closed by the other side.
SocketClosed ==
    /\ relay = "cloud" /\ live
    /\ live' = FALSE
    /\ UNCHANGED <<outside, news, hand, timer, maps, stop, stopped, count, ghosts>>

Stop ==
    /\ stop = "no"
    /\ stop' = "closing" /\ live' = FALSE
    /\ UNCHANGED <<outside, news, hand, timer, maps, stopped, count, ghosts>>

\* The socket is closed without waiting for its thread; the relay's poller is joined.  Then, under
\* the lock, everything goes.
StopClears ==
    /\ stop = "closing"
    /\ relay = "firebase" => poll = "clients" /\ inbox = <<>> /\ hand.pc = "idle"
    /\ stop' = "join"
    /\ stopped' = quicPeers /\ quicPeers' = {}
    /\ pcs' = [p \in Peer |-> None] /\ channels' = pcs'
    /\ closing' = closing \cup {pcs[p] : p \in Clients}
    /\ owed' = owed + (IF Clients # {} THEN 1 ELSE 0)
    /\ UNCHANGED <<outside, news, hand, timer, live, endpoint, departedPeers, shown, ghosts>>

StopJoins ==
    /\ stop = "join" /\ \A p \in Peer : timer[p] \in {"none", "done"}
    /\ stop' = "close"
    /\ UNCHANGED <<outside, news, hand, timer, live, maps, stopped, count, ghosts>>

AllClosed == [p \in Peer |-> IF p \in stopped THEN "closed" ELSE endpoint[p]]

StopCloses ==
    /\ stop = "close"
    /\ endpoint' = AllClosed
    /\ stop' = "done"
    /\ UNCHANGED <<outside, news, hand, timer, live, pcs, channels, closing, quicPeers, departedPeers, stopped,
                   count, ghosts>>

Stopping == StopClears \/ StopJoins \/ StopCloses

(******************************* the number shown **************************)

\* A notification (notifyClients, which a thread calls after it has left the lock) reaches the
\* window, which asks clientCount.
Notified ==
    /\ owed > 0
    /\ owed' = owed - 1 /\ shown' = Cardinality(Clients)
    /\ UNCHANGED <<outside, news, hand, timer, live, maps, stop, stopped, ghosts>>

PeersNext ==
    \/ PollFails \/ PollClients \/ PollSignals \/ Signalling \/ SocketClosed \/ Stop \/ Stopping \/ Notified
    \/ \E p \in Peer : Join(p) \/ Say(p) \/ Leave(p) \/ TimerWakes(p) \/ TimerMakes(p)
    \/ \E c \in Inst : OnClosed(c)

PeersSpec == PeersInit /\ [][PeersNext]_peersVars

(***************************************************************************)
(* Fairness.  The signalling thread handles what comes, timers run,        *)
(* notifications are shown, and stop goes on.  Peers and the network do    *)
(* what they like.                                                         *)
(***************************************************************************)
PeersFairSpec ==
    /\ PeersSpec
    /\ WF_peersVars(Signalling) /\ WF_peersVars(Stopping) /\ WF_peersVars(Notified)
    /\ \A p \in Peer : WF_peersVars(TimerWakes(p)) /\ WF_peersVars(TimerMakes(p))

\* The database answers either request of the poller again and again, however many fail in between.
DatabaseAnswers == SF_peersVars(PollClients) /\ SF_peersVars(PollSignals)

(******************************** properties *******************************)

\* Once stop has cleared the maps nothing comes into them any more, whatever thread was about to
\* add to them; when it has returned, an endpoint that is up is in the hand of the signalling
\* thread, which closes it.
Held == {p \in Peer : hand.pc \in {"keep", "close"} /\ hand.peer = p}

StoppedIsEmpty ==
    /\ stop \in {"join", "close", "done"} => Clients = {} /\ quicPeers = {}
    /\ {p \in Peer : endpoint[p] = "up"} \subseteq
          quicPeers \cup Held \cup (IF stop = "done" THEN {} ELSE stopped)

\* A number that is wrong is about to be corrected: whatever changed the channels has a notification
\* on its way.
CountDue == owed = 0 => shown = Cardinality(Clients)

\* What fits a peer: one that asks for QUIC is kept an endpoint or told that it gets none, whatever
\* else it was offered; any other is made an offer.
HasAnswer(p) == IF Says[p] = "quic" THEN p \in quicPeers \cup refused ELSE p \in offered

\* As long as a peer in the room has no answer, someone is still going to see to it: that it joined
\* is under way or found at the next poll, its timer sleeps or has decided; and if it asked for QUIC,
\* that is under way, in the database and not yet seen, or just being done.
Coming(k, p) == \E i \in DOMAIN inbox : inbox[i] = News(k, p)

Announced(p) ==
    \/ Coming("joined", p)
    \/ relay = "firebase" /\ p \in room.clients \ seenClients
    \/ timer[p] \in {"sleeping", "decided"}

Asked(p) ==
    \/ Coming("signal", p)
    \/ p \in room.signals \ seenSignals
    \/ hand.pc \in {"start", "keep"} /\ hand.peer = p

NobodyForgotten ==
    \A p \in Peer : where[p] = "in" /\ live /\ ~HasAnswer(p) =>
        IF Says[p] = "quic" THEN p \in said => Asked(p) ELSE Announced(p)

\* What someone waits for, the window for its number and a peer for its answer, is being seen to
\* (create_peer and on_signal of WebRtcCompatHost, pollHost of FirebaseCompatRelay).
NothingForgotten == CountDue /\ NobodyForgotten

\* So all of it is done again and again, if the database answers: the window shows the right number,
\* in whatever order channels come, go and are announced; each peer in the room of a live host that
\* asked for QUIC has an endpoint in the map or was told that it gets none, whatever offer the timer
\* made it; and any other has its offer, whether it has said hello by then or not.
PeersSettle ==
    DatabaseAnswers =>
        []<>(/\ shown = Cardinality(Clients)
             /\ \A p \in Peer : where[p] = "in" /\ live /\ (Says[p] # "quic" \/ p \in said) => HasAnswer(p))
=============================================================================
