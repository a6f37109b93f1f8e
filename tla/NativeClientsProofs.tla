------------------------- MODULE NativeClientsProofs -------------------------
(***************************************************************************)
(* ClientCount and NativeClients for every number of clients, of parallel  *)
(* streams and of faults, in three parts: what ClientCount promises of any *)
(* host; that a host which serves a native client over QUIC implements it; *)
(* and Negotiated, which is about the native client alone.                 *)
(***************************************************************************)
EXTENDS NativeClients, FiniteSetTheorems, TLAPS

-----------------------------------------------------------------------------
(* ClientCount.  sessions_ counts the streams that are served, and a       *)
(* number the window has not shown yet is always on its way.               *)

\* The streams of c that its entry of sessions_ stands for.
Counted(c) == {i \in 1 .. Streams : handler[<<c, i>>] \in {"added", "served"}}

\* What keeps its entry right ...
EntriesCount == \A c \in Client : sessions[c] = Cardinality(Counted(c))

\* ... and the number shown: if it is not the current one, an event is queued or about to be.
Announced ==
    running => \/ shown = clientCount
               \/ posted
               \/ \E s \in Stream : handler[s] \in {"added", "removed"}

IInv == TypeOK /\ EntriesCount /\ Announced

LEMMA StreamSets ==
    ASSUME NEW S \in SUBSET (1 .. Streams)
    PROVE  IsFiniteSet(S) /\ Cardinality(S) \in 0 .. Streams /\ (Cardinality(S) = 0 <=> S = {})
<1>1. IsFiniteSet(1 .. Streams) /\ Cardinality(1 .. Streams) = Streams
  BY ClientCountAssumption, FS_Interval
<1>2. IsFiniteSet(S) /\ Cardinality(S) \in Nat /\ Cardinality(S) <= Streams
  BY <1>1, FS_Subset, FS_CardinalityType
<1>3. Cardinality(S) = 0 <=> S = {}
  BY <1>2, FS_EmptySet
<1>. QED
  BY <1>2, <1>3, ClientCountAssumption

LEMMA CountedFinite ==
    ASSUME NEW c
    PROVE  /\ IsFiniteSet(Counted(c)) /\ Cardinality(Counted(c)) \in 0 .. Streams
           /\ Cardinality(Counted(c)) = 0 <=> Counted(c) = {}
<1>1. Counted(c) \in SUBSET (1 .. Streams)
  BY DEF Counted
<1>. QED
  BY <1>1, StreamSets

LEMMA ClientCountType == Cardinality(Client) \in Nat /\ clientCount \in 0 .. Cardinality(Client)
<1>1. {c \in Client : sessions[c] # 0} \in SUBSET Client
  OBVIOUS
<1>. QED
  BY <1>1, ClientCountAssumption, FS_Subset, FS_CardinalityType DEF clientCount

LEMMA CountingInit == Init => IInv
<1>. SUFFICES ASSUME Init PROVE IInv
  OBVIOUS
<1>1. TypeOK
  <2>1. 0 \in 0 .. Cardinality(Client) /\ 0 \in 0 .. Streams
    BY ClientCountType, ClientCountAssumption
  <2>. QED
    BY <2>1 DEF Init, TypeOK
<1>2. \A c \in Client : Counted(c) = {}
  BY DEF Init, Counted, Stream
<1>3. {c \in Client : sessions[c] # 0} = {}
  BY DEF Init
<1>. QED
  BY <1>1, <1>2, <1>3, FS_EmptySet DEF IInv, EntriesCount, Announced, Init, clientCount

\* Only Count and Uncount change which streams an entry stands for, by the one that moves.
LEMMA CountedStep ==
    ASSUME TypeOK, NEW s \in Stream, NEW pc, handler' = [handler EXCEPT ![s] = pc]
    PROVE  /\ \A c \in Client : c # ClientOf(s) => Counted(c)' = Counted(c)
           /\ ClientOf(s) \in Client
           /\ Counted(ClientOf(s))' = IF pc \in {"added", "served"}
                                      THEN Counted(ClientOf(s)) \cup {s[2]}
                                      ELSE Counted(ClientOf(s)) \ {s[2]}
           /\ s[2] \in Counted(ClientOf(s)) <=> handler[s] \in {"added", "served"}
<1>1. PICK c \in Client, i \in 1 .. Streams : s = <<c, i>>
  BY DEF Stream
<1>2. handler \in [Stream -> {"away", "handshake", "added", "served", "removed"}]
  BY DEF TypeOK
<1>3. ASSUME NEW d \in Client, NEW j \in 1 .. Streams
      PROVE  /\ <<d, j>> \in Stream
             /\ handler'[<<d, j>>] = IF d = c /\ j = i THEN pc ELSE handler[<<d, j>>]
  BY <1>1, <1>2 DEF Stream
<1>4. ClientOf(s) = c /\ s[2] = i
  BY <1>1 DEF ClientOf
<1>5. \A d \in Client : d # c => Counted(d)' = Counted(d)
  BY <1>3 DEF Counted
<1>6. Counted(c)' = IF pc \in {"added", "served"} THEN Counted(c) \cup {i} ELSE Counted(c) \ {i}
  BY <1>3 DEF Counted
<1>7. i \in Counted(c) <=> handler[s] \in {"added", "served"}
  BY <1>1 DEF Counted
<1>. QED
  BY <1>4, <1>5, <1>6, <1>7

LEMMA CountingNext == IInv /\ [Next]_vars => IInv'
<1>. SUFFICES ASSUME IInv, [Next]_vars PROVE IInv'
  OBVIOUS
<1>1. /\ TypeOK /\ EntriesCount /\ Announced
      /\ handler \in [Stream -> {"away", "handshake", "added", "served", "removed"}]
      /\ sessions \in [Client -> 0 .. Streams]
  BY DEF IInv, TypeOK
<1>2. \A c : Cardinality(Counted(c)') \in 0 .. Streams
  <2>1. \A c : Counted(c)' \in SUBSET (1 .. Streams)
    BY DEF Counted
  <2>. QED
    BY <2>1, StreamSets
<1>3. ASSUME NEW s \in Stream, Launch(s) \/ HandshakeFails(s) \/ NotifyAdded(s) \/ NotifyRemoved(s)
      PROVE  IInv'
  <2>1. PICK pc \in {"handshake", "away", "served"} :
              /\ handler' = [handler EXCEPT ![s] = pc] /\ sessions' = sessions
              /\ handler[s] \in {"added", "served"} <=> pc = "served"
    BY <1>1, <1>3 DEF Launch, HandshakeFails, NotifyAdded, NotifyRemoved
  <2>2. ASSUME NEW c \in Client PROVE Counted(c)' = Counted(c)
    <3>1. CASE c # ClientOf(s)
      BY <1>1, <2>1, <3>1, CountedStep
    <3>2. CASE c = ClientOf(s) /\ pc = "served"
      <4>1. Counted(c)' = Counted(c) \cup {s[2]} /\ s[2] \in Counted(c)
        BY <1>1, <2>1, <3>2, CountedStep
      <4>. QED
        BY <4>1
    <3>3. CASE c = ClientOf(s) /\ pc # "served"
      <4>1. Counted(c)' = Counted(c) \ {s[2]} /\ s[2] \notin Counted(c)
        BY <1>1, <2>1, <3>3, CountedStep
      <4>. QED
        BY <4>1
    <3>. QED
      BY <3>1, <3>2, <3>3
  <2>3. EntriesCount' /\ TypeOK'
    BY <1>1, <1>3, <2>1, <2>2 DEF EntriesCount, TypeOK, Launch, HandshakeFails, NotifyAdded,
             NotifyRemoved
  <2>4. Announced'
    <3>1. CASE NotifyAdded(s) \/ NotifyRemoved(s)
      BY <3>1 DEF NotifyAdded, NotifyRemoved, Announced
    <3>2. CASE Launch(s) \/ HandshakeFails(s)
      <4>1. \A x \in Stream : handler[x] \in {"added", "removed"} => handler'[x] = handler[x]
        BY <1>1, <3>2 DEF Launch, HandshakeFails
      <4>. QED
        BY <1>1, <3>2, <4>1 DEF Launch, HandshakeFails, Announced, clientCount
    <3>. QED
      BY <1>3, <3>1, <3>2
  <2>. QED
    BY <2>3, <2>4 DEF IInv
<1>4. ASSUME NEW s \in Stream, Count(s) PROVE IInv'
  <2>. DEFINE c == ClientOf(s)
  <2>1. PICK pc \in {"added", "served"} :
              /\ handler' = [handler EXCEPT ![s] = pc] /\ handler[s] = "handshake"
              /\ pc = "added" <=> sessions[c] = 0
    BY <1>1, <1>4 DEF Count
  <2>2. /\ c \in Client /\ Counted(c)' = Counted(c) \cup {s[2]} /\ s[2] \notin Counted(c)
        /\ \A d \in Client : d # c => Counted(d)' = Counted(d)
    BY <1>1, <2>1, CountedStep
  <2>. HIDE DEF c
  <2>3. sessions' = [sessions EXCEPT ![c] = sessions[c] + 1]
    BY <1>4 DEF Count, c
  <2>4. Cardinality(Counted(c)') = Cardinality(Counted(c)) + 1
    BY <2>2, CountedFinite, FS_AddElement
  <2>5. EntriesCount'
    BY <1>1, <2>2, <2>3, <2>4 DEF EntriesCount
  <2>6. sessions' \in [Client -> 0 .. Streams]
    BY <1>1, <1>2, <2>2, <2>3, <2>5 DEF EntriesCount
  <2>7. TypeOK'
    BY <1>1, <1>4, <2>1, <2>6 DEF Count, TypeOK
  <2>8. Announced'
    <3>1. CASE pc = "added"
      BY <1>1, <2>1, <3>1 DEF Announced
    <3>2. CASE pc = "served"
      <4>1. sessions[c] \in 0 .. Streams /\ sessions[c] # 0 /\ sessions'[c] # 0
        BY <1>1, <2>1, <2>2, <2>3, <3>2
      <4>2. {d \in Client : sessions'[d] # 0} = {d \in Client : sessions[d] # 0}
        BY <1>1, <2>2, <2>3, <4>1
      <4>3. \A x \in Stream : handler[x] \in {"added", "removed"} => handler'[x] = handler[x]
        BY <1>1, <2>1
      <4>. QED
        BY <1>1, <1>4, <4>2, <4>3 DEF Count, Announced, clientCount
    <3>. QED
      BY <3>1, <3>2
  <2>. QED
    BY <2>5, <2>7, <2>8 DEF IInv
<1>5. ASSUME NEW s \in Stream, Uncount(s) PROVE IInv'
  <2>. DEFINE c == ClientOf(s)
  <2>1. PICK pc \in {"removed", "away"} :
              /\ handler' = [handler EXCEPT ![s] = pc] /\ handler[s] = "served"
              /\ pc = "removed" <=> sessions[c] = 1
    BY <1>1, <1>5 DEF Uncount, Last
  <2>2. /\ c \in Client /\ Counted(c)' = Counted(c) \ {s[2]} /\ s[2] \in Counted(c)
        /\ \A d \in Client : d # c => Counted(d)' = Counted(d)
    BY <1>1, <2>1, CountedStep
  <2>. HIDE DEF c
  <2>3. sessions[c] # 0 /\ sessions[c] \in 0 .. Streams
    BY <1>1, <2>2, CountedFinite DEF EntriesCount
  <2>4. sessions' = [sessions EXCEPT ![c] = sessions[c] - 1]
    BY <1>5, <2>3 DEF Uncount, OneLess, c
  <2>5. Cardinality(Counted(c)') = Cardinality(Counted(c)) - 1
    <3>1. IsFiniteSet(Counted(c))
      BY CountedFinite
    <3>2. Cardinality(Counted(c) \ {s[2]}) = Cardinality(Counted(c)) - 1
      BY <2>2, <3>1, FS_RemoveElement
    <3>. QED
      BY <2>2, <3>2
  <2>6. EntriesCount'
    BY <1>1, <2>2, <2>4, <2>5 DEF EntriesCount
  <2>7. sessions' \in [Client -> 0 .. Streams]
    <3>1. sessions[c] - 1 \in 0 .. Streams
      BY <2>3, ClientCountAssumption
    <3>. QED
      BY <1>1, <2>4, <3>1
  <2>8. TypeOK'
    BY <1>1, <1>5, <2>1, <2>7 DEF Uncount, TypeOK
  <2>9. Announced'
    <3>1. CASE pc = "removed"
      BY <1>1, <2>1, <3>1 DEF Announced
    <3>2. CASE pc = "away"
      <4>1. sessions'[c] # 0
        BY <1>1, <2>1, <2>2, <2>3, <2>4, <3>2
      <4>2. {d \in Client : sessions'[d] # 0} = {d \in Client : sessions[d] # 0}
        BY <1>1, <2>2, <2>3, <2>4, <4>1
      <4>3. \A x \in Stream : handler[x] \in {"added", "removed"} => handler'[x] = handler[x]
        BY <1>1, <2>1
      <4>. QED
        BY <1>1, <1>5, <4>2, <4>3 DEF Uncount, Announced, clientCount
    <3>. QED
      BY <3>1, <3>2
  <2>. QED
    BY <2>6, <2>8, <2>9 DEF IInv
<1>6. CASE Refresh
  <2>1. handler' = handler /\ sessions' = sessions /\ running' = running
        /\ shown' \in {0, clientCount} /\ (running => shown' = clientCount) /\ posted' = FALSE
    BY <1>6 DEF Refresh
  <2>2. TypeOK'
    <3>1. shown' \in 0 .. Cardinality(Client)
      BY <2>1, ClientCountType
    <3>. QED
      BY <1>1, <2>1, <3>1 DEF TypeOK
  <2>. QED
    BY <1>1, <2>1, <2>2 DEF IInv, EntriesCount, Counted, Announced, clientCount
<1>7. CASE Stop
  BY <1>1, <1>7 DEF Stop, IInv, TypeOK, EntriesCount, Counted, Announced
<1>8. CASE UNCHANGED vars
  BY <1>1, <1>8 DEF vars, IInv, TypeOK, EntriesCount, Counted, Announced, clientCount
<1>. QED
  BY <1>3, <1>4, <1>5, <1>6, <1>7, <1>8 DEF Next

\* However the handlers of the parallel streams interleave, a client is counted while one of
\* its streams is served and no longer, and no order of the callbacks leaves a wrong number on
\* the screen once they have all been handled.
THEOREM ClientsAreCounted == Spec => []ClientsCounted
<1>1. IInv => OneClient
  <2>. SUFFICES ASSUME IInv, NEW c \in Client
                PROVE  (sessions[c] # 0) <=> \E s \in Stream :
                          ClientOf(s) = c /\ handler[s] \in {"added", "served"}
    BY DEF OneClient
  <2>1. sessions[c] # 0 <=> Counted(c) # {}
    BY CountedFinite DEF IInv, EntriesCount
  <2>2. \A s \in Stream : s[2] \in 1 .. Streams /\ s = <<ClientOf(s), s[2]>>
    BY DEF Stream, ClientOf
  <2>3. \A i \in 1 .. Streams : <<c, i>> \in Stream /\ ClientOf(<<c, i>>) = c
    BY DEF Stream, ClientOf
  <2>. QED
    BY <2>1, <2>2, <2>3 DEF Counted
<1>2. IInv => ShownSettles
  BY DEF IInv, Announced, ShownSettles
<1>3. IInv => ClientsCounted
  BY <1>1, <1>2 DEF ClientsCounted
<1>. QED
  BY <1>3, CountingInit, CountingNext, PTL DEF Spec

-----------------------------------------------------------------------------
(* NativeClients implements ClientCount.                                   *)

\* Signals, descriptions and endpoints do not touch the count; the streams they bring are
\* launched, counted and discounted as ClientCount says.
LEMMA NativeStep == [NativeNext]_<<vars, nativeVars>> => [Next]_vars
<1> SUFFICES ASSUME [NativeNext]_<<vars, nativeVars>>
             PROVE  [Next]_vars
    OBVIOUS
<1>1. CASE UNCHANGED <<vars, nativeVars>>
    BY <1>1
<1>2. CASE Signals /\ UNCHANGED vars
    BY <1>2
<1>3. ASSUME NEW s \in Stream, Serve(s) \/ Counts(s) \/ Ends(s) \/ Notifies(s)
      PROVE  Next
    <2>1. CASE Serve(s)
        BY <2>1 DEF Serve, Next
    <2>2. CASE Counts(s)
        BY <2>2 DEF Counts, Next
    <2>3. CASE Ends(s)
        BY <2>3 DEF Ends, Next
    <2>4. CASE Notifies(s)
        BY <2>4 DEF Notifies, Next
    <2> QED
        BY <1>3, <2>1, <2>2, <2>3, <2>4
<1>4. CASE Window \/ StopServer
    BY <1>4 DEF Window, StopServer, Next
<1> QED
    BY <1>1, <1>2, <1>3, <1>4 DEF NativeNext

\* The host with its native client implements the counting of ClientCount (sessions_ and the
\* callbacks in server.cpp), step for step.
THEOREM NativeImplementsCount == NativeSpec => Spec
<1>1. NativeInit => Init
    BY DEF NativeInit
<1> QED
    BY <1>1, NativeStep, PTL DEF NativeSpec, Spec

\* However the connection of a client is negotiated, used and lost, it is counted once, and the
\* window settles on the number of clients.
THEOREM NativeClientsAreCounted == NativeSpec => []ClientsCounted
    BY NativeImplementsCount, ClientsAreCounted

-----------------------------------------------------------------------------
(* Negotiated.  Its strengthening says, of every description and hello     *)
(* that is due, where on its way it is.                                    *)

Message == {"client-joined", "client-left", "hello", "description",
            "ready", "host-joined", "host-left", "error"}

NativeTypes ==
    /\ hostIn \in {"away", "in", "gone"} /\ clientIn \in BOOLEAN
    /\ ws \in {"none", "opening", "open", "closed"}
    /\ toHost \in Seq(Message) /\ toClient \in Seq(Message)
    /\ ready \in BOOLEAN /\ pending \in BOOLEAN
    /\ says \in [{"socket", "ice"} -> Seq(Message)]
    /\ endpoint \in [Side -> {"none", "running", "failed", "closed"}]
    /\ gathered \subseteq Side /\ remote \subseteq Side /\ faults \in Nat

\* Is m among the messages of s.
Under(m, s) == \E i \in DOMAIN s : s[i] = m

\* Before the room knows the client, or the host, nothing has been said.
ClientNew ==
    ws \in {"none", "opening"} =>
        /\ ready = FALSE /\ endpoint["host"] = "none"
        /\ \A thread \in DOMAIN says : says[thread] = <<>>
        /\ ~Under("hello", toHost) /\ ~Under("description", toHost)
HostNew == hostIn = "away" => toHost = <<>> /\ endpoint["host"] = "none"
Begun == step = "idle" => ws = "none"
Attached == ws = "open" => clientIn
Parted ==
    /\ Under("client-left", toHost) => ws = "closed"
    /\ \A thread \in DOMAIN says : ~Under("client-left", says[thread])

\* A description is kept until the client leaves, and only a running endpoint has one.
KeptPending == "client" \in gathered => pending \/ ws = "closed"
HostGathers == endpoint["host"] = "none" => "host" \notin gathered

\* The premise of Negotiated, but for the messages under way.
Well == faults = 0 /\ hostIn = "in" /\ ws = "open" /\ endpoint["client"] = "running"

HostWell == Well => endpoint["host"] \in {"none", "running"}
Met == ws = "open" => ready \/ Under("ready", toClient)
\* The hello, or what makes the client say it, is on its way, until the host has an endpoint.
Hailed ==
    Well => \/ endpoint["host"] = "running"
            \/ Under("ready", toClient) \/ Under("host-joined", toClient)
            \/ Under("hello", says["socket"]) \/ Under("hello", toHost)
\* So is the client's description ...
Described ==
    Well /\ "client" \in gathered =>
        \/ "host" \in remote
        \/ Under("ready", toClient) \/ Under("host-joined", toClient)
        \/ Under("description", says["socket"]) \/ Under("description", says["ice"])
        \/ Under("description", toHost)
\* ... and the host's.
Replied == Well /\ "host" \in gathered => "client" \in remote \/ Under("description", toClient)

NativeInv ==
    /\ NativeTypes
    /\ ClientNew /\ HostNew /\ Begun /\ Attached /\ Parted /\ KeptPending /\ HostGathers
    /\ HostWell /\ Met /\ Hailed /\ Described /\ Replied

\* What is among the messages of an empty queue, a longer and a shorter one.
LEMMA UnderEmpty == \A m : ~Under(m, <<>>)
    BY DEF Under

LEMMA UnderAppend ==
    ASSUME NEW s \in Seq(Message), NEW x \in Message
    PROVE  /\ Append(s, x) \in Seq(Message)
           /\ \A m : Under(m, Append(s, x)) <=> Under(m, s) \/ m = x
<1>1. Append(s, x) \in Seq(Message) /\ DOMAIN s = 1 .. Len(s) /\ Len(s) \in Nat
    OBVIOUS
<1>2. DOMAIN Append(s, x) = 1 .. Len(s) + 1
    OBVIOUS
<1>3. \A i \in DOMAIN s : Append(s, x)[i] = s[i]
    OBVIOUS
<1>4. Append(s, x)[Len(s) + 1] = x
    OBVIOUS
<1> QED
    BY <1>1, <1>2, <1>3, <1>4 DEF Under

LEMMA UnderTail ==
    ASSUME NEW s \in Seq(Message), s # <<>>
    PROVE  /\ Tail(s) \in Seq(Message) /\ Head(s) \in Message
           /\ \A m : Under(m, s) <=> m = Head(s) \/ Under(m, Tail(s))
<1>1. Tail(s) \in Seq(Message) /\ DOMAIN s = 1 .. Len(s) /\ Len(s) \in Nat /\ Len(s) > 0
    OBVIOUS
<1>2. DOMAIN Tail(s) = 1 .. Len(s) - 1 /\ Head(s) = s[1]
    OBVIOUS
<1>3. \A i \in 1 .. Len(s) - 1 : Tail(s)[i] = s[i + 1]
    OBVIOUS
<1>4. ASSUME NEW m, Under(m, Tail(s)) PROVE Under(m, s)
    <2>1. PICK i \in 1 .. Len(s) - 1 : Tail(s)[i] = m
        BY <1>2, <1>4 DEF Under
    <2>2. i + 1 \in DOMAIN s /\ s[i + 1] = m
        BY <1>1, <1>3, <2>1
    <2> QED
        BY <2>2 DEF Under
<1>5. ASSUME NEW m, Under(m, s), m # Head(s) PROVE Under(m, Tail(s))
    <2>1. PICK i \in DOMAIN s : s[i] = m
        BY <1>5 DEF Under
    <2>2. i - 1 \in 1 .. Len(s) - 1 /\ Tail(s)[i - 1] = m
        BY <1>1, <1>2, <1>3, <1>5, <2>1
    <2> QED
        BY <1>2, <2>2 DEF Under
<1>6. 1 \in DOMAIN s
    BY <1>1
<1> QED
    BY <1>1, <1>2, <1>4, <1>5, <1>6 DEF Under

\* What the client says when it hears of the host.
LEMMA UnderIntroduction ==
    ASSUME NEW said, said = <<"hello">> \o Pending
    PROVE  /\ said \in Seq(Message) /\ Under("hello", said) /\ ~Under("client-left", said)
           /\ pending => Under("description", said)
<1>1. "hello" \in Message /\ "description" \in Message
    BY DEF Message
<1>2. <<"hello">> \in Seq(Message) /\ Len(<<"hello">>) = 1 /\ <<"hello">>[1] = "hello"
    BY <1>1
<1>3. Pending \in Seq(Message) /\ (pending => Len(Pending) = 1 /\ Pending[1] = "description")
    BY <1>1 DEF Pending
<1>4. said \in Seq(Message) /\ Len(said) = 1 + Len(Pending) /\ DOMAIN said = 1 .. Len(said)
    BY <1>2, <1>3
<1>5. said[1] = "hello" /\ 1 \in DOMAIN said
    BY <1>2, <1>3, <1>4
<1>6. pending => said[2] = "description" /\ 2 \in DOMAIN said
    BY <1>2, <1>3, <1>4
<1>7. \A i \in DOMAIN said : said[i] \in {"hello", "description"}
    BY <1>2, <1>3, <1>4 DEF Pending
<1> QED
    BY <1>4, <1>5, <1>6, <1>7 DEF Under

\* The two sides of a negotiation.
LEMMA OtherSide == Other("client") = "host" /\ Other("host") = "client"
    BY DEF Other, Side

\* Nothing is due before anybody has spoken.
LEMMA NativeInvInit == NativeInit => NativeInv
<1> SUFFICES ASSUME NativeInit PROVE NativeInv
    OBVIOUS
<1>1. NativeTypes
    <2>1. <<>> \in Seq(Message)
        OBVIOUS
    <2>2. says \in [{"socket", "ice"} -> Seq(Message)]
        BY <2>1 DEF NativeInit
    <2>3. endpoint \in [Side -> {"none", "running", "failed", "closed"}]
        BY DEF NativeInit
    <2> QED
        BY <2>1, <2>2, <2>3 DEF NativeInit, NativeTypes
<1>2. ClientNew /\ HostNew /\ Begun /\ Attached /\ Parted /\ KeptPending /\ HostGathers
    BY UnderEmpty DEF NativeInit, ClientNew, HostNew, Begun, Attached, Parted, KeptPending,
                      HostGathers, Side
<1>3. HostWell /\ Met /\ Hailed /\ Described /\ Replied
    BY DEF NativeInit, HostWell, Met, Hailed, Described, Replied, Well
<1> QED
    BY <1>1, <1>2, <1>3 DEF NativeInv

\* A message of the room reaches the client, if the room knows it, behind what is under way.
LEMMA ToldUnder ==
    ASSUME NativeTypes, NEW message \in Message, Told(message)
    PROVE  /\ toClient' \in Seq(Message)
           /\ \A m : Under(m, toClient) => Under(m, toClient')
           /\ clientIn => Under(message, toClient')
    BY UnderAppend DEF NativeTypes, Told

\* A socket that has just come into the room.
LEMMA UnderOne == \A m : Under(m, <<"ready">>) <=> m = "ready"
    BY DEF Under

\* The room.
LEMMA RoomKeepsInv ==
    ASSUME NativeInv, AttachHost \/ AttachClient \/ DetachHost \/ DetachClient
    PROVE  NativeInv'
<1> USE DEF NativeInv, NativeTypes, room, own, ends
<1>0. /\ "client-joined" \in Message /\ "host-joined" \in Message /\ "ready" \in Message
      /\ "host-left" \in Message /\ "client-left" \in Message
    BY DEF Message
<1>1. CASE AttachHost
    <2>1. toHost = <<>> /\ toHost' \in {toHost, Append(toHost, "client-joined")}
        BY <1>1 DEF AttachHost, HostNew
    <2>2. toHost' \in Seq(Message)
          /\ \A m : Under(m, toHost') => m = "client-joined"
        <3>1. \A m : ~Under(m, toHost)
            BY <2>1, UnderEmpty
        <3>2. CASE toHost' = toHost
            BY <3>1, <3>2
        <3>3. CASE toHost' = Append(toHost, "client-joined")
            BY <1>0, <3>1, <3>3, UnderAppend
        <3> QED
            BY <2>1, <3>2, <3>3
    <2>3. /\ toClient' \in Seq(Message)
          /\ \A m : Under(m, toClient) => Under(m, toClient')
          /\ clientIn => Under("host-joined", toClient')
        BY <1>0, <1>1, ToldUnder DEF AttachHost
    <2> QED
        BY <1>1, <2>2, <2>3
        DEF AttachHost,
            ClientNew, HostNew, Begun, Attached, Parted, KeptPending, HostGathers,
            Well, HostWell, Met, Hailed, Described, Replied
<1>2. CASE AttachClient
    <2>1. toHost' \in Seq(Message)
          /\ \A m : Under(m, toHost') => Under(m, toHost) \/ m = "client-joined"
        BY <1>0, <1>2, UnderAppend DEF AttachClient
    <2>2. toClient' \in Seq(Message) /\ Under("ready", toClient')
        BY <1>0, <1>2, UnderOne DEF AttachClient
    <2> QED
        BY <1>2, <2>1, <2>2
        DEF AttachClient,
            ClientNew, HostNew, Begun, Attached, Parted, KeptPending, HostGathers,
            Well, HostWell, Met, Hailed, Described, Replied
<1>3. CASE DetachHost
    <2>1. toClient' \in Seq(Message) /\ \A m : Under(m, toClient) => Under(m, toClient')
        BY <1>0, <1>3, ToldUnder DEF DetachHost
    <2> QED
        BY <1>3, <2>1, UnderEmpty
        DEF DetachHost, Fails, ClientNew, HostNew, Begun, Attached, Parted, KeptPending,
            HostGathers, Well, HostWell, Met, Hailed, Described, Replied
<1>4. CASE DetachClient
    <2>1. /\ toHost' \in Seq(Message) /\ toClient' \in Seq(Message)
          /\ \A m : Under(m, toHost') => Under(m, toHost) \/ m = "client-left"
        BY <1>0, <1>4, UnderAppend DEF DetachClient, Farewell
    <2> QED
        BY <1>4, <2>1
        DEF DetachClient,
            ClientNew, HostNew, Begun, Attached, Parted, KeptPending, HostGathers,
            Well, HostWell, Met, Hailed, Described, Replied
<1> QED
    BY <1>1, <1>2, <1>3, <1>4

\* The endpoints: a description appears, a connection comes or goes.
LEMMA PathsKeepInv ==
    ASSUME NativeInv, NEW side \in Side,
           Gather(side) \/ Establish(side) \/ LosePeer(side) \/ BreakPath(side)
    PROVE  NativeInv'
<1> USE OtherSide DEF NativeInv, NativeTypes, room, own, ends, Side
<1>0. /\ "description" \in Message
      /\ <<"description">> \in Seq(Message) /\ Under("description", <<"description">>)
      /\ ~Under("client-left", <<"description">>)
    BY DEF Message, Under
<1>1. CASE Gather(side) /\ side = "host"
    <2>1. /\ toClient' \in Seq(Message)
          /\ \A m : Under(m, toClient) => Under(m, toClient')
          /\ hostIn = "in" /\ clientIn => Under("description", toClient')
        BY <1>0, <1>1, ToldUnder DEF Gather
    <2> QED
        BY <1>1, <2>1
        DEF Gather,
            ClientNew, HostNew, Begun, Attached, Parted, KeptPending, HostGathers,
            Well, HostWell, Met, Hailed, Described, Replied
<1>2. CASE Gather(side) /\ side = "client"
    <2>1. /\ says' \in [{"socket", "ice"} -> Seq(Message)]
          /\ ~ready => says' = says
          /\ ready => says'["ice"] = <<"description">> /\ says'["socket"] = says["socket"]
          /\ toClient' = toClient
        BY <1>0, <1>2 DEF Gather
    <2> QED
        BY <1>0, <1>2, <2>1
        DEF Gather,
            ClientNew, HostNew, Begun, Attached, Parted, KeptPending, HostGathers,
            Well, HostWell, Met, Hailed, Described, Replied
<1>3. CASE Establish(side)
    BY <1>3
    DEF Establish,
        ClientNew, HostNew, Begun, Attached, Parted, KeptPending, HostGathers,
        Well, HostWell, Met, Hailed, Described, Replied
<1>4. CASE LosePeer(side)
    BY <1>4
    DEF LosePeer,
        ClientNew, HostNew, Begun, Attached, Parted, KeptPending, HostGathers,
        Well, HostWell, Met, Hailed, Described, Replied
<1>5. CASE BreakPath(side)
    BY <1>5
    DEF BreakPath, Fails,
        ClientNew, HostNew, Begun, Attached, Parted, KeptPending, HostGathers,
        Well, HostWell, Met, Hailed, Described, Replied
<1> QED
    BY <1>1, <1>2, <1>3, <1>4, <1>5

\* The thread of connect and disconnect, and the loss of its socket.
LEMMA ThreadKeepsInv ==
    ASSUME NativeInv, Thread \/ LoseSocket
    PROVE  NativeInv'
<1> USE DEF NativeInv, NativeTypes, room, own, ends, Side
<1>1. CASE Connect
    BY <1>1
    DEF Connect,
        ClientNew, HostNew, Begun, Attached, Parted, KeptPending, HostGathers,
        Well, HostWell, Met, Hailed, Described, Replied
<1>2. CASE CannotConnect
    BY <1>2
    DEF CannotConnect, Fails,
        ClientNew, HostNew, Begun, Attached, Parted, KeptPending, HostGathers,
        Well, HostWell, Met, Hailed, Described, Replied
<1>3. CASE Signalled \/ Connected \/ Up
    <2>1. step' # "idle" /\ UNCHANGED <<room, ready, pending, says, ends, faults>>
        BY <1>3 DEF Signalled, Connected, Up
    <2> QED
        BY <2>1
        DEF ClientNew, HostNew, Begun, Attached, Parted, KeptPending, HostGathers,
            Well, HostWell, Met, Hailed, Described, Replied
<1>4. CASE Disconnect
    BY <1>4
    DEF Disconnect,
        ClientNew, HostNew, Begun, Attached, Parted, KeptPending, HostGathers,
        Well, HostWell, Met, Hailed, Described, Replied
<1>5. CASE CloseEndpoint
    BY <1>5
    DEF CloseEndpoint, Shut,
        ClientNew, HostNew, Begun, Attached, Parted, KeptPending, HostGathers,
        Well, HostWell, Met, Hailed, Described, Replied
<1>6. CASE LoseSocket
    BY <1>6
    DEF LoseSocket, Fails,
        ClientNew, HostNew, Begun, Attached, Parted, KeptPending, HostGathers,
        Well, HostWell, Met, Hailed, Described, Replied
<1> QED
    BY <1>1, <1>2, <1>3, <1>4, <1>5, <1>6 DEF Thread

\* The callbacks of the client's socket, and what they send.
LEMMA CallbacksKeepInv ==
    ASSUME NativeInv, Callbacks
    PROVE  NativeInv'
<1> USE DEF NativeInv, NativeTypes, room, own, ends, Side
<1>1. ASSUME NEW thread \in {"socket", "ice"}, Say(thread) PROVE NativeInv'
    <2>1. /\ Tail(says[thread]) \in Seq(Message) /\ Head(says[thread]) \in Message
          /\ \A m : Under(m, says[thread]) => m = Head(says[thread]) \/ Under(m, Tail(says[thread]))
          /\ \A m : m = Head(says[thread]) => Under(m, says[thread])
        BY <1>1, UnderTail DEF Say
    <2>2. /\ says' \in [{"socket", "ice"} -> Seq(Message)]
          /\ says'[thread] = Tail(says[thread])
          /\ \A other \in {"socket", "ice"} \ {thread} : says'[other] = says[other]
        BY <1>1, <2>1 DEF Say
    <2>3. \A t \in {"socket", "ice"} : \A m : Under(m, says'[t]) => Under(m, says[t])
        BY <1>1, <2>2, UnderTail DEF Say
    <2>4. /\ toHost' \in Seq(Message)
          /\ \A m : Under(m, toHost) => Under(m, toHost')
          /\ ws = "open" /\ hostIn = "in" => Under(Head(says[thread]), toHost')
          /\ ~(ws = "open" /\ hostIn = "in") => toHost' = toHost
          /\ \A m : Under(m, toHost') => Under(m, toHost) \/ m = Head(says[thread])
        BY <1>1, <2>1, UnderAppend DEF Say
    <2>5. Well => \A t \in {"socket", "ice"} : \A m :
                      Under(m, says[t]) => Under(m, says'[t]) \/ Under(m, toHost')
        BY <2>1, <2>2, <2>4 DEF Well
    <2>6. Well' <=> Well
        BY <1>1 DEF Say, Well
    <2>7. HostWell' /\ Met' /\ Hailed' /\ Described' /\ Replied'
        BY <1>1, <2>4, <2>5, <2>6 DEF Say, HostWell, Met, Hailed, Described, Replied
    <2>8. says[thread] # <<>> /\ ws' = ws
        BY <1>1 DEF Say
    <2>9. ClientNew' /\ HostNew' /\ Parted'
        BY <1>1, <2>1, <2>2, <2>3, <2>4, <2>8 DEF Say, ClientNew, HostNew, Parted
    <2> QED
        BY <1>1, <2>2, <2>4, <2>7, <2>9 DEF Say, Begun, Attached, KeptPending, HostGathers
<1>2. ASSUME NEW message, Hears(message)
      PROVE  /\ toClient' \in Seq(Message)
             /\ \A m : Under(m, toClient) => m = message \/ Under(m, toClient')
    BY <1>2, UnderTail DEF Hears
<1>3. ASSUME Introduces
      PROVE  /\ says' \in [{"socket", "ice"} -> Seq(Message)] /\ says'["ice"] = says["ice"]
             /\ Under("hello", says'["socket"]) /\ ~Under("client-left", says'["socket"])
             /\ pending => Under("description", says'["socket"])
    BY <1>3, UnderIntroduction DEF Introduces
<1>4. CASE HearReady
    <2>1. Hears("ready") /\ Introduces
        BY <1>4 DEF HearReady
    <2> QED
        BY <1>2, <1>3, <1>4, <2>1
        DEF HearReady, Hears,
            ClientNew, HostNew, Begun, Attached, Parted, KeptPending, HostGathers,
            Well, HostWell, Met, Hailed, Described, Replied
<1>5. CASE HearHostJoined
    <2>1. Hears("host-joined") /\ Introduces
        BY <1>5 DEF HearHostJoined
    <2> QED
        BY <1>2, <1>3, <1>5, <2>1
        DEF HearHostJoined, Hears,
            ClientNew, HostNew, Begun, Attached, Parted, KeptPending, HostGathers,
            Well, HostWell, Met, Hailed, Described, Replied
<1>6. CASE HearEnd
    <2>1. PICK message \in {"host-left", "error"} : Hears(message)
        BY <1>6 DEF HearEnd
    <2> QED
        BY <1>2, <1>6, <2>1
        DEF HearEnd, Hears, Shut,
            ClientNew, HostNew, Begun, Attached, Parted, KeptPending, HostGathers,
            Well, HostWell, Met, Hailed, Described, Replied
<1>7. CASE HearDescription
    <2>1. Hears("description")
        BY <1>7 DEF HearDescription
    <2>2. /\ says' = says /\ ready' = ready /\ pending' = pending /\ endpoint' = endpoint
          /\ ws' = ws /\ hostIn' = hostIn /\ clientIn' = clientIn /\ toHost' = toHost
          /\ step' = step /\ gathered' = gathered
        BY <1>7, <2>1 DEF HearDescription, Hears
    <2>3. remote' \in {remote, remote \cup {"client"}}
        BY <1>7 DEF HearDescription
    <2>4. faults' \in Nat /\ faults' >= faults
        BY <1>7 DEF HearDescription, Fails
    <2>5. Well' => Well /\ "client" \in remote'
        BY <1>7, <2>2, <2>4 DEF HearDescription, Fails, Well
    <2> QED
        BY <1>2, <2>1, <2>2, <2>3, <2>4, <2>5
        DEF ClientNew, HostNew, Begun, Attached, Parted, KeptPending, HostGathers,
            Well, HostWell, Met, Hailed, Described, Replied
<1>8. DOMAIN says = {"socket", "ice"}
    OBVIOUS
<1> QED
    BY <1>1, <1>4, <1>5, <1>6, <1>7, <1>8 DEF Callbacks

\* The host: on_signal, and its end.
LEMMA HostKeepsInv ==
    ASSUME NativeInv, HostSteps \/ StopHost
    PROVE  NativeInv'
<1> USE DEF NativeInv, NativeTypes, room, own, ends, Side
<1>0. "error" \in Message /\ "host-left" \in Message
    BY DEF Message
<1>1. ASSUME NEW message, HostHears(message)
      PROVE  /\ toHost' \in Seq(Message)
             /\ \A m : Under(m, toHost) => m = message \/ Under(m, toHost')
             /\ \A m : Under(m, toHost') => Under(m, toHost)
             /\ Under(message, toHost)
    BY <1>1, UnderTail DEF HostHears
<1>2. ASSUME CannotStart
      PROVE  toClient' \in Seq(Message) /\ \A m : Under(m, toClient) => Under(m, toClient')
    BY <1>0, <1>2, ToldUnder DEF CannotStart
<1>3. CASE HostHearsJoined
    <2>1. HostHears("client-joined")
        BY <1>3 DEF HostHearsJoined
    <2> QED
        BY <1>1, <1>3, <2>1
        DEF HostHearsJoined, HostHears,
            ClientNew, HostNew, Begun, Attached, Parted, KeptPending, HostGathers,
            Well, HostWell, Met, Hailed, Described, Replied
<1>4. CASE HostHearsHello
    <2>1. HostHears("hello")
        BY <1>4 DEF HostHearsHello
    <2>2. toClient' \in Seq(Message) /\ \A m : Under(m, toClient) => Under(m, toClient')
        BY <1>2, <1>4 DEF HostHearsHello
    <2>3. /\ ws' = ws /\ hostIn' = hostIn /\ clientIn' = clientIn /\ hostIn = "in"
          /\ step' = step /\ ready' = ready /\ pending' = pending /\ says' = says
          /\ gathered' = gathered
        BY <1>4, <2>1 DEF HostHears
    <2>4. endpoint' \in {endpoint, Created} /\ remote' \in {remote, remote \cup {"host"}}
        BY <1>4 DEF HostHearsHello, CannotStart
    <2>5. /\ endpoint' \in [Side -> {"none", "running", "failed", "closed"}]
          /\ endpoint'["client"] = endpoint["client"]
          /\ endpoint["host"] # "none" => endpoint'["host"] = endpoint["host"]
        BY <2>4 DEF Created
    <2>6. faults' \in Nat /\ faults' >= faults
        BY <1>4 DEF HostHearsHello, CannotStart, Fails
    <2>7. faults' = 0 => faults = 0 /\ endpoint' = Created
        BY <1>4 DEF HostHearsHello, CannotStart, Fails
    <2>8. Well' => Well /\ endpoint'["host"] = "running"
        BY <2>3, <2>5, <2>7 DEF Created, Well, HostWell
    <2> QED
        BY <1>1, <2>1, <2>2, <2>3, <2>4, <2>5, <2>6, <2>8
        DEF ClientNew, HostNew, Begun, Attached, Parted, KeptPending, HostGathers,
            Well, HostWell, Met, Hailed, Described, Replied
<1>5. CASE HostHearsDescription
    <2>1. HostHears("description")
        BY <1>5 DEF HostHearsDescription
    <2>2. toClient' \in Seq(Message) /\ \A m : Under(m, toClient) => Under(m, toClient')
        BY <1>0, <1>2, <1>5, ToldUnder DEF HostHearsDescription
    <2>3. /\ ws' = ws /\ hostIn' = hostIn /\ clientIn' = clientIn /\ hostIn = "in"
          /\ step' = step /\ ready' = ready /\ pending' = pending /\ says' = says
          /\ gathered' = gathered
        BY <1>5, <2>1 DEF HostHears
    <2>4. endpoint' \in {endpoint, Created} /\ remote' \in {remote, remote \cup {"host"}}
        BY <1>5 DEF HostHearsDescription, CannotStart
    <2>5. /\ endpoint' \in [Side -> {"none", "running", "failed", "closed"}]
          /\ endpoint'["client"] = endpoint["client"]
          /\ endpoint["host"] # "none" => endpoint'["host"] = endpoint["host"]
        BY <2>4 DEF Created
    <2>6. faults' \in Nat /\ faults' >= faults
        BY <1>5 DEF HostHearsDescription, CannotStart, Fails
    <2>7. faults' = 0 => faults = 0 /\ endpoint' = Created /\ "host" \in remote'
        BY <1>5 DEF HostHearsDescription, CannotStart, Fails
    <2>8. Well' => Well /\ endpoint'["host"] = "running" /\ "host" \in remote'
        BY <2>3, <2>5, <2>7 DEF Created, Well, HostWell
    <2> QED
        BY <1>1, <2>1, <2>2, <2>3, <2>4, <2>5, <2>6, <2>8
        DEF ClientNew, HostNew, Begun, Attached, Parted, KeptPending, HostGathers,
            Well, HostWell, Met, Hailed, Described, Replied
<1>6. CASE HostHearsLeft
    <2>1. HostHears("client-left")
        BY <1>6 DEF HostHearsLeft
    <2> QED
        BY <1>1, <1>6, <2>1
        DEF HostHearsLeft, HostHears, Shut,
            ClientNew, HostNew, Begun, Attached, Parted, KeptPending, HostGathers,
            Well, HostWell, Met, Hailed, Described, Replied
<1>7. CASE StopHost
    <2>1. toClient' \in Seq(Message) /\ \A m : Under(m, toClient) => Under(m, toClient')
        BY <1>0, <1>7, ToldUnder DEF StopHost
    <2>2. toHost' = <<>> /\ toHost' \in Seq(Message)
        BY <1>7 DEF StopHost
    <2> QED
        BY <1>7, <2>1, <2>2, UnderEmpty
        DEF StopHost, Shut,
            ClientNew, HostNew, Begun, Attached, Parted, KeptPending, HostGathers,
            Well, HostWell, Met, Hailed, Described, Replied
<1> QED
    BY <1>3, <1>4, <1>5, <1>6, <1>7 DEF HostSteps

\* What the streams and the count do not touch.
LEMMA CountKeepsInv ==
    ASSUME NativeInv, UNCHANGED <<room, own, ends, faults>>
    PROVE  NativeInv'
    BY DEF NativeInv, NativeTypes, room, own, ends,
           ClientNew, HostNew, Begun, Attached, Parted, KeptPending, HostGathers,
           Well, HostWell, Met, Hailed, Described, Replied

\* What is due stays on its way, whoever moves.
LEMMA NativeInvNext == NativeInv /\ [NativeNext]_<<vars, nativeVars>> => NativeInv'
<1> SUFFICES ASSUME NativeInv, [NativeNext]_<<vars, nativeVars>>
             PROVE  NativeInv'
    OBVIOUS
<1>1. CASE UNCHANGED <<vars, nativeVars>>
    BY <1>1, CountKeepsInv DEF nativeVars
<1>2. CASE Signals
    BY <1>2, RoomKeepsInv, PathsKeepInv, ThreadKeepsInv, CallbacksKeepInv, HostKeepsInv
    DEF Signals, Room, Paths, Mishaps
<1>3. CASE Window \/ StopServer
    BY <1>3, CountKeepsInv DEF Window, StopServer, nativeVars
<1>4. ASSUME NEW s \in Stream, Serve(s) \/ Counts(s) \/ Ends(s) \/ Notifies(s)
      PROVE  NativeInv'
    BY <1>4, CountKeepsInv DEF Serve, Counts, Ends, Notifies, nativeVars
<1> QED
    BY <1>1, <1>2, <1>3, <1>4 DEF NativeNext

\* When nothing is under way, everything that was due has been done.
LEMMA NativeInvNegotiated == NativeInv => Negotiated
<1> SUFFICES ASSUME NativeInv, Well, toHost = <<>>, toClient = <<>>,
                    \A thread \in DOMAIN says : says[thread] = <<>>
             PROVE  /\ endpoint["host"] = "running"
                    /\ \A side \in gathered : Other(side) \in remote
    BY DEF Negotiated, Well
<1>1. says["socket"] = <<>> /\ says["ice"] = <<>> /\ gathered \subseteq {"client", "host"}
    BY DEF NativeInv, NativeTypes, Side
<1>2. endpoint["host"] = "running"
    BY <1>1, UnderEmpty DEF NativeInv, Hailed
<1>3. "client" \in gathered => "host" \in remote
    BY <1>1, UnderEmpty DEF NativeInv, Described
<1>4. "host" \in gathered => "client" \in remote
    BY UnderEmpty DEF NativeInv, Replied
<1> QED
    BY <1>1, <1>2, <1>3, <1>4, OtherSide

\* Whoever comes into the room first, and in whatever order hello and descriptions come, each
\* side is given the description the other gathered: the comments on pendingDescription and
\* on_signal in web_compat.cpp.
THEOREM DescriptionsMeet == NativeSpec => []Negotiated
<1> QED
    BY NativeInvInit, NativeInvNext, NativeInvNegotiated, PTL DEF NativeSpec

=============================================================================
