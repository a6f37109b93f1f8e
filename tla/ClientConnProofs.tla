-------------------------- MODULE ClientConnProofs --------------------------
(***************************************************************************)
(* A Client over any number of connections, shared by any number of        *)
(* threads: connect and disconnect are all or nothing, the host opens      *)
(* every record it gets, and a call is what RemoteCall says of it.         *)
(***************************************************************************)
EXTENDS ClientConn, FiniteSetTheorems, TLAPS

-----------------------------------------------------------------------------
(* The inductive invariant, by what it is about.                           *)

ReaderState ==
    [pc : {"none", "check", "recv", "callback", "lookup", "deliver", "dead", "sweep", "gone"},
     id : 0 .. MaxCalls]

\* TypeOK, with counters that have no bound yet.
OwnerTypes ==
    /\ connected \in BOOLEAN /\ conns \subseteq Conn
    /\ owner \in [pc : {"start", "dial", "greet", "greeted", "proven", "launch", "up", "fail", "closing",
                        "closed"}, c : Conn]
    /\ hand \in [Conn -> {"none", "hello", "challenge", "proof", "ok", "fail"}]
    /\ link \in [Conn -> BOOLEAN] /\ alive \in [Conn -> BOOLEAN]
    /\ reader \in [Conn -> ReaderState]

CallerState ==
    [pc : {"idle", "register", "lock", "seal", "write", "unsent", "wait", "answered", "late"},
     c : Conn, id : 0 .. MaxCalls, ctr : Nat]

CallTypes ==
    /\ nextId \in [Conn -> 1 .. MaxCalls + 1]
    /\ caller \in [Caller -> CallerState]
    /\ outcome \in [Call -> {"none", "open", "ok", "eio"}]
    /\ pend \in [Conn -> SUBSET Id]
    /\ answer \in [Call -> [done : BOOLEAN, status : {"ok", "eio"}]]
    /\ wmtx \in [Conn -> Caller \cup {NoOne}]

NetTypes ==
    /\ tx \in [Conn -> Nat] /\ rx \in [Conn -> Nat]
    /\ up \in [Conn -> Seq([ctr : Nat, id : Id])]
    /\ host \in [Conn -> 0 .. MaxCalls] /\ news \in 0 .. MaxNews
    /\ down \in [Conn -> Seq(0 .. MaxCalls)]
    /\ ran \subseteq Call

\* The life of the connections: a stream is open only when it is one of conns_ or the one being
\* made, a reader runs only over one of conns_, and none of either is left in the end.
Owned ==
    /\ \A c \in Conn : link[c] =>
           \/ c \in conns
           \/ owner.c = c /\ owner.pc \in {"greet", "greeted", "proven", "fail"}
    /\ owner.pc \in {"launch", "up"} => conns = Conn
    /\ \A c \in Conn : reader[c].pc # "none" =>
           \/ owner.pc \in {"launch", "up"}
           \/ owner.pc = "closing" /\ c \in conns
           \/ owner.pc = "closed" /\ reader[c].pc = "gone"
    /\ owner.pc = "closed" => \A c \in Conn : ~link[c]

\* Calls are made between connect and disconnect only.
Serving ==
    /\ \A t \in Caller : caller[t].pc # "idle" => owner.pc = "up"
    /\ owner.pc \notin {"up", "closing", "closed"} =>
           \A c \in Conn : tx[c] = 0 /\ rx[c] = 0 /\ up[c] = <<>>

\* A number of a connection is used from Begin on, by one caller, whose call is open.
Numbered ==
    /\ \A c \in Conn, i \in Id : outcome[<<c, i>>] # "none" <=> i < nextId[c]
    /\ \A t \in Caller : caller[t].pc # "idle" =>
           caller[t].id \in Id /\ outcome[<<caller[t].c, caller[t].id>>] = "open"
    /\ \A t, u \in Caller :
           caller[t].pc # "idle" /\ caller[u].pc # "idle" /\ t # u =>
               caller[t].c # caller[u].c \/ caller[t].id # caller[u].id

\* The record of call i on connection c is not written yet, nor has it been run.
Unwritten(c, i) ==
    i # host[c] /\ <<c, i>> \notin ran /\ \A j \in DOMAIN up[c] : up[c][j].id # i

\* A request is at one place: with its caller, on its way, with the host, or run.
Once ==
    /\ \A t \in Caller : caller[t].pc \in {"register", "lock", "seal", "write"} =>
           Unwritten(caller[t].c, caller[t].id)
    /\ \A c \in Conn : \A j \in DOMAIN up[c] :
           /\ up[c][j].id < nextId[c] /\ up[c][j].id # host[c] /\ <<c, up[c][j].id>> \notin ran
           /\ \A k \in DOMAIN up[c] : up[c][j].id = up[c][k].id => j = k
    /\ \A c \in Conn : host[c] # 0 => host[c] < nextId[c] /\ <<c, host[c]>> \notin ran
    /\ \A c \in Conn, i \in Id : <<c, i>> \in ran => i < nextId[c]

\* What is answered has been run.
Answered ==
    /\ \A c \in Conn : \A j \in DOMAIN down[c] : down[c][j] # 0 => <<c, down[c][j]>> \in ran
    /\ \A c \in Conn : reader[c].pc \in {"lookup", "deliver"} => <<c, reader[c].id>> \in ran
    /\ \A k \in Call : answer[k].done /\ answer[k].status = "ok" => k \in ran
    /\ \A t \in Caller : caller[t].pc = "answered" => answer[<<caller[t].c, caller[t].id>>].done

\* The holder of wmtx is the one thread that seals and writes.
Exclusive ==
    /\ \A t \in Caller : caller[t].pc \in {"seal", "write"} => wmtx[caller[t].c] = t
    /\ \A c \in Conn, t \in Caller : wmtx[c] = t =>
           caller[t].c = c /\ caller[t].pc \in {"seal", "write"}

\* On a working stream the host has opened, or has under way, every record but the one that is
\* sealed and not written.
Counters ==
    \A c \in Conn : link[c] =>
        /\ (\A t \in Caller : ~(caller[t].c = c /\ caller[t].pc = "write")) =>
               tx[c] = rx[c] + Len(up[c])
        /\ \A t \in Caller : caller[t].c = c /\ caller[t].pc = "write" =>
               caller[t].ctr = rx[c] + Len(up[c]) /\ tx[c] = rx[c] + Len(up[c]) + 1

\* Each record counted by tx is that of a number whose caller is past seal.
Sealed(c) ==
    {i \in Id : /\ i < nextId[c]
                /\ \A t \in Caller : caller[t].pc \in {"register", "lock", "seal"} =>
                       caller[t].c # c \/ caller[t].id # i}
Bounded ==
    /\ \A c \in Conn : tx[c] <= Cardinality(Sealed(c)) /\ rx[c] <= tx[c]
    /\ \A c \in Conn : \A j \in DOMAIN up[c] : up[c][j].ctr < tx[c]
    /\ \A t \in Caller : caller[t].pc = "write" => caller[t].ctr < tx[caller[t].c]

\* No thread holds a counter that was not given out.
Held == \A t \in Caller : caller[t].ctr <= tx[caller[t].c]

ConnInv ==
    /\ OwnerTypes /\ CallTypes /\ NetTypes
    /\ Owned /\ Serving /\ Numbered /\ Once /\ Answered /\ Exclusive /\ Counters
    /\ RecordsOpen /\ Bounded /\ Held

LEMMA InitHolds == Init => ConnInv
<1> SUFFICES ASSUME Init PROVE ConnInv
    OBVIOUS
<1> USE ClientConnAssumption DEF Init
<1>1. SomeConn \in Conn
    BY DEF SomeConn
<1>2. OwnerTypes
    <2>1. connected \in BOOLEAN /\ link \in [Conn -> BOOLEAN] /\ alive \in [Conn -> BOOLEAN]
        BY Zenon
    <2> QED
        BY <1>1, <2>1 DEF OwnerTypes, ReaderState
<1>3. CallTypes
    BY <1>1 DEF CallTypes, CallerState, Resting, Waiting
<1>4. NetTypes
    <2>1. up \in [Conn -> Seq([ctr : Nat, id : Id])] /\ down \in [Conn -> Seq(0 .. MaxCalls)]
        BY <1>1
    <2> QED
        BY <2>1 DEF NetTypes
<1>5. Owned /\ Serving
    BY DEF Owned, Serving, Resting
<1>6. Numbered
    BY DEF Numbered, Resting, Id, Call
<1>7. Once
    BY DEF Once, Resting
<1>8. Answered
    BY DEF Answered, Resting, Waiting
<1>9. Exclusive
    BY DEF Exclusive, Resting
<1>10. Counters /\ RecordsOpen
    BY DEF Counters, RecordsOpen, Resting
<1>11. Bounded
    <2>1. \A c \in Conn : Cardinality(Sealed(c)) \in Nat
        <3>1. IsFiniteSet(Id) /\ \A c \in Conn : Sealed(c) \subseteq Id
            BY FS_Interval DEF Id, Sealed
        <3> QED
            BY <3>1, FS_Subset, FS_CardinalityType
    <2> QED
        BY <2>1 DEF Bounded, Resting
<1>12. Held
    BY <1>1 DEF Held, Resting
<1> QED
    BY <1>2, <1>3, <1>4, <1>5, <1>6, <1>7, <1>8, <1>9, <1>10, <1>11, <1>12 DEF ConnInv

-----------------------------------------------------------------------------
(* Facts the steps share.                                                  *)

LEMMA Appended ==
    ASSUME NEW S, NEW q \in Seq(S), NEW e \in S
    PROVE  /\ Append(q, e) \in Seq(S) /\ Len(q) \in Nat /\ Len(Append(q, e)) = Len(q) + 1
           /\ DOMAIN q = 1 .. Len(q) /\ DOMAIN Append(q, e) = 1 .. Len(q) + 1
           /\ Append(q, e)[Len(q) + 1] = e
           /\ \A i \in DOMAIN q : Append(q, e)[i] = q[i]
    OBVIOUS

LEMMA Taken1 ==
    ASSUME NEW S, NEW q \in Seq(S), q # <<>>
    PROVE  /\ Head(q) = q[1] /\ Head(q) \in S /\ 1 \in DOMAIN q /\ DOMAIN q = 1 .. Len(q)
           /\ Tail(q) \in Seq(S) /\ Len(q) \in Nat /\ Len(Tail(q)) = Len(q) - 1
           /\ DOMAIN Tail(q) = 1 .. Len(q) - 1
           /\ \A i \in DOMAIN Tail(q) : i + 1 \in DOMAIN q /\ Tail(q)[i] = q[i + 1]
    OBVIOUS

LEMMA Elements ==
    ASSUME NEW S, NEW q \in Seq(S)
    PROVE  \A i \in DOMAIN q : q[i] \in S
    OBVIOUS

LEMMA Retyped ==
    ASSUME NEW S, NEW T, NEW q \in Seq(S), \A i \in DOMAIN q : q[i] \in T
    PROVE  q \in Seq(T)
    OBVIOUS

LEMMA InFlight ==
    ASSUME NetTypes, NEW c \in Conn
    PROVE  /\ Len(up[c]) \in Nat /\ DOMAIN up[c] = 1 .. Len(up[c])
           /\ \A j \in DOMAIN up[c] : up[c][j].ctr \in Nat /\ up[c][j].id \in Id
           /\ Len(down[c]) \in Nat /\ DOMAIN down[c] = 1 .. Len(down[c])
           /\ \A j \in DOMAIN down[c] : down[c][j] \in 0 .. MaxCalls
<1>1. up[c] \in Seq([ctr : Nat, id : Id]) /\ down[c] \in Seq(0 .. MaxCalls)
    BY DEF NetTypes
<1>2. /\ Len(up[c]) \in Nat /\ DOMAIN up[c] = 1 .. Len(up[c])
      /\ Len(down[c]) \in Nat /\ DOMAIN down[c] = 1 .. Len(down[c])
    BY <1>1
<1>3. \A j \in DOMAIN up[c] : up[c][j] \in [ctr : Nat, id : Id]
    BY <1>1, Elements
<1>4. \A j \in DOMAIN down[c] : down[c][j] \in 0 .. MaxCalls
    BY <1>1, Elements
<1> QED
    BY <1>2, <1>3, <1>4

\* A conjunct holds on while what it speaks of stays.
LEMMA Frame ==
    ASSUME ConnInv
    PROVE  /\ UNCHANGED <<link, conns, owner, reader>> => Owned'
           /\ UNCHANGED <<caller, owner, tx, rx, up>> => Serving'
           /\ UNCHANGED <<outcome, nextId, caller>> => Numbered'
           /\ UNCHANGED <<caller, host, ran, up, nextId>> => Once'
           /\ UNCHANGED <<down, reader, answer, caller, ran>> => Answered'
           /\ UNCHANGED <<caller, wmtx>> => Exclusive'
           /\ UNCHANGED <<link, tx, rx, up, caller>> => Counters'
           /\ UNCHANGED <<up, rx>> => RecordsOpen'
           /\ UNCHANGED <<tx, rx, nextId, caller, up>> => Bounded'
           /\ UNCHANGED <<tx, caller>> => Held'
<1> USE DEF ConnInv
<1>1. UNCHANGED <<link, conns, owner, reader>> => Owned'
    BY DEF Owned
<1>2. UNCHANGED <<caller, owner, tx, rx, up>> => Serving'
    BY DEF Serving
<1>3. UNCHANGED <<outcome, nextId, caller>> => Numbered'
    BY DEF Numbered
<1>4. UNCHANGED <<caller, host, ran, up, nextId>> => Once'
    BY DEF Once, Unwritten
<1>5. UNCHANGED <<down, reader, answer, caller, ran>> => Answered'
    BY DEF Answered
<1>6. UNCHANGED <<caller, wmtx>> => Exclusive'
    BY DEF Exclusive
<1>7. UNCHANGED <<link, tx, rx, up, caller>> => Counters'
    BY DEF Counters
<1>8. UNCHANGED <<up, rx>> => RecordsOpen'
    BY DEF RecordsOpen
<1>9. UNCHANGED <<tx, rx, nextId, caller, up>> => Bounded'
    BY DEF Bounded, Sealed
<1>10. UNCHANGED <<tx, caller>> => Held'
    BY DEF Held
<1> QED
    BY <1>1, <1>2, <1>3, <1>4, <1>5, <1>6, <1>7, <1>8, <1>9, <1>10

\* The records counted do not get fewer while no thread goes back before seal but with the next
\* number.
LEMMA SealedStay ==
    ASSUME NEW c \in Conn, nextId[c] \in Nat, nextId'[c] \in Nat, nextId[c] <= nextId'[c],
           \A t \in Caller : caller'[t].pc \in {"register", "lock", "seal"} =>
               \/ /\ caller[t].pc \in {"register", "lock", "seal"}
                  /\ caller'[t].c = caller[t].c /\ caller'[t].id = caller[t].id
               \/ caller'[t].id = nextId[caller'[t].c]
    PROVE  /\ Cardinality(Sealed(c)) \in Nat /\ Cardinality(Sealed(c)') \in Nat
           /\ Cardinality(Sealed(c)) <= Cardinality(Sealed(c)')
<1>1. Sealed(c) \subseteq Sealed(c)'
    <2>1. SUFFICES ASSUME NEW i \in Sealed(c) PROVE i \in Sealed(c)'
        OBVIOUS
    <2>2. /\ i \in Id /\ i < nextId[c] /\ i < nextId'[c]
          /\ \A t \in Caller : caller[t].pc \in {"register", "lock", "seal"} =>
                 caller[t].c # c \/ caller[t].id # i
        BY <2>1, ClientConnAssumption DEF Sealed, Id
    <2>3. ASSUME NEW t \in Caller, caller'[t].pc \in {"register", "lock", "seal"}
          PROVE  caller'[t].c # c \/ caller'[t].id # i
        BY <2>2, <2>3, ClientConnAssumption DEF Id
    <2> QED
        BY <2>2, <2>3 DEF Sealed
<1>2. IsFiniteSet(Id) /\ Sealed(c) \subseteq Id /\ Sealed(c)' \subseteq Id
    <2>1. IsFiniteSet(Id)
        BY FS_Interval, ClientConnAssumption DEF Id
    <2>2. Sealed(c) \subseteq Id
        BY DEF Sealed
    <2>3. Sealed(c)' \subseteq Id
        BY DEF Sealed
    <2> QED
        BY <2>1, <2>2, <2>3
<1>3. IsFiniteSet(Sealed(c)) /\ IsFiniteSet(Sealed(c)')
    BY <1>2, FS_Subset
<1> QED
    BY <1>1, <1>2, <1>3, FS_Subset, FS_CardinalityType

-----------------------------------------------------------------------------
(* The steps of request.                                                   *)

\* The ids of a connection do not run out before MaxCalls calls were made.
LEMMA NumberLeft ==
    ASSUME ConnInv, NEW c \in Conn, Cardinality({k \in Call : outcome[k] # "none"}) < MaxCalls
    PROVE  nextId[c] \in Id
<1> DEFINE made == {k \in Call : outcome[k] # "none"}
           ours == {c} \X Id
<1>1. nextId[c] \in 1 .. MaxCalls + 1 /\ MaxCalls \in Nat
    BY ClientConnAssumption DEF ConnInv, CallTypes, CallerState
<1>2. IsFiniteSet(Id)
    BY <1>1, FS_Interval DEF Id
<1>3. IsFiniteSet(Call)
    BY <1>2, FS_Product, ClientConnAssumption DEF Call
<1>4. IsFiniteSet(made)
    BY <1>3, FS_Subset
<1>5. Cardinality(ours) = MaxCalls
    <2>1. Cardinality(Id) = MaxCalls
        BY <1>1, FS_Interval DEF Id
    <2>2. IsFiniteSet({c}) /\ Cardinality({c}) = 1
        BY FS_Singleton
    <2>3. Cardinality(ours) = Cardinality({c}) * Cardinality(Id)
        BY <1>2, <2>2, FS_Product
    <2> QED
        BY <1>1, <2>1, <2>2, <2>3
<1>6. ASSUME nextId[c] = MaxCalls + 1 PROVE FALSE
    <2>1. \A i \in Id : outcome[<<c, i>>] # "none"
        BY <1>1, <1>6 DEF ConnInv, Numbered, Id
    <2>2. ours \subseteq made
        BY <2>1 DEF Call
    <2>3. Cardinality(ours) <= Cardinality(made) /\ Cardinality(made) \in Nat
        BY <1>4, <2>2, FS_Subset, FS_CardinalityType
    <2> QED
        BY <1>1, <1>5, <2>3
<1> QED
    BY <1>1, <1>6 DEF Id

LEMMA BeginKeepsInv ==
    ASSUME ConnInv, NEW t \in Caller, NEW c \in Conn, Begin(t, c), NEW n, n = nextId[c]
    PROVE  ConnInv'
<1> USE DEF ConnInv, At, netVars, ownerVars
<1>1. n \in Id /\ n \in Nat
    BY NumberLeft, ClientConnAssumption DEF Begin, Id
<1>2. /\ caller[t].pc = "idle" /\ owner.pc = "up"
      /\ nextId' = [nextId EXCEPT ![c] = n + 1]
      /\ caller' = [caller EXCEPT ![t] = [pc |-> "register", c |-> c, id |-> n, ctr |-> 0]]
      /\ outcome' = [outcome EXCEPT ![<<c, n>>] = "open"]
    BY DEF Begin, Taken
<1>3. /\ UNCHANGED <<connected, owner, conns, hand, link, alive, reader, pend, answer, wmtx>>
      /\ UNCHANGED <<tx, up, rx, host, news, down, ran>>
    BY DEF Begin
<1>4. OwnerTypes' /\ NetTypes'
    BY <1>3 DEF OwnerTypes, NetTypes
<1>5. CallTypes'
    <2>1. nextId' \in [Conn -> 1 .. MaxCalls + 1]
        BY <1>1, <1>2, ClientConnAssumption DEF CallTypes, CallerState, Id
    <2>2. caller' \in [Caller -> CallerState]
        BY <1>1, <1>2, ClientConnAssumption DEF CallTypes, CallerState, Id
    <2>3. outcome' \in [Call -> {"none", "open", "ok", "eio"}]
        BY <1>2 DEF CallTypes, CallerState
    <2> QED
        BY <1>3, <2>1, <2>2, <2>3 DEF CallTypes, CallerState
<1>6. Owned' /\ RecordsOpen'
    BY <1>3, Frame
<1>7. /\ caller'[t] = [pc |-> "register", c |-> c, id |-> n, ctr |-> 0]
      /\ \A u \in Caller \ {t} : caller'[u] = caller[u]
    BY <1>2 DEF CallTypes, CallerState
<1>8. Serving'
    BY <1>2, <1>3 DEF Serving
<1>9. Numbered'
    <2>1. ASSUME NEW d \in Conn, NEW i \in Id
          PROVE  outcome'[<<d, i>>] # "none" <=> i < nextId'[d]
        <3>1. outcome'[<<d, i>>] = IF d = c /\ i = n THEN "open" ELSE outcome[<<d, i>>]
            BY <1>1, <1>2 DEF CallTypes, CallerState, Call
        <3>2. nextId'[d] = IF d = c THEN n + 1 ELSE nextId[d]
            BY <1>2 DEF CallTypes, CallerState
        <3>3. outcome[<<d, i>>] # "none" <=> i < nextId[d]
            BY DEF Numbered
        <3>4. i \in Nat
            BY ClientConnAssumption DEF Id
        <3> QED
            BY <1>1, <3>1, <3>2, <3>3, <3>4
    <2>2. \A u \in Caller : caller[u].pc # "idle" =>
              /\ caller[u].c \in Conn /\ caller[u].id \in Id
              /\ caller[u].id < nextId[caller[u].c] /\ outcome[<<caller[u].c, caller[u].id>>] = "open"
        BY DEF CallTypes, CallerState, Numbered
    <2>3. outcome'[<<c, n>>] = "open" /\ \A k \in Call : outcome[k] = "open" => outcome'[k] = "open"
        BY <1>1, <1>2 DEF CallTypes, CallerState, Call
    <2>4. \A u \in Caller : caller'[u].pc # "idle" =>
              caller'[u].id \in Id /\ outcome'[<<caller'[u].c, caller'[u].id>>] = "open"
        BY <1>1, <1>7, <2>2, <2>3 DEF Call
    <2>5. ASSUME NEW u \in Caller, NEW v \in Caller, u # v,
                 caller'[u].pc # "idle", caller'[v].pc # "idle"
          PROVE  caller'[u].c # caller'[v].c \/ caller'[u].id # caller'[v].id
        <3>1. \A x \in Caller \ {t} : caller'[x].pc # "idle" =>
                  caller'[x].c # c \/ caller'[x].id # n
            <4>1. ASSUME NEW x \in Caller \ {t}, caller[x].pc # "idle", caller[x].c = c
                  PROVE  caller[x].id < n /\ caller[x].id \in Nat
                <5>1. x \in Caller
                    OBVIOUS
                <5>2. caller[x].id \in Id /\ caller[x].id < nextId[caller[x].c]
                    BY <2>2, <4>1, <5>1
                <5>3. nextId[caller[x].c] = n
                    BY <4>1
                <5> QED
                    BY <5>2, <5>3, ClientConnAssumption DEF Id
            <4>2. \A x \in Caller \ {t} : caller[x].pc # "idle" /\ caller[x].c = c => caller[x].id # n
                BY <4>1, <1>1
            <4> QED
                BY <1>7, <4>2
        <3>2. CASE u = t
            BY <1>7, <2>5, <3>1, <3>2
        <3>3. CASE v = t
            BY <1>7, <2>5, <3>1, <3>3
        <3>4. CASE u # t /\ v # t
            BY <1>7, <2>5, <3>4 DEF Numbered
        <3> QED
            BY <3>2, <3>3, <3>4
    <2> QED
        BY <2>1, <2>4, <2>5 DEF Numbered
<1>10. Once'
    <2>1. Unwritten(c, n)
        <3>1. \A j \in DOMAIN up[c] : up[c][j].id < n
            BY DEF Once
        <3>2. \A j \in DOMAIN up[c] : up[c][j].id # n
            BY <1>1, <3>1
        <3>3. host[c] # n
            <4>1. host[c] # 0 => host[c] < n
                BY DEF Once
            <4> QED
                BY <1>1, <4>1, ClientConnAssumption DEF Id
        <3>4. <<c, n>> \notin ran
            BY <1>1 DEF Once
        <3> QED
            BY <3>2, <3>3, <3>4 DEF Unwritten
    <2>2. \A d \in Conn : nextId[d] \in Nat /\ (nextId'[d] = nextId[d] \/ nextId'[d] = nextId[d] + 1)
        BY <1>1, <1>2 DEF CallTypes, CallerState
    <2>3. \A u \in Caller : caller'[u].pc \in {"register", "lock", "seal", "write"} =>
              Unwritten(caller'[u].c, caller'[u].id)
        BY <1>7, <2>1 DEF Once
    <2>4. \A d \in Conn : \A i \in Id : i < nextId[d] => i < nextId'[d]
        BY <2>2, ClientConnAssumption DEF Id
    <2>5. \A d \in Conn : host[d] # 0 => host[d] \in Id
        BY ClientConnAssumption DEF NetTypes, Id
    <2>6. \A d \in Conn : \A j \in DOMAIN up[d] : up[d][j].id \in Id
        BY InFlight
    <2>7. \A d \in Conn : \A j \in DOMAIN up[d] :
             /\ up[d][j].id < nextId'[d] /\ up[d][j].id # host[d] /\ <<d, up[d][j].id>> \notin ran
             /\ \A k \in DOMAIN up[d] : up[d][j].id = up[d][k].id => j = k
        BY <2>4, <2>6 DEF Once
    <2>8. \A d \in Conn : host[d] # 0 => host[d] < nextId'[d] /\ <<d, host[d]>> \notin ran
        BY <2>4, <2>5 DEF Once
    <2>9. \A d \in Conn, i \in Id : <<d, i>> \in ran => i < nextId'[d]
        BY <2>4 DEF Once
    <2>10. \A u \in Caller : caller'[u].pc \in {"register", "lock", "seal", "write"} =>
              Unwritten(caller[u].c, caller[u].id)'
        BY <1>3, <2>3 DEF Unwritten
    <2> QED
        BY <1>3, <2>7, <2>8, <2>9, <2>10 DEF Once
<1>11. Answered'
    BY <1>3, <1>7 DEF Answered
<1>12. Exclusive'
    BY <1>2, <1>3, <1>7 DEF Exclusive
<1>13. Counters'
    BY <1>2, <1>3, <1>7 DEF Counters
<1>14. Bounded'
    <2>1. \A d \in Conn : nextId[d] \in Nat /\ nextId'[d] \in Nat /\ nextId[d] <= nextId'[d]
        BY <1>1, <1>2 DEF CallTypes, CallerState
    <2>2. \A u \in Caller : caller'[u].pc \in {"register", "lock", "seal"} =>
              \/ /\ caller[u].pc \in {"register", "lock", "seal"}
                 /\ caller'[u].c = caller[u].c /\ caller'[u].id = caller[u].id
              \/ caller'[u].id = nextId[caller'[u].c]
        BY <1>7
    <2>3. \A d \in Conn : /\ Cardinality(Sealed(d)) \in Nat /\ Cardinality(Sealed(d)') \in Nat
                          /\ Cardinality(Sealed(d)) <= Cardinality(Sealed(d)')
        BY <2>1, <2>2, SealedStay
    <2>4. \A d \in Conn : tx[d] \in Nat
        BY DEF NetTypes
    <2>5. \A u \in Caller : caller'[u].pc = "write" => caller[u].pc = "write" /\ caller'[u] = caller[u]
        BY <1>7
    <2> QED
        BY <1>3, <2>3, <2>4, <2>5 DEF Bounded
<1>15. Held'
    <2>1. tx[c] \in Nat
        BY DEF NetTypes
    <2>2. caller'[t].ctr <= tx[caller'[t].c]
        BY <1>7, <2>1
    <2>3. \A u \in Caller \ {t} : caller'[u].ctr <= tx[caller'[u].c]
        BY <1>7 DEF Held
    <2> QED
        BY <1>3, <2>2, <2>3 DEF Held
<1> QED
    BY <1>4, <1>5, <1>6, <1>8, <1>9, <1>10, <1>11, <1>12, <1>13, <1>14, <1>15

\* Register, unless the connection died, and LockWriter.
LEMMA QueueingKeepsInv ==
    ASSUME ConnInv, NEW t \in Caller, NEW c \in Conn, c = caller[t].c,
           (Register(t) /\ alive[c]) \/ LockWriter(t)
    PROVE  ConnInv'
<1> USE DEF ConnInv, At, Goto, netVars, ownerVars
<1>1. PICK pc \in {"lock", "seal"} :
          /\ caller' = [caller EXCEPT ![t].pc = pc]
          /\ caller[t].pc \in {"register", "lock"}
          /\ pc = "seal" => wmtx[c] = NoOne
          /\ wmtx' = IF pc = "seal" THEN [wmtx EXCEPT ![c] = t] ELSE wmtx
    BY DEF Register, LockWriter, Free
<1>2. /\ UNCHANGED <<connected, owner, conns, hand, link, alive, reader, answer, nextId, outcome>>
      /\ UNCHANGED <<tx, up, rx, host, news, down, ran>>
      /\ pend' \in {pend, [pend EXCEPT ![c] = @ \cup {caller[t].id}]}
    BY DEF Register, LockWriter
<1>3. /\ caller'[t].pc = pc /\ caller'[t].c = c /\ caller'[t].id = caller[t].id
      /\ caller'[t].ctr = caller[t].ctr
      /\ \A u \in Caller \ {t} : caller'[u] = caller[u]
    BY <1>1 DEF CallTypes, CallerState
<1>4. OwnerTypes' /\ NetTypes'
    BY <1>2 DEF OwnerTypes, NetTypes
<1>5. CallTypes'
    <2>1. caller' \in [Caller -> CallerState]
        BY <1>1 DEF CallTypes, CallerState
    <2>2. caller[t].id \in Id
        BY <1>1 DEF Numbered
    <2>3. pend' \in [Conn -> SUBSET Id]
        BY <1>2, <2>2 DEF CallTypes, CallerState
    <2>4. wmtx' \in [Conn -> Caller \cup {NoOne}]
        BY <1>1 DEF CallTypes, CallerState
    <2> QED
        BY <1>2, <2>1, <2>3, <2>4 DEF CallTypes, CallerState
<1>6. Owned' /\ RecordsOpen'
    BY <1>2, Frame
<1>7. Serving'
    BY <1>1, <1>2, <1>3 DEF Serving
<1>8. Numbered'
    <2>1. \A u \in Caller : /\ caller'[u].pc # "idle" <=> caller[u].pc # "idle"
                            /\ caller'[u].c = caller[u].c /\ caller'[u].id = caller[u].id
        BY <1>1, <1>3
    <2> QED
        BY <1>2, <2>1 DEF Numbered
<1>9. Once'
    <2>1. \A u \in Caller : caller'[u].pc \in {"register", "lock", "seal", "write"} =>
              Unwritten(caller[u].c, caller[u].id)
        BY <1>1, <1>3 DEF Once
    <2>2. \A u \in Caller : caller'[u].c = caller[u].c /\ caller'[u].id = caller[u].id
        BY <1>3
    <2>3. \A u \in Caller : caller'[u].pc \in {"register", "lock", "seal", "write"} =>
              Unwritten(caller[u].c, caller[u].id)'
        BY <1>2, <2>1, <2>2 DEF Unwritten
    <2> QED
        BY <1>2, <2>3 DEF Once
<1>10. Answered'
    BY <1>2, <1>3 DEF Answered
<1>11. Exclusive'
    <2>1. CASE pc = "lock"
        BY <1>1, <1>3, <2>1 DEF Exclusive
    <2>2. CASE pc = "seal"
        <3>1. /\ wmtx[c] = NoOne /\ wmtx'[c] = t
              /\ \A d \in Conn \ {c} : wmtx'[d] = wmtx[d]
            BY <1>1, <2>2 DEF CallTypes, CallerState
        <3>2. \A u \in Caller : caller[u].pc \in {"seal", "write"} => caller[u].c \in Conn \ {c}
            BY <3>1, ClientConnAssumption DEF Exclusive, CallTypes, CallerState
        <3>3. \A u \in Caller : caller'[u].pc \in {"seal", "write"} => wmtx'[caller'[u].c] = u
            BY <1>3, <2>2, <3>1, <3>2 DEF Exclusive
        <3>4. \A d \in Conn : wmtx[d] # t
            BY <1>1 DEF Exclusive
        <3>5. \A d \in Conn, u \in Caller : wmtx'[d] = u =>
                  caller'[u].c = d /\ caller'[u].pc \in {"seal", "write"}
            BY <1>3, <2>2, <3>1, <3>4 DEF Exclusive
        <3> QED
            BY <3>3, <3>5 DEF Exclusive
    <2> QED
        BY <2>1, <2>2
<1>12. Counters'
    <2>1. \A u \in Caller : /\ caller'[u].pc = "write" <=> caller[u].pc = "write"
                            /\ caller'[u].c = caller[u].c /\ caller'[u].ctr = caller[u].ctr
        BY <1>1, <1>3
    <2> QED
        BY <1>2, <2>1 DEF Counters
<1>13. Bounded'
    <2>1. \A u \in Caller :
              /\ caller'[u].pc \in {"register", "lock", "seal"}
                     <=> caller[u].pc \in {"register", "lock", "seal"}
              /\ caller'[u].pc = "write" <=> caller[u].pc = "write"
              /\ caller'[u].c = caller[u].c /\ caller'[u].id = caller[u].id
              /\ caller'[u].ctr = caller[u].ctr
        BY <1>1, <1>3
    <2>2. \A d \in Conn : Sealed(d)' = Sealed(d)
        BY <1>2, <2>1 DEF Sealed
    <2> QED
        BY <1>2, <2>1, <2>2 DEF Bounded
<1>14. Held'
    BY <1>2, <1>3 DEF Held
<1> QED
    BY <1>4, <1>5, <1>6, <1>7, <1>8, <1>9, <1>10, <1>11, <1>12, <1>13, <1>14

LEMMA Counted ==
    ASSUME NEW r \in CallerState, NEW n \in Nat
    PROVE  [r EXCEPT !.pc = "write", !.ctr = n] \in CallerState
<1> DEFINE q == [r EXCEPT !.pc = "write"]
<1>1. q \in CallerState
    BY DEF CallerState
<1>2. [q EXCEPT !.ctr = n] \in CallerState
    BY <1>1 DEF CallerState
<1>3. [r EXCEPT !.pc = "write", !.ctr = n] = [q EXCEPT !.ctr = n]
    BY Zenon
<1> QED
    BY <1>2, <1>3

LEMMA SealKeepsInv ==
    ASSUME ConnInv, NEW t \in Caller, Seal(t), NEW c \in Conn, c = caller[t].c
    PROVE  ConnInv'
<1> USE DEF ConnInv, At, Goto, netVars, ownerVars
<1>1. /\ caller[t].pc = "seal"
      /\ caller' = [caller EXCEPT ![t].pc = "write", ![t].ctr = tx[c]]
      /\ tx' = [tx EXCEPT ![c] = tx[c] + 1]
    BY DEF Seal
<1>2. /\ UNCHANGED <<connected, owner, conns, hand, link, alive, reader, answer, nextId, outcome>>
      /\ UNCHANGED <<pend, wmtx, up, rx, host, news, down, ran>>
    BY DEF Seal
<1>3. /\ caller'[t].pc = "write" /\ caller'[t].c = c /\ caller'[t].id = caller[t].id
      /\ caller'[t].ctr = tx[c]
      /\ \A u \in Caller \ {t} : caller'[u] = caller[u]
    BY <1>1 DEF CallTypes, CallerState
<1>4. /\ tx'[c] = tx[c] + 1 /\ \A d \in Conn \ {c} : tx'[d] = tx[d]
      /\ \A d \in Conn : tx[d] \in Nat /\ rx[d] \in Nat /\ Len(up[d]) \in Nat
    BY <1>1, InFlight DEF NetTypes
<1>5. OwnerTypes'
    BY <1>2 DEF OwnerTypes
<1>6. NetTypes'
    <2>1. tx' \in [Conn -> Nat]
        BY <1>1, <1>4 DEF NetTypes
    <2> QED
        BY <1>2, <2>1 DEF NetTypes
<1>7. CallTypes'
    <2>1. [caller[t] EXCEPT !.pc = "write", !.ctr = tx[c]] \in CallerState
        BY <1>4, Counted DEF CallTypes
    <2>2. caller' = [caller EXCEPT ![t] = [caller[t] EXCEPT !.pc = "write", !.ctr = tx[c]]]
        BY <1>1
    <2>3. caller' \in [Caller -> CallerState]
        BY <2>1, <2>2 DEF CallTypes
    <2> QED
        BY <1>2, <2>3 DEF CallTypes
<1>8. Owned' /\ RecordsOpen'
    BY <1>2, Frame
<1>9. Serving'
    <2>1. owner.pc = "up"
        BY <1>1 DEF Serving
    <2> QED
        BY <1>2, <2>1 DEF Serving
<1>10. Numbered'
    <2>1. \A u \in Caller : /\ caller'[u].pc # "idle" <=> caller[u].pc # "idle"
                            /\ caller'[u].c = caller[u].c /\ caller'[u].id = caller[u].id
        BY <1>1, <1>3
    <2> QED
        BY <1>2, <2>1 DEF Numbered
<1>11. Once'
    <2>1. \A u \in Caller : caller'[u].pc \in {"register", "lock", "seal", "write"} =>
              Unwritten(caller[u].c, caller[u].id)
        BY <1>1, <1>3 DEF Once
    <2>2. \A u \in Caller : caller'[u].c = caller[u].c /\ caller'[u].id = caller[u].id
        BY <1>3
    <2>3. \A u \in Caller : caller'[u].pc \in {"register", "lock", "seal", "write"} =>
              Unwritten(caller[u].c, caller[u].id)'
        BY <1>2, <2>1, <2>2 DEF Unwritten
    <2> QED
        BY <1>2, <2>3 DEF Once
<1>12. Answered'
    BY <1>2, <1>3 DEF Answered
<1>13. Exclusive'
    <2>1. \A u \in Caller :
              /\ caller'[u].pc \in {"seal", "write"} <=> caller[u].pc \in {"seal", "write"}
              /\ caller'[u].c = caller[u].c
        BY <1>1, <1>3
    <2> QED
        BY <1>2, <2>1 DEF Exclusive
<1>14. \A u \in Caller \ {t} : caller[u].pc \in {"seal", "write"} => caller[u].c # c
    BY <1>1 DEF Exclusive
<1>15. Counters'
    <2>1. ASSUME NEW d \in Conn \ {c}, link[d]
          PROVE  /\ (\A u \in Caller : ~(caller'[u].c = d /\ caller'[u].pc = "write")) =>
                        tx[d] = rx[d] + Len(up[d])
                 /\ \A u \in Caller : caller'[u].c = d /\ caller'[u].pc = "write" =>
                        caller'[u].ctr = rx[d] + Len(up[d]) /\ tx[d] = rx[d] + Len(up[d]) + 1
        <3>1. \A u \in Caller : caller'[u].c = d =>
                  /\ caller[u].c = d
                  /\ caller'[u].pc = "write" <=> caller[u].pc = "write"
                  /\ caller'[u].ctr = caller[u].ctr
            BY <1>3
        <3>2. (\A u \in Caller : ~(caller'[u].c = d /\ caller'[u].pc = "write")) =>
                   \A u \in Caller : ~(caller[u].c = d /\ caller[u].pc = "write")
            BY <1>1, <1>3
        <3>3. (\A u \in Caller : ~(caller[u].c = d /\ caller[u].pc = "write")) =>
                   tx[d] = rx[d] + Len(up[d])
            BY <2>1 DEF Counters
        <3>4. \A u \in Caller : caller[u].c = d /\ caller[u].pc = "write" =>
                   caller[u].ctr = rx[d] + Len(up[d]) /\ tx[d] = rx[d] + Len(up[d]) + 1
            BY <2>1 DEF Counters
        <3> QED
            BY <3>1, <3>2, <3>3, <3>4
    <2>2. ASSUME link[c] PROVE tx[c] = rx[c] + Len(up[c])
        <3>1. \A u \in Caller : ~(caller[u].c = c /\ caller[u].pc = "write")
            BY <1>1, <1>14
        <3> QED
            BY <2>2, <3>1 DEF Counters
    <2>3. \A u \in Caller : caller'[u].c = c /\ caller'[u].pc = "write" => u = t
        BY <1>3, <1>14
    <2>4. link[c] => tx'[c] = rx[c] + Len(up[c]) + 1 /\ tx[c] = rx[c] + Len(up[c])
        BY <1>4, <2>2
    <2>5. link[c] =>
              /\ \E u \in Caller : caller'[u].c = c /\ caller'[u].pc = "write"
              /\ \A u \in Caller : caller'[u].c = c /\ caller'[u].pc = "write" =>
                     caller'[u].ctr = rx[c] + Len(up[c]) /\ tx'[c] = rx[c] + Len(up[c]) + 1
        BY <1>3, <2>3, <2>4
    <2>6. link' = link /\ rx' = rx /\ up' = up /\ \A d \in Conn \ {c} : tx'[d] = tx[d]
        BY <1>2, <1>4
    <2> QED
        BY <2>1, <2>5, <2>6 DEF Counters
<1>16. Bounded'
    <2>1. caller[t].id \in Id /\ caller[t].id < nextId[c]
        BY <1>1 DEF Numbered
    <2>2. Sealed(c)' = Sealed(c) \cup {caller[t].id} /\ caller[t].id \notin Sealed(c)
        <3>1. caller[t].id \notin Sealed(c)
            BY <1>1 DEF Sealed
        <3>2. \A u \in Caller \ {t} : caller[u].pc # "idle" /\ caller[u].c = c => caller[u].id # caller[t].id
            BY <1>1 DEF Numbered
        <3>3. caller[t].id \in Sealed(c)'
            BY <1>2, <1>3, <2>1, <3>2 DEF Sealed
        <3>4. \A i \in Id : i # caller[t].id => (i \in Sealed(c)' <=> i \in Sealed(c))
            BY <1>1, <1>2, <1>3 DEF Sealed
        <3>5. Sealed(c) \subseteq Id /\ Sealed(c)' \subseteq Id
            BY DEF Sealed
        <3> QED
            BY <3>1, <3>3, <3>4, <3>5
    <2>3. ASSUME NEW d \in Conn \ {c} PROVE Sealed(d)' = Sealed(d)
        <3>1. \A u \in Caller : caller[u].c = d \/ caller'[u].c = d => caller'[u] = caller[u]
            BY <1>3
        <3> QED
            BY <1>2, <3>1 DEF Sealed
    <2>4. IsFiniteSet(Id)
        BY FS_Interval, ClientConnAssumption DEF Id
    <2>5. IsFiniteSet(Sealed(c)) /\ \A d \in Conn : Cardinality(Sealed(d)) \in Nat
        <3>1. \A d \in Conn : Sealed(d) \subseteq Id
            BY DEF Sealed
        <3> QED
            BY <2>4, <3>1, FS_Subset, FS_CardinalityType
    <2>6. Cardinality(Sealed(c)') = Cardinality(Sealed(c)) + 1
        BY <2>2, <2>5, FS_AddElement
    <2>7. \A d \in Conn : tx'[d] <= Cardinality(Sealed(d)') /\ rx'[d] <= tx'[d]
        BY <1>2, <1>4, <2>3, <2>5, <2>6 DEF Bounded
    <2>8. \A d \in Conn : \A j \in DOMAIN up[d] : up[d][j].ctr \in Nat /\ up[d][j].ctr < tx'[d]
        BY <1>4, InFlight DEF Bounded
    <2>9. ASSUME NEW u \in Caller, caller'[u].pc = "write"
          PROVE  caller'[u].ctr < tx'[caller'[u].c]
        <3>1. CASE u = t
            BY <1>3, <1>4, <3>1
        <3>2. CASE u # t
            <4>1. caller'[u] = caller[u] /\ caller[u].pc = "write" /\ caller[u].c # c
                BY <1>3, <1>14, <2>9, <3>2
            <4>2. caller[u].c \in Conn
                BY DEF CallTypes, CallerState
            <4>3. tx'[caller[u].c] = tx[caller[u].c]
                BY <1>4, <4>1, <4>2
            <4>4. caller[u].ctr < tx[caller[u].c]
                BY <4>1 DEF Bounded
            <4> QED
                BY <4>1, <4>3, <4>4
        <3> QED
            BY <3>1, <3>2
    <2> QED
        BY <1>2, <2>7, <2>8, <2>9 DEF Bounded
<1>17. Held'
    <2>1. \A u \in Caller : caller[u].c \in Conn /\ caller[u].ctr \in Nat
        BY DEF CallTypes, CallerState
    <2>2. \A d \in Conn : tx'[d] \in Nat /\ tx[d] <= tx'[d]
        BY <1>4
    <2> QED
        BY <1>3, <1>4, <2>1, <2>2 DEF Held
<1> QED
    BY <1>5, <1>6, <1>7, <1>8, <1>9, <1>10, <1>11, <1>12, <1>13, <1>15, <1>16, <1>17

LEMMA WriteKeepsInv ==
    ASSUME ConnInv, NEW t \in Caller, Write(t), NEW c \in Conn, c = caller[t].c,
           NEW i, i = caller[t].id
    PROVE  ConnInv'
<1> USE DEF ConnInv, At, Goto, netVars, ownerVars
<1> DEFINE record == [ctr |-> caller[t].ctr, id |-> i]
<1>1. PICK pc \in {"wait", "unsent"} :
          /\ caller' = [caller EXCEPT ![t].pc = pc]
          /\ up' = IF pc = "wait" THEN [up EXCEPT ![c] = Append(up[c], record)] ELSE up
          /\ (pc = "wait") <=> link[c]
    BY DEF Write
<1>2. /\ caller[t].pc = "write" /\ wmtx' = [wmtx EXCEPT ![c] = NoOne]
      /\ UNCHANGED <<connected, owner, conns, hand, link, alive, reader, answer, nextId, outcome>>
      /\ UNCHANGED <<pend, tx, rx, host, news, down, ran>>
    BY DEF Write
<1>3. /\ caller'[t].pc = pc /\ caller'[t].c = c /\ caller'[t].id = i
      /\ caller'[t].ctr = caller[t].ctr
      /\ \A u \in Caller \ {t} : caller'[u] = caller[u]
    BY <1>1 DEF CallTypes, CallerState
<1>4. i \in Id /\ i < nextId[c] /\ outcome[<<c, i>>] = "open"
    BY <1>2 DEF Numbered
<1>5. record \in [ctr : Nat, id : Id] /\ record.ctr = caller[t].ctr /\ record.id = i
    BY <1>4 DEF CallTypes, CallerState
<1>6. \A d \in Conn : tx[d] \in Nat /\ rx[d] \in Nat /\ Len(up[d]) \in Nat
    BY InFlight DEF NetTypes
<1>7. OwnerTypes'
    BY <1>2 DEF OwnerTypes
<1>8. CallTypes'
    <2>1. [caller[t] EXCEPT !.pc = pc] \in CallerState
        BY DEF CallTypes, CallerState
    <2>2. caller' \in [Caller -> CallerState]
        BY <1>1, <2>1 DEF CallTypes
    <2>3. wmtx' \in [Conn -> Caller \cup {NoOne}]
        BY <1>2 DEF CallTypes
    <2> QED
        BY <1>2, <2>2, <2>3 DEF CallTypes
<1>9. up[c] \in Seq([ctr : Nat, id : Id])
    BY DEF NetTypes
<1>10. /\ Append(up[c], record) \in Seq([ctr : Nat, id : Id]) /\ DOMAIN up[c] = 1 .. Len(up[c])
       /\ Len(Append(up[c], record)) = Len(up[c]) + 1
       /\ DOMAIN Append(up[c], record) = 1 .. Len(up[c]) + 1
       /\ Append(up[c], record)[Len(up[c]) + 1] = record
       /\ \A j \in DOMAIN up[c] : Append(up[c], record)[j] = up[c][j]
    BY <1>5, <1>9, Appended
<1>11. NetTypes'
    <2>1. up' \in [Conn -> Seq([ctr : Nat, id : Id])]
        BY <1>1, <1>10 DEF NetTypes
    <2> QED
        BY <1>2, <2>1 DEF NetTypes
<1>12. Owned'
    BY <1>2, Frame
<1>13. /\ up'[c] = IF pc = "wait" THEN Append(up[c], record) ELSE up[c]
       /\ \A d \in Conn \ {c} : up'[d] = up[d]
    BY <1>1 DEF NetTypes
<1>14. \A u \in Caller \ {t} : caller[u].pc \in {"seal", "write"} => caller[u].c # c
    BY <1>2 DEF Exclusive
<1>15. Serving'
    BY <1>1, <1>2, <1>3 DEF Serving
<1>16. Numbered'
    <2>1. \A u \in Caller : /\ caller'[u].pc # "idle" <=> caller[u].pc # "idle"
                            /\ caller'[u].c = caller[u].c /\ caller'[u].id = caller[u].id
        BY <1>2, <1>3
    <2> QED
        BY <1>2, <2>1 DEF Numbered
<1>17. Once'
    <2>1. Unwritten(c, i)
        BY <1>2 DEF Once
    <2>2. ASSUME NEW d \in Conn, NEW j \in DOMAIN up'[d]
          PROVE  \/ d = c /\ j = Len(up[c]) + 1 /\ up'[d][j] = record /\ pc = "wait"
                 \/ j \in DOMAIN up[d] /\ up'[d][j] = up[d][j]
        <3>1. CASE d # c
            BY <1>13, <3>1
        <3>2. CASE d = c /\ pc = "wait"
            <4>1. up'[d] = Append(up[c], record) /\ j \in 1 .. Len(up[c]) + 1
                BY <1>10, <1>13, <3>2
            <4>2. j = Len(up[c]) + 1 \/ j \in DOMAIN up[c]
                BY <1>6, <1>10, <4>1
            <4> QED
                BY <1>10, <3>2, <4>1, <4>2
        <3>3. CASE d = c /\ pc # "wait"
            BY <1>13, <3>3
        <3> QED
            BY <3>1, <3>2, <3>3
    <2>3. ASSUME NEW d \in Conn, NEW j \in DOMAIN up'[d]
          PROVE  /\ up'[d][j].id < nextId[d] /\ up'[d][j].id # host[d] /\ <<d, up'[d][j].id>> \notin ran
                 /\ \A k \in DOMAIN up'[d] : up'[d][j].id = up'[d][k].id => j = k
        <3>1. up'[d][j].id < nextId[d] /\ up'[d][j].id # host[d] /\ <<d, up'[d][j].id>> \notin ran
            <4>1. CASE j \in DOMAIN up[d] /\ up'[d][j] = up[d][j]
                BY <4>1 DEF Once
            <4>2. CASE d = c /\ up'[d][j] = record
                BY <1>4, <1>5, <2>1, <4>2 DEF Unwritten
            <4> QED
                BY <2>2, <4>1, <4>2
        <3>2. ASSUME NEW k \in DOMAIN up'[d], up'[d][j].id = up'[d][k].id PROVE j = k
            <4>1. \A m \in DOMAIN up[c] : up[c][m].id # i
                BY <2>1 DEF Unwritten
            <4>2. CASE j \in DOMAIN up[d] /\ up'[d][j] = up[d][j]
                      /\ k \in DOMAIN up[d] /\ up'[d][k] = up[d][k]
                BY <3>2, <4>2 DEF Once
            <4> QED
                BY <1>5, <2>2, <3>2, <4>1, <4>2
        <3> QED
            BY <3>1, <3>2
    <2>4. ASSUME NEW u \in Caller \ {t}, caller[u].pc \in {"register", "lock", "seal", "write"}
          PROVE  Unwritten(caller[u].c, caller[u].id)'
        <3>1. Unwritten(caller[u].c, caller[u].id)
            BY <2>4 DEF Once
        <3>2. caller[u].c = c => caller[u].id # i
            BY <1>2, <2>4 DEF Numbered
        <3>3. caller'[u] = caller[u] /\ caller[u].c \in Conn
            BY <1>3 DEF CallTypes, CallerState
        <3>4. \A j \in DOMAIN up'[caller[u].c] : up'[caller[u].c][j].id # caller[u].id
            BY <1>5, <2>2, <3>1, <3>2, <3>3 DEF Unwritten
        <3> QED
            BY <1>2, <3>1, <3>3, <3>4 DEF Unwritten
    <2>5. \A u \in Caller : caller'[u].pc \in {"register", "lock", "seal", "write"} =>
              u # t /\ caller[u].pc \in {"register", "lock", "seal", "write"}
        BY <1>3
    <2> QED
        BY <1>2, <2>3, <2>4, <2>5 DEF Once
<1>18. Answered'
    BY <1>2, <1>3 DEF Answered
<1>19. Exclusive'
    <2>1. /\ wmtx'[c] = NoOne /\ \A d \in Conn \ {c} : wmtx'[d] = wmtx[d]
        BY <1>2 DEF CallTypes, CallerState
    <2>2. \A u \in Caller : caller'[u].pc \in {"seal", "write"} =>
              u # t /\ caller'[u] = caller[u] /\ caller[u].c \in Conn \ {c}
        BY <1>3, <1>14 DEF CallTypes, CallerState
    <2>3. \A u \in Caller : caller'[u].pc \in {"seal", "write"} => wmtx'[caller'[u].c] = u
        BY <2>1, <2>2 DEF Exclusive
    <2>4. ASSUME NEW d \in Conn, NEW u \in Caller, wmtx'[d] = u
          PROVE  caller'[u].c = d /\ caller'[u].pc \in {"seal", "write"}
        <3>1. d # c /\ wmtx[d] = u
            BY <2>1, <2>4, ClientConnAssumption
        <3>2. caller[u].c = d /\ caller[u].pc \in {"seal", "write"}
            BY <3>1 DEF Exclusive
        <3> QED
            BY <1>3, <3>1, <3>2
    <2> QED
        BY <2>3, <2>4 DEF Exclusive
<1>20. Counters'
    <2>1. ASSUME NEW d \in Conn \ {c}, link[d]
          PROVE  /\ (\A u \in Caller : ~(caller'[u].c = d /\ caller'[u].pc = "write")) =>
                        tx[d] = rx[d] + Len(up[d])
                 /\ \A u \in Caller : caller'[u].c = d /\ caller'[u].pc = "write" =>
                        caller'[u].ctr = rx[d] + Len(up[d]) /\ tx[d] = rx[d] + Len(up[d]) + 1
        <3>1. \A u \in Caller : caller'[u].c = d => u # t /\ caller'[u] = caller[u]
            BY <1>3
        <3>2. \A u \in Caller : caller[u].c = d => caller'[u] = caller[u]
            BY <1>3
        <3>3. (\A u \in Caller : ~(caller'[u].c = d /\ caller'[u].pc = "write")) =>
                   \A u \in Caller : ~(caller[u].c = d /\ caller[u].pc = "write")
            BY <3>2
        <3> QED
            BY <2>1, <3>1, <3>3 DEF Counters
    <2>2. link[c] => tx[c] = rx[c] + Len(up[c]) + 1 /\ pc = "wait"
        BY <1>1, <1>2 DEF Counters
    <2>3. \A u \in Caller : ~(caller'[u].c = c /\ caller'[u].pc = "write")
        BY <1>3, <1>14
    <2>4. link[c] => tx[c] = rx[c] + Len(up'[c])
        <3>1. link[c] => Len(up'[c]) = Len(up[c]) + 1
            BY <1>10, <1>13, <2>2
        <3>2. link[c] => tx[c] = rx[c] + Len(up[c]) + 1
            BY <2>2
        <3>3. rx[c] \in Nat /\ Len(up[c]) \in Nat
            BY <1>6
        <3> QED
            BY <3>1, <3>2, <3>3
    <2>5. \A d \in Conn \ {c} : up'[d] = up[d] /\ tx'[d] = tx[d] /\ rx'[d] = rx[d] /\ link'[d] = link[d]
        BY <1>2, <1>13
    <2>6. tx'[c] = tx[c] /\ rx'[c] = rx[c] /\ link'[c] = link[c]
        BY <1>2
    <2> QED
        BY <2>1, <2>3, <2>4, <2>5, <2>6 DEF Counters
<1>21. RecordsOpen'
    <2>1. ASSUME pc = "wait" PROVE record.ctr = rx[c] + Len(up[c])
        BY <1>1, <1>2, <1>5, <2>1 DEF Counters
    <2>2. ASSUME NEW j \in DOMAIN up'[c] PROVE up'[c][j].ctr = rx[c] + j - 1
        <3>1. CASE j \in DOMAIN up[c] /\ up'[c][j] = up[c][j]
            BY <3>1 DEF RecordsOpen
        <3>2. CASE j = Len(up[c]) + 1 /\ up'[c][j] = record /\ pc = "wait"
            BY <1>6, <2>1, <3>2
        <3>3. CASE pc = "wait"
            <4>1. up'[c] = Append(up[c], record) /\ j \in 1 .. Len(up[c]) + 1
                BY <1>10, <1>13, <3>3
            <4>2. j = Len(up[c]) + 1 \/ j \in DOMAIN up[c]
                BY <1>6, <1>10, <4>1
            <4>3. j = Len(up[c]) + 1 => up'[c][j] = record
                BY <1>10, <4>1
            <4>4. j \in DOMAIN up[c] => up'[c][j] = up[c][j]
                BY <1>10, <4>1
            <4> QED
                BY <3>1, <3>2, <3>3, <4>2, <4>3, <4>4
        <3>4. CASE pc # "wait"
            BY <1>13, <3>1, <3>4
        <3> QED
            BY <3>3, <3>4
    <2>3. \A d \in Conn \ {c} : \A j \in DOMAIN up'[d] : up'[d][j].ctr = rx[d] + j - 1
        BY <1>13 DEF RecordsOpen
    <2>4. rx' = rx
        BY <1>2
    <2> QED
        BY <2>2, <2>3, <2>4 DEF RecordsOpen
<1>22. Bounded'
    <2>1. \A u \in Caller : /\ caller'[u].pc \in {"register", "lock", "seal"}
                                   <=> caller[u].pc \in {"register", "lock", "seal"}
                            /\ caller'[u].c = caller[u].c /\ caller'[u].id = caller[u].id
        BY <1>2, <1>3
    <2>2. \A d \in Conn : Sealed(d)' = Sealed(d)
        BY <1>2, <2>1 DEF Sealed
    <2>3. record.ctr < tx[c]
        BY <1>2, <1>5 DEF Bounded
    <2>4. \A d \in Conn \ {c} : \A j \in DOMAIN up'[d] : up'[d][j].ctr < tx[d]
        BY <1>13 DEF Bounded
    <2>5. \A j \in DOMAIN up'[c] : up'[c][j] = record \/ (j \in DOMAIN up[c] /\ up'[c][j] = up[c][j])
        BY <1>6, <1>10, <1>13
    <2>6. \A j \in DOMAIN up'[c] : up'[c][j].ctr < tx[c]
        BY <2>3, <2>5 DEF Bounded
    <2>7. \A u \in Caller : caller'[u].pc = "write" => u # t /\ caller'[u] = caller[u]
        BY <1>3
    <2> QED
        BY <1>2, <2>2, <2>4, <2>6, <2>7 DEF Bounded
<1>23. Held'
    BY <1>2, <1>3 DEF Held
<1> QED
    BY <1>7, <1>8, <1>11, <1>12, <1>15, <1>16, <1>17, <1>18, <1>19, <1>20, <1>21, <1>22, <1>23

\* Woken and Timeout.
LEMMA WaitKeepsInv ==
    ASSUME ConnInv, NEW t \in Caller, Woken(t) \/ Timeout(t)
    PROVE  ConnInv'
<1> USE DEF ConnInv, At, Goto, netVars, ownerVars
<1>1. PICK pc \in {"answered", "late"} :
          /\ caller' = [caller EXCEPT ![t].pc = pc]
          /\ pc = "answered" => answer[<<caller[t].c, caller[t].id>>].done
    BY DEF Woken, Timeout, CallOf
<1>2. /\ caller[t].pc = "wait"
      /\ UNCHANGED <<connected, owner, conns, hand, link, alive, reader, answer, nextId, outcome>>
      /\ UNCHANGED <<pend, wmtx, tx, up, rx, host, news, down, ran>>
    BY DEF Woken, Timeout
<1>3. /\ caller'[t].pc = pc /\ caller'[t].c = caller[t].c /\ caller'[t].id = caller[t].id
      /\ caller'[t].ctr = caller[t].ctr
      /\ \A u \in Caller \ {t} : caller'[u] = caller[u]
    BY <1>1 DEF CallTypes
<1>4. OwnerTypes' /\ NetTypes'
    BY <1>2 DEF OwnerTypes, NetTypes
<1>5. CallTypes'
    <2>1. [caller[t] EXCEPT !.pc = pc] \in CallerState
        BY DEF CallTypes, CallerState
    <2>2. caller' \in [Caller -> CallerState]
        BY <1>1, <2>1 DEF CallTypes
    <2> QED
        BY <1>2, <2>2 DEF CallTypes
<1>6. Owned' /\ RecordsOpen'
    BY <1>2, Frame
<1>7. Serving'
    BY <1>1, <1>2, <1>3 DEF Serving
<1>8. \A u \in Caller :
          /\ caller'[u].pc # "idle" <=> caller[u].pc # "idle"
          /\ caller'[u].pc \in {"register", "lock", "seal"} <=> caller[u].pc \in {"register", "lock", "seal"}
          /\ caller'[u].pc \in {"seal", "write"} <=> caller[u].pc \in {"seal", "write"}
          /\ caller'[u].pc = "write" <=> caller[u].pc = "write"
          /\ caller'[u].pc = "write" => caller'[u] = caller[u]
          /\ caller'[u].c = caller[u].c /\ caller'[u].id = caller[u].id
    BY <1>2, <1>3
<1>9. Numbered'
    BY <1>2, <1>8 DEF Numbered
<1>10. Once'
    <2>1. \A u \in Caller : caller'[u].pc \in {"register", "lock", "seal", "write"} =>
              Unwritten(caller[u].c, caller[u].id)
        BY <1>8 DEF Once
    <2>2. \A u \in Caller : caller'[u].pc \in {"register", "lock", "seal", "write"} =>
              Unwritten(caller[u].c, caller[u].id)'
        BY <1>2, <1>8, <2>1 DEF Unwritten
    <2> QED
        BY <1>2, <2>2 DEF Once
<1>11. Answered'
    BY <1>1, <1>2, <1>3 DEF Answered
<1>12. Exclusive'
    BY <1>2, <1>8 DEF Exclusive
<1>13. Counters'
    BY <1>2, <1>8 DEF Counters
<1>14. Bounded'
    <2>1. \A d \in Conn : Sealed(d)' = Sealed(d)
        BY <1>2, <1>8 DEF Sealed
    <2> QED
        BY <1>2, <1>8, <2>1 DEF Bounded
<1>15. Held'
    BY <1>2, <1>3 DEF Held
<1> QED
    BY <1>4, <1>5, <1>6, <1>7, <1>9, <1>10, <1>11, <1>12, <1>13, <1>14, <1>15

\* Register on a connection that died, Unsent and Finish: the call of t ends.
LEMMA EndKeepsInv ==
    ASSUME ConnInv, NEW t \in Caller, NEW k, k = CallOf(t), NEW how \in {"ok", "eio"}, Ends(t, how),
           caller[t].pc \in {"register", "unsent", "answered", "late"},
           pend' \in {pend, Unregistered(t)},
           UNCHANGED <<connected, owner, conns, hand, link, alive, reader, answer, nextId>>,
           UNCHANGED <<wmtx, tx, up, rx, host, news, down, ran>>
    PROVE  ConnInv' /\ k \in Call /\ outcome[k] = "open" /\ outcome' = [outcome EXCEPT ![k] = how]
<1> USE DEF ConnInv
<1>1. /\ caller[t].c \in Conn /\ caller[t].id \in Id /\ outcome[k] = "open" /\ k \in Call
      /\ k = <<caller[t].c, caller[t].id>>
    BY DEF Numbered, CallTypes, CallerState, CallOf, Call
<1>2. /\ caller' = [caller EXCEPT ![t] = Resting]
      /\ outcome' = [outcome EXCEPT ![k] = how]
    BY DEF Ends
<1>3. Resting \in CallerState /\ Resting.pc = "idle"
    BY ClientConnAssumption DEF Resting, CallerState, SomeConn
<1>4. caller'[t].pc = "idle" /\ \A u \in Caller \ {t} : caller'[u] = caller[u]
    BY <1>2, <1>3 DEF CallTypes
<1>5. OwnerTypes' /\ NetTypes'
    BY DEF OwnerTypes, NetTypes
<1>6. CallTypes'
    <2>1. caller' \in [Caller -> CallerState]
        BY <1>2, <1>3 DEF CallTypes
    <2>2. outcome' \in [Call -> {"none", "open", "ok", "eio"}]
        BY <1>2 DEF CallTypes
    <2>3. pend' \in [Conn -> SUBSET Id]
        BY DEF CallTypes, Unregistered
    <2> QED
        BY <2>1, <2>2, <2>3 DEF CallTypes
<1>7. Owned' /\ RecordsOpen'
    BY Frame
<1>8. \A u \in Caller : caller'[u].pc # "idle" => u # t /\ caller'[u] = caller[u] /\ caller[u].pc # "idle"
    BY <1>4
<1>9. Serving'
    BY <1>8 DEF Serving
<1>10. Numbered'
    <2>1. \A x \in Call : outcome'[x] # "none" <=> outcome[x] # "none"
        BY <1>1, <1>2 DEF CallTypes
    <2>2. \A d \in Conn, i \in Id : outcome'[<<d, i>>] # "none" <=> i < nextId[d]
        BY <2>1 DEF Numbered, Call
    <2>3. ASSUME NEW u \in Caller, caller'[u].pc # "idle"
          PROVE  caller'[u].id \in Id /\ outcome'[<<caller'[u].c, caller'[u].id>>] = "open"
        <3>1. u # t /\ caller'[u] = caller[u] /\ caller[u].id \in Id /\ caller[u].c \in Conn
            BY <1>8, <2>3 DEF Numbered, CallTypes, CallerState
        <3>2. <<caller[u].c, caller[u].id>> # k /\ <<caller[u].c, caller[u].id>> \in Call
            BY <1>1, <1>8, <2>3, <3>1 DEF Numbered, Call
        <3>3. outcome[<<caller[u].c, caller[u].id>>] = "open"
            BY <1>8, <2>3 DEF Numbered
        <3> QED
            BY <1>2, <3>1, <3>2, <3>3 DEF CallTypes
    <2>4. \A u, v \in Caller :
              caller'[u].pc # "idle" /\ caller'[v].pc # "idle" /\ u # v =>
                  caller'[u].c # caller'[v].c \/ caller'[u].id # caller'[v].id
        BY <1>8 DEF Numbered
    <2> QED
        BY <2>2, <2>3, <2>4 DEF Numbered
<1>11. Once'
    <2>1. \A u \in Caller : caller'[u].pc \in {"register", "lock", "seal", "write"} =>
              Unwritten(caller[u].c, caller[u].id)'
        BY <1>8 DEF Once, Unwritten
    <2> QED
        BY <2>1 DEF Once
<1>12. Answered'
    BY <1>8 DEF Answered
<1>13. Exclusive'
    BY <1>4, <1>8 DEF Exclusive
<1>14. \A u \in Caller : caller'[u].pc = "write" <=> caller[u].pc = "write"
    BY <1>4
<1>15. Counters'
    BY <1>8, <1>14 DEF Counters
<1>16. Bounded'
    <2>1. \A d \in Conn : nextId[d] \in Nat /\ nextId'[d] \in Nat /\ nextId[d] <= nextId'[d]
        BY DEF CallTypes
    <2>2. \A u \in Caller : caller'[u].pc \in {"register", "lock", "seal"} =>
              /\ caller[u].pc \in {"register", "lock", "seal"}
              /\ caller'[u].c = caller[u].c /\ caller'[u].id = caller[u].id
        BY <1>8
    <2>3. \A d \in Conn : /\ Cardinality(Sealed(d)) \in Nat /\ Cardinality(Sealed(d)') \in Nat
                          /\ Cardinality(Sealed(d)) <= Cardinality(Sealed(d)')
        BY <2>1, <2>2, SealedStay
    <2>4. \A d \in Conn : tx[d] \in Nat
        BY DEF NetTypes
    <2>5. \A d \in Conn : tx[d] <= Cardinality(Sealed(d)')
        BY <2>3, <2>4 DEF Bounded
    <2> QED
        BY <1>8, <2>5 DEF Bounded
<1>17. Held'
    <2>1. caller'[t].ctr = 0 /\ caller'[t].c \in Conn
        BY <1>2, <1>3 DEF CallTypes, Resting, CallerState
    <2>2. \A d \in Conn : tx'[d] = tx[d] /\ tx[d] \in Nat
        BY DEF NetTypes
    <2>3. caller'[t].ctr <= tx'[caller'[t].c]
        BY <2>1, <2>2
    <2>4. \A u \in Caller \ {t} : caller'[u].ctr <= tx'[caller'[u].c]
        BY <1>4 DEF Held
    <2> QED
        BY <2>3, <2>4 DEF Held
<1> QED
    BY <1>1, <1>2, <1>5, <1>6, <1>7, <1>9, <1>10, <1>11, <1>12, <1>13, <1>15, <1>16, <1>17

-----------------------------------------------------------------------------
(* The steps of the readers.                                               *)

LEMMA ReadingKeepsInv ==
    ASSUME ConnInv, NEW c \in Conn, NEW r \in ReaderState,
           reader' = [reader EXCEPT ![c] = r], r.pc # "none", reader[c].pc \notin {"none", "gone"},
           r.pc \in {"lookup", "deliver"} => <<c, r.id>> \in ran,
           UNCHANGED <<connected, owner, conns, hand, link>>,
           alive' \in [Conn -> BOOLEAN], answer' \in [Call -> [done : BOOLEAN, status : {"ok", "eio"}]],
           \A k \in Call : answer'[k].done /\ answer'[k].status = "ok" => k \in ran,
           \A k \in Call : answer[k].done => answer'[k].done,
           down' \in [Conn -> Seq(0 .. MaxCalls)],
           \A d \in Conn : \A j \in DOMAIN down'[d] : down'[d][j] # 0 => <<d, down'[d][j]>> \in ran,
           UNCHANGED <<nextId, pend, wmtx, caller, outcome, tx, up, rx, host, news, ran>>
    PROVE  ConnInv'
<1> USE DEF ConnInv
<1>1. reader'[c] = r /\ \A d \in Conn \ {c} : reader'[d] = reader[d]
    BY DEF OwnerTypes
<1>2. OwnerTypes'
    BY DEF OwnerTypes
<1>3. CallTypes' /\ NetTypes'
    BY DEF CallTypes, NetTypes
<1>4. Owned'
    <2>1. \A d \in Conn : reader'[d].pc # "none" =>
              /\ reader[d].pc # "none"
              /\ reader[d].pc = "gone" => reader'[d].pc = "gone"
        BY <1>1
    <2> QED
        BY <1>1, <2>1 DEF Owned
<1>5. Serving' /\ Numbered' /\ Once' /\ Exclusive' /\ Counters' /\ RecordsOpen' /\ Bounded' /\ Held'
    BY Frame
<1>6. Answered'
    <2>1. \A d \in Conn : reader'[d].pc \in {"lookup", "deliver"} => <<d, reader'[d].id>> \in ran
        BY <1>1 DEF Answered
    <2>2. ASSUME NEW t \in Caller, caller[t].pc = "answered"
          PROVE  answer'[<<caller[t].c, caller[t].id>>].done
        <3>1. <<caller[t].c, caller[t].id>> \in Call
            BY <2>2 DEF Numbered, CallTypes, CallerState, Call
        <3> QED
            BY <2>2, <3>1 DEF Answered
    <2> QED
        BY <2>1, <2>2 DEF Answered
<1> QED
    BY <1>2, <1>3, <1>4, <1>5, <1>6

LEMMA ReaderKeepsInv ==
    ASSUME ConnInv, NEW c \in Conn, ReaderStep(c)
    PROVE  ConnInv' /\ UNCHANGED <<outcome, ran>>
<1> USE DEF ConnInv, Reads, ReaderAt, netVars, ownerVars
<1>0. /\ reader[c] \in ReaderState /\ alive \in [Conn -> BOOLEAN]
      /\ answer \in [Call -> [done : BOOLEAN, status : {"ok", "eio"}]]
      /\ down \in [Conn -> Seq(0 .. MaxCalls)]
      /\ \A k \in Call : answer[k].done /\ answer[k].status = "ok" => k \in ran
      /\ \A d \in Conn : \A j \in DOMAIN down[d] : down[d][j] # 0 => <<d, down[d][j]>> \in ran
    BY DEF OwnerTypes, CallTypes, NetTypes, Answered
<1>1. CASE CheckAlive(c) \/ Callback(c) \/ Lookup(c) \/ Lost(c)
    <2>1. PICK pc \in {"check", "recv", "dead", "deliver"} :
              /\ reader' = [reader EXCEPT ![c].pc = pc]
              /\ pc = "deliver" => reader[c].pc = "lookup"
        BY <1>1 DEF CheckAlive, Callback, Lookup, Lost
    <2>2. /\ reader[c].pc \in {"check", "callback", "lookup", "recv"}
          /\ UNCHANGED <<connected, owner, conns, hand, link, alive, answer, down>>
          /\ UNCHANGED <<nextId, pend, wmtx, caller, outcome, tx, up, rx, host, news, ran>>
        BY <1>1 DEF CheckAlive, Callback, Lookup, Lost
    <2> DEFINE r == [reader[c] EXCEPT !.pc = pc]
    <2>3. r \in ReaderState /\ r.pc = pc /\ r.id = reader[c].id
        BY <1>0 DEF ReaderState
    <2>4. reader' = [reader EXCEPT ![c] = r]
        BY <2>1
    <2>5. r.pc \in {"lookup", "deliver"} => <<c, r.id>> \in ran
        BY <2>1, <2>3 DEF Answered
    <2> HIDE DEF r
    <2> QED
        BY <1>0, <2>1, <2>2, <2>3, <2>4, <2>5, ReadingKeepsInv
<1>2. CASE Recv(c)
    <2> DEFINE n == Head(down[c])
               r == [pc |-> IF n = 0 THEN "callback" ELSE "lookup", id |-> n]
    <2>1. down[c] \in Seq(0 .. MaxCalls) /\ down[c] # <<>>
        BY <1>0, <1>2 DEF Recv
    <2>2. /\ n = down[c][1] /\ n \in 0 .. MaxCalls /\ 1 \in DOMAIN down[c]
          /\ Tail(down[c]) \in Seq(0 .. MaxCalls)
          /\ \A i \in DOMAIN Tail(down[c]) : i + 1 \in DOMAIN down[c] /\ Tail(down[c])[i] = down[c][i + 1]
        BY <2>1, Taken1
    <2>3. r \in ReaderState /\ r.pc # "none" /\ (r.pc = "lookup" => n # 0) /\ r.pc # "deliver" /\ r.id = n
        BY <2>2 DEF ReaderState
    <2>4. <<c, n>> \in ran \/ n = 0
        BY <1>0, <2>2
    <2>5. /\ reader' = [reader EXCEPT ![c] = r] /\ reader[c].pc = "recv"
          /\ down' = [down EXCEPT ![c] = Tail(down[c])]
          /\ UNCHANGED <<connected, owner, conns, hand, link, alive, answer>>
          /\ UNCHANGED <<nextId, pend, wmtx, caller, outcome, tx, up, rx, host, news, ran>>
        BY <1>2 DEF Recv
    <2>6. down' \in [Conn -> Seq(0 .. MaxCalls)]
        BY <1>0, <2>2, <2>5
    <2>7. \A d \in Conn : \A j \in DOMAIN down'[d] : down'[d][j] # 0 => <<d, down'[d][j]>> \in ran
        BY <1>0, <2>2, <2>5
    <2>8. r.pc \in {"lookup", "deliver"} => <<c, r.id>> \in ran
        BY <2>3, <2>4
    <2> HIDE DEF r, n
    <2> QED
        BY <1>0, <2>3, <2>5, <2>6, <2>7, <2>8, ReadingKeepsInv
<1>3. CASE Deliver(c) \/ Sweep(c)
    <2>1. PICK pc \in {"check", "gone"} : reader' = [reader EXCEPT ![c].pc = pc]
        BY <1>3 DEF Deliver, Sweep
    <2>2. /\ reader[c].pc \in {"deliver", "sweep"}
          /\ UNCHANGED <<connected, owner, conns, hand, link, alive, down>>
          /\ UNCHANGED <<nextId, pend, wmtx, caller, outcome, tx, up, rx, host, news, ran>>
        BY <1>3 DEF Deliver, Sweep
    <2>3. \A k \in Call : \/ answer'[k] = answer[k]
                          \/ answer'[k] = [done |-> TRUE, status |-> "eio"]
                          \/ answer'[k] = [done |-> TRUE, status |-> "ok"] /\ k \in ran
        <3>1. CASE Deliver(c)
            BY <1>0, <3>1 DEF Deliver, Answered
        <3>2. CASE Sweep(c)
            BY <3>2 DEF Sweep, Failed
        <3> QED
            BY <1>3, <3>1, <3>2
    <2>4. answer' \in [Call -> [done : BOOLEAN, status : {"ok", "eio"}]]
        <3>1. CASE Deliver(c)
            BY <1>0, <3>1 DEF Deliver
        <3>2. CASE Sweep(c)
            BY <1>0, <3>2 DEF Sweep, Failed
        <3> QED
            BY <1>3, <3>1, <3>2
    <2>5. \A k \in Call : answer'[k].done /\ answer'[k].status = "ok" => k \in ran
        BY <1>0, <2>3
    <2>6. \A k \in Call : answer[k].done => answer'[k].done
        BY <2>3
    <2> DEFINE r == [reader[c] EXCEPT !.pc = pc]
    <2>7. r \in ReaderState /\ r.pc = pc
        BY <1>0 DEF ReaderState
    <2>8. reader' = [reader EXCEPT ![c] = r]
        BY <2>1
    <2> HIDE DEF r
    <2> QED
        BY <1>0, <2>2, <2>4, <2>5, <2>6, <2>7, <2>8, ReadingKeepsInv
<1>4. CASE MarkDead(c)
    <2> DEFINE r == [reader[c] EXCEPT !.pc = "sweep"]
    <2>1. r \in ReaderState /\ r.pc = "sweep"
        BY <1>0 DEF ReaderState
    <2>2. reader' = [reader EXCEPT ![c] = r]
        BY <1>4 DEF MarkDead
    <2>3. alive' \in [Conn -> BOOLEAN]
        BY <1>0, <1>4 DEF MarkDead
    <2>4. /\ reader[c].pc = "dead"
          /\ UNCHANGED <<connected, owner, conns, hand, link, answer, down>>
          /\ UNCHANGED <<nextId, pend, wmtx, caller, outcome, tx, up, rx, host, news, ran>>
        BY <1>4 DEF MarkDead
    <2> HIDE DEF r
    <2> QED
        BY <1>0, <2>1, <2>2, <2>3, <2>4, ReadingKeepsInv
<1> QED
    BY <1>1, <1>2, <1>3, <1>4 DEF ReaderStep

-----------------------------------------------------------------------------
(* The steps of the host and the network.                                  *)

\* Break, DropRecord, HostShakes and HostInvalidates, and the steps of the owner but Dial and
\* JoinReaders: streams end, records are lost, OP_INVALIDATE is sent.
LEMMA LosingKeepsInv ==
    ASSUME ConnInv, OwnerTypes', Owned',
           owner.pc = "up" => owner'.pc = "up" \/ \A t \in Caller : caller[t].pc = "idle",
           owner'.pc \notin {"up", "closing", "closed"} => owner.pc \notin {"up", "closing", "closed"},
           owner'.pc \in {"up", "closing", "closed"} \/ owner.pc \notin {"up", "closing", "closed"},
           \A d \in Conn : link'[d] => link[d] \/ (tx[d] = 0 /\ rx[d] = 0 /\ up[d] = <<>>
                                                   /\ \A t \in Caller : caller[t].pc = "idle"),
           \A d \in Conn : up'[d] = up[d] \/ (up'[d] = <<>> /\ ~link'[d]),
           up' \in [Conn -> Seq([ctr : Nat, id : Id])], news' \in 0 .. MaxNews,
           down' \in [Conn -> Seq(0 .. MaxCalls)],
           \A d \in Conn : \A j \in DOMAIN down'[d] :
               down'[d][j] = 0 \/ (j \in DOMAIN down[d] /\ down'[d][j] = down[d][j]),
           \A d \in Conn : reader'[d].pc \in {"lookup", "deliver"} => reader'[d] = reader[d],
           UNCHANGED <<nextId, pend, answer, wmtx, caller, outcome, tx, rx, host, ran>>
    PROVE  ConnInv'
<1> USE DEF ConnInv
<1>1. CallTypes' /\ NetTypes'
    BY DEF CallTypes, NetTypes
<1>2. DOMAIN <<>> = {} /\ Len(<<>>) = 0
    OBVIOUS
<1>3. Serving'
    BY DEF Serving
<1>4. Numbered' /\ Exclusive' /\ Held'
    BY Frame
<1>5. \A d \in Conn : \A j \in DOMAIN up'[d] : j \in DOMAIN up[d] /\ up'[d] = up[d]
    BY <1>2
<1>6. Once'
    <2>1. \A t \in Caller : caller[t].c \in Conn
        BY DEF CallTypes, CallerState
    <2>2. \A t \in Caller : caller'[t].pc \in {"register", "lock", "seal", "write"} =>
              Unwritten(caller[t].c, caller[t].id)'
        <3>1. ASSUME NEW t \in Caller, caller[t].pc \in {"register", "lock", "seal", "write"}
              PROVE  Unwritten(caller[t].c, caller[t].id)'
            <4>1. Unwritten(caller[t].c, caller[t].id)
                BY <3>1 DEF Once
            <4>2. \A j \in DOMAIN up'[caller[t].c] : up'[caller[t].c][j].id # caller[t].id
                BY <1>5, <2>1, <4>1 DEF Unwritten
            <4> QED
                BY <4>1, <4>2 DEF Unwritten
        <3> QED
            BY <3>1
    <2>3. ASSUME NEW d \in Conn, NEW j \in DOMAIN up'[d]
          PROVE  /\ up'[d][j].id < nextId[d] /\ up'[d][j].id # host[d] /\ <<d, up'[d][j].id>> \notin ran
                 /\ \A k \in DOMAIN up'[d] : up'[d][j].id = up'[d][k].id => j = k
        <3>1. j \in DOMAIN up[d] /\ up'[d] = up[d]
            BY <1>5
        <3>2. up[d][j].id < nextId[d] /\ up[d][j].id # host[d] /\ <<d, up[d][j].id>> \notin ran
            BY <3>1 DEF Once
        <3>3. \A k \in DOMAIN up[d] : up[d][j].id = up[d][k].id => j = k
            BY <3>1 DEF Once
        <3> QED
            BY <3>1, <3>2, <3>3
    <2>4. /\ \A d \in Conn : host[d] # 0 => host[d] < nextId[d] /\ <<d, host[d]>> \notin ran
          /\ \A d \in Conn, i \in Id : <<d, i>> \in ran => i < nextId[d]
        BY DEF Once
    <2>5. host' = host /\ nextId' = nextId /\ ran' = ran /\ caller' = caller
        OBVIOUS
    <2> QED
        BY <2>2, <2>3, <2>4, <2>5 DEF Once
<1>7. Answered'
    <2>1. \A d \in Conn : \A j \in DOMAIN down'[d] : down'[d][j] # 0 => <<d, down'[d][j]>> \in ran
        BY DEF Answered
    <2>2. \A d \in Conn : reader'[d].pc \in {"lookup", "deliver"} => <<d, reader'[d].id>> \in ran
        BY DEF Answered
    <2> QED
        BY <2>1, <2>2 DEF Answered
<1>8. Counters'
    <2>1. ASSUME NEW d \in Conn, link'[d]
          PROVE  /\ (\A t \in Caller : ~(caller[t].c = d /\ caller[t].pc = "write")) =>
                        tx[d] = rx[d] + Len(up'[d])
                 /\ \A t \in Caller : caller[t].c = d /\ caller[t].pc = "write" =>
                        caller[t].ctr = rx[d] + Len(up'[d]) /\ tx[d] = rx[d] + Len(up'[d]) + 1
        <3>1. up'[d] = up[d]
            BY <2>1
        <3>2. CASE link[d]
            BY <3>1, <3>2 DEF Counters
        <3>3. CASE ~link[d]
            <4>1. tx[d] = 0 /\ rx[d] = 0 /\ up'[d] = <<>> /\ \A t \in Caller : caller[t].pc = "idle"
                BY <2>1, <3>1, <3>3
            <4> QED
                BY <1>2, <4>1
        <3> QED
            BY <3>2, <3>3
    <2> QED
        BY <2>1 DEF Counters
<1>9. RecordsOpen'
    BY <1>5 DEF RecordsOpen
<1>10. Bounded'
    <2>1. \A d \in Conn : Sealed(d)' = Sealed(d)
        BY DEF Sealed
    <2> QED
        BY <1>5, <2>1 DEF Bounded
<1> QED
    BY <1>1, <1>3, <1>4, <1>6, <1>7, <1>8, <1>9, <1>10

\* The host opens and runs.
LEMMA HostTakesKeepsInv ==
    ASSUME ConnInv, NEW c \in Conn, HostTakes(c)
    PROVE  ConnInv' /\ UNCHANGED <<outcome, ran>>
<1> USE DEF ConnInv, netVars, ownerVars
<1> DEFINE n == Head(up[c]).id
<1>1. up[c] \in Seq([ctr : Nat, id : Id]) /\ up[c] # <<>>
    BY DEF HostTakes, NetTypes
<1>2. /\ Head(up[c]) = up[c][1] /\ Head(up[c]) \in [ctr : Nat, id : Id] /\ 1 \in DOMAIN up[c]
      /\ Tail(up[c]) \in Seq([ctr : Nat, id : Id]) /\ Len(up[c]) \in Nat
      /\ Len(Tail(up[c])) = Len(up[c]) - 1
      /\ DOMAIN Tail(up[c]) = 1 .. Len(up[c]) - 1
      /\ \A i \in DOMAIN Tail(up[c]) : i + 1 \in DOMAIN up[c] /\ Tail(up[c])[i] = up[c][i + 1]
    BY <1>1, Taken1
<1>3. Head(up[c]).ctr = rx[c] /\ rx[c] \in Nat /\ tx[c] \in Nat
    <2>1. rx[c] \in Nat /\ tx[c] \in Nat
        BY DEF NetTypes
    <2>2. up[c][1].ctr = rx[c] + 1 - 1
        BY <1>2 DEF RecordsOpen
    <2> QED
        BY <1>2, <2>1, <2>2
<1>4. /\ host[c] = 0 /\ host' = [host EXCEPT ![c] = n]
      /\ up' = [up EXCEPT ![c] = Tail(up[c])]
      /\ rx' = [rx EXCEPT ![c] = rx[c] + 1]
      /\ UNCHANGED <<connected, owner, conns, hand, link, alive, reader, answer, nextId, outcome>>
      /\ UNCHANGED <<pend, wmtx, caller, tx, news, down, ran>>
    BY <1>3 DEF HostTakes
<1>5. n \in Id /\ n = up[c][1].id
    BY <1>2
<1>6. OwnerTypes' /\ CallTypes'
    BY <1>4 DEF OwnerTypes, CallTypes
<1>7. NetTypes'
    <2>1. up' \in [Conn -> Seq([ctr : Nat, id : Id])]
        BY <1>2, <1>4 DEF NetTypes
    <2>2. rx' \in [Conn -> Nat]
        BY <1>3, <1>4 DEF NetTypes
    <2>3. n \in 0 .. MaxCalls
        BY <1>5, ClientConnAssumption DEF Id
    <2>4. host' \in [Conn -> 0 .. MaxCalls]
        BY <1>4, <2>3 DEF NetTypes
    <2> QED
        BY <1>4, <2>1, <2>2, <2>4 DEF NetTypes
<1>8. /\ host'[c] = n /\ up'[c] = Tail(up[c]) /\ rx'[c] = rx[c] + 1
      /\ \A d \in Conn \ {c} : host'[d] = host[d] /\ up'[d] = up[d] /\ rx'[d] = rx[d]
    BY <1>4 DEF NetTypes
<1> HIDE DEF n
<1>9. Owned' /\ Numbered' /\ Answered' /\ Exclusive' /\ Held'
    BY <1>4, Frame
<1>10. Serving'
    BY <1>1, <1>4 DEF Serving
<1>11. \A j \in DOMAIN up'[c] : /\ j \in Nat /\ j + 1 \in DOMAIN up[c] /\ j + 1 # 1
                                /\ up'[c][j] = up[c][j + 1]
    BY <1>2, <1>8
<1>12. Once'
    <2>1. \A t \in Caller : caller[t].c \in Conn
        BY DEF CallTypes, CallerState
    <2>2. ASSUME NEW t \in Caller, caller[t].pc \in {"register", "lock", "seal", "write"}
          PROVE  Unwritten(caller[t].c, caller[t].id)'
        <3>1. Unwritten(caller[t].c, caller[t].id)
            BY <2>2 DEF Once
        <3>2. CASE caller[t].c = c
            BY <1>2, <1>4, <1>5, <1>8, <1>11, <3>1, <3>2 DEF Unwritten
        <3>3. CASE caller[t].c # c
            BY <1>4, <1>8, <2>1, <3>1, <3>3 DEF Unwritten
        <3> QED
            BY <3>2, <3>3
    <2>3. ASSUME NEW d \in Conn, NEW j \in DOMAIN up'[d]
          PROVE  /\ up'[d][j].id < nextId[d] /\ up'[d][j].id # host'[d] /\ <<d, up'[d][j].id>> \notin ran
                 /\ \A k \in DOMAIN up'[d] : up'[d][j].id = up'[d][k].id => j = k
        <3>1. CASE d # c
            BY <1>8, <3>1 DEF Once
        <3>2. CASE d = c
            <4>1. up'[d][j].id < nextId[d] /\ <<d, up'[d][j].id>> \notin ran
                BY <1>11, <3>2 DEF Once
            <4>2. j + 1 \in DOMAIN up[c] /\ up'[c][j] = up[c][j + 1] /\ j + 1 # 1 /\ j \in Nat
                BY <1>11, <3>2
            <4>3. \A x, y \in DOMAIN up[c] : up[c][x].id = up[c][y].id => x = y
                BY DEF Once
            <4>4. up[c][j + 1].id # up[c][1].id
                BY <1>2, <4>2, <4>3
            <4>5. up'[d][j].id # host'[d]
                BY <1>5, <1>8, <3>2, <4>2, <4>4
            <4>6. ASSUME NEW k \in DOMAIN up'[d], up'[d][j].id = up'[d][k].id PROVE j = k
                <5>1. k + 1 \in DOMAIN up[c] /\ up'[c][k] = up[c][k + 1] /\ k \in Nat
                    BY <1>11, <3>2
                <5>2. j + 1 = k + 1
                    BY <3>2, <4>2, <4>3, <4>6, <5>1
                <5> QED
                    BY <4>2, <5>1, <5>2
            <4> QED
                BY <4>1, <4>5, <4>6
        <3> QED
            BY <3>1, <3>2
    <2>4. ASSUME NEW d \in Conn, host'[d] # 0
          PROVE  host'[d] < nextId[d] /\ <<d, host'[d]>> \notin ran
        <3>1. n < nextId[c] /\ <<c, n>> \notin ran
            BY <1>2, <1>5 DEF Once
        <3> QED
            BY <1>8, <2>4, <3>1 DEF Once
    <2> QED
        BY <1>4, <2>2, <2>3, <2>4 DEF Once
<1>13. rx'[c] + Len(up'[c]) = rx[c] + Len(up[c])
    BY <1>2, <1>3, <1>8
<1>14. Counters'
    <2>1. \A d \in Conn : rx'[d] + Len(up'[d]) = rx[d] + Len(up[d])
        BY <1>8, <1>13
    <2> QED
        BY <1>4, <2>1 DEF Counters
<1>15. RecordsOpen'
    <2>1. ASSUME NEW j \in DOMAIN up'[c] PROVE up'[c][j].ctr = rx'[c] + j - 1
        <3>1. up[c][j + 1].ctr = rx[c] + (j + 1) - 1
            BY <1>11 DEF RecordsOpen
        <3> QED
            BY <1>3, <1>8, <1>11, <3>1
    <2>2. \A d \in Conn \ {c} : \A j \in DOMAIN up'[d] : up'[d][j].ctr = rx'[d] + j - 1
        BY <1>8 DEF RecordsOpen
    <2> QED
        BY <2>1, <2>2 DEF RecordsOpen
<1>16. Bounded'
    <2>1. \A d \in Conn : Sealed(d)' = Sealed(d)
        BY <1>4 DEF Sealed
    <2>2. rx[c] < tx[c]
        BY <1>2, <1>3 DEF Bounded
    <2>3. rx'[c] <= tx[c]
        BY <1>3, <1>8, <2>2
    <2>4. \A d \in Conn : tx[d] <= Cardinality(Sealed(d)') /\ rx'[d] <= tx[d]
        BY <1>8, <2>1, <2>3 DEF Bounded
    <2>5. ASSUME NEW d \in Conn, NEW j \in DOMAIN up'[d] PROVE up'[d][j].ctr < tx[d]
        <3>1. CASE d = c
            BY <1>11, <3>1 DEF Bounded
        <3>2. CASE d # c
            BY <1>8, <3>2 DEF Bounded
        <3> QED
            BY <3>1, <3>2
    <2> QED
        BY <1>4, <2>4, <2>5 DEF Bounded
<1> QED
    BY <1>4, <1>6, <1>7, <1>9, <1>10, <1>12, <1>14, <1>15, <1>16

LEMMA HostAnswersKeepsInv ==
    ASSUME ConnInv, NEW c \in Conn, NEW n, n = host[c], HostAnswers(c)
    PROVE  /\ ConnInv' /\ outcome' = outcome
           /\ <<c, n>> \in Call /\ outcome[<<c, n>>] # "none" /\ <<c, n>> \notin ran
           /\ ran' = ran \cup {<<c, n>>}
<1> USE DEF ConnInv, netVars, ownerVars
<1>1. /\ n # 0 /\ ran' = ran \cup {<<c, n>>} /\ host' = [host EXCEPT ![c] = 0]
      /\ UNCHANGED <<connected, owner, conns, hand, link, alive, reader, answer, nextId, outcome>>
      /\ UNCHANGED <<pend, wmtx, caller, tx, up, rx, news>>
      /\ down' = down \/ down' = [down EXCEPT ![c] = Append(down[c], n)]
    BY DEF HostAnswers
<1>2. /\ n \in Id /\ n \in 0 .. MaxCalls /\ <<c, n>> \in Call /\ n < nextId[c]
      /\ <<c, n>> \notin ran /\ outcome[<<c, n>>] # "none"
    <2>1. n \in 0 .. MaxCalls
        BY DEF NetTypes
    <2>2. n \in Id
        BY <1>1, <2>1, ClientConnAssumption DEF Id
    <2>3. n < nextId[c] /\ <<c, n>> \notin ran
        BY <1>1 DEF Once
    <2>4. outcome[<<c, n>>] # "none"
        BY <2>2, <2>3 DEF Numbered
    <2> QED
        BY <2>1, <2>2, <2>3, <2>4 DEF Call
<1>3. down[c] \in Seq(0 .. MaxCalls)
    BY DEF NetTypes
<1>4. /\ Append(down[c], n) \in Seq(0 .. MaxCalls) /\ Len(down[c]) \in Nat
      /\ DOMAIN down[c] = 1 .. Len(down[c]) /\ DOMAIN Append(down[c], n) = 1 .. Len(down[c]) + 1
      /\ Append(down[c], n)[Len(down[c]) + 1] = n
      /\ \A i \in DOMAIN down[c] : Append(down[c], n)[i] = down[c][i]
    BY <1>2, <1>3, Appended
<1>5. OwnerTypes' /\ CallTypes'
    BY <1>1 DEF OwnerTypes, CallTypes
<1>6. NetTypes'
    <2>1. down' \in [Conn -> Seq(0 .. MaxCalls)]
        BY <1>1, <1>4 DEF NetTypes
    <2>2. host' \in [Conn -> 0 .. MaxCalls]
        BY <1>1, ClientConnAssumption DEF NetTypes
    <2> QED
        BY <1>1, <1>2, <2>1, <2>2 DEF NetTypes
<1>7. Owned' /\ Serving' /\ Numbered' /\ Exclusive' /\ Counters' /\ RecordsOpen' /\ Bounded' /\ Held'
    BY <1>1, Frame
<1>8. host'[c] = 0 /\ \A d \in Conn \ {c} : host'[d] = host[d]
    BY <1>1 DEF NetTypes
<1>9. Once'
    <2>1. ASSUME NEW t \in Caller, caller[t].pc \in {"register", "lock", "seal", "write"}
          PROVE  Unwritten(caller[t].c, caller[t].id)'
        <3>1. Unwritten(caller[t].c, caller[t].id)
            BY <2>1 DEF Once
        <3>2. caller[t].c \in Conn /\ caller[t].id \in Id /\ caller[t].id # 0
            <4>1. caller[t] \in CallerState
                BY DEF CallTypes
            <4>2. caller[t].id \in Id
                BY <2>1 DEF Numbered
            <4> QED
                BY <4>1, <4>2, ClientConnAssumption DEF CallerState, Id
        <3>3. caller[t].id # host'[caller[t].c] /\ <<caller[t].c, caller[t].id>> \notin ran'
            BY <1>1, <1>8, <3>1, <3>2 DEF Unwritten
        <3> QED
            BY <1>1, <3>1, <3>3 DEF Unwritten
    <2>2. ASSUME NEW d \in Conn, NEW j \in DOMAIN up[d]
          PROVE  up[d][j].id # host'[d] /\ <<d, up[d][j].id>> \notin ran'
        <3>1. up[d][j].id \in Id /\ up[d][j].id # 0
            BY InFlight, ClientConnAssumption DEF Id
        <3> QED
            BY <1>1, <1>8, <3>1 DEF Once
    <2>3. \A d \in Conn : host'[d] # 0 => host'[d] < nextId[d] /\ <<d, host'[d]>> \notin ran'
        BY <1>1, <1>8 DEF Once
    <2>4. \A d \in Conn, i \in Id : <<d, i>> \in ran' => i < nextId[d]
        BY <1>1, <1>2 DEF Once
    <2> QED
        BY <1>1, <2>1, <2>2, <2>3, <2>4 DEF Once
<1>10. Answered'
    <2>1. ASSUME NEW d \in Conn, NEW j \in DOMAIN down'[d]
          PROVE  down'[d][j] # 0 => <<d, down'[d][j]>> \in ran'
        <3>1. CASE down'[d] = down[d]
            BY <1>1, <3>1 DEF Answered
        <3>2. CASE d = c /\ down'[d] = Append(down[c], n)
            <4>1. j = Len(down[c]) + 1 \/ j \in DOMAIN down[c]
                BY <1>4, <3>2
            <4> QED
                BY <1>1, <1>4, <3>2, <4>1 DEF Answered
        <3> QED
            BY <1>1, <3>1, <3>2 DEF NetTypes
    <2>2. ran \subseteq ran'
        BY <1>1
    <2> QED
        BY <1>1, <2>1, <2>2 DEF Answered
<1> QED
    BY <1>1, <1>2, <1>5, <1>6, <1>7, <1>9, <1>10

LEMMA NetworkKeepsInv ==
    ASSUME ConnInv, NEW c \in Conn,
           Break(c) \/ DropRecord(c) \/ HostShakes(c) \/ HostInvalidates(c)
    PROVE  ConnInv' /\ UNCHANGED <<outcome, ran>>
<1> USE DEF ConnInv, netVars, ownerVars, OwnerIdle
<1>1. /\ UNCHANGED <<connected, owner, conns, alive, reader>>
      /\ UNCHANGED <<nextId, pend, answer, wmtx, caller, outcome, tx, rx, host, ran>>
    BY DEF Break, DropRecord, HostShakes, HostInvalidates
<1>2. /\ hand' \in [Conn -> {"none", "hello", "challenge", "proof", "ok", "fail"}]
      /\ link' \in [Conn -> BOOLEAN] /\ \A d \in Conn : link'[d] => link[d]
    <2>1. CASE Break(c)
        BY <2>1 DEF Break, OwnerTypes
    <2>2. CASE DropRecord(c) \/ HostInvalidates(c)
        BY <2>2 DEF DropRecord, HostInvalidates, OwnerTypes
    <2>3. CASE HostShakes(c)
        <3>1. PICK next : /\ hand' = [hand EXCEPT ![c] = next] /\ link' = link
                          /\ next \in CASE hand[c] = "hello" -> {"challenge", "fail"}
                                        [] hand[c] = "proof" -> {"ok", "fail"}
                                        [] OTHER             -> {}
            BY <2>3 DEF HostShakes
        <3>2. next \in {"challenge", "fail", "ok"}
            BY <3>1
        <3> QED
            BY <3>1, <3>2 DEF OwnerTypes
    <2> QED
        BY <2>1, <2>2, <2>3
<1>3. OwnerTypes'
    BY <1>1, <1>2 DEF OwnerTypes
<1>4. Owned'
    BY <1>1, <1>2 DEF Owned
<1>5. /\ up' \in [Conn -> Seq([ctr : Nat, id : Id])]
      /\ \A d \in Conn : up'[d] = up[d] \/ (up'[d] = <<>> /\ ~link'[d])
    <2>1. CASE DropRecord(c)
        <3>1. ~link'[c] /\ (up' = up \/ up' = [up EXCEPT ![c] = <<>>])
            BY <2>1 DEF DropRecord
        <3>2. <<>> \in Seq([ctr : Nat, id : Id])
            OBVIOUS
        <3> QED
            BY <3>1, <3>2 DEF NetTypes
    <2>2. CASE ~DropRecord(c)
        BY <2>2 DEF Break, HostShakes, HostInvalidates, NetTypes
    <2> QED
        BY <2>1, <2>2
<1>6. down' = down \/ down' = [down EXCEPT ![c] = <<>>] \/ down' = [down EXCEPT ![c] = Append(down[c], 0)]
    BY DEF Break, DropRecord, HostShakes, HostInvalidates
<1>7. down[c] \in Seq(0 .. MaxCalls) /\ 0 \in 0 .. MaxCalls
    BY ClientConnAssumption DEF NetTypes
<1>8. /\ Append(down[c], 0) \in Seq(0 .. MaxCalls) /\ Len(down[c]) \in Nat
      /\ DOMAIN down[c] = 1 .. Len(down[c]) /\ DOMAIN Append(down[c], 0) = 1 .. Len(down[c]) + 1
      /\ Append(down[c], 0)[Len(down[c]) + 1] = 0
      /\ \A i \in DOMAIN down[c] : Append(down[c], 0)[i] = down[c][i]
    BY <1>7, Appended
<1>9. down' \in [Conn -> Seq(0 .. MaxCalls)]
    <2>1. <<>> \in Seq(0 .. MaxCalls)
        OBVIOUS
    <2> QED
        BY <1>6, <1>8, <2>1 DEF NetTypes
<1>10. ASSUME NEW d \in Conn, NEW j \in DOMAIN down'[d]
       PROVE  down'[d][j] = 0 \/ (j \in DOMAIN down[d] /\ down'[d][j] = down[d][j])
    <2>1. CASE down'[d] = down[d]
        BY <2>1
    <2>2. CASE down'[d] = <<>>
        BY <2>2
    <2>3. CASE d = c /\ down'[d] = Append(down[c], 0)
        BY <1>8, <2>3
    <2> QED
        BY <1>6, <2>1, <2>2, <2>3 DEF NetTypes
<1>11. news' \in 0 .. MaxNews
    BY ClientConnAssumption DEF Break, DropRecord, HostShakes, HostInvalidates, NetTypes
<1>12. owner' = owner /\ reader' = reader /\ outcome' = outcome /\ ran' = ran
    BY <1>1
<1>13. ConnInv'
    <2>1. /\ owner.pc = "up" => owner'.pc = "up" \/ \A t \in Caller : caller[t].pc = "idle"
          /\ owner'.pc \notin {"up", "closing", "closed"} => owner.pc \notin {"up", "closing", "closed"}
          /\ owner'.pc \in {"up", "closing", "closed"} \/ owner.pc \notin {"up", "closing", "closed"}
        BY <1>12
    <2>2. \A d \in Conn : link'[d] => link[d] \/ (tx[d] = 0 /\ rx[d] = 0 /\ up[d] = <<>>
                                                  /\ \A t \in Caller : caller[t].pc = "idle")
        BY <1>2
    <2>3. \A d \in Conn : \A j \in DOMAIN down'[d] :
              down'[d][j] = 0 \/ (j \in DOMAIN down[d] /\ down'[d][j] = down[d][j])
        BY <1>10
    <2>4. \A d \in Conn : reader'[d].pc \in {"lookup", "deliver"} => reader'[d] = reader[d]
        BY <1>12
    <2>5. UNCHANGED <<nextId, pend, answer, wmtx, caller, outcome, tx, rx, host, ran>>
        BY <1>1
    <2> QED
        BY <1>3, <1>4, <1>5, <1>9, <1>11, <2>1, <2>2, <2>3, <2>4, <2>5, LosingKeepsInv
<1> QED
    BY <1>12, <1>13

-----------------------------------------------------------------------------
(* The steps of connect and disconnect.                                    *)

LEMMA OwnerKeepsInv ==
    ASSUME ConnInv, OwnerStep \/ Disconnect
    PROVE  ConnInv' /\ UNCHANGED <<outcome, ran>>
<1> USE DEF ConnInv, netVars, ownerVars, OwnerIdle, OwnerGoes, Trying, Says
<1>1. UNCHANGED <<nextId, pend, answer, wmtx, caller, outcome, tx, up, rx, host, news, down, ran>>
    BY DEF OwnerStep, Dial, SayHello, Prove, Admitted, Refused, Fail, JoinReaders, Launch, CloseConn, Disconnect
<1>2. owner.c \in Conn
    BY DEF OwnerTypes
<1>3. ASSUME OwnerTypes', Owned',
             owner.pc = "up" => owner'.pc = "up" \/ \A t \in Caller : caller[t].pc = "idle",
             owner'.pc \in {"up", "closing", "closed"} \/ owner.pc \notin {"up", "closing", "closed"},
             \A d \in Conn : link'[d] => link[d] \/ owner.pc \notin {"up", "closing", "closed"},
             \A d \in Conn : reader'[d].pc \in {"lookup", "deliver"} => reader'[d] = reader[d]
      PROVE  ConnInv'
    <2>1. ASSUME NEW d \in Conn, link'[d], ~link[d]
          PROVE  /\ tx[d] = 0 /\ rx[d] = 0 /\ up[d] = <<>>
                 /\ \A t \in Caller : caller[t].pc = "idle"
        BY <1>3, <2>1 DEF Serving
    <2>2. /\ up' = up /\ up \in [Conn -> Seq([ctr : Nat, id : Id])]
          /\ news' \in 0 .. MaxNews /\ down' = down /\ down \in [Conn -> Seq(0 .. MaxCalls)]
        BY <1>1 DEF NetTypes
    <2> QED
        BY <1>1, <1>3, <2>1, <2>2, LosingKeepsInv
<1>4. CASE Dial
    <2>1. PICK c \in Conn \ conns, pc \in {"greet", "fail"} :
              /\ owner' = [pc |-> pc, c |-> c]
              /\ link' = IF pc = "greet" THEN [link EXCEPT ![c] = TRUE] ELSE link
        BY <1>4 DEF Dial
    <2>2. /\ owner.pc \in {"start", "dial"}
          /\ UNCHANGED <<connected, conns, hand, reader, alive>>
        BY <1>4 DEF Dial
    <2>3. link' \in [Conn -> BOOLEAN] /\ \A d \in Conn : link'[d] => link[d] \/ (d = c /\ pc = "greet")
        BY <2>1 DEF OwnerTypes
    <2>4. OwnerTypes'
        BY <2>1, <2>2, <2>3 DEF OwnerTypes
    <2>5. Owned'
        BY <2>1, <2>2, <2>3 DEF Owned
    <2> QED
        BY <1>1, <1>3, <2>1, <2>2, <2>4, <2>5
<1>5. CASE SayHello \/ Prove \/ Refused
    <2>1. PICK pc \in {"greeted", "proven", "fail"} : owner' = [owner EXCEPT !.pc = pc]
        BY <1>5 DEF SayHello, Prove, Refused
    <2>2. /\ owner.pc \in {"greet", "greeted", "proven"}
          /\ UNCHANGED <<connected, conns, link, reader, alive>>
        BY <1>5 DEF SayHello, Prove, Refused
    <2>3. owner'.pc = pc /\ owner'.c = owner.c
        BY <2>1 DEF OwnerTypes
    <2>4. hand' \in [Conn -> {"none", "hello", "challenge", "proof", "ok", "fail"}]
        BY <1>5 DEF SayHello, Prove, Refused, OwnerTypes
    <2>5. OwnerTypes'
        BY <2>1, <2>2, <2>4 DEF OwnerTypes
    <2>6. Owned'
        BY <2>2, <2>3 DEF Owned
    <2> QED
        BY <1>1, <1>3, <2>2, <2>3, <2>5, <2>6
<1>6. CASE Admitted
    <2>1. PICK pc \in {"launch", "dial"} :
              owner' = [owner EXCEPT !.pc = pc] /\ (pc = "launch" => conns' = Conn)
        BY <1>6 DEF Admitted
    <2>2. /\ owner.pc = "proven" /\ conns' = conns \cup {owner.c}
          /\ UNCHANGED <<hand, link, reader>>
        BY <1>6 DEF Admitted
    <2>3. owner'.pc = pc /\ owner'.c = owner.c
        BY <2>1 DEF OwnerTypes
    <2>4. alive' \in [Conn -> BOOLEAN] /\ connected' \in BOOLEAN
        BY <1>6 DEF Admitted, OwnerTypes
    <2>5. OwnerTypes'
        BY <1>2, <2>1, <2>2, <2>4 DEF OwnerTypes
    <2>6. Owned'
        BY <2>1, <2>2, <2>3 DEF Owned
    <2> QED
        BY <1>1, <1>3, <2>2, <2>3, <2>5, <2>6
<1>7. CASE Fail
    <2>1. /\ owner.pc = "fail" /\ owner' = [owner EXCEPT !.pc = "closing"]
          /\ link' = [link EXCEPT ![owner.c] = FALSE]
          /\ UNCHANGED <<connected, conns, hand, reader, alive>>
        BY <1>7 DEF Fail, Closed
    <2>2. owner'.pc = "closing" /\ owner'.c = owner.c
        BY <2>1 DEF OwnerTypes
    <2>3. link' \in [Conn -> BOOLEAN] /\ \A d \in Conn : link'[d] => link[d] /\ d # owner.c
        BY <1>2, <2>1 DEF OwnerTypes
    <2>4. OwnerTypes'
        BY <2>1, <2>3 DEF OwnerTypes
    <2>5. Owned'
        BY <2>1, <2>2, <2>3 DEF Owned
    <2> QED
        BY <1>1, <1>3, <2>1, <2>2, <2>3, <2>4, <2>5
<1>8. ASSUME NEW c \in Conn, Launch(c) PROVE ConnInv'
    <2>1. PICK pc \in {"up", "launch"} : owner' = [owner EXCEPT !.pc = pc]
        BY <1>8 DEF Launch
    <2>2. /\ owner.pc = "launch" /\ reader' = [reader EXCEPT ![c].pc = "check"]
          /\ UNCHANGED <<connected, conns, hand, link, alive>>
        BY <1>8 DEF Launch
    <2>3. owner'.pc = pc /\ owner'.c = owner.c
        BY <2>1 DEF OwnerTypes
    <2>4. reader' \in [Conn -> ReaderState]
        BY <2>2 DEF OwnerTypes, ReaderState
    <2>5. OwnerTypes'
        BY <2>1, <2>2, <2>4 DEF OwnerTypes
    <2>6. Owned'
        BY <2>2, <2>3 DEF Owned
    <2>7. \A d \in Conn : reader'[d].pc \in {"lookup", "deliver"} => reader'[d] = reader[d]
        BY <2>2 DEF OwnerTypes
    <2> QED
        BY <1>1, <1>3, <2>2, <2>3, <2>5, <2>6, <2>7
<1>9. ASSUME NEW c \in Conn, CloseConn(c) PROVE ConnInv'
    <2>1. /\ owner.pc = "closing" /\ alive' = [alive EXCEPT ![c] = FALSE]
          /\ link' = [link EXCEPT ![c] = FALSE]
          /\ UNCHANGED <<connected, owner, conns, hand, reader>>
        BY <1>9 DEF CloseConn, Closed
    <2>2. /\ link' \in [Conn -> BOOLEAN] /\ alive' \in [Conn -> BOOLEAN]
          /\ \A d \in Conn : link'[d] => link[d]
        BY <2>1 DEF OwnerTypes
    <2>3. OwnerTypes'
        BY <2>1, <2>2 DEF OwnerTypes
    <2>4. Owned'
        BY <2>1, <2>2 DEF Owned
    <2> QED
        BY <1>1, <1>3, <2>1, <2>2, <2>3, <2>4
<1>10. CASE JoinReaders
    <2>1. /\ owner.pc = "closing" /\ owner' = [owner EXCEPT !.pc = "closed"] /\ conns' = {}
          /\ \A c \in conns : ~link[c] /\ reader[c].pc \in {"none", "gone"}
          /\ UNCHANGED <<connected, hand, link, reader, alive>>
        BY <1>10 DEF JoinReaders, Joined
    <2>2. owner'.pc = "closed" /\ owner'.c = owner.c
        BY <2>1 DEF OwnerTypes
    <2>3. OwnerTypes'
        BY <2>1 DEF OwnerTypes
    <2>4. \A c \in Conn : ~link[c] /\ reader[c].pc \in {"none", "gone"}
        BY <2>1 DEF Owned
    <2>5. Owned'
        BY <2>1, <2>2, <2>4 DEF Owned
    <2> QED
        BY <1>1, <1>3, <2>1, <2>2, <2>3, <2>5
<1>11. CASE Disconnect
    <2>1. /\ owner.pc = "up" /\ owner' = [owner EXCEPT !.pc = "closing"] /\ connected' = FALSE
          /\ \A t \in Caller : caller[t].pc = "idle"
          /\ UNCHANGED <<conns, hand, link, reader, alive>>
        BY <1>11 DEF Disconnect, At
    <2>2. owner'.pc = "closing" /\ owner'.c = owner.c
        BY <2>1 DEF OwnerTypes
    <2>3. OwnerTypes'
        BY <2>1 DEF OwnerTypes
    <2>4. Owned'
        BY <2>1, <2>2 DEF Owned
    <2> QED
        BY <1>1, <1>3, <2>1, <2>2, <2>3, <2>4
<1> QED
    BY <1>1, <1>4, <1>5, <1>6, <1>7, <1>8, <1>9, <1>10, <1>11 DEF OwnerStep

-----------------------------------------------------------------------------
(* Every step, and what follows.                                           *)

\* The steps of the threads in request, seen as those of their calls.
LEMMA CallerKeepsInv ==
    ASSUME ConnInv, NEW t \in Caller, CallerStep(t) \/ LockWriter(t) \/ Timeout(t)
    PROVE  ConnInv' /\ (UNCHANGED <<outcome, ran>> \/ \E k \in Call : Calls!Answer(k) \/ Calls!GiveUp(k))
<1> USE DEF At, netVars, ownerVars
<1>1. CASE (Register(t) /\ alive[caller[t].c]) \/ LockWriter(t)
    <2>1. ConnInv'
        BY <1>1, QueueingKeepsInv DEF ConnInv, CallTypes, CallerState
    <2>2. UNCHANGED <<outcome, ran>>
        BY <1>1 DEF Register, LockWriter
    <2> QED
        BY <2>1, <2>2
<1>2. CASE Seal(t)
    <2>1. ConnInv'
        BY <1>2, SealKeepsInv DEF ConnInv, CallTypes, CallerState
    <2>2. UNCHANGED <<outcome, ran>>
        BY <1>2 DEF Seal
    <2> QED
        BY <2>1, <2>2
<1>3. CASE Write(t)
    <2>1. ConnInv'
        BY <1>3, WriteKeepsInv DEF ConnInv, CallTypes, CallerState
    <2>2. UNCHANGED <<outcome, ran>>
        BY <1>3 DEF Write
    <2> QED
        BY <2>1, <2>2
<1>4. CASE Woken(t) \/ Timeout(t)
    <2>1. ConnInv'
        BY <1>4, WaitKeepsInv
    <2>2. UNCHANGED <<outcome, ran>>
        BY <1>4 DEF Woken, Timeout
    <2> QED
        BY <2>1, <2>2
<1>5. CASE (Register(t) /\ ~alive[caller[t].c]) \/ Unsent(t) \/ (Finish(t) /\ caller[t].pc = "late")
    <2>1. /\ Ends(t, "eio") /\ caller[t].pc \in {"register", "unsent", "answered", "late"}
          /\ pend' \in {pend, Unregistered(t)}
          /\ UNCHANGED <<connected, owner, conns, hand, link, alive, reader, answer, nextId>>
          /\ UNCHANGED <<wmtx, tx, up, rx, host, news, down, ran>>
        BY <1>5 DEF Register, Unsent, Finish, Late
    <2>2. PICK k : k = CallOf(t)
        OBVIOUS
    <2>3. ConnInv' /\ k \in Call /\ outcome[k] = "open" /\ outcome' = [outcome EXCEPT ![k] = "eio"]
        BY <2>1, <2>2, EndKeepsInv
    <2>4. Calls!GiveUp(k)
        BY <2>1, <2>3 DEF Calls!GiveUp, Calls!Open, Calls!Eio
    <2> QED
        BY <2>3, <2>4
<1>6. CASE Finish(t) /\ caller[t].pc # "late"
    <2>1. PICK k : k = CallOf(t)
        OBVIOUS
    <2>2. caller[t].pc = "answered" /\ k = <<caller[t].c, caller[t].id>> /\ k \in Call
        BY <1>6, <2>1 DEF Finish, CallOf, ConnInv, CallTypes, CallerState, Numbered, Call
    <2>3. PICK how \in {"ok", "eio"} : how = answer[k].status
        BY <2>2 DEF ConnInv, CallTypes
    <2>4. /\ Ends(t, how)
          /\ pend' \in {pend, Unregistered(t)}
          /\ UNCHANGED <<connected, owner, conns, hand, link, alive, reader, answer, nextId>>
          /\ UNCHANGED <<wmtx, tx, up, rx, host, news, down, ran>>
        BY <1>6, <2>1, <2>3 DEF Finish, Late
    <2>5. ConnInv' /\ outcome[k] = "open" /\ outcome' = [outcome EXCEPT ![k] = how]
        BY <2>1, <2>2, <2>4, EndKeepsInv
    <2>6. answer[k].done
        BY <2>2 DEF ConnInv, Answered
    <2>7. how = "ok" => k \in ran
        BY <2>2, <2>3, <2>6 DEF ConnInv, Answered
    <2>8. Calls!Answer(k) \/ Calls!GiveUp(k)
        BY <2>4, <2>5, <2>7 DEF Calls!Answer, Calls!GiveUp, Calls!Open, Calls!Ok, Calls!Eio
    <2> QED
        BY <2>2, <2>5, <2>8
<1> QED
    BY <1>1, <1>2, <1>3, <1>4, <1>5, <1>6 DEF CallerStep

\* Every step keeps the invariant and is one of RemoteCall or leaves its variables alone.
LEMMA StepKeepsInv ==
    ASSUME ConnInv, [Next]_vars
    PROVE  ConnInv' /\ (Calls!Next \/ UNCHANGED Calls!vars)
<1> USE DEF Calls!vars
<1>1. CASE UNCHANGED vars
    <2>1. /\ UNCHANGED <<connected, owner, conns, hand, alive, nextId, pend, answer, wmtx, reader, caller>>
          /\ UNCHANGED <<outcome, link, tx, up, rx, host, news, down, ran>>
        BY <1>1 DEF vars, ownerVars, netVars
    <2>2. OwnerTypes' /\ CallTypes' /\ NetTypes'
        BY <2>1 DEF ConnInv, OwnerTypes, CallTypes, NetTypes
    <2>3. /\ Owned' /\ Serving' /\ Numbered' /\ Once' /\ Answered' /\ Exclusive'
          /\ Counters' /\ RecordsOpen' /\ Bounded' /\ Held'
        BY <2>1, Frame
    <2> QED
        BY <2>1, <2>2, <2>3 DEF ConnInv
<1>2. ASSUME NEW t \in Caller, NEW c \in Conn, Begin(t, c)
      PROVE  ConnInv' /\ Calls!Next
    <2>1. PICK n : n = nextId[c]
        OBVIOUS
    <2>2. ConnInv'
        BY <1>2, <2>1, BeginKeepsInv
    <2>3. n \in Id
        BY <1>2, <2>1, NumberLeft DEF Begin
    <2>4. outcome[<<c, n>>] = "none"
        <3>1. n \in Nat
            BY <2>3, ClientConnAssumption DEF Id
        <3> QED
            BY <2>1, <2>3, <3>1 DEF ConnInv, Numbered
    <2>5. outcome' = [outcome EXCEPT ![<<c, n>>] = "open"] /\ ran' = ran
        BY <1>2, <2>1 DEF Begin, netVars
    <2>6. Calls!Begin(<<c, n>>) /\ <<c, n>> \in Call
        BY <2>3, <2>4, <2>5 DEF Calls!Begin, Calls!None, Calls!Open, Call
    <2> QED
        BY <2>2, <2>6 DEF Calls!Next
<1>3. ASSUME NEW t \in Caller, CallerStep(t) \/ LockWriter(t) \/ Timeout(t)
      PROVE  ConnInv' /\ (Calls!Next \/ UNCHANGED Calls!vars)
    BY <1>3, CallerKeepsInv DEF Calls!Next
<1>4. ASSUME NEW c \in Conn, ReaderStep(c)
      PROVE  ConnInv' /\ UNCHANGED Calls!vars
    BY <1>4, ReaderKeepsInv
<1>5. ASSUME NEW c \in Conn, Break(c) \/ HostShakes(c) \/ HostInvalidates(c) \/ DropRecord(c)
      PROVE  ConnInv' /\ UNCHANGED Calls!vars
    BY <1>5, NetworkKeepsInv
<1>6. ASSUME NEW c \in Conn, HostTakes(c)
      PROVE  ConnInv' /\ UNCHANGED Calls!vars
    BY <1>6, HostTakesKeepsInv
<1>7. ASSUME NEW c \in Conn, HostAnswers(c)
      PROVE  ConnInv' /\ Calls!Next
    <2>1. PICK n : n = host[c]
        OBVIOUS
    <2>2. /\ ConnInv' /\ outcome' = outcome
          /\ <<c, n>> \in Call /\ outcome[<<c, n>>] # "none" /\ <<c, n>> \notin ran
          /\ ran' = ran \cup {<<c, n>>}
        BY <1>7, <2>1, HostAnswersKeepsInv
    <2>3. Calls!Run(<<c, n>>)
        BY <2>2 DEF Calls!Run, Calls!None
    <2> QED
        BY <2>2, <2>3 DEF Calls!Next
<1>8. ASSUME OwnerStep \/ Disconnect
      PROVE  ConnInv' /\ UNCHANGED Calls!vars
    BY <1>8, OwnerKeepsInv
<1> QED
    BY <1>1, <1>2, <1>3, <1>4, <1>5, <1>6, <1>7, <1>8 DEF Next, HostStep

\* Of a Client and its connections the parts of ConnInv hold always.
THEOREM ConnInvariant == Spec => []ConnInv
<1>1. Init => ConnInv
    BY InitHolds
<1>2. ConnInv /\ [Next]_vars => ConnInv'
    BY StepKeepsInv
<1> QED
    BY <1>1, <1>2, PTL DEF Spec

\* TypeOK with its bounds: no nonce counter passes the number of calls.
THEOREM ConnTyped == Spec => []TypeOK
<1>1. ConnInv => TypeOK
    <2> SUFFICES ASSUME ConnInv PROVE TypeOK
        OBVIOUS
    <2> USE DEF ConnInv
    <2>1. ASSUME NEW c \in Conn PROVE tx[c] \in 0 .. MaxCalls /\ rx[c] \in 0 .. MaxCalls
        <3>1. MaxCalls \in Nat /\ IsFiniteSet(Id) /\ Cardinality(Id) = MaxCalls
            BY FS_Interval, ClientConnAssumption DEF Id
        <3>2. Sealed(c) \subseteq Id
            BY DEF Sealed
        <3>3. Cardinality(Sealed(c)) <= MaxCalls /\ Cardinality(Sealed(c)) \in Nat
            BY <3>1, <3>2, FS_Subset, FS_CardinalityType
        <3>4. tx[c] \in Nat /\ rx[c] \in Nat
            BY DEF NetTypes
        <3> QED
            BY <3>1, <3>3, <3>4 DEF Bounded
    <2>2. tx \in [Conn -> 0 .. MaxCalls] /\ rx \in [Conn -> 0 .. MaxCalls]
        BY <2>1 DEF NetTypes
    <2>3. up \in [Conn -> Seq([ctr : 0 .. MaxCalls, id : Id])]
        <3>1. ASSUME NEW c \in Conn PROVE up[c] \in Seq([ctr : 0 .. MaxCalls, id : Id])
            <4>1. up[c] \in Seq([ctr : Nat, id : Id])
                BY DEF NetTypes
            <4>2. ASSUME NEW j \in DOMAIN up[c] PROVE up[c][j] \in [ctr : 0 .. MaxCalls, id : Id]
                <5>1. up[c][j] \in [ctr : Nat, id : Id]
                    BY <4>1, Elements
                <5>2. up[c][j].ctr < tx[c]
                    BY DEF Bounded
                <5>3. up[c][j].ctr \in Nat /\ up[c][j].id \in Id
                    BY <5>1
                <5>4. tx[c] \in 0 .. MaxCalls /\ MaxCalls \in Nat
                    BY <2>1, ClientConnAssumption
                <5>5. up[c][j].ctr \in 0 .. MaxCalls
                    BY <5>2, <5>3, <5>4
                <5> QED
                    BY <5>1, <5>5
            <4> QED
                BY <4>1, <4>2, Retyped
        <3> QED
            BY <3>1 DEF NetTypes
    <2>4. caller \in [Caller -> [pc : {"idle", "register", "lock", "seal", "write", "unsent", "wait",
                                      "answered", "late"},
                                c : Conn, id : 0 .. MaxCalls, ctr : 0 .. MaxCalls]]
        <3>1. ASSUME NEW t \in Caller PROVE caller[t].ctr \in 0 .. MaxCalls
            <4>1. caller[t].c \in Conn /\ caller[t].ctr \in Nat
                BY DEF CallTypes, CallerState
            <4>2. tx[caller[t].c] \in 0 .. MaxCalls /\ MaxCalls \in Nat
                BY <2>1, <4>1, ClientConnAssumption
            <4> QED
                BY <4>1, <4>2 DEF Held
        <3> QED
            BY <3>1 DEF CallTypes, CallerState
    <2> QED
        BY <2>2, <2>3, <2>4 DEF TypeOK, OwnerTypes, CallTypes, NetTypes, ReaderState
<1> QED
    BY <1>1, ConnInvariant, PTL

\* connect and disconnect are all or nothing, with any number of connections.
THEOREM ConnectsWholly == Spec => []AllOrNothing
<1>1. ConnInv => AllOrNothing
    BY DEF ConnInv, Owned, AllOrNothing, Joined
<1> QED
    BY <1>1, ConnInvariant, PTL

\* The host opens every record of every connection, whichever threads write them.
THEOREM EveryRecordOpens == Spec => []RecordsOpen
<1>1. ConnInv => RecordsOpen
    BY DEF ConnInv
<1> QED
    BY <1>1, ConnInvariant, PTL

\* A Client with its threads, readers, connections and host implements RemoteCall: every call
\* ends once, with its own answer or EIO, and the host runs it at most once.
THEOREM ConnImplementsRemoteCall == Spec => Contract
<1>1. Init => Calls!Init
    BY DEF Init, Calls!Init, Calls!None
<1>2. ConnInv /\ [Next]_vars => [Calls!Next]_(Calls!vars)
    BY StepKeepsInv
<1> QED
    BY <1>1, <1>2, ConnInvariant, PTL DEF Spec, Contract, Calls!Spec

-----------------------------------------------------------------------------
(* A call that waits is seen to: beyond ConnInv, what is registered stays  *)
(* so until its call is done or ends, and its reader does not end before.  *)

\* The readers run while calls are made, and a connection is dead before its reader is gone.
Launched ==
    /\ owner.pc = "up" => \A c \in Conn : reader[c].pc # "none"
    /\ \A c \in Conn : reader[c].pc \in {"sweep", "gone"} => ~alive[c]

\* Between Register and the end of its call, t is registered with a reader, or done.
Past == {"lock", "seal", "write", "unsent", "wait", "answered", "late"}
Watched(t, c, i) ==
    caller[t].c = c /\ caller[t].id = i /\ caller[t].pc \in Past /\ ~answer[<<c, i>>].done =>
        i \in pend[c] /\ ~Joined(c)

\* What t waits for is under way.
Carried(t, c, i) ==
    caller[t].c = c /\ caller[t].id = i /\ caller[t].pc = "wait" /\ ~answer[<<c, i>>].done /\ link[c] =>
        UnderWay(c, i)

WaitInv ==
    /\ ConnInv /\ Launched
    /\ \A t \in Caller, c \in Conn, i \in Id : Watched(t, c, i) /\ Carried(t, c, i)

LEMMA LaunchedKept ==
    ASSUME ConnInv, Launched, [Next]_vars
    PROVE  Launched'
<1> USE DEF ownerVars, netVars, Goto, Ends
<1>1. CASE UNCHANGED <<owner, reader, alive>>
    BY <1>1 DEF Launched
<1>2. ASSUME NEW c \in Conn, ReaderStep(c)
      PROVE  Launched'
    <2>1. owner' = owner /\ \A d \in Conn \ {c} : reader'[d] = reader[d] /\ alive'[d] = alive[d]
        BY <1>2 DEF ReaderStep, CheckAlive, Recv, Callback, Lookup, Deliver, Lost, MarkDead, Sweep, ReaderAt,
                    ConnInv, OwnerTypes
    <2>2. reader[c].pc # "none" /\ reader'[c].pc # "none"
        BY <1>2 DEF ReaderStep, CheckAlive, Recv, Callback, Lookup, Deliver, Lost, MarkDead, Sweep, ReaderAt,
                    Reads, ConnInv, OwnerTypes, ReaderState
    <2>3. reader'[c].pc \in {"sweep", "gone"} => ~alive'[c]
        <3>1. CASE MarkDead(c)
            BY <3>1 DEF MarkDead, ConnInv, OwnerTypes
        <3>2. CASE Sweep(c)
            BY <3>2 DEF Sweep, Reads, Launched
        <3>3. CASE ~MarkDead(c) /\ ~Sweep(c)
            BY <1>2, <3>3 DEF ReaderStep, CheckAlive, Recv, Callback, Lookup, Deliver, Lost, ReaderAt,
                              ConnInv, OwnerTypes, ReaderState
        <3> QED
            BY <3>1, <3>2, <3>3
    <2> QED
        BY <2>1, <2>2, <2>3 DEF Launched
<1>3. CASE Dial \/ SayHello \/ Prove \/ Refused \/ Fail \/ JoinReaders \/ Disconnect
    <2>1. UNCHANGED <<alive, reader>> /\ owner'.pc # "up"
        BY <1>3 DEF Dial, SayHello, Prove, Says, Refused, Fail, JoinReaders, Disconnect, OwnerIdle, OwnerGoes,
                    ConnInv, OwnerTypes
    <2> QED
        BY <2>1 DEF Launched
<1>4. CASE Admitted
    <2>1. reader' = reader /\ owner'.pc # "up" /\ \A d \in Conn : reader[d].pc = "none"
        BY <1>4 DEF Admitted, OwnerGoes, ConnInv, OwnerTypes, Owned
    <2> QED
        BY <2>1 DEF Launched
<1>5. ASSUME NEW c \in Conn, Launch(c)
      PROVE  Launched'
    <2>1. /\ alive' = alive /\ reader' = [reader EXCEPT ![c].pc = "check"]
          /\ owner'.pc = "up" => \A d \in Conn \ {c} : reader[d].pc # "none"
        BY <1>5 DEF Launch, OwnerIdle, OwnerGoes, ConnInv, OwnerTypes
    <2>2. reader'[c].pc = "check" /\ \A d \in Conn \ {c} : reader'[d] = reader[d]
        BY <2>1 DEF ConnInv, OwnerTypes, ReaderState
    <2> QED
        BY <2>1, <2>2 DEF Launched
<1>6. ASSUME NEW c \in Conn, CloseConn(c)
      PROVE  Launched'
    <2>1. owner' = owner /\ reader' = reader /\ \A d \in Conn : alive'[d] => alive[d]
        BY <1>6 DEF CloseConn, ConnInv, OwnerTypes
    <2> QED
        BY <2>1 DEF Launched
<1>7. ASSUME NEW t \in Caller, CallerStep(t) \/ LockWriter(t) \/ Timeout(t)
      PROVE  UNCHANGED <<owner, reader, alive>>
    BY <1>7 DEF CallerStep, Register, LockWriter, Seal, Write, Unsent, Woken, Timeout, Finish
<1>8. ASSUME NEW c \in Conn, HostStep(c) \/ HostInvalidates(c) \/ DropRecord(c) \/ Break(c)
      PROVE  UNCHANGED <<owner, reader, alive>>
    BY <1>8 DEF HostStep, HostShakes, HostTakes, HostAnswers, HostInvalidates, DropRecord, Break, OwnerIdle
<1>9. ASSUME NEW t \in Caller, NEW c \in Conn, Begin(t, c)
      PROVE  UNCHANGED <<owner, reader, alive>>
    BY <1>9 DEF Begin
<1>10. CASE UNCHANGED vars
    BY <1>1, <1>10 DEF vars
<1> QED
    BY <1>1, <1>2, <1>3, <1>4, <1>5, <1>6, <1>7, <1>8, <1>9, <1>10 DEF Next, OwnerStep

\* While the owner does more than to be up, nobody calls.
LEMMA NobodyCalls ==
    ASSUME ConnInv, NEW t \in Caller, NEW c, NEW i, caller' = caller, owner.pc # "up"
    PROVE  Watched(t, c, i)' /\ Carried(t, c, i)'
BY DEF ConnInv, Serving, Watched, Carried, Past

\* A step of a caller leaves the others alone.
LEMMA CallersWait ==
    ASSUME WaitInv, NEW u \in Caller, CallerStep(u) \/ LockWriter(u) \/ Timeout(u),
           NEW t \in Caller, NEW c \in Conn, NEW i \in Id
    PROVE  Watched(t, c, i)' /\ Carried(t, c, i)'
<1> USE DEF ownerVars, netVars, Goto, Ends
<1>1. /\ UNCHANGED <<answer, reader, host, down, link>>
      /\ \A v \in Caller \ {u} : caller'[v] = caller[v]
    BY DEF CallerStep, Register, LockWriter, Seal, Write, Unsent, Woken, Timeout, Finish, WaitInv, ConnInv,
           CallTypes
<1>2. Watched(t, c, i) /\ Carried(t, c, i) /\ Launched
    BY DEF WaitInv
<1>3. \A j \in DOMAIN up[c] : j \in DOMAIN up'[c] /\ up'[c][j] = up[c][j]
    <2>1. CASE up' = up
        BY <2>1
    <2>2. CASE Write(u) /\ link[caller[u].c]
        <3>1. PICK d \in Conn : d = caller[u].c
            BY DEF WaitInv, ConnInv, CallTypes, CallerState
        <3>2. PICK m \in [ctr : Nat, id : Id] : up' = [up EXCEPT ![d] = Append(@, m)]
            <4>1. [ctr |-> caller[u].ctr, id |-> caller[u].id] \in [ctr : Nat, id : Id]
                BY <2>2 DEF Write, At, WaitInv, ConnInv, CallTypes, CallerState, Numbered
            <4> QED
                BY <2>2, <3>1, <4>1 DEF Write
        <3>3. up[d] \in Seq([ctr : Nat, id : Id]) /\ up \in [Conn -> Seq([ctr : Nat, id : Id])]
            BY DEF WaitInv, ConnInv, NetTypes
        <3>4. CASE c = d
            <4>1. up'[c] = Append(up[d], m)
                BY <3>2, <3>3, <3>4
            <4> QED
                BY <3>2, <3>3, <3>4, <4>1, Appended
        <3>5. CASE c # d
            BY <3>2, <3>3, <3>5
        <3> QED
            BY <3>4, <3>5
    <2> QED
        BY <2>1, <2>2 DEF CallerStep, Register, LockWriter, Seal, Write, Unsent, Woken, Timeout, Finish
<1>4. UnderWay(c, i) => UnderWay(c, i)'
    BY <1>1, <1>3 DEF UnderWay
<1>5. CASE t # u
    <2>1. caller'[t] = caller[t]
        BY <1>1, <1>5
    <2>2. caller[t].c = c /\ caller[t].id = i /\ caller[t].pc \in Past /\ i \in pend[c] => i \in pend'[c]
        <3>1. CASE pend' = pend
            BY <3>1
        <3>2. CASE Register(u) /\ pend' = [pend EXCEPT ![caller[u].c] = @ \cup {caller[u].id}]
            BY <3>2 DEF WaitInv, ConnInv, CallTypes
        <3>3. CASE pend' = Unregistered(u) /\ caller[u].pc # "idle"
            BY <1>5, <3>3 DEF Unregistered, Past, WaitInv, ConnInv, CallTypes, Numbered
        <3>4. \/ pend' = pend
              \/ Register(u) /\ pend' = [pend EXCEPT ![caller[u].c] = @ \cup {caller[u].id}]
              \/ pend' = Unregistered(u) /\ caller[u].pc # "idle"
            BY DEF CallerStep, Register, LockWriter, Seal, Write, Unsent, Woken, Timeout, Finish, At
        <3> QED
            BY <3>1, <3>2, <3>3, <3>4
    <2>3. Watched(t, c, i)'
        BY <1>1, <1>2, <2>1, <2>2 DEF Watched, Joined
    <2>4. Carried(t, c, i)'
        BY <1>1, <1>2, <1>4, <2>1 DEF Carried
    <2> QED
        BY <2>3, <2>4
<1>6. CASE t = u /\ Register(u)
    <2>1. owner.pc = "up"
        BY <1>6 DEF Register, At, WaitInv, ConnInv, Serving
    <2>2. CASE alive[caller[u].c]
        <3>1. /\ pend' = [pend EXCEPT ![caller[u].c] = @ \cup {caller[u].id}]
              /\ caller' = [caller EXCEPT ![u].pc = "lock"]
            BY <1>6, <2>2 DEF Register
        <3>2. caller'[t].pc = "lock" /\ caller'[t].c = caller[t].c /\ caller'[t].id = caller[t].id
            BY <1>6, <3>1 DEF WaitInv, ConnInv, CallTypes, CallerState
        <3>3. caller[t].c \in Conn => ~Joined(caller[t].c)' /\ caller[t].id \in pend'[caller[t].c]
            BY <1>1, <1>2, <1>6, <2>1, <2>2, <3>1 DEF Launched, Joined, WaitInv, ConnInv, CallTypes
        <3> QED
            BY <3>2, <3>3 DEF Watched, Carried
    <2>3. CASE ~alive[caller[u].c]
        <3>1. caller' = [caller EXCEPT ![u] = Resting]
            BY <1>6, <2>3 DEF Register
        <3>2. caller'[t].pc = "idle"
            BY <1>6, <3>1 DEF Resting, WaitInv, ConnInv, CallTypes
        <3> QED
            BY <3>2 DEF Watched, Carried, Past
    <2> QED
        BY <2>2, <2>3
<1>7. CASE t = u /\ (Unsent(u) \/ Finish(u))
    <2>1. caller' = [caller EXCEPT ![u] = Resting]
        BY <1>7 DEF Unsent, Finish
    <2>2. caller'[t].pc = "idle"
        BY <1>7, <2>1 DEF Resting, WaitInv, ConnInv, CallTypes
    <2> QED
        BY <2>2 DEF Watched, Carried, Past
<1>8. CASE t = u /\ (LockWriter(u) \/ Seal(u) \/ Write(u) \/ Woken(u) \/ Timeout(u))
    <2>1. /\ pend' = pend /\ caller[t].pc \in Past /\ caller'[t].c = caller[t].c /\ caller'[t].id = caller[t].id
          /\ caller'[t].pc \in Past
        BY <1>8 DEF LockWriter, Seal, Write, Woken, Timeout, At, Past, WaitInv, ConnInv, CallTypes, CallerState
    <2>2. Watched(t, c, i)'
        BY <1>1, <1>2, <2>1 DEF Watched, Joined
    <2>3. CASE Write(u) /\ link[caller[u].c] /\ caller[u].c = c /\ caller[u].id = i
        <3>1. up[c] \in Seq([ctr : Nat, id : Id]) /\ up \in [Conn -> Seq([ctr : Nat, id : Id])]
            BY DEF WaitInv, ConnInv, NetTypes
        <3>2. up' = [up EXCEPT ![c] = Append(@, [ctr |-> caller[u].ctr, id |-> i])]
            BY <2>3 DEF Write
        <3>3. up'[c] = Append(up[c], [ctr |-> caller[u].ctr, id |-> i])
            BY <3>1, <3>2
        <3>4. [ctr |-> caller[u].ctr, id |-> i] \in [ctr : Nat, id : Id]
            BY DEF WaitInv, ConnInv, CallTypes, CallerState
        <3>5. Len(up[c]) + 1 \in DOMAIN up'[c] /\ up'[c][Len(up[c]) + 1].id = i
            BY <3>1, <3>3, <3>4, Appended
        <3> QED
            BY <2>2, <3>5 DEF Carried, UnderWay
    <2>4. CASE ~(Write(u) /\ link[caller[u].c])
        <3>1. caller'[t].pc # "wait"
            BY <1>8, <2>4 DEF LockWriter, Seal, Write, Woken, Timeout, WaitInv, ConnInv, CallTypes, CallerState
        <3> QED
            BY <2>2, <3>1 DEF Carried
    <2>5. CASE caller[u].c # c \/ caller[u].id # i
        BY <1>8, <2>1, <2>2, <2>5 DEF Carried
    <2> QED
        BY <2>3, <2>4, <2>5
<1> QED
    BY <1>5, <1>6, <1>7, <1>8 DEF CallerStep

\* A new call is not registered yet; the others go on as before.
LEMMA BeginsWait ==
    ASSUME WaitInv, NEW u \in Caller, NEW d \in Conn, Begin(u, d),
           NEW t \in Caller, NEW c \in Conn, NEW i \in Id
    PROVE  Watched(t, c, i)' /\ Carried(t, c, i)'
<1>1. UNCHANGED <<pend, answer, reader, link, host, up, down>>
    BY DEF Begin, ownerVars, netVars
<1>2. Watched(t, c, i) /\ Carried(t, c, i)
    BY DEF WaitInv
<1>3. caller'[t] = caller[t] \/ caller'[t].pc = "register"
    BY DEF Begin, WaitInv, ConnInv, CallTypes
<1> QED
    BY <1>1, <1>2, <1>3 DEF Watched, Carried, Past, Joined, UnderWay

\* The reader of d delivers what it received to the call that is registered, and fails all that are
\* when it ends.
LEMMA ReadersWait ==
    ASSUME WaitInv, NEW d \in Conn, ReaderStep(d),
           NEW t \in Caller, NEW c \in Conn, NEW i \in Id
    PROVE  Watched(t, c, i)' /\ Carried(t, c, i)'
<1> USE DEF ownerVars, netVars
<1>1. UNCHANGED <<pend, caller, link, host, up>>
    BY DEF ReaderStep, CheckAlive, Recv, Callback, Lookup, Deliver, Lost, MarkDead, Sweep
<1>2. Watched(t, c, i) /\ Carried(t, c, i)
    BY DEF WaitInv
<1>3. <<c, i>> \in Call
    BY DEF Call
<1>4. /\ reader \in [Conn -> ReaderState] /\ answer \in [Call -> [done : BOOLEAN, status : {"ok", "eio"}]]
      /\ down \in [Conn -> Seq(0 .. MaxCalls)]
    BY DEF WaitInv, ConnInv, OwnerTypes, CallTypes, NetTypes
<1>5. CASE d # c
    <2>1. reader'[c] = reader[c] /\ down'[c] = down[c] /\ answer'[<<c, i>>] = answer[<<c, i>>]
        BY <1>3, <1>4, <1>5 DEF ReaderStep, CheckAlive, Recv, Callback, Lookup, Deliver, Lost, MarkDead, Sweep,
                                ReaderAt, Failed
    <2> QED
        BY <1>1, <1>2, <2>1 DEF Watched, Carried, Joined, UnderWay
<1>6. CASE d = c /\ (CheckAlive(c) \/ Callback(c) \/ Lost(c) \/ MarkDead(c))
    <2>1. answer' = answer /\ down' = down /\ reader'[c].pc \notin {"none", "gone"}
        BY <1>4, <1>6 DEF CheckAlive, Callback, Lost, MarkDead, ReaderAt, ReaderState
    <2>2. reader[c].pc \notin {"none", "gone", "lookup", "deliver"}
        BY <1>6 DEF CheckAlive, Callback, Lost, MarkDead, Reads
    <2> QED
        BY <1>1, <1>2, <2>1, <2>2 DEF Watched, Carried, Joined, UnderWay
<1>7. CASE d = c /\ Recv(c)
    <2>1. /\ answer' = answer /\ reader[c].pc = "recv" /\ down[c] # <<>>
          /\ down' = [down EXCEPT ![c] = Tail(@)]
          /\ reader' = [reader EXCEPT ![c] = [pc |-> IF Head(down[c]) = 0 THEN "callback" ELSE "lookup",
                                              id |-> Head(down[c])]]
        BY <1>7 DEF Recv, Reads
    <2>2. down[c] \in Seq(0 .. MaxCalls) /\ down'[c] = Tail(down[c])
        BY <1>4, <2>1
    <2>3. reader'[c] = [pc |-> IF Head(down[c]) = 0 THEN "callback" ELSE "lookup", id |-> Head(down[c])]
        BY <1>4, <2>1
    <2>4. reader'[c].pc \in {"callback", "lookup"}
        BY <2>3
    <2>5. /\ Head(down[c]) = down[c][1] /\ DOMAIN down[c] = 1 .. Len(down[c]) /\ Len(down[c]) \in Nat
          /\ DOMAIN Tail(down[c]) = 1 .. Len(down[c]) - 1
          /\ \A k \in DOMAIN Tail(down[c]) : Tail(down[c])[k] = down[c][k + 1]
        BY <2>1, <2>2, Taken1
    <2>6. ASSUME NEW j \in DOMAIN down[c], down[c][j] = i
          PROVE  UnderWay(c, i)'
        <3>1. CASE j = 1
            <4>1. i # 0
                BY DEF Id
            <4>2. reader'[c].pc = "lookup" /\ reader'[c].id = i
                BY <2>3, <2>5, <2>6, <3>1, <4>1
            <4> QED
                BY <4>2 DEF UnderWay
        <3>2. CASE j # 1
            <4>1. j - 1 \in DOMAIN Tail(down[c]) /\ Tail(down[c])[j - 1] = i
                BY <2>5, <2>6, <3>2
            <4> QED
                BY <2>2, <4>1 DEF UnderWay
        <3> QED
            BY <3>1, <3>2
    <2>7. UnderWay(c, i) => UnderWay(c, i)'
        BY <1>1, <2>1, <2>6 DEF UnderWay
    <2> QED
        BY <1>1, <1>2, <2>1, <2>4, <2>7 DEF Watched, Carried, Joined
<1>8. CASE d = c /\ Lookup(c)
    <2>1. /\ answer' = answer /\ down' = down /\ reader[c].pc = "lookup"
          /\ reader'[c].id = reader[c].id
          /\ reader'[c].pc = IF reader[c].id \in pend[c] THEN "deliver" ELSE "check"
        BY <1>4, <1>8 DEF Lookup, Reads, ReaderAt, ReaderState
    <2>2. Watched(t, c, i)'
        BY <1>1, <1>2, <2>1 DEF Watched, Joined
    <2>3. Carried(t, c, i)'
        BY <1>1, <1>2, <2>1 DEF Watched, Carried, UnderWay, Past
    <2> QED
        BY <2>2, <2>3
<1>9. CASE d = c /\ Deliver(c)
    <2>1. /\ answer' = [answer EXCEPT ![<<c, reader[c].id>>] = [done |-> TRUE, status |-> "ok"]]
          /\ down' = down /\ reader[c].pc = "deliver" /\ reader'[c].pc = "check"
        BY <1>4, <1>9 DEF Deliver, Reads, ReaderAt, ReaderState
    <2>2. CASE reader[c].id = i
        <3>1. answer'[<<c, i>>].done
            BY <1>3, <1>4, <2>1, <2>2
        <3> QED
            BY <3>1 DEF Watched, Carried
    <2>3. CASE reader[c].id # i
        <3>1. answer'[<<c, i>>] = answer[<<c, i>>]
            BY <1>3, <1>4, <2>1, <2>3
        <3> QED
            BY <1>1, <1>2, <2>1, <2>3, <3>1 DEF Watched, Carried, Joined, UnderWay
    <2> QED
        BY <2>2, <2>3
<1>10. CASE d = c /\ Sweep(c)
    <2>1. /\ answer' = Failed(c) /\ down' = down /\ reader[c].pc = "sweep" /\ reader'[c].pc = "gone"
        BY <1>4, <1>10 DEF Sweep, Reads, ReaderAt, ReaderState
    <2>2. CASE i \in pend[c]
        <3>1. answer'[<<c, i>>].done
            BY <1>3, <2>1, <2>2 DEF Failed
        <3> QED
            BY <3>1 DEF Watched, Carried
    <2>3. CASE i \notin pend[c]
        <3>1. answer'[<<c, i>>] = answer[<<c, i>>]
            BY <1>3, <2>1, <2>3 DEF Failed
        <3> QED
            BY <1>1, <1>2, <2>3, <3>1 DEF Watched, Carried, Past
    <2> QED
        BY <2>2, <2>3
<1> QED
    BY <1>5, <1>6, <1>7, <1>8, <1>9, <1>10 DEF ReaderStep

\* The host takes a request over and passes its answer on; nothing else takes what is under way
\* from a stream that works.
LEMMA HostsWait ==
    ASSUME WaitInv, NEW d \in Conn, HostStep(d) \/ HostInvalidates(d) \/ DropRecord(d) \/ Break(d),
           NEW t \in Caller, NEW c \in Conn, NEW i \in Id
    PROVE  Watched(t, c, i)' /\ Carried(t, c, i)'
<1> USE DEF ownerVars, netVars
<1>1. UNCHANGED <<pend, caller, reader, answer>>
    BY DEF HostStep, HostShakes, HostTakes, HostAnswers, HostInvalidates, DropRecord, Break, OwnerIdle
<1>2. Watched(t, c, i) /\ Carried(t, c, i)
    BY DEF WaitInv
<1>3. /\ link \in [Conn -> BOOLEAN] /\ down \in [Conn -> Seq(0 .. MaxCalls)]
      /\ up \in [Conn -> Seq([ctr : Nat, id : Id])] /\ host \in [Conn -> 0 .. MaxCalls]
    BY DEF WaitInv, ConnInv, OwnerTypes, NetTypes
<1>4. Watched(t, c, i)'
    BY <1>1, <1>2 DEF Watched, Joined
<1>5. link'[c] => link[c]
    BY <1>3 DEF HostStep, HostShakes, HostTakes, HostAnswers, HostInvalidates, DropRecord, Break
<1>6. SUFFICES ASSUME link'[c], UnderWay(c, i)
               PROVE  UnderWay(c, i)'
    BY <1>1, <1>2, <1>4, <1>5 DEF Carried
<1>7. CASE d # c
    <2>1. down'[c] = down[c] /\ up'[c] = up[c] /\ host'[c] = host[c]
        BY <1>3, <1>7 DEF HostStep, HostShakes, HostTakes, HostAnswers, HostInvalidates, DropRecord, Break,
                          OwnerIdle
    <2> QED
        BY <1>1, <1>6, <2>1 DEF UnderWay
<1>8. CASE d = c /\ HostShakes(c)
    BY <1>1, <1>6, <1>8 DEF HostShakes, OwnerIdle, UnderWay
<1>9. CASE d = c /\ HostTakes(c)
    <2>1. host[c] = 0 /\ up[c] # <<>> /\ up' = [up EXCEPT ![c] = Tail(@)] /\ down' = down
        BY <1>9 DEF HostTakes
    <2>2. host' = [host EXCEPT ![c] = Head(up[c]).id]
        BY <1>3, <1>6, <1>9 DEF HostTakes
    <2>3. /\ Head(up[c]) = up[c][1] /\ DOMAIN up[c] = 1 .. Len(up[c]) /\ Len(up[c]) \in Nat
          /\ DOMAIN Tail(up[c]) = 1 .. Len(up[c]) - 1
          /\ \A k \in DOMAIN Tail(up[c]) : Tail(up[c])[k] = up[c][k + 1]
        BY <1>3, <2>1, Taken1
    <2>4. up'[c] = Tail(up[c]) /\ host'[c] = up[c][1].id
        BY <1>3, <2>1, <2>2, <2>3
    <2>5. ASSUME NEW j \in DOMAIN up[c], up[c][j].id = i
          PROVE  UnderWay(c, i)'
        <3>1. CASE j = 1
            BY <2>4, <2>5, <3>1 DEF UnderWay
        <3>2. CASE j # 1
            <4>1. j - 1 \in DOMAIN Tail(up[c]) /\ Tail(up[c])[j - 1].id = i
                BY <2>3, <2>5, <3>2
            <4> QED
                BY <2>4, <4>1 DEF UnderWay
        <3> QED
            BY <3>1, <3>2
    <2>6. i # 0
        BY DEF Id
    <2> QED
        BY <1>1, <1>6, <2>1, <2>5, <2>6 DEF UnderWay
<1>10. CASE d = c /\ (HostAnswers(c) \/ HostInvalidates(c))
    <2>1. PICK e \in 0 .. MaxCalls :
              /\ down' = [down EXCEPT ![c] = Append(@, e)] /\ up' = up
              /\ host'[c] = host[c] \/ e = host[c]
        <3>1. CASE HostAnswers(c)
            <4>1. link' = link /\ up' = up /\ host[c] \in 0 .. MaxCalls
                BY <1>3, <3>1 DEF HostAnswers
            <4>2. down' = [down EXCEPT ![c] = Append(@, host[c])]
                BY <1>6, <3>1, <4>1 DEF HostAnswers
            <4> QED
                BY <4>1, <4>2
        <3>2. CASE HostInvalidates(c)
            <4>1. 0 \in 0 .. MaxCalls
                BY ClientConnAssumption
            <4> QED
                BY <3>2, <4>1 DEF HostInvalidates
        <3> QED
            BY <1>10, <3>1, <3>2
    <2>2. down'[c] = Append(down[c], e)
        BY <1>3, <2>1
    <2>3. /\ DOMAIN down[c] = 1 .. Len(down[c]) /\ DOMAIN down'[c] = 1 .. Len(down[c]) + 1 /\ Len(down[c]) \in Nat
          /\ down'[c][Len(down[c]) + 1] = e
          /\ \A j \in DOMAIN down[c] : down'[c][j] = down[c][j]
        BY <1>3, <2>2, Appended
    <2>4. /\ \A j \in DOMAIN down[c] : j \in DOMAIN down'[c] /\ down'[c][j] = down[c][j]
          /\ Len(down[c]) + 1 \in DOMAIN down'[c]
        BY <2>3
    <2>5. host[c] = i => UnderWay(c, i)'
        BY <2>1, <2>3, <2>4 DEF UnderWay
    <2> QED
        BY <1>1, <1>6, <2>1, <2>4, <2>5 DEF UnderWay
<1>11. CASE d = c /\ (DropRecord(c) \/ Break(c))
    <2>1. CASE DropRecord(c)
        BY <1>6, <1>11, <2>1 DEF DropRecord
    <2>2. CASE Break(c)
        BY <1>3, <1>6, <1>11, <2>2 DEF Break
    <2> QED
        BY <1>11, <2>1, <2>2
<1> QED
    BY <1>7, <1>8, <1>9, <1>10, <1>11 DEF HostStep

LEMMA WaitNext == WaitInv /\ [Next]_vars => WaitInv'
<1> SUFFICES ASSUME WaitInv, [Next]_vars
             PROVE  WaitInv'
    OBVIOUS
<1>1. ConnInv' /\ Launched'
    BY StepKeepsInv, LaunchedKept DEF WaitInv
<1> SUFFICES ASSUME NEW t \in Caller, NEW c \in Conn, NEW i \in Id
             PROVE  Watched(t, c, i)' /\ Carried(t, c, i)'
    BY <1>1 DEF WaitInv
<1>2. CASE UNCHANGED vars
    BY <1>2 DEF WaitInv, vars, ownerVars, netVars, Watched, Carried, Joined, UnderWay
<1>3. CASE OwnerStep \/ Disconnect
    <2>1. caller' = caller
        BY <1>3 DEF OwnerStep, Dial, SayHello, Prove, Says, Admitted, Refused, Fail, Launch, CloseConn, JoinReaders,
                    Disconnect, OwnerIdle
    <2>2. CASE OwnerStep
        <3>1. owner.pc # "up"
            BY <2>2 DEF OwnerStep, Dial, SayHello, Prove, Admitted, Refused, Fail, Launch, CloseConn, JoinReaders
        <3> QED
            BY <2>1, <3>1, NobodyCalls DEF WaitInv
    <2>3. CASE Disconnect
        BY <2>1, <2>3 DEF Disconnect, At, Watched, Carried, Past
    <2> QED
        BY <1>3, <2>2, <2>3
<1> QED
    BY <1>2, <1>3, CallersWait, BeginsWait, ReadersWait, HostsWait DEF Next

\* A call that waits is registered with a reader that has yet to end, and on a working stream its
\* request or its answer is on the way, whatever the other callers, the host and the network do
\* (request and readerLoop of client.cpp): nothing but the ten seconds of wait_for, or the end of a
\* reader that fails it, ends a call without its answer.
THEOREM NoCallMissesItsReader == Spec => []NoCallIsMissed
<1>1. Init => WaitInv
    <2> SUFFICES ASSUME Init PROVE WaitInv
        OBVIOUS
    <2>1. ConnInv
        BY InitHolds
    <2>2. Launched
        BY DEF Init, Launched
    <2>3. \A t \in Caller : caller[t].pc = "idle"
        BY DEF Init, Resting
    <2> QED
        BY <2>1, <2>2, <2>3 DEF WaitInv, Watched, Carried, Past
<1>2. WaitInv => NoCallIsMissed
    <2> SUFFICES ASSUME WaitInv, NEW t \in Caller, At(t, "wait"), ~answer[CallOf(t)].done
                 PROVE  /\ caller[t].id \in pend[caller[t].c] /\ ~Joined(caller[t].c)
                        /\ link[caller[t].c] => UnderWay(caller[t].c, caller[t].id)
        BY DEF NoCallIsMissed
    <2>1. PICK c \in Conn, i \in Id : c = caller[t].c /\ i = caller[t].id
        BY DEF WaitInv, ConnInv, CallTypes, CallerState, Numbered, At
    <2>2. Watched(t, c, i) /\ Carried(t, c, i)
        BY DEF WaitInv
    <2> QED
        BY <2>1, <2>2 DEF Watched, Carried, At, CallOf, Past
<1> QED
    BY <1>1, <1>2, WaitNext, PTL DEF Spec

=============================================================================
