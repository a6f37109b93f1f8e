---------------------------- MODULE NameCacheProofs ---------------------------
(***************************************************************************)
(* The name caches for any set of paths, threads and limits: what a lookup *)
(* answers is no older than a time to live, and it sees what this client   *)
(* changed or was told of.                                                 *)
(***************************************************************************)
EXTENDS NameCache, FiniteSetTheorems, TLAPS

-----------------------------------------------------------------------------
(* The inductive invariant, by what it is about.                           *)

Partial(S) == UNION {[D -> S] : D \in SUBSET Name}
Slot == [ver : 0 .. MaxVer, at : 0 .. MaxTime]
Path == Seq(STRING)

OpState ==
    [pc : {"idle", "meta", "neg", "ask", "store", "dir", "list", "dirstore", "seed", "reply", "applied",
           "erase"},
     path : Name \cup {<<>>}, start : 0 .. MaxTime, since : 0 .. MaxTime,
     floor : Partial(0 .. MaxVer), ans : Partial(Fact), got : Partial(Fact), made : Partial(Version),
     listed : SUBSET Name, todo : Seq({"meta", "dir"} \X Path)]

HostTypes ==
    /\ now \in 0 .. MaxTime /\ changes \in 0 .. MaxChanges
    /\ node \in [Name -> Fact] /\ retired \in [Name -> [Version -> 0 .. MaxTime]]
    /\ inval \subseteq [path : Name, ver : Version]
    /\ metaFloor \in [Name -> 0 .. MaxVer] /\ listFloor \in [Name -> 0 .. MaxVer]

CacheTypes ==
    /\ meta \in [Name -> Slot] /\ neg \in [Name -> Slot]
    /\ dir \in [Dir -> [facts : Partial(Fact), at : -1 .. MaxTime]]

OpTypes == op \in [Worker -> OpState]

\* A full map sheds before it takes an entry.
Within ==
    /\ Cardinality(Entries(meta)) <= MetaMax /\ Cardinality(Entries(neg)) <= NegMax
    /\ Cardinality(Listed) <= DirMax

\* Version v of p was the current one at time when, or later.
Recent(p, v, when) == v <= node[p].ver /\ (v < node[p].ver => retired[p][v] >= when)

\* An entry was current when the answer it comes from was given, at most Latency before it was
\* stored.
Stored ==
    /\ \A p \in Name : meta[p].ver # 0 => meta[p].at <= now /\ Recent(p, meta[p].ver, meta[p].at - Latency)
    /\ \A p \in Name : neg[p].ver # 0 => neg[p].at <= now /\ Recent(p, neg[p].ver, neg[p].at - Latency)
    /\ \A d \in Dir : /\ dir[d].at <= now
                      /\ \A p \in DOMAIN dir[d].facts :
                            p \in Children(d) /\ Recent(p, dir[d].facts[p].ver, dir[d].at - Latency)

\* The same of an answer on its way; and what is replied is not older than it may be.
Timed(t) ==
    /\ op[t].start <= now /\ op[t].since <= now
    /\ op[t].pc \in {"store", "dirstore", "seed"} =>
          op[t].start <= op[t].since /\ now <= op[t].since + Latency
    /\ \A p \in DOMAIN op[t].ans : Recent(p, op[t].ans[p].ver, op[t].since)
    /\ op[t].pc = "seed" => \A p \in DOMAIN op[t].got : Recent(p, op[t].got[p].ver, op[t].since)
    /\ op[t].pc = "reply" =>
          \A p \in DOMAIN op[t].got : Recent(p, op[t].got[p].ver, op[t].start - Age(t, p))

\* The paths of a lookup.
Shaped(t) ==
    /\ op[t].pc \in {"meta", "neg", "ask", "store"} => op[t].path \in Name /\ DOMAIN op[t].floor = {op[t].path}
    /\ op[t].pc = "store" => DOMAIN op[t].ans = {op[t].path}
    /\ op[t].pc \in {"dir", "list", "dirstore", "seed"} =>
          op[t].path \in Dir /\ DOMAIN op[t].floor = Children(op[t].path)
    /\ op[t].pc \in {"dirstore", "seed"} => DOMAIN op[t].ans \subseteq Children(op[t].path)
    /\ op[t].pc = "seed" => DOMAIN op[t].got \subseteq Children(op[t].path)

\* What a floor says is known is not undone: neither by what is cached, nor by what is on its way
\* to a cache.
Known ==
    /\ \A p \in Name : listFloor[p] <= metaFloor[p] /\ metaFloor[p] <= node[p].ver
    /\ \A p \in Name : meta[p].ver # 0 => meta[p].ver >= metaFloor[p]
    /\ \A p \in Name : neg[p].ver # 0 => neg[p].ver >= metaFloor[p]
    /\ \A d \in Dir : \A p \in DOMAIN dir[d].facts : dir[d].facts[p].ver >= listFloor[p]

Floored(t) ==
    /\ \A p \in DOMAIN op[t].ans : op[t].ans[p].ver >= metaFloor[p]
    /\ op[t].pc \in {"meta", "neg", "ask", "store"} =>
          \A p \in DOMAIN op[t].floor : op[t].floor[p] <= metaFloor[p]
    /\ op[t].pc \in {"dir", "list", "dirstore", "seed"} =>
          \A p \in DOMAIN op[t].floor : op[t].floor[p] <= listFloor[p]
    /\ op[t].pc \in {"seed", "reply"} => \A p \in DOMAIN op[t].got : op[t].got[p].ver >= op[t].floor[p]

\* What a thread has still to erase.
Todo(u) == {op[u].todo[i] : i \in DOMAIN op[u].todo}

\* What a mutation or a notification will make known is true at the host, and what has been erased
\* for it is not stored any more.
Erasing(u) ==
    /\ op[u].pc = "erase" => op[u].todo # <<>>
    /\ \A p \in DOMAIN op[u].made :
          /\ op[u].made[p] <= node[p].ver
          /\ op[u].pc = "applied" =>
                <<"meta", p>> \in Todo(u) /\ (p \in op[u].listed => <<"dir", parent_of(p)>> \in Todo(u))
          /\ op[u].pc = "erase" =>
                /\ \A t \in Thread : p \in DOMAIN op[t].ans => op[t].ans[p].ver >= op[u].made[p]
                /\ <<"meta", p>> \in Todo(u) \/ /\ meta[p].ver # 0 => meta[p].ver >= op[u].made[p]
                                                /\ neg[p].ver # 0 => neg[p].ver >= op[u].made[p]
                /\ p \in op[u].listed =>
                      \/ <<"dir", parent_of(p)>> \in Todo(u)
                      \/ \A d \in Dir : p \in DOMAIN dir[d].facts => dir[d].facts[p].ver >= op[u].made[p]

\* A notification under way tells of what has happened.
Announced == \A msg \in inval : msg.ver <= node[msg.path].ver

NameInv ==
    /\ HostTypes /\ CacheTypes /\ OpTypes /\ Within
    /\ Stored /\ Known /\ Announced
    /\ \A t \in Thread : Timed(t) /\ Shaped(t) /\ Floored(t)
    /\ \A u \in Worker : Erasing(u)

-----------------------------------------------------------------------------
(* Constants, paths and types.                                             *)

LEMMA Numbers ==
    /\ MaxVer \in Nat /\ MaxVer > 0 /\ MaxTime \in Nat /\ MaxChanges \in Nat /\ Latency \in Nat
    /\ MetaTtl \in Nat /\ NegTtl \in Nat /\ DirTtl \in Nat
    /\ MetaMax \in Nat /\ MetaMax > 0 /\ NegMax \in Nat /\ NegMax > 0 /\ DirMax \in Nat /\ DirMax > 0
    /\ IsFiniteSet(Name) /\ <<>> \in Dir /\ Dir \subseteq Name \cup {<<>>} /\ Thread \cap Notifier = {}
BY NameCacheAssumption

LEMMA Shorter ==
    ASSUME NEW p \in Seq(STRING), NEW n \in Int, n = Len(p) - 1, n >= 0
    PROVE  SubSeq(p, 1, n) \in Seq(STRING) /\ Len(SubSeq(p, 1, n)) = n
OBVIOUS

LEMMA Paths ==
    /\ <<>> \in Path
    /\ \A p \in Name : p \in Path /\ p # <<>> /\ parent_of(p) \in Path /\ parent_of(p) # p
    /\ \A d : Children(d) \subseteq Name /\ d \notin Children(d)
    /\ \A d, p : p \in Children(d) => parent_of(p) = d
<1>1. <<>> \in Path
    BY DEF Path
<1>2. ASSUME NEW p \in Name
      PROVE  p \in Path /\ p # <<>> /\ parent_of(p) \in Path /\ parent_of(p) # p
    <2>1. p \in Seq(STRING) /\ p # <<>>
        BY NameCacheAssumption
    <2>2. PICK n \in Int : n = Len(p) - 1 /\ n >= 0
        BY <2>1
    <2>3. SubSeq(p, 1, n) \in Seq(STRING) /\ Len(SubSeq(p, 1, n)) = n
        BY <2>1, <2>2, Shorter
    <2> QED
        BY <2>1, <2>2, <2>3 DEF Path, parent_of
<1>3. \A d : Children(d) \subseteq Name /\ d \notin Children(d)
    BY <1>2 DEF Children
<1>4. \A d, p : p \in Children(d) => parent_of(p) = d
    BY DEF Children
<1> QED
    BY <1>1, <1>2, <1>3, <1>4

LEMMA Partials ==
    ASSUME NEW S, NEW f
    PROVE  f \in Partial(S) <=> DOMAIN f \subseteq Name /\ f \in [DOMAIN f -> S]
<1>1. ASSUME f \in Partial(S) PROVE DOMAIN f \subseteq Name /\ f \in [DOMAIN f -> S]
    <2>1. PICK D \in SUBSET Name : f \in [D -> S]
        BY <1>1 DEF Partial
    <2> QED
        BY <2>1
<1>2. ASSUME DOMAIN f \subseteq Name, f \in [DOMAIN f -> S] PROVE f \in Partial(S)
    BY <1>2 DEF Partial
<1> QED
    BY <1>1, <1>2

\* The values of the partial functions.
LEMMA Facts ==
    /\ \A f \in Partial(Fact) : DOMAIN f \subseteq Name /\ \A p \in DOMAIN f : f[p] \in Fact
    /\ \A f \in Partial(Version) : DOMAIN f \subseteq Name /\ \A p \in DOMAIN f : f[p] \in Version
    /\ \A f \in Partial(0 .. MaxVer) : DOMAIN f \subseteq Name /\ \A p \in DOMAIN f : f[p] \in 0 .. MaxVer
BY Partials

LEMMA Nothing ==
    /\ NoFacts \in Partial(Fact) /\ NoFacts \in Partial(Version) /\ NoFacts \in Partial(0 .. MaxVer)
    /\ DOMAIN NoFacts = {}
<1>1. DOMAIN NoFacts = {}
    BY DEF NoFacts
<1>2. ASSUME NEW S PROVE NoFacts \in [DOMAIN NoFacts -> S]
    BY DEF NoFacts
<1> QED
    BY <1>1, <1>2, Partials

LEMMA NoTodo ==
    <<>> \in Seq({"meta", "dir"} \X Path) /\ DOMAIN <<>> = {}
OBVIOUS

LEMMA IdleTyped ==
    /\ Idle \in OpState
    /\ Idle.pc = "idle" /\ Idle.start = 0 /\ Idle.since = 0 /\ Idle.ans = NoFacts /\ Idle.made = NoFacts
    /\ Idle.got = NoFacts /\ Idle.floor = NoFacts /\ Idle.todo = <<>>
BY Nothing, NoTodo, Numbers DEF Idle, OpState

\* A version is a number, and so is a time.
LEMMA Versions ==
    /\ \A v \in Version : v \in Nat /\ v # 0
    /\ \A f \in Fact : f.ver \in Version /\ f.here \in BOOLEAN
    /\ \A e \in Slot : e.ver \in Nat /\ e.at \in Nat /\ (e.ver # 0 => e.ver \in Version)
BY Numbers DEF Version, Fact, Slot

LEMMA OpIs ==
    ASSUME OpTypes, NEW t \in Worker
    PROVE  /\ op[t] \in OpState
           /\ op[t].path \in Name \cup {<<>>} /\ op[t].start \in 0 .. MaxTime /\ op[t].since \in 0 .. MaxTime
           /\ op[t].floor \in Partial(0 .. MaxVer) /\ op[t].ans \in Partial(Fact)
           /\ op[t].got \in Partial(Fact) /\ op[t].made \in Partial(Version)
           /\ op[t].listed \in SUBSET Name /\ op[t].todo \in Seq({"meta", "dir"} \X Path)
BY DEF OpTypes, OpState

-----------------------------------------------------------------------------
(* A lookup that takes a step.                                             *)

\* What the steps of a lookup do to the caches: an entry stays, goes, or is replaced by what the
\* thread was answered.
Answered(t) == op[t].pc \in {"store", "dirstore", "seed"}

MetaStep(t) ==
    \A p \in Name : \/ meta'[p] = meta[p] \/ meta'[p] = None
                    \/ Answered(t) /\ p \in DOMAIN op[t].ans /\ meta'[p] = [ver |-> op[t].ans[p].ver, at |-> now]
NegStep(t) ==
    \A p \in Name : \/ neg'[p] = neg[p] \/ neg'[p] = None
                    \/ Answered(t) /\ p \in DOMAIN op[t].ans /\ neg'[p] = [ver |-> op[t].ans[p].ver, at |-> now]
DirStep(t) ==
    \A d \in Dir : \/ dir'[d] = dir[d] \/ dir'[d] = NoList
                   \/ /\ Answered(t) /\ DOMAIN op[t].ans \subseteq Children(d)
                      /\ dir'[d] = [facts |-> op[t].ans, at |-> now]

LEMMA Lists == NoList.at = -1 /\ DOMAIN NoList.facts = {}
BY DEF NoList, NoFacts

\* An answer that is stored now was given at most Latency ago.
LEMMA AnswerServes ==
    ASSUME NameInv, NEW t \in Thread, Answered(t), NEW p \in DOMAIN op[t].ans
    PROVE  /\ Recent(p, op[t].ans[p].ver, now - Latency) /\ op[t].ans[p].ver >= metaFloor[p]
           /\ op[t].ans[p].ver >= listFloor[p] /\ p \in Name /\ op[t].ans[p].ver \in Version
<1>1. t \in Worker
    BY DEF Worker
<1>2. op[t].since \in Nat /\ now \in Nat /\ Latency \in Nat
    BY <1>1, OpIs, Numbers DEF NameInv, HostTypes
<1>3. p \in Name /\ op[t].ans[p].ver \in Version
    BY <1>1, OpIs, Facts, Versions DEF NameInv
<1>4. now - Latency <= op[t].since
    BY <1>2 DEF NameInv, Timed, Answered
<1>5. Recent(p, op[t].ans[p].ver, op[t].since)
    BY DEF NameInv, Timed
<1>6. retired[p][op[t].ans[p].ver] \in Nat
    BY <1>3 DEF NameInv, HostTypes
<1>7. Recent(p, op[t].ans[p].ver, now - Latency)
    BY <1>2, <1>4, <1>5, <1>6 DEF Recent
<1>8. op[t].ans[p].ver >= metaFloor[p] /\ listFloor[p] <= metaFloor[p]
    BY <1>3 DEF NameInv, Floored, Known
<1>9. metaFloor[p] \in Nat /\ listFloor[p] \in Nat /\ op[t].ans[p].ver \in Nat
    BY <1>3, Numbers, Versions DEF NameInv, HostTypes
<1> QED
    BY <1>3, <1>7, <1>8, <1>9

LEMMA CachesKept ==
    ASSUME NameInv, NEW t \in Thread, MetaStep(t), NegStep(t), DirStep(t), UNCHANGED <<now, hostVars, floors>>
    PROVE  Stored' /\ Known'
<1>1. /\ UNCHANGED <<now, node, retired, metaFloor, listFloor>> /\ now \in Nat /\ Latency \in Nat
      /\ meta \in [Name -> Slot] /\ neg \in [Name -> Slot]
      /\ None.ver = 0
    BY Numbers DEF hostVars, floors, NameInv, HostTypes, CacheTypes, None
<1>2. \A p \in Name : meta'[p].ver # 0 =>
          /\ meta'[p].at <= now /\ Recent(p, meta'[p].ver, meta'[p].at - Latency)
          /\ meta'[p].ver >= metaFloor[p]
    <2> SUFFICES ASSUME NEW p \in Name, meta'[p].ver # 0
                 PROVE  /\ meta'[p].at <= now /\ Recent(p, meta'[p].ver, meta'[p].at - Latency)
                        /\ meta'[p].ver >= metaFloor[p]
        OBVIOUS
    <2>1. CASE meta'[p] = meta[p]
        BY <2>1 DEF NameInv, Stored, Known
    <2>2. CASE Answered(t) /\ p \in DOMAIN op[t].ans /\ meta'[p] = [ver |-> op[t].ans[p].ver, at |-> now]
        <3>1. meta'[p].ver = op[t].ans[p].ver /\ meta'[p].at = now
            BY <2>2
        <3> QED
            BY <1>1, <2>2, <3>1, AnswerServes
    <2> QED
        BY <1>1, <2>1, <2>2 DEF MetaStep
<1>3. \A p \in Name : neg'[p].ver # 0 =>
          /\ neg'[p].at <= now /\ Recent(p, neg'[p].ver, neg'[p].at - Latency)
          /\ neg'[p].ver >= metaFloor[p]
    <2> SUFFICES ASSUME NEW p \in Name, neg'[p].ver # 0
                 PROVE  /\ neg'[p].at <= now /\ Recent(p, neg'[p].ver, neg'[p].at - Latency)
                        /\ neg'[p].ver >= metaFloor[p]
        OBVIOUS
    <2>1. CASE neg'[p] = neg[p]
        BY <2>1 DEF NameInv, Stored, Known
    <2>2. CASE Answered(t) /\ p \in DOMAIN op[t].ans /\ neg'[p] = [ver |-> op[t].ans[p].ver, at |-> now]
        <3>1. neg'[p].ver = op[t].ans[p].ver /\ neg'[p].at = now
            BY <2>2
        <3> QED
            BY <1>1, <2>2, <3>1, AnswerServes
    <2> QED
        BY <1>1, <2>1, <2>2 DEF NegStep
<1>4. ASSUME NEW d \in Dir
      PROVE  /\ dir'[d].at <= now
             /\ \A p \in DOMAIN dir'[d].facts :
                   /\ p \in Children(d) /\ Recent(p, dir'[d].facts[p].ver, dir'[d].at - Latency)
                   /\ dir'[d].facts[p].ver >= listFloor[p]
    <2>1. CASE dir'[d] = dir[d]
        BY <2>1 DEF NameInv, Stored, Known
    <2>2. CASE dir'[d] = NoList
        BY <1>1, <2>2, Lists
    <2>3. CASE /\ Answered(t) /\ DOMAIN op[t].ans \subseteq Children(d)
               /\ dir'[d] = [facts |-> op[t].ans, at |-> now]
        <3>1. dir'[d].facts = op[t].ans /\ dir'[d].at = now
            BY <2>3
        <3> QED
            BY <1>1, <2>3, <3>1, AnswerServes
    <2> QED
        BY <2>1, <2>2, <2>3 DEF DirStep
<1>5. Stored'
    <2>1. \A p, v, w : Recent(p, v, w)' <=> Recent(p, v, w)
        BY <1>1 DEF Recent
    <2> QED
        BY <1>1, <1>2, <1>3, <1>4, <2>1 DEF Stored, Recent
<1>6. Known'
    BY <1>1, <1>2, <1>3, <1>4 DEF NameInv, Known
<1> QED
    BY <1>5, <1>6


\* What a thread is answered now is at least what the host has told anybody.
LEMMA OthersErase ==
    ASSUME NameInv, NEW t \in Thread, MetaStep(t), NegStep(t), DirStep(t), OpTypes', UNCHANGED node,
           \A u \in Worker \ {t} : op'[u] = op[u],
           \A p \in DOMAIN op'[t].ans :
               \/ op'[t].ans[p].ver >= node[p].ver
               \/ p \in DOMAIN op[t].ans /\ op'[t].ans[p] = op[t].ans[p]
    PROVE  \A u \in Worker \ {t} : Erasing(u)'
<1> SUFFICES ASSUME NEW u \in Worker \ {t} PROVE Erasing(u)'
    OBVIOUS
<1>1. Erasing(u) /\ op'[u] = op[u] /\ Todo(u)' = Todo(u)
    BY DEF NameInv, Todo
<1>2. \A r \in Thread : r \in Worker
    BY DEF Worker
<1>3. ASSUME NEW p \in DOMAIN op[u].made
      PROVE  p \in Name /\ op[u].made[p] \in Nat /\ op[u].made[p] <= node[p].ver /\ node[p].ver \in Nat
    <2>1. p \in Name /\ op[u].made[p] \in Version
        BY OpIs, Facts DEF NameInv
    <2>2. node[p].ver \in Nat
        BY <2>1, Versions DEF NameInv, HostTypes
    <2> QED
        BY <1>1, <2>1, <2>2, Versions DEF Erasing
<1>4. ASSUME NEW p \in DOMAIN op[u].made, op[u].pc = "erase"
      PROVE  \A r \in Thread : p \in DOMAIN op'[r].ans => op'[r].ans[p].ver >= op[u].made[p]
    <2> SUFFICES ASSUME NEW r \in Thread, p \in DOMAIN op'[r].ans
                 PROVE  op'[r].ans[p].ver >= op[u].made[p]
        OBVIOUS
    <2>1. p \in DOMAIN op[r].ans => op[r].ans[p].ver >= op[u].made[p]
        BY <1>1, <1>4 DEF Erasing
    <2>2. CASE r # t
        BY <1>2, <2>1, <2>2
    <2>3. CASE r = t
        <3>1. op'[t].ans \in Partial(Fact)
            BY <1>2 DEF OpTypes, OpState
        <3>2. op'[t].ans[p].ver \in Nat
            BY <2>3, <3>1, Facts, Versions
        <3> QED
            BY <1>3, <2>1, <2>3, <3>2
    <2> QED
        BY <2>2, <2>3
<1>5. ASSUME NEW p \in DOMAIN op[u].made, op[u].pc = "erase"
      PROVE  <<"meta", p>> \in Todo(u) \/ /\ meta'[p].ver # 0 => meta'[p].ver >= op[u].made[p]
                                          /\ neg'[p].ver # 0 => neg'[p].ver >= op[u].made[p]
    <2> SUFFICES ASSUME <<"meta", p>> \notin Todo(u)
                 PROVE  /\ meta'[p].ver # 0 => meta'[p].ver >= op[u].made[p]
                        /\ neg'[p].ver # 0 => neg'[p].ver >= op[u].made[p]
        OBVIOUS
    <2>1. /\ meta[p].ver # 0 => meta[p].ver >= op[u].made[p]
          /\ neg[p].ver # 0 => neg[p].ver >= op[u].made[p]
          /\ p \in DOMAIN op[t].ans => op[t].ans[p].ver >= op[u].made[p]
        BY <1>1, <1>5 DEF Erasing
    <2>2. p \in Name /\ None.ver = 0
        BY <1>3 DEF None
    <2>3. \/ meta'[p] = meta[p] \/ meta'[p] = None
          \/ p \in DOMAIN op[t].ans /\ meta'[p] = [ver |-> op[t].ans[p].ver, at |-> now]
        BY <2>2 DEF MetaStep
    <2>4. \/ neg'[p] = neg[p] \/ neg'[p] = None
          \/ p \in DOMAIN op[t].ans /\ neg'[p] = [ver |-> op[t].ans[p].ver, at |-> now]
        BY <2>2 DEF NegStep
    <2>5. meta'[p].ver # 0 => meta'[p].ver >= op[u].made[p]
        BY <2>1, <2>2, <2>3
    <2>6. neg'[p].ver # 0 => neg'[p].ver >= op[u].made[p]
        BY <2>1, <2>2, <2>4
    <2> QED
        BY <2>5, <2>6
<1>6. ASSUME NEW p \in DOMAIN op[u].made, op[u].pc = "erase", p \in op[u].listed
      PROVE  \/ <<"dir", parent_of(p)>> \in Todo(u)
             \/ \A d \in Dir : p \in DOMAIN dir'[d].facts => dir'[d].facts[p].ver >= op[u].made[p]
    <2> SUFFICES ASSUME <<"dir", parent_of(p)>> \notin Todo(u), NEW d \in Dir, p \in DOMAIN dir'[d].facts
                 PROVE  dir'[d].facts[p].ver >= op[u].made[p]
        OBVIOUS
    <2>1. /\ p \in DOMAIN dir[d].facts => dir[d].facts[p].ver >= op[u].made[p]
          /\ p \in DOMAIN op[t].ans => op[t].ans[p].ver >= op[u].made[p]
        BY <1>1, <1>6 DEF Erasing
    <2>2. \/ dir'[d] = dir[d] \/ dir'[d] = NoList
          \/ dir'[d] = [facts |-> op[t].ans, at |-> now]
        BY DEF DirStep
    <2> QED
        BY <2>1, <2>2, Lists
<1>7. ASSUME NEW p \in DOMAIN op[u].made
      PROVE  op'[u].made[p] <= node'[p].ver
    BY <1>1, <1>3
<1> QED
    BY <1>1, <1>4, <1>5, <1>6, <1>7 DEF Erasing

\* A thread that does nothing stays as it was.
LEMMA TimedStays ==
    ASSUME NEW u, op'[u] = op[u], UNCHANGED <<now, node, retired>>, Timed(u)
    PROVE  Timed(u)'
<1>1. \A p : Age(u, p)' = Age(u, p)
    BY DEF Age
<1>2. \A p, v, w : Recent(p, v, w)' <=> Recent(p, v, w)
    BY DEF Recent
<1>3. /\ \A p \in DOMAIN op[u].ans : Recent(p, op[u].ans[p].ver, op[u].since)
      /\ op[u].pc = "seed" => \A p \in DOMAIN op[u].got : Recent(p, op[u].got[p].ver, op[u].since)
      /\ op[u].pc = "reply" => \A p \in DOMAIN op[u].got : Recent(p, op[u].got[p].ver, op[u].start - Age(u, p))
    BY DEF Timed
<1>4. /\ \A p \in DOMAIN op[u].ans : Recent(p, op[u].ans[p].ver, op[u].since)'
      /\ op[u].pc = "seed" => \A p \in DOMAIN op[u].got : Recent(p, op[u].got[p].ver, op[u].since)'
    BY <1>2, <1>3 DEF Recent
<1>5. ASSUME op[u].pc = "reply", NEW p \in DOMAIN op[u].got
      PROVE  Recent(p, op[u].got[p].ver, op[u].start - Age(u, p))'
    BY <1>1, <1>2, <1>3, <1>5 DEF Recent
<1>6. /\ op[u].start <= now /\ op[u].since <= now
      /\ op[u].pc \in {"store", "dirstore", "seed"} =>
            op[u].start <= op[u].since /\ now <= op[u].since + Latency
    BY DEF Timed
<1> QED
    BY <1>4, <1>5, <1>6 DEF Timed

\* A step of a lookup keeps the invariant when its own thread and the caches are as they should.
LEMMA LookupKeepsInv ==
    ASSUME NameInv, NEW t \in Thread, MetaStep(t), NegStep(t), DirStep(t),
           UNCHANGED <<now, hostVars, floors>>,
           CacheTypes', OpTypes', Within',
           \A u \in Worker \ {t} : op'[u] = op[u],
           \A p \in DOMAIN op'[t].ans :
               \/ op'[t].ans[p].ver >= node[p].ver
               \/ p \in DOMAIN op[t].ans /\ op'[t].ans[p] = op[t].ans[p],
           op'[t].pc \notin {"applied", "erase"},
           op'[t].made \in {op[t].made, NoFacts},
           Timed(t)', Shaped(t)', Floored(t)'
    PROVE  NameInv'
<1>1. /\ UNCHANGED <<now, node, retired, inval, changes, metaFloor, listFloor>> /\ t \in Worker
    BY DEF hostVars, floors, Worker
<1>2. HostTypes' /\ Announced'
    BY <1>1 DEF NameInv, HostTypes, Announced
<1>3. Stored' /\ Known'
    BY CachesKept
<1>4. ASSUME NEW u \in Thread \ {t}
      PROVE  Timed(u)' /\ Shaped(u)' /\ Floored(u)'
    <2>1. op'[u] = op[u] /\ Timed(u) /\ Shaped(u) /\ Floored(u)
        BY DEF NameInv, Worker
    <2>2. Timed(u)'
        BY <1>1, <2>1, TimedStays
    <2>3. Shaped(u)'
        BY <2>1 DEF Shaped
    <2>4. Floored(u)'
        BY <1>1, <2>1 DEF Floored
    <2> QED
        BY <2>2, <2>3, <2>4
<1>5. \A u \in Worker \ {t} : Erasing(u)'
    BY <1>1, OthersErase
<1>6. Erasing(t)'
    BY <1>1, Nothing DEF NameInv, Erasing
<1> QED
    BY <1>2, <1>3, <1>4, <1>5, <1>6 DEF NameInv

-----------------------------------------------------------------------------
(* The caches stay within their limits.                                    *)

\* A map that is trimmed has room for one more.
LEMMA TrimFits ==
    ASSUME NEW E, IsFiniteSet(E), NEW max \in Nat, max > 0, NEW kept \in Trims(E, max), NEW p,
           NEW F \in SUBSET (kept \cup {p})
    PROVE  Cardinality(F) <= max
<1>1. kept \subseteq E
    BY DEF Trims
<1>2. IsFiniteSet(kept) /\ Cardinality(kept) \in Nat /\ Cardinality(E) \in Nat
    BY <1>1, FS_Subset, FS_CardinalityType
<1>3. Cardinality(kept) < max
    <2>1. CASE Cardinality(E) >= max
        <3>1. Cardinality(kept) = max \div 2
            BY <2>1 DEF Trims
        <3>2. max \div 2 < max
            OBVIOUS
        <3> QED
            BY <3>1, <3>2
    <2>2. CASE ~(Cardinality(E) >= max)
        <3>1. kept = E
            BY <2>2 DEF Trims
        <3> QED
            BY <1>2, <2>2, <3>1
    <2> QED
        BY <2>1, <2>2
<1>4. IsFiniteSet(kept \cup {p}) /\ Cardinality(kept \cup {p}) <= Cardinality(kept) + 1
    <2>1. /\ IsFiniteSet(kept \cup {p})
          /\ Cardinality(kept \cup {p}) = IF p \in kept THEN Cardinality(kept) ELSE Cardinality(kept) + 1
        BY <1>2, FS_AddElement
    <2> QED
        BY <1>2, <2>1
<1>5. Cardinality(kept \cup {p}) \in Nat /\ Cardinality(F) \in Nat
      /\ Cardinality(F) <= Cardinality(kept \cup {p})
    BY <1>4, FS_Subset, FS_CardinalityType
<1> QED
    BY <1>2, <1>3, <1>4, <1>5

LEMMA AllFinite ==
    /\ \A m : Entries(m) \subseteq Name /\ IsFiniteSet(Entries(m)) /\ Cardinality(Entries(m)) \in Nat
    /\ IsFiniteSet(Listed) /\ Cardinality(Listed) \in Nat
<1>1. IsFiniteSet(Name \cup {<<>>})
    BY Numbers, FS_AddElement
<1>2. IsFiniteSet(Dir)
    BY <1>1, Numbers, FS_Subset
<1>3. Listed \subseteq Dir /\ \A m : Entries(m) \subseteq Name
    BY DEF Entries, Listed
<1> QED
    BY <1>2, <1>3, Numbers, FS_Subset, FS_CardinalityType

LEMMA FewerEntries ==
    ASSUME NEW m, NEW n, \A p \in Name : n[p] = m[p] \/ n[p] = None
    PROVE  Cardinality(Entries(n)) <= Cardinality(Entries(m))
<1>1. Entries(n) \subseteq Entries(m)
    BY DEF Entries
<1> QED
    BY <1>1, AllFinite, FS_Subset

LEMMA MoreEntries ==
    ASSUME NEW m, NEW n, NEW max \in Nat, max > 0, NEW kept \in Trims(Entries(m), max), NEW p,
           \A q \in Name : q = p \/ q \in kept \/ n[q] = None
    PROVE  Cardinality(Entries(n)) <= max
<1>1. Entries(n) \subseteq kept \cup {p}
    BY DEF Entries
<1> QED
    BY <1>1, AllFinite, TrimFits

LEMMA FewerListed ==
    ASSUME \A d \in Dir : dir'[d] = dir[d] \/ dir'[d] = NoList
    PROVE  Cardinality(Listed') <= Cardinality(Listed) /\ Cardinality(Listed') \in Nat
<1>1. Listed' \subseteq Listed
    BY DEF Listed
<1> QED
    BY <1>1, AllFinite, FS_Subset, FS_CardinalityType

LEMMA MoreListed ==
    ASSUME NEW kept \in Trims(Listed, DirMax), NEW e,
           \A d \in Dir : d = e \/ d \in kept \/ dir'[d] = NoList
    PROVE  Cardinality(Listed') <= DirMax
<1>1. Listed' \subseteq kept \cup {e}
    BY DEF Listed
<1> QED
    BY <1>1, AllFinite, TrimFits, Numbers

-----------------------------------------------------------------------------
(* The initial states.                                                     *)

LEMMA InitHolds == Init => NameInv
<1> SUFFICES ASSUME Init PROVE NameInv
    OBVIOUS
<1>1. PICK there \in SUBSET Name : node = [p \in Name |-> [ver |-> 1, here |-> p \in there]]
    BY DEF Init
<1>2. /\ now = 0 /\ changes = 0 /\ retired = [p \in Name |-> [v \in Version |-> 0]] /\ inval = {}
      /\ meta = [p \in Name |-> None] /\ neg = [p \in Name |-> None] /\ dir = [d \in Dir |-> NoList]
      /\ metaFloor = [p \in Name |-> 0] /\ listFloor = [p \in Name |-> 0] /\ op = [t \in Worker |-> Idle]
    BY DEF Init
<1>3. node \in [Name -> Fact] /\ \A p \in Name : node[p].ver = 1
    BY <1>1, Numbers DEF Fact, Version
<1>4. HostTypes
    BY <1>2, <1>3, Numbers DEF HostTypes
<1>5. None \in Slot /\ None.ver = 0 /\ NoList \in [facts : Partial(Fact), at : -1 .. MaxTime]
    BY Nothing, Numbers DEF None, Slot, NoList
<1>6. CacheTypes
    BY <1>2, <1>5 DEF CacheTypes
<1>7. OpTypes
    BY <1>2, IdleTyped DEF OpTypes
<1>8. Within
    <2>1. Entries(meta) = {} /\ Entries(neg) = {} /\ Listed = {}
        BY <1>2 DEF Entries, Listed
    <2> QED
        BY <2>1, FS_EmptySet, Numbers DEF Within
<1>9. Stored
    BY <1>2, <1>5, Lists DEF Stored
<1>10. Known
    BY <1>2, <1>3, <1>5, Lists DEF Known
<1>11. Announced
    BY <1>2 DEF Announced
<1>12. ASSUME NEW u \in Worker
       PROVE  op[u] = Idle /\ Erasing(u)
    BY <1>2, IdleTyped, Nothing DEF Erasing
<1>13. ASSUME NEW t \in Thread
       PROVE  Timed(t) /\ Shaped(t) /\ Floored(t)
    <2>1. op[t] = Idle
        BY <1>12 DEF Worker
    <2>2. Timed(t)
        BY <1>2, <2>1, IdleTyped, Nothing DEF Timed
    <2>3. Shaped(t)
        BY <2>1, IdleTyped DEF Shaped
    <2>4. Floored(t)
        BY <2>1, IdleTyped, Nothing DEF Floored
    <2> QED
        BY <2>2, <2>3, <2>4
<1> QED
    BY <1>4, <1>6, <1>7, <1>8, <1>9, <1>10, <1>11, <1>12, <1>13 DEF NameInv

-----------------------------------------------------------------------------
(* The steps of a lookup.                                                  *)

LEMMA OpStep ==
    ASSUME OpTypes, NEW t \in Worker, NEW r \in OpState, op' = [op EXCEPT ![t] = r]
    PROVE  OpTypes' /\ op'[t] = r /\ \A u \in Worker \ {t} : op'[u] = op[u]
BY DEF OpTypes

LEMMA CachesStay ==
    ASSUME NameInv, UNCHANGED caches, NEW t
    PROVE  MetaStep(t) /\ NegStep(t) /\ DirStep(t) /\ CacheTypes' /\ Within'
<1>1. meta' = meta /\ neg' = neg /\ dir' = dir
    BY DEF caches
<1>2. MetaStep(t) /\ NegStep(t) /\ DirStep(t)
    BY <1>1 DEF MetaStep, NegStep, DirStep
<1>3. CacheTypes'
    BY <1>1 DEF NameInv, CacheTypes
<1>4. Within'
    BY <1>1 DEF NameInv, Within, Entries, Listed
<1> QED
    BY <1>2, <1>3, <1>4

\* A thread that is idle owes nothing.
LEMMA IdleIsWell ==
    ASSUME NEW t, op'[t] = Idle, UNCHANGED now, now \in Nat
    PROVE  Timed(t)' /\ Shaped(t)' /\ Floored(t)' /\ Erasing(t)'
<1>1. Timed(t)'
    BY IdleTyped, Nothing DEF Timed
<1>2. Shaped(t)'
    BY IdleTyped DEF Shaped
<1>3. Floored(t)'
    BY IdleTyped, Nothing DEF Floored
<1>4. Erasing(t)'
    BY IdleTyped, Nothing DEF Erasing
<1> QED
    BY <1>1, <1>2, <1>3, <1>4

\* The step that ends a lookup.
LEMMA EndsLookup ==
    ASSUME NameInv, NEW t \in Thread, op' = [op EXCEPT ![t] = Idle], UNCHANGED <<now, hostVars, caches, floors>>
    PROVE  NameInv'
<1>1. OpTypes' /\ op'[t] = Idle /\ \A u \in Worker \ {t} : op'[u] = op[u]
    BY IdleTyped, OpStep DEF NameInv, Worker
<1>2. Timed(t)' /\ Shaped(t)' /\ Floored(t)'
    BY <1>1, IdleIsWell DEF NameInv, HostTypes
<1>3. MetaStep(t) /\ NegStep(t) /\ DirStep(t) /\ CacheTypes' /\ Within'
    BY CachesStay
<1>4. DOMAIN op'[t].ans = {} /\ op'[t].pc = "idle" /\ op'[t].made = NoFacts
    BY <1>1, IdleTyped, Nothing
<1> QED
    BY <1>1, <1>2, <1>3, <1>4, LookupKeepsInv

\* The floor of a lookup is what is known of its paths when it starts.
LEMMA Floors ==
    ASSUME NameInv, NEW S \in SUBSET Name
    PROVE  [q \in S |-> metaFloor[q]] \in Partial(0 .. MaxVer) /\ [q \in S |-> listFloor[q]] \in Partial(0 .. MaxVer)
BY Partials DEF NameInv, HostTypes

LEMMA StartsGetattr ==
    ASSUME NameInv, NEW t \in Thread, NEW p \in Name, StartGetattr(t, p)
    PROVE  NameInv'
<1> DEFINE f == [q \in {p} |-> metaFloor[q]]
           r == [Idle EXCEPT !.pc = "meta", !.path = p, !.start = now, !.floor = f]
<1>1. now \in 0 .. MaxTime /\ f \in Partial(0 .. MaxVer) /\ DOMAIN f = {p}
      /\ [q \in {p} |-> metaFloor[p]] = f /\ metaFloor[p] \in Nat
    <2>1. f \in Partial(0 .. MaxVer)
        BY Floors
    <2>2. now \in 0 .. MaxTime /\ metaFloor[p] \in Nat
        BY Numbers DEF NameInv, HostTypes
    <2> QED
        BY <2>1, <2>2
<1> HIDE DEF f
<1>2. /\ r \in OpState
      /\ r.pc = "meta" /\ r.path = p /\ r.start = now /\ r.since = 0 /\ r.floor = f
      /\ r.ans = NoFacts /\ r.got = NoFacts /\ r.made = NoFacts
    <2>1. p \in Name \cup {<<>>} /\ 0 \in 0 .. MaxTime
        BY Numbers
    <2> QED
        BY <1>1, <2>1, IdleTyped DEF OpState
<1>3. op' = [op EXCEPT ![t] = r] /\ UNCHANGED <<now, hostVars, caches, floors>>
    BY <1>1 DEF StartGetattr
<1> HIDE DEF r
<1>4. OpTypes' /\ op'[t] = r /\ \A u \in Worker \ {t} : op'[u] = op[u]
    BY <1>2, <1>3, OpStep DEF NameInv, Worker
<1>5. MetaStep(t) /\ NegStep(t) /\ DirStep(t) /\ CacheTypes' /\ Within'
    BY <1>3, CachesStay
<1>6. Timed(t)'
    BY <1>1, <1>2, <1>3, <1>4, Nothing DEF Timed
<1>7. Shaped(t)'
    BY <1>1, <1>2, <1>4 DEF Shaped
<1>8. Floored(t)'
    <2>1. f[p] = metaFloor[p] /\ UNCHANGED metaFloor
        BY <1>3 DEF f, floors
    <2> QED
        BY <1>1, <1>2, <1>4, <2>1, Nothing DEF Floored
<1> QED
    BY <1>2, <1>3, <1>4, <1>5, <1>6, <1>7, <1>8, Nothing, LookupKeepsInv

LEMMA StartsReaddir ==
    ASSUME NameInv, NEW t \in Thread, NEW d \in Dir, StartReaddir(t, d)
    PROVE  NameInv'
<1> DEFINE f == [q \in Children(d) |-> listFloor[q]]
           r == [Idle EXCEPT !.pc = "dir", !.path = d, !.start = now, !.floor = f]
<1>1. now \in 0 .. MaxTime /\ f \in Partial(0 .. MaxVer) /\ DOMAIN f = Children(d)
    BY Floors, Paths DEF NameInv, HostTypes
<1> HIDE DEF f
<1>2. /\ r \in OpState
      /\ r.pc = "dir" /\ r.path = d /\ r.start = now /\ r.since = 0 /\ r.floor = f
      /\ r.ans = NoFacts /\ r.got = NoFacts /\ r.made = NoFacts
    <2>1. d \in Name \cup {<<>>} /\ 0 \in 0 .. MaxTime
        BY Numbers
    <2> QED
        BY <1>1, <2>1, IdleTyped DEF OpState
<1>3. op' = [op EXCEPT ![t] = r] /\ UNCHANGED <<now, hostVars, caches, floors>>
    BY DEF StartReaddir, f
<1> HIDE DEF r
<1>4. OpTypes' /\ op'[t] = r /\ \A u \in Worker \ {t} : op'[u] = op[u]
    BY <1>2, <1>3, OpStep DEF NameInv, Worker
<1>5. MetaStep(t) /\ NegStep(t) /\ DirStep(t) /\ CacheTypes' /\ Within'
    BY <1>3, CachesStay
<1>6. Timed(t)'
    BY <1>1, <1>2, <1>3, <1>4, Nothing, Numbers DEF Timed
<1>7. Shaped(t)'
    BY <1>1, <1>2, <1>4 DEF Shaped
<1>8. Floored(t)'
    <2>1. \A q \in Children(d) : f[q] = listFloor[q] /\ listFloor[q] \in Nat
        BY Paths, Numbers DEF f, NameInv, HostTypes
    <2>2. UNCHANGED listFloor
        BY <1>3 DEF floors
    <2> QED
        BY <1>1, <1>2, <1>4, <2>1, <2>2, Nothing DEF Floored
<1> QED
    BY <1>2, <1>3, <1>4, <1>5, <1>6, <1>7, <1>8, Nothing, LookupKeepsInv

LEMMA RecentEarlier ==
    ASSUME HostTypes, NEW p \in Name, NEW v \in Version, NEW w \in Int, NEW u \in Int, u <= w, Recent(p, v, w)
    PROVE  Recent(p, v, u)
<1>1. retired[p][v] \in Nat
    BY DEF HostTypes
<1> QED
    BY <1>1 DEF Recent

\* The age an answer of these facts may have.
AgeOf(path, facts, p) ==
    Latency + IF path # p THEN DirTtl ELSE IF facts[p].here THEN MetaTtl ELSE NegTtl

\* A lookup has its answer.
LEMMA Replies ==
    ASSUME NameInv, NEW t \in Thread, NEW facts \in Partial(Fact), op' = [op EXCEPT ![t] = Replied(t, facts)],
           MetaStep(t), NegStep(t), DirStep(t), UNCHANGED <<now, hostVars, floors>>, CacheTypes', Within',
           \A p \in DOMAIN facts : /\ Recent(p, facts[p].ver, op[t].start - AgeOf(op[t].path, facts, p))
                                   /\ facts[p].ver >= op[t].floor[p]
    PROVE  NameInv'
<1> DEFINE r == Replied(t, facts)
<1>1. t \in Worker /\ op[t] \in OpState
    BY OpIs DEF NameInv, Worker
<1>2. /\ r \in OpState
      /\ r.pc = "reply" /\ r.path = op[t].path /\ r.start = op[t].start /\ r.since = 0
      /\ r.floor = op[t].floor /\ r.ans = NoFacts /\ r.got = facts /\ r.made = op[t].made
    <2> DEFINE a == [op[t] EXCEPT !.pc = "reply", !.got = facts]
    <2>1. /\ a \in OpState
          /\ a.pc = "reply" /\ a.path = op[t].path /\ a.start = op[t].start
          /\ a.floor = op[t].floor /\ a.got = facts /\ a.made = op[t].made
        BY <1>1 DEF OpState
    <2>2. r = [a EXCEPT !.ans = NoFacts, !.since = 0]
        BY DEF Replied
    <2> HIDE DEF a, r
    <2>3. 0 \in 0 .. MaxTime /\ NoFacts \in Partial(Fact)
        BY Nothing, Numbers
    <2>4. r \in OpState
        BY <2>1, <2>2, <2>3 DEF OpState
    <2> QED
        BY <2>1, <2>2, <2>4 DEF OpState
<1>3. op' = [op EXCEPT ![t] = r]
    OBVIOUS
<1> HIDE DEF r
<1>4. OpTypes' /\ op'[t] = r /\ \A u \in Worker \ {t} : op'[u] = op[u]
    BY <1>1, <1>2, <1>3, OpStep DEF NameInv
<1>5. now' = now /\ now \in Nat /\ op[t].start <= now /\ node' = node /\ retired' = retired
    BY DEF NameInv, HostTypes, hostVars, Timed
<1>6. Timed(t)'
    <2>1. \A p \in DOMAIN facts : AgeOf(op[t].path, facts, p) = Age(t, p)'
        BY <1>2, <1>4 DEF AgeOf, Age
    <2>2. \A p \in DOMAIN facts : Recent(p, facts[p].ver, op[t].start - AgeOf(op[t].path, facts, p))'
        BY <1>2, <1>4, <1>5, <2>1 DEF Recent, AgeOf
    <2>3. \A p \in DOMAIN facts : Recent(p, op[t].got[p].ver, op[t].start - Age(t, p))'
        BY <1>2, <1>4, <1>5, <2>1 DEF Recent
    <2> QED
        BY <1>2, <1>4, <1>5, <2>3, Nothing DEF Timed
<1>7. Shaped(t)'
    BY <1>2, <1>4 DEF Shaped
<1>8. Floored(t)'
    BY <1>2, <1>4, Nothing DEF Floored
<1> QED
    BY <1>2, <1>4, <1>6, <1>7, <1>8, Nothing, LookupKeepsInv

LEMMA Nones == None \in Slot /\ None.ver = 0 /\ NoList \in [facts : Partial(Fact), at : -1 .. MaxTime]
BY Nothing, Numbers DEF None, Slot, NoList

\* Entries that only go leave the caches as they may be.
LEMMA CachesShrink ==
    ASSUME NameInv, NEW t,
           meta' \in [Name -> Slot], \A p \in Name : meta'[p] = meta[p] \/ meta'[p] = None,
           neg' \in [Name -> Slot], \A p \in Name : neg'[p] = neg[p] \/ neg'[p] = None,
           dir' \in [Dir -> [facts : Partial(Fact), at : -1 .. MaxTime]],
           \A d \in Dir : dir'[d] = dir[d] \/ dir'[d] = NoList
    PROVE  MetaStep(t) /\ NegStep(t) /\ DirStep(t) /\ CacheTypes' /\ Within'
<1>1. MetaStep(t) /\ NegStep(t) /\ DirStep(t)
    BY DEF MetaStep, NegStep, DirStep
<1>2. CacheTypes'
    BY DEF CacheTypes
<1>3. /\ Cardinality(Entries(meta')) <= Cardinality(Entries(meta))
      /\ Cardinality(Entries(neg')) <= Cardinality(Entries(neg))
      /\ Cardinality(Listed') <= Cardinality(Listed)
    BY FewerEntries, FewerListed
<1>4. /\ Cardinality(Entries(meta')) \in Nat /\ Cardinality(Entries(meta)) \in Nat
      /\ Cardinality(Entries(neg')) \in Nat /\ Cardinality(Entries(neg)) \in Nat
      /\ Cardinality(Listed') \in Nat /\ Cardinality(Listed) \in Nat
    BY AllFinite, FewerListed
<1>5. /\ Cardinality(Entries(meta)) <= MetaMax /\ Cardinality(Entries(neg)) <= NegMax
      /\ Cardinality(Listed) <= DirMax
    BY DEF NameInv, Within
<1>6. /\ Cardinality(Entries(meta')) <= MetaMax /\ Cardinality(Entries(neg')) <= NegMax
      /\ Cardinality(Listed') <= DirMax
    BY <1>3, <1>4, <1>5, Numbers
<1>7. Within'
    BY <1>6 DEF Within
<1> QED
    BY <1>1, <1>2, <1>7

\* A lookup that misses goes on.
LEMMA Misses ==
    ASSUME NameInv, NEW t \in Thread, NEW next \in {"neg", "ask", "list"}, op' = [op EXCEPT ![t].pc = next],
           op[t].pc \in {"meta", "neg", "dir"}, op[t].pc = "dir" <=> next = "list",
           MetaStep(t), NegStep(t), DirStep(t), UNCHANGED <<now, hostVars, floors>>, CacheTypes', Within'
    PROVE  NameInv'
<1> DEFINE r == [op[t] EXCEPT !.pc = next]
<1>1. t \in Worker /\ op[t] \in OpState
    BY OpIs DEF NameInv, Worker
<1>2. /\ r \in OpState
      /\ r.pc = next /\ r.path = op[t].path /\ r.start = op[t].start /\ r.since = op[t].since
      /\ r.floor = op[t].floor /\ r.ans = op[t].ans /\ r.got = op[t].got /\ r.made = op[t].made
    BY <1>1 DEF OpState
<1>3. op' = [op EXCEPT ![t] = r]
    BY <1>1 DEF NameInv, OpTypes
<1> HIDE DEF r
<1>4. OpTypes' /\ op'[t] = r /\ \A u \in Worker \ {t} : op'[u] = op[u]
    BY <1>1, <1>2, <1>3, OpStep DEF NameInv
<1>5. UNCHANGED <<now, node, retired, metaFloor, listFloor>> /\ Timed(t) /\ Shaped(t) /\ Floored(t)
    BY DEF NameInv, hostVars, floors
<1>6. Timed(t)'
    <2>1. op[t].start <= now /\ op[t].since <= now
        BY <1>5 DEF Timed
    <2>2. \A p \in DOMAIN op[t].ans : Recent(p, op[t].ans[p].ver, op[t].since)
        BY <1>5 DEF Timed
    <2>3. op'[t].pc \notin {"store", "dirstore", "seed", "reply"}
        BY <1>2, <1>4
    <2>4. op'[t].start = op[t].start /\ op'[t].since = op[t].since /\ op'[t].ans = op[t].ans
        BY <1>2, <1>4
    <2> QED
        BY <1>5, <2>1, <2>2, <2>3, <2>4 DEF Timed, Recent
<1>7. Shaped(t)'
    BY <1>2, <1>4, <1>5 DEF Shaped
<1>8. Floored(t)'
    BY <1>2, <1>4, <1>5 DEF Floored
<1> QED
    BY <1>2, <1>4, <1>6, <1>7, <1>8, LookupKeepsInv

LEMMA SingleIs ==
    ASSUME NEW p \in Name, NEW v \in Version, NEW b \in BOOLEAN
    PROVE  /\ Single(p, v, b) \in Partial(Fact) /\ DOMAIN Single(p, v, b) = {p}
           /\ Single(p, v, b)[p].ver = v
BY Partials DEF Single, Fact

\* An entry that is still fresh answers a lookup.
LEMMA EntryServes ==
    ASSUME NameInv, NEW t \in Thread, NEW p \in Name, NEW e \in Slot, NEW ttl \in Nat, Fresh(e, ttl),
           NEW here \in BOOLEAN, ttl = IF here THEN MetaTtl ELSE NegTtl,
           op[t].pc \in {"meta", "neg"}, op[t].path = p,
           e.at <= now, Recent(p, e.ver, e.at - Latency), e.ver >= metaFloor[p]
    PROVE  /\ Single(p, e.ver, here) \in Partial(Fact)
           /\ \A q \in DOMAIN Single(p, e.ver, here) :
                 /\ Recent(q, Single(p, e.ver, here)[q].ver, op[t].start - AgeOf(op[t].path, Single(p, e.ver, here), q))
                 /\ Single(p, e.ver, here)[q].ver >= op[t].floor[q]
<1>1. e.ver \in Version /\ e.at \in Nat
    BY Versions DEF Fresh
<1>2. now \in Nat /\ op[t].start \in Nat /\ op[t].start <= now /\ HostTypes /\ Latency \in Nat
    BY OpIs, Numbers DEF NameInv, HostTypes, Timed, Worker
<1>3. op[t].start - (Latency + ttl) <= e.at - Latency
    BY <1>1, <1>2 DEF Fresh
<1>4. Recent(p, e.ver, op[t].start - (Latency + ttl))
    BY <1>1, <1>2, <1>3, RecentEarlier
<1>5. e.ver >= op[t].floor[p]
    <2>1. DOMAIN op[t].floor = {p} /\ op[t].floor[p] <= metaFloor[p]
        BY DEF NameInv, Shaped, Floored
    <2>2. op[t].floor[p] \in Nat /\ metaFloor[p] \in Nat
        BY <2>1, OpIs, Facts, Numbers DEF NameInv, HostTypes, Worker
    <2> QED
        BY <1>1, <2>1, <2>2, Versions
<1>6. /\ Single(p, e.ver, here) \in Partial(Fact) /\ DOMAIN Single(p, e.ver, here) = {p}
      /\ Single(p, e.ver, here)[p].ver = e.ver
    BY <1>1, SingleIs
<1>7. AgeOf(op[t].path, Single(p, e.ver, here), p) = Latency + ttl
    <2>1. Single(p, e.ver, here)[p] = [ver |-> e.ver, here |-> here]
        BY DEF Single
    <2> QED
        BY <2>1 DEF AgeOf
<1> QED
    BY <1>4, <1>5, <1>6, <1>7

LEMMA LooksUpMeta ==
    ASSUME NameInv, NEW t \in Thread, LookupMeta(t)
    PROVE  NameInv'
<1> DEFINE p == op[t].path
<1>1. /\ op[t].pc = "meta" /\ p \in Name /\ UNCHANGED <<now, hostVars, neg, dir, floors>>
      /\ meta \in [Name -> Slot] /\ neg \in [Name -> Slot]
      /\ dir \in [Dir -> [facts : Partial(Fact), at : -1 .. MaxTime]]
    BY DEF LookupMeta, NameInv, Shaped, CacheTypes
<1>2. CASE Fresh(meta[p], MetaTtl)
    <2>1. op' = [op EXCEPT ![t] = Replied(t, Single(p, meta[p].ver, TRUE))] /\ UNCHANGED caches
        BY <1>1, <1>2 DEF LookupMeta, caches
    <2>2. /\ meta[p].at <= now /\ Recent(p, meta[p].ver, meta[p].at - Latency)
          /\ meta[p].ver >= metaFloor[p]
        BY <1>1, <1>2 DEF NameInv, Stored, Known, Fresh
    <2>3. /\ Single(p, meta[p].ver, TRUE) \in Partial(Fact)
          /\ \A q \in DOMAIN Single(p, meta[p].ver, TRUE) :
                /\ Recent(q, Single(p, meta[p].ver, TRUE)[q].ver,
                          op[t].start - AgeOf(op[t].path, Single(p, meta[p].ver, TRUE), q))
                /\ Single(p, meta[p].ver, TRUE)[q].ver >= op[t].floor[q]
        BY <1>1, <1>2, <2>2, EntryServes, Numbers
    <2>4. MetaStep(t) /\ NegStep(t) /\ DirStep(t) /\ CacheTypes' /\ Within'
        BY <2>1, CachesStay
    <2> QED
        BY <1>1, <2>1, <2>3, <2>4, Replies
<1>3. CASE ~Fresh(meta[p], MetaTtl)
    <2>1. op' = [op EXCEPT ![t].pc = "neg"] /\ meta' = [meta EXCEPT ![p] = None]
        BY <1>3 DEF LookupMeta
    <2>2. MetaStep(t) /\ NegStep(t) /\ DirStep(t) /\ CacheTypes' /\ Within'
        BY <1>1, <2>1, Nones, CachesShrink
    <2> QED
        BY <1>1, <2>1, <2>2, Misses
<1> QED
    BY <1>2, <1>3

LEMMA LooksUpNeg ==
    ASSUME NameInv, NEW t \in Thread, LookupNeg(t)
    PROVE  NameInv'
<1> DEFINE p == op[t].path
<1>1. /\ op[t].pc = "neg" /\ p \in Name /\ UNCHANGED <<now, hostVars, meta, dir, floors>>
      /\ meta \in [Name -> Slot] /\ neg \in [Name -> Slot]
      /\ dir \in [Dir -> [facts : Partial(Fact), at : -1 .. MaxTime]]
    BY DEF LookupNeg, NameInv, Shaped, CacheTypes
<1>2. CASE Fresh(neg[p], NegTtl)
    <2>1. op' = [op EXCEPT ![t] = Replied(t, Single(p, neg[p].ver, FALSE))] /\ UNCHANGED caches
        BY <1>1, <1>2 DEF LookupNeg, caches
    <2>2. /\ neg[p].at <= now /\ Recent(p, neg[p].ver, neg[p].at - Latency)
          /\ neg[p].ver >= metaFloor[p]
        BY <1>1, <1>2 DEF NameInv, Stored, Known, Fresh
    <2>3. /\ Single(p, neg[p].ver, FALSE) \in Partial(Fact)
          /\ \A q \in DOMAIN Single(p, neg[p].ver, FALSE) :
                /\ Recent(q, Single(p, neg[p].ver, FALSE)[q].ver,
                          op[t].start - AgeOf(op[t].path, Single(p, neg[p].ver, FALSE), q))
                /\ Single(p, neg[p].ver, FALSE)[q].ver >= op[t].floor[q]
        BY <1>1, <1>2, <2>2, EntryServes, Numbers
    <2>4. MetaStep(t) /\ NegStep(t) /\ DirStep(t) /\ CacheTypes' /\ Within'
        BY <2>1, CachesStay
    <2> QED
        BY <1>1, <2>1, <2>3, <2>4, Replies
<1>3. CASE ~Fresh(neg[p], NegTtl)
    <2>1. op' = [op EXCEPT ![t].pc = "ask"] /\ neg' = [neg EXCEPT ![p] = None]
        BY <1>3 DEF LookupNeg
    <2>2. MetaStep(t) /\ NegStep(t) /\ DirStep(t) /\ CacheTypes' /\ Within'
        BY <1>1, <2>1, Nones, CachesShrink
    <2> QED
        BY <1>1, <2>1, <2>2, Misses
<1> QED
    BY <1>2, <1>3

LEMMA LooksUpDir ==
    ASSUME NameInv, NEW t \in Thread, LookupDir(t)
    PROVE  NameInv'
<1> DEFINE d == op[t].path
           l == dir[d]
<1>1. /\ op[t].pc = "dir" /\ d \in Dir /\ UNCHANGED <<now, hostVars, meta, neg, floors>>
      /\ meta \in [Name -> Slot] /\ neg \in [Name -> Slot]
      /\ dir \in [Dir -> [facts : Partial(Fact), at : -1 .. MaxTime]]
    BY DEF LookupDir, NameInv, Shaped, CacheTypes
<1>2. CASE l # NoList /\ now - l.at <= DirTtl
    <2>1. op' = [op EXCEPT ![t] = Replied(t, l.facts)] /\ UNCHANGED caches
        BY <1>1, <1>2 DEF LookupDir, caches
    <2>2. l.facts \in Partial(Fact) /\ l.at \in Int
        BY <1>1, Numbers
    <2>3. /\ now \in Nat /\ op[t].start \in Nat /\ op[t].start <= now /\ HostTypes
          /\ Latency \in Nat /\ DirTtl \in Nat
        BY OpIs, Numbers DEF NameInv, HostTypes, Timed, Worker
    <2>4. op[t].start - (Latency + DirTtl) <= l.at - Latency
        BY <1>2, <2>2, <2>3
    <2>5. ASSUME NEW p \in DOMAIN l.facts
          PROVE  /\ Recent(p, l.facts[p].ver, op[t].start - AgeOf(d, l.facts, p))
                 /\ l.facts[p].ver >= op[t].floor[p]
        <3>1. /\ p \in Children(d) /\ Recent(p, l.facts[p].ver, l.at - Latency)
              /\ l.facts[p].ver >= listFloor[p]
            BY <1>1 DEF NameInv, Stored, Known
        <3>2. p \in Name /\ p # d /\ l.facts[p].ver \in Version
            BY <2>2, <3>1, Paths, Facts, Versions
        <3>3. AgeOf(d, l.facts, p) = Latency + DirTtl
            BY <3>2 DEF AgeOf
        <3>4. Recent(p, l.facts[p].ver, op[t].start - (Latency + DirTtl))
            BY <2>2, <2>3, <2>4, <3>1, <3>2, RecentEarlier
        <3>5. op[t].floor[p] <= listFloor[p]
            BY <1>1, <3>1 DEF NameInv, Shaped, Floored
        <3>6. op[t].floor[p] \in Nat /\ listFloor[p] \in Nat
            <4>1. p \in DOMAIN op[t].floor
                BY <1>1, <3>1 DEF NameInv, Shaped
            <4> QED
                BY <3>2, <4>1, OpIs, Facts, Numbers DEF NameInv, HostTypes, Worker
        <3>7. l.facts[p].ver >= op[t].floor[p]
            BY <3>1, <3>2, <3>5, <3>6, Versions
        <3> QED
            BY <3>3, <3>4, <3>7
    <2>6. MetaStep(t) /\ NegStep(t) /\ DirStep(t) /\ CacheTypes' /\ Within'
        BY <2>1, CachesStay
    <2> QED
        BY <1>1, <2>1, <2>2, <2>5, <2>6, Replies
<1>3. CASE ~(l # NoList /\ now - l.at <= DirTtl)
    <2>1. op' = [op EXCEPT ![t].pc = "list"] /\ dir' = [dir EXCEPT ![d] = NoList]
        BY <1>3 DEF LookupDir
    <2>2. MetaStep(t) /\ NegStep(t) /\ DirStep(t) /\ CacheTypes' /\ Within'
        BY <1>1, <2>1, Nones, CachesShrink
    <2>3. UNCHANGED <<now, hostVars, floors>> /\ op[t].pc = "dir"
        BY <1>1
    <2> QED
        BY <2>1, <2>2, <2>3, Misses
<1> QED
    BY <1>2, <1>3

\* The host answers with what is so now.
LEMMA Answers ==
    ASSUME NameInv, NEW t \in Thread, Answer(t)
    PROVE  NameInv'
<1> DEFINE S == IF op[t].pc = "ask" THEN {op[t].path} ELSE Children(op[t].path)
           a == [q \in S |-> node[q]]
           next == IF op[t].pc = "ask" THEN "store" ELSE "dirstore"
           r == [op[t] EXCEPT !.pc = next, !.since = now, !.ans = a]
<1>1. t \in Worker /\ op[t] \in OpState /\ op[t].pc \in {"ask", "list"}
      /\ UNCHANGED <<now, hostVars, caches, floors>>
    BY OpIs DEF NameInv, Worker, Answer
<1>2. S \subseteq Name /\ (op[t].pc = "ask" => op[t].path \in Name) /\ (op[t].pc = "list" => op[t].path \in Dir)
    BY <1>1, Paths DEF NameInv, Shaped
<1>3. a \in Partial(Fact) /\ DOMAIN a = S /\ \A q \in S : a[q] = node[q]
    BY <1>2, Partials DEF NameInv, HostTypes
<1>4. op' = [op EXCEPT ![t] = r]
    BY <1>1 DEF Answer, NameInv, OpTypes
<1> HIDE DEF a
<1>5. now \in 0 .. MaxTime
    BY DEF NameInv, HostTypes
<1>6. r \in OpState
    BY <1>1, <1>3, <1>5 DEF OpState
<1>7. /\ r.pc = next /\ r.path = op[t].path /\ r.start = op[t].start /\ r.since = now
      /\ r.floor = op[t].floor /\ r.ans = a /\ r.got = op[t].got /\ r.made = op[t].made
    BY <1>1 DEF OpState
<1> HIDE DEF r
<1>8. OpTypes' /\ op'[t] = r /\ \A u \in Worker \ {t} : op'[u] = op[u]
    BY <1>1, <1>4, <1>6, OpStep DEF NameInv
<1>9. MetaStep(t) /\ NegStep(t) /\ DirStep(t) /\ CacheTypes' /\ Within'
    BY <1>1, CachesStay
<1>10. ASSUME NEW q \in DOMAIN a
       PROVE  /\ Recent(q, a[q].ver, now) /\ a[q].ver >= metaFloor[q] /\ a[q].ver >= node[q].ver
    <2>1. q \in Name /\ node[q].ver \in Nat /\ metaFloor[q] \in Nat
        BY <1>2, <1>3, Versions, Numbers DEF NameInv, HostTypes
    <2> QED
        BY <1>3, <2>1 DEF NameInv, Known, Recent
<1>11. UNCHANGED <<now, node, retired, metaFloor, listFloor>> /\ Timed(t) /\ Shaped(t) /\ Floored(t)
    BY <1>1 DEF NameInv, hostVars, floors
<1>12. Timed(t)'
    BY <1>5, <1>7, <1>8, <1>10, <1>11, Numbers DEF Timed, Recent
<1>13. Shaped(t)'
    BY <1>1, <1>3, <1>7, <1>8, <1>11 DEF Shaped
<1>14. Floored(t)'
    BY <1>1, <1>7, <1>8, <1>10, <1>11 DEF Floored
<1>15. /\ op'[t].pc \notin {"applied", "erase"} /\ op'[t].made = op[t].made
       /\ \A q \in DOMAIN op'[t].ans : op'[t].ans[q].ver >= node[q].ver
    BY <1>7, <1>8, <1>10
<1> QED
    BY <1>1, <1>8, <1>9, <1>12, <1>13, <1>14, <1>15, LookupKeepsInv

\* The number of entries of a cache that does not change or only loses some.
LEMMA OthersWithin ==
    ASSUME NameInv
    PROVE  /\ \A n : (\A p \in Name : n[p] = meta[p] \/ n[p] = None) => Cardinality(Entries(n)) <= MetaMax
           /\ \A n : (\A p \in Name : n[p] = neg[p] \/ n[p] = None) => Cardinality(Entries(n)) <= NegMax
           /\ (\A d \in Dir : dir'[d] = dir[d] \/ dir'[d] = NoList) => Cardinality(Listed') <= DirMax
<1>1. /\ Cardinality(Entries(meta)) <= MetaMax /\ Cardinality(Entries(neg)) <= NegMax
      /\ Cardinality(Listed) <= DirMax
    BY DEF NameInv, Within
<1>2. ASSUME NEW n, \A p \in Name : n[p] = meta[p] \/ n[p] = None
      PROVE  Cardinality(Entries(n)) <= MetaMax
    <2>1. Cardinality(Entries(n)) <= Cardinality(Entries(meta))
        BY <1>2, FewerEntries
    <2> QED
        BY <1>1, <2>1, AllFinite, Numbers
<1>3. ASSUME NEW n, \A p \in Name : n[p] = neg[p] \/ n[p] = None
      PROVE  Cardinality(Entries(n)) <= NegMax
    <2>1. Cardinality(Entries(n)) <= Cardinality(Entries(neg))
        BY <1>3, FewerEntries
    <2> QED
        BY <1>1, <2>1, AllFinite, Numbers
<1>4. ASSUME \A d \in Dir : dir'[d] = dir[d] \/ dir'[d] = NoList
      PROVE  Cardinality(Listed') <= DirMax
    <2>1. Cardinality(Listed') <= Cardinality(Listed) /\ Cardinality(Listed') \in Nat
        BY <1>4, FewerListed
    <2> QED
        BY <1>1, <2>1, AllFinite, Numbers
<1> QED
    BY <1>2, <1>3, <1>4

LEMMA MetaStores ==
    ASSUME NameInv, NEW t \in Thread, Answered(t), NEW p \in DOMAIN op[t].ans,
           metaStore(p, op[t].ans[p].ver), UNCHANGED dir
    PROVE  MetaStep(t) /\ NegStep(t) /\ DirStep(t) /\ CacheTypes' /\ Within'
<1> DEFINE v == op[t].ans[p].ver
<1>1. PICK kept \in Trims(Entries(meta), MetaMax) :
          meta' = [q \in Name |-> IF q = p THEN Entry(v) ELSE IF q \in kept THEN meta[q] ELSE None]
    BY DEF metaStore
<1>2. neg' = [neg EXCEPT ![p] = None]
    BY DEF metaStore
<1>3. p \in Name /\ v \in Version
    BY AnswerServes
<1>4. /\ CacheTypes /\ now \in 0 .. MaxTime /\ None \in Slot
    BY Nones DEF NameInv, HostTypes
<1>5. Entry(v) = [ver |-> v, at |-> now] /\ Entry(v) \in Slot
    BY <1>3, <1>4, Numbers DEF Entry, Slot, Version
<1> HIDE DEF v
<1>6. \A q \in Name : meta'[q] = IF q = p THEN Entry(v) ELSE IF q \in kept THEN meta[q] ELSE None
    BY <1>1
<1>7. \A q \in Name : neg'[q] = neg[q] \/ neg'[q] = None
    BY <1>2, <1>4 DEF CacheTypes
<1>8. MetaStep(t)
    BY <1>5, <1>6 DEF MetaStep, v
<1>9. NegStep(t) /\ DirStep(t)
    BY <1>7 DEF NegStep, DirStep
<1>10. CacheTypes'
    <2>1. meta' \in [Name -> Slot]
        BY <1>1, <1>4, <1>5 DEF CacheTypes
    <2>2. neg' \in [Name -> Slot]
        BY <1>2, <1>3, <1>4 DEF CacheTypes
    <2> QED
        BY <1>4, <2>1, <2>2 DEF CacheTypes
<1>11. Cardinality(Entries(meta')) <= MetaMax
    <2>1. MetaMax \in Nat /\ MetaMax > 0 /\ \A q \in Name : q = p \/ q \in kept \/ meta'[q] = None
        BY <1>6, Numbers
    <2> QED
        BY <2>1, MoreEntries
<1>12. Cardinality(Entries(neg')) <= NegMax /\ Cardinality(Listed') <= DirMax
    BY <1>7, OthersWithin
<1>13. Within'
    BY <1>11, <1>12 DEF Within
<1> QED
    BY <1>8, <1>9, <1>10, <1>13

LEMMA NegStores ==
    ASSUME NameInv, NEW t \in Thread, Answered(t), NEW p \in DOMAIN op[t].ans,
           negStore(p, op[t].ans[p].ver), UNCHANGED <<meta, dir>>
    PROVE  MetaStep(t) /\ NegStep(t) /\ DirStep(t) /\ CacheTypes' /\ Within'
<1> DEFINE v == op[t].ans[p].ver
<1>1. PICK kept \in Trims(Entries(neg), NegMax) :
          neg' = [q \in Name |-> IF q = p THEN Entry(v) ELSE IF q \in kept THEN neg[q] ELSE None]
    BY DEF negStore
<1>2. p \in Name /\ v \in Version
    BY AnswerServes
<1>3. /\ CacheTypes /\ now \in 0 .. MaxTime /\ None \in Slot
    BY Nones DEF NameInv, HostTypes
<1>4. Entry(v) = [ver |-> v, at |-> now] /\ Entry(v) \in Slot
    BY <1>2, <1>3, Numbers DEF Entry, Slot, Version
<1> HIDE DEF v
<1>5. \A q \in Name : neg'[q] = IF q = p THEN Entry(v) ELSE IF q \in kept THEN neg[q] ELSE None
    BY <1>1
<1>6. NegStep(t)
    BY <1>4, <1>5 DEF NegStep, v
<1>7. MetaStep(t) /\ DirStep(t)
    BY DEF MetaStep, DirStep
<1>8. CacheTypes'
    <2>1. neg' \in [Name -> Slot]
        BY <1>1, <1>3, <1>4 DEF CacheTypes
    <2> QED
        BY <1>3, <2>1 DEF CacheTypes
<1>9. Cardinality(Entries(neg')) <= NegMax
    <2>1. NegMax \in Nat /\ NegMax > 0 /\ \A q \in Name : q = p \/ q \in kept \/ neg'[q] = None
        BY <1>5, Numbers
    <2> QED
        BY <2>1, MoreEntries
<1>10. Cardinality(Entries(meta')) <= MetaMax /\ Cardinality(Listed') <= DirMax
    BY OthersWithin
<1>11. Within'
    BY <1>9, <1>10 DEF Within
<1> QED
    BY <1>6, <1>7, <1>8, <1>11

LEMMA DirStores ==
    ASSUME NameInv, NEW t \in Thread, Answered(t), NEW d \in Dir, DOMAIN op[t].ans \subseteq Children(d),
           dirStore(d, op[t].ans), UNCHANGED <<meta, neg>>
    PROVE  MetaStep(t) /\ NegStep(t) /\ DirStep(t) /\ CacheTypes' /\ Within'
<1> DEFINE e == [facts |-> op[t].ans, at |-> now]
<1>1. PICK kept \in Trims(Listed, DirMax) :
          dir' = [c \in Dir |-> IF c = d THEN e ELSE IF c \in kept THEN dir[c] ELSE NoList]
    BY DEF dirStore
<1>2. CacheTypes /\ now \in 0 .. MaxTime /\ NoList \in [facts : Partial(Fact), at : -1 .. MaxTime]
    BY Nones DEF NameInv, HostTypes
<1>3. e \in [facts : Partial(Fact), at : -1 .. MaxTime]
    BY <1>2, OpIs, Numbers DEF NameInv, Worker
<1> HIDE DEF e
<1>4. \A c \in Dir : dir'[c] = IF c = d THEN e ELSE IF c \in kept THEN dir[c] ELSE NoList
    BY <1>1
<1>5. DirStep(t)
    BY <1>4 DEF DirStep, e
<1>6. MetaStep(t) /\ NegStep(t)
    BY DEF MetaStep, NegStep
<1>7. CacheTypes'
    <2>1. dir' \in [Dir -> [facts : Partial(Fact), at : -1 .. MaxTime]]
        BY <1>1, <1>2, <1>3 DEF CacheTypes
    <2> QED
        BY <1>2, <2>1 DEF CacheTypes
<1>8. Cardinality(Listed') <= DirMax
    BY <1>4, MoreListed
<1>9. Cardinality(Entries(meta')) <= MetaMax /\ Cardinality(Entries(neg')) <= NegMax
    BY OthersWithin
<1>10. Within'
    BY <1>8, <1>9 DEF Within
<1> QED
    BY <1>5, <1>6, <1>7, <1>10

\* Part of an answer.
LEMMA Restricts ==
    ASSUME NEW f \in Partial(Fact), NEW S \in SUBSET DOMAIN f
    PROVE  /\ [q \in S |-> f[q]] \in Partial(Fact) /\ DOMAIN [q \in S |-> f[q]] = S
           /\ \A q \in S : [r \in S |-> f[r]][q] = f[q]
<1>1. DOMAIN f \subseteq Name /\ \A q \in DOMAIN f : f[q] \in Fact
    BY Facts
<1> QED
    BY <1>1, Partials

\* The answer to a GETATTR is stored and replied.
LEMMA StoresAnswer ==
    ASSUME NameInv, NEW t \in Thread, StoreAnswer(t)
    PROVE  NameInv'
<1> DEFINE p == op[t].path
           a == op[t].ans
<1>1. /\ op[t].pc = "store" /\ p \in Name /\ DOMAIN a = {p} /\ Answered(t)
      /\ DOMAIN op[t].floor = {p} /\ a \in Partial(Fact)
    BY OpIs DEF StoreAnswer, NameInv, Shaped, Answered, Worker
<1>2. UNCHANGED <<now, hostVars, dir, floors>> /\ op' = [op EXCEPT ![t] = Replied(t, a)]
    BY DEF StoreAnswer
<1>3. MetaStep(t) /\ NegStep(t) /\ DirStep(t) /\ CacheTypes' /\ Within'
    <2>1. CASE a[p].here
        <3>1. metaStore(p, a[p].ver)
            BY <2>1 DEF StoreAnswer
        <3> QED
            BY <1>1, <1>2, <3>1, MetaStores
    <2>2. CASE ~a[p].here
        <3>1. negStore(p, a[p].ver) /\ UNCHANGED meta
            BY <2>2 DEF StoreAnswer
        <3> QED
            BY <1>1, <1>2, <3>1, NegStores
    <2> QED
        BY <2>1, <2>2
<1>4. Recent(p, a[p].ver, op[t].start - AgeOf(p, a, p))
    <2>1. AgeOf(p, a, p) \in Nat
        BY Numbers DEF AgeOf
    <2>2. op[t].start \in Nat /\ op[t].since \in Nat /\ op[t].start <= op[t].since /\ HostTypes
        BY <1>1, OpIs, Numbers DEF NameInv, Timed, Worker
    <2>3. Recent(p, a[p].ver, op[t].since) /\ a[p].ver \in Version
        BY <1>1, Facts, Versions DEF NameInv, Timed
    <2>4. op[t].start - AgeOf(p, a, p) <= op[t].since /\ op[t].start - AgeOf(p, a, p) \in Int
        BY <2>1, <2>2
    <2> QED
        BY <1>1, <2>2, <2>3, <2>4, RecentEarlier
<1>5. a[p].ver >= op[t].floor[p]
    <2>1. a[p].ver >= metaFloor[p] /\ op[t].floor[p] <= metaFloor[p]
        BY <1>1 DEF NameInv, Floored
    <2>2. a[p].ver \in Nat /\ op[t].floor[p] \in Nat /\ metaFloor[p] \in Nat
        BY <1>1, OpIs, Facts, Versions, Numbers DEF NameInv, HostTypes, Worker
    <2> QED
        BY <2>1, <2>2
<1>6. \A q \in DOMAIN a : Recent(q, a[q].ver, op[t].start - AgeOf(op[t].path, a, q)) /\ a[q].ver >= op[t].floor[q]
    BY <1>1, <1>4, <1>5
<1> HIDE DEF a
<1> QED
    BY <1>1, <1>2, <1>3, <1>6, Replies

\* The listing is stored; its entries go to the metadata cache next.
LEMMA StoresListing ==
    ASSUME NameInv, NEW t \in Thread, StoreListing(t)
    PROVE  NameInv'
<1> DEFINE a == op[t].ans
           S == {c \in DOMAIN a : a[c].here}
           b == [q \in S |-> a[q]]
           r == [op[t] EXCEPT !.pc = "seed", !.got = a, !.ans = b]
<1>1. /\ op[t].pc = "dirstore" /\ op[t].path \in Dir /\ DOMAIN a \subseteq Children(op[t].path)
      /\ Answered(t) /\ t \in Worker /\ op[t] \in OpState /\ a \in Partial(Fact)
      /\ DOMAIN op[t].floor = Children(op[t].path)
    BY OpIs DEF StoreListing, NameInv, Shaped, Answered, Worker
<1>2. UNCHANGED <<now, hostVars, meta, neg, floors>> /\ dirStore(op[t].path, a)
    BY DEF StoreListing
<1>3. op' = [op EXCEPT ![t] = r]
    BY <1>1 DEF StoreListing, NameInv, OpTypes
<1>4. b \in Partial(Fact) /\ DOMAIN b = S /\ S \subseteq DOMAIN a /\ \A q \in S : b[q] = a[q]
    BY <1>1, Restricts
<1> HIDE DEF S, b
<1>5. r \in OpState
    BY <1>1, <1>4 DEF OpState
<1>6. /\ r.pc = "seed" /\ r.path = op[t].path /\ r.start = op[t].start /\ r.since = op[t].since
      /\ r.floor = op[t].floor /\ r.ans = b /\ r.got = a /\ r.made = op[t].made
    BY <1>1 DEF OpState
<1> HIDE DEF a, r
<1>7. OpTypes' /\ op'[t] = r /\ \A u \in Worker \ {t} : op'[u] = op[u]
    BY <1>1, <1>3, <1>5, OpStep DEF NameInv
<1>8. MetaStep(t) /\ NegStep(t) /\ DirStep(t) /\ CacheTypes' /\ Within'
    BY <1>1, <1>2, DirStores DEF a
<1>9. UNCHANGED <<now, node, retired, metaFloor, listFloor>> /\ Timed(t) /\ Shaped(t) /\ Floored(t)
    BY <1>2 DEF NameInv, hostVars, floors
<1>10. Timed(t)'
    <2>1. /\ op[t].start <= now /\ op[t].since <= now
          /\ op[t].start <= op[t].since /\ now <= op[t].since + Latency
        BY <1>1, <1>9 DEF Timed
    <2>2. \A p \in DOMAIN a : Recent(p, a[p].ver, op[t].since)
        BY <1>9 DEF Timed, a
    <2>3. \A p \in DOMAIN b : Recent(p, b[p].ver, op[t].since)
        BY <1>4, <2>2
    <2> QED
        BY <1>6, <1>7, <1>9, <2>1, <2>2, <2>3 DEF Timed, Recent
<1>11. Shaped(t)'
    BY <1>1, <1>4, <1>6, <1>7 DEF Shaped
<1>12. Floored(t)'
    <2>1. ASSUME NEW p \in DOMAIN a
          PROVE  a[p].ver >= metaFloor[p] /\ a[p].ver >= op[t].floor[p]
        <3>1. a[p].ver >= metaFloor[p] /\ a[p].ver >= listFloor[p] /\ p \in Name /\ a[p].ver \in Version
            BY <1>1, AnswerServes DEF a
        <3>2. p \in DOMAIN op[t].floor /\ op[t].floor[p] <= listFloor[p]
            BY <1>1, <1>9 DEF Floored
        <3>3. op[t].floor[p] \in Nat /\ listFloor[p] \in Nat /\ a[p].ver \in Nat
            BY <1>1, <3>1, <3>2, OpIs, Facts, Versions, Numbers DEF NameInv, HostTypes
        <3> QED
            BY <3>1, <3>2, <3>3
    <2>2. \A p \in DOMAIN b : b[p].ver >= metaFloor[p]
        BY <1>4, <2>1
    <2>3. \A p \in DOMAIN op[t].floor : op[t].floor[p] <= listFloor[p]
        BY <1>1, <1>9 DEF Floored
    <2> QED
        BY <1>6, <1>7, <1>9, <2>1, <2>2, <2>3 DEF Floored
<1>13. /\ op'[t].pc \notin {"applied", "erase"} /\ op'[t].made = op[t].made
       /\ \A q \in DOMAIN op'[t].ans : q \in DOMAIN op[t].ans /\ op'[t].ans[q] = op[t].ans[q]
    BY <1>4, <1>6, <1>7 DEF a
<1> QED
    BY <1>2, <1>7, <1>8, <1>10, <1>11, <1>12, <1>13, LookupKeepsInv

LEMMA Seeds ==
    ASSUME NameInv, NEW t \in Thread, Seed(t)
    PROVE  NameInv'
<1>1. /\ op[t].pc = "seed" /\ Answered(t) /\ t \in Worker /\ op[t] \in OpState
      /\ op[t].path \in Dir /\ DOMAIN op[t].floor = Children(op[t].path)
      /\ DOMAIN op[t].got \subseteq Children(op[t].path)
      /\ op[t].ans \in Partial(Fact) /\ op[t].got \in Partial(Fact)
    BY OpIs DEF Seed, NameInv, Shaped, Answered, Worker
<1>2. UNCHANGED <<now, hostVars, dir, floors>>
    BY DEF Seed
<1>3. ASSUME NEW p \in DOMAIN op[t].ans, metaStore(p, op[t].ans[p].ver),
             op' = [op EXCEPT ![t].ans = [q \in DOMAIN op[t].ans \ {p} |-> op[t].ans[q]]]
      PROVE  NameInv'
    <2> DEFINE a == op[t].ans
               S == DOMAIN a \ {p}
               b == [q \in S |-> a[q]]
               r == [op[t] EXCEPT !.ans = b]
    <2>1. op' = [op EXCEPT ![t] = r]
        BY <1>1, <1>3 DEF NameInv, OpTypes
    <2>2. b \in Partial(Fact) /\ DOMAIN b = S /\ S \subseteq DOMAIN a /\ \A q \in S : b[q] = a[q]
        BY <1>1, Restricts
    <2> HIDE DEF S, b
    <2>3. r \in OpState
        BY <1>1, <2>2 DEF OpState
    <2>4. /\ r.pc = "seed" /\ r.path = op[t].path /\ r.start = op[t].start /\ r.since = op[t].since
          /\ r.floor = op[t].floor /\ r.ans = b /\ r.got = op[t].got /\ r.made = op[t].made
        BY <1>1 DEF OpState
    <2> HIDE DEF r
    <2>5. OpTypes' /\ op'[t] = r /\ \A u \in Worker \ {t} : op'[u] = op[u]
        BY <1>1, <2>1, <2>3, OpStep DEF NameInv
    <2>6. MetaStep(t) /\ NegStep(t) /\ DirStep(t) /\ CacheTypes' /\ Within'
        BY <1>1, <1>2, <1>3, MetaStores
    <2>7. UNCHANGED <<now, node, retired, metaFloor, listFloor>> /\ Timed(t) /\ Shaped(t) /\ Floored(t)
        BY <1>2 DEF NameInv, hostVars, floors
    <2>8. Timed(t)'
        <3>1. /\ op[t].start <= now /\ op[t].since <= now
              /\ op[t].start <= op[t].since /\ now <= op[t].since + Latency
            BY <1>1, <2>7 DEF Timed
        <3>2. \A q \in DOMAIN op[t].got : Recent(q, op[t].got[q].ver, op[t].since)
            BY <1>1, <2>7 DEF Timed
        <3>3. \A q \in DOMAIN b : Recent(q, b[q].ver, op[t].since)
            BY <2>2, <2>7 DEF Timed
        <3> QED
            BY <2>4, <2>5, <2>7, <3>1, <3>2, <3>3 DEF Timed, Recent
    <2>9. Shaped(t)'
        BY <1>1, <2>2, <2>4, <2>5, <2>7 DEF Shaped
    <2>10. Floored(t)'
        <3>1. \A q \in DOMAIN b : b[q].ver >= metaFloor[q]
            BY <2>2, <2>7 DEF Floored
        <3> QED
            BY <1>1, <2>4, <2>5, <2>7, <3>1 DEF Floored
    <2>11. /\ op'[t].pc \notin {"applied", "erase"} /\ op'[t].made = op[t].made
           /\ \A q \in DOMAIN op'[t].ans : q \in DOMAIN op[t].ans /\ op'[t].ans[q] = op[t].ans[q]
        BY <2>2, <2>4, <2>5
    <2> QED
        BY <1>2, <2>5, <2>6, <2>8, <2>9, <2>10, <2>11, LookupKeepsInv
<1>4. ASSUME op' = [op EXCEPT ![t] = Replied(t, op[t].got)], UNCHANGED <<meta, neg>>
      PROVE  NameInv'
    <2> DEFINE g == op[t].got
    <2>1. ASSUME NEW p \in DOMAIN g
          PROVE  Recent(p, g[p].ver, op[t].start - AgeOf(op[t].path, g, p)) /\ g[p].ver >= op[t].floor[p]
        <3>1. /\ op[t].start \in Nat /\ op[t].since \in Nat /\ op[t].start <= op[t].since /\ HostTypes
            BY <1>1, OpIs, Numbers DEF NameInv, Timed, Worker
        <3>2. p \in Name /\ g[p].ver \in Version /\ Recent(p, g[p].ver, op[t].since)
            BY <1>1, Facts, Versions DEF NameInv, Timed
        <3>3. AgeOf(op[t].path, g, p) \in Nat
            BY Numbers DEF AgeOf
        <3>4. op[t].start - AgeOf(op[t].path, g, p) <= op[t].since /\ op[t].start - AgeOf(op[t].path, g, p) \in Int
            BY <3>1, <3>3
        <3>5. Recent(p, g[p].ver, op[t].start - AgeOf(op[t].path, g, p))
            BY <3>1, <3>2, <3>4, RecentEarlier
        <3>6. g[p].ver >= op[t].floor[p]
            BY <1>1 DEF NameInv, Floored
        <3> QED
            BY <3>5, <3>6
    <2>2. UNCHANGED caches
        BY <1>2, <1>4 DEF caches
    <2>3. MetaStep(t) /\ NegStep(t) /\ DirStep(t) /\ CacheTypes' /\ Within'
        BY <2>2, CachesStay
    <2>4. op' = [op EXCEPT ![t] = Replied(t, g)] /\ g \in Partial(Fact)
        BY <1>1, <1>4
    <2> HIDE DEF g
    <2> QED
        BY <1>2, <2>1, <2>3, <2>4, Replies
<1>5. \/ \E p \in DOMAIN op[t].ans :
            /\ metaStore(p, op[t].ans[p].ver)
            /\ op' = [op EXCEPT ![t].ans = [q \in DOMAIN op[t].ans \ {p} |-> op[t].ans[q]]]
      \/ op' = [op EXCEPT ![t] = Replied(t, op[t].got)] /\ UNCHANGED <<meta, neg>>
    BY DEF Seed
<1> QED
    BY <1>3, <1>4, <1>5

\* Every step of a lookup.
LEMMA LookupsKeep ==
    ASSUME NameInv, NEW t \in Thread, LookupStep(t)
    PROVE  NameInv'
<1>1. CASE Fail(t) \/ Reply(t)
    BY <1>1, EndsLookup DEF Fail, Reply
<1>2. CASE LookupMeta(t)
    BY <1>2, LooksUpMeta
<1>3. CASE LookupNeg(t)
    BY <1>3, LooksUpNeg
<1>4. CASE LookupDir(t)
    BY <1>4, LooksUpDir
<1>5. CASE Answer(t)
    BY <1>5, Answers
<1>6. CASE StoreAnswer(t)
    BY <1>6, StoresAnswer
<1>7. CASE StoreListing(t)
    BY <1>7, StoresListing
<1>8. CASE Seed(t)
    BY <1>8, Seeds
<1> QED
    BY <1>1, <1>2, <1>3, <1>4, <1>5, <1>6, <1>7, <1>8 DEF LookupStep

\* What another thread has erased is not there again when entries only go.
LEMMA StillErased ==
    ASSUME NameInv, NEW u \in Worker, op'[u] = op[u], node' = node,
           \A q \in Thread : op'[q].ans = op[q].ans \/ op'[q].ans = NoFacts,
           \A p \in Name : meta'[p] = meta[p] \/ meta'[p] = None,
           \A p \in Name : neg'[p] = neg[p] \/ neg'[p] = None,
           \A d \in Dir : dir'[d] = dir[d] \/ dir'[d] = NoList
    PROVE  Erasing(u)'
<1>1. Erasing(u) /\ Todo(u)' = Todo(u) /\ None.ver = 0 /\ DOMAIN NoList.facts = {}
    BY Nones, Lists DEF NameInv, Todo
<1>2. ASSUME NEW p \in DOMAIN op[u].made, op[u].pc = "erase"
      PROVE  /\ \A q \in Thread : p \in DOMAIN op'[q].ans => op'[q].ans[p].ver >= op[u].made[p]
             /\ \/ <<"meta", p>> \in Todo(u)
                \/ /\ meta'[p].ver # 0 => meta'[p].ver >= op[u].made[p]
                   /\ neg'[p].ver # 0 => neg'[p].ver >= op[u].made[p]
             /\ p \in op[u].listed =>
                   \/ <<"dir", parent_of(p)>> \in Todo(u)
                   \/ \A d \in Dir : p \in DOMAIN dir'[d].facts => dir'[d].facts[p].ver >= op[u].made[p]
    <2>1. p \in Name
        BY OpIs, Facts DEF NameInv
    <2>2. \A q \in Thread : p \in DOMAIN op'[q].ans => op'[q].ans[p].ver >= op[u].made[p]
        BY <1>1, <1>2, Nothing DEF Erasing
    <2>3. /\ meta'[p] = meta[p] \/ meta'[p] = None
          /\ neg'[p] = neg[p] \/ neg'[p] = None
        BY <2>1
    <2>4. \/ <<"meta", p>> \in Todo(u)
          \/ /\ meta'[p].ver # 0 => meta'[p].ver >= op[u].made[p]
             /\ neg'[p].ver # 0 => neg'[p].ver >= op[u].made[p]
        BY <1>1, <1>2, <2>3 DEF Erasing
    <2>5. ASSUME p \in op[u].listed, <<"dir", parent_of(p)>> \notin Todo(u), NEW d \in Dir, p \in DOMAIN dir'[d].facts
          PROVE  dir'[d].facts[p].ver >= op[u].made[p]
        <3>1. dir'[d] = dir[d]
            BY <1>1, <2>5
        <3> QED
            BY <1>1, <1>2, <2>5, <3>1 DEF Erasing
    <2> QED
        BY <2>2, <2>4, <2>5
<1> QED
    BY <1>1, <1>2 DEF Erasing

-----------------------------------------------------------------------------
(* Time passes, and the host changes.                                      *)

LEMMA Ticks ==
    ASSUME NameInv, Tick
    PROVE  NameInv'
<1>1. /\ now \in Nat /\ now' = now + 1 /\ now < MaxTime
      /\ UNCHANGED <<node, retired, inval, changes, meta, neg, dir, metaFloor, listFloor, op>>
    BY DEF Tick, hostVars, caches, floors, NameInv, HostTypes
<1>2. HostTypes'
    BY <1>1, Numbers DEF NameInv, HostTypes
<1>3. CacheTypes' /\ OpTypes' /\ Announced'
    BY <1>1 DEF NameInv, CacheTypes, OpTypes, Announced
<1>4. Within'
    BY <1>1 DEF NameInv, Within, Entries, Listed
<1>5. Stored'
    <2>1. \A e \in Slot : e.at \in Nat /\ (e.at <= now => e.at <= now')
        BY <1>1, Versions
    <2>2. \A d \in Dir : dir[d].at \in Int
        BY Numbers DEF NameInv, CacheTypes
    <2>3. \A d \in Dir : dir[d].at <= now'
        BY <1>1, <2>2 DEF NameInv, Stored
    <2>4. \A p \in Name : meta[p] \in Slot /\ neg[p] \in Slot
        BY DEF NameInv, CacheTypes
    <2> QED
        BY <1>1, <2>1, <2>3, <2>4 DEF NameInv, Stored, Recent
<1>6. Known'
    BY <1>1 DEF NameInv, Known
<1>7. ASSUME NEW t \in Thread
      PROVE  Timed(t)' /\ Shaped(t)' /\ Floored(t)'
    <2>1. Timed(t) /\ Shaped(t) /\ Floored(t) /\ op[t].start \in Nat /\ op[t].since \in Nat /\ Latency \in Nat
        BY OpIs, Numbers DEF NameInv, Worker
    <2>2. op[t].pc \in {"store", "dirstore", "seed"} => now < op[t].since + Latency
        BY DEF Tick
    <2>3. /\ op[t].start <= now' /\ op[t].since <= now'
          /\ op[t].pc \in {"store", "dirstore", "seed"} => now' <= op[t].since + Latency
        BY <1>1, <2>1, <2>2 DEF Timed
    <2>4. Timed(t)'
        BY <1>1, <2>1, <2>3 DEF Timed, Recent, Age
    <2>5. Shaped(t)' /\ Floored(t)'
        BY <1>1, <2>1 DEF Shaped, Floored
    <2> QED
        BY <2>4, <2>5
<1>8. ASSUME NEW u \in Worker PROVE Erasing(u)'
    BY <1>1, StillErased
<1> QED
    BY <1>2, <1>3, <1>4, <1>5, <1>6, <1>7, <1>8 DEF NameInv

\* A version that is not the current one any more was so until now.
LEMMA RecentStays ==
    ASSUME HostTypes, NEW new, NEW announced, Apply(new, announced), NEW p \in Name
    PROVE  /\ node[p].ver \in Nat /\ node'[p].ver \in Nat /\ node[p].ver <= node'[p].ver
           /\ \A v \in Version, w \in Int :
                 w <= now /\ Recent(p, v, w) => v <= node'[p].ver /\ (v < node'[p].ver => retired'[p][v] >= w)
<1>1. /\ node' = [q \in Name |-> IF q \in DOMAIN new
                                 THEN [ver |-> node[q].ver + 1, here |-> new[q]] ELSE node[q]]
      /\ retired' = [q \in Name |-> IF q \in DOMAIN new
                                    THEN [retired[q] EXCEPT ![node[q].ver] = now] ELSE retired[q]]
    BY DEF Apply
<1>2. node[p].ver \in Version /\ node[p].ver \in Nat /\ retired[p] \in [Version -> 0 .. MaxTime] /\ now \in Nat
    BY Versions DEF HostTypes
<1>3. CASE p \notin DOMAIN new
    <2>1. node'[p] = node[p] /\ retired'[p] = retired[p]
        BY <1>1, <1>3
    <2> QED
        BY <1>2, <2>1 DEF Recent
<1>4. CASE p \in DOMAIN new
    <2>1. node'[p].ver = node[p].ver + 1 /\ retired'[p] = [retired[p] EXCEPT ![node[p].ver] = now]
        BY <1>1, <1>4
    <2>2. ASSUME NEW v \in Version, NEW w \in Int, w <= now, Recent(p, v, w)
          PROVE  v <= node'[p].ver /\ (v < node'[p].ver => retired'[p][v] >= w)
        <3>1. v \in Nat /\ v <= node[p].ver /\ (v < node[p].ver => retired[p][v] >= w)
            BY <2>2, Versions DEF Recent
        <3>2. retired'[p][v] = IF v = node[p].ver THEN now ELSE retired[p][v]
            BY <1>2, <2>1
        <3> QED
            BY <1>2, <2>1, <2>2, <3>1, <3>2
    <2> QED
        BY <1>2, <2>1, <2>2
<1> QED
    BY <1>3, <1>4

LEMMA FactIs ==
    ASSUME NEW v \in Version, NEW b \in BOOLEAN
    PROVE  [ver |-> v, here |-> b] \in Fact
BY DEF Fact

LEMMA HostChanges ==
    ASSUME NameInv, NEW new, NEW announced \in SUBSET Name, Apply(new, announced), now' = now,
           \A p \in DOMAIN new : new[p] \in BOOLEAN, UNCHANGED floors
    PROVE  HostTypes' /\ Announced'
<1>1. /\ changes < MaxChanges /\ changes' = changes + 1
      /\ \A p \in DOMAIN new : node[p].ver < MaxVer
      /\ node' = [p \in Name |-> IF p \in DOMAIN new
                                 THEN [ver |-> node[p].ver + 1, here |-> new[p]] ELSE node[p]]
      /\ retired' = [p \in Name |-> IF p \in DOMAIN new
                                    THEN [retired[p] EXCEPT ![node[p].ver] = now] ELSE retired[p]]
      /\ inval' = inval \cup {[path |-> p, ver |-> node'[p].ver] :
                               p \in IF Notifier = {} THEN {} ELSE announced}
    BY DEF Apply
<1>2. ASSUME NEW p \in Name PROVE node'[p] \in Fact
    <2>1. CASE p \in DOMAIN new
        <3>1. node[p].ver + 1 \in Version
            BY <1>1, <2>1, Numbers, Versions DEF NameInv, HostTypes, Version
        <3>2. new[p] \in BOOLEAN
            BY <2>1
        <3>3. node'[p] = [ver |-> node[p].ver + 1, here |-> new[p]]
            BY <1>1, <2>1
        <3> QED
            BY <3>1, <3>2, <3>3, FactIs
    <2>2. CASE p \notin DOMAIN new
        BY <1>1, <2>2 DEF NameInv, HostTypes
    <2> QED
        BY <2>1, <2>2
<1>3. node' \in [Name -> Fact]
    BY <1>1, <1>2
<1>4. retired' \in [Name -> [Version -> 0 .. MaxTime]]
    <2>1. ASSUME NEW p \in Name PROVE [retired[p] EXCEPT ![node[p].ver] = now] \in [Version -> 0 .. MaxTime]
        BY DEF NameInv, HostTypes
    <2> QED
        BY <1>1, <2>1 DEF NameInv, HostTypes
<1>5. \A msg \in inval' : msg \in inval \/ \E p \in Name : msg = [path |-> p, ver |-> node'[p].ver]
    BY <1>1
<1>6. \A p \in Name : node'[p].ver \in Version
    BY <1>2, Versions
<1>7. inval' \subseteq [path : Name, ver : Version]
    BY <1>5, <1>6 DEF NameInv, HostTypes
<1>8. HostTypes'
    BY <1>1, <1>3, <1>4, <1>7, Numbers DEF NameInv, HostTypes, floors
<1>9. Announced'
    <2> SUFFICES ASSUME NEW msg \in inval' PROVE msg.ver <= node'[msg.path].ver
        BY DEF Announced
    <2>1. CASE msg \in inval
        <3>1. msg.path \in Name /\ msg.ver \in Nat /\ msg.ver <= node[msg.path].ver
            BY <2>1, Versions DEF NameInv, HostTypes, Announced
        <3>2. /\ node[msg.path].ver \in Nat /\ node'[msg.path].ver \in Nat
              /\ node[msg.path].ver <= node'[msg.path].ver
            BY <3>1, RecentStays DEF NameInv
        <3> QED
            BY <3>1, <3>2
    <2>2. CASE \E p \in Name : msg = [path |-> p, ver |-> node'[p].ver]
        BY <1>6, <2>2, Versions
    <2> QED
        BY <1>5, <2>1, <2>2
<1> QED
    BY <1>8, <1>9

\* A change at the host keeps all that the caches and the threads it is not the work of rest on.
LEMMA ChangeKeepsRest ==
    ASSUME NameInv, NEW new, NEW announced \in SUBSET Name, Apply(new, announced), UNCHANGED <<now, caches, floors>>
    PROVE  /\ Stored' /\ Known' /\ CacheTypes' /\ Within'
           /\ \A t \in Thread : op'[t] = op[t] => Timed(t)' /\ Shaped(t)' /\ Floored(t)'
           /\ \A u \in Worker : op'[u] = op[u] /\ (\A t \in Thread : op'[t].ans = op[t].ans \/ op'[t].ans = NoFacts)
                 => Erasing(u)'
<1>1. UNCHANGED <<now, meta, neg, dir, metaFloor, listFloor>> /\ HostTypes /\ now \in Nat /\ Latency \in Nat
    BY Numbers DEF caches, floors, NameInv, HostTypes
<1>2. CacheTypes'
    BY <1>1 DEF NameInv, CacheTypes
<1>3. Within'
    BY <1>1 DEF NameInv, Within, Entries, Listed
<1>4. Stored'
    <2>1. ASSUME NEW p \in Name, NEW e \in Slot, e.ver # 0, e.at <= now, Recent(p, e.ver, e.at - Latency)
          PROVE  e.ver <= node'[p].ver /\ (e.ver < node'[p].ver => retired'[p][e.ver] >= e.at - Latency)
        <3>1. e.ver \in Version /\ e.at - Latency \in Int /\ e.at - Latency <= now
            BY <1>1, <2>1, Versions
        <3> QED
            BY <1>1, <2>1, <3>1, RecentStays
    <2>2. ASSUME NEW p \in Name, meta[p].ver # 0
          PROVE  /\ meta[p].at <= now /\ meta[p].ver <= node'[p].ver
                 /\ meta[p].ver < node'[p].ver => retired'[p][meta[p].ver] >= meta[p].at - Latency
        BY <2>1, <2>2 DEF NameInv, Stored, CacheTypes
    <2>3. ASSUME NEW p \in Name, neg[p].ver # 0
          PROVE  /\ neg[p].at <= now /\ neg[p].ver <= node'[p].ver
                 /\ neg[p].ver < node'[p].ver => retired'[p][neg[p].ver] >= neg[p].at - Latency
        BY <2>1, <2>3 DEF NameInv, Stored, CacheTypes
    <2>4. ASSUME NEW d \in Dir, NEW p \in DOMAIN dir[d].facts
          PROVE  /\ p \in Children(d) /\ dir[d].facts[p].ver <= node'[p].ver
                 /\ dir[d].facts[p].ver < node'[p].ver =>
                        retired'[p][dir[d].facts[p].ver] >= dir[d].at - Latency
        <3>1. p \in Children(d) /\ Recent(p, dir[d].facts[p].ver, dir[d].at - Latency) /\ dir[d].at <= now
            BY DEF NameInv, Stored
        <3>2. dir[d].facts \in Partial(Fact) /\ dir[d].at \in Int
            BY Numbers DEF NameInv, CacheTypes
        <3>3. p \in Name /\ dir[d].facts[p].ver \in Version
            BY <3>2, Facts, Versions
        <3>4. dir[d].at - Latency \in Int /\ dir[d].at - Latency <= now
            BY <1>1, <3>1, <3>2
        <3> QED
            BY <1>1, <3>1, <3>3, <3>4, RecentStays
    <2>5. \A d \in Dir : dir[d].at <= now
        BY DEF NameInv, Stored
    <2> QED
        BY <1>1, <2>2, <2>3, <2>4, <2>5 DEF Stored, Recent
<1>5. Known'
    <2>1. ASSUME NEW p \in Name PROVE metaFloor[p] <= node'[p].ver
        <3>1. metaFloor[p] <= node[p].ver /\ metaFloor[p] \in Nat
            BY <1>1, Numbers DEF NameInv, Known, HostTypes
        <3> QED
            BY <1>1, <3>1, RecentStays
    <2> QED
        BY <1>1, <2>1 DEF NameInv, Known
<1>6. ASSUME NEW t \in Thread, op'[t] = op[t]
      PROVE  Timed(t)' /\ Shaped(t)' /\ Floored(t)'
    <2>1. /\ Timed(t) /\ Shaped(t) /\ Floored(t) /\ op[t].start \in Nat /\ op[t].since \in Nat
          /\ op[t].ans \in Partial(Fact) /\ op[t].got \in Partial(Fact)
        BY OpIs, Numbers DEF NameInv, Worker
    <2>2. ASSUME NEW f \in Partial(Fact), NEW p \in DOMAIN f, NEW w \in Int, w <= now, Recent(p, f[p].ver, w)
          PROVE  f[p].ver <= node'[p].ver /\ (f[p].ver < node'[p].ver => retired'[p][f[p].ver] >= w)
        <3>1. p \in Name /\ f[p].ver \in Version
            BY Facts, Versions
        <3> QED
            BY <1>1, <2>2, <3>1, RecentStays
    <2>3. ASSUME NEW p \in DOMAIN op[t].ans
          PROVE  /\ op[t].ans[p].ver <= node'[p].ver
                 /\ op[t].ans[p].ver < node'[p].ver => retired'[p][op[t].ans[p].ver] >= op[t].since
        BY <2>1, <2>2 DEF Timed
    <2>4. ASSUME op[t].pc = "seed", NEW p \in DOMAIN op[t].got
          PROVE  /\ op[t].got[p].ver <= node'[p].ver
                 /\ op[t].got[p].ver < node'[p].ver => retired'[p][op[t].got[p].ver] >= op[t].since
        BY <2>1, <2>2, <2>4 DEF Timed
    <2>5. ASSUME op[t].pc = "reply", NEW p \in DOMAIN op[t].got
          PROVE  /\ op[t].got[p].ver <= node'[p].ver
                 /\ op[t].got[p].ver < node'[p].ver => retired'[p][op[t].got[p].ver] >= op[t].start - Age(t, p)
        <3>1. Age(t, p) \in Nat
            BY Numbers DEF Age
        <3>2. op[t].start - Age(t, p) \in Int /\ op[t].start - Age(t, p) <= now
            BY <1>1, <2>1, <3>1 DEF Timed
        <3>3. Recent(p, op[t].got[p].ver, op[t].start - Age(t, p))
            BY <2>1, <2>5 DEF Timed
        <3> QED
            BY <2>1, <2>2, <3>2, <3>3
    <2>6. \A p : Age(t, p)' = Age(t, p)
        BY <1>6 DEF Age
    <2>7. Timed(t)'
        BY <1>1, <1>6, <2>1, <2>3, <2>4, <2>5, <2>6 DEF Timed, Recent
    <2>8. Shaped(t)'
        BY <1>6, <2>1 DEF Shaped
    <2>9. Floored(t)'
        BY <1>1, <1>6, <2>1 DEF Floored
    <2> QED
        BY <2>7, <2>8, <2>9
<1>7. ASSUME NEW u \in Worker, op'[u] = op[u], \A t \in Thread : op'[t].ans = op[t].ans \/ op'[t].ans = NoFacts
      PROVE  Erasing(u)'
    <2>1. Erasing(u) /\ Todo(u)' = Todo(u)
        BY <1>7 DEF NameInv, Todo
    <2>2. ASSUME NEW p \in DOMAIN op[u].made PROVE op[u].made[p] <= node'[p].ver
        <3>1. p \in Name /\ op[u].made[p] \in Nat /\ op[u].made[p] <= node[p].ver
            BY <2>1, OpIs, Facts, Versions DEF NameInv, Erasing
        <3> QED
            BY <1>1, <3>1, RecentStays
    <2>3. ASSUME NEW p \in DOMAIN op[u].made, op[u].pc = "erase", NEW t \in Thread, p \in DOMAIN op'[t].ans
          PROVE  op'[t].ans[p].ver >= op[u].made[p]
        BY <1>7, <2>1, <2>3, Nothing DEF Erasing
    <2> QED
        BY <1>1, <1>7, <2>1, <2>2, <2>3 DEF Erasing
<1> QED
    BY <1>2, <1>3, <1>4, <1>5, <1>6, <1>7

\* Another client, or a program on the host.
LEMMA ForeignKeeps ==
    ASSUME NameInv, NEW new, NEW announced \in SUBSET Name, Foreign(new, announced),
           \A p \in DOMAIN new : new[p] \in BOOLEAN
    PROVE  NameInv'
<1>1. PICK said \in {{}, announced} : Apply(new, said)
    BY DEF Foreign
<1>2. UNCHANGED <<now, caches, floors, op>> /\ said \in SUBSET Name
    BY DEF Foreign
<1>3. HostTypes' /\ Announced'
    BY <1>1, <1>2, HostChanges
<1>4. /\ Stored' /\ Known' /\ CacheTypes' /\ Within'
      /\ \A t \in Thread : Timed(t)' /\ Shaped(t)' /\ Floored(t)'
      /\ \A u \in Worker : Erasing(u)'
    BY <1>1, <1>2, ChangeKeepsRest
<1>5. OpTypes'
    BY <1>2 DEF NameInv, OpTypes
<1> QED
    BY <1>3, <1>4, <1>5 DEF NameInv

LEMMA NewFacts ==
    /\ \A p : \A q \in DOMAIN Touched(p) : Touched(p)[q] \in BOOLEAN
    /\ \A p : \A q \in DOMAIN Made(p) : Made(p)[q] \in BOOLEAN
    /\ \A p : \A q \in DOMAIN Removed(p) : Removed(p)[q] \in BOOLEAN
    /\ \A from, to : \A q \in DOMAIN Moved(from, to) : Moved(from, to)[q] \in BOOLEAN
BY DEF Touched, Made, Removed, Moved

LEMMA ForeignStepKeeps ==
    ASSUME NameInv, ForeignStep
    PROVE  NameInv'
<1>1. ASSUME NEW p \in Name, Foreign(Touched(p), {p}) PROVE NameInv'
    BY <1>1, NewFacts, ForeignKeeps
<1>2. ASSUME NEW p \in Name, Foreign(Made(p), {p}) PROVE NameInv'
    BY <1>2, NewFacts, ForeignKeeps
<1>3. ASSUME NEW p \in Name, Foreign(Removed(p), {p}) PROVE NameInv'
    BY <1>3, NewFacts, ForeignKeeps
<1>4. ASSUME NEW from \in Name, NEW to \in Name, Foreign(Moved(from, to), {from, to}) PROVE NameInv'
    BY <1>4, NewFacts, ForeignKeeps
<1> QED
    BY <1>1, <1>2, <1>3, <1>4 DEF ForeignStep

-----------------------------------------------------------------------------
(* Mutations of this client.                                               *)

Entrance(p) == <<"meta", p>>
Listing(p) == <<"dir", parent_of(p)>>

\* What a mutation erases covers every path it names, and the listings it changes.
Covers(todo, named, listed) ==
    /\ todo \in Seq({"meta", "dir"} \X Path)
    /\ \A p \in named : \E i \in DOMAIN todo : todo[i] = Entrance(p)
    /\ \A p \in named \cap listed : \E i \in DOMAIN todo : todo[i] = Listing(p)

LEMMA EntryTyped ==
    /\ \A p \in Name : /\ Entrance(p) \in {"meta", "dir"} \X Path /\ Listing(p) \in {"meta", "dir"} \X Path
                       /\ <<"dir", p>> \in {"meta", "dir"} \X Path
    /\ <<>> \in Seq({"meta", "dir"} \X Path)
BY Paths, NoTodo DEF Entrance, Listing

\* Sequences of a few entries.
LEMMA Few ==
    ASSUME NEW S, NEW a \in S, NEW b \in S, NEW c \in S, NEW d \in S, NEW e \in S, NEW f \in S
    PROVE  /\ <<a>> \in Seq(S) /\ 1 \in DOMAIN <<a>> /\ <<a>>[1] = a
           /\ <<a, b>> \in Seq(S) /\ {1, 2} \subseteq DOMAIN <<a, b>> /\ <<a, b>>[1] = a /\ <<a, b>>[2] = b
           /\ <<a, b, c>> \in Seq(S) /\ {1, 2, 3} \subseteq DOMAIN <<a, b, c>>
           /\ <<a, b, c>>[1] = a /\ <<a, b, c>>[2] = b /\ <<a, b, c>>[3] = c
           /\ <<a, b, c, d, e, f>> \in Seq(S) /\ 1 .. 6 \subseteq DOMAIN <<a, b, c, d, e, f>>
           /\ <<a, b, c, d, e, f>>[1] = a /\ <<a, b, c, d, e, f>>[2] = b
           /\ <<a, b, c, d, e, f>>[5] = e /\ <<a, b, c, d, e, f>>[6] = f
OBVIOUS

LEMMA MutationsCover ==
    ASSUME NEW p \in Name, NEW q \in Name
    PROVE  /\ Covers(EraseTouched(p), {p}, {}) /\ Covers(<<>>, {}, {})
           /\ Covers(EraseMade(p), {p}, {p}) /\ Covers(EraseRemoved(p), {p}, {p})
           /\ Covers(EraseNotified(p), {p}, {p}) /\ Covers(EraseMoved(p, q), {p, q}, {p, q})
<1> DEFINE S == {"meta", "dir"} \X Path
           e == Entrance(p)
           l == Listing(p)
           d == <<"dir", p>>
           f == Entrance(q)
           m == Listing(q)
           c == <<"dir", q>>
<1>1. e \in S /\ l \in S /\ d \in S /\ f \in S /\ m \in S /\ c \in S
    BY EntryTyped
<1>2. /\ EraseTouched(p) = <<e>> /\ EraseMade(p) = <<e, l>>
      /\ EraseRemoved(p) = (IF p \in Dir THEN <<e, d, l>> ELSE <<e, l>>)
      /\ EraseNotified(p) = <<e, d, l>> /\ EraseMoved(p, q) = <<e, f, d, c, l, m>>
    BY DEF EraseTouched, EraseMade, EraseRemoved, EraseNotified, EraseMoved, Entrance, Listing
<1> HIDE DEF S, e, l, d, f, m, c
<1>3. <<>> \in Seq(S)
    BY NoTodo DEF S
<1>4. <<e>> \in Seq(S) /\ \E i \in DOMAIN <<e>> : <<e>>[i] = e
    BY <1>1, Few
<1>5. /\ <<e, l>> \in Seq(S) /\ \E i \in DOMAIN <<e, l>> : <<e, l>>[i] = e
      /\ \E i \in DOMAIN <<e, l>> : <<e, l>>[i] = l
    BY <1>1, Few
<1>6. /\ <<e, d, l>> \in Seq(S) /\ \E i \in DOMAIN <<e, d, l>> : <<e, d, l>>[i] = e
      /\ \E i \in DOMAIN <<e, d, l>> : <<e, d, l>>[i] = l
    BY <1>1, Few
<1>7. LET s == <<e, f, d, c, l, m>>
      IN  /\ s \in Seq(S) /\ \E i \in DOMAIN s : s[i] = e
          /\ \E i \in DOMAIN s : s[i] = f
          /\ \E i \in DOMAIN s : s[i] = l
          /\ \E i \in DOMAIN s : s[i] = m
    <2> DEFINE s == <<e, f, d, c, l, m>>
    <2>1. s \in Seq(S) /\ 1 .. 6 \subseteq DOMAIN s /\ s[1] = e /\ s[2] = f /\ s[5] = l /\ s[6] = m
        BY <1>1, Few
    <2> HIDE DEF s
    <2>2. 1 \in DOMAIN s /\ 2 \in DOMAIN s /\ 5 \in DOMAIN s /\ 6 \in DOMAIN s
        BY <2>1
    <2>3. /\ s \in Seq(S) /\ \E i \in DOMAIN s : s[i] = e
          /\ \E i \in DOMAIN s : s[i] = f
          /\ \E i \in DOMAIN s : s[i] = l
          /\ \E i \in DOMAIN s : s[i] = m
        BY <2>1, <2>2
    <2> QED
        BY <2>3 DEF s
<1>8. Covers(EraseTouched(p), {p}, {}) /\ Covers(<<>>, {}, {})
    BY <1>2, <1>3, <1>4 DEF Covers, S, e
<1>9. Covers(EraseMade(p), {p}, {p})
    BY <1>2, <1>5 DEF Covers, S, e, l
<1>10. Covers(EraseNotified(p), {p}, {p})
    BY <1>2, <1>6 DEF Covers, S, e, l
<1>11. Covers(EraseRemoved(p), {p}, {p})
    BY <1>2, <1>5, <1>6 DEF Covers, S, e, l
<1>12. Covers(EraseMoved(p, q), {p, q}, {p, q})
    BY <1>2, <1>7 DEF Covers, S, e, l, f, m
<1> QED
    BY <1>8, <1>9, <1>10, <1>11, <1>12

LEMMA MutateKeeps ==
    ASSUME NameInv, NEW t \in Thread, NEW new, NEW named \in SUBSET Name, NEW listed \in SUBSET Name, NEW todo,
           Mutate(t, new, named, listed, todo), Covers(todo, named, listed),
           \A p \in DOMAIN new : new[p] \in BOOLEAN
    PROVE  NameInv'
<1> DEFINE k == [p \in named |-> node'[p].ver]
           r == [Idle EXCEPT !.pc = "applied", !.todo = todo, !.listed = listed, !.made = k]
<1>1. Apply(new, named) /\ UNCHANGED <<now, caches, floors>> /\ op' = [op EXCEPT ![t] = r] /\ t \in Worker
    BY DEF Mutate, Worker
<1>2. HostTypes' /\ Announced'
    BY <1>1, HostChanges DEF floors
<1>3. k \in Partial(Version) /\ DOMAIN k = named /\ \A p \in named : k[p] = node'[p].ver
    <2>1. \A p \in named : node'[p].ver \in Version
        BY <1>2, Versions DEF HostTypes
    <2> QED
        BY <2>1, Partials
<1> HIDE DEF k
<1>4. r \in OpState
    BY <1>3, IdleTyped DEF Covers, OpState
<1>5. /\ r.pc = "applied" /\ r.start = 0 /\ r.since = 0 /\ r.ans = NoFacts
      /\ r.made = k /\ r.listed = listed /\ r.todo = todo
    BY IdleTyped DEF OpState
<1> HIDE DEF r
<1>6. OpTypes' /\ op'[t] = r /\ \A u \in Worker \ {t} : op'[u] = op[u]
    BY <1>1, <1>4, OpStep DEF NameInv
<1>7. \A u \in Thread : u \in Worker /\ (op'[u].ans = op[u].ans \/ op'[u].ans = NoFacts)
    BY <1>5, <1>6 DEF Worker
<1>8. /\ Stored' /\ Known' /\ CacheTypes' /\ Within'
      /\ \A u \in Thread \ {t} : Timed(u)' /\ Shaped(u)' /\ Floored(u)'
      /\ \A u \in Worker \ {t} : Erasing(u)'
    BY <1>1, <1>6, <1>7, ChangeKeepsRest
<1>9. Timed(t)'
    BY <1>1, <1>5, <1>6, Nothing DEF Timed, NameInv, HostTypes
<1>10. Shaped(t)' /\ Floored(t)'
    BY <1>5, <1>6, Nothing DEF Shaped, Floored
<1>11. Erasing(t)'
    <2>1. \A p \in named : Entrance(p) \in Todo(t)' /\ (p \in listed => Listing(p) \in Todo(t)')
        BY <1>5, <1>6 DEF Covers, Todo
    <2>2. \A p \in named : k[p] <= node'[p].ver
        BY <1>2, <1>3, Versions DEF HostTypes
    <2> QED
        BY <1>3, <1>5, <1>6, <2>1, <2>2 DEF Erasing, Entrance, Listing
<1> QED
    BY <1>2, <1>6, <1>8, <1>9, <1>10, <1>11 DEF NameInv

LEMMA MutateStepKeeps ==
    ASSUME NameInv, NEW t \in Thread, MutateStep(t)
    PROVE  NameInv'
<1>1. ASSUME NEW p \in Name, Mutate(t, Touched(p), {p}, {}, EraseTouched(p)) PROVE NameInv'
    BY <1>1, NewFacts, MutationsCover, MutateKeeps
<1>2. ASSUME NEW p \in Name, Mutate(t, Touched(p), {p}, {p}, EraseMade(p)) PROVE NameInv'
    BY <1>2, NewFacts, MutationsCover, MutateKeeps
<1>3. ASSUME NEW p \in Name, Mutate(t, Touched(p), {}, {}, <<>>) PROVE NameInv'
    <2>1. Covers(<<>>, {}, {}) /\ \A q \in DOMAIN Touched(p) : Touched(p)[q] \in BOOLEAN
        BY NewFacts, MutationsCover
    <2> QED
        BY <1>3, <2>1, MutateKeeps
<1>4. ASSUME NEW p \in Name, Mutate(t, Made(p), {p}, {p}, EraseMade(p)) PROVE NameInv'
    BY <1>4, NewFacts, MutationsCover, MutateKeeps
<1>5. ASSUME NEW p \in Name, Mutate(t, Removed(p), {p}, {p}, EraseRemoved(p)) PROVE NameInv'
    BY <1>5, NewFacts, MutationsCover, MutateKeeps
<1>6. ASSUME NEW from \in Name, NEW to \in Name,
             Mutate(t, Moved(from, to), {from, to}, {from, to}, EraseMoved(from, to))
      PROVE  NameInv'
    <2>1. Covers(EraseMoved(from, to), {from, to}, {from, to}) /\ {from, to} \in SUBSET Name
        BY MutationsCover
    <2>2. \A q \in DOMAIN Moved(from, to) : Moved(from, to)[q] \in BOOLEAN
        BY NewFacts
    <2> QED
        BY <1>6, <2>1, <2>2, MutateKeeps
<1> QED
    BY <1>1, <1>2, <1>3, <1>4, <1>5, <1>6 DEF MutateStep

\* A thread that only turns to its own bookkeeping.
LEMMA OwnStepKeeps ==
    ASSUME NameInv, NEW t \in Worker, UNCHANGED <<now, node, retired, changes, caches, floors>>, inval' \subseteq inval,
           OpTypes', \A u \in Worker \ {t} : op'[u] = op[u],
           op'[t].ans = op[t].ans \/ op'[t].ans = NoFacts,
           t \in Thread => Timed(t)' /\ Shaped(t)' /\ Floored(t)', Erasing(t)'
    PROVE  NameInv'
<1>1. UNCHANGED <<now, node, retired, changes, meta, neg, dir, metaFloor, listFloor>>
    BY DEF caches, floors
<1>2. HostTypes' /\ Announced'
    BY <1>1 DEF NameInv, HostTypes, Announced
<1>3. CacheTypes' /\ Stored' /\ Known'
    BY <1>1 DEF NameInv, CacheTypes, Stored, Recent, Known
<1>4. Within'
    BY <1>1 DEF NameInv, Within, Entries, Listed
<1>5. ASSUME NEW u \in Thread, u # t PROVE Timed(u)' /\ Shaped(u)' /\ Floored(u)'
    <2>1. op'[u] = op[u] /\ Timed(u) /\ Shaped(u) /\ Floored(u)
        BY <1>5 DEF NameInv, Worker
    <2>2. Timed(u)'
        BY <1>1, <2>1, TimedStays
    <2>3. Shaped(u)' /\ Floored(u)'
        BY <1>1, <2>1 DEF Shaped, Floored
    <2> QED
        BY <2>2, <2>3
<1>6. ASSUME NEW u \in Worker, u # t PROVE Erasing(u)'
    <2>1. op'[u] = op[u] /\ Erasing(u) /\ Todo(u)' = Todo(u)
        BY <1>6 DEF NameInv, Todo
    <2>2. \A r \in Thread : op'[r].ans = op[r].ans \/ op'[r].ans = NoFacts
        BY DEF Worker
    <2>3. ASSUME NEW p \in DOMAIN op[u].made, op[u].pc = "erase", NEW r \in Thread, p \in DOMAIN op'[r].ans
          PROVE  op'[r].ans[p].ver >= op[u].made[p]
        BY <2>1, <2>2, <2>3, Nothing DEF Erasing
    <2> QED
        BY <1>1, <2>1, <2>3 DEF Erasing
<1> QED
    BY <1>2, <1>3, <1>4, <1>5, <1>6 DEF NameInv

LEMMA UnackedKeeps ==
    ASSUME NameInv, NEW t \in Worker, op' = [op EXCEPT ![t] = Idle], UNCHANGED <<now, hostVars, caches, floors>>
    PROVE  NameInv'
<1>1. OpTypes' /\ op'[t] = Idle /\ \A u \in Worker \ {t} : op'[u] = op[u]
    BY IdleTyped, OpStep DEF NameInv
<1>2. Timed(t)' /\ Shaped(t)' /\ Floored(t)' /\ Erasing(t)'
    BY <1>1, IdleIsWell DEF NameInv, HostTypes
<1>3. UNCHANGED <<now, node, retired, changes, caches, floors>> /\ inval' \subseteq inval
    BY DEF hostVars
<1> QED
    BY <1>1, <1>2, <1>3, IdleTyped, OwnStepKeeps

\* The versions of made that no answer on its way is going to undo.
LEMMA TimelyIs ==
    ASSUME NameInv, NEW made \in Partial(Version)
    PROVE  /\ Timely(made) \in Partial(Version) /\ DOMAIN Timely(made) \subseteq DOMAIN made
           /\ \A p \in DOMAIN Timely(made) :
                 /\ Timely(made)[p] = made[p]
                 /\ \A r \in Thread : p \in DOMAIN op[r].ans => op[r].ans[p].ver >= made[p]
<1>1. \A p \in DOMAIN made : p \in Name /\ made[p] \in Version
    BY Facts
<1>2. /\ DOMAIN Timely(made) = {q \in DOMAIN made : ~Late(q, made[q])}
      /\ \A p \in DOMAIN Timely(made) : Timely(made)[p] = made[p]
    BY DEF Timely
<1>3. Timely(made) \in Partial(Version)
    <2>1. Timely(made) \in [DOMAIN Timely(made) -> Version]
        BY <1>1, <1>2 DEF Timely
    <2> QED
        BY <1>1, <1>2, <2>1, Partials
<1>4. ASSUME NEW p \in DOMAIN Timely(made), NEW r \in Thread, p \in DOMAIN op[r].ans
      PROVE  op[r].ans[p].ver >= made[p]
    <2>1. ~(op[r].ans[p].ver < made[p])
        BY <1>2, <1>4 DEF Late
    <2>2. op[r].ans[p].ver \in Nat
        BY <1>4, OpIs, Facts, Versions DEF NameInv, Worker
    <2>3. made[p] \in Nat
        BY <1>1, <1>2, Versions
    <2> QED
        BY <2>1, <2>2, <2>3
<1> QED
    BY <1>2, <1>3, <1>4

LEMMA AckedKeeps ==
    ASSUME NameInv, NEW t \in Thread, Acked(t)
    PROVE  NameInv'
<1>1. UNCHANGED <<now, hostVars, caches, floors>> /\ op[t].pc = "applied" /\ t \in Worker /\ op[t] \in OpState
    BY OpIs DEF Acked, NameInv, Worker
<1>2. CASE op[t].todo = <<>>
    <2>1. op' = [op EXCEPT ![t] = Idle]
        BY <1>1, <1>2 DEF Acked
    <2> QED
        BY <1>1, <2>1, UnackedKeeps
<1>3. CASE op[t].todo # <<>>
    <2> DEFINE k == Timely(op[t].made)
               r == [op[t] EXCEPT !.pc = "erase", !.made = k]
    <2>1. op' = [op EXCEPT ![t] = r]
        BY <1>1, <1>3 DEF Acked, NameInv, OpTypes
    <2>2. /\ k \in Partial(Version) /\ DOMAIN k \subseteq DOMAIN op[t].made
          /\ \A p \in DOMAIN k : /\ k[p] = op[t].made[p]
                                 /\ \A s \in Thread : p \in DOMAIN op[s].ans => op[s].ans[p].ver >= op[t].made[p]
        BY <1>1, OpIs, TimelyIs DEF NameInv
    <2> HIDE DEF k
    <2>3. r \in OpState
        BY <1>1, <2>2 DEF OpState
    <2>4. /\ r.pc = "erase" /\ r.start = op[t].start /\ r.since = op[t].since /\ r.ans = op[t].ans
          /\ r.made = k /\ r.listed = op[t].listed /\ r.todo = op[t].todo
        BY <1>1 DEF OpState
    <2> HIDE DEF r
    <2>5. OpTypes' /\ op'[t] = r /\ \A u \in Worker \ {t} : op'[u] = op[u]
        BY <1>1, <2>1, <2>3, OpStep DEF NameInv
    <2>6. /\ Timed(t) /\ Shaped(t) /\ Floored(t) /\ Erasing(t)
          /\ UNCHANGED <<now, node, retired, changes, inval, caches, metaFloor, listFloor, floors>>
        BY <1>1 DEF NameInv, hostVars, floors
    <2>7. Timed(t)'
        <3>1. \A p \in DOMAIN op[t].ans : Recent(p, op[t].ans[p].ver, op[t].since)
            BY <2>6 DEF Timed
        <3>2. op[t].start <= now /\ op[t].since <= now
            BY <2>6 DEF Timed
        <3> QED
            BY <2>4, <2>5, <2>6, <3>1, <3>2 DEF Timed, Recent
    <2>8. Shaped(t)'
        BY <2>4, <2>5 DEF Shaped
    <2>9. Floored(t)'
        BY <2>4, <2>5, <2>6 DEF Floored
    <2>10. Erasing(t)'
        <3>1. Todo(t)' = Todo(t)
            BY <2>4, <2>5 DEF Todo
        <3>2. \A s \in Thread : op'[s].ans = op[s].ans
            BY <2>4, <2>5 DEF Worker
        <3>3. ASSUME NEW p \in DOMAIN k
              PROVE  /\ k[p] <= node[p].ver /\ <<"meta", p>> \in Todo(t)
                     /\ p \in op[t].listed => <<"dir", parent_of(p)>> \in Todo(t)
                     /\ \A s \in Thread : p \in DOMAIN op'[s].ans => op'[s].ans[p].ver >= k[p]
            BY <1>1, <2>2, <2>6, <3>2 DEF Erasing
        <3> QED
            BY <1>3, <2>4, <2>5, <2>6, <3>1, <3>3 DEF Erasing
    <2>11. t \in Thread => Timed(t)' /\ Shaped(t)' /\ Floored(t)'
        BY <2>7, <2>8, <2>9
    <2>12. op'[t].ans = op[t].ans /\ inval' \subseteq inval
        BY <2>4, <2>5, <2>6
    <2> QED
        BY <1>1, <2>5, <2>6, <2>10, <2>11, <2>12, OwnStepKeeps
<1> QED
    BY <1>2, <1>3

LEMMA NotifiedKeeps ==
    ASSUME NameInv, NEW n \in Notifier, NEW msg \in inval, Notified(n, msg)
    PROVE  NameInv'
<1> DEFINE m == [p \in {msg.path} |-> msg.ver]
           k == Timely(m)
           todo == EraseNotified(msg.path)
           r == [Idle EXCEPT !.pc = "erase", !.todo = todo, !.listed = {msg.path}, !.made = k]
<1>1. /\ UNCHANGED <<now, node, retired, changes, caches, floors>> /\ inval' \subseteq inval
      /\ op' = [op EXCEPT ![n] = r] /\ n \in Worker /\ n \notin Thread
    BY Numbers DEF Notified, Worker
<1>2. /\ msg.path \in Name /\ msg.ver \in Version /\ msg.ver <= node[msg.path].ver
    BY DEF NameInv, HostTypes, Announced
<1>3. m \in Partial(Version) /\ DOMAIN m = {msg.path} /\ m[msg.path] = msg.ver
    BY <1>2, Partials
<1> HIDE DEF m
<1>4. /\ k \in Partial(Version) /\ DOMAIN k \subseteq {msg.path}
      /\ \A p \in DOMAIN k : /\ k[p] = msg.ver
                             /\ \A s \in Thread : p \in DOMAIN op[s].ans => op[s].ans[p].ver >= k[p]
    BY <1>3, TimelyIs
<1>5. Covers(todo, {msg.path}, {msg.path})
    BY <1>2, MutationsCover
<1> HIDE DEF k, todo
<1>6. r \in OpState
    BY <1>2, <1>4, <1>5, IdleTyped DEF Covers, OpState
<1>7. /\ r.pc = "erase" /\ r.ans = NoFacts /\ r.made = k /\ r.listed = {msg.path} /\ r.todo = todo
    BY IdleTyped DEF OpState
<1> HIDE DEF r
<1>8. OpTypes' /\ op'[n] = r /\ \A u \in Worker \ {n} : op'[u] = op[u]
    BY <1>1, <1>6, OpStep DEF NameInv
<1>9. Erasing(n)'
    <2>1. Entrance(msg.path) \in Todo(n)' /\ Listing(msg.path) \in Todo(n)'
        BY <1>5, <1>7, <1>8 DEF Covers, Todo
    <2>2. todo # <<>>
        BY <1>5, NoTodo DEF Covers
    <2>3. \A s \in Thread : op'[s] = op[s]
        BY <1>1, <1>8 DEF Worker
    <2>4. \A p \in DOMAIN k : /\ p = msg.path /\ k[p] <= node'[p].ver
                              /\ \A s \in Thread : p \in DOMAIN op'[s].ans => op'[s].ans[p].ver >= k[p]
        BY <1>1, <1>2, <1>4, <2>3
    <2> QED
        BY <1>7, <1>8, <2>1, <2>2, <2>4 DEF Erasing, Entrance, Listing
<1>10. op'[n].ans = NoFacts
    BY <1>7, <1>8
<1> QED
    BY <1>1, <1>8, <1>9, <1>10, OwnStepKeeps

-----------------------------------------------------------------------------
(* An entry is erased.                                                     *)

LEMMA HeadTail ==
    ASSUME NEW S, NEW s \in Seq(S), s # <<>>
    PROVE  /\ Head(s) \in S /\ Tail(s) \in Seq(S) /\ Len(s) \in Nat
           /\ \A i \in DOMAIN s : s[i] = Head(s) \/ \E j \in DOMAIN Tail(s) : Tail(s)[j] = s[i]
           /\ Len(s) = 1 => DOMAIN Tail(s) = {}
           /\ Len(s) # 1 => Tail(s) # <<>>
<1>1. Head(s) \in S /\ Tail(s) \in Seq(S) /\ Len(s) \in Nat /\ Len(s) > 0
    OBVIOUS
<1>2. DOMAIN s = 1 .. Len(s) /\ DOMAIN Tail(s) = 1 .. (Len(s) - 1) /\ Len(Tail(s)) = Len(s) - 1
    OBVIOUS
<1>3. Head(s) = s[1] /\ \A j \in 1 .. (Len(s) - 1) : Tail(s)[j] = s[j + 1]
    OBVIOUS
<1>4. ASSUME NEW i \in DOMAIN s PROVE s[i] = Head(s) \/ \E j \in DOMAIN Tail(s) : Tail(s)[j] = s[i]
    <2>1. CASE i = 1
        BY <1>3, <2>1
    <2>2. CASE i # 1
        <3>1. i - 1 \in 1 .. (Len(s) - 1) /\ (i - 1) + 1 = i
            BY <1>1, <1>2, <2>2
        <3> QED
            BY <1>2, <1>3, <3>1
    <2> QED
        BY <2>1, <2>2
<1>5. Len(s) # 1 => Tail(s) # <<>>
    <2>1. Len(s) # 1 => 1 \in DOMAIN Tail(s)
        BY <1>1, <1>2
    <2> QED
        BY <2>1, NoTodo
<1> QED
    BY <1>1, <1>2, <1>4, <1>5

LEMMA EraseShrinks ==
    ASSUME NameInv, NEW e \in {"meta", "dir"} \X Path, EraseEntry(e), NEW t
    PROVE  /\ \A p \in Name : meta'[p] = meta[p] \/ meta'[p] = None
           /\ \A p \in Name : neg'[p] = neg[p] \/ neg'[p] = None
           /\ \A d \in Dir : dir'[d] = dir[d] \/ dir'[d] = NoList
           /\ \A p \in Name : e = <<"meta", p>> => meta'[p] = None /\ neg'[p] = None
           /\ \A d \in Dir : e = <<"dir", d>> => dir'[d] = NoList
           /\ CacheTypes' /\ Within'
<1>1. /\ meta \in [Name -> Slot] /\ neg \in [Name -> Slot]
      /\ dir \in [Dir -> [facts : Partial(Fact), at : -1 .. MaxTime]]
    BY DEF NameInv, CacheTypes
<1>2. CASE e[1] = "meta"
    <2>1. meta' = [meta EXCEPT ![e[2]] = None] /\ neg' = [neg EXCEPT ![e[2]] = None] /\ dir' = dir
        BY <1>2 DEF EraseEntry
    <2>2. CacheTypes' /\ Within'
        BY <1>1, <2>1, Nones, CachesShrink
    <2> QED
        BY <1>1, <1>2, <2>1, <2>2
<1>3. CASE e[1] # "meta"
    <2>1. meta' = meta /\ neg' = neg /\ dir' = [dir EXCEPT ![e[2]] = NoList]
        BY <1>3 DEF EraseEntry
    <2>2. CacheTypes' /\ Within'
        BY <1>1, <2>1, Nones, CachesShrink
    <2> QED
        BY <1>1, <1>3, <2>1, <2>2
<1> QED
    BY <1>2, <1>3

\* What is stored stays recent when entries only go.
LEMMA ShrinkStored ==
    ASSUME NameInv, UNCHANGED <<now, node, retired>>,
           \A p \in Name : meta'[p] = meta[p] \/ meta'[p] = None,
           \A p \in Name : neg'[p] = neg[p] \/ neg'[p] = None,
           \A d \in Dir : dir'[d] = dir[d] \/ dir'[d] = NoList
    PROVE  Stored'
<1>1. None.ver = 0 /\ NoList.at = -1 /\ DOMAIN NoList.facts = {} /\ now \in Nat
    BY Nones, Lists DEF NameInv, HostTypes
<1>2. \A p \in Name : meta'[p].ver # 0 => meta'[p] = meta[p]
    BY <1>1
<1>3. \A p \in Name : neg'[p].ver # 0 => neg'[p] = neg[p]
    BY <1>1
<1>4. ASSUME NEW d \in Dir
      PROVE  dir'[d] = dir[d] \/ (dir'[d].at <= now /\ DOMAIN dir'[d].facts = {})
    <2>1. NoList.at <= now
        BY <1>1
    <2>2. dir'[d] = dir[d] \/ dir'[d] = NoList
        OBVIOUS
    <2> QED
        BY <1>1, <2>1, <2>2
<1> QED
    BY <1>2, <1>3, <1>4 DEF NameInv, Stored, Recent

\* What a thread has not to erase any more after this entry.
LEMMA ErasesOne ==
    ASSUME NameInv, NEW t \in Worker, op[t].pc = "erase", EraseEntry(Head(op[t].todo)),
           NEW p \in DOMAIN op[t].made
    PROVE  /\ \/ \E j \in DOMAIN Tail(op[t].todo) : Tail(op[t].todo)[j] = <<"meta", p>>
              \/ /\ meta'[p].ver # 0 => meta'[p].ver >= op[t].made[p]
                 /\ neg'[p].ver # 0 => neg'[p].ver >= op[t].made[p]
           /\ p \in op[t].listed =>
                 \/ \E j \in DOMAIN Tail(op[t].todo) : Tail(op[t].todo)[j] = <<"dir", parent_of(p)>>
                 \/ \A d \in Dir : p \in DOMAIN dir'[d].facts => dir'[d].facts[p].ver >= op[t].made[p]
<1> DEFINE s == op[t].todo
           rest == {Tail(s)[j] : j \in DOMAIN Tail(s)}
<1>1. Erasing(t) /\ s \in Seq({"meta", "dir"} \X Path) /\ s # <<>> /\ p \in Name
    <2>1. s \in Seq({"meta", "dir"} \X Path) /\ p \in Name
        BY OpIs, Facts DEF NameInv
    <2> QED
        BY <2>1 DEF NameInv, Erasing
<1>2. Head(s) \in {"meta", "dir"} \X Path /\ \A x \in Todo(t) : x = Head(s) \/ x \in rest
    <2>1. /\ Head(s) \in {"meta", "dir"} \X Path
          /\ \A i \in DOMAIN s : s[i] = Head(s) \/ \E j \in DOMAIN Tail(s) : Tail(s)[j] = s[i]
        BY <1>1, HeadTail
    <2> QED
        BY <2>1 DEF Todo
<1>3. /\ \A q \in Name : meta'[q] = meta[q] \/ meta'[q] = None
      /\ \A q \in Name : neg'[q] = neg[q] \/ neg'[q] = None
      /\ \A d \in Dir : dir'[d] = dir[d] \/ dir'[d] = NoList
      /\ \A q \in Name : Head(s) = <<"meta", q>> => meta'[q] = None /\ neg'[q] = None
      /\ \A d \in Dir : Head(s) = <<"dir", d>> => dir'[d] = NoList
    BY <1>2, EraseShrinks
<1>4. None.ver = 0 /\ DOMAIN NoList.facts = {}
    BY Nones, Lists
<1>5. <<"meta", p>> \in rest \/ /\ meta'[p].ver # 0 => meta'[p].ver >= op[t].made[p]
                                /\ neg'[p].ver # 0 => neg'[p].ver >= op[t].made[p]
    <2>1. CASE <<"meta", p>> \in Todo(t)
        <3> SUFFICES ASSUME <<"meta", p>> \notin rest
                     PROVE  /\ meta'[p].ver # 0 => meta'[p].ver >= op[t].made[p]
                            /\ neg'[p].ver # 0 => neg'[p].ver >= op[t].made[p]
            OBVIOUS
        <3>1. Head(s) = <<"meta", p>>
            BY <1>2, <2>1
        <3>2. meta'[p] = None /\ neg'[p] = None
            BY <1>1, <1>3, <3>1
        <3> QED
            BY <1>4, <3>2
    <2>2. CASE <<"meta", p>> \notin Todo(t)
        <3>1. /\ meta[p].ver # 0 => meta[p].ver >= op[t].made[p]
              /\ neg[p].ver # 0 => neg[p].ver >= op[t].made[p]
            BY <1>1, <2>2 DEF Erasing
        <3>2. meta'[p] = meta[p] \/ meta'[p] = None
            BY <1>1, <1>3
        <3>3. neg'[p] = neg[p] \/ neg'[p] = None
            BY <1>1, <1>3
        <3> QED
            BY <1>4, <3>1, <3>2, <3>3
    <2> QED
        BY <2>1, <2>2
<1>6. ASSUME p \in op[t].listed
      PROVE  \/ <<"dir", parent_of(p)>> \in rest
             \/ \A d \in Dir : p \in DOMAIN dir'[d].facts => dir'[d].facts[p].ver >= op[t].made[p]
    <2> SUFFICES ASSUME <<"dir", parent_of(p)>> \notin rest, NEW d \in Dir, p \in DOMAIN dir'[d].facts
                 PROVE  dir'[d].facts[p].ver >= op[t].made[p]
        OBVIOUS
    <2>1. dir'[d] = dir[d]
        BY <1>3, <1>4
    <2>2. parent_of(p) = d
        <3>1. p \in Children(d)
            BY <2>1 DEF NameInv, Stored
        <3> QED
            BY <3>1, Paths
    <2>3. <<"dir", d>> \notin Todo(t)
        BY <1>2, <1>3, <1>4, <2>2
    <2> QED
        BY <1>1, <1>6, <2>1, <2>2, <2>3 DEF Erasing
<1> QED
    BY <1>5, <1>6

\* An entry goes, and more are to go.
LEMMA ErasesSome ==
    ASSUME NameInv, NEW t \in Worker, op[t].pc = "erase", EraseEntry(Head(op[t].todo)), Len(op[t].todo) # 1,
           op' = [op EXCEPT ![t].todo = Tail(@)], UNCHANGED <<now, hostVars, floors>>
    PROVE  NameInv'
<1> DEFINE s == op[t].todo
           r == [op[t] EXCEPT !.todo = Tail(s)]
<1>1. /\ UNCHANGED <<now, node, retired, inval, changes, metaFloor, listFloor>> /\ op[t] \in OpState /\ Erasing(t)
    BY OpIs DEF hostVars, floors, NameInv
<1>2. s \in Seq({"meta", "dir"} \X Path) /\ s # <<>>
    <2>1. s \in Seq({"meta", "dir"} \X Path)
        BY OpIs DEF NameInv
    <2> QED
        BY <1>1, <2>1 DEF Erasing
<1>3. Head(s) \in {"meta", "dir"} \X Path /\ Tail(s) \in Seq({"meta", "dir"} \X Path) /\ Tail(s) # <<>>
    BY <1>2, HeadTail
<1>4. /\ \A p \in Name : meta'[p] = meta[p] \/ meta'[p] = None
      /\ \A p \in Name : neg'[p] = neg[p] \/ neg'[p] = None
      /\ \A d \in Dir : dir'[d] = dir[d] \/ dir'[d] = NoList
      /\ CacheTypes' /\ Within'
    BY <1>3, EraseShrinks
<1>5. op' = [op EXCEPT ![t] = r]
    BY DEF NameInv, OpTypes
<1>6. r \in OpState
    BY <1>1, <1>3 DEF OpState
<1>7. /\ r.pc = "erase" /\ r.start = op[t].start /\ r.since = op[t].since /\ r.ans = op[t].ans
      /\ r.made = op[t].made /\ r.listed = op[t].listed /\ r.todo = Tail(s)
    BY <1>1 DEF OpState
<1> HIDE DEF r
<1>8. OpTypes' /\ op'[t] = r /\ \A u \in Worker \ {t} : op'[u] = op[u]
    BY <1>5, <1>6, OpStep DEF NameInv
<1>9. HostTypes' /\ Announced'
    BY <1>1 DEF NameInv, HostTypes, Announced
<1>10. Stored'
    BY <1>1, <1>4, ShrinkStored
<1>11. None.ver = 0 /\ DOMAIN NoList.facts = {}
    BY Nones, Lists
<1>12. Known'
    <2>1. \A p \in Name : listFloor[p] <= metaFloor[p] /\ metaFloor[p] <= node[p].ver
        BY DEF NameInv, Known
    <2>2. \A p \in Name : meta'[p].ver # 0 => meta'[p].ver >= metaFloor[p]
        BY <1>4, <1>11 DEF NameInv, Known
    <2>3. \A p \in Name : neg'[p].ver # 0 => neg'[p].ver >= metaFloor[p]
        BY <1>4, <1>11 DEF NameInv, Known
    <2>4. \A d \in Dir : \A p \in DOMAIN dir'[d].facts : dir'[d].facts[p].ver >= listFloor[p]
        BY <1>4, <1>11 DEF NameInv, Known
    <2> QED
        BY <1>1, <2>1, <2>2, <2>3, <2>4 DEF Known
<1>13. ASSUME NEW u \in Thread PROVE Timed(u)' /\ Shaped(u)' /\ Floored(u)'
    <2>1. CASE u # t
        <3>1. op'[u] = op[u] /\ Timed(u) /\ Shaped(u) /\ Floored(u)
            BY <1>8, <2>1 DEF NameInv, Worker
        <3>2. Timed(u)'
            BY <1>1, <3>1, TimedStays
        <3>3. Shaped(u)' /\ Floored(u)'
            BY <1>1, <3>1 DEF Shaped, Floored
        <3> QED
            BY <3>2, <3>3
    <2>2. CASE u = t
        <3>1. Timed(t) /\ Floored(t)
            BY <2>2 DEF NameInv
        <3>2. op[t].start <= now /\ op[t].since <= now
            BY <3>1 DEF Timed
        <3>3. \A p \in DOMAIN op[t].ans : Recent(p, op[t].ans[p].ver, op[t].since)
            BY <3>1 DEF Timed
        <3>4. Timed(t)'
            BY <1>1, <1>7, <1>8, <3>2, <3>3 DEF Timed, Recent
        <3>5. Shaped(t)' /\ Floored(t)'
            BY <1>1, <1>7, <1>8, <3>1 DEF Shaped, Floored
        <3> QED
            BY <2>2, <3>4, <3>5
    <2> QED
        BY <2>1, <2>2
<1>14. \A q \in Thread : op'[q].ans = op[q].ans
    BY <1>7, <1>8 DEF Worker
<1>15. ASSUME NEW u \in Worker, u # t PROVE Erasing(u)'
    BY <1>1, <1>4, <1>8, <1>11, <1>14, <1>15, StillErased
<1>16. Erasing(t)'
    <2>1. \A x : (\E j \in DOMAIN Tail(s) : Tail(s)[j] = x) => x \in Todo(t)'
        BY <1>7, <1>8 DEF Todo
    <2>2. ASSUME NEW p \in DOMAIN op[t].made
          PROVE  /\ \/ <<"meta", p>> \in Todo(t)'
                    \/ /\ meta'[p].ver # 0 => meta'[p].ver >= op[t].made[p]
                       /\ neg'[p].ver # 0 => neg'[p].ver >= op[t].made[p]
                 /\ p \in op[t].listed =>
                       \/ <<"dir", parent_of(p)>> \in Todo(t)'
                       \/ \A d \in Dir : p \in DOMAIN dir'[d].facts => dir'[d].facts[p].ver >= op[t].made[p]
        BY <2>1, ErasesOne
    <2>3. ASSUME NEW p \in DOMAIN op[t].made
          PROVE  /\ op[t].made[p] <= node'[p].ver
                 /\ \A q \in Thread : p \in DOMAIN op'[q].ans => op'[q].ans[p].ver >= op[t].made[p]
        BY <1>1, <1>14 DEF Erasing
    <2> QED
        BY <1>3, <1>7, <1>8, <2>2, <2>3 DEF Erasing
<1> QED
    BY <1>4, <1>8, <1>9, <1>10, <1>12, <1>13, <1>15, <1>16 DEF NameInv

LEMMA MaxIs ==
    \A a, b \in Nat : Max2(a, b) \in {a, b} /\ Max2(a, b) >= a /\ Max2(a, b) >= b
BY DEF Max2

LEMMA RaisedIs ==
    ASSUME NEW floor \in [Name -> 0 .. MaxVer], NEW made \in Partial(Version)
    PROVE  /\ Raised(floor, made) \in [Name -> 0 .. MaxVer]
           /\ \A p \in Name : /\ floor[p] \in Nat /\ Raised(floor, made)[p] \in Nat
                              /\ Raised(floor, made)[p] >= floor[p]
                              /\ p \in DOMAIN made => made[p] \in Nat /\ Raised(floor, made)[p] = Max2(floor[p], made[p])
                              /\ p \notin DOMAIN made => Raised(floor, made)[p] = floor[p]
<1>1. \A p \in DOMAIN made : made[p] \in Version
    BY Facts
<1>2. Version \subseteq 0 .. MaxVer /\ 0 .. MaxVer \subseteq Nat
    BY Numbers DEF Version
<1>3. ASSUME NEW p \in Name
      PROVE  /\ floor[p] \in Nat /\ Raised(floor, made)[p] \in 0 .. MaxVer
             /\ Raised(floor, made)[p] >= floor[p]
             /\ p \in DOMAIN made => made[p] \in Nat /\ Raised(floor, made)[p] = Max2(floor[p], made[p])
             /\ p \notin DOMAIN made => Raised(floor, made)[p] = floor[p]
    <2>1. floor[p] \in 0 .. MaxVer /\ floor[p] \in Nat
        BY <1>2
    <2>2. CASE p \in DOMAIN made
        <3>1. made[p] \in 0 .. MaxVer /\ made[p] \in Nat
            BY <1>1, <1>2, <2>2
        <3>2. Raised(floor, made)[p] = Max2(floor[p], made[p])
            BY <2>2 DEF Raised
        <3>3. Max2(floor[p], made[p]) \in {floor[p], made[p]} /\ Max2(floor[p], made[p]) >= floor[p]
            BY <2>1, <3>1, MaxIs
        <3> QED
            BY <2>1, <2>2, <3>1, <3>2, <3>3
    <2>3. CASE p \notin DOMAIN made
        <3>1. Raised(floor, made)[p] = floor[p]
            BY <2>3 DEF Raised
        <3> QED
            BY <2>1, <2>3, <3>1
    <2> QED
        BY <2>2, <2>3
<1>4. Raised(floor, made) = [p \in Name |-> Raised(floor, made)[p]]
    BY DEF Raised
<1> QED
    BY <1>2, <1>3, <1>4

\* The last entry goes: what was made is known.
LEMMA ErasesLast ==
    ASSUME NameInv, NEW t \in Worker, op[t].pc = "erase", EraseEntry(Head(op[t].todo)), Len(op[t].todo) = 1,
           op' = [op EXCEPT ![t] = Idle], UNCHANGED <<now, hostVars>>,
           metaFloor' = Raised(metaFloor, op[t].made),
           listFloor' = Raised(listFloor, [p \in DOMAIN op[t].made \cap op[t].listed |-> op[t].made[p]])
    PROVE  NameInv'
<1> DEFINE s == op[t].todo
           m == op[t].made
           l == [p \in DOMAIN m \cap op[t].listed |-> m[p]]
<1>1. UNCHANGED <<now, node, retired, inval, changes>> /\ Erasing(t) /\ HostTypes /\ m \in Partial(Version)
    BY OpIs DEF hostVars, NameInv
<1>2. s \in Seq({"meta", "dir"} \X Path) /\ s # <<>>
    <2>1. s \in Seq({"meta", "dir"} \X Path)
        BY OpIs DEF NameInv
    <2> QED
        BY <1>1, <2>1 DEF Erasing
<1>3. Head(s) \in {"meta", "dir"} \X Path /\ DOMAIN Tail(s) = {}
    BY <1>2, HeadTail
<1>4. /\ \A p \in Name : meta'[p] = meta[p] \/ meta'[p] = None
      /\ \A p \in Name : neg'[p] = neg[p] \/ neg'[p] = None
      /\ \A d \in Dir : dir'[d] = dir[d] \/ dir'[d] = NoList
      /\ CacheTypes' /\ Within'
    BY <1>3, EraseShrinks
<1>5. OpTypes' /\ op'[t] = Idle /\ \A u \in Worker \ {t} : op'[u] = op[u]
    BY IdleTyped, OpStep DEF NameInv
<1>6. l \in Partial(Version) /\ DOMAIN l = DOMAIN m \cap op[t].listed /\ \A p \in DOMAIN l : l[p] = m[p]
    <2>1. DOMAIN m \subseteq Name /\ \A p \in DOMAIN m : m[p] \in Version
        BY <1>1, Facts
    <2> QED
        BY <2>1, Partials
<1> HIDE DEF l
<1>7. metaFloor' = Raised(metaFloor, m) /\ listFloor' = Raised(listFloor, l)
    BY DEF l
<1>8. metaFloor' \in [Name -> 0 .. MaxVer] /\ listFloor' \in [Name -> 0 .. MaxVer]
    BY <1>1, <1>6, <1>7, RaisedIs DEF HostTypes
<1>9. \A p \in Name :
          /\ metaFloor[p] \in Nat /\ listFloor[p] \in Nat
          /\ metaFloor'[p] \in Nat /\ metaFloor'[p] >= metaFloor[p]
          /\ listFloor'[p] \in Nat /\ listFloor'[p] >= listFloor[p]
          /\ p \in DOMAIN m => m[p] \in Nat /\ metaFloor'[p] \in {metaFloor[p], m[p]} /\ metaFloor'[p] >= m[p]
          /\ p \notin DOMAIN m => metaFloor'[p] = metaFloor[p]
          /\ p \in DOMAIN l => listFloor'[p] \in {listFloor[p], m[p]}
          /\ p \notin DOMAIN l => listFloor'[p] = listFloor[p]
    BY <1>1, <1>6, <1>7, RaisedIs, MaxIs DEF HostTypes
<1>10. HostTypes' /\ Announced'
    BY <1>1, <1>8 DEF NameInv, HostTypes, Announced
<1>11. Stored'
    BY <1>1, <1>4, ShrinkStored
<1>12. None.ver = 0 /\ DOMAIN NoList.facts = {}
    BY Nones, Lists
<1>13. ASSUME NEW p \in DOMAIN m
       PROVE  /\ m[p] <= node[p].ver
              /\ meta'[p].ver # 0 => meta'[p].ver >= m[p]
              /\ neg'[p].ver # 0 => neg'[p].ver >= m[p]
              /\ p \in op[t].listed => \A d \in Dir : p \in DOMAIN dir'[d].facts => dir'[d].facts[p].ver >= m[p]
              /\ \A r \in Thread : p \in DOMAIN op[r].ans => op[r].ans[p].ver >= m[p]
    <2>1. m[p] <= node[p].ver /\ \A r \in Thread : p \in DOMAIN op[r].ans => op[r].ans[p].ver >= m[p]
        BY <1>1 DEF Erasing
    <2>2. ~(\E j \in DOMAIN Tail(s) : Tail(s)[j] = <<"meta", p>>)
          /\ ~(\E j \in DOMAIN Tail(s) : Tail(s)[j] = <<"dir", parent_of(p)>>)
        BY <1>3
    <2>3. /\ meta'[p].ver # 0 => meta'[p].ver >= m[p]
          /\ neg'[p].ver # 0 => neg'[p].ver >= m[p]
        BY <2>2, ErasesOne
    <2>4. p \in op[t].listed => \A d \in Dir : p \in DOMAIN dir'[d].facts => dir'[d].facts[p].ver >= m[p]
        BY <2>2, ErasesOne
    <2> QED
        BY <2>1, <2>3, <2>4

<1>14. Known'
    <2>1. ASSUME NEW p \in Name
          PROVE  listFloor'[p] <= metaFloor'[p] /\ metaFloor'[p] <= node[p].ver
        <3>1. listFloor[p] <= metaFloor[p] /\ metaFloor[p] <= node[p].ver
            BY DEF NameInv, Known
        <3>2. CASE p \in DOMAIN m
            <4>1. m[p] <= node[p].ver /\ m[p] \in Nat /\ metaFloor'[p] \in {metaFloor[p], m[p]} /\ metaFloor'[p] >= m[p]
                BY <1>9, <1>13, <3>2
            <4>2. listFloor'[p] \in {listFloor[p], m[p]}
                BY <1>9
            <4>3. /\ metaFloor[p] \in Nat /\ listFloor[p] \in Nat
                  /\ metaFloor'[p] \in Nat /\ metaFloor'[p] >= metaFloor[p]
                BY <1>9
            <4> QED
                BY <3>1, <4>1, <4>2, <4>3
        <3>3. CASE p \notin DOMAIN m
            <4>1. metaFloor'[p] = metaFloor[p] /\ listFloor'[p] = listFloor[p]
                BY <1>6, <1>9, <3>3
            <4> QED
                BY <3>1, <4>1
        <3> QED
            BY <3>2, <3>3
    <2>2. ASSUME NEW p \in Name, meta'[p].ver # 0 PROVE meta'[p].ver >= metaFloor'[p]
        <3>1. meta'[p].ver >= metaFloor[p]
            BY <1>4, <1>12, <2>2 DEF NameInv, Known
        <3> QED
            BY <1>9, <1>13, <2>2, <3>1
    <2>3. ASSUME NEW p \in Name, neg'[p].ver # 0 PROVE neg'[p].ver >= metaFloor'[p]
        <3>1. neg'[p].ver >= metaFloor[p]
            BY <1>4, <1>12, <2>3 DEF NameInv, Known
        <3> QED
            BY <1>9, <1>13, <2>3, <3>1
    <2>4. ASSUME NEW d \in Dir, NEW p \in DOMAIN dir'[d].facts PROVE dir'[d].facts[p].ver >= listFloor'[p]
        <3>1. dir'[d] = dir[d]
            BY <1>4, <1>12
        <3>2. dir'[d].facts[p].ver >= listFloor[p] /\ p \in Name
            BY <3>1, Paths DEF NameInv, Known, Stored
        <3> QED
            BY <1>6, <1>9, <1>13, <3>2
    <2> QED
        BY <1>1, <2>1, <2>2, <2>3, <2>4 DEF Known
<1>15. ASSUME NEW u \in Thread PROVE Timed(u)' /\ Shaped(u)' /\ Floored(u)'
    <2>1. CASE u = t
        BY <1>1, <1>5, <2>1, IdleIsWell DEF HostTypes
    <2>2. CASE u # t
        <3>1. /\ op'[u] = op[u] /\ Timed(u) /\ Shaped(u) /\ Floored(u)
              /\ op[u].ans \in Partial(Fact) /\ op[u].floor \in Partial(0 .. MaxVer)
            BY <1>5, <2>2, OpIs DEF NameInv, Worker
        <3>2. Timed(u)'
            BY <1>1, <3>1, TimedStays
        <3>3. Shaped(u)'
            BY <3>1 DEF Shaped
        <3>4. ASSUME NEW p \in DOMAIN op[u].ans PROVE op[u].ans[p].ver >= metaFloor'[p]
            <4>1. p \in Name /\ op[u].ans[p].ver >= metaFloor[p]
                BY <3>1, Facts DEF Floored
            <4> QED
                BY <1>9, <1>13, <4>1
        <3>5. \A p \in DOMAIN op[u].floor : op[u].floor[p] \in Nat /\ p \in Name
            BY <3>1, Facts, Numbers
        <3>6. ASSUME op[u].pc \in {"meta", "neg", "ask", "store"}, NEW p \in DOMAIN op[u].floor
              PROVE  op[u].floor[p] <= metaFloor'[p]
            <4>1. op[u].floor[p] <= metaFloor[p]
                BY <3>1, <3>6 DEF Floored
            <4>2. p \in Name /\ op[u].floor[p] \in Nat
                BY <3>5
            <4>3. metaFloor[p] \in Nat /\ metaFloor'[p] \in Nat /\ metaFloor'[p] >= metaFloor[p]
                BY <1>9, <4>2
            <4> QED
                BY <4>1, <4>2, <4>3
        <3>7. ASSUME op[u].pc \in {"dir", "list", "dirstore", "seed"}, NEW p \in DOMAIN op[u].floor
              PROVE  op[u].floor[p] <= listFloor'[p]
            <4>1. op[u].floor[p] <= listFloor[p]
                BY <3>1, <3>7 DEF Floored
            <4>2. p \in Name /\ op[u].floor[p] \in Nat
                BY <3>5
            <4>3. listFloor[p] \in Nat /\ listFloor'[p] \in Nat /\ listFloor'[p] >= listFloor[p]
                BY <1>9, <4>2
            <4> QED
                BY <4>1, <4>2, <4>3
        <3>8. op[u].pc \in {"seed", "reply"} => \A p \in DOMAIN op[u].got : op[u].got[p].ver >= op[u].floor[p]
            BY <3>1 DEF Floored
        <3>9. Floored(u)'
            BY <3>1, <3>4, <3>6, <3>7, <3>8 DEF Floored
        <3> QED
            BY <3>2, <3>3, <3>9
    <2> QED
        BY <2>1, <2>2
<1>16. ASSUME NEW u \in Worker PROVE Erasing(u)'
    <2>1. CASE u = t
        BY <1>1, <1>5, <2>1, IdleIsWell DEF HostTypes
    <2>2. CASE u # t
        <3>1. \A q \in Thread : op'[q].ans = op[q].ans \/ op'[q].ans = NoFacts
            BY <1>5, IdleTyped DEF Worker
        <3>2. op'[u] = op[u]
            BY <1>5, <2>2
        <3> QED
            BY <1>1, <1>4, <3>1, <3>2, StillErased
    <2> QED
        BY <2>1, <2>2
<1> QED
    BY <1>4, <1>5, <1>10, <1>11, <1>14, <1>15, <1>16 DEF NameInv

-----------------------------------------------------------------------------
(* The theorems.                                                           *)

LEMMA StepKeepsInv == NameInv /\ [Next]_vars => NameInv'
<1> SUFFICES ASSUME NameInv, [Next]_vars PROVE NameInv'
    OBVIOUS
<1>1. CASE Tick
    BY <1>1, Ticks
<1>2. CASE ForeignStep
    BY <1>2, ForeignStepKeeps
<1>3. ASSUME NEW t \in Thread, NEW p \in Name, StartGetattr(t, p) PROVE NameInv'
    BY <1>3, StartsGetattr
<1>4. ASSUME NEW t \in Thread, NEW d \in Dir, StartReaddir(t, d) PROVE NameInv'
    BY <1>4, StartsReaddir
<1>5. ASSUME NEW t \in Thread, LookupStep(t) PROVE NameInv'
    BY <1>5, LookupsKeep
<1>6. ASSUME NEW t \in Thread, MutateStep(t) PROVE NameInv'
    BY <1>6, MutateStepKeeps
<1>7. ASSUME NEW t \in Thread, Acked(t) PROVE NameInv'
    BY <1>7, AckedKeeps
<1>8. ASSUME NEW t \in Thread, Unacked(t) PROVE NameInv'
    BY <1>8, UnackedKeeps DEF Unacked, Worker
<1>9. ASSUME NEW n \in Notifier, NEW msg \in inval, Notified(n, msg) PROVE NameInv'
    BY <1>9, NotifiedKeeps
<1>10. ASSUME NEW t \in Worker, Erase(t) PROVE NameInv'
    <2>1. op[t].pc = "erase" /\ EraseEntry(Head(op[t].todo)) /\ UNCHANGED <<now, hostVars>>
        BY <1>10 DEF Erase
    <2>2. CASE Len(op[t].todo) = 1
        BY <1>10, <2>1, <2>2, ErasesLast DEF Erase
    <2>3. CASE Len(op[t].todo) # 1
        <3>1. op' = [op EXCEPT ![t].todo = Tail(@)] /\ UNCHANGED floors
            BY <1>10, <2>3 DEF Erase
        <3> QED
            BY <2>1, <2>3, <3>1, ErasesSome
    <2> QED
        BY <2>2, <2>3
<1>11. CASE UNCHANGED vars
    <2>1. UNCHANGED <<now, node, retired, inval, changes, meta, neg, dir, metaFloor, listFloor, op>>
        BY <1>11 DEF vars, hostVars, caches, floors
    <2>2. HostTypes' /\ CacheTypes' /\ OpTypes' /\ Announced'
        BY <2>1 DEF NameInv, HostTypes, CacheTypes, OpTypes, Announced
    <2>3. Within'
        BY <2>1 DEF NameInv, Within, Entries, Listed
    <2>4. Stored' /\ Known'
        BY <2>1 DEF NameInv, Stored, Known, Recent
    <2>5. ASSUME NEW t \in Thread PROVE Timed(t)' /\ Shaped(t)' /\ Floored(t)'
        <3>1. Timed(t) /\ Shaped(t) /\ Floored(t)
            BY DEF NameInv
        <3>2. Timed(t)'
            BY <2>1, <3>1, TimedStays
        <3>3. Shaped(t)' /\ Floored(t)'
            BY <2>1, <3>1 DEF Shaped, Floored
        <3> QED
            BY <3>2, <3>3
    <2>6. \A u \in Worker : Erasing(u)'
        BY <2>1, StillErased
    <2> QED
        BY <2>2, <2>3, <2>4, <2>5, <2>6 DEF NameInv
<1> QED
    BY <1>1, <1>2, <1>3, <1>4, <1>5, <1>6, <1>7, <1>8, <1>9, <1>10, <1>11 DEF Next

\* The inductive invariant holds.
LEMMA NameInvariant == Spec => []NameInv
BY InitHolds, StepKeepsInv, PTL DEF Spec

\* The variables have their types and no cache outgrows its limit, whatever a listing seeds
\* (trim in client/src/fs/ram_cache.cpp runs before an entry is put in).
THEOREM NamesTyped == Spec => []TypeOK
<1>1. NameInv => TypeOK
    <2> SUFFICES ASSUME NameInv PROVE TypeOK
        OBVIOUS
    <2>1. HostTypes /\ CacheTypes /\ OpTypes /\ Within /\ Stored
        BY DEF NameInv
    <2>2. ASSUME NEW d \in Dir PROVE dir[d].at \in -1 .. MaxTime /\ Maps(dir[d].facts, Children(d), Fact)
        <3>1. dir[d].at \in -1 .. MaxTime /\ dir[d].facts \in Partial(Fact)
            BY <2>1 DEF CacheTypes
        <3>2. \A p \in DOMAIN dir[d].facts : p \in Children(d)
            BY <2>1 DEF Stored
        <3> QED
            BY <3>1, <3>2, Facts DEF Maps
    <2>3. ASSUME NEW t \in Worker
          PROVE  /\ op[t].pc \in {"idle", "meta", "neg", "ask", "store", "dir", "list", "dirstore", "seed",
                                  "reply", "applied", "erase"}
                 /\ Maps(op[t].ans, Name, Fact) /\ Maps(op[t].got, Name, Fact)
                 /\ Maps(op[t].made, Name, Version) /\ Maps(op[t].floor, Name, 0 .. MaxVer)
        <3>1. op[t] \in OpState
            BY <2>1 DEF OpTypes
        <3> QED
            BY <2>1, <3>1, OpIs, Facts DEF Maps, OpState
    <2> QED
        BY <2>1, <2>2, <2>3 DEF TypeOK, HostTypes, CacheTypes, Within, Slot
<1> QED
    BY <1>1, NameInvariant, PTL

\* Whatever is lost, late or evicted, what a lookup answers was true no longer ago than the time to
\* live of the cache it may come from and the time an answer travels (metaLookup, negLookup and
\* dirLookup in client/src/fs/ram_cache.cpp).
THEOREM AnswersAreRecent == Spec => []NamesHeal
<1>1. NameInv => NamesHeal
    <2> SUFFICES ASSUME NameInv, NEW t \in Thread, op[t].pc = "reply", NEW p \in DOMAIN op[t].got
                 PROVE  \/ op[t].got[p].ver = node[p].ver
                        \/ retired[p][op[t].got[p].ver] >= op[t].start - Age(t, p)
        BY DEF NamesHeal
    <2>1. p \in Name /\ op[t].got[p].ver \in Nat /\ node[p].ver \in Nat
        BY OpIs, Facts, Versions DEF NameInv, HostTypes, Worker
    <2>2. Recent(p, op[t].got[p].ver, op[t].start - Age(t, p))
        BY DEF NameInv, Timed
    <2> QED
        BY <2>1, <2>2 DEF Recent
<1> QED
    BY <1>1, NameInvariant, PTL

\* What this client changed, or was told of, no later lookup undoes: the erasures of a mutation and
\* of the OP_INVALIDATE callback (client/src/fs/ram_cache.cpp) reach every entry that could.
THEOREM ChangesAreSeen == Spec => []OwnChangesSeen
<1>1. NameInv => OwnChangesSeen
    BY DEF NameInv, OwnChangesSeen, Floored
<1> QED
    BY <1>1, NameInvariant, PTL

=============================================================================
