------------------------------ MODULE NameCache ------------------------------
(***************************************************************************)
(* The name side of the mount's cache, client/src/fs/ram_cache.cpp: the    *)
(* metadata, negative and directory caches with doGetattr, doReaddir, the  *)
(* mutating cases of RamCache::request and the OP_INVALIDATE callback.     *)
(*                                                                         *)
(* Every step is one critical section of metaMtx or dirMtx, or one answer  *)
(* of the host.  metaMtx is released between metaLookup and negLookup and  *)
(* between two entries that a listing seeds; an invalidation erases one    *)
(* entry at a time; a request holds no lock.                               *)
(*                                                                         *)
(* What the host knows of a path is a version, which grows with every      *)
(* change of its attributes or of its existence.  A path is a sequence of  *)
(* names, so that parent_of and join_path are what they are in the code.   *)
(***************************************************************************)
EXTENDS Integers, Sequences, FiniteSets

CONSTANTS
    Name,               \* paths of the share, the root <<>> left out
    Dir,                \* those that are directories when they exist, and the root
    Thread,             \* mount threads
    Notifier,           \* connection reader threads that run the OP_INVALIDATE callback
    MetaTtl, NegTtl, DirTtl,    \* kMetaTtlMs, kNegTtlMs, kDirTtlMs, in ticks
    MetaMax, NegMax, DirMax,    \* kMetaMax, kNegMax, kDirMax
    Latency,            \* ticks an answer of the host may travel before it is all stored
    MaxVer, MaxTime, MaxChanges     \* bounds of the model

ASSUME NameCacheAssumption ==
    /\ Name \subseteq Seq(STRING) \ {<<>>} /\ Dir \subseteq Name \cup {<<>>} /\ <<>> \in Dir
    /\ IsFiniteSet(Name) /\ Thread \cap Notifier = {}
    /\ MetaTtl \in Nat /\ NegTtl \in Nat /\ DirTtl \in Nat /\ Latency \in Nat
    /\ MetaMax \in Nat \ {0} /\ NegMax \in Nat \ {0} /\ DirMax \in Nat \ {0}
    /\ MaxVer \in Nat \ {0} /\ MaxTime \in Nat /\ MaxChanges \in Nat

Worker == Thread \cup Notifier
Version == 1 .. MaxVer
Fact == [ver : Version, here : BOOLEAN]

parent_of(p) == SubSeq(p, 1, Len(p) - 1)
Children(d) == {p \in Name : parent_of(p) = d}
Under(p) == {q \in Name : Len(q) >= Len(p) /\ SubSeq(q, 1, Len(p)) = p}

VARIABLES
    now,        \* steady_clock, in ticks
    node,       \* host: the current fact of each path
    retired,    \* history: when a version stopped being the current one
    inval,      \* OP_INVALIDATE messages under way
    changes,    \* changes at the host so far (bound)
    meta,       \* Impl::meta: version and time of the entry, version 0 where there is none
    neg,        \* Impl::neg: the same, of the ENOENT it stands for
    dir,        \* Impl::dir: listings
    metaFloor,  \* history: the version of a path that this client has made, or was told of
    listFloor,  \* history: the same, of its entry in the listing of its parent
    op          \* the threads

hostVars == <<node, retired, inval, changes>>
caches == <<meta, neg, dir>>
floors == <<metaFloor, listFloor>>
vars == <<now, hostVars, caches, floors, op>>

None == [ver |-> 0, at |-> 0]
NoFacts == [p \in {} |-> 0]
NoList == [facts |-> NoFacts, at |-> -1]
Idle == [pc |-> "idle", path |-> <<>>, start |-> 0, since |-> 0, floor |-> NoFacts,
         ans |-> NoFacts, got |-> NoFacts, made |-> NoFacts, listed |-> {}, todo |-> <<>>]

Max2(a, b) == IF a > b THEN a ELSE b
Entries(m) == {p \in Name : m[p] # None}
Listed == {d \in Dir : dir[d] # NoList}
Here(p) == p = <<>> \/ (p \in Name /\ node[p].here)
Maps(f, S, values) == DOMAIN f \subseteq S /\ \A p \in DOMAIN f : f[p] \in values

\* The variables have their types, and the caches stay within their limits.
TypeOK ==
    /\ Cardinality(Entries(meta)) <= MetaMax /\ Cardinality(Entries(neg)) <= NegMax
    /\ Cardinality(Listed) <= DirMax
    /\ now \in 0 .. MaxTime /\ changes \in 0 .. MaxChanges
    /\ node \in [Name -> Fact] /\ retired \in [Name -> [Version -> 0 .. MaxTime]]
    /\ meta \in [Name -> [ver : 0 .. MaxVer, at : 0 .. MaxTime]]
    /\ neg \in [Name -> [ver : 0 .. MaxVer, at : 0 .. MaxTime]]
    /\ \A d \in Dir : dir[d].at \in -1 .. MaxTime /\ Maps(dir[d].facts, Children(d), Fact)
    /\ metaFloor \in [Name -> 0 .. MaxVer] /\ listFloor \in [Name -> 0 .. MaxVer]
    /\ inval \subseteq [path : Name, ver : Version]
    /\ \A t \in Worker :
          /\ op[t].pc \in {"idle", "meta", "neg", "ask", "store", "dir", "list", "dirstore", "seed",
                           "reply", "applied", "erase"}
          /\ Maps(op[t].ans, Name, Fact) /\ Maps(op[t].got, Name, Fact)
          /\ Maps(op[t].made, Name, Version) /\ Maps(op[t].floor, Name, 0 .. MaxVer)

Init ==
    /\ now = 0 /\ changes = 0
    /\ \E there \in SUBSET Name :
          /\ \A p \in there : parent_of(p) \in there \cup {<<>>}
          /\ node = [p \in Name |-> [ver |-> 1, here |-> p \in there]]
    /\ retired = [p \in Name |-> [v \in Version |-> 0]] /\ inval = {}
    /\ meta = [p \in Name |-> None] /\ neg = [p \in Name |-> None]
    /\ dir = [d \in Dir |-> NoList]
    /\ metaFloor = [p \in Name |-> 0] /\ listFloor = [p \in Name |-> 0]
    /\ op = [t \in Worker |-> Idle]

-----------------------------------------------------------------------------
(* Changes at the host.                                                    *)

\* OP_WRITE, OP_TRUNCATE, OP_CHMOD, OP_UTIMENS: the attributes of p change.
Touched(p) == [q \in {p} |-> TRUE]
CanTouch(p) == Here(p)
\* A directory's own attributes change with its entries.
Holder(p) == {parent_of(p)} \cap Name
\* OP_CREATE and OP_MKDIR.
Made(p) == [q \in {p} \cup Holder(p) |-> TRUE]
CanMake(p) == ~Here(p) /\ Here(parent_of(p))
\* OP_UNLINK and OP_RMDIR.
Removed(p) == [q \in {p} \cup Holder(p) |-> q # p]
CanRemove(p) == Here(p) /\ \A q \in Children(p) : ~Here(q)
\* OP_RENAME takes along what is under a directory.
Leaving(from) == {q \in Under(from) : Here(q)}
Arriving(from, to) == {to \o SubSeq(q, Len(from) + 1, Len(q)) : q \in Leaving(from)}
Moved(from, to) ==
    [q \in Leaving(from) \cup Arriving(from, to) \cup Holder(from) \cup Holder(to) |->
        q \notin Leaving(from)]
CanMove(from, to) ==
    /\ Here(from) /\ Here(parent_of(to)) /\ (from \in Dir <=> to \in Dir)
    /\ to \notin Under(from) /\ from \notin Under(to) /\ Arriving(from, to) \subseteq Name
    /\ \A q \in Children(to) : ~Here(q)

\* The paths of new get a new version; announced are the paths the server broadcasts to us.
Apply(new, announced) ==
    /\ changes < MaxChanges /\ changes' = changes + 1
    /\ \A p \in DOMAIN new : node[p].ver < MaxVer
    /\ node' = [p \in Name |-> IF p \in DOMAIN new
                               THEN [ver |-> node[p].ver + 1, here |-> new[p]] ELSE node[p]]
    /\ retired' = [p \in Name |-> IF p \in DOMAIN new
                                  THEN [retired[p] EXCEPT ![node[p].ver] = now] ELSE retired[p]]
    /\ inval' = inval \cup {[path |-> p, ver |-> node'[p].ver] :
                               p \in IF Notifier = {} THEN {} ELSE announced}

\* Another client, or a program on the host itself (which announces nothing).
Foreign(new, announced) ==
    /\ \E said \in {{}, announced} : Apply(new, said)
    /\ UNCHANGED <<now, caches, floors, op>>

ForeignStep ==
    \/ \E p \in Name : CanTouch(p) /\ Foreign(Touched(p), {p})
    \/ \E p \in Name : CanMake(p) /\ Foreign(Made(p), {p})
    \/ \E p \in Name : CanRemove(p) /\ Foreign(Removed(p), {p})
    \/ \E from, to \in Name : CanMove(from, to) /\ Foreign(Moved(from, to), {from, to})

-----------------------------------------------------------------------------
(* The entries.                                                            *)


\* Mutated: the limit is compared with >.
TrimsLate(entries, max) ==
    IF Cardinality(entries) > max
    THEN {kept \in SUBSET entries : Cardinality(kept) = max \div 2} ELSE {entries}
\* trim: a map that is full sheds half of its entries, whichever come first in it.
Trims(entries, max) ==
    IF Cardinality(entries) >= max
    THEN {kept \in SUBSET entries : Cardinality(kept) = max \div 2} ELSE {entries}

Entry(ver) == [ver |-> ver, at |-> now]

metaStore(p, ver) ==
    /\ \E kept \in Trims(Entries(meta), MetaMax) :
          meta' = [q \in Name |-> IF q = p THEN Entry(ver) ELSE IF q \in kept THEN meta[q] ELSE None]
    /\ neg' = [neg EXCEPT ![p] = None]

negStore(p, ver) ==
    \E kept \in Trims(Entries(neg), NegMax) :
        neg' = [q \in Name |-> IF q = p THEN Entry(ver) ELSE IF q \in kept THEN neg[q] ELSE None]

dirStore(d, facts) ==
    \E kept \in Trims(Listed, DirMax) :
        dir' = [e \in Dir |-> IF e = d THEN [facts |-> facts, at |-> now]
                              ELSE IF e \in kept THEN dir[e] ELSE NoList]

-----------------------------------------------------------------------------
(* doGetattr.                                                              *)

StartGetattr(t, p) ==
    /\ op[t].pc = "idle"
    /\ op' = [op EXCEPT ![t] = [Idle EXCEPT !.pc = "meta", !.path = p, !.start = now,
                                            !.floor = [q \in {p} |-> metaFloor[p]]]]
    /\ UNCHANGED <<now, hostVars, caches, floors>>

Replied(t, facts) == [op[t] EXCEPT !.pc = "reply", !.got = facts, !.ans = NoFacts, !.since = 0]
Single(p, ver, here) == [q \in {p} |-> [ver |-> ver, here |-> here]]
\* Mutated: an entry serves until it is evicted.
ServesForever(e, ttl) == e.ver # 0
Fresh(e, ttl) == e.ver # 0 /\ now - e.at <= ttl

\* metaLookup: an entry that is too old is erased and misses.
LookupMeta(t) ==
    /\ op[t].pc = "meta"
    /\ LET p == op[t].path IN
       IF Fresh(meta[p], MetaTtl)
       THEN /\ op' = [op EXCEPT ![t] = Replied(t, Single(p, meta[p].ver, TRUE))]
            /\ UNCHANGED meta
       ELSE /\ op' = [op EXCEPT ![t].pc = "neg"]
            /\ meta' = [meta EXCEPT ![p] = None]
    /\ UNCHANGED <<now, hostVars, neg, dir, floors>>

\* negLookup: the same.
LookupNeg(t) ==
    /\ op[t].pc = "neg"
    /\ LET p == op[t].path IN
       IF Fresh(neg[p], NegTtl)
       THEN /\ op' = [op EXCEPT ![t] = Replied(t, Single(p, neg[p].ver, FALSE))]
            /\ UNCHANGED neg
       ELSE /\ op' = [op EXCEPT ![t].pc = "ask"]
            /\ neg' = [neg EXCEPT ![p] = None]
    /\ UNCHANGED <<now, hostVars, meta, dir, floors>>

\* The host answers the GETATTR or the READDIR ...
Answer(t) ==
    /\ \/ /\ op[t].pc = "ask"
          /\ op' = [op EXCEPT ![t].pc = "store", ![t].since = now,
                              ![t].ans = [q \in {op[t].path} |-> node[q]]]
       \/ /\ op[t].pc = "list" /\ Here(op[t].path)
          /\ op' = [op EXCEPT ![t].pc = "dirstore", ![t].since = now,
                              ![t].ans = [q \in Children(op[t].path) |-> node[q]]]
    /\ UNCHANGED <<now, hostVars, caches, floors>>

\* ... or there is an error, a time-out, or no such directory: nothing is stored.
Fail(t) ==
    /\ op[t].pc \in {"ask", "list"}
    /\ op' = [op EXCEPT ![t] = Idle]
    /\ UNCHANGED <<now, hostVars, caches, floors>>

StoreAnswer(t) ==
    /\ op[t].pc = "store"
    /\ LET p == op[t].path
           a == op[t].ans[p]
       IN  IF a.here THEN metaStore(p, a.ver) ELSE negStore(p, a.ver) /\ UNCHANGED meta
    /\ op' = [op EXCEPT ![t] = Replied(t, op[t].ans)]
    /\ UNCHANGED <<now, hostVars, dir, floors>>

-----------------------------------------------------------------------------
(* doReaddir.                                                              *)

StartReaddir(t, d) ==
    /\ op[t].pc = "idle"
    /\ op' = [op EXCEPT ![t] = [Idle EXCEPT !.pc = "dir", !.path = d, !.start = now,
                                            !.floor = [q \in Children(d) |-> listFloor[q]]]]
    /\ UNCHANGED <<now, hostVars, caches, floors>>

\* dirLookup.
LookupDir(t) ==
    /\ op[t].pc = "dir"
    /\ LET l == dir[op[t].path] IN
       IF l # NoList /\ now - l.at <= DirTtl
       THEN /\ op' = [op EXCEPT ![t] = Replied(t, l.facts)]
            /\ UNCHANGED dir
       ELSE /\ op' = [op EXCEPT ![t].pc = "list"]
            /\ dir' = [dir EXCEPT ![op[t].path] = NoList]
    /\ UNCHANGED <<now, hostVars, meta, neg, floors>>

StoreListing(t) ==
    /\ op[t].pc = "dirstore"
    /\ dirStore(op[t].path, op[t].ans)
    /\ op' = [op EXCEPT ![t].pc = "seed", ![t].got = op[t].ans,
                        ![t].ans = [q \in {c \in DOMAIN op[t].ans : op[t].ans[c].here} |->
                                        op[t].ans[q]]]
    /\ UNCHANGED <<now, hostVars, meta, neg, floors>>

\* Each entry of the listing is put into the metadata cache, in the order the host gave.
Seed(t) ==
    /\ op[t].pc = "seed"
    /\ \/ \E p \in DOMAIN op[t].ans :
             /\ metaStore(p, op[t].ans[p].ver)
             /\ op' = [op EXCEPT ![t].ans = [q \in DOMAIN op[t].ans \ {p} |-> op[t].ans[q]]]
       \/ /\ DOMAIN op[t].ans = {}
          /\ op' = [op EXCEPT ![t] = Replied(t, op[t].got)]
          /\ UNCHANGED <<meta, neg>>
    /\ UNCHANGED <<now, hostVars, dir, floors>>

\* The answer goes to the mount.
Reply(t) ==
    /\ op[t].pc = "reply"
    /\ op' = [op EXCEPT ![t] = Idle]
    /\ UNCHANGED <<now, hostVars, caches, floors>>

-----------------------------------------------------------------------------
(* Mutations and invalidation.                                             *)

\* What is erased after a success: which cache, which path.
EraseTouched(p) == <<<<"meta", p>>>>
EraseMade(p) == <<<<"meta", p>>, <<"dir", parent_of(p)>>>>
EraseRemoved(p) ==
    IF p \in Dir THEN <<<<"meta", p>>, <<"dir", p>>, <<"dir", parent_of(p)>>>>
    ELSE <<<<"meta", p>>, <<"dir", parent_of(p)>>>>
\* Mutated: the target's directory keeps its listing.
EraseLeft(from, to) ==
    <<<<"meta", from>>, <<"meta", to>>, <<"dir", from>>, <<"dir", to>>, <<"dir", parent_of(from)>>>>
EraseMoved(from, to) ==
    <<<<"meta", from>>, <<"meta", to>>, <<"dir", from>>, <<"dir", to>>,
      <<"dir", parent_of(from)>>, <<"dir", parent_of(to)>>>>
EraseNotified(p) == <<<<"meta", p>>, <<"dir", p>>, <<"dir", parent_of(p)>>>>

\* A mutation of this client reaches the host, which broadcasts the paths it names to all
\* clients; the listings of listed's parents change with it.
Mutate(t, new, named, listed, todo) ==
    /\ op[t].pc = "idle"
    /\ Apply(new, named)
    /\ op' = [op EXCEPT ![t] = [Idle EXCEPT !.pc = "applied", !.todo = todo, !.listed = listed,
                                            !.made = [p \in named |-> node'[p].ver]]]
    /\ UNCHANGED <<now, caches, floors>>

\* OP_CREATE of a file that is there opens or truncates it.  OP_OPEN with FB_O_TRUNC is announced
\* to nobody and erases nothing.
MutateStep(t) ==
    \/ \E p \in Name :
          \/ CanTouch(p) /\ Mutate(t, Touched(p), {p}, {}, EraseTouched(p))
          \/ CanTouch(p) /\ p \notin Dir /\ Mutate(t, Touched(p), {p}, {p}, EraseMade(p))
          \/ CanTouch(p) /\ p \notin Dir /\ Mutate(t, Touched(p), {}, {}, <<>>)
          \/ CanMake(p) /\ Mutate(t, Made(p), {p}, {p}, EraseMade(p))
          \/ CanRemove(p) /\ Mutate(t, Removed(p), {p}, {p}, EraseRemoved(p))
    \/ \E from, to \in Name :
          /\ CanMove(from, to)
          /\ Mutate(t, Moved(from, to), {from, to}, {from, to}, EraseMoved(from, to))

\* A lookup that was answered before version ver of p has not stored all of its answer.
Late(p, ver) ==
    \E t \in Thread : p \in DOMAIN op[t].ans /\ op[t].ans[p].ver < ver
\* The versions of made that no such lookup is going to undo.
Timely(made) == [p \in {q \in DOMAIN made : ~Late(q, made[q])} |-> made[p]]

\* The success arrives ...
Acked(t) ==
    /\ op[t].pc = "applied"
    /\ op' = [op EXCEPT ![t] = IF @.todo = <<>> THEN Idle
                               ELSE [@ EXCEPT !.pc = "erase", !.made = Timely(op[t].made)]]
    /\ UNCHANGED <<now, hostVars, caches, floors>>

\* ... or the request times out although the host applied it: nothing is erased.
Unacked(t) ==
    /\ op[t].pc = "applied"
    /\ op' = [op EXCEPT ![t] = Idle]
    /\ UNCHANGED <<now, hostVars, caches, floors>>

\* The OP_INVALIDATE callback.
Notified(n, msg) ==
    /\ op[n].pc = "idle"
    /\ inval' = inval \ {msg}
    /\ op' = [op EXCEPT ![n] = [Idle EXCEPT
                  !.pc = "erase", !.todo = EraseNotified(msg.path), !.listed = {msg.path},
                  !.made = Timely([p \in {msg.path} |-> msg.ver])]]
    /\ UNCHANGED <<now, node, retired, changes, caches, floors>>

\* metaErase, which erases the negative entry too, or dirErase.
EraseEntry(e) ==
    IF e[1] = "meta"
    THEN /\ meta' = [meta EXCEPT ![e[2]] = None] /\ neg' = [neg EXCEPT ![e[2]] = None]
         /\ UNCHANGED dir
    ELSE /\ dir' = [dir EXCEPT ![e[2]] = NoList]
         /\ UNCHANGED <<meta, neg>>

\* What the thread has made known is known from now on.
Raised(floor, made) ==
    [p \in Name |-> IF p \in DOMAIN made THEN Max2(floor[p], made[p]) ELSE floor[p]]

Erase(t) ==
    /\ op[t].pc = "erase"
    /\ EraseEntry(Head(op[t].todo))
    /\ IF Len(op[t].todo) = 1
       THEN /\ op' = [op EXCEPT ![t] = Idle]
            /\ metaFloor' = Raised(metaFloor, op[t].made)
            /\ listFloor' = Raised(listFloor, [p \in DOMAIN op[t].made \cap op[t].listed |->
                                                  op[t].made[p]])
       ELSE /\ op' = [op EXCEPT ![t].todo = Tail(@)]
            /\ UNCHANGED floors
    /\ UNCHANGED <<now, hostVars>>

\* An answer is stored, all of it, within Latency.
Tick ==
    /\ now < MaxTime
    /\ \A t \in Thread : op[t].pc \in {"store", "dirstore", "seed"} => now < op[t].since + Latency
    /\ now' = now + 1
    /\ UNCHANGED <<hostVars, caches, floors, op>>

LookupStep(t) ==
    \/ LookupMeta(t) \/ LookupNeg(t) \/ Answer(t) \/ Fail(t) \/ StoreAnswer(t)
    \/ LookupDir(t) \/ StoreListing(t) \/ Seed(t) \/ Reply(t)

Next ==
    \/ Tick
    \/ ForeignStep
    \/ \E t \in Thread, p \in Name : StartGetattr(t, p)
    \/ \E t \in Thread, d \in Dir : StartReaddir(t, d)
    \/ \E t \in Thread : LookupStep(t)
    \/ \E t \in Thread : MutateStep(t)
    \/ \E t \in Thread : Acked(t) \/ Unacked(t)
    \/ \E n \in Notifier, msg \in inval : Notified(n, msg)
    \/ \E t \in Worker : Erase(t)

Spec == Init /\ [][Next]_vars

-----------------------------------------------------------------------------
(* What the name caches promise.                                           *)

\* The age an answer may have when it is given.
Age(t, p) ==
    Latency + IF op[t].path # p THEN DirTtl ELSE IF op[t].got[p].here THEN MetaTtl ELSE NegTtl

\* Whatever is lost, late or evicted: what a lookup answers was true no longer ago than the time
\* to live of the cache it may come from.  (A path that is listed is not the one asked for.)
NamesHeal ==
    \A t \in Thread : op[t].pc = "reply" =>
        \A p \in DOMAIN op[t].got :
            LET v == op[t].got[p].ver
            IN  v = node[p].ver \/ retired[p][v] >= op[t].start - Age(t, p)

\* Once a mutation of this client has returned, or the callback of an OP_INVALIDATE has, every
\* lookup called later sees the paths it named changed (the listing only if their existence may
\* have), unless an older answer was still on its way when the invalidation began.
OwnChangesSeen ==
    \A t \in Thread : op[t].pc = "reply" =>
        \A p \in DOMAIN op[t].got : op[t].got[p].ver >= op[t].floor[p]
=============================================================================
