----------------------------- MODULE BlockCache -----------------------------
(***************************************************************************)
(* The read path of the mount-side cache, client/src/fs/ram_cache.cpp:     *)
(* doRead, ensureVersion, blockFetch, the prefetch pool, invalidateFile,   *)
(* the OPEN / RELEASE / WRITE / TRUNCATE / CHMOD / UTIMENS cases of        *)
(* RamCache::request and the OP_INVALIDATE callback.                       *)
(*                                                                         *)
(* Every step is one critical section of metaMtx, fhMtx or blockMtx, or    *)
(* one answer of the host; the requests themselves are made with no lock   *)
(* held, so anything may happen between two steps of a thread.             *)
(*                                                                         *)
(* A file's content is a generation number: gen[p] grows by one with every *)
(* change of p at the host, and a block read from the host is the          *)
(* generation it was read from.  What the cache can see of a generation is *)
(* its stamp, the pair (size, mtime in seconds) of a GETATTR answer.  With *)
(* CoarseStamps two successive generations may share a stamp (an overwrite *)
(* of the same size in the same second); without, every change moves it.   *)
(*                                                                         *)
(* Sizes are in blocks, reads lie inside the file, and which blocks an     *)
(* eviction takes is left open, the order of the LRU list included.        *)
(***************************************************************************)
EXTENDS Integers, Sequences, FiniteSets

CONSTANTS
    Path,           \* files of the share
    NBlocks,        \* blocks per file
    Handle,         \* file handles; nextFh_ never hands one out twice
    Reader,         \* mount threads that call doRead
    Prefetcher,     \* threads of the PrefetchPool
    Writer,         \* mount threads that mutate files
    Notifier,       \* connection reader threads that run the OP_INVALIDATE callback
    MetaTtl,        \* kMetaTtlMs, in ticks
    Latency,        \* ticks an attribute may travel before it is stored
    Capacity,       \* blockBudget, in blocks
    Budgets,        \* what compute_block_budget may say when it is asked again
    QueueMax,       \* kPrefetchQueueMax
    MaxWindow,      \* kMaxReadAheadBlocks
    CoarseStamps,   \* BOOLEAN: two generations may have the same (size, mtime)
    Replaceable,    \* BOOLEAN: a path may get a new inode under open handles
    MaxGen, MaxTime, MaxReads   \* bounds of the model

ASSUME BlockCacheAssumption ==
    /\ NBlocks \in Nat \ {0} /\ MaxGen \in Nat \ {0}
    /\ MetaTtl \in Nat /\ Latency \in Nat /\ Capacity \in Nat
    /\ Budgets \subseteq 0 .. Capacity
    /\ QueueMax \in Nat /\ MaxWindow \in Nat \ {0}
    /\ MaxTime \in Nat /\ MaxReads \in Nat
    /\ CoarseStamps \in BOOLEAN /\ Replaceable \in BOOLEAN
    /\ Reader \cap Prefetcher = {} /\ Writer \cap Notifier = {}
    /\ Path # {} /\ Handle # {}
    /\ IsFiniteSet(Reader) /\ IsFiniteSet(Prefetcher)

Block   == 0 .. NBlocks - 1
Index   == 0 .. NBlocks + MaxWindow - 1     \* read-ahead goes past the end of the file
Gen     == 1 .. MaxGen
Thread  == Reader \cup Prefetcher
Mutator == Writer \cup Notifier

VARIABLES
    now,        \* steady_clock, in ticks
    gen,        \* host: current generation of each path
    stamp,      \* host: (size, mtime) of the current generation
    retired,    \* history: when a generation stopped being the current one
    inval,      \* OP_INVALIDATE messages under way: <<path, generation>>
    floor,      \* history: the generation this client is known to have dropped older blocks of
    meta,       \* Impl::meta, attributes by path
    fh,         \* Impl::fh, per open handle
    files,      \* Impl::files, cached blocks by path
    inflight,   \* Impl::inflight, blocks being fetched
    budget,     \* effectiveBudget
    pool,       \* PrefetchPool::q_
    th,         \* the threads that read
    reads,      \* reads started so far (bound)
    mu          \* the threads that invalidate

hostVars == <<gen, stamp, retired, inval>>
vars == <<now, hostVars, floor, meta, fh, files, inflight, budget, pool, th, reads, mu>>

Stamp == 0 .. MaxGen            \* 0: none
NoMeta == [stamp |-> 0, at |-> 0]
NoFile == [tag |-> 0, blk |-> [b \in Index |-> 0]]
SomePath == CHOOSE p \in Path : TRUE
SomeHandle == CHOOSE h \in Handle : TRUE
NoHandle(p) == [st |-> "unused", path |-> p, haveVer |-> FALSE, ver |-> 0, verAt |-> 0,
                lastEnd |-> 0, run |-> 0, window |-> 0, active |-> 0, pinned |-> 0]
Idle == [pc |-> "idle", h |-> SomeHandle, first |-> 0, cur |-> 0, last |-> 0, ver |-> 0, att |-> 0,
         since |-> 0, start |-> 0, data |-> 0, got |-> {}, floor |-> 0, ahead |-> {}]
Resting == [pc |-> "idle", p |-> SomePath, gen |-> 0]

PathOf(t) == fh[th[t].h].path
At(t, pc) == th[t].pc = pc
Min2(a, b) == IF a < b THEN a ELSE b
Max2(a, b) == IF a > b THEN a ELSE b

HandleState ==
    [st : {"unused", "open", "closing", "released"}, path : Path, haveVer : BOOLEAN, ver : Stamp,
     verAt : Nat, lastEnd : Nat, run : 0 .. 2, window : Nat, active : Int, pinned : 0 .. MaxGen]
ThreadState ==
    [pc : {"idle", "ver", "meta", "getattr", "metastore", "fhstore", "block", "wait", "begin",
           "fetch", "put", "direct", "ahead", "submit", "reply"},
     h : Handle, first : Block, cur : Index, last : Block, ver : Stamp, att : Stamp, since : Nat,
     start : Nat, data : 0 .. MaxGen, got : SUBSET Gen, floor : 0 .. MaxGen, ahead : SUBSET Index]
MutatorState ==
    [pc : {"idle", "applied", "attrs", "meta", "handles", "blocks"}, p : Path, gen : 0 .. MaxGen]
FileState == [tag : Stamp, blk : [Index -> 0 .. MaxGen]]
Attributes == [stamp : Stamp, at : Nat]
Job == [h : Handle, ver : Stamp, blk : Index]

TypeOK ==
    /\ now \in Nat
    /\ gen \in [Path -> Gen] /\ stamp \in [Path -> Gen] /\ retired \in [Path -> [Gen -> Nat]]
    /\ inval \subseteq Path \X Gen
    /\ floor \in [Path -> 0 .. MaxGen]
    /\ meta \in [Path -> Attributes]
    /\ fh \in [Handle -> HandleState]
    /\ files \in [Path -> FileState]
    /\ inflight \subseteq Path \X Index
    /\ budget \in 0 .. Capacity
    /\ pool \in Seq(Job) /\ Len(pool) <= QueueMax
    /\ th \in [Thread -> ThreadState]
    /\ reads \in 0 .. MaxReads
    /\ mu \in [Mutator -> MutatorState]

Init ==
    /\ now = 0
    /\ gen = [p \in Path |-> 1] /\ stamp = [p \in Path |-> 1]
    /\ retired = [p \in Path |-> [g \in Gen |-> 0]]
    /\ inval = {} /\ floor = [p \in Path |-> 0]
    /\ meta = [p \in Path |-> NoMeta]
    /\ fh = [h \in Handle |-> NoHandle(SomePath)]
    /\ th = [t \in Thread |-> Idle]
    /\ mu = [m \in Mutator |-> Resting]
    /\ files = [p \in Path |-> NoFile]
    /\ inflight = {} /\ budget = Capacity /\ pool = <<>>
    /\ reads = 0

-----------------------------------------------------------------------------
(* The host and the environment.                                           *)

\* What a READ through handle h returns: the generation of the inode h holds.
HostGen(h) == IF fh[h].pinned # 0 THEN fh[h].pinned ELSE gen[fh[h].path]

\* Path p gets generation gen[p] + 1; with announce the server queues an OP_INVALIDATE for us.
HostApplies(p, announce) ==
    /\ gen[p] < MaxGen
    /\ gen' = [gen EXCEPT ![p] = @ + 1]
    /\ \E s \in {gen[p] + 1} \cup (IF CoarseStamps THEN {stamp[p]} ELSE {}) :
        stamp' = [stamp EXCEPT ![p] = s]
    /\ retired' = [retired EXCEPT ![p][gen[p]] = now]
    /\ inval' = IF announce /\ Notifier # {} THEN inval \cup {<<p, gen[p] + 1>>} ELSE inval

\* Another client, or a program on the host itself (which announces nothing), changes p in place.
RemoteWrite(p) ==
    /\ \E announce \in BOOLEAN : HostApplies(p, announce)
    /\ UNCHANGED <<now, floor, meta, fh, files, inflight, budget, pool, th, reads, mu>>

\* ... or replaces p by another file (rename over it, unlink and create): handles that are
\* open keep reading the old inode.
RemoteReplace(p) ==
    /\ Replaceable
    /\ \E announce \in BOOLEAN : HostApplies(p, announce)
    /\ fh' = [h \in Handle |->
                IF fh[h].st # "unused" /\ fh[h].path = p /\ fh[h].pinned = 0
                THEN [fh[h] EXCEPT !.pinned = gen[p]] ELSE fh[h]]
    /\ UNCHANGED <<now, floor, meta, files, inflight, budget, pool, th, reads, mu>>

\* An attribute the host has sent, or metaLookup has copied, is stored within Latency.
InTransit(t) == At(t, "metastore") \/ At(t, "fhstore")

Tick ==
    /\ now < MaxTime
    /\ \A t \in Thread : InTransit(t) => now < th[t].since + Latency
    /\ now' = now + 1
    /\ UNCHANGED <<hostVars, floor, meta, fh, files, inflight, budget, pool, th, reads, mu>>

\* budgetNow: free memory changed, the budget was sampled again.
Resample(b) ==
    /\ budget # b
    /\ budget' = b
    /\ UNCHANGED <<now, hostVars, floor, meta, fh, files, inflight, pool, th, reads, mu>>

-----------------------------------------------------------------------------
(* Handles.                                                                *)

\* OP_OPEN: the host has answered with a fresh handle, fhAdd records its path.
Open(h, p) ==
    /\ fh[h].st = "unused"
    /\ fh' = [fh EXCEPT ![h] = [NoHandle(p) EXCEPT !.st = "open"]]
    /\ UNCHANGED <<now, hostVars, floor, meta, files, inflight, budget, pool, th, reads, mu>>

\* OP_RELEASE, fhBeginClose: the mount sends it once no read of its own uses the handle.
BeginClose(h) ==
    /\ fh[h].st = "open"
    /\ \A r \in Reader : ~At(r, "idle") => th[r].h # h
    /\ fh' = [fh EXCEPT ![h].st = "closing"]
    /\ UNCHANGED <<now, hostVars, floor, meta, files, inflight, budget, pool, th, reads, mu>>

\* Mutated: the close does not wait for the reads.
NotDrained(h) == TRUE
Drained(h) == fh[h].active = 0

\* ... the drain is over: RELEASE is forwarded, fhRemove.
Release(h) ==
    /\ fh[h].st = "closing" /\ Drained(h)
    /\ fh' = [fh EXCEPT ![h].st = "released"]
    /\ UNCHANGED <<now, hostVars, floor, meta, files, inflight, budget, pool, th, reads, mu>>

-----------------------------------------------------------------------------
(* doRead and ensureVersion.                                               *)

\* A read of blocks first .. last; without a budget it goes straight to the host.
StartRead(r, h, first, last) ==
    /\ At(r, "idle") /\ reads < MaxReads /\ first <= last
    /\ fh[h].st = "open"
    /\ reads' = reads + 1
    /\ th' = [th EXCEPT ![r] =
                [Idle EXCEPT !.h = h, !.pc = IF budget = 0 THEN "direct" ELSE "ver",
                                !.first = first, !.cur = first, !.last = last,
                                !.start = now, !.floor = floor[fh[h].path]]]
    /\ UNCHANGED <<now, hostVars, floor, meta, fh, files, inflight, budget, pool, mu>>

\* Mutated: the version is never revalidated.
VersionServesForever(f) == f.haveVer
VersionServes(f) == f.haveVer /\ now - f.verAt <= MetaTtl

\* The version captured in the handle serves for MetaTtl.
CheckHandleVersion(r) ==
    /\ At(r, "ver")
    /\ LET f == fh[th[r].h] IN
       th' = IF VersionServes(f)
             THEN [th EXCEPT ![r].pc = "block", ![r].ver = f.ver]
             ELSE [th EXCEPT ![r].pc = "meta"]
    /\ UNCHANGED <<now, hostVars, floor, meta, fh, files, inflight, budget, pool, reads, mu>>

\* metaLookup: an entry older than MetaTtl is erased and misses.
LookupMeta(r) ==
    /\ At(r, "meta")
    /\ LET m == meta[PathOf(r)] IN
       IF m.stamp # 0 /\ now - m.at <= MetaTtl
       THEN /\ th' = [th EXCEPT ![r].pc = "fhstore", ![r].att = m.stamp, ![r].since = now]
            /\ UNCHANGED meta
       ELSE /\ th' = [th EXCEPT ![r].pc = "getattr"]
            /\ meta' = [meta EXCEPT ![PathOf(r)] = NoMeta]
    /\ UNCHANGED <<now, hostVars, floor, fh, files, inflight, budget, pool, reads, mu>>

\* The host answers the GETATTR ...
AnswerGetattr(r) ==
    /\ At(r, "getattr")
    /\ th' = [th EXCEPT ![r].pc = "metastore", ![r].att = stamp[PathOf(r)], ![r].since = now]
    /\ UNCHANGED <<now, hostVars, floor, meta, fh, files, inflight, budget, pool, reads, mu>>

\* ... or the request fails or times out: doRead forwards the READ uncached.
FailGetattr(r) ==
    /\ At(r, "getattr")
    /\ th' = [th EXCEPT ![r].pc = "direct"]
    /\ UNCHANGED <<now, hostVars, floor, meta, fh, files, inflight, budget, pool, reads, mu>>

StoreMeta(r) ==
    /\ At(r, "metastore")
    /\ meta' = [meta EXCEPT ![PathOf(r)] = [stamp |-> th[r].att, at |-> now]]
    /\ th' = [th EXCEPT ![r].pc = "fhstore", ![r].since = now]
    /\ UNCHANGED <<now, hostVars, floor, fh, files, inflight, budget, pool, reads, mu>>

StoreHandleVersion(r) ==
    /\ At(r, "fhstore")
    /\ fh' = [fh EXCEPT ![th[r].h].haveVer = TRUE, ![th[r].h].ver = th[r].att,
                        ![th[r].h].verAt = now]
    /\ th' = [th EXCEPT ![r].pc = "block", ![r].ver = th[r].att, ![r].att = 0, ![r].since = 0]
    /\ UNCHANGED <<now, hostVars, floor, meta, files, inflight, budget, pool, reads, mu>>

\* An uncached READ: the host answers, or it fails.
AnswerDirect(r) ==
    /\ At(r, "direct")
    /\ \/ th' = [th EXCEPT ![r].pc = "reply", ![r].got = {HostGen(th[r].h)}]
       \/ th' = [th EXCEPT ![r].pc = "reply"]
    /\ UNCHANGED <<now, hostVars, floor, meta, fh, files, inflight, budget, pool, reads, mu>>

-----------------------------------------------------------------------------
(* blockFetch.                                                             *)

Purge(f, p) == [f EXCEPT ![p] = NoFile]
\* The files once p is dropped if it is cached under another version than ver.
Current(f, p, ver) == IF f[p].tag \notin {0, ver} THEN Purge(f, p) ELSE f
Cached(f) == {k \in Path \X Index : f[k[1]].blk[k[2]] # 0}
\* The blocks an eviction down to room may take: the bytes that are too many, and any of the
\* empty blocks past the end of a file, which weigh nothing.
Evictions(f, room) ==
    LET full == {k \in Cached(f) : k[2] \in Block}
    IN  {v \in SUBSET Cached(f) :
            /\ Cardinality(v \cap full) = Max2(0, Cardinality(full) - room)
            /\ Cardinality(full) <= room => v = {}}
Drop(f, victims) ==
    [p \in Path |->
        LET left == [b \in Index |-> IF <<p, b>> \in victims THEN 0 ELSE f[p].blk[b]]
        IN  IF \A b \in Index : left[b] = 0 THEN NoFile ELSE [f[p] EXCEPT !.blk = left]]

\* The state of a thread that has obtained generation g of the block it wanted.
Served(t, g) == [th[t] EXCEPT !.got = @ \cup {g}]
\* The thread is done with block cur: on to the next one, to the read-ahead, or (a prefetch
\* job) back to the pool.
Advance(s, t) ==
    IF s.cur < s.last THEN [s EXCEPT !.pc = "block", !.cur = @ + 1, !.data = 0]
    ELSE IF t \in Reader THEN [s EXCEPT !.pc = "ahead", !.data = 0]
    ELSE Idle

\* Mutated: a block is fetched although its fetch is under way.
NeverInFlight(k) == FALSE
InFlight(k) == k \in inflight

\* blockGetLocked drops a file cached under another version, then hits, joins the fetch under
\* way, or starts one.
LookupBlock(t) ==
    /\ At(t, "block")
    /\ LET p == PathOf(t)
           k == <<p, th[t].cur>>
           f == Current(files, p, th[t].ver)
           g == f[p].blk[th[t].cur]
       IN /\ files' = f
          /\ \/ /\ g # 0
                /\ th' = [th EXCEPT ![t] = Advance(Served(t, g), t)]
                /\ UNCHANGED inflight
             \/ /\ g = 0 /\ InFlight(k)
                /\ th' = [th EXCEPT ![t].pc = "wait"]
                /\ UNCHANGED inflight
             \/ /\ g = 0 /\ ~InFlight(k)
                /\ th' = [th EXCEPT ![t].pc = "begin"]
                /\ inflight' = inflight \cup {k}
    /\ UNCHANGED <<now, hostVars, floor, meta, fh, budget, pool, reads, mu>>

BeginRead(h) == [fh EXCEPT ![h].active = @ + 1]
EndRead(h) == [fh EXCEPT ![h].active = @ - 1]

\* fhBeginRead refuses a handle that is being closed or gone (EBADF).
BeginFetch(t) ==
    /\ At(t, "begin")
    /\ IF fh[th[t].h].st = "open"
       THEN /\ fh' = BeginRead(th[t].h)
            /\ th' = [th EXCEPT ![t].pc = "fetch"]
       ELSE /\ th' = [th EXCEPT ![t].pc = "put", ![t].data = 0]
            /\ UNCHANGED fh
    /\ UNCHANGED <<now, hostVars, floor, meta, files, inflight, budget, pool, reads, mu>>

\* The host answers the READ, or it fails or times out; fhEndRead.
AnswerFetch(t) ==
    /\ At(t, "fetch")
    /\ \E d \in {0, HostGen(th[t].h)} : th' = [th EXCEPT ![t].pc = "put", ![t].data = d]
    /\ fh' = EndRead(th[t].h)
    /\ UNCHANGED <<now, hostVars, floor, meta, files, inflight, budget, pool, reads, mu>>

\* Mutated: nobody is notified.
NotWoken(s) == s
\* blockCv.notify_all: the waiting threads look again.
Woken(s) == IF s.pc = "wait" THEN [s EXCEPT !.pc = "block"] ELSE s
WakeAll(t, s) == [x \in Thread |-> IF x = t THEN s ELSE Woken(th[x])]

\* blockPutLocked: the file restarts under the thread's version if it was cached under
\* another one, the block goes in, and blocks leave until the budget holds.
Insert(f, p, ver, b, d) ==
    LET f1 == Current(f, p, ver)
    IN  IF f1[p].blk[b] # 0 THEN f1
        ELSE [f1 EXCEPT ![p] = [tag |-> ver, blk |-> [f1[p].blk EXCEPT ![b] = d]]]

PutBlock(t) ==
    /\ At(t, "put") /\ th[t].data # 0
    /\ inflight' = inflight \ {<<PathOf(t), th[t].cur>>}
    /\ LET f == Insert(files, PathOf(t), th[t].ver, th[t].cur, th[t].data) IN
       \E victims \in Evictions(f, budget) : files' = Drop(f, victims)
    /\ th' = WakeAll(t, Advance(Served(t, th[t].data), t))
    /\ UNCHANGED <<now, hostVars, floor, meta, fh, budget, pool, reads, mu>>

\* bad_alloc while inserting: every byte is evicted and the cache stops growing.
PutOutOfMemory(t) ==
    /\ At(t, "put") /\ th[t].data # 0 /\ budget # 0
    /\ inflight' = inflight \ {<<PathOf(t), th[t].cur>>}
    /\ LET f == Current(files, PathOf(t), th[t].ver) IN
       \E victims \in Evictions(f, 0) : files' = Drop(f, victims)
    /\ budget' = 0
    /\ th' = WakeAll(t, Advance(Served(t, th[t].data), t))
    /\ UNCHANGED <<now, hostVars, floor, meta, fh, pool, reads, mu>>

\* The fetch failed: the read returns its error, the others look for the block themselves.
PutFailed(t) ==
    /\ At(t, "put") /\ th[t].data = 0
    /\ inflight' = inflight \ {<<PathOf(t), th[t].cur>>}
    /\ th' = WakeAll(t, IF t \in Reader THEN [th[t] EXCEPT !.pc = "reply"] ELSE Idle)
    /\ UNCHANGED <<now, hostVars, floor, meta, fh, files, budget, pool, reads, mu>>

-----------------------------------------------------------------------------
(* Read-ahead and the prefetch pool.                                       *)

\* What is left to submit, and the read returns once nothing is.
Submitting(r, blocks) ==
    [th EXCEPT ![r].ahead = blocks, ![r].pc = IF blocks = {} THEN "reply" ELSE "submit"]

\* scheduleReadAhead: the second contiguous read opens the window, which doubles up to
\* MaxWindow and never claims more than half the budget; the jobs may lie past the end of the
\* file.
Ahead(r) ==
    /\ At(r, "ahead")
    /\ LET f == fh[th[r].h]
           sequential == th[r].first = f.lastEnd
           run == IF sequential THEN Min2(f.run + 1, 2) ELSE 0
           grown == IF f.window = 0 THEN 1 ELSE Min2(f.window * 2, MaxWindow)
           window == IF sequential THEN grown ELSE 0
           jobs == IF run < 2 THEN 0 ELSE Min2(window, Max2(1, budget \div 2))
           next == th[r].last + 1
       IN \/ /\ budget = 0
             /\ th' = Submitting(r, {})
             /\ UNCHANGED fh
          \/ /\ budget # 0
             /\ th' = Submitting(r, next .. next + jobs - 1)
             /\ fh' = [fh EXCEPT ![th[r].h].lastEnd = next, ![th[r].h].run = run,
                                 ![th[r].h].window = window]
    /\ UNCHANGED <<now, hostVars, floor, meta, files, inflight, budget, pool, reads, mu>>

\* Mutated: submit compares with > instead of >=.
RoomForOneMore == Len(pool) <= QueueMax
Room == Len(pool) < QueueMax

\* ... submits the window's blocks in order, each with the lock of the pool; a full queue drops
\* the job.
Submit(r) ==
    /\ At(r, "submit")
    /\ \E b \in th[r].ahead :
        /\ \A c \in th[r].ahead : b <= c
        /\ pool' = IF Room THEN Append(pool, [h |-> th[r].h, ver |-> th[r].ver, blk |-> b])
                   ELSE pool
        /\ th' = Submitting(r, th[r].ahead \ {b})
    /\ UNCHANGED <<now, hostVars, floor, meta, fh, files, inflight, budget, reads, mu>>

\* The read returns to the mount.
Reply(r) ==
    /\ At(r, "reply")
    /\ th' = [th EXCEPT ![r] = Idle]
    /\ UNCHANGED <<now, hostVars, floor, meta, fh, files, inflight, budget, pool, reads, mu>>

\* A pool thread takes the oldest job; it fetches under the version the job captured.
TakeJob(f) ==
    /\ At(f, "idle") /\ pool # <<>>
    /\ th' = [th EXCEPT ![f] = [Idle EXCEPT
                 !.h = Head(pool).h, !.pc = "block", !.ver = Head(pool).ver,
                 !.cur = Head(pool).blk]]
    /\ pool' = Tail(pool)
    /\ UNCHANGED <<now, hostVars, floor, meta, fh, files, inflight, budget, reads, mu>>

-----------------------------------------------------------------------------
(* Mutations and invalidation.                                             *)

\* OP_WRITE or OP_TRUNCATE of this client reaches the host, which also broadcasts it to us.
HostWrites(w, p) ==
    /\ mu[w].pc = "idle"
    /\ HostApplies(p, TRUE)
    /\ mu' = [mu EXCEPT ![w] = [pc |-> "applied", p |-> p, gen |-> gen[p] + 1]]
    /\ UNCHANGED <<now, floor, meta, fh, files, inflight, budget, pool, th, reads>>

\* OP_CHMOD or OP_UTIMENS: only the attributes change.
HostSetsAttrs(w, p) ==
    /\ mu[w].pc = "idle"
    /\ HostApplies(p, TRUE)
    /\ mu' = [mu EXCEPT ![w] = [pc |-> "attrs", p |-> p, gen |-> gen[p] + 1]]
    /\ UNCHANGED <<now, floor, meta, fh, files, inflight, budget, pool, th, reads>>

\* The acknowledgement arrives (the invalidation starts) ...
WriteAcked(w) ==
    /\ mu[w].pc = "applied"
    /\ mu' = [mu EXCEPT ![w].pc = "meta"]
    /\ UNCHANGED <<now, hostVars, floor, meta, fh, files, inflight, budget, pool, th, reads>>

\* ... or the request times out although the host applied it: no invalidation.
WriteUnacked(w) ==
    /\ mu[w].pc \in {"applied", "attrs"}
    /\ mu' = [mu EXCEPT ![w] = Resting]
    /\ UNCHANGED <<now, hostVars, floor, meta, fh, files, inflight, budget, pool, th, reads>>

\* The OP_INVALIDATE callback runs for a message, in whatever order the streams deliver.
Notified(n, msg) ==
    /\ mu[n].pc = "idle"
    /\ mu' = [mu EXCEPT ![n] = [pc |-> "meta", p |-> msg[1], gen |-> msg[2]]]
    /\ inval' = inval \ {msg}
    /\ UNCHANGED <<now, gen, stamp, retired, floor, meta, fh, files, inflight, budget, pool, th,
                   reads>>

\* invalidateFile, first step, and all that CHMOD and UTIMENS do: metaErase.
EraseMeta(m) ==
    /\ mu[m].pc \in {"meta", "attrs"}
    /\ meta' = [meta EXCEPT ![mu[m].p] = NoMeta]
    /\ mu' = [mu EXCEPT ![m] = IF @.pc = "meta" THEN [@ EXCEPT !.pc = "handles"] ELSE Resting]
    /\ UNCHANGED <<now, hostVars, floor, fh, files, inflight, budget, pool, th, reads>>

\* invalidateFile, second step: clearFhVersion.
ClearHandleVersions(m) ==
    /\ mu[m].pc = "handles"
    /\ fh' = [h \in Handle |-> IF fh[h].path = mu[m].p THEN [fh[h] EXCEPT !.haveVer = FALSE]
                               ELSE fh[h]]
    /\ mu' = [mu EXCEPT ![m].pc = "blocks"]
    /\ UNCHANGED <<now, hostVars, floor, meta, files, inflight, budget, pool, th, reads>>

\* Mutated: the blocks stay.
NotPurged(m) == files
\* invalidateFile, third step: purgeFileLocked.
Purged(m) == Purge(files, mu[m].p)
Fetching(p) == \E b \in Index : <<p, b>> \in inflight

PurgeBlocks(m) ==
    /\ mu[m].pc = "blocks"
    /\ files' = Purged(m)
    /\ floor' = IF Fetching(mu[m].p) THEN floor
                ELSE [floor EXCEPT ![mu[m].p] = Max2(@, mu[m].gen)]
    /\ mu' = [mu EXCEPT ![m] = Resting]
    /\ UNCHANGED <<now, hostVars, meta, fh, inflight, budget, pool, th, reads>>

-----------------------------------------------------------------------------
ReaderStep(r) ==
    \/ CheckHandleVersion(r) \/ LookupMeta(r) \/ AnswerGetattr(r) \/ FailGetattr(r)
    \/ StoreMeta(r) \/ StoreHandleVersion(r) \/ AnswerDirect(r) \/ Ahead(r) \/ Submit(r)
    \/ Reply(r)
FetchStep(t) ==
    \/ LookupBlock(t) \/ BeginFetch(t) \/ AnswerFetch(t)
    \/ PutBlock(t) \/ PutOutOfMemory(t) \/ PutFailed(t)
MutatorStep(m) ==
    WriteAcked(m) \/ WriteUnacked(m) \/ EraseMeta(m) \/ ClearHandleVersions(m) \/ PurgeBlocks(m)

Next ==
    \/ Tick
    \/ \E p \in Path : RemoteWrite(p) \/ RemoteReplace(p)
    \/ \E b \in Budgets : Resample(b)
    \/ \E h \in Handle, p \in Path : Open(h, p)
    \/ \E h \in Handle : BeginClose(h) \/ Release(h)
    \/ \E r \in Reader, h \in Handle, first, last \in Block : StartRead(r, h, first, last)
    \/ \E r \in Reader : ReaderStep(r)
    \/ \E t \in Thread : FetchStep(t)
    \/ \E f \in Prefetcher : TakeJob(f)
    \/ \E w \in Writer, p \in Path : HostWrites(w, p) \/ HostSetsAttrs(w, p)
    \/ \E n \in Notifier, msg \in inval : Notified(n, msg)
    \/ \E m \in Mutator : MutatorStep(m)

Spec == Init /\ [][Next]_vars

\* Every thread keeps running, and every request ends: its answer comes, the connection dies or
\* wait_for's ten seconds are over.  That its send under wmtx returns is assumed of the network;
\* the mount need not read, write or close.
Fairness ==
    /\ \A r \in Reader : WF_vars(ReaderStep(r))
    /\ \A t \in Thread : WF_vars(FetchStep(t))
    /\ \A f \in Prefetcher : WF_vars(TakeJob(f))
    /\ \A h \in Handle : WF_vars(Release(h))

FairSpec == Spec /\ Fairness

-----------------------------------------------------------------------------
(* What the read path promises.                                            *)

\* Generation g of p was the current one at time t or later.
Fresh(p, g, t) == g >= gen[p] \/ retired[p][g] >= t

\* A handle's version serves for MetaTtl and may come from an entry of meta that was MetaTtl
\* old; each of the two stores may be late by Latency.
StaleBound == 2 * MetaTtl + 2 * Latency

\* A read never returns a block that had been overwritten for more than StaleBound when the
\* read was called: the caches of ensureVersion and blockFetch heal by themselves.
BoundedStaleness ==
    \A r \in Reader : fh[th[r].h].pinned = 0 =>
        \A g \in th[r].got : Fresh(PathOf(r), g, th[r].start - StaleBound)

\* Once invalidateFile has purged a file for generation g with no fetch of it in flight, every
\* read called later returns g or newer, whatever stamps, timeouts and prefetching do.
ReadYourWrites ==
    \A r \in Reader : fh[th[r].h].pinned = 0 =>
        \A g \in th[r].got : g >= th[r].floor

\* The in-flight set is exactly what is being fetched, and no block is fetched twice at once.
Fetches(t) == th[t].pc \in {"begin", "fetch", "put"}
SingleFetch ==
    /\ inflight = {<<PathOf(t), th[t].cur>> : t \in {x \in Thread : Fetches(x)}}
    /\ \A t, u \in Thread : Fetches(t) /\ Fetches(u) /\ t # u =>
          <<PathOf(t), th[t].cur>> # <<PathOf(u), th[u].cur>>

\* A thread waits on blockCv only while the block it wants is being fetched: no wake-up is lost.
NoLostWakeup == \A t \in Thread : At(t, "wait") => <<PathOf(t), th[t].cur>> \in inflight

\* RELEASE overtakes no READ: while the host serves one, its handle is still open there, even
\* when the READ is a prefetch the mount knows nothing of.
NoReadAfterRelease ==
    \A t \in Thread : th[t].pc \in {"fetch", "direct"} => fh[th[t].h].st \in {"open", "closing"}

\* Every read returns to the mount, the threads it waits for failing or not, and a RELEASE that
\* drains the handle's fetches is not held up for ever by the prefetch pool.
CallsReturn ==
    /\ \A r \in Reader : ~At(r, "idle") ~> At(r, "idle")
    /\ \A h \in Handle : fh[h].st = "closing" ~> fh[h].st = "released"
=============================================================================
