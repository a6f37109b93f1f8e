--------------------------- MODULE BlockCacheProofs ---------------------------
(***************************************************************************)
(* The invariants of BlockCache, for any number of threads, paths,         *)
(* handles, blocks, generations and ticks.                                 *)
(***************************************************************************)
EXTENDS BlockCache, FiniteSetTheorems, TLAPS

-----------------------------------------------------------------------------
(* The type invariant, and what each action does to the record of a        *)
(* thread.                                                                 *)

\* The initial records have the types of the records they initialise.
LEMMA InitialRecords ==
    /\ Idle \in ThreadState /\ Resting \in MutatorState
    /\ NoMeta \in Attributes /\ NoFile \in FileState
    /\ \A p \in Path : NoHandle(p) \in HandleState
    /\ 0 \in Stamp /\ Block \subseteq Index /\ 0 \in Block /\ 0 \in 0 .. MaxGen /\ Gen \subseteq Stamp
<1>1. SomeHandle \in Handle /\ SomePath \in Path
  BY BlockCacheAssumption DEF SomeHandle, SomePath
<1>2. 0 \in Stamp /\ Block \subseteq Index /\ 0 \in Block /\ 0 \in 0 .. MaxGen /\ Gen \subseteq Stamp
  BY BlockCacheAssumption DEF Stamp, Block, Index, Gen
<1>3. Idle \in ThreadState
  BY <1>1, <1>2 DEF Idle, ThreadState
<1>4. Resting \in MutatorState
  BY <1>1, <1>2 DEF Resting, MutatorState
<1>5. NoMeta \in Attributes
  BY <1>2 DEF NoMeta, Attributes
<1>6. NoFile \in FileState
  BY <1>2 DEF NoFile, FileState
<1>7. \A p \in Path : NoHandle(p) \in HandleState
  BY <1>2 DEF NoHandle, HandleState
<1>. QED
  BY <1>2, <1>3, <1>4, <1>5, <1>6, <1>7

LEMMA InitType == Init => TypeOK
<1> SUFFICES ASSUME Init PROVE TypeOK
  OBVIOUS
<1>1. 1 \in Gen
  BY BlockCacheAssumption DEF Gen
<1>2. reads \in 0 .. MaxReads /\ budget \in 0 .. Capacity /\ now \in Nat
  BY BlockCacheAssumption DEF Init
<1>3. /\ gen \in [Path -> Gen] /\ stamp \in [Path -> Gen] /\ retired \in [Path -> [Gen -> Nat]]
      /\ inval \subseteq Path \X Gen /\ inflight \subseteq Path \X Index
      /\ floor \in [Path -> 0 .. MaxGen] /\ pool \in Seq(Job) /\ Len(pool) <= QueueMax
  BY <1>1, InitialRecords, BlockCacheAssumption DEF Init
<1>4. /\ meta \in [Path -> Attributes] /\ files \in [Path -> FileState]
      /\ th \in [Thread -> ThreadState] /\ mu \in [Mutator -> MutatorState]
  BY InitialRecords DEF Init
<1>5. SomePath \in Path
  BY BlockCacheAssumption DEF SomePath
<1>6. fh \in [Handle -> HandleState]
  BY <1>5, InitialRecords DEF Init
<1>. QED
  BY <1>2, <1>3, <1>4, <1>6 DEF TypeOK

\* Thread t moves to state s.
Becomes(t, s) == s \in ThreadState /\ th' = [th EXCEPT ![t] = s]

LEMMA ThreadMoves ==
    ASSUME TypeOK, NEW t \in Thread, NEW s, Becomes(t, s)
    PROVE  /\ th' \in [Thread -> ThreadState] /\ th'[t] = s
           /\ \A x \in Thread : x # t => th'[x] = th[x]
  BY DEF TypeOK, Becomes

\* What TypeOK says of the threads, and of the handle a thread uses.
LEMMA ThreadTypes ==
    ASSUME TypeOK, NEW t \in Thread
    PROVE  /\ th[t] \in ThreadState /\ th[t].h \in Handle /\ PathOf(t) \in Path
           /\ th[t].cur \in Index /\ th[t].last \in Block /\ th[t].ver \in Stamp
           /\ th[t].att \in Stamp /\ th[t].data \in 0 .. MaxGen /\ th[t].got \subseteq Gen
           /\ th[t].since \in Nat /\ th[t].start \in Nat /\ th[t].floor \in 0 .. MaxGen
           /\ fh[th[t].h] \in HandleState /\ fh[th[t].h].ver \in Stamp
           /\ gen[PathOf(t)] \in Gen /\ stamp[PathOf(t)] \in Gen
<1>1. th[t] \in ThreadState
  BY DEF TypeOK
<1>2. th[t].h \in Handle
  BY <1>1 DEF ThreadState
<1>3. fh[th[t].h] \in HandleState
  BY <1>2 DEF TypeOK
<1>4. fh[th[t].h].path \in Path /\ fh[th[t].h].ver \in Stamp
  BY <1>3 DEF HandleState
<1>5. PathOf(t) \in Path
  BY <1>4 DEF PathOf
<1>6. gen[PathOf(t)] \in Gen /\ stamp[PathOf(t)] \in Gen
  BY <1>5 DEF TypeOK
<1>. QED
  BY <1>1, <1>2, <1>3, <1>4, <1>5, <1>6 DEF ThreadState

\* The host's answer to a READ is a generation.
LEMMA HostGenType == ASSUME TypeOK, NEW h \in Handle PROVE HostGen(h) \in Gen
<1>1. fh[h] \in HandleState /\ gen \in [Path -> Gen]
  BY DEF TypeOK
<1>2. fh[h].pinned \in 0 .. MaxGen /\ gen[fh[h].path] \in Gen
  BY <1>1 DEF HandleState
<1>. QED
  BY <1>2 DEF HostGen, Gen

\* What a thread goes on with after a block.
LEMMA AdvanceType ==
    ASSUME NEW s \in ThreadState, NEW t \in Thread
    PROVE  /\ Advance(s, t) \in ThreadState
           /\ \/ /\ Advance(s, t) = [s EXCEPT !.pc = "block", !.cur = s.cur + 1, !.data = 0]
                 /\ s.cur < s.last
              \/ /\ Advance(s, t) = [s EXCEPT !.pc = "ahead", !.data = 0]
                 /\ t \in Reader
              \/ Advance(s, t) = Idle /\ t \in Prefetcher
<1>1. s.cur \in Index /\ s.last \in Block
  BY DEF ThreadState
<1>2. CASE s.cur < s.last
  <2>1. s.cur + 1 \in Index
    BY <1>1, <1>2, BlockCacheAssumption DEF Index, Block
  <2>2. [s EXCEPT !.pc = "block", !.cur = s.cur + 1, !.data = 0] \in ThreadState
    BY <2>1, InitialRecords DEF ThreadState
  <2>. QED
    BY <1>2, <2>2 DEF Advance
<1>3. CASE ~(s.cur < s.last) /\ t \in Reader
  <2>1. [s EXCEPT !.pc = "ahead", !.data = 0] \in ThreadState
    BY InitialRecords DEF ThreadState
  <2>. QED
    BY <1>3, <2>1 DEF Advance
<1>4. CASE ~(s.cur < s.last) /\ t \notin Reader
  BY <1>4, InitialRecords DEF Advance, Thread
<1>. QED
  BY <1>2, <1>3, <1>4

\* Woken only takes a thread from wait to block.
LEMMA WokenType ==
    ASSUME NEW s \in ThreadState
    PROVE  /\ Woken(s) \in ThreadState
           /\ \/ Woken(s) = s /\ s.pc # "wait"
              \/ Woken(s) = [s EXCEPT !.pc = "block"] /\ s.pc = "wait"
<1>1. [s EXCEPT !.pc = "block"] \in ThreadState
  BY DEF ThreadState
<1>. QED
  BY <1>1 DEF Woken

LEMMA WakeAllType ==
    ASSUME TypeOK, NEW t \in Thread, NEW s \in ThreadState, th' = WakeAll(t, s)
    PROVE  /\ th' \in [Thread -> ThreadState] /\ th'[t] = s
           /\ \A x \in Thread : x # t => th'[x] = Woken(th[x])
  BY WokenType DEF TypeOK, WakeAll

-----------------------------------------------------------------------------
(* Type correctness, one lemma per group of actions.                       *)

LEMMA HostType ==
    ASSUME TypeOK, NEW p \in Path, NEW announce \in BOOLEAN, HostApplies(p, announce)
    PROVE  /\ gen' \in [Path -> Gen] /\ stamp' \in [Path -> Gen]
           /\ retired' \in [Path -> [Gen -> Nat]] /\ inval' \subseteq Path \X Gen
           /\ gen[p] + 1 \in Gen
<1>1. gen[p] \in Gen /\ stamp[p] \in Gen /\ gen[p] + 1 \in Gen
  <2>1. gen[p] \in Gen /\ stamp[p] \in Gen /\ gen[p] < MaxGen
    BY DEF TypeOK, HostApplies
  <2>. QED
    BY <2>1, BlockCacheAssumption DEF Gen
<1>2. gen' \in [Path -> Gen] /\ stamp' \in [Path -> Gen]
  BY <1>1 DEF TypeOK, HostApplies
<1>3. inval' \subseteq Path \X Gen
  BY <1>1 DEF TypeOK, HostApplies
<1>4. retired' \in [Path -> [Gen -> Nat]]
  BY <1>1 DEF TypeOK, HostApplies
<1>. QED
  BY <1>1, <1>2, <1>3, <1>4

LEMMA EnvironmentType ==
    ASSUME TypeOK,
           \/ Tick
           \/ \E p \in Path : RemoteWrite(p) \/ RemoteReplace(p)
           \/ \E b \in Budgets : Resample(b)
           \/ \E h \in Handle, p \in Path : Open(h, p)
           \/ \E h \in Handle : BeginClose(h) \/ Release(h)
    PROVE  TypeOK'
<1>1. CASE Tick
  <2>1. now' \in Nat
    BY <1>1 DEF Tick, TypeOK
  <2>2. UNCHANGED <<hostVars, floor, meta, fh, files, inflight, budget, pool, th, reads, mu>>
    BY <1>1 DEF Tick
  <2>. QED
    BY <2>1, <2>2 DEF TypeOK, hostVars
<1>2. ASSUME NEW p \in Path, RemoteWrite(p) PROVE TypeOK'
  BY <1>2, HostType DEF RemoteWrite, TypeOK
<1>3. ASSUME NEW p \in Path, RemoteReplace(p) PROVE TypeOK'
  <2>1. \A h \in Handle : [fh[h] EXCEPT !.pinned = gen[p]] \in HandleState
    <3>1. gen[p] \in 0 .. MaxGen
      BY DEF TypeOK, Gen
    <3>2. \A f \in HandleState : [f EXCEPT !.pinned = gen[p]] \in HandleState
      BY <3>1 DEF HandleState
    <3>. QED
      BY <3>2 DEF TypeOK
  <2>2. fh' \in [Handle -> HandleState]
    BY <1>3, <2>1 DEF RemoteReplace, TypeOK
  <2>. QED
    BY <1>3, <2>2, HostType DEF RemoteReplace, TypeOK
<1>4. ASSUME NEW b \in Budgets, Resample(b) PROVE TypeOK'
  BY <1>4, BlockCacheAssumption DEF Resample, TypeOK, hostVars
<1>5. ASSUME NEW h \in Handle, NEW p \in Path, Open(h, p) PROVE TypeOK'
  <2>1. [NoHandle(p) EXCEPT !.st = "open"] \in HandleState
    BY InitialRecords DEF HandleState
  <2>. QED
    BY <1>5, <2>1 DEF Open, TypeOK, hostVars
<1>6. ASSUME NEW h \in Handle, BeginClose(h) PROVE TypeOK'
  <2>1. fh \in [Handle -> HandleState] /\ fh[h] \in HandleState
    BY DEF TypeOK
  <2>2. fh' \in [Handle -> HandleState]
    BY <1>6, <2>1 DEF BeginClose, HandleState
  <2>. QED
    BY <1>6, <2>2 DEF BeginClose, TypeOK, hostVars
<1>7. ASSUME NEW h \in Handle, Release(h) PROVE TypeOK'
  <2>1. fh \in [Handle -> HandleState] /\ fh[h] \in HandleState
    BY DEF TypeOK
  <2>2. fh' \in [Handle -> HandleState]
    BY <1>7, <2>1 DEF Release, HandleState
  <2>. QED
    BY <1>7, <2>2 DEF Release, TypeOK, hostVars
<1>. QED
  BY <1>1, <1>2, <1>3, <1>4, <1>5, <1>6, <1>7

LEMMA StartReadType ==
    ASSUME TypeOK, NEW r \in Reader, NEW h \in Handle, NEW first \in Block, NEW last \in Block,
           StartRead(r, h, first, last)
    PROVE  TypeOK'
<1>. DEFINE s == [Idle EXCEPT !.h = h, !.pc = IF budget = 0 THEN "direct" ELSE "ver",
                              !.first = first, !.cur = first, !.last = last,
                              !.start = now, !.floor = floor[fh[h].path]]
<1>1. r \in Thread /\ th \in [Thread -> ThreadState] /\ now \in Nat
  BY DEF Thread, TypeOK
<1>2. floor[fh[h].path] \in 0 .. MaxGen
  BY DEF TypeOK, HandleState
<1>3. s \in ThreadState
  BY <1>1, <1>2, InitialRecords DEF ThreadState
<1>4. th' = [th EXCEPT ![r] = s] /\ reads < MaxReads /\ reads' = reads + 1
  BY DEF StartRead
<1>5. reads' \in 0 .. MaxReads
  BY <1>4, BlockCacheAssumption DEF TypeOK
<1>6. th' \in [Thread -> ThreadState]
  BY <1>1, <1>3, <1>4
<1>. QED
  BY <1>5, <1>6 DEF StartRead, TypeOK, hostVars

\* scheduleReadAhead: the blocks it wants are blocks, and the handle's pattern stays typed.
LEMMA AheadType ==
    ASSUME TypeOK, NEW r \in Reader, Ahead(r)
    PROVE  /\ fh' \in [Handle -> HandleState] /\ pool' = pool
           /\ \/ fh' = fh
              \/ \E v, w, z : fh' = [fh EXCEPT ![th[r].h] =
                            [fh[th[r].h] EXCEPT !.lastEnd = v, !.run = w, !.window = z]]
           /\ \E blocks \in SUBSET Index : th' = Submitting(r, blocks)
<1>. DEFINE f == fh[th[r].h]
            sequential == th[r].first = f.lastEnd
            run == IF sequential THEN Min2(f.run + 1, 2) ELSE 0
            grown == IF f.window = 0 THEN 1 ELSE Min2(f.window * 2, MaxWindow)
            window == IF sequential THEN grown ELSE 0
            jobs == IF run < 2 THEN 0 ELSE Min2(window, Max2(1, budget \div 2))
            next == th[r].last + 1
            wanted == next .. next + jobs - 1
<1>1. r \in Thread /\ f \in HandleState /\ fh \in [Handle -> HandleState]
  BY ThreadTypes DEF TypeOK, Thread
<1>2. /\ th[r].h \in Handle /\ th[r].last \in Block /\ budget \in Nat
  <2>1. budget \in 0 .. Capacity
    BY DEF TypeOK
  <2>. QED
    BY <1>1, <2>1, ThreadTypes, BlockCacheAssumption
<1>3. f.run \in 0 .. 2 /\ f.window \in Nat
  BY <1>1 DEF HandleState
<1>4. CASE budget = 0
  <2>1. fh' = fh /\ th' = Submitting(r, {}) /\ pool' = pool
    BY <1>4 DEF Ahead
  <2>. QED
    BY <1>1, <2>1
<1>5. CASE budget # 0
  <2>1. /\ fh' = [fh EXCEPT ![th[r].h].lastEnd = next, ![th[r].h].run = run,
                            ![th[r].h].window = window]
        /\ th' = Submitting(r, wanted) /\ pool' = pool
    BY <1>5 DEF Ahead
  <2>2. next \in Nat /\ 1 <= next /\ next <= NBlocks
    BY <1>2, BlockCacheAssumption DEF Block
  <2>3. run \in 0 .. 2
    BY <1>3 DEF Min2
  <2>4. grown \in Nat /\ window \in Nat /\ window <= MaxWindow
    BY <1>3, BlockCacheAssumption DEF Min2
  <2>5. budget \div 2 \in Nat
    BY <1>2
  <2>. HIDE DEF run, window, next
  <2>6. jobs \in Nat /\ jobs <= MaxWindow
    BY <2>3, <2>4, <2>5, BlockCacheAssumption DEF Min2, Max2
  <2>. HIDE DEF jobs
  <2>7. wanted \subseteq Index
    BY <2>2, <2>6, BlockCacheAssumption DEF Index
  <2>. HIDE DEF f
  <2>8. /\ fh' \in [Handle -> HandleState]
        /\ \E v, w, z : fh' = [fh EXCEPT ![th[r].h] =
                            [fh[th[r].h] EXCEPT !.lastEnd = v, !.run = w, !.window = z]]
    <3>. DEFINE g == [fh[th[r].h] EXCEPT !.lastEnd = next, !.run = run, !.window = window]
    <3>1. fh[th[r].h] \in HandleState
      BY <1>1 DEF f
    <3>2. g \in HandleState
      BY <3>1, <2>2, <2>3, <2>4 DEF HandleState
    <3>3. fh' = [fh EXCEPT ![th[r].h] = g]
      BY <1>1, <1>2, <2>1
    <3>. QED
      BY <1>1, <3>2, <3>3
  <2>. HIDE DEF wanted
  <2>. QED
    BY <2>1, <2>7, <2>8
<1>. QED
  BY <1>4, <1>5

\* ... the job it submits is the read's, the queue keeps its bound, and less is left to submit.
LEMMA SubmitType ==
    ASSUME TypeOK, NEW r \in Reader, Submit(r)
    PROVE  /\ pool' \in Seq(Job) /\ Len(pool') <= QueueMax /\ fh' = fh
           /\ \A i \in 1 .. Len(pool') :
                \/ pool'[i].h = th[r].h /\ pool'[i].ver = th[r].ver
                \/ i \in 1 .. Len(pool) /\ pool'[i] = pool[i]
           /\ \E blocks \in SUBSET Index : th' = Submitting(r, blocks)
<1>1. /\ th[r] \in ThreadState /\ th[r].h \in Handle /\ th[r].ver \in Stamp
      /\ pool \in Seq(Job) /\ Len(pool) <= QueueMax
  BY ThreadTypes DEF TypeOK, Thread
<1>2. th[r].ahead \subseteq Index
  BY <1>1 DEF ThreadState
<1>3. PICK b \in th[r].ahead :
        /\ pool' = IF Room THEN Append(pool, [h |-> th[r].h, ver |-> th[r].ver, blk |-> b])
                   ELSE pool
        /\ th' = Submitting(r, th[r].ahead \ {b})
  BY DEF Submit
<1>. DEFINE job == [h |-> th[r].h, ver |-> th[r].ver, blk |-> b]
<1>4. job \in Job /\ job.h = th[r].h /\ job.ver = th[r].ver
  BY <1>1, <1>2 DEF Job
<1>. HIDE DEF job
<1>5. pool' = IF Room THEN Append(pool, job) ELSE pool
  BY <1>3 DEF job
<1>6. /\ pool' \in Seq(Job) /\ Len(pool') <= QueueMax
      /\ \A i \in 1 .. Len(pool') :
            \/ pool'[i].h = th[r].h /\ pool'[i].ver = th[r].ver
            \/ i \in 1 .. Len(pool) /\ pool'[i] = pool[i]
  BY <1>1, <1>4, <1>5, BlockCacheAssumption DEF Room
<1>7. th[r].ahead \ {b} \in SUBSET Index /\ fh' = fh
  BY <1>2 DEF Submit
<1>. QED
  BY <1>3, <1>6, <1>7

\* The steps of a reader before and after the blocks, as updates of its record.
LEMMA ReaderUpdates ==
    ASSUME TypeOK, NEW r \in Reader
    PROVE
           /\ CheckHandleVersion(r) =>
                  \/ Becomes(r, [th[r] EXCEPT !.pc = "block", !.ver = fh[th[r].h].ver])
                  \/ Becomes(r, [th[r] EXCEPT !.pc = "meta"])
           /\ LookupMeta(r) =>
                  \/ Becomes(r, [th[r] EXCEPT !.pc = "fhstore", !.att = meta[PathOf(r)].stamp, !.since = now])
                  \/ Becomes(r, [th[r] EXCEPT !.pc = "getattr"])
           /\ AnswerGetattr(r) =>
                  Becomes(r, [th[r] EXCEPT !.pc = "metastore", !.att = stamp[PathOf(r)], !.since = now])
           /\ FailGetattr(r) =>
                  Becomes(r, [th[r] EXCEPT !.pc = "direct"])
           /\ StoreMeta(r) =>
                  Becomes(r, [th[r] EXCEPT !.pc = "fhstore", !.since = now])
           /\ StoreHandleVersion(r) =>
                  Becomes(r, [th[r] EXCEPT !.pc = "block", !.ver = th[r].att, !.att = 0, !.since = 0])
           /\ AnswerDirect(r) =>
                  \/ Becomes(r, [th[r] EXCEPT !.pc = "reply", !.got = {HostGen(th[r].h)}])
                  \/ Becomes(r, [th[r] EXCEPT !.pc = "reply"])
           /\ Ahead(r) \/ Submit(r) =>
                  \E pc \in {"submit", "reply"}, blocks \in SUBSET Index :
                      Becomes(r, [th[r] EXCEPT !.ahead = blocks, !.pc = pc])
<1>1. r \in Thread /\ th \in [Thread -> ThreadState] /\ now \in Nat /\ th[r] \in ThreadState
  BY DEF Thread, TypeOK
<1>2. /\ fh[th[r].h].ver \in Stamp /\ th[r].att \in Stamp /\ stamp[PathOf(r)] \in Stamp
      /\ {HostGen(th[r].h)} \subseteq Gen
  BY <1>1, ThreadTypes, HostGenType, InitialRecords
<1>3. meta[PathOf(r)].stamp \in Stamp
  BY <1>1, ThreadTypes DEF TypeOK, Attributes
<1>4. 0 \in Stamp /\ 0 \in Nat
  BY InitialRecords
<1>5. ASSUME CheckHandleVersion(r)
      PROVE  \/ Becomes(r, [th[r] EXCEPT !.pc = "block", !.ver = fh[th[r].h].ver])
           \/ Becomes(r, [th[r] EXCEPT !.pc = "meta"])
  <2>1. [th[r] EXCEPT !.pc = "block", !.ver = fh[th[r].h].ver] \in ThreadState
    BY <1>1, <1>2, <1>3, <1>4 DEF ThreadState
  <2>2. [th[r] EXCEPT !.pc = "meta"] \in ThreadState
    BY <1>1, <1>2, <1>3, <1>4 DEF ThreadState
  <2>. QED
    BY <1>1, <1>5, <2>1, <2>2 DEF CheckHandleVersion, Becomes
<1>6. ASSUME LookupMeta(r)
      PROVE  \/ Becomes(r, [th[r] EXCEPT !.pc = "fhstore", !.att = meta[PathOf(r)].stamp, !.since = now])
           \/ Becomes(r, [th[r] EXCEPT !.pc = "getattr"])
  <2>1. [th[r] EXCEPT !.pc = "fhstore", !.att = meta[PathOf(r)].stamp, !.since = now] \in ThreadState
    BY <1>1, <1>2, <1>3, <1>4 DEF ThreadState
  <2>2. [th[r] EXCEPT !.pc = "getattr"] \in ThreadState
    BY <1>1, <1>2, <1>3, <1>4 DEF ThreadState
  <2>. QED
    BY <1>1, <1>6, <2>1, <2>2 DEF LookupMeta, Becomes
<1>7. ASSUME AnswerGetattr(r)
      PROVE  Becomes(r, [th[r] EXCEPT !.pc = "metastore", !.att = stamp[PathOf(r)], !.since = now])
  <2>1. [th[r] EXCEPT !.pc = "metastore", !.att = stamp[PathOf(r)], !.since = now] \in ThreadState
    BY <1>1, <1>2, <1>3, <1>4 DEF ThreadState
  <2>. QED
    BY <1>1, <1>7, <2>1 DEF AnswerGetattr, Becomes
<1>8. ASSUME FailGetattr(r)
      PROVE  Becomes(r, [th[r] EXCEPT !.pc = "direct"])
  <2>1. [th[r] EXCEPT !.pc = "direct"] \in ThreadState
    BY <1>1, <1>2, <1>3, <1>4 DEF ThreadState
  <2>. QED
    BY <1>1, <1>8, <2>1 DEF FailGetattr, Becomes
<1>9. ASSUME StoreMeta(r)
      PROVE  Becomes(r, [th[r] EXCEPT !.pc = "fhstore", !.since = now])
  <2>1. [th[r] EXCEPT !.pc = "fhstore", !.since = now] \in ThreadState
    BY <1>1, <1>2, <1>3, <1>4 DEF ThreadState
  <2>. QED
    BY <1>1, <1>9, <2>1 DEF StoreMeta, Becomes
<1>10. ASSUME StoreHandleVersion(r)
      PROVE  Becomes(r, [th[r] EXCEPT !.pc = "block", !.ver = th[r].att, !.att = 0, !.since = 0])
  <2>1. [th[r] EXCEPT !.pc = "block", !.ver = th[r].att, !.att = 0, !.since = 0] \in ThreadState
    BY <1>1, <1>2, <1>3, <1>4 DEF ThreadState
  <2>. QED
    BY <1>1, <1>10, <2>1 DEF StoreHandleVersion, Becomes
<1>11. ASSUME AnswerDirect(r)
      PROVE  \/ Becomes(r, [th[r] EXCEPT !.pc = "reply", !.got = {HostGen(th[r].h)}])
           \/ Becomes(r, [th[r] EXCEPT !.pc = "reply"])
  <2>1. [th[r] EXCEPT !.pc = "reply", !.got = {HostGen(th[r].h)}] \in ThreadState
    BY <1>1, <1>2, <1>3, <1>4 DEF ThreadState
  <2>2. [th[r] EXCEPT !.pc = "reply"] \in ThreadState
    BY <1>1, <1>2, <1>3, <1>4 DEF ThreadState
  <2>. QED
    BY <1>1, <1>11, <2>1, <2>2 DEF AnswerDirect, Becomes
<1>12. ASSUME Ahead(r) \/ Submit(r)
       PROVE  \E pc \in {"submit", "reply"}, blocks \in SUBSET Index :
                  Becomes(r, [th[r] EXCEPT !.ahead = blocks, !.pc = pc])
  <2>1. PICK blocks \in SUBSET Index : th' = Submitting(r, blocks)
    BY <1>12, AheadType, SubmitType
  <2>2. PICK pc \in {"submit", "reply"} : pc = IF blocks = {} THEN "reply" ELSE "submit"
    OBVIOUS
  <2>3. [th[r] EXCEPT !.ahead = blocks, !.pc = pc] \in ThreadState
    BY <1>1 DEF ThreadState
  <2>4. th' = [th EXCEPT ![r] = [th[r] EXCEPT !.ahead = blocks, !.pc = pc]]
    BY <1>1, <2>1, <2>2 DEF Submitting
  <2>. QED
    BY <2>3, <2>4 DEF Becomes
<1>. QED
  BY <1>5, <1>6, <1>7, <1>8, <1>9, <1>10, <1>11, <1>12

\* What a cached file becomes when it is purged, filled or evicted from.
LEMMA PurgeType ==
    ASSUME NEW f \in [Path -> FileState], NEW p \in Path
    PROVE  /\ Purge(f, p) \in [Path -> FileState] /\ Purge(f, p)[p] = NoFile
           /\ \A q \in Path : q # p => Purge(f, p)[q] = f[q]
  BY InitialRecords DEF Purge

LEMMA InsertType ==
    ASSUME NEW f \in [Path -> FileState], NEW p \in Path, NEW ver \in Stamp, NEW b \in Index,
           NEW d \in 0 .. MaxGen
    PROVE  /\ Insert(f, p, ver, b, d) \in [Path -> FileState]
           /\ \A q \in Path : q # p => Insert(f, p, ver, b, d)[q] = f[q]
           /\ \A c \in Index :
                \/ Insert(f, p, ver, b, d)[p].blk[c] \in {0, f[p].blk[c]}
                \/ c = b /\ Insert(f, p, ver, b, d)[p].blk[c] = d
<1>. DEFINE f1 == Current(f, p, ver)
            g == [tag |-> ver, blk |-> [f1[p].blk EXCEPT ![b] = d]]
<1>1. f1 \in [Path -> FileState] /\ \A q \in Path : q # p => f1[q] = f[q]
  BY PurgeType DEF Current
<1>2. f1[p] \in FileState /\ f1[p].blk \in [Index -> 0 .. MaxGen]
  BY <1>1 DEF FileState
<1>3. f1[p] = f[p] \/ f1[p] = NoFile
  BY PurgeType DEF Current
<1>4. \A c \in Index : f1[p].blk[c] \in {0, f[p].blk[c]}
  BY <1>3 DEF NoFile
<1>5. g \in FileState /\ g.blk[b] = d /\ \A c \in Index : c # b => g.blk[c] = f1[p].blk[c]
  BY <1>2 DEF FileState
<1>. HIDE DEF f1, g
<1>6. Insert(f, p, ver, b, d) = IF f1[p].blk[b] # 0 THEN f1 ELSE [f1 EXCEPT ![p] = g]
  BY DEF Insert, f1, g
<1>. QED
  BY <1>1, <1>4, <1>5, <1>6

LEMMA DropType ==
    ASSUME NEW f \in [Path -> FileState], NEW v
    PROVE  /\ Drop(f, v) \in [Path -> FileState]
           /\ \A p \in Path, c \in Index : Drop(f, v)[p].blk[c] \in {0, f[p].blk[c]}
<1>. SUFFICES ASSUME NEW p \in Path
              PROVE  /\ Drop(f, v)[p] \in FileState
                     /\ \A c \in Index : Drop(f, v)[p].blk[c] \in {0, f[p].blk[c]}
  BY DEF Drop
<1>. DEFINE left == [b \in Index |-> IF <<p, b>> \in v THEN 0 ELSE f[p].blk[b]]
            g == [f[p] EXCEPT !.blk = left]
<1>1. f[p] \in FileState /\ f[p].blk \in [Index -> 0 .. MaxGen]
  BY DEF FileState
<1>2. left \in [Index -> 0 .. MaxGen] /\ \A c \in Index : left[c] \in {0, f[p].blk[c]}
  BY <1>1, InitialRecords
<1>. HIDE DEF left
<1>3. g \in FileState /\ g.blk = left
  BY <1>1, <1>2 DEF FileState
<1>. HIDE DEF g
<1>4. Drop(f, v)[p] = NoFile \/ Drop(f, v)[p] = g
  BY DEF Drop, g, left
<1>5. \A c \in Index : NoFile.blk[c] = 0
  BY DEF NoFile
<1>. QED
  BY <1>2, <1>3, <1>4, <1>5, InitialRecords

\* A reader's steps preserve the types.
LEMMA ReaderType == ASSUME TypeOK, NEW r \in Reader, ReaderStep(r) PROVE TypeOK'
<1>1. r \in Thread /\ now \in Nat /\ th[r].att \in Stamp
  BY ThreadTypes DEF Thread, TypeOK
<1>2. CASE CheckHandleVersion(r)
  <2>1. th' \in [Thread -> ThreadState]
    BY <1>1, <1>2, ReaderUpdates, ThreadMoves
  <2>. QED
    BY <1>2, <2>1 DEF CheckHandleVersion, TypeOK, hostVars
<1>3. CASE LookupMeta(r)
  <2>1. th' \in [Thread -> ThreadState]
    BY <1>1, <1>3, ReaderUpdates, ThreadMoves
  <2>2. meta' \in [Path -> Attributes]
    BY <1>3, InitialRecords DEF LookupMeta, TypeOK
  <2>. QED
    BY <1>3, <2>1, <2>2 DEF LookupMeta, TypeOK, hostVars
<1>4. CASE AnswerGetattr(r)
  <2>1. th' \in [Thread -> ThreadState]
    BY <1>1, <1>4, ReaderUpdates, ThreadMoves
  <2>. QED
    BY <1>4, <2>1 DEF AnswerGetattr, TypeOK, hostVars
<1>5. CASE FailGetattr(r)
  <2>1. th' \in [Thread -> ThreadState]
    BY <1>1, <1>5, ReaderUpdates, ThreadMoves
  <2>. QED
    BY <1>5, <2>1 DEF FailGetattr, TypeOK, hostVars
<1>6. CASE StoreMeta(r)
  <2>1. th' \in [Thread -> ThreadState]
    BY <1>1, <1>6, ReaderUpdates, ThreadMoves
  <2>2. [stamp |-> th[r].att, at |-> now] \in Attributes
    BY <1>1 DEF Attributes
  <2>3. meta' \in [Path -> Attributes]
    BY <1>6, <2>2 DEF StoreMeta, TypeOK
  <2>. QED
    BY <1>6, <2>1, <2>3 DEF StoreMeta, TypeOK, hostVars
<1>7. CASE StoreHandleVersion(r)
  <2>1. th' \in [Thread -> ThreadState]
    BY <1>1, <1>7, ReaderUpdates, ThreadMoves
  <2>2. fh \in [Handle -> HandleState] /\ fh[th[r].h] \in HandleState
    BY <1>1, ThreadTypes DEF TypeOK
  <2>3. fh' \in [Handle -> HandleState]
    BY <1>1, <1>7, <2>2 DEF StoreHandleVersion, HandleState
  <2>. QED
    BY <1>7, <2>1, <2>3 DEF StoreHandleVersion, TypeOK, hostVars
<1>8. CASE AnswerDirect(r)
  <2>1. th' \in [Thread -> ThreadState]
    BY <1>1, <1>8, ReaderUpdates, ThreadMoves
  <2>. QED
    BY <1>8, <2>1 DEF AnswerDirect, TypeOK, hostVars
<1>9. CASE Ahead(r)
  <2>1. th' \in [Thread -> ThreadState]
    BY <1>1, <1>9, ReaderUpdates, ThreadMoves
  <2>2. fh' \in [Handle -> HandleState]
    BY <1>9, AheadType
  <2>. QED
    BY <1>9, <2>1, <2>2 DEF Ahead, TypeOK, hostVars
<1>10. CASE Submit(r)
  <2>1. th' \in [Thread -> ThreadState]
    BY <1>1, <1>10, ReaderUpdates, ThreadMoves
  <2>2. pool' \in Seq(Job) /\ Len(pool') <= QueueMax
    BY <1>10, SubmitType
  <2>. QED
    BY <1>10, <2>1, <2>2 DEF Submit, TypeOK, hostVars
<1>11. CASE Reply(r)
  <2>1. th' \in [Thread -> ThreadState]
    BY <1>1, <1>11, InitialRecords DEF Reply, TypeOK
  <2>. QED
    BY <1>11, <2>1 DEF Reply, TypeOK, hostVars
<1>. QED
  BY <1>2, <1>3, <1>4, <1>5, <1>6, <1>7, <1>8, <1>9, <1>10, <1>11 DEF ReaderStep

\* The steps of blockFetch, as updates of the threads.
LEMMA FetchUpdates ==
    ASSUME TypeOK, NEW t \in Thread
    PROVE  /\ LookupBlock(t) =>
                \/ \E g \in Gen : /\ g = Current(files, PathOf(t), th[t].ver)[PathOf(t)].blk[th[t].cur]
                                  /\ Served(t, g) \in ThreadState
                                  /\ Becomes(t, Advance(Served(t, g), t))
                                  /\ inflight' = inflight
                \/ /\ Becomes(t, [th[t] EXCEPT !.pc = "wait"])
                   /\ <<PathOf(t), th[t].cur>> \in inflight /\ inflight' = inflight
                \/ /\ Becomes(t, [th[t] EXCEPT !.pc = "begin"])
                   /\ <<PathOf(t), th[t].cur>> \notin inflight
                   /\ inflight' = inflight \cup {<<PathOf(t), th[t].cur>>}
           /\ BeginFetch(t) =>
                \/ fh[th[t].h].st = "open" /\ Becomes(t, [th[t] EXCEPT !.pc = "fetch"])
                \/ fh[th[t].h].st # "open" /\ Becomes(t, [th[t] EXCEPT !.pc = "put", !.data = 0])
           /\ AnswerFetch(t) => \E d \in {0, HostGen(th[t].h)} :
                Becomes(t, [th[t] EXCEPT !.pc = "put", !.data = d])
           /\ PutBlock(t) \/ PutOutOfMemory(t) =>
                /\ Served(t, th[t].data) \in ThreadState
                /\ Advance(Served(t, th[t].data), t) \in ThreadState
                /\ th' = WakeAll(t, Advance(Served(t, th[t].data), t))
           /\ PutFailed(t) => \E s \in {[th[t] EXCEPT !.pc = "reply"], Idle} :
                /\ s \in ThreadState /\ th' = WakeAll(t, s)
                /\ (t \in Prefetcher => s = Idle)
<1>1. /\ th \in [Thread -> ThreadState] /\ files \in [Path -> FileState]
      /\ th[t] \in ThreadState /\ PathOf(t) \in Path /\ th[t].cur \in Index
      /\ th[t].data \in 0 .. MaxGen /\ HostGen(th[t].h) \in Gen /\ 0 \in 0 .. MaxGen
  BY ThreadTypes, HostGenType, InitialRecords DEF TypeOK
<1>2. \A g \in Gen : Served(t, g) \in ThreadState
  BY <1>1 DEF Served, ThreadState
<1>3. ASSUME LookupBlock(t)
      PROVE  \/ \E g \in Gen : /\ g = Current(files, PathOf(t), th[t].ver)[PathOf(t)].blk[th[t].cur]
                               /\ Served(t, g) \in ThreadState
                               /\ Becomes(t, Advance(Served(t, g), t))
                               /\ inflight' = inflight
             \/ /\ Becomes(t, [th[t] EXCEPT !.pc = "wait"])
                /\ <<PathOf(t), th[t].cur>> \in inflight /\ inflight' = inflight
             \/ /\ Becomes(t, [th[t] EXCEPT !.pc = "begin"])
                /\ <<PathOf(t), th[t].cur>> \notin inflight
                /\ inflight' = inflight \cup {<<PathOf(t), th[t].cur>>}
  <2>. DEFINE g == Current(files, PathOf(t), th[t].ver)[PathOf(t)].blk[th[t].cur]
  <2>1. Current(files, PathOf(t), th[t].ver) \in [Path -> FileState]
    BY <1>1, PurgeType DEF Current
  <2>2. g \in 0 .. MaxGen
    BY <1>1, <2>1 DEF FileState
  <2>3. /\ [th[t] EXCEPT !.pc = "wait"] \in ThreadState
        /\ [th[t] EXCEPT !.pc = "begin"] \in ThreadState
    BY <1>1 DEF ThreadState
  <2>4. \/ g # 0 /\ th' = [th EXCEPT ![t] = Advance(Served(t, g), t)] /\ inflight' = inflight
        \/ /\ th' = [th EXCEPT ![t] = [th[t] EXCEPT !.pc = "wait"]]
           /\ <<PathOf(t), th[t].cur>> \in inflight /\ inflight' = inflight
        \/ /\ th' = [th EXCEPT ![t] = [th[t] EXCEPT !.pc = "begin"]]
           /\ <<PathOf(t), th[t].cur>> \notin inflight
           /\ inflight' = inflight \cup {<<PathOf(t), th[t].cur>>}
    BY <1>1, <1>3 DEF LookupBlock, InFlight
  <2>5. g # 0 => g \in Gen
    BY <2>2, BlockCacheAssumption DEF Gen
  <2>6. g # 0 => Advance(Served(t, g), t) \in ThreadState
    BY <1>2, <2>5, AdvanceType
  <2>. HIDE DEF g
  <2>7. CASE g # 0 /\ th' = [th EXCEPT ![t] = Advance(Served(t, g), t)] /\ inflight' = inflight
    <3>1. g \in Gen /\ Becomes(t, Advance(Served(t, g), t)) /\ Served(t, g) \in ThreadState
      BY <1>2, <2>5, <2>6, <2>7 DEF Becomes
    <3>. QED
      BY <2>7, <3>1 DEF g
  <2>. QED
    BY <2>3, <2>4, <2>7 DEF Becomes
<1>4. ASSUME BeginFetch(t)
      PROVE  \/ fh[th[t].h].st = "open" /\ Becomes(t, [th[t] EXCEPT !.pc = "fetch"])
             \/ /\ fh[th[t].h].st # "open"
                /\ Becomes(t, [th[t] EXCEPT !.pc = "put", !.data = 0])
  <2>1. /\ [th[t] EXCEPT !.pc = "fetch"] \in ThreadState
        /\ [th[t] EXCEPT !.pc = "put", !.data = 0] \in ThreadState
    BY <1>1 DEF ThreadState
  <2>. QED
    BY <1>1, <1>4, <2>1 DEF BeginFetch, Becomes
<1>5. ASSUME AnswerFetch(t)
      PROVE  \E d \in {0, HostGen(th[t].h)} : Becomes(t, [th[t] EXCEPT !.pc = "put", !.data = d])
  <2>1. \A d \in {0, HostGen(th[t].h)} : d \in 0 .. MaxGen
    BY <1>1 DEF Gen
  <2>2. \A d \in {0, HostGen(th[t].h)} : [th[t] EXCEPT !.pc = "put", !.data = d] \in ThreadState
    BY <1>1, <2>1 DEF ThreadState
  <2>3. \E d \in {0, HostGen(th[t].h)} : th' = [th EXCEPT ![t].pc = "put", ![t].data = d]
    BY <1>5 DEF AnswerFetch
  <2>. QED
    BY <1>1, <2>2, <2>3 DEF Becomes
<1>6. ASSUME PutBlock(t) \/ PutOutOfMemory(t)
      PROVE  /\ Served(t, th[t].data) \in ThreadState
             /\ Advance(Served(t, th[t].data), t) \in ThreadState
             /\ th' = WakeAll(t, Advance(Served(t, th[t].data), t))
  <2>1. th[t].data # 0 /\ th' = WakeAll(t, Advance(Served(t, th[t].data), t))
    BY <1>6 DEF PutBlock, PutOutOfMemory
  <2>2. th[t].data \in Gen
    BY <1>1, <2>1, BlockCacheAssumption DEF Gen
  <2>. QED
    BY <1>2, <2>1, <2>2, AdvanceType
<1>7. ASSUME PutFailed(t)
      PROVE  \E s \in {[th[t] EXCEPT !.pc = "reply"], Idle} :
                /\ s \in ThreadState /\ th' = WakeAll(t, s)
                /\ (t \in Prefetcher => s = Idle)
  <2>1. [th[t] EXCEPT !.pc = "reply"] \in ThreadState
    BY <1>1 DEF ThreadState
  <2>2. th' = WakeAll(t, IF t \in Reader THEN [th[t] EXCEPT !.pc = "reply"] ELSE Idle)
    BY <1>7 DEF PutFailed
  <2>. QED
    BY <2>1, <2>2, InitialRecords, BlockCacheAssumption
<1>. QED
  BY <1>3, <1>4, <1>5, <1>6, <1>7

\* The steps of blockFetch preserve the types.
LEMMA FetchType == ASSUME TypeOK, NEW t \in Thread, FetchStep(t) PROVE TypeOK'
<1>1. /\ files \in [Path -> FileState] /\ fh \in [Handle -> HandleState]
      /\ th[t] \in ThreadState /\ PathOf(t) \in Path /\ th[t].cur \in Index
      /\ th[t].ver \in Stamp /\ th[t].data \in 0 .. MaxGen /\ th[t].h \in Handle
      /\ fh[th[t].h] \in HandleState /\ inflight \subseteq Path \X Index
  BY ThreadTypes DEF TypeOK
<1>2. CASE LookupBlock(t)
  <2>1. th' \in [Thread -> ThreadState] /\ inflight' \subseteq Path \X Index
    <3>1. PICK s : Becomes(t, s)
      BY <1>2, FetchUpdates
    <3>2. inflight' \subseteq Path \X Index
      BY <1>1, <1>2 DEF LookupBlock
    <3>. QED
      BY <3>1, <3>2, ThreadMoves
  <2>2. files' \in [Path -> FileState]
    BY <1>1, <1>2, PurgeType DEF LookupBlock, Current
  <2>. QED
    BY <1>2, <2>1, <2>2 DEF LookupBlock, TypeOK, hostVars
<1>3. CASE BeginFetch(t)
  <2>1. th' \in [Thread -> ThreadState]
    <3>1. PICK s : Becomes(t, s)
      BY <1>3, FetchUpdates
    <3>. QED
      BY <3>1, ThreadMoves
  <2>2. fh' \in [Handle -> HandleState]
    <3>1. [fh EXCEPT ![th[t].h].active = @ + 1] \in [Handle -> HandleState]
      BY <1>1 DEF HandleState
    <3>. QED
      BY <1>1, <1>3, <3>1 DEF BeginFetch, BeginRead
  <2>. QED
    BY <1>3, <2>1, <2>2 DEF BeginFetch, TypeOK, hostVars
<1>4. CASE AnswerFetch(t)
  <2>1. th' \in [Thread -> ThreadState]
    <3>1. PICK s : Becomes(t, s)
      BY <1>4, FetchUpdates
    <3>. QED
      BY <3>1, ThreadMoves
  <2>2. fh' \in [Handle -> HandleState]
    BY <1>1, <1>4 DEF AnswerFetch, EndRead, HandleState
  <2>. QED
    BY <1>4, <2>1, <2>2 DEF AnswerFetch, TypeOK, hostVars
<1>5. CASE PutBlock(t)
  <2>1. th' \in [Thread -> ThreadState]
    BY <1>5, FetchUpdates, WakeAllType
  <2>2. files' \in [Path -> FileState]
    <3>1. Insert(files, PathOf(t), th[t].ver, th[t].cur, th[t].data) \in [Path -> FileState]
      BY <1>1, InsertType
    <3>2. PICK victims :
            files' = Drop(Insert(files, PathOf(t), th[t].ver, th[t].cur, th[t].data), victims)
      BY <1>5 DEF PutBlock
    <3>. QED
      BY <3>1, <3>2, DropType
  <2>. QED
    BY <1>5, <2>1, <2>2 DEF PutBlock, TypeOK, hostVars
<1>6. CASE PutOutOfMemory(t)
  <2>1. th' \in [Thread -> ThreadState]
    BY <1>6, FetchUpdates, WakeAllType
  <2>2. files' \in [Path -> FileState]
    <3>1. Current(files, PathOf(t), th[t].ver) \in [Path -> FileState]
      BY <1>1, PurgeType DEF Current
    <3>2. PICK victims : files' = Drop(Current(files, PathOf(t), th[t].ver), victims)
      BY <1>6 DEF PutOutOfMemory
    <3>. QED
      BY <3>1, <3>2, DropType
  <2>3. budget' \in 0 .. Capacity
    BY <1>6, BlockCacheAssumption DEF PutOutOfMemory
  <2>. QED
    BY <1>6, <2>1, <2>2, <2>3 DEF PutOutOfMemory, TypeOK, hostVars
<1>7. CASE PutFailed(t)
  <2>1. th' \in [Thread -> ThreadState]
    BY <1>7, FetchUpdates, WakeAllType
  <2>. QED
    BY <1>7, <2>1 DEF PutFailed, TypeOK, hostVars
<1>. QED
  BY <1>2, <1>3, <1>4, <1>5, <1>6, <1>7 DEF FetchStep

LEMMA JobType ==
    ASSUME TypeOK, NEW f \in Prefetcher, TakeJob(f)
    PROVE  /\ TypeOK' /\ Head(pool) \in Job
           /\ Becomes(f, [Idle EXCEPT !.h = Head(pool).h, !.pc = "block", !.ver = Head(pool).ver,
                 !.cur = Head(pool).blk])
<1>1. pool \in Seq(Job) /\ pool # <<>> /\ th \in [Thread -> ThreadState] /\ f \in Thread
  BY DEF TypeOK, TakeJob, Thread
<1>2. Head(pool) \in Job /\ pool' \in Seq(Job) /\ Len(pool') <= QueueMax
  BY <1>1, BlockCacheAssumption DEF TakeJob, TypeOK
<1>3. Becomes(f, [Idle EXCEPT !.h = Head(pool).h, !.pc = "block", !.ver = Head(pool).ver,
                 !.cur = Head(pool).blk])
  <2>1. Head(pool).h \in Handle /\ Head(pool).ver \in Stamp /\ Head(pool).blk \in Index
    BY <1>2 DEF Job
  <2>2. [Idle EXCEPT !.h = Head(pool).h, !.pc = "block", !.ver = Head(pool).ver,
                 !.cur = Head(pool).blk]
           \in ThreadState
    BY <2>1, InitialRecords DEF ThreadState
  <2>. QED
    BY <2>2 DEF TakeJob, Becomes
<1>4. th' \in [Thread -> ThreadState]
  BY <1>1, <1>3, ThreadMoves
<1>5. TypeOK'
  BY <1>2, <1>4 DEF TakeJob, TypeOK, hostVars
<1>. QED
  BY <1>2, <1>3, <1>5

\* The steps of the mutators preserve the types.
LEMMA MutatorType ==
    ASSUME TypeOK,
           \/ \E w \in Writer, p \in Path : HostWrites(w, p) \/ HostSetsAttrs(w, p)
           \/ \E n \in Notifier, msg \in inval : Notified(n, msg)
           \/ \E m \in Mutator : MutatorStep(m)
    PROVE  TypeOK'
<1>1. ASSUME NEW w \in Writer, NEW p \in Path, HostWrites(w, p) \/ HostSetsAttrs(w, p)
      PROVE  TypeOK'
  <2>1. HostApplies(p, TRUE)
    BY <1>1 DEF HostWrites, HostSetsAttrs
  <2>2. gen[p] + 1 \in 0 .. MaxGen
    <3>1. gen[p] + 1 \in Gen
      BY <2>1, HostType
    <3>. QED
      BY <3>1, BlockCacheAssumption DEF Gen
  <2>3. /\ [pc |-> "applied", p |-> p, gen |-> gen[p] + 1] \in MutatorState
        /\ [pc |-> "attrs", p |-> p, gen |-> gen[p] + 1] \in MutatorState
    BY <2>2 DEF MutatorState
  <2>4. mu' \in [Mutator -> MutatorState]
    BY <1>1, <2>3 DEF HostWrites, HostSetsAttrs, TypeOK
  <2>5. /\ gen' \in [Path -> Gen] /\ stamp' \in [Path -> Gen]
        /\ retired' \in [Path -> [Gen -> Nat]] /\ inval' \subseteq Path \X Gen
    BY <2>1, HostType
  <2>. QED
    BY <1>1, <2>4, <2>5 DEF HostWrites, HostSetsAttrs, TypeOK
<1>2. ASSUME NEW n \in Notifier, NEW msg \in inval, Notified(n, msg) PROVE TypeOK'
  <2>1. msg \in Path \X Gen /\ Gen \subseteq 0 .. MaxGen
    BY DEF TypeOK, Gen
  <2>2. [pc |-> "meta", p |-> msg[1], gen |-> msg[2]] \in MutatorState
    BY <2>1 DEF MutatorState
  <2>3. mu' \in [Mutator -> MutatorState] /\ inval' \subseteq Path \X Gen
    BY <1>2, <2>2 DEF Notified, TypeOK
  <2>. QED
    BY <1>2, <2>3 DEF Notified, TypeOK
<1>3. ASSUME NEW m \in Mutator, MutatorStep(m) PROVE TypeOK'
  <2>1. mu \in [Mutator -> MutatorState] /\ mu[m] \in MutatorState /\ mu[m].p \in Path
    BY DEF TypeOK, MutatorState
  <2>2. CASE WriteAcked(m)
    <3>1. mu' \in [Mutator -> MutatorState]
      BY <2>1, <2>2 DEF WriteAcked, MutatorState
    <3>. QED
      BY <2>2, <3>1 DEF WriteAcked, TypeOK, hostVars
  <2>3. CASE WriteUnacked(m)
    <3>1. mu' \in [Mutator -> MutatorState]
      BY <2>1, <2>3, InitialRecords DEF WriteUnacked
    <3>. QED
      BY <2>3, <3>1 DEF WriteUnacked, TypeOK, hostVars
  <2>4. CASE EraseMeta(m)
    <3>1. [mu[m] EXCEPT !.pc = "handles"] \in MutatorState
      BY <2>1 DEF MutatorState
    <3>2. mu' \in [Mutator -> MutatorState]
      BY <2>1, <2>4, <3>1, InitialRecords DEF EraseMeta
    <3>3. meta' \in [Path -> Attributes]
      BY <2>4, InitialRecords DEF EraseMeta, TypeOK
    <3>. QED
      BY <2>4, <3>2, <3>3 DEF EraseMeta, TypeOK, hostVars
  <2>5. CASE ClearHandleVersions(m)
    <3>1. mu' \in [Mutator -> MutatorState]
      BY <2>1, <2>5 DEF ClearHandleVersions, MutatorState
    <3>2. \A h \in Handle : [fh[h] EXCEPT !.haveVer = FALSE] \in HandleState
      <4>1. \A f \in HandleState : [f EXCEPT !.haveVer = FALSE] \in HandleState
        BY DEF HandleState
      <4>. QED
        BY <4>1 DEF TypeOK
    <3>3. fh' \in [Handle -> HandleState]
      BY <2>5, <3>2 DEF ClearHandleVersions, TypeOK
    <3>. QED
      BY <2>5, <3>1, <3>3 DEF ClearHandleVersions, TypeOK, hostVars
  <2>6. CASE PurgeBlocks(m)
    <3>1. mu' \in [Mutator -> MutatorState]
      BY <2>1, <2>6, InitialRecords DEF PurgeBlocks
    <3>2. files' \in [Path -> FileState]
      BY <2>1, <2>6, PurgeType DEF PurgeBlocks, Purged, TypeOK
    <3>3. floor' \in [Path -> 0 .. MaxGen]
      <4>1. mu[m].gen \in 0 .. MaxGen /\ floor[mu[m].p] \in 0 .. MaxGen
        BY <2>1 DEF TypeOK, MutatorState
      <4>2. Max2(floor[mu[m].p], mu[m].gen) \in 0 .. MaxGen
        BY <4>1 DEF Max2
      <4>. QED
        BY <2>6, <4>2 DEF PurgeBlocks, TypeOK
    <3>. QED
      BY <2>6, <3>1, <3>2, <3>3 DEF PurgeBlocks, TypeOK, hostVars
  <2>. QED
    BY <1>3, <2>2, <2>3, <2>4, <2>5, <2>6 DEF MutatorStep
<1>. QED
  BY <1>1, <1>2, <1>3

LEMMA NextType == TypeOK /\ [Next]_vars => TypeOK'
<1>. SUFFICES ASSUME TypeOK, [Next]_vars PROVE TypeOK'
  OBVIOUS
<1>1. CASE UNCHANGED vars
  BY <1>1 DEF TypeOK, vars, hostVars
<1>. QED
  BY <1>1, EnvironmentType, StartReadType, ReaderType, FetchType, JobType, MutatorType DEF Next

\* Every variable keeps its type: what any interleaving of reads, prefetches, invalidations,
\* evictions and closes leaves in the cache's maps has the shape the code declares.
THEOREM TypeCorrect == Spec => []TypeOK
<1>. QED
  BY InitType, NextType, PTL DEF Spec

-----------------------------------------------------------------------------
(* What the threads share: the blocks in flight, the handles, and what     *)
(* they may return.                                                        *)

\* Which actions may change which variable.
LEMMA Frames ==
    ASSUME [Next]_vars
    PROVE  /\ \/ /\ gen' = gen /\ stamp' = stamp /\ retired' = retired
              \/ \E p \in Path, announce \in BOOLEAN : HostApplies(p, announce)
           /\ \/ inval' \subseteq inval
              \/ \E p \in Path, announce \in BOOLEAN : HostApplies(p, announce)
           /\ \/ now' = now
              \/ Tick
           /\ \/ files' = files
              \/ \E t \in Thread : LookupBlock(t) \/ PutBlock(t) \/ PutOutOfMemory(t)
              \/ \E m \in Mutator : PurgeBlocks(m)
           /\ \/ floor' = floor
              \/ \E m \in Mutator : PurgeBlocks(m)
           /\ \/ inflight' = inflight
              \/ \E t \in Thread : LookupBlock(t) \/ PutBlock(t) \/ PutOutOfMemory(t) \/ PutFailed(t)
           /\ \/ meta' = meta
              \/ \E r \in Reader : LookupMeta(r) \/ StoreMeta(r)
              \/ \E m \in Mutator : EraseMeta(m)
           /\ \/ pool' = pool
              \/ \E r \in Reader : Submit(r)
              \/ \E f \in Prefetcher : TakeJob(f)
           /\ \/ mu' = mu
              \/ \E w \in Writer, p \in Path : HostWrites(w, p) \/ HostSetsAttrs(w, p)
              \/ \E n \in Notifier, msg \in inval : Notified(n, msg)
              \/ \E m \in Mutator : MutatorStep(m)
           /\ \/ th' = th
              \/ \E r \in Reader, h \in Handle, first, last \in Block : StartRead(r, h, first, last)
              \/ \E r \in Reader : ReaderStep(r)
              \/ \E t \in Thread : FetchStep(t)
              \/ \E f \in Prefetcher : TakeJob(f)
           /\ \/ fh' = fh
              \/ \E p \in Path : RemoteReplace(p)
              \/ \E h \in Handle, p \in Path : Open(h, p)
              \/ \E h \in Handle : BeginClose(h) \/ Release(h)
              \/ \E r \in Reader : StoreHandleVersion(r) \/ Ahead(r)
              \/ \E t \in Thread : BeginFetch(t) \/ AnswerFetch(t)
              \/ \E m \in Mutator : ClearHandleVersions(m)
<1>1. \/ /\ gen' = gen /\ stamp' = stamp /\ retired' = retired
      \/ \E p \in Path, announce \in BOOLEAN : HostApplies(p, announce)
  BY ZenonT(60) DEF Next, ReaderStep, FetchStep, MutatorStep, Tick, RemoteWrite, RemoteReplace,
       Resample, Open, BeginClose, Release, StartRead, CheckHandleVersion, LookupMeta,
       AnswerGetattr, FailGetattr, StoreMeta, StoreHandleVersion, AnswerDirect, Ahead, Submit, Reply,
       LookupBlock, BeginFetch, AnswerFetch, PutBlock, PutOutOfMemory, PutFailed, TakeJob,
       HostWrites, HostSetsAttrs, WriteAcked, WriteUnacked, Notified, EraseMeta,
       ClearHandleVersions, PurgeBlocks, vars, hostVars
<1>2. \/ inval' \subseteq inval
      \/ \E p \in Path, announce \in BOOLEAN : HostApplies(p, announce)
  BY ZenonT(60) DEF Next, ReaderStep, FetchStep, MutatorStep, Tick, RemoteWrite, RemoteReplace,
       Resample, Open, BeginClose, Release, StartRead, CheckHandleVersion, LookupMeta,
       AnswerGetattr, FailGetattr, StoreMeta, StoreHandleVersion, AnswerDirect, Ahead, Submit, Reply,
       LookupBlock, BeginFetch, AnswerFetch, PutBlock, PutOutOfMemory, PutFailed, TakeJob,
       HostWrites, HostSetsAttrs, WriteAcked, WriteUnacked, Notified, EraseMeta,
       ClearHandleVersions, PurgeBlocks, vars, hostVars
<1>3. \/ now' = now
      \/ Tick
  BY ZenonT(60) DEF Next, ReaderStep, FetchStep, MutatorStep, RemoteWrite, RemoteReplace,
       Resample, Open, BeginClose, Release, StartRead, CheckHandleVersion, LookupMeta,
       AnswerGetattr, FailGetattr, StoreMeta, StoreHandleVersion, AnswerDirect, Ahead, Submit, Reply,
       LookupBlock, BeginFetch, AnswerFetch, PutBlock, PutOutOfMemory, PutFailed, TakeJob,
       HostWrites, HostSetsAttrs, WriteAcked, WriteUnacked, Notified, EraseMeta,
       ClearHandleVersions, PurgeBlocks, vars, hostVars
<1>4. \/ files' = files
      \/ \E t \in Thread : LookupBlock(t) \/ PutBlock(t) \/ PutOutOfMemory(t)
      \/ \E m \in Mutator : PurgeBlocks(m)
  BY ZenonT(60) DEF Next, ReaderStep, FetchStep, MutatorStep, Tick, RemoteWrite, RemoteReplace,
       Resample, Open, BeginClose, Release, StartRead, CheckHandleVersion, LookupMeta,
       AnswerGetattr, FailGetattr, StoreMeta, StoreHandleVersion, AnswerDirect, Ahead, Submit, Reply,
       BeginFetch, AnswerFetch, PutFailed, TakeJob, HostWrites, HostSetsAttrs, WriteAcked,
       WriteUnacked, Notified, EraseMeta, ClearHandleVersions, vars, hostVars
<1>5. \/ floor' = floor
      \/ \E m \in Mutator : PurgeBlocks(m)
  BY ZenonT(60) DEF Next, ReaderStep, FetchStep, MutatorStep, Tick, RemoteWrite, RemoteReplace,
       Resample, Open, BeginClose, Release, StartRead, CheckHandleVersion, LookupMeta,
       AnswerGetattr, FailGetattr, StoreMeta, StoreHandleVersion, AnswerDirect, Ahead, Submit, Reply,
       LookupBlock, BeginFetch, AnswerFetch, PutBlock, PutOutOfMemory, PutFailed, TakeJob,
       HostWrites, HostSetsAttrs, WriteAcked, WriteUnacked, Notified, EraseMeta,
       ClearHandleVersions, vars, hostVars
<1>6. \/ inflight' = inflight
      \/ \E t \in Thread : LookupBlock(t) \/ PutBlock(t) \/ PutOutOfMemory(t) \/ PutFailed(t)
  BY ZenonT(60) DEF Next, ReaderStep, FetchStep, MutatorStep, Tick, RemoteWrite, RemoteReplace,
       Resample, Open, BeginClose, Release, StartRead, CheckHandleVersion, LookupMeta,
       AnswerGetattr, FailGetattr, StoreMeta, StoreHandleVersion, AnswerDirect, Ahead, Submit, Reply,
       BeginFetch, AnswerFetch, TakeJob, HostWrites, HostSetsAttrs, WriteAcked, WriteUnacked,
       Notified, EraseMeta, ClearHandleVersions, PurgeBlocks, vars, hostVars
<1>7. \/ meta' = meta
      \/ \E r \in Reader : LookupMeta(r) \/ StoreMeta(r)
      \/ \E m \in Mutator : EraseMeta(m)
  BY ZenonT(60) DEF Next, ReaderStep, FetchStep, MutatorStep, Tick, RemoteWrite, RemoteReplace,
       Resample, Open, BeginClose, Release, StartRead, CheckHandleVersion, AnswerGetattr,
       FailGetattr, StoreHandleVersion, AnswerDirect, Ahead, Submit, Reply, LookupBlock, BeginFetch,
       AnswerFetch, PutBlock, PutOutOfMemory, PutFailed, TakeJob, HostWrites, HostSetsAttrs,
       WriteAcked, WriteUnacked, Notified, ClearHandleVersions, PurgeBlocks, vars, hostVars
<1>8. \/ pool' = pool
      \/ \E r \in Reader : Submit(r)
      \/ \E f \in Prefetcher : TakeJob(f)
  BY ZenonT(60) DEF Next, ReaderStep, FetchStep, MutatorStep, Tick, RemoteWrite, RemoteReplace,
       Resample, Open, BeginClose, Release, StartRead, CheckHandleVersion, LookupMeta,
       AnswerGetattr, FailGetattr, StoreMeta, StoreHandleVersion, AnswerDirect, Ahead, Reply,
       LookupBlock, BeginFetch, AnswerFetch, PutBlock, PutOutOfMemory, PutFailed, HostWrites,
       HostSetsAttrs, WriteAcked, WriteUnacked, Notified, EraseMeta, ClearHandleVersions,
       PurgeBlocks, vars, hostVars
<1>9. \/ mu' = mu
      \/ \E w \in Writer, p \in Path : HostWrites(w, p) \/ HostSetsAttrs(w, p)
      \/ \E n \in Notifier, msg \in inval : Notified(n, msg)
      \/ \E m \in Mutator : MutatorStep(m)
  BY ZenonT(60) DEF Next, ReaderStep, FetchStep, Tick, RemoteWrite, RemoteReplace, Resample,
       Open, BeginClose, Release, StartRead, CheckHandleVersion, LookupMeta, AnswerGetattr,
       FailGetattr, StoreMeta, StoreHandleVersion, AnswerDirect, Ahead, Submit, Reply, LookupBlock,
       BeginFetch, AnswerFetch, PutBlock, PutOutOfMemory, PutFailed, TakeJob, vars, hostVars
<1>10. \/ th' = th
       \/ \E r \in Reader, h \in Handle, first, last \in Block : StartRead(r, h, first, last)
       \/ \E r \in Reader : ReaderStep(r)
       \/ \E t \in Thread : FetchStep(t)
       \/ \E f \in Prefetcher : TakeJob(f)
  BY ZenonT(60) DEF Next, MutatorStep, Tick, RemoteWrite, RemoteReplace, Resample, Open,
       BeginClose, Release, HostWrites, HostSetsAttrs, WriteAcked, WriteUnacked, Notified,
       EraseMeta, ClearHandleVersions, PurgeBlocks, vars, hostVars
<1>11. \/ fh' = fh
       \/ \E p \in Path : RemoteReplace(p)
       \/ \E h \in Handle, p \in Path : Open(h, p)
       \/ \E h \in Handle : BeginClose(h) \/ Release(h)
       \/ \E r \in Reader : StoreHandleVersion(r) \/ Ahead(r)
       \/ \E t \in Thread : BeginFetch(t) \/ AnswerFetch(t)
       \/ \E m \in Mutator : ClearHandleVersions(m)
  BY ZenonT(60) DEF Next, ReaderStep, FetchStep, MutatorStep, Tick, RemoteWrite, Resample,
       StartRead, CheckHandleVersion, LookupMeta, AnswerGetattr, FailGetattr, StoreMeta,
       AnswerDirect, Submit, Reply, LookupBlock, PutBlock, PutOutOfMemory, PutFailed, TakeJob,
       HostWrites, HostSetsAttrs, WriteAcked, WriteUnacked, Notified, EraseMeta, PurgeBlocks,
       vars, hostVars
<1>. QED
  BY <1>1, <1>2, <1>3, <1>4, <1>5, <1>6, <1>7, <1>8, <1>9, <1>10, <1>11

-----------------------------------------------------------------------------
(* What a step may do to one thread and to one handle.                     *)

LEMMA ThreadStep ==
    ASSUME TypeOK, [Next]_vars, NEW t \in Thread
    PROVE  \/ th'[t] = th[t]
           \/ /\ th[t].pc = "wait" /\ th'[t] = [th[t] EXCEPT !.pc = "block"]
              /\ \E u \in Thread : u # t /\ FetchStep(u)
           \/ /\ t \in Reader
              /\ \E h \in Handle, first, last \in Block : StartRead(t, h, first, last)
           \/ t \in Reader /\ ReaderStep(t)
           \/ FetchStep(t)
           \/ t \in Prefetcher /\ TakeJob(t)
<1>1. CASE th' = th
  BY <1>1
<1>2. ASSUME NEW r \in Reader, NEW h \in Handle, NEW first \in Block, NEW last \in Block,
             StartRead(r, h, first, last), t # r
      PROVE  th'[t] = th[t]
  BY <1>2 DEF StartRead, TypeOK
<1>3. ASSUME NEW r \in Reader, ReaderStep(r), t # r
      PROVE  th'[t] = th[t]
  <2>1. r \in Thread
    BY DEF Thread
  <2>2. CASE Reply(r)
    BY <1>3, <2>2 DEF Reply, TypeOK
  <2>3. CASE ~Reply(r)
    <3>1. PICK s : Becomes(r, s)
      BY <1>3, <2>3, ReaderUpdates DEF ReaderStep
    <3>. QED
      BY <1>3, <2>1, <3>1, ThreadMoves
  <2>. QED
    BY <2>2, <2>3
<1>4. ASSUME NEW u \in Thread, FetchStep(u), t # u
      PROVE  \/ th'[t] = th[t]
             \/ th[t].pc = "wait" /\ th'[t] = [th[t] EXCEPT !.pc = "block"]
  <2>1. CASE \E s : Becomes(u, s)
    BY <1>4, <2>1, ThreadMoves
  <2>2. CASE \E s \in ThreadState : th' = WakeAll(u, s)
    <3>1. th[t] \in ThreadState /\ th'[t] = Woken(th[t])
      BY <1>4, <2>2, WakeAllType, ThreadTypes
    <3>. QED
      BY <3>1, WokenType
  <2>. QED
    BY <1>4, <2>1, <2>2, FetchUpdates DEF FetchStep
<1>5. ASSUME NEW f \in Prefetcher, TakeJob(f), t # f
      PROVE  th'[t] = th[t]
  BY <1>5 DEF TakeJob, TypeOK
<1>. QED
  BY <1>1, <1>2, <1>3, <1>4, <1>5, Frames

\* A thread that is at work after a step of its own was at work before it, on the same handle
\* and for the same read; only a new read or a new job gives it another one.
LEMMA KeepsHandle ==
    ASSUME TypeOK, NEW t \in Thread,
           \/ th[t].pc = "wait" /\ th'[t] = [th[t] EXCEPT !.pc = "block"]
           \/ t \in Reader /\ ReaderStep(t)
           \/ FetchStep(t),
           th'[t].pc # "idle"
    PROVE  /\ th[t].pc # "idle" /\ th'[t].h = th[t].h /\ th'[t].floor = th[t].floor
           /\ th'[t].start = th[t].start
<1>. DEFINE Same(s) == /\ s.h = th[t].h /\ s.floor = th[t].floor /\ s.start = th[t].start
<1>1. th[t] \in ThreadState
  BY ThreadTypes
<1>2. CASE th[t].pc = "wait" /\ th'[t] = [th[t] EXCEPT !.pc = "block"]
  BY <1>1, <1>2 DEF ThreadState
<1>3. CASE t \in Reader /\ ReaderStep(t)
  <2>1. th[t].pc # "idle"
    BY <1>3 DEF ReaderStep, At, CheckHandleVersion, LookupMeta, AnswerGetattr, FailGetattr,
           StoreMeta, StoreHandleVersion, AnswerDirect, Ahead, Submit, Reply
  <2>2. ~Reply(t)
    <3>1. SUFFICES ASSUME Reply(t) PROVE th'[t].pc = "idle"
      BY <3>1
    <3>. QED
      BY <3>1 DEF Reply, Idle, TypeOK
  <2>3. /\ \A pc : Same([th[t] EXCEPT !.pc = pc])
        /\ \A pc, v : Same([th[t] EXCEPT !.pc = pc, !.ver = v])
        /\ \A pc, v : Same([th[t] EXCEPT !.pc = pc, !.since = v])
        /\ \A pc, v : Same([th[t] EXCEPT !.pc = pc, !.got = v])
        /\ \A pc, v : Same([th[t] EXCEPT !.ahead = v, !.pc = pc])
        /\ \A pc, v, w : Same([th[t] EXCEPT !.pc = pc, !.att = v, !.since = w])
        /\ \A pc, v, w, z : Same([th[t] EXCEPT !.pc = pc, !.ver = v, !.att = w, !.since = z])
    BY <1>1 DEF ThreadState
  <2>. HIDE DEF Same
  <2>4. PICK s : Becomes(t, s) /\ Same(s)
    BY <1>3, <2>2, <2>3, ReaderUpdates DEF ReaderStep
  <2>5. th'[t] = s
    BY <2>4, ThreadMoves
  <2>. QED
    BY <2>1, <2>4, <2>5 DEF Same
<1>4. CASE FetchStep(t)
  <2>1. th[t].pc # "idle"
    BY <1>4 DEF FetchStep, At, LookupBlock, BeginFetch, AnswerFetch, PutBlock, PutOutOfMemory,
           PutFailed
  <2>2. /\ \A pc : Same([th[t] EXCEPT !.pc = pc])
        /\ \A pc, v : Same([th[t] EXCEPT !.pc = pc, !.data = v])
        /\ \A g : Same(Served(t, g))
    BY <1>1 DEF ThreadState, Served
  <2>3. ASSUME NEW g \in Gen, Served(t, g) \in ThreadState
        PROVE  Same(Advance(Served(t, g), t)) \/ Advance(Served(t, g), t) = Idle
    <3>1. ASSUME NEW s \in ThreadState
          PROVE  /\ [s EXCEPT !.pc = "block", !.cur = s.cur + 1, !.data = 0].h = s.h
                 /\ [s EXCEPT !.pc = "block", !.cur = s.cur + 1, !.data = 0].floor = s.floor
                 /\ [s EXCEPT !.pc = "block", !.cur = s.cur + 1, !.data = 0].start = s.start
                 /\ [s EXCEPT !.pc = "ahead", !.data = 0].h = s.h
                 /\ [s EXCEPT !.pc = "ahead", !.data = 0].floor = s.floor
                 /\ [s EXCEPT !.pc = "ahead", !.data = 0].start = s.start
      BY <3>1 DEF ThreadState
    <3>2. Advance(Served(t, g), t) = Idle \/
            /\ Advance(Served(t, g), t).h = Served(t, g).h
            /\ Advance(Served(t, g), t).floor = Served(t, g).floor
            /\ Advance(Served(t, g), t).start = Served(t, g).start
      BY <2>3, <3>1, AdvanceType
    <3>. QED
      BY <2>2, <3>2
  <2>. HIDE DEF Same
  <2>4. CASE LookupBlock(t) \/ BeginFetch(t) \/ AnswerFetch(t)
    <3>1. PICK s : Becomes(t, s) /\ (Same(s) \/ s = Idle)
      BY <2>2, <2>3, <2>4, FetchUpdates
    <3>2. th'[t] = s
      BY <3>1, ThreadMoves
    <3>. QED
      BY <2>1, <3>1, <3>2 DEF Same, Idle
  <2>5. CASE PutBlock(t) \/ PutOutOfMemory(t)
    <3>1. th[t].data \in Gen
      <4>1. th[t].data # 0 /\ th[t].data \in 0 .. MaxGen
        BY <2>5, ThreadTypes DEF PutBlock, PutOutOfMemory
      <4>. QED
        BY <4>1, BlockCacheAssumption DEF Gen
    <3>2. th'[t] = Advance(Served(t, th[t].data), t)
      BY <2>5, FetchUpdates, WakeAllType
    <3>3. Same(th'[t]) \/ th'[t] = Idle
      BY <2>3, <2>5, <3>1, <3>2, FetchUpdates
    <3>. QED
      BY <2>1, <3>3 DEF Same, Idle
  <2>6. CASE PutFailed(t)
    <3>1. PICK s \in ThreadState : th' = WakeAll(t, s) /\ (s = Idle \/ Same(s))
      BY <2>2, <2>6, FetchUpdates
    <3>2. th'[t] = s
      BY <3>1, WakeAllType
    <3>. QED
      BY <2>1, <3>1, <3>2 DEF Same, Idle
  <2>. QED
    BY <1>4, <2>4, <2>5, <2>6 DEF FetchStep
<1>. QED
  BY <1>2, <1>3, <1>4

\* An open handle keeps its path, and its inode unless files may be replaced; it is closed only
\* when no reader uses it, and is released only when its reads are drained.
LEMMA HandleStep ==
    ASSUME TypeOK, [Next]_vars, NEW h \in Handle
    PROVE  /\ fh[h].st # "unused" =>
                /\ fh'[h].path = fh[h].path /\ fh'[h].st # "unused"
                /\ ~Replaceable => fh'[h].pinned = fh[h].pinned
                /\ \/ fh'[h].active = fh[h].active
                   \/ \E t \in Thread : BeginFetch(t) \/ AnswerFetch(t)
           /\ fh[h].st = "unused" /\ fh'[h].st # "unused" =>
                fh'[h].active = 0 /\ fh'[h].pinned = 0
           /\ fh[h].st = "open" /\ fh'[h].st # "open" =>
                \A r \in Reader : th[r].pc # "idle" => th[r].h # h
           /\ fh'[h].st = "released" => fh[h].st = "released" \/ fh[h].active = 0
           /\ fh[h].st \in {"open", "closing"} => fh'[h].st # "unused"
<1>. DEFINE Kept(f) == /\ f.path = fh[h].path /\ f.st = fh[h].st /\ f.pinned = fh[h].pinned
            Same(f) == Kept(f) /\ f.active = fh[h].active
<1>1. fh \in [Handle -> HandleState] /\ fh[h] \in HandleState
  BY DEF TypeOK
<1>2. /\ \A v, w, z : Same([fh[h] EXCEPT !.haveVer = v, !.ver = w, !.verAt = z])
      /\ \A v, w, z : Same([fh[h] EXCEPT !.lastEnd = v, !.run = w, !.window = z])
      /\ \A v : Kept([fh[h] EXCEPT !.active = v])
      /\ \A v : Same([fh[h] EXCEPT !.haveVer = v])
  BY <1>1 DEF HandleState
<1>3. /\ Kept(fh'[h]) => /\ fh'[h].path = fh[h].path /\ fh'[h].st = fh[h].st
                         /\ fh'[h].pinned = fh[h].pinned
      /\ Same(fh'[h]) => Kept(fh'[h]) /\ fh'[h].active = fh[h].active
  OBVIOUS
<1>. HIDE DEF Kept, Same
<1>4. CASE fh' = fh
  BY <1>4
<1>5. ASSUME NEW k, NEW g, fh' = [fh EXCEPT ![k] = g]
      PROVE  fh'[h] = fh[h] \/ (k = h /\ fh'[h] = g)
  BY <1>1, <1>5
<1>6. ASSUME NEW p \in Path, RemoteReplace(p)
      PROVE  /\ Replaceable /\ fh'[h].path = fh[h].path /\ fh'[h].st = fh[h].st
             /\ fh'[h].active = fh[h].active
  <2>1. /\ [fh[h] EXCEPT !.pinned = gen[p]].path = fh[h].path
        /\ [fh[h] EXCEPT !.pinned = gen[p]].st = fh[h].st
        /\ [fh[h] EXCEPT !.pinned = gen[p]].active = fh[h].active
    BY <1>1 DEF HandleState
  <2>. QED
    BY <1>6, <2>1 DEF RemoteReplace
<1>7. ASSUME NEW k \in Handle, NEW p \in Path, Open(k, p)
      PROVE  \/ fh'[h] = fh[h]
             \/ fh[h].st = "unused" /\ fh'[h].active = 0 /\ fh'[h].pinned = 0
                /\ fh'[h].st = "open"
  <2>1. CASE k # h
    BY <1>1, <1>7, <2>1 DEF Open
  <2>2. CASE k = h
    BY <1>1, <1>7, <2>2 DEF Open, NoHandle
  <2>. QED
    BY <2>1, <2>2
<1>8. ASSUME NEW k \in Handle, BeginClose(k)
      PROVE  /\ fh'[h].path = fh[h].path /\ fh'[h].pinned = fh[h].pinned
             /\ fh'[h].active = fh[h].active
             /\ \/ fh'[h] = fh[h]
                \/ /\ fh'[h].st = "closing" /\ fh[h].st = "open"
                   /\ \A r \in Reader : th[r].pc # "idle" => th[r].h # h
  <2>1. CASE k = h
    BY <1>1, <1>8, <2>1 DEF BeginClose, HandleState, At
  <2>2. CASE k # h
    BY <1>1, <1>8, <2>2 DEF BeginClose
  <2>. QED
    BY <2>1, <2>2
<1>9. ASSUME NEW k \in Handle, Release(k)
      PROVE  /\ fh'[h].path = fh[h].path /\ fh'[h].pinned = fh[h].pinned
             /\ fh'[h].active = fh[h].active
             /\ \/ fh'[h] = fh[h]
                \/ fh'[h].st = "released" /\ fh[h].st = "closing" /\ fh[h].active = 0
  <2>1. CASE k = h
    BY <1>1, <1>9, <2>1 DEF Release, Drained, HandleState
  <2>2. CASE k # h
    BY <1>1, <1>9, <2>2 DEF Release
  <2>. QED
    BY <2>1, <2>2
<1>10. ASSUME NEW r \in Reader, StoreHandleVersion(r) \/ Ahead(r)
      PROVE  fh'[h] = fh[h] \/ Same(fh'[h])
  <2>1. CASE StoreHandleVersion(r)
    <3>1. fh' = [fh EXCEPT ![th[r].h] = [fh[th[r].h] EXCEPT !.haveVer = TRUE, !.ver = th[r].att,
                                                            !.verAt = now]]
      BY <2>1 DEF StoreHandleVersion
    <3>. QED
      BY <1>1, <1>2, <3>1
  <2>2. CASE Ahead(r)
    <3>1. CASE fh' = fh
      BY <3>1
    <3>2. ASSUME NEW v, NEW w, NEW z, fh' = [fh EXCEPT ![th[r].h] =
                            [fh[th[r].h] EXCEPT !.lastEnd = v, !.run = w, !.window = z]]
          PROVE  fh'[h] = fh[h] \/ Same(fh'[h])
      <4>. DEFINE g == [fh[th[r].h] EXCEPT !.lastEnd = v, !.run = w, !.window = z]
      <4>1. th[r].h = h => Same(g)
        BY <1>2
      <4>. HIDE DEF g
      <4>2. fh' = [fh EXCEPT ![th[r].h] = g]
        BY <3>2 DEF g
      <4>. QED
        BY <1>5, <4>1, <4>2
    <3>3. \/ fh' = fh
          \/ \E v, w, z : fh' = [fh EXCEPT ![th[r].h] =
                            [fh[th[r].h] EXCEPT !.lastEnd = v, !.run = w, !.window = z]]
      BY <2>2, AheadType
    <3>. QED
      BY <3>1, <3>2, <3>3
  <2>. QED
    BY <1>10, <2>1, <2>2
<1>11. ASSUME NEW t \in Thread, BeginFetch(t) \/ AnswerFetch(t)
       PROVE  fh'[h] = fh[h] \/ Kept(fh'[h])
  <2>1. fh' = fh \/ fh' = BeginRead(th[t].h) \/ fh' = EndRead(th[t].h)
    BY <1>11 DEF BeginFetch, AnswerFetch
  <2>2. /\ BeginRead(th[t].h)
             = [fh EXCEPT ![th[t].h] = [fh[th[t].h] EXCEPT !.active = fh[th[t].h].active + 1]]
        /\ EndRead(th[t].h)
             = [fh EXCEPT ![th[t].h] = [fh[th[t].h] EXCEPT !.active = fh[th[t].h].active - 1]]
    BY <1>1 DEF BeginRead, EndRead
  <2>3. CASE fh' = BeginRead(th[t].h)
    <3>. DEFINE g == [fh[th[t].h] EXCEPT !.active = fh[th[t].h].active + 1]
    <3>1. th[t].h = h => Kept(g)
      BY <1>2
    <3>. HIDE DEF g
    <3>2. fh' = [fh EXCEPT ![th[t].h] = g]
      BY <2>2, <2>3 DEF g
    <3>. QED
      BY <1>5, <3>1, <3>2
  <2>4. CASE fh' = EndRead(th[t].h)
    <3>. DEFINE g == [fh[th[t].h] EXCEPT !.active = fh[th[t].h].active - 1]
    <3>1. th[t].h = h => Kept(g)
      BY <1>2
    <3>. HIDE DEF g
    <3>2. fh' = [fh EXCEPT ![th[t].h] = g]
      BY <2>2, <2>4 DEF g
    <3>. QED
      BY <1>5, <3>1, <3>2
  <2>. QED
    BY <2>1, <2>3, <2>4
<1>12. ASSUME NEW m \in Mutator, ClearHandleVersions(m)
       PROVE  fh'[h] = fh[h] \/ Same(fh'[h])
  BY <1>2, <1>12 DEF ClearHandleVersions
<1>. QED
  BY <1>3, <1>4, <1>6, <1>7, <1>8, <1>9, <1>10, <1>11, <1>12, Frames

-----------------------------------------------------------------------------
(* A handle is not handed out while a thread or a job still names it.      *)

HandlesInUse ==
    /\ \A r \in Reader : th[r].pc # "idle" => fh[th[r].h].st = "open"
    /\ \A t \in Thread : th[t].pc # "idle" => fh[th[t].h].st # "unused"
    /\ \A i \in 1 .. Len(pool) : fh[pool[i].h].st # "unused"

LEMMA HandlesInUseInvariant == Spec => []HandlesInUse
<1>1. Init => HandlesInUse
  BY DEF Init, HandlesInUse, Idle, Thread
<1>2. TypeOK /\ HandlesInUse /\ [Next]_vars => HandlesInUse'
  <2>. SUFFICES ASSUME TypeOK, HandlesInUse, [Next]_vars PROVE HandlesInUse'
    OBVIOUS
  <2>1. TypeOK'
    BY NextType
  <2>2. \A h \in Handle : fh[h].st # "unused" => fh'[h].st # "unused"
    BY HandleStep
  <2>3. ASSUME NEW t \in Thread, th'[t].pc # "idle"
        PROVE  /\ fh'[th'[t].h].st # "unused"
               /\ t \in Reader => fh'[th'[t].h].st = "open"
    <3>1. th[t] \in ThreadState /\ th[t].h \in Handle /\ (t \in Reader \/ t \in Prefetcher)
      BY ThreadTypes DEF Thread
    <3>2. ASSUME th[t].pc # "idle", th'[t].h = th[t].h
          PROVE  /\ fh'[th'[t].h].st # "unused"
                 /\ t \in Reader => fh'[th'[t].h].st = "open"
      <4>1. th[t].h \in Handle /\ fh[th[t].h].st # "unused"
        BY <3>2, ThreadTypes DEF HandlesInUse
      <4>2. t \in Reader => fh[th[t].h].st = "open"
        BY <3>2 DEF HandlesInUse
      <4>3. t \in Reader => fh'[th[t].h].st = "open"
        BY <3>2, <4>1, <4>2, HandleStep
      <4>. QED
        BY <2>2, <3>2, <4>1, <4>3
    <3>3. ASSUME t \in Reader, NEW h \in Handle, NEW first \in Block, NEW last \in Block,
                 StartRead(t, h, first, last)
          PROVE  fh'[th'[t].h].st = "open"
      <4>1. th'[t].h = h /\ fh[h].st = "open" /\ fh' = fh
        BY <3>3 DEF StartRead, Idle, TypeOK
      <4>. QED
        BY <4>1
    <3>4. ASSUME t \in Prefetcher, TakeJob(t)
          PROVE  fh'[th'[t].h].st # "unused" /\ t \notin Reader
      <4>1. pool \in Seq(Job) /\ pool # <<>> /\ Head(pool) = pool[1] /\ 1 \in 1 .. Len(pool)
        BY <3>4 DEF TakeJob, TypeOK
      <4>2. th'[t].h = Head(pool).h /\ fh' = fh
        BY <3>4 DEF TakeJob, Idle, TypeOK
      <4>. QED
        BY <3>4, <4>1, <4>2, BlockCacheAssumption DEF HandlesInUse
    <3>5. CASE th'[t] = th[t]
      BY <2>3, <3>2, <3>5
    <3>6. CASE \/ th[t].pc = "wait" /\ th'[t] = [th[t] EXCEPT !.pc = "block"]
               \/ t \in Reader /\ ReaderStep(t)
               \/ FetchStep(t)
      BY <2>3, <3>2, <3>6, KeepsHandle
    <3>. QED
      BY <3>3, <3>4, <3>5, <3>6, ThreadStep
  <2>4. ASSUME NEW i \in 1 .. Len(pool') PROVE fh'[pool'[i].h].st # "unused"
    <3>1. CASE pool' = pool
      <4>1. pool[i] \in Job
        BY <3>1 DEF TypeOK
      <4>. QED
        BY <2>2, <3>1, <4>1 DEF HandlesInUse, Job
    <3>2. ASSUME NEW r \in Reader, Submit(r) PROVE fh'[pool'[i].h].st # "unused"
      <4>1. CASE pool'[i].h = th[r].h
        <5>1. th[r].h \in Handle /\ fh[th[r].h].st = "open"
          BY <3>2, ThreadTypes DEF Submit, At, HandlesInUse, Thread
        <5>. QED
          BY <2>2, <4>1, <5>1
      <4>2. CASE i \in 1 .. Len(pool) /\ pool'[i] = pool[i]
        <5>1. pool[i] \in Job
          BY <4>2 DEF TypeOK
        <5>. QED
          BY <2>2, <4>2, <5>1 DEF HandlesInUse, Job
      <4>. QED
        BY <3>2, <4>1, <4>2, SubmitType
    <3>3. ASSUME NEW f \in Prefetcher, TakeJob(f) PROVE fh'[pool'[i].h].st # "unused"
      <4>1. pool \in Seq(Job) /\ pool # <<>> /\ pool' = Tail(pool) /\ fh' = fh
        BY <3>3 DEF TakeJob, TypeOK
      <4>2. i + 1 \in 1 .. Len(pool) /\ pool'[i] = pool[i + 1]
        BY <4>1
      <4>. QED
        BY <4>1, <4>2 DEF HandlesInUse
    <3>. QED
      BY <3>1, <3>2, <3>3, Frames
  <2>. QED
    BY <2>3, <2>4 DEF HandlesInUse, Thread
<1>. QED
  BY <1>1, <1>2, TypeCorrect, PTL DEF Spec

-----------------------------------------------------------------------------
(* The in-flight set.                                                      *)

\* Fetches, for the state of a thread.
Fetching1(s) == s.pc \in {"begin", "fetch", "put"}

\* A step of blockFetch, seen through the in-flight set.
LEMMA FetchPhases ==
    ASSUME TypeOK, NEW t \in Thread, FetchStep(t)
    PROVE  \/ /\ ~Fetching1(th[t]) /\ \A x \in Thread : x # t => th'[x] = th[x]
              /\ \/ th'[t].pc \in {"block", "ahead", "idle"} /\ inflight' = inflight
                 \/ /\ th'[t].pc = "wait" /\ th'[t].h = th[t].h /\ th'[t].cur = th[t].cur
                    /\ <<PathOf(t), th[t].cur>> \in inflight /\ inflight' = inflight
                 \/ /\ th'[t].pc = "begin" /\ th'[t].h = th[t].h /\ th'[t].cur = th[t].cur
                    /\ <<PathOf(t), th[t].cur>> \notin inflight
                    /\ inflight' = inflight \cup {<<PathOf(t), th[t].cur>>}
           \/ /\ Fetching1(th[t]) /\ Fetching1(th'[t]) /\ \A x \in Thread : x # t => th'[x] = th[x]
              /\ th'[t].h = th[t].h /\ th'[t].cur = th[t].cur /\ inflight' = inflight
           \/ /\ th[t].pc = "put" /\ \A x \in Thread : x # t => th'[x] = Woken(th[x])
              /\ th'[t].pc \in {"block", "ahead", "idle", "reply"}
              /\ inflight' = inflight \ {<<PathOf(t), th[t].cur>>}
<1>1. th[t] \in ThreadState
  BY ThreadTypes
<1>2. ASSUME NEW s \in ThreadState
      PROVE  /\ \A pc : /\ [s EXCEPT !.pc = pc].pc = pc /\ [s EXCEPT !.pc = pc].h = s.h
                        /\ [s EXCEPT !.pc = pc].cur = s.cur
             /\ \A pc, d : /\ [s EXCEPT !.pc = pc, !.data = d].pc = pc
                           /\ [s EXCEPT !.pc = pc, !.data = d].h = s.h
                           /\ [s EXCEPT !.pc = pc, !.data = d].cur = s.cur
             /\ \A c, d : [s EXCEPT !.pc = "block", !.cur = c, !.data = d].pc = "block"
  BY DEF ThreadState
<1>3. ASSUME NEW s \in ThreadState
      PROVE  Advance(s, t).pc \in {"block", "ahead", "idle"}
  <2>1. /\ [s EXCEPT !.pc = "block", !.cur = s.cur + 1, !.data = 0].pc = "block"
        /\ [s EXCEPT !.pc = "ahead", !.data = 0].pc = "ahead"
    BY DEF ThreadState
  <2>2. Idle.pc = "idle"
    BY DEF Idle
  <2>. QED
    BY <2>1, <2>2, AdvanceType
<1>4. CASE LookupBlock(t)
  <2>1. ~Fetching1(th[t])
    BY <1>4 DEF LookupBlock, At, Fetching1
  <2>2. CASE \E g \in Gen : /\ g = Current(files, PathOf(t), th[t].ver)[PathOf(t)].blk[th[t].cur]
                            /\ Served(t, g) \in ThreadState
                            /\ Becomes(t, Advance(Served(t, g), t))
                            /\ inflight' = inflight
    <3>1. PICK g \in Gen : /\ Served(t, g) \in ThreadState /\ inflight' = inflight
                           /\ Becomes(t, Advance(Served(t, g), t))
      BY <2>2
    <3>. QED
      BY <1>3, <2>1, <3>1, ThreadMoves
  <2>3. CASE /\ Becomes(t, [th[t] EXCEPT !.pc = "wait"])
             /\ <<PathOf(t), th[t].cur>> \in inflight /\ inflight' = inflight
    <3>1. th'[t] = [th[t] EXCEPT !.pc = "wait"] /\ \A x \in Thread : x # t => th'[x] = th[x]
      BY <2>3, ThreadMoves
    <3>. QED
      BY <1>1, <1>2, <2>1, <2>3, <3>1
  <2>4. CASE /\ Becomes(t, [th[t] EXCEPT !.pc = "begin"])
             /\ <<PathOf(t), th[t].cur>> \notin inflight
             /\ inflight' = inflight \cup {<<PathOf(t), th[t].cur>>}
    <3>1. th'[t] = [th[t] EXCEPT !.pc = "begin"] /\ \A x \in Thread : x # t => th'[x] = th[x]
      BY <2>4, ThreadMoves
    <3>. QED
      BY <1>1, <1>2, <2>1, <2>4, <3>1
  <2>. QED
    BY <1>4, <2>2, <2>3, <2>4, FetchUpdates
<1>5. CASE BeginFetch(t) \/ AnswerFetch(t)
  <2>1. Fetching1(th[t]) /\ inflight' = inflight
    BY <1>5 DEF BeginFetch, AnswerFetch, At, Fetching1
  <2>2. PICK s : /\ Becomes(t, s)
                 /\ \/ s = [th[t] EXCEPT !.pc = "fetch"]
                    \/ \E d : s = [th[t] EXCEPT !.pc = "put", !.data = d]
    BY <1>5, FetchUpdates
  <2>3. Fetching1(s) /\ s.h = th[t].h /\ s.cur = th[t].cur
    <3>1. CASE s = [th[t] EXCEPT !.pc = "fetch"]
      BY <1>1, <1>2, <3>1 DEF Fetching1
    <3>2. ASSUME NEW d, s = [th[t] EXCEPT !.pc = "put", !.data = d]
          PROVE  Fetching1(s) /\ s.h = th[t].h /\ s.cur = th[t].cur
      BY <1>1, <1>2, <3>2 DEF Fetching1
    <3>. QED
      BY <2>2, <3>1, <3>2
  <2>4. th'[t] = s /\ \A x \in Thread : x # t => th'[x] = th[x]
    BY <2>2, ThreadMoves
  <2>. QED
    BY <2>1, <2>3, <2>4
<1>6. CASE PutBlock(t) \/ PutOutOfMemory(t) \/ PutFailed(t)
  <2>1. th[t].pc = "put" /\ inflight' = inflight \ {<<PathOf(t), th[t].cur>>}
    BY <1>6 DEF PutBlock, PutOutOfMemory, PutFailed, At
  <2>2. PICK s \in ThreadState : /\ th' = WakeAll(t, s)
                                 /\ s.pc \in {"block", "ahead", "idle", "reply"}
    <3>1. CASE PutBlock(t) \/ PutOutOfMemory(t)
      BY <1>3, <3>1, FetchUpdates
    <3>2. CASE PutFailed(t)
      <4>1. [th[t] EXCEPT !.pc = "reply"].pc = "reply" /\ Idle.pc = "idle"
        BY <1>1, <1>2 DEF Idle
      <4>. QED
        BY <3>2, <4>1, FetchUpdates
    <3>. QED
      BY <1>6, <3>1, <3>2
  <2>3. th'[t] = s /\ \A x \in Thread : x # t => th'[x] = Woken(th[x])
    BY <2>2, WakeAllType
  <2>. QED
    BY <2>1, <2>2, <2>3
<1>. QED
  BY <1>4, <1>5, <1>6 DEF FetchStep

\* A step outside blockFetch leaves the fetching and the waiting threads alone.
LEMMA OtherPhases ==
    ASSUME TypeOK, [Next]_vars, NEW t \in Thread, ~ \E u \in Thread : FetchStep(u)
    PROVE  /\ inflight' = inflight
           /\ \/ th'[t] = th[t]
              \/ /\ ~Fetching1(th[t]) /\ ~Fetching1(th'[t])
                 /\ th[t].pc # "wait" /\ th'[t].pc # "wait"
<1>1. inflight' = inflight
  BY Frames DEF FetchStep
<1>2. th[t] \in ThreadState
  BY ThreadTypes
<1>3. ASSUME t \in Reader, NEW h \in Handle, NEW first \in Block, NEW last \in Block,
             StartRead(t, h, first, last)
      PROVE  th[t].pc = "idle" /\ th'[t].pc \in {"direct", "ver"}
  BY <1>3 DEF StartRead, Idle, TypeOK, At
<1>4. ASSUME t \in Reader, ReaderStep(t)
      PROVE  /\ th[t].pc \in {"ver", "meta", "getattr", "metastore", "fhstore", "direct", "ahead",
                              "submit", "reply"}
             /\ th'[t].pc \in {"meta", "getattr", "metastore", "fhstore", "direct", "submit",
                               "reply", "block", "idle"}
  <2>1. th[t].pc \in {"ver", "meta", "getattr", "metastore", "fhstore", "direct", "ahead", "submit",
                      "reply"}
    BY <1>4 DEF ReaderStep, At, CheckHandleVersion, LookupMeta, AnswerGetattr, FailGetattr,
           StoreMeta, StoreHandleVersion, AnswerDirect, Ahead, Submit, Reply
  <2>. DEFINE Past(s) == s.pc \in {"meta", "getattr", "metastore", "fhstore", "direct", "submit",
                                   "reply", "block"}
  <2>2. /\ \A pc \in {"meta", "getattr", "direct", "reply"} : Past([th[t] EXCEPT !.pc = pc])
        /\ \A v : Past([th[t] EXCEPT !.pc = "block", !.ver = v])
        /\ \A v : Past([th[t] EXCEPT !.pc = "fhstore", !.since = v])
        /\ \A v : Past([th[t] EXCEPT !.pc = "reply", !.got = v])
        /\ \A v : \A pc \in {"submit", "reply"} : Past([th[t] EXCEPT !.ahead = v, !.pc = pc])
        /\ \A v, w : Past([th[t] EXCEPT !.pc = "fhstore", !.att = v, !.since = w])
        /\ \A v, w : Past([th[t] EXCEPT !.pc = "metastore", !.att = v, !.since = w])
        /\ \A v, w, z : Past([th[t] EXCEPT !.pc = "block", !.ver = v, !.att = w, !.since = z])
    BY <1>2 DEF ThreadState
  <2>. HIDE DEF Past
  <2>3. CASE Reply(t)
    BY <2>1, <2>3 DEF Reply, Idle, TypeOK
  <2>4. CASE ~Reply(t)
    <3>1. PICK s : Becomes(t, s) /\ Past(s)
      BY <1>4, <2>2, <2>4, ReaderUpdates DEF ReaderStep
    <3>. QED
      BY <2>1, <3>1, ThreadMoves DEF Past
  <2>. QED
    BY <2>3, <2>4
<1>5. ASSUME t \in Prefetcher, TakeJob(t)
      PROVE  th[t].pc = "idle" /\ th'[t].pc = "block"
  BY <1>5 DEF TakeJob, Idle, TypeOK, At
<1>6. \/ th'[t] = th[t]
      \/ /\ th[t].pc = "wait" /\ th'[t] = [th[t] EXCEPT !.pc = "block"]
         /\ \E u \in Thread : FetchStep(u)
      \/ /\ t \in Reader
         /\ \E h \in Handle, first, last \in Block : StartRead(t, h, first, last)
      \/ t \in Reader /\ ReaderStep(t)
      \/ t \in Prefetcher /\ TakeJob(t)
  BY ThreadStep
<1>. QED
  BY <1>1, <1>3, <1>4, <1>5, <1>6 DEF Fetching1

\* The block a thread wants.
Key(t) == <<PathOf(t), th[t].cur>>

\* ... stays the same as long as the thread does not move on.
LEMMA KeyKept ==
    ASSUME TypeOK, HandlesInUse, [Next]_vars, NEW t \in Thread, th[t].pc # "idle",
           th'[t].h = th[t].h
    PROVE  /\ PathOf(t)' = PathOf(t)
           /\ th'[t].cur = th[t].cur => Key(t)' = Key(t)
<1>1. th[t].h \in Handle /\ fh[th[t].h].st # "unused"
  BY ThreadTypes DEF HandlesInUse
<1>. QED
  BY <1>1, HandleStep DEF PathOf, Key

\* inflight is exactly what is being fetched, no block is fetched twice at once, and a thread
\* waits only for a block that is: whatever the readers and the prefetch pool do, every
\* notify_all of blockFetch reaches those it must reach.
THEOREM FetchesAreShared == Spec => [](SingleFetch /\ NoLostWakeup)
<1>. DEFINE Inv == SingleFetch /\ NoLostWakeup
<1>1. Init => Inv
  BY DEF Init, SingleFetch, NoLostWakeup, Fetches, At, Idle
<1>2. TypeOK /\ HandlesInUse /\ Inv /\ [Next]_vars => Inv'
  <2>. SUFFICES ASSUME TypeOK, HandlesInUse, Inv, [Next]_vars PROVE Inv'
    OBVIOUS
  <2>1. /\ \A t \in Thread : Fetching1(th[t]) => Key(t) \in inflight
        /\ \A k \in inflight : \E t \in Thread : Fetching1(th[t]) /\ k = Key(t)
        /\ \A t, u \in Thread : Fetching1(th[t]) /\ Fetching1(th[u]) /\ t # u => Key(t) # Key(u)
        /\ \A t \in Thread : th[t].pc = "wait" => Key(t) \in inflight
    BY DEF SingleFetch, NoLostWakeup, Fetches, Fetching1, Key, At
  <2>2. SUFFICES
          /\ \A t \in Thread : Fetching1(th'[t]) => Key(t)' \in inflight'
          /\ \A k \in inflight' : \E t \in Thread : Fetching1(th'[t]) /\ k = Key(t)'
          /\ \A t, u \in Thread : Fetching1(th'[t]) /\ Fetching1(th'[u]) /\ t # u =>
                Key(t)' # Key(u)'
          /\ \A t \in Thread : th'[t].pc = "wait" => Key(t)' \in inflight'
    BY <2>2 DEF SingleFetch, NoLostWakeup, Fetches, Fetching1, Key, At
  <2>3. \A t \in Thread : th[t].pc # "idle" /\ th'[t].h = th[t].h /\ th'[t].cur = th[t].cur =>
           Key(t)' = Key(t)
    BY KeyKept
  <2>4. ASSUME NEW t \in Thread, Fetching1(th[t]) \/ th[t].pc = "wait", th'[t] = th[t]
        PROVE  Key(t)' = Key(t)
    BY <2>3, <2>4 DEF Fetching1
  <2>5. CASE ~ \E u \in Thread : FetchStep(u)
    <3>1. inflight' = inflight
      BY <2>5, OtherPhases, Frames DEF FetchStep
    <3>2. \A t \in Thread :
             \/ th'[t] = th[t]
             \/ /\ ~Fetching1(th[t]) /\ ~Fetching1(th'[t])
                /\ th[t].pc # "wait" /\ th'[t].pc # "wait"
      BY <2>5, OtherPhases
    <3>. QED
      BY <2>1, <2>4, <3>1, <3>2
  <2>6. ASSUME NEW u \in Thread, FetchStep(u)
        PROVE  /\ \A t \in Thread : Fetching1(th'[t]) => Key(t)' \in inflight'
               /\ \A k \in inflight' : \E t \in Thread : Fetching1(th'[t]) /\ k = Key(t)'
               /\ \A t, v \in Thread : Fetching1(th'[t]) /\ Fetching1(th'[v]) /\ t # v =>
                     Key(t)' # Key(v)'
               /\ \A t \in Thread : th'[t].pc = "wait" => Key(t)' \in inflight'
    <3>1. CASE /\ ~Fetching1(th[u]) /\ \A x \in Thread : x # u => th'[x] = th[x]
               /\ \/ th'[u].pc \in {"block", "ahead", "idle"} /\ inflight' = inflight
                  \/ /\ th'[u].pc = "wait" /\ th'[u].h = th[u].h /\ th'[u].cur = th[u].cur
                     /\ <<PathOf(u), th[u].cur>> \in inflight /\ inflight' = inflight
                  \/ /\ th'[u].pc = "begin" /\ th'[u].h = th[u].h /\ th'[u].cur = th[u].cur
                     /\ <<PathOf(u), th[u].cur>> \notin inflight
                     /\ inflight' = inflight \cup {<<PathOf(u), th[u].cur>>}
      <4>1. th[u].pc # "idle"
        BY <2>6 DEF FetchStep, At, LookupBlock, BeginFetch, AnswerFetch, PutBlock,
               PutOutOfMemory, PutFailed
      <4>2. CASE th'[u].pc \in {"block", "ahead", "idle"} /\ inflight' = inflight
        BY <2>1, <2>4, <3>1, <4>2 DEF Fetching1
      <4>3. CASE /\ th'[u].pc = "wait" /\ th'[u].h = th[u].h /\ th'[u].cur = th[u].cur
                 /\ <<PathOf(u), th[u].cur>> \in inflight /\ inflight' = inflight
        <5>1. Key(u)' = Key(u) /\ Key(u) \in inflight' /\ ~Fetching1(th'[u])
          BY <2>3, <4>1, <4>3 DEF Key, Fetching1
        <5>. QED
          BY <2>1, <2>4, <3>1, <4>3, <5>1
      <4>4. CASE /\ th'[u].pc = "begin" /\ th'[u].h = th[u].h /\ th'[u].cur = th[u].cur
                 /\ <<PathOf(u), th[u].cur>> \notin inflight
                 /\ inflight' = inflight \cup {<<PathOf(u), th[u].cur>>}
        <5>1. /\ Key(u)' = Key(u) /\ Key(u) \notin inflight /\ inflight' = inflight \cup {Key(u)}
              /\ Fetching1(th'[u]) /\ th'[u].pc # "wait"
          BY <2>3, <4>1, <4>4 DEF Key, Fetching1
        <5>. QED
          BY <2>1, <2>4, <3>1, <5>1
      <4>. QED
        BY <3>1, <4>2, <4>3, <4>4
    <3>2. CASE /\ Fetching1(th[u]) /\ Fetching1(th'[u])
               /\ \A x \in Thread : x # u => th'[x] = th[x]
               /\ th'[u].h = th[u].h /\ th'[u].cur = th[u].cur /\ inflight' = inflight
      <4>1. Key(u)' = Key(u) /\ th'[u].pc # "wait"
        BY <2>3, <3>2 DEF Fetching1
      <4>. QED
        BY <2>1, <2>4, <3>2, <4>1
    <3>3. CASE /\ th[u].pc = "put" /\ \A x \in Thread : x # u => th'[x] = Woken(th[x])
               /\ th'[u].pc \in {"block", "ahead", "idle", "reply"}
               /\ inflight' = inflight \ {<<PathOf(u), th[u].cur>>}
      <4>1. Fetching1(th[u]) /\ ~Fetching1(th'[u]) /\ th'[u].pc # "wait"
        BY <3>3 DEF Fetching1
      <4>2. ASSUME NEW x \in Thread, x # u
            PROVE  /\ th'[x].pc # "wait"
                   /\ Fetching1(th'[x]) <=> Fetching1(th[x])
                   /\ Fetching1(th[x]) => th'[x] = th[x]
        <5>1. th[x] \in ThreadState /\ th'[x] = Woken(th[x])
          BY <3>3, <4>2, ThreadTypes
        <5>2. [th[x] EXCEPT !.pc = "block"].pc = "block"
          BY <5>1 DEF ThreadState
        <5>. QED
          BY <5>1, <5>2, WokenType DEF Fetching1
      <4>3. inflight' = inflight \ {Key(u)}
        BY <3>3 DEF Key
      <4>. QED
        BY <2>1, <2>4, <4>1, <4>2, <4>3
    <3>. QED
      BY <2>6, <3>1, <3>2, <3>3, FetchPhases
  <2>. QED
    BY <2>5, <2>6
<1>. QED
  BY <1>1, <1>2, TypeCorrect, HandlesInUseInvariant, PTL DEF Spec

-----------------------------------------------------------------------------
(* Closing a handle waits for its reads.                                   *)

\* The threads whose READ of handle h is at the host.
Fetchers(h) == {t \in Thread : th[t].pc = "fetch" /\ th[t].h = h}

\* activeReads counts them, RELEASE has not been sent under them, and a pool thread reads
\* nothing but blocks.
ReadsCounted ==
    /\ \A h \in Handle : fh[h].st # "unused" => fh[h].active = Cardinality(Fetchers(h))
    /\ \A t \in Thread : th[t].pc = "fetch" => fh[th[t].h].st \in {"open", "closing"}
    /\ \A t \in Prefetcher : th[t].pc # "direct"

LEMMA FetchersFinite == \A h : IsFiniteSet(Fetchers(h)) /\ Cardinality(Fetchers(h)) \in Nat
<1>1. IsFiniteSet(Thread)
  BY BlockCacheAssumption, FS_Union DEF Thread
<1>2. \A h : Fetchers(h) \subseteq Thread
  BY DEF Fetchers
<1>. QED
  BY <1>1, <1>2, FS_Subset, FS_CardinalityType

LEMMA CountInit == Init => ReadsCounted
<1>. SUFFICES ASSUME Init PROVE ReadsCounted
  OBVIOUS
<1>1. \A t \in Thread : th[t].pc = "idle"
  BY DEF Init, Idle
<1>2. \A h \in Handle : Fetchers(h) = {}
  BY <1>1 DEF Fetchers
<1>3. \A h \in Handle : fh[h].active = 0
  BY DEF Init, NoHandle
<1>. QED
  BY <1>1, <1>2, <1>3, FS_EmptySet DEF ReadsCounted, Thread

\* What a step does to the READs at the host.
LEMMA FetcherStep ==
    ASSUME TypeOK, HandlesInUse, [Next]_vars
    PROVE  \/ \A t \in Thread :
                /\ th'[t].pc = "fetch" <=> th[t].pc = "fetch"
                /\ th[t].pc = "fetch" => th'[t].h = th[t].h
           \/ \E u \in Thread :
                /\ BeginFetch(u) /\ fh[th[u].h].st = "open" /\ th[u].pc = "begin"
                /\ th'[u].pc = "fetch" /\ th'[u].h = th[u].h
                /\ \A x \in Thread : x # u => th'[x] = th[x]
           \/ \E u \in Thread :
                /\ AnswerFetch(u) /\ th[u].pc = "fetch" /\ th'[u].pc # "fetch"
                /\ \A x \in Thread : x # u => th'[x] = th[x]
<1>1. CASE ~ \E u \in Thread : FetchStep(u)
  BY <1>1, OtherPhases DEF Fetching1
<1>2. ASSUME NEW u \in Thread, FetchStep(u), ~BeginFetch(u), ~AnswerFetch(u)
      PROVE  \A t \in Thread : /\ th'[t].pc = "fetch" <=> th[t].pc = "fetch"
                               /\ th[t].pc = "fetch" => th'[t].h = th[t].h
  <2>1. th[u].pc \in {"block", "put"}
    BY <1>2 DEF FetchStep, LookupBlock, PutBlock, PutOutOfMemory, PutFailed, At
  <2>2. th'[u].pc # "fetch"
    <3>1. CASE LookupBlock(u)
      BY <2>1, <3>1, FetchPhases DEF FetchStep, Fetching1, LookupBlock, At
    <3>2. CASE PutBlock(u) \/ PutOutOfMemory(u) \/ PutFailed(u)
      <4>1. inflight' = inflight \ {<<PathOf(u), th[u].cur>>} /\ th[u].pc = "put"
        BY <3>2 DEF PutBlock, PutOutOfMemory, PutFailed, At
      <4>2. \E s \in ThreadState : th' = WakeAll(u, s) /\ s.pc # "fetch"
        <5>1. ASSUME NEW s \in ThreadState PROVE Advance(s, u).pc # "fetch"
          <6>1. /\ [s EXCEPT !.pc = "block", !.cur = s.cur + 1, !.data = 0].pc = "block"
                /\ [s EXCEPT !.pc = "ahead", !.data = 0].pc = "ahead"
            BY DEF ThreadState
          <6>2. Idle.pc = "idle"
            BY DEF Idle
          <6>. QED
            BY <6>1, <6>2, AdvanceType
        <5>2. [th[u] EXCEPT !.pc = "reply"].pc = "reply" /\ Idle.pc = "idle"
          BY ThreadTypes DEF ThreadState, Idle
        <5>3. CASE PutBlock(u) \/ PutOutOfMemory(u)
          BY <5>1, <5>3, FetchUpdates
        <5>4. CASE PutFailed(u)
          BY <5>2, <5>4, FetchUpdates
        <5>. QED
          BY <3>2, <5>3, <5>4
      <4>. QED
        BY <4>2, WakeAllType
    <3>. QED
      BY <1>2, <3>1, <3>2 DEF FetchStep
  <2>3. ASSUME NEW x \in Thread, x # u
        PROVE  th'[x] = th[x] \/ (th'[x].pc = "block" /\ th[x].pc = "wait")
    <3>1. th[x] \in ThreadState /\ th'[x] \in {th[x], Woken(th[x])}
      BY <1>2, <2>3, FetchPhases, ThreadTypes
    <3>2. [th[x] EXCEPT !.pc = "block"].pc = "block"
      BY <3>1 DEF ThreadState
    <3>. QED
      BY <3>1, <3>2, WokenType
  <2>. QED
    BY <2>1, <2>2, <2>3
<1>3. ASSUME NEW u \in Thread, BeginFetch(u)
      PROVE  /\ \A x \in Thread : x # u => th'[x] = th[x]
             /\ th[u].pc = "begin"
             /\ \/ th'[u].pc = "put"
                \/ fh[th[u].h].st = "open" /\ th'[u].pc = "fetch" /\ th'[u].h = th[u].h
  <2>1. th[u] \in ThreadState
    BY ThreadTypes
  <2>2. /\ [th[u] EXCEPT !.pc = "fetch"].pc = "fetch" /\ [th[u] EXCEPT !.pc = "fetch"].h = th[u].h
        /\ [th[u] EXCEPT !.pc = "put", !.data = 0].pc = "put"
    BY <2>1 DEF ThreadState
  <2>3. CASE fh[th[u].h].st = "open" /\ Becomes(u, [th[u] EXCEPT !.pc = "fetch"])
    BY <1>3, <2>2, <2>3, ThreadMoves DEF BeginFetch, At
  <2>4. CASE Becomes(u, [th[u] EXCEPT !.pc = "put", !.data = 0])
    BY <1>3, <2>2, <2>4, ThreadMoves DEF BeginFetch, At
  <2>. QED
    BY <1>3, <2>3, <2>4, FetchUpdates
<1>4. ASSUME NEW u \in Thread, AnswerFetch(u)
      PROVE  /\ \A x \in Thread : x # u => th'[x] = th[x]
             /\ th[u].pc = "fetch" /\ th'[u].pc # "fetch"
  <2>1. \A d : [th[u] EXCEPT !.pc = "put", !.data = d].pc = "put"
    BY ThreadTypes DEF ThreadState
  <2>2. PICK d : Becomes(u, [th[u] EXCEPT !.pc = "put", !.data = d])
    BY <1>4, FetchUpdates
  <2>3. th'[u] = [th[u] EXCEPT !.pc = "put", !.data = d] /\ \A x \in Thread : x # u => th'[x] = th[x]
    BY <2>2, ThreadMoves
  <2>4. th[u].pc = "fetch"
    BY <1>4 DEF AnswerFetch, At
  <2>. QED
    BY <2>1, <2>3, <2>4
<1>5. ASSUME NEW u \in Thread, BeginFetch(u), th'[u].pc = "put"
      PROVE  \A t \in Thread : /\ th'[t].pc = "fetch" <=> th[t].pc = "fetch"
                               /\ th[t].pc = "fetch" => th'[t].h = th[t].h
  <2>1. /\ \A x \in Thread : x # u => th'[x] = th[x]
        /\ th[u].pc = "begin"
    BY <1>3, <1>5
  <2>. QED
    BY <1>5, <2>1
<1>. QED
  BY <1>1, <1>2, <1>3, <1>4, <1>5

LEMMA CountNext ==
    TypeOK /\ HandlesInUse /\ ReadsCounted /\ [Next]_vars => ReadsCounted'
<1>. SUFFICES ASSUME TypeOK, HandlesInUse, ReadsCounted, [Next]_vars PROVE ReadsCounted'
  OBVIOUS
<1>1. \A h \in Handle : fh[h].st = "unused" => Fetchers(h) = {}
  BY DEF HandlesInUse, Fetchers
<1>2. fh \in [Handle -> HandleState] /\ th \in [Thread -> ThreadState]
  BY DEF TypeOK
<1>3. \A t \in Prefetcher : th'[t].pc # "direct"
  <2>. SUFFICES ASSUME NEW t \in Prefetcher PROVE th'[t].pc # "direct"
    OBVIOUS
  <2>1. t \in Thread /\ t \notin Reader /\ th[t].pc # "direct" /\ th[t] \in ThreadState
    BY <1>2, BlockCacheAssumption DEF Thread, ReadsCounted
  <2>2. CASE FetchStep(t)
    BY <2>1, <2>2, FetchPhases DEF Fetching1
  <2>3. CASE TakeJob(t)
    BY <1>2, <2>1, <2>3 DEF TakeJob, Idle
  <2>4. CASE th'[t] = [th[t] EXCEPT !.pc = "block"]
    BY <2>1, <2>4 DEF ThreadState
  <2>. QED
    BY <2>1, <2>2, <2>3, <2>4, ThreadStep
<1>4. ASSUME NEW h \in Handle, NEW t \in Thread, th[t].pc = "fetch", th[t].h = h,
             fh[h].st \in {"open", "closing"}
      PROVE  fh'[h].st \in {"open", "closing"}
  <2>1. t \in Fetchers(h)
    BY <1>4 DEF Fetchers
  <2>2. fh[h].active # 0
    <3>1. fh[h].active = Cardinality(Fetchers(h)) /\ Fetchers(h) # {}
      BY <1>4, <2>1 DEF ReadsCounted
    <3>2. IsFiniteSet(Fetchers(h))
      BY FetchersFinite
    <3>. QED
      BY <3>1, <3>2, FS_EmptySet
  <2>3. fh'[h].st # "released" /\ fh'[h].st # "unused"
    BY <1>4, <2>2, HandleStep
  <2>4. fh'[h] \in HandleState
    BY NextType DEF TypeOK
  <2>. QED
    BY <2>3, <2>4 DEF HandleState
<1>5. CASE \A t \in Thread : /\ th'[t].pc = "fetch" <=> th[t].pc = "fetch"
                             /\ th[t].pc = "fetch" => th'[t].h = th[t].h
  <2>1. ASSUME NEW h \in Handle PROVE Fetchers(h)' = Fetchers(h)
    BY <1>5 DEF Fetchers
  <2>2. ASSUME NEW u \in Thread, BeginFetch(u) \/ AnswerFetch(u), NEW h \in Handle
        PROVE  fh'[h].active = fh[h].active
    <3>1. ~AnswerFetch(u)
      <4>1. SUFFICES ASSUME AnswerFetch(u) PROVE th[u].pc = "fetch" /\ th'[u].pc # "fetch"
        BY <1>5, <4>1
      <4>2. \A d : [th[u] EXCEPT !.pc = "put", !.data = d].pc = "put"
        BY <1>2 DEF ThreadState
      <4>3. PICK d : Becomes(u, [th[u] EXCEPT !.pc = "put", !.data = d])
        BY <4>1, FetchUpdates
      <4>. QED
        BY <4>1, <4>2, <4>3, ThreadMoves DEF AnswerFetch, At
    <3>2. BeginFetch(u) /\ th[u].pc = "begin"
      BY <2>2, <3>1 DEF BeginFetch, At
    <3>3. [th[u] EXCEPT !.pc = "fetch"].pc = "fetch"
      BY <1>2 DEF ThreadState
    <3>4. ~Becomes(u, [th[u] EXCEPT !.pc = "fetch"])
      <4>1. PICK s : s = [th[u] EXCEPT !.pc = "fetch"]
        OBVIOUS
      <4>2. Becomes(u, s) => th'[u].pc = "fetch"
        BY <3>3, <4>1, ThreadMoves
      <4>. QED
        BY <1>5, <3>2, <4>1, <4>2
    <3>5. fh[th[u].h].st # "open"
      BY <3>2, <3>4, FetchUpdates
    <3>. QED
      BY <3>2, <3>5 DEF BeginFetch
  <2>3. ASSUME NEW h \in Handle, fh'[h].st # "unused"
        PROVE  fh'[h].active = Cardinality(Fetchers(h)')
    <3>1. CASE fh[h].st = "unused"
      BY <1>1, <2>1, <2>3, <3>1, HandleStep, FS_EmptySet
    <3>2. CASE fh[h].st # "unused"
      BY <2>1, <2>2, <3>2, HandleStep DEF ReadsCounted
    <3>. QED
      BY <3>1, <3>2
  <2>4. ASSUME NEW t \in Thread, th'[t].pc = "fetch"
        PROVE  fh'[th'[t].h].st \in {"open", "closing"}
    <3>1. th[t].pc = "fetch" /\ th'[t].h = th[t].h /\ th[t].h \in Handle
      BY <1>5, <2>4, ThreadTypes
    <3>. QED
      BY <1>4, <3>1 DEF ReadsCounted
  <2>. QED
    BY <1>3, <2>3, <2>4 DEF ReadsCounted
<1>6. ASSUME NEW u \in Thread,
             BeginFetch(u), fh[th[u].h].st = "open", th[u].pc = "begin",
             th'[u].pc = "fetch", th'[u].h = th[u].h,
             \A x \in Thread : x # u => th'[x] = th[x]
      PROVE  ReadsCounted'
  <2>0. PICK k \in Handle : k = th[u].h
    BY ThreadTypes
  <2>1. k \in Handle /\ fh' = [fh EXCEPT ![k] = [fh[k] EXCEPT !.active = fh[k].active + 1]]
    BY <1>6, <2>0 DEF BeginFetch, BeginRead
  <2>2. fh'[k].active = fh[k].active + 1 /\ fh'[k].st = "open"
    BY <1>2, <1>6, <2>0, <2>1 DEF HandleState
  <2>3. Fetchers(k)' = Fetchers(k) \cup {u} /\ u \notin Fetchers(k)
    BY <1>6, <2>0 DEF Fetchers
  <2>4. \A h \in Handle : h # k => Fetchers(h)' = Fetchers(h) /\ fh'[h] = fh[h]
    BY <1>2, <1>6, <2>0, <2>1 DEF Fetchers
  <2>5. ASSUME NEW h \in Handle, fh'[h].st # "unused"
        PROVE  fh'[h].active = Cardinality(Fetchers(h)')
    <3>1. CASE h = k
      BY <1>6, <2>0, <2>1, <2>2, <2>3, <3>1, FetchersFinite, FS_AddElement DEF ReadsCounted
    <3>2. CASE h # k
      BY <2>4, <2>5, <3>2 DEF ReadsCounted
    <3>. QED
      BY <3>1, <3>2
  <2>6. ASSUME NEW t \in Thread, th'[t].pc = "fetch"
        PROVE  fh'[th'[t].h].st \in {"open", "closing"}
    <3>1. CASE t = u
      BY <1>6, <2>0, <2>2, <3>1
    <3>2. CASE t # u
      BY <1>4, <1>6, <2>6, <3>2, ThreadTypes DEF ReadsCounted
    <3>. QED
      BY <3>1, <3>2
  <2>. QED
    BY <1>3, <2>5, <2>6 DEF ReadsCounted
<1>7. ASSUME NEW u \in Thread,
             AnswerFetch(u), th[u].pc = "fetch", th'[u].pc # "fetch",
             \A x \in Thread : x # u => th'[x] = th[x]
      PROVE  ReadsCounted'
  <2>0. PICK k \in Handle : k = th[u].h
    BY ThreadTypes
  <2>1. k \in Handle /\ fh' = [fh EXCEPT ![k] = [fh[k] EXCEPT !.active = fh[k].active - 1]]
    BY <1>7, <2>0 DEF AnswerFetch, EndRead
  <2>2. fh'[k].active = fh[k].active - 1 /\ fh'[k].st = fh[k].st
    BY <1>2, <1>7, <2>1 DEF HandleState
  <2>3. Fetchers(k)' = Fetchers(k) \ {u} /\ u \in Fetchers(k)
    BY <1>7, <2>0 DEF Fetchers
  <2>4. \A h \in Handle : h # k => Fetchers(h)' = Fetchers(h) /\ fh'[h] = fh[h]
    BY <1>2, <1>7, <2>0, <2>1 DEF Fetchers
  <2>5. ASSUME NEW h \in Handle, fh'[h].st # "unused"
        PROVE  fh'[h].active = Cardinality(Fetchers(h)')
    <3>1. CASE h = k
      <4>1. fh[k].active = Cardinality(Fetchers(k)) /\ Cardinality(Fetchers(k)) \in Nat
        BY <2>1, <2>2, <2>5, <3>1, FetchersFinite DEF ReadsCounted
      <4>2. Cardinality(Fetchers(k) \ {u}) = Cardinality(Fetchers(k)) - 1
        BY <2>3, FetchersFinite, FS_RemoveElement
      <4>. QED
        BY <2>2, <2>3, <3>1, <4>1, <4>2
    <3>2. CASE h # k
      BY <2>4, <2>5, <3>2 DEF ReadsCounted
    <3>. QED
      BY <3>1, <3>2
  <2>6. ASSUME NEW t \in Thread, th'[t].pc = "fetch"
        PROVE  fh'[th'[t].h].st \in {"open", "closing"}
    BY <1>4, <1>7, <2>6, ThreadTypes DEF ReadsCounted
  <2>. QED
    BY <1>3, <2>5, <2>6 DEF ReadsCounted
<1>. QED
  BY <1>5, <1>6, <1>7, FetcherStep

\* RELEASE overtakes no READ of the same handle, however many prefetches the pool still runs:
\* fhBeginClose waits for exactly the READs that fhBeginRead let through.
THEOREM ReleaseIsLast == Spec => []NoReadAfterRelease
<1>1. Spec => []ReadsCounted
  BY CountInit, CountNext, TypeCorrect, HandlesInUseInvariant, PTL DEF Spec
<1>2. HandlesInUse /\ ReadsCounted => NoReadAfterRelease
  BY DEF HandlesInUse, ReadsCounted, NoReadAfterRelease, Thread
<1>. QED
  BY <1>1, <1>2, HandlesInUseInvariant, PTL

-----------------------------------------------------------------------------
(* Where blocks come from.                                                 *)

\* Generations only grow.
LEMMA HostMonotone ==
    ASSUME TypeOK, [Next]_vars, NEW p \in Path
    PROVE  gen[p] \in Nat /\ gen'[p] \in Nat /\ gen[p] <= gen'[p]
<1>1. gen[p] \in Gen /\ gen \in [Path -> Gen]
  BY DEF TypeOK
<1>2. gen[p] \in Nat
  BY <1>1 DEF Gen
<1>3. CASE gen' = gen
  BY <1>2, <1>3
<1>4. ASSUME NEW q \in Path, NEW announce \in BOOLEAN, HostApplies(q, announce)
      PROVE  gen'[p] \in {gen[p], gen[p] + 1}
  BY <1>1, <1>4 DEF HostApplies
<1>. QED
  BY <1>2, <1>3, <1>4, Frames

\* A cached block is one that was cached before, or the one a PutBlock brings.
LEMMA FilesStep ==
    ASSUME TypeOK, [Next]_vars, NEW p \in Path, NEW b \in Index
    PROVE  \/ files'[p].blk[b] \in {0, files[p].blk[b]}
           \/ \E t \in Thread : /\ PutBlock(t) /\ p = PathOf(t) /\ b = th[t].cur
                                /\ files'[p].blk[b] = th[t].data
<1>1. files \in [Path -> FileState] /\ files[p].blk[b] \in 0 .. MaxGen /\ NoFile.blk[b] = 0
  BY DEF TypeOK, FileState, NoFile
<1>2. ASSUME NEW q \in Path PROVE Purge(files, q)[p].blk[b] \in {0, files[p].blk[b]}
  BY <1>1, PurgeType
<1>3. CASE files' = files
  BY <1>3
<1>4. ASSUME NEW t \in Thread, LookupBlock(t) PROVE files'[p].blk[b] \in {0, files[p].blk[b]}
  <2>1. PathOf(t) \in Path /\ files' = Current(files, PathOf(t), th[t].ver)
    BY <1>4, ThreadTypes DEF LookupBlock
  <2>2. files' = files \/ files' = Purge(files, PathOf(t))
    BY <2>1 DEF Current
  <2>. QED
    BY <1>2, <2>1, <2>2
<1>5. ASSUME NEW t \in Thread, PutBlock(t)
      PROVE  \/ files'[p].blk[b] \in {0, files[p].blk[b]}
             \/ /\ PutBlock(t) /\ p = PathOf(t) /\ b = th[t].cur
                /\ files'[p].blk[b] = th[t].data
  <2>. DEFINE f == Insert(files, PathOf(t), th[t].ver, th[t].cur, th[t].data)
  <2>1. /\ PathOf(t) \in Path /\ th[t].ver \in Stamp /\ th[t].cur \in Index
        /\ th[t].data \in 0 .. MaxGen
    BY ThreadTypes
  <2>2. f \in [Path -> FileState]
    BY <1>1, <2>1, InsertType
  <2>3. \/ f[p].blk[b] \in {0, files[p].blk[b]}
        \/ p = PathOf(t) /\ b = th[t].cur /\ f[p].blk[b] = th[t].data
    BY <1>1, <2>1, InsertType
  <2>4. PICK victims : files' = Drop(f, victims)
    BY <1>5 DEF PutBlock
  <2>. HIDE DEF f
  <2>5. files'[p].blk[b] \in {0, f[p].blk[b]}
    BY <2>2, <2>4, DropType
  <2>. QED
    BY <1>5, <2>3, <2>5
<1>6. ASSUME NEW t \in Thread, PutOutOfMemory(t) PROVE files'[p].blk[b] \in {0, files[p].blk[b]}
  <2>. DEFINE f == Current(files, PathOf(t), th[t].ver)
  <2>1. PathOf(t) \in Path
    BY ThreadTypes
  <2>2. f = files \/ f = Purge(files, PathOf(t))
    BY DEF Current
  <2>3. f \in [Path -> FileState] /\ f[p].blk[b] \in {0, files[p].blk[b]}
    BY <1>1, <1>2, <2>1, <2>2, PurgeType
  <2>4. PICK victims : files' = Drop(f, victims)
    BY <1>6 DEF PutOutOfMemory
  <2>. HIDE DEF f
  <2>. QED
    BY <2>3, <2>4, DropType
<1>7. ASSUME NEW m \in Mutator, PurgeBlocks(m) PROVE files'[p].blk[b] \in {0, files[p].blk[b]}
  <2>1. mu[m].p \in Path
    BY DEF TypeOK, MutatorState
  <2>. QED
    BY <1>2, <1>7, <2>1 DEF PurgeBlocks, Purged
<1>. QED
  BY <1>3, <1>4, <1>5, <1>6, <1>7, Frames

\* The data a thread is about to put is what the host has just answered.
LEMMA DataStep ==
    ASSUME TypeOK, [Next]_vars, NEW t \in Thread, th'[t].pc = "put", th'[t].data # 0
    PROVE  \/ th'[t] = th[t]
           \/ /\ AnswerFetch(t) /\ th[t].pc = "fetch" /\ th'[t].h = th[t].h
              /\ th'[t].cur = th[t].cur /\ th'[t].ver = th[t].ver /\ th'[t].start = th[t].start
              /\ th'[t].data = HostGen(th[t].h)
<1>1. th[t] \in ThreadState
  BY ThreadTypes
<1>2. CASE ~ \E u \in Thread : FetchStep(u)
  BY <1>2, OtherPhases DEF Fetching1
<1>3. ASSUME NEW u \in Thread, FetchStep(u), u # t PROVE th'[t] = th[t]
  <2>1. th'[t] \in {th[t], Woken(th[t])}
    BY <1>3, FetchPhases
  <2>2. [th[t] EXCEPT !.pc = "block"].pc = "block"
    BY <1>1 DEF ThreadState
  <2>. QED
    BY <1>1, <2>1, <2>2, WokenType
<1>4. CASE FetchStep(t)
  <2>1. th'[t].pc \notin {"block", "ahead", "idle", "wait", "begin", "reply"}
    OBVIOUS
  <2>2. BeginFetch(t) \/ AnswerFetch(t)
    <3>1. th[t].pc \in {"begin", "fetch"}
      <4>1. th[t].pc # "put"
        <5>1. SUFFICES ASSUME th[t].pc = "put" PROVE FALSE
          BY <5>1
        <5>2. PutBlock(t) \/ PutOutOfMemory(t) \/ PutFailed(t)
          BY <1>4, <5>1 DEF FetchStep, LookupBlock, BeginFetch, AnswerFetch, At
        <5>3. ASSUME NEW s \in ThreadState PROVE Advance(s, t).pc # "put"
          <6>1. /\ [s EXCEPT !.pc = "block", !.cur = s.cur + 1, !.data = 0].pc = "block"
                /\ [s EXCEPT !.pc = "ahead", !.data = 0].pc = "ahead"
            BY DEF ThreadState
          <6>2. Idle.pc = "idle"
            BY DEF Idle
          <6>. QED
            BY <6>1, <6>2, AdvanceType
        <5>4. [th[t] EXCEPT !.pc = "reply"].pc = "reply" /\ Idle.pc = "idle"
          BY <1>1 DEF ThreadState, Idle
        <5>5. \E s \in ThreadState : th' = WakeAll(t, s) /\ s.pc # "put"
          BY <5>2, <5>3, <5>4, FetchUpdates
        <5>. QED
          BY <5>5, WakeAllType
      <4>. QED
        BY <1>4, <2>1, <4>1, FetchPhases DEF Fetching1
    <3>. QED
      BY <1>4, <3>1 DEF FetchStep, LookupBlock, PutBlock, PutOutOfMemory, PutFailed, At
  <2>3. CASE BeginFetch(t)
    <3>1. /\ [th[t] EXCEPT !.pc = "fetch"].pc = "fetch"
          /\ [th[t] EXCEPT !.pc = "put", !.data = 0].data = 0
      BY <1>1 DEF ThreadState
    <3>2. \/ th'[t] = [th[t] EXCEPT !.pc = "fetch"]
          \/ th'[t] = [th[t] EXCEPT !.pc = "put", !.data = 0]
      BY <2>3, FetchUpdates, ThreadMoves
    <3>. QED
      BY <3>1, <3>2
  <2>4. CASE AnswerFetch(t)
    <3>1. PICK d \in {0, HostGen(th[t].h)} : Becomes(t, [th[t] EXCEPT !.pc = "put", !.data = d])
      BY <2>4, FetchUpdates
    <3>2. th'[t] = [th[t] EXCEPT !.pc = "put", !.data = d]
      BY <3>1, ThreadMoves
    <3>3. /\ th'[t].data = d /\ th'[t].h = th[t].h /\ th'[t].cur = th[t].cur
          /\ th'[t].ver = th[t].ver /\ th'[t].start = th[t].start
      BY <1>1, <3>2 DEF ThreadState
    <3>. QED
      BY <2>4, <3>1, <3>3 DEF AnswerFetch, At
  <2>. QED
    BY <2>2, <2>3, <2>4
<1>. QED
  BY <1>2, <1>3, <1>4

\* What a read has obtained comes from the cache, from a fetch of its own or from an uncached
\* READ; a thread that starts a read or a job has obtained nothing.
LEMMA GotStep ==
    ASSUME TypeOK, [Next]_vars, NEW r \in Thread, NEW g \in th'[r].got
    PROVE  /\ (th[r].pc # "idle" /\ th'[r].pc # "idle" /\ th'[r].h = th[r].h) \/ th'[r] = th[r]
           /\ th'[r].floor = th[r].floor /\ th'[r].start = th[r].start
           /\ \/ g \in th[r].got
              \/ r \in Reader /\ AnswerDirect(r) /\ g = HostGen(th[r].h)
              \/ /\ LookupBlock(r) /\ g = files[PathOf(r)].blk[th[r].cur] /\ g # 0
                 /\ files[PathOf(r)].tag \in {0, th[r].ver}
              \/ th[r].pc = "put" /\ g = th[r].data /\ g # 0
<1>1. th[r] \in ThreadState /\ Idle.got = {}
  BY ThreadTypes DEF Idle
<1>2. CASE th'[r] = th[r]
  BY <1>2
<1>3. ASSUME th[r].pc = "wait", th'[r] = [th[r] EXCEPT !.pc = "block"]
      PROVE  th'[r].got = th[r].got /\ th'[r].pc = "block"
  BY <1>1, <1>3 DEF ThreadState
<1>4. ASSUME r \in Reader, NEW h \in Handle, NEW first \in Block, NEW last \in Block,
             StartRead(r, h, first, last)
      PROVE  FALSE
  <2>1. th'[r].got = {}
    BY <1>4 DEF StartRead, Idle, TypeOK
  <2>. QED
    BY <2>1
<1>5. ASSUME r \in Prefetcher, TakeJob(r)
      PROVE  FALSE
  <2>1. th'[r].got = {}
    BY <1>5 DEF TakeJob, Idle, TypeOK
  <2>. QED
    BY <2>1
<1>6. ASSUME r \in Reader, ReaderStep(r)
      PROVE  /\ th'[r].pc # "idle"
             /\ g \in th[r].got \/ (AnswerDirect(r) /\ g = HostGen(th[r].h))
  <2>1. ~Reply(r)
    <3>1. SUFFICES ASSUME Reply(r) PROVE th'[r].got = {}
      BY <3>1
    <3>. QED
      BY <3>1 DEF Reply, Idle, TypeOK
  <2>. DEFINE Same(s) == s.got = th[r].got /\ s.pc # "idle"
              Read(s) == s.got = {HostGen(th[r].h)} /\ s.pc # "idle"
  <2>2. /\ \A pc \in {"meta", "getattr", "direct", "reply"} : Same([th[r] EXCEPT !.pc = pc])
        /\ \A v : Same([th[r] EXCEPT !.pc = "block", !.ver = v])
        /\ \A v : Same([th[r] EXCEPT !.pc = "fhstore", !.since = v])
        /\ Read([th[r] EXCEPT !.pc = "reply", !.got = {HostGen(th[r].h)}])
        /\ \A v : \A pc \in {"submit", "reply"} : Same([th[r] EXCEPT !.ahead = v, !.pc = pc])
        /\ \A v, w : Same([th[r] EXCEPT !.pc = "fhstore", !.att = v, !.since = w])
        /\ \A v, w : Same([th[r] EXCEPT !.pc = "metastore", !.att = v, !.since = w])
        /\ \A v, w, z : Same([th[r] EXCEPT !.pc = "block", !.ver = v, !.att = w, !.since = z])
    BY <1>1 DEF ThreadState
  <2>. HIDE DEF Same, Read
  <2>3. PICK s : Becomes(r, s) /\ (Same(s) \/ (Read(s) /\ AnswerDirect(r)))
    BY <1>6, <2>1, <2>2, ReaderUpdates DEF ReaderStep
  <2>4. th'[r] = s
    BY <2>3, ThreadMoves DEF Thread
  <2>. QED
    BY <2>3, <2>4 DEF Same, Read
<1>7. ASSUME FetchStep(r)
      PROVE  /\ th'[r].pc # "idle"
             /\ \/ g \in th[r].got
                \/ /\ LookupBlock(r) /\ g = files[PathOf(r)].blk[th[r].cur] /\ g # 0
                   /\ files[PathOf(r)].tag \in {0, th[r].ver}
                \/ th[r].pc = "put" /\ g = th[r].data /\ g # 0
  <2>. DEFINE Same(s) == s.got = th[r].got /\ s.pc # "idle"
  <2>1. ASSUME NEW x \in Gen, Served(r, x) \in ThreadState
        PROVE  \/ Advance(Served(r, x), r) = Idle
               \/ /\ Advance(Served(r, x), r).got = th[r].got \cup {x}
                  /\ Advance(Served(r, x), r).pc # "idle"
    <3>1. ASSUME NEW s \in ThreadState
          PROVE  /\ [s EXCEPT !.pc = "block", !.cur = s.cur + 1, !.data = 0].pc = "block"
                 /\ [s EXCEPT !.pc = "block", !.cur = s.cur + 1, !.data = 0].got = s.got
                 /\ [s EXCEPT !.pc = "ahead", !.data = 0].pc = "ahead"
                 /\ [s EXCEPT !.pc = "ahead", !.data = 0].got = s.got
      BY DEF ThreadState
    <3>2. Served(r, x).got = th[r].got \cup {x}
      BY <1>1 DEF Served, ThreadState
    <3>3. PICK s \in ThreadState : s = Served(r, x)
      BY <2>1
    <3>4. \/ Advance(s, r) = Idle
          \/ /\ Advance(s, r).got = s.got /\ Advance(s, r).pc # "idle"
      BY <3>1, AdvanceType
    <3>. QED
      BY <3>2, <3>3, <3>4
  <2>2. /\ \A pc \in {"wait", "begin", "fetch", "reply"} : Same([th[r] EXCEPT !.pc = pc])
        /\ \A d : Same([th[r] EXCEPT !.pc = "put", !.data = d])
    BY <1>1 DEF ThreadState
  <2>. HIDE DEF Same
  <2>3. CASE LookupBlock(r)
    <3>1. CASE \E x \in Gen : /\ x = Current(files, PathOf(r), th[r].ver)[PathOf(r)].blk[th[r].cur]
                              /\ Served(r, x) \in ThreadState
                              /\ Becomes(r, Advance(Served(r, x), r))
                              /\ inflight' = inflight
      <4>1. PICK x \in Gen : /\ x = Current(files, PathOf(r), th[r].ver)[PathOf(r)].blk[th[r].cur]
                             /\ Served(r, x) \in ThreadState
                             /\ Becomes(r, Advance(Served(r, x), r))
        BY <3>1
      <4>2. x # 0
        BY DEF Gen
      <4>3. x = files[PathOf(r)].blk[th[r].cur] /\ files[PathOf(r)].tag \in {0, th[r].ver}
        <5>1. /\ PathOf(r) \in Path /\ th[r].cur \in Index /\ files \in [Path -> FileState]
              /\ NoFile.blk[th[r].cur] = 0
          BY ThreadTypes DEF TypeOK, NoFile
        <5>2. CASE files[PathOf(r)].tag \in {0, th[r].ver}
          BY <4>1, <5>2 DEF Current
        <5>3. CASE files[PathOf(r)].tag \notin {0, th[r].ver}
          <6>1. x = NoFile.blk[th[r].cur]
            BY <4>1, <5>1, <5>3, PurgeType DEF Current
          <6>. QED
            BY <4>2, <5>1, <6>1
        <5>. QED
          BY <5>2, <5>3
      <4>4. th'[r] = Advance(Served(r, x), r)
        BY <4>1, ThreadMoves
      <4>5. th'[r] # Idle
        BY <1>1
      <4>6. th'[r].got = th[r].got \cup {x} /\ th'[r].pc # "idle"
        BY <2>1, <4>1, <4>4, <4>5
      <4>. QED
        BY <2>3, <4>2, <4>3, <4>6
    <3>2. CASE \E s : Becomes(r, s) /\ Same(s)
      BY <3>2, ThreadMoves DEF Same
    <3>. QED
      BY <2>2, <2>3, <3>1, <3>2, FetchUpdates
  <2>4. CASE BeginFetch(r) \/ AnswerFetch(r)
    <3>1. PICK s : Becomes(r, s) /\ Same(s)
      BY <2>2, <2>4, FetchUpdates
    <3>. QED
      BY <3>1, ThreadMoves DEF Same
  <2>5. CASE PutBlock(r) \/ PutOutOfMemory(r)
    <3>1. th[r].data # 0 /\ th[r].data \in 0 .. MaxGen /\ th[r].pc = "put"
      BY <2>5, ThreadTypes DEF PutBlock, PutOutOfMemory, At
    <3>2. th[r].data \in Gen
      BY <3>1, BlockCacheAssumption DEF Gen
    <3>3. th'[r] = Advance(Served(r, th[r].data), r) /\ Served(r, th[r].data) \in ThreadState
      BY <2>5, FetchUpdates, WakeAllType
    <3>4. th'[r] # Idle
      BY <1>1
    <3>5. th'[r].got = th[r].got \cup {th[r].data} /\ th'[r].pc # "idle"
      BY <2>1, <3>2, <3>3, <3>4
    <3>. QED
      BY <3>1, <3>5
  <2>6. CASE PutFailed(r)
    <3>1. PICK s \in ThreadState : th' = WakeAll(r, s) /\ (s = Idle \/ Same(s))
      BY <2>2, <2>6, FetchUpdates
    <3>2. th'[r] = s
      BY <3>1, WakeAllType
    <3>. QED
      BY <1>1, <3>1, <3>2 DEF Same
  <2>. QED
    BY <1>7, <2>3, <2>4, <2>5, <2>6 DEF FetchStep
<1>8. CASE \/ th[r].pc = "wait" /\ th'[r] = [th[r] EXCEPT !.pc = "block"]
           \/ r \in Reader /\ ReaderStep(r)
           \/ FetchStep(r)
  <2>1. th'[r].pc # "idle"
    BY <1>3, <1>6, <1>7, <1>8
  <2>. QED
    BY <1>3, <1>6, <1>7, <1>8, <2>1, KeepsHandle
<1>. QED
  BY <1>2, <1>4, <1>5, <1>8, ThreadStep

-----------------------------------------------------------------------------
(* A read returns nothing older than what this client has dropped.         *)

\* What this client has been told of, the host has reached.
HostReached ==
    /\ \A p \in Path : floor[p] <= gen[p]
    /\ \A m \in Mutator : mu[m].gen <= gen[mu[m].p]
    /\ \A msg \in inval : msg[2] <= gen[msg[1]]

LEMMA FloorTypes ==
    ASSUME TypeOK
    PROVE  /\ \A p \in Path : floor[p] \in Nat /\ gen[p] \in Nat \ {0}
           /\ \A m \in Mutator : mu[m].p \in Path /\ mu[m].gen \in Nat /\ mu[m] \in MutatorState
           /\ \A msg \in inval : msg[1] \in Path /\ msg[2] \in Nat
<1>1. /\ floor \in [Path -> 0 .. MaxGen] /\ gen \in [Path -> Gen]
      /\ mu \in [Mutator -> MutatorState] /\ inval \subseteq Path \X Gen
  BY DEF TypeOK
<1>2. \A s \in MutatorState : s.p \in Path /\ s.gen \in 0 .. MaxGen
  BY DEF MutatorState
<1>. QED
  BY <1>1, <1>2 DEF Gen

\* A floor rises only in a PurgeBlocks with nothing of the file in flight.
LEMMA FloorStep ==
    ASSUME TypeOK, [Next]_vars, NEW p \in Path
    PROVE  /\ floor[p] <= floor'[p]
           /\ \/ floor'[p] = floor[p]
              \/ \E m \in Mutator : /\ PurgeBlocks(m) /\ p = mu[m].p /\ ~Fetching(p)
                                    /\ floor'[p] = mu[m].gen
<1>1. CASE floor' = floor
  BY <1>1, FloorTypes
<1>2. ASSUME NEW m \in Mutator, PurgeBlocks(m)
      PROVE  /\ floor[p] <= floor'[p]
             /\ \/ floor'[p] = floor[p]
                \/ p = mu[m].p /\ ~Fetching(p) /\ floor'[p] = mu[m].gen
  <2>1. CASE p = mu[m].p /\ ~Fetching(p)
    <3>1. floor'[p] = Max2(floor[p], mu[m].gen)
      BY <1>2, <2>1 DEF PurgeBlocks, TypeOK
    <3>. QED
      BY <2>1, <3>1, FloorTypes DEF Max2
  <2>2. CASE ~(p = mu[m].p /\ ~Fetching(p))
    <3>1. floor'[p] = floor[p]
      BY <1>2, <2>2 DEF PurgeBlocks, TypeOK
    <3>. QED
      BY <3>1, FloorTypes
  <2>. QED
    BY <2>1, <2>2
<1>. QED
  BY <1>1, <1>2, Frames

LEMMA HostReachedInvariant == Spec => []HostReached
<1>1. Init => HostReached
  <2>. SUFFICES ASSUME Init PROVE HostReached
    OBVIOUS
  <2>1. Resting.gen = 0 /\ Resting.p \in Path
    BY BlockCacheAssumption DEF Resting, SomePath
  <2>. QED
    BY <2>1 DEF Init, HostReached
<1>2. TypeOK /\ HostReached /\ [Next]_vars => HostReached'
  <2>. SUFFICES ASSUME TypeOK, HostReached, [Next]_vars PROVE HostReached'
    OBVIOUS
  <2>1. \A p \in Path : gen[p] \in Nat /\ gen'[p] \in Nat /\ gen[p] <= gen'[p]
    BY HostMonotone
  <2>2. ASSUME NEW p \in Path PROVE floor'[p] <= gen'[p]
    BY <2>1, FloorStep, FloorTypes DEF HostReached
  <2>3. ASSUME NEW p \in Path, NEW announce \in BOOLEAN, HostApplies(p, announce)
        PROVE  gen'[p] = gen[p] + 1 /\ inval' \subseteq inval \cup {<<p, gen[p] + 1>>}
    BY <2>3 DEF HostApplies, TypeOK
  <2>4. ASSUME NEW msg \in inval' PROVE msg[2] <= gen'[msg[1]]
    <3>1. CASE msg \in inval
      BY <2>1, <3>1, FloorTypes DEF HostReached
    <3>2. CASE \E p \in Path : msg = <<p, gen[p] + 1>> /\ gen'[p] = gen[p] + 1
      BY <2>1, <3>2
    <3>. QED
      BY <2>3, <3>1, <3>2, Frames
  <2>5. ASSUME NEW m \in Mutator PROVE mu'[m].gen <= gen'[mu'[m].p]
    <3>1. /\ mu \in [Mutator -> MutatorState] /\ mu[m] \in MutatorState
          /\ mu[m].gen \in Nat /\ mu[m].p \in Path
          /\ mu[m].gen <= gen[mu[m].p] /\ mu[m].gen <= gen'[mu[m].p]
      BY <2>1, FloorTypes DEF TypeOK, HostReached
    <3>2. Resting.gen = 0 /\ Resting.gen <= gen'[Resting.p]
      BY <2>1, BlockCacheAssumption DEF Resting, SomePath
    <3>3. CASE mu'[m] = mu[m] \/ mu'[m] = Resting
      BY <3>1, <3>2, <3>3
    <3>4. ASSUME NEW w \in Writer, NEW p \in Path, HostWrites(w, p) \/ HostSetsAttrs(w, p)
          PROVE  mu'[m].gen <= gen'[mu'[m].p]
      <4>1. CASE w = m
        <5>1. HostApplies(p, TRUE) /\ TRUE \in BOOLEAN
          BY <3>4 DEF HostWrites, HostSetsAttrs
        <5>2. \E pc : mu' = [mu EXCEPT ![m] = [pc |-> pc, p |-> p, gen |-> gen[p] + 1]]
          BY <3>4, <4>1 DEF HostWrites, HostSetsAttrs
        <5>3. mu'[m].gen = gen[p] + 1 /\ mu'[m].p = p
          BY <3>1, <5>2
        <5>4. gen'[p] = gen[p] + 1
          BY <2>3, <5>1
        <5>. QED
          BY <2>1, <5>3, <5>4
      <4>2. CASE w # m
        BY <3>1, <3>3, <3>4, <4>2 DEF HostWrites, HostSetsAttrs
      <4>. QED
        BY <4>1, <4>2
    <3>5. ASSUME NEW n \in Notifier, NEW msg \in inval, Notified(n, msg)
          PROVE  mu'[m].gen <= gen'[mu'[m].p]
      <4>1. CASE n = m
        <5>1. /\ mu'[m].gen = msg[2] /\ mu'[m].p = msg[1]
              /\ msg[2] <= gen[msg[1]] /\ msg[1] \in Path /\ msg[2] \in Nat
          BY <3>1, <3>5, <4>1, FloorTypes DEF Notified, HostReached
        <5>. QED
          BY <2>1, <5>1
      <4>2. CASE n # m
        BY <3>1, <3>3, <3>5, <4>2 DEF Notified
      <4>. QED
        BY <4>1, <4>2
    <3>6. ASSUME NEW k \in Mutator, MutatorStep(k)
          PROVE  mu'[m].gen <= gen'[mu'[m].p]
      <4>1. CASE k # m
        BY <3>1, <3>3, <3>6, <4>1 DEF MutatorStep, WriteAcked, WriteUnacked, EraseMeta,
              ClearHandleVersions, PurgeBlocks
      <4>2. CASE k = m
        <5>1. \A pc : /\ [mu[m] EXCEPT !.pc = pc].gen = mu[m].gen
                      /\ [mu[m] EXCEPT !.pc = pc].p = mu[m].p
          BY <3>1 DEF MutatorState
        <5>2. mu'[m] = Resting \/ \E pc : mu'[m] = [mu[m] EXCEPT !.pc = pc]
          BY <3>1, <3>6, <4>2 DEF MutatorStep, WriteAcked, WriteUnacked, EraseMeta,
                ClearHandleVersions, PurgeBlocks
        <5>. QED
          BY <3>1, <3>3, <5>1, <5>2
      <4>. QED
        BY <4>1, <4>2
    <3>. QED
      BY <3>3, <3>4, <3>5, <3>6, Frames
  <2>. QED
    BY <2>2, <2>4, <2>5 DEF HostReached
<1>. QED
  BY <1>1, <1>2, TypeCorrect, PTL DEF Spec

\* No handle holds an inode that has left its path, and no block, fetched or cached, and no read
\* is behind the floor of its file.
NoPins == \A h \in Handle : fh[h].st # "unused" => fh[h].pinned = 0
BlocksAboveFloor == \A p \in Path, b \in Index : files[p].blk[b] # 0 => files[p].blk[b] >= floor[p]
PutsAboveFloor ==
    \A t \in Thread : th[t].pc = "put" /\ th[t].data # 0 => th[t].data >= floor[PathOf(t)]
ReadsBelowFloor == \A t \in Thread : th[t].pc # "idle" => th[t].floor <= floor[PathOf(t)]
GotAboveFloor == \A r \in Reader : \A g \in th[r].got : g >= th[r].floor

AboveFloor ==
    NoPins /\ BlocksAboveFloor /\ PutsAboveFloor /\ ReadsBelowFloor /\ GotAboveFloor

\* What the host answers is no older than the floor.
LEMMA AnswerAboveFloor ==
    ASSUME TypeOK, HandlesInUse, HostReached, NoPins, NEW t \in Thread, th[t].pc # "idle"
    PROVE  HostGen(th[t].h) \in Nat /\ HostGen(th[t].h) >= floor[PathOf(t)]
<1>1. th[t].h \in Handle /\ fh[th[t].h].st # "unused" /\ PathOf(t) \in Path
  BY ThreadTypes DEF HandlesInUse
<1>2. HostGen(th[t].h) = gen[PathOf(t)]
  BY <1>1 DEF NoPins, HostGen, PathOf
<1>. QED
  BY <1>1, <1>2, FloorTypes DEF HostReached

LEMMA AboveFloorInit == Init => AboveFloor
<1>. SUFFICES ASSUME Init PROVE AboveFloor
  OBVIOUS
<1>1. /\ \A t \in Thread : th[t].pc = "idle" /\ th[t].got = {}
      /\ \A h \in Handle : fh[h].st = "unused"
      /\ \A p \in Path, b \in Index : files[p].blk[b] = 0
  BY DEF Init, Idle, NoHandle, NoFile
<1>. QED
  BY <1>1 DEF AboveFloor, NoPins, BlocksAboveFloor, PutsAboveFloor, ReadsBelowFloor,
              GotAboveFloor, Thread

LEMMA AboveFloorNext ==
    ASSUME ~Replaceable, TypeOK, HandlesInUse, HostReached, SingleFetch, AboveFloor, [Next]_vars
    PROVE  AboveFloor'
<1>1. /\ NoPins /\ BlocksAboveFloor /\ PutsAboveFloor /\ ReadsBelowFloor /\ GotAboveFloor
      /\ TypeOK'
  BY NextType DEF AboveFloor
<1>2. /\ \A p \in Path : floor[p] \in Nat /\ floor'[p] \in Nat /\ floor[p] <= floor'[p]
      /\ \A t \in Thread : /\ PathOf(t) \in Path /\ th[t].floor \in Nat /\ th[t].data \in Nat
                           /\ th[t].got \subseteq Nat
  <2>1. floor \in [Path -> 0 .. MaxGen] /\ floor' \in [Path -> 0 .. MaxGen]
    BY <1>1 DEF TypeOK
  <2>. QED
    BY <2>1, FloorStep, ThreadTypes DEF Gen
<1>3. NoPins'
  BY <1>1, HandleStep DEF NoPins
<1>4. ASSUME NEW t \in Thread, th[t].pc = "put" PROVE Fetching(PathOf(t))
  <2>1. <<PathOf(t), th[t].cur>> \in inflight /\ th[t].cur \in Index
    BY <1>4, ThreadTypes DEF SingleFetch, Fetches
  <2>. QED
    BY <2>1 DEF Fetching
<1>5. BlocksAboveFloor'
  <2>. SUFFICES ASSUME NEW p \in Path, NEW b \in Index, files'[p].blk[b] # 0
                PROVE  files'[p].blk[b] >= floor'[p]
    BY DEF BlocksAboveFloor
  <2>1. CASE floor'[p] = floor[p]
    <3>1. ASSUME NEW t \in Thread, PutBlock(t), p = PathOf(t), files'[p].blk[b] = th[t].data
          PROVE  th[t].data >= floor[p]
      BY <1>1, <3>1 DEF PutBlock, PutsAboveFloor, At
    <3>. QED
      BY <1>1, <2>1, <3>1, FilesStep DEF BlocksAboveFloor
  <2>2. ASSUME NEW m \in Mutator, PurgeBlocks(m), p = mu[m].p PROVE FALSE
    <3>1. files' = Purge(files, p) /\ files \in [Path -> FileState]
      BY <2>2 DEF PurgeBlocks, Purged, TypeOK
    <3>2. files'[p] = NoFile
      BY <3>1, PurgeType
    <3>. QED
      BY <3>2 DEF NoFile
  <2>. QED
    BY <2>1, <2>2, FloorStep
<1>6. PutsAboveFloor'
  <2>. SUFFICES ASSUME NEW t \in Thread, th'[t].pc = "put", th'[t].data # 0
                PROVE  th'[t].data >= floor'[PathOf(t)']
    BY DEF PutsAboveFloor
  <2>1. CASE th'[t] = th[t]
    <3>1. th[t].pc = "put" /\ PathOf(t)' = PathOf(t) /\ th[t].data >= floor[PathOf(t)]
      BY <1>1, <2>1, KeyKept DEF PutsAboveFloor
    <3>2. floor'[PathOf(t)] = floor[PathOf(t)]
      BY <1>2, <1>4, <3>1, FloorStep
    <3>. QED
      BY <2>1, <3>1, <3>2
  <2>2. CASE /\ AnswerFetch(t) /\ th[t].pc = "fetch" /\ th'[t].h = th[t].h
             /\ th'[t].data = HostGen(th[t].h)
    <3>1. PathOf(t)' = PathOf(t) /\ HostGen(th[t].h) >= floor[PathOf(t)]
      BY <1>1, <2>2, KeyKept, AnswerAboveFloor
    <3>2. floor' = floor
      BY <2>2 DEF AnswerFetch
    <3>. QED
      BY <2>2, <3>1, <3>2
  <2>. QED
    BY <2>1, <2>2, DataStep
<1>7. ReadsBelowFloor'
  <2>. SUFFICES ASSUME NEW t \in Thread, th'[t].pc # "idle"
                PROVE  th'[t].floor <= floor'[PathOf(t)']
    BY DEF ReadsBelowFloor
  <2>1. ASSUME th[t].pc # "idle", th'[t].h = th[t].h, th'[t].floor = th[t].floor
        PROVE  th'[t].floor <= floor'[PathOf(t)']
    <3>1. PathOf(t)' = PathOf(t) /\ th[t].floor <= floor[PathOf(t)]
      BY <1>1, <2>1, KeyKept DEF ReadsBelowFloor
    <3>. QED
      BY <1>2, <2>1, <3>1
  <2>2. ASSUME t \in Reader, NEW h \in Handle, NEW first \in Block, NEW last \in Block,
               StartRead(t, h, first, last)
        PROVE  th'[t].floor <= floor'[PathOf(t)']
    <3>1. /\ th'[t].h = h /\ th'[t].floor = floor[fh[h].path] /\ fh' = fh /\ floor' = floor
          /\ fh[h].path \in Path
      BY <2>2 DEF StartRead, Idle, TypeOK, HandleState
    <3>. QED
      BY <1>2, <3>1 DEF PathOf
  <2>3. ASSUME t \in Prefetcher, TakeJob(t) PROVE th'[t].floor <= floor'[PathOf(t)']
    <3>1. th'[t].floor = 0
      BY <2>3 DEF TakeJob, Idle, TypeOK
    <3>2. PathOf(t)' \in Path /\ floor' \in [Path -> 0 .. MaxGen]
      <4>1. th'[t].h \in Handle /\ fh' \in [Handle -> HandleState]
        BY <1>1 DEF TypeOK, ThreadState
      <4>. QED
        BY <1>1, <4>1 DEF TypeOK, HandleState, PathOf
    <3>. QED
      BY <3>1, <3>2
  <2>. QED
    BY <2>1, <2>2, <2>3, ThreadStep, KeepsHandle
<1>8. GotAboveFloor'
  <2>. SUFFICES ASSUME NEW r \in Reader, NEW g \in th'[r].got PROVE g >= th'[r].floor
    BY DEF GotAboveFloor
  <2>1. r \in Thread /\ th'[r].floor = th[r].floor /\ th[r].floor \in Nat
    BY <1>2, GotStep DEF Thread
  <2>2. CASE g \in th[r].got
    BY <1>1, <2>1, <2>2 DEF GotAboveFloor
  <2>3. ASSUME th[r].pc # "idle", g \in Nat, g >= floor[PathOf(r)] PROVE g >= th'[r].floor
    BY <1>1, <1>2, <2>1, <2>3 DEF ReadsBelowFloor
  <2>4. CASE AnswerDirect(r) /\ g = HostGen(th[r].h)
    <3>1. th[r].pc # "idle"
      BY <2>4 DEF AnswerDirect, At
    <3>. QED
      BY <1>1, <2>1, <2>3, <2>4, <3>1, AnswerAboveFloor
  <2>5. CASE LookupBlock(r) /\ g = files[PathOf(r)].blk[th[r].cur] /\ g # 0
    <3>1. /\ th[r].pc # "idle" /\ PathOf(r) \in Path /\ th[r].cur \in Index
          /\ files[PathOf(r)] \in FileState
      BY <2>1, <2>5, ThreadTypes DEF LookupBlock, At, TypeOK
    <3>2. g \in Nat /\ g >= floor[PathOf(r)]
      BY <1>1, <2>5, <3>1 DEF BlocksAboveFloor, FileState
    <3>. QED
      BY <2>3, <3>1, <3>2
  <2>6. CASE th[r].pc = "put" /\ g = th[r].data /\ g # 0
    <3>1. th[r].pc # "idle" /\ g \in Nat /\ g >= floor[PathOf(r)]
      BY <1>1, <1>2, <2>1, <2>6 DEF PutsAboveFloor
    <3>. QED
      BY <2>3, <3>1
  <2>. QED
    BY <2>1, <2>2, <2>4, <2>5, <2>6, GotStep
<1>. QED
  BY <1>3, <1>5, <1>6, <1>7, <1>8 DEF AboveFloor

\* Where no path gets a new inode under an open handle: once an acknowledged write of this
\* client, or an OP_INVALIDATE, has purged a file with nothing of it in flight, every read
\* called later returns that generation or a newer one, cached, fetched or joined.
THEOREM OwnWritesAreRead == Spec => [](~Replaceable => ReadYourWrites)
<1>. DEFINE Inv == ~Replaceable => AboveFloor
<1>1. Init => Inv
  BY AboveFloorInit
<1>2. TypeOK /\ HandlesInUse /\ HostReached /\ SingleFetch /\ Inv /\ [Next]_vars => Inv'
  BY AboveFloorNext
<1>3. Inv => (~Replaceable => ReadYourWrites)
  BY DEF AboveFloor, GotAboveFloor, ReadYourWrites
<1>. QED
  BY <1>1, <1>2, <1>3, TypeCorrect, HandlesInUseInvariant, HostReachedInvariant,
     FetchesAreShared, PTL DEF Spec

-----------------------------------------------------------------------------
(* A read returns nothing that was overwritten too long ago.               *)

\* The answer g came from the host at time when or later, and was the current one then.
Dated(p, g, when) == g \in 1 .. gen[p] /\ when <= now /\ Fresh(p, g, when)

\* Every change moves the stamp, and generations retire one after the other.
Exact == stamp = gen
Retiring ==
    \A p \in Path, b \in Gen : b < gen[p] =>
        /\ retired[p][b] <= now
        /\ \A a \in Gen : a <= b => retired[p][a] <= retired[p][b]

\* How old an attribute may be: in meta, in a handle, and with a thread that is about to store it.
MetaDated == \A p \in Path : meta[p].stamp # 0 => Dated(p, meta[p].stamp, meta[p].at - Latency)
HandlesDated ==
    \A h \in Handle : fh[h].st # "unused" /\ fh[h].haveVer =>
        Dated(fh[h].path, fh[h].ver, fh[h].verAt - MetaTtl - 2 * Latency)
Begun == \A t \in Thread : th[t].pc # "idle" => th[t].start <= now
InTime ==
    \A t \in Thread : InTransit(t) =>
        th[t].start <= th[t].since /\ th[t].since <= now /\ now <= th[t].since + Latency
AttributesDated ==
    \A t \in Thread :
        /\ th[t].pc = "metastore" => Dated(PathOf(t), th[t].att, th[t].since)
        /\ th[t].pc = "fhstore" => Dated(PathOf(t), th[t].att, th[t].since - MetaTtl - Latency)

\* A thread or a job that has a version; what is fetched under it or cached under it is no older.
Versioned == {"block", "wait", "begin", "fetch", "put", "ahead", "submit"}
VersionsDated ==
    \A t \in Thread : th[t].pc \in Versioned => Dated(PathOf(t), th[t].ver, th[t].start - StaleBound)
JobsDated == \A i \in 1 .. Len(pool) : pool[i].ver \in 1 .. gen[fh[pool[i].h].path]
PutsDated ==
    \A t \in Thread : th[t].pc = "put" /\ th[t].data # 0 => th[t].data \in th[t].ver .. gen[PathOf(t)]
Tagged(f, n) == \A b \in Index : f.blk[b] # 0 => f.tag # 0 /\ f.blk[b] \in f.tag .. n
FilesTagged == \A p \in Path : Tagged(files[p], gen[p])
GotDated ==
    \A t \in Thread : \A g \in th[t].got :
        th[t].pc # "idle" /\ Dated(PathOf(t), g, th[t].start - StaleBound)

DatedInv ==
    /\ NoPins /\ Exact /\ Retiring /\ MetaDated /\ HandlesDated /\ Begun /\ InTime /\ AttributesDated
    /\ VersionsDated /\ JobsDated /\ PutsDated /\ FilesTagged /\ GotDated

LEMMA StaleBoundType == MetaTtl \in Nat /\ Latency \in Nat /\ StaleBound \in Nat
  BY BlockCacheAssumption DEF StaleBound

LEMMA HostTypes ==
    ASSUME TypeOK, NEW p \in Path
    PROVE  /\ gen[p] \in Nat \ {0} /\ gen[p] \in Gen /\ now \in Nat
           /\ retired[p] \in [Gen -> Nat] /\ \A g \in Gen : retired[p][g] \in Nat
           /\ Gen \subseteq Nat /\ 1 .. gen[p] \subseteq Gen
<1>1. gen[p] \in Gen /\ retired[p] \in [Gen -> Nat] /\ now \in Nat
  BY DEF TypeOK
<1>2. gen[p] \in Nat \ {0} /\ Gen \subseteq Nat /\ 1 .. gen[p] \subseteq Gen
  BY <1>1, BlockCacheAssumption DEF Gen
<1>. QED
  BY <1>1, <1>2

\* A newer generation is at least as fresh, and everything is at an earlier time.
LEMMA NewerIsFresh ==
    ASSUME TypeOK, Retiring, NEW p \in Path, NEW v, NEW g \in v .. gen[p], NEW w \in Int, NEW x \in Int,
           x <= w, Dated(p, v, w)
    PROVE  Dated(p, g, x)
<1>1. v \in Gen /\ g \in Gen /\ v <= g /\ g <= gen[p] /\ gen[p] \in Nat /\ now \in Nat /\ w <= now
      /\ retired[p][v] \in Nat /\ retired[p][g] \in Nat /\ g \in Nat /\ v \in Nat /\ g >= 1
  <2>1. gen[p] \in Nat /\ v \in 1 .. gen[p] /\ g \in 1 .. gen[p] /\ v <= g /\ w <= now
    BY HostTypes DEF Dated
  <2>. QED
    BY <2>1, HostTypes
<1>2. v >= gen[p] \/ retired[p][v] >= w
  BY DEF Dated, Fresh
<1>3. g < gen[p] => retired[p][v] <= retired[p][g]
  BY <1>1 DEF Retiring
<1>4. g >= gen[p] \/ retired[p][g] >= x
  BY <1>1, <1>2, <1>3
<1>. QED
  BY <1>1, <1>4 DEF Dated, Fresh

\* The present generation is fresh now.
LEMMA PresentIsFresh ==
    ASSUME TypeOK, NEW p \in Path, NEW x \in Int, x <= now
    PROVE  Dated(p, gen[p], x)
  BY HostTypes DEF Dated, Fresh

\* Everything the host has had was fresh when the clock started.
LEMMA OldIsFresh ==
    ASSUME TypeOK, NEW p \in Path, NEW g \in 1 .. gen[p], NEW x \in Int, x <= 0
    PROVE  Dated(p, g, x)
<1>1. g \in Gen /\ gen[p] \in Nat /\ now \in Nat
  BY HostTypes
<1>2. retired[p][g] \in Nat
  BY <1>1, HostTypes
<1>. QED
  BY <1>1, <1>2 DEF Dated, Fresh

\* What a step does to the host's generations and the clock.
LEMMA HostStep ==
    ASSUME ~CoarseStamps, TypeOK, [Next]_vars, Exact, NEW p \in Path
    PROVE  /\ Exact'
           /\ now' \in Nat /\ now <= now'
           /\ \/ gen'[p] = gen[p] /\ retired'[p] = retired[p]
              \/ /\ gen'[p] = gen[p] + 1 /\ retired'[p] = [retired[p] EXCEPT ![gen[p]] = now]
                 /\ now' = now
<1>1. /\ gen \in [Path -> Gen] /\ stamp \in [Path -> Gen] /\ retired \in [Path -> [Gen -> Nat]] /\ now \in Nat
  BY DEF TypeOK
<1>2. now' \in Nat /\ now <= now'
  BY <1>1, Frames DEF Tick
<1>3. CASE gen' = gen /\ stamp' = stamp /\ retired' = retired
  BY <1>2, <1>3 DEF Exact
<1>4. ASSUME NEW q \in Path, NEW announce \in BOOLEAN, HostApplies(q, announce)
      PROVE  /\ Exact' /\ now' = now
             /\ \/ gen'[p] = gen[p] /\ retired'[p] = retired[p]
                \/ gen'[p] = gen[p] + 1 /\ retired'[p] = [retired[p] EXCEPT ![gen[p]] = now]
  <2>1. /\ gen' = [gen EXCEPT ![q] = @ + 1] /\ retired' = [retired EXCEPT ![q][gen[q]] = now]
        /\ stamp' = [stamp EXCEPT ![q] = gen[q] + 1]
    BY <1>4 DEF HostApplies
  <2>2. Exact'
    BY <1>1, <2>1 DEF Exact
  <2>3. now' = now
    <3>1. gen'[q] = gen[q] + 1 /\ gen[q] \in Nat
      BY <1>1, <2>1, HostTypes
    <3>2. ~Tick
      BY <3>1 DEF Tick, hostVars
    <3>. QED
      BY <3>2, Frames
  <2>4. CASE q = p
    BY <1>1, <2>1, <2>2, <2>3, <2>4
  <2>5. CASE q # p
    BY <1>1, <2>1, <2>2, <2>3, <2>5
  <2>. QED
    BY <2>4, <2>5
<1>. QED
  BY <1>2, <1>3, <1>4, Frames

\* What was dated stays so.
LEMMA DatedStays ==
    ASSUME ~CoarseStamps, TypeOK, [Next]_vars, Exact, NEW p \in Path, NEW g, NEW w \in Int, Dated(p, g, w)
    PROVE  Dated(p, g, w)'
<1>1. /\ gen[p] \in Nat /\ gen[p] \in Gen /\ now \in Nat /\ g \in Nat /\ g \in 1 .. gen[p] /\ w <= now
      /\ retired[p] \in [Gen -> Nat]
  BY HostTypes DEF Dated
<1>2. g \in Gen
  BY <1>1, HostTypes
<1>3. now' \in Nat /\ now <= now'
  BY HostStep
<1>4. CASE gen'[p] = gen[p] /\ retired'[p] = retired[p]
  BY <1>1, <1>3, <1>4 DEF Dated, Fresh
<1>5. CASE /\ gen'[p] = gen[p] + 1 /\ retired'[p] = [retired[p] EXCEPT ![gen[p]] = now]
  <2>1. CASE g = gen[p]
    <3>1. retired'[p][g] = now
      BY <1>1, <1>5, <2>1
    <3>. QED
      BY <1>1, <1>3, <1>5, <2>1, <3>1 DEF Dated, Fresh
  <2>2. CASE g # gen[p]
    <3>1. retired'[p][g] = retired[p][g]
      BY <1>1, <1>2, <1>5, <2>2
    <3>2. retired[p][g] >= w
      BY <1>1, <2>2 DEF Dated, Fresh
    <3>. QED
      BY <1>1, <1>3, <1>5, <3>1, <3>2 DEF Dated, Fresh
  <2>. QED
    BY <2>1, <2>2
<1>. QED
  BY <1>4, <1>5, HostStep

LEMMA RetiringStays ==
    ASSUME ~CoarseStamps, TypeOK, [Next]_vars, Exact, Retiring
    PROVE  Retiring'
<1>. SUFFICES ASSUME NEW p \in Path, NEW b \in Gen, b < gen'[p]
              PROVE  /\ retired'[p][b] <= now'
                     /\ \A a \in Gen : a <= b => retired'[p][a] <= retired'[p][b]
  BY DEF Retiring
<1>1. /\ gen[p] \in Nat /\ gen[p] \in Gen /\ now \in Nat /\ retired[p] \in [Gen -> Nat]
      /\ \A g \in Gen : g \in Nat /\ retired[p][g] \in Nat
  BY HostTypes
<1>2. now' \in Nat /\ now <= now'
  BY HostStep
<1>3. \A c \in Gen : c < gen[p] =>
          retired[p][c] <= now /\ \A a \in Gen : a <= c => retired[p][a] <= retired[p][c]
  BY DEF Retiring
<1>4. CASE gen'[p] = gen[p] /\ retired'[p] = retired[p]
  BY <1>1, <1>2, <1>3, <1>4
<1>5. CASE /\ gen'[p] = gen[p] + 1 /\ retired'[p] = [retired[p] EXCEPT ![gen[p]] = now]
  <2>1. \A c \in Gen : retired'[p][c] = IF c = gen[p] THEN now ELSE retired[p][c]
    BY <1>1, <1>5
  <2>2. CASE b = gen[p]
    BY <1>1, <1>2, <1>3, <2>1, <2>2
  <2>3. CASE b < gen[p]
    BY <1>1, <1>2, <1>3, <2>1, <2>3
  <2>. QED
    BY <1>1, <1>5, <2>2, <2>3
<1>. QED
  BY <1>4, <1>5, HostStep

\* The steps of ensureVersion, by the version or the attribute they give the thread.
LEMMA ReaderMoves ==
    ASSUME TypeOK, NEW r \in Reader, ReaderStep(r)
    PROVE  \/ th'[r].pc \notin Versioned \cup {"metastore", "fhstore"}
           \/ /\ th'[r].h = th[r].h /\ th'[r].start = th[r].start
              /\ \/ /\ CheckHandleVersion(r) /\ th'[r].pc = "block" /\ th'[r].ver = fh[th[r].h].ver
                    /\ fh[th[r].h].haveVer /\ now - fh[th[r].h].verAt <= MetaTtl
                 \/ StoreHandleVersion(r) /\ th'[r].pc = "block" /\ th'[r].ver = th[r].att
                 \/ /\ AnswerGetattr(r) /\ th'[r].pc = "metastore" /\ th'[r].att = stamp[PathOf(r)]
                    /\ th'[r].since = now
                 \/ /\ LookupMeta(r) /\ th'[r].pc = "fhstore" /\ th'[r].att = meta[PathOf(r)].stamp
                    /\ meta[PathOf(r)].stamp # 0 /\ now - meta[PathOf(r)].at <= MetaTtl
                    /\ th'[r].since = now
                 \/ StoreMeta(r) /\ th'[r].pc = "fhstore" /\ th'[r].att = th[r].att /\ th'[r].since = now
                 \/ th[r].pc \in Versioned /\ th'[r].pc = "submit" /\ th'[r].ver = th[r].ver
<1>1. th \in [Thread -> ThreadState] /\ r \in Thread /\ th[r] \in ThreadState
  BY DEF TypeOK, Thread
<1>2. CASE CheckHandleVersion(r)
  <2>1. CASE th' = [th EXCEPT ![r] = [th[r] EXCEPT !.pc = "block", !.ver = fh[th[r].h].ver]]
             /\ VersionServes(fh[th[r].h])
    BY <1>1, <1>2, <2>1 DEF ThreadState, VersionServes
  <2>2. CASE th' = [th EXCEPT ![r] = [th[r] EXCEPT !.pc = "meta"]]
    BY <1>1, <2>2 DEF ThreadState, Versioned
  <2>. QED
    BY <1>1, <1>2, <2>1, <2>2 DEF CheckHandleVersion
<1>3. CASE LookupMeta(r)
  <2>1. CASE /\ th' = [th EXCEPT ![r] = [th[r] EXCEPT !.pc = "fhstore", !.att = meta[PathOf(r)].stamp,
                                                      !.since = now]]
             /\ meta[PathOf(r)].stamp # 0 /\ now - meta[PathOf(r)].at <= MetaTtl
    BY <1>1, <1>3, <2>1 DEF ThreadState
  <2>2. CASE th' = [th EXCEPT ![r] = [th[r] EXCEPT !.pc = "getattr"]]
    BY <1>1, <2>2 DEF ThreadState, Versioned
  <2>. QED
    BY <1>1, <1>3, <2>1, <2>2 DEF LookupMeta
<1>4. CASE AnswerGetattr(r)
  <2>1. th'[r] = [th[r] EXCEPT !.pc = "metastore", !.att = stamp[PathOf(r)], !.since = now]
    BY <1>1, <1>4 DEF AnswerGetattr
  <2>. QED
    BY <1>1, <1>4, <2>1 DEF ThreadState
<1>5. CASE FailGetattr(r)
  <2>1. th'[r] = [th[r] EXCEPT !.pc = "direct"]
    BY <1>1, <1>5 DEF FailGetattr
  <2>. QED
    BY <1>1, <2>1 DEF ThreadState, Versioned
<1>6. CASE StoreMeta(r)
  <2>1. th'[r] = [th[r] EXCEPT !.pc = "fhstore", !.since = now]
    BY <1>1, <1>6 DEF StoreMeta
  <2>. QED
    BY <1>1, <1>6, <2>1 DEF ThreadState
<1>7. CASE StoreHandleVersion(r)
  <2>1. th'[r] = [th[r] EXCEPT !.pc = "block", !.ver = th[r].att, !.att = 0, !.since = 0]
    BY <1>1, <1>7 DEF StoreHandleVersion
  <2>. QED
    BY <1>1, <1>7, <2>1 DEF ThreadState
<1>8. CASE AnswerDirect(r)
  <2>1. \/ th'[r] = [th[r] EXCEPT !.pc = "reply"]
        \/ th'[r] = [th[r] EXCEPT !.pc = "reply", !.got = {HostGen(th[r].h)}]
    BY <1>1, <1>8 DEF AnswerDirect
  <2>2. th'[r].pc = "reply"
    BY <1>1, <2>1 DEF ThreadState
  <2>. QED
    BY <2>2 DEF Versioned
<1>9. CASE Ahead(r) \/ Submit(r)
  <2>1. th[r].pc \in {"ahead", "submit"}
    BY <1>9 DEF Ahead, Submit, At
  <2>2. PICK pc \in {"submit", "reply"}, blocks \in SUBSET Index :
            Becomes(r, [th[r] EXCEPT !.ahead = blocks, !.pc = pc])
    BY <1>9, ReaderUpdates
  <2>3. th'[r] = [th[r] EXCEPT !.ahead = blocks, !.pc = pc]
    BY <1>1, <2>2 DEF Becomes
  <2>4. /\ th'[r].pc \in {"submit", "reply"}
        /\ th'[r].h = th[r].h /\ th'[r].start = th[r].start /\ th'[r].ver = th[r].ver
    BY <1>1, <2>3 DEF ThreadState
  <2>. QED
    BY <2>1, <2>4 DEF Versioned
<1>10. CASE Reply(r)
  <2>1. th'[r] = Idle
    BY <1>1, <1>10 DEF Reply
  <2>. QED
    BY <2>1 DEF Idle, Versioned
<1>. QED
  BY <1>2, <1>3, <1>4, <1>5, <1>6, <1>7, <1>8, <1>9, <1>10 DEF ReaderStep

\* A thread in blockFetch keeps its version.
LEMMA FetchMoves ==
    ASSUME TypeOK, NEW t \in Thread, FetchStep(t)
    PROVE  /\ th[t].pc \in Versioned
           /\ \/ th'[t].pc \notin Versioned \cup {"metastore", "fhstore"}
              \/ /\ th'[t].pc \in Versioned /\ th'[t].h = th[t].h /\ th'[t].start = th[t].start
                 /\ th'[t].ver = th[t].ver
<1>. DEFINE Same(s) == s.pc \in Versioned /\ s.h = th[t].h /\ s.start = th[t].start /\ s.ver = th[t].ver
            Past(s) == s.pc \notin Versioned \cup {"metastore", "fhstore"}
<1>1. th[t] \in ThreadState
  BY ThreadTypes
<1>2. th[t].pc \in Versioned
  BY DEF FetchStep, LookupBlock, BeginFetch, AnswerFetch, PutBlock, PutOutOfMemory, PutFailed, At, Versioned
<1>3. /\ \A pc \in {"wait", "begin", "fetch"} : Same([th[t] EXCEPT !.pc = pc])
      /\ \A d : Same([th[t] EXCEPT !.pc = "put", !.data = d])
      /\ Past([th[t] EXCEPT !.pc = "reply"]) /\ Past(Idle)
  BY <1>1 DEF ThreadState, Versioned, Idle
<1>4. ASSUME NEW g, Served(t, g) \in ThreadState
      PROVE  Same(Advance(Served(t, g), t)) \/ Past(Advance(Served(t, g), t))
  <2>1. PICK s \in ThreadState : s = Served(t, g)
    BY <1>4
  <2>2. s.h = th[t].h /\ s.start = th[t].start /\ s.ver = th[t].ver
    BY <1>1, <2>1 DEF Served, ThreadState
  <2>3. Same([s EXCEPT !.pc = "block", !.cur = s.cur + 1, !.data = 0])
        /\ Same([s EXCEPT !.pc = "ahead", !.data = 0])
    BY <2>2 DEF ThreadState, Versioned
  <2>. QED
    BY <1>3, <2>1, <2>3, AdvanceType
<1>. HIDE DEF Same, Past
<1>5. CASE LookupBlock(t)
  <2>1. PICK s : Becomes(t, s) /\ (Same(s) \/ Past(s))
    BY <1>3, <1>4, <1>5, FetchUpdates
  <2>. QED
    BY <1>2, <2>1, ThreadMoves DEF Same, Past
<1>6. CASE BeginFetch(t) \/ AnswerFetch(t)
  <2>1. PICK s : Becomes(t, s) /\ Same(s)
    BY <1>3, <1>6, FetchUpdates
  <2>. QED
    BY <1>2, <2>1, ThreadMoves DEF Same
<1>7. CASE PutBlock(t) \/ PutOutOfMemory(t) \/ PutFailed(t)
  <2>1. PICK s \in ThreadState : th' = WakeAll(t, s) /\ (Same(s) \/ Past(s))
    BY <1>3, <1>4, <1>7, FetchUpdates
  <2>. QED
    BY <1>2, <2>1, WakeAllType DEF Same, Past
<1>. QED
  BY <1>5, <1>6, <1>7 DEF FetchStep

\* Where a version comes from: the handle, an attribute, or the job.
LEMMA VersionStep ==
    ASSUME TypeOK, [Next]_vars, NEW t \in Thread, th'[t].pc \in Versioned
    PROVE  \/ /\ th[t].pc \in Versioned /\ th'[t].ver = th[t].ver /\ th'[t].h = th[t].h
              /\ th'[t].start = th[t].start
           \/ /\ t \in Reader /\ th'[t].h = th[t].h /\ th'[t].start = th[t].start
              /\ \/ /\ CheckHandleVersion(t) /\ th'[t].ver = fh[th[t].h].ver
                    /\ fh[th[t].h].haveVer /\ now - fh[th[t].h].verAt <= MetaTtl
                 \/ StoreHandleVersion(t) /\ th'[t].ver = th[t].att
           \/ /\ t \in Prefetcher /\ TakeJob(t) /\ th'[t].ver = Head(pool).ver
              /\ th'[t].h = Head(pool).h /\ th'[t].start = 0
<1>1. th[t] \in ThreadState
  BY ThreadTypes
<1>2. CASE th'[t] = th[t]
  BY <1>2
<1>3. CASE th[t].pc = "wait" /\ th'[t] = [th[t] EXCEPT !.pc = "block"]
  BY <1>1, <1>3 DEF ThreadState, Versioned
<1>4. ASSUME t \in Reader, NEW h \in Handle, NEW first \in Block, NEW last \in Block,
             StartRead(t, h, first, last)
      PROVE  FALSE
  <2>1. th'[t].pc \in {"direct", "ver"}
    BY <1>4 DEF StartRead, Idle, TypeOK
  <2>. QED
    BY <2>1 DEF Versioned
<1>5. CASE t \in Reader /\ ReaderStep(t)
  <2>1. th'[t].pc \notin {"metastore", "fhstore"}
    BY DEF Versioned
  <2>. QED
    BY <1>5, <2>1, ReaderMoves
<1>6. CASE FetchStep(t)
  BY <1>6, FetchMoves
<1>7. CASE t \in Prefetcher /\ TakeJob(t)
  <2>1. th'[t] = [Idle EXCEPT !.h = Head(pool).h, !.pc = "block", !.ver = Head(pool).ver,
                              !.cur = Head(pool).blk]
    BY <1>7, JobType, ThreadMoves
  <2>. QED
    BY <1>7, <2>1 DEF Idle
<1>. QED
  BY <1>2, <1>3, <1>4, <1>5, <1>6, <1>7, ThreadStep

\* Where an attribute on its way comes from: the host, or meta.
LEMMA AttributeStep ==
    ASSUME TypeOK, [Next]_vars, NEW t \in Thread, th'[t].pc \in {"metastore", "fhstore"}
    PROVE  \/ th'[t] = th[t]
           \/ /\ t \in Reader /\ th'[t].h = th[t].h /\ th'[t].start = th[t].start /\ th'[t].since = now
              /\ \/ AnswerGetattr(t) /\ th'[t].pc = "metastore" /\ th'[t].att = stamp[PathOf(t)]
                 \/ /\ LookupMeta(t) /\ th'[t].pc = "fhstore" /\ th'[t].att = meta[PathOf(t)].stamp
                    /\ meta[PathOf(t)].stamp # 0 /\ now - meta[PathOf(t)].at <= MetaTtl
                 \/ StoreMeta(t) /\ th'[t].pc = "fhstore" /\ th'[t].att = th[t].att
<1>1. th[t] \in ThreadState
  BY ThreadTypes
<1>2. th'[t].pc \notin Versioned
  BY DEF Versioned
<1>3. ~(th[t].pc = "wait" /\ th'[t] = [th[t] EXCEPT !.pc = "block"])
  BY <1>1 DEF ThreadState
<1>4. ASSUME t \in Reader, NEW h \in Handle, NEW first \in Block, NEW last \in Block,
             StartRead(t, h, first, last)
      PROVE  FALSE
  BY <1>4 DEF StartRead, Idle, TypeOK
<1>5. CASE t \in Reader /\ ReaderStep(t)
  <2>1. th'[t].pc \notin {"block", "submit"}
    OBVIOUS
  <2>. QED
    BY <1>5, <2>1, ReaderMoves
<1>6. ~FetchStep(t)
  BY <1>2, FetchMoves
<1>7. ~(t \in Prefetcher /\ TakeJob(t))
  <2>. SUFFICES ASSUME t \in Prefetcher, TakeJob(t) PROVE FALSE
    OBVIOUS
  <2>1. th'[t].pc = "block"
    BY DEF TakeJob, Idle, TypeOK
  <2>. QED
    BY <2>1
<1>. QED
  BY <1>3, <1>4, <1>5, <1>6, <1>7, ThreadStep

\* A handle gets a version only from a thread that stores it.
LEMMA HandleVersionStep ==
    ASSUME TypeOK, [Next]_vars, NEW h \in Handle, fh'[h].haveVer, fh'[h].st # "unused"
    PROVE  \/ /\ fh[h].st # "unused" /\ fh[h].haveVer
              /\ fh'[h].ver = fh[h].ver /\ fh'[h].verAt = fh[h].verAt
           \/ \E r \in Reader : /\ StoreHandleVersion(r) /\ h = th[r].h
                                /\ fh'[h].ver = th[r].att /\ fh'[h].verAt = now
<1>. DEFINE Same(f) == /\ f.st # "unused" => fh[h].st # "unused"
                       /\ f.haveVer => fh[h].haveVer
                       /\ f.ver = fh[h].ver /\ f.verAt = fh[h].verAt
<1>1. fh \in [Handle -> HandleState] /\ fh[h] \in HandleState
  BY DEF TypeOK
<1>2. /\ Same(fh[h])
      /\ \A v : Same([fh[h] EXCEPT !.pinned = v])
      /\ \A v, w, z : Same([fh[h] EXCEPT !.lastEnd = v, !.run = w, !.window = z])
      /\ \A v : Same([fh[h] EXCEPT !.active = v])
      /\ Same([fh[h] EXCEPT !.haveVer = FALSE])
      /\ fh[h].st # "unused" => \A v : Same([fh[h] EXCEPT !.st = v])
  BY <1>1 DEF HandleState
<1>3. Same(fh'[h]) => /\ fh[h].st # "unused" /\ fh[h].haveVer
                      /\ fh'[h].ver = fh[h].ver /\ fh'[h].verAt = fh[h].verAt
  OBVIOUS
<1>. HIDE DEF Same
<1>4. ASSUME NEW k, NEW g, fh' = [fh EXCEPT ![k] = g]
      PROVE  fh'[h] = fh[h] \/ (k = h /\ fh'[h] = g)
  BY <1>1, <1>4
<1>5. CASE fh' = fh
  BY <1>2, <1>3, <1>5
<1>6. ASSUME NEW p \in Path, RemoteReplace(p)
      PROVE  Same(fh'[h])
  BY <1>2, <1>6 DEF RemoteReplace
<1>7. ASSUME NEW k \in Handle, NEW p \in Path, Open(k, p)
      PROVE  Same(fh'[h])
  <2>1. fh'[h] = fh[h] \/ fh'[h] = [NoHandle(p) EXCEPT !.st = "open"]
    BY <1>4, <1>7 DEF Open
  <2>2. ~[NoHandle(p) EXCEPT !.st = "open"].haveVer
    BY DEF NoHandle
  <2>. QED
    BY <1>2, <2>1, <2>2
<1>8. ASSUME NEW k \in Handle, BeginClose(k) \/ Release(k)
      PROVE  Same(fh'[h])
  <2>1. PICK v : fh[k].st # "unused" /\ fh' = [fh EXCEPT ![k] = [fh[k] EXCEPT !.st = v]]
    BY <1>1, <1>8 DEF BeginClose, Release
  <2>2. CASE k = h
    <3>1. fh'[h] = [fh[h] EXCEPT !.st = v] /\ fh[h].st # "unused"
      BY <1>1, <2>1, <2>2
    <3>. QED
      BY <1>2, <3>1
  <2>3. CASE k # h
    <3>1. fh'[h] = fh[h]
      BY <1>1, <2>1, <2>3
    <3>. QED
      BY <1>2, <3>1
  <2>. QED
    BY <2>2, <2>3
<1>9. ASSUME NEW r \in Reader, StoreHandleVersion(r)
      PROVE  \/ Same(fh'[h])
             \/ h = th[r].h /\ fh'[h].ver = th[r].att /\ fh'[h].verAt = now
  <2>1. fh' = [fh EXCEPT ![th[r].h] = [fh[th[r].h] EXCEPT !.haveVer = TRUE, !.ver = th[r].att,
                                                          !.verAt = now]]
    BY <1>9 DEF StoreHandleVersion
  <2>2. CASE h = th[r].h
    <3>1. fh'[h] = [fh[h] EXCEPT !.haveVer = TRUE, !.ver = th[r].att, !.verAt = now]
      BY <1>1, <2>1, <2>2
    <3>. QED
      BY <1>1, <2>2, <3>1 DEF HandleState
  <2>3. CASE h # th[r].h
    BY <1>1, <1>2, <2>1, <2>3
  <2>. QED
    BY <2>2, <2>3
<1>10. ASSUME NEW r \in Reader, Ahead(r)
       PROVE  Same(fh'[h])
  <2>1. CASE fh' = fh
    BY <1>2, <2>1
  <2>2. ASSUME NEW v, NEW w, NEW z, fh' = [fh EXCEPT ![th[r].h] =
                            [fh[th[r].h] EXCEPT !.lastEnd = v, !.run = w, !.window = z]]
        PROVE  Same(fh'[h])
    <3>. DEFINE g == [fh[th[r].h] EXCEPT !.lastEnd = v, !.run = w, !.window = z]
    <3>1. th[r].h = h => Same(g)
      BY <1>2
    <3>2. fh' = [fh EXCEPT ![th[r].h] = g]
      BY <2>2
    <3>. HIDE DEF g
    <3>. QED
      BY <1>2, <1>4, <3>1, <3>2
  <2>3. \/ fh' = fh
        \/ \E v, w, z : fh' = [fh EXCEPT ![th[r].h] =
                            [fh[th[r].h] EXCEPT !.lastEnd = v, !.run = w, !.window = z]]
    BY <1>10, AheadType
  <2>. QED
    BY <2>1, <2>2, <2>3
<1>11. ASSUME NEW t \in Thread, BeginFetch(t) \/ AnswerFetch(t)
       PROVE  Same(fh'[h])
  <2>1. fh' = fh \/ \E v : fh' = [fh EXCEPT ![th[t].h] = [fh[th[t].h] EXCEPT !.active = v]]
    BY <1>1, <1>11 DEF BeginFetch, AnswerFetch, BeginRead, EndRead
  <2>2. ASSUME NEW v, fh' = [fh EXCEPT ![th[t].h] = [fh[th[t].h] EXCEPT !.active = v]]
        PROVE  Same(fh'[h])
    <3>. DEFINE g == [fh[th[t].h] EXCEPT !.active = v]
    <3>1. th[t].h = h => Same(g)
      BY <1>2
    <3>2. fh' = [fh EXCEPT ![th[t].h] = g]
      BY <2>2
    <3>. HIDE DEF g
    <3>. QED
      BY <1>2, <1>4, <3>1, <3>2
  <2>. QED
    BY <1>2, <2>1, <2>2
<1>12. ASSUME NEW m \in Mutator, ClearHandleVersions(m)
       PROVE  Same(fh'[h])
  BY <1>2, <1>12 DEF ClearHandleVersions
<1>. QED
  BY <1>3, <1>5, <1>6, <1>7, <1>8, <1>9, <1>10, <1>11, <1>12, Frames

\* An entry of meta is kept, erased, or stored by a thread.
LEMMA MetaStep ==
    ASSUME TypeOK, [Next]_vars, NEW p \in Path, meta'[p].stamp # 0
    PROVE  \/ meta'[p] = meta[p]
           \/ \E r \in Reader : StoreMeta(r) /\ p = PathOf(r) /\ meta'[p] = [stamp |-> th[r].att, at |-> now]
<1>1. meta \in [Path -> Attributes] /\ NoMeta.stamp = 0
  BY DEF TypeOK, NoMeta
<1>2. ASSUME NEW q, meta' = [meta EXCEPT ![q] = NoMeta]
      PROVE  meta'[p] = meta[p]
  BY <1>1, <1>2
<1>3. ASSUME NEW r \in Reader, LookupMeta(r)
      PROVE  meta'[p] = meta[p]
  BY <1>2, <1>3 DEF LookupMeta
<1>4. ASSUME NEW m \in Mutator, EraseMeta(m)
      PROVE  meta'[p] = meta[p]
  BY <1>2, <1>4 DEF EraseMeta
<1>5. ASSUME NEW r \in Reader, StoreMeta(r)
      PROVE  meta'[p] = meta[p] \/ (p = PathOf(r) /\ meta'[p] = [stamp |-> th[r].att, at |-> now])
  BY <1>1, <1>5 DEF StoreMeta
<1>. QED
  BY <1>3, <1>4, <1>5, Frames

\* A queued job was queued before, or is the present read's.
LEMMA PoolStep ==
    ASSUME TypeOK, [Next]_vars, NEW i \in 1 .. Len(pool')
    PROVE  \/ \E j \in 1 .. Len(pool) : pool'[i] = pool[j]
           \/ \E r \in Reader : Submit(r) /\ pool'[i].h = th[r].h /\ pool'[i].ver = th[r].ver
<1>1. CASE pool' = pool
  BY <1>1
<1>2. ASSUME NEW f \in Prefetcher, TakeJob(f)
      PROVE  \E j \in 1 .. Len(pool) : pool'[i] = pool[j]
  <2>1. pool \in Seq(Job) /\ pool # <<>> /\ pool' = Tail(pool)
    BY <1>2 DEF TakeJob, TypeOK
  <2>2. i + 1 \in 1 .. Len(pool) /\ pool'[i] = pool[i + 1]
    BY <2>1
  <2>. QED
    BY <2>2
<1>. QED
  BY <1>1, <1>2, SubmitType, Frames

LEMMA TaggedFile ==
    /\ \A n : Tagged(NoFile, n)
    /\ \A f \in FileState : \A n \in Nat, m \in Nat : Tagged(f, n) /\ n <= m => Tagged(f, m)
<1>1. \A n : Tagged(NoFile, n)
  BY DEF Tagged, NoFile
<1>2. ASSUME NEW f \in FileState, NEW n \in Nat, NEW m \in Nat, Tagged(f, n), n <= m
      PROVE  Tagged(f, m)
  BY <1>2 DEF Tagged, FileState, Stamp
<1>. QED
  BY <1>1, <1>2

LEMMA CurrentTagged ==
    ASSUME NEW f \in [Path -> FileState], NEW p \in Path, NEW ver, NEW q \in Path, NEW n, Tagged(f[q], n)
    PROVE  /\ Current(f, p, ver) \in [Path -> FileState] /\ Tagged(Current(f, p, ver)[q], n)
           /\ Current(f, p, ver)[p] = NoFile \/ Current(f, p, ver)[p].tag \in {0, ver}
  BY PurgeType, TaggedFile DEF Current

LEMMA InsertTagged ==
    ASSUME NEW f \in [Path -> FileState], NEW p \in Path, NEW ver \in Stamp, NEW b \in Index,
           NEW d \in 0 .. MaxGen, NEW q \in Path, NEW n \in Nat, Tagged(f[q], n),
           q = p => ver # 0 /\ d \in ver .. n
    PROVE  Tagged(Insert(f, p, ver, b, d)[q], n)
<1>. DEFINE f1 == Current(f, p, ver)
            g == [tag |-> ver, blk |-> [f1[p].blk EXCEPT ![b] = d]]
<1>1. /\ f1 \in [Path -> FileState] /\ Tagged(f1[q], n)
      /\ f1[p] = NoFile \/ f1[p].tag \in {0, ver}
  BY CurrentTagged
<1>2. f1[p] \in FileState /\ f1[p].blk \in [Index -> 0 .. MaxGen]
  BY <1>1 DEF FileState
<1>3. g.tag = ver /\ g.blk[b] = d /\ \A c \in Index : c # b => g.blk[c] = f1[p].blk[c]
  BY <1>2
<1>. HIDE DEF f1, g
<1>4. Insert(f, p, ver, b, d) = IF f1[p].blk[b] # 0 THEN f1 ELSE [f1 EXCEPT ![p] = g]
  BY DEF Insert, f1, g
<1>5. CASE q = p
  <2>1. ASSUME NEW c \in Index, g.blk[c] # 0
        PROVE  g.tag # 0 /\ g.blk[c] \in g.tag .. n
    <3>1. CASE c = b
      BY <1>3, <1>5, <3>1
    <3>2. CASE c # b
      <4>1. f1[p].blk[c] # 0 /\ g.blk[c] = f1[p].blk[c]
        BY <1>3, <2>1, <3>2
      <4>2. f1[p].tag # 0 /\ f1[p].blk[c] \in f1[p].tag .. n
        BY <1>1, <1>5, <4>1 DEF Tagged
      <4>3. f1[p].tag = ver
        BY <1>1, <4>2 DEF NoFile
      <4>. QED
        BY <1>3, <1>5, <4>1, <4>2, <4>3
    <3>. QED
      BY <3>1, <3>2
  <2>2. Tagged(g, n)
    BY <2>1 DEF Tagged
  <2>. QED
    BY <1>1, <1>4, <1>5, <2>2
<1>6. CASE q # p
  BY <1>1, <1>4, <1>6
<1>. QED
  BY <1>5, <1>6

LEMMA DropTagged ==
    ASSUME NEW f \in [Path -> FileState], NEW v, NEW q \in Path, NEW n, Tagged(f[q], n)
    PROVE  Tagged(Drop(f, v)[q], n)
<1>. DEFINE left == [b \in Index |-> IF <<q, b>> \in v THEN 0 ELSE f[q].blk[b]]
            g == [f[q] EXCEPT !.blk = left]
<1>1. f[q] \in FileState
  OBVIOUS
<1>2. \A c \in Index : left[c] \in {0, f[q].blk[c]}
  OBVIOUS
<1>. HIDE DEF left
<1>3. g.blk = left /\ g.tag = f[q].tag
  BY <1>1 DEF FileState
<1>. HIDE DEF g
<1>4. Drop(f, v)[q] = NoFile \/ Drop(f, v)[q] = g
  BY DEF Drop, g, left
<1>5. Tagged(g, n)
  BY <1>2, <1>3 DEF Tagged
<1>. QED
  BY <1>4, <1>5, TaggedFile

LEMMA VersionsStay ==
    ASSUME ~CoarseStamps, TypeOK, HandlesInUse, DatedInv, [Next]_vars
    PROVE  VersionsDated'
<1>. SUFFICES ASSUME NEW t \in Thread, th'[t].pc \in Versioned
              PROVE  Dated(PathOf(t), th[t].ver, th[t].start - StaleBound)'
  BY DEF VersionsDated
<1>1. /\ Exact /\ Retiring /\ HandlesDated /\ Begun /\ InTime /\ AttributesDated /\ VersionsDated /\ JobsDated
      /\ MetaTtl \in Nat /\ Latency \in Nat /\ StaleBound = 2 * MetaTtl + 2 * Latency /\ now \in Nat
  BY StaleBoundType DEF DatedInv, StaleBound, TypeOK
<1>2. ASSUME NEW p \in Path, NEW v, NEW w \in Int, p = PathOf(t)', v = th'[t].ver, w = th'[t].start - StaleBound,
             Dated(p, v, w)
      PROVE  Dated(PathOf(t), th[t].ver, th[t].start - StaleBound)'
  <2>1. Dated(p, v, w)'
    BY <1>1, <1>2, DatedStays
  <2>. QED
    BY <1>2, <2>1 DEF Dated, Fresh
<1>3. ASSUME th[t].pc # "idle", th'[t].h = th[t].h, th'[t].start = th[t].start, NEW w \in Int,
             th[t].start - StaleBound <= w, Dated(PathOf(t), th'[t].ver, w)
      PROVE  Dated(PathOf(t), th[t].ver, th[t].start - StaleBound)'
  <2>1. PICK p, v : p \in Path /\ p = PathOf(t) /\ v = th'[t].ver
    BY ThreadTypes
  <2>2. PICK x \in Int : x = th[t].start - StaleBound
    BY <1>1, ThreadTypes
  <2>3. p \in Path /\ gen[p] \in Nat /\ v \in 1 .. gen[p] /\ Dated(p, v, w)
    BY <1>3, <2>1, HostTypes DEF Dated
  <2>4. Retiring /\ v \in v .. gen[p] /\ x <= w
    BY <1>1, <1>3, <2>2, <2>3
  <2>5. p = PathOf(t)'
    BY <1>3, <2>1, KeyKept
  <2>6. Dated(p, v, x)
    BY <2>3, <2>4, NewerIsFresh
  <2>. QED
    BY <1>2, <1>3, <2>1, <2>2, <2>5, <2>6
<1>4. th[t].start \in Nat /\ th[t].since \in Nat /\ th[t].h \in Handle /\ fh[th[t].h].verAt \in Nat
  BY ThreadTypes DEF HandleState
<1>5. CASE /\ th[t].pc \in Versioned /\ th'[t].ver = th[t].ver /\ th'[t].h = th[t].h
           /\ th'[t].start = th[t].start
  <2>1. th[t].pc # "idle" /\ th[t].start - StaleBound \in Int
    BY <1>1, <1>4, <1>5 DEF Versioned
  <2>. QED
    BY <1>1, <1>3, <1>5, <2>1 DEF VersionsDated
<1>6. CASE /\ CheckHandleVersion(t) /\ th'[t].ver = fh[th[t].h].ver /\ th'[t].h = th[t].h
           /\ th'[t].start = th[t].start
           /\ fh[th[t].h].haveVer /\ now - fh[th[t].h].verAt <= MetaTtl
  <2>1. th[t].pc # "idle" /\ fh[th[t].h].st # "unused" /\ th[t].start <= now
    BY <1>1, <1>6 DEF CheckHandleVersion, At, HandlesInUse, Begun
  <2>2. Dated(PathOf(t), th'[t].ver, fh[th[t].h].verAt - MetaTtl - 2 * Latency)
    BY <1>1, <1>4, <1>6, <2>1 DEF HandlesDated, PathOf
  <2>3. /\ fh[th[t].h].verAt - MetaTtl - 2 * Latency \in Int
        /\ th[t].start - StaleBound <= fh[th[t].h].verAt - MetaTtl - 2 * Latency
    BY <1>1, <1>4, <1>6, <2>1
  <2>. QED
    BY <1>3, <1>6, <2>1, <2>2, <2>3
<1>7. CASE /\ StoreHandleVersion(t) /\ th'[t].ver = th[t].att /\ th'[t].h = th[t].h
           /\ th'[t].start = th[t].start
  <2>1. th[t].pc = "fhstore"
    BY <1>7 DEF StoreHandleVersion, At
  <2>2. /\ Dated(PathOf(t), th'[t].ver, th[t].since - MetaTtl - Latency)
        /\ th[t].start <= th[t].since
    BY <1>1, <1>7, <2>1 DEF AttributesDated, InTime, InTransit, At
  <2>3. /\ th[t].since - MetaTtl - Latency \in Int
        /\ th[t].start - StaleBound <= th[t].since - MetaTtl - Latency
    BY <1>1, <1>4, <2>2
  <2>. QED
    BY <1>3, <1>7, <2>1, <2>2, <2>3
<1>8. CASE /\ t \in Prefetcher /\ TakeJob(t) /\ th'[t].ver = Head(pool).ver
           /\ th'[t].h = Head(pool).h /\ th'[t].start = 0
  <2>9. pool \in Seq(Job) /\ pool # <<>> /\ fh \in [Handle -> HandleState] /\ fh' = fh
    BY <1>8 DEF TakeJob, TypeOK
  <2>1. Head(pool) = pool[1] /\ 1 \in 1 .. Len(pool) /\ Head(pool) \in Job
    BY <2>9
  <2>2. Head(pool) \in Job /\ Head(pool).h \in Handle
    BY <2>1 DEF Job
  <2>3. fh[Head(pool).h].path \in Path
    BY <2>2, <2>9 DEF HandleState
  <2>4. PICK p, v : p \in Path /\ p = fh[Head(pool).h].path /\ v = Head(pool).ver
    BY <2>3
  <2>5. p = PathOf(t)' /\ v = th'[t].ver
    BY <1>8, <2>4, <2>9 DEF PathOf
  <2>6. p \in Path /\ v \in 1 .. gen[p]
    BY <1>1, <2>1, <2>4 DEF JobsDated
  <2>7. PICK w \in Int : w = 0 - StaleBound /\ w <= 0
    <3>1. StaleBound \in Nat
      BY StaleBoundType
    <3>. QED
      BY <3>1
  <2>8. Dated(p, v, w)
    BY <2>6, <2>7, OldIsFresh
  <2>. QED
    BY <1>2, <1>8, <2>5, <2>6, <2>7, <2>8
<1>. QED
  BY <1>5, <1>6, <1>7, <1>8, VersionStep

LEMMA AttributesStay ==
    ASSUME ~CoarseStamps, TypeOK, HandlesInUse, DatedInv, [Next]_vars
    PROVE  AttributesDated' /\ InTime'
<1>1. /\ Exact /\ Retiring /\ MetaDated /\ Begun /\ InTime /\ AttributesDated
      /\ MetaTtl \in Nat /\ Latency \in Nat /\ now \in Nat /\ now' \in Nat /\ now <= now'
  <2>1. now \in Nat /\ (now' = now \/ now' = now + 1)
    BY Frames DEF TypeOK, Tick
  <2>. QED
    BY <2>1, StaleBoundType DEF DatedInv
<1>. SUFFICES ASSUME NEW t \in Thread, th'[t].pc \in {"metastore", "fhstore"}
              PROVE  /\ th'[t].pc = "metastore" => Dated(PathOf(t), th[t].att, th[t].since)'
                     /\ th'[t].pc = "fhstore" => Dated(PathOf(t), th[t].att, th[t].since - MetaTtl - Latency)'
                     /\ th'[t].start <= th'[t].since /\ th'[t].since <= now' /\ now' <= th'[t].since + Latency
  BY DEF AttributesDated, InTime, InTransit, At
<1>2. th[t].start \in Nat /\ th[t].since \in Nat /\ PathOf(t) \in Path /\ gen[PathOf(t)] \in Nat
  BY ThreadTypes, HostTypes
<1>3. ASSUME th[t].pc # "idle", th'[t].h = th[t].h, th'[t].since \in Nat,
             NEW w \in Int, Dated(PathOf(t), th'[t].att, w),
             IF th'[t].pc = "metastore" THEN th'[t].since <= w ELSE th'[t].since - MetaTtl - Latency <= w
      PROVE  /\ th'[t].pc = "metastore" => Dated(PathOf(t), th[t].att, th[t].since)'
             /\ th'[t].pc = "fhstore" => Dated(PathOf(t), th[t].att, th[t].since - MetaTtl - Latency)'
  <2>1. PICK p, a : p \in Path /\ p = PathOf(t) /\ a = th'[t].att
    BY <1>2
  <2>2. PICK x \in Int : x = (IF th'[t].pc = "metastore" THEN th'[t].since ELSE th'[t].since - MetaTtl - Latency)
                         /\ x <= w
    BY <1>1, <1>3
  <2>3. p \in Path /\ gen[p] \in Nat /\ a \in 1 .. gen[p] /\ Dated(p, a, w)
    BY <1>2, <1>3, <2>1, HostTypes DEF Dated
  <2>4. Retiring /\ x <= w
    BY <1>1, <2>2
  <2>5. a \in a .. gen[p]
    BY <2>3
  <2>6. Dated(p, a, x)
    BY <2>3, <2>4, <2>5, NewerIsFresh
  <2>7. Dated(p, a, x)'
    BY <1>1, <2>3, <2>6, DatedStays
  <2>8. p = PathOf(t)'
    BY <1>3, <2>1, KeyKept
  <2>. QED
    BY <2>1, <2>2, <2>7, <2>8 DEF Dated, Fresh
<1>4. CASE th'[t] = th[t]
  <2>1. th[t].pc # "idle" /\ InTransit(t)
    BY <1>4 DEF InTransit, At
  <2>2. th[t].start <= th[t].since /\ th[t].since <= now /\ now <= th[t].since + Latency
    BY <1>1, <2>1 DEF InTime
  <2>3. now' <= th[t].since + Latency
    <3>1. CASE now' = now
      BY <2>2, <3>1
    <3>2. CASE Tick
      BY <1>1, <1>2, <2>1, <3>2 DEF Tick
    <3>. QED
      BY <3>1, <3>2, Frames
  <2>4. CASE th[t].pc = "metastore"
    <3>1. Dated(PathOf(t), th'[t].att, th[t].since)
      BY <1>1, <1>4, <2>4 DEF AttributesDated
    <3>. QED
      BY <1>1, <1>2, <1>3, <1>4, <2>1, <2>2, <2>3, <2>4, <3>1
  <2>5. CASE th[t].pc = "fhstore"
    <3>1. Dated(PathOf(t), th'[t].att, th[t].since - MetaTtl - Latency)
      BY <1>1, <1>4, <2>5 DEF AttributesDated
    <3>2. th[t].since - MetaTtl - Latency \in Int
      BY <1>1, <1>2
    <3>. QED
      BY <1>1, <1>2, <1>3, <1>4, <2>1, <2>2, <2>3, <2>5, <3>1, <3>2
  <2>. QED
    BY <1>4, <2>4, <2>5
<1>5. ASSUME /\ t \in Reader /\ th'[t].h = th[t].h /\ th'[t].start = th[t].start /\ th'[t].since = now
             /\ \/ AnswerGetattr(t) /\ th'[t].pc = "metastore" /\ th'[t].att = stamp[PathOf(t)]
                \/ /\ LookupMeta(t) /\ th'[t].pc = "fhstore" /\ th'[t].att = meta[PathOf(t)].stamp
                   /\ meta[PathOf(t)].stamp # 0 /\ now - meta[PathOf(t)].at <= MetaTtl
                \/ StoreMeta(t) /\ th'[t].pc = "fhstore" /\ th'[t].att = th[t].att
      PROVE  /\ th'[t].pc = "metastore" => Dated(PathOf(t), th[t].att, th[t].since)'
             /\ th'[t].pc = "fhstore" => Dated(PathOf(t), th[t].att, th[t].since - MetaTtl - Latency)'
             /\ th'[t].start <= th'[t].since /\ th'[t].since <= now' /\ now' <= th'[t].since + Latency
  <2>1. th[t].pc # "idle" /\ th[t].start <= now /\ now' = now
    BY <1>1, <1>5 DEF AnswerGetattr, LookupMeta, StoreMeta, At, Begun
  <2>2. th'[t].start <= th'[t].since /\ th'[t].since <= now' /\ now' <= th'[t].since + Latency
    BY <1>1, <1>5, <2>1
  <2>3. CASE AnswerGetattr(t) /\ th'[t].pc = "metastore" /\ th'[t].att = stamp[PathOf(t)]
    <3>1. Dated(PathOf(t), th'[t].att, now)
      BY <1>1, <1>2, <2>3, PresentIsFresh DEF Exact
    <3>. QED
      BY <1>1, <1>3, <1>5, <2>1, <2>2, <2>3, <3>1
  <2>4. CASE /\ LookupMeta(t) /\ th'[t].pc = "fhstore" /\ th'[t].att = meta[PathOf(t)].stamp
             /\ meta[PathOf(t)].stamp # 0 /\ now - meta[PathOf(t)].at <= MetaTtl
    <3>1. Dated(PathOf(t), th'[t].att, meta[PathOf(t)].at - Latency) /\ meta[PathOf(t)].at \in Nat
      BY <1>1, <1>2, <2>4 DEF MetaDated, TypeOK, Attributes
    <3>2. meta[PathOf(t)].at - Latency \in Int /\ now - MetaTtl - Latency <= meta[PathOf(t)].at - Latency
      BY <1>1, <2>4, <3>1
    <3>. QED
      BY <1>1, <1>3, <1>5, <2>1, <2>2, <2>4, <3>1, <3>2
  <2>5. CASE StoreMeta(t) /\ th'[t].pc = "fhstore" /\ th'[t].att = th[t].att
    <3>1. th[t].pc = "metastore"
      BY <2>5 DEF StoreMeta, At
    <3>2. Dated(PathOf(t), th'[t].att, th[t].since) /\ now <= th[t].since + Latency
      BY <1>1, <2>5, <3>1 DEF AttributesDated, InTime, InTransit, At
    <3>3. th[t].since \in Int /\ now - MetaTtl - Latency <= th[t].since
      BY <1>1, <1>2, <3>2
    <3>. QED
      BY <1>1, <1>3, <1>5, <2>1, <2>2, <2>5, <3>2, <3>3
  <2>. QED
    BY <1>5, <2>3, <2>4, <2>5
<1>. QED
  BY <1>4, <1>5, AttributeStep

LEMMA MetaStays ==
    ASSUME ~CoarseStamps, TypeOK, HandlesInUse, DatedInv, [Next]_vars
    PROVE  MetaDated'
<1>. SUFFICES ASSUME NEW p \in Path, meta'[p].stamp # 0
              PROVE  Dated(p, meta[p].stamp, meta[p].at - Latency)'
  BY DEF MetaDated
<1>1. /\ Exact /\ Retiring /\ MetaDated /\ InTime /\ AttributesDated
      /\ Latency \in Nat /\ now \in Nat /\ gen[p] \in Nat
  BY StaleBoundType, HostTypes DEF DatedInv
<1>2. ASSUME NEW s, NEW w \in Int, s = meta'[p].stamp, w = meta'[p].at - Latency, Dated(p, s, w)
      PROVE  Dated(p, meta[p].stamp, meta[p].at - Latency)'
  <2>1. Dated(p, s, w)'
    BY <1>1, <1>2, DatedStays
  <2>. QED
    BY <1>2, <2>1 DEF Dated, Fresh
<1>3. CASE meta'[p] = meta[p]
  <2>1. meta[p].at \in Nat /\ meta[p].stamp # 0
    BY <1>3 DEF TypeOK, Attributes
  <2>2. meta[p].at - Latency \in Int
    BY <1>1, <2>1
  <2>3. Dated(p, meta[p].stamp, meta[p].at - Latency)
    BY <1>1, <2>1 DEF MetaDated
  <2>. QED
    BY <1>2, <1>3, <2>2, <2>3
<1>4. ASSUME NEW r \in Reader, StoreMeta(r), p = PathOf(r), meta'[p] = [stamp |-> th[r].att, at |-> now]
      PROVE  Dated(p, meta[p].stamp, meta[p].at - Latency)'
  <2>1. r \in Thread /\ th[r].pc = "metastore" /\ th[r].since \in Nat
    BY <1>4, ThreadTypes DEF Thread, StoreMeta, At
  <2>2. Dated(p, th[r].att, th[r].since) /\ now <= th[r].since + Latency
    BY <1>1, <1>4, <2>1 DEF AttributesDated, InTime, InTransit, At
  <2>3. th[r].att \in th[r].att .. gen[p]
    BY <1>1, <2>2 DEF Dated
  <2>4. now - Latency \in Int /\ now - Latency <= th[r].since
    BY <1>1, <2>1, <2>2
  <2>5. Dated(p, th[r].att, now - Latency)
    BY <1>1, <2>1, <2>2, <2>3, <2>4, NewerIsFresh
  <2>6. meta'[p].stamp = th[r].att /\ meta'[p].at - Latency = now - Latency
    BY <1>4
  <2>. QED
    BY <1>2, <2>4, <2>5, <2>6
<1>. QED
  BY <1>3, <1>4, MetaStep

LEMMA HandlesStay ==
    ASSUME ~CoarseStamps, TypeOK, HandlesInUse, DatedInv, [Next]_vars
    PROVE  HandlesDated'
<1>. SUFFICES ASSUME NEW h \in Handle, fh'[h].st # "unused", fh'[h].haveVer
              PROVE  Dated(fh[h].path, fh[h].ver, fh[h].verAt - MetaTtl - 2 * Latency)'
  BY DEF HandlesDated
<1>1. /\ Exact /\ Retiring /\ HandlesDated /\ InTime /\ AttributesDated
      /\ MetaTtl \in Nat /\ Latency \in Nat /\ now \in Nat
  BY StaleBoundType DEF DatedInv, TypeOK
<1>2. ASSUME fh[h].st # "unused", NEW p \in Path, NEW v, NEW w \in Int, p = fh[h].path, v = fh'[h].ver,
             w = fh'[h].verAt - MetaTtl - 2 * Latency, Dated(p, v, w)
      PROVE  Dated(fh[h].path, fh[h].ver, fh[h].verAt - MetaTtl - 2 * Latency)'
  <2>1. Dated(p, v, w)'
    BY <1>1, <1>2, DatedStays
  <2>2. fh'[h].path = p
    BY <1>2, HandleStep
  <2>. QED
    BY <1>2, <2>1, <2>2 DEF Dated, Fresh
<1>3. CASE /\ fh[h].st # "unused" /\ fh[h].haveVer
           /\ fh'[h].ver = fh[h].ver /\ fh'[h].verAt = fh[h].verAt
  <2>1. fh[h] \in HandleState
    BY DEF TypeOK
  <2>2. fh[h].path \in Path /\ fh[h].verAt \in Nat
    BY <2>1 DEF HandleState
  <2>3. fh[h].verAt - MetaTtl - 2 * Latency \in Int
    BY <1>1, <2>2
  <2>4. Dated(fh[h].path, fh[h].ver, fh[h].verAt - MetaTtl - 2 * Latency)
    BY <1>1, <1>3 DEF HandlesDated
  <2>. QED
    BY <1>2, <1>3, <2>2, <2>3, <2>4
<1>4. ASSUME NEW r \in Reader, StoreHandleVersion(r), h = th[r].h, fh'[h].ver = th[r].att, fh'[h].verAt = now
      PROVE  Dated(fh[h].path, fh[h].ver, fh[h].verAt - MetaTtl - 2 * Latency)'
  <2>1. r \in Thread /\ th[r].pc = "fhstore"
    BY <1>4 DEF Thread, StoreHandleVersion, At
  <2>2. /\ th[r].since \in Nat /\ PathOf(r) \in Path /\ gen[PathOf(r)] \in Nat
        /\ PathOf(r) = fh[h].path /\ fh[h].st # "unused"
    BY <1>4, <2>1, ThreadTypes, HostTypes DEF HandlesInUse, PathOf
  <2>3. /\ Dated(PathOf(r), th[r].att, th[r].since - MetaTtl - Latency)
        /\ now <= th[r].since + Latency
    BY <1>1, <2>1 DEF AttributesDated, InTime, InTransit, At
  <2>4. th[r].att \in th[r].att .. gen[PathOf(r)]
    BY <2>2, <2>3 DEF Dated
  <2>5. /\ now - MetaTtl - 2 * Latency \in Int /\ th[r].since - MetaTtl - Latency \in Int
        /\ now - MetaTtl - 2 * Latency <= th[r].since - MetaTtl - Latency
    BY <1>1, <2>2, <2>3
  <2>6. Dated(PathOf(r), th[r].att, now - MetaTtl - 2 * Latency)
    BY <1>1, <2>2, <2>3, <2>4, <2>5, NewerIsFresh
  <2>. QED
    BY <1>2, <1>4, <2>2, <2>5, <2>6
<1>. QED
  BY <1>3, <1>4, HandleVersionStep

LEMMA BegunStays ==
    ASSUME TypeOK, Begun, [Next]_vars
    PROVE  Begun'
<1>. SUFFICES ASSUME NEW t \in Thread, th'[t].pc # "idle" PROVE th'[t].start <= now'
  BY DEF Begun
<1>1. now \in Nat /\ (now' = now \/ now' = now + 1) /\ th[t].start \in Nat
  BY Frames, ThreadTypes DEF TypeOK, Tick
<1>2. CASE th[t].pc # "idle" /\ th'[t].start = th[t].start
  BY <1>1, <1>2 DEF Begun
<1>3. ASSUME t \in Reader, NEW h \in Handle, NEW first \in Block, NEW last \in Block,
             StartRead(t, h, first, last)
      PROVE  th'[t].start = now
  BY <1>3 DEF StartRead, Idle, TypeOK
<1>4. CASE t \in Prefetcher /\ TakeJob(t)
  <2>1. th'[t].start = 0
    BY <1>4 DEF TakeJob, Idle, TypeOK
  <2>. QED
    BY <1>1, <2>1
<1>5. CASE \/ th[t].pc = "wait" /\ th'[t] = [th[t] EXCEPT !.pc = "block"]
           \/ t \in Reader /\ ReaderStep(t)
           \/ FetchStep(t)
  BY <1>2, <1>5, KeepsHandle
<1>6. CASE th'[t] = th[t]
  BY <1>2, <1>6
<1>7. CASE t \in Reader /\ \E h \in Handle, first, last \in Block : StartRead(t, h, first, last)
  <2>1. th'[t].start = now
    BY <1>3, <1>7
  <2>. QED
    BY <1>1, <2>1
<1>. QED
  BY <1>4, <1>5, <1>6, <1>7, ThreadStep

LEMMA JobsStay ==
    ASSUME TypeOK, HandlesInUse, VersionsDated, JobsDated, [Next]_vars
    PROVE  JobsDated'
<1>. SUFFICES ASSUME NEW i \in 1 .. Len(pool')
              PROVE  pool'[i].ver \in 1 .. gen'[fh'[pool'[i].h].path]
  BY DEF JobsDated
<1>1. ASSUME NEW h \in Handle, fh[h].st # "unused", NEW v \in 1 .. gen[fh[h].path]
      PROVE  v \in 1 .. gen'[fh'[h].path]
  <2>1. fh[h].path \in Path
    BY DEF TypeOK, HandleState
  <2>2. fh'[h].path = fh[h].path
    BY <1>1, HandleStep
  <2>. QED
    BY <2>1, <2>2, HostMonotone
<1>2. ASSUME NEW j \in 1 .. Len(pool), pool'[i] = pool[j]
      PROVE  pool'[i].ver \in 1 .. gen'[fh'[pool'[i].h].path]
  <2>1. pool[j] \in Job
    BY DEF TypeOK
  <2>2. pool[j].h \in Handle /\ fh[pool[j].h].st # "unused" /\ pool[j].ver \in 1 .. gen[fh[pool[j].h].path]
    BY <2>1 DEF Job, HandlesInUse, JobsDated
  <2>. QED
    BY <1>1, <1>2, <2>2
<1>3. ASSUME NEW r \in Reader, Submit(r), pool'[i].h = th[r].h, pool'[i].ver = th[r].ver
      PROVE  pool'[i].ver \in 1 .. gen'[fh'[pool'[i].h].path]
  <2>1. r \in Thread /\ th[r].pc = "submit"
    BY <1>3 DEF Thread, Submit, At
  <2>2. th[r].h \in Handle /\ fh[th[r].h].st # "unused" /\ th[r].ver \in 1 .. gen[fh[th[r].h].path]
    BY <2>1, ThreadTypes DEF HandlesInUse, VersionsDated, Versioned, Dated, PathOf
  <2>. QED
    BY <1>1, <1>3, <2>2
<1>. QED
  BY <1>2, <1>3, PoolStep

LEMMA AnswerIsPresent ==
    ASSUME TypeOK, HandlesInUse, NoPins, NEW t \in Thread, th[t].pc # "idle"
    PROVE  HostGen(th[t].h) = gen[PathOf(t)]
<1>1. th[t].h \in Handle /\ fh[th[t].h].st # "unused"
  BY ThreadTypes DEF HandlesInUse
<1>. QED
  BY <1>1 DEF NoPins, HostGen, PathOf

LEMMA PutsStay ==
    ASSUME TypeOK, HandlesInUse, NoPins, VersionsDated, PutsDated, [Next]_vars
    PROVE  PutsDated'
<1>. SUFFICES ASSUME NEW t \in Thread, th'[t].pc = "put", th'[t].data # 0
              PROVE  th'[t].data \in th'[t].ver .. gen'[PathOf(t)']
  BY DEF PutsDated
<1>1. /\ PathOf(t) \in Path /\ gen[PathOf(t)] \in Nat /\ gen'[PathOf(t)] \in Nat
      /\ gen[PathOf(t)] <= gen'[PathOf(t)] /\ th[t].ver \in Nat
  BY ThreadTypes, HostMonotone, BlockCacheAssumption DEF Stamp
<1>2. CASE th'[t] = th[t]
  <2>1. PathOf(t)' = PathOf(t)
    BY <1>2, KeyKept
  <2>2. th[t].data \in th[t].ver .. gen[PathOf(t)]
    BY <1>2 DEF PutsDated
  <2>. QED
    BY <1>1, <1>2, <2>1, <2>2
<1>3. CASE /\ AnswerFetch(t) /\ th[t].pc = "fetch" /\ th'[t].h = th[t].h
           /\ th'[t].ver = th[t].ver /\ th'[t].data = HostGen(th[t].h)
  <2>1. PathOf(t)' = PathOf(t) /\ HostGen(th[t].h) = gen[PathOf(t)]
    BY <1>3, KeyKept, AnswerIsPresent
  <2>2. th[t].ver \in 1 .. gen[PathOf(t)]
    BY <1>3 DEF VersionsDated, Versioned, Dated
  <2>. QED
    BY <1>1, <1>3, <2>1, <2>2
<1>. QED
  BY <1>2, <1>3, DataStep

LEMMA FilesStay ==
    ASSUME TypeOK, VersionsDated, PutsDated, FilesTagged, [Next]_vars
    PROVE  FilesTagged'
<1>. SUFFICES ASSUME NEW p \in Path PROVE Tagged(files'[p], gen'[p])
  BY DEF FilesTagged
<1>1. /\ files \in [Path -> FileState] /\ files'[p] \in FileState
      /\ gen[p] \in Nat /\ gen'[p] \in Nat /\ gen[p] <= gen'[p] /\ Tagged(files[p], gen[p])
  BY NextType, HostMonotone DEF TypeOK, FilesTagged
<1>2. ASSUME NEW t \in Thread, PutBlock(t)
      PROVE  Tagged(files'[p], gen[p])
  <2>1. PICK v : files' = Drop(Insert(files, PathOf(t), th[t].ver, th[t].cur, th[t].data), v)
    BY <1>2 DEF PutBlock
  <2>2. /\ PathOf(t) \in Path /\ th[t].ver \in Stamp /\ th[t].cur \in Index
        /\ th[t].data \in 0 .. MaxGen
    BY ThreadTypes
  <2>3. p = PathOf(t) => th[t].ver # 0 /\ th[t].data \in th[t].ver .. gen[p]
    <3>1. th[t].pc = "put" /\ th[t].data # 0
      BY <1>2 DEF PutBlock, At
    <3>. QED
      BY <3>1 DEF VersionsDated, Versioned, Dated, PutsDated
  <2>4. PICK f : f = Insert(files, PathOf(t), th[t].ver, th[t].cur, th[t].data)
    OBVIOUS
  <2>5. Tagged(f[p], gen[p]) /\ f \in [Path -> FileState]
    BY <1>1, <2>2, <2>3, <2>4, InsertTagged, InsertType
  <2>. QED
    BY <2>1, <2>4, <2>5, DropTagged
<1>3. ASSUME NEW t \in Thread, LookupBlock(t) \/ PutOutOfMemory(t)
      PROVE  Tagged(files'[p], gen[p])
  <2>1. PICK f : f = Current(files, PathOf(t), th[t].ver)
    OBVIOUS
  <2>2. Tagged(f[p], gen[p]) /\ f \in [Path -> FileState]
    BY <1>1, <2>1, ThreadTypes, CurrentTagged
  <2>3. files' = f \/ \E v : files' = Drop(f, v)
    BY <1>3, <2>1 DEF LookupBlock, PutOutOfMemory
  <2>. QED
    BY <2>2, <2>3, DropTagged
<1>4. ASSUME NEW m \in Mutator, PurgeBlocks(m)
      PROVE  Tagged(files'[p], gen[p])
  <2>1. files' = Purge(files, mu[m].p) /\ mu[m].p \in Path
    BY <1>4, FloorTypes DEF PurgeBlocks, Purged
  <2>2. files'[p] = files[p] \/ files'[p] = NoFile
    BY <1>1, <2>1, PurgeType
  <2>. QED
    BY <1>1, <2>2, TaggedFile
<1>5. Tagged(files'[p], gen[p])
  BY <1>1, <1>2, <1>3, <1>4, Frames
<1>. QED
  BY <1>1, <1>5, TaggedFile

LEMMA GotStays ==
    ASSUME ~CoarseStamps, TypeOK, HandlesInUse, DatedInv, [Next]_vars
    PROVE  GotDated'
<1>. SUFFICES ASSUME NEW t \in Thread, NEW g \in th'[t].got
              PROVE  th'[t].pc # "idle" /\ Dated(PathOf(t), g, th[t].start - StaleBound)'
  BY DEF GotDated
<1>1. /\ NoPins /\ Exact /\ Retiring /\ Begun /\ VersionsDated /\ PutsDated /\ FilesTagged /\ GotDated
      /\ StaleBound \in Nat /\ th[t].start \in Nat /\ now \in Nat /\ PathOf(t) \in Path
      /\ gen[PathOf(t)] \in Nat /\ th[t].start - StaleBound \in Int
  <2>1. StaleBound \in Nat /\ th[t].start \in Nat /\ PathOf(t) \in Path
    BY StaleBoundType, ThreadTypes
  <2>2. th[t].start - StaleBound \in Int
    BY <2>1
  <2>. QED
    BY <2>1, <2>2, HostTypes DEF DatedInv
<1>2. /\ (th[t].pc # "idle" /\ th'[t].pc # "idle" /\ th'[t].h = th[t].h) \/ th'[t] = th[t]
      /\ th'[t].start = th[t].start
  BY GotStep
<1>3. ASSUME th[t].pc # "idle", Dated(PathOf(t), g, th[t].start - StaleBound)
      PROVE  th'[t].pc # "idle" /\ Dated(PathOf(t), g, th[t].start - StaleBound)'
  <2>1. PICK p \in Path, w \in Int : p = PathOf(t) /\ w = th[t].start - StaleBound
    BY <1>1
  <2>2. th'[t].pc # "idle" /\ PathOf(t)' = p
    BY <1>2, <1>3, <2>1, KeyKept
  <2>3. Dated(p, g, w)'
    BY <1>1, <1>3, <2>1, DatedStays
  <2>4. th'[t].start - StaleBound = w
    BY <1>2, <2>1
  <2>. QED
    BY <2>2, <2>3, <2>4 DEF Dated, Fresh
<1>4. ASSUME th[t].pc \in Versioned, g \in th[t].ver .. gen[PathOf(t)]
      PROVE  Dated(PathOf(t), g, th[t].start - StaleBound) /\ th[t].pc # "idle"
  <2>1. Dated(PathOf(t), th[t].ver, th[t].start - StaleBound)
    BY <1>1, <1>4 DEF VersionsDated
  <2>2. th[t].start - StaleBound <= th[t].start - StaleBound
    BY <1>1
  <2>. QED
    BY <1>1, <1>4, <2>1, <2>2, NewerIsFresh DEF Versioned
<1>5. CASE g \in th[t].got
  BY <1>1, <1>3, <1>5 DEF GotDated
<1>6. CASE AnswerDirect(t) /\ g = HostGen(th[t].h)
  <2>1. th[t].pc # "idle"
    BY <1>6 DEF AnswerDirect, At
  <2>2. th[t].start - StaleBound <= now /\ g = gen[PathOf(t)]
    BY <1>1, <1>6, <2>1, AnswerIsPresent DEF Begun
  <2>. QED
    BY <1>1, <1>3, <2>1, <2>2, PresentIsFresh
<1>7. CASE /\ LookupBlock(t) /\ g = files[PathOf(t)].blk[th[t].cur] /\ g # 0
           /\ files[PathOf(t)].tag \in {0, th[t].ver}
  <2>1. th[t].pc \in Versioned /\ th[t].cur \in Index
    BY <1>7, ThreadTypes DEF LookupBlock, At, Versioned
  <2>2. g \in th[t].ver .. gen[PathOf(t)]
    BY <1>1, <1>7, <2>1 DEF FilesTagged, Tagged
  <2>. QED
    BY <1>3, <1>4, <2>1, <2>2
<1>8. CASE th[t].pc = "put" /\ g = th[t].data /\ g # 0
  <2>1. th[t].pc \in Versioned /\ g \in th[t].ver .. gen[PathOf(t)]
    BY <1>1, <1>8 DEF PutsDated, Versioned
  <2>. QED
    BY <1>3, <1>4, <2>1
<1>. QED
  BY <1>5, <1>6, <1>7, <1>8, GotStep

LEMMA DatedInit == ~CoarseStamps /\ Init => DatedInv
<1>. SUFFICES ASSUME Init PROVE DatedInv
  OBVIOUS
<1>1. /\ \A t \in Thread : th[t].pc = "idle" /\ th[t].got = {}
      /\ \A h \in Handle : fh[h].st = "unused"
      /\ \A p \in Path : /\ meta[p].stamp = 0 /\ gen[p] = 1 /\ files[p] = NoFile
                         /\ \A g \in Gen : retired[p][g] = 0
      /\ stamp = gen /\ now = 0 /\ pool = <<>>
  BY DEF Init, Idle, NoHandle, NoMeta
<1>2. NoPins /\ Exact /\ MetaDated /\ HandlesDated /\ GotDated
  BY <1>1 DEF NoPins, Exact, MetaDated, HandlesDated, GotDated
<1>3. Begun /\ InTime /\ AttributesDated /\ VersionsDated /\ PutsDated
  BY <1>1 DEF Begun, InTime, InTransit, At, AttributesDated, VersionsDated, Versioned, PutsDated
<1>4. Retiring /\ JobsDated
  BY <1>1 DEF Retiring, JobsDated
<1>5. FilesTagged
  BY <1>1, TaggedFile DEF FilesTagged
<1>. QED
  BY <1>2, <1>3, <1>4, <1>5 DEF DatedInv

LEMMA DatedNext ==
    ASSUME ~Replaceable, ~CoarseStamps, TypeOK, HandlesInUse, DatedInv, [Next]_vars
    PROVE  DatedInv'
<1>1. NoPins'
  BY HandleStep DEF NoPins, DatedInv
<1>2. Exact'
  <2>1. PICK p \in Path : TRUE
    BY BlockCacheAssumption
  <2>. QED
    BY <2>1, HostStep DEF DatedInv
<1>3. Retiring' /\ MetaDated' /\ HandlesDated' /\ AttributesDated' /\ InTime' /\ VersionsDated' /\ GotDated'
  BY RetiringStays, MetaStays, HandlesStay, AttributesStay, VersionsStay, GotStays DEF DatedInv
<1>4. Begun' /\ JobsDated' /\ PutsDated' /\ FilesTagged'
  BY BegunStays, JobsStay, PutsStay, FilesStay DEF DatedInv
<1>. QED
  BY <1>1, <1>2, <1>3, <1>4 DEF DatedInv

\* Where every change of a file moves its (size, mtime) and no path gets a new inode under an
\* open handle: no read returns a block that had been overwritten for more than StaleBound,
\* two lifetimes of an attribute and two delays in storing one, when the read was called.
THEOREM ReadsAreRecent == Spec => [](~Replaceable /\ ~CoarseStamps => BoundedStaleness)
<1>. DEFINE Inv == ~Replaceable /\ ~CoarseStamps => DatedInv
<1>1. Init => Inv
  BY DatedInit
<1>2. TypeOK /\ HandlesInUse /\ Inv /\ [Next]_vars => Inv'
  BY DatedNext
<1>3. Inv => (~Replaceable /\ ~CoarseStamps => BoundedStaleness)
  BY DEF DatedInv, GotDated, Dated, BoundedStaleness, Thread
<1>. QED
  BY <1>1, <1>2, <1>3, TypeCorrect, HandlesInUseInvariant, PTL DEF Spec

===============================================================================
