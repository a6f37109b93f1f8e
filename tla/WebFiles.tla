------------------------------ MODULE WebFiles ------------------------------
(***************************************************************************)
(* The files of a remote mount over WebRTC (web_compat.cpp): the calls of  *)
(* the mount's threads (WebRtcRemoteClient::request), which keep a whole   *)
(* file in memory once it is written to and upload it at RELEASE, the      *)
(* requests these make over one data channel, and the host that serves     *)
(* them (WebRtcCompatHost::Impl::on_json, on_binary).                      *)
(*                                                                         *)
(* A file is a sequence of cells, each a chunk of kWebChunk bytes; a       *)
(* written cell holds the number of the call.  The channel keeps order and *)
(* loses nothing until it closes.  RELEASE comes when no other call uses   *)
(* the handle: the kernel sends it last, and RamCache, which lies between, *)
(* holds it back for its prefetches (NoReadAfterRelease of BlockCache).    *)
(* Left out: calls that make no request and refused writes (EROFS), which  *)
(* change nothing, MKDIR, and what the names are.                          *)
(***************************************************************************)
EXTENDS Naturals, Sequences, FiniteSets, FiniteSetsExt, Functions

CONSTANTS
    Thread,         \* the threads of the mounts, as <<client, number>>
    FirstId,        \* the first request id of each client (100 for a mount)
    Path,
    Size,           \* cells of a file (bound)
    MaxCalls,       \* calls of all threads (bound)
    Faults          \* timeouts, lost signalling, failures of the host's disk and changes of a
                    \* file by programs at the host, all together (bound)

Client == {t[1] : t \in Thread}

ASSUME WebFilesAssumption ==
    /\ {Size, MaxCalls, Faults} \subseteq Nat /\ Size # 0
    /\ FirstId \in [Client -> Nat]

Handle == 1 .. MaxCalls + 1
Cell == 0 .. MaxCalls + 1               \* 0 where nothing was written
Content == UNION {[1 .. n -> Cell] : n \in 0 .. Size}
ByHost == MaxCalls + 1
Absent == <<MaxCalls + 2>>              \* no content: of no file, and of an upload that was spoiled
Spoiled == <<MaxCalls + 3>>
NoFh == <<>>
Idle == [pc |-> "idle"]

VARIABLES
    open, dead, canRange,               \* of each client
    nextId, nextFh, fhs,
    replies,        \* answers to be taken, at most one of an id
    downloads,      \* the binary messages of answers, by their id, in the order they came
    th,             \* what each thread does
    calls,          \* the number of calls made
    up, down,       \* the data channel of each client
    file,           \* the files at the host
    uploads,        \* the host's open uploads, one of an id
    serving,        \* the download each client's callback at the host is in
    faults,
    ended           \* history: the uploads that were ended, with what the file held then

client  == <<open, dead, canRange>>
handles == <<nextFh, fhs>>
waiting == <<nextId, replies, downloads>>
chan    == <<up, down>>
host    == <<file, uploads, serving, ended>>
vars == <<client, handles, waiting, th, calls, chan, host, faults>>

Fault == faults < Faults /\ faults' = faults + 1

Waits(t) == th[t].pc \in {"attr", "simple", "file", "ready", "ending"}
ReplyTo(t) == {r \in replies[t[1]] : r.id = th[t].id}
Bins(c, id) == IF id \in DOMAIN downloads[c] THEN downloads[c][id] ELSE <<>>

\* The variables have their types; buffers, files and handles stay within their bounds.
TypeOK ==
    /\ \A v \in {open, dead, canRange} : v \in [Client -> BOOLEAN]
    /\ nextFh \in [Client -> 1 .. MaxCalls + 2] /\ nextId \in [Client -> Nat] /\ calls \in 0 .. MaxCalls
    /\ \A c \in Client, h \in Handle : fhs[c][h] # NoFh =>
          /\ fhs[c][h].path \in Path /\ fhs[c][h].data \in Content
          /\ {fhs[c][h].loaded, fhs[c][h].dirty} \subseteq BOOLEAN
    /\ file \in [Path -> Content \cup {Absent}]
    /\ \A u, v \in uploads : u.id = v.id => u = v
    /\ \A t \in Thread : th[t].pc \in {"idle", "attr", "simple", "file", "upload", "ready", "chunks", "ending"}

\* A file is empty under a new handle if it is truncated, or created where none is.
Fh(path, empty) == [path |-> path, data |-> <<>>, loaded |-> empty, dirty |-> empty, wrote |-> {}]

\* Connected, with the capabilities known; each client has opened one file for reading or writing.
Init ==
    /\ open = [c \in Client |-> TRUE] /\ dead = [c \in Client |-> FALSE]
    /\ canRange \in [Client -> BOOLEAN]
    /\ nextId = FirstId /\ nextFh = [c \in Client |-> 2]
    /\ \E p \in Path : fhs = [c \in Client |-> [h \in Handle |-> IF h = 1 THEN Fh(p, FALSE) ELSE NoFh]]
    /\ replies = [c \in Client |-> {}] /\ downloads = [c \in Client |-> <<>>]
    /\ th = [t \in Thread |-> Idle] /\ calls = 0
    /\ up = [c \in Client |-> <<>>] /\ down = [c \in Client |-> <<>>]
    /\ file \in [Path -> {Absent, [i \in 1 .. Size |-> ByHost]}]
    /\ uploads = {} /\ serving = [c \in Client |-> <<>>] /\ ended = {}
    /\ faults = 0

-----------------------------------------------------------------------------
(* The client: requests, and what becomes of their answers.                *)

\* Mutated: an id is given out twice.
SameId(c) == nextId[c]
NewId(c) == nextId[c] + 1

Msg(t, kind, id, path, arg) == [t |-> kind, id |-> id, path |-> path, arg |-> arg, by |-> t]
Send(t, m) == up' = [up EXCEPT ![t[1]] = Append(@, m)]
Goes(t, call) == th' = [th EXCEPT ![t] = call]
Returns(t) == Goes(t, Idle)

Call(op, path, h, off) ==
    [pc |-> "upload", op |-> op, path |-> path, h |-> h, off |-> off, buf |-> <<>>, id |-> 0, val |-> calls + 1]

\* A request under a new id, for whose answer the thread waits.
Ask(t, call, pc, kind, arg) ==
    LET id == nextId[t[1]]
    IN  /\ Send(t, Msg(t, kind, id, call.path, arg))
        /\ Goes(t, [call EXCEPT !.pc = pc, !.id = id])
        /\ nextId' = [nextId EXCEPT ![t[1]] = NewId(t[1])]

Begin(t) == /\ th[t].pc = "idle" /\ open[t[1]] /\ calls < MaxCalls /\ calls' = calls + 1
            /\ UNCHANGED <<client, replies, downloads, down, host, faults>>

\* A range of a file, or all of it.
Range1(off) == <<off, 1>>
Whole == <<0, Size>>

\* Mutated: a write goes to the end of the buffer.
Added(data, off, val) == data \o <<val>>
Put(data, off, val) ==
    [i \in 1 .. IF off < Len(data) THEN Len(data) ELSE off + 1 |->
        IF i = off + 1 THEN val ELSE IF i <= Len(data) THEN data[i] ELSE 0]
Resized(data, n) == [i \in 1 .. n |-> IF i <= Len(data) THEN data[i] ELSE 0]

NewHandle(c, path, empty) ==
    /\ fhs' = [fhs EXCEPT ![c][nextFh[c]] = Fh(path, empty)]
    /\ nextFh' = [nextFh EXCEPT ![c] = @ + 1]

Open(t, path, trunc, create) ==
    /\ Begin(t)
    /\ IF create /\ ~trunc
         THEN Ask(t, Call("open", path, 0, 0), "attr", "list", <<>>) /\ UNCHANGED handles
         ELSE NewHandle(t[1], path, trunc) /\ UNCHANGED <<th, up, nextId>>

\* A read of a buffered file changes nothing; of another it asks for a range, or, of a host that
\* has none, the whole file, as a write does.
Loads(t, op, h, off) ==
    /\ Begin(t) /\ fhs[t[1]][h] # NoFh /\ ~fhs[t[1]][h].loaded
    /\ Ask(t, Call(op, fhs[t[1]][h].path, h, off), "file", "download",
           IF op = "read" /\ canRange[t[1]] THEN Range1(off) ELSE Whole)
    /\ UNCHANGED handles

\* The cells that were written through the handle are remembered in wrote.
Written(f, off, val) ==
    [f EXCEPT !.data = Put(@, off, val), !.dirty = TRUE, !.loaded = TRUE,
              !.wrote = {w \in @ : w[1] # off} \cup {<<off, val>>}]

WriteLoaded(t, h, off) ==
    /\ Begin(t) /\ fhs[t[1]][h] # NoFh /\ fhs[t[1]][h].loaded
    /\ fhs' = [fhs EXCEPT ![t[1]][h] = Written(@, off, calls + 1)]
    /\ UNCHANGED <<nextFh, nextId, up, th>>

Using(t, h) == th[t].pc # "idle" /\ th[t].h = h

Release(t, h) ==
    LET f == fhs[t[1]][h]
    IN  /\ Begin(t) /\ f # NoFh
        /\ ~\E u \in Thread : u[1] = t[1] /\ Using(u, h)
        /\ fhs' = [fhs EXCEPT ![t[1]][h] = NoFh]
        /\ IF f.dirty THEN Goes(t, [Call("release", f.path, 0, 0) EXCEPT !.buf = f.data]) ELSE UNCHANGED th
        /\ UNCHANGED <<nextFh, nextId, up>>

Truncate(t, path, n) ==
    /\ Begin(t) /\ Ask(t, Call("truncate", path, 0, n), "file", "download", Whole)
    /\ UNCHANGED handles

Unlink(t, path) ==
    /\ Begin(t) /\ Ask(t, Call("unlink", path, 0, 0), "simple", "delete", <<>>)
    /\ UNCHANGED handles

-----------------------------------------------------------------------------
(* upload_file.                                                            *)

\* Sending fails once the channel is closed.
Uploads(t, pc) == th[t].pc = pc /\ UNCHANGED <<client, handles, replies, downloads, calls, down, host, faults>>
Fails(t) == ~open[t[1]] /\ Returns(t) /\ UNCHANGED <<up, nextId>>

UploadStart(t) ==
    /\ Uploads(t, "upload")
    /\ \/ Fails(t)
       \/ open[t[1]] /\ Ask(t, th[t], "ready", "uploadStart", <<>>)

SendChunk(t) ==
    /\ Uploads(t, "chunks")
    /\ \/ Fails(t)
       \/ /\ open[t[1]] /\ UNCHANGED nextId
          /\ IF th[t].off < Len(th[t].buf)
               THEN /\ Send(t, Msg(t, "bin", th[t].id, th[t].path, th[t].buf[th[t].off + 1]))
                    /\ Goes(t, [th[t] EXCEPT !.off = @ + 1])
               ELSE /\ Send(t, Msg(t, "uploadEnd", th[t].id, th[t].path, <<>>))
                    /\ Goes(t, [th[t] EXCEPT !.pc = "ending"])

-----------------------------------------------------------------------------
(* send_json_wait and wait_file return: the thread goes on.                *)

Fetched(t) == LET bins == Bins(t[1], th[t].id)
              IN  [i \in DOMAIN bins |-> bins[i].arg]

\* Mutated: what was fetched replaces what another thread has written meanwhile.
Replaced(f, data) == [f EXCEPT !.data = data, !.loaded = TRUE]
Installed(f, data) == IF f.loaded THEN f ELSE [f EXCEPT !.data = data, !.loaded = TRUE]

\* A file that was fetched: a range is returned; a whole file is put under the handle, and written to.
\* TRUNCATE resizes and uploads it.
GotFile(t, data) ==
    LET c == th[t]
        f == Installed(fhs[t[1]][c.h], data)
    IN  CASE c.op = "truncate" ->
               Goes(t, [c EXCEPT !.pc = "upload", !.buf = Resized(data, c.off), !.off = 0]) /\ UNCHANGED handles
          [] c.op = "read" /\ canRange[t[1]] -> Returns(t) /\ UNCHANGED handles
          [] OTHER ->
               /\ fhs' = [fhs EXCEPT ![t[1]][c.h] = IF c.op = "write" THEN Written(f, c.off, c.val) ELSE f]
               /\ Returns(t) /\ UNCHANGED nextFh

\* Anything but the answer hoped for is EIO, but in OPEN's look at the file, which then is not empty.
NoReply == [t |-> "none", arg |-> {}]
Continue(t, r) ==
    CASE th[t].pc = "attr" ->
           /\ NewHandle(t[1], th[t].path, r.t = "listResult" /\ th[t].path \notin r.arg)
           /\ Returns(t)
      [] th[t].pc = "file" /\ r.t = "fileEnd"  -> GotFile(t, Fetched(t))
      [] th[t].pc = "ready" /\ r.t = "uploadReady" -> Goes(t, [th[t] EXCEPT !.pc = "chunks"]) /\ UNCHANGED handles
      [] OTHER -> Returns(t) /\ UNCHANGED handles

WaitEnds(t) == Waits(t) /\ UNCHANGED <<client, nextId, calls, chan, host>>

Answered(t) ==
    /\ WaitEnds(t)
    /\ \E r \in ReplyTo(t) :
          /\ Continue(t, r)
          /\ replies' = [replies EXCEPT ![t[1]] = @ \ {r}]
    /\ downloads' = IF th[t].pc = "file"
                      THEN [downloads EXCEPT ![t[1]] = Restrict(@, DOMAIN @ \ {th[t].id})]
                      ELSE downloads
    /\ UNCHANGED faults

\* The connection is dead, or 30, 60 or 120 seconds are over.  A late answer is kept for ever.
GivesUp(t) ==
    /\ WaitEnds(t) /\ ReplyTo(t) = {}
    /\ IF dead[t[1]] THEN UNCHANGED faults ELSE Fault
    /\ Continue(t, NoReply)
    /\ UNCHANGED <<replies, downloads>>

\* on_json and on_binary of the client.
Deliver(c) ==
    /\ down[c] # <<>>
    /\ LET m == Head(down[c])
       IN  IF m.t = "bin"
             THEN /\ downloads' = [downloads EXCEPT ![c] =
                                     [i \in DOMAIN @ \cup {m.id} |-> IF i = m.id THEN Append(Bins(c, i), m) ELSE @[i]]]
                  /\ UNCHANGED replies
             ELSE /\ replies' = [replies EXCEPT ![c] = {r \in @ : r.id # m.id} \cup {m}]
                  /\ UNCHANGED downloads
    /\ down' = [down EXCEPT ![c] = Tail(@)]
    /\ UNCHANGED <<client, handles, nextId, th, calls, up, host, faults>>

\* Mutated: the threads that wait are not told.
Untold(c) == dead
Dead(c) == [dead EXCEPT ![c] = TRUE]

\* The channel closes: the network, the host or disconnect ended it.
Closed(c) ==
    /\ open[c]
    /\ open' = [open EXCEPT ![c] = FALSE] /\ dead' = Dead(c)
    /\ up' = [up EXCEPT ![c] = <<>>] /\ down' = [down EXCEPT ![c] = <<>>]
    /\ UNCHANGED <<canRange, handles, waiting, th, calls, host, faults>>

\* The web socket to the signalling worker closes, or the host leaves it; the channel goes on, and
\* so does the mount, but no call waits for an answer any more.
SignallingLost(c) ==
    /\ ~dead[c] /\ Fault
    /\ dead' = Dead(c)
    /\ UNCHANGED <<open, canRange, handles, waiting, th, calls, chan, host>>

-----------------------------------------------------------------------------
(* The host: on_json and on_binary, one message of a client after another. *)

Answer(c, m, kind, arg) == down' = [down EXCEPT ![c] = Append(@, [m EXCEPT !.t = kind, !.arg = arg])]
OpenUpload(m) == {u \in uploads : u.id = m.id}
Spoils(path) == {IF u.path = path THEN [u EXCEPT !.clean = FALSE] ELSE u : u \in uploads}

HostLists(c, m) ==
    /\ m.t = "list"
    /\ Answer(c, m, "listResult", {p \in Path : file[p] # Absent})
    /\ UNCHANGED <<host, faults>>

HostDeletes(c, m) ==
    /\ m.t = "delete"
    /\ file' = [file EXCEPT ![m.path] = Absent] /\ uploads' = Spoils(m.path)
    /\ Answer(c, m, "ok", <<>>)
    /\ UNCHANGED <<serving, ended, faults>>

\* The range is cut to the size of the file.  fileStart, which the client ignores, is left out.
Cut(range, size) == <<range[1], Min({range[2], IF range[1] < size THEN size - range[1] ELSE 0})>>

HostDownloads(c, m) ==
    /\ m.t = "download"
    /\ IF file[m.path] = Absent
         THEN Answer(c, m, "error", <<>>) /\ UNCHANGED serving
         ELSE /\ serving' = [serving EXCEPT ![c] = [m EXCEPT !.arg = Cut(@, Len(file[m.path]))]]
              /\ UNCHANGED down
    /\ UNCHANGED <<file, uploads, ended, faults>>

\* Mutated: the file keeps what it had.
Kept(path) == IF file[path] = Absent THEN <<>> ELSE file[path]
Truncated(path) == <<>>

\* An upload truncates the file.  That it cannot be opened is not noticed.
HostStarts(c, m) ==
    /\ m.t = "uploadStart"
    /\ LET others == {u \in Spoils(m.path) : u.id # m.id}
           busy   == \E u \in others : u.path = m.path
           Starts(ok) == uploads' = others \cup {[id |-> m.id, by |-> c, path |-> m.path, pos |-> 0, open |-> ok,
                                                  clean |-> ok /\ ~busy]}
       IN  \/ Starts(TRUE) /\ file' = [file EXCEPT ![m.path] = Truncated(m.path)] /\ UNCHANGED faults
           \/ Starts(FALSE) /\ Fault /\ UNCHANGED file
    /\ Answer(c, m, "uploadReady", <<>>)
    /\ UNCHANGED <<serving, ended>>

\* A chunk goes to the upload of its id.  That it cannot be written is not noticed.
HostWrites(c, m) ==
    /\ m.t = "bin"
    /\ IF \E u \in OpenUpload(m) : u.open /\ file[u.path] # Absent
         THEN \E u \in OpenUpload(m) :
                \/ /\ file' = [file EXCEPT ![u.path] = Put(@, u.pos, m.arg)]
                   /\ uploads' = (uploads \ {u}) \cup {[u EXCEPT !.pos = @ + 1]}
                   /\ UNCHANGED faults
                \/ /\ Fault /\ uploads' = (uploads \ {u}) \cup {[u EXCEPT !.open = FALSE, !.clean = FALSE]}
                   /\ UNCHANGED file
         ELSE UNCHANGED <<file, uploads, faults>>
    /\ UNCHANGED <<serving, ended, down>>

Ends(m) == {[m |-> m, data |-> IF u.clean THEN file[u.path] ELSE Spoiled] : u \in OpenUpload(m)}

HostEnds(c, m) ==
    /\ m.t = "uploadEnd"
    /\ uploads' = uploads \ OpenUpload(m)
    /\ ended' = ended \cup Ends(m)
    /\ Answer(c, m, "ok", <<>>)
    /\ UNCHANGED <<file, serving, faults>>

HostTakes(c) ==
    /\ up[c] # <<>> /\ serving[c] = <<>>
    /\ up' = [up EXCEPT ![c] = Tail(@)]
    /\ LET m == Head(up[c])
       IN  \/ HostLists(c, m) \/ HostDeletes(c, m) \/ HostDownloads(c, m)
           \/ HostStarts(c, m) \/ HostWrites(c, m) \/ HostEnds(c, m)
    /\ UNCHANGED <<client, handles, waiting, th, calls>>

\* The loop of a download: a cell is read and sent, until the range or the file ends or cannot be
\* read; fileEnd says nothing of which.
HostReads(c) ==
    /\ serving[c] # <<>>
    /\ LET m == serving[c]
           off == m.arg[1]
           more == m.arg[2] > 0 /\ file[m.path] # Absent /\ off < Len(file[m.path])
           Sends(kind, arg) == down' = IF open[c] THEN [down EXCEPT ![c] = Append(@, [m EXCEPT !.t = kind, !.arg = arg])]
                                                  ELSE down
       IN  \/ /\ more
              /\ Sends("bin", file[m.path][off + 1])
              /\ serving' = [serving EXCEPT ![c].arg = <<off + 1, @[2] - 1>>]
              /\ UNCHANGED faults
           \/ /\ IF more THEN Fault ELSE UNCHANGED faults
              /\ Sends("fileEnd", <<>>)
              /\ serving' = [serving EXCEPT ![c] = <<>>]
    /\ UNCHANGED <<client, handles, waiting, th, calls, up, file, uploads, ended>>

\* A program at the host saves the file.
HostChanges(path) ==
    /\ Fault
    /\ file' = [file EXCEPT ![path] = <<ByHost>>] /\ uploads' = Spoils(path)
    /\ UNCHANGED <<client, handles, waiting, th, calls, chan, serving, ended>>

-----------------------------------------------------------------------------
Next ==
    \/ \E t \in Thread :
         \/ \E p \in Path : \/ \E trunc, create \in BOOLEAN : Open(t, p, trunc, create)
                            \/ \E n \in 0 .. Size : Truncate(t, p, n)
                            \/ Unlink(t, p)
         \/ \E h \in Handle : \/ \E off \in 0 .. Size - 1 : \/ Loads(t, "read", h, off) \/ Loads(t, "write", h, off)
                                                           \/ WriteLoaded(t, h, off)
                              \/ Release(t, h)
         \/ UploadStart(t) \/ SendChunk(t) \/ Answered(t) \/ GivesUp(t)
    \/ \E c \in Client : Deliver(c) \/ Closed(c) \/ SignallingLost(c) \/ HostTakes(c) \/ HostReads(c)
    \/ \E p \in Path : HostChanges(p)

Spec == Init /\ [][Next]_vars

(***************************************************************************)
(* Fairness.  Threads run, the host serves what comes and the channel      *)
(* delivers.  A wait ends of itself only when the connection is dead: that *)
(* its time is over is allowed, and not relied on.                         *)
(***************************************************************************)
FairSpec ==
    /\ Spec
    /\ \A t \in Thread : WF_vars(UploadStart(t)) /\ WF_vars(SendChunk(t)) /\ WF_vars(Answered(t))
                         /\ WF_vars(dead[t[1]] /\ GivesUp(t))
    /\ \A c \in Client : WF_vars(Deliver(c)) /\ WF_vars(HostTakes(c)) /\ WF_vars(HostReads(c))

-----------------------------------------------------------------------------
\* What was written through a handle stays in its buffer until RELEASE, whatever other threads fetch
\* for the same handle meanwhile.
KeepsWrites ==
    \A c \in Client, h \in Handle : fhs[c][h] # NoFh =>
        \A w \in fhs[c][h].wrote : fhs[c][h].dirty /\ fhs[c][h].data[w[1] + 1] = w[2]

\* When RELEASE or TRUNCATE takes the host's ok for its upload, the file was what it uploaded, unless
\* somebody else changed it or the host's disk failed during the upload.
Saved ==
    \A t \in Thread : th[t].pc = "ending" /\ (\E r \in ReplyTo(t) : r.t = "ok") =>
        \E e \in ended : e.m.by = t /\ e.m.id = th[t].id /\ e.data \in {th[t].buf, Spoiled}

\* What a thread takes as the answer is the answer to the request it waits for: not that to a call of
\* another thread, to a call that it gave up, or to an earlier request of the same upload, and what it
\* fetched came for it.
Answers == [attr |-> {"listResult"}, simple |-> {"ok"}, file |-> {"fileEnd", "error"},
            ready |-> {"uploadReady"}, ending |-> {"ok"}]

AnswersMatch ==
    \A t \in Thread : Waits(t) =>
        /\ \A r \in ReplyTo(t) : r.by = t /\ r.t \in Answers[th[t].pc]
        /\ \A m \in Range(Bins(t[1], th[t].id)) : m.by = t

\* As long as the connection is not dead, a thread that waits has its answer, or its request is with
\* the host, or one of them is on the way: no call is dropped.
Requests == [attr |-> "list", simple |-> "delete", file |-> "download", ready |-> "uploadStart",
             ending |-> "uploadEnd"]

UnderWay(c, id, kind) ==
    \/ \E m \in Range(up[c]) : m.id = id /\ m.t = kind
    \/ serving[c] # <<>> /\ serving[c].id = id
    \/ \E m \in Range(down[c]) : m.id = id /\ m.t # "bin"

NoCallIsLost ==
    \A t \in Thread : Waits(t) /\ ~dead[t[1]] =>
        ReplyTo(t) # {} \/ UnderWay(t[1], th[t].id, Requests[th[t].pc])

\* Of every call exactly its own answer comes (send_json_wait, wait_file and on_json of
\* WebRtcRemoteClient, on_json and on_binary of WebRtcCompatHost).
CallsKept == AnswersMatch /\ NoCallIsLost

\* Every call returns, even if no time runs out: each request is answered, or the connection is
\* dead and the thread is told.
CallsEnd == \A t \in Thread : th[t].pc # "idle" ~> th[t].pc = "idle"
=============================================================================
