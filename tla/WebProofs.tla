------------------------------ MODULE WebProofs -----------------------------
(***************************************************************************)
(* Two proofs about mounts over WebRTC, for any number of threads, files,  *)
(* calls, peers and faults.  The files of a remote mount: what is written  *)
(* stays in the buffer, what the host has acknowledged is what was         *)
(* uploaded, each call gets its own answer, or is still on its way, or the *)
(* connection is dead, and nothing outgrows a file.  The peers of the      *)
(* host: what each said is handled once, stop leaves nothing behind, and   *)
(* neither the number shown nor a peer that waits for an answer is         *)
(* forgotten.                                                              *)
(***************************************************************************)
EXTENDS WebFiles, WebPeers, FiniteSetTheorems, TLAPS

(***************************** the types ***********************************)

Record(kinds, Arg) == [t : kinds, id : Nat, path : Path, arg : Arg, by : Thread]

PlainKind == {"list", "delete", "uploadStart", "uploadReady", "uploadEnd", "ok", "error", "fileEnd"}
Plain == Record(PlainKind, {<<>>})
Listing == Record({"listResult"}, SUBSET Path)
Bin == Record({"bin"}, Cell)
Download == Record({"download"}, Nat \X Nat)
Message == Plain \cup Listing \cup Bin \cup Download

FhState == [path : Path, data : Seq(Cell), loaded : BOOLEAN, dirty : BOOLEAN, wrote : SUBSET (Nat \X Cell)]

\* A thread has a request of its own.
Working == {"attr", "simple", "file", "ready", "chunks", "ending"}

CallState == [pc : Working \cup {"upload"}, op : {"open", "read", "write", "release", "truncate", "unlink"},
              path : Path, h : Nat, off : Nat, buf : Seq(Cell), id : Nat, val : Cell]

UploadState == [id : Nat, by : Client, path : Path, pos : Nat, open : BOOLEAN, clean : BOOLEAN]

ClientTypes ==
    /\ open \in [Client -> BOOLEAN] /\ dead \in [Client -> BOOLEAN] /\ canRange \in [Client -> BOOLEAN]
    /\ nextId \in [Client -> Nat] /\ nextFh \in [Client -> Nat] /\ calls \in 0 .. MaxCalls
    /\ fhs \in [Client -> [Handle -> FhState \cup {NoFh}]]
    /\ th \in [Thread -> CallState \cup {Idle}]
    /\ replies \in [Client -> SUBSET Message]
    /\ DOMAIN downloads = Client /\ \A c \in Client : \A i \in DOMAIN downloads[c] : downloads[c][i] \in Seq(Bin)

ChannelTypes == up \in [Client -> Seq(Message)] /\ down \in [Client -> Seq(Message)]

HostTypes ==
    /\ file \in [Path -> Seq(Cell) \cup {Absent}]
    /\ uploads \subseteq UploadState
    /\ \A u, v \in uploads : u.id = v.id => u = v
    /\ serving \in [Client -> Download \cup {<<>>}]

Types == ClientTypes /\ ChannelTypes /\ HostTypes

\* What was written through a handle is in its buffer.
Keeps(f) == \A w \in f.wrote : /\ f.dirty /\ f.loaded
                               /\ w[1] + 1 \in 1 .. Len(f.data) /\ f.data[w[1] + 1] = w[2]
Buffered == \A c \in Client, h \in Handle : fhs[c][h] \in FhState => Keeps(fhs[c][h])

\* The handle of a READ or WRITE that fetches is there.
InUse ==
    \A t \in Thread : th[t].pc = "file" /\ th[t].op # "truncate" =>
        th[t].h \in Handle /\ fhs[t[1]][th[t].h] \in FhState

FileInv == Types /\ Buffered /\ InUse

(************************** messages and contents **************************)

LEMMA ClientOf == \A t \in Thread : t[1] \in Client
BY DEF Client

LEMMA Cells == ByHost \in Cell /\ 0 \in Cell /\ \A n \in 0 .. MaxCalls : n \in Cell
BY WebFilesAssumption DEF Cell, ByHost

LEMMA MessageFields ==
    ASSUME NEW m \in Message
    PROVE  /\ m.id \in Nat /\ m.path \in Path /\ m.by \in Thread
           /\ m.t = "bin" => m \in Bin /\ m.arg \in Cell
           /\ m.t = "download" => m \in Download /\ m.arg \in Nat \X Nat
           /\ m = [t |-> m.t, id |-> m.id, path |-> m.path, arg |-> m.arg, by |-> m.by]
BY DEF Message, Plain, PlainKind, Listing, Bin, Download, Record

\* An answer to m has its id.
LEMMA AnswerFields ==
    ASSUME NEW m \in Message, NEW kind, NEW arg
    PROVE  LET a == [m EXCEPT !.t = kind, !.arg = arg]
           IN  /\ a.t = kind /\ a.arg = arg /\ a.id = m.id /\ a.path = m.path /\ a.by = m.by
               /\ kind \in PlainKind /\ arg = <<>> => a \in Message
               /\ kind = "listResult" /\ arg \in SUBSET Path => a \in Message
               /\ kind = "bin" /\ arg \in Cell => a \in Message
<1> DEFINE a == [m EXCEPT !.t = kind, !.arg = arg]
<1>1. a.t = kind /\ a.arg = arg /\ a.id = m.id /\ a.path = m.path /\ a.by = m.by
    BY DEF Message, Plain, PlainKind, Listing, Bin, Download, Record
<1>2. kind \in PlainKind /\ arg = <<>> => a \in Message
    BY DEF Message, Plain, PlainKind, Listing, Bin, Download, Record
<1>3. kind = "listResult" /\ arg \in SUBSET Path => a \in Message
    BY DEF Message, Plain, PlainKind, Listing, Bin, Download, Record
<1>4. kind = "bin" /\ arg \in Cell => a \in Message
    BY DEF Message, Plain, PlainKind, Listing, Bin, Download, Record
<1> QED
    BY <1>1, <1>2, <1>3, <1>4

LEMMA Messages ==
    ASSUME NEW id \in Nat, NEW path \in Path, NEW by \in Thread
    PROVE  /\ \A k \in PlainKind : [t |-> k, id |-> id, path |-> path, arg |-> <<>>, by |-> by] \in Message
           /\ \A S \in SUBSET Path : [t |-> "listResult", id |-> id, path |-> path, arg |-> S, by |-> by] \in Message
           /\ \A v \in Cell : [t |-> "bin", id |-> id, path |-> path, arg |-> v, by |-> by] \in Message
           /\ \A r \in Nat \X Nat : [t |-> "download", id |-> id, path |-> path, arg |-> r, by |-> by] \in Download
           /\ Download \subseteq Message
BY DEF Message, Plain, Listing, Bin, Download, Record

LEMMA PutType ==
    ASSUME NEW data \in Seq(Cell), NEW off \in Nat, NEW val \in Cell
    PROVE  /\ Put(data, off, val) \in Seq(Cell) /\ Len(Put(data, off, val)) \in Nat
           /\ Len(data) <= Len(Put(data, off, val)) /\ off + 1 <= Len(Put(data, off, val))
           /\ Put(data, off, val)[off + 1] = val
           /\ \A i \in 1 .. Len(data) : i # off + 1 => Put(data, off, val)[i] = data[i]
<1> DEFINE n == IF off < Len(data) THEN Len(data) ELSE off + 1
<1>1. n \in Nat /\ n >= Len(data) /\ off + 1 \in 1 .. n /\ Len(data) \in Nat
    OBVIOUS
<1>2. Put(data, off, val) = [i \in 1 .. n |-> IF i = off + 1 THEN val ELSE IF i <= Len(data) THEN data[i] ELSE 0]
    BY DEF Put
<1> HIDE DEF n
<1>3. \A i \in 1 .. n : (IF i = off + 1 THEN val ELSE IF i <= Len(data) THEN data[i] ELSE 0) \in Cell
    BY <1>1, Cells
<1>4. Put(data, off, val) \in Seq(Cell) /\ Len(Put(data, off, val)) = n
    BY <1>1, <1>2, <1>3
<1>5. \A i \in 1 .. Len(data) : i \in 1 .. n
    BY <1>1
<1> QED
    BY <1>1, <1>2, <1>4, <1>5

LEMMA ResizedType ==
    ASSUME NEW data \in Seq(Cell), NEW n \in Nat
    PROVE  Resized(data, n) \in Seq(Cell)
<1>1. \A i \in 1 .. n : (IF i <= Len(data) THEN data[i] ELSE 0) \in Cell
    BY Cells
<1> QED
    BY <1>1 DEF Resized

(***************************** the client **********************************)

LEMMA CallType ==
    ASSUME Types, calls < MaxCalls, NEW path \in Path, NEW h \in Nat, NEW off \in Nat,
           NEW op \in {"open", "read", "write", "release", "truncate", "unlink"}
    PROVE  /\ Call(op, path, h, off) \in CallState
           /\ Call(op, path, h, off).path = path
           /\ \A b \in Seq(Cell) : [Call(op, path, h, off) EXCEPT !.buf = b] \in CallState
<1>1. calls + 1 \in Cell
    BY WebFilesAssumption DEF Types, ClientTypes, Cell
<1>2. <<>> \in Seq(Cell)
    OBVIOUS
<1> QED
    BY <1>1, <1>2 DEF Call, CallState

LEMMA SendType ==
    ASSUME Types, NEW t \in Thread, NEW m \in Message, Send(t, m)
    PROVE  up' \in [Client -> Seq(Message)]
BY ClientOf DEF Types, ChannelTypes, Send

LEMMA GoesType ==
    ASSUME Types, NEW t \in Thread, NEW call \in CallState \cup {Idle}, Goes(t, call)
    PROVE  /\ th' \in [Thread -> CallState \cup {Idle}] /\ th'[t] = call
           /\ \A u \in Thread : u # t => th'[u] = th[u]
BY DEF Types, ClientTypes, Goes

LEMMA ReturnsType ==
    ASSUME Types, NEW t \in Thread, Returns(t)
    PROVE  /\ th' \in [Thread -> CallState \cup {Idle}] /\ th'[t] = Idle
           /\ \A u \in Thread : u # t => th'[u] = th[u]
BY GoesType DEF Returns

LEMMA AskType ==
    ASSUME Types, NEW t \in Thread, NEW call \in CallState, NEW pc \in Working, NEW kind, NEW arg,
           Ask(t, call, pc, kind, arg),
           \/ kind \in PlainKind /\ arg = <<>>
           \/ kind = "download" /\ arg \in Nat \X Nat
    PROVE  /\ up' \in [Client -> Seq(Message)] /\ nextId' \in [Client -> Nat]
           /\ th' \in [Thread -> CallState \cup {Idle}]
           /\ th'[t] = [call EXCEPT !.pc = pc, !.id = nextId[t[1]]] /\ th'[t] \in CallState
           /\ \A u \in Thread : u # t => th'[u] = th[u]
<1> DEFINE id == nextId[t[1]]
           m == Msg(t, kind, id, call.path, arg)
<1>1. t[1] \in Client /\ id \in Nat /\ call.path \in Path
    BY ClientOf DEF Types, ClientTypes, CallState
<1>2. m \in Message
    BY <1>1, Messages DEF Msg
<1>3. Send(t, m) /\ Goes(t, [call EXCEPT !.pc = pc, !.id = id]) /\ nextId' = [nextId EXCEPT ![t[1]] = NewId(t[1])]
    BY DEF Ask
<1>4. [call EXCEPT !.pc = pc, !.id = id] \in CallState
    BY <1>1 DEF CallState
<1>5. nextId' \in [Client -> Nat]
    BY <1>1, <1>3 DEF NewId, Types, ClientTypes
<1> HIDE DEF m, id
<1> QED
    BY <1>2, <1>3, <1>4, <1>5, SendType, GoesType DEF id

\* A handle changes, and is still right.
LEMMA HandleChanges ==
    ASSUME Types, Buffered, NEW c \in Client, NEW h, NEW f \in FhState \cup {NoFh},
           f \in FhState => Keeps(f),
           fhs' = [fhs EXCEPT ![c][h] = f]
    PROVE  /\ fhs' \in [Client -> [Handle -> FhState \cup {NoFh}]]
           /\ Buffered'
           /\ \A d \in Client, g \in Handle :
                 fhs[d][g] \in FhState /\ (f \in FhState \/ d # c \/ g # h) => fhs'[d][g] \in FhState
<1>1. fhs \in [Client -> [Handle -> FhState \cup {NoFh}]]
    BY DEF Types, ClientTypes
<1>2. \A d \in Client, g \in Handle : fhs'[d][g] = IF d = c /\ g = h THEN f ELSE fhs[d][g]
    BY <1>1
<1>3. fhs' \in [Client -> [Handle -> FhState \cup {NoFh}]]
    BY <1>1
<1>4. Buffered'
    <2> SUFFICES ASSUME NEW d \in Client, NEW g \in Handle, fhs'[d][g] \in FhState
                 PROVE  Keeps(fhs'[d][g])
        BY DEF Buffered, Keeps
    <2> QED
        BY <1>2 DEF Buffered
<1> QED
    BY <1>2, <1>3, <1>4

LEMMA FhType ==
    ASSUME NEW path \in Path, NEW empty \in BOOLEAN
    PROVE  Fh(path, empty) \in FhState /\ Keeps(Fh(path, empty))
BY DEF Fh, FhState, Keeps

LEMMA NewHandleType ==
    ASSUME Types, Buffered, NEW c \in Client, NEW path \in Path, NEW empty \in BOOLEAN, NewHandle(c, path, empty)
    PROVE  /\ fhs' \in [Client -> [Handle -> FhState \cup {NoFh}]] /\ nextFh' \in [Client -> Nat]
           /\ Buffered'
           /\ \A d \in Client, g \in Handle : fhs[d][g] \in FhState => fhs'[d][g] \in FhState
<1>1. fhs' = [fhs EXCEPT ![c][nextFh[c]] = Fh(path, empty)] /\ nextFh' = [nextFh EXCEPT ![c] = @ + 1]
    BY DEF NewHandle
<1>2. nextFh' \in [Client -> Nat]
    BY <1>1 DEF Types, ClientTypes
<1> QED
    BY <1>1, <1>2, FhType, HandleChanges

LEMMA WrittenType ==
    ASSUME NEW f \in FhState, Keeps(f), NEW off \in Nat, NEW val \in Cell
    PROVE  Written(f, off, val) \in FhState /\ Keeps(Written(f, off, val))
<1> DEFINE g == Written(f, off, val)
           wrote == {w \in f.wrote : w[1] # off} \cup {<<off, val>>}
<1>1. f.data \in Seq(Cell) /\ f.wrote \in SUBSET (Nat \X Cell)
    BY DEF FhState
<1>2. /\ Put(f.data, off, val) \in Seq(Cell) /\ Len(Put(f.data, off, val)) \in Nat
      /\ Len(f.data) <= Len(Put(f.data, off, val)) /\ off + 1 <= Len(Put(f.data, off, val))
      /\ Put(f.data, off, val)[off + 1] = val
      /\ \A i \in 1 .. Len(f.data) : i # off + 1 => Put(f.data, off, val)[i] = f.data[i]
    BY <1>1, PutType, Zenon
<1>3. wrote \in SUBSET (Nat \X Cell)
    BY <1>1
<1>4. /\ g \in FhState /\ g.dirty /\ g.loaded /\ g.data = Put(f.data, off, val) /\ g.wrote = wrote
    BY <1>2, <1>3 DEF Written, FhState
<1> HIDE DEF g
<1>5. ASSUME NEW w \in wrote
      PROVE  w[1] + 1 \in 1 .. Len(g.data) /\ g.data[w[1] + 1] = w[2]
    <2>1. CASE w = <<off, val>>
        BY <1>2, <1>4, <2>1
    <2>2. CASE w \in f.wrote /\ w[1] # off
        <3>1. w[1] \in Nat /\ w[1] + 1 # off + 1
            BY <1>1, <2>2
        <3>2. w[1] + 1 \in 1 .. Len(f.data) /\ f.data[w[1] + 1] = w[2]
            BY <2>2 DEF Keeps
        <3> QED
            BY <1>1, <1>2, <1>4, <3>1, <3>2
    <2> QED
        BY <2>1, <2>2
<1>6. Keeps(g)
    BY <1>4, <1>5 DEF Keeps
<1> QED
    BY <1>4, <1>6 DEF g

\* What is fetched is put under a handle that has no buffer.
LEMMA InstalledType ==
    ASSUME NEW f \in FhState, Keeps(f), NEW data \in Seq(Cell)
    PROVE  Installed(f, data) \in FhState /\ Keeps(Installed(f, data))
<1>1. CASE f.loaded
    BY <1>1 DEF Installed
<1>2. CASE ~f.loaded
    <2>1. f.wrote = {}
        BY <1>2 DEF Keeps
    <2>2. Installed(f, data) \in FhState /\ Installed(f, data).wrote = f.wrote
        BY <1>2 DEF Installed, FhState
    <2> QED
        BY <2>1, <2>2 DEF Keeps
<1> QED
    BY <1>1, <1>2

LEMMA FetchedType ==
    ASSUME Types, NEW t \in Thread
    PROVE  Fetched(t) \in Seq(Cell)
<1>1. Bins(t[1], th[t].id) \in Seq(Bin)
    BY ClientOf DEF Types, ClientTypes, Bins
<1> DEFINE bins == Bins(t[1], th[t].id)
<1>2. \A i \in 1 .. Len(bins) : bins[i].arg \in Cell
    <2>1. \A i \in 1 .. Len(bins) : bins[i] \in Bin
        BY <1>1
    <2> HIDE DEF bins
    <2> QED
        BY <2>1 DEF Bin, Record
<1>3. Fetched(t) = [i \in 1 .. Len(bins) |-> bins[i].arg] /\ Len(bins) \in Nat
    BY <1>1 DEF Fetched
<1> HIDE DEF bins
<1> QED
    BY <1>2, <1>3


\* Thread t takes a step; the handles of the others stay.
LEMMA InUseKept ==
    ASSUME InUse, NEW t \in Thread,
           \A u \in Thread : u # t => th'[u] = th[u],
           \A c \in Client, h \in Handle : fhs[c][h] \in FhState => fhs'[c][h] \in FhState,
           th'[t].pc = "file" /\ th'[t].op # "truncate" =>
              th'[t].h \in Handle /\ fhs'[t[1]][th'[t].h] \in FhState
    PROVE  InUse'
BY ClientOf DEF InUse

LEMMA OpenKeeps ==
    ASSUME FileInv, NEW t \in Thread, NEW p \in Path, NEW trunc \in BOOLEAN, NEW create \in BOOLEAN,
           Open(t, p, trunc, create)
    PROVE  FileInv'
<1>1. /\ Types /\ Buffered /\ InUse /\ calls < MaxCalls /\ calls' = calls + 1 /\ t[1] \in Client
      /\ UNCHANGED <<client, replies, downloads, down, host, faults>>
    BY ClientOf DEF FileInv, Open, Begin
<1>2. calls' \in 0 .. MaxCalls
    BY <1>1, WebFilesAssumption DEF Types, ClientTypes
<1>3. CASE Ask(t, Call("open", p, 0, 0), "attr", "list", <<>>) /\ UNCHANGED handles
    <2>1. Call("open", p, 0, 0) \in CallState
        BY <1>1, CallType
    <2>2. /\ up' \in [Client -> Seq(Message)] /\ nextId' \in [Client -> Nat]
          /\ th' \in [Thread -> CallState \cup {Idle}]
          /\ th'[t] = [Call("open", p, 0, 0) EXCEPT !.pc = "attr", !.id = nextId[t[1]]]
          /\ \A u \in Thread : u # t => th'[u] = th[u]
        BY <1>1, <1>3, <2>1, AskType DEF PlainKind, Working
    <2>3. th'[t].pc = "attr"
        BY <2>1, <2>2 DEF CallState
    <2>4. InUse'
        BY <1>1, <1>3, <2>2, <2>3, InUseKept DEF handles
    <2>5. Types' /\ Buffered'
        BY <1>1, <1>2, <1>3, <2>2 DEF Types, ClientTypes, ChannelTypes, HostTypes, client, handles, host,
                                      Buffered, Keeps
    <2> QED
        BY <2>4, <2>5 DEF FileInv
<1>4. CASE NewHandle(t[1], p, trunc) /\ UNCHANGED <<th, up, nextId>>
    <2>1. /\ fhs' \in [Client -> [Handle -> FhState \cup {NoFh}]] /\ nextFh' \in [Client -> Nat]
          /\ Buffered'
          /\ \A d \in Client, g \in Handle : fhs[d][g] \in FhState => fhs'[d][g] \in FhState
        BY <1>1, <1>4, NewHandleType
    <2>2. InUse'
        BY <1>1, <1>4, <2>1, ClientOf DEF InUse
    <2>3. Types'
        BY <1>1, <1>2, <1>4, <2>1 DEF Types, ClientTypes, ChannelTypes, HostTypes, client, host
    <2> QED
        BY <2>1, <2>2, <2>3 DEF FileInv
<1> QED
    BY <1>3, <1>4 DEF Open

\* A call that begins with a request and changes no handle.
LEMMA AsksKeeps ==
    ASSUME FileInv, NEW t \in Thread, Begin(t), UNCHANGED handles,
           NEW op \in {"open", "read", "write", "release", "truncate", "unlink"},
           NEW p \in Path, NEW h \in Nat, NEW off \in Nat, NEW pc \in Working, NEW kind, NEW arg,
           Ask(t, Call(op, p, h, off), pc, kind, arg),
           \/ kind \in PlainKind /\ arg = <<>>
           \/ kind = "download" /\ arg \in Nat \X Nat,
           pc = "file" /\ op # "truncate" => h \in Handle /\ fhs[t[1]][h] \in FhState
    PROVE  FileInv'
<1>1. /\ Types /\ Buffered /\ InUse /\ calls < MaxCalls /\ calls' = calls + 1 /\ t[1] \in Client
      /\ UNCHANGED <<client, replies, downloads, down, host, faults>>
    BY ClientOf DEF FileInv, Begin
<1>2. calls' \in 0 .. MaxCalls
    BY <1>1, WebFilesAssumption DEF Types, ClientTypes
<1> DEFINE call == Call(op, p, h, off)
<1>3. call \in CallState /\ call.op = op /\ call.h = h
    <2>1. call \in CallState
        BY <1>1, CallType
    <2> QED
        BY <2>1 DEF Call
<1> HIDE DEF call
<1>4. /\ up' \in [Client -> Seq(Message)] /\ nextId' \in [Client -> Nat]
      /\ th' \in [Thread -> CallState \cup {Idle}]
      /\ th'[t] = [call EXCEPT !.pc = pc, !.id = nextId[t[1]]]
      /\ \A u \in Thread : u # t => th'[u] = th[u]
    BY <1>1, <1>3, AskType DEF call
<1>5. th'[t].pc = pc /\ th'[t].op = op /\ th'[t].h = h
    BY <1>3, <1>4 DEF CallState
<1>6. InUse'
    BY <1>1, <1>4, <1>5, InUseKept DEF handles
<1>7. Types' /\ Buffered'
    BY <1>1, <1>2, <1>4 DEF Types, ClientTypes, ChannelTypes, HostTypes, client, handles, host, Buffered, Keeps
<1> QED
    BY <1>6, <1>7 DEF FileInv

LEMMA Ranges ==
    /\ Whole \in Nat \X Nat
    /\ \A off \in Nat : Range1(off) \in Nat \X Nat
BY WebFilesAssumption DEF Whole, Range1

LEMMA HandleNat == Handle \subseteq Nat /\ 0 \notin Handle
BY WebFilesAssumption DEF Handle

LEMMA HandleState ==
    ASSUME Types, NEW c \in Client, NEW h \in Handle, fhs[c][h] # NoFh
    PROVE  fhs[c][h] \in FhState
BY DEF Types, ClientTypes

LEMMA LoadsKeeps ==
    ASSUME FileInv, NEW t \in Thread, NEW op \in {"read", "write"}, NEW h \in Handle, NEW off \in 0 .. Size - 1,
           Loads(t, op, h, off)
    PROVE  FileInv'
<1>1. t[1] \in Client /\ Types
    BY ClientOf DEF FileInv
<1>2. fhs[t[1]][h] \in FhState
    BY <1>1, HandleState DEF Loads
<1>3. fhs[t[1]][h].path \in Path
    BY <1>2 DEF FhState
<1>4. off \in Nat /\ h \in Nat
    BY WebFilesAssumption, HandleNat
<1>5. \E arg \in Nat \X Nat : Ask(t, Call(op, fhs[t[1]][h].path, h, off), "file", "download", arg)
    BY <1>4, Ranges DEF Loads
<1> QED
    BY <1>2, <1>3, <1>4, <1>5, AsksKeeps DEF Loads, Working

LEMMA TruncateKeeps ==
    ASSUME FileInv, NEW t \in Thread, NEW p \in Path, NEW n \in 0 .. Size, Truncate(t, p, n)
    PROVE  FileInv'
<1>1. n \in Nat
    BY WebFilesAssumption
<1> QED
    BY <1>1, Ranges, AsksKeeps DEF Truncate, Working

LEMMA UnlinkKeeps ==
    ASSUME FileInv, NEW t \in Thread, NEW p \in Path, Unlink(t, p)
    PROVE  FileInv'
BY AsksKeeps DEF Unlink, Working, PlainKind

LEMMA WriteLoadedKeeps ==
    ASSUME FileInv, NEW t \in Thread, NEW h \in Handle, NEW off \in 0 .. Size - 1, WriteLoaded(t, h, off)
    PROVE  FileInv'
<1>1. /\ Types /\ Buffered /\ InUse /\ calls < MaxCalls /\ calls' = calls + 1 /\ t[1] \in Client
      /\ UNCHANGED <<client, replies, downloads, down, host, faults, nextFh, nextId, up, th>>
    BY ClientOf DEF FileInv, WriteLoaded, Begin
<1>2. calls' \in 0 .. MaxCalls /\ calls + 1 \in Cell /\ off \in Nat
    BY <1>1, WebFilesAssumption DEF Types, ClientTypes, Cell
<1> DEFINE f == fhs[t[1]][h]
           g == Written(f, off, calls + 1)
<1>3. f \in FhState /\ Keeps(f)
    BY <1>1, HandleState DEF WriteLoaded, Buffered
<1>4. g \in FhState /\ Keeps(g)
    BY <1>2, <1>3, WrittenType
<1>5. fhs' = [fhs EXCEPT ![t[1]][h] = g]
    BY DEF WriteLoaded
<1> HIDE DEF g, f
<1>6. /\ fhs' \in [Client -> [Handle -> FhState \cup {NoFh}]]
      /\ Buffered'
      /\ \A d \in Client, k \in Handle : fhs[d][k] \in FhState => fhs'[d][k] \in FhState
    BY <1>1, <1>4, <1>5, HandleChanges
<1>7. InUse'
    BY <1>1, <1>6, ClientOf DEF InUse
<1>8. Types'
    BY <1>1, <1>2, <1>6 DEF Types, ClientTypes, ChannelTypes, HostTypes, client, host
<1> QED
    BY <1>6, <1>7, <1>8 DEF FileInv

LEMMA ReleaseKeeps ==
    ASSUME FileInv, NEW t \in Thread, NEW h \in Handle, Release(t, h)
    PROVE  FileInv'
<1> DEFINE f == fhs[t[1]][h]
           call == [Call("release", f.path, 0, 0) EXCEPT !.buf = f.data]
<1>1. /\ Types /\ Buffered /\ InUse /\ calls < MaxCalls /\ calls' = calls + 1 /\ t[1] \in Client
      /\ UNCHANGED <<client, replies, downloads, down, host, faults, nextFh, nextId, up>>
      /\ th[t].pc = "idle"
      /\ fhs' = [fhs EXCEPT ![t[1]][h] = NoFh]
      /\ Goes(t, call) \/ UNCHANGED th
    BY ClientOf DEF FileInv, Release, Begin
<1>2. calls' \in 0 .. MaxCalls
    BY <1>1, WebFilesAssumption DEF Types, ClientTypes
<1>3. f \in FhState /\ f.path \in Path /\ f.data \in Seq(Cell)
    <2>1. f \in FhState
        BY <1>1, HandleState DEF Release
    <2> QED
        BY <2>1 DEF FhState
<1>4. call \in CallState /\ call.pc = "upload"
    <2>1. call \in CallState
        BY <1>1, <1>3, CallType
    <2> QED
        BY <2>1 DEF Call
<1> HIDE DEF call
<1>5. /\ th' \in [Thread -> CallState \cup {Idle}] /\ th'[t].pc # "file"
      /\ \A u \in Thread : u # t => th'[u] = th[u]
    <2>1. CASE Goes(t, call)
        BY <1>1, <1>4, <2>1, GoesType
    <2>2. CASE UNCHANGED th
        BY <1>1, <2>2 DEF Types, ClientTypes
    <2> QED
        BY <1>1, <2>1, <2>2
<1>6. \A u \in Thread : u[1] = t[1] => th[u].pc = "idle" \/ th[u].h # h
    BY DEF Release, Using
<1>7. /\ fhs' \in [Client -> [Handle -> FhState \cup {NoFh}]]
      /\ Buffered'
      /\ \A d \in Client, k \in Handle : fhs[d][k] \in FhState /\ (d # t[1] \/ k # h) => fhs'[d][k] \in FhState
    <2>1. NoFh \in FhState => Keeps(NoFh)
        BY DEF NoFh, FhState, Keeps
    <2>2. NoFh \in FhState \cup {NoFh}
        OBVIOUS
    <2> HIDE DEF f
    <2> QED
        BY <1>1, <2>1, <2>2, HandleChanges
<1>8. InUse'
    <2> SUFFICES ASSUME NEW u \in Thread, th'[u].pc = "file", th'[u].op # "truncate"
                 PROVE  th'[u].h \in Handle /\ fhs'[u[1]][th'[u].h] \in FhState
        BY DEF InUse
    <2>1. u # t /\ th'[u] = th[u] /\ u[1] \in Client
        BY <1>5, ClientOf
    <2>2. th[u].h \in Handle /\ fhs[u[1]][th[u].h] \in FhState
        BY <1>1, <2>1 DEF InUse
    <2>3. u[1] # t[1] \/ th[u].h # h
        BY <1>6, <2>1
    <2> QED
        BY <1>7, <2>1, <2>2, <2>3
<1>9. Types'
    BY <1>1, <1>2, <1>5, <1>7 DEF Types, ClientTypes, ChannelTypes, HostTypes, client, host
<1> QED
    BY <1>7, <1>8, <1>9 DEF FileInv


\* Its path, buffer and the cell it is at, of a thread that is in a call.
LEMMA CallFields ==
    ASSUME Types, NEW t \in Thread, th[t].pc # "idle"
    PROVE  /\ th[t] \in CallState /\ th[t].pc \in Working \cup {"upload"} /\ th[t].path \in Path
           /\ th[t].off \in Nat /\ th[t].buf \in Seq(Cell) /\ th[t].id \in Nat /\ th[t].val \in Cell
<1>1. th[t] \in CallState
    BY DEF Types, ClientTypes, Idle
<1> QED
    BY <1>1 DEF CallState

LEMMA UploadStartKeeps ==
    ASSUME FileInv, NEW t \in Thread, UploadStart(t)
    PROVE  FileInv'
<1>1. /\ Types /\ Buffered /\ InUse /\ th[t].pc = "upload"
      /\ UNCHANGED <<client, handles, replies, downloads, calls, down, host, faults>>
    BY DEF FileInv, UploadStart, Uploads
<1>2. /\ up' \in [Client -> Seq(Message)] /\ nextId' \in [Client -> Nat]
      /\ th' \in [Thread -> CallState \cup {Idle}] /\ th'[t].pc # "file"
      /\ \A u \in Thread : u # t => th'[u] = th[u]
    <2>1. CASE Fails(t)
        <3>1. Returns(t) /\ UNCHANGED <<up, nextId>>
            BY <2>1 DEF Fails
        <3> QED
            BY <1>1, <3>1, ReturnsType DEF Types, ClientTypes, ChannelTypes, Idle
    <2>2. CASE Ask(t, th[t], "ready", "uploadStart", <<>>)
        <3>1. th[t] \in CallState
            BY <1>1, CallFields
        <3>2. /\ up' \in [Client -> Seq(Message)] /\ nextId' \in [Client -> Nat]
              /\ th' \in [Thread -> CallState \cup {Idle}]
              /\ th'[t] = [th[t] EXCEPT !.pc = "ready", !.id = nextId[t[1]]]
              /\ \A u \in Thread : u # t => th'[u] = th[u]
            BY <1>1, <2>2, <3>1, AskType DEF PlainKind, Working
        <3> QED
            BY <3>1, <3>2 DEF CallState
    <2> QED
        BY <2>1, <2>2 DEF UploadStart
<1>3. InUse'
    BY <1>1, <1>2, InUseKept DEF handles
<1>4. Types' /\ Buffered'
    BY <1>1, <1>2 DEF Types, ClientTypes, ChannelTypes, HostTypes, client, handles, host, Buffered, Keeps
<1> QED
    BY <1>3, <1>4 DEF FileInv

LEMMA SendChunkKeeps ==
    ASSUME FileInv, NEW t \in Thread, SendChunk(t)
    PROVE  FileInv'
<1>1. /\ Types /\ Buffered /\ InUse /\ th[t].pc = "chunks"
      /\ UNCHANGED <<client, handles, replies, downloads, calls, down, host, faults, nextId>>
    BY DEF FileInv, SendChunk, Uploads, Fails
<1>2. /\ th[t] \in CallState /\ th[t].path \in Path /\ th[t].off \in Nat /\ th[t].buf \in Seq(Cell) /\ th[t].id \in Nat
    BY <1>1, CallFields
<1>3. /\ up' \in [Client -> Seq(Message)]
      /\ th' \in [Thread -> CallState \cup {Idle}] /\ th'[t].pc # "file"
      /\ \A u \in Thread : u # t => th'[u] = th[u]
    <2>1. CASE Fails(t)
        <3>1. Returns(t) /\ UNCHANGED up
            BY <2>1 DEF Fails
        <3> QED
            BY <1>1, <3>1, ReturnsType DEF Types, ChannelTypes, Idle
    <2>2. CASE /\ th[t].off < Len(th[t].buf)
               /\ Send(t, Msg(t, "bin", th[t].id, th[t].path, th[t].buf[th[t].off + 1]))
               /\ Goes(t, [th[t] EXCEPT !.off = @ + 1])
        <3>1. th[t].buf[th[t].off + 1] \in Cell
            BY <1>2, <2>2
        <3>2. Msg(t, "bin", th[t].id, th[t].path, th[t].buf[th[t].off + 1]) \in Message
            BY <1>2, <3>1, Messages DEF Msg
        <3>3. /\ [th[t] EXCEPT !.off = @ + 1] \in CallState
              /\ [th[t] EXCEPT !.off = @ + 1].pc = "chunks"
            BY <1>1, <1>2 DEF CallState
        <3> QED
            BY <1>1, <2>2, <3>2, <3>3, SendType, GoesType
    <2>3. CASE /\ Send(t, Msg(t, "uploadEnd", th[t].id, th[t].path, <<>>))
               /\ Goes(t, [th[t] EXCEPT !.pc = "ending"])
        <3>1. Msg(t, "uploadEnd", th[t].id, th[t].path, <<>>) \in Message
            BY <1>2, Messages DEF Msg, PlainKind
        <3>2. [th[t] EXCEPT !.pc = "ending"] \in CallState /\ [th[t] EXCEPT !.pc = "ending"].pc = "ending"
            BY <1>2 DEF CallState, Working
        <3> QED
            BY <1>1, <2>3, <3>1, <3>2, SendType, GoesType
    <2> QED
        BY <2>1, <2>2, <2>3 DEF SendChunk
<1>4. InUse'
    BY <1>1, <1>3, InUseKept DEF handles
<1>5. Types' /\ Buffered'
    BY <1>1, <1>3 DEF Types, ClientTypes, ChannelTypes, HostTypes, client, handles, host, Buffered, Keeps
<1> QED
    BY <1>4, <1>5 DEF FileInv

\* What a thread does with its answer, or without one.
LEMMA ContinueType ==
    ASSUME FileInv, NEW t \in Thread, Waits(t), NEW r, Continue(t, r)
    PROVE  /\ fhs' \in [Client -> [Handle -> FhState \cup {NoFh}]] /\ nextFh' \in [Client -> Nat]
           /\ Buffered' /\ InUse'
           /\ th' \in [Thread -> CallState \cup {Idle}]
           /\ \A u \in Thread : u # t => th'[u] = th[u]
           /\ \/ th'[t] = Idle
              \/ /\ th'[t].pc = "upload" /\ th'[t].off = 0
              \/ /\ th[t].pc = "ready" /\ th'[t] = [th[t] EXCEPT !.pc = "chunks"]
<1>1. Types /\ Buffered /\ InUse /\ t[1] \in Client
    BY ClientOf DEF FileInv
<1> DEFINE call == th[t]
<1>2. /\ call \in CallState /\ call.path \in Path /\ call.off \in Nat /\ call.buf \in Seq(Cell) /\ call.val \in Cell
    BY <1>1, CallFields DEF Waits
<1>3. CASE /\ NewHandle(t[1], th[t].path, r.t = "listResult" /\ th[t].path \notin r.arg)
           /\ Returns(t)
    <2>1. (r.t = "listResult" /\ th[t].path \notin r.arg) \in BOOLEAN
        OBVIOUS
    <2>2. /\ fhs' \in [Client -> [Handle -> FhState \cup {NoFh}]] /\ nextFh' \in [Client -> Nat]
          /\ Buffered'
          /\ \A d \in Client, g \in Handle : fhs[d][g] \in FhState => fhs'[d][g] \in FhState
        BY <1>1, <1>2, <1>3, <2>1, NewHandleType
    <2>3. th' \in [Thread -> CallState \cup {Idle}] /\ th'[t] = Idle /\ \A u \in Thread : u # t => th'[u] = th[u]
        BY <1>1, <1>3, ReturnsType
    <2>4. InUse'
        BY <1>1, <2>2, <2>3, InUseKept DEF Idle
    <2> QED
        BY <2>2, <2>3, <2>4
<1>4. CASE Returns(t) /\ UNCHANGED handles
    <2>1. th' \in [Thread -> CallState \cup {Idle}] /\ th'[t] = Idle /\ \A u \in Thread : u # t => th'[u] = th[u]
        BY <1>1, <1>4, ReturnsType
    <2>2. InUse'
        BY <1>1, <1>4, <2>1, InUseKept DEF Idle, handles
    <2> QED
        BY <1>1, <1>4, <2>1, <2>2 DEF handles, Types, ClientTypes, Buffered, Keeps
<1>5. CASE /\ th[t].pc = "ready" /\ Goes(t, [th[t] EXCEPT !.pc = "chunks"]) /\ UNCHANGED handles
    <2>1. [th[t] EXCEPT !.pc = "chunks"] \in CallState /\ [th[t] EXCEPT !.pc = "chunks"].pc = "chunks"
        BY <1>2 DEF CallState, Working
    <2>2. /\ th' \in [Thread -> CallState \cup {Idle}] /\ th'[t] = [th[t] EXCEPT !.pc = "chunks"]
          /\ \A u \in Thread : u # t => th'[u] = th[u]
        BY <1>1, <1>5, <2>1, GoesType
    <2>3. InUse'
        BY <1>1, <1>5, <2>1, <2>2, InUseKept DEF handles
    <2> QED
        BY <1>1, <1>5, <2>2, <2>3 DEF handles, Types, ClientTypes, Buffered, Keeps
<1>6. CASE th[t].pc = "file" /\ GotFile(t, Fetched(t))
    <2> DEFINE data == Fetched(t)
               f == Installed(fhs[t[1]][call.h], data)
    <2>1. data \in Seq(Cell)
        BY <1>1, FetchedType
    <2>2. CASE /\ call.op = "truncate"
               /\ Goes(t, [call EXCEPT !.pc = "upload", !.buf = Resized(data, call.off), !.off = 0])
               /\ UNCHANGED handles
        <3> DEFINE next == [call EXCEPT !.pc = "upload", !.buf = Resized(data, call.off), !.off = 0]
        <3>1. Resized(data, call.off) \in Seq(Cell)
            BY <1>2, <2>1, ResizedType
        <3>2. next \in CallState /\ next.pc = "upload" /\ next.off = 0
            BY <1>2, <3>1 DEF CallState
        <3> HIDE DEF next
        <3>3. /\ th' \in [Thread -> CallState \cup {Idle}] /\ th'[t] = next
              /\ \A u \in Thread : u # t => th'[u] = th[u]
            BY <1>1, <2>2, <3>2, GoesType DEF next
        <3>4. InUse'
            BY <1>1, <2>2, <3>2, <3>3, InUseKept DEF handles
        <3> QED
            BY <1>1, <2>2, <3>2, <3>3, <3>4 DEF handles, Types, ClientTypes, Buffered, Keeps
    <2>3. CASE /\ call.op # "truncate"
               /\ fhs' = [fhs EXCEPT ![t[1]][call.h] = IF call.op = "write" THEN Written(f, call.off, call.val) ELSE f]
               /\ Returns(t) /\ UNCHANGED nextFh
        <3> DEFINE g == IF call.op = "write" THEN Written(f, call.off, call.val) ELSE f
        <3>1. call.h \in Handle /\ fhs[t[1]][call.h] \in FhState
            BY <1>1, <1>6, <2>3 DEF InUse
        <3>2. f \in FhState /\ Keeps(f)
            BY <1>1, <2>1, <3>1, InstalledType DEF Buffered
        <3> HIDE DEF f
        <3>3. g \in FhState /\ Keeps(g)
            BY <1>2, <3>2, WrittenType
        <3>4. fhs' = [fhs EXCEPT ![t[1]][call.h] = g]
            BY <2>3
        <3> HIDE DEF g
        <3>5. /\ fhs' \in [Client -> [Handle -> FhState \cup {NoFh}]]
              /\ Buffered'
              /\ \A d \in Client, k \in Handle : fhs[d][k] \in FhState => fhs'[d][k] \in FhState
            BY <1>1, <3>3, <3>4, HandleChanges
        <3>6. th' \in [Thread -> CallState \cup {Idle}] /\ th'[t] = Idle /\ \A u \in Thread : u # t => th'[u] = th[u]
            BY <1>1, <2>3, ReturnsType
        <3>7. InUse'
            BY <1>1, <3>5, <3>6, InUseKept DEF Idle
        <3> QED
            BY <1>1, <2>3, <3>5, <3>6, <3>7 DEF Types, ClientTypes
    <2> QED
        BY <1>4, <1>6, <2>2, <2>3 DEF GotFile
<1> QED
    BY <1>3, <1>4, <1>5, <1>6 DEF Continue

LEMMA WaitEndsKeeps ==
    ASSUME FileInv, NEW t \in Thread, NEW r, WaitEnds(t), Continue(t, r),
           replies' \in [Client -> SUBSET Message],
           DOMAIN downloads' = Client,
           \A c \in Client : \A i \in DOMAIN downloads'[c] : downloads'[c][i] \in Seq(Bin)
    PROVE  FileInv'
<1>1. UNCHANGED <<client, nextId, calls, chan, host>> /\ Waits(t) /\ Types
    BY DEF WaitEnds, FileInv
<1>2. /\ fhs' \in [Client -> [Handle -> FhState \cup {NoFh}]] /\ nextFh' \in [Client -> Nat]
      /\ Buffered' /\ InUse'
      /\ th' \in [Thread -> CallState \cup {Idle}]
    BY <1>1, ContinueType
<1>3. Types'
    BY <1>1, <1>2 DEF Types, ClientTypes, ChannelTypes, HostTypes, client, chan, host
<1> QED
    BY <1>2, <1>3 DEF FileInv

LEMMA AnsweredKeeps ==
    ASSUME FileInv, NEW t \in Thread, Answered(t)
    PROVE  FileInv'
<1>1. PICK r \in ReplyTo(t) : Continue(t, r) /\ replies' = [replies EXCEPT ![t[1]] = @ \ {r}]
    BY DEF Answered
<1>2. t[1] \in Client /\ Types /\ WaitEnds(t)
    BY ClientOf DEF FileInv, Answered
<1>3. replies' \in [Client -> SUBSET Message]
    BY <1>1, <1>2 DEF Types, ClientTypes
<1>4. /\ DOMAIN downloads' = Client
      /\ \A c \in Client : \A i \in DOMAIN downloads'[c] : downloads'[c][i] \in Seq(Bin)
    <2>1. /\ DOMAIN downloads = Client
          /\ \A c \in Client : \A i \in DOMAIN downloads[c] : downloads[c][i] \in Seq(Bin)
        BY <1>2 DEF Types, ClientTypes
    <2>2. CASE downloads' = downloads
        BY <2>1, <2>2
    <2>3. CASE downloads' = [downloads EXCEPT ![t[1]] = Restrict(@, DOMAIN @ \ {th[t].id})]
        <3>1. DOMAIN downloads' = Client
            BY <2>1, <2>3
        <3>2. ASSUME NEW c \in Client, c # t[1]
              PROVE  downloads'[c] = downloads[c]
            BY <2>1, <2>3, <3>2
        <3>3. downloads'[t[1]] = [i \in DOMAIN downloads[t[1]] \ {th[t].id} |-> downloads[t[1]][i]]
            BY <1>2, <2>1, <2>3 DEF Restrict
        <3> QED
            BY <2>1, <3>1, <3>2, <3>3
    <2> QED
        BY <2>2, <2>3 DEF Answered
<1> QED
    BY <1>1, <1>2, <1>3, <1>4, WaitEndsKeeps

LEMMA GivesUpKeeps ==
    ASSUME FileInv, NEW t \in Thread, GivesUp(t)
    PROVE  FileInv'
<1>1. WaitEnds(t) /\ Continue(t, NoReply) /\ UNCHANGED <<replies, downloads>> /\ Types
    BY DEF GivesUp, FileInv
<1>2. /\ replies' \in [Client -> SUBSET Message] /\ DOMAIN downloads' = Client
      /\ \A c \in Client : \A i \in DOMAIN downloads'[c] : downloads'[c][i] \in Seq(Bin)
    BY <1>1 DEF Types, ClientTypes
<1> QED
    BY <1>1, <1>2, WaitEndsKeeps


\* Threads and handles stay.
LEMMA StillKeeps ==
    ASSUME FileInv, UNCHANGED <<th, fhs>>, Types'
    PROVE  FileInv'
BY DEF FileInv, Buffered, Keeps, InUse

LEMMA DeliverKeeps ==
    ASSUME FileInv, NEW c \in Client, Deliver(c)
    PROVE  FileInv'
<1>1. /\ Types /\ down[c] \in Seq(Message) /\ down[c] # <<>>
      /\ UNCHANGED <<client, handles, nextId, th, calls, up, host, faults>>
      /\ down' = [down EXCEPT ![c] = Tail(@)]
    BY DEF FileInv, Types, ChannelTypes, Deliver
<1> DEFINE m == Head(down[c])
<1>2. m \in Message /\ Tail(down[c]) \in Seq(Message)
    BY <1>1
<1>3. m.id \in Nat /\ (m.t = "bin" => m \in Bin)
    BY <1>2, MessageFields
<1>4. down' \in [Client -> Seq(Message)]
    BY <1>1, <1>2 DEF Types, ChannelTypes
<1>5. CASE /\ m.t = "bin"
           /\ downloads' = [downloads EXCEPT ![c] =
                              [i \in DOMAIN @ \cup {m.id} |-> IF i = m.id THEN Append(Bins(c, i), m) ELSE @[i]]]
           /\ UNCHANGED replies
    <2> DEFINE new == [i \in DOMAIN downloads[c] \cup {m.id} |->
                         IF i = m.id THEN Append(Bins(c, i), m) ELSE downloads[c][i]]
    <2>1. /\ DOMAIN downloads = Client
          /\ \A d \in Client : \A i \in DOMAIN downloads[d] : downloads[d][i] \in Seq(Bin)
        BY <1>1 DEF Types, ClientTypes
    <2>2. DOMAIN downloads' = Client /\ downloads'[c] = new /\ \A d \in Client : d # c => downloads'[d] = downloads[d]
        BY <1>5, <2>1
    <2>3. Bins(c, m.id) \in Seq(Bin)
        BY <2>1 DEF Bins
    <2>4. Append(Bins(c, m.id), m) \in Seq(Bin)
        <3>1. m \in Bin
            BY <1>3, <1>5
        <3> HIDE DEF m
        <3> QED
            BY <2>3, <3>1
    <2>5. \A i \in DOMAIN new : new[i] \in Seq(Bin)
        <3> HIDE DEF m
        <3> QED
            BY <2>1, <2>4
    <2> HIDE DEF new
    <2>6. \A d \in Client : \A i \in DOMAIN downloads'[d] : downloads'[d][i] \in Seq(Bin)
        BY <2>1, <2>2, <2>5
    <2>7. Types'
        BY <1>1, <1>4, <1>5, <2>2, <2>6 DEF Types, ClientTypes, ChannelTypes, HostTypes, client, handles, host
    <2> QED
        BY <1>1, <2>7, StillKeeps DEF handles
<1>6. CASE replies' = [replies EXCEPT ![c] = {r \in @ : r.id # m.id} \cup {m}] /\ UNCHANGED downloads
    <2>1. replies' \in [Client -> SUBSET Message]
        BY <1>2, <1>6 DEF Types, ClientTypes, FileInv
    <2>2. Types'
        BY <1>1, <1>4, <1>6, <2>1 DEF Types, ClientTypes, ChannelTypes, HostTypes, client, handles, host
    <2> QED
        BY <1>1, <2>2, StillKeeps DEF handles
<1> QED
    BY <1>5, <1>6 DEF Deliver

LEMMA ClosedKeeps ==
    ASSUME FileInv, NEW c \in Client, Closed(c)
    PROVE  FileInv'
<1>1. Types'
    <2>1. <<>> \in Seq(Message)
        OBVIOUS
    <2>2. /\ Types /\ open' = [open EXCEPT ![c] = FALSE] /\ dead' = [dead EXCEPT ![c] = TRUE]
          /\ up' = [up EXCEPT ![c] = <<>>] /\ down' = [down EXCEPT ![c] = <<>>]
          /\ UNCHANGED <<canRange, handles, waiting, th, calls, host, faults>>
        BY DEF FileInv, Closed, Dead
    <2>3. open' \in [Client -> BOOLEAN] /\ dead' \in [Client -> BOOLEAN]
        BY <2>2 DEF Types, ClientTypes
    <2>4. ChannelTypes'
        BY <2>1, <2>2 DEF Types, ChannelTypes
    <2> QED
        BY <2>2, <2>3, <2>4 DEF Types, ClientTypes, HostTypes, handles, waiting, host
<1> QED
    BY <1>1, StillKeeps DEF Closed, handles

LEMMA SignallingLostKeeps ==
    ASSUME FileInv, NEW c \in Client, SignallingLost(c)
    PROVE  FileInv'
<1>1. Types'
    <2>1. /\ Types /\ dead' = [dead EXCEPT ![c] = TRUE]
          /\ UNCHANGED <<open, canRange, handles, waiting, th, calls, chan, host>>
        BY DEF FileInv, SignallingLost, Dead
    <2>2. dead' \in [Client -> BOOLEAN]
        BY <2>1 DEF Types, ClientTypes
    <2> QED
        BY <2>1, <2>2 DEF Types, ClientTypes, ChannelTypes, HostTypes, handles, waiting, chan, host
<1> QED
    BY <1>1, StillKeeps DEF SignallingLost, handles

(****************************** the host ***********************************)

LEMMA AnswerType ==
    ASSUME Types, NEW c \in Client, NEW m \in Message, NEW kind, NEW arg, Answer(c, m, kind, arg),
           \/ kind \in PlainKind /\ arg = <<>>
           \/ kind = "listResult" /\ arg \in SUBSET Path
           \/ kind = "bin" /\ arg \in Cell
    PROVE  down' \in [Client -> Seq(Message)]
<1> DEFINE a == [m EXCEPT !.t = kind, !.arg = arg]
<1>1. a \in Message
    BY AnswerFields
<1>2. down' = [down EXCEPT ![c] = Append(@, a)]
    BY DEF Answer
<1> HIDE DEF a
<1> QED
    BY <1>1, <1>2 DEF Types, ChannelTypes

LEMMA UploadFields ==
    ASSUME NEW u \in UploadState
    PROVE  /\ u.path \in Path /\ u.pos \in Nat
           /\ LET v == [u EXCEPT !.pos = @ + 1]
              IN  /\ v \in UploadState /\ v.id = u.id /\ v.path = u.path /\ v.by = u.by
                  /\ v.pos = u.pos + 1 /\ v.open = u.open /\ v.clean = u.clean
           /\ LET v == [u EXCEPT !.open = FALSE, !.clean = FALSE]
              IN  /\ v \in UploadState /\ v.id = u.id /\ v.path = u.path /\ v.by = u.by
                  /\ v.open = FALSE /\ v.clean = FALSE
<1>1. u.path \in Path /\ u.pos \in Nat /\ u.pos + 1 \in Nat
    BY DEF UploadState
<1>2. LET v == [u EXCEPT !.pos = @ + 1]
      IN  v.id = u.id /\ v.path = u.path /\ v.by = u.by /\ v.pos = u.pos + 1 /\ v.open = u.open /\ v.clean = u.clean
    BY DEF UploadState
<1>3. [u EXCEPT !.pos = @ + 1] \in UploadState
    BY <1>1 DEF UploadState
<1>4. LET v == [u EXCEPT !.open = FALSE, !.clean = FALSE]
      IN  v.id = u.id /\ v.path = u.path /\ v.by = u.by /\ v.open = FALSE /\ v.clean = FALSE
    BY DEF UploadState
<1>5. [u EXCEPT !.open = FALSE, !.clean = FALSE] \in UploadState
    BY DEF UploadState
<1> QED
    BY <1>1, <1>2, <1>3, <1>4, <1>5

LEMMA SpoilsType ==
    ASSUME Types, NEW path
    PROVE  /\ Spoils(path) \subseteq UploadState
           /\ \A u \in Spoils(path) : \E v \in uploads : /\ u.id = v.id /\ u.path = v.path /\ u.pos = v.pos /\ u.by = v.by
                                                         /\ u.open = v.open
                                                         /\ u.clean => v.clean /\ v.path # path
           /\ \A u \in uploads : \E v \in Spoils(path) : u.id = v.id
           /\ \A u \in uploads : u.path # path => u \in Spoils(path)
           /\ \A u, v \in Spoils(path) : u.id = v.id => u = v
<1> DEFINE s(u) == IF u.path = path THEN [u EXCEPT !.clean = FALSE] ELSE u
<1>1. ASSUME NEW u \in uploads
      PROVE  /\ s(u) \in UploadState
             /\ s(u).id = u.id /\ s(u).path = u.path /\ s(u).pos = u.pos /\ s(u).by = u.by /\ s(u).open = u.open
             /\ s(u).clean => u.clean /\ u.path # path
    <2>1. u \in UploadState
        BY DEF Types, HostTypes
    <2>2. CASE u.path = path
        BY <2>1, <2>2 DEF UploadState
    <2>3. CASE u.path # path
        BY <2>1, <2>3 DEF UploadState
    <2> QED
        BY <2>2, <2>3
<1>2. Spoils(path) = {s(u) : u \in uploads}
    BY DEF Spoils
<1>3. \A u \in uploads : u.path # path => s(u) = u
    OBVIOUS
<1>4. \A u, v \in uploads : u.id = v.id => u = v
    BY DEF Types, HostTypes
<1> HIDE DEF s
<1> QED
    BY <1>1, <1>2, <1>3, <1>4

LEMMA CutType ==
    ASSUME NEW range \in Nat \X Nat, NEW size \in Nat
    PROVE  Cut(range, size) \in Nat \X Nat
<1> DEFINE a == range[2]
           b == IF range[1] < size THEN size - range[1] ELSE 0
<1>1. a \in Nat /\ b \in Nat /\ range[1] \in Nat
    OBVIOUS
<1> HIDE DEF a, b
<1>2. Min({a, b}) \in {a, b}
    <2>1. \E x \in {a, b} : \A y \in {a, b} : x <= y
        BY <1>1
    <2> QED
        BY <2>1 DEF Min
<1>3. Min({a, b}) \in Nat
    BY <1>1, <1>2
<1> QED
    BY <1>1, <1>3 DEF Cut, a, b

LEMMA FileType ==
    ASSUME Types, NEW p \in Path
    PROVE  /\ file[p] \in Seq(Cell) \cup {Absent}
           /\ file[p] # Absent => file[p] \in Seq(Cell) /\ Len(file[p]) \in Nat
BY DEF Types, HostTypes

LEMMA HostTakesKeeps ==
    ASSUME FileInv, NEW c \in Client, HostTakes(c)
    PROVE  FileInv'
<1> DEFINE m == Head(up[c])
<1>1. /\ Types /\ up[c] \in Seq(Message) /\ up[c] # <<>> /\ up' = [up EXCEPT ![c] = Tail(@)]
      /\ UNCHANGED <<client, handles, waiting, th, calls>>
      /\ \/ HostLists(c, m) \/ HostDeletes(c, m) \/ HostDownloads(c, m)
         \/ HostStarts(c, m) \/ HostWrites(c, m) \/ HostEnds(c, m)
    BY DEF FileInv, Types, ChannelTypes, HostTakes
<1>2. m \in Message /\ up' \in [Client -> Seq(Message)]
    BY <1>1 DEF Types, ChannelTypes
<1>3. m.id \in Nat /\ m.path \in Path /\ (m.t = "bin" => m.arg \in Cell) /\ (m.t = "download" => m \in Download)
    BY <1>2, MessageFields
<1> HIDE DEF m
<1> SUFFICES down' \in [Client -> Seq(Message)] /\ HostTypes'
    <2>1. Types'
        BY <1>1, <1>2 DEF Types, ClientTypes, ChannelTypes, client, handles, waiting
    <2> QED
        BY <1>1, <2>1, StillKeeps DEF handles
<1>4. CASE HostLists(c, m)
    <2>1. {p \in Path : file[p] # Absent} \in SUBSET Path
        OBVIOUS
    <2>2. down' \in [Client -> Seq(Message)]
        BY <1>1, <1>2, <1>4, <2>1, AnswerType DEF HostLists
    <2> QED
        BY <1>1, <1>4, <2>2 DEF HostLists, host, Types, HostTypes
<1>5. CASE HostDeletes(c, m)
    <2>1. down' \in [Client -> Seq(Message)]
        BY <1>1, <1>2, <1>5, AnswerType DEF HostDeletes, PlainKind
    <2>2. uploads' \subseteq UploadState /\ \A u, v \in uploads' : u.id = v.id => u = v
        BY <1>1, <1>5, SpoilsType DEF HostDeletes
    <2> QED
        BY <1>1, <1>3, <1>5, <2>1, <2>2 DEF HostDeletes, Types, HostTypes
<1>6. CASE HostDownloads(c, m)
    <2>1. m.arg \in Nat \X Nat /\ m \in Download
        BY <1>2, <1>3, <1>6, MessageFields DEF HostDownloads
    <2>2. CASE file[m.path] = Absent
        <3>1. down' \in [Client -> Seq(Message)]
            BY <1>1, <1>2, <1>6, <2>2, AnswerType DEF HostDownloads, PlainKind
        <3> QED
            BY <1>1, <1>6, <2>2, <3>1 DEF HostDownloads, Types, HostTypes
    <2>3. CASE file[m.path] # Absent
        <3>1. Len(file[m.path]) \in Nat
            BY <1>1, <1>3, <2>3, FileType
        <3>2. Cut(m.arg, Len(file[m.path])) \in Nat \X Nat
            BY <2>1, <3>1, CutType
        <3>3. [m EXCEPT !.arg = Cut(@, Len(file[m.path]))] \in Download
            BY <2>1, <3>2 DEF Download, Record
        <3> QED
            BY <1>1, <1>6, <2>3, <3>3 DEF HostDownloads, Types, HostTypes, ChannelTypes
    <2> QED
        BY <2>2, <2>3
<1>7. CASE HostStarts(c, m)
    <2> DEFINE others == {u \in Spoils(m.path) : u.id # m.id}
               busy == \E u \in others : u.path = m.path
               new(ok) == [id |-> m.id, by |-> c, path |-> m.path, pos |-> 0, open |-> ok, clean |-> ok /\ ~busy]
    <2>1. down' \in [Client -> Seq(Message)]
        BY <1>1, <1>2, <1>7, AnswerType DEF HostStarts, PlainKind
    <2>2. /\ others \subseteq UploadState
          /\ \A u, v \in others : u.id = v.id => u = v
          /\ \A u \in others : u.id # m.id
        BY <1>1, SpoilsType
    <2>3. new(TRUE) \in UploadState /\ new(FALSE) \in UploadState /\ new(TRUE).id = m.id /\ new(FALSE).id = m.id
        <3> HIDE DEF busy
        <3> QED
            BY <1>3 DEF UploadState
    <2>4. uploads' \subseteq UploadState /\ (\A u, v \in uploads' : u.id = v.id => u = v) /\ UNCHANGED serving
        <3>1. \/ uploads' = others \cup {new(TRUE)}
              \/ uploads' = others \cup {new(FALSE)}
            BY <1>7 DEF HostStarts
        <3> HIDE DEF others, new
        <3> QED
            BY <1>7, <2>2, <2>3, <3>1 DEF HostStarts
    <2>5. file' \in [Path -> Seq(Cell) \cup {Absent}]
        <3>1. <<>> \in Seq(Cell) \cup {Absent}
            OBVIOUS
        <3>2. file' = file \/ file' = [file EXCEPT ![m.path] = <<>>]
            BY <1>7 DEF HostStarts, Truncated
        <3> QED
            BY <1>1, <3>1, <3>2 DEF Types, HostTypes
    <2> QED
        BY <1>1, <2>1, <2>4, <2>5 DEF Types, HostTypes
<1>8. CASE HostWrites(c, m)
    <2>1. m.arg \in Cell /\ UNCHANGED <<serving, ended, down>>
        BY <1>3, <1>8 DEF HostWrites
    <2>2. CASE UNCHANGED <<file, uploads>>
        BY <1>1, <2>1, <2>2 DEF Types, HostTypes, ChannelTypes
    <2>3. ASSUME NEW u \in OpenUpload(m), NEW v \in OpenUpload(m), file[v.path] # Absent,
                 \/ /\ file' = [file EXCEPT ![u.path] = Put(@, u.pos, m.arg)]
                    /\ uploads' = (uploads \ {u}) \cup {[u EXCEPT !.pos = @ + 1]}
                 \/ /\ uploads' = (uploads \ {u}) \cup {[u EXCEPT !.open = FALSE, !.clean = FALSE]}
                    /\ UNCHANGED file
          PROVE  down' \in [Client -> Seq(Message)] /\ HostTypes'
        <3>1. u \in UploadState /\ u \in uploads /\ u = v
            BY <1>1 DEF OpenUpload, Types, HostTypes
        <3>2. /\ u.path \in Path /\ u.pos \in Nat
              /\ [u EXCEPT !.pos = @ + 1] \in UploadState /\ [u EXCEPT !.pos = @ + 1].id = u.id
              /\ [u EXCEPT !.open = FALSE, !.clean = FALSE] \in UploadState
              /\ [u EXCEPT !.open = FALSE, !.clean = FALSE].id = u.id
            BY <3>1, UploadFields
        <3>3. Put(file[u.path], u.pos, m.arg) \in Seq(Cell)
            BY <1>1, <2>1, <2>3, <3>1, <3>2, PutType, FileType
        <3>4. file' \in [Path -> Seq(Cell) \cup {Absent}]
            BY <1>1, <2>3, <3>2, <3>3 DEF Types, HostTypes
        <3>5. uploads' \subseteq UploadState /\ \A w, x \in uploads' : w.id = x.id => w = x
            BY <1>1, <2>3, <3>1, <3>2 DEF Types, HostTypes
        <3> QED
            BY <1>1, <2>1, <3>4, <3>5 DEF Types, HostTypes, ChannelTypes
    <2> QED
        BY <1>8, <2>2, <2>3 DEF HostWrites
<1>9. CASE HostEnds(c, m)
    <2>1. down' \in [Client -> Seq(Message)]
        BY <1>1, <1>2, <1>9, AnswerType DEF HostEnds, PlainKind
    <2> QED
        BY <1>1, <1>9, <2>1 DEF HostEnds, Types, HostTypes
<1> QED
    BY <1>1, <1>4, <1>5, <1>6, <1>7, <1>8, <1>9


LEMMA HostReadsKeeps ==
    ASSUME FileInv, NEW c \in Client, HostReads(c)
    PROVE  FileInv'
<1> DEFINE m == serving[c]
           off == m.arg[1]
           more == m.arg[2] > 0 /\ file[m.path] # Absent /\ off < Len(file[m.path])
<1>1. /\ Types /\ serving[c] # <<>>
      /\ UNCHANGED <<client, handles, waiting, th, calls, up, file, uploads, ended>>
    BY DEF FileInv, HostReads
<1>2. m \in Download /\ m \in Message
    BY <1>1 DEF Types, HostTypes, Message
<1>3. off \in Nat /\ m.arg[2] \in Nat /\ m.path \in Path
    BY <1>2 DEF Download, Record
<1>4. ASSUME more, serving' = [serving EXCEPT ![c].arg = <<off + 1, @[2] - 1>>]
      PROVE  serving' \in [Client -> Download \cup {<<>>}]
    <2> DEFINE n == [m EXCEPT !.arg = <<off + 1, m.arg[2] - 1>>]
    <2>1. <<off + 1, m.arg[2] - 1>> \in Nat \X Nat
        BY <1>3, <1>4
    <2>2. n \in Download
        BY <1>2, <2>1 DEF Download, Record
    <2>3. serving' = [serving EXCEPT ![c] = n]
        BY <1>4
    <2> HIDE DEF n
    <2> QED
        BY <1>1, <2>2, <2>3 DEF Types, HostTypes
<1>5. ASSUME more
      PROVE  [m EXCEPT !.t = "bin", !.arg = file[m.path][off + 1]] \in Message
    <2>1. file[m.path][off + 1] \in Cell
        BY <1>1, <1>3, <1>5, FileType
    <2> QED
        BY <1>2, <2>1, AnswerFields
<1>6. [m EXCEPT !.t = "fileEnd", !.arg = <<>>] \in Message
    BY <1>2, AnswerFields DEF PlainKind
<1>7. \E a \in Message : down' = [down EXCEPT ![c] = Append(@, a)] \/ down' = down
    <2>1. CASE more /\ down' = IF open[c] THEN [down EXCEPT ![c] = Append(@, [m EXCEPT !.t = "bin", !.arg = file[m.path][off + 1]])]
                                           ELSE down
        BY <1>5, <2>1
    <2>2. CASE down' = IF open[c] THEN [down EXCEPT ![c] = Append(@, [m EXCEPT !.t = "fileEnd", !.arg = <<>>])]
                                  ELSE down
        BY <1>6, <2>2
    <2> QED
        BY <2>1, <2>2 DEF HostReads
<1>8. down' \in [Client -> Seq(Message)]
    <2>1. down \in [Client -> Seq(Message)]
        BY <1>1 DEF Types, ChannelTypes
    <2>2. PICK a \in Message : down' = [down EXCEPT ![c] = Append(@, a)] \/ down' = down
        BY <1>7
    <2> HIDE DEF m, off, more
    <2>3. Append(down[c], a) \in Seq(Message)
        BY <2>1
    <2> QED
        BY <2>1, <2>2, <2>3
<1>9. serving' \in [Client -> Download \cup {<<>>}]
    <2>1. CASE serving' = [serving EXCEPT ![c] = <<>>]
        BY <1>1, <2>1 DEF Types, HostTypes
    <2> QED
        BY <1>4, <2>1 DEF HostReads
<1>10. Types'
    BY <1>1, <1>8, <1>9 DEF Types, ClientTypes, ChannelTypes, HostTypes, client, handles, waiting
<1> QED
    BY <1>1, <1>10, StillKeeps DEF handles

LEMMA HostChangesKeeps ==
    ASSUME FileInv, NEW p \in Path, HostChanges(p)
    PROVE  FileInv'
<1>1. /\ Types /\ file' = [file EXCEPT ![p] = <<ByHost>>] /\ uploads' = Spoils(p)
      /\ UNCHANGED <<client, handles, waiting, th, calls, chan, serving, ended>>
    BY DEF FileInv, HostChanges
<1>2. <<ByHost>> \in Seq(Cell)
    BY Cells
<1>3. uploads' \subseteq UploadState /\ \A u, v \in uploads' : u.id = v.id => u = v
    BY <1>1, SpoilsType
<1>4. Types'
    BY <1>1, <1>2, <1>3 DEF Types, ClientTypes, ChannelTypes, HostTypes, client, handles, waiting, chan
<1> QED
    BY <1>1, <1>4, StillKeeps DEF handles

LEMMA FileInit == Init => FileInv
<1> SUFFICES ASSUME Init PROVE FileInv
    OBVIOUS
<1>1. PICK p \in Path : fhs = [c \in Client |-> [h \in Handle |-> IF h = 1 THEN Fh(p, FALSE) ELSE NoFh]]
    BY DEF Init
<1>2. Fh(p, FALSE) \in FhState /\ Keeps(Fh(p, FALSE))
    BY FhType
<1>3. fhs \in [Client -> [Handle -> FhState \cup {NoFh}]]
    BY <1>1, <1>2
<1>4. Buffered
    <2>1. NoFh \in FhState => Keeps(NoFh)
        BY DEF NoFh, FhState, Keeps
    <2>2. \A c \in Client, h \in Handle : fhs[c][h] = Fh(p, FALSE) \/ fhs[c][h] = NoFh
        BY <1>1
    <2> QED
        BY <1>2, <2>1, <2>2 DEF Buffered
<1>5. InUse
    BY DEF Init, InUse, Idle
<1>6. <<>> \in Seq(Message) /\ [i \in 1 .. Size |-> ByHost] \in Seq(Cell)
    BY Cells, WebFilesAssumption
<1>7. ClientTypes
    <2>1. nextId \in [Client -> Nat] /\ nextFh \in [Client -> Nat] /\ calls \in 0 .. MaxCalls
        BY WebFilesAssumption DEF Init
    <2>2. open \in [Client -> BOOLEAN] /\ dead \in [Client -> BOOLEAN] /\ canRange \in [Client -> BOOLEAN]
        BY DEF Init
    <2>3. th \in [Thread -> CallState \cup {Idle}] /\ replies \in [Client -> SUBSET Message]
        BY DEF Init
    <2>4. DOMAIN downloads = Client /\ \A c \in Client : DOMAIN downloads[c] = {}
        BY DEF Init
    <2> QED
        BY <1>3, <2>1, <2>2, <2>3, <2>4 DEF ClientTypes
<1>8. ChannelTypes /\ HostTypes
    BY <1>6 DEF Init, ChannelTypes, HostTypes
<1> QED
    BY <1>4, <1>5, <1>7, <1>8 DEF FileInv, Types

LEMMA FileNext == FileInv /\ [Next]_vars => FileInv'
<1> SUFFICES ASSUME FileInv, [Next]_vars PROVE FileInv'
    OBVIOUS
<1>1. ASSUME NEW t \in Thread, NEW p \in Path,
             \/ \E trunc, create \in BOOLEAN : Open(t, p, trunc, create)
             \/ \E n \in 0 .. Size : Truncate(t, p, n)
             \/ Unlink(t, p)
      PROVE  FileInv'
    BY <1>1, OpenKeeps, TruncateKeeps, UnlinkKeeps
<1>2. ASSUME NEW t \in Thread, NEW h \in Handle,
             \/ \E off \in 0 .. Size - 1 : Loads(t, "read", h, off) \/ Loads(t, "write", h, off) \/ WriteLoaded(t, h, off)
             \/ Release(t, h)
      PROVE  FileInv'
    BY <1>2, LoadsKeeps, WriteLoadedKeeps, ReleaseKeeps
<1>3. ASSUME NEW t \in Thread, UploadStart(t) \/ SendChunk(t) \/ Answered(t) \/ GivesUp(t)
      PROVE  FileInv'
    BY <1>3, UploadStartKeeps, SendChunkKeeps, AnsweredKeeps, GivesUpKeeps
<1>4. ASSUME NEW c \in Client, Deliver(c) \/ Closed(c) \/ SignallingLost(c) \/ HostTakes(c) \/ HostReads(c)
      PROVE  FileInv'
    BY <1>4, DeliverKeeps, ClosedKeeps, SignallingLostKeeps, HostTakesKeeps, HostReadsKeeps
<1>5. CASE UNCHANGED vars
    <2>1. Types'
        BY <1>5 DEF vars, client, handles, waiting, chan, host, FileInv, Types, ClientTypes, ChannelTypes, HostTypes
    <2> QED
        BY <1>5, <2>1, StillKeeps DEF vars, handles
<1> QED
    BY <1>1, <1>2, <1>3, <1>4, <1>5, HostChangesKeeps DEF Next

LEMMA FileInvariant == Spec => []FileInv
BY FileInit, FileNext, PTL DEF Spec

\* A handle's buffer (WebRtcRemoteClient::request in web_compat.cpp) has every cell written through it,
\* at its latest value, until RELEASE, whatever other threads write, fetch or lose meanwhile.
THEOREM WritesAreKept == Spec => []KeepsWrites
<1>1. ASSUME FileInv
      PROVE  KeepsWrites
    <2> SUFFICES ASSUME NEW c \in Client, NEW h \in Handle, fhs[c][h] # NoFh, NEW w \in fhs[c][h].wrote
                 PROVE  fhs[c][h].dirty /\ fhs[c][h].data[w[1] + 1] = w[2]
        BY DEF KeepsWrites
    <2>1. fhs[c][h] \in FhState
        BY <1>1, HandleState DEF FileInv
    <2> QED
        BY <1>1, <2>1 DEF FileInv, Buffered, Keeps
<1> QED
    BY <1>1, FileInvariant, PTL

(****************************** the uploads ********************************)

\* The request ids a client has given out.
Numbers(c) == FirstId[c] .. nextId[c] - 1

\* No two clients give out the same id.
Apart == \A c, d \in Client : c # d => Numbers(c) \cap Numbers(d) = {}

\* Every id was given out, by the client it concerns.
Numbered ==
    /\ \A c \in Client :
          /\ FirstId[c] <= nextId[c]
          /\ \A k \in 1 .. Len(up[c]) : up[c][k].id \in Numbers(c)
          /\ \A k \in 1 .. Len(down[c]) : down[c][k].id \in Numbers(c)
          /\ \A r \in replies[c] : r.id \in Numbers(c)
          /\ serving[c] # <<>> => serving[c].id \in Numbers(c)
    /\ \A u \in uploads : \E c \in Client : u.id \in Numbers(c)
    /\ \A t \in Thread : th[t].pc \in Working => th[t].id \in Numbers(t[1])

Single ==
    \A t, u \in Thread :
        th[t].pc \in Working /\ th[u].pc \in Working /\ t[1] = u[1] /\ th[t].id = th[u].id => t = u

Begun == \A t \in Thread : /\ th[t].pc \in {"upload", "ready"} => th[t].off = 0
                           /\ th[t].pc = "chunks" => th[t].off <= Len(th[t].buf)

\* An upload that nobody spoiled is the only one of its path.
Alone(S) == /\ \A u, v \in S : u.clean /\ u.path = v.path => u = v
            /\ \A u \in S : u.clean => u.open
One == Alone(uploads)

\* The messages of an upload are numbered: its start, its chunks, its end.
Part(m, j, call, t) ==
    /\ m.by = t /\ m.path = call.path
    /\ \/ j = 1 /\ m.t = "uploadStart"
       \/ j \in 2 .. Len(call.buf) + 1 /\ m.t = "bin" /\ m.arg = call.buf[j - 1]
       \/ j = Len(call.buf) + 2 /\ m.t = "uploadEnd"

Uploading(t) == th[t].pc \in {"ready", "chunks", "ending"}

Sent(call) == IF call.pc = "ready" THEN 1 ELSE IF call.pc = "chunks" THEN 1 + call.off ELSE Len(call.buf) + 2

\* The messages of the call in q are its parts, one after the other.
Steps(q, call, t, pos) ==
    \A k \in 1 .. Len(q) : IF q[k].id = call.id THEN pos[k] = pos[k - 1] + 1 /\ Part(q[k], pos[k], call, t)
                                                ELSE pos[k] = pos[k - 1]

\* The host has taken the first n parts.
Taken(call, t, n) ==
    /\ n \notin 1 .. Len(call.buf) + 1 => \A u \in uploads : u.id # call.id
    /\ n \in 1 .. Len(call.buf) + 1 =>
          \E u \in uploads : /\ u.id = call.id /\ u.path = call.path
                             /\ u.clean => u.pos = n - 1 /\ file[u.path] = SubSeq(call.buf, 1, n - 1)
    /\ n = Len(call.buf) + 2 =>
          \E e \in ended : e.m.by = t /\ e.m.id = call.id /\ e.data \in {call.buf, Spoiled}

Oks(c, id) == \/ \E k \in 1 .. Len(down[c]) : down[c][k].t = "ok" /\ down[c][k].id = id
              \/ \E r \in replies[c] : r.t = "ok" /\ r.id = id

\* What the host has taken is behind what is under way, and that behind what was sent.
Follows(t, pos) ==
    /\ Steps(up[t[1]], th[t], t, pos)
    /\ open[t[1]] => pos[Len(up[t[1]])] = Sent(th[t])
    /\ Taken(th[t], t, pos[0])
    /\ Oks(t[1], th[t].id) => pos[0] = Len(th[t].buf) + 2

Progress(t) == Uploading(t) => \E pos \in [0 .. Len(up[t[1]]) -> Nat] : Follows(t, pos)

SavedInv == FileInv /\ Numbered /\ Single /\ Begun /\ One /\ \A t \in Thread : Progress(t)

LEMMA StepsAppended ==
    ASSUME NEW q \in Seq(Message), NEW m \in Message, NEW call, NEW t, NEW pos \in [0 .. Len(q) -> Nat],
           Steps(q, call, t, pos), NEW n \in Nat,
           IF m.id = call.id THEN n = pos[Len(q)] + 1 /\ Part(m, n, call, t) ELSE n = pos[Len(q)]
    PROVE  \E new \in [0 .. Len(Append(q, m)) -> Nat] :
              Steps(Append(q, m), call, t, new) /\ new[0] = pos[0] /\ new[Len(Append(q, m))] = n
<1> DEFINE l == Len(q) + 1
           new == [k \in 0 .. l |-> IF k = l THEN n ELSE pos[k]]
<1>1. /\ l \in Nat /\ l = Len(q) + 1 /\ l # 0 /\ Len(q) \in Nat /\ Len(Append(q, m)) = l
      /\ Append(q, m)[l] = m /\ \A k \in 1 .. Len(q) : Append(q, m)[k] = q[k]
    OBVIOUS
<1> HIDE DEF l
<1>2. \A k \in 0 .. Len(q) : k \in 0 .. l /\ k # l /\ pos[k] \in Nat
    BY <1>1
<1>3. new \in [0 .. l -> Nat]
    <2>1. \A k \in 0 .. l : k = l \/ k \in 0 .. Len(q)
        BY <1>1
    <2> QED
        BY <1>2, <2>1
<1>4. new[0] = pos[0] /\ new[l] = n
    BY <1>1
<1>5. \A k \in 0 .. Len(q) : new[k] = pos[k]
    BY <1>2
<1> HIDE DEF new
<1>6. ASSUME NEW k \in 1 .. l
      PROVE  IF Append(q, m)[k].id = call.id
               THEN new[k] = new[k - 1] + 1 /\ Part(Append(q, m)[k], new[k], call, t)
               ELSE new[k] = new[k - 1]
    <2>1. CASE k = l
        <3>1. k - 1 = Len(q) /\ new[k - 1] = pos[Len(q)] /\ new[k] = n /\ Append(q, m)[k] = m
            BY <1>1, <1>4, <1>5, <2>1
        <3> QED
            BY <3>1
    <2>2. CASE k # l
        <3>1. k \in 1 .. Len(q) /\ k \in 0 .. Len(q) /\ k - 1 \in 0 .. Len(q)
            BY <1>1, <2>2
        <3>2. new[k] = pos[k] /\ new[k - 1] = pos[k - 1] /\ Append(q, m)[k] = q[k]
            BY <1>1, <1>5, <3>1
        <3> QED
            BY <3>1, <3>2 DEF Steps
    <2> QED
        BY <2>1, <2>2
<1> QED
    BY <1>1, <1>3, <1>4, <1>6 DEF Steps

LEMMA StepsTaken ==
    ASSUME NEW q \in Seq(Message), q # <<>>, NEW call, NEW t, NEW pos \in [0 .. Len(q) -> Nat],
           Steps(q, call, t, pos)
    PROVE  /\ IF Head(q).id = call.id THEN pos[1] = pos[0] + 1 /\ Part(Head(q), pos[1], call, t)
                                      ELSE pos[1] = pos[0]
           /\ \E new \in [0 .. Len(Tail(q)) -> Nat] :
                 Steps(Tail(q), call, t, new) /\ new[0] = pos[1] /\ new[Len(Tail(q))] = pos[Len(q)]
<1> DEFINE l == Len(q) - 1
           new == [k \in 0 .. l |-> pos[k + 1]]
<1>1. /\ l \in Nat /\ Len(q) = l + 1 /\ Len(Tail(q)) = l /\ Head(q) = q[1] /\ 1 \in 1 .. Len(q)
      /\ \A k \in 1 .. l : Tail(q)[k] = q[k + 1]
    OBVIOUS
<1> HIDE DEF l
<1>2. IF Head(q).id = call.id THEN pos[1] = pos[0] + 1 /\ Part(Head(q), pos[1], call, t) ELSE pos[1] = pos[0]
    <2>1. 1 - 1 = 0
        OBVIOUS
    <2> QED
        BY <1>1, <2>1 DEF Steps
<1>3. \A k \in 0 .. l : new[k] = pos[k + 1] /\ k + 1 \in 0 .. Len(q)
    BY <1>1
<1>4. new \in [0 .. l -> Nat] /\ new[0] = pos[1] /\ new[l] = pos[Len(q)]
    BY <1>1, <1>3
<1> HIDE DEF new
<1>5. ASSUME NEW k \in 1 .. l
      PROVE  IF Tail(q)[k].id = call.id
               THEN new[k] = new[k - 1] + 1 /\ Part(Tail(q)[k], new[k], call, t)
               ELSE new[k] = new[k - 1]
    <2>1. k + 1 \in 1 .. Len(q) /\ k + 1 - 1 = k /\ k \in 0 .. l /\ k - 1 \in 0 .. l /\ k - 1 + 1 = k
        BY <1>1
    <2>2. new[k] = pos[k + 1] /\ new[k - 1] = pos[k] /\ Tail(q)[k] = q[k + 1]
        BY <1>1, <1>3, <2>1
    <2> QED
        BY <2>1, <2>2 DEF Steps
<1> QED
    BY <1>1, <1>2, <1>4, <1>5 DEF Steps

\* A call that goes on has the same parts.
LEMMA StepsSame ==
    ASSUME NEW q, NEW call, NEW next, NEW t, NEW pos,
           next.id = call.id, next.path = call.path, next.buf = call.buf
    PROVE  /\ Steps(q, call, t, pos) => Steps(q, next, t, pos)
           /\ \A n : Taken(call, t, n) => Taken(next, t, n)
BY DEF Steps, Part, Taken

\* A step of the host that leaves the uploads of an id alone, but for spoiling them.
Undisturbed(id) ==
    /\ ended \subseteq ended'
    /\ \A v \in uploads' : v.id = id => \E u \in uploads : u.id = id
    /\ \A u \in uploads : u.id = id =>
          \E v \in uploads' : /\ v.id = u.id /\ v.path = u.path
                              /\ v.clean => u.clean /\ v.pos = u.pos /\ file'[u.path] = file[u.path]

LEMMA TakenStays ==
    ASSUME NEW call, NEW t, NEW n, Taken(call, t, n), Undisturbed(call.id)
    PROVE  Taken(call, t, n)'
<1>1. n \notin 1 .. Len(call.buf) + 1 => \A v \in uploads' : v.id # call.id
    BY DEF Taken, Undisturbed
<1>2. ASSUME n \in 1 .. Len(call.buf) + 1
      PROVE  \E v \in uploads' : /\ v.id = call.id /\ v.path = call.path
                                 /\ v.clean => v.pos = n - 1 /\ file'[v.path] = SubSeq(call.buf, 1, n - 1)
    <2>1. PICK u \in uploads : /\ u.id = call.id /\ u.path = call.path
                               /\ u.clean => u.pos = n - 1 /\ file[u.path] = SubSeq(call.buf, 1, n - 1)
        BY <1>2 DEF Taken
    <2>2. PICK v \in uploads' : /\ v.id = u.id /\ v.path = u.path
                                /\ v.clean => u.clean /\ v.pos = u.pos /\ file'[u.path] = file[u.path]
        BY <2>1 DEF Undisturbed
    <2> QED
        BY <2>1, <2>2
<1>3. n = Len(call.buf) + 2 =>
          \E e \in ended' : e.m.by = t /\ e.m.id = call.id /\ e.data \in {call.buf, Spoiled}
    BY DEF Taken, Undisturbed
<1> QED
    BY <1>1, <1>2, <1>3 DEF Taken

\* An upload is not concerned by what others send, and ends with its channel.
LEMMA ProgressStays ==
    ASSUME Types, NEW u \in Thread, Progress(u), th'[u] = th[u], up'[u[1]] \in Seq(Message),
           open'[u[1]] => open[u[1]],
           \/ up'[u[1]] = up[u[1]]
           \/ \E m \in Message : m.id # th[u].id /\ up'[u[1]] = Append(up[u[1]], m)
           \/ up'[u[1]] = <<>> /\ ~open'[u[1]],
           \A n \in Nat : Taken(th[u], u, n) => Taken(th[u], u, n)',
           Oks(u[1], th[u].id)' => Oks(u[1], th[u].id)
    PROVE  Progress(u)'
<1> SUFFICES ASSUME Uploading(u)
             PROVE  \E new \in [0 .. Len(up'[u[1]]) -> Nat] : Follows(u, new)'
    BY DEF Progress, Uploading
<1> DEFINE q == up[u[1]]
<1>1. q \in Seq(Message) /\ Len(q) \in Nat
    BY ClientOf DEF Types, ChannelTypes
<1>2. PICK pos \in [0 .. Len(q) -> Nat] : Follows(u, pos)
    BY DEF Progress
<1>3. PICK call : call = th[u] /\ call = th'[u]
    OBVIOUS
<1>4. /\ Steps(q, call, u, pos) /\ (open[u[1]] => pos[Len(q)] = Sent(call))
      /\ Taken(call, u, pos[0])' /\ pos[0] \in Nat /\ pos[Len(q)] \in Nat
      /\ Oks(u[1], call.id)' => pos[0] = Len(call.buf) + 2
    <2>1. pos[0] \in Nat /\ pos[Len(q)] \in Nat
        BY <1>1
    <2>2. Taken(th[u], u, pos[0])'
        BY <1>2, <2>1 DEF Follows
    <2>3. Taken(call, u, pos[0])'
        BY <1>3, <2>2 DEF Taken
    <2>4. Oks(u[1], call.id)' => Oks(u[1], th[u].id)
        BY <1>3 DEF Oks
    <2> QED
        BY <1>2, <1>3, <2>1, <2>3, <2>4 DEF Follows
<1>5. ASSUME NEW r \in Seq(Message), r = up'[u[1]], NEW new \in [0 .. Len(r) -> Nat],
             Steps(r, call, u, new), new[0] = pos[0], open'[u[1]] => new[Len(r)] = Sent(call)
      PROVE  Follows(u, new)'
    <2>1. Taken(call, u, new[0])'
        BY <1>4, <1>5
    <2>2. Taken(th[u], u, new[0])'
        BY <1>3, <2>1 DEF Taken
    <2>3. Oks(u[1], th[u].id)' => new[0] = Len(th'[u].buf) + 2
        BY <1>3, <1>4, <1>5 DEF Oks
    <2> QED
        BY <1>3, <1>5, <2>2, <2>3 DEF Follows
<1>6. CASE up'[u[1]] = q
    BY <1>1, <1>4, <1>5, <1>6
<1>7. ASSUME NEW m \in Message, m.id # th[u].id, up'[u[1]] = Append(q, m)
      PROVE  \E new \in [0 .. Len(up'[u[1]]) -> Nat] : Follows(u, new)'
    <2>1. PICK new \in [0 .. Len(Append(q, m)) -> Nat] :
             Steps(Append(q, m), call, u, new) /\ new[0] = pos[0] /\ new[Len(Append(q, m))] = pos[Len(q)]
        BY <1>1, <1>3, <1>4, <1>7, StepsAppended
    <2>2. Follows(u, new)'
        BY <1>4, <1>5, <1>7, <2>1
    <2> QED
        BY <1>7, <2>1, <2>2
<1>8. CASE up'[u[1]] = <<>> /\ ~open'[u[1]]
    <2> DEFINE new == [k \in 0 .. 0 |-> pos[0]]
    <2>1. new \in [0 .. Len(<<>>) -> Nat] /\ new[0] = pos[0]
        BY <1>4
    <2>2. Steps(<<>>, call, u, new)
        BY DEF Steps
    <2> HIDE DEF new
    <2>3. Follows(u, new)'
        BY <1>5, <1>8, <2>1, <2>2
    <2> QED
        BY <1>8, <2>1, <2>3
<1> QED
    BY <1>6, <1>7, <1>8

\* A step of thread t: it sends nothing, or under a new number, or under the one it has.
Moves(t) ==
    /\ \A u \in Thread : u # t => th'[u] = th[u]
    /\ UNCHANGED <<open, down, host>>
    /\ \A c \in Client : replies'[c] \subseteq replies[c]
    /\ th'[t].pc = "upload" => th'[t].off = 0
    /\ \/ /\ UNCHANGED <<up, nextId>>
          /\ th'[t].pc \in Working => th[t].pc \in Working /\ th'[t].id = th[t].id
       \/ \E m \in Message :
            /\ m.id = nextId[t[1]] /\ nextId' = [nextId EXCEPT ![t[1]] = NewId(t[1])]
            /\ up' = [up EXCEPT ![t[1]] = Append(@, m)]
            /\ th'[t].pc \in Working => th'[t].id = nextId[t[1]]
       \/ \E m \in Message :
            /\ th[t].pc \in Working /\ m.id = th[t].id /\ th'[t].id = th[t].id
            /\ up' = [up EXCEPT ![t[1]] = Append(@, m)] /\ UNCHANGED nextId

LEMMA NumbersGrow ==
    ASSUME \A c \in Client : nextId[c] \in Nat /\ nextId'[c] \in Nat /\ FirstId[c] \in Nat /\ nextId[c] <= nextId'[c]
    PROVE  \A c \in Client : \A id \in Numbers(c) : id \in Numbers(c)'
BY DEF Numbers

LEMMA MovesKeeps ==
    ASSUME SavedInv, FileInv', NEW t \in Thread, Moves(t), Progress(t)',
           th'[t].pc = "ready" => th'[t].off = 0,
           th'[t].pc = "chunks" => th'[t].off <= Len(th'[t].buf)
    PROVE  SavedInv'
<1> DEFINE d == t[1]
<1>1. /\ d \in Client /\ Types /\ up \in [Client -> Seq(Message)] /\ up' \in [Client -> Seq(Message)]
      /\ nextId \in [Client -> Nat] /\ nextId' \in [Client -> Nat] /\ FirstId \in [Client -> Nat]
    BY ClientOf, WebFilesAssumption DEF SavedInv, FileInv, Types, ClientTypes, ChannelTypes
<1>2. /\ nextId' = nextId \/ nextId' = [nextId EXCEPT ![d] = @ + 1]
      /\ \A c \in Client : nextId[c] <= nextId'[c]
    <2>1. nextId' = nextId \/ nextId' = [nextId EXCEPT ![d] = nextId[d] + 1]
        BY DEF Moves, NewId
    <2>2. \A c \in Client : nextId'[c] = nextId[c] \/ nextId'[c] = nextId[c] + 1
        BY <1>1, <2>1
    <2>3. ASSUME NEW c \in Client
          PROVE  nextId[c] <= nextId'[c]
        <3>1. nextId[c] \in Nat
            BY <1>1
        <3> QED
            BY <2>2, <3>1
    <2> QED
        BY <2>1, <2>3
<1>3. \A c \in Client : \A id \in Numbers(c) : id \in Numbers(c)'
    BY <1>1, <1>2, NumbersGrow
<1>4. /\ Numbered /\ Single /\ \A u \in Thread : Progress(u)
      /\ \A c \in Client : FirstId[c] <= nextId[c]
    BY DEF SavedInv, Numbered
<1>5. /\ nextId[d] \notin Numbers(d)
      /\ nextId' # nextId => nextId[d] \in Numbers(d)'
    BY <1>1, <1>2, <1>4 DEF Numbers
<1>6. nextId' = [nextId EXCEPT ![d] = NewId(d)] => nextId[d] \in Numbers(d)'
    BY <1>1, <1>5 DEF NewId
<1>7. ASSUME NEW c \in Client, NEW k \in 1 .. Len(up'[c])
      PROVE  up'[c][k].id \in Numbers(c)'
    <2>1. \A j \in 1 .. Len(up[c]) : up[c][j].id \in Numbers(c)'
        BY <1>3, <1>4 DEF Numbered
    <2>2. CASE up' = up
        BY <2>1, <2>2
    <2>3. ASSUME NEW m \in Message, up' = [up EXCEPT ![d] = Append(@, m)], m.id \in Numbers(d)'
          PROVE  up'[c][k].id \in Numbers(c)'
        <3>1. CASE c = d
            <4> DEFINE q == up[d]
            <4>1. q \in Seq(Message) /\ up'[c] = Append(q, m)
                BY <1>1, <2>3, <3>1
            <4> HIDE DEF q, d
            <4>2. (k \in 1 .. Len(q) /\ Append(q, m)[k] = q[k]) \/ Append(q, m)[k] = m
                BY <4>1
            <4> QED
                BY <2>1, <2>3, <3>1, <4>1, <4>2 DEF q
        <3>2. CASE c # d
            BY <1>1, <2>1, <2>3, <3>2
        <3> QED
            BY <3>1, <3>2
    <2>4. th[t].pc \in Working => th[t].id \in Numbers(d)'
        BY <1>1, <1>3, <1>4 DEF Numbered
    <2> QED
        BY <1>6, <2>2, <2>3, <2>4 DEF Moves
<1>8. ASSUME NEW u \in Thread, th'[u].pc \in Working
      PROVE  th'[u].id \in Numbers(u[1])'
    <2>1. CASE u # t
        BY <1>3, <1>4, <1>8, <2>1, ClientOf DEF Numbered, Moves
    <2>2. CASE u = t
        BY <1>1, <1>3, <1>4, <1>6, <1>8, <2>2 DEF Numbered, Moves
    <2> QED
        BY <2>1, <2>2
<1>9. Numbered'
    <2>1. ASSUME NEW c \in Client
          PROVE  /\ FirstId[c] <= nextId'[c]
                 /\ \A k \in 1 .. Len(down'[c]) : down'[c][k].id \in Numbers(c)'
                 /\ \A r \in replies'[c] : r.id \in Numbers(c)'
                 /\ serving'[c] # <<>> => serving'[c].id \in Numbers(c)'
        <3>1. FirstId[c] <= nextId'[c]
            BY <1>1, <1>2, <1>4
        <3>2. UNCHANGED <<down, serving>> /\ replies'[c] \subseteq replies[c]
            BY DEF Moves, host
        <3> QED
            BY <1>3, <1>4, <3>1, <3>2 DEF Numbered
    <2>2. \A u \in uploads' : \E c \in Client : u.id \in Numbers(c)'
        BY <1>3, <1>4 DEF Numbered, Moves, host
    <2> QED
        BY <1>7, <1>8, <2>1, <2>2 DEF Numbered
<1>10. ASSUME NEW u \in Thread, u # t, th'[t].pc \in Working, th[u].pc \in Working, u[1] = t[1]
       PROVE  th'[t].id # th[u].id
    <2>1. th[u].id \in Numbers(d)
        BY <1>4, <1>10 DEF Numbered
    <2> QED
        BY <1>4, <1>5, <1>10, <2>1 DEF Moves, Single
<1>11. Single'
    BY <1>10 DEF Single, Moves, SavedInv
<1>12. Begun' /\ One'
    BY DEF SavedInv, Begun, One, Alone, Moves, host
<1>13. ASSUME NEW u \in Thread, u # t
       PROVE  Progress(u)'
    <2>1. th'[u] = th[u] /\ UNCHANGED <<open, down, host>>
        BY <1>13 DEF Moves
    <2> SUFFICES ASSUME Uploading(u) PROVE Progress(u)'
        BY <2>1 DEF Progress, Uploading
    <2>2. up'[u[1]] = up[u[1]] \/ \E m \in Message : m.id # th[u].id /\ up'[u[1]] = Append(up[u[1]], m)
        <3>1. th[u].pc \in Working /\ th[u].id \in Numbers(u[1])
            BY <1>4 DEF Numbered, Uploading, Working
        <3>2. CASE u[1] # d
            BY <1>1, <3>2, ClientOf DEF Moves
        <3>3. CASE u[1] = d
            BY <1>1, <1>4, <1>5, <1>13, <3>1, <3>3 DEF Moves, Single
        <3> QED
            BY <3>2, <3>3
    <2>3. \A n \in Nat : Taken(th[u], u, n) => Taken(th[u], u, n)'
        BY <2>1 DEF Taken, host
    <2>4. Oks(u[1], th[u].id)' => Oks(u[1], th[u].id)
        BY <2>1, ClientOf DEF Oks, Moves
    <2> QED
        BY <1>1, <1>4, <2>1, <2>2, <2>3, <2>4, ClientOf, ProgressStays
<1> QED
    BY <1>9, <1>11, <1>12, <1>13 DEF SavedInv

LEMMA AskMoves ==
    ASSUME Types, NEW t \in Thread, NEW call \in CallState, NEW pc \in Working, NEW kind, NEW arg,
           Ask(t, call, pc, kind, arg), UNCHANGED <<open, down, host, replies>>,
           \/ kind \in PlainKind /\ arg = <<>>
           \/ kind = "download" /\ arg \in Nat \X Nat
    PROVE  /\ Moves(t)
           /\ th'[t].pc = pc /\ th'[t].id = nextId[t[1]]
           /\ th'[t].path = call.path /\ th'[t].off = call.off /\ th'[t].buf = call.buf
<1> DEFINE m == Msg(t, kind, nextId[t[1]], call.path, arg)
<1>1. nextId[t[1]] \in Nat /\ call.path \in Path
    BY ClientOf DEF Types, ClientTypes, CallState
<1>2. m \in Message /\ m.id = nextId[t[1]]
    BY <1>1, Messages DEF Msg
<1>3. /\ th'[t] = [call EXCEPT !.pc = pc, !.id = nextId[t[1]]]
      /\ \A u \in Thread : u # t => th'[u] = th[u]
    BY AskType
<1>4. /\ th'[t].pc = pc /\ th'[t].id = nextId[t[1]]
      /\ th'[t].path = call.path /\ th'[t].off = call.off /\ th'[t].buf = call.buf
    BY <1>3 DEF CallState
<1>5. /\ up' = [up EXCEPT ![t[1]] = Append(@, m)]
      /\ nextId' = [nextId EXCEPT ![t[1]] = NewId(t[1])]
    BY DEF Ask, Send
<1>6. pc # "upload"
    BY DEF Working
<1> HIDE DEF m
<1>7. Moves(t)
    BY <1>2, <1>3, <1>4, <1>5, <1>6 DEF Moves
<1> QED
    BY <1>4, <1>7

LEMMA NotUploading ==
    ASSUME NEW t \in Thread, th'[t].pc \notin {"ready", "chunks", "ending"}
    PROVE  Progress(t)'
BY DEF Progress, Uploading

\* A call begins with a request, with an upload, or is over at once.
LEMMA BeginsKeeps ==
    ASSUME SavedInv, FileInv', NEW t \in Thread, Begin(t),
           \/ UNCHANGED <<th, up, nextId>>
           \/ \E call \in CallState, pc \in {"attr", "simple", "file"}, kind \in {"list", "delete"} :
                 Ask(t, call, pc, kind, <<>>)
           \/ \E call \in CallState, pc \in {"attr", "simple", "file"}, arg \in Nat \X Nat :
                 Ask(t, call, pc, "download", arg)
           \/ /\ UNCHANGED <<up, nextId>>
              /\ \E call \in CallState : call.pc = "upload" /\ call.off = 0 /\ Goes(t, call)
    PROVE  SavedInv'
<1>1. Types /\ th[t].pc = "idle" /\ UNCHANGED <<open, down, host, replies>>
    BY DEF SavedInv, FileInv, Begin, client
<1>2. SUFFICES Moves(t) /\ th'[t].pc \in {"idle", "attr", "simple", "file", "upload"}
    BY NotUploading, MovesKeeps
<1>3. CASE UNCHANGED <<th, up, nextId>>
    BY <1>1, <1>3 DEF Moves
<1>4. ASSUME NEW call \in CallState, NEW pc \in {"attr", "simple", "file"}, NEW kind, NEW arg,
             Ask(t, call, pc, kind, arg),
             \/ kind \in {"list", "delete"} /\ arg = <<>>
             \/ kind = "download" /\ arg \in Nat \X Nat
      PROVE  Moves(t) /\ th'[t].pc \in {"idle", "attr", "simple", "file", "upload"}
    <2>1. pc \in Working
        BY DEF Working
    <2>2. Moves(t) /\ th'[t].pc = pc
        BY <1>1, <1>4, <2>1, AskMoves DEF PlainKind
    <2> QED
        BY <2>2
<1>5. CASE /\ UNCHANGED <<up, nextId>>
           /\ \E call \in CallState : call.pc = "upload" /\ call.off = 0 /\ Goes(t, call)
    <2>1. PICK call \in CallState : call.pc = "upload" /\ call.off = 0 /\ Goes(t, call)
        BY <1>5
    <2>2. th'[t] = call /\ \A u \in Thread : u # t => th'[u] = th[u]
        BY <1>1, <2>1, GoesType
    <2>3. "upload" \notin Working
        BY DEF Working
    <2> QED
        BY <1>1, <1>5, <2>1, <2>2, <2>3 DEF Moves
<1> QED
    BY <1>3, <1>4, <1>5

LEMMA OpenSaves ==
    ASSUME SavedInv, NEW t \in Thread, NEW p \in Path, NEW trunc \in BOOLEAN, NEW create \in BOOLEAN,
           Open(t, p, trunc, create)
    PROVE  SavedInv'
<1>1. FileInv /\ FileInv' /\ Begin(t) /\ Types /\ calls < MaxCalls
    BY OpenKeeps DEF SavedInv, Open, FileInv, Begin
<1>2. Call("open", p, 0, 0) \in CallState
    BY <1>1, CallType
<1>3. \/ UNCHANGED <<th, up, nextId>>
      \/ Ask(t, Call("open", p, 0, 0), "attr", "list", <<>>)
    BY DEF Open
<1> QED
    BY <1>1, <1>2, <1>3, BeginsKeeps

LEMMA LoadsSaves ==
    ASSUME SavedInv, NEW t \in Thread, NEW op \in {"read", "write"}, NEW h \in Handle, NEW off \in 0 .. Size - 1,
           Loads(t, op, h, off)
    PROVE  SavedInv'
<1>1. FileInv /\ FileInv' /\ Begin(t) /\ Types /\ calls < MaxCalls /\ t[1] \in Client
    BY LoadsKeeps, ClientOf DEF SavedInv, Loads, FileInv, Begin
<1>2. fhs[t[1]][h] \in FhState
    BY <1>1, HandleState DEF Loads
<1>3. fhs[t[1]][h].path \in Path
    BY <1>2 DEF FhState
<1>4. off \in Nat /\ h \in Nat
    BY WebFilesAssumption, HandleNat
<1>5. Call(op, fhs[t[1]][h].path, h, off) \in CallState
    BY <1>1, <1>3, <1>4, CallType
<1>6. \E arg \in Nat \X Nat : Ask(t, Call(op, fhs[t[1]][h].path, h, off), "file", "download", arg)
    BY <1>4, Ranges DEF Loads
<1> QED
    BY <1>1, <1>5, <1>6, BeginsKeeps

LEMMA TruncateSaves ==
    ASSUME SavedInv, NEW t \in Thread, NEW p \in Path, NEW n \in 0 .. Size, Truncate(t, p, n)
    PROVE  SavedInv'
<1>1. FileInv /\ FileInv' /\ Begin(t) /\ Types /\ calls < MaxCalls /\ n \in Nat
    BY TruncateKeeps, WebFilesAssumption DEF SavedInv, Truncate, FileInv, Begin
<1>2. Call("truncate", p, 0, n) \in CallState
    BY <1>1, CallType
<1>3. \E arg \in Nat \X Nat : Ask(t, Call("truncate", p, 0, n), "file", "download", arg)
    BY Ranges DEF Truncate
<1> QED
    BY <1>1, <1>2, <1>3, BeginsKeeps

LEMMA UnlinkSaves ==
    ASSUME SavedInv, NEW t \in Thread, NEW p \in Path, Unlink(t, p)
    PROVE  SavedInv'
<1>1. FileInv /\ FileInv' /\ Begin(t) /\ Types /\ calls < MaxCalls
    BY UnlinkKeeps DEF SavedInv, Unlink, FileInv, Begin
<1>2. Call("unlink", p, 0, 0) \in CallState
    BY <1>1, CallType
<1>3. Ask(t, Call("unlink", p, 0, 0), "simple", "delete", <<>>)
    BY DEF Unlink
<1> QED
    BY <1>1, <1>2, <1>3, BeginsKeeps

LEMMA WriteLoadedSaves ==
    ASSUME SavedInv, NEW t \in Thread, NEW h \in Handle, NEW off \in 0 .. Size - 1, WriteLoaded(t, h, off)
    PROVE  SavedInv'
<1>1. FileInv' /\ Begin(t) /\ UNCHANGED <<th, up, nextId>>
    BY WriteLoadedKeeps DEF SavedInv, WriteLoaded
<1> QED
    BY <1>1, BeginsKeeps

LEMMA ReleaseSaves ==
    ASSUME SavedInv, NEW t \in Thread, NEW h \in Handle, Release(t, h)
    PROVE  SavedInv'
<1> DEFINE f == fhs[t[1]][h]
           call == [Call("release", f.path, 0, 0) EXCEPT !.buf = f.data]
<1>1. /\ FileInv /\ FileInv' /\ Begin(t) /\ Types /\ calls < MaxCalls /\ t[1] \in Client
      /\ UNCHANGED <<up, nextId>> /\ (Goes(t, call) \/ UNCHANGED th)
    BY ReleaseKeeps, ClientOf DEF SavedInv, Release, FileInv, Begin
<1>2. f \in FhState /\ f.path \in Path /\ f.data \in Seq(Cell)
    <2>1. f \in FhState
        BY <1>1, HandleState DEF Release
    <2> QED
        BY <2>1 DEF FhState
<1>3. call \in CallState /\ call.pc = "upload" /\ call.off = 0
    <2>1. call \in CallState
        BY <1>1, <1>2, CallType
    <2> QED
        BY <2>1 DEF Call
<1> HIDE DEF call
<1> QED
    BY <1>1, <1>3, BeginsKeeps

\* Sending failed: the thread returns.
LEMMA FailsKeeps ==
    ASSUME SavedInv, FileInv', NEW t \in Thread, Fails(t), UNCHANGED <<open, down, host, replies>>
    PROVE  SavedInv'
<1>1. Returns(t) /\ UNCHANGED <<up, nextId>> /\ Types
    BY DEF Fails, SavedInv, FileInv
<1>2. th'[t] = Idle /\ \A u \in Thread : u # t => th'[u] = th[u]
    BY <1>1, ReturnsType
<1>3. th'[t].pc = "idle" /\ "idle" \notin Working
    BY <1>2 DEF Idle, Working
<1>4. Moves(t)
    BY <1>1, <1>2, <1>3 DEF Moves
<1> QED
    BY <1>3, <1>4, NotUploading, MovesKeeps

LEMMA UploadStartSaves ==
    ASSUME SavedInv, Apart', NEW t \in Thread, UploadStart(t)
    PROVE  SavedInv'
<1> DEFINE d == t[1]
           q == up[d]
<1>0. PICK id : id = nextId[d]
    OBVIOUS
<1>1. /\ FileInv' /\ Types /\ d \in Client /\ th[t].pc = "upload"
      /\ UNCHANGED <<open, down, host, replies>>
    BY UploadStartKeeps, ClientOf DEF SavedInv, FileInv, UploadStart, Uploads, client
<1>2. CASE Fails(t)
    BY <1>1, <1>2, FailsKeeps
<1>3. CASE Ask(t, th[t], "ready", "uploadStart", <<>>)
    <2>1. /\ th[t] \in CallState /\ th[t].path \in Path /\ th[t].off = 0 /\ th[t].buf \in Seq(Cell)
          /\ q \in Seq(Message) /\ id \in Nat /\ FirstId[d] \in Nat
        BY <1>0, <1>1, CallFields, WebFilesAssumption DEF SavedInv, Begun, Types, ClientTypes, ChannelTypes
    <2>2. /\ Moves(t)
          /\ th'[t].pc = "ready" /\ th'[t].id = id
          /\ th'[t].path = th[t].path /\ th'[t].off = 0 /\ th'[t].buf = th[t].buf
        BY <1>0, <1>1, <1>3, <2>1, AskMoves DEF PlainKind, Working
    <2>3. PICK next : next = th'[t]
        OBVIOUS
    <2> DEFINE m == Msg(t, "uploadStart", id, th[t].path, <<>>)
    <2>4. /\ m \in Message /\ m.id = id /\ m.by = t /\ m.path = th[t].path /\ m.t = "uploadStart"
          /\ up'[d] = Append(q, m) /\ nextId'[d] = id + 1
        <3>1. m \in Message
            BY <2>1, Messages DEF Msg, PlainKind
        <3>2. m.id = id /\ m.by = t /\ m.path = th[t].path /\ m.t = "uploadStart"
            BY DEF Msg
        <3>3. up' = [up EXCEPT ![d] = Append(@, m)] /\ nextId' = [nextId EXCEPT ![d] = NewId(d)]
            BY <1>0, <1>3 DEF Ask, Send
        <3> HIDE DEF m
        <3> QED
            BY <1>0, <1>1, <3>1, <3>2, <3>3 DEF Types, ClientTypes, ChannelTypes, NewId
    <2> HIDE DEF m
    <2>5. id \notin Numbers(d) /\ id \in Numbers(d)' /\ FirstId[d] <= id
        BY <1>0, <1>1, <2>1, <2>4 DEF Numbers, SavedInv, Numbered
    <2>6. /\ \A k \in 1 .. Len(q) : q[k].id # id
          /\ ~Oks(d, id)'
        <3>1. /\ \A k \in 1 .. Len(q) : q[k].id \in Numbers(d)
              /\ \A k \in 1 .. Len(down[d]) : down[d][k].id \in Numbers(d)
              /\ \A r \in replies[d] : r.id \in Numbers(d)
            BY <1>1 DEF SavedInv, Numbered
        <3>2. /\ \A k \in 1 .. Len(down[d]) : down[d][k].id # id
              /\ \A r \in replies[d] : r.id # id
            BY <2>5, <3>1
        <3> QED
            BY <1>1, <2>5, <3>1, <3>2 DEF Oks
    <2>7. ASSUME NEW u \in uploads
          PROVE  u.id # id
        <3>1. PICK c \in Client : u.id \in Numbers(c)
            BY DEF SavedInv, Numbered
        <3>2. CASE c = d
            BY <2>5, <3>1, <3>2
        <3>3. CASE c # d
            <4>1. Numbers(c)' = Numbers(c)
                BY <1>1, <1>3, <3>3 DEF Ask, Numbers, Types, ClientTypes
            <4> QED
                BY <1>1, <2>5, <3>1, <3>3, <4>1 DEF Apart
        <3> QED
            BY <3>2, <3>3
    <2> DEFINE pos == [k \in 0 .. Len(q) |-> 0]
    <2>8. /\ pos \in [0 .. Len(q) -> Nat] /\ pos[0] = 0 /\ pos[Len(q)] = 0
          /\ Steps(q, next, t, pos)
        <3>1. Len(q) \in Nat
            BY <2>1
        <3>2. \A k \in 1 .. Len(q) : pos[k] = 0 /\ pos[k - 1] = 0
            BY <3>1
        <3> HIDE DEF q
        <3>3. pos \in [0 .. Len(q) -> Nat] /\ pos[0] = 0 /\ pos[Len(q)] = 0
            BY <3>1
        <3> HIDE DEF pos
        <3> QED
            BY <2>2, <2>3, <2>6, <3>2, <3>3 DEF Steps
    <2> HIDE DEF pos
    <2>9. Part(m, 1, next, t)
        BY <2>2, <2>3, <2>4 DEF Part
    <2>10. PICK new \in [0 .. Len(Append(q, m)) -> Nat] :
              Steps(Append(q, m), next, t, new) /\ new[0] = 0 /\ new[Len(Append(q, m))] = 1
        <3>1. 1 \in Nat /\ 1 = pos[Len(q)] + 1 /\ m.id = next.id
            BY <2>2, <2>3, <2>4, <2>8
        <3> QED
            BY <2>1, <2>4, <2>8, <2>9, <3>1, StepsAppended
    <2>11. Follows(t, new)'
        <3>1. Steps(up'[d], th'[t], t, new)
            BY <2>3, <2>4, <2>10
        <3>2. new[Len(up'[d])] = Sent(th'[t])
            BY <2>2, <2>4, <2>10 DEF Sent
        <3>3. Taken(th[t], t, new[0])'
            <4>1. Len(th'[t].buf) \in Nat
                BY <2>1, <2>2
            <4>2. \A u \in uploads' : u.id # th'[t].id
                BY <1>1, <2>2, <2>7 DEF host
            <4>3. 0 \notin 1 .. Len(th'[t].buf) + 1 /\ 0 # Len(th'[t].buf) + 2
                BY <4>1
            <4> QED
                BY <2>10, <4>2, <4>3 DEF Taken
        <3>4. ~Oks(d, th[t].id)'
            BY <2>2, <2>6 DEF Oks
        <3> QED
            BY <3>1, <3>2, <3>3, <3>4 DEF Follows
    <2>12. Progress(t)'
        BY <2>4, <2>10, <2>11 DEF Progress
    <2> QED
        BY <1>1, <2>2, <2>12, MovesKeeps
<1> QED
    BY <1>2, <1>3 DEF UploadStart

\* The thread sends the next part.
LEMMA SendsPart ==
    ASSUME SavedInv, NEW t \in Thread, Uploading(t), NEW m \in Message, Send(t, m), UNCHANGED <<open, down, host, replies>>,
           open[t[1]], m.id = th[t].id,
           th'[t].id = th[t].id, th'[t].path = th[t].path, th'[t].buf = th[t].buf,
           Sent(th[t]) \in Nat, Sent(th'[t]) = Sent(th[t]) + 1, Part(m, Sent(th'[t]), th[t], t)
    PROVE  Progress(t)'
<1> DEFINE d == t[1]
           q == up[d]
<1>1. d \in Client /\ q \in Seq(Message) /\ up'[d] = Append(q, m)
    BY ClientOf DEF SavedInv, FileInv, Types, ChannelTypes, Send
<1>2. PICK call, next : call = th[t] /\ next = th'[t]
    OBVIOUS
<1>3. PICK pos \in [0 .. Len(q) -> Nat] : Follows(t, pos)
    BY DEF SavedInv, Progress
<1>4. Steps(q, call, t, pos) /\ pos[Len(q)] = Sent(call) /\ Taken(call, t, pos[0])
    BY <1>1, <1>2, <1>3 DEF Follows
<1>5. PICK new \in [0 .. Len(Append(q, m)) -> Nat] :
         Steps(Append(q, m), call, t, new) /\ new[0] = pos[0] /\ new[Len(Append(q, m))] = Sent(next)
    <2>1. m.id = call.id /\ Sent(next) \in Nat /\ Sent(next) = pos[Len(q)] + 1 /\ Part(m, Sent(next), call, t)
        BY <1>2, <1>4
    <2>2. PICK n \in Nat : n = Sent(next)
        BY <2>1
    <2>3. IF m.id = call.id THEN n = pos[Len(q)] + 1 /\ Part(m, n, call, t) ELSE n = pos[Len(q)]
        BY <2>1, <2>2
    <2> HIDE DEF q
    <2> QED
        BY <1>1, <1>4, <2>2, <2>3, StepsAppended
<1>6. Steps(Append(q, m), next, t, new) /\ Taken(next, t, new[0])
    BY <1>2, <1>4, <1>5, StepsSame
<1>7. Follows(t, new)'
    <2>1. Steps(up'[d], th'[t], t, new) /\ new[Len(up'[d])] = Sent(th'[t])
        BY <1>1, <1>2, <1>5, <1>6
    <2>2. Taken(th[t], t, new[0])'
        BY <1>2, <1>6 DEF Taken, host
    <2>3. Oks(d, th[t].id)' => Oks(d, th[t].id)
        BY DEF Oks
    <2>4. Oks(d, th[t].id)' => new[0] = Len(th'[t].buf) + 2
        BY <1>3, <1>5, <2>3 DEF Follows
    <2> QED
        BY <2>1, <2>2, <2>4 DEF Follows
<1> QED
    BY <1>1, <1>5, <1>7 DEF Progress

LEMMA SendChunkSaves ==
    ASSUME SavedInv, NEW t \in Thread, SendChunk(t)
    PROVE  SavedInv'
<1> DEFINE call == th[t]
<1>1. /\ FileInv' /\ Types /\ t[1] \in Client /\ call.pc = "chunks" /\ call.pc \in Working
      /\ UNCHANGED <<open, down, host, replies>>
    BY SendChunkKeeps, ClientOf DEF SavedInv, FileInv, SendChunk, Uploads, client, Working
<1>2. CASE Fails(t)
    BY <1>1, <1>2, FailsKeeps
<1>3. /\ call \in CallState /\ call.path \in Path /\ call.off \in Nat /\ call.buf \in Seq(Cell) /\ call.id \in Nat
      /\ call.off <= Len(call.buf) /\ Len(call.buf) \in Nat
    BY <1>1, CallFields DEF SavedInv, Begun
<1>4. Sent(call) = 1 + call.off /\ Sent(call) \in Nat
    BY <1>1, <1>3 DEF Sent
<1>5. ASSUME NEW m \in Message, NEW next \in CallState, Send(t, m), Goes(t, next), open[t[1]], UNCHANGED nextId,
             m.id = call.id, next.id = call.id, next.path = call.path, next.buf = call.buf,
             next.pc \in {"chunks", "ending"}, next.pc = "chunks" => next.off <= Len(next.buf),
             Sent(next) = Sent(call) + 1, Part(m, Sent(next), call, t)
      PROVE  SavedInv'
    <2>1. th'[t] = next /\ \A u \in Thread : u # t => th'[u] = th[u]
        BY <1>1, <1>5, GoesType
    <2>2. Progress(t)'
        BY <1>1, <1>4, <1>5, <2>1, SendsPart DEF Uploading
    <2>3. Moves(t)
        BY <1>1, <1>5, <2>1 DEF Moves, Send
    <2> QED
        BY <1>1, <1>5, <2>1, <2>2, <2>3, MovesKeeps
<1>6. CASE /\ open[t[1]] /\ UNCHANGED nextId /\ call.off < Len(call.buf)
           /\ Send(t, Msg(t, "bin", call.id, call.path, call.buf[call.off + 1]))
           /\ Goes(t, [call EXCEPT !.off = @ + 1])
    <2> DEFINE m == Msg(t, "bin", call.id, call.path, call.buf[call.off + 1])
               next == [call EXCEPT !.off = @ + 1]
    <2>1. call.buf[call.off + 1] \in Cell
        BY <1>3, <1>6
    <2>2. m \in Message
        BY <1>3, <2>1, Messages DEF Msg
    <2>3. /\ next \in CallState /\ next.pc = "chunks" /\ next.off = call.off + 1
          /\ next.id = call.id /\ next.path = call.path /\ next.buf = call.buf
        BY <1>1, <1>3 DEF CallState
    <2>4. m.id = call.id /\ m.by = t /\ m.path = call.path /\ m.t = "bin" /\ m.arg = call.buf[call.off + 1]
        BY DEF Msg
    <2>5. Send(t, m) /\ Goes(t, next)
        BY <1>6
    <2> HIDE DEF m, next, call
    <2>6. Sent(next) = Sent(call) + 1 /\ Sent(next) = call.off + 2
        BY <1>3, <1>4, <2>3 DEF Sent
    <2>7. Part(m, Sent(next), call, t)
        <3>1. Sent(next) \in 2 .. Len(call.buf) + 1 /\ Sent(next) - 1 = call.off + 1
            BY <1>3, <1>6, <2>6 DEF call
        <3> QED
            BY <2>4, <3>1 DEF Part
    <2>8. next.off <= Len(next.buf)
        BY <1>3, <1>6, <2>3 DEF call
    <2> QED
        BY <1>5, <1>6, <2>2, <2>3, <2>4, <2>5, <2>6, <2>7, <2>8
<1>7. CASE /\ open[t[1]] /\ UNCHANGED nextId /\ ~(call.off < Len(call.buf))
           /\ Send(t, Msg(t, "uploadEnd", call.id, call.path, <<>>))
           /\ Goes(t, [call EXCEPT !.pc = "ending"])
    <2> DEFINE m == Msg(t, "uploadEnd", call.id, call.path, <<>>)
               next == [call EXCEPT !.pc = "ending"]
    <2>1. m \in Message
        BY <1>3, Messages DEF Msg, PlainKind
    <2>2. /\ next \in CallState /\ next.pc = "ending"
          /\ next.id = call.id /\ next.path = call.path /\ next.buf = call.buf
        BY <1>1, <1>3 DEF CallState, Working
    <2>3. m.id = call.id /\ m.by = t /\ m.path = call.path /\ m.t = "uploadEnd"
        BY DEF Msg
    <2>4. Send(t, m) /\ Goes(t, next)
        BY <1>7
    <2> HIDE DEF m, next, call
    <2>5. call.off = Len(call.buf)
        BY <1>3, <1>7 DEF call
    <2>6. Sent(next) = Sent(call) + 1 /\ Sent(next) = Len(call.buf) + 2
        BY <1>3, <1>4, <2>2, <2>5 DEF Sent
    <2>7. Part(m, Sent(next), call, t)
        BY <2>3, <2>6 DEF Part
    <2> QED
        BY <1>5, <1>7, <2>1, <2>2, <2>3, <2>4, <2>6, <2>7
<1> QED
    BY <1>2, <1>6, <1>7 DEF SendChunk

LEMMA WaitEndsSaves ==
    ASSUME SavedInv, FileInv', NEW t \in Thread, NEW r, WaitEnds(t), Continue(t, r),
           \A c \in Client : replies'[c] \subseteq replies[c]
    PROVE  SavedInv'
<1>1. /\ UNCHANGED <<open, down, host, up, nextId>> /\ Waits(t) /\ FileInv /\ Types
      /\ th[t].pc \in Working
    BY DEF WaitEnds, SavedInv, FileInv, client, chan, Waits, Working
<1>2. /\ \A u \in Thread : u # t => th'[u] = th[u]
      /\ \/ th'[t] = Idle
         \/ th'[t].pc = "upload" /\ th'[t].off = 0
         \/ th[t].pc = "ready" /\ th'[t] = [th[t] EXCEPT !.pc = "chunks"]
    BY <1>1, ContinueType
<1>3. CASE th'[t].pc \in {"idle", "upload"} /\ (th'[t].pc = "upload" => th'[t].off = 0)
    <2>1. Moves(t)
        BY <1>1, <1>2, <1>3 DEF Moves, Working
    <2> QED
        BY <1>3, <2>1, NotUploading, MovesKeeps
<1>4. CASE th[t].pc = "ready" /\ th'[t] = [th[t] EXCEPT !.pc = "chunks"]
    <2>1. th[t] \in CallState /\ th[t].off = 0 /\ Len(th[t].buf) \in Nat
        BY <1>1, <1>4, CallFields DEF SavedInv, Begun
    <2>2. /\ th'[t].pc = "chunks" /\ th'[t].off = 0
          /\ th'[t].id = th[t].id /\ th'[t].path = th[t].path /\ th'[t].buf = th[t].buf
        BY <1>4, <2>1 DEF CallState
    <2>3. Moves(t)
        BY <1>1, <1>2, <2>2 DEF Moves
    <2>4. PICK call, next : call = th[t] /\ next = th'[t]
        OBVIOUS
    <2>5. PICK pos \in [0 .. Len(up[t[1]]) -> Nat] : Follows(t, pos)
        BY <1>4 DEF SavedInv, Progress, Uploading
    <2>6. Steps(up[t[1]], next, t, pos) /\ Taken(next, t, pos[0])
        BY <2>2, <2>4, <2>5, StepsSame DEF Follows
    <2>7. Sent(next) = Sent(call)
        BY <1>4, <2>2, <2>4 DEF Sent
    <2>8. Follows(t, pos)'
        <3>1. Steps(up'[t[1]], th'[t], t, pos)
            BY <1>1, <2>4, <2>6
        <3>2. open'[t[1]] => pos[Len(up'[t[1]])] = Sent(th'[t])
            BY <1>1, <2>4, <2>5, <2>7 DEF Follows
        <3>3. Taken(th[t], t, pos[0])'
            BY <1>1, <2>4, <2>6 DEF Taken, host
        <3>4. Oks(t[1], th[t].id)' => Oks(t[1], th[t].id)
            BY <1>1, <2>2, ClientOf DEF Oks
        <3>5. Oks(t[1], th[t].id)' => pos[0] = Len(th'[t].buf) + 2
            BY <2>2, <2>5, <3>4 DEF Follows
        <3> QED
            BY <3>1, <3>2, <3>3, <3>5 DEF Follows
    <2>9. Progress(t)'
        BY <1>1, <2>8 DEF Progress
    <2> QED
        BY <2>1, <2>2, <2>3, <2>9, MovesKeeps
<1> QED
    BY <1>2, <1>3, <1>4 DEF Idle

LEMMA AnsweredSaves ==
    ASSUME SavedInv, NEW t \in Thread, Answered(t)
    PROVE  SavedInv'
<1>1. PICK r \in ReplyTo(t) : Continue(t, r) /\ replies' = [replies EXCEPT ![t[1]] = @ \ {r}]
    BY DEF Answered
<1>2. FileInv' /\ WaitEnds(t) /\ replies \in [Client -> SUBSET Message]
    BY AnsweredKeeps DEF SavedInv, Answered, FileInv, Types, ClientTypes
<1>3. \A c \in Client : replies'[c] \subseteq replies[c]
    BY <1>1, <1>2
<1> QED
    BY <1>1, <1>2, <1>3, WaitEndsSaves

LEMMA GivesUpSaves ==
    ASSUME SavedInv, NEW t \in Thread, GivesUp(t)
    PROVE  SavedInv'
<1>1. FileInv' /\ WaitEnds(t) /\ Continue(t, NoReply) /\ UNCHANGED replies
    BY GivesUpKeeps DEF SavedInv, GivesUp
<1> QED
    BY <1>1, WaitEndsSaves

(************************* the channel and the host ************************)

\* The threads stay.
LEMMA QuietKeeps ==
    ASSUME SavedInv, FileInv', UNCHANGED <<th, nextId>>, Numbered', One',
           \A u \in Thread : Uploading(u) => Progress(u)'
    PROVE  SavedInv'
<1>1. Single' /\ Begun'
    BY DEF SavedInv, Single, Begun
<1>2. \A u \in Thread : Progress(u)'
    BY DEF Progress, Uploading
<1> QED
    BY <1>1, <1>2 DEF SavedInv

LEMMA NumberedStays ==
    ASSUME Numbered, UNCHANGED <<nextId, th>>,
           \A d \in Client :
              /\ \A k \in 1 .. Len(up'[d]) : up'[d][k].id \in Numbers(d)
              /\ \A k \in 1 .. Len(down'[d]) : down'[d][k].id \in Numbers(d)
              /\ \A r \in replies'[d] : r.id \in Numbers(d)
              /\ serving'[d] # <<>> => serving'[d].id \in Numbers(d),
           \A u \in uploads' : \E d \in Client : u.id \in Numbers(d)
    PROVE  Numbered'
<1>1. \A d \in Client : Numbers(d)' = Numbers(d)
    BY DEF Numbers
<1>2. \A d \in Client : FirstId[d] <= nextId'[d]
    BY DEF Numbered
<1>3. \A t \in Thread : th'[t].pc \in Working => th'[t].id \in Numbers(t[1])'
    BY <1>1, ClientOf DEF Numbered
<1>4. \A u \in uploads' : \E d \in Client : u.id \in Numbers(d)'
    BY <1>1
<1> QED
    BY <1>1, <1>2, <1>3, <1>4 DEF Numbered

LEMMA DeliverSaves ==
    ASSUME SavedInv, NEW c \in Client, Deliver(c)
    PROVE  SavedInv'
<1> DEFINE q == down[c]
           m == Head(q)
<1>1. /\ FileInv' /\ Types /\ Numbered /\ q # <<>> /\ down' = [down EXCEPT ![c] = Tail(@)]
      /\ UNCHANGED <<open, nextId, th, up, host>>
      /\ replies' = [replies EXCEPT ![c] = {r \in @ : r.id # m.id} \cup {m}] \/ replies' = replies
    BY DeliverKeeps DEF SavedInv, FileInv, Deliver, client
<1>2. /\ down \in [Client -> Seq(Message)] /\ replies \in [Client -> SUBSET Message] /\ q \in Seq(Message)
    BY <1>1 DEF Types, ClientTypes, ChannelTypes
<1>3. /\ 1 \in 1 .. Len(q) /\ m = q[1]
      /\ \A k \in 1 .. Len(Tail(q)) : k + 1 \in 1 .. Len(q) /\ Tail(q)[k] = q[k + 1]
    BY <1>1, <1>2
<1> HIDE DEF m
<1>4. ASSUME NEW d \in Client
      PROVE  /\ \A k \in 1 .. Len(down'[d]) : \E j \in 1 .. Len(down[d]) : down'[d][k] = down[d][j]
             /\ \A r \in replies'[d] : r \in replies[d] \/ \E j \in 1 .. Len(down[d]) : r = down[d][j]
    <2>1. CASE d # c
        BY <1>1, <1>2, <2>1
    <2>2. CASE d = c
        <3>1. down'[d] = Tail(q)
            BY <1>1, <1>2, <2>2
        <3>2. \A r \in replies'[d] : r \in replies[d] \/ r = m
            BY <1>1, <1>2, <2>2
        <3> QED
            BY <1>3, <2>2, <3>1, <3>2
    <2> QED
        BY <2>1, <2>2
<1>5. Numbered'
    <2>2. ASSUME NEW d \in Client
          PROVE  /\ \A k \in 1 .. Len(down'[d]) : down'[d][k].id \in Numbers(d)
                 /\ \A r \in replies'[d] : r.id \in Numbers(d)
        <3>1. /\ \A k \in 1 .. Len(down[d]) : down[d][k].id \in Numbers(d)
              /\ \A r \in replies[d] : r.id \in Numbers(d)
            BY <1>1 DEF Numbered
        <3> QED
            BY <1>4, <3>1
    <2>3. UNCHANGED <<nextId, th, up, uploads, serving>>
        BY <1>1 DEF host
    <2> QED
        BY <1>1, <2>2, <2>3, NumberedStays DEF Numbered
<1>6. One'
    BY <1>1 DEF SavedInv, One, Alone, host
<1>7. ASSUME NEW u \in Thread, Uploading(u)
      PROVE  Progress(u)'
    <2>1. \A n \in Nat : Taken(th[u], u, n) => Taken(th[u], u, n)'
        <3>1. UNCHANGED <<th, uploads, file, ended>>
            BY <1>1 DEF host
        <3> QED
            BY <3>1 DEF Taken
    <2>2. Oks(u[1], th[u].id)' => Oks(u[1], th[u].id)
        <3>1. u[1] \in Client /\ th' = th
            BY <1>1, ClientOf
        <3>2. /\ \A k \in 1 .. Len(down'[u[1]]) : \E j \in 1 .. Len(down[u[1]]) : down'[u[1]][k] = down[u[1]][j]
              /\ \A r \in replies'[u[1]] : r \in replies[u[1]] \/ \E j \in 1 .. Len(down[u[1]]) : r = down[u[1]][j]
            BY <1>4, <3>1
        <3>3. PICK e, id : e = u[1] /\ id = th[u].id
            OBVIOUS
        <3>4. Oks(e, id)' => Oks(e, id)
            BY <3>2, <3>3 DEF Oks
        <3> QED
            BY <3>1, <3>3, <3>4 DEF Oks
    <2>3. up[u[1]] \in Seq(Message)
        BY <1>1, ClientOf DEF Types, ChannelTypes
    <2> QED
        BY <1>1, <2>1, <2>2, <2>3, ProgressStays DEF SavedInv
<1> QED
    BY <1>1, <1>5, <1>6, <1>7, QuietKeeps

LEMMA ClosedSaves ==
    ASSUME SavedInv, NEW c \in Client, Closed(c)
    PROVE  SavedInv'
<1>1. /\ FileInv' /\ Types /\ Numbered
      /\ open' = [open EXCEPT ![c] = FALSE]
      /\ up' = [up EXCEPT ![c] = <<>>] /\ down' = [down EXCEPT ![c] = <<>>]
      /\ UNCHANGED <<nextId, replies, th, host>>
    BY ClosedKeeps DEF SavedInv, FileInv, Closed, waiting
<1>2. /\ open \in [Client -> BOOLEAN] /\ up \in [Client -> Seq(Message)] /\ down \in [Client -> Seq(Message)]
    BY <1>1 DEF Types, ClientTypes, ChannelTypes
<1>3. \A d \in Client : /\ d = c => up'[d] = <<>> /\ down'[d] = <<>> /\ ~open'[d]
                        /\ d # c => up'[d] = up[d] /\ down'[d] = down[d] /\ open'[d] = open[d]
    BY <1>1, <1>2
<1>4. Numbered'
    <2>2. \A d \in Client : /\ \A k \in 1 .. Len(up'[d]) : up'[d][k].id \in Numbers(d)
                            /\ \A k \in 1 .. Len(down'[d]) : down'[d][k].id \in Numbers(d)
        BY <1>1, <1>3 DEF Numbered
    <2>3. UNCHANGED <<nextId, th, replies, uploads, serving>>
        BY <1>1 DEF host
    <2> QED
        BY <1>1, <2>2, <2>3, NumberedStays DEF Numbered
<1>5. One'
    BY <1>1 DEF SavedInv, One, Alone, host
<1>6. ASSUME NEW u \in Thread, Uploading(u)
      PROVE  Progress(u)'
    <2>1. \A n \in Nat : Taken(th[u], u, n) => Taken(th[u], u, n)'
        <3>1. UNCHANGED <<th, uploads, file, ended>>
            BY <1>1 DEF host
        <3> QED
            BY <3>1 DEF Taken
    <2>2. u[1] \in Client /\ up'[u[1]] \in Seq(Message)
        <3>1. u[1] \in Client /\ <<>> \in Seq(Message)
            BY ClientOf
        <3> QED
            BY <1>2, <1>3, <3>1
    <2>3. Oks(u[1], th[u].id)' => Oks(u[1], th[u].id)
        BY <1>1, <1>3, <2>2 DEF Oks
    <2> QED
        BY <1>1, <1>3, <2>1, <2>2, <2>3, ProgressStays DEF SavedInv
<1> QED
    BY <1>1, <1>4, <1>5, <1>6, QuietKeeps

LEMMA SignallingLostSaves ==
    ASSUME SavedInv, NEW c \in Client, SignallingLost(c)
    PROVE  SavedInv'
<1>1. /\ FileInv' /\ Types /\ Numbered
      /\ UNCHANGED <<open, nextId, replies, th, up, down, host>>
    BY SignallingLostKeeps DEF SavedInv, FileInv, SignallingLost, waiting, chan
<1>2. Numbered' /\ One'
    BY <1>1 DEF SavedInv, One, Alone, Numbered, Numbers, host
<1>3. ASSUME NEW u \in Thread, Uploading(u)
      PROVE  Progress(u)'
    <2>1. \A n \in Nat : Taken(th[u], u, n) => Taken(th[u], u, n)'
        BY <1>1 DEF Taken, host
    <2>2. up'[u[1]] \in Seq(Message)
        BY <1>1, ClientOf DEF Types, ChannelTypes
    <2>3. Oks(u[1], th[u].id)' => Oks(u[1], th[u].id)
        BY <1>1 DEF Oks
    <2> QED
        BY <1>1, <2>1, <2>2, <2>3, ProgressStays DEF SavedInv
<1> QED
    BY <1>1, <1>2, <1>3, QuietKeeps

LEMMA SpoilsFine ==
    ASSUME Types, One, NEW path
    PROVE  /\ Alone(Spoils(path))
           /\ \A v \in Spoils(path) : /\ \E u \in uploads : u.id = v.id
                                      /\ v.clean => v.path # path
           /\ \A u \in uploads : \E v \in Spoils(path) :
                 v.id = u.id /\ v.path = u.path /\ (v.clean => u.clean /\ v.pos = u.pos /\ u.path # path)
<1> DEFINE S == Spoils(path)
<1>1. /\ \A u \in S : \E v \in uploads : /\ u.id = v.id /\ u.path = v.path /\ u.pos = v.pos /\ u.by = v.by
                                         /\ u.open = v.open
                                         /\ u.clean => v.clean /\ v.path # path
      /\ \A u \in uploads : \E v \in S : u.id = v.id
      /\ \A u, v \in S : u.id = v.id => u = v
    BY SpoilsType
<1>2. \A u, v \in uploads : u.id = v.id => u = v
    BY DEF Types, HostTypes
<1> HIDE DEF S
<1>3. Alone(S)
    <2>1. ASSUME NEW u \in S, NEW v \in S, u.clean, u.path = v.path
          PROVE  u = v
        <3>1. PICK a \in uploads : u.id = a.id /\ u.path = a.path /\ (u.clean => a.clean /\ a.path # path)
            BY <1>1
        <3>2. PICK b \in uploads : v.id = b.id /\ v.path = b.path
            BY <1>1
        <3>3. a = b
            BY <2>1, <3>1, <3>2 DEF One, Alone
        <3> QED
            BY <1>1, <3>1, <3>2, <3>3
    <2>2. ASSUME NEW u \in S, u.clean
          PROVE  u.open
        BY <1>1, <2>2 DEF One, Alone
    <2> QED
        BY <2>1, <2>2 DEF Alone
<1>4. \A v \in S : (\E u \in uploads : u.id = v.id) /\ (v.clean => v.path # path)
    BY <1>1
<1>5. ASSUME NEW u \in uploads
      PROVE  \E v \in S : v.id = u.id /\ v.path = u.path /\ (v.clean => u.clean /\ v.pos = u.pos /\ u.path # path)
    <2>1. PICK v \in S : u.id = v.id
        BY <1>1
    <2>2. PICK w \in uploads : /\ v.id = w.id /\ v.path = w.path /\ v.pos = w.pos
                               /\ v.clean => w.clean /\ w.path # path
        BY <1>1
    <2>3. w = u
        BY <1>2, <2>1, <2>2
    <2> QED
        BY <2>1, <2>2, <2>3
<1> QED
    BY <1>3, <1>4, <1>5 DEF S

\* Whoever changes a file of the host spoils the uploads of it.
LEMMA SpoilsDisturbs ==
    ASSUME Types, One, NEW path, file' = [file EXCEPT ![path] = file'[path]] \/ file' = file,
           ended \subseteq ended', NEW id,
           \A v \in uploads' : v.id = id => v \in Spoils(path),
           \A v \in Spoils(path) : v.id = id => v \in uploads'
    PROVE  Undisturbed(id)
<1>1. \A v \in uploads' : v.id = id => \E u \in uploads : u.id = id
    BY SpoilsFine
<1>2. ASSUME NEW u \in uploads, u.id = id
      PROVE  \E v \in uploads' : /\ v.id = u.id /\ v.path = u.path
                                 /\ v.clean => u.clean /\ v.pos = u.pos /\ file'[u.path] = file[u.path]
    <2>1. PICK v \in Spoils(path) :
             v.id = u.id /\ v.path = u.path /\ (v.clean => u.clean /\ v.pos = u.pos /\ u.path # path)
        BY SpoilsFine
    <2>2. u.path \in Path /\ DOMAIN file = Path
        BY UploadFields DEF Types, HostTypes
    <2>3. u.path # path => file'[u.path] = file[u.path]
        BY <2>2
    <2> QED
        BY <1>2, <2>1, <2>3
<1> QED
    BY <1>1, <1>2 DEF Undisturbed

LEMMA HostReadsSaves ==
    ASSUME SavedInv, NEW c \in Client, HostReads(c)
    PROVE  SavedInv'
<1> DEFINE m == serving[c]
<1>1. /\ FileInv' /\ Types /\ Numbered /\ m # <<>>
      /\ UNCHANGED <<open, nextId, replies, th, up, file, uploads, ended>>
    BY HostReadsKeeps DEF SavedInv, FileInv, HostReads, client, waiting
<1>2. m \in Download /\ m \in Message /\ down \in [Client -> Seq(Message)] /\ serving \in [Client -> Download \cup {<<>>}]
    BY <1>1 DEF Types, ChannelTypes, HostTypes, Message
<1>3. \E a : a.id = m.id /\ a.t # "ok" /\ (down' = [down EXCEPT ![c] = Append(@, a)] \/ down' = down)
    <2>1. PICK kind \in {"bin", "fileEnd"} :
             \E arg : down' = IF open[c] THEN [down EXCEPT ![c] = Append(@, [m EXCEPT !.t = kind, !.arg = arg])] ELSE down
        BY DEF HostReads
    <2>2. PICK arg :
             down' = IF open[c] THEN [down EXCEPT ![c] = Append(@, [m EXCEPT !.t = kind, !.arg = arg])] ELSE down
        BY <2>1
    <2> DEFINE a == [m EXCEPT !.t = kind, !.arg = arg]
    <2>3. a.id = m.id /\ a.t = kind
        BY <1>2 DEF Download, Record
    <2>4. down' = [down EXCEPT ![c] = Append(@, a)] \/ down' = down
        BY <2>2
    <2> HIDE DEF a
    <2> QED
        BY <2>3, <2>4
<1>4. serving'[c] # <<>> => serving'[c].id = m.id
    BY <1>2 DEF HostReads, Download, Record
<1>5. \A d \in Client : d # c => serving'[d] = serving[d]
    BY <1>2 DEF HostReads
<1> HIDE DEF m
<1>6. PICK a : a.id = m.id /\ a.t # "ok" /\ (down' = [down EXCEPT ![c] = Append(@, a)] \/ down' = down)
    BY <1>3
<1>7. ASSUME NEW d \in Client, NEW k \in 1 .. Len(down'[d])
      PROVE  \/ k \in 1 .. Len(down[d]) /\ down'[d][k] = down[d][k]
             \/ d = c /\ down'[d][k] = a
    <2>1. CASE d = c /\ down' # down
        BY <1>2, <1>6, <2>1
    <2>2. CASE d # c \/ down' = down
        BY <1>2, <1>6, <2>2
    <2> QED
        BY <2>1, <2>2
<1>8. Numbered'
    <2>1. m.id \in Numbers(c)
        BY <1>1 DEF Numbered, m
    <2>2. ASSUME NEW d \in Client
          PROVE  /\ \A k \in 1 .. Len(up'[d]) : up'[d][k].id \in Numbers(d)
                 /\ \A k \in 1 .. Len(down'[d]) : down'[d][k].id \in Numbers(d)
                 /\ \A r \in replies'[d] : r.id \in Numbers(d)
                 /\ serving'[d] # <<>> => serving'[d].id \in Numbers(d)
        <3>1. /\ \A k \in 1 .. Len(up[d]) : up[d][k].id \in Numbers(d)
              /\ \A k \in 1 .. Len(down[d]) : down[d][k].id \in Numbers(d)
              /\ \A r \in replies[d] : r.id \in Numbers(d)
              /\ serving[d] # <<>> => serving[d].id \in Numbers(d)
            BY <1>1 DEF Numbered
        <3>2. \A k \in 1 .. Len(down'[d]) : down'[d][k].id \in Numbers(d)
            BY <1>6, <1>7, <2>1, <3>1
        <3>3. serving'[d] # <<>> => serving'[d].id \in Numbers(d)
            BY <1>4, <1>5, <2>1, <3>1
        <3> QED
            BY <1>1, <3>1, <3>2, <3>3
    <2>3. \A u \in uploads' : \E d \in Client : u.id \in Numbers(d)
        BY <1>1 DEF Numbered
    <2> QED
        BY <1>1, <2>2, <2>3, NumberedStays
<1>9. One'
    BY <1>1 DEF SavedInv, One, Alone
<1>10. ASSUME NEW u \in Thread, Uploading(u)
       PROVE  Progress(u)'
    <2>1. \A n \in Nat : Taken(th[u], u, n) => Taken(th[u], u, n)'
        BY <1>1 DEF Taken
    <2>2. u[1] \in Client /\ up'[u[1]] \in Seq(Message)
        BY <1>1, ClientOf DEF Types, ChannelTypes
    <2>3. Oks(u[1], th[u].id)' => Oks(u[1], th[u].id)
        BY <1>1, <1>6, <1>7, <2>2 DEF Oks
    <2> QED
        BY <1>1, <2>1, <2>2, <2>3, ProgressStays DEF SavedInv
<1> QED
    BY <1>1, <1>8, <1>9, <1>10, QuietKeeps

LEMMA HostChangesSaves ==
    ASSUME SavedInv, NEW p \in Path, HostChanges(p)
    PROVE  SavedInv'
<1>1. /\ FileInv' /\ Types /\ Numbered /\ One
      /\ file' = [file EXCEPT ![p] = <<ByHost>>] /\ uploads' = Spoils(p)
      /\ UNCHANGED <<open, nextId, replies, th, up, down, serving, ended>>
    BY HostChangesKeeps DEF SavedInv, FileInv, HostChanges, client, waiting, chan
<1>2. One'
    BY <1>1, SpoilsFine DEF One
<1>3. Numbered'
    <2>1. \A u \in uploads' : \E d \in Client : u.id \in Numbers(d)
        BY <1>1, SpoilsFine DEF Numbered
    <2> QED
        BY <1>1, <2>1, NumberedStays DEF Numbered
<1>4. ASSUME NEW u \in Thread, Uploading(u)
      PROVE  Progress(u)'
    <2>1. PICK call : call = th[u]
        OBVIOUS
    <2>2. file' = [file EXCEPT ![p] = file'[p]]
        BY <1>1 DEF Types, HostTypes
    <2>3. Undisturbed(call.id)
        BY <1>1, <2>2, SpoilsDisturbs
    <2>4. \A n \in Nat : Taken(call, u, n) => Taken(call, u, n)'
        BY <2>3, TakenStays
    <2>5. \A n \in Nat : Taken(th[u], u, n) => Taken(th[u], u, n)'
        BY <1>1, <2>1, <2>4 DEF Taken
    <2>6. up'[u[1]] \in Seq(Message)
        BY <1>1, ClientOf DEF Types, ChannelTypes
    <2>7. Oks(u[1], th[u].id)' => Oks(u[1], th[u].id)
        BY <1>1 DEF Oks
    <2> QED
        BY <1>1, <2>5, <2>6, <2>7, ProgressStays DEF SavedInv
<1> QED
    BY <1>1, <1>2, <1>3, <1>4, QuietKeeps

LEMMA Untouched ==
    ASSUME UNCHANGED <<file, uploads, ended>>, NEW id
    PROVE  Undisturbed(id)
BY DEF Undisturbed

\* The first answer to m.
LEMMA AnswerHas ==
    ASSUME NEW c \in Client, NEW m \in Message, NEW kind, NEW arg, Answer(c, m, kind, arg)
    PROVE  \E a : a.id = m.id /\ a.t = kind /\ down' = [down EXCEPT ![c] = Append(@, a)]
<1> DEFINE a == [m EXCEPT !.t = kind, !.arg = arg]
<1>1. a.id = m.id /\ a.t = kind
    BY DEF Message, Plain, PlainKind, Listing, Bin, Download, Record
<1>2. down' = [down EXCEPT ![c] = Append(@, a)]
    BY DEF Answer
<1> HIDE DEF a
<1> QED
    BY <1>1, <1>2

\* A new upload is clean only if no other is open for its path.
LEMMA StartsFine ==
    ASSUME Types, One, NEW c \in Client, NEW m \in Message, HostStarts(c, m)
    PROVE  /\ \A id : id # m.id => Undisturbed(id)
           /\ Alone(uploads')
           /\ \E u \in uploads' : /\ u.id = m.id /\ u.path = m.path
                                  /\ u.clean => u.pos = 0 /\ file'[m.path] = <<>>
<1> DEFINE others == {u \in Spoils(m.path) : u.id # m.id}
           busy == \E u \in others : u.path = m.path
           new(ok) == [id |-> m.id, by |-> c, path |-> m.path, pos |-> 0, open |-> ok, clean |-> ok /\ ~busy]
<1>1. /\ Alone(Spoils(m.path)) /\ \A v \in Spoils(m.path) : v.clean => v.path # m.path
    BY SpoilsFine
<1>2. m.path \in Path /\ m.id \in Nat
    BY MessageFields
<1>3. /\ ended' = ended
      /\ \/ uploads' = others \cup {new(TRUE)} /\ file' = [file EXCEPT ![m.path] = <<>>]
         \/ uploads' = others \cup {new(FALSE)} /\ file' = file
    BY DEF HostStarts, Truncated
<1>4. PICK ok \in BOOLEAN : /\ uploads' = others \cup {new(ok)}
                            /\ \/ ok /\ file' = [file EXCEPT ![m.path] = <<>>]
                               \/ ~ok /\ file' = file
    BY <1>3
<1>5. /\ new(ok).id = m.id /\ new(ok).path = m.path /\ new(ok).pos = 0 /\ new(ok).open = ok
      /\ new(ok).clean => ok /\ \A u \in others : u.path # m.path
    OBVIOUS
<1> DEFINE n == new(ok)
<1> HIDE DEF new, busy
<1>6. /\ uploads' = others \cup {n} /\ n.id = m.id /\ n.path = m.path /\ n.pos = 0 /\ n.open = ok
      /\ n.clean => ok /\ \A u \in others : u.path # m.path
    BY <1>4, <1>5
<1> HIDE DEF n
<1>7. ASSUME NEW id, id # m.id
      PROVE  Undisturbed(id)
    <2>1. file' = [file EXCEPT ![m.path] = file'[m.path]] \/ file' = file
        BY <1>2, <1>4 DEF Types, HostTypes
    <2>2. /\ \A v \in uploads' : v.id = id => v \in Spoils(m.path)
          /\ \A v \in Spoils(m.path) : v.id = id => v \in uploads'
        BY <1>6, <1>7
    <2> QED
        BY <1>3, <2>1, <2>2, SpoilsDisturbs
<1>8. Alone(uploads')
    <2>1. ASSUME NEW u \in uploads', NEW v \in uploads', u.clean, u.path = v.path
          PROVE  u = v
        <3>1. CASE u = n
            BY <1>6, <2>1, <3>1
        <3>2. CASE u \in others
            BY <1>1, <1>6, <2>1, <3>2 DEF Alone
        <3> QED
            BY <1>6, <3>1, <3>2
    <2>2. ASSUME NEW u \in uploads', u.clean
          PROVE  u.open
        BY <1>1, <1>6, <2>2 DEF Alone
    <2> QED
        BY <2>1, <2>2 DEF Alone
<1>9. n.clean => file'[m.path] = <<>>
    BY <1>2, <1>4, <1>6 DEF Types, HostTypes
<1> QED
    BY <1>6, <1>7, <1>8, <1>9

LEMMA WritesFine ==
    ASSUME Types, One, NEW c \in Client, NEW m \in Message, HostWrites(c, m)
    PROVE  /\ \A id : id # m.id => Undisturbed(id)
           /\ Alone(uploads')
           /\ \A u \in uploads : u.id = m.id =>
                 \E v \in uploads' : /\ v.id = m.id /\ v.path = u.path
                                     /\ v.clean => u.clean
                                     /\ v.clean /\ file[u.path] # Absent =>
                                           v.pos = u.pos + 1 /\ file'[u.path] = Put(file[u.path], u.pos, m.arg)
<1>1. /\ uploads \subseteq UploadState /\ DOMAIN file = Path
      /\ \A u, v \in uploads : u.id = v.id => u = v
      /\ UNCHANGED ended
    BY DEF Types, HostTypes, HostWrites
<1>2. CASE /\ UNCHANGED <<file, uploads>>
           /\ \A u \in OpenUpload(m) : ~(u.open /\ file[u.path] # Absent)
    <2>1. \A id : Undisturbed(id)
        BY <1>1, <1>2, Untouched
    <2>2. Alone(uploads')
        BY <1>2 DEF One
    <2>3. \A u \in uploads : u.id = m.id /\ u.clean => file[u.path] = Absent
        BY <1>2 DEF OpenUpload, One, Alone
    <2> QED
        BY <1>2, <2>1, <2>2, <2>3
<1>3. ASSUME NEW u \in uploads, u.id = m.id, NEW v, uploads' = (uploads \ {u}) \cup {v},
             v.id = u.id, v.path = u.path, v.clean => u.clean /\ v.open,
             \/ v.pos = u.pos + 1 /\ file' = [file EXCEPT ![u.path] = Put(@, u.pos, m.arg)]
             \/ ~v.clean /\ file' = file
      PROVE  /\ \A id : id # m.id => Undisturbed(id)
             /\ Alone(uploads')
             /\ \A w \in uploads : w.id = m.id =>
                   \E x \in uploads' : /\ x.id = m.id /\ x.path = w.path
                                       /\ x.clean => w.clean
                                       /\ x.clean /\ file[w.path] # Absent =>
                                             x.pos = w.pos + 1 /\ file'[w.path] = Put(file[w.path], w.pos, m.arg)
    <2>1. u.path \in Path
        BY <1>1 DEF UploadState
    <2>2. Alone(uploads')
        <3>1. ASSUME NEW a \in uploads', NEW b \in uploads', a.clean, a.path = b.path
              PROVE  a = b
            BY <1>3, <3>1 DEF One, Alone
        <3>2. ASSUME NEW a \in uploads', a.clean
              PROVE  a.open
            BY <1>3, <3>2 DEF One, Alone
        <3> QED
            BY <3>1, <3>2 DEF Alone
    <2>3. ASSUME NEW id, id # m.id
          PROVE  Undisturbed(id)
        <3>1. \A a \in uploads' : a.id = id => \E b \in uploads : b.id = id
            BY <1>3, <2>3
        <3>2. ASSUME NEW a \in uploads, a.id = id
              PROVE  \E b \in uploads' : /\ b.id = a.id /\ b.path = a.path
                                         /\ b.clean => a.clean /\ b.pos = a.pos /\ file'[a.path] = file[a.path]
            <4>1. a # u /\ a \in uploads'
                BY <1>3, <2>3, <3>2
            <4>2. a.clean => a.path # u.path
                BY <4>1 DEF One, Alone
            <4>3. a.path \in DOMAIN file
                BY <1>1 DEF UploadState
            <4>4. a.clean => file'[a.path] = file[a.path]
                BY <1>3, <4>2, <4>3
            <4> QED
                BY <4>1, <4>4
        <3> QED
            BY <1>1, <3>1, <3>2 DEF Undisturbed
    <2>4. ASSUME NEW w \in uploads, w.id = m.id
          PROVE  \E x \in uploads' : /\ x.id = m.id /\ x.path = w.path
                                     /\ x.clean => w.clean
                                     /\ x.clean /\ file[w.path] # Absent =>
                                           x.pos = w.pos + 1 /\ file'[w.path] = Put(file[w.path], w.pos, m.arg)
        <3>1. w = u /\ v \in uploads'
            BY <1>1, <1>3, <2>4
        <3>2. v.clean => /\ u.clean /\ v.pos = u.pos + 1
                         /\ file'[u.path] = Put(file[u.path], u.pos, m.arg)
            BY <1>1, <1>3, <2>1
        <3> QED
            BY <1>3, <3>1, <3>2
    <2> QED
        BY <2>2, <2>3, <2>4
<1>4. ASSUME NEW u \in OpenUpload(m),
             \/ /\ file' = [file EXCEPT ![u.path] = Put(@, u.pos, m.arg)]
                /\ uploads' = (uploads \ {u}) \cup {[u EXCEPT !.pos = @ + 1]}
             \/ /\ uploads' = (uploads \ {u}) \cup {[u EXCEPT !.open = FALSE, !.clean = FALSE]}
                /\ UNCHANGED file
      PROVE  \E v : /\ uploads' = (uploads \ {u}) \cup {v}
                    /\ v.id = u.id /\ v.path = u.path /\ (v.clean => u.clean /\ v.open)
                    /\ \/ v.pos = u.pos + 1 /\ file' = [file EXCEPT ![u.path] = Put(@, u.pos, m.arg)]
                       \/ ~v.clean /\ file' = file
    <2>1. u \in UploadState /\ (u.clean => u.open)
        BY <1>1 DEF OpenUpload, One, Alone
    <2> DEFINE v == [u EXCEPT !.pos = @ + 1]
               w == [u EXCEPT !.open = FALSE, !.clean = FALSE]
    <2>2. v.id = u.id /\ v.path = u.path /\ v.pos = u.pos + 1 /\ v.open = u.open /\ v.clean = u.clean
        BY <2>1, UploadFields
    <2>3. w.id = u.id /\ w.path = u.path /\ w.open = FALSE /\ w.clean = FALSE
        BY <2>1, UploadFields
    <2>4. \/ uploads' = (uploads \ {u}) \cup {v} /\ file' = [file EXCEPT ![u.path] = Put(@, u.pos, m.arg)]
          \/ uploads' = (uploads \ {u}) \cup {w} /\ file' = file
        BY <1>4
    <2> HIDE DEF v, w
    <2> QED
        BY <2>1, <2>2, <2>3, <2>4
<1>5. CASE \E u \in OpenUpload(m) : u.open /\ file[u.path] # Absent
    <2>1. PICK u \in OpenUpload(m) :
             \/ /\ file' = [file EXCEPT ![u.path] = Put(@, u.pos, m.arg)]
                /\ uploads' = (uploads \ {u}) \cup {[u EXCEPT !.pos = @ + 1]}
             \/ /\ uploads' = (uploads \ {u}) \cup {[u EXCEPT !.open = FALSE, !.clean = FALSE]}
                /\ UNCHANGED file
        BY <1>5 DEF HostWrites
    <2>2. u \in uploads /\ u.id = m.id
        BY DEF OpenUpload
    <2>3. PICK v : /\ uploads' = (uploads \ {u}) \cup {v}
                   /\ v.id = u.id /\ v.path = u.path /\ (v.clean => u.clean /\ v.open)
                   /\ \/ v.pos = u.pos + 1 /\ file' = [file EXCEPT ![u.path] = Put(@, u.pos, m.arg)]
                      \/ ~v.clean /\ file' = file
        BY <1>4, <2>1
    <2> QED
        BY <1>3, <2>2, <2>3
<1> QED
    BY <1>2, <1>5 DEF HostWrites

LEMMA EndsFine ==
    ASSUME Types, One, NEW c \in Client, NEW m \in Message, HostEnds(c, m)
    PROVE  /\ \A id : id # m.id => Undisturbed(id)
           /\ Alone(uploads')
           /\ \A u \in uploads' : u.id # m.id
           /\ \A u \in uploads : u.id = m.id =>
                 \E e \in ended' : e.m = m /\ e.data = IF u.clean THEN file[u.path] ELSE Spoiled
<1>1. uploads' = uploads \ OpenUpload(m) /\ ended' = ended \cup Ends(m) /\ UNCHANGED file
    BY DEF HostEnds
<1>2. \A id : id # m.id => Undisturbed(id)
    BY <1>1 DEF OpenUpload, Undisturbed
<1>3. Alone(uploads')
    BY <1>1 DEF One, Alone
<1>4. ASSUME NEW u \in uploads, u.id = m.id
      PROVE  \E e \in ended' : e.m = m /\ e.data = IF u.clean THEN file[u.path] ELSE Spoiled
    <2> DEFINE data == IF u.clean THEN file[u.path] ELSE Spoiled
    <2>1. [m |-> m, data |-> data] \in ended'
        BY <1>1, <1>4 DEF Ends, OpenUpload
    <2> HIDE DEF data
    <2>2. [m |-> m, data |-> data].m = m /\ [m |-> m, data |-> data].data = data
        OBVIOUS
    <2> QED
        BY <2>1, <2>2 DEF data
<1> QED
    BY <1>1, <1>2, <1>3, <1>4 DEF OpenUpload

\* A chunk is put behind those before it.
LEMMA Beginnings ==
    ASSUME NEW buf \in Seq(Cell)
    PROVE  /\ SubSeq(buf, 1, 0) = <<>> /\ SubSeq(buf, 1, Len(buf)) = buf
           /\ \A k \in 0 .. Len(buf) : SubSeq(buf, 1, k) \in Seq(Cell)
           /\ \A k \in 1 .. Len(buf) : Put(SubSeq(buf, 1, k - 1), k - 1, buf[k]) = SubSeq(buf, 1, k)
<1>1. /\ SubSeq(buf, 1, 0) = <<>> /\ SubSeq(buf, 1, Len(buf)) = buf
      /\ \A k \in 0 .. Len(buf) : SubSeq(buf, 1, k) \in Seq(Cell)
    OBVIOUS
<1>2. ASSUME NEW k \in 1 .. Len(buf)
      PROVE  Put(SubSeq(buf, 1, k - 1), k - 1, buf[k]) = SubSeq(buf, 1, k)
    <2> DEFINE data == SubSeq(buf, 1, k - 1)
               off == k - 1
    <2>1. /\ off \in Nat /\ off + 1 = k /\ Len(data) = off
          /\ \A i \in 1 .. off : data[i] = buf[i]
        OBVIOUS
    <2>2. SubSeq(buf, 1, k) = [i \in 1 .. k |-> buf[i]]
        OBVIOUS
    <2>3. Put(data, off, buf[k]) =
             [i \in 1 .. IF off < Len(data) THEN Len(data) ELSE off + 1 |->
                IF i = off + 1 THEN buf[k] ELSE IF i <= Len(data) THEN data[i] ELSE 0]
        BY DEF Put
    <2> HIDE DEF data, off
    <2>4. (IF off < Len(data) THEN Len(data) ELSE off + 1) = k
        BY <2>1
    <2>5. \A i \in 1 .. k : (IF i = off + 1 THEN buf[k] ELSE IF i <= Len(data) THEN data[i] ELSE 0) = buf[i]
        BY <2>1
    <2>6. Put(data, off, buf[k]) = [i \in 1 .. k |-> buf[i]]
        BY <2>3, <2>4, <2>5
    <2> QED
        BY <2>2, <2>6 DEF data, off
<1> QED
    BY <1>1, <1>2

LEMMA AbsentIsNone == Absent \notin Seq(Cell)
<1>1. MaxCalls + 2 \notin Cell
    BY WebFilesAssumption DEF Cell
<1> QED
    BY <1>1 DEF Absent

\* What the host does with a message leaves the uploads of other ids alone, and is answered under its id.
LEMMA HostEffects ==
    ASSUME Types, One, NEW c \in Client, HostTakes(c), NEW m \in Message, m = Head(up[c])
    PROVE  /\ One'
           /\ \A id : id # m.id => Undisturbed(id)
           /\ \E a : /\ a.id = m.id /\ (a.t = "ok" => m.t \in {"delete", "uploadEnd"})
                     /\ down' = [down EXCEPT ![c] = Append(@, a)] \/ down' = down
           /\ \A d \in Client : d # c => serving'[d] = serving[d]
           /\ serving'[c] # <<>> => serving'[c].id = m.id
<1>1. /\ serving[c] = <<>> /\ DOMAIN serving = Client
      /\ \/ HostLists(c, m) \/ HostDeletes(c, m) \/ HostDownloads(c, m)
         \/ HostStarts(c, m) \/ HostWrites(c, m) \/ HostEnds(c, m)
    BY DEF Types, HostTypes, HostTakes
<1>2. ASSUME NEW kind, NEW arg, Answer(c, m, kind, arg), kind = "ok" => m.t \in {"delete", "uploadEnd"}
      PROVE  \E a : /\ a.id = m.id /\ (a.t = "ok" => m.t \in {"delete", "uploadEnd"})
                    /\ down' = [down EXCEPT ![c] = Append(@, a)] \/ down' = down
    BY <1>2, AnswerHas
<1>3. ASSUME UNCHANGED down
      PROVE  \E a : /\ a.id = m.id /\ (a.t = "ok" => m.t \in {"delete", "uploadEnd"})
                    /\ down' = [down EXCEPT ![c] = Append(@, a)] \/ down' = down
    <2>1. [id |-> m.id, t |-> "error"].id = m.id /\ [id |-> m.id, t |-> "error"].t # "ok"
        OBVIOUS
    <2> QED
        BY <1>3, <2>1
<1>4. UNCHANGED uploads => One'
    BY DEF One
<1>5. CASE HostLists(c, m)
    <2>1. UNCHANGED <<file, uploads, ended, serving>> /\ \E arg : Answer(c, m, "listResult", arg)
        BY <1>5 DEF HostLists, host
    <2> QED
        BY <1>1, <1>2, <1>4, <2>1, Untouched
<1>6. CASE HostDeletes(c, m)
    <2>1. /\ file' = [file EXCEPT ![m.path] = Absent] /\ uploads' = Spoils(m.path)
          /\ UNCHANGED <<serving, ended>> /\ Answer(c, m, "ok", <<>>) /\ m.t = "delete"
        BY <1>6 DEF HostDeletes
    <2>2. file' = [file EXCEPT ![m.path] = file'[m.path]]
        BY <2>1, MessageFields DEF Types, HostTypes
    <2>3. \A id : Undisturbed(id)
        BY <2>1, <2>2, SpoilsDisturbs
    <2> QED
        BY <1>1, <1>2, <2>1, <2>3, SpoilsFine DEF One
<1>7. CASE HostDownloads(c, m)
    <2>1. UNCHANGED <<file, uploads, ended>> /\ m.t = "download"
        BY <1>7 DEF HostDownloads
    <2>2. CASE Answer(c, m, "error", <<>>) /\ UNCHANGED serving
        BY <1>1, <1>2, <1>4, <2>1, <2>2, Untouched
    <2>3. CASE serving' = [serving EXCEPT ![c] = [m EXCEPT !.arg = Cut(@, Len(file[m.path]))]] /\ UNCHANGED down
        <3>1. [m EXCEPT !.arg = Cut(@, Len(file[m.path]))].id = m.id
            <4>1. m \in Download
                BY <2>1, MessageFields
            <4> QED
                BY <4>1 DEF Download, Record
        <3>2. serving'[c].id = m.id /\ \A d \in Client : d # c => serving'[d] = serving[d]
            BY <1>1, <2>3, <3>1
        <3> QED
            BY <1>3, <1>4, <2>1, <2>3, <3>2, Untouched
    <2> QED
        BY <1>7, <2>2, <2>3 DEF HostDownloads
<1>8. CASE HostStarts(c, m)
    <2>1. Answer(c, m, "uploadReady", <<>>) /\ UNCHANGED serving
        BY <1>8 DEF HostStarts
    <2> QED
        BY <1>1, <1>2, <1>8, <2>1, StartsFine DEF One
<1>9. CASE HostWrites(c, m)
    <2>1. UNCHANGED <<serving, down>>
        BY <1>9 DEF HostWrites
    <2> QED
        BY <1>1, <1>3, <1>9, <2>1, WritesFine DEF One
<1>10. CASE HostEnds(c, m)
    <2>1. Answer(c, m, "ok", <<>>) /\ UNCHANGED serving /\ m.t = "uploadEnd"
        BY <1>10 DEF HostEnds
    <2> QED
        BY <1>1, <1>2, <1>10, <2>1, EndsFine DEF One
<1> QED
    BY <1>1, <1>5, <1>6, <1>7, <1>8, <1>9, <1>10

LEMMA PartTaken ==
    ASSUME NEW call, NEW t, NEW k, k \in 1 .. Len(call.buf) + 1, k # Len(call.buf) + 2,
           NEW v \in uploads', v.id = call.id, v.path = call.path,
           v.clean => v.pos = k - 1 /\ file'[v.path] = SubSeq(call.buf, 1, k - 1)
    PROVE  Taken(call, t, k)'
BY DEF Taken

\* The host takes the next part of an upload.
LEMMA HostPart ==
    ASSUME Types, One, NEW c \in Client, HostTakes(c), NEW m \in Message, m = Head(up[c]),
           NEW call, NEW t, NEW n \in Nat, NEW k \in Nat, k = n + 1, call.buf \in Seq(Cell), m.id = call.id,
           Taken(call, t, n), Part(m, k, call, t)
    PROVE  Taken(call, t, k)'
<1> DEFINE l == Len(call.buf)
<1>1. /\ l \in Nat
      /\ \/ HostLists(c, m) \/ HostDeletes(c, m) \/ HostDownloads(c, m)
         \/ HostStarts(c, m) \/ HostWrites(c, m) \/ HostEnds(c, m)
    BY DEF HostTakes
<1>2. CASE n = 0 /\ m.t = "uploadStart"
    <2>1. HostStarts(c, m) /\ m.path = call.path
        BY <1>1, <1>2 DEF HostLists, HostDeletes, HostDownloads, HostWrites, HostEnds, Part
    <2>2. PICK u \in uploads' : /\ u.id = m.id /\ u.path = m.path
                                /\ u.clean => u.pos = 0 /\ file'[m.path] = <<>>
        BY <2>1, StartsFine
    <2>3. k = 1 /\ 1 \in 1 .. l + 1 /\ 1 # l + 2 /\ SubSeq(call.buf, 1, 0) = <<>> /\ k - 1 = 0
        BY <1>1, <1>2, Beginnings
    <2>4. /\ u.id = call.id /\ u.path = call.path
          /\ u.clean => u.pos = k - 1 /\ file'[u.path] = SubSeq(call.buf, 1, k - 1)
        BY <2>1, <2>2, <2>3
    <2>5. k \in 1 .. l + 1 /\ k # l + 2
        BY <2>3
    <2> QED
        BY <2>4, <2>5, PartTaken
<1>3. CASE n \in 1 .. l /\ m.t = "bin" /\ m.arg = call.buf[n]
    <2>1. HostWrites(c, m) /\ m.path = call.path
        BY <1>1, <1>3 DEF HostLists, HostDeletes, HostDownloads, HostStarts, HostEnds, Part
    <2>2. n \in 1 .. l + 1
        BY <1>1, <1>3
    <2>3. PICK u \in uploads : /\ u.id = call.id /\ u.path = call.path
                               /\ u.clean => u.pos = n - 1 /\ file[u.path] = SubSeq(call.buf, 1, n - 1)
        BY <2>2 DEF Taken
    <2>4. PICK v \in uploads' : /\ v.id = m.id /\ v.path = u.path
                                /\ v.clean => u.clean
                                /\ v.clean /\ file[u.path] # Absent =>
                                      v.pos = u.pos + 1 /\ file'[u.path] = Put(file[u.path], u.pos, m.arg)
        BY <2>1, <2>3, WritesFine
    <2>5. ASSUME v.clean
          PROVE  v.pos = k - 1 /\ file'[v.path] = SubSeq(call.buf, 1, k - 1)
        <3>1. u.pos = n - 1 /\ file[u.path] = SubSeq(call.buf, 1, n - 1)
            BY <2>3, <2>4, <2>5
        <3>2. n - 1 \in 0 .. l /\ k - 1 = n /\ n - 1 + 1 = n
            BY <1>1, <1>3
        <3>3. file[u.path] # Absent
            BY <3>1, <3>2, Beginnings, AbsentIsNone
        <3>4. v.pos = n /\ file'[u.path] = Put(SubSeq(call.buf, 1, n - 1), n - 1, call.buf[n])
            BY <1>3, <2>4, <2>5, <3>1, <3>2, <3>3
        <3>5. Put(SubSeq(call.buf, 1, n - 1), n - 1, call.buf[n]) = SubSeq(call.buf, 1, n)
            BY <1>3, Beginnings
        <3> QED
            BY <2>4, <3>2, <3>4, <3>5
    <2>6. k \in 1 .. l + 1 /\ k # l + 2
        BY <1>1, <1>3
    <2>7. v.id = call.id /\ v.path = call.path
        BY <2>3, <2>4
    <2> QED
        BY <2>5, <2>6, <2>7, PartTaken
<1>4. CASE n = l + 1 /\ m.t = "uploadEnd" /\ m.by = t
    <2>1. HostEnds(c, m)
        BY <1>1, <1>4 DEF HostLists, HostDeletes, HostDownloads, HostStarts, HostWrites
    <2>2. n \in 1 .. l + 1 /\ n - 1 = l /\ k = l + 2 /\ k \notin 1 .. l + 1
        BY <1>1, <1>4
    <2>3. PICK u \in uploads : /\ u.id = call.id /\ u.path = call.path
                               /\ u.clean => u.pos = n - 1 /\ file[u.path] = SubSeq(call.buf, 1, n - 1)
        BY <2>2 DEF Taken
    <2>4. u.clean => file[u.path] = call.buf
        BY <2>2, <2>3, Beginnings
    <2>5. PICK e \in ended' : e.m = m /\ e.data = IF u.clean THEN file[u.path] ELSE Spoiled
        BY <2>1, <2>3, EndsFine
    <2>6. e.m.by = t /\ e.m.id = call.id /\ e.data \in {call.buf, Spoiled}
        BY <1>4, <2>4, <2>5
    <2>7. \A v \in uploads' : v.id # call.id
        BY <2>1, EndsFine
    <2> QED
        BY <2>2, <2>6, <2>7 DEF Taken
<1> QED
    <2>1. /\ m.by = t
          /\ \/ k = 1 /\ m.t = "uploadStart"
             \/ k \in 2 .. l + 1 /\ m.t = "bin" /\ m.arg = call.buf[k - 1]
             \/ k = l + 2 /\ m.t = "uploadEnd"
        BY DEF Part
    <2>2. /\ k = 1 => n = 0
          /\ k \in 2 .. l + 1 => n \in 1 .. l
          /\ k = l + 2 => n = l + 1
          /\ k - 1 = n
        BY <1>1
    <2> QED
        BY <1>2, <1>3, <1>4, <2>1, <2>2

LEMMA HostTakesSaves ==
    ASSUME SavedInv, Apart, NEW c \in Client, HostTakes(c)
    PROVE  SavedInv'
<1> DEFINE q == up[c]
<1>1. /\ FileInv' /\ Types /\ Numbered /\ One /\ q \in Seq(Message) /\ q # <<>> /\ up' = [up EXCEPT ![c] = Tail(@)]
      /\ UNCHANGED <<open, nextId, replies, th>>
    BY HostTakesKeeps DEF SavedInv, FileInv, Types, ChannelTypes, HostTakes, client, waiting
<1>2. PICK m \in Message : m = Head(q)
    BY <1>1
<1>3. /\ up \in [Client -> Seq(Message)] /\ down \in [Client -> Seq(Message)]
      /\ serving \in [Client -> Download \cup {<<>>}]
    BY <1>1 DEF Types, ChannelTypes, HostTypes
<1>4. /\ One' /\ \A id : id # m.id => Undisturbed(id)
      /\ \A d \in Client : d # c => serving'[d] = serving[d]
      /\ serving'[c] # <<>> => serving'[c].id = m.id
    BY <1>1, <1>2, HostEffects
<1>5. PICK a : /\ a.id = m.id
               /\ a.t = "ok" => m.t \in {"delete", "uploadEnd"}
               /\ down' = [down EXCEPT ![c] = Append(@, a)] \/ down' = down
    BY <1>1, <1>2, HostEffects
<1>6. up'[c] = Tail(q) /\ \A d \in Client : d # c => up'[d] = up[d]
    BY <1>1, <1>3
<1>7. ASSUME NEW d \in Client, NEW k \in 1 .. Len(down'[d])
      PROVE  \/ k \in 1 .. Len(down[d]) /\ down'[d][k] = down[d][k]
             \/ d = c /\ down'[d][k] = a
    <2>1. CASE d = c /\ down' # down
        <3>1. down[d] \in Seq(Message) /\ down'[d] = Append(down[d], a)
            BY <1>3, <1>5, <2>1
        <3>2. /\ Len(down'[d]) = Len(down[d]) + 1
              /\ \A j \in 1 .. Len(down[d]) : down'[d][j] = down[d][j]
              /\ down'[d][Len(down[d]) + 1] = a
            BY <3>1
        <3>3. k \in 1 .. Len(down[d]) \/ k = Len(down[d]) + 1
            BY <3>1, <3>2
        <3> QED
            BY <2>1, <3>2, <3>3
    <2>2. CASE d # c \/ down' = down
        BY <1>3, <1>5, <2>2
    <2> QED
        BY <2>1, <2>2
<1>8. m.id \in Numbers(c)
    BY <1>1, <1>2 DEF Numbered
<1>9. Numbered'
    <2>1. ASSUME NEW d \in Client
          PROVE  /\ \A k \in 1 .. Len(up'[d]) : up'[d][k].id \in Numbers(d)
                 /\ \A k \in 1 .. Len(down'[d]) : down'[d][k].id \in Numbers(d)
                 /\ \A r \in replies'[d] : r.id \in Numbers(d)
                 /\ serving'[d] # <<>> => serving'[d].id \in Numbers(d)
        <3>1. /\ \A k \in 1 .. Len(up[d]) : up[d][k].id \in Numbers(d)
              /\ \A k \in 1 .. Len(down[d]) : down[d][k].id \in Numbers(d)
              /\ \A r \in replies[d] : r.id \in Numbers(d)
              /\ serving[d] # <<>> => serving[d].id \in Numbers(d)
            BY <1>1 DEF Numbered
        <3>2. \A k \in 1 .. Len(up'[d]) : up'[d][k].id \in Numbers(d)
            <4>1. CASE d = c
                <5>1. \A k \in 1 .. Len(Tail(q)) : k + 1 \in 1 .. Len(q) /\ Tail(q)[k] = q[k + 1]
                    BY <1>1
                <5> QED
                    BY <1>6, <3>1, <4>1, <5>1
            <4>2. CASE d # c
                BY <1>6, <3>1, <4>2
            <4> QED
                BY <4>1, <4>2
        <3>3. \A k \in 1 .. Len(down'[d]) : down'[d][k].id \in Numbers(d)
            <4>1. a.id = m.id
                BY <1>5
            <4> QED
                BY <1>7, <1>8, <3>1, <4>1
        <3>4. serving'[d] # <<>> => serving'[d].id \in Numbers(d)
            BY <1>4, <1>8, <3>1
        <3> QED
            BY <1>1, <3>1, <3>2, <3>3, <3>4
    <2>2. \A u \in uploads' : \E d \in Client : u.id \in Numbers(d)
        <3> SUFFICES ASSUME NEW u \in uploads' PROVE \E d \in Client : u.id \in Numbers(d)
            OBVIOUS
        <3>1. CASE u.id = m.id
            BY <1>8, <3>1
        <3>2. CASE u.id # m.id
            <4>1. PICK v \in uploads : v.id = u.id
                BY <1>4, <3>2 DEF Undisturbed
            <4> QED
                BY <1>1, <4>1 DEF Numbered
        <3> QED
            BY <3>1, <3>2
    <2> QED
        BY <1>1, <2>1, <2>2, NumberedStays
<1>10. ASSUME NEW u \in Thread, Uploading(u)
       PROVE  Progress(u)'
    <2>1. PICK call, d : call = th[u] /\ call = th'[u] /\ d = u[1]
        BY <1>1
    <2>2. /\ d \in Client /\ call.id \in Numbers(d) /\ call \in CallState /\ call.buf \in Seq(Cell)
          /\ up[d] \in Seq(Message) /\ up'[d] \in Seq(Message)
        <3>1. th[u].pc \in Working /\ th[u].pc # "idle"
            BY <1>10 DEF Uploading, Working
        <3>2. th[u].id \in Numbers(u[1]) /\ th[u] \in CallState /\ th[u].buf \in Seq(Cell)
            BY <1>1, <3>1, CallFields DEF Numbered
        <3>3. up[d] \in Seq(Message) /\ up'[d] \in Seq(Message)
            BY <1>1, <2>1, ClientOf DEF FileInv, Types, ChannelTypes
        <3> QED
            BY <2>1, <3>2, <3>3, ClientOf
    <2>3. Oks(d, call.id)' => Oks(d, call.id) \/ (m.id = call.id /\ m.t \in {"delete", "uploadEnd"})
        <3>1. a.id = m.id /\ (a.t = "ok" => m.t \in {"delete", "uploadEnd"}) /\ replies' = replies
            BY <1>1, <1>5
        <3>2. \A k \in 1 .. Len(down'[d]) : \/ k \in 1 .. Len(down[d]) /\ down'[d][k] = down[d][k]
                                            \/ down'[d][k] = a
            BY <1>7, <2>2
        <3> QED
            BY <3>1, <3>2 DEF Oks
    <2>4. PICK pos \in [0 .. Len(up[d]) -> Nat] : Follows(u, pos)
        BY <1>10, <2>1 DEF SavedInv, Progress
    <2>5. /\ Steps(up[d], call, u, pos) /\ (open[d] => pos[Len(up[d])] = Sent(call))
          /\ Taken(call, u, pos[0]) /\ (Oks(d, call.id) => pos[0] = Len(call.buf) + 2)
        BY <2>1, <2>4 DEF Follows
    <2>6. ASSUME NEW new \in [0 .. Len(up'[d]) -> Nat], Steps(up'[d], call, u, new),
                 open[d] => new[Len(up'[d])] = Sent(call),
                 Taken(call, u, new[0])',
                 Oks(d, call.id)' => new[0] = Len(call.buf) + 2
          PROVE  Progress(u)'
        <3>1. Steps(up'[u[1]], th'[u], u, new) /\ (open'[u[1]] => new[Len(up'[u[1]])] = Sent(th'[u]))
            BY <1>1, <2>1, <2>6
        <3>2. Taken(th[u], u, new[0])'
            BY <2>1, <2>6 DEF Taken
        <3>3. Oks(u[1], th[u].id)' => new[0] = Len(th'[u].buf) + 2
            BY <2>1, <2>6 DEF Oks
        <3>4. Follows(u, new)'
            BY <3>1, <3>2, <3>3 DEF Follows
        <3> QED
            BY <2>1, <3>4 DEF Progress
    <2>7. ASSUME m.id # call.id
          PROVE  Taken(call, u, pos[0])' /\ (Oks(d, call.id)' => pos[0] = Len(call.buf) + 2)
        <3>1. Taken(call, u, pos[0])'
            BY <1>4, <2>5, <2>7, TakenStays
        <3> QED
            BY <2>3, <2>5, <2>7, <3>1
    <2>8. CASE d # c
        <3>1. m.id # call.id
            BY <1>8, <2>2, <2>8 DEF Apart
        <3>2. up'[d] = up[d]
            BY <1>6, <2>2, <2>8
        <3> QED
            BY <2>4, <2>5, <2>6, <2>7, <3>1, <3>2
    <2>9. CASE d = c
        <3>1. up[d] = q /\ up'[d] = Tail(q)
            BY <1>6, <2>9
        <3>2. /\ IF m.id = call.id THEN pos[1] = pos[0] + 1 /\ Part(m, pos[1], call, u) ELSE pos[1] = pos[0]
              /\ \E new \in [0 .. Len(Tail(q)) -> Nat] :
                    Steps(Tail(q), call, u, new) /\ new[0] = pos[1] /\ new[Len(Tail(q))] = pos[Len(q)]
            <4>1. /\ q \in Seq(Message) /\ q # <<>> /\ m = Head(q)
                  /\ pos \in [0 .. Len(q) -> Nat] /\ Steps(q, call, u, pos)
                BY <1>1, <1>2, <2>4, <2>5, <3>1
            <4> HIDE DEF q
            <4> QED
                BY <4>1, StepsTaken
        <3>3. PICK new \in [0 .. Len(Tail(q)) -> Nat] :
                 Steps(Tail(q), call, u, new) /\ new[0] = pos[1] /\ new[Len(Tail(q))] = pos[Len(q)]
            BY <3>2
        <3>4. open[d] => new[Len(up'[d])] = Sent(call)
            BY <2>5, <3>1, <3>3
        <3>5. pos[0] \in Nat /\ pos[1] \in Nat /\ Len(call.buf) \in Nat
            <4>1. 0 \in 0 .. Len(q) /\ 1 \in 0 .. Len(q)
                BY <1>1
            <4> QED
                BY <2>2, <2>4, <3>1, <4>1
        <3>6. CASE m.id # call.id
            <4>1. new[0] = pos[0]
                BY <3>2, <3>3, <3>6
            <4> QED
                BY <2>6, <2>7, <3>1, <3>3, <3>4, <3>6, <4>1
        <3>7. CASE m.id = call.id
            <4>1. pos[1] = pos[0] + 1 /\ Part(m, pos[1], call, u)
                BY <3>2, <3>7
            <4>2. PICK n \in Nat, k \in Nat : n = pos[0] /\ k = pos[1]
                BY <3>5
            <4>3. Taken(call, u, k)'
                BY <1>1, <1>2, <2>2, <2>5, <3>7, <4>1, <4>2, HostPart
            <4>4. Taken(call, u, new[0])'
                BY <3>3, <4>2, <4>3
            <4>5. Oks(d, call.id)' => new[0] = Len(call.buf) + 2
                <5>1. Oks(d, call.id) => FALSE
                    <6>1. pos[1] # Len(call.buf) + 3
                        BY <3>5, <4>1 DEF Part
                    <6> QED
                        BY <2>5, <3>5, <4>1, <6>1
                <5>2. m.t \in {"delete", "uploadEnd"} => pos[1] = Len(call.buf) + 2
                    BY <4>1 DEF Part
                <5> QED
                    BY <2>3, <3>3, <5>1, <5>2
            <4> QED
                BY <2>6, <3>1, <3>3, <3>4, <4>4, <4>5
        <3> QED
            BY <3>6, <3>7
    <2> QED
        BY <2>8, <2>9
<1> QED
    BY <1>1, <1>4, <1>9, <1>10, QuietKeeps

LEMMA SavedInit == Init => SavedInv
<1> SUFFICES ASSUME Init PROVE SavedInv
    OBVIOUS
<1>1. \A c \in Client : /\ up[c] = <<>> /\ down[c] = <<>> /\ replies[c] = {} /\ serving[c] = <<>>
                        /\ FirstId[c] <= nextId[c]
    BY WebFilesAssumption DEF Init
<1>2. \A t \in Thread : th[t].pc = "idle"
    BY DEF Init, Idle
<1>3. Numbered
    BY <1>1, <1>2 DEF Init, Numbered, Working
<1>4. Single /\ Begun /\ One /\ \A t \in Thread : Progress(t)
    BY <1>2 DEF Init, Single, Begun, One, Alone, Progress, Uploading, Working
<1> QED
    BY <1>3, <1>4, FileInit DEF SavedInv

LEMMA SavedNext == SavedInv /\ Apart /\ Apart' /\ [Next]_vars => SavedInv'
<1> SUFFICES ASSUME SavedInv, Apart, Apart', [Next]_vars PROVE SavedInv'
    OBVIOUS
<1>1. ASSUME NEW t \in Thread, NEW p \in Path,
             \/ \E trunc, create \in BOOLEAN : Open(t, p, trunc, create)
             \/ \E n \in 0 .. Size : Truncate(t, p, n)
             \/ Unlink(t, p)
      PROVE  SavedInv'
    BY <1>1, OpenSaves, TruncateSaves, UnlinkSaves
<1>2. ASSUME NEW t \in Thread, NEW h \in Handle,
             \/ \E off \in 0 .. Size - 1 : Loads(t, "read", h, off) \/ Loads(t, "write", h, off) \/ WriteLoaded(t, h, off)
             \/ Release(t, h)
      PROVE  SavedInv'
    BY <1>2, LoadsSaves, WriteLoadedSaves, ReleaseSaves
<1>3. ASSUME NEW t \in Thread, UploadStart(t) \/ SendChunk(t) \/ Answered(t) \/ GivesUp(t)
      PROVE  SavedInv'
    BY <1>3, UploadStartSaves, SendChunkSaves, AnsweredSaves, GivesUpSaves
<1>4. ASSUME NEW c \in Client, Deliver(c) \/ Closed(c) \/ SignallingLost(c) \/ HostTakes(c) \/ HostReads(c)
      PROVE  SavedInv'
    BY <1>4, DeliverSaves, ClosedSaves, SignallingLostSaves, HostTakesSaves, HostReadsSaves
<1>5. CASE UNCHANGED vars
    <2>1. FileInv'
        BY <1>5, FileNext DEF SavedInv
    <2>2. UNCHANGED <<open, nextId, replies, th, up, down, uploads, file, ended, serving>>
        BY <1>5 DEF vars, client, waiting, chan, host
    <2>3. Numbered' /\ One'
        BY <2>2 DEF SavedInv, Numbered, Numbers, One
    <2>4. \A u \in Thread : Progress(u)'
        BY <2>2 DEF SavedInv, Progress, Uploading, Follows, Taken, Oks
    <2> QED
        BY <2>1, <2>2, <2>3, <2>4, QuietKeeps
<1> QED
    BY <1>1, <1>2, <1>3, <1>4, <1>5, HostChangesSaves DEF Next

\* When RELEASE or TRUNCATE takes the host's ok (upload_file in web_compat.cpp), the host's file was what it
\* uploaded, unless somebody else changed it or the disk failed meanwhile: as long as no two mounts
\* use the same request ids, by which alone the host tells uploads apart.
THEOREM UploadsAreSaved == Spec /\ []Apart => []Saved
<1>1. ASSUME SavedInv
      PROVE  Saved
    <2> SUFFICES ASSUME NEW t \in Thread, th[t].pc = "ending", NEW r \in ReplyTo(t), r.t = "ok"
                 PROVE  \E e \in ended : e.m.by = t /\ e.m.id = th[t].id /\ e.data \in {th[t].buf, Spoiled}
        BY DEF Saved
    <2>1. PICK pos \in [0 .. Len(up[t[1]]) -> Nat] : Follows(t, pos)
        BY <1>1 DEF SavedInv, Progress, Uploading
    <2>2. pos[0] = Len(th[t].buf) + 2
        BY <2>1 DEF ReplyTo, Oks, Follows
    <2> QED
        BY <2>1, <2>2 DEF Follows, Taken
<1> QED
    BY <1>1, SavedInit, SavedNext, PTL DEF Spec

\* A single mount gives every id out once.
THEOREM OneMountSaves ==
    ASSUME \A c, d \in Client : c = d
    PROVE  Spec => []Saved
<1>1. Apart
    BY DEF Apart
<1> QED
    BY <1>1, UploadsAreSaved, PTL

(************************* requests and their answers **********************)

\* What a thread sends under the id it has, and what comes under it.
Sends(pc) == IF pc = "chunks" THEN {"bin"} ELSE IF pc = "ending" THEN {"bin", "uploadEnd"} ELSE {Requests[pc]}
Gets(pc) == IF pc = "chunks" THEN {} ELSE Answers[pc]

\* Where the messages of an id lie that are a request or the end of an answer.
Tokens(q, id) == {k \in 1 .. Len(q) : q[k].id = id /\ q[k].t # "bin"}
AtMostOne(S) == \A x, y \in S : x = y
Serves(c, id) == serving[c] # <<>> /\ serving[c].id = id
Came(c, id) == {r \in replies[c] : r.id = id}

\* Of a call there is one of them: its request, the download it made, or its answer; or none, when
\* it was lost.
At(c, id, place) ==
    /\ Tokens(up[c], id) = {} <=> place # "up"
    /\ Serves(c, id) <=> place = "host"
    /\ Tokens(down[c], id) = {} <=> place # "down"
    /\ Came(c, id) = {} <=> place # "reply"
    /\ AtMostOne(Tokens(up[c], id)) /\ AtMostOne(Tokens(down[c], id)) /\ AtMostOne(Came(c, id))

\* Everything under the id of t is of t, and belongs to what t does.
Fits(t, call) ==
    /\ \A k \in 1 .. Len(up[t[1]]) : up[t[1]][k].id = call.id =>
          up[t[1]][k].by = t /\ up[t[1]][k].t \in Sends(call.pc)
    /\ Serves(t[1], call.id) => serving[t[1]].by = t /\ call.pc = "file"
    /\ \A k \in 1 .. Len(down[t[1]]) : down[t[1]][k].id = call.id =>
          down[t[1]][k].by = t /\ (down[t[1]][k].t = "bin" \/ down[t[1]][k].t \in Gets(call.pc))
    /\ \A r \in Came(t[1], call.id) : r.by = t /\ r.t \in Gets(call.pc)
    /\ call.id \in DOMAIN downloads[t[1]] =>
          \A k \in 1 .. Len(downloads[t[1]][call.id]) : downloads[t[1]][call.id][k].by = t

Place == {"up", "host", "down", "reply", "lost"}
Exchange(t, call, place) ==
    /\ At(t[1], call.id, place) /\ Fits(t, call)
    /\ call.pc = "chunks" => place = "lost"
    /\ place = "lost" => call.pc = "chunks" \/ dead[t[1]]
Exchanges(t) == th[t].pc \in Working => \E place \in Place : Exchange(t, th[t], place)

\* No id was used that the client has yet to give out.
Fresh ==
    /\ \A c \in Client :
          /\ \A k \in 1 .. Len(up[c]) : up[c][k].id < nextId[c]
          /\ \A k \in 1 .. Len(down[c]) : down[c][k].id < nextId[c]
          /\ \A r \in replies[c] : r.id < nextId[c]
          /\ serving[c] # <<>> => serving[c].id < nextId[c]
          /\ \A i \in DOMAIN downloads[c] : i \in Nat /\ i < nextId[c]
    /\ \A t \in Thread : th[t].pc \in Working => th[t].id < nextId[t[1]]

Ended == \A c \in Client : ~open[c] => dead[c]

CallsInv == FileInv /\ Fresh /\ Single /\ Ended /\ \A t \in Thread : Exchanges(t)

\* For an id, r is as good as q.
SameFor(q, r, id) ==
    /\ Tokens(r, id) = {} <=> Tokens(q, id) = {}
    /\ AtMostOne(Tokens(q, id)) => AtMostOne(Tokens(r, id))
    /\ \A k \in 1 .. Len(r) : r[k].id = id => \E j \in 1 .. Len(q) : r[k] = q[j]

LEMMA SameSelf == \A q, id : SameFor(q, q, id)
BY DEF SameFor

LEMMA Appended ==
    ASSUME NEW q \in Seq(Message), NEW m \in Message
    PROVE  /\ \A k \in 1 .. Len(Append(q, m)) :
                 (k \in 1 .. Len(q) /\ Append(q, m)[k] = q[k]) \/ (k = Len(q) + 1 /\ Append(q, m)[k] = m)
           /\ \A id : m.id # id => SameFor(q, Append(q, m), id)
           /\ \A id : m.id = id /\ m.t = "bin" => Tokens(Append(q, m), id) = Tokens(q, id)
           /\ \A id : m.id = id /\ m.t # "bin" /\ Tokens(q, id) = {} => Tokens(Append(q, m), id) = {Len(q) + 1}
<1> DEFINE r == Append(q, m)
<1>1. /\ Len(q) \in Nat /\ Len(r) = Len(q) + 1 /\ r[Len(q) + 1] = m
      /\ \A k \in 1 .. Len(q) : k \in 1 .. Len(r) /\ r[k] = q[k]
    OBVIOUS
<1> HIDE DEF r
<1>2. \A k \in 1 .. Len(r) : (k \in 1 .. Len(q) /\ r[k] = q[k]) \/ (k = Len(q) + 1 /\ r[k] = m)
    BY <1>1
<1>3. \A id : Tokens(r, id) = Tokens(q, id) \cup IF m.id = id /\ m.t # "bin" THEN {Len(q) + 1} ELSE {}
    <2> SUFFICES ASSUME NEW id
                 PROVE  \A k : k \in Tokens(r, id) <=>
                                  k \in Tokens(q, id) \/ (m.id = id /\ m.t # "bin" /\ k = Len(q) + 1)
        OBVIOUS
    <2>1. Len(q) + 1 \in 1 .. Len(r)
        BY <1>1
    <2>2. \A k \in 1 .. Len(q) : k # Len(q) + 1
        BY <1>1
    <2> QED
        BY <1>1, <1>2, <2>1, <2>2 DEF Tokens
<1>4. ASSUME NEW id, m.id # id
      PROVE  SameFor(q, r, id)
    <2>1. Tokens(r, id) = Tokens(q, id)
        BY <1>3, <1>4
    <2> QED
        BY <1>2, <1>4, <2>1 DEF SameFor
<1> QED
    BY <1>2, <1>3, <1>4 DEF r

LEMMA TakenOff ==
    ASSUME NEW q \in Seq(Message), q # <<>>
    PROVE  /\ \A k \in 1 .. Len(Tail(q)) : k + 1 \in 1 .. Len(q) /\ Tail(q)[k] = q[k + 1]
           /\ 1 \in 1 .. Len(q) /\ Head(q) = q[1]
           /\ \A id : Head(q).id # id \/ Head(q).t = "bin" => SameFor(q, Tail(q), id)
           /\ \A id : Head(q).id = id /\ Head(q).t # "bin" /\ AtMostOne(Tokens(q, id)) =>
                 Tokens(q, id) # {} /\ Tokens(Tail(q), id) = {}
<1> DEFINE r == Tail(q)
           m == Head(q)
<1>1. /\ Len(q) \in Nat /\ Len(r) \in Nat /\ Len(q) = Len(r) + 1 /\ m = q[1] /\ 1 \in 1 .. Len(q)
      /\ \A k \in 1 .. Len(r) : k + 1 \in 1 .. Len(q) /\ r[k] = q[k + 1]
    OBVIOUS
<1> HIDE DEF r, m
<1>2. \A k \in 1 .. Len(q) : k = 1 \/ (k - 1 \in 1 .. Len(r) /\ q[k] = r[k - 1])
    <2> TAKE k \in 1 .. Len(q)
    <2>1. k = 1 \/ k - 1 \in 1 .. Len(r)
        BY <1>1
    <2>2. k \in Nat /\ (k - 1) + 1 = k
        OBVIOUS
    <2> QED
        BY <1>1, <2>1, <2>2
<1>3. \A id : \A k \in Tokens(r, id) : k \in Nat /\ k + 1 \in Tokens(q, id)
    BY <1>1 DEF Tokens
<1>4. \A id : \A k \in Tokens(q, id) : k = 1 \/ k - 1 \in Tokens(r, id)
    BY <1>2 DEF Tokens
<1>5. ASSUME NEW id, AtMostOne(Tokens(q, id))
      PROVE  AtMostOne(Tokens(r, id))
    <2> SUFFICES ASSUME NEW j \in Tokens(r, id), NEW k \in Tokens(r, id) PROVE j = k
        BY DEF AtMostOne
    <2>1. j + 1 = k + 1 /\ j \in Nat /\ k \in Nat
        BY <1>3, <1>5 DEF AtMostOne
    <2> QED
        BY <2>1
<1>6. ASSUME NEW id, m.id # id \/ m.t = "bin"
      PROVE  SameFor(q, r, id)
    <2>1. 1 \notin Tokens(q, id)
        BY <1>1, <1>6 DEF Tokens
    <2>2. Tokens(r, id) = {} <=> Tokens(q, id) = {}
        BY <1>3, <1>4, <2>1
    <2> QED
        BY <1>1, <1>5, <2>2 DEF SameFor
<1>7. ASSUME NEW id, m.id = id, m.t # "bin", AtMostOne(Tokens(q, id))
      PROVE  Tokens(q, id) # {} /\ Tokens(r, id) = {}
    <2>1. 1 \in Tokens(q, id)
        BY <1>1, <1>7 DEF Tokens
    <2>2. ASSUME NEW k \in Tokens(r, id)
          PROVE  FALSE
        <3>1. k \in 1 .. Len(r) /\ k + 1 = 1
            BY <1>3, <1>7, <2>1 DEF AtMostOne, Tokens
        <3> QED
            BY <1>1, <3>1
    <2> QED
        BY <2>1, <2>2
<1> QED
    BY <1>1, <1>6, <1>7 DEF r, m

\* A step that leaves all that carries the id of u.
Leaves(u, id) ==
    /\ SameFor(up[u[1]], up'[u[1]], id) /\ SameFor(down[u[1]], down'[u[1]], id)
    /\ Serves(u[1], id)' <=> Serves(u[1], id)
    /\ Serves(u[1], id)' => serving'[u[1]].by = serving[u[1]].by
    /\ Came(u[1], id)' = Came(u[1], id)
    /\ id \in DOMAIN downloads'[u[1]] =>
          /\ id \in DOMAIN downloads[u[1]]
          /\ downloads'[u[1]][id] = downloads[u[1]][id]
    /\ dead[u[1]] => dead'[u[1]]

LEMMA AtStays ==
    ASSUME NEW u \in Thread, NEW id, NEW place, Leaves(u, id), At(u[1], id, place)
    PROVE  At(u[1], id, place)'
BY DEF Leaves, At, SameFor, Tokens, Came, Serves

LEMMA FitsStays ==
    ASSUME NEW u \in Thread, NEW call, Leaves(u, call.id), Fits(u, call)
    PROVE  Fits(u, call)'
<1>1. \A k \in 1 .. Len(up'[u[1]]) : up'[u[1]][k].id = call.id =>
         up'[u[1]][k].by = u /\ up'[u[1]][k].t \in Sends(call.pc)
    BY DEF Leaves, SameFor, Fits
<1>2. \A k \in 1 .. Len(down'[u[1]]) : down'[u[1]][k].id = call.id =>
         down'[u[1]][k].by = u /\ (down'[u[1]][k].t = "bin" \/ down'[u[1]][k].t \in Gets(call.pc))
    BY DEF Leaves, SameFor, Fits
<1>3. Serves(u[1], call.id)' => serving'[u[1]].by = u /\ call.pc = "file"
    BY DEF Leaves, Fits
<1>4. \A r \in Came(u[1], call.id)' : r.by = u /\ r.t \in Gets(call.pc)
    BY DEF Leaves, Fits
<1>5. call.id \in DOMAIN downloads'[u[1]] =>
         \A k \in 1 .. Len(downloads'[u[1]][call.id]) : downloads'[u[1]][call.id][k].by = u
    BY DEF Leaves, Fits
<1> QED
    BY <1>1, <1>2, <1>3, <1>4, <1>5 DEF Fits, Came, Serves, Sends, Gets, Answers, Requests

LEMMA ExchangeStays ==
    ASSUME NEW u \in Thread, Exchanges(u), th'[u] = th[u], th[u].pc \in Working => Leaves(u, th[u].id)
    PROVE  Exchanges(u)'
<1> SUFFICES ASSUME th[u].pc \in Working
             PROVE  \E place \in Place : Exchange(u, th[u], place)'
    BY DEF Exchanges
<1>1. PICK call : call = th[u]
    OBVIOUS
<1>2. PICK place \in Place : Exchange(u, call, place)
    BY <1>1 DEF Exchanges
<1>3. At(u[1], call.id, place)' /\ Fits(u, call)'
    BY <1>1, <1>2, AtStays, FitsStays DEF Exchange
<1>4. Exchange(u, call, place)'
    BY <1>1, <1>2, <1>3 DEF Exchange, Leaves
<1>5. th'[u] = call
    BY <1>1
<1>6. Exchange(u, th[u], place)'
    BY <1>4, <1>5 DEF Exchange
<1> QED
    BY <1>6

\* A step of thread t: it sends nothing, or under a new number, or under the one it has, and takes at
\* most its own answer.
Acts(t) ==
    /\ \A u \in Thread : u # t => th'[u] = th[u]
    /\ UNCHANGED <<open, dead, down, serving>>
    /\ \A c \in Client : replies'[c] \subseteq replies[c]
    /\ \A c \in Client : \A r \in replies[c] : r \notin replies'[c] =>
          c = t[1] /\ th[t].pc \in Working /\ r.id = th[t].id
    /\ \A c \in Client : \A i \in DOMAIN downloads'[c] :
          i \in DOMAIN downloads[c] /\ downloads'[c][i] = downloads[c][i]
    /\ \/ /\ UNCHANGED <<up, nextId>>
          /\ th'[t].pc \in Working => th[t].pc \in Working /\ th'[t].id = th[t].id
       \/ \E m \in Message :
            /\ m.id = nextId[t[1]] /\ nextId' = [nextId EXCEPT ![t[1]] = NewId(t[1])]
            /\ up' = [up EXCEPT ![t[1]] = Append(@, m)]
            /\ th'[t].pc \in Working => th'[t].id = nextId[t[1]]
       \/ \E m \in Message :
            /\ th[t].pc \in Working /\ m.id = th[t].id /\ th'[t].id = th[t].id
            /\ up' = [up EXCEPT ![t[1]] = Append(@, m)] /\ UNCHANGED nextId

LEMMA ActsLeave ==
    ASSUME CallsInv, NEW t \in Thread, Acts(t), NEW u \in Thread, u # t, th[u].pc \in Working
    PROVE  Leaves(u, th[u].id)
<1>1. PICK d, id : d = u[1] /\ id = th[u].id
    OBVIOUS
<1>2. /\ d \in Client /\ Types /\ up[d] \in Seq(Message) /\ up \in [Client -> Seq(Message)]
      /\ id < nextId[d] /\ nextId[d] \in Nat /\ id \in Nat
    BY <1>1, ClientOf, CallFields DEF CallsInv, FileInv, Fresh, Types, ClientTypes, ChannelTypes, Working
<1>3. d = t[1] /\ th[t].pc \in Working => th[t].id # id
    BY <1>1 DEF CallsInv, Single
<1>4. SameFor(up[d], up'[d], id)
    <2>1. CASE up'[d] = up[d]
        BY <2>1, SameSelf
    <2>2. ASSUME NEW m \in Message, m.id # id, up'[d] = Append(up[d], m)
          PROVE  SameFor(up[d], up'[d], id)
        BY <1>2, <2>2, Appended
    <2>3. d # t[1] => up'[d] = up[d]
        BY <1>2 DEF Acts
    <2>4. CASE d = t[1]
        <3>1. nextId[t[1]] # id
            BY <1>2, <2>4
        <3>2. \/ up'[d] = up[d]
              \/ \E m \in Message : m.id # id /\ up'[d] = Append(up[d], m)
            BY <1>2, <1>3, <2>4, <3>1 DEF Acts
        <3> QED
            BY <2>1, <2>2, <3>2
    <2> QED
        BY <2>1, <2>3, <2>4
<1>5. Came(d, id)' = Came(d, id)
    <2>1. replies'[d] \subseteq replies[d] /\ \A r \in replies[d] : r \notin replies'[d] => r.id # id
        BY <1>2, <1>3 DEF Acts
    <2> QED
        BY <2>1 DEF Came
<1>6. UNCHANGED <<dead, down, serving>>
    BY DEF Acts
<1>7. id \in DOMAIN downloads'[d] => id \in DOMAIN downloads[d] /\ downloads'[d][id] = downloads[d][id]
    BY <1>2 DEF Acts
<1>8. SameFor(down[d], down'[d], id)
    BY <1>6, SameSelf
<1>9. /\ Serves(d, id)' <=> Serves(d, id)
      /\ Serves(d, id)' => serving'[d].by = serving[d].by
      /\ dead[d] => dead'[d]
    BY <1>6 DEF Serves
<1>10. Leaves(u, id)
    BY <1>1, <1>4, <1>5, <1>7, <1>8, <1>9 DEF Leaves, Came, Serves
<1> QED
    BY <1>1, <1>10

LEMMA ActsKeeps ==
    ASSUME CallsInv, FileInv', NEW t \in Thread, Acts(t), Exchanges(t)'
    PROVE  CallsInv'
<1> DEFINE d == t[1]
<1>1. /\ d \in Client /\ Types /\ up \in [Client -> Seq(Message)] /\ nextId \in [Client -> Nat]
      /\ Fresh /\ Single /\ Ended /\ \A u \in Thread : Exchanges(u)
    BY ClientOf DEF CallsInv, FileInv, Types, ClientTypes, ChannelTypes
<1>2. /\ \A c \in Client : nextId[c] \in Nat /\ nextId'[c] \in Nat /\ nextId[c] <= nextId'[c]
      /\ nextId' = [nextId EXCEPT ![d] = NewId(d)] => nextId[d] < nextId'[d]
    <2>1. nextId' = nextId \/ nextId' = [nextId EXCEPT ![d] = nextId[d] + 1]
        BY DEF Acts, NewId
    <2>2. \A c \in Client : nextId'[c] = nextId[c] \/ nextId'[c] = nextId[c] + 1
        BY <1>1, <2>1
    <2>3. \A c \in Client : nextId[c] \in Nat
        BY <1>1
    <2>4. \A c \in Client : nextId'[c] \in Nat /\ nextId[c] <= nextId'[c]
        BY <2>2, <2>3
    <2>5. nextId' = [nextId EXCEPT ![d] = NewId(d)] => nextId[d] < nextId'[d]
        BY <1>1 DEF NewId
    <2> QED
        BY <2>3, <2>4, <2>5
<1>3. \A i, c : c \in Client /\ i \in Nat /\ i < nextId[c] => i < nextId'[c]
    BY <1>2
<1>4. ASSUME NEW c \in Client, NEW k \in 1 .. Len(up'[c])
      PROVE  up'[c][k].id < nextId'[c]
    <2>1. \A j \in 1 .. Len(up[c]) : up[c][j].id < nextId'[c]
        <3> TAKE j \in 1 .. Len(up[c])
        <3>1. up[c][j] \in Message
            BY <1>1
        <3>2. up[c][j].id \in Nat /\ up[c][j].id < nextId[c]
            BY <1>1, <3>1, MessageFields DEF Fresh
        <3> QED
            BY <1>3, <3>2
    <2>2. ASSUME NEW m \in Message, up' = [up EXCEPT ![d] = Append(@, m)], m.id < nextId'[d]
          PROVE  up'[c][k].id < nextId'[c]
        <3>1. CASE c = d
            <4>1. up[d] \in Seq(Message) /\ up'[c] = Append(up[d], m)
                BY <1>1, <2>2, <3>1
            <4>2. (k \in 1 .. Len(up[d]) /\ up'[c][k] = up[d][k]) \/ up'[c][k] = m
                BY <4>1, Appended
            <4> QED
                BY <2>1, <2>2, <3>1, <4>2
        <3>2. CASE c # d
            BY <1>1, <2>1, <2>2, <3>2
        <3> QED
            BY <3>1, <3>2
    <2>3. th[t].pc \in Working => th[t].id < nextId'[d]
        <3>1. th[t].pc \in Working => th[t].id \in Nat
            BY <1>1, CallFields DEF Working
        <3> QED
            BY <1>1, <1>3, <3>1 DEF Fresh
    <2> QED
        BY <1>2, <2>1, <2>2, <2>3 DEF Acts
<1>5. ASSUME NEW u \in Thread, th'[u].pc \in Working
      PROVE  th'[u].id < nextId'[u[1]]
    <2>1. ASSUME NEW v \in Thread, th[v].pc \in Working
          PROVE  th[v].id < nextId'[v[1]]
        <3>1. th[v].id \in Nat /\ v[1] \in Client
            BY <1>1, <2>1, CallFields, ClientOf DEF Working
        <3> QED
            BY <1>1, <1>3, <2>1, <3>1 DEF Fresh
    <2>2. CASE u # t
        BY <1>5, <2>1, <2>2 DEF Acts
    <2>3. CASE u = t
        BY <1>2, <1>5, <2>1, <2>3 DEF Acts
    <2> QED
        BY <2>2, <2>3
<1>6. Fresh'
    <2>1. ASSUME NEW c \in Client
          PROVE  /\ \A k \in 1 .. Len(down'[c]) : down'[c][k].id < nextId'[c]
                 /\ \A r \in replies'[c] : r.id < nextId'[c]
                 /\ serving'[c] # <<>> => serving'[c].id < nextId'[c]
                 /\ \A i \in DOMAIN downloads'[c] : i \in Nat /\ i < nextId'[c]
        <3>1. UNCHANGED <<down, serving>> /\ replies'[c] \subseteq replies[c]
            BY DEF Acts
        <3>2. \A k \in 1 .. Len(down[c]) : down[c][k].id \in Nat /\ down[c][k].id < nextId[c]
            <4>1. \A k \in 1 .. Len(down[c]) : down[c][k] \in Message
                BY <1>1 DEF Types, ChannelTypes
            <4> QED
                BY <1>1, <4>1, MessageFields DEF Fresh
        <3>3. \A r \in replies[c] : r.id \in Nat /\ r.id < nextId[c]
            <4>1. \A r \in replies[c] : r \in Message
                BY <1>1 DEF Types, ClientTypes
            <4> QED
                BY <1>1, <4>1, MessageFields DEF Fresh
        <3>4. serving[c] # <<>> => serving[c].id \in Nat /\ serving[c].id < nextId[c]
            <4>1. serving[c] # <<>> => serving[c] \in Message
                BY <1>1 DEF Types, HostTypes, Message
            <4> QED
                BY <1>1, <4>1, MessageFields DEF Fresh
        <3>5. \A i \in DOMAIN downloads'[c] : i \in Nat /\ i < nextId[c]
            BY <1>1 DEF Acts, Fresh
        <3>6. \A i \in DOMAIN downloads'[c] : i \in Nat /\ i < nextId'[c]
            BY <1>3, <3>5
        <3> QED
            BY <1>3, <3>1, <3>2, <3>3, <3>4, <3>6
    <2> QED
        BY <1>4, <1>5, <2>1 DEF Fresh
<1>7. ASSUME NEW u \in Thread, u # t, th'[t].pc \in Working, th[u].pc \in Working, u[1] = t[1]
      PROVE  th'[t].id # th[u].id
    <2>1. th[u].id < nextId[d] /\ nextId[d] \in Nat /\ th[u].id \in Nat
        BY <1>1, <1>7, CallFields DEF Fresh, Working
    <2>2. nextId[d] # th[u].id
        BY <2>1
    <2>3. th[t].pc \in Working => th[t].id # th[u].id
        BY <1>1, <1>7 DEF Single
    <2> QED
        BY <1>7, <2>2, <2>3 DEF Acts
<1>8. Single'
    <2> SUFFICES ASSUME NEW u \in Thread, NEW v \in Thread, th'[u].pc \in Working, th'[v].pc \in Working,
                        u[1] = v[1], u # v
                 PROVE  th'[u].id # th'[v].id
        BY DEF Single
    <2>1. \A w \in Thread : w # t => th'[w] = th[w]
        BY DEF Acts
    <2> QED
        BY <1>1, <1>7, <2>1 DEF Single
<1>9. ASSUME NEW u \in Thread, u # t
      PROVE  Exchanges(u)'
    BY <1>1, <1>9, ActsLeave, ExchangeStays DEF Acts
<1>10. Ended'
    BY <1>1 DEF Ended, Acts
<1> QED
    BY <1>6, <1>8, <1>9, <1>10 DEF CallsInv

\* An id that was not given out yet is on no message.
LEMMA NothingYet ==
    ASSUME CallsInv, NEW c \in Client
    PROVE  /\ Tokens(up[c], nextId[c]) = {} /\ Tokens(down[c], nextId[c]) = {} /\ Came(c, nextId[c]) = {}
           /\ ~Serves(c, nextId[c]) /\ nextId[c] \notin DOMAIN downloads[c]
           /\ \A k \in 1 .. Len(up[c]) : up[c][k].id # nextId[c]
           /\ \A k \in 1 .. Len(down[c]) : down[c][k].id # nextId[c]
<1>1. Types /\ Fresh /\ nextId[c] \in Nat
    BY DEF CallsInv, FileInv, Types, ClientTypes
<1>2. /\ \A k \in 1 .. Len(up[c]) : up[c][k] \in Message /\ up[c][k].id < nextId[c]
      /\ \A k \in 1 .. Len(down[c]) : down[c][k] \in Message /\ down[c][k].id < nextId[c]
      /\ \A r \in replies[c] : r \in Message /\ r.id < nextId[c]
      /\ serving[c] # <<>> => serving[c] \in Message /\ serving[c].id < nextId[c]
    <2>1. /\ up[c] \in Seq(Message) /\ down[c] \in Seq(Message) /\ replies[c] \subseteq Message
          /\ serving[c] # <<>> => serving[c] \in Message
        BY <1>1 DEF Types, ClientTypes, ChannelTypes, HostTypes, Message
    <2> QED
        BY <1>1, <2>1 DEF Fresh
<1>3. \A m \in Message : m.id < nextId[c] => m.id # nextId[c]
    BY <1>1, MessageFields
<1>4. nextId[c] \notin DOMAIN downloads[c]
    BY <1>1 DEF Fresh
<1> QED
    BY <1>2, <1>3, <1>4 DEF Tokens, Came, Serves

LEMMA AskKeeps ==
    ASSUME CallsInv, FileInv', NEW t \in Thread, NEW call \in CallState,
           NEW pc \in {"attr", "simple", "file", "ready"}, NEW arg, Ask(t, call, pc, Requests[pc], arg),
           UNCHANGED <<open, dead, down, serving, replies, downloads>>,
           (pc # "file" /\ arg = <<>>) \/ (pc = "file" /\ arg \in Nat \X Nat)
    PROVE  CallsInv'
<1>0. PICK d, id : d = t[1] /\ id = nextId[d]
    OBVIOUS
<1> DEFINE m == Msg(t, Requests[pc], id, call.path, arg)
<1>1. /\ d \in Client /\ Types /\ id \in Nat /\ call.path \in Path /\ up[d] \in Seq(Message) /\ pc \in Working
      /\ up \in [Client -> Seq(Message)]
    BY <1>0, ClientOf DEF CallsInv, FileInv, Types, ClientTypes, ChannelTypes, CallState, Working
<1>2. (Requests[pc] \in PlainKind /\ arg = <<>>) \/ (Requests[pc] = "download" /\ arg \in Nat \X Nat)
    BY DEF Requests, PlainKind
<1>3. m \in Message /\ m.id = id /\ m.by = t /\ m.t = Requests[pc] /\ m.t # "bin"
    <2>1. /\ m.id = id /\ m.by = t /\ m.t = Requests[pc]
          /\ m = [t |-> Requests[pc], id |-> id, path |-> call.path, arg |-> arg, by |-> t]
        BY DEF Msg
    <2>2. Requests[pc] # "bin"
        BY DEF Requests
    <2>3. m \in Message
        BY <1>1, <1>2, <2>1, Messages
    <2> QED
        BY <2>1, <2>2, <2>3
<1>4. /\ th'[t] = [call EXCEPT !.pc = pc, !.id = id] /\ \A u \in Thread : u # t => th'[u] = th[u]
    BY <1>0, <1>1, <1>2, AskType
<1>5. th'[t].pc = pc /\ th'[t].id = id
    BY <1>4 DEF CallState
<1>6. /\ up' = [up EXCEPT ![d] = Append(@, m)] /\ nextId' = [nextId EXCEPT ![d] = NewId(d)]
      /\ up'[d] = Append(up[d], m)
    BY <1>0, <1>1 DEF Ask, Send
<1> HIDE DEF m
<1>7. Acts(t)
    BY <1>0, <1>3, <1>4, <1>5, <1>6 DEF Acts
<1>8. /\ Tokens(up[d], id) = {} /\ Tokens(down[d], id) = {} /\ Came(d, id) = {} /\ ~Serves(d, id)
      /\ id \notin DOMAIN downloads[d]
      /\ \A k \in 1 .. Len(up[d]) : up[d][k].id # id
      /\ \A k \in 1 .. Len(down[d]) : down[d][k].id # id
    BY <1>0, <1>1, NothingYet
<1>9. PICK next : next = th'[t]
    OBVIOUS
<1>10. Tokens(up'[d], id) = {Len(up[d]) + 1}
    BY <1>1, <1>3, <1>6, <1>8, Appended
<1>11. At(d, id, "up")'
    <2>1. Tokens(up[d], id)' # {} /\ AtMostOne(Tokens(up[d], id))'
        BY <1>10 DEF Tokens, AtMostOne
    <2> QED
        BY <1>8, <2>1 DEF At, Tokens, Came, Serves, AtMostOne
<1>12. Fits(t, next)'
    <2>1. \A k \in 1 .. Len(up'[d]) : up'[d][k].id = id => up'[d][k] = m
        BY <1>1, <1>3, <1>6, <1>8, Appended
    <2>2. m.t \in Sends(pc)
        BY <1>3 DEF Sends
    <2> QED
        BY <1>0, <1>3, <1>5, <1>8, <1>9, <2>1, <2>2 DEF Fits, Serves, Came, Sends, Requests
<1>13. Exchange(t, next, "up")'
    BY <1>0, <1>5, <1>9, <1>11, <1>12 DEF Exchange
<1>14. Exchanges(t)'
    BY <1>9, <1>13 DEF Exchanges, Exchange, Place
<1> QED
    BY <1>7, <1>14, ActsKeeps

\* A thread that has no request after its step is not concerned.
LEMMA DoneKeeps ==
    ASSUME CallsInv, FileInv', NEW t \in Thread, Acts(t), th'[t].pc \notin Working
    PROVE  CallsInv'
BY ActsKeeps DEF Exchanges

LEMMA BeginLeaves ==
    ASSUME NEW t \in Thread, Begin(t)
    PROVE  UNCHANGED <<open, dead, down, serving, replies, downloads>>
BY DEF Begin, client, host

LEMMA OpenCalls ==
    ASSUME CallsInv, NEW t \in Thread, NEW p \in Path, NEW trunc \in BOOLEAN, NEW create \in BOOLEAN,
           Open(t, p, trunc, create)
    PROVE  CallsInv'
<1>1. /\ FileInv' /\ Types /\ calls < MaxCalls /\ th[t].pc = "idle"
      /\ UNCHANGED <<open, dead, down, serving, replies, downloads>>
    BY OpenKeeps, BeginLeaves DEF CallsInv, FileInv, Open, Begin
<1>2. CASE Ask(t, Call("open", p, 0, 0), "attr", "list", <<>>)
    <2>1. Call("open", p, 0, 0) \in CallState /\ Requests["attr"] = "list"
        BY <1>1, CallType DEF Requests
    <2> QED
        BY <1>1, <1>2, <2>1, AskKeeps
<1>3. CASE UNCHANGED <<th, up, nextId>>
    <2>1. Acts(t) /\ th'[t].pc \notin Working
        BY <1>1, <1>3 DEF Acts, Working
    <2> QED
        BY <1>1, <2>1, DoneKeeps
<1> QED
    BY <1>2, <1>3 DEF Open

LEMMA LoadsCalls ==
    ASSUME CallsInv, NEW t \in Thread, NEW op \in {"read", "write"}, NEW h \in Handle, NEW off \in 0 .. Size - 1,
           Loads(t, op, h, off)
    PROVE  CallsInv'
<1>1. /\ FileInv' /\ Types /\ calls < MaxCalls /\ t[1] \in Client
      /\ UNCHANGED <<open, dead, down, serving, replies, downloads>>
    BY LoadsKeeps, BeginLeaves, ClientOf DEF CallsInv, FileInv, Loads, Begin
<1>2. fhs[t[1]][h] \in FhState
    BY <1>1, HandleState DEF Loads
<1>3. fhs[t[1]][h].path \in Path
    BY <1>2 DEF FhState
<1>4. off \in Nat /\ h \in Nat
    BY WebFilesAssumption, HandleNat
<1>5. Call(op, fhs[t[1]][h].path, h, off) \in CallState
    BY <1>1, <1>3, <1>4, CallType
<1>6. /\ \E arg \in Nat \X Nat : Ask(t, Call(op, fhs[t[1]][h].path, h, off), "file", "download", arg)
      /\ Requests["file"] = "download"
    BY <1>4, Ranges DEF Loads, Requests
<1> QED
    BY <1>1, <1>5, <1>6, AskKeeps

LEMMA TruncateCalls ==
    ASSUME CallsInv, NEW t \in Thread, NEW p \in Path, NEW n \in 0 .. Size, Truncate(t, p, n)
    PROVE  CallsInv'
<1>1. /\ FileInv' /\ Types /\ calls < MaxCalls /\ n \in Nat
      /\ UNCHANGED <<open, dead, down, serving, replies, downloads>>
    BY TruncateKeeps, BeginLeaves, WebFilesAssumption DEF CallsInv, FileInv, Truncate, Begin
<1>2. Call("truncate", p, 0, n) \in CallState
    BY <1>1, CallType
<1>3. /\ Ask(t, Call("truncate", p, 0, n), "file", "download", Whole) /\ Whole \in Nat \X Nat
      /\ Requests["file"] = "download"
    BY Ranges DEF Truncate, Requests
<1> QED
    BY <1>1, <1>2, <1>3, AskKeeps

LEMMA UnlinkCalls ==
    ASSUME CallsInv, NEW t \in Thread, NEW p \in Path, Unlink(t, p)
    PROVE  CallsInv'
<1>1. /\ FileInv' /\ Types /\ calls < MaxCalls
      /\ UNCHANGED <<open, dead, down, serving, replies, downloads>>
    BY UnlinkKeeps, BeginLeaves DEF CallsInv, FileInv, Unlink, Begin
<1>2. Call("unlink", p, 0, 0) \in CallState
    BY <1>1, CallType
<1>3. Ask(t, Call("unlink", p, 0, 0), "simple", "delete", <<>>) /\ Requests["simple"] = "delete"
    BY DEF Unlink, Requests
<1> QED
    BY <1>1, <1>2, <1>3, AskKeeps

LEMMA WriteLoadedCalls ==
    ASSUME CallsInv, NEW t \in Thread, NEW h \in Handle, NEW off \in 0 .. Size - 1, WriteLoaded(t, h, off)
    PROVE  CallsInv'
<1>1. /\ FileInv' /\ th[t].pc = "idle" /\ UNCHANGED <<th, up, nextId>>
      /\ UNCHANGED <<open, dead, down, serving, replies, downloads>>
    BY WriteLoadedKeeps, BeginLeaves DEF CallsInv, WriteLoaded, Begin
<1>2. Acts(t) /\ th'[t].pc \notin Working
    BY <1>1 DEF Acts, Working
<1> QED
    BY <1>1, <1>2, DoneKeeps

LEMMA ReleaseCalls ==
    ASSUME CallsInv, NEW t \in Thread, NEW h \in Handle, Release(t, h)
    PROVE  CallsInv'
<1> DEFINE f == fhs[t[1]][h]
           call == [Call("release", f.path, 0, 0) EXCEPT !.buf = f.data]
<1>1. /\ FileInv' /\ Types /\ th[t].pc = "idle" /\ t[1] \in Client /\ calls < MaxCalls /\ f # NoFh
      /\ UNCHANGED <<up, nextId>> /\ (Goes(t, call) \/ UNCHANGED th)
      /\ UNCHANGED <<open, dead, down, serving, replies, downloads>>
    BY ReleaseKeeps, BeginLeaves, ClientOf DEF CallsInv, FileInv, Release, Begin
<1>2. f.path \in Path /\ f.data \in Seq(Cell)
    <2>1. f \in FhState
        BY <1>1, HandleState
    <2> QED
        BY <2>1 DEF FhState
<1>3. call \in CallState /\ call.pc = "upload"
    <2>1. call \in CallState
        BY <1>1, <1>2, CallType
    <2> QED
        BY <2>1 DEF Call
<1> HIDE DEF call
<1>4. /\ th'[t].pc \notin Working
      /\ \A u \in Thread : u # t => th'[u] = th[u]
    <2>1. CASE Goes(t, call)
        <3>1. th'[t] = call /\ \A u \in Thread : u # t => th'[u] = th[u]
            BY <1>1, <1>3, <2>1, GoesType
        <3> QED
            BY <1>3, <3>1 DEF Working
    <2>2. CASE UNCHANGED th
        BY <1>1, <2>2 DEF Working
    <2> QED
        BY <1>1, <2>1, <2>2
<1>5. Acts(t)
    BY <1>1, <1>4 DEF Acts
<1> QED
    BY <1>1, <1>4, <1>5, DoneKeeps

LEMMA FailsCalls ==
    ASSUME CallsInv, FileInv', NEW t \in Thread, Fails(t),
           UNCHANGED <<open, dead, down, serving, replies, downloads>>
    PROVE  CallsInv'
<1>1. Returns(t) /\ UNCHANGED <<up, nextId>> /\ Types
    BY DEF Fails, CallsInv, FileInv
<1>2. th'[t] = Idle /\ \A u \in Thread : u # t => th'[u] = th[u]
    BY <1>1, ReturnsType
<1>3. th'[t].pc \notin Working
    BY <1>2 DEF Idle, Working
<1>4. Acts(t)
    BY <1>1, <1>2, <1>3 DEF Acts
<1> QED
    BY <1>3, <1>4, DoneKeeps

LEMMA UploadStartCalls ==
    ASSUME CallsInv, NEW t \in Thread, UploadStart(t)
    PROVE  CallsInv'
<1>1. /\ FileInv' /\ Types /\ th[t].pc = "upload" /\ th[t] \in CallState
      /\ UNCHANGED <<open, dead, down, serving, replies, downloads>>
    BY UploadStartKeeps, CallFields DEF CallsInv, FileInv, UploadStart, Uploads, client, host
<1>2. CASE Fails(t)
    BY <1>1, <1>2, FailsCalls
<1>3. CASE Ask(t, th[t], "ready", "uploadStart", <<>>)
    <2>1. Requests["ready"] = "uploadStart"
        BY DEF Requests
    <2> QED
        BY <1>1, <1>3, <2>1, AskKeeps
<1> QED
    BY <1>2, <1>3 DEF UploadStart

LEMMA SendChunkCalls ==
    ASSUME CallsInv, NEW t \in Thread, SendChunk(t)
    PROVE  CallsInv'
<1>0. PICK call, d, id : call = th[t] /\ d = t[1] /\ id = th[t].id
    OBVIOUS
<1>1. /\ FileInv' /\ Types /\ d \in Client /\ call.pc = "chunks" /\ call.pc \in Working
      /\ call \in CallState /\ call.path \in Path /\ call.buf \in Seq(Cell) /\ call.off \in Nat /\ id \in Nat
      /\ up[d] \in Seq(Message) /\ up \in [Client -> Seq(Message)]
      /\ UNCHANGED <<open, dead, down, serving, replies, downloads>>
    BY <1>0, SendChunkKeeps, CallFields, ClientOf
       DEF CallsInv, FileInv, SendChunk, Uploads, client, host, Working, Types, ChannelTypes
<1>2. At(d, id, "lost") /\ Fits(t, call)
    BY <1>0, <1>1 DEF CallsInv, Exchanges, Exchange
<1>3. ASSUME NEW m \in Message, NEW next \in CallState, Send(t, m), Goes(t, next), UNCHANGED nextId,
             m.id = id, m.by = t, next.id = id,
             (m.t = "bin" /\ next.pc = "chunks") \/ (m.t = "uploadEnd" /\ next.pc = "ending")
      PROVE  CallsInv'
    <2>1. th'[t] = next /\ \A u \in Thread : u # t => th'[u] = th[u]
        BY <1>1, <1>3, GoesType
    <2>2. up' = [up EXCEPT ![d] = Append(@, m)] /\ up'[d] = Append(up[d], m)
        BY <1>0, <1>1, <1>3 DEF Send
    <2>3. Acts(t)
        BY <1>0, <1>1, <1>3, <2>1, <2>2 DEF Acts
    <2>4. \A k \in 1 .. Len(up'[d]) : (k \in 1 .. Len(up[d]) /\ up'[d][k] = up[d][k]) \/ up'[d][k] = m
        BY <1>1, <2>2, Appended
    <2>5. Fits(t, next)'
        <3>1. \A k \in 1 .. Len(up'[d]) : up'[d][k].id = id => up'[d][k].by = t /\ up'[d][k].t \in Sends(next.pc)
            BY <1>0, <1>1, <1>2, <1>3, <2>4 DEF Fits, Sends
        <3>2. \A k \in 1 .. Len(down[d]) : down[d][k].id = id =>
                 down[d][k].by = t /\ down[d][k].t = "bin"
            BY <1>0, <1>1, <1>2 DEF Fits, Gets
        <3>3. ~Serves(d, id) /\ Came(d, id) = {}
            BY <1>2 DEF At
        <3>4. id \in DOMAIN downloads[d] => \A k \in 1 .. Len(downloads[d][id]) : downloads[d][id][k].by = t
            BY <1>0, <1>2 DEF Fits
        <3> QED
            BY <1>0, <1>1, <1>3, <3>1, <3>2, <3>3, <3>4 DEF Fits, Serves, Came, Sends, Gets, Requests
    <2>6. CASE m.t = "bin" /\ next.pc = "chunks"
        <3>1. Tokens(up'[d], id) = Tokens(up[d], id)
            BY <1>1, <1>3, <2>2, <2>6, Appended
        <3>2. At(d, id, "lost")'
            BY <1>1, <1>2, <3>1 DEF At, Tokens, Serves, Came
        <3>3. Exchange(t, next, "lost")'
            BY <1>0, <1>3, <2>5, <2>6, <3>2 DEF Exchange
        <3>4. Exchanges(t)'
            BY <2>1, <3>3 DEF Exchanges, Exchange, Place
        <3> QED
            BY <1>1, <2>3, <3>4, ActsKeeps
    <2>7. CASE m.t = "uploadEnd" /\ next.pc = "ending"
        <3>1. Tokens(up[d], id) = {}
            BY <1>2 DEF At
        <3>2. Tokens(up'[d], id) = {Len(up[d]) + 1}
            BY <1>1, <1>3, <2>2, <2>7, <3>1, Appended
        <3>3. Tokens(up[d], id)' # {} /\ AtMostOne(Tokens(up[d], id))'
            BY <3>2 DEF Tokens, AtMostOne
        <3>4. At(d, id, "up")'
            BY <1>1, <1>2, <3>3 DEF At, Tokens, Serves, Came, AtMostOne
        <3>5. Exchange(t, next, "up")'
            BY <1>0, <1>3, <2>5, <2>7, <3>4 DEF Exchange
        <3>6. Exchanges(t)'
            BY <2>1, <3>5 DEF Exchanges, Exchange, Place
        <3> QED
            BY <1>1, <2>3, <3>6, ActsKeeps
    <2> QED
        BY <1>3, <2>6, <2>7
<1>4. CASE Fails(t)
    BY <1>1, <1>4, FailsCalls
<1>5. CASE /\ UNCHANGED nextId /\ call.off < Len(call.buf)
           /\ Send(t, Msg(t, "bin", id, call.path, call.buf[call.off + 1]))
           /\ Goes(t, [call EXCEPT !.off = @ + 1])
    <2> DEFINE m == Msg(t, "bin", id, call.path, call.buf[call.off + 1])
               next == [call EXCEPT !.off = @ + 1]
    <2>1. call.buf[call.off + 1] \in Cell
        BY <1>1, <1>5
    <2>2. m \in Message /\ m.id = id /\ m.by = t /\ m.t = "bin"
        <3>1. m = [t |-> "bin", id |-> id, path |-> call.path, arg |-> call.buf[call.off + 1], by |-> t]
            BY DEF Msg
        <3> HIDE DEF m
        <3>2. m \in Message
            BY <1>1, <2>1, <3>1, Messages
        <3> QED
            BY <3>1, <3>2
    <2>3. next \in CallState /\ next.pc = "chunks" /\ next.id = id
        <3>1. call.id = id /\ call.off + 1 \in Nat
            BY <1>0, <1>1
        <3>2. next \in CallState /\ next.pc = call.pc /\ next.id = call.id
            BY <1>1, <3>1 DEF CallState
        <3> QED
            BY <1>1, <3>1, <3>2
    <2> HIDE DEF m, next
    <2> QED
        BY <1>3, <1>5, <2>2, <2>3 DEF m, next
<1>6. CASE /\ UNCHANGED nextId
           /\ Send(t, Msg(t, "uploadEnd", id, call.path, <<>>))
           /\ Goes(t, [call EXCEPT !.pc = "ending"])
    <2> DEFINE m == Msg(t, "uploadEnd", id, call.path, <<>>)
               next == [call EXCEPT !.pc = "ending"]
    <2>1. m \in Message /\ m.id = id /\ m.by = t /\ m.t = "uploadEnd"
        BY <1>1, Messages DEF Msg, PlainKind
    <2>2. next \in CallState /\ next.pc = "ending" /\ next.id = id
        BY <1>0, <1>1 DEF CallState, Working
    <2> HIDE DEF m, next
    <2> QED
        BY <1>3, <1>6, <2>1, <2>2 DEF m, next
<1> QED
    BY <1>0, <1>4, <1>5, <1>6 DEF SendChunk

LEMMA WaitEndsCalls ==
    ASSUME CallsInv, FileInv', NEW t \in Thread, NEW r, WaitEnds(t), Continue(t, r),
           \/ r.t = "none" /\ UNCHANGED <<replies, downloads>>
           \/ /\ r \in ReplyTo(t) /\ replies' = [replies EXCEPT ![t[1]] = @ \ {r}]
              /\ \/ UNCHANGED downloads
                 \/ downloads' = [downloads EXCEPT ![t[1]] = Restrict(@, DOMAIN @ \ {th[t].id})]
    PROVE  CallsInv'
<1>0. PICK call, d, id : call = th[t] /\ d = t[1] /\ id = th[t].id
    OBVIOUS
<1>1. /\ UNCHANGED <<open, dead, down, serving, up, nextId>> /\ Waits(t) /\ FileInv /\ Types
      /\ call \in CallState /\ call.pc \in Working /\ d \in Client /\ replies \in [Client -> SUBSET Message]
      /\ DOMAIN downloads = Client
    BY <1>0, ClientOf, CallFields
       DEF WaitEnds, CallsInv, FileInv, client, chan, host, Waits, Working, Types, ClientTypes
<1>2. /\ \A u \in Thread : u # t => th'[u] = th[u]
      /\ \/ th'[t] = Idle
         \/ th'[t].pc = "upload" /\ th'[t].off = 0
         \/ call.pc = "ready" /\ th'[t] = [call EXCEPT !.pc = "chunks"]
    BY <1>0, <1>1, ContinueType
<1>3. /\ \A c \in Client : replies'[c] \subseteq replies[c]
      /\ \A c \in Client : \A s \in replies[c] : s \notin replies'[c] => c = d /\ s.id = id
    BY <1>0, <1>1 DEF ReplyTo
<1>4. \A c \in Client : \A i \in DOMAIN downloads'[c] :
         i \in DOMAIN downloads[c] /\ downloads'[c][i] = downloads[c][i]
    <2>1. CASE UNCHANGED downloads
        BY <2>1
    <2>2. CASE downloads' = [downloads EXCEPT ![d] = Restrict(@, DOMAIN @ \ {id})]
        <3> TAKE c \in Client
        <3>1. CASE c # d
            BY <1>1, <2>2, <3>1
        <3>2. CASE c = d
            <4>1. downloads'[c] = [i \in DOMAIN downloads[d] \ {id} |-> downloads[d][i]]
                BY <1>1, <2>2, <3>2 DEF Restrict
            <4> QED
                BY <3>2, <4>1
        <3> QED
            BY <3>1, <3>2
    <2> QED
        BY <1>0, <2>1, <2>2
<1>5. CASE th'[t] = Idle \/ th'[t].pc = "upload"
    <2>1. th'[t].pc \notin Working
        BY <1>5 DEF Idle, Working
    <2>2. Acts(t)
        BY <1>0, <1>1, <1>2, <1>3, <1>4, <2>1 DEF Acts
    <2> QED
        BY <2>1, <2>2, DoneKeeps
<1>6. CASE call.pc = "ready" /\ th'[t] = [call EXCEPT !.pc = "chunks"]
    <2>1. PICK next : next = th'[t]
        OBVIOUS
    <2>2. next.pc = "chunks" /\ next.id = id
        BY <1>0, <1>1, <1>6, <2>1 DEF CallState
    <2>3. Acts(t)
        BY <1>0, <1>1, <1>2, <1>3, <1>4, <2>1, <2>2 DEF Acts
    <2>4. r.t = "uploadReady"
        <3> SUFFICES ASSUME r.t # "uploadReady" PROVE FALSE
            OBVIOUS
        <3>1. Returns(t)
            BY <1>0, <1>6 DEF Continue
        <3>2. th'[t] = Idle
            BY <1>1, <3>1, ReturnsType
        <3> QED
            BY <2>1, <2>2, <3>2 DEF Idle
    <2>5. r \in Came(d, id) /\ replies'[d] = replies[d] \ {r}
        BY <1>0, <1>1, <2>4 DEF ReplyTo, Came
    <2>6. PICK place \in Place : Exchange(t, call, place)
        BY <1>0, <1>1 DEF CallsInv, Exchanges
    <2>7. At(d, id, "reply")
        BY <1>0, <2>5, <2>6 DEF Exchange, At
    <2>8. Came(d, id)' = {}
        BY <2>5, <2>7 DEF At, AtMostOne, Came
    <2>9. At(d, id, "lost")'
        BY <1>1, <2>7, <2>8 DEF At, Tokens, Serves
    <2>10. Fits(t, next)'
        <3>1. Fits(t, call) /\ ~Serves(d, id) /\ Tokens(up[d], id) = {} /\ Tokens(down[d], id) = {}
            BY <2>6, <2>7 DEF Exchange, At
        <3>2. \A k \in 1 .. Len(up[d]) : up[d][k].id = id => up[d][k].by = t /\ up[d][k].t = "bin"
            BY <1>0, <3>1 DEF Fits, Tokens
        <3>3. \A k \in 1 .. Len(down[d]) : down[d][k].id = id => down[d][k].by = t /\ down[d][k].t = "bin"
            BY <1>0, <3>1 DEF Fits, Tokens
        <3>4. id \in DOMAIN downloads'[d] =>
                 \A k \in 1 .. Len(downloads'[d][id]) : downloads'[d][id][k].by = t
            BY <1>0, <1>1, <1>4, <3>1 DEF Fits
        <3> QED
            BY <1>0, <1>1, <2>2, <2>8, <3>1, <3>2, <3>3, <3>4 DEF Fits, Serves, Came, Sends, Gets
    <2>11. Exchange(t, next, "lost")'
        BY <1>0, <2>2, <2>9, <2>10 DEF Exchange
    <2>12. Exchanges(t)'
        BY <2>1, <2>11 DEF Exchanges, Exchange, Place
    <2> QED
        BY <2>3, <2>12, ActsKeeps
<1> QED
    BY <1>2, <1>5, <1>6

LEMMA AnsweredCalls ==
    ASSUME CallsInv, NEW t \in Thread, Answered(t)
    PROVE  CallsInv'
<1>1. PICK r \in ReplyTo(t) : Continue(t, r) /\ replies' = [replies EXCEPT ![t[1]] = @ \ {r}]
    BY DEF Answered
<1>2. FileInv' /\ WaitEnds(t)
    BY AnsweredKeeps DEF CallsInv, Answered
<1>3. \/ UNCHANGED downloads
      \/ downloads' = [downloads EXCEPT ![t[1]] = Restrict(@, DOMAIN @ \ {th[t].id})]
    BY DEF Answered
<1> QED
    BY <1>1, <1>2, <1>3, WaitEndsCalls

LEMMA GivesUpCalls ==
    ASSUME CallsInv, NEW t \in Thread, GivesUp(t)
    PROVE  CallsInv'
<1>1. FileInv' /\ WaitEnds(t) /\ Continue(t, NoReply) /\ UNCHANGED <<replies, downloads>>
    BY GivesUpKeeps DEF CallsInv, GivesUp
<1>2. NoReply.t = "none"
    BY DEF NoReply
<1> QED
    BY <1>1, <1>2, WaitEndsCalls

\* The threads stay.
LEMMA QuietCalls ==
    ASSUME CallsInv, FileInv', UNCHANGED <<th, nextId>>, Ended',
           \A d \in Client :
              /\ \A k \in 1 .. Len(up'[d]) : up'[d][k].id < nextId[d]
              /\ \A k \in 1 .. Len(down'[d]) : down'[d][k].id < nextId[d]
              /\ \A r \in replies'[d] : r.id < nextId[d]
              /\ serving'[d] # <<>> => serving'[d].id < nextId[d]
              /\ \A i \in DOMAIN downloads'[d] : i \in Nat /\ i < nextId[d],
           \A u \in Thread : th[u].pc \in Working => Exchanges(u)'
    PROVE  CallsInv'
<1>1. Fresh'
    BY DEF CallsInv, Fresh
<1>2. Single'
    BY DEF CallsInv, Single
<1>3. \A u \in Thread : Exchanges(u)'
    BY DEF Exchanges
<1> QED
    BY <1>1, <1>2, <1>3 DEF CallsInv

\* What the messages of a client are.
LEMMA Messengers ==
    ASSUME CallsInv, NEW c \in Client
    PROVE  /\ up[c] \in Seq(Message) /\ down[c] \in Seq(Message) /\ replies[c] \subseteq Message
           /\ serving[c] # <<>> => serving[c] \in Download /\ serving[c] \in Message
           /\ \A k \in 1 .. Len(up[c]) : up[c][k] \in Message /\ up[c][k].id < nextId[c]
           /\ \A k \in 1 .. Len(down[c]) : down[c][k] \in Message /\ down[c][k].id < nextId[c]
           /\ \A r \in replies[c] : r.id < nextId[c]
           /\ serving[c] # <<>> => serving[c].id < nextId[c]
           /\ \A i \in DOMAIN downloads[c] : i \in Nat /\ i < nextId[c]
<1>1. Types /\ Fresh
    BY DEF CallsInv, FileInv
<1>2. /\ up[c] \in Seq(Message) /\ down[c] \in Seq(Message) /\ replies[c] \subseteq Message
      /\ serving[c] # <<>> => serving[c] \in Download /\ serving[c] \in Message
    BY <1>1 DEF Types, ClientTypes, ChannelTypes, HostTypes, Message
<1> QED
    BY <1>1, <1>2 DEF Fresh

LEMMA DeliverCalls ==
    ASSUME CallsInv, NEW c \in Client, Deliver(c)
    PROVE  CallsInv'
<1>1. PICK q, m : q = down[c] /\ m = Head(q)
    OBVIOUS
<1>2. /\ FileInv' /\ Types /\ q # <<>> /\ down' = [down EXCEPT ![c] = Tail(@)]
      /\ UNCHANGED <<open, dead, nextId, th, up, serving>>
      /\ IF m.t = "bin"
           THEN /\ downloads' = [downloads EXCEPT ![c] =
                      [i \in DOMAIN @ \cup {m.id} |-> IF i = m.id THEN Append(Bins(c, i), m) ELSE @[i]]]
                /\ UNCHANGED replies
           ELSE /\ replies' = [replies EXCEPT ![c] = {r \in @ : r.id # m.id} \cup {m}]
                /\ UNCHANGED downloads
    BY <1>1, DeliverKeeps DEF CallsInv, FileInv, Deliver, client, host
<1>3. /\ down \in [Client -> Seq(Message)] /\ replies \in [Client -> SUBSET Message] /\ q \in Seq(Message)
      /\ DOMAIN downloads = Client
    BY <1>1, <1>2 DEF Types, ClientTypes, ChannelTypes
<1>4. /\ 1 \in 1 .. Len(q) /\ m = q[1] /\ m \in Message /\ m.id < nextId[c] /\ m.id \in Nat
      /\ \A k \in 1 .. Len(Tail(q)) : k + 1 \in 1 .. Len(q) /\ Tail(q)[k] = q[k + 1]
    <2>1. 1 \in 1 .. Len(q) /\ m = q[1] /\ \A k \in 1 .. Len(Tail(q)) : k + 1 \in 1 .. Len(q) /\ Tail(q)[k] = q[k + 1]
        BY <1>1, <1>2, <1>3, TakenOff
    <2>2. m \in Message /\ m.id < nextId[c]
        BY <1>1, <2>1, Messengers
    <2> QED
        BY <2>1, <2>2, MessageFields
<1>5. /\ down'[c] = Tail(q) /\ \A d \in Client : d # c => down'[d] = down[d]
      /\ \A d \in Client : d # c => replies'[d] = replies[d] /\ downloads'[d] = downloads[d]
    BY <1>1, <1>2, <1>3
<1>10. \A k \in 1 .. Len(down'[c]) : \E j \in 1 .. Len(down[c]) : down'[c][k] = down[c][j]
    BY <1>1, <1>4, <1>5
<1>6. /\ m.t = "bin" => /\ replies' = replies
                        /\ DOMAIN downloads'[c] = DOMAIN downloads[c] \cup {m.id}
                        /\ downloads'[c][m.id] = Append(Bins(c, m.id), m)
                        /\ \A i \in DOMAIN downloads[c] : i # m.id => downloads'[c][i] = downloads[c][i]
      /\ m.t # "bin" => downloads' = downloads /\ replies'[c] = {r \in replies[c] : r.id # m.id} \cup {m}
    BY <1>2, <1>3
<1>7. ASSUME NEW d \in Client
      PROVE  /\ \A k \in 1 .. Len(up'[d]) : up'[d][k].id < nextId[d]
             /\ \A k \in 1 .. Len(down'[d]) : down'[d][k].id < nextId[d]
             /\ \A r \in replies'[d] : r.id < nextId[d]
             /\ serving'[d] # <<>> => serving'[d].id < nextId[d]
             /\ \A i \in DOMAIN downloads'[d] : i \in Nat /\ i < nextId[d]
    <2>1. CASE d # c
        BY <1>2, <1>5, <2>1, Messengers
    <2>2. CASE d = c
        <3>1. \A k \in 1 .. Len(down'[d]) : down'[d][k].id < nextId[d]
            BY <1>10, <2>2, Messengers
        <3>2. \A r \in replies'[d] : r.id < nextId[d]
            BY <1>4, <1>6, <2>2, Messengers
        <3>3. \A i \in DOMAIN downloads'[d] : i \in Nat /\ i < nextId[d]
            BY <1>4, <1>6, <2>2, Messengers
        <3> QED
            BY <1>2, <3>1, <3>2, <3>3, Messengers
    <2> QED
        BY <2>1, <2>2
<1>8. ASSUME NEW u \in Thread, th[u].pc \in Working
      PROVE  Exchanges(u)'
    <2>1. PICK call, d, id : call = th[u] /\ d = u[1] /\ id = th[u].id
        OBVIOUS
    <2>2. d \in Client /\ Exchanges(u)
        BY <2>1, ClientOf DEF CallsInv
    <2>3. CASE d # c \/ m.id # id
        <3>1. SameFor(down[d], down'[d], id)
            BY <1>1, <1>2, <1>3, <1>5, <2>2, <2>3, TakenOff, SameSelf
        <3>2. Came(d, id)' = Came(d, id)
            BY <1>5, <1>6, <2>2, <2>3 DEF Came
        <3>3. id \in DOMAIN downloads'[d] => id \in DOMAIN downloads[d] /\ downloads'[d][id] = downloads[d][id]
            BY <1>5, <1>6, <2>2, <2>3
        <3>4. Leaves(u, id)
            BY <1>2, <2>1, <3>1, <3>2, <3>3, SameSelf DEF Leaves, Serves, Came
        <3> QED
            BY <1>2, <2>1, <2>2, <3>4, ExchangeStays
    <2>4. CASE d = c /\ m.id = id
        <3>1. PICK place \in Place : Exchange(u, call, place)
            BY <1>8, <2>1, <2>2 DEF Exchanges
        <3>2. /\ \A k \in 1 .. Len(down[d]) : down[d][k].id = id =>
                   down[d][k].by = u /\ (down[d][k].t = "bin" \/ down[d][k].t \in Gets(call.pc))
              /\ m.by = u /\ (m.t = "bin" \/ m.t \in Gets(call.pc))
            BY <1>1, <1>4, <2>1, <2>4, <3>1 DEF Exchange, Fits
        <3>3. \A k \in 1 .. Len(down'[d]) : down'[d][k].id = id =>
                 down'[d][k].by = u /\ (down'[d][k].t = "bin" \/ down'[d][k].t \in Gets(call.pc))
            BY <1>10, <2>4, <3>2
        <3>4. /\ \A r \in Came(d, id)' : r.by = u /\ r.t \in Gets(call.pc)
              /\ id \in DOMAIN downloads'[d] =>
                    \A k \in 1 .. Len(downloads'[d][id]) : downloads'[d][id][k].by = u
            <4>1. /\ \A r \in Came(d, id) : r.by = u /\ r.t \in Gets(call.pc)
                  /\ id \in DOMAIN downloads[d] =>
                        \A k \in 1 .. Len(downloads[d][id]) : downloads[d][id][k].by = u
                BY <2>1, <3>1 DEF Exchange, Fits
            <4>2. CASE m.t = "bin"
                <5>1. /\ Bins(d, id) \in Seq(Bin) /\ m \in Bin
                      /\ \A k \in 1 .. Len(Bins(d, id)) : Bins(d, id)[k].by = u
                    BY <1>2, <1>4, <2>2, <4>1, <4>2, MessageFields DEF Bins, Types, ClientTypes
                <5>2. PICK bins : bins = Bins(d, id)
                    OBVIOUS
                <5>3. \A k \in 1 .. Len(Append(bins, m)) : Append(bins, m)[k].by = u
                    BY <3>2, <5>1, <5>2
                <5> QED
                    BY <1>6, <2>4, <4>1, <4>2, <5>2, <5>3 DEF Came
            <4>3. CASE m.t # "bin"
                BY <1>6, <2>4, <3>2, <4>1, <4>3 DEF Came
            <4> QED
                BY <4>2, <4>3
        <3>5. Fits(u, call)'
            BY <1>2, <2>1, <3>1, <3>3, <3>4 DEF Exchange, Fits, Serves, Came, Sends, Gets, Requests, Answers
        <3>6. CASE m.t = "bin"
            <4>1. SameFor(down[d], down'[d], id)
                BY <1>1, <1>2, <1>3, <1>5, <2>4, <3>6, TakenOff
            <4>2. At(d, id, place)'
                BY <1>2, <1>6, <2>1, <3>1, <3>6, <4>1 DEF Exchange, At, SameFor, Tokens, Came, Serves
            <4> QED
                BY <1>2, <2>1, <3>1, <3>5, <4>2 DEF Exchanges, Exchange
        <3>7. CASE m.t # "bin"
            <4>1. AtMostOne(Tokens(down[d], id)) /\ Tokens(down[d], id) # {} /\ Tokens(Tail(q), id) = {}
                <5>1. AtMostOne(Tokens(q, id)) /\ q = down[d] /\ m = Head(q)
                    BY <1>1, <2>1, <2>4, <3>1 DEF Exchange, At
                <5> QED
                    BY <1>2, <1>3, <2>4, <3>7, <5>1, TakenOff
            <4>2. At(d, id, "down")
                BY <2>1, <3>1, <4>1 DEF Exchange, At
            <4>3. Tokens(down'[d], id) = {} /\ Came(d, id)' = {m}
                BY <1>5, <1>6, <2>4, <3>7, <4>1 DEF Came
            <4>4. At(d, id, "reply")'
                BY <1>2, <4>2, <4>3 DEF At, Tokens, Serves, AtMostOne
            <4>5. call.pc # "chunks"
                BY <3>1, <4>1, <2>1 DEF Exchange, At
            <4>6. Exchange(u, call, "reply")'
                BY <2>1, <3>5, <4>4, <4>5 DEF Exchange
            <4> QED
                BY <1>2, <2>1, <4>6 DEF Exchanges, Exchange, Place
        <3> QED
            BY <3>6, <3>7
    <2> QED
        BY <2>3, <2>4
<1>9. Ended'
    BY <1>2 DEF CallsInv, Ended
<1> QED
    BY <1>2, <1>7, <1>8, <1>9, QuietCalls

LEMMA ClosedCalls ==
    ASSUME CallsInv, NEW c \in Client, Closed(c)
    PROVE  CallsInv'
<1>1. /\ FileInv' /\ Types
      /\ open' = [open EXCEPT ![c] = FALSE] /\ dead' = [dead EXCEPT ![c] = TRUE]
      /\ up' = [up EXCEPT ![c] = <<>>] /\ down' = [down EXCEPT ![c] = <<>>]
      /\ UNCHANGED <<nextId, replies, downloads, th, serving>>
    BY ClosedKeeps DEF CallsInv, FileInv, Closed, waiting, host, Dead
<1>2. \A d \in Client : /\ d = c => up'[d] = <<>> /\ down'[d] = <<>> /\ ~open'[d] /\ dead'[d]
                        /\ d # c => up'[d] = up[d] /\ down'[d] = down[d] /\ open'[d] = open[d] /\ dead'[d] = dead[d]
    BY <1>1 DEF Types, ClientTypes, ChannelTypes
<1>3. Ended'
    BY <1>2 DEF CallsInv, Ended
<1>4. ASSUME NEW d \in Client
      PROVE  /\ \A k \in 1 .. Len(up'[d]) : up'[d][k].id < nextId[d]
             /\ \A k \in 1 .. Len(down'[d]) : down'[d][k].id < nextId[d]
             /\ \A r \in replies'[d] : r.id < nextId[d]
             /\ serving'[d] # <<>> => serving'[d].id < nextId[d]
             /\ \A i \in DOMAIN downloads'[d] : i \in Nat /\ i < nextId[d]
    <2>1. CASE d # c
        BY <1>1, <1>2, <2>1, Messengers
    <2>2. CASE d = c
        BY <1>1, <1>2, <2>2, Messengers
    <2> QED
        BY <2>1, <2>2
<1>5. ASSUME NEW u \in Thread, th[u].pc \in Working
      PROVE  Exchanges(u)'
    <2>1. PICK call, d, id : call = th[u] /\ d = u[1] /\ id = th[u].id
        OBVIOUS
    <2>2. d \in Client /\ Exchanges(u)
        BY <2>1, ClientOf DEF CallsInv
    <2>3. CASE d # c
        <3>1. Leaves(u, id)
            BY <1>1, <1>2, <2>1, <2>2, <2>3, SameSelf DEF Leaves, Serves, Came
        <3> QED
            BY <1>1, <2>1, <2>2, <3>1, ExchangeStays
    <2>4. CASE d = c
        <3>1. PICK place \in Place : Exchange(u, call, place)
            BY <1>5, <2>1, <2>2 DEF Exchanges
        <3>2. /\ Tokens(up'[d], id) = {} /\ Tokens(down'[d], id) = {}
              /\ Len(up'[d]) = 0 /\ Len(down'[d]) = 0 /\ dead'[d]
            BY <1>2, <2>2, <2>4 DEF Tokens
        <3>3. PICK new \in Place : new = IF place \in {"host", "reply"} THEN place ELSE "lost"
            BY DEF Place
        <3>4. At(d, id, new)'
            BY <1>1, <2>1, <3>1, <3>2, <3>3 DEF Exchange, At, Serves, Came, AtMostOne, Tokens
        <3>5. Fits(u, call)'
            BY <1>1, <2>1, <3>1, <3>2 DEF Exchange, Fits, Serves, Came, Sends, Gets, Requests, Answers
        <3>6. call.pc = "chunks" => new = "lost"
            BY <3>1, <3>3 DEF Exchange
        <3>7. Exchange(u, call, new)'
            BY <2>1, <3>2, <3>4, <3>5, <3>6 DEF Exchange
        <3> QED
            BY <1>1, <2>1, <3>7 DEF Exchanges, Exchange
    <2> QED
        BY <2>3, <2>4
<1> QED
    BY <1>1, <1>3, <1>4, <1>5, QuietCalls

LEMMA SignallingLostCalls ==
    ASSUME CallsInv, NEW c \in Client, SignallingLost(c)
    PROVE  CallsInv'
<1>1. /\ FileInv' /\ Types /\ dead' = [dead EXCEPT ![c] = TRUE]
      /\ UNCHANGED <<open, up, down, nextId, replies, downloads, th, serving>>
    BY SignallingLostKeeps DEF CallsInv, FileInv, SignallingLost, waiting, chan, host, Dead
<1>2. \A d \in Client : dead[d] => dead'[d]
    BY <1>1 DEF Types, ClientTypes
<1>3. Ended'
    BY <1>1, <1>2 DEF CallsInv, Ended
<1>4. ASSUME NEW u \in Thread, th[u].pc \in Working
      PROVE  Exchanges(u)'
    <2>1. Leaves(u, th[u].id)
        BY <1>1, <1>2, SameSelf, ClientOf DEF Leaves, Serves, Came
    <2> QED
        BY <1>1, <2>1, ExchangeStays DEF CallsInv
<1> QED
    BY <1>1, <1>3, <1>4, Messengers, QuietCalls

LEMMA HostChangesCalls ==
    ASSUME CallsInv, NEW p \in Path, HostChanges(p)
    PROVE  CallsInv'
<1>1. FileInv' /\ UNCHANGED <<open, dead, up, down, nextId, replies, downloads, th, serving>>
    BY HostChangesKeeps DEF CallsInv, HostChanges, client, waiting, chan
<1>2. Ended'
    BY <1>1 DEF CallsInv, Ended
<1>3. ASSUME NEW u \in Thread, th[u].pc \in Working
      PROVE  Exchanges(u)'
    <2>1. Leaves(u, th[u].id)
        BY <1>1, SameSelf DEF Leaves, Serves, Came
    <2> QED
        BY <1>1, <2>1, ExchangeStays DEF CallsInv
<1> QED
    BY <1>1, <1>2, <1>3, Messengers, QuietCalls

\* A message that a thread waiting in pc has sent is no request, or is answered as this thread hopes.
Meets(m, a) == \A pc \in Working : m.t \in Sends(pc) => a.t \in Gets(pc)

LEMMA HostDoes ==
    ASSUME Types, NEW c \in Client, HostTakes(c), NEW m \in Message, m = Head(up[c])
    PROVE  \/ m.t = "bin" /\ UNCHANGED <<down, serving>>
           \/ /\ UNCHANGED serving
              /\ m.t # "bin"
              /\ \E a \in Message : /\ a.id = m.id /\ a.by = m.by /\ a.t # "bin" /\ Meets(m, a)
                                    /\ down' = [down EXCEPT ![c] = Append(@, a)]
           \/ /\ m.t = "download" /\ UNCHANGED down
              /\ \E s : /\ s # <<>> /\ s.id = m.id /\ s.by = m.by /\ serving' = [serving EXCEPT ![c] = s]
<1>1. \/ HostLists(c, m) \/ HostDeletes(c, m) \/ HostDownloads(c, m)
      \/ HostStarts(c, m) \/ HostWrites(c, m) \/ HostEnds(c, m)
    BY DEF HostTakes
<1>2. ASSUME NEW kind, NEW arg, Answer(c, m, kind, arg),
             (kind \in PlainKind /\ arg = <<>>) \/ (kind = "listResult" /\ arg \in SUBSET Path),
             \A pc \in Working : m.t \in Sends(pc) => kind \in Gets(pc)
      PROVE  \E a \in Message : /\ a.id = m.id /\ a.by = m.by /\ a.t # "bin" /\ Meets(m, a)
                                /\ down' = [down EXCEPT ![c] = Append(@, a)]
    <2> DEFINE a == [m EXCEPT !.t = kind, !.arg = arg]
    <2>1. a.id = m.id /\ a.by = m.by /\ a.t = kind
        BY DEF Message, Plain, PlainKind, Listing, Bin, Download, Record
    <2>4. a \in Message
        <3>1. kind \in PlainKind /\ arg = <<>> => a \in Message
            BY AnswerFields
        <3>2. kind = "listResult" /\ arg \in SUBSET Path => a \in Message
            BY AnswerFields
        <3> HIDE DEF a
        <3> QED
            BY <1>2, <3>1, <3>2
    <2>2. kind # "bin"
        BY <1>2 DEF PlainKind
    <2>3. down' = [down EXCEPT ![c] = Append(@, a)]
        BY <1>2 DEF Answer
    <2> HIDE DEF a
    <2> QED
        BY <1>2, <2>1, <2>2, <2>3, <2>4 DEF Meets
<1>3. CASE HostLists(c, m)
    <2>1. \A pc \in Working : "list" \in Sends(pc) => "listResult" \in Gets(pc)
        BY DEF Working, Sends, Gets, Requests, Answers
    <2>2. {p \in Path : file[p] # Absent} \in SUBSET Path
        OBVIOUS
    <2>3. m.t = "list" /\ Answer(c, m, "listResult", {p \in Path : file[p] # Absent}) /\ UNCHANGED serving
        BY <1>3 DEF HostLists, host
    <2> QED
        BY <1>2, <2>1, <2>2, <2>3
<1>4. CASE HostDeletes(c, m)
    <2>1. \A pc \in Working : "delete" \in Sends(pc) => "ok" \in Gets(pc)
        BY DEF Working, Sends, Gets, Requests, Answers
    <2>2. m.t = "delete" /\ Answer(c, m, "ok", <<>>) /\ UNCHANGED serving
        BY <1>4 DEF HostDeletes
    <2> QED
        BY <1>2, <2>1, <2>2 DEF PlainKind
<1>5. CASE HostDownloads(c, m)
    <2>1. m.t = "download" /\ m \in Download
        BY <1>5, MessageFields DEF HostDownloads
    <2>2. CASE Answer(c, m, "error", <<>>) /\ UNCHANGED serving
        <3>1. \A pc \in Working : "download" \in Sends(pc) => "error" \in Gets(pc)
            BY DEF Working, Sends, Gets, Requests, Answers
        <3> QED
            BY <1>2, <2>1, <2>2, <3>1 DEF PlainKind
    <2>3. CASE serving' = [serving EXCEPT ![c] = [m EXCEPT !.arg = Cut(@, Len(file[m.path]))]] /\ UNCHANGED down
        <3> DEFINE s == [m EXCEPT !.arg = Cut(@, Len(file[m.path]))]
        <3>1. s.id = m.id /\ s.by = m.by /\ s.t = m.t
            BY <2>1 DEF Download, Record
        <3>2. s # <<>>
            BY <2>1 DEF Download, Record
        <3> QED
            BY <2>1, <2>3, <3>1, <3>2
    <2> QED
        BY <1>5, <2>2, <2>3 DEF HostDownloads
<1>6. CASE HostStarts(c, m)
    <2>1. \A pc \in Working : "uploadStart" \in Sends(pc) => "uploadReady" \in Gets(pc)
        BY DEF Working, Sends, Gets, Requests, Answers
    <2>2. m.t = "uploadStart" /\ Answer(c, m, "uploadReady", <<>>) /\ UNCHANGED serving
        BY <1>6 DEF HostStarts
    <2> QED
        BY <1>2, <2>1, <2>2 DEF PlainKind
<1>7. CASE HostWrites(c, m)
    BY <1>7 DEF HostWrites
<1>8. CASE HostEnds(c, m)
    <2>1. \A pc \in Working : "uploadEnd" \in Sends(pc) => "ok" \in Gets(pc)
        BY DEF Working, Sends, Gets, Requests, Answers
    <2>2. m.t = "uploadEnd" /\ Answer(c, m, "ok", <<>>) /\ UNCHANGED serving
        BY <1>8 DEF HostEnds
    <2> QED
        BY <1>2, <2>1, <2>2 DEF PlainKind
<1> QED
    BY <1>1, <1>3, <1>4, <1>5, <1>6, <1>7, <1>8

LEMMA HostTakesCalls ==
    ASSUME CallsInv, NEW c \in Client, HostTakes(c)
    PROVE  CallsInv'
<1>1. PICK q, m : q = up[c] /\ m = Head(q)
    OBVIOUS
<1>2. /\ FileInv' /\ Types /\ q # <<>> /\ up' = [up EXCEPT ![c] = Tail(@)] /\ serving[c] = <<>>
      /\ UNCHANGED <<open, dead, nextId, th, replies, downloads>>
    BY <1>1, HostTakesKeeps DEF CallsInv, FileInv, HostTakes, client, waiting
<1>3. /\ up \in [Client -> Seq(Message)] /\ down \in [Client -> Seq(Message)] /\ q \in Seq(Message)
      /\ DOMAIN serving = Client
    BY <1>1, <1>2 DEF Types, ChannelTypes, HostTypes
<1>4. /\ 1 \in 1 .. Len(q) /\ m = q[1] /\ m \in Message /\ m.id < nextId[c]
      /\ \A k \in 1 .. Len(Tail(q)) : k + 1 \in 1 .. Len(q) /\ Tail(q)[k] = q[k + 1]
    <2>1. 1 \in 1 .. Len(q) /\ m = q[1] /\ \A k \in 1 .. Len(Tail(q)) : k + 1 \in 1 .. Len(q) /\ Tail(q)[k] = q[k + 1]
        BY <1>1, <1>2, <1>3, TakenOff
    <2>2. m \in Message /\ m.id < nextId[c]
        BY <1>1, <2>1, Messengers
    <2> QED
        BY <2>1, <2>2
<1>5. /\ up'[c] = Tail(q) /\ \A d \in Client : d # c => up'[d] = up[d]
      /\ \A k \in 1 .. Len(up'[c]) : \E j \in 1 .. Len(up[c]) : up'[c][k] = up[c][j]
    <2>1. up'[c] = Tail(q) /\ \A d \in Client : d # c => up'[d] = up[d]
        BY <1>1, <1>2, <1>3
    <2> QED
        BY <1>1, <1>4, <2>1
<1>6. PICK a, s :
         \/ m.t = "bin" /\ UNCHANGED <<down, serving>>
         \/ /\ UNCHANGED serving /\ m.t # "bin"
            /\ a \in Message /\ a.id = m.id /\ a.by = m.by /\ a.t # "bin" /\ Meets(m, a)
            /\ down' = [down EXCEPT ![c] = Append(@, a)]
         \/ /\ m.t = "download" /\ UNCHANGED down
            /\ s # <<>> /\ s.id = m.id /\ s.by = m.by /\ serving' = [serving EXCEPT ![c] = s]
    BY <1>1, <1>2, <1>4, HostDoes
<1>7. \A d \in Client : d # c => down'[d] = down[d] /\ serving'[d] = serving[d]
    BY <1>3, <1>6
<1>8. \/ m.t = "bin" /\ down'[c] = down[c] /\ serving'[c] = <<>>
      \/ /\ m.t # "bin" /\ serving'[c] = <<>>
         /\ a \in Message /\ a.id = m.id /\ a.by = m.by /\ a.t # "bin" /\ Meets(m, a)
         /\ down'[c] = Append(down[c], a)
      \/ /\ m.t = "download" /\ down'[c] = down[c]
         /\ serving'[c] # <<>> /\ serving'[c].id = m.id /\ serving'[c].by = m.by
    BY <1>2, <1>3, <1>6
<1>9. ASSUME NEW d \in Client
      PROVE  /\ \A k \in 1 .. Len(up'[d]) : up'[d][k].id < nextId[d]
             /\ \A k \in 1 .. Len(down'[d]) : down'[d][k].id < nextId[d]
             /\ \A r \in replies'[d] : r.id < nextId[d]
             /\ serving'[d] # <<>> => serving'[d].id < nextId[d]
             /\ \A i \in DOMAIN downloads'[d] : i \in Nat /\ i < nextId[d]
    <2>1. CASE d # c
        BY <1>2, <1>5, <1>7, <2>1, Messengers
    <2>2. CASE d = c
        <3>1. \A k \in 1 .. Len(up'[d]) : up'[d][k].id < nextId[d]
            BY <1>5, <2>2, Messengers
        <3>2. \A k \in 1 .. Len(down'[d]) : down'[d][k].id < nextId[d]
            <4>1. down[d] \in Seq(Message) /\ \A k \in 1 .. Len(down[d]) : down[d][k].id < nextId[d]
                BY Messengers
            <4>2. CASE down'[c] = down[c]
                BY <2>2, <4>1, <4>2
            <4>3. CASE a \in Message /\ a.id = m.id /\ down'[c] = Append(down[c], a)
                <5>1. \A k \in 1 .. Len(down'[d]) :
                         (k \in 1 .. Len(down[d]) /\ down'[d][k] = down[d][k]) \/ down'[d][k] = a
                    BY <2>2, <4>1, <4>3, Appended
                <5> QED
                    BY <1>4, <2>2, <4>1, <4>3, <5>1
            <4> QED
                BY <1>8, <4>2, <4>3
        <3>3. serving'[d] # <<>> => serving'[d].id < nextId[d]
            BY <1>4, <1>8, <2>2
        <3> QED
            BY <1>2, <3>1, <3>2, <3>3, Messengers
    <2> QED
        BY <2>1, <2>2
<1>10. ASSUME NEW u \in Thread, th[u].pc \in Working
       PROVE  Exchanges(u)'
    <2>1. PICK call, d, id : call = th[u] /\ d = u[1] /\ id = th[u].id
        OBVIOUS
    <2>2. d \in Client /\ Exchanges(u) /\ down[d] \in Seq(Message) /\ call.pc \in Working
        BY <1>3, <1>10, <2>1, ClientOf DEF CallsInv
    <2>3. CASE d # c \/ m.id # id
        <3>1. SameFor(up[d], up'[d], id)
            BY <1>1, <1>2, <1>3, <1>5, <2>2, <2>3, TakenOff, SameSelf
        <3>2. SameFor(down[d], down'[d], id)
            BY <1>7, <1>8, <2>2, <2>3, Appended, SameSelf
        <3>3. (~Serves(d, id)' /\ ~Serves(d, id)) \/ serving'[d] = serving[d]
            BY <1>2, <1>7, <1>8, <2>2, <2>3 DEF Serves
        <3>4. Leaves(u, id)
            BY <1>2, <2>1, <3>1, <3>2, <3>3 DEF Leaves, Serves, Came
        <3> QED
            BY <1>2, <2>1, <2>2, <3>4, ExchangeStays
    <2>4. CASE d = c /\ m.id = id
        <3>1. PICK place \in Place : Exchange(u, call, place)
            BY <1>10, <2>1, <2>2 DEF Exchanges
        <3>2. m.by = u /\ m.t \in Sends(call.pc)
            BY <1>1, <1>4, <2>1, <2>4, <3>1 DEF Exchange, Fits
        <3>3. \A k \in 1 .. Len(up'[d]) : up'[d][k].id = id => up'[d][k].by = u /\ up'[d][k].t \in Sends(call.pc)
            <4>1. \A k \in 1 .. Len(up[d]) : up[d][k].id = id => up[d][k].by = u /\ up[d][k].t \in Sends(call.pc)
                BY <2>1, <3>1 DEF Exchange, Fits
            <4>2. \A k \in 1 .. Len(up'[d]) : \E j \in 1 .. Len(up[d]) : up'[d][k] = up[d][j]
                BY <1>5, <2>4
            <4> QED
                BY <4>1, <4>2
        <3>4. Fits(u, call)'
            <4>1. /\ \A k \in 1 .. Len(down[d]) : down[d][k].id = id =>
                        down[d][k].by = u /\ (down[d][k].t = "bin" \/ down[d][k].t \in Gets(call.pc))
                  /\ \A r \in Came(d, id) : r.by = u /\ r.t \in Gets(call.pc)
                  /\ id \in DOMAIN downloads[d] =>
                        \A k \in 1 .. Len(downloads[d][id]) : downloads[d][id][k].by = u
                BY <2>1, <3>1 DEF Exchange, Fits
            <4>2. \A k \in 1 .. Len(down'[d]) : down'[d][k].id = id =>
                     down'[d][k].by = u /\ (down'[d][k].t = "bin" \/ down'[d][k].t \in Gets(call.pc))
                <5>1. CASE down'[c] = down[c]
                    BY <2>4, <4>1, <5>1
                <5>2. CASE a \in Message /\ a.by = m.by /\ Meets(m, a) /\ down'[c] = Append(down[c], a)
                    <6>1. \A k \in 1 .. Len(down'[d]) :
                             (k \in 1 .. Len(down[d]) /\ down'[d][k] = down[d][k]) \/ down'[d][k] = a
                        BY <2>2, <2>4, <5>2, Appended
                    <6>2. a.t \in Gets(call.pc) /\ a.by = u
                        BY <2>2, <3>2, <5>2 DEF Meets
                    <6> QED
                        BY <4>1, <6>1, <6>2
                <5> QED
                    BY <1>8, <5>1, <5>2
            <4>3. Serves(d, id)' => serving'[d].by = u /\ call.pc = "file"
                <5>1. m.t = "download" => call.pc = "file"
                    BY <2>2, <3>2 DEF Sends, Requests, Working
                <5> QED
                    BY <1>8, <2>4, <3>2, <5>1 DEF Serves
            <4>4. \A r \in Came(d, id)' : r.by = u /\ r.t \in Gets(call.pc)
                BY <1>2, <4>1 DEF Came
            <4>5. id \in DOMAIN downloads'[d] => \A k \in 1 .. Len(downloads'[d][id]) : downloads'[d][id][k].by = u
                BY <1>2, <4>1
            <4> QED
                BY <2>1, <3>3, <4>2, <4>3, <4>4, <4>5 DEF Fits, Serves, Came, Sends, Gets, Requests, Answers
        <3>5. CASE m.t = "bin" /\ down'[c] = down[c] /\ serving'[c] = <<>>
            <4>1. SameFor(up[d], up'[d], id)
                BY <1>1, <1>2, <1>3, <1>5, <2>4, <3>5, TakenOff
            <4>3. ~Serves(d, id) /\ ~Serves(d, id)' /\ down'[d] = down[d] /\ Came(d, id)' = Came(d, id)
                BY <1>2, <2>4, <3>5 DEF Serves, Came
            <4>4. At(d, id, place)
                BY <2>1, <3>1 DEF Exchange
            <4>2. At(d, id, place)'
                BY <4>1, <4>3, <4>4 DEF At, SameFor, Tokens
            <4> QED
                BY <1>2, <2>1, <3>1, <3>4, <4>2 DEF Exchanges, Exchange
        <3>6. CASE m.t # "bin"
            <4>1. AtMostOne(Tokens(q, id)) /\ q = up[d] /\ m = Head(q)
                BY <1>1, <2>1, <2>4, <3>1 DEF Exchange, At
            <4>2. Tokens(up[d], id) # {} /\ Tokens(up'[d], id) = {}
                BY <1>2, <1>3, <1>5, <2>4, <3>6, <4>1, TakenOff
            <4>3. At(d, id, "up") /\ Tokens(down[d], id) = {} /\ Came(d, id) = {}
                BY <2>1, <3>1, <4>2 DEF Exchange, At
            <4>4. call.pc # "chunks"
                BY <2>1, <3>1, <4>2 DEF Exchange, At
            <4>5. CASE /\ serving'[c] = <<>> /\ a \in Message /\ a.id = m.id /\ a.t # "bin"
                       /\ down'[c] = Append(down[c], a)
                <5>0. a.id = id /\ down'[d] = Append(down[d], a)
                    BY <2>4, <4>5
                <5>1. Tokens(down'[d], id) = {Len(down[d]) + 1}
                    <6>1. \A i : a.id = i /\ a.t # "bin" /\ Tokens(down[d], i) = {} =>
                             Tokens(Append(down[d], a), i) = {Len(down[d]) + 1}
                        BY <2>2, <4>5, Appended
                    <6>2. a.id = id /\ a.t # "bin" /\ Tokens(down[d], id) = {}
                        BY <4>3, <4>5, <5>0
                    <6>3. Tokens(Append(down[d], a), id) = {Len(down[d]) + 1}
                        BY <6>1, <6>2
                    <6> QED
                        BY <5>0, <6>3
                <5>2. Tokens(down[d], id)' # {} /\ AtMostOne(Tokens(down[d], id))'
                    BY <5>1 DEF Tokens, AtMostOne
                <5>3. At(d, id, "down")'
                    BY <1>2, <2>4, <4>2, <4>3, <4>5, <5>2 DEF At, Tokens, Came, Serves, AtMostOne
                <5>4. Exchange(u, call, "down")'
                    BY <2>1, <3>4, <4>4, <5>3 DEF Exchange
                <5> QED
                    BY <1>2, <2>1, <5>4 DEF Exchanges, Exchange, Place
            <4>6. CASE /\ m.t = "download" /\ down'[c] = down[c]
                       /\ serving'[c] # <<>> /\ serving'[c].id = m.id /\ serving'[c].by = m.by
                <5>1. At(d, id, "host")'
                    BY <1>2, <2>4, <4>2, <4>3, <4>6 DEF At, Tokens, Came, Serves, AtMostOne
                <5>2. Exchange(u, call, "host")'
                    BY <2>1, <3>4, <4>4, <5>1 DEF Exchange
                <5> QED
                    BY <1>2, <2>1, <5>2 DEF Exchanges, Exchange, Place
            <4> QED
                BY <1>8, <3>6, <4>5, <4>6
        <3> QED
            BY <1>8, <3>5, <3>6
    <2> QED
        BY <2>3, <2>4
<1>11. Ended'
    BY <1>2 DEF CallsInv, Ended
<1> QED
    BY <1>2, <1>9, <1>10, <1>11, QuietCalls

LEMMA HostSends ==
    ASSUME FileInv, NEW c \in Client, HostReads(c), NEW m, m = serving[c]
    PROVE  /\ m \in Message
           /\ \/ /\ \E s : s # <<>> /\ s.id = m.id /\ s.by = m.by /\ serving' = [serving EXCEPT ![c] = s]
                 /\ \/ UNCHANGED down
                    \/ \E a \in Message : /\ a.id = m.id /\ a.by = m.by /\ a.t = "bin"
                                          /\ down' = [down EXCEPT ![c] = Append(@, a)]
              \/ /\ serving' = [serving EXCEPT ![c] = <<>>]
                 /\ \/ ~open[c] /\ UNCHANGED down
                    \/ \E a \in Message : /\ a.id = m.id /\ a.by = m.by /\ a.t = "fileEnd"
                                          /\ down' = [down EXCEPT ![c] = Append(@, a)]
<1> DEFINE off == m.arg[1]
           more == m.arg[2] > 0 /\ file[m.path] # Absent /\ off < Len(file[m.path])
           Sending(kind, arg) == down' = IF open[c] THEN [down EXCEPT ![c] = Append(@, [m EXCEPT !.t = kind, !.arg = arg])]
                                                    ELSE down
<1>1. Types /\ m # <<>> /\ m \in Download /\ m \in Message
    BY DEF FileInv, HostReads, Types, HostTypes, Message
<1>2. off \in Nat /\ m.path \in Path
    BY <1>1 DEF Download, Record
<1>3. \/ more /\ Sending("bin", file[m.path][off + 1]) /\ serving' = [serving EXCEPT ![c].arg = <<off + 1, @[2] - 1>>]
      \/ Sending("fileEnd", <<>>) /\ serving' = [serving EXCEPT ![c] = <<>>]
    BY DEF HostReads
<1>4. CASE more /\ Sending("bin", file[m.path][off + 1]) /\ serving' = [serving EXCEPT ![c].arg = <<off + 1, @[2] - 1>>]
    <2> DEFINE s == [m EXCEPT !.arg = <<off + 1, m.arg[2] - 1>>]
               a == [m EXCEPT !.t = "bin", !.arg = file[m.path][off + 1]]
    <2>1. s # <<>> /\ s.id = m.id /\ s.by = m.by
        BY <1>1 DEF Download, Record
    <2>2. serving' = [serving EXCEPT ![c] = s]
        BY <1>4
    <2>3. file[m.path][off + 1] \in Cell
        BY <1>1, <1>2, <1>4, FileType
    <2>4. a \in Message
        BY <1>1, <2>3, AnswerFields
    <2>5. a.id = m.id /\ a.by = m.by /\ a.t = "bin"
        BY <1>1 DEF Download, Record
    <2>6. down' = down \/ down' = [down EXCEPT ![c] = Append(@, a)]
        BY <1>4
    <2> HIDE DEF s, a
    <2> QED
        BY <1>1, <2>1, <2>2, <2>4, <2>5, <2>6
<1>5. CASE Sending("fileEnd", <<>>) /\ serving' = [serving EXCEPT ![c] = <<>>]
    <2> DEFINE a == [m EXCEPT !.t = "fileEnd", !.arg = <<>>]
    <2>1. a \in Message
        BY <1>1, AnswerFields DEF PlainKind
    <2>2. a.id = m.id /\ a.by = m.by /\ a.t = "fileEnd"
        BY <1>1 DEF Download, Record
    <2>3. (~open[c] /\ down' = down) \/ down' = [down EXCEPT ![c] = Append(@, a)]
        BY <1>5
    <2> HIDE DEF a
    <2> QED
        BY <1>1, <1>5, <2>1, <2>2, <2>3
<1> QED
    BY <1>3, <1>4, <1>5

LEMMA HostReadsCalls ==
    ASSUME CallsInv, NEW c \in Client, HostReads(c)
    PROVE  CallsInv'
<1>1. PICK m : m = serving[c]
    OBVIOUS
<1>2. /\ FileInv' /\ FileInv /\ Types /\ m # <<>>
      /\ UNCHANGED <<open, dead, up, nextId, th, replies, downloads>>
    BY <1>1, HostReadsKeeps DEF CallsInv, FileInv, HostReads, client, waiting
<1>3. /\ down \in [Client -> Seq(Message)] /\ DOMAIN serving = Client
    BY <1>2 DEF Types, ChannelTypes, HostTypes
<1>4. m \in Message /\ m.id < nextId[c]
    BY <1>1, <1>2, Messengers
<1>5. PICK a, s :
         \/ /\ s # <<>> /\ s.id = m.id /\ s.by = m.by /\ serving' = [serving EXCEPT ![c] = s]
            /\ \/ UNCHANGED down
               \/ /\ a \in Message /\ a.id = m.id /\ a.by = m.by /\ a.t = "bin"
                  /\ down' = [down EXCEPT ![c] = Append(@, a)]
         \/ /\ serving' = [serving EXCEPT ![c] = <<>>]
            /\ \/ ~open[c] /\ UNCHANGED down
               \/ /\ a \in Message /\ a.id = m.id /\ a.by = m.by /\ a.t = "fileEnd"
                  /\ down' = [down EXCEPT ![c] = Append(@, a)]
    BY <1>1, <1>2, HostSends
<1>6. \A d \in Client : d # c => down'[d] = down[d] /\ serving'[d] = serving[d]
    BY <1>3, <1>5
<1>7. \/ serving'[c] # <<>> /\ serving'[c].id = m.id /\ serving'[c].by = m.by
      \/ serving'[c] = <<>>
    BY <1>3, <1>5
<1>8. \/ down'[c] = down[c] /\ (serving'[c] = <<>> => ~open[c])
      \/ /\ a \in Message /\ a.id = m.id /\ a.by = m.by /\ down'[c] = Append(down[c], a)
         /\ IF serving'[c] = <<>> THEN a.t = "fileEnd" ELSE a.t = "bin"
    BY <1>3, <1>5
<1>9. ASSUME NEW d \in Client
      PROVE  /\ \A k \in 1 .. Len(up'[d]) : up'[d][k].id < nextId[d]
             /\ \A k \in 1 .. Len(down'[d]) : down'[d][k].id < nextId[d]
             /\ \A r \in replies'[d] : r.id < nextId[d]
             /\ serving'[d] # <<>> => serving'[d].id < nextId[d]
             /\ \A i \in DOMAIN downloads'[d] : i \in Nat /\ i < nextId[d]
    <2>1. CASE d # c
        BY <1>2, <1>6, <2>1, Messengers
    <2>2. CASE d = c
        <3>1. \A k \in 1 .. Len(down'[d]) : down'[d][k].id < nextId[d]
            <4>1. down[d] \in Seq(Message) /\ \A k \in 1 .. Len(down[d]) : down[d][k].id < nextId[d]
                BY Messengers
            <4>2. CASE down'[c] = down[c]
                BY <2>2, <4>1, <4>2
            <4>3. CASE a \in Message /\ a.id = m.id /\ down'[c] = Append(down[c], a)
                <5>1. \A k \in 1 .. Len(down'[d]) :
                         (k \in 1 .. Len(down[d]) /\ down'[d][k] = down[d][k]) \/ down'[d][k] = a
                    BY <2>2, <4>1, <4>3, Appended
                <5> QED
                    BY <1>4, <2>2, <4>1, <4>3, <5>1
            <4> QED
                BY <1>8, <4>2, <4>3
        <3>2. serving'[d] # <<>> => serving'[d].id < nextId[d]
            BY <1>4, <1>7, <2>2
        <3> QED
            BY <1>2, <3>1, <3>2, Messengers
    <2> QED
        BY <2>1, <2>2
<1>10. ASSUME NEW u \in Thread, th[u].pc \in Working
       PROVE  Exchanges(u)'
    <2>1. PICK call, d, id : call = th[u] /\ d = u[1] /\ id = th[u].id
        OBVIOUS
    <2>2. d \in Client /\ Exchanges(u) /\ down[d] \in Seq(Message) /\ call.pc \in Working
        BY <1>3, <1>10, <2>1, ClientOf DEF CallsInv
    <2>3. CASE d # c \/ m.id # id
        <3>1. SameFor(up[d], up'[d], id)
            BY <1>2, SameSelf
        <3>2. SameFor(down[d], down'[d], id)
            BY <1>6, <1>8, <2>2, <2>3, Appended, SameSelf
        <3>3. (~Serves(d, id)' /\ ~Serves(d, id)) \/ serving'[d] = serving[d]
            BY <1>1, <1>6, <1>7, <2>2, <2>3 DEF Serves
        <3>4. Leaves(u, id)
            BY <1>2, <2>1, <3>1, <3>2, <3>3 DEF Leaves, Serves, Came
        <3> QED
            BY <1>2, <2>1, <2>2, <3>4, ExchangeStays
    <2>4. CASE d = c /\ m.id = id
        <3>1. PICK place \in Place : Exchange(u, call, place)
            BY <1>10, <2>1, <2>2 DEF Exchanges
        <3>2. Serves(d, id) /\ At(d, id, "host") /\ m.by = u /\ call.pc = "file"
            BY <1>1, <1>2, <2>1, <2>4, <3>1 DEF Exchange, At, Fits, Serves
        <3>3. Fits(u, call)'
            <4>1. /\ \A k \in 1 .. Len(down[d]) : down[d][k].id = id =>
                        down[d][k].by = u /\ (down[d][k].t = "bin" \/ down[d][k].t \in Gets(call.pc))
                  /\ \A k \in 1 .. Len(up[d]) : up[d][k].id = id => up[d][k].by = u /\ up[d][k].t \in Sends(call.pc)
                  /\ \A r \in Came(d, id) : r.by = u /\ r.t \in Gets(call.pc)
                  /\ id \in DOMAIN downloads[d] =>
                        \A k \in 1 .. Len(downloads[d][id]) : downloads[d][id][k].by = u
                BY <2>1, <3>1 DEF Exchange, Fits
            <4>2. \A k \in 1 .. Len(down'[d]) : down'[d][k].id = id =>
                     down'[d][k].by = u /\ (down'[d][k].t = "bin" \/ down'[d][k].t \in Gets(call.pc))
                <5>1. CASE down'[c] = down[c]
                    BY <2>4, <4>1, <5>1
                <5>2. CASE a \in Message /\ a.by = m.by /\ a.t \in {"bin", "fileEnd"} /\ down'[c] = Append(down[c], a)
                    <6>1. \A k \in 1 .. Len(down'[d]) :
                             (k \in 1 .. Len(down[d]) /\ down'[d][k] = down[d][k]) \/ down'[d][k] = a
                        BY <2>2, <2>4, <5>2, Appended
                    <6>2. (a.t = "bin" \/ a.t \in Gets(call.pc)) /\ a.by = u
                        BY <3>2, <5>2 DEF Gets, Answers
                    <6> QED
                        BY <4>1, <6>1, <6>2
                <5> QED
                    BY <1>8, <5>1, <5>2
            <4>3. Serves(d, id)' => serving'[d].by = u /\ call.pc = "file"
                BY <1>7, <2>4, <3>2 DEF Serves
            <4>4. \A r \in Came(d, id)' : r.by = u /\ r.t \in Gets(call.pc)
                BY <1>2, <4>1 DEF Came
            <4>5. id \in DOMAIN downloads'[d] => \A k \in 1 .. Len(downloads'[d][id]) : downloads'[d][id][k].by = u
                BY <1>2, <4>1
            <4>6. \A k \in 1 .. Len(up'[d]) : up'[d][k].id = id => up'[d][k].by = u /\ up'[d][k].t \in Sends(call.pc)
                BY <1>2, <4>1
            <4> QED
                BY <2>1, <4>2, <4>3, <4>4, <4>5, <4>6 DEF Fits, Serves, Came, Sends, Gets, Requests, Answers
        <3>4. Tokens(up[d], id) = {} /\ Tokens(down[d], id) = {} /\ Came(d, id) = {}
            BY <3>2 DEF At
        <3>5. UNCHANGED <<up, replies>>
            BY <1>2
        <3>6. CASE serving'[c] # <<>>
            <4>1. Tokens(down'[d], id) = {}
                <5>1. CASE down'[c] = down[c]
                    BY <2>4, <3>4, <5>1
                <5>2. CASE a \in Message /\ a.id = m.id /\ a.t = "bin" /\ down'[c] = Append(down[c], a)
                    <6>1. \A i : a.id = i /\ a.t = "bin" => Tokens(Append(down[d], a), i) = Tokens(down[d], i)
                        BY <2>2, <5>2, Appended
                    <6>2. a.id = id /\ a.t = "bin" /\ down'[d] = Append(down[d], a)
                        BY <2>4, <5>2
                    <6>3. Tokens(Append(down[d], a), id) = Tokens(down[d], id)
                        BY <6>1, <6>2
                    <6> QED
                        BY <3>4, <6>2, <6>3
                <5> QED
                    BY <1>8, <3>6, <5>1, <5>2
            <4>2. Serves(d, id)'
                BY <1>7, <2>4, <3>6 DEF Serves
            <4>3. At(d, id, "host")'
                BY <3>4, <3>5, <4>1, <4>2 DEF At, Tokens, Came, AtMostOne
            <4>4. Exchange(u, call, "host")'
                BY <2>1, <3>2, <3>3, <4>3 DEF Exchange
            <4> QED
                BY <1>2, <2>1, <4>4 DEF Exchanges, Exchange, Place
        <3>7. CASE serving'[c] = <<>> /\ down'[c] = down[c] /\ ~open[c]
            <4>1. ~Serves(d, id)' /\ dead'[d]
                BY <1>2, <2>2, <2>4, <3>7 DEF Serves, CallsInv, Ended
            <4>2. Tokens(down'[d], id) = {}
                BY <2>4, <3>4, <3>7
            <4>3. At(d, id, "lost")'
                BY <3>4, <3>5, <4>1, <4>2 DEF At, Tokens, Came, AtMostOne
            <4>4. Exchange(u, call, "lost")'
                BY <2>1, <3>2, <3>3, <4>1, <4>3 DEF Exchange
            <4> QED
                BY <1>2, <2>1, <4>4 DEF Exchanges, Exchange, Place
        <3>8. CASE /\ serving'[c] = <<>> /\ a \in Message /\ a.id = m.id /\ a.t = "fileEnd"
                   /\ down'[c] = Append(down[c], a)
            <4>1. a.id = id /\ a.t # "bin" /\ down'[d] = Append(down[d], a)
                BY <2>4, <3>8
            <4>2. \A i : a.id = i /\ a.t # "bin" /\ Tokens(down[d], i) = {} =>
                     Tokens(Append(down[d], a), i) = {Len(down[d]) + 1}
                BY <2>2, <3>8, Appended
            <4>3. Tokens(Append(down[d], a), id) = {Len(down[d]) + 1}
                BY <3>4, <4>1, <4>2
            <4>4. Tokens(down'[d], id) = {Len(down[d]) + 1}
                BY <4>1, <4>3
            <4>5. Tokens(down[d], id)' # {} /\ AtMostOne(Tokens(down[d], id))'
                BY <4>4 DEF Tokens, AtMostOne
            <4>6. ~Serves(d, id)'
                BY <2>4, <3>8 DEF Serves
            <4>7. At(d, id, "down")'
                BY <3>4, <3>5, <4>5, <4>6 DEF At, Tokens, Came, AtMostOne
            <4>8. Exchange(u, call, "down")'
                BY <2>1, <3>2, <3>3, <4>7 DEF Exchange
            <4> QED
                BY <1>2, <2>1, <4>8 DEF Exchanges, Exchange, Place
        <3> QED
            BY <1>8, <3>6, <3>7, <3>8
    <2> QED
        BY <2>3, <2>4
<1>11. Ended'
    BY <1>2 DEF CallsInv, Ended
<1> QED
    BY <1>2, <1>9, <1>10, <1>11, QuietCalls

LEMMA CallsInit == Init => CallsInv
<1> SUFFICES ASSUME Init PROVE CallsInv
    OBVIOUS
<1>1. \A t \in Thread : th[t].pc = "idle"
    BY DEF Init, Idle
<1>2. \A c \in Client : /\ up[c] = <<>> /\ down[c] = <<>> /\ replies[c] = {} /\ serving[c] = <<>>
                        /\ downloads[c] = <<>> /\ open[c]
    BY DEF Init
<1>3. Fresh
    BY <1>1, <1>2 DEF Fresh, Working
<1>4. Single /\ Ended /\ \A t \in Thread : Exchanges(t)
    BY <1>1, <1>2 DEF Single, Ended, Exchanges, Working
<1> QED
    BY <1>3, <1>4, FileInit DEF CallsInv

LEMMA CallsNext == CallsInv /\ [Next]_vars => CallsInv'
<1> SUFFICES ASSUME CallsInv, [Next]_vars PROVE CallsInv'
    OBVIOUS
<1>1. ASSUME NEW t \in Thread, NEW p \in Path,
             \/ \E trunc, create \in BOOLEAN : Open(t, p, trunc, create)
             \/ \E n \in 0 .. Size : Truncate(t, p, n)
             \/ Unlink(t, p)
      PROVE  CallsInv'
    BY <1>1, OpenCalls, TruncateCalls, UnlinkCalls
<1>2. ASSUME NEW t \in Thread, NEW h \in Handle,
             \/ \E off \in 0 .. Size - 1 : Loads(t, "read", h, off) \/ Loads(t, "write", h, off) \/ WriteLoaded(t, h, off)
             \/ Release(t, h)
      PROVE  CallsInv'
    BY <1>2, LoadsCalls, WriteLoadedCalls, ReleaseCalls
<1>3. ASSUME NEW t \in Thread, UploadStart(t) \/ SendChunk(t) \/ Answered(t) \/ GivesUp(t)
      PROVE  CallsInv'
    BY <1>3, UploadStartCalls, SendChunkCalls, AnsweredCalls, GivesUpCalls
<1>4. ASSUME NEW c \in Client, Deliver(c) \/ Closed(c) \/ SignallingLost(c) \/ HostTakes(c) \/ HostReads(c)
      PROVE  CallsInv'
    BY <1>4, DeliverCalls, ClosedCalls, SignallingLostCalls, HostTakesCalls, HostReadsCalls
<1>5. CASE UNCHANGED vars
    <2>1. FileInv' /\ UNCHANGED <<open, dead, up, down, nextId, replies, downloads, th, serving>>
        BY <1>5, FileNext DEF CallsInv, vars, client, waiting, chan, host
    <2>2. Ended'
        BY <2>1 DEF CallsInv, Ended
    <2>3. ASSUME NEW u \in Thread, th[u].pc \in Working
          PROVE  Exchanges(u)'
        <3>1. Leaves(u, th[u].id)
            BY <2>1, SameSelf DEF Leaves, Serves, Came
        <3> QED
            BY <2>1, <3>1, ExchangeStays DEF CallsInv
    <2> QED
        BY <2>1, <2>2, <2>3, Messengers, QuietCalls
<1> QED
    BY <1>1, <1>2, <1>3, <1>4, <1>5, HostChangesCalls DEF Next

LEMMA CallsInvariant == Spec => []CallsInv
BY CallsInit, CallsNext, PTL DEF Spec

\* A thread that waits takes the answer to its own request and to no other (send_json_wait and
\* wait_file of web_compat.cpp, with the ids of next_id), and of a fetch only its own chunks: what
\* other threads ask meanwhile, and what comes late for a call given up, is never mistaken for it.
LEMMA AnswersAreOwn == Spec => []AnswersMatch
<1>1. ASSUME CallsInv
      PROVE  AnswersMatch
    <2> SUFFICES ASSUME NEW t \in Thread, Waits(t)
                 PROVE  /\ \A r \in ReplyTo(t) : r.by = t /\ r.t \in Answers[th[t].pc]
                        /\ \A m \in Range(Bins(t[1], th[t].id)) : m.by = t
        BY DEF AnswersMatch
    <2>1. th[t].pc \in Working /\ th[t].pc # "chunks"
        BY DEF Waits, Working
    <2>2. Fits(t, th[t])
        BY <1>1, <2>1 DEF CallsInv, Exchanges, Exchange
    <2>3. \A r \in ReplyTo(t) : r.by = t /\ r.t \in Answers[th[t].pc]
        BY <2>1, <2>2 DEF Fits, Came, ReplyTo, Gets
    <2>4. ASSUME NEW m \in Range(Bins(t[1], th[t].id))
          PROVE  m.by = t
        <3>1. PICK k \in DOMAIN Bins(t[1], th[t].id) : m = Bins(t[1], th[t].id)[k]
            BY DEF Range
        <3>2. CASE th[t].id \in DOMAIN downloads[t[1]]
            <4>1. downloads[t[1]][th[t].id] \in Seq(Bin)
                BY <1>1, <3>2, ClientOf DEF CallsInv, FileInv, Types, ClientTypes
            <4>2. k \in 1 .. Len(downloads[t[1]][th[t].id]) /\ m = downloads[t[1]][th[t].id][k]
                BY <3>1, <3>2, <4>1 DEF Bins
            <4> QED
                BY <2>2, <3>2, <4>2 DEF Fits
        <3>3. CASE th[t].id \notin DOMAIN downloads[t[1]]
            BY <3>1, <3>3 DEF Bins
        <3> QED
            BY <3>2, <3>3
    <2> QED
        BY <2>3, <2>4
<1> QED
    BY <1>1, CallsInvariant, PTL

\* The host answers every request (on_json and on_binary of WebRtcCompatHost), a failed one too, and the
\* client files every answer for who waits (on_json): until the connection is told dead, a thread never
\* waits for what is nowhere.
LEMMA NoneIsLost == Spec => []NoCallIsLost
<1>1. ASSUME CallsInv
      PROVE  NoCallIsLost
    <2> SUFFICES ASSUME NEW t \in Thread, Waits(t), ~dead[t[1]]
                 PROVE  ReplyTo(t) # {} \/ UnderWay(t[1], th[t].id, Requests[th[t].pc])
        BY DEF NoCallIsLost
    <2>1. th[t].pc \in Working /\ th[t].pc # "chunks"
        BY DEF Waits, Working
    <2>2. PICK place \in Place : Exchange(t, th[t], place)
        BY <1>1, <2>1 DEF CallsInv, Exchanges
    <2>3. place # "lost" /\ At(t[1], th[t].id, place) /\ Fits(t, th[t])
        BY <2>1, <2>2 DEF Exchange
    <2>4. up[t[1]] \in Seq(Message) /\ down[t[1]] \in Seq(Message)
        BY <1>1, ClientOf, Messengers
    <2>5. CASE place = "up"
        <3>1. PICK k \in 1 .. Len(up[t[1]]) : up[t[1]][k].id = th[t].id /\ up[t[1]][k].t # "bin"
            BY <2>3, <2>5 DEF At, Tokens
        <3>2. up[t[1]][k].t \in Sends(th[t].pc)
            BY <2>3, <3>1 DEF Fits
        <3>3. up[t[1]][k].t = Requests[th[t].pc]
            BY <2>1, <3>1, <3>2 DEF Sends, Requests
        <3>4. up[t[1]][k] \in Range(up[t[1]])
            BY <2>4 DEF Range
        <3> QED
            BY <3>1, <3>3, <3>4 DEF UnderWay
    <2>6. CASE place = "host"
        BY <2>3, <2>6 DEF At, Serves, UnderWay
    <2>7. CASE place = "down"
        <3>1. PICK k \in 1 .. Len(down[t[1]]) : down[t[1]][k].id = th[t].id /\ down[t[1]][k].t # "bin"
            BY <2>3, <2>7 DEF At, Tokens
        <3>2. down[t[1]][k] \in Range(down[t[1]])
            BY <2>4 DEF Range
        <3> QED
            BY <3>1, <3>2 DEF UnderWay
    <2>8. CASE place = "reply"
        BY <2>3, <2>8 DEF At, Came, ReplyTo
    <2> QED
        BY <2>3, <2>5, <2>6, <2>7, <2>8 DEF Place
<1> QED
    BY <1>1, CallsInvariant, PTL

\* For any number of mounts, threads, calls and faults: of every call exactly its own answer comes, or
\* the connection is told dead (WebRtcRemoteClient and WebRtcCompatHost).
THEOREM CallsAreKept == Spec => []CallsKept
<1>1. AnswersMatch /\ NoCallIsLost => CallsKept
    BY DEF CallsKept
<1> QED
    BY <1>1, AnswersAreOwn, NoneIsLost, PTL

(************************** files stay small *******************************)

\* The chunks of an id in a channel.
ChunkSet(q, id) == {k \in 1 .. Len(q) : q[k].id = id /\ q[k].t = "bin"}
Chunks(q, id) == Cardinality(ChunkSet(q, id))
IsChunk(m, id) == m.id = id /\ m.t = "bin"

LEMMA ChunksType ==
    ASSUME NEW q \in Seq(Message), NEW id
    PROVE  IsFiniteSet(ChunkSet(q, id)) /\ Chunks(q, id) \in Nat /\ Chunks(<<>>, id) = 0
<1>1. IsFiniteSet(1 .. Len(q))
    BY FS_Interval
<1>2. IsFiniteSet(ChunkSet(q, id))
    BY <1>1, FS_Subset DEF ChunkSet
<1>3. ChunkSet(<<>>, id) = {}
    BY DEF ChunkSet
<1> QED
    BY <1>2, <1>3, FS_CardinalityType, FS_EmptySet DEF Chunks

LEMMA ChunksAppended ==
    ASSUME NEW q \in Seq(Message), NEW m \in Message, NEW id
    PROVE  Chunks(Append(q, m), id) = IF IsChunk(m, id) THEN Chunks(q, id) + 1 ELSE Chunks(q, id)
<1> DEFINE r == Append(q, m)
           n == Len(q) + 1
<1>1. /\ Len(q) \in Nat /\ Len(r) = n /\ r[n] = m /\ n \in 1 .. Len(r)
      /\ \A k \in 1 .. Len(q) : k \in 1 .. Len(r) /\ r[k] = q[k] /\ k # n
      /\ \A k \in 1 .. Len(r) : k = n \/ k \in 1 .. Len(q)
    OBVIOUS
<1> HIDE DEF r, n
<1>2. n \notin ChunkSet(q, id)
    BY <1>1 DEF ChunkSet
<1>3. CASE IsChunk(m, id)
    <2>1. ChunkSet(r, id) = ChunkSet(q, id) \cup {n}
        BY <1>1, <1>3 DEF ChunkSet, IsChunk
    <2> QED
        BY <1>2, <1>3, <2>1, ChunksType, FS_AddElement DEF Chunks, r
<1>4. CASE ~IsChunk(m, id)
    <2>1. ChunkSet(r, id) = ChunkSet(q, id)
        BY <1>1, <1>4 DEF ChunkSet, IsChunk
    <2> QED
        BY <1>4, <2>1 DEF Chunks, r
<1> QED
    BY <1>3, <1>4

LEMMA ChunksTaken ==
    ASSUME NEW q \in Seq(Message), q # <<>>, NEW id
    PROVE  Chunks(q, id) = IF IsChunk(Head(q), id) THEN Chunks(Tail(q), id) + 1 ELSE Chunks(Tail(q), id)
<1> DEFINE r == Tail(q)
           S == ChunkSet(r, id)
           T == ChunkSet(q, id) \ {1}
           f == [k \in S |-> k + 1]
<1>1. /\ Len(q) \in Nat /\ Len(r) \in Nat /\ Len(q) = Len(r) + 1 /\ Head(q) = q[1] /\ 1 \in 1 .. Len(q)
      /\ r \in Seq(Message)
      /\ \A k \in 1 .. Len(r) : k + 1 \in 1 .. Len(q) /\ r[k] = q[k + 1]
    OBVIOUS
<1> HIDE DEF r
<1>2. S \subseteq Nat /\ \A k \in S : k + 1 \in T
    BY <1>1 DEF ChunkSet
<1>3. \A k \in T : k - 1 \in S /\ (k - 1) + 1 = k
    <2> SUFFICES ASSUME NEW k \in T PROVE k - 1 \in S /\ (k - 1) + 1 = k
        OBVIOUS
    <2>1. k \in 1 .. Len(q) /\ k # 1
        BY DEF ChunkSet
    <2>2. k - 1 \in 1 .. Len(r) /\ (k - 1) + 1 = k
        BY <1>1, <2>1
    <2> QED
        BY <1>1, <2>2 DEF ChunkSet
<1>4. f \in Bijection(S, T)
    <2>1. f \in [S -> T]
        BY <1>2
    <2>2. \A a, b \in S : f[a] = f[b] => a = b
        BY <1>2
    <2>3. \A b \in T : \E a \in S : f[a] = b
        BY <1>3
    <2> QED
        BY <2>1, <2>2, <2>3 DEF Bijection, Injection, Surjection, IsInjective
<1>5. IsFiniteSet(S) /\ IsFiniteSet(ChunkSet(q, id))
    BY <1>1, ChunksType
<1>6. Cardinality(T) = Cardinality(S)
    BY <1>4, <1>5, FS_Bijection DEF ExistsBijection
<1>7. 1 \in ChunkSet(q, id) <=> IsChunk(Head(q), id)
    BY <1>1 DEF ChunkSet, IsChunk
<1>8. Cardinality(T) = IF IsChunk(Head(q), id) THEN Chunks(q, id) - 1 ELSE Chunks(q, id)
    BY <1>5, <1>7, FS_RemoveElement DEF Chunks
<1>9. Chunks(q, id) \in Nat /\ Chunks(r, id) \in Nat
    BY <1>1, ChunksType
<1> QED
    BY <1>6, <1>8, <1>9 DEF Chunks, r

\* What is stored, asked for and on the way fits into a file of Size cells.
FileSmall == \A p \in Path : file[p] # Absent => Len(file[p]) <= Size
BuffersSmall == \A c \in Client, h \in Handle : fhs[c][h] \in FhState => Len(fhs[c][h].data) <= Size
CallSmall(call) ==
    /\ Len(call.buf) <= Size /\ call.off <= Size
    /\ call.pc = "file" /\ call.op # "truncate" => call.off < Size
CallsSmall == \A t \in Thread : th[t].pc # "idle" => CallSmall(th[t])

\* What the host has written of an upload, what is on its way and what its thread has yet to send.
Stored(id) == {0} \cup {u.pos : u \in {v \in uploads : v.id = id}}
Unsent(t) == t \in Thread /\ th[t].pc \in {"ready", "chunks"}
Owing(c, id) == {0} \cup {Len(th[t].buf) - th[t].off : t \in {u \in Thread : Unsent(u) /\ u[1] = c /\ th[u].id = id}}
Sending ==
    \A c \in Client : \A id \in Numbers(c) : \A x \in Stored(id), y \in Owing(c, id) :
        x + Chunks(up[c], id) + y <= Size

\* Of a download what has come, what is on its way and what the host has yet to read.
Got(c, id) == Chunks(down[c], id) + Len(Bins(c, id))
Asks(c, id, k) == k \in 1 .. Len(up[c]) /\ up[c][k].t = "download" /\ up[c][k].id = id
Fetches(c, id) ==
    /\ Got(c, id) <= Size
    /\ Serves(c, id) => serving[c].arg[2] + Got(c, id) <= Size
    /\ \A k \in Nat : Asks(c, id, k) => /\ up[c][k].arg[2] <= Size /\ Got(c, id) = 0 /\ ~Serves(c, id)
                                        /\ \A j \in Nat : Asks(c, id, j) => j = k
Fetching == \A c \in Client, id \in Nat : Fetches(c, id)

\* Every handle was made, or will be, by a call of its own.
Opening(c) == {t \in Thread : t[1] = c /\ th[t].pc = "attr"}
Opened ==
    \A c \in Client : /\ IsFiniteSet(Opening(c)) /\ nextFh[c] >= 1
                      /\ nextFh[c] + Cardinality(Opening(c)) <= calls + 2

Sizes == FileSmall /\ BuffersSmall /\ CallsSmall /\ Sending /\ Fetching /\ Opened
Sound == SavedInv /\ CallsInv /\ Apart

LEMMA SoundTypes ==
    ASSUME Sound
    PROVE  /\ Types /\ Numbered /\ Fresh /\ Begun /\ Size \in Nat
           /\ \A c \in Client :
                 /\ nextId[c] \in Nat /\ FirstId[c] \in Nat /\ FirstId[c] <= nextId[c] /\ nextFh[c] \in Nat
                 /\ up[c] \in Seq(Message) /\ down[c] \in Seq(Message)
                 /\ \A id : /\ Chunks(up[c], id) \in Nat /\ Chunks(down[c], id) \in Nat
                            /\ Bins(c, id) \in Seq(Bin) /\ Len(Bins(c, id)) \in Nat /\ Got(c, id) \in Nat
           /\ calls \in 0 .. MaxCalls /\ MaxCalls \in Nat
<1>1. Types /\ Numbered /\ Fresh /\ Begun /\ Size \in Nat /\ MaxCalls \in Nat
    BY WebFilesAssumption DEF Sound, SavedInv, CallsInv, FileInv
<1>2. ASSUME NEW c \in Client, NEW id
      PROVE  /\ up[c] \in Seq(Message) /\ down[c] \in Seq(Message)
             /\ Chunks(up[c], id) \in Nat /\ Chunks(down[c], id) \in Nat
             /\ Bins(c, id) \in Seq(Bin) /\ Len(Bins(c, id)) \in Nat /\ Got(c, id) \in Nat
    <2>1. up[c] \in Seq(Message) /\ down[c] \in Seq(Message)
        BY <1>1 DEF Types, ChannelTypes
    <2>2. Bins(c, id) \in Seq(Bin)
        <3>1. id \in DOMAIN downloads[c] => downloads[c][id] \in Seq(Bin)
            BY <1>1 DEF Types, ClientTypes
        <3>2. <<>> \in Seq(Bin)
            OBVIOUS
        <3> QED
            BY <3>1, <3>2 DEF Bins
    <2>3. Len(Bins(c, id)) \in Nat
        BY <2>2
    <2> QED
        BY <2>1, <2>2, <2>3, ChunksType DEF Got
<1>3. \A c \in Client : nextId[c] \in Nat /\ FirstId[c] \in Nat /\ FirstId[c] <= nextId[c] /\ nextFh[c] \in Nat
    BY <1>1, WebFilesAssumption DEF Numbered, Types, ClientTypes
<1>4. calls \in 0 .. MaxCalls
    BY <1>1 DEF Types, ClientTypes
<1> QED
    BY <1>1, <1>2, <1>3, <1>4

\* Less of it still fits.
LEMMA SendingStays ==
    ASSUME Sound, Sound', Sending, nextId' = nextId, \A id : Stored(id)' \subseteq Stored(id),
           \A c \in Client : \A id : /\ Chunks(up[c], id)' <= Chunks(up[c], id)
                                     /\ Owing(c, id)' \subseteq Owing(c, id)
    PROVE  Sending'
<1> SUFFICES ASSUME NEW c \in Client, NEW id \in Numbers(c)', NEW x \in Stored(id)', NEW y \in Owing(c, id)'
             PROVE  x + Chunks(up'[c], id) + y <= Size
    BY DEF Sending
<1>1. id \in Numbers(c)
    BY DEF Numbers
<1>2. x \in Stored(id) /\ y \in Owing(c, id)
    OBVIOUS
<1>3. x + Chunks(up[c], id) + y <= Size
    BY <1>1, <1>2 DEF Sending
<1>4. x \in Int
    BY <1>2, SoundTypes DEF Stored, Types, HostTypes, UploadState
<1>5. y \in Int
    <2>1. \A t \in Thread : Unsent(t) => th[t].off \in Nat /\ th[t].buf \in Seq(Cell)
        BY CallFields, SoundTypes DEF Unsent
    <2>2. \A t \in Thread : Unsent(t) => Len(th[t].buf) - th[t].off \in Int
        BY <2>1
    <2> QED
        BY <1>2, <2>2 DEF Owing
<1>6. Chunks(up[c], id) \in Nat /\ Chunks(up'[c], id) \in Nat /\ Size \in Nat
    <2>1. up'[c] \in Seq(Message)
        BY DEF Sound, CallsInv, FileInv, Types, ChannelTypes
    <2> QED
        BY <2>1, SoundTypes, ChunksType
<1>7. Chunks(up'[c], id) <= Chunks(up[c], id)
    BY DEF Chunks, ChunkSet
<1> QED
    BY <1>3, <1>4, <1>5, <1>6, <1>7

LEMMA OpenedStays ==
    ASSUME Sound, Sound', Opened, nextFh' = nextFh, calls <= calls', \A c \in Client : Opening(c)' \subseteq Opening(c)
    PROVE  Opened'
<1> SUFFICES ASSUME NEW c \in Client
             PROVE  /\ IsFiniteSet(Opening(c)') /\ nextFh'[c] >= 1
                    /\ nextFh'[c] + Cardinality(Opening(c)') <= calls' + 2
    BY DEF Opened
<1>1. IsFiniteSet(Opening(c)) /\ nextFh[c] >= 1 /\ nextFh[c] + Cardinality(Opening(c)) <= calls + 2
    BY DEF Opened
<1>2. IsFiniteSet(Opening(c)') /\ Cardinality(Opening(c)') <= Cardinality(Opening(c))
    BY <1>1, FS_Subset
<1>3. Cardinality(Opening(c)) \in Nat /\ Cardinality(Opening(c)') \in Nat
    BY <1>1, <1>2, FS_CardinalityType
<1>4. nextFh[c] \in Nat /\ calls \in Nat /\ calls' \in Nat
    <2>1. calls \in 0 .. MaxCalls /\ nextFh[c] \in Nat /\ MaxCalls \in Nat
        BY SoundTypes
    <2>2. calls' \in 0 .. MaxCalls
        BY DEF Sound, CallsInv, FileInv, Types, ClientTypes
    <2> QED
        BY <2>1, <2>2
<1> QED
    BY <1>1, <1>2, <1>3, <1>4

\* The same of the next state.
LEMMA GotNat ==
    ASSUME Types'
    PROVE  \A c \in Client : \A id : /\ Got(c, id)' \in Nat /\ Chunks(down'[c], id) \in Nat
                                     /\ Len(Bins(c, id)') \in Nat /\ Bins(c, id)' \in Seq(Bin)
<1> SUFFICES ASSUME NEW c \in Client, NEW id
             PROVE  /\ Got(c, id)' \in Nat /\ Chunks(down'[c], id) \in Nat
                    /\ Len(Bins(c, id)') \in Nat /\ Bins(c, id)' \in Seq(Bin)
    OBVIOUS
<1>1. down'[c] \in Seq(Message)
    BY DEF Types, ChannelTypes
<1>2. Bins(c, id)' \in Seq(Bin)
    <2>1. id \in DOMAIN downloads'[c] => downloads'[c][id] \in Seq(Bin)
        BY DEF Types, ClientTypes
    <2>2. <<>> \in Seq(Bin)
        OBVIOUS
    <2> QED
        BY <2>1, <2>2 DEF Bins
<1>3. Len(Bins(c, id)') \in Nat
    BY <1>2
<1>4. Chunks(down'[c], id) \in Nat
    BY <1>1, ChunksType
<1> QED
    BY <1>2, <1>3, <1>4 DEF Got

\* Nothing of a fresh id is anywhere.
LEMMA FreshGot ==
    ASSUME Sound, NEW c \in Client
    PROVE  /\ Got(c, nextId[c]) = 0 /\ ~Serves(c, nextId[c]) /\ Chunks(up[c], nextId[c]) = 0
           /\ \A k \in 1 .. Len(up[c]) : up[c][k].id # nextId[c]
<1> DEFINE id == nextId[c]
<1>1. Fresh /\ id \in Nat /\ up[c] \in Seq(Message) /\ down[c] \in Seq(Message)
    BY SoundTypes
<1>2. /\ \A k \in 1 .. Len(up[c]) : up[c][k].id \in Nat /\ up[c][k].id < id
      /\ \A k \in 1 .. Len(down[c]) : down[c][k].id \in Nat /\ down[c][k].id < id
    BY <1>1, MessageFields DEF Fresh
<1>3. ChunkSet(up[c], id) = {} /\ ChunkSet(down[c], id) = {}
    BY <1>1, <1>2 DEF ChunkSet
<1>4. Chunks(up[c], id) = 0 /\ Chunks(down[c], id) = 0
    BY <1>3, FS_EmptySet DEF Chunks
<1>5. id \notin DOMAIN downloads[c]
    BY <1>1 DEF Fresh
<1>6. Len(Bins(c, id)) = 0
    BY <1>5 DEF Bins
<1>7. ~Serves(c, id)
    <2>1. serving[c] # <<>> => serving[c].id < id /\ serving[c].id \in Nat
        BY <1>1, MessageFields, SoundTypes DEF Fresh, Types, HostTypes, Download, Record
    <2> QED
        BY <1>1, <2>1 DEF Serves
<1>8. \A k \in 1 .. Len(up[c]) : up[c][k].id # id
    BY <1>1, <1>2
<1> QED
    BY <1>4, <1>6, <1>7, <1>8 DEF Got

\* Less of a download still fits, and so does a new request.
LEMMA FetchingStays ==
    ASSUME Sound, Sound', Fetching, serving' = serving,
           \A c \in Client : \A id \in Nat : Got(c, id)' <= Got(c, id),
           \A c \in Client :
              \/ up'[c] = up[c] \/ up'[c] = <<>>
              \/ \E m \in Message : /\ up'[c] = Append(up[c], m)
                                    /\ m.t = "download" => m.arg[2] <= Size /\ m.id = nextId[c]
    PROVE  Fetching'
<1> SUFFICES ASSUME NEW c \in Client, NEW id \in Nat
             PROVE  Fetches(c, id)'
    BY DEF Fetching
<1>1. /\ Got(c, id) \in Nat /\ Got(c, id)' \in Nat /\ Size \in Nat /\ up[c] \in Seq(Message)
      /\ Got(c, id)' <= Got(c, id) /\ Fetches(c, id)
    BY SoundTypes, GotNat DEF Sound, CallsInv, FileInv, Fetching
<1>2. Got(c, id)' <= Size /\ (Got(c, id) = 0 => Got(c, id)' = 0)
    BY <1>1 DEF Fetches
<1>3. Serves(c, id)' = Serves(c, id)
    BY DEF Serves
<1>4. Serves(c, id)' => serving'[c].arg[2] + Got(c, id)' <= Size
    <2> SUFFICES ASSUME Serves(c, id) PROVE serving[c].arg[2] + Got(c, id)' <= Size
        BY <1>3
    <2>1. serving[c].arg[2] \in Nat
        BY SoundTypes DEF Serves, Types, HostTypes, Download, Record
    <2>2. serving[c].arg[2] + Got(c, id) <= Size
        BY <1>1 DEF Fetches
    <2> QED
        BY <1>1, <2>1, <2>2
<1>5. ASSUME NEW k \in Nat, Asks(c, id, k)'
      PROVE  /\ up'[c][k].arg[2] <= Size /\ Got(c, id) = 0 /\ ~Serves(c, id)
             /\ \A j \in Nat : Asks(c, id, j)' => j = k
    <2>1. CASE up'[c] = up[c]
        <3>1. \A j \in Nat : Asks(c, id, j)' <=> Asks(c, id, j)
            BY <2>1 DEF Asks
        <3> QED
            BY <1>1, <1>5, <2>1, <3>1 DEF Fetches
    <2>2. CASE up'[c] = <<>>
        BY <1>5, <2>2 DEF Asks
    <2>3. ASSUME NEW m \in Message, up'[c] = Append(up[c], m),
                 m.t = "download" => m.arg[2] <= Size /\ m.id = nextId[c]
          PROVE  /\ up'[c][k].arg[2] <= Size /\ Got(c, id) = 0 /\ ~Serves(c, id)
                 /\ \A j \in Nat : Asks(c, id, j)' => j = k
        <3>1. /\ Len(up'[c]) = Len(up[c]) + 1 /\ Len(up[c]) \in Nat /\ up'[c][Len(up[c]) + 1] = m
              /\ \A j \in 1 .. Len(up[c]) : up'[c][j] = up[c][j]
            BY <1>1, <2>3
        <3>2. \A j \in Nat : Asks(c, id, j)' <=>
                 Asks(c, id, j) \/ (j = Len(up[c]) + 1 /\ m.t = "download" /\ m.id = id)
            BY <3>1 DEF Asks
        <3>3. CASE m.t = "download" /\ m.id = id
            <4>1. id = nextId[c] /\ m.arg[2] <= Size
                BY <2>3, <3>3
            <4>2. Got(c, id) = 0 /\ ~Serves(c, id) /\ \A j \in Nat : ~Asks(c, id, j)
                BY <4>1, FreshGot DEF Asks
            <4>3. k = Len(up[c]) + 1 /\ \A j \in Nat : Asks(c, id, j)' => j = k
                BY <1>5, <3>2, <4>2
            <4> QED
                BY <3>1, <4>1, <4>2, <4>3
        <3>4. CASE ~(m.t = "download" /\ m.id = id)
            <4>1. \A j \in Nat : Asks(c, id, j)' <=> Asks(c, id, j)
                BY <3>2, <3>4
            <4>2. Asks(c, id, k) /\ up'[c][k] = up[c][k]
                BY <1>5, <3>1, <4>1 DEF Asks
            <4> QED
                BY <1>1, <4>1, <4>2 DEF Fetches
        <3> QED
            BY <3>3, <3>4
    <2>4. \/ up'[c] = up[c] \/ up'[c] = <<>>
          \/ \E m \in Message : /\ up'[c] = Append(up[c], m)
                                /\ m.t = "download" => m.arg[2] <= Size /\ m.id = nextId[c]
        OBVIOUS
    <2> QED
        BY <2>1, <2>2, <2>3, <2>4
<1> QED
    BY <1>2, <1>3, <1>4, <1>5 DEF Fetches

(* The threads. *)

\* One more chunk to be sent of a call, or one less.
LEMMA OwingIs ==
    ASSUME NEW c \in Client, NEW id
    PROVE  /\ \A y \in Owing(c, id) : y = 0 \/ \E u \in Thread : /\ th[u].pc \in {"ready", "chunks"} /\ u[1] = c
                                                                 /\ th[u].id = id /\ y = Len(th[u].buf) - th[u].off
           /\ \A u \in Thread : th[u].pc \in {"ready", "chunks"} /\ u[1] = c /\ th[u].id = id =>
                 Len(th[u].buf) - th[u].off \in Owing(c, id)
           /\ 0 \in Owing(c, id)
           /\ \A y \in Owing(c, id)' : y = 0 \/ \E u \in Thread : /\ th'[u].pc \in {"ready", "chunks"} /\ u[1] = c
                                                                  /\ th'[u].id = id /\ y = Len(th'[u].buf) - th'[u].off
BY DEF Owing, Unsent

\* Nobody has to send for a call of which the host has something, but its thread.
LEMMA NobodyOwes ==
    ASSUME Sound, NEW c \in Client
    PROVE  Stored(nextId[c]) \subseteq {0} \/ \E d \in Client : nextId[c] \in Numbers(d)
<1>1. \A u \in uploads : u.id = nextId[c] => \E d \in Client : nextId[c] \in Numbers(d)
    BY SoundTypes DEF Numbered
<1> QED
    BY <1>1 DEF Stored

LEMMA AskSized ==
    ASSUME Sound, Sound', Sizes, NEW t \in Thread, NEW call \in CallState,
           NEW pc \in {"attr", "simple", "file", "ready"}, NEW kind, NEW arg, Ask(t, call, pc, kind, arg),
           \/ kind \in PlainKind /\ arg = <<>>
           \/ kind = "download" /\ arg \in Nat \X Nat /\ arg[2] <= Size,
           th[t].pc \in {"idle", "upload"}, CallSmall(th'[t]),
           UNCHANGED <<nextFh, fhs, down, downloads, file, uploads, serving>>,
           calls <= calls', pc = "attr" => calls' = calls + 1
    PROVE  Sizes'
<1> DEFINE c == t[1]
           id == nextId[c]
           m == Msg(t, kind, id, call.path, arg)
<1>1. c \in Client /\ id \in Nat /\ up[c] \in Seq(Message) /\ Types /\ Types' /\ FirstId[c] \in Nat /\ FirstId[c] <= id
    BY ClientOf, SoundTypes DEF Sound, CallsInv, FileInv
<1>2. m \in Message /\ m.id = id /\ m.t = kind /\ m.arg = arg
    BY <1>1, Messages DEF Msg, CallState
<1>3. /\ th'[t] = [call EXCEPT !.pc = pc, !.id = id] /\ th'[t] \in CallState
      /\ \A u \in Thread : u # t => th'[u] = th[u]
      /\ up' = [up EXCEPT ![c] = Append(@, m)]
      /\ nextId' = [nextId EXCEPT ![c] = id + 1]
    <2>1. pc \in Working
        BY DEF Working
    <2>2. /\ th'[t] = [call EXCEPT !.pc = pc, !.id = id] /\ th'[t] \in CallState
          /\ \A u \in Thread : u # t => th'[u] = th[u]
        BY <1>1, <2>1, AskType
    <2>3. /\ up' = [up EXCEPT ![c] = Append(@, m)]
          /\ nextId' = [nextId EXCEPT ![c] = id + 1]
        BY DEF Ask, Send, NewId
    <2> QED
        BY <2>2, <2>3
<1>4. th'[t].pc = pc /\ th'[t].id = id
    BY <1>3 DEF CallState
<1>5. up'[c] = Append(up[c], m) /\ \A d \in Client : d # c => up'[d] = up[d]
    BY <1>1, <1>3 DEF Types, ChannelTypes
<1>6. nextId'[c] = id + 1 /\ \A d \in Client : d # c => nextId'[d] = nextId[d]
    BY <1>1, <1>3 DEF Types, ClientTypes
<1> HIDE DEF m
<1>7. FileSmall' /\ BuffersSmall'
    BY DEF Sizes, FileSmall, BuffersSmall
<1>8. CallsSmall'
    BY <1>3 DEF Sizes, CallsSmall, CallSmall
<1>9. Fetching'
    <2>1. \A d \in Client : \A i \in Nat : Got(d, i)' <= Got(d, i)
        <3> SUFFICES ASSUME NEW d \in Client, NEW i \in Nat PROVE Got(d, i)' <= Got(d, i)
            OBVIOUS
        <3>1. Got(d, i)' = Got(d, i)
            BY DEF Got, Bins
        <3> QED
            BY <3>1, SoundTypes
    <2>2. m.t = "download" => m.arg[2] <= Size
        BY <1>2 DEF PlainKind
    <2> QED
        BY <1>2, <1>5, <2>1, <2>2, FetchingStays DEF Sizes
<1>10. Opened'
    <2>1. CASE pc # "attr"
        <3>1. \A d \in Client : Opening(d)' \subseteq Opening(d)
            BY <1>3, <1>4, <2>1 DEF Opening
        <3> QED
            BY <3>1, OpenedStays DEF Sizes
    <2>2. CASE pc = "attr"
        <3>1. t \notin Opening(c) /\ Opening(c)' = Opening(c) \cup {t}
            BY <1>3, <1>4, <2>2 DEF Opening
        <3>2. \A d \in Client : d # c => Opening(d)' = Opening(d)
            BY <1>3 DEF Opening
        <3>3. IsFiniteSet(Opening(c)') /\ Cardinality(Opening(c)') = Cardinality(Opening(c)) + 1
            BY <1>1, <3>1, FS_AddElement DEF Sizes, Opened
        <3>4. ASSUME NEW d \in Client
              PROVE  /\ IsFiniteSet(Opening(d)') /\ nextFh'[d] >= 1
                     /\ nextFh'[d] + Cardinality(Opening(d)') <= calls' + 2
            <4>1. /\ IsFiniteSet(Opening(d)) /\ nextFh[d] >= 1 /\ nextFh[d] + Cardinality(Opening(d)) <= calls + 2
                  /\ nextFh[d] \in Nat /\ Cardinality(Opening(d)) \in Nat /\ calls \in Nat
                <5>1. calls \in Nat
                    BY SoundTypes
                <5> QED
                    BY <5>1, SoundTypes, FS_CardinalityType DEF Sizes, Opened
            <4>2. calls' = calls + 1 /\ nextFh'[d] = nextFh[d]
                BY <2>2
            <4>3. CASE d = c
                BY <3>3, <4>1, <4>2, <4>3
            <4>4. CASE d # c
                BY <3>2, <4>1, <4>2, <4>4
            <4> QED
                BY <4>3, <4>4
        <3> QED
            BY <3>4 DEF Opened
    <2> QED
        BY <2>1, <2>2
<1>11. Sending'
    <2> SUFFICES ASSUME NEW d \in Client, NEW i \in Numbers(d)', NEW x \in Stored(i)', NEW y \in Owing(d, i)'
                 PROVE  x + Chunks(up'[d], i) + y <= Size
        BY DEF Sending
    <2>1. x \in Stored(i)
        BY DEF Stored
    <2>2. Chunks(up'[d], i) = Chunks(up[d], i)
        <3>1. m.t # "bin"
            BY <1>2 DEF PlainKind
        <3>2. Chunks(Append(up[c], m), i) = Chunks(up[c], i)
            BY <1>1, <1>2, <3>1, ChunksAppended DEF IsChunk
        <3> QED
            BY <1>5, <3>2
    <2>3. CASE d = c /\ i = id
        <3>1. Chunks(up[d], i) = 0
            BY <1>1, <2>3, FreshGot
        <3>2. x = 0
            <4>1. id \notin Numbers(c)
                BY <1>1 DEF Numbers
            <4>2. \A e \in Client : e # c => id \notin Numbers(e)
                <5> SUFFICES ASSUME NEW e \in Client, e # c, id \in Numbers(e) PROVE FALSE
                    OBVIOUS
                <5>1. id \in Numbers(e)' /\ id \in Numbers(c)'
                    BY <1>1, <1>6 DEF Numbers
                <5>2. Apart'
                    BY DEF Sound
                <5> QED
                    BY <1>1, <5>1, <5>2 DEF Apart
            <4> QED
                BY <1>1, <2>1, <2>3, <4>1, <4>2, NobodyOwes
        <3>3. y <= Size /\ y \in Int
            <4>1. CASE y = 0
                BY <4>1, SoundTypes
            <4>2. ASSUME NEW u \in Thread, th'[u].pc \in {"ready", "chunks"}, u[1] = d, th'[u].id = i,
                         y = Len(th'[u].buf) - th'[u].off
                  PROVE  y <= Size /\ y \in Int
                <5>1. Single'
                    BY DEF Sound, SavedInv
                <5>2. u = t
                    BY <1>4, <2>3, <4>2, <5>1 DEF Single, Working
                <5>3. Len(th'[t].buf) <= Size /\ th'[t].off \in Nat /\ Len(th'[t].buf) \in Nat /\ Size \in Nat
                    BY <1>3, SoundTypes DEF CallSmall, CallState
                <5> QED
                    BY <4>2, <5>2, <5>3
            <4> QED
                BY <4>1, <4>2, OwingIs
        <3> QED
            BY <2>2, <3>1, <3>2, <3>3
    <2>4. CASE d # c \/ i # id
        <3>1. i \in Numbers(d)
            BY <1>1, <1>6, <2>4, SoundTypes DEF Numbers
        <3>2. y \in Owing(d, i)
            <4>1. CASE y = 0
                BY <4>1, OwingIs
            <4>2. ASSUME NEW u \in Thread, th'[u].pc \in {"ready", "chunks"}, u[1] = d, th'[u].id = i,
                         y = Len(th'[u].buf) - th'[u].off
                  PROVE  y \in Owing(d, i)
                <5>1. u # t
                    BY <1>4, <2>4, <4>2
                <5>2. th'[u] = th[u]
                    BY <1>3, <5>1
                <5> QED
                    BY <4>2, <5>2, OwingIs
            <4> QED
                BY <4>1, <4>2, OwingIs
        <3>3. x + Chunks(up[d], i) + y <= Size
            BY <2>1, <3>1, <3>2 DEF Sizes, Sending
        <3> QED
            BY <2>2, <3>3
    <2> QED
        BY <2>3, <2>4
<1> QED
    BY <1>7, <1>8, <1>9, <1>10, <1>11 DEF Sizes

LEMMA PutSmall ==
    ASSUME NEW data \in Seq(Cell), Len(data) <= Size, NEW off \in Nat, off < Size, NEW val \in Cell
    PROVE  Put(data, off, val) \in Seq(Cell) /\ Len(Put(data, off, val)) <= Size
<1> DEFINE n == IF off < Len(data) THEN Len(data) ELSE off + 1
<1>1. n \in Nat /\ n <= Size
    BY WebFilesAssumption
<1>2. Put(data, off, val) = [i \in 1 .. n |-> IF i = off + 1 THEN val ELSE IF i <= Len(data) THEN data[i] ELSE 0]
    BY DEF Put
<1>3. Put(data, off, val) \in Seq(Cell)
    BY PutType
<1> HIDE DEF n
<1>4. DOMAIN Put(data, off, val) = 1 .. n
    BY <1>2
<1>5. Len(Put(data, off, val)) = n
    BY <1>1, <1>3, <1>4
<1> QED
    BY <1>1, <1>3, <1>5

LEMMA ResizedSmall ==
    ASSUME NEW data \in Seq(Cell), NEW n \in Nat, n <= Size
    PROVE  Len(Resized(data, n)) <= Size
<1>1. Resized(data, n) = [i \in 1 .. n |-> IF i <= Len(data) THEN data[i] ELSE 0]
    BY DEF Resized
<1>2. Resized(data, n) \in Seq(Cell) /\ DOMAIN Resized(data, n) = 1 .. n
    BY <1>1, ResizedType
<1>3. Len(Resized(data, n)) = n
    BY <1>2
<1> QED
    BY <1>3

LEMMA HandleSized ==
    ASSUME Types, BuffersSmall, NEW c \in Client, NEW h, NEW f,
           f \in FhState => Len(f.data) <= Size,
           fhs' = [fhs EXCEPT ![c][h] = f]
    PROVE  BuffersSmall'
<1>1. fhs \in [Client -> [Handle -> FhState \cup {NoFh}]]
    BY DEF Types, ClientTypes
<1>2. \A d \in Client, g \in Handle : fhs'[d][g] = IF d = c /\ g = h THEN f ELSE fhs[d][g]
    BY <1>1
<1>3. ASSUME NEW d \in Client, NEW g \in Handle, fhs'[d][g] \in FhState
      PROVE  Len(fhs'[d][g].data) <= Size
    <2>1. CASE d = c /\ g = h
        BY <1>2, <1>3, <2>1
    <2>2. CASE ~(d = c /\ g = h)
        BY <1>2, <1>3, <2>2 DEF BuffersSmall
    <2> QED
        BY <2>1, <2>2
<1> QED
    BY <1>3 DEF BuffersSmall

LEMMA WrittenSmall ==
    ASSUME NEW f \in FhState, Len(f.data) <= Size, NEW off \in Nat, off < Size, NEW val \in Cell
    PROVE  Len(Written(f, off, val).data) <= Size
<1>1. f.data \in Seq(Cell)
    BY DEF FhState
<1>2. Len(Put(f.data, off, val)) <= Size
    BY <1>1, PutSmall
<1>3. Written(f, off, val).data = Put(f.data, off, val)
    BY DEF Written, FhState
<1> QED
    BY <1>2, <1>3

LEMMA InstalledSmall ==
    ASSUME NEW f \in FhState, Len(f.data) <= Size, NEW data \in Seq(Cell), Len(data) <= Size
    PROVE  Len(Installed(f, data).data) <= Size
BY DEF Installed, FhState

\* A step of a thread that sends nothing.
LEMMA QuietSized ==
    ASSUME Sound, Sound', Sizes, NEW t \in Thread, UNCHANGED <<nextId, up, down, file, uploads, serving>>,
           \A u \in Thread : u # t => th'[u] = th[u],
           th'[t].pc # "idle" => CallSmall(th'[t]),
           \/ th'[t].pc \in {"idle", "upload"} \/ th'[t] = th[t]
           \/ th[t].pc = "ready" /\ th'[t] = [th[t] EXCEPT !.pc = "chunks"],
           \A c \in Client : \A i \in Nat : Len(Bins(c, i)') <= Len(Bins(c, i)),
           BuffersSmall', Opened'
    PROVE  Sizes'
<1>1. FileSmall'
    BY DEF Sizes, FileSmall
<1>2. CallsSmall'
    BY DEF Sizes, CallsSmall, CallSmall
<1>3. Fetching'
    <2>1. ASSUME NEW c \in Client, NEW i \in Nat
          PROVE  Got(c, i)' <= Got(c, i)
        <3>1. Len(Bins(c, i)') <= Len(Bins(c, i)) /\ Len(Bins(c, i)) \in Nat /\ Chunks(down[c], i) \in Nat
            BY SoundTypes
        <3>2. Len(Bins(c, i)') \in Nat
            BY GotNat DEF Sound, CallsInv, FileInv
        <3>3. Got(c, i)' = Chunks(down[c], i) + Len(Bins(c, i)')
            BY DEF Got
        <3> QED
            BY <3>1, <3>2, <3>3 DEF Got
    <2> QED
        BY <2>1, FetchingStays DEF Sizes
<1>4. Sending'
    <2>1. ASSUME NEW c \in Client, NEW i
          PROVE  Owing(c, i)' \subseteq Owing(c, i)
        <3> SUFFICES ASSUME NEW y \in Owing(c, i)' PROVE y \in Owing(c, i)
            OBVIOUS
        <3>1. CASE y = 0
            BY <3>1, OwingIs
        <3>2. ASSUME NEW u \in Thread, th'[u].pc \in {"ready", "chunks"}, u[1] = c, th'[u].id = i,
                     y = Len(th'[u].buf) - th'[u].off
              PROVE  y \in Owing(c, i)
            <4>1. CASE th'[u] = th[u]
                BY <3>2, <4>1, OwingIs
            <4>2. CASE u = t /\ th[t].pc = "ready" /\ th'[t] = [th[t] EXCEPT !.pc = "chunks"]
                <5>1. th[t] \in CallState
                    BY <4>2, CallFields, SoundTypes
                <5>2. th'[t].id = th[t].id /\ th'[t].buf = th[t].buf /\ th'[t].off = th[t].off
                    BY <4>2, <5>1 DEF CallState
                <5> QED
                    BY <3>2, <4>2, <5>2, OwingIs
            <4> QED
                BY <3>2, <4>1, <4>2
        <3> QED
            BY <3>1, <3>2, OwingIs
    <2>2. \A i : Stored(i)' \subseteq Stored(i)
        BY DEF Stored
    <2>3. \A c \in Client : \A i : Chunks(up[c], i)' <= Chunks(up[c], i)
        <3> SUFFICES ASSUME NEW c \in Client, NEW i PROVE Chunks(up[c], i)' <= Chunks(up[c], i)
            OBVIOUS
        <3>1. Chunks(up[c], i)' = Chunks(up[c], i)
            BY DEF Chunks, ChunkSet
        <3>2. Chunks(up[c], i) \in Nat
            BY SoundTypes
        <3> QED
            BY <3>1, <3>2
    <2> QED
        BY <2>1, <2>2, <2>3, SendingStays DEF Sizes
<1> QED
    BY <1>1, <1>2, <1>3, <1>4 DEF Sizes

LEMMA OpenedGrows ==
    ASSUME Sound, Sound', Opened, NEW t \in Thread, NEW path, NEW empty, NewHandle(t[1], path, empty),
           \A u \in Thread : u # t => th'[u] = th[u],
           \/ th'[t] = th[t] /\ calls' = calls + 1
           \/ th[t].pc = "attr" /\ th'[t].pc # "attr" /\ calls' = calls
    PROVE  Opened'
<1> DEFINE c == t[1]
<1>1. c \in Client /\ nextFh \in [Client -> Nat] /\ calls \in Nat
    BY ClientOf, SoundTypes DEF Types, ClientTypes
<1>2. nextFh'[c] = nextFh[c] + 1 /\ \A d \in Client : d # c => nextFh'[d] = nextFh[d]
    BY <1>1 DEF NewHandle
<1>3. ASSUME NEW d \in Client
      PROVE  /\ IsFiniteSet(Opening(d)') /\ nextFh'[d] >= 1
             /\ nextFh'[d] + Cardinality(Opening(d)') <= calls' + 2
    <2>1. /\ IsFiniteSet(Opening(d)) /\ nextFh[d] >= 1 /\ nextFh[d] + Cardinality(Opening(d)) <= calls + 2
          /\ nextFh[d] \in Nat /\ Cardinality(Opening(d)) \in Nat
        BY <1>1, FS_CardinalityType DEF Opened
    <2>2. CASE th'[t] = th[t] /\ calls' = calls + 1
        <3>1. Opening(d)' = Opening(d)
            BY <2>2 DEF Opening
        <3>2. nextFh'[d] \in Nat /\ nextFh'[d] <= nextFh[d] + 1 /\ nextFh'[d] >= 1
            BY <1>1, <1>2, <2>1
        <3> QED
            BY <1>1, <2>1, <2>2, <3>1, <3>2
    <2>3. CASE th[t].pc = "attr" /\ th'[t].pc # "attr" /\ calls' = calls
        <3>1. CASE d # c
            <4>1. Opening(d)' = Opening(d)
                BY <3>1 DEF Opening
            <4> QED
                BY <1>2, <2>1, <2>3, <3>1, <4>1
        <3>2. CASE d = c
            <4>1. Opening(d)' = Opening(d) \ {t} /\ t \in Opening(d)
                BY <2>3, <3>2 DEF Opening
            <4>2. IsFiniteSet(Opening(d)') /\ Cardinality(Opening(d)') = Cardinality(Opening(d)) - 1
                BY <2>1, <4>1, FS_RemoveElement
            <4> QED
                BY <1>1, <1>2, <2>1, <2>3, <3>2, <4>2
        <3> QED
            BY <3>1, <3>2
    <2> QED
        BY <2>2, <2>3
<1> QED
    BY <1>3 DEF Opened

\* A handle's state is no tuple without components.
LEMMA NoFhIsNone == NoFh \notin FhState
<1> SUFFICES ASSUME NoFh \in FhState PROVE FALSE
    OBVIOUS
<1>1. DOMAIN NoFh = {"path", "data", "loaded", "dirty", "wrote"}
    BY DEF FhState
<1>2. DOMAIN NoFh = {}
    BY DEF NoFh
<1> QED
    BY <1>1, <1>2

\* A call that begins with a request.
LEMMA BeginSized ==
    ASSUME Sound, Sound', Sizes, NEW t \in Thread, Begin(t), UNCHANGED handles,
           NEW op \in {"open", "read", "write", "release", "truncate", "unlink"}, NEW path \in Path, NEW h \in Nat,
           NEW off \in Nat, off <= Size, NEW pc \in {"attr", "simple", "file"},
           pc = "file" /\ op # "truncate" => off < Size, NEW kind, NEW arg,
           Ask(t, Call(op, path, h, off), pc, kind, arg),
           \/ kind \in PlainKind /\ arg = <<>>
           \/ kind = "download" /\ arg \in Nat \X Nat /\ arg[2] <= Size
    PROVE  Sizes'
<1> DEFINE call == Call(op, path, h, off)
<1>1. /\ th[t].pc = "idle" /\ calls < MaxCalls /\ calls' = calls + 1 /\ t[1] \in Client /\ calls \in Nat
      /\ UNCHANGED <<down, downloads, file, uploads, serving, nextFh, fhs>>
    BY ClientOf, SoundTypes DEF Begin, host, handles
<1>2. call \in CallState /\ call.buf = <<>> /\ call.off = off /\ call.op = op
    <2>1. call \in CallState
        BY <1>1, SoundTypes, CallType
    <2> QED
        BY <2>1 DEF Call
<1> HIDE DEF call
<1>3. CallSmall(th'[t])
    <2>1. th'[t] = [call EXCEPT !.pc = pc, !.id = nextId[t[1]]]
        BY <1>1, <1>2, SoundTypes DEF Ask, Goes, Types, ClientTypes, call
    <2>2. th'[t].buf = <<>> /\ th'[t].off = off /\ th'[t].op = op /\ th'[t].pc = pc
        BY <1>2, <2>1 DEF CallState
    <2> QED
        BY <2>2, SoundTypes DEF CallSmall
<1>4. Ask(t, call, pc, kind, arg) /\ calls <= calls'
    BY <1>1 DEF call
<1>5. pc \in {"attr", "simple", "file", "ready"}
    OBVIOUS
<1> QED
    BY <1>1, <1>2, <1>3, <1>4, <1>5, AskSized

LEMMA OpenSized ==
    ASSUME Sound, Sound', Sizes, NEW t \in Thread, NEW p \in Path, NEW trunc \in BOOLEAN, NEW create \in BOOLEAN,
           Open(t, p, trunc, create)
    PROVE  Sizes'
<1>1. CASE Ask(t, Call("open", p, 0, 0), "attr", "list", <<>>) /\ UNCHANGED handles
    <2>1. 0 <= Size
        BY SoundTypes
    <2>2. Begin(t)
        BY DEF Open
    <2>3. "list" \in PlainKind
        BY DEF PlainKind
    <2> QED
        BY <1>1, <2>1, <2>2, <2>3, BeginSized
<1>2. CASE NewHandle(t[1], p, trunc) /\ UNCHANGED <<th, up, nextId>>
    <2>1. calls' = calls + 1 /\ t[1] \in Client /\ UNCHANGED <<down, downloads, file, uploads, serving>>
        BY ClientOf DEF Open, Begin, host
    <2>2. Opened'
        BY <1>2, <2>1, OpenedGrows DEF Sizes
    <2>3. BuffersSmall'
        <3>1. Fh(p, trunc).data = <<>> /\ Len(<<>>) <= Size
            BY SoundTypes DEF Fh
        <3> QED
            BY <1>2, <2>1, <3>1, HandleSized, SoundTypes DEF NewHandle, Sizes
    <2>4. ASSUME NEW c \in Client, NEW i \in Nat
          PROVE  Len(Bins(c, i)') <= Len(Bins(c, i))
        <3>1. Bins(c, i)' = Bins(c, i)
            BY <2>1 DEF Bins
        <3>2. Len(Bins(c, i)) \in Nat
            BY SoundTypes
        <3> QED
            BY <3>1, <3>2
    <2>5. th'[t].pc # "idle" => CallSmall(th'[t])
        BY <1>2 DEF Sizes, CallsSmall
    <2> QED
        BY <1>2, <2>1, <2>2, <2>3, <2>4, <2>5, QuietSized
<1> QED
    BY <1>1, <1>2 DEF Open

LEMMA LoadsSized ==
    ASSUME Sound, Sound', Sizes, NEW t \in Thread, NEW op \in {"read", "write"}, NEW h \in Handle,
           NEW off \in 0 .. Size - 1, Loads(t, op, h, off)
    PROVE  Sizes'
<1>1. t[1] \in Client /\ Types /\ Size \in Nat
    BY ClientOf, SoundTypes
<1>2. fhs[t[1]][h].path \in Path
    BY <1>1, HandleState DEF Loads, FhState
<1>3. off \in Nat /\ h \in Nat /\ off <= Size /\ off < Size
    BY <1>1, HandleNat
<1>4. \A r \in {Range1(off), Whole} : r \in Nat \X Nat /\ r[2] <= Size
    BY <1>1, <1>3 DEF Range1, Whole
<1>5. PICK arg \in {Range1(off), Whole} : Ask(t, Call(op, fhs[t[1]][h].path, h, off), "file", "download", arg)
    BY DEF Loads
<1>6. Begin(t) /\ UNCHANGED handles /\ arg \in Nat \X Nat /\ arg[2] <= Size
    BY <1>4, <1>5 DEF Loads
<1>7. op \in {"open", "read", "write", "release", "truncate", "unlink"}
    OBVIOUS
<1> QED
    BY <1>2, <1>3, <1>5, <1>6, <1>7, BeginSized

LEMMA TruncateSized ==
    ASSUME Sound, Sound', Sizes, NEW t \in Thread, NEW p \in Path, NEW n \in 0 .. Size, Truncate(t, p, n)
    PROVE  Sizes'
<1>1. n \in Nat /\ n <= Size /\ Whole \in Nat \X Nat /\ Whole[2] <= Size
    BY SoundTypes DEF Whole
<1>2. Begin(t) /\ Ask(t, Call("truncate", p, 0, n), "file", "download", Whole) /\ UNCHANGED handles
    BY DEF Truncate
<1> QED
    BY <1>1, <1>2, BeginSized

LEMMA UnlinkSized ==
    ASSUME Sound, Sound', Sizes, NEW t \in Thread, NEW p \in Path, Unlink(t, p)
    PROVE  Sizes'
<1>1. 0 <= Size /\ "delete" \in PlainKind
    BY SoundTypes DEF PlainKind
<1>2. Begin(t) /\ Ask(t, Call("unlink", p, 0, 0), "simple", "delete", <<>>) /\ UNCHANGED handles
    BY DEF Unlink
<1> QED
    BY <1>1, <1>2, BeginSized

LEMMA SameBins ==
    ASSUME Sound, UNCHANGED downloads
    PROVE  \A c \in Client : \A i \in Nat : Len(Bins(c, i)') <= Len(Bins(c, i))
<1> SUFFICES ASSUME NEW c \in Client, NEW i \in Nat PROVE Len(Bins(c, i)') <= Len(Bins(c, i))
    OBVIOUS
<1>1. Bins(c, i)' = Bins(c, i)
    BY DEF Bins
<1>2. Len(Bins(c, i)) \in Nat
    BY SoundTypes
<1> QED
    BY <1>1, <1>2

LEMMA WriteLoadedSized ==
    ASSUME Sound, Sound', Sizes, NEW t \in Thread, NEW h \in Handle, NEW off \in 0 .. Size - 1, WriteLoaded(t, h, off)
    PROVE  Sizes'
<1>1. /\ calls < MaxCalls /\ calls' = calls + 1 /\ t[1] \in Client /\ calls \in Nat /\ Types
      /\ UNCHANGED <<nextId, nextFh, up, down, downloads, file, uploads, serving, th>>
    BY ClientOf, SoundTypes DEF WriteLoaded, Begin, host
<1>2. off \in Nat /\ off < Size /\ calls + 1 \in Cell
    BY <1>1, SoundTypes DEF Cell
<1> DEFINE f == fhs[t[1]][h]
<1>3. f \in FhState /\ Len(f.data) <= Size
    BY <1>1, HandleState DEF WriteLoaded, Sizes, BuffersSmall
<1>4. fhs' = [fhs EXCEPT ![t[1]][h] = Written(f, off, calls + 1)]
    BY DEF WriteLoaded
<1> HIDE DEF f
<1>5. BuffersSmall'
    BY <1>1, <1>2, <1>3, <1>4, WrittenSmall, HandleSized DEF Sizes
<1>6. Opened'
    <2>1. \A c \in Client : Opening(c)' \subseteq Opening(c)
        BY <1>1 DEF Opening
    <2> QED
        BY <1>1, <2>1, OpenedStays DEF Sizes
<1>7. th'[t].pc # "idle" => CallSmall(th'[t])
    BY <1>1 DEF Sizes, CallsSmall
<1> QED
    BY <1>1, <1>5, <1>6, <1>7, SameBins, QuietSized

LEMMA ReleaseSized ==
    ASSUME Sound, Sound', Sizes, NEW t \in Thread, NEW h \in Handle, Release(t, h)
    PROVE  Sizes'
<1> DEFINE f == fhs[t[1]][h]
           call == [Call("release", f.path, 0, 0) EXCEPT !.buf = f.data]
<1>1. /\ calls < MaxCalls /\ calls' = calls + 1 /\ t[1] \in Client /\ calls \in Nat /\ Types /\ th[t].pc = "idle"
      /\ UNCHANGED <<nextId, nextFh, up, down, downloads, file, uploads, serving>>
      /\ fhs' = [fhs EXCEPT ![t[1]][h] = NoFh]
      /\ Goes(t, call) \/ UNCHANGED th
    BY ClientOf, SoundTypes DEF Release, Begin, host
<1>2. f \in FhState /\ f.path \in Path /\ f.data \in Seq(Cell) /\ Len(f.data) <= Size
    <2>1. f \in FhState
        BY <1>1, HandleState DEF Release
    <2>2. Len(f.data) <= Size
        BY <1>1, <2>1 DEF Sizes, BuffersSmall
    <2> QED
        BY <2>1, <2>2 DEF FhState
<1>3. call \in CallState /\ call.pc = "upload" /\ call.buf = f.data /\ call.off = 0
    <2>1. Call("release", f.path, 0, 0) \in CallState /\ call \in CallState
        BY <1>1, <1>2, CallType
    <2> QED
        BY <2>1 DEF Call, CallState
<1>4. CallSmall(call)
    BY <1>2, <1>3, SoundTypes DEF CallSmall
<1> HIDE DEF call, f
<1>5. /\ \A u \in Thread : u # t => th'[u] = th[u]
      /\ th'[t].pc \in {"idle", "upload"} \/ th'[t] = th[t]
      /\ th'[t].pc # "idle" => CallSmall(th'[t])
    <2>1. CASE Goes(t, call)
        <3>1. th'[t] = call /\ \A u \in Thread : u # t => th'[u] = th[u]
            BY <1>1, <1>3, <2>1, GoesType
        <3> QED
            BY <1>3, <1>4, <3>1
    <2>2. CASE UNCHANGED th
        BY <1>1, <2>2 DEF Sizes, CallsSmall
    <2> QED
        BY <1>1, <2>1, <2>2
<1>6. BuffersSmall'
    BY <1>1, NoFhIsNone, HandleSized DEF Sizes
<1>7. Opened'
    <2>1. \A c \in Client : Opening(c)' \subseteq Opening(c)
        <3>1. th'[t].pc # "attr"
            BY <1>1, <1>5
        <3> QED
            BY <1>5, <3>1 DEF Opening
    <2> QED
        BY <1>1, <2>1, OpenedStays DEF Sizes
<1> QED
    BY <1>1, <1>5, <1>6, <1>7, SameBins, QuietSized

LEMMA FailsSized ==
    ASSUME Sound, Sound', Sizes, NEW t \in Thread, Fails(t),
           UNCHANGED <<handles, calls, down, downloads, file, uploads, serving>>
    PROVE  Sizes'
<1>1. /\ Types /\ calls \in Nat /\ UNCHANGED <<up, nextId, fhs, nextFh>>
      /\ th'[t] = Idle /\ \A u \in Thread : u # t => th'[u] = th[u]
    BY SoundTypes, ReturnsType DEF Fails, handles
<1>2. th'[t].pc = "idle"
    BY <1>1 DEF Idle
<1>3. BuffersSmall'
    BY <1>1 DEF Sizes, BuffersSmall
<1>4. Opened'
    <2>1. \A c \in Client : Opening(c)' \subseteq Opening(c)
        BY <1>1, <1>2 DEF Opening
    <2>2. calls <= calls'
        BY <1>1
    <2> QED
        BY <1>1, <2>1, <2>2, OpenedStays DEF Sizes
<1> QED
    BY <1>1, <1>2, <1>3, <1>4, SameBins, QuietSized

LEMMA UploadStartSized ==
    ASSUME Sound, Sound', Sizes, NEW t \in Thread, UploadStart(t)
    PROVE  Sizes'
<1>1. /\ th[t].pc = "upload" /\ Types /\ calls \in Nat
      /\ UNCHANGED <<nextFh, fhs, calls, down, downloads, file, uploads, serving>>
    BY SoundTypes DEF UploadStart, Uploads, handles, host
<1>2. CASE Fails(t)
    BY <1>1, <1>2, FailsSized DEF handles
<1>3. CASE Ask(t, th[t], "ready", "uploadStart", <<>>)
    <2>1. th[t] \in CallState /\ CallSmall(th[t])
        BY <1>1, CallFields DEF Sizes, CallsSmall
    <2>2. th'[t] = [th[t] EXCEPT !.pc = "ready", !.id = nextId[t[1]]]
        BY <1>1, <1>3, <2>1 DEF Ask, Goes, Types, ClientTypes
    <2>3. th'[t].buf = th[t].buf /\ th'[t].off = th[t].off /\ th'[t].pc = "ready"
        BY <2>1, <2>2 DEF CallState
    <2>4. CallSmall(th'[t])
        BY <2>1, <2>3 DEF CallSmall
    <2>5. "uploadStart" \in PlainKind /\ calls <= calls'
        BY <1>1 DEF PlainKind
    <2> QED
        BY <1>1, <1>3, <2>1, <2>4, <2>5, AskSized
<1> QED
    BY <1>2, <1>3 DEF UploadStart

LEMMA ContinueSized ==
    ASSUME Sound, Sound', Sizes, NEW t \in Thread, WaitEnds(t), NEW r, Continue(t, r),
           \A c \in Client : \A i \in Nat : Len(Bins(c, i)') <= Len(Bins(c, i))
    PROVE  Sizes'
<1>1. /\ Types /\ calls \in Nat /\ t[1] \in Client /\ Waits(t) /\ FileInv
      /\ UNCHANGED <<nextId, calls, up, down, file, uploads, serving>>
    BY ClientOf, SoundTypes DEF WaitEnds, chan, host, Sound, SavedInv
<1> DEFINE call == th[t]
<1>2. call \in CallState /\ call.path \in Path /\ call.off \in Nat /\ call.buf \in Seq(Cell) /\ call.id \in Nat
      /\ call.val \in Cell /\ CallSmall(call)
    BY <1>1, CallFields DEF Waits, Sizes, CallsSmall
<1>3. /\ \A u \in Thread : u # t => th'[u] = th[u]
      /\ \/ th'[t] = Idle
         \/ th'[t].pc = "upload"
         \/ th[t].pc = "ready" /\ th'[t] = [th[t] EXCEPT !.pc = "chunks"]
    BY <1>1, ContinueType
<1>4. th'[t].pc # "attr"
    BY <1>2, <1>3 DEF Idle, CallState
<1>5. UNCHANGED handles => BuffersSmall'
    BY DEF Sizes, BuffersSmall, handles
<1>6. UNCHANGED nextFh => Opened'
    <2>1. \A c \in Client : Opening(c)' \subseteq Opening(c)
        BY <1>3, <1>4 DEF Opening
    <2>2. calls <= calls'
        BY <1>1
    <2> QED
        BY <1>1, <2>1, <2>2, OpenedStays DEF Sizes
<1>7. /\ th'[t].pc # "idle" => CallSmall(th'[t])
      /\ BuffersSmall' /\ Opened'
    <2>1. CASE /\ th[t].pc = "attr"
               /\ NewHandle(t[1], th[t].path, r.t = "listResult" /\ th[t].path \notin r.arg)
               /\ Returns(t)
        <3> DEFINE empty == r.t = "listResult" /\ th[t].path \notin r.arg
        <3>1. Fh(th[t].path, empty).data = <<>> /\ Len(<<>>) <= Size
            BY SoundTypes DEF Fh
        <3>2. fhs' = [fhs EXCEPT ![t[1]][nextFh[t[1]]] = Fh(th[t].path, empty)]
            BY <2>1 DEF NewHandle
        <3> HIDE DEF empty
        <3>3. BuffersSmall'
            BY <1>1, <3>1, <3>2, HandleSized DEF Sizes
        <3>4. th'[t].pc = "idle"
            BY <1>1, <2>1, ReturnsType DEF Idle
        <3>5. Opened'
            BY <1>1, <1>3, <1>4, <2>1, OpenedGrows DEF Sizes
        <3> QED
            BY <3>3, <3>4, <3>5
    <2>2. CASE Returns(t) /\ UNCHANGED handles
        BY <1>1, <1>5, <1>6, <2>2, ReturnsType DEF Idle, handles
    <2>3. CASE th[t].pc = "ready" /\ Goes(t, [th[t] EXCEPT !.pc = "chunks"]) /\ UNCHANGED handles
        <3>1. th'[t] = [th[t] EXCEPT !.pc = "chunks"]
            BY <1>1, <2>3 DEF Goes, Types, ClientTypes
        <3>2. th'[t].buf = th[t].buf /\ th'[t].off = th[t].off /\ th'[t].pc = "chunks"
            BY <1>2, <3>1 DEF CallState
        <3>3. CallSmall(th'[t])
            BY <1>2, <3>2 DEF CallSmall
        <3> QED
            BY <1>5, <1>6, <2>3, <3>3 DEF handles
    <2>4. CASE th[t].pc = "file" /\ GotFile(t, Fetched(t))
        <3> DEFINE data == Fetched(t)
        <3>1. data \in Seq(Cell) /\ Len(data) <= Size
            <4>1. data \in Seq(Cell)
                BY <1>1, FetchedType
            <4>2. Bins(t[1], call.id) \in Seq(Bin)
                BY <1>1, SoundTypes
            <4>3. DOMAIN data = DOMAIN Bins(t[1], call.id)
                BY DEF Fetched
            <4>4. Len(data) = Len(Bins(t[1], call.id))
                BY <4>1, <4>2, <4>3
            <4>5. Got(t[1], call.id) <= Size
                BY <1>1, <1>2 DEF Sizes, Fetching, Fetches
            <4>6. /\ Chunks(down[t[1]], call.id) \in Nat /\ Len(Bins(t[1], call.id)) \in Nat
                  /\ Got(t[1], call.id) = Chunks(down[t[1]], call.id) + Len(Bins(t[1], call.id))
                BY <1>1, SoundTypes DEF Got
            <4> QED
                BY <4>1, <4>4, <4>5, <4>6, SoundTypes
        <3> HIDE DEF data
        <3>2. CASE /\ call.op = "truncate"
                   /\ Goes(t, [call EXCEPT !.pc = "upload", !.buf = Resized(data, call.off), !.off = 0])
                   /\ UNCHANGED handles
            <4> DEFINE next == [call EXCEPT !.pc = "upload", !.buf = Resized(data, call.off), !.off = 0]
            <4>1. Resized(data, call.off) \in Seq(Cell) /\ Len(Resized(data, call.off)) <= Size
                BY <1>2, <3>1, ResizedType, ResizedSmall DEF CallSmall
            <4>2. next.pc = "upload" /\ next.off = 0 /\ next.buf = Resized(data, call.off)
                BY <1>2 DEF CallState
            <4>3. CallSmall(next)
                BY <4>1, <4>2, SoundTypes DEF CallSmall
            <4> HIDE DEF next
            <4>4. th'[t] = next
                BY <1>1, <3>2 DEF Goes, Types, ClientTypes, next
            <4> QED
                BY <1>5, <1>6, <3>2, <4>3, <4>4 DEF handles
        <3>3. CASE /\ call.op # "truncate"
                   /\ fhs' = [fhs EXCEPT ![t[1]][call.h] =
                                IF call.op = "write" THEN Written(Installed(fhs[t[1]][call.h], data), call.off, call.val)
                                                     ELSE Installed(fhs[t[1]][call.h], data)]
                   /\ Returns(t) /\ UNCHANGED nextFh
            <4> DEFINE f == Installed(fhs[t[1]][call.h], data)
                       g == IF call.op = "write" THEN Written(f, call.off, call.val) ELSE f
            <4>1. call.h \in Handle /\ fhs[t[1]][call.h] \in FhState
                BY <1>1, <2>4, <3>3 DEF FileInv, InUse
            <4>2. Len(fhs[t[1]][call.h].data) <= Size /\ Keeps(fhs[t[1]][call.h])
                BY <1>1, <4>1 DEF Sizes, BuffersSmall, FileInv, Buffered
            <4>3. f \in FhState /\ Len(f.data) <= Size
                BY <3>1, <4>1, <4>2, InstalledType, InstalledSmall
            <4>4. call.off < Size
                BY <1>2, <2>4, <3>3 DEF CallSmall
            <4> HIDE DEF f
            <4>5. Len(Written(f, call.off, call.val).data) <= Size
                BY <1>2, <4>3, <4>4, WrittenSmall
            <4>6. Len(g.data) <= Size
                BY <4>3, <4>5
            <4>7. fhs' = [fhs EXCEPT ![t[1]][call.h] = g]
                BY <3>3 DEF f
            <4> HIDE DEF g
            <4>8. BuffersSmall'
                BY <1>1, <4>6, <4>7, HandleSized DEF Sizes
            <4>9. th'[t].pc = "idle"
                BY <1>1, <3>3, ReturnsType DEF Idle
            <4> QED
                BY <1>6, <3>3, <4>8, <4>9
        <3> QED
            BY <2>2, <2>4, <3>2, <3>3 DEF GotFile, data
    <2> QED
        BY <2>1, <2>2, <2>3, <2>4 DEF Continue
<1>8. th'[t].pc \in {"idle", "upload"} \/ (th[t].pc = "ready" /\ th'[t] = [th[t] EXCEPT !.pc = "chunks"])
    BY <1>3 DEF Idle
<1> QED
    BY <1>1, <1>3, <1>7, <1>8, QuietSized

LEMMA AnsweredSized ==
    ASSUME Sound, Sound', Sizes, NEW t \in Thread, Answered(t)
    PROVE  Sizes'
<1>1. PICK r \in ReplyTo(t) : Continue(t, r)
    BY DEF Answered
<1>2. ASSUME NEW c \in Client, NEW i \in Nat
      PROVE  Len(Bins(c, i)') <= Len(Bins(c, i))
    <2>1. Len(Bins(c, i)) \in Nat /\ DOMAIN downloads = Client
        BY SoundTypes DEF Types, ClientTypes
    <2>2. CASE downloads' = downloads
        BY <2>2, SameBins
    <2>3. CASE downloads' = [downloads EXCEPT ![t[1]] = Restrict(@, DOMAIN @ \ {th[t].id})]
        <3>1. CASE c = t[1]
            <4>1. downloads'[c] = [k \in DOMAIN downloads[c] \ {th[t].id} |-> downloads[c][k]]
                BY <2>1, <2>3, <3>1 DEF Restrict
            <4>2. Bins(c, i)' = Bins(c, i) \/ Bins(c, i)' = <<>>
                BY <4>1 DEF Bins
            <4>3. Len(<<>>) = 0
                OBVIOUS
            <4> QED
                BY <2>1, <4>2, <4>3
        <3>2. CASE c # t[1]
            <4>1. downloads'[c] = downloads[c]
                BY <2>1, <2>3, <3>2
            <4>2. Bins(c, i)' = Bins(c, i)
                BY <4>1 DEF Bins
            <4> QED
                BY <2>1, <4>2
        <3> QED
            BY <3>1, <3>2
    <2> QED
        BY <2>2, <2>3 DEF Answered
<1>3. WaitEnds(t)
    BY DEF Answered
<1> QED
    BY <1>1, <1>2, <1>3, ContinueSized

LEMMA GivesUpSized ==
    ASSUME Sound, Sound', Sizes, NEW t \in Thread, GivesUp(t)
    PROVE  Sizes'
BY SameBins, ContinueSized DEF GivesUp

LEMMA OneMore ==
    ASSUME NEW call \in CallState
    PROVE  LET next == [call EXCEPT !.off = @ + 1]
           IN  /\ next \in CallState /\ next.pc = call.pc /\ next.id = call.id /\ next.buf = call.buf
               /\ next.off = call.off + 1
BY DEF CallState

LEMMA SendChunkSized ==
    ASSUME Sound, Sound', Sizes, NEW t \in Thread, SendChunk(t)
    PROVE  Sizes'
<1> DEFINE c == t[1]
           call == th[t]
<1>1. /\ c \in Client /\ Types /\ call.pc = "chunks" /\ calls \in Nat
      /\ UNCHANGED <<fhs, nextFh, calls, nextId, down, downloads, file, uploads, serving>>
    BY ClientOf, SoundTypes DEF SendChunk, Uploads, Fails, handles, host
<1>2. /\ call \in CallState /\ call.path \in Path /\ call.off \in Nat /\ call.buf \in Seq(Cell) /\ call.id \in Nat
      /\ CallSmall(call) /\ up \in [Client -> Seq(Message)] /\ up[c] \in Seq(Message)
    BY <1>1, CallFields DEF Sizes, CallsSmall, Types, ChannelTypes
<1>3. CASE Fails(t)
    BY <1>1, <1>3, FailsSized DEF handles
<1>4. ASSUME NEW m \in Message, NEW next \in CallState, m.id = call.id, m.t # "download",
             Send(t, m), Goes(t, next), next.pc # "attr", CallSmall(next), Sending'
      PROVE  Sizes'
    <2>1. up'[c] = Append(up[c], m) /\ \A d \in Client : d # c => up'[d] = up[d]
        BY <1>1, <1>2, <1>4 DEF Send
    <2>2. th'[t] = next /\ \A u \in Thread : u # t => th'[u] = th[u]
        BY <1>1, <1>4, GoesType
    <2>3. FileSmall' /\ BuffersSmall'
        BY <1>1 DEF Sizes, FileSmall, BuffersSmall
    <2>4. CallsSmall'
        BY <1>4, <2>2 DEF Sizes, CallsSmall, CallSmall
    <2>5. Opened'
        <3>1. \A d \in Client : Opening(d)' \subseteq Opening(d)
            BY <1>4, <2>2 DEF Opening
        <3>2. calls <= calls'
            BY <1>1
        <3> QED
            BY <1>1, <3>1, <3>2, OpenedStays DEF Sizes
    <2>6. Fetching'
        <3>1. ASSUME NEW d \in Client, NEW i \in Nat
              PROVE  Got(d, i)' <= Got(d, i)
            <4>1. Got(d, i)' = Got(d, i)
                BY <1>1 DEF Got, Bins
            <4>2. Got(d, i) \in Nat
                BY SoundTypes
            <4> QED
                BY <4>1, <4>2
        <3> QED
            BY <1>1, <1>4, <2>1, <3>1, FetchingStays DEF Sizes
    <2> QED
        BY <1>4, <2>3, <2>4, <2>5, <2>6 DEF Sizes
<1>5. CASE /\ call.off < Len(call.buf)
           /\ Send(t, Msg(t, "bin", call.id, call.path, call.buf[call.off + 1]))
           /\ Goes(t, [call EXCEPT !.off = @ + 1])
    <2> DEFINE m == Msg(t, "bin", call.id, call.path, call.buf[call.off + 1])
               next == [call EXCEPT !.off = @ + 1]
    <2>1. call.buf[call.off + 1] \in Cell
        BY <1>2, <1>5
    <2>2. m \in Message /\ m.id = call.id /\ m.t = "bin"
        BY <1>2, <2>1, Messages DEF Msg
    <2>3. /\ next \in CallState /\ next.pc = "chunks" /\ next.id = call.id /\ next.buf = call.buf
          /\ next.off = call.off + 1
        BY <1>1, <1>2, OneMore
    <2>4. Len(call.buf) <= Size /\ Len(call.buf) \in Nat /\ Size \in Nat
        BY <1>2, SoundTypes DEF CallSmall
    <2>5. CallSmall(next)
        BY <1>2, <1>5, <2>3, <2>4 DEF CallSmall
    <2> HIDE DEF m, next
    <2>6. th'[t] = next /\ \A u \in Thread : u # t => th'[u] = th[u]
        BY <1>1, <1>5, <2>3, GoesType DEF next
    <2>7. up'[c] = Append(up[c], m) /\ \A d \in Client : d # c => up'[d] = up[d]
        BY <1>1, <1>2, <1>5 DEF Send, m
    <2>8. Sending'
        <3> SUFFICES ASSUME NEW d \in Client, NEW i \in Numbers(d)', NEW x \in Stored(i)', NEW y \in Owing(d, i)'
                     PROVE  x + Chunks(up'[d], i) + y <= Size
            BY DEF Sending
        <3>1. i \in Numbers(d) /\ x \in Stored(i)
            BY <1>1 DEF Numbers, Stored
        <3>2. x \in Int
            BY <3>1, SoundTypes DEF Stored, Types, HostTypes, UploadState
        <3>3. CASE d = c /\ i = call.id
            <4>1. Chunks(up'[d], i) = Chunks(up[d], i) + 1 /\ Chunks(up[d], i) \in Nat
                BY <1>2, <2>2, <2>7, <3>3, ChunksAppended, ChunksType DEF IsChunk
            <4>2. Len(call.buf) - call.off \in Owing(d, i)
                BY <1>1, <3>3, OwingIs
            <4>3. x + Chunks(up[d], i) + (Len(call.buf) - call.off) <= Size
                BY <3>1, <4>2 DEF Sizes, Sending
            <4>4. y = 0 \/ y = Len(call.buf) - (call.off + 1)
                <5>1. ASSUME NEW u \in Thread, th'[u].pc \in {"ready", "chunks"}, u[1] = d, th'[u].id = i
                      PROVE  u = t
                    <6>1. Single'
                        BY DEF Sound, SavedInv
                    <6> QED
                        BY <2>3, <2>6, <3>3, <5>1, <6>1 DEF Single, Working
                <5>2. y = 0 \/ \E u \in Thread : /\ th'[u].pc \in {"ready", "chunks"} /\ u[1] = d /\ th'[u].id = i
                                                 /\ y = Len(th'[u].buf) - th'[u].off
                    BY OwingIs
                <5> QED
                    BY <2>3, <2>6, <5>1, <5>2
            <4>5. ASSUME NEW b \in Nat, NEW n \in Nat, NEW o \in Nat, NEW z \in Int,
                         o < n, z + b + (n - o) <= Size
                  PROVE  z + (b + 1) + 0 <= Size /\ z + (b + 1) + (n - (o + 1)) <= Size
                BY <2>4, <4>5
            <4>6. /\ x + (Chunks(up[d], i) + 1) + 0 <= Size
                  /\ x + (Chunks(up[d], i) + 1) + (Len(call.buf) - (call.off + 1)) <= Size
                <5> HIDE DEF call
                <5> QED
                    BY <1>2, <1>5, <2>4, <3>2, <4>1, <4>3, <4>5
            <4> QED
                BY <4>1, <4>4, <4>6
        <3>4. CASE d # c \/ i # call.id
            <4>1. Chunks(up'[d], i) = Chunks(up[d], i)
                <5>1. Chunks(Append(up[c], m), i) = Chunks(up[c], i) \/ i = call.id
                    BY <1>2, <2>2, ChunksAppended DEF IsChunk
                <5> QED
                    BY <2>7, <3>4, <5>1
            <4>2. y \in Owing(d, i)
                <5>1. CASE y = 0
                    BY <5>1, OwingIs
                <5>2. ASSUME NEW u \in Thread, th'[u].pc \in {"ready", "chunks"}, u[1] = d, th'[u].id = i,
                             y = Len(th'[u].buf) - th'[u].off
                      PROVE  y \in Owing(d, i)
                    <6>1. u # t
                        BY <2>3, <2>6, <3>4, <5>2
                    <6>2. th'[u] = th[u]
                        BY <2>6, <6>1
                    <6> QED
                        BY <5>2, <6>2, OwingIs
                <5> QED
                    BY <5>1, <5>2, OwingIs
            <4>3. x + Chunks(up[d], i) + y <= Size
                BY <3>1, <4>2 DEF Sizes, Sending
            <4> QED
                BY <4>1, <4>3
        <3> QED
            BY <3>3, <3>4
    <2>9. Send(t, m) /\ Goes(t, next)
        BY <1>5 DEF m, next
    <2> QED
        BY <1>4, <2>2, <2>3, <2>5, <2>8, <2>9
<1>6. CASE /\ Send(t, Msg(t, "uploadEnd", call.id, call.path, <<>>))
           /\ Goes(t, [call EXCEPT !.pc = "ending"])
    <2> DEFINE m == Msg(t, "uploadEnd", call.id, call.path, <<>>)
               next == [call EXCEPT !.pc = "ending"]
    <2>1. m \in Message /\ m.id = call.id /\ m.t = "uploadEnd"
        BY <1>2, Messages DEF Msg, PlainKind
    <2>2. next \in CallState /\ next.pc = "ending" /\ next.buf = call.buf /\ next.off = call.off
        BY <1>2 DEF CallState, Working
    <2>3. CallSmall(next)
        BY <1>2, <2>2 DEF CallSmall
    <2> HIDE DEF m, next
    <2>4. th'[t] = next /\ \A u \in Thread : u # t => th'[u] = th[u]
        BY <1>1, <1>6, <2>2, GoesType DEF next
    <2>5. up'[c] = Append(up[c], m) /\ \A d \in Client : d # c => up'[d] = up[d]
        BY <1>1, <1>2, <1>6 DEF Send, m
    <2>6. \A d \in Client : \A i : Chunks(up[d], i)' <= Chunks(up[d], i)
        <3> SUFFICES ASSUME NEW d \in Client, NEW i PROVE Chunks(up'[d], i) <= Chunks(up[d], i)
            BY DEF Chunks, ChunkSet
        <3>1. Chunks(Append(up[c], m), i) = Chunks(up[c], i)
            BY <1>2, <2>1, ChunksAppended DEF IsChunk
        <3>2. Chunks(up'[d], i) = Chunks(up[d], i)
            BY <2>5, <3>1
        <3>3. Chunks(up[d], i) \in Nat
            BY SoundTypes
        <3> QED
            BY <3>2, <3>3
    <2>7. ASSUME NEW d \in Client, NEW i
          PROVE  Owing(d, i)' \subseteq Owing(d, i)
        <3> SUFFICES ASSUME NEW y \in Owing(d, i)' PROVE y \in Owing(d, i)
            OBVIOUS
        <3>1. CASE y = 0
            BY <3>1, OwingIs
        <3>2. ASSUME NEW u \in Thread, th'[u].pc \in {"ready", "chunks"}, u[1] = d, th'[u].id = i,
                     y = Len(th'[u].buf) - th'[u].off
              PROVE  y \in Owing(d, i)
            <4>1. th'[u] = th[u]
                BY <2>2, <2>4, <3>2
            <4> QED
                BY <3>2, <4>1, OwingIs
        <3> QED
            BY <3>1, <3>2, OwingIs
    <2>8. \A i : Stored(i)' \subseteq Stored(i)
        BY <1>1 DEF Stored
    <2>9. Sending'
        BY <1>1, <2>6, <2>7, <2>8, SendingStays DEF Sizes
    <2>10. Send(t, m) /\ Goes(t, next)
        BY <1>6 DEF m, next
    <2> QED
        BY <1>4, <2>1, <2>2, <2>3, <2>9, <2>10
<1> QED
    BY <1>3, <1>5, <1>6 DEF SendChunk

(* The channel. *)

\* A step of the channel or of the host.
LEMMA OutsideSized ==
    ASSUME Sound, Sound', Sizes, UNCHANGED <<th, fhs, nextFh, calls>>, FileSmall', Sending', Fetching'
    PROVE  Sizes'
<1>1. BuffersSmall' /\ CallsSmall'
    BY DEF Sizes, BuffersSmall, CallsSmall, CallSmall
<1>2. Opened'
    <2>1. \A c \in Client : Opening(c)' \subseteq Opening(c)
        BY DEF Opening
    <2>2. calls <= calls'
        BY SoundTypes
    <2> QED
        BY <2>1, <2>2, OpenedStays DEF Sizes
<1> QED
    BY <1>1, <1>2 DEF Sizes

LEMMA SameOwing ==
    ASSUME UNCHANGED th, NEW c \in Client, NEW id
    PROVE  Owing(c, id)' = Owing(c, id)
BY DEF Owing, Unsent

LEMMA SendingSame ==
    ASSUME Sound, Sound', Sending, UNCHANGED <<nextId, up, th>>, \A id : Stored(id)' \subseteq Stored(id)
    PROVE  Sending'
<1>1. ASSUME NEW c \in Client, NEW id
      PROVE  Chunks(up[c], id)' <= Chunks(up[c], id)
    <2>1. Chunks(up[c], id)' = Chunks(up[c], id)
        BY DEF Chunks, ChunkSet
    <2> QED
        BY <2>1, SoundTypes
<1>2. \A c \in Client : \A id : Owing(c, id)' \subseteq Owing(c, id)
    BY SameOwing
<1> QED
    BY <1>1, <1>2, SendingStays

\* A step that concerns neither contents nor messages.
LEMMA StillSized ==
    ASSUME Sound, Sound', Sizes,
           UNCHANGED <<th, fhs, nextFh, nextId, calls, up, down, downloads, file, uploads, serving>>
    PROVE  Sizes'
<1>1. FileSmall'
    BY DEF Sizes, FileSmall
<1>2. Sending'
    <2>1. \A id : Stored(id)' \subseteq Stored(id)
        BY DEF Stored
    <2> QED
        BY <2>1, SendingSame DEF Sizes
<1>3. Fetching'
    <2>1. ASSUME NEW c \in Client, NEW i \in Nat
          PROVE  Got(c, i)' <= Got(c, i)
        <3>1. Got(c, i)' = Got(c, i)
            BY DEF Got, Bins, Chunks, ChunkSet
        <3> QED
            BY <3>1, SoundTypes
    <2> QED
        BY <2>1, FetchingStays DEF Sizes
<1> QED
    BY <1>1, <1>2, <1>3, OutsideSized

LEMMA DeliverSized ==
    ASSUME Sound, Sound', Sizes, NEW c \in Client, Deliver(c)
    PROVE  Sizes'
<1> DEFINE m == Head(down[c])
<1>1. /\ down[c] # <<>> /\ down' = [down EXCEPT ![c] = Tail(@)]
      /\ IF m.t = "bin"
           THEN downloads' = [downloads EXCEPT ![c] =
                                [i \in DOMAIN @ \cup {m.id} |-> IF i = m.id THEN Append(Bins(c, i), m) ELSE @[i]]]
           ELSE UNCHANGED downloads
      /\ UNCHANGED <<fhs, nextFh, nextId, th, calls, up, file, uploads, serving>>
    BY DEF Deliver, handles, host
<1>2. /\ down \in [Client -> Seq(Message)] /\ down[c] \in Seq(Message) /\ m \in Message
      /\ DOMAIN downloads = Client
    <2>1. down \in [Client -> Seq(Message)] /\ DOMAIN downloads = Client
        BY SoundTypes DEF Types, ChannelTypes, ClientTypes
    <2> QED
        BY <1>1, <2>1
<1>3. down'[c] = Tail(down[c]) /\ \A d \in Client : d # c => down'[d] = down[d]
    BY <1>1, <1>2
<1>4. m.t = "bin" =>
        downloads'[c] = [i \in DOMAIN downloads[c] \cup {m.id} |->
                           IF i = m.id THEN Append(Bins(c, i), m) ELSE downloads[c][i]]
    BY <1>1, <1>2
<1>5. \A d \in Client : d # c => downloads'[d] = downloads[d]
    BY <1>1, <1>2
<1> HIDE DEF m
<1>6. ASSUME NEW d \in Client, NEW i \in Nat
      PROVE  Got(d, i)' <= Got(d, i)
    <2>1. Got(d, i) \in Nat /\ Chunks(down[d], i) \in Nat /\ Len(Bins(d, i)) \in Nat /\ Bins(d, i) \in Seq(Bin)
        BY SoundTypes
    <2>2. Got(d, i)' = Chunks(down'[d], i) + Len(Bins(d, i)')
        BY DEF Got, Chunks, ChunkSet
    <2>3. CASE d # c
        <3>1. Chunks(down'[d], i) = Chunks(down[d], i)
            BY <1>3, <2>3
        <3>2. Bins(d, i)' = Bins(d, i)
            BY <1>5, <2>3 DEF Bins
        <3> QED
            BY <2>1, <2>2, <3>1, <3>2 DEF Got
    <2>4. CASE d = c /\ IsChunk(m, i)
        <3>1. Chunks(down[d], i) = Chunks(down'[d], i) + 1
            BY <1>1, <1>2, <1>3, <2>4, ChunksTaken DEF m
        <3>2. Bins(d, i)' = Append(Bins(d, i), m)
            BY <1>4, <2>4 DEF Bins, IsChunk
        <3>3. m \in Bin
            BY <1>2, <2>4, MessageFields DEF IsChunk
        <3>4. Len(Append(Bins(d, i), m)) = Len(Bins(d, i)) + 1
            BY <2>1, <3>3
        <3>5. Chunks(down'[d], i) \in Nat
            BY GotNat DEF Sound, CallsInv, FileInv
        <3> QED
            BY <2>1, <2>2, <3>1, <3>2, <3>4, <3>5 DEF Got
    <2>5. CASE d = c /\ ~IsChunk(m, i)
        <3>1. Chunks(down[d], i) = Chunks(down'[d], i)
            BY <1>1, <1>2, <1>3, <2>5, ChunksTaken DEF m
        <3>2. Bins(d, i)' = Bins(d, i)
            <4>1. CASE m.t = "bin"
                BY <1>4, <2>5, <4>1 DEF Bins, IsChunk
            <4>2. CASE m.t # "bin"
                BY <1>1, <4>2 DEF Bins, m
            <4> QED
                BY <4>1, <4>2
        <3> QED
            BY <2>1, <2>2, <3>1, <3>2 DEF Got
    <2> QED
        BY <2>3, <2>4, <2>5
<1>7. FileSmall'
    BY <1>1 DEF Sizes, FileSmall
<1>8. Fetching'
    BY <1>1, <1>6, FetchingStays DEF Sizes
<1>9. Sending'
    <2>1. \A id : Stored(id)' \subseteq Stored(id)
        BY <1>1 DEF Stored
    <2> QED
        BY <1>1, <2>1, SendingSame DEF Sizes
<1> QED
    BY <1>1, <1>7, <1>8, <1>9, OutsideSized

LEMMA ClosedSized ==
    ASSUME Sound, Sound', Sizes, NEW c \in Client, Closed(c)
    PROVE  Sizes'
<1>1. /\ up' = [up EXCEPT ![c] = <<>>] /\ down' = [down EXCEPT ![c] = <<>>]
      /\ UNCHANGED <<fhs, nextFh, nextId, downloads, th, calls, file, uploads, serving>>
    BY DEF Closed, handles, waiting, host
<1>2. up \in [Client -> Seq(Message)] /\ down \in [Client -> Seq(Message)]
    BY SoundTypes DEF Types, ChannelTypes
<1>3. /\ \A d \in Client : up'[d] = up[d] \/ up'[d] = <<>>
      /\ \A d \in Client : down'[d] = down[d] \/ down'[d] = <<>>
    BY <1>1, <1>2
<1>4. \A id : Chunks(<<>>, id) = 0
    <2>1. <<>> \in Seq(Message)
        OBVIOUS
    <2> QED
        BY <2>1, ChunksType
<1>5. FileSmall'
    BY <1>1 DEF Sizes, FileSmall
<1>6. ASSUME NEW d \in Client, NEW i \in Nat
      PROVE  Got(d, i)' <= Got(d, i)
    <2>1. Got(d, i) \in Nat /\ Chunks(down[d], i) \in Nat /\ Len(Bins(d, i)) \in Nat
        BY SoundTypes
    <2>2. Bins(d, i)' = Bins(d, i)
        BY <1>1 DEF Bins
    <2>3. Got(d, i)' = Chunks(down'[d], i) + Len(Bins(d, i))
        BY <2>2 DEF Got, Chunks, ChunkSet
    <2>4. Chunks(down'[d], i) = Chunks(down[d], i) \/ Chunks(down'[d], i) = 0
        BY <1>3, <1>4
    <2> QED
        BY <2>1, <2>3, <2>4 DEF Got
<1>7. Fetching'
    BY <1>1, <1>3, <1>6, FetchingStays DEF Sizes
<1>8. Sending'
    <2>1. ASSUME NEW d \in Client, NEW i
          PROVE  Chunks(up[d], i)' <= Chunks(up[d], i)
        <3>1. Chunks(up'[d], i) = Chunks(up[d], i) \/ Chunks(up'[d], i) = 0
            BY <1>3, <1>4
        <3>2. Chunks(up[d], i) \in Nat
            BY SoundTypes
        <3>3. Chunks(up[d], i)' = Chunks(up'[d], i)
            BY DEF Chunks, ChunkSet
        <3> QED
            BY <3>1, <3>2, <3>3
    <2>2. \A i : Stored(i)' \subseteq Stored(i)
        BY <1>1 DEF Stored
    <2>3. \A d \in Client : \A i : Owing(d, i)' \subseteq Owing(d, i)
        BY <1>1, SameOwing
    <2> QED
        BY <1>1, <2>1, <2>2, <2>3, SendingStays DEF Sizes
<1> QED
    BY <1>1, <1>5, <1>7, <1>8, OutsideSized

LEMMA SignallingLostSized ==
    ASSUME Sound, Sound', Sizes, NEW c \in Client, SignallingLost(c)
    PROVE  Sizes'
BY StillSized DEF SignallingLost, handles, waiting, chan, host

(* The host. *)

LEMMA ReadAnswers ==
    ASSUME NEW m \in Message
    PROVE  /\ \A v \in Cell : LET a == [m EXCEPT !.t = "bin", !.arg = v]
                            IN  a \in Message /\ a.id = m.id /\ a.t = "bin"
           /\ LET a == [m EXCEPT !.t = "fileEnd", !.arg = <<>>]
              IN  a \in Message /\ a.id = m.id /\ a.t = "fileEnd"
<1>1. ASSUME NEW v \in Cell
      PROVE  [m EXCEPT !.t = "bin", !.arg = v] \in Message
    BY AnswerFields
<1>2. [m EXCEPT !.t = "fileEnd", !.arg = <<>>] \in Message
    BY AnswerFields DEF PlainKind
<1>3. ASSUME NEW v
      PROVE  [m EXCEPT !.t = "bin", !.arg = v].id = m.id /\ [m EXCEPT !.t = "bin", !.arg = v].t = "bin"
    BY DEF Message, Plain, PlainKind, Listing, Bin, Download, Record
<1>4. [m EXCEPT !.t = "fileEnd", !.arg = <<>>].id = m.id /\ [m EXCEPT !.t = "fileEnd", !.arg = <<>>].t = "fileEnd"
    BY DEF Message, Plain, PlainKind, Listing, Bin, Download, Record
<1> QED
    BY <1>1, <1>2, <1>3, <1>4

LEMMA HostReadsSized ==
    ASSUME Sound, Sound', Sizes, NEW c \in Client, HostReads(c)
    PROVE  Sizes'
<1> DEFINE m == serving[c]
           off == m.arg[1]
           n == [m EXCEPT !.arg = <<off + 1, m.arg[2] - 1>>]
<1>1. /\ Types /\ m # <<>>
      /\ UNCHANGED <<fhs, nextFh, nextId, downloads, th, calls, up, file, uploads>>
    BY SoundTypes DEF HostReads, handles, waiting
<1>2. /\ m \in Download /\ m \in Message /\ m.id \in Nat /\ m.path \in Path /\ off \in Nat /\ m.arg[2] \in Nat
      /\ serving \in [Client -> Download \cup {<<>>}] /\ down \in [Client -> Seq(Message)]
    <2>1. m \in Download /\ serving \in [Client -> Download \cup {<<>>}] /\ down \in [Client -> Seq(Message)]
        BY <1>1 DEF Types, HostTypes, ChannelTypes
    <2> QED
        BY <2>1, MessageFields DEF Download, Record, Message
<1>3. /\ n.id = m.id /\ n.arg[2] = m.arg[2] - 1
    BY <1>2 DEF Download, Record
<1>4. \E a \in Message :
         /\ a.id = m.id
         /\ down' = [down EXCEPT ![c] = Append(@, a)] \/ down' = down
         /\ \/ a.t = "bin" /\ m.arg[2] > 0 /\ serving' = [serving EXCEPT ![c] = n]
            \/ a.t = "fileEnd" /\ serving' = [serving EXCEPT ![c] = <<>>]
    <2>1. CASE /\ m.arg[2] > 0 /\ file[m.path] # Absent /\ off < Len(file[m.path])
               /\ down' = IF open[c] THEN [down EXCEPT ![c] = Append(@, [m EXCEPT !.t = "bin", !.arg = file[m.path][off + 1]])]
                                     ELSE down
               /\ serving' = [serving EXCEPT ![c].arg = <<off + 1, @[2] - 1>>]
        <3> DEFINE a == [m EXCEPT !.t = "bin", !.arg = file[m.path][off + 1]]
        <3>1. file[m.path][off + 1] \in Cell
            BY <1>1, <1>2, <2>1, FileType
        <3>2. a \in Message /\ a.id = m.id /\ a.t = "bin"
            <4>1. m \in Message
                BY <1>2
            <4> HIDE DEF m, n
            <4> QED
                BY <3>1, <4>1, ReadAnswers
        <3>3. serving' = [serving EXCEPT ![c] = n]
            BY <2>1
        <3>4. down' = [down EXCEPT ![c] = Append(@, a)] \/ down' = down
            BY <2>1
        <3> HIDE DEF a, n, m
        <3> QED
            BY <2>1, <3>2, <3>3, <3>4
    <2>2. CASE /\ down' = IF open[c] THEN [down EXCEPT ![c] = Append(@, [m EXCEPT !.t = "fileEnd", !.arg = <<>>])]
                                     ELSE down
               /\ serving' = [serving EXCEPT ![c] = <<>>]
        <3> DEFINE a == [m EXCEPT !.t = "fileEnd", !.arg = <<>>]
        <3>1. a \in Message /\ a.id = m.id /\ a.t = "fileEnd"
            <4>1. m \in Message
                BY <1>2
            <4> HIDE DEF m, n
            <4> QED
                BY <4>1, ReadAnswers
        <3>2. down' = [down EXCEPT ![c] = Append(@, a)] \/ down' = down
            BY <2>2
        <3> HIDE DEF a, n, m
        <3> QED
            BY <2>2, <3>1, <3>2
    <2> QED
        BY <2>1, <2>2 DEF HostReads
<1> HIDE DEF m, n
<1>5. PICK a \in Message :
         /\ a.id = m.id
         /\ down' = [down EXCEPT ![c] = Append(@, a)] \/ down' = down
         /\ \/ a.t = "bin" /\ m.arg[2] > 0 /\ serving' = [serving EXCEPT ![c] = n]
            \/ a.t = "fileEnd" /\ serving' = [serving EXCEPT ![c] = <<>>]
    BY <1>4
<1>6. ASSUME NEW d \in Client, NEW i \in Nat
      PROVE  /\ Got(d, i) \in Nat
             /\ Got(d, i)' = Got(d, i) \/ (d = c /\ i = m.id /\ a.t = "bin" /\ Got(d, i)' = Got(d, i) + 1)
    <2>1. Got(d, i) \in Nat /\ Chunks(down[d], i) \in Nat /\ Len(Bins(d, i)) \in Nat
        BY SoundTypes
    <2>2. Got(d, i)' = Chunks(down'[d], i) + Len(Bins(d, i))
        <3>1. Bins(d, i)' = Bins(d, i)
            BY <1>1 DEF Bins
        <3> QED
            BY <3>1 DEF Got, Chunks, ChunkSet
    <2>3. down'[d] = down[d] \/ (d = c /\ down'[d] = Append(down[c], a))
        BY <1>2, <1>5
    <2>4. \/ Chunks(down'[d], i) = Chunks(down[d], i)
          \/ d = c /\ i = m.id /\ a.t = "bin" /\ Chunks(down'[d], i) = Chunks(down[d], i) + 1
        <3>1. down[d] \in Seq(Message) /\ a \in Message
            BY <1>2
        <3>2. Chunks(Append(down[d], a), i) = IF IsChunk(a, i) THEN Chunks(down[d], i) + 1 ELSE Chunks(down[d], i)
            BY <3>1, ChunksAppended
        <3>3. IsChunk(a, i) => i = m.id /\ a.t = "bin"
            BY <1>5 DEF IsChunk
        <3> QED
            BY <2>3, <3>2, <3>3
    <2> QED
        BY <2>1, <2>2, <2>4 DEF Got
<1>7. ASSUME NEW d \in Client, NEW i \in Nat
      PROVE  Fetches(d, i)'
    <2>1. Fetches(d, i) /\ Size \in Nat
        BY SoundTypes DEF Sizes, Fetching
    <2>2. \A k \in Nat : Asks(d, i, k)' <=> Asks(d, i, k)
        BY <1>1 DEF Asks
    <2>3. CASE d = c /\ i = m.id
        <3>1. Serves(d, i)
            BY <1>1, <2>3 DEF Serves, m
        <3>2. m.arg[2] + Got(d, i) <= Size /\ \A k \in Nat : ~Asks(d, i, k)
            BY <2>1, <2>3, <3>1 DEF Fetches, m
        <3>3. CASE a.t = "bin" /\ m.arg[2] > 0 /\ serving' = [serving EXCEPT ![c] = n]
            <4>1. Got(d, i)' \in Nat /\ Got(d, i)' <= Got(d, i) + 1
                BY <1>6
            <4>2. serving'[d] = n
                BY <1>2, <2>3, <3>3
            <4>3. Got(d, i)' <= Size /\ (m.arg[2] - 1) + Got(d, i)' <= Size
                <5>1. ASSUME NEW x \in Nat, NEW y \in Nat, NEW z \in Nat, NEW s \in Nat, x + y <= s, x > 0, z <= y + 1
                      PROVE  z <= s /\ (x - 1) + z <= s
                    BY <5>1
                <5>2. m.arg[2] \in Nat /\ m.arg[2] > 0 /\ Got(d, i) \in Nat
                    BY <1>2, <1>6, <3>3
                <5> QED
                    BY <2>1, <3>2, <4>1, <5>1, <5>2
            <4> QED
                BY <1>3, <2>2, <3>2, <4>2, <4>3 DEF Fetches
        <3>4. CASE a.t = "fileEnd" /\ serving' = [serving EXCEPT ![c] = <<>>]
            <4>1. Got(d, i)' = Got(d, i)
                BY <1>6, <3>4
            <4>2. serving'[d] = <<>>
                BY <1>2, <2>3, <3>4
            <4>3. ~Serves(d, i)'
                BY <4>2 DEF Serves
            <4> QED
                BY <2>1, <2>2, <3>2, <4>1, <4>3 DEF Fetches
        <3> QED
            BY <1>5, <3>3, <3>4
    <2>4. CASE d # c \/ i # m.id
        <3>1. Got(d, i)' = Got(d, i)
            BY <1>6, <2>4
        <3>2. Serves(d, i)' => Serves(d, i) /\ serving'[d] = serving[d]
            BY <1>1, <1>2, <1>3, <1>5, <2>4 DEF Serves
        <3> QED
            BY <1>1, <2>1, <2>2, <3>1, <3>2 DEF Fetches
    <2> QED
        BY <2>3, <2>4
<1>8. FileSmall'
    BY <1>1 DEF Sizes, FileSmall
<1>9. Sending'
    <2>1. \A id : Stored(id)' \subseteq Stored(id)
        BY <1>1 DEF Stored
    <2> QED
        BY <1>1, <2>1, SendingSame DEF Sizes
<1> QED
    BY <1>1, <1>7, <1>8, <1>9, OutsideSized DEF Fetching

LEMMA SpoilsStored ==
    ASSUME Types, NEW path, NEW id
    PROVE  \A u \in Spoils(path) : u.id = id => u.pos \in Stored(id)
BY SpoilsType DEF Stored

LEMMA HostChangesSized ==
    ASSUME Sound, Sound', Sizes, NEW p \in Path, HostChanges(p)
    PROVE  Sizes'
<1>1. /\ Types /\ file' = [file EXCEPT ![p] = <<ByHost>>] /\ uploads' = Spoils(p)
      /\ UNCHANGED <<fhs, nextFh, nextId, downloads, th, calls, up, down, serving>>
    BY SoundTypes DEF HostChanges, handles, waiting, chan
<1>2. FileSmall'
    <2>1. Len(<<ByHost>>) <= Size
        BY WebFilesAssumption
    <2>2. \A q \in Path : file'[q] = file[q] \/ file'[q] = <<ByHost>>
        BY <1>1 DEF Types, HostTypes
    <2> QED
        BY <2>1, <2>2 DEF Sizes, FileSmall
<1>3. Sending'
    <2>1. \A id : Stored(id)' \subseteq Stored(id)
        BY <1>1, SpoilsStored DEF Stored
    <2> QED
        BY <1>1, <2>1, SendingSame DEF Sizes
<1>4. Fetching'
    <2>1. ASSUME NEW c \in Client, NEW i \in Nat
          PROVE  Got(c, i)' <= Got(c, i)
        <3>1. Got(c, i)' = Got(c, i)
            BY <1>1 DEF Got, Bins, Chunks, ChunkSet
        <3> QED
            BY <3>1, SoundTypes
    <2> QED
        BY <1>1, <2>1, FetchingStays DEF Sizes
<1> QED
    BY <1>1, <1>2, <1>3, <1>4, OutsideSized

\* What the host has of an upload is what it had, or a chunk more of it.
LEMMA HostStored ==
    ASSUME Sound, NEW c \in Client, HostTakes(c), NEW m \in Message, m = Head(up[c]), NEW id, NEW x \in Stored(id)'
    PROVE  x \in Stored(id) \/ (IsChunk(m, id) /\ \E y \in Stored(id) : y \in Nat /\ x = y + 1)
<1>1. /\ Types
      /\ \/ HostLists(c, m) \/ HostDeletes(c, m) \/ HostDownloads(c, m)
         \/ HostStarts(c, m) \/ HostWrites(c, m) \/ HostEnds(c, m)
    BY SoundTypes DEF HostTakes
<1>2. x = 0 \/ \E v \in uploads' : v.id = id /\ v.pos = x
    BY DEF Stored
<1>3. 0 \in Stored(id) /\ \A u \in uploads : u.id = id => u.pos \in Stored(id)
    BY DEF Stored
<1>4. ASSUME NEW v \in uploads', v.id = id, v.pos = x
      PROVE  x \in Stored(id) \/ (IsChunk(m, id) /\ \E y \in Stored(id) : y \in Nat /\ x = y + 1)
    <2>1. CASE uploads' = uploads
        BY <1>3, <1>4, <2>1
    <2>2. CASE HostDeletes(c, m)
        <3>1. v \in Spoils(m.path)
            BY <2>2 DEF HostDeletes
        <3> QED
            BY <1>1, <1>4, <3>1, SpoilsStored
    <2>3. CASE HostStarts(c, m)
        <3>1. v \in Spoils(m.path) \/ v.pos = 0
            BY <2>3 DEF HostStarts
        <3> QED
            BY <1>1, <1>3, <1>4, <3>1, SpoilsStored
    <2>4. CASE HostEnds(c, m)
        BY <1>3, <1>4, <2>4 DEF HostEnds, OpenUpload
    <2>5. ASSUME HostWrites(c, m), NEW u \in OpenUpload(m),
                 \/ uploads' = (uploads \ {u}) \cup {[u EXCEPT !.pos = @ + 1]}
                 \/ uploads' = (uploads \ {u}) \cup {[u EXCEPT !.open = FALSE, !.clean = FALSE]}
          PROVE  x \in Stored(id) \/ (IsChunk(m, id) /\ \E y \in Stored(id) : y \in Nat /\ x = y + 1)
        <3>1. u \in uploads /\ u \in UploadState /\ u.id = m.id /\ m.t = "bin"
            BY <1>1, <2>5 DEF OpenUpload, Types, HostTypes, HostWrites
        <3>2. CASE v \in uploads
            BY <1>3, <1>4, <3>2
        <3>3. CASE v = [u EXCEPT !.pos = @ + 1]
            <4>1. v.id = u.id /\ v.pos = u.pos + 1 /\ u.pos \in Nat
                BY <3>1, <3>3, UploadFields
            <4> QED
                BY <1>3, <1>4, <3>1, <4>1 DEF IsChunk
        <3>4. CASE v = [u EXCEPT !.open = FALSE, !.clean = FALSE]
            <4>1. v.id = u.id /\ v.pos = u.pos
                BY <3>1, <3>4 DEF UploadState
            <4> QED
                BY <1>3, <1>4, <3>1, <4>1
        <3> QED
            BY <2>5, <3>2, <3>3, <3>4
    <2>6. CASE HostWrites(c, m)
        BY <2>1, <2>5, <2>6 DEF HostWrites
    <2>7. HostLists(c, m) \/ HostDownloads(c, m) => uploads' = uploads
        BY DEF HostLists, HostDownloads, host
    <2> QED
        BY <1>1, <2>1, <2>2, <2>3, <2>4, <2>6, <2>7
<1> QED
    BY <1>2, <1>3, <1>4

LEMMA HostSendsSized ==
    ASSUME Sound, Sound', Sizes, NEW c \in Client, HostTakes(c)
    PROVE  Sending'
<1> DEFINE m == Head(up[c])
<1> SUFFICES ASSUME NEW d \in Client, NEW i \in Numbers(d)', NEW x \in Stored(i)', NEW y \in Owing(d, i)'
             PROVE  x + Chunks(up'[d], i) + y <= Size
    BY DEF Sending
<1>1. /\ up[c] # <<>> /\ up' = [up EXCEPT ![c] = Tail(@)] /\ up \in [Client -> Seq(Message)] /\ m \in Message
      /\ UNCHANGED <<nextId, th>> /\ Types /\ Numbered /\ Apart
    <2>1. up[c] # <<>> /\ up' = [up EXCEPT ![c] = Tail(@)] /\ UNCHANGED <<nextId, th>>
        BY DEF HostTakes, waiting
    <2>2. up \in [Client -> Seq(Message)] /\ Types /\ Numbered /\ Apart
        BY SoundTypes DEF Types, ChannelTypes, Sound
    <2> QED
        BY <2>1, <2>2
<1>2. i \in Numbers(d) /\ y \in Owing(d, i)
    BY <1>1, SameOwing DEF Numbers
<1>3. m.id \in Numbers(c)
    <2>1. m = up[c][1] /\ 1 \in 1 .. Len(up[c])
        BY <1>1
    <2> QED
        BY <1>1, <2>1 DEF Numbered
<1>4. \A z \in Stored(i) : z \in Int /\ z + Chunks(up[d], i) + y <= Size
    BY <1>1, <1>2 DEF Sizes, Sending, Stored, Types, HostTypes, UploadState
<1>5. y \in Int
    <2>1. \A t \in Thread : th[t].pc \in {"ready", "chunks"} => th[t].off \in Nat /\ th[t].buf \in Seq(Cell)
        BY <1>1, CallFields
    <2>2. \A t \in Thread : th[t].pc \in {"ready", "chunks"} => Len(th[t].buf) - th[t].off \in Int
        BY <2>1
    <2> QED
        BY <1>2, <2>2, OwingIs
<1>6. Chunks(up[d], i) \in Nat /\ Chunks(up'[d], i) \in Nat /\ Size \in Nat
    <2>1. up'[d] \in Seq(Message)
        BY DEF Sound, CallsInv, FileInv, Types, ChannelTypes
    <2> QED
        BY <2>1, SoundTypes, ChunksType
<1> HIDE DEF m
<1>7. CASE d = c /\ IsChunk(m, i)
    <2>1. Chunks(up[d], i) = Chunks(up'[d], i) + 1
        BY <1>1, <1>7, ChunksTaken DEF m
    <2>2. PICK z \in Stored(i) : x = z \/ x = z + 1
        BY <1>1, HostStored DEF m
    <2> QED
        BY <1>4, <1>5, <1>6, <2>1, <2>2
<1>8. CASE ~(d = c /\ IsChunk(m, i))
    <2>1. Chunks(up[d], i) = Chunks(up'[d], i)
        <3>1. CASE d = c
            BY <1>1, <1>8, <3>1, ChunksTaken DEF m
        <3>2. CASE d # c
            BY <1>1, <3>2
        <3> QED
            BY <3>1, <3>2
    <2>2. x \in Stored(i)
        <3>1. IsChunk(m, i) => d = c
            BY <1>1, <1>2, <1>3 DEF Apart, IsChunk
        <3> QED
            BY <1>1, <1>8, <3>1, HostStored DEF m
    <2> QED
        BY <1>4, <1>6, <2>1, <2>2
<1> QED
    BY <1>7, <1>8

LEMMA HostFiles ==
    ASSUME Sound, Sizes, NEW c \in Client, HostTakes(c)
    PROVE  FileSmall'
<1> DEFINE m == Head(up[c])
<1>1. /\ up[c] # <<>> /\ up[c] \in Seq(Message) /\ m \in Message /\ Types /\ Numbered /\ Size \in Nat
      /\ file \in [Path -> Seq(Cell) \cup {Absent}]
      /\ \/ HostLists(c, m) \/ HostDeletes(c, m) \/ HostDownloads(c, m)
         \/ HostStarts(c, m) \/ HostWrites(c, m) \/ HostEnds(c, m)
    <2>1. up[c] # <<>> /\ up[c] \in Seq(Message) /\ Types /\ Numbered /\ Size \in Nat
        BY SoundTypes DEF HostTakes
    <2> QED
        BY <2>1 DEF HostTakes, Types, HostTypes
<1> HIDE DEF m
<1>2. ASSUME NEW p, NEW data, file' = [file EXCEPT ![p] = data], data # Absent => Len(data) <= Size
      PROVE  FileSmall'
    <2>1. \A q \in Path : file'[q] = file[q] \/ file'[q] = data
        BY <1>1, <1>2
    <2> QED
        BY <1>2, <2>1 DEF Sizes, FileSmall
<1>3. CASE UNCHANGED file
    BY <1>3 DEF Sizes, FileSmall
<1>4. CASE HostDeletes(c, m)
    BY <1>2, <1>4 DEF HostDeletes
<1>5. CASE HostStarts(c, m)
    <2>1. Len(<<>>) <= Size
        BY <1>1
    <2> QED
        BY <1>2, <1>3, <1>5, <2>1 DEF HostStarts, Truncated
<1>6. ASSUME HostWrites(c, m), NEW v \in OpenUpload(m), file[v.path] # Absent, NEW u \in OpenUpload(m),
             file' = [file EXCEPT ![u.path] = Put(@, u.pos, m.arg)]
      PROVE  FileSmall'
    <2>1. u \in uploads /\ u = v /\ u.id = m.id /\ u \in UploadState
        BY <1>1, <1>6 DEF OpenUpload, Types, HostTypes
    <2>2. u.path \in Path /\ u.pos \in Nat
        BY <2>1, UploadFields
    <2>3. file[u.path] \in Seq(Cell) /\ Len(file[u.path]) <= Size
        BY <1>1, <1>6, <2>1, <2>2, FileType DEF Sizes, FileSmall
    <2>4. u.pos < Size
        <3>1. m.t = "bin" /\ IsChunk(m, m.id)
            BY <1>6 DEF HostWrites, IsChunk
        <3>2. m.id \in Numbers(c)
            <4>1. m = up[c][1] /\ 1 \in 1 .. Len(up[c])
                BY <1>1 DEF m
            <4> QED
                BY <1>1, <4>1 DEF Numbered
        <3>3. Chunks(up[c], m.id) = Chunks(Tail(up[c]), m.id) + 1 /\ Chunks(Tail(up[c]), m.id) \in Nat
            <4>1. Tail(up[c]) \in Seq(Message)
                BY <1>1
            <4> QED
                BY <1>1, <3>1, <4>1, ChunksTaken, ChunksType DEF m
        <3>4. u.pos \in Stored(m.id) /\ 0 \in Owing(c, m.id)
            BY <2>1, OwingIs DEF Stored
        <3>5. u.pos + Chunks(up[c], m.id) + 0 <= Size
            BY <3>2, <3>4 DEF Sizes, Sending
        <3> QED
            BY <1>1, <2>2, <3>3, <3>5
    <2>5. m.arg \in Cell
        BY <1>1, <1>6, MessageFields DEF HostWrites
    <2>6. Len(Put(file[u.path], u.pos, m.arg)) <= Size
        BY <2>2, <2>3, <2>4, <2>5, PutSmall
    <2>7. file' = [file EXCEPT ![u.path] = Put(file[u.path], u.pos, m.arg)]
        BY <1>6
    <2> QED
        BY <1>2, <2>6, <2>7
<1>7. CASE HostWrites(c, m)
    <2>1. CASE UNCHANGED file
        BY <1>3, <2>1
    <2>2. CASE \E v \in OpenUpload(m) : /\ file[v.path] # Absent
                                        /\ \E u \in OpenUpload(m) : file' = [file EXCEPT ![u.path] = Put(@, u.pos, m.arg)]
        BY <1>6, <1>7, <2>2
    <2> QED
        BY <1>7, <2>1, <2>2 DEF HostWrites
<1>8. HostLists(c, m) \/ HostDownloads(c, m) \/ HostEnds(c, m) => UNCHANGED file
    BY DEF HostLists, HostDownloads, HostEnds, host
<1> QED
    BY <1>1, <1>3, <1>4, <1>5, <1>7, <1>8

LEMMA CutLess ==
    ASSUME NEW range \in Nat \X Nat, NEW size \in Nat
    PROVE  Cut(range, size)[2] <= range[2]
<1> DEFINE a == range[2]
           b == IF range[1] < size THEN size - range[1] ELSE 0
<1>1. a \in Nat /\ b \in Nat
    OBVIOUS
<1> HIDE DEF a, b
<1>2. Min({a, b}) <= a
    <2>1. \E x \in {a, b} : \A y \in {a, b} : x <= y
        BY <1>1
    <2> QED
        BY <2>1 DEF Min
<1>3. Cut(range, size)[2] = Min({a, b})
    BY DEF Cut, a, b
<1> QED
    BY <1>2, <1>3 DEF a

\* The host answers a message under its id, with no chunk, or starts to send what it asks for.
LEMMA HostAnswers ==
    ASSUME Types, NEW c \in Client, HostTakes(c), NEW m \in Message, m = Head(up[c])
    PROVE  /\ down' = down \/ \E a \in Message : a.t # "bin" /\ down' = [down EXCEPT ![c] = Append(@, a)]
           /\ \/ serving' = serving
              \/ m.t = "download" /\ \E n \in Download : /\ n.id = m.id /\ n.arg[2] <= m.arg[2]
                                                         /\ serving' = [serving EXCEPT ![c] = n]
<1>1. \/ HostLists(c, m) \/ HostDeletes(c, m) \/ HostDownloads(c, m)
      \/ HostStarts(c, m) \/ HostWrites(c, m) \/ HostEnds(c, m)
    BY DEF HostTakes
<1>2. ASSUME NEW kind, NEW arg, Answer(c, m, kind, arg), kind # "bin",
             (kind \in PlainKind /\ arg = <<>>) \/ (kind = "listResult" /\ arg \in SUBSET Path)
      PROVE  \E a \in Message : a.t # "bin" /\ down' = [down EXCEPT ![c] = Append(@, a)]
    <2> DEFINE a == [m EXCEPT !.t = kind, !.arg = arg]
    <2>1. a \in Message
        BY <1>2, AnswerFields
    <2>2. a.t # "bin"
        BY <1>2 DEF Message, Plain, PlainKind, Listing, Bin, Download, Record
    <2>3. down' = [down EXCEPT ![c] = Append(@, a)]
        BY <1>2 DEF Answer
    <2> HIDE DEF a
    <2> QED
        BY <2>1, <2>2, <2>3
<1>3. /\ "ok" \in PlainKind /\ "error" \in PlainKind /\ "uploadReady" \in PlainKind
      /\ {p \in Path : file[p] # Absent} \in SUBSET Path
    BY DEF PlainKind
<1>4. CASE HostLists(c, m)
    BY <1>2, <1>3, <1>4 DEF HostLists, host
<1>5. CASE HostDeletes(c, m)
    BY <1>2, <1>3, <1>5 DEF HostDeletes
<1>6. CASE HostDownloads(c, m)
    <2>1. CASE Answer(c, m, "error", <<>>) /\ UNCHANGED serving
        BY <1>2, <1>3, <2>1
    <2>2. CASE /\ file[m.path] # Absent /\ UNCHANGED down
               /\ serving' = [serving EXCEPT ![c] = [m EXCEPT !.arg = Cut(@, Len(file[m.path]))]]
        <3> DEFINE cut == Cut(m.arg, Len(file[m.path]))
                   n == [m EXCEPT !.arg = cut]
        <3>1. m.t = "download" /\ m \in Download /\ m.arg \in Nat \X Nat
            BY <1>6, MessageFields DEF HostDownloads
        <3>2. Len(file[m.path]) \in Nat
            BY <2>2, FileType, MessageFields
        <3>3. cut \in Nat \X Nat /\ cut[2] <= m.arg[2]
            BY <3>1, <3>2, CutType, CutLess
        <3> HIDE DEF cut
        <3>4. n \in Download /\ n.id = m.id /\ n.arg = cut
            BY <3>1, <3>3 DEF Download, Record
        <3>5. serving' = [serving EXCEPT ![c] = n]
            BY <2>2 DEF cut
        <3> HIDE DEF n
        <3> QED
            BY <2>2, <3>1, <3>3, <3>4, <3>5
    <2> QED
        BY <1>6, <2>1, <2>2 DEF HostDownloads
<1>7. CASE HostStarts(c, m)
    BY <1>2, <1>3, <1>7 DEF HostStarts
<1>8. CASE HostWrites(c, m)
    BY <1>8 DEF HostWrites
<1>9. CASE HostEnds(c, m)
    BY <1>2, <1>3, <1>9 DEF HostEnds
<1> QED
    BY <1>1, <1>4, <1>5, <1>6, <1>7, <1>8, <1>9

LEMMA HostFetches ==
    ASSUME Sound, Sound', Sizes, NEW c \in Client, HostTakes(c)
    PROVE  Fetching'
<1> DEFINE m == Head(up[c])
<1>1. /\ up[c] # <<>> /\ up[c] \in Seq(Message) /\ m \in Message /\ Types /\ Size \in Nat /\ serving[c] = <<>>
      /\ up \in [Client -> Seq(Message)] /\ down \in [Client -> Seq(Message)]
      /\ serving \in [Client -> Download \cup {<<>>}]
      /\ up' = [up EXCEPT ![c] = Tail(@)] /\ UNCHANGED downloads
    <2>1. up[c] # <<>> /\ up[c] \in Seq(Message) /\ Types /\ Size \in Nat
        BY SoundTypes DEF HostTakes
    <2> QED
        BY <2>1 DEF HostTakes, waiting, Types, ChannelTypes, HostTypes
<1>2. /\ down' = down \/ \E a \in Message : a.t # "bin" /\ down' = [down EXCEPT ![c] = Append(@, a)]
      /\ \/ serving' = serving
         \/ m.t = "download" /\ \E n \in Download : /\ n.id = m.id /\ n.arg[2] <= m.arg[2]
                                                    /\ serving' = [serving EXCEPT ![c] = n]
    BY <1>1, HostAnswers
<1>3. /\ Len(up[c]) \in Nat /\ m = up[c][1] /\ 1 \in 1 .. Len(up[c]) /\ up'[c] = Tail(up[c])
      /\ \A k \in 1 .. Len(Tail(up[c])) : k + 1 \in 1 .. Len(up[c]) /\ Tail(up[c])[k] = up[c][k + 1]
      /\ \A d \in Client : d # c => up'[d] = up[d]
    BY <1>1
<1> HIDE DEF m
<1>4. ASSUME NEW d \in Client, NEW i \in Nat
      PROVE  Got(d, i)' = Got(d, i)
    <2>1. Bins(d, i)' = Bins(d, i)
        BY <1>1 DEF Bins
    <2>2. Got(d, i)' = Chunks(down'[d], i) + Len(Bins(d, i))
        BY <2>1 DEF Got, Chunks, ChunkSet
    <2>3. Chunks(down'[d], i) = Chunks(down[d], i)
        <3>1. ASSUME NEW a \in Message, a.t # "bin", down' = [down EXCEPT ![c] = Append(@, a)]
              PROVE  Chunks(down'[d], i) = Chunks(down[d], i)
            <4>1. down'[d] = down[d] \/ down'[d] = Append(down[d], a)
                BY <1>1, <3>1
            <4>2. Chunks(Append(down[d], a), i) = Chunks(down[d], i)
                BY <1>1, <3>1, ChunksAppended DEF IsChunk
            <4> QED
                BY <4>1, <4>2
        <3> QED
            BY <1>2, <3>1
    <2> QED
        BY <2>2, <2>3 DEF Got
<1>5. ASSUME NEW d \in Client, NEW i \in Nat
      PROVE  Fetches(d, i)'
    <2>1. Fetches(d, i) /\ Got(d, i)' = Got(d, i) /\ Got(d, i) \in Nat
        BY <1>4, SoundTypes DEF Sizes, Fetching
    <2>2. CASE d # c
        <3>1. serving'[d] = serving[d] /\ up'[d] = up[d]
            BY <1>1, <1>2, <1>3, <2>2
        <3>2. (Serves(d, i)' <=> Serves(d, i)) /\ \A k \in Nat : Asks(d, i, k)' <=> Asks(d, i, k)
            BY <3>1 DEF Serves, Asks
        <3> QED
            BY <2>1, <3>1, <3>2 DEF Fetches
    <2>3. CASE d = c
        <3>1. \A k \in Nat : Asks(d, i, k)' => Asks(d, i, k + 1) /\ up'[d][k] = up[d][k + 1] /\ k # 0
            <4> SUFFICES ASSUME NEW k \in Nat, Asks(d, i, k)'
                         PROVE  Asks(d, i, k + 1) /\ up'[d][k] = up[d][k + 1] /\ k # 0
                OBVIOUS
            <4>1. k \in 1 .. Len(Tail(up[c])) /\ Tail(up[c])[k].t = "download" /\ Tail(up[c])[k].id = i
                BY <1>3, <2>3 DEF Asks
            <4>2. k + 1 \in 1 .. Len(up[c]) /\ Tail(up[c])[k] = up[c][k + 1]
                BY <1>3, <4>1
            <4>3. k # 0
                BY <4>1
            <4> QED
                BY <1>3, <2>3, <4>1, <4>2, <4>3 DEF Asks
        <3>2. Serves(d, i)' => /\ Asks(d, i, 1) /\ serving'[d].arg[2] \in Nat /\ serving'[d].arg[2] <= up[d][1].arg[2]
                               /\ up[d][1].arg[2] \in Nat
            <4> SUFFICES ASSUME Serves(d, i)'
                         PROVE  /\ Asks(d, i, 1) /\ serving'[d].arg[2] \in Nat /\ serving'[d].arg[2] <= up[d][1].arg[2]
                                /\ up[d][1].arg[2] \in Nat
                OBVIOUS
            <4>1. m.t = "download" /\ \E n \in Download : /\ n.id = m.id /\ n.arg[2] <= m.arg[2]
                                                          /\ serving' = [serving EXCEPT ![c] = n]
                BY <1>1, <1>2, <2>3 DEF Serves
            <4>2. PICK n \in Download : n.id = m.id /\ n.arg[2] <= m.arg[2] /\ serving' = [serving EXCEPT ![c] = n]
                BY <4>1
            <4>3. serving'[d] = n
                BY <1>1, <2>3, <4>2
            <4>4. n.arg[2] \in Nat
                BY DEF Download, Record
            <4>5. m.arg[2] \in Nat
                BY <1>1, <4>1, MessageFields
            <4>6. m.id = i
                BY <4>2, <4>3 DEF Serves
            <4> QED
                BY <1>3, <2>3, <4>1, <4>2, <4>3, <4>4, <4>5, <4>6 DEF Asks
        <3>3. Got(d, i)' <= Size
            BY <2>1 DEF Fetches
        <3>4. Serves(d, i)' => serving'[d].arg[2] + Got(d, i)' <= Size
            <4>1. Asks(d, i, 1) => up[d][1].arg[2] <= Size /\ Got(d, i) = 0
                BY <2>1 DEF Fetches
            <4> QED
                BY <1>1, <2>1, <3>2, <4>1
        <3>5. ASSUME NEW k \in Nat, Asks(d, i, k)'
              PROVE  /\ up'[d][k].arg[2] <= Size /\ Got(d, i)' = 0 /\ ~Serves(d, i)'
                     /\ \A j \in Nat : Asks(d, i, j)' => j = k
            <4>1. /\ up[d][k + 1].arg[2] <= Size /\ Got(d, i) = 0
                  /\ \A j \in Nat : Asks(d, i, j) => j = k + 1
                BY <2>1, <3>1, <3>5 DEF Fetches
            <4>2. \A j \in Nat : Asks(d, i, j)' => j = k
                <5> SUFFICES ASSUME NEW j \in Nat, Asks(d, i, j)' PROVE j = k
                    OBVIOUS
                <5>1. Asks(d, i, j + 1) /\ j + 1 \in Nat
                    BY <3>1
                <5>2. j + 1 = k + 1
                    BY <4>1, <5>1
                <5> QED
                    BY <5>2
            <4>3. ~Serves(d, i)'
                <5>1. k # 0 /\ (Asks(d, i, 1) => 1 = k + 1)
                    BY <3>1, <3>5, <4>1
                <5> QED
                    BY <3>2, <5>1
            <4>4. up'[d][k] = up[d][k + 1]
                BY <3>1, <3>5
            <4> QED
                BY <2>1, <4>1, <4>2, <4>3, <4>4
        <3> QED
            BY <3>3, <3>4, <3>5 DEF Fetches
    <2> QED
        BY <2>2, <2>3
<1> QED
    BY <1>5 DEF Fetching

LEMMA HostTakesSized ==
    ASSUME Sound, Sound', Sizes, NEW c \in Client, HostTakes(c)
    PROVE  Sizes'
<1>1. UNCHANGED <<th, fhs, nextFh, calls>>
    BY DEF HostTakes, handles
<1> QED
    BY <1>1, HostFiles, HostSendsSized, HostFetches, OutsideSized

(* The bounds are kept. *)

LEMMA SizesInit == Init => Sizes
<1> SUFFICES ASSUME Init PROVE Sizes
    OBVIOUS
<1>1. Size \in Nat /\ Size # 0 /\ FileInv /\ \A id : Chunks(<<>>, id) = 0
    <2>1. <<>> \in Seq(Message)
        OBVIOUS
    <2> QED
        BY <2>1, FileInit, ChunksType, WebFilesAssumption
<1>2. FileSmall
    <2>1. Len([i \in 1 .. Size |-> ByHost]) <= Size
        BY <1>1
    <2>2. \A p \in Path : file[p] = Absent \/ file[p] = [i \in 1 .. Size |-> ByHost]
        BY DEF Init
    <2> QED
        BY <2>1, <2>2 DEF FileSmall
<1>3. BuffersSmall
    <2>1. PICK p \in Path : fhs = [c \in Client |-> [h \in Handle |-> IF h = 1 THEN Fh(p, FALSE) ELSE NoFh]]
        BY DEF Init
    <2>2. Fh(p, FALSE).data = <<>> /\ Len(<<>>) <= Size
        BY <1>1 DEF Fh
    <2>3. \A c \in Client, h \in Handle : fhs[c][h] = Fh(p, FALSE) \/ fhs[c][h] = NoFh
        BY <2>1
    <2> QED
        BY <2>2, <2>3, NoFhIsNone DEF BuffersSmall
<1>4. CallsSmall
    BY DEF Init, CallsSmall, Idle
<1>5. Sending
    <2>1. \A id : Stored(id) = {0}
        BY DEF Init, Stored
    <2>2. \A c \in Client : \A id : Owing(c, id) = {0}
        BY DEF Init, Owing, Unsent, Idle
    <2>3. \A c \in Client : \A id : Chunks(up[c], id) = 0
        BY <1>1 DEF Init
    <2> QED
        BY <1>1, <2>1, <2>2, <2>3 DEF Sending
<1>6. Fetching
    <2>1. \A c \in Client : \A id : Chunks(down[c], id) = 0
        BY <1>1 DEF Init
    <2>2. \A c \in Client : \A id : Len(Bins(c, id)) = 0
        BY DEF Init, Bins
    <2>3. \A c \in Client : \A id : Got(c, id) = 0
        BY <2>1, <2>2 DEF Got
    <2>4. \A c \in Client : \A id : ~Serves(c, id)
        BY DEF Init, Serves
    <2>5. \A c \in Client : \A id, k : ~Asks(c, id, k)
        BY DEF Init, Asks
    <2> QED
        BY <1>1, <2>3, <2>4, <2>5 DEF Fetching, Fetches
<1>7. Opened
    <2>1. \A c \in Client : Opening(c) = {}
        BY DEF Init, Opening, Idle
    <2>2. \A c \in Client : nextFh[c] = 2 /\ calls = 0
        BY DEF Init
    <2> QED
        BY <2>1, <2>2, FS_EmptySet DEF Opened
<1> QED
    BY <1>2, <1>3, <1>4, <1>5, <1>6, <1>7 DEF Sizes

LEMMA SizesNext == Sound /\ Sound' /\ Sizes /\ [Next]_vars => Sizes'
<1> SUFFICES ASSUME Sound, Sound', Sizes, [Next]_vars PROVE Sizes'
    OBVIOUS
<1>1. ASSUME NEW t \in Thread, NEW p \in Path,
             \/ \E trunc, create \in BOOLEAN : Open(t, p, trunc, create)
             \/ \E n \in 0 .. Size : Truncate(t, p, n)
             \/ Unlink(t, p)
      PROVE  Sizes'
    BY <1>1, OpenSized, TruncateSized, UnlinkSized
<1>2. ASSUME NEW t \in Thread, NEW h \in Handle,
             \/ \E off \in 0 .. Size - 1 : Loads(t, "read", h, off) \/ Loads(t, "write", h, off) \/ WriteLoaded(t, h, off)
             \/ Release(t, h)
      PROVE  Sizes'
    BY <1>2, LoadsSized, WriteLoadedSized, ReleaseSized
<1>3. ASSUME NEW t \in Thread, UploadStart(t) \/ SendChunk(t) \/ Answered(t) \/ GivesUp(t)
      PROVE  Sizes'
    BY <1>3, UploadStartSized, SendChunkSized, AnsweredSized, GivesUpSized
<1>4. ASSUME NEW c \in Client, Deliver(c) \/ Closed(c) \/ SignallingLost(c) \/ HostTakes(c) \/ HostReads(c)
      PROVE  Sizes'
    BY <1>4, DeliverSized, ClosedSized, SignallingLostSized, HostTakesSized, HostReadsSized
<1>5. CASE UNCHANGED vars
    BY <1>5, StillSized DEF vars, handles, waiting, chan, host
<1> QED
    BY <1>1, <1>2, <1>3, <1>4, <1>5, HostChangesSized DEF Next

LEMMA SmallContent ==
    ASSUME NEW data \in Seq(Cell), Len(data) <= Size
    PROVE  data \in Content
<1>1. Len(data) \in 0 .. Size
    BY WebFilesAssumption
<1>2. data \in [1 .. Len(data) -> Cell]
    OBVIOUS
<1> QED
    BY <1>1, <1>2 DEF Content

\* The mounts' files (web_compat.cpp) stay within their bounds: what threads write, fetch, resize and upload,
\* and what the host stores and sends, is never longer than the file it belongs to may be, though the
\* host adds chunks to whatever it has of an id; every handle is a new one.
THEOREM FilesStaySmall == Spec /\ []Apart => []TypeOK
<1>2. ASSUME Sound, Sizes
      PROVE  TypeOK
    <2>1. Types /\ Size \in Nat /\ MaxCalls \in Nat /\ calls \in 0 .. MaxCalls
        BY <1>2, SoundTypes
    <2>2. nextFh \in [Client -> 1 .. MaxCalls + 2]
        <3>1. ASSUME NEW c \in Client
              PROVE  nextFh[c] \in 1 .. MaxCalls + 2
            <4>1. nextFh[c] >= 1 /\ nextFh[c] + Cardinality(Opening(c)) <= calls + 2 /\ IsFiniteSet(Opening(c))
                BY <1>2 DEF Sizes, Opened
            <4>2. nextFh[c] \in Nat /\ Cardinality(Opening(c)) \in Nat
                BY <1>2, <4>1, SoundTypes, FS_CardinalityType
            <4> QED
                BY <2>1, <4>1, <4>2
        <3>2. nextFh \in [Client -> Nat]
            BY <2>1 DEF Types, ClientTypes
        <3> QED
            BY <3>1, <3>2
    <2>3. ASSUME NEW c \in Client, NEW h \in Handle, fhs[c][h] # NoFh
          PROVE  /\ fhs[c][h].path \in Path /\ fhs[c][h].data \in Content
                 /\ {fhs[c][h].loaded, fhs[c][h].dirty} \subseteq BOOLEAN
        <3>1. fhs[c][h] \in FhState
            BY <2>1, <2>3, HandleState
        <3>2. fhs[c][h].data \in Seq(Cell) /\ Len(fhs[c][h].data) <= Size
            BY <1>2, <3>1 DEF Sizes, BuffersSmall, FhState
        <3> QED
            BY <3>1, <3>2, SmallContent DEF FhState
    <2>4. file \in [Path -> Content \cup {Absent}]
        <3>1. ASSUME NEW p \in Path
              PROVE  file[p] \in Content \cup {Absent}
            BY <1>2, <2>1, FileType, SmallContent DEF Sizes, FileSmall
        <3>2. file \in [Path -> Seq(Cell) \cup {Absent}]
            BY <2>1 DEF Types, HostTypes
        <3> QED
            BY <3>1, <3>2
    <2>5. \A t \in Thread : th[t].pc \in {"idle", "attr", "simple", "file", "upload", "ready", "chunks", "ending"}
        <3>1. \A t \in Thread : th[t] \in CallState \/ th[t] = Idle
            BY <2>1 DEF Types, ClientTypes
        <3> QED
            BY <3>1 DEF CallState, Working, Idle
    <2>6. \A v \in {open, dead, canRange} : v \in [Client -> BOOLEAN]
        BY <2>1 DEF Types, ClientTypes
    <2>7. nextId \in [Client -> Nat] /\ \A u, v \in uploads : u.id = v.id => u = v
        BY <2>1 DEF Types, ClientTypes, HostTypes
    <2> QED
        BY <2>1, <2>2, <2>3, <2>4, <2>5, <2>6, <2>7 DEF TypeOK
<1>3. Init => SavedInv /\ CallsInv
    BY SavedInit, CallsInit
<1>4. SavedInv /\ CallsInv /\ Apart /\ Apart' /\ [Next]_vars => SavedInv' /\ CallsInv'
    BY SavedNext, CallsNext
<1>5. SavedInv /\ CallsInv /\ Apart /\ Apart' /\ SavedInv' /\ CallsInv' /\ Sizes /\ [Next]_vars => Sizes'
    BY SizesNext DEF Sound
<1>6. SavedInv /\ CallsInv /\ Apart /\ Sizes => TypeOK
    BY <1>2 DEF Sound
<1> QED
    BY <1>3, <1>4, <1>5, <1>6, SizesInit, PTL DEF Spec

\* A single mount gives every id out once, and so stays within its bounds.
THEOREM OneMountStaysSmall ==
    ASSUME \A c, d \in Client : c = d
    PROVE  Spec => []TypeOK
<1>1. Apart
    BY DEF Apart
<1> QED
    BY <1>1, FilesStaySmall, PTL

(****************************** the host's peers ***************************)

NewsItem == [kind : {"joined", "left", "signal"}, peer : Peer]
Doing == [pc : {"make", "start", "keep", "close"}, peer : Peer]

NewsTypes ==
    /\ relay \in {"cloud", "firebase"} /\ where \in [Peer -> {"out", "in", "left"}]
    /\ said \subseteq Peer /\ room \in [clients : SUBSET Peer, signals : SUBSET Peer]
    /\ seenClients \subseteq Peer /\ seenSignals \subseteq Peer /\ poll \in {"clients", "signals"}
    /\ inbox \in Seq(NewsItem)

ThreadTypes ==
    /\ hand \in Doing \cup {[pc |-> "idle"]}
    /\ timer \in [Peer -> {"none", "sleeping", "decided", "done"}]
    /\ live \in BOOLEAN /\ stop \in {"no", "closing", "join", "close", "done"}

\* A connection is kept under the name of its peer.
PeerTypes ==
    /\ pcs \in [Peer -> Inst \cup {None}] /\ channels = pcs /\ closing \subseteq Inst
    /\ quicPeers \subseteq Peer /\ endpoint \in [Peer -> {"none", "up", "closed"}]
    /\ departedPeers \subseteq Peer /\ stopped \subseteq Peer
    /\ offered \subseteq Peer /\ refused \subseteq Peer
    /\ \A p \in Peer : pcs[p] # None => pcs[p][1] = p

CountTypes == owed \in Nat /\ shown \in 0 .. Cardinality(Peer) /\ handled \in [Peer -> Nat]

PeersTyped == NewsTypes /\ ThreadTypes /\ PeerTypes /\ CountTypes

\* What was said reaches the signalling thread from a peer that was found to have said it, and once.
Given == IF relay = "cloud" THEN said ELSE seenSignals

SaidOnce ==
    /\ \A p \in Peer : handled[p] \in 0 .. 1 /\ (handled[p] > 0 => p \in Given)
    /\ \A i \in DOMAIN inbox : inbox[i].kind = "signal" =>
          inbox[i].peer \in Given /\ handled[inbox[i].peer] = 0
    /\ \A i, j \in DOMAIN inbox :
          inbox[i].kind = "signal" /\ inbox[j].kind = "signal" /\ inbox[i].peer = inbox[j].peer => i = j

\* A host that stops is not live again, and has taken no endpoints before it clears its maps.
StopsForGood ==
    /\ live => stop = "no"
    /\ stop \in {"no", "closing"} => stopped = {}

\* What the database and the host know of a peer is so.
Known ==
    /\ relay = "firebase" => room.clients = {p \in Peer : where[p] = "in"}
    /\ \A p \in seenClients : where[p] # "out"
    /\ \A i \in DOMAIN inbox : inbox[i].kind = "left" => where[inbox[i].peer] = "left"
    /\ \A p \in departedPeers : where[p] = "left"
    /\ room.signals \subseteq said /\ seenSignals \subseteq said
    /\ \A p \in said : where[p] # "out"

\* Whom the host has a connection for got an offer, and endpoints are for those who ask for them.
Had ==
    /\ \A p \in Peer : pcs[p] # None => p \in offered
    /\ \A p \in quicPeers : Says[p] = "quic"
    /\ hand.pc \in {"start", "keep"} => Says[hand.peer] = "quic"

PeersInv == PeersTyped /\ SaidOnce /\ StopsForGood /\ Known /\ Had
                /\ StoppedIsEmpty /\ CountDue /\ NobodyForgotten

(*********************************** lists *********************************)

\* A connection is no tuple without components.
LEMMA Connections ==
    /\ None \notin Inst
    /\ \A c \in Inst : c[1] \in Peer
    /\ \A p \in Peer : <<p, "timer">> \in Inst /\ <<p, "hello">> \in Inst
    /\ \A p \in Peer : <<p, "timer">>[1] = p /\ <<p, "hello">>[1] = p
  BY DEF Inst, None

\* A news has a kind and a peer.
LEMMA NewsFields ==
    /\ \A k \in {"joined", "left", "signal"}, p \in Peer : News(k, p) \in NewsItem
    /\ \A k, p : News(k, p).kind = k /\ News(k, p).peer = p
    /\ \A n \in NewsItem : n.kind \in {"joined", "left", "signal"} /\ n.peer \in Peer
                               /\ n = News(n.kind, n.peer)
  BY DEF News, NewsItem

\* Append leaves what is there and adds at the end.
LEMMA NewsAdded ==
    ASSUME NEW q \in Seq(NewsItem), NEW n \in NewsItem
    PROVE  /\ Append(q, n) \in Seq(NewsItem)
           /\ \A i \in DOMAIN Append(q, n) : \/ i \in DOMAIN q /\ Append(q, n)[i] = q[i]
                                             \/ i = Len(q) + 1 /\ Append(q, n)[i] = n
           /\ \A i \in DOMAIN q : i \in DOMAIN Append(q, n) /\ Append(q, n)[i] = q[i]
           /\ Len(q) + 1 \in DOMAIN Append(q, n) /\ Append(q, n)[Len(q) + 1] = n
  OBVIOUS

\* Tail takes the first away.
LEMMA NewsTaken ==
    ASSUME NEW q \in Seq(NewsItem), q # <<>>
    PROVE  /\ Head(q) = q[1] /\ 1 \in DOMAIN q /\ q[1] \in NewsItem /\ Tail(q) \in Seq(NewsItem)
           /\ \A i \in DOMAIN Tail(q) : i \in Nat /\ i >= 1 /\ i + 1 \in DOMAIN q /\ Tail(q)[i] = q[i + 1]
           /\ \A i \in DOMAIN q : i = 1 \/ (i - 1 \in DOMAIN Tail(q) /\ Tail(q)[i - 1] = q[i])
  OBVIOUS

\* A list of a finite set has each of its members once.
LEMMA Listed ==
    ASSUME NEW S \in SUBSET Peer, IsFiniteSet(S), NEW k \in {"joined", "left", "signal"},
           NEW f \in All(k, S)
    PROVE  /\ f \in Seq(NewsItem)
           /\ \A i \in DOMAIN f : f[i].kind = k /\ f[i].peer \in S
           /\ \A i, j \in DOMAIN f : f[i].peer = f[j].peer => i = j
           /\ \A p \in S : \E i \in DOMAIN f : f[i] = News(k, p)
<1>1. PICK q \in SetToSeqs(S) : f = [i \in 1 .. Cardinality(S) |-> News(k, q[i])]
  BY DEF All
<1> DEFINE D == 1 .. Cardinality(S)
<1>2. Cardinality(S) \in Nat
  BY FS_CardinalityType
<1>3. q \in [D -> S] /\ \A i, j \in D : i # j => q[i] # q[j]
  BY DEF SetToSeqs
<1>4. q \in Injection(D, S)
  BY <1>3 DEF Injection, IsInjective
<1>5. Cardinality(D) = Cardinality(S) /\ IsFiniteSet(D)
  <2>1. Cardinality(D) = IF 1 > Cardinality(S) THEN 0 ELSE Cardinality(S) - 1 + 1
    BY <1>2, FS_Interval, 1 \in Int, Cardinality(S) \in Int
  <2>2. QED
    BY <2>1, <1>2, FS_Interval, 1 \in Int, Cardinality(S) \in Int
<1> HIDE DEF D
<1>6. q \in Surjection(D, S)
  BY <1>4, <1>5, FS_Injection
<1>7. DOMAIN f = D /\ \A i \in D : f[i] = News(k, q[i]) /\ q[i] \in S
  BY <1>1, <1>3 DEF D
<1>8. f \in Seq(NewsItem)
  <2>1. \A i \in D : News(k, q[i]) \in NewsItem
    BY <1>7, NewsFields
  <2>2. QED
    BY <2>1, <1>1, <1>2 DEF D
<1>9. \A i \in D : f[i].kind = k /\ f[i].peer = q[i]
  BY <1>7, NewsFields
<1>10. \A i, j \in D : f[i].peer = f[j].peer => i = j
  BY <1>9, <1>3
<1>11. ASSUME NEW p \in S
       PROVE  \E i \in D : f[i] = News(k, p)
  <2>1. PICK i \in D : q[i] = p
    BY <1>6 DEF Surjection
  <2>2. QED
    BY <2>1, <1>7
<1>12. QED
  BY <1>7, <1>8, <1>9, <1>10, <1>11

\* One list after the other has the elements of both.
LEMMA NewsJoined ==
    ASSUME NEW f \in Seq(NewsItem), NEW g \in Seq(NewsItem)
    PROVE  /\ f \o g \in Seq(NewsItem)
           /\ \A i \in DOMAIN (f \o g) : \/ i \in DOMAIN f /\ (f \o g)[i] = f[i]
                                         \/ \E j \in DOMAIN g : (f \o g)[i] = g[j]
           /\ \A i \in DOMAIN f : i \in DOMAIN (f \o g) /\ (f \o g)[i] = f[i]
<1>1. f \o g \in Seq(NewsItem) /\ Len(f \o g) = Len(f) + Len(g)
  OBVIOUS
<1>2. \A i \in 1 .. Len(f) + Len(g) : (f \o g)[i] = IF i <= Len(f) THEN f[i] ELSE g[i - Len(f)]
  OBVIOUS
<1>3. ASSUME NEW i \in DOMAIN (f \o g), i \notin DOMAIN f
      PROVE  \E j \in DOMAIN g : (f \o g)[i] = g[j]
  <2>1. i - Len(f) \in DOMAIN g /\ (f \o g)[i] = g[i - Len(f)]
    BY <1>1, <1>2, <1>3
  <2>2. QED
    BY <2>1
<1>4. QED
  BY <1>1, <1>2, <1>3

\* What the signalling thread takes is the first of its news, which goes.
LEMMA TakesFirst ==
    ASSUME NewsTypes, NEW k, Takes(k)
    PROVE  /\ inbox' = Tail(inbox) /\ inbox' \in Seq(NewsItem) /\ hand.pc = "idle"
           /\ Head(inbox).kind = k /\ Head(inbox).peer \in Peer
           /\ 1 \in DOMAIN inbox /\ Head(inbox) = inbox[1] /\ inbox[1] = News(k, Head(inbox).peer)
           /\ \A i \in DOMAIN inbox' : i \in Nat /\ i >= 1 /\ i + 1 \in DOMAIN inbox /\ inbox'[i] = inbox[i + 1]
           /\ \A i \in DOMAIN inbox : i = 1 \/ (i - 1 \in DOMAIN inbox' /\ inbox'[i - 1] = inbox[i])
<1>1. inbox \in Seq(NewsItem) /\ inbox # <<>> /\ inbox' = Tail(inbox) /\ Head(inbox).kind = k
  BY DEF NewsTypes, Takes
<1>2. Head(inbox) = inbox[1] /\ inbox[1] \in NewsItem
  BY <1>1, NewsTaken
<1>3. Head(inbox).peer \in Peer /\ inbox[1] = News(k, Head(inbox).peer)
  BY <1>1, <1>2, NewsFields
<1>4. QED
  BY <1>1, <1>2, <1>3, NewsTaken DEF Takes

\* What is new to the poller is finite.
LEMMA NewFinite ==
    ASSUME NEW S \in SUBSET Peer
    PROVE  IsFiniteSet(S) /\ Cardinality(S) \in 0 .. Cardinality(Peer)
  BY FS_Subset, FS_CardinalityType, WebPeersAssumption

\* The news of a poll of the clients: the ones who joined, then the ones who left.
LEMMA PolledClients ==
    ASSUME NewsTypes, PollClients, room.clients # {}
    PROVE  /\ inbox' \in Seq(NewsItem) /\ seenClients' = room.clients
           /\ \A i \in DOMAIN inbox' : \/ inbox'[i].kind = "joined"
                                       \/ inbox'[i].kind = "left" /\ inbox'[i].peer \in seenClients \ room.clients
           /\ \A p \in room.clients \ seenClients : \E i \in DOMAIN inbox' : inbox'[i] = News("joined", p)
<1> DEFINE J == room.clients \ seenClients
           L == seenClients \ room.clients
<1>0. seenClients' = room.clients
  BY DEF PollClients
<1>1. J \in SUBSET Peer /\ L \in SUBSET Peer
  BY DEF NewsTypes
<1>2. PICK j \in All("joined", J), l \in All("left", L) : inbox' = j \o l
  BY DEF PollClients
<1>3. /\ j \in Seq(NewsItem) /\ \A i \in DOMAIN j : j[i].kind = "joined"
      /\ \A p \in J : \E i \in DOMAIN j : j[i] = News("joined", p)
  BY <1>1, NewFinite, Listed
<1>4. l \in Seq(NewsItem) /\ \A i \in DOMAIN l : l[i].kind = "left" /\ l[i].peer \in L
  BY <1>1, NewFinite, Listed
<1> HIDE DEF J, L
<1>5. /\ inbox' \in Seq(NewsItem)
      /\ \A i \in DOMAIN inbox' : \/ i \in DOMAIN j /\ inbox'[i] = j[i]
                                 \/ \E m \in DOMAIN l : inbox'[i] = l[m]
      /\ \A i \in DOMAIN j : i \in DOMAIN inbox' /\ inbox'[i] = j[i]
  BY <1>2, <1>3, <1>4, NewsJoined
<1>6. \A i \in DOMAIN inbox' : \/ inbox'[i].kind = "joined"
                               \/ inbox'[i].kind = "left" /\ inbox'[i].peer \in L
  BY <1>3, <1>4, <1>5
<1>7. \A p \in J : \E i \in DOMAIN inbox' : inbox'[i] = News("joined", p)
  BY <1>3, <1>5
<1>8. QED
  BY <1>5, <1>6, <1>7, <1>0 DEF J, L

\* A poll of the signals hands over each that was not seen, once.
LEMMA PolledSignals ==
    ASSUME NewsTypes, PollSignals
    PROVE  LET new == room.signals \ seenSignals
           IN  /\ inbox' \in Seq(NewsItem) /\ seenSignals' = seenSignals \cup new
               /\ \A i \in DOMAIN inbox' : inbox'[i].kind = "signal" /\ inbox'[i].peer \in new
               /\ \A i, j \in DOMAIN inbox' : inbox'[i].peer = inbox'[j].peer => i = j
               /\ \A p \in new : \E i \in DOMAIN inbox' : inbox'[i] = News("signal", p)
               /\ room' \in [clients : SUBSET Peer, signals : SUBSET Peer]
               /\ room'.clients = room.clients /\ room'.signals \subseteq room.signals
<1> DEFINE new == room.signals \ seenSignals
<1>1. new \in SUBSET Peer
  BY DEF NewsTypes
<1>2. inbox' \in All("signal", new)
  BY DEF PollSignals
<1>3. PICK f \in All("signal", new) : inbox' = f
  BY <1>2
<1>4. /\ f \in Seq(NewsItem)
      /\ \A i \in DOMAIN f : f[i].kind = "signal" /\ f[i].peer \in new
      /\ \A i, j \in DOMAIN f : f[i].peer = f[j].peer => i = j
      /\ \A p \in new : \E i \in DOMAIN f : f[i] = News("signal", p)
  BY <1>1, NewFinite, Listed
<1>5. PICK stay \in SUBSET new : room' = [room EXCEPT !.signals = (@ \ new) \cup stay]
  BY DEF PollSignals
<1>6. /\ room' \in [clients : SUBSET Peer, signals : SUBSET Peer]
      /\ room'.clients = room.clients /\ room'.signals \subseteq room.signals
  BY <1>5, <1>1 DEF NewsTypes
<1>7. seenSignals' = seenSignals \cup new
  BY DEF PollSignals, Remembered
<1>8. QED
  BY <1>3, <1>4, <1>6, <1>7

(********************************** types **********************************)

\* What was connected before and what is connected then, when one connection is made or dropped.
LEMMA ConnectionPut ==
    ASSUME PeerTypes, NEW p \in Peer, NEW c \in Inst \cup {None}, c # None => c[1] = p,
           pcs' = [pcs EXCEPT ![p] = c], channels' = [channels EXCEPT ![p] = c],
           NEW rest \in SUBSET Inst, closing' = (closing \cup ({pcs[p]} \ {None})) \ rest
    PROVE  /\ pcs' \in [Peer -> Inst \cup {None}] /\ channels' = pcs' /\ closing' \subseteq Inst
           /\ \A r \in Peer : pcs'[r] # None => pcs'[r][1] = r
           /\ \A r \in Peer : pcs'[r] = IF r = p THEN c ELSE pcs[r]
  BY DEF PeerTypes

\* The end of create_peer.
LEMMA InstallType ==
    ASSUME PeerTypes, owed \in Nat, NEW c \in Inst, Install(c)
    PROVE  /\ pcs' \in [Peer -> Inst \cup {None}] /\ channels' = pcs' /\ closing' \subseteq Inst
           /\ \A r \in Peer : pcs'[r] # None => pcs'[r][1] = r
           /\ offered \subseteq offered' /\ offered' \subseteq Peer /\ owed' \in Nat
<1>1. c[1] \in Peer /\ c # None
  BY Connections
<1>2. CASE live
  <2>1. /\ pcs' = [pcs EXCEPT ![c[1]] = c] /\ channels' = [channels EXCEPT ![c[1]] = c]
        /\ closing' = closing \cup ({pcs[c[1]]} \ {None})
        /\ owed' = owed + Change(c[1]) /\ offered' = offered \cup {c[1]}
    BY <1>2 DEF Install, StillLive
  <2>2. closing' = (closing \cup ({pcs[c[1]]} \ {None})) \ {}
    BY <2>1
  <2>3. /\ pcs' \in [Peer -> Inst \cup {None}] /\ channels' = pcs' /\ closing' \subseteq Inst
        /\ \A r \in Peer : pcs'[r] # None => pcs'[r][1] = r
    BY <1>1, <2>1, <2>2, ConnectionPut, {} \in SUBSET Inst
  <2>4. owed' \in Nat
    BY <2>1 DEF Change
  <2>5. offered \subseteq offered' /\ offered' \subseteq Peer
    BY <2>1, <1>1 DEF PeerTypes
  <2>6. QED
    BY <2>3, <2>4, <2>5
<1>3. CASE ~ live
  BY <1>3 DEF Install, StillLive, PeerTypes
<1>4. QED
  BY <1>2, <1>3

LEMMA DoingType ==
    /\ \A pc \in {"make", "start", "keep", "close"}, p \in Peer : [pc |-> pc, peer |-> p] \in Doing
    /\ \A h \in Doing : h.pc \in {"make", "start", "keep", "close"} /\ h.peer \in Peer
    /\ \A h \in Doing : h.pc # "idle"
    /\ [pc |-> "idle"].pc = "idle"
  BY DEF Doing

\* A thread that is not idle is busy for a peer.
LEMMA Busies ==
    ASSUME ThreadTypes
    PROVE  hand.pc # "idle" => hand \in Doing /\ hand.peer \in Peer
  BY DoingType DEF ThreadTypes

LEMMA NewsTypesKept ==
    ASSUME PeersTyped, [PeersNext]_peersVars
    PROVE  NewsTypes'
<1> USE DEF PeersTyped
<1>1. CASE PollClients
  <2>1. CASE room.clients = {}
    BY <1>1, <2>1 DEF PollClients, NewsTypes, outside
  <2>2. CASE room.clients # {}
    <3>1. inbox' \in Seq(NewsItem) /\ seenClients' = room.clients
      BY <1>1, <2>2, PolledClients
    <3>2. poll' = "signals" /\ UNCHANGED <<relay, where, said, room, seenSignals>>
      BY <1>1 DEF PollClients, outside
    <3>3. room.clients \subseteq Peer
      BY DEF NewsTypes
    <3>4. QED
      BY <3>1, <3>2, <3>3 DEF NewsTypes
  <2>3. QED
    BY <2>1, <2>2
<1>2. CASE PollSignals
  <2>1. /\ inbox' \in Seq(NewsItem) /\ seenSignals' = seenSignals \cup (room.signals \ seenSignals)
        /\ room' \in [clients : SUBSET Peer, signals : SUBSET Peer]
    BY <1>2, PolledSignals
  <2>2. poll' = "clients" /\ UNCHANGED <<relay, where, said, seenClients>>
    BY <1>2 DEF PollSignals
  <2>3. room.signals \subseteq Peer
    BY DEF NewsTypes
  <2>4. QED
    BY <2>1, <2>2, <2>3 DEF NewsTypes
<1>3. ASSUME NEW k, Takes(k), UNCHANGED <<relay, where, said, room, seenClients, seenSignals, poll>>
      PROVE  NewsTypes'
  <2>1. inbox' \in Seq(NewsItem)
    BY <1>3, TakesFirst
  <2>2. QED
    BY <2>1, <1>3 DEF NewsTypes
<1>4. CASE ClientJoined \/ ClientLeft \/ Signal
  <2>1. /\ Takes("joined") \/ Takes("left") \/ Takes("signal")
        /\ UNCHANGED <<relay, where, said, room, seenClients, seenSignals, poll>>
    BY <1>4 DEF ClientJoined, ClientLeft, Signal, outside
  <2>2. QED
    BY <2>1, <1>3
<1>5. CASE \E p \in Peer : Join(p) \/ Say(p) \/ Leave(p)
  <2>1. PICK p \in Peer : Join(p) \/ Say(p) \/ Leave(p)
    BY <1>5
  <2>2. where' \in [Peer -> {"out", "in", "left"}] /\ said' \subseteq Peer
    BY <2>1 DEF Join, Say, Leave, NewsTypes
  <2>3. room' \in [clients : SUBSET Peer, signals : SUBSET Peer]
    <3>1. /\ \A r \in [clients : SUBSET Peer, signals : SUBSET Peer] :
             /\ [r EXCEPT !.clients = @ \cup {p}] \in [clients : SUBSET Peer, signals : SUBSET Peer]
             /\ [r EXCEPT !.clients = @ \ {p}] \in [clients : SUBSET Peer, signals : SUBSET Peer]
             /\ [r EXCEPT !.signals = @ \cup {p}] \in [clients : SUBSET Peer, signals : SUBSET Peer]
      OBVIOUS
    <3>2. \/ room' = room
          \/ room' = [room EXCEPT !.clients = @ \cup {p}]
          \/ room' = [room EXCEPT !.clients = @ \ {p}]
          \/ room' = [room EXCEPT !.signals = @ \cup {p}]
      BY <2>1 DEF Join, Say, Leave
    <3>3. QED
      BY <3>1, <3>2 DEF NewsTypes
  <2>4. inbox' \in Seq(NewsItem)
    <3>1. \/ inbox' = inbox
          \/ \E k \in {"joined", "left", "signal"} : inbox' = Append(inbox, News(k, p))
      BY <2>1 DEF Join, Say, Leave
    <3>2. \A k \in {"joined", "left", "signal"} : Append(inbox, News(k, p)) \in Seq(NewsItem)
      BY NewsFields, NewsAdded DEF NewsTypes
    <3>3. QED
      BY <3>1, <3>2 DEF NewsTypes
  <2>5. UNCHANGED <<relay, seenClients, seenSignals, poll>>
    BY <2>1 DEF Join, Say, Leave
  <2>6. QED
    BY <2>2, <2>3, <2>4, <2>5 DEF NewsTypes
<1>6. CASE UNCHANGED <<relay, where, said, room, seenClients, seenSignals, poll, inbox>>
  BY <1>6 DEF NewsTypes
<1>7. CASE HelloMakes \/ QuicStarts \/ QuicKeeps \/ QuicCloses \/ SocketClosed \/ Stop
              \/ StopClears \/ StopJoins \/ StopCloses \/ Notified
  BY <1>6, <1>7 DEF HelloMakes, QuicStarts, QuicKeeps, QuicCloses, SocketClosed, Stop, StopClears, StopJoins,
               StopCloses, Notified, outside, news
<1>8. CASE (\E p \in Peer : TimerWakes(p) \/ TimerMakes(p)) \/ (\E c \in Inst : OnClosed(c))
  BY <1>6, <1>8 DEF TimerWakes, TimerMakes, OnClosed, outside, news
<1>9. CASE UNCHANGED peersVars
  BY <1>6, <1>9 DEF peersVars, outside, news
<1>10. CASE PollFails
  BY <1>10 DEF PollFails, NewsTypes, outside
<1>11. QED
  BY <1>1, <1>2, <1>4, <1>5, <1>7, <1>8, <1>9, <1>10 DEF PeersNext, Signalling, Stopping

LEMMA ThreadTypesKept ==
    ASSUME PeersTyped, [PeersNext]_peersVars
    PROVE  ThreadTypes'
<1>1. CASE UNCHANGED <<hand, timer, live, stop>>
  BY <1>1 DEF PeersTyped, ThreadTypes
<1>2. CASE PollFails \/ PollClients \/ PollSignals \/ Notified \/ (\E c \in Inst : OnClosed(c))
              \/ (\E p \in Peer : Join(p) \/ Say(p) \/ Leave(p)) \/ UNCHANGED peersVars
  BY <1>1, <1>2 DEF PollFails, PollClients, PollSignals, Notified, OnClosed, Join, Say, Leave, peersVars
<1>3. CASE SocketClosed \/ Stop \/ StopClears \/ StopJoins \/ StopCloses
  BY <1>3 DEF SocketClosed, Stop, StopClears, StopJoins, StopCloses, PeersTyped, ThreadTypes
<1>4. ASSUME NEW p \in Peer, TimerWakes(p) \/ TimerMakes(p)
      PROVE  ThreadTypes'
  BY <1>4 DEF TimerWakes, TimerMakes, PeersTyped, ThreadTypes
<1>5. CASE ClientJoined
  <2>1. Takes("joined")
    BY <1>5 DEF ClientJoined
  <2>2. Head(inbox).peer \in Peer
    BY <2>1, TakesFirst DEF PeersTyped
  <2>3. /\ timer' = timer \/ timer' = [timer EXCEPT ![Head(inbox).peer] = "sleeping"]
        /\ UNCHANGED <<hand, live, stop>>
    BY <1>5 DEF ClientJoined
  <2>4. QED
    BY <2>2, <2>3 DEF PeersTyped, ThreadTypes
<1>6. CASE ClientLeft \/ Signal
  <2>1. Takes("left") \/ Takes("signal")
    BY <1>6 DEF ClientLeft, Signal
  <2>2. Head(inbox).peer \in Peer
    BY <2>1, TakesFirst DEF PeersTyped
  <2>3. /\ \/ hand' = hand
           \/ \E pc \in {"make", "start", "keep", "close"} : hand' = [pc |-> pc, peer |-> Head(inbox).peer]
        /\ UNCHANGED <<timer, live, stop>>
    BY <1>6 DEF ClientLeft, Signal, Busy
  <2>4. hand' \in Doing \cup {[pc |-> "idle"]}
    BY <2>2, <2>3, DoingType DEF PeersTyped, ThreadTypes
  <2>5. QED
    BY <2>3, <2>4 DEF PeersTyped, ThreadTypes
<1>7. CASE HelloMakes \/ QuicStarts \/ QuicKeeps \/ QuicCloses
  <2>1. hand.pc # "idle"
    BY <1>7 DEF HelloMakes, QuicStarts, QuicKeeps, QuicCloses
  <2>2. hand.peer \in Peer
    BY <2>1, Busies DEF PeersTyped
  <2>3. /\ \/ hand' = [pc |-> "idle"]
           \/ \E pc \in {"make", "start", "keep", "close"} : hand' = [pc |-> pc, peer |-> hand.peer]
        /\ UNCHANGED <<timer, live, stop>>
    BY <1>7 DEF HelloMakes, QuicStarts, QuicKeeps, QuicCloses, Busy, Free
  <2>4. hand' \in Doing \cup {[pc |-> "idle"]}
    BY <2>2, <2>3, DoingType
  <2>5. QED
    BY <2>3, <2>4 DEF PeersTyped, ThreadTypes
<1>8. QED
  BY <1>2, <1>3, <1>4, <1>5, <1>6, <1>7 DEF PeersNext, Signalling, Stopping

\* A client that leaves, and a channel that closes.
LEMMA DropType ==
    ASSUME PeersTyped, NEW p \in Peer, NEW rest \in SUBSET Inst,
           pcs' = [pcs EXCEPT ![p] = None], channels' = [channels EXCEPT ![p] = None],
           closing' = (closing \cup ({pcs[p]} \ {None})) \ rest,
           quicPeers' \subseteq quicPeers, departedPeers' \subseteq departedPeers \cup {p},
           UNCHANGED <<endpoint, stopped, offered, refused>>
    PROVE  PeerTypes'
<1>1. /\ pcs' \in [Peer -> Inst \cup {None}] /\ channels' = pcs' /\ closing' \subseteq Inst
      /\ \A r \in Peer : pcs'[r] # None => pcs'[r][1] = r
  BY ConnectionPut, None \in Inst \cup {None} DEF PeersTyped
<1>2. QED
  BY <1>1 DEF PeersTyped, PeerTypes

LEMMA PeerTypesKept ==
    ASSUME PeersTyped, [PeersNext]_peersVars
    PROVE  PeerTypes'
<1>1. CASE UNCHANGED <<maps, stopped, offered, refused>>
  BY <1>1 DEF PeersTyped, PeerTypes, maps
<1>2. CASE PollFails \/ PollClients \/ PollSignals \/ SocketClosed \/ Stop \/ StopJoins \/ Notified \/ Signal
              \/ UNCHANGED peersVars
  BY <1>1, <1>2 DEF PollFails, PollClients, PollSignals, SocketClosed, Stop, StopJoins, Notified, Signal, peersVars, ghosts
<1>3. CASE \E p \in Peer : Join(p) \/ Say(p) \/ Leave(p) \/ TimerWakes(p)
  BY <1>1, <1>3 DEF Join, Say, Leave, TimerWakes, ghosts
<1>4. ASSUME NEW c \in Inst, Install(c), UNCHANGED <<quicPeers, endpoint, departedPeers, stopped, refused>>
      PROVE  PeerTypes'
  <2>1. /\ pcs' \in [Peer -> Inst \cup {None}] /\ channels' = pcs' /\ closing' \subseteq Inst
        /\ \A r \in Peer : pcs'[r] # None => pcs'[r][1] = r
        /\ offered' \subseteq Peer
    BY <1>4, InstallType DEF PeersTyped, CountTypes
  <2>2. QED
    BY <2>1, <1>4 DEF PeersTyped, PeerTypes
<1>5. ASSUME NEW p \in Peer, TimerMakes(p)
      PROVE  PeerTypes'
  BY <1>4, <1>5, Connections DEF TimerMakes
<1>6. CASE HelloMakes
  <2>1. hand.peer \in Peer
    BY <1>6, Busies DEF HelloMakes, PeersTyped
  <2>2. QED
    BY <1>4, <1>6, <2>1, Connections DEF HelloMakes
<1>7. ASSUME NEW c \in Inst, OnClosed(c)
      PROVE  PeerTypes'
  <2>1. c[1] \in Peer /\ {c} \in SUBSET Inst
    BY Connections
  <2>2. /\ pcs' = [pcs EXCEPT ![c[1]] = None] /\ channels' = [channels EXCEPT ![c[1]] = None]
        /\ closing' = (closing \cup ({pcs[c[1]]} \ {None})) \ {c}
        /\ UNCHANGED <<quicPeers, endpoint, departedPeers, stopped, offered, refused>>
    BY <1>7 DEF OnClosed, ghosts
  <2>3. QED
    BY <2>1, <2>2, DropType
<1>8. CASE ClientJoined
  <2>1. Head(inbox).peer \in Peer
    BY <1>8, TakesFirst DEF ClientJoined, PeersTyped
  <2>2. QED
    BY <1>8, <2>1 DEF ClientJoined, PeersTyped, PeerTypes, ghosts
<1>9. CASE ClientLeft
  <2>1. Head(inbox).peer \in Peer
    BY <1>9, TakesFirst DEF ClientLeft, PeersTyped
  <2> DEFINE p == Head(inbox).peer
  <2>2. /\ pcs' = [pcs EXCEPT ![p] = None] /\ channels' = [channels EXCEPT ![p] = None]
        /\ closing' = closing \cup ({pcs[p]} \ {None})
        /\ quicPeers' = quicPeers \ {p} /\ departedPeers' = departedPeers \cup {p}
        /\ UNCHANGED <<endpoint, stopped, offered, refused>>
    BY <1>9 DEF ClientLeft, ghosts
  <2>3. closing' = (closing \cup ({pcs[p]} \ {None})) \ {} /\ {} \in SUBSET Inst
    BY <2>2
  <2>4. PICK r \in Peer : r = p
    BY <2>1
  <2> HIDE DEF p
  <2>5. QED
    BY <2>2, <2>3, <2>4, DropType
<1>10. CASE QuicStarts \/ QuicKeeps \/ QuicCloses
  <2>1. hand.peer \in Peer
    BY <1>10, Busies DEF QuicStarts, QuicKeeps, QuicCloses, PeersTyped
  <2>2. QED
    BY <1>10, <2>1 DEF QuicStarts, QuicKeeps, QuicCloses, PeersTyped, PeerTypes, ghosts
<1>11. CASE StopClears
  <2>1. /\ pcs' = [p \in Peer |-> None] /\ channels' = pcs'
        /\ closing' = closing \cup {pcs[p] : p \in Clients}
        /\ stopped' = quicPeers /\ quicPeers' = {} /\ UNCHANGED <<endpoint, departedPeers, offered, refused>>
    BY <1>11 DEF StopClears, ghosts
  <2>2. \A p \in Clients : pcs[p] \in Inst
    BY DEF Clients, PeersTyped, PeerTypes
  <2>3. QED
    BY <2>1, <2>2 DEF PeersTyped, PeerTypes
<1>12. CASE StopCloses
  BY <1>12 DEF StopCloses, AllClosed, PeersTyped, PeerTypes, ghosts
<1>13. QED
  BY <1>2, <1>3, <1>5, <1>6, <1>7, <1>8, <1>9, <1>10, <1>11, <1>12 DEF PeersNext, Signalling, Stopping

LEMMA CountTypesKept ==
    ASSUME PeersTyped, [PeersNext]_peersVars
    PROVE  CountTypes'
<1>1. CASE UNCHANGED <<count, handled>>
  BY <1>1 DEF PeersTyped, CountTypes, count
<1>2. CASE PollFails \/ PollClients \/ PollSignals \/ SocketClosed \/ Stop \/ StopJoins \/ StopCloses \/ ClientJoined
              \/ QuicStarts \/ QuicKeeps \/ QuicCloses \/ UNCHANGED peersVars
              \/ (\E p \in Peer : Join(p) \/ Say(p) \/ Leave(p) \/ TimerWakes(p))
  BY <1>1, <1>2 DEF PollFails, PollClients, PollSignals, SocketClosed, Stop, StopJoins, StopCloses, ClientJoined, QuicStarts,
               QuicKeeps, QuicCloses, Join, Say, Leave, TimerWakes, peersVars, count, ghosts
<1>3. ASSUME owed' \in Nat, UNCHANGED <<shown, handled>>
      PROVE  CountTypes'
  BY <1>3 DEF PeersTyped, CountTypes
<1>4. ASSUME NEW c \in Inst, Install(c)
      PROVE  owed' \in Nat
  BY <1>4, InstallType DEF PeersTyped, CountTypes
<1>5. ASSUME NEW p \in Peer, TimerMakes(p)
      PROVE  CountTypes'
  BY <1>3, <1>4, <1>5, Connections DEF TimerMakes
<1>6. CASE HelloMakes
  <2>1. hand.peer \in Peer
    BY <1>6, Busies DEF HelloMakes, PeersTyped
  <2>2. QED
    BY <1>3, <1>4, <1>6, <2>1, Connections DEF HelloMakes
<1>7. CASE ClientLeft \/ StopClears \/ \E c \in Inst : OnClosed(c)
  <2>1. owed' = owed \/ owed' = owed + 1
    BY <1>7 DEF ClientLeft, StopClears, OnClosed, PeersTyped, CountTypes
  <2>2. UNCHANGED <<shown, handled>>
    BY <1>7 DEF ClientLeft, StopClears, OnClosed, ghosts
  <2>3. QED
    BY <1>3, <2>1, <2>2 DEF PeersTyped, CountTypes
<1>8. CASE Signal
  <2>1. UNCHANGED count /\ handled' = [handled EXCEPT ![Head(inbox).peer] = @ + 1]
    BY <1>8 DEF Signal
  <2>2. Head(inbox).peer \in Peer
    BY <1>8, TakesFirst DEF Signal, PeersTyped
  <2>3. handled[Head(inbox).peer] + 1 \in Nat
    BY <2>2 DEF PeersTyped, CountTypes
  <2>4. QED
    BY <2>1, <2>2, <2>3 DEF PeersTyped, CountTypes, count
<1>9. CASE Notified
  <2>1. owed' = owed - 1 /\ owed > 0 /\ shown' = Cardinality(Clients) /\ handled' = handled
    BY <1>9 DEF Notified, ghosts
  <2>2. Cardinality(Clients) \in 0 .. Cardinality(Peer)
    BY NewFinite, Clients \in SUBSET Peer DEF Clients
  <2>3. QED
    BY <2>1, <2>2 DEF PeersTyped, CountTypes
<1>10. QED
  BY <1>2, <1>5, <1>6, <1>7, <1>8, <1>9 DEF PeersNext, Signalling, Stopping

LEMMA PeersTypedKept == PeersTyped /\ [PeersNext]_peersVars => PeersTyped'
  BY NewsTypesKept, ThreadTypesKept, PeerTypesKept, CountTypesKept DEF PeersTyped

(**************************** what is said, once ***************************)

\* News that are no signal change nothing about the signals.
LEMMA OtherNews ==
    ASSUME PeersTyped, SaidOnce, UNCHANGED <<Given, handled>>, inbox' \in Seq(NewsItem),
           \A i \in DOMAIN inbox' : \/ inbox'[i].kind # "signal"
                                    \/ i \in DOMAIN inbox /\ inbox'[i] = inbox[i]
    PROVE  SaidOnce'
  BY DEF SaidOnce

\* Nor does it that one is taken from the inbox.
LEMMA OneTaken ==
    ASSUME PeersTyped, SaidOnce, UNCHANGED <<Given, handled>>, NEW k, Takes(k)
    PROVE  SaidOnce'
<1>1. \A i \in DOMAIN inbox' : i \in Nat /\ i + 1 \in DOMAIN inbox /\ inbox'[i] = inbox[i + 1]
  BY TakesFirst DEF PeersTyped
<1>2. \A i, j \in DOMAIN inbox' :
          inbox'[i].kind = "signal" /\ inbox'[j].kind = "signal" /\ inbox'[i].peer = inbox'[j].peer => i = j
  <2>1. SUFFICES ASSUME NEW i \in DOMAIN inbox', NEW j \in DOMAIN inbox',
                        inbox'[i].kind = "signal", inbox'[j].kind = "signal", inbox'[i].peer = inbox'[j].peer
                 PROVE  i = j
    OBVIOUS
  <2>2. i + 1 = j + 1
    BY <1>1, <2>1 DEF SaidOnce
  <2>3. QED
    BY <1>1, <2>2
<1>3. \A i \in DOMAIN inbox' : inbox'[i].kind = "signal" =>
          inbox'[i].peer \in Given' /\ handled'[inbox'[i].peer] = 0
  BY <1>1 DEF SaidOnce
<1>4. \A p \in Peer : handled'[p] \in 0 .. 1 /\ (handled'[p] > 0 => p \in Given')
  BY DEF SaidOnce
<1>5. QED
  BY <1>2, <1>3, <1>4 DEF SaidOnce

LEMMA SaidOnceKept ==
    ASSUME PeersTyped, SaidOnce, [PeersNext]_peersVars
    PROVE  SaidOnce'
<1>1. CASE UNCHANGED <<inbox, handled, relay, said, seenSignals>>
  BY <1>1 DEF SaidOnce, Given
<1>2. CASE SocketClosed \/ Stop \/ StopClears \/ StopJoins \/ StopCloses \/ Notified \/ HelloMakes
              \/ QuicStarts \/ QuicKeeps \/ QuicCloses \/ PollFails \/ UNCHANGED peersVars
  BY <1>1, <1>2 DEF SocketClosed, Stop, StopClears, StopJoins, StopCloses, Notified, HelloMakes,
               QuicStarts, QuicKeeps, QuicCloses, PollFails, peersVars, outside, news, ghosts
<1>3. CASE (\E p \in Peer : TimerWakes(p) \/ TimerMakes(p)) \/ (\E c \in Inst : OnClosed(c))
  BY <1>1, <1>3 DEF TimerWakes, TimerMakes, OnClosed, outside, news, ghosts
<1>4. CASE ClientJoined \/ ClientLeft
  <2>1. (Takes("joined") \/ Takes("left")) /\ UNCHANGED <<Given, handled>>
    BY <1>4 DEF ClientJoined, ClientLeft, outside, ghosts, Given
  <2>2. QED
    BY <2>1, OneTaken
<1>5. CASE Signal
  <2> DEFINE p == Head(inbox).peer
  <2>1. /\ p \in Peer /\ 1 \in DOMAIN inbox /\ inbox[1] = News("signal", p)
        /\ \A i \in DOMAIN inbox' : i \in Nat /\ i >= 1 /\ i + 1 \in DOMAIN inbox /\ inbox'[i] = inbox[i + 1]
    BY <1>5, TakesFirst DEF Signal, PeersTyped
  <2>2. UNCHANGED Given /\ handled' = [handled EXCEPT ![p] = @ + 1]
    BY <1>5 DEF Signal, outside, Given
  <2> HIDE DEF p
  <2>3. inbox[1].kind = "signal" /\ inbox[1].peer = p
    BY <2>1, NewsFields
  <2>4. p \in Given /\ handled[p] = 0
    BY <2>1, <2>3 DEF SaidOnce
  <2>5. \A r \in Peer : handled'[r] = IF r = p THEN 1 ELSE handled[r]
    BY <2>1, <2>2, <2>4 DEF PeersTyped, CountTypes
  <2>6. \A r \in Peer : handled'[r] \in 0 .. 1 /\ (handled'[r] > 0 => r \in Given')
    BY <2>2, <2>4, <2>5 DEF SaidOnce
  <2>7. ASSUME NEW i \in DOMAIN inbox', inbox'[i].kind = "signal"
        PROVE  inbox'[i].peer \in Given' /\ handled'[inbox'[i].peer] = 0
    <3>1. i + 1 \in DOMAIN inbox /\ inbox'[i] = inbox[i + 1] /\ i + 1 # 1
      BY <2>1
    <3>2. inbox[i + 1].peer # p
      BY <3>1, <2>1, <2>3, <2>7 DEF SaidOnce
    <3>3. inbox[i + 1].peer \in Peer
      BY <3>1, NewsFields DEF PeersTyped, NewsTypes
    <3>4. QED
      BY <3>1, <3>2, <3>3, <2>2, <2>5, <2>7 DEF SaidOnce
  <2>8. ASSUME NEW i \in DOMAIN inbox', NEW j \in DOMAIN inbox',
               inbox'[i].kind = "signal", inbox'[j].kind = "signal", inbox'[i].peer = inbox'[j].peer
        PROVE  i = j
    <3>1. i + 1 = j + 1
      BY <2>1, <2>8 DEF SaidOnce
    <3>2. QED
      BY <2>1, <3>1
  <2>9. QED
    BY <2>6, <2>7, <2>8 DEF SaidOnce
<1>6. CASE PollClients
  <2>1. UNCHANGED <<relay, said, seenSignals, handled>>
    BY <1>6 DEF PollClients, outside, ghosts
  <2>2. CASE room.clients = {}
    BY <1>1, <1>6, <2>1, <2>2 DEF PollClients
  <2>3. CASE room.clients # {}
    <3>1. /\ inbox' \in Seq(NewsItem)
          /\ \A i \in DOMAIN inbox' : inbox'[i].kind # "signal"
      BY <1>6, <2>3, PolledClients DEF PeersTyped
    <3>2. UNCHANGED Given
      BY <2>1 DEF Given
    <3>3. QED
      BY <2>1, <3>1, <3>2, OtherNews
  <2>4. QED
    BY <2>2, <2>3
<1>7. CASE PollSignals
  <2> DEFINE new == room.signals \ seenSignals
  <2>1. /\ inbox' \in Seq(NewsItem) /\ seenSignals' = seenSignals \cup new
        /\ \A i \in DOMAIN inbox' : inbox'[i].kind = "signal" /\ inbox'[i].peer \in new
        /\ \A i, j \in DOMAIN inbox' : inbox'[i].peer = inbox'[j].peer => i = j
    BY <1>7, PolledSignals DEF PeersTyped
  <2>2. relay = "firebase" /\ UNCHANGED <<relay, handled>>
    BY <1>7 DEF PollSignals, Polls, ghosts
  <2>3. Given = seenSignals /\ Given' = seenSignals'
    BY <2>2 DEF Given
  <2>4. \A p \in new : p \in Peer /\ handled[p] = 0
    BY <2>3 DEF SaidOnce, PeersTyped, NewsTypes, CountTypes
  <2>5. \A p \in Peer : handled'[p] \in 0 .. 1 /\ (handled'[p] > 0 => p \in Given')
    BY <2>1, <2>2, <2>3 DEF SaidOnce
  <2>6. QED
    BY <2>1, <2>2, <2>3, <2>4, <2>5 DEF SaidOnce
<1>8. ASSUME NEW p \in Peer, NEW k \in {"joined", "left"}, inbox' = inbox \/ inbox' = Append(inbox, News(k, p)),
             UNCHANGED <<relay, said, seenSignals, handled>>
      PROVE  SaidOnce'
  <2>1. inbox \in Seq(NewsItem) /\ News(k, p) \in NewsItem /\ News(k, p).kind # "signal"
    BY NewsFields DEF PeersTyped, NewsTypes
  <2>2. /\ inbox' \in Seq(NewsItem)
        /\ \A i \in DOMAIN inbox' : \/ inbox'[i].kind # "signal"
                                    \/ i \in DOMAIN inbox /\ inbox'[i] = inbox[i]
    BY <1>8, <2>1, NewsAdded
  <2>3. UNCHANGED <<Given, handled>>
    BY <1>8 DEF Given
  <2>4. QED
    BY <2>2, <2>3, OtherNews
<1>9. ASSUME NEW p \in Peer, Join(p) \/ Leave(p)
      PROVE  SaidOnce'
  <2>1. inbox' = inbox \/ inbox' = Append(inbox, News("joined", p)) \/ inbox' = Append(inbox, News("left", p))
    BY <1>9 DEF Join, Leave
  <2>2. UNCHANGED <<relay, said, seenSignals, handled>>
    BY <1>9 DEF Join, Leave, ghosts
  <2>3. QED
    BY <1>8, <2>1, <2>2
<1>10. ASSUME NEW p \in Peer, Say(p)
       PROVE  SaidOnce'
  <2>1. p \notin said /\ said' = said \cup {p} /\ UNCHANGED <<relay, seenSignals, handled>>
    BY <1>10 DEF Say, ghosts
  <2>2. CASE relay = "cloud"
    <3>1. inbox' = Append(inbox, News("signal", p))
      BY <1>10, <2>2 DEF Say
    <3>2. Given = said /\ Given' = said \cup {p}
      BY <2>1, <2>2 DEF Given
    <3>3. inbox \in Seq(NewsItem) /\ News("signal", p) \in NewsItem /\ News("signal", p).peer = p
      BY NewsFields DEF PeersTyped, NewsTypes
    <3>4. \A i \in DOMAIN inbox' : \/ i \in DOMAIN inbox /\ inbox'[i] = inbox[i]
                                   \/ i = Len(inbox) + 1 /\ inbox'[i].peer = p
      BY <3>1, <3>3, NewsAdded
    <3>5. \A i \in DOMAIN inbox : inbox[i].kind = "signal" => inbox[i].peer # p
      BY <2>1, <3>2 DEF SaidOnce
    <3>6. handled[p] = 0
      BY <2>1, <3>2 DEF SaidOnce, PeersTyped, CountTypes
    <3>7. \A r \in Peer : handled'[r] \in 0 .. 1 /\ (handled'[r] > 0 => r \in Given')
      BY <2>1, <3>2 DEF SaidOnce
    <3>8. \A i \in DOMAIN inbox' : inbox'[i].kind = "signal" =>
              inbox'[i].peer \in Given' /\ handled'[inbox'[i].peer] = 0
      BY <2>1, <3>2, <3>4, <3>6 DEF SaidOnce
    <3>9. \A i, j \in DOMAIN inbox' :
              inbox'[i].kind = "signal" /\ inbox'[j].kind = "signal" /\ inbox'[i].peer = inbox'[j].peer => i = j
      BY <3>4, <3>5 DEF SaidOnce
    <3>10. QED
      BY <3>7, <3>8, <3>9 DEF SaidOnce
  <2>3. CASE relay # "cloud"
    <3>1. UNCHANGED <<inbox, Given, handled>>
      BY <1>10, <2>1, <2>3 DEF Say, Given
    <3>2. QED
      BY <3>1 DEF SaidOnce
  <2>4. QED
    BY <2>2, <2>3
<1>11. QED
  BY <1>2, <1>3, <1>4, <1>5, <1>6, <1>7, <1>9, <1>10 DEF PeersNext, Signalling, Stopping

(************************ stop, and what is known **************************)

LEMMA StopsForGoodKept ==
    ASSUME PeersTyped, StopsForGood, [PeersNext]_peersVars
    PROVE  StopsForGood'
<1>1. CASE UNCHANGED <<live, stop, stopped>>
  BY <1>1 DEF StopsForGood
<1>2. CASE PollFails \/ PollClients \/ PollSignals \/ Notified \/ ClientJoined \/ ClientLeft \/ Signal \/ HelloMakes
              \/ QuicStarts \/ QuicKeeps \/ QuicCloses \/ UNCHANGED peersVars
  BY <1>1, <1>2 DEF PollFails, PollClients, PollSignals, Notified, ClientJoined, ClientLeft, Signal, HelloMakes, QuicStarts,
               QuicKeeps, QuicCloses, peersVars
<1>3. CASE \/ \E p \in Peer : Join(p) \/ Say(p) \/ Leave(p) \/ TimerWakes(p) \/ TimerMakes(p)
           \/ \E c \in Inst : OnClosed(c)
  BY <1>1, <1>3 DEF Join, Say, Leave, TimerWakes, TimerMakes, OnClosed
<1>4. CASE SocketClosed \/ Stop \/ StopClears \/ StopJoins \/ StopCloses
  BY <1>4 DEF SocketClosed, Stop, StopClears, StopJoins, StopCloses, StopsForGood
<1>5. QED
  BY <1>2, <1>3, <1>4 DEF PeersNext, Signalling, Stopping

\* Where a peer is, what it said and what the database holds change only by the peer.
LEMMA KnownStays ==
    ASSUME PeersTyped, Known, UNCHANGED <<relay, where, said, room, seenSignals>>, inbox' \in Seq(NewsItem),
           \A p \in seenClients' : where[p] # "out",
           \A p \in departedPeers' : where[p] = "left",
           \A i \in DOMAIN inbox' : inbox'[i].kind = "left" => where[inbox'[i].peer] = "left"
    PROVE  Known'
  BY DEF Known

LEMMA KnownKept ==
    ASSUME PeersTyped, Known, [PeersNext]_peersVars
    PROVE  Known'
<1>1. CASE UNCHANGED <<outside, seenClients, seenSignals, inbox, departedPeers>>
  BY <1>1 DEF Known, outside
<1>2. CASE SocketClosed \/ Stop \/ StopClears \/ StopJoins \/ StopCloses \/ Notified \/ HelloMakes
              \/ QuicStarts \/ QuicKeeps \/ QuicCloses \/ PollFails \/ UNCHANGED peersVars
  BY <1>1, <1>2 DEF SocketClosed, Stop, StopClears, StopJoins, StopCloses, Notified, HelloMakes,
               QuicStarts, QuicKeeps, QuicCloses, PollFails, peersVars, news, maps
<1>3. CASE (\E p \in Peer : TimerWakes(p) \/ TimerMakes(p)) \/ (\E c \in Inst : OnClosed(c))
  BY <1>1, <1>3 DEF TimerWakes, TimerMakes, OnClosed, news, maps
<1>4. ASSUME NEW k, Takes(k), UNCHANGED <<outside, seenClients, seenSignals>>,
             departedPeers' \subseteq departedPeers \/ (k = "left" /\ departedPeers' = departedPeers \cup {Head(inbox).peer})
      PROVE  Known'
  <2>1. /\ inbox' \in Seq(NewsItem) /\ 1 \in DOMAIN inbox /\ inbox[1] = Head(inbox) /\ Head(inbox).kind = k
        /\ \A i \in DOMAIN inbox' : i + 1 \in DOMAIN inbox /\ inbox'[i] = inbox[i + 1]
    BY <1>4, TakesFirst DEF PeersTyped
  <2>2. \A p \in departedPeers' : where[p] = "left"
    BY <1>4, <2>1 DEF Known
  <2>3. \A i \in DOMAIN inbox' : inbox'[i].kind = "left" => where[inbox'[i].peer] = "left"
    BY <2>1 DEF Known
  <2>4. \A p \in seenClients' : where[p] # "out"
    BY <1>4 DEF Known
  <2>5. QED
    BY <1>4, <2>1, <2>2, <2>3, <2>4, KnownStays DEF outside
<1>5. CASE ClientJoined \/ ClientLeft \/ Signal
  <2>1. CASE ClientJoined
    <3>1. Takes("joined") /\ UNCHANGED <<outside, seenClients, seenSignals>> /\ departedPeers' \subseteq departedPeers
      BY <2>1 DEF ClientJoined
    <3>2. QED
      BY <3>1, <1>4
  <2>2. CASE ClientLeft
    <3>1. Takes("left") /\ UNCHANGED <<outside, seenClients, seenSignals>>
             /\ departedPeers' = departedPeers \cup {Head(inbox).peer}
      BY <2>2 DEF ClientLeft
    <3>2. QED
      BY <3>1, <1>4
  <2>3. CASE Signal
    <3>1. Takes("signal") /\ UNCHANGED <<outside, seenClients, seenSignals>> /\ departedPeers' = departedPeers
      BY <2>3 DEF Signal, maps
    <3>2. QED
      BY <3>1, <1>4
  <2>4. QED
    BY <1>5, <2>1, <2>2, <2>3
<1>6. CASE PollClients
  <2>1. UNCHANGED <<relay, where, said, room, seenSignals, departedPeers>> /\ relay = "firebase"
    BY <1>6 DEF PollClients, Polls, outside, maps
  <2>2. CASE room.clients = {}
    BY <1>6, <2>1, <2>2 DEF PollClients, Known
  <2>3. CASE room.clients # {}
    <3>1. /\ inbox' \in Seq(NewsItem) /\ seenClients' = room.clients
          /\ \A i \in DOMAIN inbox' : inbox'[i].kind = "left" => inbox'[i].peer \in seenClients \ room.clients
      BY <1>6, <2>3, PolledClients DEF PeersTyped
    <3>2. \A p \in seenClients \ room.clients : where[p] = "left"
      BY <2>1 DEF Known, PeersTyped, NewsTypes
    <3>3. \A p \in room.clients : where[p] # "out"
      BY <2>1 DEF Known
    <3>4. \A p \in departedPeers' : where[p] = "left"
      BY <2>1 DEF Known
    <3>5. QED
      BY <2>1, <3>1, <3>2, <3>3, <3>4, KnownStays
  <2>4. QED
    BY <2>2, <2>3
<1>7. CASE PollSignals
  <2>1. /\ seenSignals' = seenSignals \cup (room.signals \ seenSignals)
        /\ \A i \in DOMAIN inbox' : inbox'[i].kind = "signal"
        /\ room'.clients = room.clients /\ room'.signals \subseteq room.signals
    BY <1>7, PolledSignals DEF PeersTyped
  <2>2. UNCHANGED <<relay, where, said, seenClients, departedPeers>>
    BY <1>7 DEF PollSignals, maps
  <2>3. QED
    BY <2>1, <2>2 DEF Known
<1>8. ASSUME NEW p \in Peer, Say(p)
      PROVE  Known'
  <2>1. /\ where[p] = "in" /\ said' = said \cup {p}
        /\ UNCHANGED <<relay, where, seenClients, seenSignals, departedPeers>>
    BY <1>8 DEF Say, maps
  <2>2. room'.clients = room.clients /\ room'.signals \subseteq room.signals \cup {p}
    BY <1>8 DEF Say, PeersTyped, NewsTypes
  <2>3. \A i \in DOMAIN inbox' : \/ i \in DOMAIN inbox /\ inbox'[i] = inbox[i]
                                 \/ inbox'[i].kind = "signal"
    <3>1. inbox' = inbox \/ inbox' = Append(inbox, News("signal", p))
      BY <1>8 DEF Say
    <3>2. inbox \in Seq(NewsItem) /\ News("signal", p) \in NewsItem /\ News("signal", p).kind = "signal"
      BY NewsFields DEF PeersTyped, NewsTypes
    <3>3. QED
      BY <3>1, <3>2, NewsAdded
  <2>4. QED
    BY <2>1, <2>2, <2>3 DEF Known
<1>9. ASSUME NEW p \in Peer, Join(p)
      PROVE  Known'
  <2>1. /\ where[p] = "out" /\ where' = [where EXCEPT ![p] = "in"]
        /\ UNCHANGED <<relay, said, seenClients, seenSignals, departedPeers>>
    BY <1>9 DEF Join, maps
  <2>2. \A r \in Peer : where'[r] = IF r = p THEN "in" ELSE where[r]
    BY <2>1 DEF PeersTyped, NewsTypes
  <2>3. /\ room'.signals = room.signals
        /\ relay = "firebase" => room'.clients = room.clients \cup {p}
    BY <1>9 DEF Join, PeersTyped, NewsTypes
  <2>4. \A i \in DOMAIN inbox' : \/ i \in DOMAIN inbox /\ inbox'[i] = inbox[i]
                                 \/ inbox'[i].kind = "joined"
    <3>1. inbox' = inbox \/ inbox' = Append(inbox, News("joined", p))
      BY <1>9 DEF Join
    <3>2. inbox \in Seq(NewsItem) /\ News("joined", p) \in NewsItem /\ News("joined", p).kind = "joined"
      BY NewsFields DEF PeersTyped, NewsTypes
    <3>3. QED
      BY <3>1, <3>2, NewsAdded
  <2>5. relay' = "firebase" => room'.clients = {r \in Peer : where'[r] = "in"}
    BY <2>1, <2>2, <2>3 DEF Known
  <2>6. \A i \in DOMAIN inbox' : inbox'[i].kind = "left" => where'[inbox'[i].peer] = "left"
    <3>1. ASSUME NEW i \in DOMAIN inbox', inbox'[i].kind = "left"
          PROVE  where'[inbox'[i].peer] = "left"
      <4>1. i \in DOMAIN inbox /\ inbox'[i] = inbox[i] /\ inbox[i].peer \in Peer
        BY <2>4, <3>1, NewsFields DEF PeersTyped, NewsTypes
      <4>2. where[inbox[i].peer] = "left"
        BY <3>1, <4>1 DEF Known
      <4>3. QED
        BY <4>1, <4>2, <2>1, <2>2
    <3>2. QED
      BY <3>1
  <2>7. \A r \in departedPeers' : where'[r] = "left"
    BY <2>1, <2>2 DEF Known, PeersTyped, PeerTypes
  <2>8. (\A r \in said' : where'[r] # "out") /\ (\A r \in seenClients' : where'[r] # "out")
    BY <2>1, <2>2 DEF Known, PeersTyped, NewsTypes
  <2>9. QED
    BY <2>1, <2>3, <2>5, <2>6, <2>7, <2>8 DEF Known
<1>10. ASSUME NEW p \in Peer, Leave(p)
       PROVE  Known'
  <2>1. /\ where[p] = "in" /\ where' = [where EXCEPT ![p] = "left"]
        /\ UNCHANGED <<relay, said, seenClients, seenSignals, departedPeers>>
    BY <1>10 DEF Leave, maps
  <2>2. \A r \in Peer : where'[r] = IF r = p THEN "left" ELSE where[r]
    BY <2>1 DEF PeersTyped, NewsTypes
  <2>3. /\ room'.signals = room.signals
        /\ relay = "firebase" => room'.clients = room.clients \ {p}
    BY <1>10 DEF Leave, PeersTyped, NewsTypes
  <2>4. \A i \in DOMAIN inbox' : \/ i \in DOMAIN inbox /\ inbox'[i] = inbox[i]
                                 \/ inbox'[i].peer = p
    <3>1. inbox' = inbox \/ inbox' = Append(inbox, News("left", p))
      BY <1>10 DEF Leave
    <3>2. inbox \in Seq(NewsItem) /\ News("left", p) \in NewsItem /\ News("left", p).peer = p
      BY NewsFields DEF PeersTyped, NewsTypes
    <3>3. QED
      BY <3>1, <3>2, NewsAdded
  <2>5. relay' = "firebase" => room'.clients = {r \in Peer : where'[r] = "in"}
    BY <2>1, <2>2, <2>3 DEF Known
  <2>6. \A i \in DOMAIN inbox' : inbox'[i].kind = "left" => where'[inbox'[i].peer] = "left"
    <3>1. ASSUME NEW i \in DOMAIN inbox', inbox'[i].kind = "left"
          PROVE  where'[inbox'[i].peer] = "left"
      <4>1. CASE inbox'[i].peer = p
        BY <4>1, <2>2
      <4>2. CASE inbox'[i].peer # p
        <5>1. i \in DOMAIN inbox /\ inbox'[i] = inbox[i] /\ inbox[i].peer \in Peer
          BY <2>4, <4>2, NewsFields DEF PeersTyped, NewsTypes
        <5>2. where[inbox[i].peer] = "left"
          BY <3>1, <5>1 DEF Known
        <5>3. QED
          BY <5>1, <5>2, <2>2
      <4>3. QED
        BY <4>1, <4>2
    <3>2. QED
      BY <3>1
  <2>7. \A r \in departedPeers' : where'[r] = "left"
    BY <2>1, <2>2 DEF Known, PeersTyped, PeerTypes
  <2>8. (\A r \in said' : where'[r] # "out") /\ (\A r \in seenClients' : where'[r] # "out")
    BY <2>1, <2>2 DEF Known, PeersTyped, NewsTypes
  <2>9. QED
    BY <2>1, <2>3, <2>5, <2>6, <2>7, <2>8 DEF Known
<1>11. QED
  BY <1>2, <1>3, <1>5, <1>6, <1>7, <1>8, <1>9, <1>10 DEF PeersNext, Signalling, Stopping

\* create_peer: nothing, or the connection, an answer, and a notification if the peer had no channel.
LEMMA InstallEffect ==
    ASSUME PeersTyped, NEW c \in Inst, Install(c)
    PROVE  \/ ~ live /\ UNCHANGED <<pcs, channels, offered, owed>>
           \/ /\ live /\ c[1] \in Peer /\ offered' = offered \cup {c[1]}
              /\ \A p \in Peer : pcs'[p] = IF p = c[1] THEN c ELSE pcs[p]
              /\ \A p \in Peer : channels'[p] = IF p = c[1] THEN c ELSE channels[p]
              /\ owed' = owed + (IF channels[c[1]] = None THEN 1 ELSE 0)
<1>1. c[1] \in Peer
  BY Connections
<1>2. QED
  BY <1>1 DEF Install, StillLive, Change, PeersTyped, PeerTypes

LEMMA HadKept ==
    ASSUME PeersTyped, Had, [PeersNext]_peersVars
    PROVE  Had'
<1>1. CASE UNCHANGED <<pcs, quicPeers, offered, hand>>
  BY <1>1 DEF Had
<1>2. CASE PollFails \/ PollClients \/ PollSignals \/ Notified \/ ClientJoined \/ SocketClosed \/ Stop \/ StopJoins
              \/ StopCloses \/ UNCHANGED peersVars
  BY <1>1, <1>2 DEF PollFails, PollClients, PollSignals, Notified, ClientJoined, SocketClosed, Stop, StopJoins,
               StopCloses, peersVars, maps, ghosts
<1>3. CASE \E p \in Peer : Join(p) \/ Say(p) \/ Leave(p) \/ TimerWakes(p)
  BY <1>1, <1>3 DEF Join, Say, Leave, TimerWakes, maps, ghosts
<1>4. ASSUME NEW c \in Inst, Install(c), UNCHANGED quicPeers, hand' = hand \/ Free
      PROVE  Had'
  <2>1. \A p \in Peer : pcs'[p] # None => p \in offered'
    BY <1>4, InstallEffect DEF Had
  <2>2. \A p \in quicPeers' : Says[p] = "quic"
    BY <1>4 DEF Had
  <2>3. hand'.pc \in {"start", "keep"} => Says[hand'.peer] = "quic"
    BY <1>4 DEF Had, Free
  <2>4. QED
    BY <2>1, <2>2, <2>3 DEF Had
<1>5. ASSUME NEW p \in Peer, TimerMakes(p)
      PROVE  Had'
  BY <1>4, <1>5, Connections DEF TimerMakes
<1>6. CASE HelloMakes
  <2>1. hand.peer \in Peer
    BY <1>6, Busies DEF HelloMakes, PeersTyped
  <2>2. QED
    BY <1>4, <1>6, <2>1, Connections DEF HelloMakes
<1>7. CASE \E c \in Inst : OnClosed(c)
  <2>1. /\ \A p \in Peer : pcs'[p] # None => pcs[p] # None
        /\ UNCHANGED <<quicPeers, offered, hand>>
    BY <1>7, Connections DEF OnClosed, PeersTyped, PeerTypes, ghosts
  <2>2. QED
    BY <2>1 DEF Had
<1>8. CASE ClientLeft
  <2>1. /\ \A p \in Peer : pcs'[p] # None => pcs[p] # None
        /\ quicPeers' \subseteq quicPeers /\ UNCHANGED offered
    BY <1>8 DEF ClientLeft, PeersTyped, PeerTypes, ghosts
  <2>2. hand' = hand \/ hand'.pc = "close"
    BY <1>8 DEF ClientLeft, Busy
  <2>3. QED
    BY <2>1, <2>2 DEF Had
<1>9. CASE Signal
  <2>1. UNCHANGED <<pcs, quicPeers, offered>>
    BY <1>9 DEF Signal, maps
  <2>2. hand' = hand \/ hand'.pc = "make" \/ Says[hand'.peer] = "quic"
    BY <1>9 DEF Signal, Busy
  <2>3. QED
    BY <2>1, <2>2 DEF Had
<1>10. CASE QuicStarts
  BY <1>10 DEF QuicStarts, Busy, Free, Had
<1>11. CASE QuicKeeps
  <2>1. hand.peer \in Peer /\ Says[hand.peer] = "quic"
    BY <1>11, Busies DEF QuicKeeps, Had, PeersTyped
  <2>2. /\ UNCHANGED <<pcs, offered>> /\ hand'.pc \notin {"start", "keep"}
        /\ quicPeers' \subseteq quicPeers \cup {hand.peer}
    BY <1>11 DEF QuicKeeps, Busy, Free, ghosts
  <2>3. QED
    BY <2>1, <2>2 DEF Had
<1>12. CASE QuicCloses
  BY <1>12 DEF QuicCloses, Free, Had, ghosts
<1>13. CASE StopClears
  BY <1>13 DEF StopClears, Had, ghosts
<1>14. QED
  BY <1>2, <1>3, <1>5, <1>6, <1>7, <1>8, <1>9, <1>10, <1>11, <1>12, <1>13 DEF PeersNext, Signalling, Stopping

(***************************** what stop leaves ****************************)

\* Nothing comes into the maps, and every endpoint that is up is somebody's.
LEMMA EmptyStays ==
    ASSUME PeersTyped, StoppedIsEmpty, UNCHANGED <<stop, stopped>>,
           stop \in {"join", "close", "done"} => /\ \A p \in Peer : channels'[p] # None => channels[p] # None
                                                 /\ quicPeers' \subseteq quicPeers,
           \A p \in Peer : endpoint'[p] = "up" =>
                \/ endpoint[p] = "up" /\ p \notin quicPeers \cup Held
                \/ p \in quicPeers' \/ p \in Held'
    PROVE  StoppedIsEmpty'
<1>1. stop' \in {"join", "close", "done"} => Clients' = {} /\ quicPeers' = {}
  BY DEF StoppedIsEmpty, Clients
<1>2. ASSUME NEW p \in Peer, endpoint'[p] = "up"
      PROVE  p \in quicPeers' \cup Held' \cup (IF stop' = "done" THEN {} ELSE stopped')
  BY <1>2 DEF StoppedIsEmpty
<1>3. QED
  BY <1>1, <1>2 DEF StoppedIsEmpty

LEMMA StoppedIsEmptyKept ==
    ASSUME PeersTyped, StopsForGood, StoppedIsEmpty, [PeersNext]_peersVars
    PROVE  StoppedIsEmpty'
<1>1. CASE UNCHANGED <<channels, quicPeers, endpoint, hand, stop, stopped>>
  BY <1>1 DEF StoppedIsEmpty, Clients, Held
<1>2. CASE PollFails \/ PollClients \/ PollSignals \/ Notified \/ ClientJoined \/ SocketClosed \/ UNCHANGED peersVars
  BY <1>1, <1>2 DEF PollFails, PollClients, PollSignals, Notified, ClientJoined, SocketClosed, peersVars, maps
<1>3. CASE \E p \in Peer : Join(p) \/ Say(p) \/ Leave(p) \/ TimerWakes(p)
  BY <1>1, <1>3 DEF Join, Say, Leave, TimerWakes, maps
<1>4. ASSUME NEW c \in Inst, Install(c), UNCHANGED <<quicPeers, endpoint, stop, stopped>>, Held \subseteq Held'
      PROVE  StoppedIsEmpty'
  <2>1. stop \in {"join", "close", "done"} => channels' = channels
    BY <1>4, InstallEffect DEF StopsForGood
  <2>2. \A p \in Peer : endpoint'[p] = "up" =>
              \/ endpoint[p] = "up" /\ p \notin quicPeers \cup Held
              \/ p \in quicPeers' \/ p \in Held'
    BY <1>4
  <2>3. QED
    BY <1>4, <2>1, <2>2, EmptyStays
<1>5. ASSUME NEW p \in Peer, TimerMakes(p)
      PROVE  StoppedIsEmpty'
  <2>1. Held' = Held /\ UNCHANGED <<quicPeers, endpoint, stop, stopped>> /\ Install(<<p, "timer">>)
    BY <1>5 DEF TimerMakes, Held
  <2>2. QED
    BY <1>4, <2>1, Connections
<1>6. CASE HelloMakes
  <2>1. hand.peer \in Peer
    BY <1>6, Busies DEF HelloMakes, PeersTyped
  <2>2. Held = {} /\ UNCHANGED <<quicPeers, endpoint, stop, stopped>> /\ Install(<<hand.peer, "hello">>)
    BY <1>6 DEF HelloMakes, Held
  <2>3. QED
    BY <1>4, <2>1, <2>2, Connections
<1>7. CASE \E c \in Inst : OnClosed(c)
  <2>1. /\ \A p \in Peer : channels'[p] # None => channels[p] # None
        /\ UNCHANGED <<quicPeers, endpoint, hand, stop, stopped>>
    BY <1>7, Connections DEF OnClosed, PeersTyped, PeerTypes
  <2>2. Held' = Held
    BY <2>1 DEF Held
  <2>3. QED
    BY <2>1, <2>2, EmptyStays
<1>8. CASE ClientLeft
  <2> DEFINE p == Head(inbox).peer
  <2>1. p \in Peer /\ hand.pc = "idle"
    BY <1>8, TakesFirst DEF ClientLeft, PeersTyped
  <2>2. /\ \A r \in Peer : channels'[r] # None => channels[r] # None
        /\ quicPeers' = quicPeers \ {p} /\ UNCHANGED <<endpoint, stop, stopped>>
    BY <1>8 DEF ClientLeft, PeersTyped, PeerTypes
  <2>3. p \in quicPeers => hand' = [pc |-> "close", peer |-> p]
    BY <1>8 DEF ClientLeft, Busy
  <2> HIDE DEF p
  <2>4. p \in quicPeers => p \in Held'
    BY <2>1, <2>3 DEF Held
  <2>5. Held = {}
    BY <2>1 DEF Held
  <2>6. \A r \in Peer : endpoint'[r] = "up" =>
              \/ endpoint[r] = "up" /\ r \notin quicPeers \cup Held
              \/ r \in quicPeers' \/ r \in Held'
    BY <2>2, <2>4, <2>5
  <2>7. QED
    BY <2>2, <2>6, EmptyStays
<1>9. CASE Signal
  <2>1. Held = {} /\ UNCHANGED <<channels, quicPeers, endpoint, stop, stopped>>
    BY <1>9 DEF Signal, Takes, Held, maps
  <2>2. QED
    BY <2>1, EmptyStays
<1>10. CASE QuicStarts
  <2>1. Held = {} /\ UNCHANGED <<channels, quicPeers, stop, stopped>> /\ hand.peer \in Peer
    BY <1>10, Busies DEF QuicStarts, Held, PeersTyped
  <2>2. CASE endpoint' = [endpoint EXCEPT ![hand.peer] = "up"] /\ Busy("keep", hand.peer)
    <3>1. hand.peer \in Held' /\ \A r \in Peer : endpoint'[r] = "up" => r = hand.peer \/ endpoint[r] = "up"
      BY <2>1, <2>2 DEF Held, Busy, PeersTyped, PeerTypes
    <3>2. QED
      BY <2>1, <3>1, EmptyStays
  <2>3. CASE UNCHANGED endpoint
    BY <2>1, <2>3, EmptyStays
  <2>4. QED
    BY <1>10, <2>2, <2>3 DEF QuicStarts
<1>11. CASE QuicKeeps
  <2>1. Held = {hand.peer} /\ UNCHANGED <<channels, endpoint, stop, stopped>> /\ hand.peer \in Peer
    BY <1>11, Busies DEF QuicKeeps, Held, PeersTyped
  <2>2. CASE live
    <3>1. quicPeers' = quicPeers \cup {hand.peer} /\ stop = "no"
      BY <1>11, <2>2 DEF QuicKeeps, StillLive, StopsForGood
    <3>2. QED
      BY <2>1, <3>1, EmptyStays
  <2>3. CASE ~ live
    <3>1. hand' = [pc |-> "close", peer |-> hand.peer] /\ UNCHANGED quicPeers
      BY <1>11, <2>3 DEF QuicKeeps, StillLive, Busy
    <3>2. hand.peer \in Held'
      BY <2>1, <3>1 DEF Held
    <3>3. QED
      BY <2>1, <3>1, <3>2, EmptyStays
  <2>4. QED
    BY <2>2, <2>3
<1>12. CASE QuicCloses
  <2>1. Held = {hand.peer} /\ UNCHANGED <<channels, quicPeers, stop, stopped>> /\ hand.peer \in Peer
    BY <1>12, Busies DEF QuicCloses, Held, PeersTyped
  <2>2. \A r \in Peer : endpoint'[r] = IF r = hand.peer THEN "closed" ELSE endpoint[r]
    BY <1>12 DEF QuicCloses, PeersTyped, PeerTypes
  <2>3. \A r \in Peer : endpoint'[r] = "up" => endpoint[r] = "up" /\ r \notin Held
    BY <2>1, <2>2
  <2>4. QED
    BY <2>1, <2>3, EmptyStays
<1>13. CASE Stop
  <2>1. stop = "no" /\ stop' = "closing" /\ UNCHANGED <<channels, quicPeers, endpoint, hand, stopped>>
    BY <1>13 DEF Stop, maps
  <2>2. Held' = Held
    BY <2>1 DEF Held
  <2>3. QED
    BY <2>1, <2>2 DEF StoppedIsEmpty
<1>14. CASE StopClears
  <2>1. /\ stop = "closing" /\ stop' = "join" /\ stopped' = quicPeers /\ quicPeers' = {}
        /\ UNCHANGED <<endpoint, hand>>
    BY <1>14 DEF StopClears
  <2>2. channels' = [p \in Peer |-> None]
    BY <1>14 DEF StopClears
  <2>3. Clients' = {} /\ Held' = Held /\ stopped = {}
    BY <2>1, <2>2 DEF Clients, Held, StopsForGood
  <2>4. QED
    BY <2>1, <2>3 DEF StoppedIsEmpty
<1>15. CASE StopJoins
  <2>1. stop = "join" /\ stop' = "close" /\ UNCHANGED <<channels, quicPeers, endpoint, hand, stopped>>
    BY <1>15 DEF StopJoins, maps
  <2>2. Held' = Held /\ Clients' = Clients
    BY <2>1 DEF Held, Clients
  <2>3. QED
    BY <2>1, <2>2 DEF StoppedIsEmpty
<1>16. CASE StopCloses
  <2>1. stop = "close" /\ stop' = "done" /\ UNCHANGED <<channels, quicPeers, hand, stopped>>
    BY <1>16 DEF StopCloses
  <2>2. \A p \in Peer : endpoint'[p] = IF p \in stopped THEN "closed" ELSE endpoint[p]
    BY <1>16 DEF StopCloses, AllClosed
  <2>3. Held' = Held /\ Clients' = Clients
    BY <2>1 DEF Held, Clients
  <2>4. \A p \in Peer : endpoint'[p] = "up" => p \in quicPeers' \cup Held'
    BY <2>1, <2>2, <2>3 DEF StoppedIsEmpty
  <2>5. QED
    BY <2>1, <2>3, <2>4 DEF StoppedIsEmpty
<1>17. QED
  BY <1>2, <1>3, <1>5, <1>6, <1>7, <1>8, <1>9, <1>10, <1>11, <1>12, <1>13, <1>14, <1>15, <1>16
  DEF PeersNext, Signalling, Stopping

(***************************** the number shown ****************************)

LEMMA CountDueKept ==
    ASSUME PeersTyped, CountDue, [PeersNext]_peersVars
    PROVE  CountDue'
<1>1. CASE UNCHANGED <<channels, owed, shown>>
  BY <1>1 DEF CountDue, Clients
<1>2. CASE PollFails \/ PollClients \/ PollSignals \/ Signal \/ ClientJoined \/ SocketClosed \/ Stop \/ StopJoins
              \/ StopCloses \/ QuicStarts \/ QuicKeeps \/ QuicCloses \/ UNCHANGED peersVars
  BY <1>1, <1>2 DEF PollFails, PollClients, PollSignals, Signal, ClientJoined, SocketClosed, Stop, StopJoins,
               StopCloses, QuicStarts, QuicKeeps, QuicCloses, peersVars, maps, count
<1>3. CASE \E p \in Peer : Join(p) \/ Say(p) \/ Leave(p) \/ TimerWakes(p)
  BY <1>1, <1>3 DEF Join, Say, Leave, TimerWakes, maps, count
\* Whoever changes the set of channels announces it.
<1>4. ASSUME UNCHANGED shown, (owed' = owed /\ Clients' = Clients) \/ owed' = owed + 1
      PROVE  CountDue'
  BY <1>4 DEF CountDue, PeersTyped, CountTypes
<1>5. ASSUME NEW c \in Inst, Install(c), UNCHANGED shown
      PROVE  CountDue'
  <2>1. CASE UNCHANGED <<channels, owed>>
    BY <1>5, <2>1 DEF CountDue, Clients
  <2>2. CASE /\ c[1] \in Peer
             /\ \A p \in Peer : channels'[p] = IF p = c[1] THEN c ELSE channels[p]
             /\ owed' = owed + (IF channels[c[1]] = None THEN 1 ELSE 0)
    <3>1. CASE channels[c[1]] = None
      BY <1>4, <1>5, <2>2, <3>1
    <3>2. CASE channels[c[1]] # None
      <4>1. c # None /\ owed' = owed
        BY <2>2, <3>2, Connections DEF PeersTyped, CountTypes
      <4>2. Clients' = Clients
        BY <2>2, <3>2, <4>1 DEF Clients
      <4>3. QED
        BY <1>4, <1>5, <4>1, <4>2
    <3>3. QED
      BY <3>1, <3>2
  <2>3. QED
    BY <1>5, <2>1, <2>2, InstallEffect
<1>6. ASSUME NEW p \in Peer, TimerMakes(p)
      PROVE  CountDue'
  BY <1>5, <1>6, Connections DEF TimerMakes
<1>7. CASE HelloMakes
  <2>1. hand.peer \in Peer
    BY <1>7, Busies DEF HelloMakes, PeersTyped
  <2>2. QED
    BY <1>5, <1>7, <2>1, Connections DEF HelloMakes
<1>8. ASSUME NEW p \in Peer, channels' = [channels EXCEPT ![p] = None], UNCHANGED shown,
             owed' = owed + (IF channels[p] # None THEN 1 ELSE 0)
      PROVE  CountDue'
  <2>1. CASE channels[p] # None
    BY <1>4, <1>8, <2>1
  <2>2. CASE channels[p] = None
    <3>1. Clients' = Clients
      BY <1>8, <2>2 DEF Clients, PeersTyped, PeerTypes
    <3>2. owed' = owed
      BY <1>8, <2>2 DEF PeersTyped, CountTypes
    <3>3. QED
      BY <1>4, <1>8, <3>1, <3>2
  <2>3. QED
    BY <2>1, <2>2
<1>9. ASSUME NEW c \in Inst, OnClosed(c)
      PROVE  CountDue'
  BY <1>8, <1>9, Connections DEF OnClosed
<1>10. CASE ClientLeft
  <2>1. Head(inbox).peer \in Peer
    BY <1>10, TakesFirst DEF ClientLeft, PeersTyped
  <2>2. QED
    BY <1>8, <1>10, <2>1 DEF ClientLeft
<1>11. CASE StopClears
  <2>1. Clients' = {} /\ UNCHANGED shown
    BY <1>11 DEF StopClears, Clients
  <2>2. owed' = owed + (IF Clients # {} THEN 1 ELSE 0)
    BY <1>11 DEF StopClears
  <2>3. CASE Clients = {}
    BY <1>4, <2>1, <2>2, <2>3 DEF PeersTyped, CountTypes
  <2>4. CASE Clients # {}
    BY <1>4, <2>1, <2>2, <2>4
  <2>5. QED
    BY <2>3, <2>4
<1>12. CASE Notified
  <2>1. shown' = Cardinality(Clients) /\ UNCHANGED channels
    BY <1>12 DEF Notified, maps
  <2>2. Clients' = Clients
    BY <2>1 DEF Clients
  <2>3. QED
    BY <2>1, <2>2 DEF CountDue
<1>13. QED
  BY <1>2, <1>3, <1>6, <1>7, <1>9, <1>10, <1>11, <1>12 DEF PeersNext, Signalling, Stopping

(************************** nobody is forgotten ****************************)

\* What is to be done for one peer.
Cared(p) ==
    where[p] = "in" /\ live /\ ~HasAnswer(p) =>
        IF Says[p] = "quic" THEN p \in said => Asked(p) ELSE Announced(p)

\* What is in the inbox besides the first stays when that is taken.
LEMMA ComingStays ==
    ASSUME PeersTyped, NEW k, Takes(k), NEW m, NEW p, Coming(m, p), k # m \/ p # Head(inbox).peer
    PROVE  Coming(m, p)'
<1>1. PICK i \in DOMAIN inbox : inbox[i] = News(m, p)
  BY DEF Coming
<1>2. inbox[1] = News(k, Head(inbox).peer) /\ (i = 1 \/ (i - 1 \in DOMAIN inbox' /\ inbox'[i - 1] = inbox[i]))
  BY TakesFirst DEF PeersTyped
<1>3. i # 1
  BY <1>1, <1>2, NewsFields
<1>4. QED
  BY <1>1, <1>2, <1>3 DEF Coming, News

\* News that are added leave those that are there.
LEMMA ComingAdded ==
    ASSUME PeersTyped, NEW k \in {"joined", "left", "signal"}, NEW r \in Peer,
           inbox' = Append(inbox, News(k, r))
    PROVE  /\ Coming(k, r)'
           /\ \A m, p : Coming(m, p) => Coming(m, p)'
<1>1. inbox \in Seq(NewsItem) /\ News(k, r) \in NewsItem
  BY NewsFields DEF PeersTyped, NewsTypes
<1>2. QED
  BY <1>1, NewsAdded DEF Coming, News

LEMMA CaredKept ==
    ASSUME PeersTyped, Known, Had, StopsForGood, [PeersNext]_peersVars, NEW p \in Peer, Cared(p)
    PROVE  Cared(p)'
<1>1. CASE /\ UNCHANGED <<relay, where, said, room, seenClients, seenSignals, inbox>>
           /\ live' => live
           /\ HasAnswer(p) => HasAnswer(p)' \/ ~ live'
           /\ Says[p] # "quic" => timer'[p] = timer[p] \/ ~ live' \/ HasAnswer(p)'
           /\ Says[p] = "quic" => \/ hand.pc \notin {"start", "keep"} \/ hand' = hand \/ ~ live'
                                  \/ hand.peer # p \/ HasAnswer(p)'
  BY <1>1 DEF Cared, Announced, Asked, Coming
<1>2. CASE SocketClosed \/ Stop \/ StopClears \/ StopJoins \/ StopCloses \/ Notified \/ UNCHANGED peersVars
              \/ PollFails \/ (\E c \in Inst : OnClosed(c))
  <2>1. /\ UNCHANGED <<outside, seenClients, seenSignals, inbox, hand, timer, offered, refused>>
        /\ live' => live
    BY <1>2 DEF SocketClosed, Stop, StopClears, StopJoins, StopCloses, Notified, PollFails, OnClosed, peersVars,
               news, ghosts
  <2>2. quicPeers' = quicPeers \/ ~ live'
    BY <1>2 DEF SocketClosed, Stop, StopClears, StopJoins, StopCloses, Notified, PollFails, OnClosed, peersVars,
               maps, StopsForGood
  <2>3. HasAnswer(p) => HasAnswer(p)' \/ ~ live'
    BY <2>1, <2>2 DEF HasAnswer
  <2>4. QED
    BY <1>1, <2>1, <2>3 DEF outside
<1>3. CASE QuicCloses \/ HelloMakes
  <2>1. hand.pc \notin {"start", "keep"} /\ UNCHANGED <<outside, news, timer, live>>
    BY <1>3 DEF QuicCloses, HelloMakes
  <2>2. HasAnswer(p) => HasAnswer(p)'
    <3>1. CASE QuicCloses
      BY <3>1 DEF QuicCloses, ghosts, HasAnswer
    <3>2. CASE HelloMakes
      BY <3>2 DEF HelloMakes, Install, HasAnswer
    <3>3. QED
      BY <1>3, <3>1, <3>2
  <2>3. QED
    BY <1>1, <2>1, <2>2 DEF outside, news
<1>4. CASE QuicStarts
  <2>1. /\ UNCHANGED <<outside, news, timer, live, quicPeers, offered>>
        /\ refused \subseteq refused'
    BY <1>4 DEF QuicStarts
  <2>2. hand.pc = "start" /\ (hand' = [pc |-> "keep", peer |-> hand.peer] \/ hand.peer \in refused')
    BY <1>4 DEF QuicStarts, Busy
  <2>3. Asked(p) => Asked(p)' \/ p \in refused'
    BY <2>1, <2>2 DEF Asked, Coming, outside, news
  <2>4. QED
    BY <2>1, <2>3 DEF Cared, HasAnswer, Announced, Coming, outside, news
<1>5. CASE QuicKeeps
  <2>1. /\ UNCHANGED <<outside, news, timer, live, offered, refused>>
        /\ quicPeers \subseteq quicPeers'
    BY <1>5 DEF QuicKeeps, ghosts
  <2>2. live => hand.peer \in quicPeers'
    BY <1>5 DEF QuicKeeps, StillLive
  <2>3. Asked(p) => Asked(p)' \/ p \in quicPeers' \/ ~ live
    BY <2>1, <2>2 DEF Asked, Coming, outside, news
  <2>4. QED
    BY <2>1, <2>3 DEF Cared, HasAnswer, Announced, Coming, outside, news
<1>6. ASSUME NEW r \in Peer, TimerWakes(r)
      PROVE  Cared(p)'
  <2>1. UNCHANGED <<outside, news, hand, live>> /\ HasAnswer(p)' = HasAnswer(p)
    BY <1>6 DEF TimerWakes, maps, ghosts, HasAnswer
  <2>2. CASE r # p
    <3>1. timer'[p] = timer[p]
      BY <1>6, <2>2 DEF TimerWakes, PeersTyped, ThreadTypes
    <3>2. QED
      BY <1>1, <2>1, <3>1 DEF outside, news
  <2>3. CASE r = p
    <3>1. CASE Silent(p)
      <4>1. timer'[p] = "decided"
        BY <1>6, <2>3, <3>1 DEF TimerWakes, PeersTyped, ThreadTypes
      <4>2. QED
        BY <2>1, <4>1 DEF Cared, Announced, Asked, Coming, outside, news
    <3>2. CASE ~ Silent(p)
      <4>1. ~ live \/ where[p] = "left" \/ HasAnswer(p) \/ Says[p] = "quic"
        BY <3>2 DEF Silent, Known, Had, HasAnswer
      <4>2. QED
        BY <2>1, <4>1 DEF Cared, Asked, Coming, outside, news
    <3>3. QED
      BY <3>1, <3>2
  <2>4. QED
    BY <2>2, <2>3
<1>7. ASSUME NEW r \in Peer, TimerMakes(r)
      PROVE  Cared(p)'
  <2>1. UNCHANGED <<outside, news, hand, live>> /\ Install(<<r, "timer">>)
    BY <1>7 DEF TimerMakes
  <2>2. offered \subseteq offered' /\ (live => r \in offered') /\ UNCHANGED <<quicPeers, refused>>
    BY <1>7, <2>1 DEF TimerMakes, Install, StillLive
  <2>3. r # p => timer'[p] = timer[p]
    BY <1>7 DEF TimerMakes, PeersTyped, ThreadTypes
  <2>4. (HasAnswer(p) => HasAnswer(p)') /\ (Says[p] # "quic" /\ r = p /\ live => HasAnswer(p)')
    BY <2>2 DEF HasAnswer
  <2>5. QED
    BY <1>1, <2>1, <2>3, <2>4 DEF outside, news
<1>8. CASE ClientJoined
  <2> DEFINE r == Head(inbox).peer
  <2>1. Takes("joined") /\ UNCHANGED <<outside, seenClients, seenSignals, hand, live>>
             /\ HasAnswer(p)' = HasAnswer(p)
    BY <1>8 DEF ClientJoined, ghosts, HasAnswer
  <2>2. r \in Peer /\ hand.pc = "idle"
    BY <2>1, TakesFirst DEF PeersTyped
  <2>3. live => timer' = [timer EXCEPT ![r] = "sleeping"]
    BY <1>8 DEF ClientJoined
  <2>4. CASE ~ live
    BY <2>1, <2>4 DEF Cared
  <2>5. CASE live
    <3>1. timer'[r] = "sleeping" /\ (r # p => timer'[p] = timer[p])
      BY <2>2, <2>3, <2>5 DEF PeersTyped, ThreadTypes
    <3>2. Announced(p) => Announced(p)'
      <4>1. CASE r = p
        BY <3>1, <4>1 DEF Announced
      <4>2. CASE r # p
        <5>1. Coming("joined", p) => Coming("joined", p)'
          BY <2>1, <4>2, ComingStays
        <5>2. QED
          BY <2>1, <3>1, <4>2, <5>1 DEF Announced, outside
      <4>3. QED
        BY <4>1, <4>2
    <3>3. Asked(p) => Asked(p)'
      <4>1. Coming("signal", p) => Coming("signal", p)'
        BY <2>1, ComingStays
      <4>2. QED
        BY <2>1, <4>1 DEF Asked, outside
    <3>4. QED
      BY <2>1, <3>2, <3>3 DEF Cared, outside
  <2>6. QED
    BY <2>4, <2>5
<1>9. CASE ClientLeft
  <2>1. Takes("left") /\ UNCHANGED <<outside, seenClients, seenSignals, timer, live, offered, refused>>
           /\ quicPeers' = quicPeers \ {Head(inbox).peer}
    BY <1>9 DEF ClientLeft, ghosts
  <2>2. /\ hand.pc = "idle" /\ 1 \in DOMAIN inbox /\ inbox[1] = Head(inbox) /\ Head(inbox).kind = "left"
    BY <2>1, TakesFirst DEF PeersTyped
  <2>3. where[Head(inbox).peer] = "left"
    BY <2>2 DEF Known
  <2>4. HasAnswer(p) => HasAnswer(p)' \/ where[p] = "left"
    BY <2>1, <2>3 DEF HasAnswer
  <2>5. (Coming("joined", p) => Coming("joined", p)') /\ (Coming("signal", p) => Coming("signal", p)')
    BY <2>1, ComingStays
  <2>6. (Announced(p) => Announced(p)') /\ (Asked(p) => Asked(p)')
    BY <2>1, <2>2, <2>5 DEF Announced, Asked, outside
  <2>7. QED
    BY <2>1, <2>6, <2>4 DEF Cared, outside
<1>10. CASE Signal
  <2> DEFINE r == Head(inbox).peer
  <2>1. /\ Takes("signal") /\ UNCHANGED <<outside, seenClients, seenSignals, timer, live>>
        /\ HasAnswer(p)' = HasAnswer(p)
    BY <1>10 DEF Signal, maps, HasAnswer
  <2>2. hand.pc = "idle"
    BY <2>1, TakesFirst DEF PeersTyped
  <2>3. Coming("joined", p) => Coming("joined", p)'
    BY <2>1, ComingStays
  <2>4. Announced(p) => Announced(p)'
    BY <2>1, <2>3 DEF Announced, outside
  <2>5. Says[p] = "quic" /\ live /\ ~HasAnswer(p) /\ Asked(p) => Asked(p)'
    <3>1. SUFFICES ASSUME Says[p] = "quic", live, ~HasAnswer(p), Asked(p)
                   PROVE  Asked(p)'
      OBVIOUS
    <3>2. CASE Coming("signal", p) /\ r = p
      <4>1. p \notin quicPeers
        BY <3>1 DEF HasAnswer
      <4>2. hand' = [pc |-> "start", peer |-> p]
        BY <1>10, <3>1, <3>2, <4>1 DEF Signal, HasEndpoint, Busy
      <4>3. QED
        BY <4>2 DEF Asked
    <3>3. CASE Coming("signal", p) /\ r # p
      <4>1. Coming("signal", p)'
        BY <2>1, <3>3, ComingStays
      <4>2. QED
        BY <4>1 DEF Asked
    <3>4. CASE ~ Coming("signal", p)
      BY <2>1, <2>2, <3>1, <3>4 DEF Asked, outside
    <3>5. QED
      BY <3>2, <3>3, <3>4
  <2>6. QED
    BY <2>1, <2>4, <2>5 DEF Cared, outside
<1>11. CASE PollClients
  <2>1. /\ UNCHANGED <<outside, seenSignals, hand, timer, live>> /\ HasAnswer(p)' = HasAnswer(p)
        /\ relay = "firebase" /\ inbox = <<>>
    BY <1>11 DEF PollClients, Polls, maps, ghosts, HasAnswer
  <2>2. Asked(p) => Asked(p)'
    BY <2>1 DEF Asked, Coming, outside
  <2>3. Announced(p) => Announced(p)'
    <3>1. CASE room.clients = {}
      BY <1>11, <2>1, <3>1 DEF PollClients, Announced, Coming, outside
    <3>2. CASE room.clients # {}
      <4>1. \A r \in room.clients \ seenClients : \E i \in DOMAIN inbox' : inbox'[i] = News("joined", r)
        BY <1>11, <3>2, PolledClients DEF PeersTyped
      <4>2. p \in room.clients \ seenClients => Coming("joined", p)'
        BY <4>1 DEF Coming, News
      <4>3. ~ Coming("joined", p)
        BY <2>1 DEF Coming
      <4>4. QED
        BY <2>1, <4>2, <4>3 DEF Announced
    <3>3. QED
      BY <3>1, <3>2
  <2>4. QED
    BY <2>1, <2>2, <2>3 DEF Cared, outside
<1>12. CASE PollSignals
  <2> DEFINE new == room.signals \ seenSignals
  <2>1. /\ \A r \in new : \E i \in DOMAIN inbox' : inbox'[i] = News("signal", r)
        /\ room'.clients = room.clients
    BY <1>12, PolledSignals DEF PeersTyped
  <2>2. /\ UNCHANGED <<relay, where, said, seenClients, hand, timer, live>> /\ inbox = <<>>
        /\ HasAnswer(p)' = HasAnswer(p)
    BY <1>12 DEF PollSignals, Polls, maps, ghosts, HasAnswer
  <2>3. p \in new => Coming("signal", p)'
    BY <2>1 DEF Coming, News
  <2>4. ~ Coming("signal", p) /\ ~ Coming("joined", p)
    BY <2>2 DEF Coming
  <2>5. (Announced(p) => Announced(p)') /\ (Asked(p) => Asked(p)')
    BY <2>1, <2>2, <2>3, <2>4 DEF Announced, Asked
  <2>6. QED
    BY <2>2, <2>5 DEF Cared
<1>13. ASSUME NEW r \in Peer, Join(r)
       PROVE  Cared(p)'
  <2>1. /\ where[r] = "out" /\ where' = [where EXCEPT ![r] = "in"]
        /\ UNCHANGED <<relay, said, seenClients, seenSignals, hand, timer, live>> /\ HasAnswer(p)' = HasAnswer(p)
    BY <1>13 DEF Join, maps, ghosts, HasAnswer
  <2>2. room'.signals = room.signals /\ room.clients \subseteq room'.clients
    BY <1>13 DEF Join, PeersTyped, NewsTypes
  <2>3. \A m, t : Coming(m, t) => Coming(m, t)'
    <3>1. inbox' = inbox \/ inbox' = Append(inbox, News("joined", r))
      BY <1>13 DEF Join
    <3>2. CASE inbox' = inbox
      BY <3>2 DEF Coming
    <3>3. CASE inbox' = Append(inbox, News("joined", r))
      BY <3>3, ComingAdded
    <3>4. QED
      BY <3>1, <3>2, <3>3
  <2>4. (Announced(p) => Announced(p)') /\ (Asked(p) => Asked(p)')
    BY <2>1, <2>2, <2>3 DEF Announced, Asked
  <2>5. CASE r # p
    <3>1. where'[p] = where[p]
      BY <2>1, <2>5 DEF PeersTyped, NewsTypes
    <3>2. QED
      BY <2>1, <2>4, <3>1 DEF Cared
  <2>6. CASE r = p
    <3>1. p \notin said /\ p \notin seenClients
      BY <2>1, <2>6 DEF Known
    <3>2. Announced(p)'
      <4>1. CASE relay = "cloud"
        <5>1. inbox' = Append(inbox, News("joined", p))
          BY <1>13, <2>6, <4>1 DEF Join
        <5>2. QED
          BY <5>1, ComingAdded DEF Announced
      <4>2. CASE relay = "firebase"
        <5>1. p \in room'.clients
          BY <1>13, <2>6, <4>2 DEF Join, PeersTyped, NewsTypes
        <5>2. QED
          BY <2>1, <3>1, <4>2, <5>1 DEF Announced
      <4>3. QED
        BY <4>1, <4>2 DEF PeersTyped, NewsTypes
    <3>3. QED
      BY <2>1, <3>1, <3>2 DEF Cared
  <2>7. QED
    BY <2>5, <2>6
<1>14. ASSUME NEW r \in Peer, Leave(r)
       PROVE  Cared(p)'
  <2>1. /\ where' = [where EXCEPT ![r] = "left"]
        /\ UNCHANGED <<relay, said, seenClients, seenSignals, hand, timer, live>> /\ HasAnswer(p)' = HasAnswer(p)
    BY <1>14 DEF Leave, maps, ghosts, HasAnswer
  <2>2. CASE r = p
    BY <2>1, <2>2 DEF Cared, PeersTyped, NewsTypes
  <2>3. CASE r # p
    <3>1. where'[p] = where[p] /\ room'.signals = room.signals /\ (p \in room.clients => p \in room'.clients)
      BY <1>14, <2>1, <2>3 DEF Leave, PeersTyped, NewsTypes
    <3>2. \A m, t : Coming(m, t) => Coming(m, t)'
      <4>1. inbox' = inbox \/ inbox' = Append(inbox, News("left", r))
        BY <1>14 DEF Leave
      <4>2. CASE inbox' = inbox
        BY <4>2 DEF Coming
      <4>3. CASE inbox' = Append(inbox, News("left", r))
        BY <4>3, ComingAdded
      <4>4. QED
        BY <4>1, <4>2, <4>3
    <3>3. (Announced(p) => Announced(p)') /\ (Asked(p) => Asked(p)')
      BY <2>1, <3>1, <3>2 DEF Announced, Asked
    <3>4. QED
      BY <2>1, <3>1, <3>3 DEF Cared
  <2>4. QED
    BY <2>2, <2>3
<1>15. ASSUME NEW r \in Peer, Say(r)
       PROVE  Cared(p)'
  <2>1. /\ r \notin said /\ said' = said \cup {r}
        /\ UNCHANGED <<relay, where, seenClients, seenSignals, hand, timer, live>> /\ HasAnswer(p)' = HasAnswer(p)
    BY <1>15 DEF Say, maps, ghosts, HasAnswer
  <2>2. room'.clients = room.clients /\ room.signals \subseteq room'.signals
    BY <1>15 DEF Say, PeersTyped, NewsTypes
  <2>3. \A m, t : Coming(m, t) => Coming(m, t)'
    <3>1. inbox' = inbox \/ inbox' = Append(inbox, News("signal", r))
      BY <1>15 DEF Say
    <3>2. CASE inbox' = inbox
      BY <3>2 DEF Coming
    <3>3. CASE inbox' = Append(inbox, News("signal", r))
      BY <3>3, ComingAdded
    <3>4. QED
      BY <3>1, <3>2, <3>3
  <2>4. (Announced(p) => Announced(p)') /\ (Asked(p) => Asked(p)')
    BY <2>1, <2>2, <2>3 DEF Announced, Asked
  <2>5. CASE r # p
    BY <2>1, <2>4, <2>5 DEF Cared
  <2>6. CASE r = p
    <3>1. Asked(p)'
      <4>1. CASE relay = "cloud"
        <5>1. inbox' = Append(inbox, News("signal", p))
          BY <1>15, <2>6, <4>1 DEF Say
        <5>2. QED
          BY <5>1, ComingAdded DEF Asked
      <4>2. CASE relay = "firebase"
        <5>1. p \in room'.signals
          BY <1>15, <2>6, <4>2 DEF Say, PeersTyped, NewsTypes
        <5>2. p \notin seenSignals'
          BY <2>1, <2>6 DEF Known
        <5>3. QED
          BY <5>1, <5>2 DEF Asked
      <4>3. QED
        BY <4>1, <4>2 DEF PeersTyped, NewsTypes
    <3>2. QED
      BY <2>1, <2>4, <3>1 DEF Cared
  <2>7. QED
    BY <2>5, <2>6
<1>16. QED
  BY <1>2, <1>3, <1>4, <1>5, <1>6, <1>7, <1>8, <1>9, <1>10, <1>11, <1>12, <1>13, <1>14, <1>15
  DEF PeersNext, Signalling, Stopping

LEMMA NobodyForgottenKept ==
    ASSUME PeersTyped, Known, Had, StopsForGood, NobodyForgotten, [PeersNext]_peersVars
    PROVE  NobodyForgotten'
<1>1. \A p \in Peer : Cared(p)
  BY DEF NobodyForgotten, Cared
<1>2. \A p \in Peer : Cared(p)'
  BY <1>1, CaredKept
<1>3. QED
  BY <1>2 DEF NobodyForgotten, Cared

(******************************** theorems *********************************)

LEMMA PeersInvInit == PeersInit => PeersInv
<1> SUFFICES ASSUME PeersInit
             PROVE  PeersInv
  OBVIOUS
<1>1. Clients = {} /\ Held = {}
  BY DEF PeersInit, Clients, Held
<1>2. Cardinality({}) = 0 /\ Cardinality(Peer) \in Nat
  BY FS_EmptySet, FS_CardinalityType, WebPeersAssumption
<1>3. NewsTypes
  BY DEF PeersInit, NewsTypes
<1>4. ThreadTypes
  BY DEF PeersInit, ThreadTypes
<1>5. PeerTypes
  BY DEF PeersInit, PeerTypes
<1>6. CountTypes
  BY <1>2 DEF PeersInit, CountTypes
<1>7. SaidOnce
  BY DEF PeersInit, SaidOnce
<1>8. StopsForGood /\ Had
  BY DEF PeersInit, StopsForGood, Had
<1>9. Known
  BY DEF PeersInit, Known
<1>10. StoppedIsEmpty
  BY <1>1 DEF PeersInit, StoppedIsEmpty
<1>11. CountDue
  BY <1>1, <1>2 DEF PeersInit, CountDue
<1>12. NobodyForgotten
  BY DEF PeersInit, NobodyForgotten
<1>13. QED
  BY <1>3, <1>4, <1>5, <1>6, <1>7, <1>8, <1>9, <1>10, <1>11, <1>12 DEF PeersInv, PeersTyped

LEMMA PeersInvNext == PeersInv /\ [PeersNext]_peersVars => PeersInv'
  BY PeersTypedKept, SaidOnceKept, StopsForGoodKept, KnownKept, HadKept, StoppedIsEmptyKept, CountDueKept,
     NobodyForgottenKept DEF PeersInv

LEMMA PeersInvariant == PeersSpec => []PeersInv
  BY PeersInvInit, PeersInvNext, PTL DEF PeersSpec

\* What a peer said is handled at most once, whatever the database keeps, and the variables of the
\* host for browsers have their types, for any number of peers.
THEOREM SaidIsHandledOnce == PeersSpec => []PeersTypeOK
<1>1. PeersInv => PeersTypeOK
  <2>1. ASSUME PeersInv
        PROVE  \A i \in DOMAIN inbox : inbox[i].kind \in {"joined", "left", "signal"} /\ inbox[i].peer \in Peer
    BY <2>1, NewsFields DEF PeersInv, PeersTyped, NewsTypes
  <2>2. ASSUME PeersInv
        PROVE  hand.pc \in {"idle", "make", "start", "keep", "close"}
    BY <2>2, DoingType DEF PeersInv, PeersTyped, ThreadTypes
  <2>3. ASSUME PeersInv
        PROVE  handled \in [Peer -> 0 .. 1]
    BY <2>3 DEF PeersInv, PeersTyped, CountTypes, SaidOnce
  <2>4. QED
    BY <2>1, <2>2, <2>3 DEF PeersInv, PeersTyped, NewsTypes, ThreadTypes, PeerTypes, CountTypes, PeersTypeOK
<1>2. QED
  BY <1>1, PeersInvariant, PTL

\* Stop leaves no connection and no endpoint behind, however many threads were about to add one.
THEOREM StopLeavesNothing == PeersSpec => []StoppedIsEmpty
<1>1. PeersInv => StoppedIsEmpty
  BY DEF PeersInv
<1>2. QED
  BY <1>1, PeersInvariant, PTL

\* The window's number is right, or a notification that corrects it is on its way; and for a peer that
\* waits for an answer there is always someone to see to it.  What remains for PeersSettle is that
\* notifications are delivered and the threads run.
THEOREM NothingIsForgotten == PeersSpec => []NothingForgotten
<1>1. PeersInv => NothingForgotten
  BY DEF PeersInv, NothingForgotten
<1>2. QED
  BY <1>1, PeersInvariant, PTL

=============================================================================
