-------------------------- MODULE NativeQuicProofs --------------------------
(***************************************************************************)
(* The direct transport of native peers implements Pipe in each direction  *)
(* of each stream, for any number of streams, bytes and faults.            *)
(*                                                                         *)
(* The bytes of a stream are numbered as they are written, so everything   *)
(* it has on its way must be one interval after the other: what was read,  *)
(* what lies in rx, what the frames between the two sides carry, and what  *)
(* is still in tx.                                                         *)
(***************************************************************************)
EXTENDS NativeQuic, WellFoundedInduction, TLAPS

(*************************** frames that carry bytes ***********************)

Frame == [kind : {"hello", "reply", "finish"}]
         \cup [kind : {"data"}, id : Id, bytes : Seq(Nat), fin : BOOLEAN]

\* f belongs to stream i.
Of(f, i) == f.kind = "data" /\ f.id = i

\* The bytes b come right behind the first n of their stream.
Run(b, n) == \A k \in 1 .. Len(b) : b[k] = n + k

\* In front of frame k + 1 of c, the first pos[k] bytes of stream i are over; c begins behind the
\* first n of them and ends behind the first m, and a frame with the end of the stream leaves off at
\* a number in last.
Carries(c, i, pos, n, m, last) ==
    /\ pos[0] = n /\ pos[Len(c)] = m
    /\ \A j, k \in 0 .. Len(c) : j <= k => pos[j] <= pos[k]
    /\ \A k \in 1 .. Len(c) :
          /\ ~Of(c[k], i) => pos[k] = pos[k-1]
          /\ Of(c[k], i) => /\ pos[k] = pos[k-1] + Len(c[k].bytes)
                            /\ Run(c[k].bytes, pos[k-1])
                            /\ c[k].fin => pos[k] \in last

Brings(c, i, n, m, last) == \E pos \in [0 .. Len(c) -> Nat] : Carries(c, i, pos, n, m, last)

LEMMA FrameType ==
    ASSUME NEW f \in Frame, NEW i, Of(f, i)
    PROVE  f.bytes \in Seq(Nat) /\ f.fin \in BOOLEAN /\ i \in Id
BY DEF Frame, Of

\* No frame brings no byte.
LEMMA BringsNothing ==
    ASSUME NEW i, NEW n \in Nat, NEW last
    PROVE  Brings(<<>>, i, n, n, last)
<1>1. [k \in 0 .. 0 |-> n] \in [0 .. Len(<<>>) -> Nat]
    OBVIOUS
<1>2. Carries(<<>>, i, [k \in 0 .. 0 |-> n], n, n, last)
    BY DEF Carries
<1> QED
    BY <1>1, <1>2 DEF Brings

LEMMA BringsMore ==
    ASSUME NEW c \in Seq(Frame), NEW i, NEW n \in Nat, NEW m \in Nat, NEW last, Brings(c, i, n, m, last)
    PROVE  n <= m
<1>1. PICK pos \in [0 .. Len(c) -> Nat] : Carries(c, i, pos, n, m, last)
    BY DEF Brings
<1>2. Len(c) \in Nat /\ 0 \in 0 .. Len(c) /\ Len(c) \in 0 .. Len(c)
    OBVIOUS
<1> QED
    BY <1>1, <1>2 DEF Carries

\* One more frame goes onto the end.
LEMMA BringsAppended ==
    ASSUME NEW c \in Seq(Frame), NEW i, NEW n \in Nat, NEW m \in Nat, NEW last, Brings(c, i, n, m, last),
           NEW f \in Frame, NEW m2 \in Nat,
           ~Of(f, i) => m2 = m,
           Of(f, i) => m2 = m + Len(f.bytes) /\ Run(f.bytes, m) /\ (f.fin => m2 \in last)
    PROVE  Brings(Append(c, f), i, n, m2, last)
<1>1. PICK pos \in [0 .. Len(c) -> Nat] : Carries(c, i, pos, n, m, last)
    BY DEF Brings
<1> DEFINE d == Append(c, f)
           p == [k \in 0 .. Len(d) |-> IF k <= Len(c) THEN pos[k] ELSE m2]
<1>2. Len(c) \in Nat /\ Len(d) = Len(c) + 1 /\ d \in Seq(Frame)
    OBVIOUS
<1>3. p \in [0 .. Len(d) -> Nat]
    BY <1>2
<1>4. m <= m2
    BY FrameType
<1>5. p[0] = n /\ p[Len(d)] = m2
    BY <1>1, <1>2 DEF Carries
<1>6. ASSUME NEW j \in 0 .. Len(d), NEW k \in 0 .. Len(d), j <= k
      PROVE  p[j] <= p[k]
    <2>1. CASE k <= Len(c)
        BY <1>1, <1>2, <1>6, <2>1 DEF Carries
    <2>2. CASE k = Len(c) + 1 /\ j <= Len(c)
        <3>1. pos[j] <= pos[Len(c)] /\ pos[Len(c)] = m
            BY <1>1, <1>2, <2>2 DEF Carries
        <3> QED
            BY <1>2, <1>3, <1>4, <2>2, <3>1
    <2>3. CASE k = Len(c) + 1 /\ j = k
        BY <1>2, <1>3, <2>3
    <2> QED
        BY <1>2, <1>6, <2>1, <2>2, <2>3
<1>7. ASSUME NEW k \in 1 .. Len(d)
      PROVE  /\ ~Of(d[k], i) => p[k] = p[k-1]
             /\ Of(d[k], i) => /\ p[k] = p[k-1] + Len(d[k].bytes)
                               /\ Run(d[k].bytes, p[k-1])
                               /\ d[k].fin => p[k] \in last
    <2>1. CASE k <= Len(c)
        <3>1. d[k] = c[k] /\ p[k] = pos[k] /\ p[k-1] = pos[k-1] /\ k \in 1 .. Len(c)
            BY <1>2, <2>1
        <3> QED
            BY <1>1, <3>1 DEF Carries
    <2>2. CASE k = Len(c) + 1
        <3>1. d[k] = f /\ p[k] = m2 /\ p[k-1] = m
            BY <1>1, <1>2, <2>2 DEF Carries
        <3> QED
            BY <3>1
    <2> QED
        BY <1>2, <2>1, <2>2
<1>8. Carries(d, i, p, n, m2, last)
    BY <1>5, <1>6, <1>7 DEF Carries
<1> QED
    BY <1>3, <1>8 DEF Brings

\* The first frame is taken off.
LEMMA BringsTaken ==
    ASSUME NEW c \in Seq(Frame), NEW i, NEW n \in Nat, NEW m \in Nat, NEW last, Brings(c, i, n, m, last),
           c # <<>>
    PROVE  \E n2 \in Nat :
              /\ Brings(Tail(c), i, n2, m, last)
              /\ ~Of(Head(c), i) => n2 = n
              /\ Of(Head(c), i) => /\ n2 = n + Len(Head(c).bytes) /\ Run(Head(c).bytes, n)
                                   /\ Head(c).fin => n2 \in last
<1>1. PICK pos \in [0 .. Len(c) -> Nat] : Carries(c, i, pos, n, m, last)
    BY DEF Brings
<1> DEFINE d == Tail(c)
           p == [k \in 0 .. Len(d) |-> pos[k+1]]
<1>2. /\ Len(c) \in Nat \ {0} /\ Len(d) = Len(c) - 1 /\ d \in Seq(Frame)
      /\ Head(c) = c[1] /\ (\A k \in 1 .. Len(d) : d[k] = c[k+1])
    OBVIOUS
<1>3. p \in [0 .. Len(d) -> Nat] /\ pos[1] \in Nat
    BY <1>2
<1>4. p[0] = pos[1] /\ p[Len(d)] = m
    BY <1>1, <1>2 DEF Carries
<1>5. ASSUME NEW j \in 0 .. Len(d), NEW k \in 0 .. Len(d), j <= k
      PROVE  p[j] <= p[k]
    BY <1>1, <1>2, <1>5 DEF Carries
<1>6. ASSUME NEW k \in 1 .. Len(d)
      PROVE  /\ ~Of(d[k], i) => p[k] = p[k-1]
             /\ Of(d[k], i) => /\ p[k] = p[k-1] + Len(d[k].bytes)
                               /\ Run(d[k].bytes, p[k-1])
                               /\ d[k].fin => p[k] \in last
    <2>1. /\ k + 1 \in 1 .. Len(c) /\ d[k] = c[k+1] /\ p[k] = pos[k+1] /\ p[k-1] = pos[k]
          /\ (k + 1) - 1 = k
        BY <1>2
    <2> QED
        BY <1>1, <2>1 DEF Carries
<1>7. Carries(d, i, p, pos[1], m, last)
    BY <1>4, <1>5, <1>6 DEF Carries
<1>8. /\ ~Of(c[1], i) => pos[1] = n
      /\ Of(c[1], i) => /\ pos[1] = n + Len(c[1].bytes) /\ Run(c[1].bytes, n)
                        /\ c[1].fin => pos[1] \in last
    BY <1>1, <1>2 DEF Carries
<1> QED
    BY <1>2, <1>3, <1>7, <1>8 DEF Brings

\* The frames at the end are lost.
LEMMA BringsLost ==
    ASSUME NEW c \in Seq(Frame), NEW d \in Seq(Frame), NEW i, NEW n \in Nat, NEW m \in Nat, NEW last,
           Brings(c \o d, i, n, m, last)
    PROVE  \E m2 \in Nat : m2 <= m /\ Brings(c, i, n, m2, last)
<1> DEFINE b == c \o d
<1>1. PICK pos \in [0 .. Len(b) -> Nat] : Carries(b, i, pos, n, m, last)
    BY DEF Brings
<1> DEFINE p == [k \in 0 .. Len(c) |-> pos[k]]
<1>2. /\ Len(c) \in Nat /\ Len(b) \in Nat /\ Len(c) <= Len(b)
      /\ \A k \in 1 .. Len(c) : b[k] = c[k]
    OBVIOUS
<1>3. p \in [0 .. Len(c) -> Nat] /\ pos[Len(c)] \in Nat /\ p[0] = n /\ p[Len(c)] = pos[Len(c)]
    BY <1>1, <1>2 DEF Carries
<1>4. pos[Len(c)] <= m
    BY <1>1, <1>2 DEF Carries
<1>5. \A j, k \in 0 .. Len(c) : j <= k => p[j] <= p[k]
    BY <1>1, <1>2 DEF Carries
<1>6. ASSUME NEW k \in 1 .. Len(c)
      PROVE  /\ ~Of(c[k], i) => p[k] = p[k-1]
             /\ Of(c[k], i) => /\ p[k] = p[k-1] + Len(c[k].bytes)
                               /\ Run(c[k].bytes, p[k-1])
                               /\ c[k].fin => p[k] \in last
    <2>1. k \in 1 .. Len(b) /\ b[k] = c[k] /\ p[k] = pos[k] /\ p[k-1] = pos[k-1]
        BY <1>2
    <2> QED
        BY <1>1, <2>1 DEF Carries
<1>7. Carries(c, i, p, n, pos[Len(c)], last)
    BY <1>3, <1>5, <1>6 DEF Carries
<1> QED
    BY <1>3, <1>4, <1>7 DEF Brings

\* More numbers may end the stream.
LEMMA BringsLast ==
    ASSUME NEW c, NEW i, NEW n, NEW m, NEW last, NEW more, last \subseteq more, Brings(c, i, n, m, last)
    PROVE  Brings(c, i, n, m, more)
BY DEF Brings, Carries

(********************************* intervals *******************************)

LEMMA RunConcat ==
    ASSUME NEW a \in Seq(Nat), NEW b \in Seq(Nat), NEW n \in Nat, Run(a, n), Run(b, n + Len(a))
    PROVE  Run(a \o b, n)
BY DEF Run

LEMMA ConcatTaken ==
    ASSUME NEW c \in Seq(Frame), NEW d \in Seq(Frame), c # <<>>
    PROVE  c \o d # <<>> /\ Head(c \o d) = Head(c) /\ Tail(c \o d) = Tail(c) \o d
OBVIOUS

LEMMA RunAppend ==
    ASSUME NEW a \in Seq(Nat), NEW n \in Nat, Run(a, n)
    PROVE  Run(Append(a, n + Len(a) + 1), n)
BY DEF Run

LEMMA CutType ==
    ASSUME NEW a \in Seq(Nat), NEW k \in Nat, k <= Len(a)
    PROVE  SubSeq(a, 1, k) \in Seq(Nat) /\ SubSeq(a, k + 1, Len(a)) \in Seq(Nat)
OBVIOUS

LEMMA CutAway ==
    ASSUME NEW a \in Seq(Nat), NEW k \in Nat, k = Len(a) \/ a = <<>>
    PROVE  SubSeq(a, k + 1, Len(a)) = <<>>
OBVIOUS

\* A run is cut in two.
LEMMA RunCut ==
    ASSUME NEW a \in Seq(Nat), NEW n \in Nat, Run(a, n), NEW k \in 0 .. Len(a)
    PROVE  /\ SubSeq(a, 1, k) \in Seq(Nat) /\ Len(SubSeq(a, 1, k)) = k /\ Run(SubSeq(a, 1, k), n)
           /\ SubSeq(a, k + 1, Len(a)) \in Seq(Nat) /\ Len(SubSeq(a, k + 1, Len(a))) = Len(a) - k
           /\ Run(SubSeq(a, k + 1, Len(a)), n + k)
BY DEF Run

\* Two runs from the same place: the shorter one is the beginning of the longer one.
LEMMA RunBegins ==
    ASSUME NEW a \in Seq(Nat), NEW b \in Seq(Nat), NEW n \in Nat, Run(a, n), Run(b, n), Len(a) <= Len(b)
    PROVE  a = SubSeq(b, 1, Len(a))
BY DEF Run

LEMMA RunEqual ==
    ASSUME NEW a \in Seq(Nat), NEW b \in Seq(Nat), NEW n \in Nat, Run(a, n), Run(b, n), Len(a) = Len(b)
    PROVE  a = b
BY DEF Run

(************************ one direction of one stream **********************)

\* Where the stream may end.
Ends(w, closed) == IF closed THEN {Len(w)} ELSE {}

\* w was written; t waits to be sent, its first bytes, ahead of them, are already among the frames
\* of c; r waits for a read, g was read.  Frames may be lost once the sender is destroyed, and a
\* reader that heard of the end has everything.
Orderly(w, t, ahead, lost, closed, c, i, r, g, heard) ==
    /\ Run(w, 0) /\ ahead <= Len(t) /\ Len(t) <= Len(w) /\ Run(t, Len(w) - Len(t))
    /\ Run(g, 0) /\ Run(r, Len(g))
    /\ \E m \in Nat : /\ Brings(c, i, Len(g) + Len(r), m, Ends(w, closed))
                      /\ m <= Len(w) - Len(t) + ahead
                      /\ ~lost => m = Len(w) - Len(t) + ahead
    /\ heard => closed /\ Len(g) + Len(r) = Len(w)

LEMMA OrderlyBounds ==
    ASSUME NEW w \in Seq(Nat), NEW t \in Seq(Nat), NEW ahead \in Nat, NEW lost, NEW closed,
           NEW c \in Seq(Frame), NEW i, NEW r \in Seq(Nat), NEW g \in Seq(Nat), NEW heard,
           Orderly(w, t, ahead, lost, closed, c, i, r, g, heard)
    PROVE  Len(g) + Len(r) <= Len(w) /\ Len(t) <= Len(w)
<1>1. PICK m \in Nat : /\ Brings(c, i, Len(g) + Len(r), m, Ends(w, closed))
                       /\ m <= Len(w) - Len(t) + ahead
    BY DEF Orderly
<1>2. Len(g) + Len(r) \in Nat /\ Len(w) \in Nat /\ Len(t) \in Nat
    OBVIOUS
<1>3. Len(g) + Len(r) <= m
    BY <1>1, <1>2, BringsMore
<1> QED
    BY <1>1, <1>2, <1>3 DEF Orderly

LEMMA OrderlyWritten ==
    ASSUME NEW w \in Seq(Nat), NEW t \in Seq(Nat), NEW ahead \in Nat, NEW lost,
           NEW c \in Seq(Frame), NEW i, NEW r \in Seq(Nat), NEW g \in Seq(Nat), NEW heard,
           Orderly(w, t, ahead, lost, FALSE, c, i, r, g, heard)
    PROVE  Orderly(Append(w, Len(w) + 1), Append(t, Len(w) + 1), ahead, lost, FALSE, c, i, r, g, heard)
<1> DEFINE w2 == Append(w, Len(w) + 1)
           t2 == Append(t, Len(w) + 1)
<1>1. /\ Len(w) \in Nat /\ Len(t) \in Nat /\ Len(w2) = Len(w) + 1 /\ Len(t2) = Len(t) + 1
      /\ Len(t) <= Len(w) /\ Len(w2) - Len(t2) = Len(w) - Len(t) /\ Len(w) - Len(t) \in Nat
    BY DEF Orderly
<1>2. Run(w2, 0)
    BY <1>1, RunAppend DEF Orderly
<1>3. Run(t2, Len(w) - Len(t))
    <2>1. (Len(w) - Len(t)) + Len(t) + 1 = Len(w) + 1
        BY <1>1
    <2> QED
        BY <1>1, <2>1, RunAppend DEF Orderly
<1>4. Ends(w2, FALSE) = Ends(w, FALSE)
    BY DEF Ends
<1> HIDE DEF w2, t2
<1>5. /\ Len(w2) - Len(t2) = Len(w) - Len(t) /\ Len(t2) <= Len(w2)
      /\ Len(w2) - Len(t2) + ahead = Len(w) - Len(t) + ahead
      /\ ahead <= Len(t2) /\ ~heard
    BY <1>1 DEF Orderly
<1>6. Run(t2, Len(w2) - Len(t2))
    BY <1>3, <1>5
<1>7. Orderly(w2, t2, ahead, lost, FALSE, c, i, r, g, heard)
    BY <1>2, <1>4, <1>5, <1>6 DEF Orderly
<1> QED
    BY <1>7 DEF w2, t2

LEMMA OrderlyClosed ==
    ASSUME NEW w \in Seq(Nat), NEW t \in Seq(Nat), NEW ahead \in Nat, NEW lost,
           NEW c \in Seq(Frame), NEW i, NEW r \in Seq(Nat), NEW g \in Seq(Nat), NEW heard,
           Orderly(w, t, ahead, lost, FALSE, c, i, r, g, heard)
    PROVE  Orderly(w, t, ahead, lost, TRUE, c, i, r, g, heard)
<1>1. Ends(w, FALSE) \subseteq Ends(w, TRUE)
    BY DEF Ends
<1>2. \A m \in Nat : Brings(c, i, Len(g) + Len(r), m, Ends(w, FALSE))
                     => Brings(c, i, Len(g) + Len(r), m, Ends(w, TRUE))
    BY <1>1, BringsLast
<1> QED
    BY <1>2 DEF Orderly

LEMMA OrderlyRead ==
    ASSUME NEW w \in Seq(Nat), NEW t \in Seq(Nat), NEW ahead \in Nat, NEW lost, NEW closed,
           NEW c \in Seq(Frame), NEW i, NEW r \in Seq(Nat), NEW g \in Seq(Nat), NEW heard,
           Orderly(w, t, ahead, lost, closed, c, i, r, g, heard),
           NEW k \in 0 .. Len(r)
    PROVE  Orderly(w, t, ahead, lost, closed, c, i, SubSeq(r, k + 1, Len(r)), g \o SubSeq(r, 1, k), heard)
<1> DEFINE r2 == SubSeq(r, k + 1, Len(r))
           g1 == SubSeq(r, 1, k)
           g2 == g \o g1
<1>1. Run(r, Len(g)) /\ Len(g) \in Nat
    BY DEF Orderly
<1>2. /\ g1 \in Seq(Nat) /\ Len(g1) = k /\ Run(g1, Len(g)) /\ r2 \in Seq(Nat) /\ Len(r2) = Len(r) - k
      /\ Run(r2, Len(g) + k)
    BY <1>1, RunCut
<1> HIDE DEF r2, g1
<1>3. Len(g2) = Len(g) + k /\ Len(g2) + Len(r2) = Len(g) + Len(r)
    <2>0. g1 \in Seq(Nat)
        BY <1>2
    <2>1. Len(g2) = Len(g) + Len(g1)
        BY <2>0
    <2> HIDE DEF g2
    <2>2. Len(g2) + Len(r2) = Len(g) + k + (Len(r) - k)
        BY <1>2, <2>1
    <2> QED
        BY <1>1, <1>2, <2>1, <2>2
<1>4. Run(g2, 0)
    <2>1. Run(g, 0) /\ 0 + Len(g) = Len(g)
        BY DEF Orderly
    <2> QED
        BY <1>2, <2>1, RunConcat
<1> HIDE DEF g2
<1>5. Run(r2, Len(g2))
    BY <1>2, <1>3
<1> QED
    BY <1>3, <1>4, <1>5 DEF Orderly, r2, g1, g2

\* The reader's side takes the next frame.
LEMMA OrderlyTaken ==
    ASSUME NEW w \in Seq(Nat), NEW t \in Seq(Nat), NEW ahead \in Nat, NEW lost, NEW closed,
           NEW c \in Seq(Frame), NEW i, NEW r \in Seq(Nat), NEW g \in Seq(Nat), NEW heard, NEW heard2,
           Orderly(w, t, ahead, lost, closed, c, i, r, g, heard),
           c # <<>>,
           heard2 => heard \/ (Of(Head(c), i) /\ Head(c).fin)
    PROVE  Orderly(w, t, ahead, lost, closed, Tail(c), i,
                   IF Of(Head(c), i) THEN r \o Head(c).bytes ELSE r, g, heard2)
<1> DEFINE f == Head(c)
           r2 == IF Of(f, i) THEN r \o f.bytes ELSE r
           n == Len(g) + Len(r)
<1>1. PICK m \in Nat : /\ Brings(c, i, n, m, Ends(w, closed))
                       /\ m <= Len(w) - Len(t) + ahead
                       /\ ~lost => m = Len(w) - Len(t) + ahead
    BY DEF Orderly
<1>2. n \in Nat /\ f \in Frame /\ Tail(c) \in Seq(Frame) /\ Len(g) \in Nat /\ Len(r) \in Nat
    OBVIOUS
<1> HIDE DEF f, n
<1>3. PICK n2 \in Nat :
              /\ Brings(Tail(c), i, n2, m, Ends(w, closed))
              /\ ~Of(f, i) => n2 = n
              /\ Of(f, i) => n2 = n + Len(f.bytes) /\ Run(f.bytes, n) /\ (f.fin => n2 \in Ends(w, closed))
    BY <1>1, <1>2, BringsTaken DEF f
<1>4. r2 \in Seq(Nat) /\ Len(g) + Len(r2) = n2 /\ Run(r2, Len(g))
    <2>1. CASE Of(f, i)
        <3>1. f.bytes \in Seq(Nat) /\ r2 = r \o f.bytes
            BY <1>2, <2>1, FrameType
        <3> HIDE DEF r2
        <3>2. Len(r2) = Len(r) + Len(f.bytes)
            BY <3>1
        <3>3. Run(r, Len(g)) /\ Run(f.bytes, Len(g) + Len(r))
            BY <1>3, <2>1 DEF Orderly, n
        <3> QED
            BY <1>2, <1>3, <2>1, <3>1, <3>2, <3>3, RunConcat DEF n
    <2>2. CASE ~Of(f, i)
        BY <1>2, <1>3, <2>2 DEF Orderly, n
    <2> QED
        BY <2>1, <2>2
<1>5. n <= n2 /\ n2 <= m
    <2>1. Of(f, i) => Len(f.bytes) \in Nat
        BY <1>2, FrameType
    <2>2. n2 <= m
        BY <1>2, <1>3, BringsMore
    <2> HIDE DEF r2
    <2>3. n <= n2
        BY <1>2, <1>3, <2>1
    <2> QED
        BY <2>2, <2>3
<1>6. heard2 => closed /\ n2 = Len(w)
    <2>1. CASE Of(f, i) /\ f.fin
        BY <1>3, <2>1 DEF Ends
    <2>2. CASE heard
        <3>1. n = Len(w) /\ closed
            BY <2>2 DEF Orderly, n
        <3>2. m <= Len(w)
            BY <1>1 DEF Orderly
        <3> QED
            BY <1>2, <1>5, <3>1, <3>2
    <2> QED
        BY <2>1, <2>2 DEF f
<1> HIDE DEF r2
<1>7. Orderly(w, t, ahead, lost, closed, Tail(c), i, r2, g, heard2)
    BY <1>1, <1>3, <1>4, <1>6 DEF Orderly
<1> QED
    BY <1>7 DEF r2, f

\* The sender's side sends a frame that carries none of the stream's bytes.
LEMMA OrderlyAppended ==
    ASSUME NEW w \in Seq(Nat), NEW t \in Seq(Nat), NEW ahead \in Nat, NEW lost, NEW closed,
           NEW c \in Seq(Frame), NEW i, NEW r \in Seq(Nat), NEW g \in Seq(Nat), NEW heard,
           Orderly(w, t, ahead, lost, closed, c, i, r, g, heard),
           NEW f \in Frame, ~Of(f, i)
    PROVE  Orderly(w, t, ahead, lost, closed, Append(c, f), i, r, g, heard)
<1>1. Len(g) + Len(r) \in Nat
    OBVIOUS
<1>2. \A m \in Nat : Brings(c, i, Len(g) + Len(r), m, Ends(w, closed))
                     => Brings(Append(c, f), i, Len(g) + Len(r), m, Ends(w, closed))
    BY <1>1, BringsAppended
<1> QED
    BY <1>2 DEF Orderly

\* It hands the first bytes of tx over ...
LEMMA OrderlyAdded ==
    ASSUME NEW w \in Seq(Nat), NEW t \in Seq(Nat), NEW closed,
           NEW c \in Seq(Frame), NEW i, NEW r \in Seq(Nat), NEW g \in Seq(Nat), NEW heard,
           Orderly(w, t, 0, FALSE, closed, c, i, r, g, heard),
           NEW f \in Frame, Of(f, i), NEW k \in 0 .. Len(t), f.bytes = SubSeq(t, 1, k),
           f.fin => closed /\ k = Len(t)
    PROVE  Orderly(w, t, k, FALSE, closed, Append(c, f), i, r, g, heard)
<1> DEFINE n == Len(w) - Len(t)
<1>1. /\ Len(t) <= Len(w) /\ n \in Nat /\ Len(g) + Len(r) \in Nat /\ n + k \in Nat /\ n + 0 = n
      /\ Run(t, n)
    BY DEF Orderly
<1>2. Brings(c, i, Len(g) + Len(r), n, Ends(w, closed))
    <2>1. PICK m \in Nat : Brings(c, i, Len(g) + Len(r), m, Ends(w, closed)) /\ m = n + 0
        BY DEF Orderly
    <2> QED
        BY <1>1, <2>1
<1>3. Len(f.bytes) = k /\ Run(f.bytes, n)
    <2> HIDE DEF n
    <2>1. Len(SubSeq(t, 1, k)) = k /\ Run(SubSeq(t, 1, k), n)
        BY <1>1, RunCut
    <2> QED
        BY <2>1
<1>4. f.fin => n + k \in Ends(w, closed)
    <2> SUFFICES ASSUME f.fin PROVE n + k \in Ends(w, closed)
        OBVIOUS
    <2>1. closed /\ k = Len(t)
        BY Zenon
    <2>2. Len(w) - Len(t) + Len(t) = Len(w)
        OBVIOUS
    <2>3. n + k = Len(w)
        BY <2>1, <2>2, Zenon
    <2> HIDE DEF n
    <2> QED
        BY <2>1, <2>3 DEF Ends
<1>5. Brings(Append(c, f), i, Len(g) + Len(r), n + k, Ends(w, closed))
    <2> HIDE DEF n
    <2> QED
        BY <1>1, <1>2, <1>3, <1>4, BringsAppended
<1> QED
    BY <1>1, <1>5 DEF Orderly

\* ... and then takes them off.
LEMMA OrderlyPopped ==
    ASSUME NEW w \in Seq(Nat), NEW t \in Seq(Nat), NEW ahead \in Nat, NEW lost, NEW closed,
           NEW c \in Seq(Frame), NEW i, NEW r \in Seq(Nat), NEW g \in Seq(Nat), NEW heard,
           Orderly(w, t, ahead, lost, closed, c, i, r, g, heard)
    PROVE  Orderly(w, SubSeq(t, ahead + 1, Len(t)), 0, lost, closed, c, i, r, g, heard)
<1> DEFINE t2 == SubSeq(t, ahead + 1, Len(t))
           n == Len(w) - Len(t)
<1>1. n \in Nat /\ ahead \in 0 .. Len(t) /\ Run(t, n) /\ Len(t) <= Len(w)
    BY DEF Orderly
<1>2. t2 \in Seq(Nat) /\ Len(t2) = Len(t) - ahead /\ Run(t2, n + ahead)
    BY <1>1, RunCut
<1> HIDE DEF t2
<1>3. /\ Len(w) - Len(t2) = n + ahead /\ Len(t2) <= Len(w)
      /\ Len(w) - Len(t2) + 0 = Len(w) - Len(t) + ahead
    BY <1>1, <1>2
<1>4. Orderly(w, t2, 0, lost, closed, c, i, r, g, heard)
    BY <1>1, <1>2, <1>3 DEF Orderly
<1> QED
    BY <1>4 DEF t2

\* The sender is destroyed with the frames it has not sent.
LEMMA OrderlyLost ==
    ASSUME NEW w \in Seq(Nat), NEW t \in Seq(Nat), NEW ahead \in Nat, NEW lost, NEW closed,
           NEW c \in Seq(Frame), NEW d \in Seq(Frame),
           NEW i, NEW r \in Seq(Nat), NEW g \in Seq(Nat), NEW heard,
           Orderly(w, t, ahead, lost, closed, c \o d, i, r, g, heard)
    PROVE  Orderly(w, t, ahead, TRUE, closed, c, i, r, g, heard)
<1>1. PICK m \in Nat : /\ Brings(c \o d, i, Len(g) + Len(r), m, Ends(w, closed))
                       /\ m <= Len(w) - Len(t) + ahead
    BY DEF Orderly
<1>2. Len(g) + Len(r) \in Nat /\ Len(w) \in Nat /\ Len(t) \in Nat
    OBVIOUS
<1>3. PICK m2 \in Nat : m2 <= m /\ Brings(c, i, Len(g) + Len(r), m2, Ends(w, closed))
    BY <1>1, <1>2, BringsLost
<1>4. m2 <= Len(w) - Len(t) + ahead
    BY <1>1, <1>2, <1>3
<1> QED
    BY <1>3, <1>4 DEF Orderly

\* The reader may give up.
LEMMA OrderlyUnheard ==
    ASSUME NEW w, NEW t, NEW ahead, NEW lost, NEW closed, NEW c, NEW i, NEW r, NEW g, NEW heard, NEW heard2,
           Orderly(w, t, ahead, lost, closed, c, i, r, g, heard), heard2 => heard
    PROVE  Orderly(w, t, ahead, lost, closed, c, i, r, g, heard2)
BY DEF Orderly

(**************************** the state of the peers ***********************)

Chan(s) == net[Peer(s)] \o unsent[s]

\* How many bytes of tx the worker has handed over without taking them off.
Ahead(s, i) == IF worker[s] = "added" /\ i = Least(todo[s]) THEN taken[s].count ELSE 0

\* The reader heard of the end, and not from its own worker giving up.
Heard(s, i) == remoteClosed[s][i] /\ ~GivenUp(s)

Flow(s, i) ==
    Orderly(written[s][i], tx[s][i], Ahead(s, i), joining[s] = "destroyed", localClosed[s][i],
            Chan(s), i, rx[Peer(s)][i], got[Peer(s)][i], Heard(Peer(s), i))

Flows == \A s \in Side, i \in Id : Flow(s, i)

Types ==
    /\ worker \in [Side -> {"turn", "process", "pump", "added", "mark", "gone"}]
    /\ todo \in [Side -> SUBSET Id] /\ taken \in [Side -> [count : Nat, fin : BOOLEAN]]
    /\ conn \in [Side -> BOOLEAN] /\ iceConnected \in [Side -> BOOLEAN]
    /\ established \in [Side -> BOOLEAN] /\ failed \in [Side -> BOOLEAN] /\ stopping \in [Side -> BOOLEAN]
    /\ joining \in [Side -> {"no", "joins", "destroyed"}] /\ opening \in {"no", "checked", "made"}
    /\ streams \in [Side -> SUBSET Id] /\ late \in [Side -> SUBSET Id]
    /\ rx \in [Side -> [Id -> Seq(Nat)]] /\ tx \in [Side -> [Id -> Seq(Nat)]]
    /\ localClosed \in [Side -> [Id -> BOOLEAN]] /\ remoteClosed \in [Side -> [Id -> BOOLEAN]]
    /\ finSent \in [Side -> [Id -> BOOLEAN]]
    /\ reader \in [Side -> [Id -> [pc : {"idle", "awake", "asleep"}, want : Nat]]]
    /\ written \in [Side -> [Id -> Seq(Nat)]] /\ got \in [Side -> [Id -> Seq(Nat)]]
    /\ ended \in [Side -> [Id -> BOOLEAN]]
    /\ unsent \in [Side -> Seq(Frame)] /\ net \in [Side -> Seq(Frame)]
    /\ faults \in Nat

\* A worker goes through streams that are there, ends because its side gave up, and is joined before
\* anything is freed.
Stages ==
    \A s \in Side :
        /\ worker[s] \in {"pump", "added", "mark"} => todo[s] # {}
        /\ worker[s] \in {"mark", "gone"} => GivenUp(s)
        /\ joining[s] = "destroyed" => worker[s] = "gone"

\* A side is only freed after it was told to stop.
Joins == \A s \in Side : joining[s] # "no" => stopping[s]

\* A stream is known before it has bytes.
Known ==
    \A s \in Side : /\ late[s] \subseteq streams[s]
                    /\ \A i \in Id : i \notin streams[s] => rx[s][i] = <<>> /\ tx[s][i] = <<>>

\* The end of a stream is sent once it is closed, behind its last byte.
Sealed ==
    \A s \in Side :
        /\ \A i \in Id : finSent[s][i] => localClosed[s][i] /\ tx[s][i] = <<>>
        /\ worker[s] = "added" /\ taken[s].fin =>
              localClosed[s][Least(todo[s])] /\ taken[s].count = Len(tx[s][Least(todo[s])])

Budget == \A s \in Side, i \in Id : Len(written[s][i]) <= MaxWrite[s]

QuicInv == Types /\ Stages /\ Joins /\ Known /\ Sealed /\ Budget /\ Flows

LEMMA PeerSide ==
    /\ \A s \in Side : Peer(s) \in Side /\ Peer(Peer(s)) = s /\ Peer(s) # s
    /\ \A s, u \in Side : u # s => u = Peer(s)
BY DEF Side, Peer

LEMMA LeastIn ==
    ASSUME NEW S \in SUBSET Id, S # {}
    PROVE  Least(S) \in S
<1>1. S \subseteq Nat
    BY NativeQuicAssumption
<1>2. IsWellFoundedOn(OpToRel(<, Nat), Nat)
    BY NatLessThanWellFounded
<1>3. PICK i \in S : \A j \in S : ~(<<j, i>> \in OpToRel(<, Nat))
    BY <1>1, <1>2, WFMin
<1>4. ASSUME NEW j \in S
      PROVE  i <= j
    <2>1. i \in Nat /\ j \in Nat /\ <<j, i>> \in Nat \X Nat
        BY <1>1, <1>3
    <2>2. ~(j < i)
        BY <1>3, <2>1 DEF OpToRel
    <2> QED
        BY <2>1, <2>2
<1> QED
    BY <1>4 DEF Least

(*********************************** types *********************************)

LEMMA NotifiedType ==
    ASSUME Types, NEW s \in Side, NEW i \in Id
    PROVE  Notified(s, i) \in [Side -> [Id -> [pc : {"idle", "awake", "asleep"}, want : Nat]]]
<1> DEFINE R == [pc : {"idle", "awake", "asleep"}, want : Nat]
<1>1. reader \in [Side -> [Id -> R]]
    BY DEF Types
<1>2. [reader[s][i] EXCEPT !.pc = "awake"] \in R
    BY <1>1
<1> HIDE DEF R
<1>3. [reader EXCEPT ![s][i].pc = "awake"] \in [Side -> [Id -> R]]
    BY <1>1, <1>2
<1>4. Notified(s, i) \in [Side -> [Id -> R]]
    BY <1>1, <1>3 DEF Notified
<1> QED
    BY <1>4 DEF R

LEMMA RegisteredTypes ==
    ASSUME Types, NEW s \in Side, NEW i \in Id, Registered(s, i)
    PROVE  streams' \in [Side -> SUBSET Id] /\ late' \in [Side -> SUBSET Id]
BY DEF Types, Registered

LEMMA HandType == \A k \in {"hello", "reply", "finish"} : Hand(k) \in Frame
BY DEF Hand, Frame

LEMMA HeadTailType ==
    ASSUME NEW s \in Seq(Frame), s # <<>>
    PROVE  Head(s) \in Frame /\ Tail(s) \in Seq(Frame)
OBVIOUS

LEMMA OverTypes ==
    ASSUME Types, NEW s \in Side, NEW next \in {"pump", "mark"}, NEW after \in {"turn", "gone"},
           Over(s, next, after)
    PROVE  /\ worker' \in [Side -> {"turn", "process", "pump", "added", "mark", "gone"}]
           /\ todo' \in [Side -> SUBSET Id]
BY DEF Types, Over, Goto, SetS

LEMMA IceTypes ==
    ASSUME Types, NEW s \in Side, IceFails(s) \/ (\E up \in BOOLEAN : IceState(s, up))
    PROVE  Types'
<1>1. CASE IceFails(s)
    BY <1>1 DEF Types, IceFails, Fault, SetS, loopVars, streamVars, appVars
<1>2. ASSUME NEW up \in BOOLEAN, IceState(s, up)
      PROVE  Types'
    BY <1>2 DEF Types, IceState, Fault, SetS, loopVars, connVars, streamVars, appVars
<1> QED
    BY <1>1, <1>2

LEMMA TurnTypes ==
    ASSUME Types, NEW s \in Side, Turn(s)
    PROVE  Types'
<1> USE PeerSide
<1>1. failed' \in [Side -> BOOLEAN] /\ faults' \in Nat
    <2>1. \/ UNCHANGED <<failed, faults>>
          \/ failed' = SetS(failed, s, TRUE) /\ Fault
        BY DEF Turn
    <2>2. CASE UNCHANGED <<failed, faults>>
        BY <2>2 DEF Types
    <2>3. CASE failed' = SetS(failed, s, TRUE) /\ Fault
        BY <2>3 DEF Types, Fault, SetS
    <2> QED
        BY <2>1, <2>2, <2>3
<1>2. net' \in [Side -> Seq(Frame)]
    <2>1. net[Peer(s)] \o unsent[s] \in Seq(Frame) /\ net[Peer(s)] \in Seq(Frame)
        BY DEF Types
    <2> QED
        BY <2>1 DEF Types, Turn, SetS
<1>3. unsent' \in [Side -> Seq(Frame)]
    <2>1. <<Hand("hello")>> \in Seq(Frame) /\ <<>> \in Seq(Frame) /\ unsent[s] \in Seq(Frame)
        BY HandType DEF Types
    <2>2. \E u \in Seq(Frame) : unsent' = SetS(unsent, s, u)
        BY <2>1 DEF Turn
    <2>3. unsent \in [Side -> Seq(Frame)]
        BY DEF Types
    <2> QED
        BY <2>2, <2>3 DEF SetS
<1>4. conn' \in [Side -> BOOLEAN]
    <2>1. conn' = conn \/ \E b \in BOOLEAN : conn' = SetS(conn, s, b)
        BY DEF Types, Turn
    <2> QED
        BY <2>1 DEF Types, SetS
<1>5. \/ UNCHANGED todo /\ Goto(s, "process")
      \/ Over(s, "mark", "gone")
    BY DEF Turn
<1>6. /\ worker' \in [Side -> {"turn", "process", "pump", "added", "mark", "gone"}]
      /\ todo' \in [Side -> SUBSET Id]
    <2>1. CASE UNCHANGED todo /\ Goto(s, "process")
        BY <2>1 DEF Types, Goto, SetS
    <2>2. CASE Over(s, "mark", "gone")
        BY <2>2, OverTypes
    <2> QED
        BY <1>5, <2>1, <2>2
<1> QED
    BY <1>1, <1>2, <1>3, <1>4, <1>6 DEF Types, Turn, streamVars, appVars

LEMMA HandshakeTypes ==
    ASSUME Types, NEW s \in Side, Handshake(s)
    PROVE  Types'
<1>1. net[s] \in Seq(Frame) /\ net[s] # <<>> /\ Tail(net[s]) \in Seq(Frame)
    BY DEF Types, Handshake
<1>2. net' \in [Side -> Seq(Frame)]
    BY <1>1 DEF Types, Handshake
<1>3. unsent' \in [Side -> Seq(Frame)]
    <2>1. Append(unsent[s], Hand("reply")) \in Seq(Frame) /\ Append(unsent[s], Hand("finish")) \in Seq(Frame)
        BY HandType DEF Types
    <2> QED
        BY <2>1 DEF Types, Handshake
<1>4. conn' \in [Side -> BOOLEAN] /\ established' \in [Side -> BOOLEAN]
    BY DEF Types, Handshake, SetS
<1> QED
    BY <1>2, <1>3, <1>4 DEF Types, Handshake, loopVars, streamVars, appVars

LEMMA StreamDataFrame ==
    ASSUME Types, NEW s \in Side, StreamData(s)
    PROVE  /\ net[s] \in Seq(Frame) /\ net[s] # <<>> /\ Tail(net[s]) \in Seq(Frame)
           /\ Head(net[s]) \in Frame /\ Head(net[s]).kind = "data"
           /\ Head(net[s]).id \in Id /\ Head(net[s]).bytes \in Seq(Nat) /\ Head(net[s]).fin \in BOOLEAN
<1>1. net[s] \in Seq(Frame) /\ net[s] # <<>> /\ Head(net[s]).kind = "data"
    BY DEF Types, StreamData
<1>2. Head(net[s]) \in Frame /\ Tail(net[s]) \in Seq(Frame)
    BY <1>1, HeadTailType
<1> QED
    BY <1>1, <1>2 DEF Frame

LEMMA StreamDataTypes ==
    ASSUME Types, NEW s \in Side, StreamData(s)
    PROVE  Types'
<1> DEFINE f == Head(net[s])
<1>1. /\ Tail(net[s]) \in Seq(Frame) /\ f.id \in Id /\ f.bytes \in Seq(Nat) /\ f.fin \in BOOLEAN
    BY StreamDataFrame
<1>2. net' \in [Side -> Seq(Frame)]
    BY <1>1 DEF Types, StreamData
<1>3. streams' \in [Side -> SUBSET Id] /\ late' \in [Side -> SUBSET Id]
    BY <1>1, RegisteredTypes DEF StreamData
<1>4. rx' \in [Side -> [Id -> Seq(Nat)]]
    <2>1. rx[s][f.id] \o f.bytes \in Seq(Nat)
        BY <1>1 DEF Types
    <2> QED
        BY <1>1, <2>1 DEF Types, StreamData
<1>5. remoteClosed' \in [Side -> [Id -> BOOLEAN]]
    BY <1>1 DEF Types, StreamData, SetI
<1>6. reader' \in [Side -> [Id -> [pc : {"idle", "awake", "asleep"}, want : Nat]]]
    BY <1>1, NotifiedType DEF StreamData
<1> QED
    BY <1>2, <1>3, <1>4, <1>5, <1>6 DEF Types, StreamData, loopVars, connVars

LEMMA ProcessedTypes ==
    ASSUME Types, NEW s \in Side, Processed(s)
    PROVE  Types'
<1>1. /\ worker' \in [Side -> {"turn", "process", "pump", "added", "mark", "gone"}]
      /\ todo' \in [Side -> SUBSET Id]
    <2>1. Over(s, "pump", "turn") \/ (Goto(s, "turn") /\ UNCHANGED todo)
        BY DEF Processed
    <2>2. CASE Goto(s, "turn") /\ UNCHANGED todo
        BY <2>2 DEF Types, Goto, SetS
    <2> QED
        BY <2>1, <2>2, OverTypes
<1> QED
    BY <1>1 DEF Types, Processed, connVars, streamVars, appVars, netVars

LEMMA LeastType ==
    ASSUME Types, Stages, NEW s \in Side, worker[s] \in {"pump", "added", "mark"}
    PROVE  Least(todo[s]) \in todo[s] /\ Least(todo[s]) \in Id
BY LeastIn DEF Types, Stages

LEMMA DoneTypes ==
    ASSUME Types, NEW s \in Side, NEW after \in {"turn", "gone"}, Done(s, after)
    PROVE  /\ worker' \in [Side -> {"turn", "process", "pump", "added", "mark", "gone"}]
           /\ todo' \in [Side -> SUBSET Id]
<1> DEFINE rest == todo[s] \ {Least(todo[s])}
<1>1. rest \in SUBSET Id
    BY DEF Types
<1>2. todo' = SetS(todo, s, rest) /\ Goto(s, IF rest # {} THEN worker[s] ELSE after)
    BY DEF Done
<1> HIDE DEF rest
<1>3. (IF rest # {} THEN worker[s] ELSE after) \in {"turn", "process", "pump", "added", "mark", "gone"}
    BY DEF Types
<1> QED
    BY <1>1, <1>2, <1>3 DEF Types, Goto, SetS

\* What PumpAdd hands over.
Part(s) == LET t == tx[s][Least(todo[s])] IN IF Len(t) < Chunk THEN Len(t) ELSE Chunk
Last(s) == CloseAfter(s, Least(todo[s]), Part(s))
Handed(s) == [kind |-> "data", id |-> Least(todo[s]),
              bytes |-> SubSeq(tx[s][Least(todo[s])], 1, Part(s)), fin |-> Last(s)]

LEMMA HandedType ==
    ASSUME Types, Stages, NEW s \in Side, worker[s] = "pump"
    PROVE  /\ Least(todo[s]) \in Id /\ tx[s][Least(todo[s])] \in Seq(Nat)
           /\ Part(s) \in Nat /\ Part(s) \in 0 .. Len(tx[s][Least(todo[s])])
           /\ Last(s) \in BOOLEAN /\ Handed(s) \in Frame
           /\ [count |-> Part(s), fin |-> Last(s)] \in [count : Nat, fin : BOOLEAN]
<1> DEFINE i == Least(todo[s])
<1>1. i \in Id /\ tx[s][i] \in Seq(Nat) /\ Chunk \in Nat
    <2>1. i \in Id
        BY LeastType
    <2> HIDE DEF i
    <2> QED
        BY <2>1, NativeQuicAssumption DEF Types
<1> HIDE DEF i
<1>2. Part(s) \in Nat /\ Part(s) \in 0 .. Len(tx[s][i])
    BY <1>1 DEF Part, i
<1>3. Last(s) \in BOOLEAN
    BY <1>1 DEF Last, CloseAfter, i
<1>4. SubSeq(tx[s][i], 1, Part(s)) \in Seq(Nat)
    BY <1>1, <1>2
<1>5. Handed(s) \in Frame
    BY <1>1, <1>3, <1>4 DEF Handed, Frame, i
<1> QED
    BY <1>1, <1>2, <1>3, <1>5 DEF i

LEMMA PumpAddDoes ==
    ASSUME NEW s, PumpAdd(s)
    PROVE  \/ Done(s, "turn") /\ UNCHANGED <<taken, unsent>>
           \/ /\ unsent' = [unsent EXCEPT ![s] = Append(@, Handed(s))]
              /\ taken' = SetS(taken, s, [count |-> Part(s), fin |-> Last(s)])
              /\ Goto(s, "added") /\ UNCHANGED todo
BY DEF PumpAdd, Handed, Part, Last

LEMMA PumpTypes ==
    ASSUME Types, Stages, NEW s \in Side, PumpAdd(s) \/ PumpPop(s) \/ Mark(s)
    PROVE  Types'
<1> DEFINE i == Least(todo[s])
<1>1. CASE PumpAdd(s)
    <2>1. CASE Done(s, "turn") /\ UNCHANGED <<taken, unsent>>
        BY <1>1, <2>1, DoneTypes DEF Types, PumpAdd, connVars, streamVars, appVars
    <2>2. CASE /\ unsent' = [unsent EXCEPT ![s] = Append(@, Handed(s))]
               /\ taken' = SetS(taken, s, [count |-> Part(s), fin |-> Last(s)])
               /\ Goto(s, "added") /\ UNCHANGED todo
        <3>1. worker[s] = "pump"
            BY <1>1 DEF PumpAdd
        <3>2. Append(unsent[s], Handed(s)) \in Seq(Frame)
            BY <3>1, HandedType DEF Types
        <3>3. unsent' \in [Side -> Seq(Frame)]
            BY <2>2, <3>2 DEF Types
        <3>4. taken' \in [Side -> [count : Nat, fin : BOOLEAN]]
            <4> DEFINE T == [count : Nat, fin : BOOLEAN]
            <4>1. [count |-> Part(s), fin |-> Last(s)] \in T
                BY <3>1, HandedType
            <4>2. taken \in [Side -> T]
                BY DEF Types
            <4> HIDE DEF T
            <4>3. taken' \in [Side -> T]
                BY <2>2, <4>1, <4>2 DEF SetS
            <4> QED
                BY <4>3 DEF T
        <3>5. worker' \in [Side -> {"turn", "process", "pump", "added", "mark", "gone"}]
            BY <2>2 DEF Types, Goto, SetS
        <3> QED
            BY <1>1, <2>2, <3>3, <3>4, <3>5 DEF Types, PumpAdd, connVars, streamVars, appVars
    <2> QED
        BY <1>1, <2>1, <2>2, PumpAddDoes
<1>2. CASE PumpPop(s)
    <2>1. i \in Id
        BY <1>2, LeastType DEF PumpPop
    <2>2. Rest(s, i) \in Seq(Nat)
        <3>1. tx[s][i] \in Seq(Nat) /\ taken[s].count \in Nat
            BY <2>1 DEF Types
        <3> QED
            BY <3>1 DEF Rest
    <2>3. tx' \in [Side -> [Id -> Seq(Nat)]]
        <3> HIDE DEF i
        <3>1. tx' = SetI(tx, s, i, Rest(s, i))
            BY <1>2 DEF PumpPop, i
        <3> QED
            BY <2>1, <2>2, <3>1 DEF Types, SetI
    <2>4. finSent' \in [Side -> [Id -> BOOLEAN]]
        BY <1>2, <2>1 DEF Types, PumpPop, SetI
    <2>5. taken' \in [Side -> [count : Nat, fin : BOOLEAN]]
        <3>1. Nothing \in [count : Nat, fin : BOOLEAN]
            BY DEF Nothing
        <3> QED
            BY <1>2, <3>1 DEF Types, PumpPop, SetS
    <2>6. todo' \in [Side -> SUBSET Id]
        BY <1>2 DEF Types, PumpPop
    <2>7. worker' \in [Side -> {"turn", "process", "pump", "added", "mark", "gone"}]
        BY <1>2 DEF Types, PumpPop, Goto, SetS
    <2> QED
        BY <1>2, <2>3, <2>4, <2>5, <2>6, <2>7 DEF Types, PumpPop, connVars, appVars, netVars
<1>3. CASE Mark(s)
    <2>1. i \in Id
        BY <1>3, LeastType DEF Mark
    <2>2. remoteClosed' \in [Side -> [Id -> BOOLEAN]]
        BY <1>3, <2>1 DEF Types, Mark, SetI
    <2>3. reader' \in [Side -> [Id -> [pc : {"idle", "awake", "asleep"}, want : Nat]]]
        BY <1>3, <2>1, NotifiedType DEF Mark
    <2>4. /\ worker' \in [Side -> {"turn", "process", "pump", "added", "mark", "gone"}]
          /\ todo' \in [Side -> SUBSET Id]
        BY <1>3, DoneTypes DEF Mark
    <2> QED
        BY <1>3, <2>2, <2>3, <2>4 DEF Types, Mark, connVars, netVars
<1> QED
    BY <1>1, <1>2, <1>3

LEMMA OpenTypes ==
    ASSUME Types, OpenCheck \/ (\E i \in Id : MakeStream(i))
    PROVE  Types'
<1>1. CASE OpenCheck
    BY <1>1 DEF Types, OpenCheck, loopVars, streamVars, appVars, netVars
<1>2. ASSUME NEW i \in Id, MakeStream(i)
      PROVE  Types'
    <2>1. streams' \in [Side -> SUBSET Id] /\ late' \in [Side -> SUBSET Id]
        BY <1>2, RegisteredTypes DEF MakeStream, Side
    <2>2. opening' \in {"no", "checked", "made"}
        BY <1>2 DEF Types, MakeStream
    <2> QED
        BY <1>2, <2>1, <2>2 DEF Types, MakeStream, loopVars, appVars, netVars
<1> QED
    BY <1>1, <1>2

LEMMA StreamCallTypes ==
    ASSUME Types, NEW s \in Side, NEW i \in Id, Write(s, i) \/ Close(s, i) \/ Read(s, i) \/ ReadOn(s, i)
    PROVE  Types'
<1> DEFINE R == [pc : {"idle", "awake", "asleep"}, want : Nat]
<1>1. CASE Write(s, i)
    <2> DEFINE b == Len(written[s][i]) + 1
    <2>1. b \in Nat /\ Append(written[s][i], b) \in Seq(Nat) /\ Append(tx[s][i], b) \in Seq(Nat)
        BY DEF Types
    <2>2. /\ written' = [written EXCEPT ![s][i] = Append(@, b)]
          /\ tx' = [tx EXCEPT ![s][i] = Append(@, b)]
        BY <1>1 DEF Write
    <2> HIDE DEF b
    <2>3. written' \in [Side -> [Id -> Seq(Nat)]] /\ tx' \in [Side -> [Id -> Seq(Nat)]]
        BY <2>1, <2>2 DEF Types
    <2> QED
        BY <1>1, <2>3 DEF Types, Write, loopVars, connVars, netVars
<1>2. CASE Close(s, i)
    <2>1. localClosed' \in [Side -> [Id -> BOOLEAN]]
        BY <1>2 DEF Types, Close, SetI
    <2>2. reader' \in [Side -> [Id -> R]]
        BY <1>2, NotifiedType DEF Close
    <2> QED
        BY <1>2, <2>1, <2>2 DEF Types, Close, loopVars, connVars, netVars
<1>3. CASE Read(s, i)
    <2>1. PICK n \in 1 .. ReadMax : reader' = SetI(reader, s, i, [pc |-> "awake", want |-> n])
        BY <1>3 DEF Read
    <2>2. [pc |-> "awake", want |-> n] \in R
        BY NativeQuicAssumption
    <2>3. reader \in [Side -> [Id -> R]]
        BY DEF Types
    <2> HIDE DEF R
    <2>4. reader' \in [Side -> [Id -> R]]
        BY <2>1, <2>2, <2>3 DEF SetI
    <2> QED
        BY <1>3, <2>4 DEF Types, Read, loopVars, connVars, streamVars, netVars, R
<1>4. CASE ReadOn(s, i)
    <2> DEFINE want == reader[s][i].want
               have == Len(rx[s][i])
               n == IF have < want THEN have ELSE want
    <2>1. /\ want \in Nat /\ have \in Nat /\ n \in Nat /\ n <= want /\ n <= have
          /\ rx[s][i] \in Seq(Nat) /\ got[s][i] \in Seq(Nat)
        BY DEF Types
    <2>2. /\ got' = [got EXCEPT ![s][i] = @ \o SubSeq(rx[s][i], 1, n)]
          /\ rx' = [rx EXCEPT ![s][i] = SubSeq(@, n + 1, have)]
        BY <1>4 DEF ReadOn
    <2>3. \/ reader' = SetI(reader, s, i, [pc |-> "idle", want |-> 0])
          \/ reader' = SetI(reader, s, i, [pc |-> "asleep", want |-> want - n])
        BY <1>4, <2>1 DEF ReadOn
    <2>4. ended' = ended \/ ended' = SetI(ended, s, i, TRUE)
        BY <1>4 DEF ReadOn
    <2>5. SubSeq(rx[s][i], 1, n) \in Seq(Nat) /\ SubSeq(rx[s][i], n + 1, have) \in Seq(Nat)
        BY <2>1, CutType
    <2>6. want - n \in Nat
        BY <2>1
    <2>7. [pc |-> "idle", want |-> 0] \in R /\ [pc |-> "asleep", want |-> want - n] \in R
        BY <2>6
    <2> HIDE DEF n, have, want
    <2>8. got' \in [Side -> [Id -> Seq(Nat)]] /\ rx' \in [Side -> [Id -> Seq(Nat)]]
        BY <2>1, <2>2, <2>5 DEF Types
    <2>9. reader' \in [Side -> [Id -> R]]
        <3>1. reader \in [Side -> [Id -> R]]
            BY DEF Types
        <3> HIDE DEF R
        <3> QED
            BY <2>3, <2>7, <3>1 DEF SetI
    <2>10. ended' \in [Side -> [Id -> BOOLEAN]]
        <3>1. CASE ended' = ended
            BY <3>1 DEF Types
        <3>2. CASE ended' = SetI(ended, s, i, TRUE)
            BY <3>2 DEF Types, SetI
        <3> QED
            BY <2>4, <3>1, <3>2
    <2> QED
        BY <1>4, <2>8, <2>9, <2>10 DEF Types, ReadOn, loopVars, connVars, netVars
<1> QED
    BY <1>1, <1>2, <1>3, <1>4

LEMMA EndTypes ==
    ASSUME Types, NEW s \in Side, Shutdown(s) \/ Destroy(s)
    PROVE  Types'
<1>1. CASE Shutdown(s)
    <2>1. (failed[s] \/ ~established[s]) \in BOOLEAN
        OBVIOUS
    <2>2. failed' \in [Side -> BOOLEAN]
        BY <1>1, <2>1, Zenon DEF Types, Shutdown, SetS
    <2>3. stopping' \in [Side -> BOOLEAN] /\ joining' \in [Side -> {"no", "joins", "destroyed"}]
        BY <1>1 DEF Types, Shutdown, SetS
    <2>4. faults' \in Nat
        BY <1>1 DEF Types, Shutdown, Fault
    <2> QED
        BY <1>1, <2>2, <2>3, <2>4 DEF Types, Shutdown, loopVars, streamVars, appVars
<1>2. CASE Destroy(s)
    BY <1>2 DEF Types, Destroy, SetS, loopVars, streamVars, appVars
<1> QED
    BY <1>1, <1>2

LEMMA TypesStep ==
    ASSUME Types, Stages, [Next]_vars
    PROVE  Types'
<1>1. CASE UNCHANGED vars
    BY <1>1 DEF Types, vars, loopVars, connVars, streamVars, appVars, netVars
<1>2. CASE App
    BY <1>2, OpenTypes, StreamCallTypes, EndTypes DEF App
<1>3. CASE Ice
    BY <1>3, IceTypes DEF Ice
<1>4. CASE \E s \in Side : Worker(s)
    BY <1>4, TurnTypes, HandshakeTypes, StreamDataTypes, ProcessedTypes, PumpTypes DEF Worker
<1> QED
    BY <1>1, <1>2, <1>3, <1>4 DEF Next

(******************************* small invariants **************************)

\* The steps that leave the workers' loops alone.
Aside == UNCHANGED <<worker, todo, taken, joining>>

LEMMA AsideSteps ==
    /\ \A s \in Side : IceFails(s) => Aside /\ UNCHANGED stopping
    /\ \A s \in Side, up \in BOOLEAN : IceState(s, up) => Aside /\ UNCHANGED <<failed, stopping>>
    /\ \A s \in Side : Handshake(s) \/ StreamData(s) => Aside /\ UNCHANGED <<failed, stopping>>
    /\ OpenCheck => Aside /\ UNCHANGED <<failed, stopping>>
    /\ \A i \in Id : MakeStream(i) => Aside /\ UNCHANGED <<failed, stopping>>
    /\ \A s \in Side, i \in Id : Write(s, i) \/ Close(s, i) \/ Read(s, i) \/ ReadOn(s, i)
                                 => Aside /\ UNCHANGED <<failed, stopping>>
<1>1. \A s \in Side : IceFails(s) => Aside /\ UNCHANGED stopping
    BY DEF IceFails, Aside, loopVars
<1>2. \A s \in Side, up \in BOOLEAN : IceState(s, up) => Aside /\ UNCHANGED <<failed, stopping>>
    BY DEF IceState, Aside, loopVars, connVars
<1>3. \A s \in Side : Handshake(s) \/ StreamData(s) => Aside /\ UNCHANGED <<failed, stopping>>
    BY DEF Handshake, StreamData, Aside, loopVars, connVars
<1>4. OpenCheck => Aside /\ UNCHANGED <<failed, stopping>>
    BY DEF OpenCheck, Aside, loopVars
<1>5. \A i \in Id : MakeStream(i) => Aside /\ UNCHANGED <<failed, stopping>>
    BY DEF MakeStream, Aside, loopVars
<1>6. \A s \in Side, i \in Id : Write(s, i) \/ Close(s, i) \/ Read(s, i) \/ ReadOn(s, i)
                                => Aside /\ UNCHANGED <<failed, stopping>>
    <2> SUFFICES ASSUME NEW s \in Side, NEW i \in Id, Write(s, i) \/ Close(s, i) \/ Read(s, i) \/ ReadOn(s, i)
                 PROVE  UNCHANGED <<loopVars, connVars>>
        BY DEF Aside, loopVars, connVars
    <2>1. CASE Write(s, i)
        BY <2>1 DEF Write
    <2>2. CASE Close(s, i)
        BY <2>2 DEF Close
    <2>3. CASE Read(s, i)
        BY <2>3 DEF Read
    <2>4. CASE ReadOn(s, i)
        BY <2>4 DEF ReadOn
    <2> QED
        BY <2>1, <2>2, <2>3, <2>4
<1> QED
    BY <1>1, <1>2, <1>3, <1>4, <1>5, <1>6

LEMMA GivenUpStays ==
    ASSUME Types, [Next]_vars, NEW u \in Side, GivenUp(u)
    PROVE  GivenUp(u)'
<1>1. ASSUME UNCHANGED <<failed, stopping>>
      PROVE  GivenUp(u)'
    BY <1>1 DEF GivenUp
<1>2. CASE UNCHANGED vars
    BY <1>1, <1>2 DEF vars, connVars
<1>3. ASSUME NEW s \in Side, IceFails(s)
      PROVE  GivenUp(u)'
    <2>1. failed' = SetS(failed, s, TRUE) /\ stopping' = stopping
        BY <1>3, AsideSteps DEF IceFails
    <2> QED
        BY <2>1 DEF Types, GivenUp, SetS
<1>4. ASSUME NEW s \in Side, Turn(s)
      PROVE  GivenUp(u)'
    <2>1. failed' = failed \/ failed' = SetS(failed, s, TRUE)
        BY <1>4 DEF Turn
    <2>2. stopping' = stopping
        BY <1>4 DEF Turn
    <2> QED
        BY <2>1, <2>2 DEF Types, GivenUp, SetS
<1>5. ASSUME NEW s \in Side, Processed(s) \/ PumpAdd(s) \/ PumpPop(s) \/ Mark(s)
      PROVE  GivenUp(u)'
    <2>1. UNCHANGED connVars
        BY <1>5 DEF Processed, PumpAdd, PumpPop, Mark
    <2> QED
        BY <1>1, <2>1 DEF connVars
<1>6. ASSUME NEW s \in Side, Shutdown(s)
      PROVE  GivenUp(u)'
    <2>1. /\ stopping' = SetS(stopping, s, TRUE)
          /\ failed' = SetS(failed, s, failed[s] \/ ~established[s])
        BY <1>6 DEF Shutdown
    <2>2. CASE u = s
        BY <2>1, <2>2 DEF Types, GivenUp, SetS
    <2>3. CASE u # s
        <3>1. failed'[u] = failed[u] /\ stopping'[u] = stopping[u]
            BY <2>1, <2>3 DEF Types, SetS
        <3> QED
            BY <3>1 DEF GivenUp
    <2> QED
        BY <2>2, <2>3
<1>7. ASSUME NEW s \in Side, Destroy(s)
      PROVE  GivenUp(u)'
    BY <1>1, <1>7 DEF Destroy
<1> QED
    BY <1>1, <1>2, <1>3, <1>4, <1>5, <1>6, <1>7, AsideSteps DEF Next, App, Ice, Worker

LEMMA StagesStep ==
    ASSUME Types, Stages, [Next]_vars
    PROVE  Stages'
<1> USE GivenUpStays
<1>1. ASSUME UNCHANGED <<worker, todo, joining>>
      PROVE  Stages'
    BY <1>1 DEF Stages
<1>2. CASE UNCHANGED vars
    BY <1>1, <1>2 DEF vars, loopVars, connVars
<1>3. ASSUME Aside
      PROVE  Stages'
    BY <1>1, <1>3 DEF Aside
<1>4. ASSUME NEW s \in Side, Turn(s)
      PROVE  Stages'
    <2>1. worker[s] = "turn" /\ UNCHANGED joining
        BY <1>4 DEF Turn
    <2>2. CASE failed'[s] \/ stopping[s]
        <3>1. GivenUp(s)'
            BY <1>4, <2>2 DEF Turn, GivenUp
        <3>2. Over(s, "mark", "gone")
            BY <1>4, <2>2 DEF Turn
        <3>3. /\ \A u \in Side : u # s => worker'[u] = worker[u] /\ todo'[u] = todo[u]
              /\ todo'[s] = streams[s] /\ worker'[s] = (IF streams[s] = {} THEN "gone" ELSE "mark")
            BY <3>2 DEF Types, Over, Goto, SetS
        <3> QED
            BY <2>1, <3>1, <3>3 DEF Stages
    <2>3. CASE ~(failed'[s] \/ stopping[s])
        <3>1. Goto(s, "process") /\ UNCHANGED todo
            BY <1>4, <2>3 DEF Turn
        <3>2. \A u \in Side : worker'[u] = IF u = s THEN "process" ELSE worker[u]
            BY <3>1 DEF Types, Goto, SetS
        <3> QED
            BY <2>1, <3>1, <3>2 DEF Stages
    <2> QED
        BY <2>2, <2>3
<1>5. ASSUME NEW s \in Side, Processed(s)
      PROVE  Stages'
    <2>1. worker[s] = "process" /\ UNCHANGED joining
        BY <1>5 DEF Processed, connVars
    <2>2. Over(s, "pump", "turn") \/ (Goto(s, "turn") /\ UNCHANGED todo)
        BY <1>5 DEF Processed
    <2>3. /\ \A u \in Side : u # s => worker'[u] = worker[u] /\ todo'[u] = todo[u]
          /\ worker'[s] = "turn" \/ (worker'[s] = "pump" /\ todo'[s] # {})
        BY <2>2 DEF Types, Over, Goto, SetS
    <2> QED
        BY <2>1, <2>3 DEF Stages
<1>6. ASSUME NEW s \in Side, PumpAdd(s)
      PROVE  Stages'
    <2>1. worker[s] = "pump" /\ UNCHANGED joining /\ todo[s] # {}
        BY <1>6 DEF PumpAdd, connVars, Stages
    <2>2. Done(s, "turn") \/ (Goto(s, "added") /\ UNCHANGED todo)
        BY <1>6, PumpAddDoes
    <2>3. /\ \A u \in Side : u # s => worker'[u] = worker[u] /\ todo'[u] = todo[u]
          /\ worker'[s] = "turn" \/ (worker'[s] \in {"pump", "added"} /\ todo'[s] # {})
        BY <2>1, <2>2 DEF Types, Done, Goto, SetS
    <2> QED
        BY <2>1, <2>3 DEF Stages
<1>7. ASSUME NEW s \in Side, PumpPop(s)
      PROVE  Stages'
    <2>1. worker[s] = "added" /\ UNCHANGED joining
        BY <1>7 DEF PumpPop, connVars
    <2>2. /\ todo' = [todo EXCEPT ![s] = @ \ {Least(todo[s])}]
          /\ Goto(s, IF todo'[s] = {} THEN "turn" ELSE "pump")
        BY <1>7 DEF PumpPop
    <2>3. /\ \A u \in Side : u # s => worker'[u] = worker[u] /\ todo'[u] = todo[u]
          /\ worker'[s] = "turn" \/ (worker'[s] = "pump" /\ todo'[s] # {})
        BY <2>2 DEF Types, Goto, SetS
    <2> QED
        BY <2>1, <2>3 DEF Stages
<1>8. ASSUME NEW s \in Side, Mark(s)
      PROVE  Stages'
    <2>1. worker[s] = "mark" /\ UNCHANGED joining /\ GivenUp(s)
        BY <1>8 DEF Mark, connVars, Stages
    <2>2. Done(s, "gone")
        BY <1>8 DEF Mark
    <2>3. /\ \A u \in Side : u # s => worker'[u] = worker[u] /\ todo'[u] = todo[u]
          /\ worker'[s] = "gone" \/ (worker'[s] = "mark" /\ todo'[s] # {})
        BY <2>1, <2>2 DEF Types, Done, Goto, SetS
    <2> QED
        BY <2>1, <2>3 DEF Stages
<1>9. ASSUME NEW s \in Side, Shutdown(s)
      PROVE  Stages'
    <2>1. UNCHANGED <<worker, todo>> /\ joining' = SetS(joining, s, "joins")
        BY <1>9 DEF Shutdown, loopVars
    <2> QED
        BY <2>1 DEF Types, Stages, SetS
<1>10. ASSUME NEW s \in Side, Destroy(s)
       PROVE  Stages'
    <2>1. UNCHANGED <<worker, todo>> /\ worker[s] = "gone" /\ joining' = SetS(joining, s, "destroyed")
        BY <1>10 DEF Destroy, loopVars
    <2> QED
        BY <2>1 DEF Types, Stages, SetS
<1> QED
    BY <1>2, <1>3, <1>4, <1>5, <1>6, <1>7, <1>8, <1>9, <1>10, AsideSteps DEF Next, App, Ice, Worker

LEMMA RegisteredKnown ==
    ASSUME Types, Known, NEW s \in Side, NEW i \in Id, Registered(s, i)
    PROVE  /\ \A u \in Side : streams[u] \subseteq streams'[u] /\ late'[u] \subseteq streams'[u]
           /\ i \in streams'[s]
<1>1. streams' = [streams EXCEPT ![s] = @ \cup {i}]
    BY DEF Registered
<1>2. late' = late \/ late' = [late EXCEPT ![s] = @ \cup {i}]
    BY DEF Registered
<1> QED
    BY <1>1, <1>2 DEF Types, Known

LEMMA KnownStep ==
    ASSUME Types, Stages, Known, [Next]_vars
    PROVE  Known'
<1>1. ASSUME UNCHANGED <<streams, late, rx, tx>>
      PROVE  Known'
    BY <1>1 DEF Known
<1>2. CASE UNCHANGED vars
    BY <1>1, <1>2 DEF vars, streamVars
<1>3. CASE Ice
    BY <1>1, <1>3 DEF Ice, IceFails, IceState, streamVars
<1>4. ASSUME NEW s \in Side, Turn(s) \/ Handshake(s) \/ Processed(s) \/ PumpAdd(s) \/ Shutdown(s) \/ Destroy(s)
      PROVE  Known'
    <2>1. UNCHANGED streamVars
        BY <1>4 DEF Turn, Handshake, Processed, PumpAdd, Shutdown, Destroy
    <2> QED
        BY <1>1, <2>1 DEF streamVars
<1>5. ASSUME NEW s \in Side, Mark(s)
      PROVE  Known'
    BY <1>1, <1>5 DEF Mark
<1>6. ASSUME NEW s \in Side, NEW i \in Id, Close(s, i) \/ Read(s, i)
      PROVE  Known'
    BY <1>1, <1>6 DEF Close, Read, streamVars
<1>7. CASE OpenCheck
    BY <1>1, <1>7 DEF OpenCheck, streamVars
<1>8. ASSUME NEW i \in Id, MakeStream(i)
      PROVE  Known'
    <2>1. Registered("client", i) /\ UNCHANGED <<rx, tx>>
        BY <1>8 DEF MakeStream
    <2> QED
        BY <2>1, RegisteredKnown DEF Known, Side
<1>9. ASSUME NEW s \in Side, StreamData(s)
      PROVE  Known'
    <2> DEFINE f == Head(net[s])
    <2>1. f.id \in Id
        BY <1>9, StreamDataFrame
    <2>2. Registered(s, f.id) /\ rx' = [rx EXCEPT ![s][f.id] = @ \o f.bytes] /\ tx' = tx
        BY <1>9 DEF StreamData
    <2> HIDE DEF f
    <2>3. \A u \in Side, i \in Id : rx'[u][i] = rx[u][i] \/ (u = s /\ i = f.id)
        BY <2>1, <2>2 DEF Types
    <2> QED
        BY <2>1, <2>2, <2>3, RegisteredKnown DEF Known
<1>10. ASSUME NEW s \in Side, NEW i \in Id, Write(s, i)
       PROVE  Known'
    <2>1. i \in streams[s] /\ UNCHANGED <<streams, late, rx>>
        BY <1>10 DEF Write, Has
    <2>2. \A u \in Side, j \in Id : tx'[u][j] = tx[u][j] \/ (u = s /\ j = i)
        BY <1>10 DEF Types, Write
    <2> QED
        BY <2>1, <2>2 DEF Known
<1>11. ASSUME NEW s \in Side, NEW i \in Id, ReadOn(s, i)
       PROVE  Known'
    <2> DEFINE n == IF Len(rx[s][i]) < reader[s][i].want THEN Len(rx[s][i]) ELSE reader[s][i].want
    <2>1. rx' = [rx EXCEPT ![s][i] = SubSeq(@, n + 1, Len(rx[s][i]))] /\ UNCHANGED <<streams, late, tx>>
        BY <1>11 DEF ReadOn
    <2>2. n \in Nat
        BY DEF Types
    <2> HIDE DEF n
    <2>3. \A u \in Side, j \in Id : rx[u][j] = <<>> => rx'[u][j] = <<>>
        BY <2>1, <2>2 DEF Types
    <2> QED
        BY <2>1, <2>3 DEF Known
<1>12. ASSUME NEW s \in Side, PumpPop(s)
       PROVE  Known'
    <2> DEFINE i == Least(todo[s])
    <2>1. /\ tx' = SetI(tx, s, i, SubSeq(tx[s][i], taken[s].count + 1, Len(tx[s][i])))
          /\ UNCHANGED <<streams, late, rx>>
        BY <1>12 DEF PumpPop, Rest
    <2>2. taken[s].count \in Nat /\ i \in Id
        BY <1>12, LeastType DEF PumpPop, Types
    <2> HIDE DEF i
    <2>3. \A u \in Side, j \in Id : tx[u][j] = <<>> => tx'[u][j] = <<>>
        BY <2>1, <2>2 DEF Types, SetI
    <2> QED
        BY <2>1, <2>3 DEF Known
<1> QED
    BY <1>2, <1>3, <1>4, <1>5, <1>6, <1>7, <1>8, <1>9, <1>10, <1>11, <1>12 DEF Next, App, Worker

LEMMA SealedStep ==
    ASSUME Types, Stages, Sealed, [Next]_vars
    PROVE  Sealed'
<1>1. ASSUME UNCHANGED <<worker, todo, taken, tx, localClosed, finSent>>
      PROVE  Sealed'
    BY <1>1 DEF Sealed
<1>2. CASE UNCHANGED vars
    BY <1>1, <1>2 DEF vars, loopVars, streamVars
<1>3. CASE Ice
    BY <1>1, <1>3 DEF Ice, IceFails, IceState, loopVars, streamVars
<1>4. ASSUME NEW s \in Side, Handshake(s) \/ Shutdown(s) \/ Destroy(s)
      PROVE  Sealed'
    <2>1. UNCHANGED <<loopVars, streamVars>>
        BY <1>4 DEF Handshake, Shutdown, Destroy
    <2> QED
        BY <1>1, <2>1 DEF loopVars, streamVars
<1>5. ASSUME NEW s \in Side, StreamData(s)
      PROVE  Sealed'
    BY <1>1, <1>5 DEF StreamData, loopVars
<1>6. CASE OpenCheck
    BY <1>1, <1>6 DEF OpenCheck, loopVars, streamVars
<1>7. ASSUME NEW i \in Id, MakeStream(i)
      PROVE  Sealed'
    BY <1>1, <1>7 DEF MakeStream, loopVars
<1>8. ASSUME NEW s \in Side, NEW i \in Id, Read(s, i)
      PROVE  Sealed'
    BY <1>1, <1>8 DEF Read, loopVars, streamVars
<1>9. ASSUME NEW s \in Side, NEW i \in Id, ReadOn(s, i)
      PROVE  Sealed'
    BY <1>1, <1>9 DEF ReadOn, loopVars
<1>10. ASSUME NEW s \in Side, UNCHANGED <<taken, tx, localClosed, finSent>>, worker'[s] # "added",
              \A u \in Side : u # s => worker'[u] = worker[u] /\ todo'[u] = todo[u]
       PROVE  Sealed'
    BY <1>10 DEF Sealed
<1>11. ASSUME NEW s \in Side, Turn(s) \/ Processed(s) \/ Mark(s)
       PROVE  Sealed'
    <2>1. UNCHANGED <<taken, tx, localClosed, finSent>>
        <3>1. CASE Turn(s)
            BY <3>1 DEF Turn, streamVars
        <3>2. CASE Processed(s)
            BY <3>2 DEF Processed, streamVars
        <3>3. CASE Mark(s)
            BY <3>3 DEF Mark
        <3> QED
            BY <1>11, <3>1, <3>2, <3>3
    <2>2. /\ worker[s] # "added"
          /\ \/ \E w \in {"process", "turn"} : UNCHANGED todo /\ Goto(s, w)
             \/ \E next \in {"mark", "pump"}, after \in {"gone", "turn"} : Over(s, next, after)
             \/ Done(s, "gone")
        <3>1. CASE Turn(s)
            BY <3>1 DEF Turn
        <3>2. CASE Processed(s)
            BY <3>2 DEF Processed
        <3>3. CASE Mark(s)
            BY <3>3 DEF Mark
        <3> QED
            BY <1>11, <3>1, <3>2, <3>3
    <2>3. /\ worker'[s] # "added"
          /\ \A u \in Side : u # s => worker'[u] = worker[u] /\ todo'[u] = todo[u]
        BY <2>2 DEF Types, Over, Done, Goto, SetS
    <2> QED
        BY <1>10, <2>1, <2>3
<1>12. ASSUME NEW s \in Side, PumpAdd(s)
       PROVE  Sealed'
    <2>1. UNCHANGED <<tx, localClosed, finSent>> /\ worker[s] = "pump"
        BY <1>12 DEF PumpAdd, streamVars
    <2>2. CASE Done(s, "turn") /\ UNCHANGED <<taken, unsent>>
        <3>1. /\ worker'[s] # "added"
              /\ \A u \in Side : u # s => worker'[u] = worker[u] /\ todo'[u] = todo[u]
            BY <2>1, <2>2 DEF Types, Done, Goto, SetS
        <3> QED
            BY <1>10, <2>1, <2>2, <3>1
    <2>3. CASE /\ taken' = SetS(taken, s, [count |-> Part(s), fin |-> Last(s)])
               /\ Goto(s, "added") /\ UNCHANGED todo
        <3>1. /\ taken'[s].count = Part(s) /\ taken'[s].fin = Last(s)
              /\ \A u \in Side : u # s => worker'[u] = worker[u] /\ taken'[u] = taken[u]
            BY <2>3 DEF Types, Goto, SetS
        <3>2. Last(s) => localClosed[s][Least(todo[s])] /\ Part(s) = Len(tx[s][Least(todo[s])])
            BY DEF Last, CloseAfter
        <3> QED
            BY <2>1, <2>3, <3>1, <3>2 DEF Sealed
    <2> QED
        BY <1>12, <2>2, <2>3, PumpAddDoes
<1>13. ASSUME NEW s \in Side, PumpPop(s)
       PROVE  Sealed'
    <2> DEFINE i == Least(todo[s])
    <2>1. i \in Id /\ worker[s] = "added"
        BY <1>13, LeastType DEF PumpPop
    <2>2. /\ tx' = SetI(tx, s, i, SubSeq(tx[s][i], taken[s].count + 1, Len(tx[s][i])))
          /\ finSent' = IF taken[s].fin THEN SetI(finSent, s, i, TRUE) ELSE finSent
          /\ UNCHANGED localClosed
        BY <1>13 DEF PumpPop, Rest
    <2>3. /\ worker'[s] # "added"
          /\ \A u \in Side : u # s => worker'[u] = worker[u] /\ todo'[u] = todo[u] /\ taken'[u] = taken[u]
        BY <1>13 DEF PumpPop, Types, Goto, SetS
    <2>4. taken[s].count \in Nat /\ tx[s][i] \in Seq(Nat)
        BY <2>1 DEF Types
    <2>5. taken[s].fin => localClosed[s][i] /\ taken[s].count = Len(tx[s][i])
        BY <2>1 DEF Sealed
    <2> HIDE DEF i
    <2>6. taken[s].fin \/ tx[s][i] = <<>> => SubSeq(tx[s][i], taken[s].count + 1, Len(tx[s][i])) = <<>>
        BY <2>4, <2>5, CutAway
    <2>7. ASSUME NEW u \in Side, NEW j \in Id, finSent'[u][j]
          PROVE  localClosed'[u][j] /\ tx'[u][j] = <<>>
        <3>1. CASE u = s /\ j = i
            <4>1. tx'[u][j] = SubSeq(tx[s][i], taken[s].count + 1, Len(tx[s][i]))
                BY <2>1, <2>2, <3>1 DEF Types, SetI
            <4>2. CASE taken[s].fin
                BY <2>2, <2>5, <2>6, <3>1, <4>1, <4>2
            <4>3. CASE ~taken[s].fin
                <5>1. finSent[s][i]
                    BY <2>2, <2>7, <3>1, <4>3
                <5>2. localClosed[s][i] /\ tx[s][i] = <<>>
                    BY <2>1, <5>1 DEF Sealed
                <5> QED
                    BY <2>2, <2>6, <3>1, <4>1, <5>2
            <4> QED
                BY <4>2, <4>3
        <3>2. CASE ~(u = s /\ j = i)
            <4>1. tx'[u][j] = tx[u][j] /\ finSent'[u][j] = finSent[u][j]
                BY <2>1, <2>2, <3>2 DEF Types, SetI
            <4> QED
                BY <2>2, <2>7, <4>1 DEF Sealed
        <3> QED
            BY <3>1, <3>2
    <2>8. \A u \in Side : u # s => tx'[u] = tx[u]
        BY <2>1, <2>2 DEF Types, SetI
    <2>9. ASSUME NEW u \in Side, worker'[u] = "added" /\ taken'[u].fin
          PROVE  /\ localClosed'[u][Least(todo'[u])]
                 /\ taken'[u].count = Len(tx'[u][Least(todo'[u])])
        <3>1. u # s
            BY <2>3, <2>9
        <3>2. /\ worker[u] = "added" /\ taken[u].fin
              /\ todo'[u] = todo[u] /\ taken'[u] = taken[u] /\ tx'[u] = tx[u]
            BY <2>3, <2>8, <2>9, <3>1
        <3>3. localClosed[u][Least(todo[u])] /\ taken[u].count = Len(tx[u][Least(todo[u])])
            BY <3>2 DEF Sealed
        <3> QED
            BY <2>2, <3>2, <3>3
    <2> QED
        BY <2>7, <2>9 DEF Sealed
<1>14. ASSUME NEW s \in Side, NEW i \in Id, Write(s, i)
       PROVE  Sealed'
    <2>1. ~localClosed[s][i] /\ UNCHANGED <<worker, todo, taken, localClosed, finSent>>
        BY <1>14 DEF Write, loopVars
    <2>2. \A u \in Side : \A j : tx'[u][j] = tx[u][j] \/ (u = s /\ j = i)
        BY <1>14 DEF Types, Write
    <2> QED
        BY <2>1, <2>2 DEF Sealed
<1>15. ASSUME NEW s \in Side, NEW i \in Id, Close(s, i)
       PROVE  Sealed'
    <2>1. UNCHANGED <<worker, todo, taken, tx, finSent>> /\ localClosed' = SetI(localClosed, s, i, TRUE)
        BY <1>15 DEF Close, loopVars
    <2>2. \A u \in Side : \A j : localClosed[u][j] => localClosed'[u][j]
        BY <2>1 DEF Types, SetI
    <2> QED
        BY <2>1, <2>2 DEF Sealed
<1> QED
    BY <1>2, <1>3, <1>4, <1>5, <1>6, <1>7, <1>8, <1>9, <1>11, <1>12, <1>13, <1>14, <1>15 DEF Next, App, Worker

LEMMA BudgetStep ==
    ASSUME Types, Budget, [Next]_vars
    PROVE  Budget'
<1>1. ASSUME UNCHANGED written
      PROVE  Budget'
    BY <1>1 DEF Budget
<1>2. ASSUME NEW s \in Side, NEW i \in Id, Write(s, i)
      PROVE  Budget'
    <2>1. /\ Len(written[s][i]) < MaxWrite[s]
          /\ written' = [written EXCEPT ![s][i] = Append(@, Len(written[s][i]) + 1)]
        BY <1>2 DEF Write
    <2>2. written[s][i] \in Seq(Nat) /\ MaxWrite[s] \in Nat
        BY NativeQuicAssumption DEF Types, Side
    <2>3. Len(Append(written[s][i], Len(written[s][i]) + 1)) <= MaxWrite[s]
        BY <2>1, <2>2
    <2> QED
        BY <2>1, <2>3 DEF Types, Budget
<1>3. CASE UNCHANGED vars
    BY <1>1, <1>3 DEF vars, appVars
<1>4. CASE Ice
    BY <1>1, <1>4 DEF Ice, IceFails, IceState, appVars
<1>5. ASSUME NEW s \in Side, Worker(s)
      PROVE  UNCHANGED written
    BY <1>5 DEF Worker, Turn, Handshake, StreamData, Processed, PumpAdd, PumpPop, Mark, appVars
<1>6. CASE OpenCheck \/ \E i \in Id : MakeStream(i)
    BY <1>1, <1>6 DEF OpenCheck, MakeStream, appVars
<1>7. ASSUME NEW s \in Side, Shutdown(s) \/ Destroy(s)
      PROVE  Budget'
    BY <1>1, <1>7 DEF Shutdown, Destroy, appVars
<1>8. ASSUME NEW s \in Side, NEW i \in Id, Close(s, i) \/ Read(s, i) \/ ReadOn(s, i)
      PROVE  Budget'
    BY <1>1, <1>8 DEF Close, Read, ReadOn
<1> QED
    BY <1>1, <1>2, <1>3, <1>4, <1>5, <1>6, <1>7, <1>8 DEF Next, App

LEMMA JoinsStep ==
    ASSUME Types, Joins, [Next]_vars
    PROVE  Joins'
<1>1. ASSUME UNCHANGED <<joining, stopping>>
      PROVE  Joins'
    BY <1>1 DEF Joins
<1>2. CASE UNCHANGED vars
    BY <1>1, <1>2 DEF vars, connVars
<1>3. ASSUME Aside, UNCHANGED stopping
      PROVE  Joins'
    BY <1>1, <1>3 DEF Aside
<1>4. ASSUME NEW s \in Side, Turn(s)
      PROVE  Joins'
    BY <1>1, <1>4 DEF Turn
<1>5. ASSUME NEW s \in Side, Processed(s) \/ PumpAdd(s) \/ PumpPop(s) \/ Mark(s)
      PROVE  Joins'
    <2>1. UNCHANGED connVars
        BY <1>5 DEF Processed, PumpAdd, PumpPop, Mark
    <2> QED
        BY <1>1, <2>1 DEF connVars
<1>6. ASSUME NEW s \in Side, Shutdown(s)
      PROVE  Joins'
    <2>1. stopping' = SetS(stopping, s, TRUE) /\ joining' = SetS(joining, s, "joins")
        BY <1>6 DEF Shutdown
    <2>2. ASSUME NEW u \in Side, joining'[u] # "no"
          PROVE  stopping'[u]
        <3>1. CASE u = s
            BY <2>1, <3>1 DEF Types, SetS
        <3>2. CASE u # s
            <4>1. joining'[u] = joining[u] /\ stopping'[u] = stopping[u]
                BY <2>1, <3>2 DEF Types, SetS
            <4> QED
                BY <2>2, <4>1 DEF Joins
        <3> QED
            BY <3>1, <3>2
    <2> QED
        BY <2>2 DEF Joins
<1>7. ASSUME NEW s \in Side, Destroy(s)
      PROVE  Joins'
    <2>1. stopping' = stopping /\ joining[s] = "joins" /\ joining' = SetS(joining, s, "destroyed")
        BY <1>7 DEF Destroy
    <2> QED
        BY <2>1 DEF Types, Joins, SetS
<1> QED
    BY <1>2, <1>3, <1>4, <1>5, <1>6, <1>7, AsideSteps DEF Next, App, Ice, Worker

(********************************** the flow *******************************)

LEMMA FlowTypes ==
    ASSUME Types, NEW s \in Side, NEW i \in Id
    PROVE  /\ Peer(s) \in Side /\ Peer(Peer(s)) = s /\ Peer(s) # s
           /\ written[s][i] \in Seq(Nat) /\ tx[s][i] \in Seq(Nat) /\ Ahead(s, i) \in Nat
           /\ Chan(s) \in Seq(Frame) /\ net[Peer(s)] \in Seq(Frame) /\ unsent[s] \in Seq(Frame)
           /\ rx[Peer(s)][i] \in Seq(Nat) /\ got[Peer(s)][i] \in Seq(Nat)
<1>1. Peer(s) \in Side /\ Peer(Peer(s)) = s /\ Peer(s) # s
    BY PeerSide
<1>2. Ahead(s, i) \in Nat
    BY DEF Types, Ahead
<1>3. Chan(s) \in Seq(Frame)
    <2>1. net[Peer(s)] \in Seq(Frame) /\ unsent[s] \in Seq(Frame)
        BY <1>1 DEF Types
    <2> QED
        BY <2>1 DEF Chan
<1> QED
    BY <1>1, <1>2, <1>3 DEF Types

LEMMA FlowKept ==
    ASSUME NEW s \in Side, NEW i \in Id, Flow(s, i),
           written'[s][i] = written[s][i], tx'[s][i] = tx[s][i], Ahead(s, i)' = Ahead(s, i),
           joining'[s] = joining[s], localClosed'[s][i] = localClosed[s][i], Chan(s)' = Chan(s),
           rx'[Peer(s)][i] = rx[Peer(s)][i], got'[Peer(s)][i] = got[Peer(s)][i],
           Heard(Peer(s), i)' => Heard(Peer(s), i)
    PROVE  Flow(s, i)'
BY OrderlyUnheard DEF Flow

LEMMA HeardKept ==
    ASSUME Types, [Next]_vars, NEW u \in Side, NEW i, remoteClosed'[u][i] => remoteClosed[u][i]
    PROVE  Heard(u, i)' => Heard(u, i)
BY GivenUpStays DEF Heard

LEMMA AheadKept ==
    ASSUME UNCHANGED <<worker, todo, taken>>
    PROVE  \A s, i : Ahead(s, i)' = Ahead(s, i)
BY DEF Ahead

LEMMA NotAhead ==
    ASSUME NEW s, worker[s] # "added", worker'[s] # "added"
    PROVE  \A i : Ahead(s, i) = 0 /\ Ahead(s, i)' = 0
BY DEF Ahead

\* Steps that move no byte and no frame.
LEMMA QuietFlows ==
    ASSUME Types, Flows, [Next]_vars,
           UNCHANGED <<worker, todo, taken, rx, tx, localClosed, remoteClosed, written, got, unsent, net>>,
           \A s \in Side : joining'[s] = "destroyed" <=> joining[s] = "destroyed"
    PROVE  Flows'
<1> SUFFICES ASSUME NEW s \in Side, NEW i \in Id
             PROVE  Flow(s, i)'
    BY DEF Flows
<1>1. Flow(s, i) /\ Peer(s) \in Side
    BY PeerSide DEF Flows
<1>2. Heard(Peer(s), i)' => Heard(Peer(s), i)
    BY <1>1, HeardKept
<1>3. Ahead(s, i)' = Ahead(s, i) /\ Chan(s)' = Chan(s)
    BY AheadKept DEF Chan
<1>4. (joining'[s] = "destroyed") = (joining[s] = "destroyed")
    OBVIOUS
<1> QED
    BY <1>1, <1>2, <1>3, <1>4, OrderlyUnheard DEF Flow

LEMMA IceFlows ==
    ASSUME Types, Flows, Ice
    PROVE  Flows'
<1>1. Next
    BY DEF Next
<1>2. UNCHANGED <<worker, todo, taken, rx, tx, localClosed, remoteClosed, written, got, unsent, net, joining>>
    BY DEF Ice, IceFails, IceState, loopVars, connVars, streamVars, appVars
<1> QED
    BY <1>1, <1>2, QuietFlows

LEMMA OpenFlows ==
    ASSUME Types, Flows, OpenCheck \/ (\E i \in Id : MakeStream(i))
    PROVE  Flows'
<1>1. Next
    BY DEF Next, App
<1>2. UNCHANGED <<worker, todo, taken, rx, tx, localClosed, remoteClosed, written, got, unsent, net, joining>>
    BY DEF OpenCheck, MakeStream, loopVars, streamVars, appVars, netVars
<1> QED
    BY <1>1, <1>2, QuietFlows

LEMMA ReadFlows ==
    ASSUME Types, Flows, NEW s \in Side, NEW i \in Id, Read(s, i)
    PROVE  Flows'
<1>1. Next
    BY DEF Next, App
<1>2. UNCHANGED <<worker, todo, taken, rx, tx, localClosed, remoteClosed, written, got, unsent, net, joining>>
    BY DEF Read, loopVars, connVars, streamVars, netVars
<1> QED
    BY <1>1, <1>2, QuietFlows

LEMMA ShutdownFlows ==
    ASSUME Types, Joins, Flows, NEW s \in Side, Shutdown(s)
    PROVE  Flows'
<1>1. Next
    BY DEF Next, App
<1>2. UNCHANGED <<worker, todo, taken, rx, tx, localClosed, remoteClosed, written, got, unsent, net>>
    BY DEF Shutdown, loopVars, streamVars, appVars
<1>3. joining' = SetS(joining, s, "joins") /\ ~stopping[s]
    BY DEF Shutdown
<1>4. joining[s] = "no"
    BY <1>3 DEF Joins
<1>5. \A u \in Side : joining'[u] = "destroyed" <=> joining[u] = "destroyed"
    BY <1>3, <1>4 DEF Types, SetS
<1> QED
    BY <1>1, <1>2, <1>5, QuietFlows

LEMMA DestroyFlows ==
    ASSUME Types, Flows, NEW u \in Side, Destroy(u)
    PROVE  Flows'
<1> SUFFICES ASSUME NEW s \in Side, NEW i \in Id
             PROVE  Flow(s, i)'
    BY DEF Flows
<1>1. Next /\ Flow(s, i)
    BY DEF Next, App, Flows
<1>2. /\ UNCHANGED <<worker, todo, taken, rx, tx, localClosed, remoteClosed, written, got, net>>
      /\ unsent' = SetS(unsent, u, <<>>) /\ joining' = SetS(joining, u, "destroyed")
    BY DEF Destroy, loopVars, streamVars, appVars
<1>3. Heard(Peer(s), i)' => Heard(Peer(s), i)
    BY <1>1, <1>2, HeardKept, PeerSide
<1>4. Ahead(s, i)' = Ahead(s, i)
    BY <1>2, AheadKept
<1>5. CASE s = u
    <2>1. Chan(s)' = net[Peer(s)] /\ joining'[s] = "destroyed"
        <3>1. unsent'[s] = <<>> /\ net[Peer(s)] \in Seq(Frame) /\ net' = net
            BY <1>2, <1>5, FlowTypes DEF Types, SetS
        <3>2. net[Peer(s)] \o <<>> = net[Peer(s)]
            BY <3>1
        <3>3. joining'[s] = "destroyed"
            BY <1>2, <1>5 DEF Types, SetS
        <3> QED
            BY <3>1, <3>2, <3>3 DEF Chan
    <2>2. Orderly(written[s][i], tx[s][i], Ahead(s, i), TRUE, localClosed[s][i], net[Peer(s)], i,
                  rx[Peer(s)][i], got[Peer(s)][i], Heard(Peer(s), i))
        BY <1>1, FlowTypes, OrderlyLost DEF Flow, Chan
    <2>3. (joining'[s] = "destroyed") = TRUE
        BY <2>1
    <2>4. Orderly(written[s][i], tx[s][i], Ahead(s, i), TRUE, localClosed[s][i], net[Peer(s)], i,
                  rx[Peer(s)][i], got[Peer(s)][i], Heard(Peer(s), i)')
        BY <1>3, <2>2, OrderlyUnheard
    <2>5. UNCHANGED <<written, tx, localClosed, rx, got>>
        BY <1>2
    <2> QED
        BY <1>4, <2>1, <2>3, <2>4, <2>5, Zenon DEF Flow
<1>6. CASE s # u
    <2>1. Chan(s)' = Chan(s) /\ joining'[s] = joining[s]
        BY <1>2, <1>6 DEF Types, SetS, Chan
    <2> QED
        BY <1>1, <1>2, <1>3, <1>4, <2>1, FlowKept
<1> QED
    BY <1>5, <1>6

LEMMA FlowNow ==
    ASSUME NEW s, NEW i, NEW w, NEW t, NEW ahead, NEW closed, NEW c, NEW r, NEW g, NEW heard,
           Orderly(w, t, ahead, joining'[s] = "destroyed", closed, c, i, r, g, heard),
           written'[s][i] = w, tx'[s][i] = t, Ahead(s, i)' = ahead, localClosed'[s][i] = closed,
           Chan(s)' = c, rx'[Peer(s)][i] = r, got'[Peer(s)][i] = g, Heard(Peer(s), i)' => heard
    PROVE  Flow(s, i)'
<1>1. Orderly(w, t, ahead, joining'[s] = "destroyed", closed, c, i, r, g, Heard(Peer(s), i)')
    BY OrderlyUnheard
<1> QED
    BY <1>1, Zenon DEF Flow

LEMMA WriteFlows ==
    ASSUME Types, Flows, NEW u \in Side, NEW j \in Id, Write(u, j)
    PROVE  Flows'
<1> SUFFICES ASSUME NEW s \in Side, NEW i \in Id
             PROVE  Flow(s, i)'
    BY DEF Flows
<1>1. Next /\ Flow(s, i)
    BY DEF Next, App, Flows
<1>2. UNCHANGED <<worker, todo, taken, joining, rx, localClosed, remoteClosed, got, unsent, net>>
    BY DEF Write, loopVars, connVars, netVars
<1>3. /\ ~localClosed[u][j]
      /\ written' = [written EXCEPT ![u][j] = Append(@, Len(written[u][j]) + 1)]
      /\ tx' = [tx EXCEPT ![u][j] = Append(@, Len(written[u][j]) + 1)]
    BY DEF Write
<1>4. Heard(Peer(s), i)' => Heard(Peer(s), i)
    BY <1>1, <1>2, HeardKept, PeerSide
<1>5. Ahead(s, i)' = Ahead(s, i) /\ Chan(s)' = Chan(s)
    BY <1>2, AheadKept DEF Chan
<1>6. CASE s = u /\ i = j
    <2> DEFINE w == written[s][i]
               t == tx[s][i]
               b == Len(w) + 1
    <2>1. localClosed[s][i] = FALSE
        BY <1>3, <1>6 DEF Types
    <2>2. Orderly(w, t, Ahead(s, i), joining[s] = "destroyed", FALSE,
                  Chan(s), i, rx[Peer(s)][i], got[Peer(s)][i], Heard(Peer(s), i))
        BY <1>1, <2>1, Zenon DEF Flow
    <2>3. Orderly(Append(w, b), Append(t, b), Ahead(s, i), joining[s] = "destroyed", FALSE,
                  Chan(s), i, rx[Peer(s)][i], got[Peer(s)][i], Heard(Peer(s), i))
        BY <2>2, FlowTypes, OrderlyWritten
    <2>4. written'[s][i] = Append(w, b) /\ tx'[s][i] = Append(t, b)
        BY <1>3, <1>6 DEF Types
    <2> HIDE DEF w, t, b
    <2> QED
        BY <1>2, <1>4, <1>5, <2>1, <2>3, <2>4, FlowNow
<1>7. CASE ~(s = u /\ i = j)
    <2>1. written'[s][i] = written[s][i] /\ tx'[s][i] = tx[s][i]
        BY <1>3, <1>7 DEF Types
    <2> QED
        BY <1>1, <1>2, <1>4, <1>5, <2>1, FlowKept
<1> QED
    BY <1>6, <1>7

LEMMA CloseFlows ==
    ASSUME Types, Flows, NEW u \in Side, NEW j \in Id, Close(u, j)
    PROVE  Flows'
<1> SUFFICES ASSUME NEW s \in Side, NEW i \in Id
             PROVE  Flow(s, i)'
    BY DEF Flows
<1>1. Next /\ Flow(s, i)
    BY DEF Next, App, Flows
<1>2. UNCHANGED <<worker, todo, taken, joining, rx, tx, remoteClosed, written, got, unsent, net>>
    BY DEF Close, loopVars, connVars, netVars
<1>3. ~localClosed[u][j] /\ localClosed' = SetI(localClosed, u, j, TRUE)
    BY DEF Close
<1>4. Heard(Peer(s), i)' => Heard(Peer(s), i)
    BY <1>1, <1>2, HeardKept, PeerSide
<1>5. Ahead(s, i)' = Ahead(s, i) /\ Chan(s)' = Chan(s)
    BY <1>2, AheadKept DEF Chan
<1>6. CASE s = u /\ i = j
    <2>1. localClosed[s][i] = FALSE
        BY <1>3, <1>6 DEF Types
    <2>2. Orderly(written[s][i], tx[s][i], Ahead(s, i), joining[s] = "destroyed", FALSE,
                  Chan(s), i, rx[Peer(s)][i], got[Peer(s)][i], Heard(Peer(s), i))
        BY <1>1, <2>1, Zenon DEF Flow
    <2>3. Orderly(written[s][i], tx[s][i], Ahead(s, i), joining[s] = "destroyed", TRUE,
                  Chan(s), i, rx[Peer(s)][i], got[Peer(s)][i], Heard(Peer(s), i))
        BY <2>2, FlowTypes, OrderlyClosed
    <2>4. localClosed'[s][i] = TRUE
        BY <1>3, <1>6 DEF Types, SetI
    <2> QED
        BY <1>2, <1>4, <1>5, <2>3, <2>4, FlowNow
<1>7. CASE ~(s = u /\ i = j)
    <2>1. localClosed'[s][i] = localClosed[s][i]
        BY <1>3, <1>7 DEF Types, SetI
    <2> QED
        BY <1>1, <1>2, <1>4, <1>5, <2>1, FlowKept
<1> QED
    BY <1>6, <1>7

LEMMA ReadOnFlows ==
    ASSUME Types, Flows, NEW u \in Side, NEW j \in Id, ReadOn(u, j)
    PROVE  Flows'
<1> SUFFICES ASSUME NEW s \in Side, NEW i \in Id
             PROVE  Flow(s, i)'
    BY DEF Flows
<1> DEFINE n == IF Len(rx[u][j]) < reader[u][j].want THEN Len(rx[u][j]) ELSE reader[u][j].want
<1>1. Next /\ Flow(s, i)
    BY DEF Next, App, Flows
<1>2. UNCHANGED <<worker, todo, taken, joining, tx, localClosed, remoteClosed, written, unsent, net>>
    BY DEF ReadOn, loopVars, connVars, netVars
<1>3. /\ got' = [got EXCEPT ![u][j] = @ \o SubSeq(rx[u][j], 1, n)]
      /\ rx' = [rx EXCEPT ![u][j] = SubSeq(@, n + 1, Len(rx[u][j]))]
    BY DEF ReadOn
<1>4. Heard(Peer(s), i)' => Heard(Peer(s), i)
    BY <1>1, <1>2, HeardKept, PeerSide
<1>5. Ahead(s, i)' = Ahead(s, i) /\ Chan(s)' = Chan(s)
    BY <1>2, AheadKept DEF Chan
<1>6. n \in 0 .. Len(rx[u][j])
    <2>1. reader[u][j] \in [pc : {"idle", "awake", "asleep"}, want : Nat] /\ rx[u][j] \in Seq(Nat)
        BY DEF Types
    <2>2. reader[u][j].want \in Nat /\ Len(rx[u][j]) \in Nat
        BY <2>1
    <2>3. (IF Len(rx[u][j]) < reader[u][j].want THEN Len(rx[u][j]) ELSE reader[u][j].want) \in 0 .. Len(rx[u][j])
        BY <2>2
    <2> QED
        BY <2>3
<1> HIDE DEF n
<1>7. CASE Peer(s) = u /\ i = j
    <2> DEFINE r == rx[Peer(s)][i]
               g == got[Peer(s)][i]
    <2>1. n \in 0 .. Len(r)
        BY <1>6, <1>7
    <2>2. Orderly(written[s][i], tx[s][i], Ahead(s, i), joining[s] = "destroyed", localClosed[s][i],
                  Chan(s), i, SubSeq(r, n + 1, Len(r)), g \o SubSeq(r, 1, n), Heard(Peer(s), i))
        BY <1>1, <2>1, FlowTypes, OrderlyRead DEF Flow
    <2>3. rx'[Peer(s)][i] = SubSeq(r, n + 1, Len(r)) /\ got'[Peer(s)][i] = g \o SubSeq(r, 1, n)
        BY <1>3, <1>7 DEF Types
    <2> HIDE DEF r, g
    <2> QED
        BY <1>2, <1>4, <1>5, <2>2, <2>3, FlowNow
<1>8. CASE ~(Peer(s) = u /\ i = j)
    <2>0. Peer(s) \in Side
        BY PeerSide
    <2>1. rx'[Peer(s)][i] = rx[Peer(s)][i] /\ got'[Peer(s)][i] = got[Peer(s)][i]
        BY <1>3, <1>8, <2>0 DEF Types
    <2> QED
        BY <1>1, <1>2, <1>4, <1>5, <2>1, FlowKept
<1> QED
    BY <1>7, <1>8

LEMMA StreamDataFlows ==
    ASSUME Types, Flows, NEW u \in Side, StreamData(u)
    PROVE  Flows'
<1> SUFFICES ASSUME NEW s \in Side, NEW i \in Id
             PROVE  Flow(s, i)'
    BY DEF Flows
<1> DEFINE f == Head(net[u])
<1>1. Next /\ Flow(s, i)
    BY DEF Next, Worker, Flows
<1>2. UNCHANGED <<worker, todo, taken, joining, tx, localClosed, written, got, unsent>>
    BY DEF StreamData, loopVars, connVars
<1>3. /\ rx' = [rx EXCEPT ![u][f.id] = @ \o f.bytes]
      /\ remoteClosed' = IF f.fin THEN SetI(remoteClosed, u, f.id, TRUE) ELSE remoteClosed
      /\ net' = [net EXCEPT ![u] = Tail(@)]
    BY DEF StreamData
<1>4. /\ net[u] \in Seq(Frame) /\ net[u] # <<>> /\ f.kind = "data" /\ f.id \in Id
      /\ f.fin \in BOOLEAN /\ f \in Frame
    BY StreamDataFrame
<1>5. Ahead(s, i)' = Ahead(s, i)
    BY <1>2, AheadKept
<1> HIDE DEF f
<1>6. CASE Peer(s) = u
    <2> DEFINE c == Chan(s)
               r == rx[Peer(s)][i]
               heard == Heard(Peer(s), i) \/ (Of(f, i) /\ f.fin)
    <2>1. c # <<>> /\ Head(c) = f /\ Chan(s)' = Tail(c)
        <3>1. /\ c = net[u] \o unsent[s] /\ Chan(s)' = Tail(net[u]) \o unsent[s]
              /\ net[u] \in Seq(Frame) /\ unsent[s] \in Seq(Frame)
            BY <1>2, <1>3, <1>6 DEF Types, Chan
        <3> QED
            BY <1>4, <3>1, ConcatTaken DEF f
    <2>2. rx'[Peer(s)][i] = IF Of(f, i) THEN r \o f.bytes ELSE r
        BY <1>3, <1>4, <1>6 DEF Types, Of
    <2>3. Heard(Peer(s), i)' => heard
        <3>1. CASE Of(f, i) /\ f.fin
            BY <3>1
        <3>2. CASE ~(Of(f, i) /\ f.fin)
            <4>1. remoteClosed'[u][i] = remoteClosed[u][i]
                BY <1>3, <1>4, <3>2 DEF Types, SetI, Of
            <4> QED
                BY <1>1, <1>6, <4>1, HeardKept
        <3> QED
            BY <3>1, <3>2
    <2>4. Orderly(written[s][i], tx[s][i], Ahead(s, i), joining[s] = "destroyed", localClosed[s][i],
                  Tail(c), i, IF Of(Head(c), i) THEN r \o Head(c).bytes ELSE r, got[Peer(s)][i], heard)
        <3>1. Orderly(written[s][i], tx[s][i], Ahead(s, i), joining[s] = "destroyed", localClosed[s][i],
                      c, i, r, got[Peer(s)][i], Heard(Peer(s), i))
            BY <1>1 DEF Flow
        <3>2. heard => Heard(Peer(s), i) \/ (Of(Head(c), i) /\ Head(c).fin)
            BY <2>1
        <3>3. /\ written[s][i] \in Seq(Nat) /\ tx[s][i] \in Seq(Nat) /\ Ahead(s, i) \in Nat
              /\ c \in Seq(Frame) /\ r \in Seq(Nat) /\ got[Peer(s)][i] \in Seq(Nat)
            BY FlowTypes
        <3> HIDE DEF c, r, heard
        <3> QED
            BY <2>1, <3>1, <3>2, <3>3, OrderlyTaken
    <2>5. /\ joining' = joining /\ written'[s][i] = written[s][i] /\ tx'[s][i] = tx[s][i]
          /\ localClosed'[s][i] = localClosed[s][i] /\ got'[Peer(s)][i] = got[Peer(s)][i]
        BY <1>2
    <2>6. /\ Chan(s)' = Tail(c)
          /\ rx'[Peer(s)][i] = IF Of(Head(c), i) THEN r \o Head(c).bytes ELSE r
        BY <2>1, <2>2
    <2> HIDE DEF c, r, heard
    <2> QED
        BY <1>5, <2>3, <2>4, <2>5, <2>6, FlowNow
<1>7. CASE Peer(s) # u
    <2>1. Peer(s) \in Side
        BY PeerSide
    <2>2. net'[Peer(s)] = net[Peer(s)] /\ rx'[Peer(s)][i] = rx[Peer(s)][i]
        BY <1>3, <1>7, <2>1 DEF Types
    <2>3. remoteClosed'[Peer(s)][i] = remoteClosed[Peer(s)][i]
        BY <1>3, <1>7, <2>1 DEF Types, SetI
    <2>4. Heard(Peer(s), i)' => Heard(Peer(s), i)
        BY <1>1, <2>1, <2>3, HeardKept
    <2>5. Chan(s)' = Chan(s)
        BY <1>2, <2>2 DEF Chan
    <2> QED
        BY <1>1, <1>2, <1>5, <2>2, <2>4, <2>5, FlowKept
<1> QED
    BY <1>6, <1>7

LEMMA ConcatAppended ==
    ASSUME NEW c \in Seq(Frame), NEW d \in Seq(Frame), NEW f \in Frame
    PROVE  c \o Append(d, f) = Append(c \o d, f) /\ (c \o d) \o <<f>> = Append(c \o d, f)
           /\ (c \o d) \o <<>> = c \o d /\ c \o d \in Seq(Frame)
OBVIOUS

LEMMA HandNotOf == \A k \in {"hello", "reply", "finish"} : \A i : ~Of(Hand(k), i)
BY DEF Hand, Of

\* A frame of the handshake, or none, goes onto a side's channel.
LEMMA HandFlow ==
    ASSUME Types, [Next]_vars, NEW s \in Side, NEW i \in Id, Flow(s, i),
           UNCHANGED <<joining, rx, tx, localClosed, remoteClosed, written, got>>,
           Ahead(s, i)' = Ahead(s, i),
           Chan(s)' = Chan(s) \/ \E k \in {"hello", "reply", "finish"} : Chan(s)' = Append(Chan(s), Hand(k))
    PROVE  Flow(s, i)'
<1>1. Heard(Peer(s), i)' => Heard(Peer(s), i)
    BY HeardKept, PeerSide
<1>2. CASE Chan(s)' = Chan(s)
    BY <1>1, <1>2, FlowKept
<1>3. ASSUME NEW k \in {"hello", "reply", "finish"}, Chan(s)' = Append(Chan(s), Hand(k))
      PROVE  Flow(s, i)'
    <2>1. Hand(k) \in Frame /\ ~Of(Hand(k), i)
        BY HandType, HandNotOf
    <2>2. Orderly(written[s][i], tx[s][i], Ahead(s, i), joining[s] = "destroyed", localClosed[s][i],
                  Append(Chan(s), Hand(k)), i, rx[Peer(s)][i], got[Peer(s)][i], Heard(Peer(s), i))
        BY <2>1, FlowTypes, OrderlyAppended DEF Flow
    <2> QED
        BY <1>1, <1>3, <2>2, FlowNow
<1> QED
    BY <1>2, <1>3

LEMMA TurnFlows ==
    ASSUME Types, Flows, NEW u \in Side, Turn(u)
    PROVE  Flows'
<1> SUFFICES ASSUME NEW s \in Side, NEW i \in Id
             PROVE  Flow(s, i)'
    BY DEF Flows
<1>1. Next /\ Flow(s, i)
    BY DEF Next, Worker, Flows
<1>2. UNCHANGED <<joining, rx, tx, localClosed, remoteClosed, written, got, taken>>
    BY DEF Turn, streamVars, appVars
<1>3. Ahead(s, i)' = Ahead(s, i)
    <2>1. /\ worker[u] = "turn"
          /\ Over(u, "mark", "gone") \/ (UNCHANGED todo /\ Goto(u, "process"))
        BY DEF Turn
    <2>2. /\ worker'[u] # "added"
          /\ \A v \in Side : v # u => worker'[v] = worker[v] /\ todo'[v] = todo[v]
        BY <2>1 DEF Types, Over, Goto, SetS
    <2> QED
        BY <1>2, <2>1, <2>2 DEF Ahead
<1>4. Peer(s) \in Side /\ Peer(u) \in Side /\ (s = u \/ s = Peer(u)) /\ Peer(u) # u /\ Peer(Peer(u)) = u
    BY PeerSide
<1>5. CASE s = u
    <2> DEFINE c == net[Peer(u)]
               d == unsent[u]
    <2>1. c \in Seq(Frame) /\ d \in Seq(Frame) /\ Hand("hello") \in Frame /\ Chan(s) = c \o d
        BY <1>4, <1>5, HandType DEF Types, Chan
    <2>2. net'[Peer(u)] = IF iceConnected[u] THEN c \o d ELSE c
        BY <1>4 DEF Types, Turn, SetS
    <2>3. \/ unsent'[u] = (IF iceConnected[u] THEN <<>> ELSE d)
          \/ iceConnected[u] /\ unsent'[u] = <<Hand("hello")>>
        <3>1. \/ unsent' = SetS(unsent, u, IF iceConnected[u] THEN <<>> ELSE d)
              \/ iceConnected[u] /\ unsent' = SetS(unsent, u, <<Hand("hello")>>)
            BY DEF Turn
        <3>2. unsent \in [Side -> Seq(Frame)]
            BY DEF Types
        <3> QED
            BY <3>1, <3>2 DEF SetS
    <2>4. Chan(s)' = net'[Peer(u)] \o unsent'[u]
        BY <1>5 DEF Chan
    <2> HIDE DEF c, d
    <2>5. Chan(s)' = Chan(s) \/ Chan(s)' = Append(Chan(s), Hand("hello"))
        <3>1. /\ (c \o d) \o <<>> = c \o d
              /\ (c \o d) \o <<Hand("hello")>> = Append(c \o d, Hand("hello"))
            BY <2>1, ConcatAppended
        <3>2. CASE iceConnected[u]
            BY <2>1, <2>2, <2>3, <2>4, <3>1, <3>2
        <3>3. CASE ~iceConnected[u]
            BY <2>1, <2>2, <2>3, <2>4, <3>3
        <3> QED
            BY <3>2, <3>3
    <2> QED
        BY <1>1, <1>2, <1>3, <2>5, HandFlow
<1>6. CASE s = Peer(u)
    <2>1. net'[u] = net[u]
        <3>1. \E v : net' = SetS(net, Peer(u), v)
            BY DEF Turn
        <3> QED
            BY <1>4, <3>1 DEF Types, SetS
    <2>2. unsent'[Peer(u)] = unsent[Peer(u)]
        <3>1. \E v : unsent' = SetS(unsent, u, v)
            BY DEF Turn
        <3> QED
            BY <1>4, <3>1 DEF Types, SetS
    <2>3. Chan(s)' = Chan(s)
        BY <2>2, <1>4, <1>6, <2>1 DEF Chan
    <2> QED
        BY <1>1, <1>2, <1>3, <2>3, HandFlow
<1> QED
    BY <1>4, <1>5, <1>6

LEMMA HandshakeFlows ==
    ASSUME Types, Flows, NEW u \in Side, Handshake(u)
    PROVE  Flows'
<1> SUFFICES ASSUME NEW s \in Side, NEW i \in Id
             PROVE  Flow(s, i)'
    BY DEF Flows
<1> DEFINE f == Head(net[u])
<1>1. Next /\ Flow(s, i)
    BY DEF Next, Worker, Flows
<1>2. UNCHANGED <<joining, rx, tx, localClosed, remoteClosed, written, got, worker, todo, taken>>
    BY DEF Handshake, loopVars, streamVars, appVars
<1>3. Ahead(s, i)' = Ahead(s, i)
    BY <1>2, AheadKept
<1>4. Peer(s) \in Side /\ Peer(u) \in Side /\ (s = u \/ s = Peer(u)) /\ Peer(u) # u /\ Peer(Peer(u)) = u
    BY PeerSide
<1>5. /\ net[u] # <<>> /\ f.kind # "data" /\ net' = [net EXCEPT ![u] = Tail(@)]
      /\ net[u] \in Seq(Frame) /\ net[Peer(u)] \in Seq(Frame)
      /\ unsent[u] \in Seq(Frame) /\ unsent[Peer(u)] \in Seq(Frame)
    BY <1>4 DEF Types, Handshake
<1>6. \/ unsent' = unsent
      \/ \E k \in {"reply", "finish"} : unsent' = [unsent EXCEPT ![u] = Append(@, Hand(k))]
    BY DEF Handshake
<1>7. CASE s = u
    <2>1. net'[Peer(u)] = net[Peer(u)]
        BY <1>4, <1>5 DEF Types
    <2>2. CASE unsent' = unsent
        <3>1. Chan(s)' = Chan(s)
            BY <1>7, <2>1, <2>2 DEF Chan
        <3> QED
            BY <1>1, <1>2, <1>3, <3>1, HandFlow
    <2>3. ASSUME NEW k \in {"reply", "finish"}, unsent' = [unsent EXCEPT ![u] = Append(@, Hand(k))]
          PROVE  Flow(s, i)'
        <3>1. Chan(s)' = net[Peer(u)] \o Append(unsent[u], Hand(k)) /\ Chan(s) = net[Peer(u)] \o unsent[u]
            BY <1>7, <2>1, <2>3 DEF Types, Chan
        <3>2. Hand(k) \in Frame
            BY HandType
        <3>3. net[Peer(u)] \o Append(unsent[u], Hand(k)) = Append(net[Peer(u)] \o unsent[u], Hand(k))
            <4>1. net[Peer(u)] \in Seq(Frame) /\ unsent[u] \in Seq(Frame)
                BY <1>5
            <4> QED
                BY <3>2, <4>1, ConcatAppended
        <3>4. Chan(s)' = Append(Chan(s), Hand(k))
            BY <3>1, <3>3
        <3> QED
            BY <1>1, <1>2, <1>3, <3>4, HandFlow
    <2> QED
        BY <1>6, <2>2, <2>3
<1>8. CASE s = Peer(u)
    <2> DEFINE c == Chan(s)
    <2>1. unsent'[s] = unsent[s]
        BY <1>4, <1>6, <1>8 DEF Types
    <2>2. c # <<>> /\ Head(c) = f /\ Chan(s)' = Tail(c)
        <3>1. c = net[u] \o unsent[s] /\ Chan(s)' = Tail(net[u]) \o unsent[s]
            BY <1>4, <1>5, <1>8, <2>1 DEF Types, Chan
        <3> HIDE DEF c
        <3> QED
            BY <1>5, <1>8, <3>1, ConcatTaken
    <2>3. ~Of(Head(c), i)
        BY <1>5, <2>2 DEF Of
    <2>4. Orderly(written[s][i], tx[s][i], Ahead(s, i), joining[s] = "destroyed", localClosed[s][i],
                  Tail(c), i, rx[Peer(s)][i], got[Peer(s)][i], Heard(Peer(s), i))
        <3>1. Orderly(written[s][i], tx[s][i], Ahead(s, i), joining[s] = "destroyed", localClosed[s][i],
                      c, i, rx[Peer(s)][i], got[Peer(s)][i], Heard(Peer(s), i))
            BY <1>1 DEF Flow
        <3>2. /\ written[s][i] \in Seq(Nat) /\ tx[s][i] \in Seq(Nat) /\ Ahead(s, i) \in Nat
              /\ c \in Seq(Frame) /\ rx[Peer(s)][i] \in Seq(Nat) /\ got[Peer(s)][i] \in Seq(Nat)
            BY FlowTypes
        <3> HIDE DEF c
        <3>3. Orderly(written[s][i], tx[s][i], Ahead(s, i), joining[s] = "destroyed", localClosed[s][i],
                      Tail(c), i, IF Of(Head(c), i) THEN rx[Peer(s)][i] \o Head(c).bytes ELSE rx[Peer(s)][i],
                      got[Peer(s)][i], Heard(Peer(s), i))
            BY <2>2, <3>1, <3>2, OrderlyTaken
        <3> QED
            BY <2>3, <3>3
    <2>5. Heard(Peer(s), i)' => Heard(Peer(s), i)
        BY <1>1, <1>2, <1>4, HeardKept
    <2> HIDE DEF c
    <2> QED
        BY <1>2, <1>3, <2>2, <2>4, <2>5, FlowNow
<1> QED
    BY <1>4, <1>7, <1>8

LEMMA ProcessedFlows ==
    ASSUME Types, Flows, NEW u \in Side, Processed(u)
    PROVE  Flows'
<1> SUFFICES ASSUME NEW s \in Side, NEW i \in Id
             PROVE  Flow(s, i)'
    BY DEF Flows
<1>1. Next /\ Flow(s, i)
    BY DEF Next, Worker, Flows
<1>2. UNCHANGED <<joining, rx, tx, localClosed, remoteClosed, written, got, taken, unsent, net>>
    BY DEF Processed, connVars, streamVars, appVars, netVars
<1>3. /\ worker[u] = "process"
      /\ Over(u, "pump", "turn") \/ (Goto(u, "turn") /\ UNCHANGED todo)
    BY DEF Processed
<1>4. /\ worker'[u] # "added"
      /\ \A v \in Side : v # u => worker'[v] = worker[v] /\ todo'[v] = todo[v]
    BY <1>3 DEF Types, Over, Goto, SetS
<1>5. Ahead(s, i)' = Ahead(s, i)
    BY <1>2, <1>3, <1>4 DEF Ahead
<1>6. Chan(s)' = Chan(s)
    BY <1>2 DEF Chan
<1> QED
    BY <1>1, <1>2, <1>5, <1>6, HandFlow

LEMMA PumpAddFlows ==
    ASSUME Types, Stages, Flows, NEW u \in Side, PumpAdd(u)
    PROVE  Flows'
<1> SUFFICES ASSUME NEW s \in Side, NEW i \in Id
             PROVE  Flow(s, i)'
    BY DEF Flows
<1>1. Next /\ Flow(s, i)
    BY DEF Next, Worker, Flows
<1>2. /\ UNCHANGED <<joining, rx, tx, localClosed, remoteClosed, written, got, net>>
      /\ worker[u] = "pump"
    BY DEF PumpAdd, connVars, streamVars, appVars
<1>3. Heard(Peer(s), i)' => Heard(Peer(s), i)
    BY <1>1, <1>2, HeardKept, PeerSide
<1>4. CASE Done(u, "turn") /\ UNCHANGED <<taken, unsent>>
    <2>1. /\ worker'[u] # "added"
          /\ \A v \in Side : v # u => worker'[v] = worker[v] /\ todo'[v] = todo[v]
        BY <1>2, <1>4 DEF Types, Done, Goto, SetS
    <2>2. Ahead(s, i)' = Ahead(s, i)
        BY <1>2, <1>4, <2>1 DEF Ahead
    <2>3. Chan(s)' = Chan(s)
        BY <1>2, <1>4 DEF Chan
    <2> QED
        BY <1>1, <1>2, <1>3, <2>2, <2>3, FlowKept
<1>5. CASE /\ unsent' = [unsent EXCEPT ![u] = Append(@, Handed(u))]
           /\ taken' = SetS(taken, u, [count |-> Part(u), fin |-> Last(u)])
           /\ Goto(u, "added") /\ UNCHANGED todo
    <2>1. /\ worker'[u] = "added" /\ taken'[u].count = Part(u)
          /\ \A v \in Side : v # u => worker'[v] = worker[v] /\ taken'[v] = taken[v]
        BY <1>5 DEF Types, Goto, SetS
    <2>2. CASE s # u
        <3>1. Ahead(s, i)' = Ahead(s, i)
            BY <1>5, <2>1, <2>2 DEF Ahead
        <3>2. Chan(s)' = Chan(s)
            BY <1>2, <1>5, <2>2 DEF Types, Chan
        <3> QED
            BY <1>1, <1>2, <1>3, <3>1, <3>2, FlowKept
    <2>3. CASE s = u
        <3> DEFINE f == Handed(s)
        <3>1. /\ f \in Frame /\ Part(s) \in 0 .. Len(tx[s][Least(todo[s])])
              /\ Least(todo[s]) \in Id
            BY <1>2, <2>3, HandedType
        <3>2. /\ Of(f, i) <=> i = Least(todo[s])
              /\ f.bytes = SubSeq(tx[s][Least(todo[s])], 1, Part(s)) /\ f.fin = Last(s)
            BY DEF Handed, Of
        <3>3. Last(s) => localClosed[s][Least(todo[s])] /\ Part(s) = Len(tx[s][Least(todo[s])])
            BY DEF Last, CloseAfter
        <3>4. Ahead(s, i) = 0 /\ Ahead(s, i)' = IF i = Least(todo[s]) THEN Part(s) ELSE 0
            BY <1>2, <1>5, <2>1, <2>3 DEF Ahead
        <3> HIDE DEF f
        <3>5. Chan(s)' = Append(Chan(s), f)
            <4>1. Chan(s)' = net[Peer(s)] \o Append(unsent[s], f) /\ Chan(s) = net[Peer(s)] \o unsent[s]
                BY <1>2, <1>5, <2>3 DEF Types, Chan, f
            <4>2. net[Peer(s)] \in Seq(Frame) /\ unsent[s] \in Seq(Frame)
                BY FlowTypes
            <4>3. net[Peer(s)] \o Append(unsent[s], f) = Append(net[Peer(s)] \o unsent[s], f)
                BY <3>1, <4>2, ConcatAppended
            <4> QED
                BY <4>1, <4>3
        <3>6. CASE i = Least(todo[s])
            <4>1. (joining[s] = "destroyed") = FALSE
                BY <1>2, <2>3 DEF Stages
            <4>2. Orderly(written[s][i], tx[s][i], 0, FALSE, localClosed[s][i],
                          Chan(s), i, rx[Peer(s)][i], got[Peer(s)][i], Heard(Peer(s), i))
                BY <1>1, <3>4, <4>1, Zenon DEF Flow
            <4>3. /\ Of(f, i) /\ Part(s) \in 0 .. Len(tx[s][i]) /\ f.bytes = SubSeq(tx[s][i], 1, Part(s))
                BY <3>1, <3>2, <3>6
            <4>4. f.fin => localClosed[s][i] /\ Part(s) = Len(tx[s][i])
                BY <3>2, <3>3, <3>6, Zenon
            <4>5. /\ written[s][i] \in Seq(Nat) /\ tx[s][i] \in Seq(Nat)
                  /\ Chan(s) \in Seq(Frame) /\ rx[Peer(s)][i] \in Seq(Nat) /\ got[Peer(s)][i] \in Seq(Nat)
                BY FlowTypes
            <4>6. Orderly(written[s][i], tx[s][i], Part(s), FALSE, localClosed[s][i],
                          Append(Chan(s), f), i, rx[Peer(s)][i], got[Peer(s)][i], Heard(Peer(s), i))
                BY <3>1, <4>2, <4>3, <4>4, <4>5, OrderlyAdded
            <4>7. (joining'[s] = "destroyed") = FALSE
                BY <1>2, <4>1
            <4>8. Orderly(written[s][i], tx[s][i], Part(s), joining'[s] = "destroyed", localClosed[s][i],
                          Append(Chan(s), f), i, rx[Peer(s)][i], got[Peer(s)][i], Heard(Peer(s), i))
                BY <4>6, <4>7, Zenon
            <4>9. Ahead(s, i)' = Part(s)
                BY <3>4, <3>6
            <4> QED
                BY <1>2, <1>3, <3>5, <4>8, <4>9, FlowNow
        <3>7. CASE i # Least(todo[s])
            <4>1. ~Of(f, i)
                BY <3>2, <3>7
            <4>2. Orderly(written[s][i], tx[s][i], Ahead(s, i), joining[s] = "destroyed", localClosed[s][i],
                          Append(Chan(s), f), i, rx[Peer(s)][i], got[Peer(s)][i], Heard(Peer(s), i))
                BY <1>1, <3>1, <4>1, FlowTypes, OrderlyAppended DEF Flow
            <4>3. Ahead(s, i)' = Ahead(s, i)
                BY <3>4, <3>7
            <4> QED
                BY <1>2, <1>3, <3>5, <4>2, <4>3, FlowNow
        <3> QED
            BY <3>6, <3>7
    <2> QED
        BY <2>2, <2>3
<1> QED
    BY <1>4, <1>5, PumpAddDoes

LEMMA PumpPopFlows ==
    ASSUME Types, Stages, Flows, NEW u \in Side, PumpPop(u)
    PROVE  Flows'
<1> SUFFICES ASSUME NEW s \in Side, NEW i \in Id
             PROVE  Flow(s, i)'
    BY DEF Flows
<1> DEFINE j == Least(todo[u])
<1>1. Next /\ Flow(s, i)
    BY DEF Next, Worker, Flows
<1>2. /\ UNCHANGED <<joining, rx, localClosed, remoteClosed, written, got, unsent, net>>
      /\ worker[u] = "added"
    BY DEF PumpPop, connVars, appVars, netVars
<1>3. /\ tx' = SetI(tx, u, j, SubSeq(tx[u][j], taken[u].count + 1, Len(tx[u][j])))
      /\ worker'[u] # "added"
      /\ \A v \in Side : v # u => worker'[v] = worker[v] /\ todo'[v] = todo[v] /\ taken'[v] = taken[v]
    BY DEF Types, PumpPop, Rest, Goto, SetS
<1>4. Heard(Peer(s), i)' => Heard(Peer(s), i)
    BY <1>1, <1>2, HeardKept, PeerSide
<1>5. Chan(s)' = Chan(s) /\ j \in Id
    BY <1>2, LeastType DEF Chan
<1>6. CASE s = u /\ i = j
    <2>1. Ahead(s, i) = taken[s].count /\ Ahead(s, i)' = 0
        BY <1>2, <1>3, <1>6 DEF Ahead
    <2>2. tx'[s][i] = SubSeq(tx[s][i], Ahead(s, i) + 1, Len(tx[s][i]))
        BY <1>3, <1>5, <1>6, <2>1 DEF Types, SetI
    <2>3. Orderly(written[s][i], SubSeq(tx[s][i], Ahead(s, i) + 1, Len(tx[s][i])), 0,
                  joining[s] = "destroyed", localClosed[s][i],
                  Chan(s), i, rx[Peer(s)][i], got[Peer(s)][i], Heard(Peer(s), i))
        BY <1>1, FlowTypes, OrderlyPopped DEF Flow
    <2> QED
        BY <1>2, <1>4, <1>5, <2>1, <2>2, <2>3, FlowNow
<1>7. CASE ~(s = u /\ i = j)
    <2>1. tx'[s][i] = tx[s][i]
        BY <1>3, <1>5, <1>7 DEF Types, SetI
    <2>2. Ahead(s, i)' = Ahead(s, i)
        BY <1>3, <1>7 DEF Ahead
    <2> QED
        BY <1>1, <1>2, <1>4, <1>5, <2>1, <2>2, FlowKept
<1> QED
    BY <1>6, <1>7

LEMMA MarkFlows ==
    ASSUME Types, Stages, Flows, NEW u \in Side, Mark(u)
    PROVE  Flows'
<1> SUFFICES ASSUME NEW s \in Side, NEW i \in Id
             PROVE  Flow(s, i)'
    BY DEF Flows
<1>1. Next /\ Flow(s, i)
    BY DEF Next, Worker, Flows
<1>2. /\ UNCHANGED <<joining, rx, tx, localClosed, written, got, taken, unsent, net>>
      /\ worker[u] = "mark" /\ Done(u, "gone") /\ remoteClosed' = SetI(remoteClosed, u, Least(todo[u]), TRUE)
    BY DEF Mark, connVars, netVars
<1>3. /\ worker'[u] # "added"
      /\ \A v \in Side : v # u => worker'[v] = worker[v] /\ todo'[v] = todo[v]
    BY <1>2 DEF Types, Done, Goto, SetS
<1>4. Ahead(s, i)' = Ahead(s, i) /\ Chan(s)' = Chan(s)
    BY <1>2, <1>3 DEF Ahead, Chan
<1>5. Heard(Peer(s), i)' => Heard(Peer(s), i)
    <2>1. Peer(s) \in Side
        BY PeerSide
    <2>2. CASE Peer(s) = u
        <3>1. GivenUp(u)
            BY <1>2 DEF Stages
        <3>2. GivenUp(u)'
            BY <1>1, <3>1, GivenUpStays
        <3> QED
            BY <2>2, <3>2 DEF Heard
    <2>3. CASE Peer(s) # u
        <3>1. remoteClosed'[Peer(s)][i] = remoteClosed[Peer(s)][i]
            BY <1>2, <2>1, <2>3 DEF Types, SetI
        <3> QED
            BY <1>1, <2>1, <3>1, HeardKept
    <2> QED
        BY <2>2, <2>3
<1> QED
    BY <1>1, <1>2, <1>4, <1>5, FlowKept

LEMMA FlowsStep ==
    ASSUME Types, Stages, Joins, Flows, [Next]_vars
    PROVE  Flows'
<1>1. CASE UNCHANGED vars
    <2>1. UNCHANGED <<worker, todo, taken, rx, tx, localClosed, remoteClosed, written, got, unsent, net, joining>>
        BY <1>1 DEF vars, loopVars, connVars, streamVars, appVars, netVars
    <2> QED
        BY <2>1, QuietFlows
<1>2. CASE App
    BY <1>2, OpenFlows, ShutdownFlows, DestroyFlows, WriteFlows, CloseFlows, ReadFlows, ReadOnFlows DEF App
<1>3. CASE Ice
    BY <1>3, IceFlows
<1>4. CASE \E s \in Side : Worker(s)
    BY <1>4, TurnFlows, HandshakeFlows, StreamDataFlows, ProcessedFlows, PumpAddFlows, PumpPopFlows, MarkFlows
       DEF Worker
<1> QED
    BY <1>1, <1>2, <1>3, <1>4 DEF Next

(******************************* the theorems ******************************)

LEMMA QuicInit == Init => QuicInv
<1> SUFFICES ASSUME Init
             PROVE  QuicInv
    OBVIOUS
<1>1. Types
    <2>1. <<>> \in Seq(Nat) /\ <<>> \in Seq(Frame)
        OBVIOUS
    <2>2. [pc |-> "idle", want |-> 0] \in [pc : {"idle", "awake", "asleep"}, want : Nat]
        OBVIOUS
    <2>3. Nothing \in [count : Nat, fin : BOOLEAN]
        BY DEF Nothing
    <2> QED
        BY <2>1, <2>2, <2>3 DEF Init, Types, Each, EachStream
<1>2. Stages /\ Joins /\ Known /\ Sealed
    BY DEF Init, Stages, Joins, Known, Sealed, Each, EachStream
<1>3. Budget
    BY NativeQuicAssumption DEF Init, Budget, EachStream, Side
<1>4. ASSUME NEW s \in Side, NEW i \in Id
      PROVE  Flow(s, i)
    <2>1. Peer(s) \in Side
        BY PeerSide
    <2>2. /\ written[s][i] = <<>> /\ tx[s][i] = <<>> /\ rx[Peer(s)][i] = <<>> /\ got[Peer(s)][i] = <<>>
          /\ localClosed[s][i] = FALSE /\ Ahead(s, i) = 0 /\ ~Heard(Peer(s), i)
        BY <2>1 DEF Init, Each, EachStream, Ahead, Heard
    <2>3. Chan(s) = <<>>
        BY <2>1 DEF Init, Each, Chan
    <2>4. \A m \in Nat : Brings(<<>>, i, m, m, Ends(<<>>, FALSE))
        BY BringsNothing
    <2>5. Orderly(<<>>, <<>>, 0, joining[s] = "destroyed", FALSE, <<>>, i, <<>>, <<>>, Heard(Peer(s), i))
        <3>1. \A n : Run(<<>>, n)
            BY DEF Run
        <3>2. Len(<<>>) = 0 /\ 0 \in Nat /\ 0 - 0 = 0 /\ 0 + 0 = 0 /\ 0 <= 0 /\ 0 - 0 + 0 = 0
            OBVIOUS
        <3>3. Brings(<<>>, i, Len(<<>>) + Len(<<>>), 0, Ends(<<>>, FALSE))
            BY <2>4, <3>2
        <3> QED
            BY <2>2, <3>1, <3>2, <3>3 DEF Orderly
    <2> QED
        BY <2>2, <2>3, <2>5, Zenon DEF Flow
<1> QED
    BY <1>1, <1>2, <1>3, <1>4 DEF QuicInv, Flows

LEMMA QuicStep ==
    ASSUME QuicInv, [Next]_vars
    PROVE  QuicInv'
BY TypesStep, StagesStep, JoinsStep, KnownStep, SealedStep, BudgetStep, FlowsStep DEF QuicInv

LEMMA QuicInvHolds == Spec => []QuicInv
BY QuicInit, QuicStep, PTL DEF Spec

LEMMA FlowBounds ==
    ASSUME QuicInv, NEW s \in Side, NEW i \in Id
    PROVE  /\ Len(got[Peer(s)][i]) + Len(rx[Peer(s)][i]) <= Len(written[s][i])
           /\ Len(tx[s][i]) <= Len(written[s][i])
<1>1. Types /\ Flow(s, i)
    BY DEF QuicInv, Flows
<1>2. /\ written[s][i] \in Seq(Nat) /\ tx[s][i] \in Seq(Nat) /\ Ahead(s, i) \in Nat
      /\ Chan(s) \in Seq(Frame) /\ rx[Peer(s)][i] \in Seq(Nat) /\ got[Peer(s)][i] \in Seq(Nat)
    BY <1>1, FlowTypes
<1> QED
    BY <1>1, <1>2, OrderlyBounds DEF Flow

\* The variables of the transport (native_quic.cpp) keep their types; a stream holds no more bytes
\* than its two sides wrote, none before it is registered, and sends its end behind the last one.
THEOREM QuicTyped == Spec => []TypeOK
<1>1. ASSUME QuicInv
      PROVE  TypeOK
    <2>1. Types /\ Known /\ Sealed /\ Budget
        BY <1>1 DEF QuicInv
    <2>2. ASSUME NEW s \in Side, NEW i \in Id
          PROVE  Len(rx[s][i]) + Len(tx[s][i]) <= MaxWrite["client"] + MaxWrite["server"]
        <3>1. /\ Peer(s) \in Side /\ Peer(Peer(s)) = s /\ MaxWrite[s] \in Nat /\ MaxWrite[Peer(s)] \in Nat
              /\ MaxWrite["client"] + MaxWrite["server"] = MaxWrite[s] + MaxWrite[Peer(s)]
            BY NativeQuicAssumption DEF Side, Peer
        <3>2. /\ rx[s][i] \in Seq(Nat) /\ tx[s][i] \in Seq(Nat) /\ got[s][i] \in Seq(Nat)
              /\ written[s][i] \in Seq(Nat) /\ written[Peer(s)][i] \in Seq(Nat)
            BY <2>1, <3>1 DEF Types
        <3>3. Len(got[s][i]) + Len(rx[s][i]) <= Len(written[Peer(s)][i])
            BY <1>1, <3>1, FlowBounds
        <3>4. Len(tx[s][i]) <= Len(written[s][i])
            BY <1>1, FlowBounds
        <3>5. Len(written[s][i]) <= MaxWrite[s] /\ Len(written[Peer(s)][i]) <= MaxWrite[Peer(s)]
            BY <2>1, <3>1 DEF Budget
        <3>6. /\ Len(rx[s][i]) \in Nat /\ Len(tx[s][i]) \in Nat /\ Len(got[s][i]) \in Nat
              /\ Len(written[s][i]) \in Nat /\ Len(written[Peer(s)][i]) \in Nat
            <4>1. \A b \in Seq(Nat) : Len(b) \in Nat
                OBVIOUS
            <4> QED
                BY <3>2, <4>1, Zenon
        <3>7. Len(rx[s][i]) + Len(tx[s][i]) <= MaxWrite[s] + MaxWrite[Peer(s)]
            <4> DEFINE r == Len(rx[s][i])
                       t == Len(tx[s][i])
                       g == Len(got[s][i])
                       w == Len(written[s][i])
                       v == Len(written[Peer(s)][i])
                       m == MaxWrite[s]
                       k == MaxWrite[Peer(s)]
            <4>1. /\ r \in Nat /\ t \in Nat /\ g \in Nat /\ w \in Nat /\ v \in Nat /\ m \in Nat /\ k \in Nat
                  /\ g + r <= v /\ v <= k /\ t <= w /\ w <= m
                BY <3>1, <3>3, <3>4, <3>5, <3>6
            <4> HIDE DEF r, t, g, w, v, m, k
            <4>2. r + t <= m + k
                BY <4>1
            <4> QED
                BY <4>2 DEF r, t, m, k
        <3> QED
            BY <3>1, <3>7
    <2>3. \A s \in Side, i \in Id :
              /\ i \notin streams[s] => rx[s][i] = <<>> /\ tx[s][i] = <<>>
              /\ finSent[s][i] => localClosed[s][i] /\ tx[s][i] = <<>>
        BY <2>1 DEF Known, Sealed
    <2>4. \A s \in Side : late[s] \subseteq streams[s]
        BY <2>1 DEF Known
    <2>5. /\ worker \in [Side -> {"turn", "process", "pump", "added", "mark", "gone"}]
          /\ todo \in [Side -> SUBSET Id] /\ streams \in [Side -> SUBSET Id] /\ late \in [Side -> SUBSET Id]
          /\ {conn, iceConnected, established, failed, stopping} \subseteq [Side -> BOOLEAN]
          /\ joining \in [Side -> {"no", "joins", "destroyed"}] /\ opening \in {"no", "checked", "made"}
        BY <2>1 DEF Types
    <2>6. {localClosed, remoteClosed, finSent, ended} \subseteq [Side -> [Id -> BOOLEAN]]
        BY <2>1 DEF Types
    <2> QED
        BY <2>2, <2>3, <2>4, <2>5, <2>6 DEF TypeOK
<1> QED
    BY <1>1, QuicInvHolds, PTL

\* What a step leaves of a Pipe: nothing happened, or a side gave up.
LEMMA PipeStill ==
    ASSUME Types, [Next]_vars, NEW s \in Side, NEW i \in Id,
           written'[s][i] = written[s][i], got'[Peer(s)][i] = got[Peer(s)][i],
           localClosed'[s][i] = localClosed[s][i], ended'[Peer(s)][i] = ended[Peer(s)][i],
           localClosed[Peer(s)][i] => localClosed'[Peer(s)][i]
    PROVE  [Direction(s, i)!Next]_(Direction(s, i)!pipe)
<1> DEFINE broken == GivenUp("client") \/ GivenUp("server") \/ localClosed[Peer(s)][i]
<1>1. broken => broken'
    BY GivenUpStays DEF Side
<1>2. CASE broken'
    <2>1. Direction(s, i)!Break
        BY <1>2 DEF Direction!Break
    <2> QED
        BY <2>1 DEF Direction!Next
<1>3. CASE ~broken'
    <2>1. broken' = broken
        BY <1>1, <1>3
    <2> QED
        BY <2>1 DEF Direction!pipe
<1> QED
    BY <1>2, <1>3

LEMMA PipeWritten ==
    ASSUME QuicInv, NEW u \in Side, NEW j \in Id, Write(u, j), NEW s \in Side, NEW i \in Id
    PROVE  [Direction(s, i)!Next]_(Direction(s, i)!pipe)
<1>1. Types /\ Next /\ Peer(s) \in Side
    BY PeerSide DEF QuicInv, Next, App
<1>2. UNCHANGED <<failed, stopping, localClosed, got, ended>>
    BY DEF Write, connVars
<1>3. /\ ~localClosed[u][j]
      /\ written' = [written EXCEPT ![u][j] = Append(@, Len(written[u][j]) + 1)]
    BY DEF Write
<1>4. CASE ~(s = u /\ i = j)
    <2>1. written'[s][i] = written[s][i]
        BY <1>1, <1>3, <1>4 DEF Types
    <2> QED
        BY <1>1, <1>2, <2>1, PipeStill
<1>5. CASE s = u /\ i = j
    <2> DEFINE w == written[s][i]
               w2 == Append(w, Len(w) + 1)
    <2>1. written'[s][i] = w2 /\ w \in Seq(Nat)
        <3>1. written \in [Side -> [Id -> Seq(Nat)]]
            BY <1>1 DEF Types
        <3> QED
            BY <1>3, <1>5, <3>1
    <2>2. Len(w2) > Len(w) /\ Len(w) \in 0 .. Len(w2) /\ w = SubSeq(w2, 1, Len(w))
        BY <2>1
    <2>3. (GivenUp("client") \/ GivenUp("server") \/ localClosed[Peer(s)][i])'
            = (GivenUp("client") \/ GivenUp("server") \/ localClosed[Peer(s)][i])
        BY <1>2 DEF GivenUp
    <2> HIDE DEF w2
    <2>4. Direction(s, i)!Begins(w, w2)
        BY <2>2 DEF Direction!Begins
    <2>5. Direction(s, i)!Write
        BY <1>2, <1>3, <1>5, <2>1, <2>2, <2>3, <2>4 DEF Direction!Write
    <2> QED
        BY <2>5 DEF Direction!Next
<1> QED
    BY <1>4, <1>5

LEMMA PipeClosed ==
    ASSUME QuicInv, NEW u \in Side, NEW j \in Id, Close(u, j), NEW s \in Side, NEW i \in Id
    PROVE  [Direction(s, i)!Next]_(Direction(s, i)!pipe)
<1>1. Types /\ Next /\ Peer(s) \in Side
    BY PeerSide DEF QuicInv, Next, App
<1>2. UNCHANGED <<written, got, ended>> /\ localClosed' = SetI(localClosed, u, j, TRUE)
    BY DEF Close
<1>3. CASE ~(s = u /\ i = j)
    <2>1. localClosed'[s][i] = localClosed[s][i] /\ (localClosed[Peer(s)][i] => localClosed'[Peer(s)][i])
        BY <1>1, <1>2, <1>3 DEF Types, SetI
    <2> QED
        BY <1>1, <1>2, <2>1, PipeStill
<1>4. CASE s = u /\ i = j
    <2>1. localClosed'[s][i]
        BY <1>1, <1>2, <1>4 DEF Types, SetI
    <2>2. (GivenUp("client") \/ GivenUp("server") \/ localClosed[Peer(s)][i])'
            = (GivenUp("client") \/ GivenUp("server") \/ localClosed[Peer(s)][i])
        <3>1. UNCHANGED <<failed, stopping>>
            BY DEF Close, connVars
        <3>2. localClosed'[Peer(s)][i] = localClosed[Peer(s)][i]
            BY <1>1, <1>2, <1>4, PeerSide DEF Types, SetI
        <3> QED
            BY <3>1, <3>2 DEF GivenUp
    <2>3. Direction(s, i)!Close
        BY <1>2, <2>1, <2>2 DEF Direction!Close
    <2> QED
        BY <2>3 DEF Direction!Next
<1> QED
    BY <1>3, <1>4

\* A read takes what comes next; it fails with nothing missing, or because a side gave up.
LEMMA PipeRead ==
    ASSUME QuicInv, QuicInv', NEW u \in Side, NEW j \in Id, ReadOn(u, j), NEW s \in Side, NEW i \in Id
    PROVE  [Direction(s, i)!Next]_(Direction(s, i)!pipe)
<1> DEFINE n == IF Len(rx[u][j]) < reader[u][j].want THEN Len(rx[u][j]) ELSE reader[u][j].want
<1>1. /\ Types /\ Next /\ Types' /\ Flow(s, i) /\ Flow(s, i)' /\ Peer(s) \in Side
    BY PeerSide DEF QuicInv, Next, App, Flows
<1>2. UNCHANGED <<failed, stopping, localClosed, remoteClosed, written>>
    BY DEF ReadOn, connVars
<1>3. got' = [got EXCEPT ![u][j] = @ \o SubSeq(rx[u][j], 1, n)]
    BY DEF ReadOn
<1>4. \/ ended' = ended
      \/ /\ ended' = SetI(ended, u, j, TRUE)
         /\ n < reader[u][j].want /\ (remoteClosed[u][j] \/ localClosed[u][j])
    BY DEF ReadOn
<1>5. /\ reader[u][j].want \in Nat /\ rx[u][j] \in Seq(Nat) /\ Len(rx[u][j]) \in Nat
      /\ got[u][j] \in Seq(Nat)
    <2>1. /\ reader[u][j] \in [pc : {"idle", "awake", "asleep"}, want : Nat]
          /\ rx[u][j] \in Seq(Nat) /\ got[u][j] \in Seq(Nat)
        BY <1>1 DEF Types
    <2> QED
        BY <2>1
<1>6. n \in 0 .. Len(rx[u][j]) /\ (n < reader[u][j].want => n = Len(rx[u][j]))
    BY <1>5
<1> HIDE DEF n
<1>7. CASE ~(Peer(s) = u /\ i = j)
    <2>1. got'[Peer(s)][i] = got[Peer(s)][i]
        BY <1>1, <1>3, <1>7 DEF Types
    <2>2. ended'[Peer(s)][i] = ended[Peer(s)][i]
        <3>1. CASE ended' = ended
            BY <3>1
        <3>2. CASE ended' = SetI(ended, u, j, TRUE)
            <4>1. ended' = [ended EXCEPT ![u][j] = TRUE] /\ ended \in [Side -> [Id -> BOOLEAN]]
                BY <1>1, <3>2 DEF Types, SetI
            <4>2. CASE Peer(s) # u
                BY <1>1, <4>1, <4>2
            <4>3. CASE Peer(s) = u /\ i # j
                BY <1>1, <4>1, <4>3
            <4> QED
                BY <1>7, <4>2, <4>3
        <3> QED
            BY <1>4, <3>1, <3>2
    <2> QED
        BY <1>1, <1>2, <2>1, <2>2, PipeStill
<1>8. CASE Peer(s) = u /\ i = j
    <2> DEFINE w == written[s][i]
               g == got[u][j]
               g2 == got'[u][j]
               r == rx[u][j]
               broken == GivenUp("client") \/ GivenUp("server") \/ localClosed[u][j]
    <2>1. /\ w \in Seq(Nat) /\ g \in Seq(Nat) /\ r \in Seq(Nat) /\ g2 \in Seq(Nat)
          /\ g2 = g \o SubSeq(r, 1, n)
        <3>1. w \in Seq(Nat) /\ g \in Seq(Nat) /\ r \in Seq(Nat)
            BY <1>1, <1>5 DEF Types
        <3>2. g2 \in Seq(Nat)
            <4>1. got' \in [Side -> [Id -> Seq(Nat)]]
                BY <1>1 DEF Types
            <4> QED
                BY <4>1
        <3>3. g2 = g \o SubSeq(r, 1, n)
            <4>1. got \in [Side -> [Id -> Seq(Nat)]]
                BY <1>1 DEF Types
            <4> QED
                BY <1>3, <4>1
        <3> QED
            BY <3>1, <3>2, <3>3
    <2>2. Run(w, 0) /\ Run(g, 0) /\ Run(g2, 0)
        BY <1>1, <1>2, <1>8 DEF Flow, Orderly
    <2>3. /\ Len(w) \in Nat /\ Len(g) \in Nat /\ Len(r) \in Nat /\ Len(g2) \in Nat
          /\ n \in Nat /\ n <= Len(r) /\ n \in 0 .. Len(r)
        <3>1. n \in 0 .. Len(r)
            BY <1>6
        <3> HIDE DEF w, g, g2, r
        <3>2. Len(w) \in Nat /\ Len(g) \in Nat /\ Len(r) \in Nat /\ Len(g2) \in Nat
            BY <2>1
        <3> QED
            BY <3>1, <3>2
    <2>4. Len(g) + Len(r) <= Len(w)
        BY <1>8, FlowBounds
    <2> HIDE DEF w, g, g2, r
    <2>5. Len(g2) = Len(g) + n
        BY <2>1, <2>3
    <2>6. Len(g2) <= Len(w)
        BY <2>3, <2>5, <2>4
    <2>7. Direction(s, i)!Begins(g, g2) /\ Direction(s, i)!Begins(g2, w)
        <3>1. /\ Len(g) \in 0 .. Len(g2) /\ Len(g2) \in 0 .. Len(w)
              /\ Len(g) <= Len(g2)
            BY <2>3, <2>5, <2>6
        <3>2. g \in Seq(Nat) /\ g2 \in Seq(Nat) /\ w \in Seq(Nat)
            BY <2>1
        <3>3. g = SubSeq(g2, 1, Len(g))
            BY <2>2, <3>1, <3>2, RunBegins
        <3>4. g2 = SubSeq(w, 1, Len(g2))
            BY <2>2, <2>6, <3>2, RunBegins
        <3> QED
            BY <3>1, <3>3, <3>4 DEF Direction!Begins
    <2>8. ended[u][j] \/ broken \/ (localClosed[s][i] /\ g2 = w) \/ ~ended'[u][j]
        <3>1. CASE ended' = ended
            BY <3>1
        <3>2. CASE ended' # ended /\ ~broken
            <4>1. n < reader[u][j].want /\ remoteClosed[u][j]
                BY <1>4, <3>2
            <4>2. ~GivenUp(u)
                BY <3>2 DEF Side
            <4>3. Heard(Peer(s), i)
                BY <1>8, <4>1, <4>2 DEF Heard
            <4>4. localClosed[s][i] /\ Len(g) + Len(r) = Len(w)
                BY <1>1, <1>8, <4>3 DEF Flow, Orderly, w, g, r
            <4>5. Len(g2) = Len(w)
                BY <1>6, <2>5, <4>1, <4>4 DEF r
            <4>6. g2 = w
                BY <2>1, <2>2, <4>5, RunEqual
            <4> QED
                BY <4>4, <4>6
        <3> QED
            BY <3>1, <3>2
    <2>9. broken' = broken /\ localClosed'[s][i] = localClosed[s][i] /\ written'[s][i] = written[s][i]
        BY <1>2 DEF GivenUp
    <2>10. Direction(s, i)!Read
        BY <1>8, <2>7, <2>8, <2>9 DEF Direction!Read, w, g, g2
    <2> QED
        BY <2>10 DEF Direction!Next
<1> QED
    BY <1>7, <1>8

LEMMA PipeStep ==
    ASSUME QuicInv, QuicInv', [Next]_vars, NEW s \in Side, NEW i \in Id
    PROVE  [Direction(s, i)!Next]_(Direction(s, i)!pipe)
<1>1. Types
    BY DEF QuicInv
<1>2. ASSUME UNCHANGED <<written, got, localClosed, ended>>
      PROVE  [Direction(s, i)!Next]_(Direction(s, i)!pipe)
    BY <1>1, <1>2, PipeStill
<1>3. CASE UNCHANGED vars
    BY <1>2, <1>3 DEF vars, streamVars, appVars
<1>4. CASE Ice
    BY <1>2, <1>4 DEF Ice, IceFails, IceState, streamVars, appVars
<1>5. ASSUME NEW u \in Side, Worker(u)
      PROVE  [Direction(s, i)!Next]_(Direction(s, i)!pipe)
    <2>1. CASE Turn(u)
        BY <1>2, <2>1 DEF Turn, streamVars, appVars
    <2>2. CASE Handshake(u)
        BY <1>2, <2>2 DEF Handshake, streamVars, appVars
    <2>3. CASE StreamData(u)
        BY <1>2, <2>3 DEF StreamData
    <2>4. CASE Processed(u)
        BY <1>2, <2>4 DEF Processed, streamVars, appVars
    <2>5. CASE PumpAdd(u)
        BY <1>2, <2>5 DEF PumpAdd, streamVars, appVars
    <2>6. CASE PumpPop(u)
        BY <1>2, <2>6 DEF PumpPop, appVars
    <2>7. CASE Mark(u)
        BY <1>2, <2>7 DEF Mark
    <2> QED
        BY <1>5, <2>1, <2>2, <2>3, <2>4, <2>5, <2>6, <2>7 DEF Worker
<1>6. CASE OpenCheck
    BY <1>2, <1>6 DEF OpenCheck, streamVars, appVars
<1>7. ASSUME NEW j \in Id, MakeStream(j)
      PROVE  [Direction(s, i)!Next]_(Direction(s, i)!pipe)
    BY <1>2, <1>7 DEF MakeStream, appVars
<1>8. ASSUME NEW u \in Side, Shutdown(u) \/ Destroy(u)
      PROVE  [Direction(s, i)!Next]_(Direction(s, i)!pipe)
    BY <1>2, <1>8 DEF Shutdown, Destroy, streamVars, appVars
<1>9. ASSUME NEW u \in Side, NEW j \in Id, Read(u, j)
      PROVE  [Direction(s, i)!Next]_(Direction(s, i)!pipe)
    BY <1>2, <1>9 DEF Read, streamVars
<1> QED
    BY <1>3, <1>4, <1>5, <1>6, <1>7, <1>8, <1>9, PipeWritten, PipeClosed, PipeRead DEF Next, App

\* In each direction every stream of the transport (native_quic.cpp) is the Pipe that bytestream.h
\* promises: whatever the workers, the two peers and the paths between them do, its bytes come out in
\* order, none is lost or doubled, and a read fails with nothing missing unless somebody gave up.
THEOREM QuicImplementsPipes == Spec => Pipes
<1>1. Init => \A s \in Side, i \in Id : Direction(s, i)!Init
    <2> SUFFICES ASSUME Init, NEW s \in Side, NEW i \in Id
                 PROVE  Direction(s, i)!Init
        OBVIOUS
    <2>1. Peer(s) \in Side /\ "client" \in Side /\ "server" \in Side
        BY PeerSide DEF Side
    <2> QED
        BY <2>1 DEF Init, Direction!Init, GivenUp, Each, EachStream
<1>2. QuicInv /\ QuicInv' /\ [Next]_vars
        => \A s \in Side, i \in Id : [Direction(s, i)!Next]_(Direction(s, i)!pipe)
    BY PipeStep
<1>3. QuicInv /\ QuicInv' /\ [Next]_vars
        => [\A s \in Side, i \in Id : [Direction(s, i)!Next]_(Direction(s, i)!pipe)]_vars
    BY <1>2
<1> QED
    BY <1>1, <1>3, QuicInvHolds, PTL DEF Spec, Pipes
=============================================================================
