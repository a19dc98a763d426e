------------------------- MODULE FileTransferProofs -------------------------
(***************************************************************************)
(* Proofs about FileTransfer, for any number of transfers, streams, chunks *)
(* and connections of the daemon: type correctness, that no chunk is ever  *)
(* written into another file or at another place (ChunksBelong), that no   *)
(* stream loses the write queue through its own result                     *)
(* (WriterOutlivesStream), and that a copy reported to have succeeded is   *)
(* the source unless one of the Causes applied to it (OkMeansSource).      *)
(***************************************************************************)
EXTENDS FileTransfer, SequenceTheorems, TLAPS

ClientType == [st : {"idle", "sending", "waiting", "ok", "err", "dead"},
               next : Nat \ {0}, reply : {"none", "ok", "err"}]
LoopType == [route : 0 .. MaxLink, took : {"no", "queue", "sync"}, pend : BOOLEAN]
LinkType == [link : {"new", "up", "down"}, gone : BOOLEAN, q : Seq(Queued),
             qs : {"none", "open", "closed"}, werr : BOOLEAN]
Results == [c : Conns, ok : BOOLEAN, l : Links]

(***************************************************************************)
(* The daemon has one connection at a time, what is on the wire is on that *)
(* one, and nobody refers to one that has not been made yet.               *)
(***************************************************************************)
LinkInv ==
  /\ \A l, m \in Links : Up(l) /\ Up(m) => l = m
  /\ wire # <<>> => \E l \in Links : Up(l)
  /\ \A l \in Links : tgt[l].link = "new" =>
       tgt[l].q = <<>> /\ reg # l /\ \A c \in Conns : rel[c].route # l

(***************************************************************************)
(* The wire: every header is followed by its payload, every payload comes  *)
(* after its header or is the next frame.  In that case the daemon has     *)
(* read the header, which selected the transfer, if it knows it.           *)
(***************************************************************************)
Matches(f, g) == f.k = "bin" /\ f.c = g.c /\ f.seq = g.seq /\ f.fin = g.fin
Announced(w) == \A i \in DOMAIN w : w[i].k = "hdr" => i + 1 \in DOMAIN w /\ Matches(w[i + 1], w[i])
Preceded(w) == \A i \in DOMAIN w : w[i].k = "bin" /\ i # 1 => w[i - 1].k = "hdr"
Numbered(w) == \A i \in DOMAIN w : w[i].k # "init" => w[i].seq # 0
Paired(w) == Announced(w) /\ Preceded(w) /\ Numbered(w)

Selected ==
  dmn.pend # NoConn =>
    /\ dmn.pend \in Entries
    /\ IF wire = <<>> THEN \A l \in Links : ~Up(l)
       ELSE wire[1].k = "bin" /\ wire[1].c = dmn.pend /\ wire[1].seq = dmn.reas[dmn.pend].seq
PairInv == Paired(wire) /\ Selected

(***************************************************************************)
(* A stream is announced at most once: nothing of it exists before, and    *)
(* not again once the daemon knows it.                                     *)
(***************************************************************************)
OnWire(c) == \E i \in DOMAIN wire : wire[i].c = c
InitOnWire(c) == \E i \in DOMAIN wire : wire[i].c = c /\ wire[i].k = "init"
OnceOnly(w) == \A i, j \in DOMAIN w : w[i].k = "init" /\ w[j].k = "init" /\ w[i].c = w[j].c => i = j
InQueue(c, l) == \E i \in DOMAIN tgt[l].q : tgt[l].q[i].c = c
HasResult(c) == \E i \in DOMAIN back : back[i].c = c
Untouched(c) ==
  /\ cli[c].next = 1 /\ rel[c].route = 0 /\ ~rel[c].pend /\ c \notin Entries /\ ~OnWire(c)
  /\ \A l \in Links : ~InQueue(c, l)
  /\ ~HasResult(c)
IdleFresh == \A c \in Conns : cli[c].st = "idle" => Untouched(c)
RestIdle == \A c \in Conns : c \notin Active => cli[c].st = "idle"
NoSecond == \A c \in Entries : ~InitOnWire(c)
OnceInv == IdleFresh /\ RestIdle /\ OnceOnly(wire) /\ NoSecond

(***************************************************************************)
(* A stream has handed its last chunk to the relay before any final chunk  *)
(* of it, or any result for it, exists.  Until then the daemon knows it,   *)
(* or its announcement is on the way, if its frames still arrive.          *)
(***************************************************************************)
AllSent(c) == cli[c].next > Len(ChunkSeqs(c))
Known(c) == c \in Entries \/ InitOnWire(c) \/ AllSent(c)
KnownAt(c, i) == c \in Entries \/ AllSent(c) \/ \E j \in DOMAIN wire : j < i /\ wire[j].c = c /\ wire[j].k = "init"
Answered(c) == c \in Active /\ cli[c].reply # "none" /\ AllSent(c)
HasFinal(w, c) == \E i \in DOMAIN w : w[i].c = c /\ w[i].fin

Handing == \A c \in Conns : cli[c].st = "sending" \/ rel[c].took # "no" => ~AllSent(c)
FinalOnWire == \A c \in Conns : HasFinal(wire, c) => AllSent(c)
HeadersKnown == \A c \in Conns : \A i \in DOMAIN wire : wire[i].c = c /\ wire[i].k = "hdr" => KnownAt(c, i)
FinalQueued == \A c \in Conns, l \in Links : HasFinal(tgt[l].q, c) => AllSent(c)
QueuesKnown == \A c \in Conns, l \in Links : InQueue(c, l) /\ Up(l) => Known(c)
RoutesKnown == \A c \in Conns, l \in Links : rel[c].route = l /\ Up(l) => Known(c)
FinalEntered == \A c \in Entries : dmn.reas[c].fin => AllSent(c)
ResultsLast == \A c \in Conns : HasResult(c) => AllSent(c)
ClosedFor == \A l \in Links : tgt[l].qs = "closed" => tgt[l].gone \/ \E c \in Conns : Answered(c)
SentInv == /\ Handing /\ FinalOnWire /\ HeadersKnown /\ FinalQueued /\ QueuesKnown
           /\ RoutesKnown /\ FinalEntered /\ ResultsLast /\ ClosedFor

(***************************************************************************)
(* What the daemon holds back for a stream are chunks of its transfer.     *)
(***************************************************************************)
OwnChunks(c, s) == \A i \in DOMAIN s : s[i][1] = c[1]
CellInv == ChunksBelong /\ \A c \in Entries : OwnChunks(c, dmn.reas[c].buf)

IInv == TypeOK /\ LinkInv /\ PairInv /\ OnceInv /\ SentInv /\ CellInv

---------------------------------------------------------------------------
(***************************************************************************)
(* Operators                                                               *)
(***************************************************************************)

\* What the type invariant says, with the sets named.
LEMMA TypeFacts ==
  ASSUME TypeOK
  PROVE  /\ scn \in ScenarioType
         /\ cli \in [Conns -> ClientType]
         /\ rel \in [Conns -> LoopType]
         /\ tgt \in [Links -> LinkType]
         /\ wire \in Seq(Frames) /\ back \in Seq(Results)
  BY TransferAssumption DEF TypeOK, ClientType, LoopType, LinkType, Results

\* A stream belongs to a transfer.
LEMMA ConnFacts ==
  ASSUME NEW c \in Conns, TypeOK
  PROVE  /\ c[1] \in Transfers /\ c[2] \in 1 .. Streams
         /\ Mode(c) \in {"none", "scp", "par", "rsync"}
         /\ Size(c) \in Nat /\ Dst(c) \in Dsts
  BY TypeFacts DEF Conns, Mode, Size, Dst, ScenarioType

\* Whatever names a stream names one.
LEMMA StreamsNamed ==
  ASSUME TypeOK
  PROVE  /\ \A c \in Entries : c \in Conns
         /\ \A i \in DOMAIN wire : wire[i].c \in Conns
         /\ \A i \in DOMAIN back : back[i].c \in Conns
         /\ \A l \in Links : \A i \in DOMAIN tgt[l].q : tgt[l].q[i].c \in Conns
<1>1. \A c \in Entries : c \in Conns
  BY DEF TypeOK
<1>2. \A i \in DOMAIN wire : wire[i].c \in Conns
  <2>1. \A i \in DOMAIN wire : wire[i] \in Frames
    BY TypeFacts
  <2> QED
    BY <2>1 DEF Frames
<1>3. \A i \in DOMAIN back : back[i].c \in Conns
  <2>1. \A i \in DOMAIN back : back[i] \in Results
    BY TypeFacts
  <2> QED
    BY <2>1 DEF Results
<1>4. ASSUME NEW l \in Links, NEW i \in DOMAIN tgt[l].q
      PROVE  tgt[l].q[i].c \in Conns
  <2>1. tgt[l].q \in Seq(Queued)
    BY TypeFacts DEF LinkType
  <2>2. tgt[l].q[i] \in Queued
    BY <2>1
  <2> QED
    BY <2>2 DEF Queued
<1> QED
  BY <1>1, <1>2, <1>3, <1>4

LEMMA StreamsAreConns ==
  /\ \A t \in Transfers : StreamsOf(t) \subseteq Conns
  /\ Active \subseteq Conns
<1>1. 1 \in 1 .. Streams
  BY TransferAssumption
<1> QED
  BY <1>1 DEF StreamsOf, Active, Conns

\* The chunks of a stream are a sequence of chunk numbers.
LEMMA ChunkSeqsType ==
  ASSUME NEW c \in Conns, TypeOK
  PROVE  ChunkSeqs(c) \in Seq(Nat \ {0})
<1>1. CASE Mode(c) = "par"
  <2> DEFINE n == (Size(c) + Streams - c[2]) \div Streams
  <2>1. n \in Nat
    BY ConnFacts, TransferAssumption
  <2>2. ASSUME NEW j \in 1 .. n
        PROVE  c[2] + (j - 1) * Streams \in Nat \ {0}
    <3>1. (j - 1) \in Nat /\ Streams \in Nat /\ c[2] \in Nat /\ c[2] > 0
      BY <2>1, ConnFacts, TransferAssumption
    <3>2. \A x, y \in Nat : x * y \in Nat
      OBVIOUS
    <3>3. (j - 1) * Streams \in Nat
      BY <3>1, <3>2
    <3> QED
      BY <3>1, <3>3
  <2> HIDE DEF n
  <2>3. [j \in 1 .. n |-> c[2] + (j - 1) * Streams] \in Seq(Nat \ {0})
    BY <2>1, <2>2
  <2> QED
    BY <1>1, <2>3 DEF ChunkSeqs, n
<1>2. CASE Mode(c) # "par"
  BY <1>2, ConnFacts DEF ChunkSeqs
<1> QED
  BY <1>1, <1>2

LEMMA ChunkSeqsSame ==
  ASSUME scn' = scn
  PROVE  /\ \A c : ChunkSeqs(c)' = ChunkSeqs(c) /\ Mode(c)' = Mode(c) /\ Dst(c)' = Dst(c)
         /\ Active' = Active
  BY DEF ChunkSeqs, Mode, Size, Dst, Active, StreamsOf

\* The next chunk of a stream that has one.
LEMMA ChunkFacts ==
  ASSUME NEW c \in Conns, TypeOK, ~AllSent(c)
  PROVE  /\ Chunk(c) \in Queued /\ Chunk(c).c = c
         /\ Chunk(c).fin <=> cli[c].next = Len(ChunkSeqs(c))
         /\ cli[c].next \in Nat \ {0} /\ Len(ChunkSeqs(c)) \in Nat
<1>1. cli[c].next \in Nat \ {0} /\ ChunkSeqs(c) \in Seq(Nat \ {0})
  BY TypeFacts, ChunkSeqsType DEF ClientType
<1>2. cli[c].next \in 1 .. Len(ChunkSeqs(c))
  BY <1>1 DEF AllSent
<1>3. ChunkSeqs(c)[cli[c].next] \in Nat \ {0}
  BY <1>1, <1>2
<1>4. Chunk(c) = [c |-> c, seq |-> ChunkSeqs(c)[cli[c].next], fin |-> cli[c].next = Len(ChunkSeqs(c))]
  BY DEF Chunk
<1>5. PICK b \in BOOLEAN : b = (cli[c].next = Len(ChunkSeqs(c)))
  OBVIOUS
<1>6. [c |-> c, seq |-> ChunkSeqs(c)[cli[c].next], fin |-> b] \in Queued
  BY <1>3 DEF Queued
<1>7. Chunk(c) = [c |-> c, seq |-> ChunkSeqs(c)[cli[c].next], fin |-> b]
  BY <1>4, <1>5
<1>8. Chunk(c) \in Queued /\ Chunk(c).c = c /\ Chunk(c).fin = b
  BY <1>6, <1>7
<1>9. Chunk(c).fin <=> cli[c].next = Len(ChunkSeqs(c))
  BY <1>5, <1>8, Zenon
<1> QED
  BY <1>1, <1>8, <1>9

\* The stream goes on to its next chunk.
LEMMA ForwardedFacts ==
  ASSUME NEW c \in Conns, TypeOK, ~AllSent(c)
  PROVE  /\ Forwarded(c) \in [Conns -> ClientType]
         /\ \A d \in Conns : d # c => Forwarded(c)[d] = cli[d]
         /\ Forwarded(c)[c].next = cli[c].next + 1 /\ Forwarded(c)[c].reply = cli[c].reply
         /\ Forwarded(c)[c].st = IF Chunk(c).fin /\ cli[c].st = "sending" THEN "waiting" ELSE cli[c].st
         /\ Forwarded(c)[c].next > Len(ChunkSeqs(c)) <=> Chunk(c).fin
<1>1. cli \in [Conns -> ClientType]
  BY TypeFacts
<1>2. PICK b \in BOOLEAN : b = Chunk(c).fin
  BY ChunkFacts DEF Queued
<1>3. /\ Forwarded(c) \in [Conns -> ClientType]
      /\ \A d \in Conns : d # c => Forwarded(c)[d] = cli[d]
      /\ Forwarded(c)[c].next = cli[c].next + 1 /\ Forwarded(c)[c].reply = cli[c].reply
      /\ Forwarded(c)[c].st = IF b /\ cli[c].st = "sending" THEN "waiting" ELSE cli[c].st
  <2> DEFINE n == [cli EXCEPT ![c].next = @ + 1]
             v == IF b /\ cli[c].st = "sending" THEN "waiting" ELSE cli[c].st
  <2>1. /\ n \in [Conns -> ClientType] /\ \A d \in Conns : d # c => n[d] = cli[d]
        /\ n[c].next = cli[c].next + 1 /\ n[c].reply = cli[c].reply /\ n[c].st = cli[c].st
    BY <1>1 DEF ClientType
  <2>2. v \in {"idle", "sending", "waiting", "ok", "err", "dead"}
    BY <1>1 DEF ClientType
  <2>3. Forwarded(c) = [n EXCEPT ![c].st = v]
    BY <1>1, <1>2, <2>1 DEF Forwarded
  <2> HIDE DEF n, v
  <2>4. /\ [n EXCEPT ![c].st = v] \in [Conns -> ClientType]
        /\ \A d \in Conns : d # c => [n EXCEPT ![c].st = v][d] = n[d]
        /\ [n EXCEPT ![c].st = v][c].st = v
        /\ [n EXCEPT ![c].st = v][c].next = n[c].next /\ [n EXCEPT ![c].st = v][c].reply = n[c].reply
    BY <2>1, <2>2 DEF ClientType
  <2> QED
    BY <2>1, <2>3, <2>4 DEF v
<1>4. cli[c].next \in Nat /\ Len(ChunkSeqs(c)) \in Nat /\ cli[c].next <= Len(ChunkSeqs(c))
  BY ChunkFacts DEF AllSent
<1> QED
  BY <1>2, <1>3, <1>4, ChunkFacts

\* A file is a sequence of cells.
LEMMA PutCellFacts ==
  ASSUME NEW f \in Seq(Cells), NEW n \in Nat \ {0}, NEW v \in Cells
  PROVE  /\ PutCell(f, n, v) \in Seq(Cells)
         /\ \A i \in DOMAIN PutCell(f, n, v) :
              \/ PutCell(f, n, v)[i] = Zero
              \/ i = n /\ PutCell(f, n, v)[i] = v
              \/ i \in DOMAIN f /\ PutCell(f, n, v)[i] = f[i]
<1>1. CASE n <= Len(f)
  BY <1>1 DEF PutCell
<1>2. CASE n > Len(f)
  <2>1. n - 1 - Len(f) \in Nat /\ Zero \in Cells
    BY <1>2 DEF Cells
  <2> DEFINE b == Blank(n - 1 - Len(f), Zero)
             g == f \o b
  <2>2. b \in Seq(Cells) /\ Len(b) = n - 1 - Len(f) /\ \A i \in DOMAIN b : b[i] = Zero
    BY <2>1 DEF Blank
  <2> HIDE DEF b
  <2>3. /\ g \in Seq(Cells) /\ Len(g) = n - 1
        /\ \A i \in DOMAIN g : g[i] = Zero \/ (i \in DOMAIN f /\ g[i] = f[i])
    BY <2>1, <2>2
  <2> HIDE DEF g
  <2>4. Append(g, v) \in Seq(Cells) /\ \A i \in DOMAIN Append(g, v) : (i = n /\ Append(g, v)[i] = v) \/ (i \in DOMAIN g /\ Append(g, v)[i] = g[i])
    BY <2>3
  <2>5. Len(f) \in Nat
    OBVIOUS
  <2>6. PutCell(f, n, v) = Append(g, v)
    BY <1>2, <2>5 DEF PutCell, g, b
  <2>7. \A i \in DOMAIN g : g[i] = Zero \/ (i \in DOMAIN f /\ g[i] = f[i])
    BY <2>3
  <2> QED
    BY <2>4, <2>6, <2>7
<1> QED
  BY <1>1, <1>2

LEMMA PutCellsFacts ==
  ASSUME NEW f \in Seq(Cells), NEW s \in Seq(Cells)
  PROVE  /\ PutCells(f, s) \in Seq(Cells)
         /\ \A i \in DOMAIN PutCells(f, s) :
              \/ i \in DOMAIN s /\ PutCells(f, s)[i] = s[i]
              \/ i \in DOMAIN f /\ PutCells(f, s)[i] = f[i]
<1> DEFINE g == SubSeq(f, Len(s) + 1, Len(f))
<1>1. /\ g \in Seq(Cells)
      /\ Len(g) = IF Len(s) + 1 <= Len(f) THEN Len(f) - Len(s) ELSE 0
      /\ \A i \in 1 .. Len(g) : g[i] = f[Len(s) + i]
  BY SubSeqProperties
<1> HIDE DEF g
<1>2. /\ s \o g \in Seq(Cells)
      /\ \A i \in DOMAIN (s \o g) : (i \in DOMAIN s /\ (s \o g)[i] = s[i]) \/ (i \in DOMAIN f /\ (s \o g)[i] = f[i])
  BY <1>1
<1> QED
  BY <1>2 DEF PutCells, g

(***************************************************************************)
(* The wire                                                                *)
(***************************************************************************)

\* An announcement put on the wire.
LEMMA WireInit ==
  ASSUME NEW w \in Seq(Frames), NEW c \in Conns, Paired(w)
  PROVE  LET v == w \o <<[k |-> "init", c |-> c, seq |-> 0, fin |-> FALSE]>>
         IN  /\ v \in Seq(Frames) /\ Len(v) = Len(w) + 1 /\ Paired(v)
             /\ \A i \in DOMAIN w : i \in DOMAIN v /\ v[i] = w[i]
             /\ \A i \in DOMAIN v : i \in DOMAIN w \/ i = Len(w) + 1
             /\ v[Len(w) + 1] = [k |-> "init", c |-> c, seq |-> 0, fin |-> FALSE]
<1> DEFINE f == [k |-> "init", c |-> c, seq |-> 0, fin |-> FALSE]
           v == w \o <<f>>
<1>1. f \in Frames /\ f.k = "init"
  BY DEF Frames
<1> HIDE DEF f
<1>2. /\ v \in Seq(Frames) /\ Len(v) = Len(w) + 1
      /\ \A i \in DOMAIN w : i \in DOMAIN v /\ v[i] = w[i]
      /\ \A i \in DOMAIN v : i \in DOMAIN w \/ i = Len(w) + 1
      /\ v[Len(w) + 1] = f
  BY <1>1
<1>3. Len(w) \in Nat /\ DOMAIN w = 1 .. Len(w) /\ DOMAIN v = 1 .. Len(v)
  BY <1>2
<1> HIDE DEF v
<1>4. Announced(v)
  BY <1>1, <1>2, <1>3 DEF Paired, Announced, Matches
<1>5. Preceded(v)
  BY <1>1, <1>2, <1>3 DEF Paired, Preceded
<1>6. Numbered(v)
  BY <1>1, <1>2, <1>3 DEF Paired, Numbered
<1> QED
  BY <1>2, <1>4, <1>5, <1>6 DEF Paired, v, f

\* A header and its payload put on the wire.
LEMMA WirePair ==
  ASSUME NEW w \in Seq(Frames), NEW f \in Queued, Paired(w)
  PROVE  LET v == w \o Pair(f)
         IN  /\ v \in Seq(Frames) /\ Len(v) = Len(w) + 2 /\ Paired(v)
             /\ \A i \in DOMAIN w : i \in DOMAIN v /\ v[i] = w[i]
             /\ \A i \in DOMAIN v : i \in DOMAIN w \/ i = Len(w) + 1 \/ i = Len(w) + 2
             /\ v[Len(w) + 1] = Frame("hdr", f) /\ v[Len(w) + 2] = Frame("bin", f)
<1> DEFINE v == w \o Pair(f)
<1>1. /\ Frame("hdr", f) \in Frames /\ Frame("bin", f) \in Frames
      /\ Frame("hdr", f).k = "hdr" /\ Frame("hdr", f).seq # 0
      /\ Frame("bin", f).seq # 0 /\ Matches(Frame("bin", f), Frame("hdr", f))
  BY DEF Frames, Frame, Queued, Matches
<1>2. /\ v \in Seq(Frames) /\ Len(v) = Len(w) + 2
      /\ \A i \in DOMAIN w : i \in DOMAIN v /\ v[i] = w[i]
      /\ \A i \in DOMAIN v : i \in DOMAIN w \/ i = Len(w) + 1 \/ i = Len(w) + 2
      /\ v[Len(w) + 1] = Frame("hdr", f) /\ v[Len(w) + 2] = Frame("bin", f)
  BY <1>1 DEF Pair
<1>3. Len(w) \in Nat /\ DOMAIN w = 1 .. Len(w) /\ DOMAIN v = 1 .. Len(v)
  BY <1>2
<1> HIDE DEF v
<1>4. Announced(v)
  <2>1. ASSUME NEW i \in DOMAIN v, v[i].k = "hdr"
        PROVE  i + 1 \in DOMAIN v /\ Matches(v[i + 1], v[i])
    <3>1. CASE i \in DOMAIN w
      <4>1. i + 1 \in DOMAIN w /\ Matches(w[i + 1], w[i])
        BY <1>2, <2>1, <3>1 DEF Paired, Announced
      <4> QED
        BY <1>2, <3>1, <4>1
    <3>2. CASE i = Len(w) + 1
      BY <1>1, <1>2, <1>3, <3>2
    <3>3. CASE i = Len(w) + 2
      BY <1>1, <1>2, <2>1, <3>3 DEF Matches
    <3> QED
      BY <1>2, <3>1, <3>2, <3>3
  <2> QED
    BY <2>1 DEF Announced
<1>5. Preceded(v)
  <2>1. ASSUME NEW i \in DOMAIN v, v[i].k = "bin", i # 1
        PROVE  v[i - 1].k = "hdr"
    <3>1. CASE i \in DOMAIN w
      <4>1. w[i - 1].k = "hdr" /\ i - 1 \in DOMAIN w
        BY <1>2, <1>3, <2>1, <3>1 DEF Paired, Preceded
      <4> QED
        BY <1>2, <4>1
    <3>2. CASE i = Len(w) + 1
      BY <1>1, <1>2, <2>1, <3>2
    <3>3. CASE i = Len(w) + 2
      <4>1. i - 1 = Len(w) + 1
        BY <1>3, <3>3
      <4> QED
        BY <1>1, <1>2, <4>1
    <3> QED
      BY <1>2, <3>1, <3>2, <3>3
  <2> QED
    BY <2>1 DEF Preceded
<1>6. Numbered(v)
  BY <1>1, <1>2, <1>3 DEF Paired, Numbered
<1> QED
  BY <1>2, <1>4, <1>5, <1>6 DEF Paired, v

\* A frame read from the wire.
LEMMA WireTail ==
  ASSUME NEW w \in Seq(Frames), w # <<>>, Paired(w)
  PROVE  LET v == Tail(w)
         IN  /\ v \in Seq(Frames) /\ Head(w) \in Frames /\ Head(w) = w[1]
             /\ 1 \in DOMAIN w
             /\ \A i \in DOMAIN v : i \in Nat \ {0} /\ i + 1 \in DOMAIN w /\ v[i] = w[i + 1]
             /\ \A i \in DOMAIN w : i # 1 => i - 1 \in DOMAIN v /\ v[i - 1] = w[i]
             /\ Paired(v)
             /\ w[1].k = "hdr" => v # <<>> /\ Matches(v[1], w[1])
             /\ w[1].k # "hdr" /\ v # <<>> => v[1].k # "bin"
             /\ OnceOnly(w) => OnceOnly(v)
<1> DEFINE v == Tail(w)
<1>1. /\ v \in Seq(Frames) /\ Head(w) \in Frames /\ Head(w) = w[1]
      /\ 1 \in DOMAIN w /\ DOMAIN w = 1 .. Len(w) /\ DOMAIN v = 1 .. Len(v) /\ Len(v) = Len(w) - 1
      /\ Len(w) \in Nat /\ Len(v) \in Nat
      /\ \A i \in DOMAIN v : i \in Nat \ {0} /\ i + 1 \in DOMAIN w /\ v[i] = w[i + 1]
  OBVIOUS
<1>2. v # <<>> => 1 \in DOMAIN v
  OBVIOUS
<1>3. \A u : u = <<>> => Len(u) = 0
  OBVIOUS
<1> HIDE DEF v
<1>4. \A i \in DOMAIN w : i # 1 => i - 1 \in DOMAIN v /\ v[i - 1] = w[i]
  BY <1>1
<1>5. Announced(v)
  <2>1. ASSUME NEW i \in DOMAIN v, v[i].k = "hdr"
        PROVE  i + 1 \in DOMAIN v /\ Matches(v[i + 1], v[i])
    <3>1. i + 2 \in DOMAIN w /\ Matches(w[i + 2], w[i + 1])
      BY <1>1, <2>1 DEF Paired, Announced
    <3> QED
      BY <1>1, <3>1
  <2> QED
    BY <2>1 DEF Announced
<1>6. Preceded(v)
  <2>1. ASSUME NEW i \in DOMAIN v, v[i].k = "bin", i # 1
        PROVE  v[i - 1].k = "hdr"
    <3>1. w[i + 1].k = "bin" /\ i + 1 \in DOMAIN w /\ i + 1 # 1 /\ i \in DOMAIN w
      BY <1>1, <2>1
    <3>2. PICK j : j = i + 1
      OBVIOUS
    <3>3. w[j - 1].k = "hdr"
      BY <3>1, <3>2 DEF Paired, Preceded
    <3>4. j - 1 = i
      BY <1>1, <3>2
    <3> QED
      BY <1>4, <2>1, <3>1, <3>3, <3>4
  <2> QED
    BY <2>1 DEF Preceded
<1>7. Numbered(v)
  BY <1>1 DEF Paired, Numbered
<1>8. w[1].k = "hdr" => v # <<>> /\ Matches(v[1], w[1])
  BY <1>1, <1>3 DEF Paired, Announced
<1>9. w[1].k # "hdr" /\ v # <<>> => v[1].k # "bin"
  <2>1. SUFFICES ASSUME v # <<>>, v[1].k = "bin"
                 PROVE  w[1].k = "hdr"
    OBVIOUS
  <2>2. 2 \in DOMAIN w /\ w[2].k = "bin" /\ 2 - 1 = 1
    BY <1>1, <1>2, <2>1
  <2>3. w[2 - 1].k = "hdr"
    BY <2>2 DEF Paired, Preceded
  <2> QED
    BY <2>2, <2>3
<1>10. OnceOnly(w) => OnceOnly(v)
  BY <1>1 DEF OnceOnly
<1> QED
  BY <1>1, <1>4, <1>5, <1>6, <1>7, <1>8, <1>9, <1>10 DEF Paired, v

---------------------------------------------------------------------------
(***************************************************************************)
(* The client's own steps: sending goes on, nothing is unsent.             *)
(***************************************************************************)

LEMMA SentGrows ==
  ASSUME TypeOK, scn' = scn, cli' \in [Conns -> ClientType],
         \A c \in Conns : cli'[c].next >= cli[c].next
  PROVE  \A c \in Conns : AllSent(c) => AllSent(c)'
<1>1. ASSUME NEW c \in Conns, AllSent(c) PROVE cli'[c].next > Len(ChunkSeqs(c)')
  <2>1. ChunkSeqs(c)' = ChunkSeqs(c) /\ Len(ChunkSeqs(c)) \in Nat
    BY ChunkSeqsSame, ChunkSeqsType
  <2>2. cli[c].next \in Nat /\ cli'[c].next \in Nat
    BY TypeFacts DEF ClientType
  <2> QED
    BY <1>1, <2>1, <2>2 DEF AllSent
<1> QED
  BY <1>1 DEF AllSent

LEMMA OnlyClients ==
  ASSUME IInv, UNCHANGED <<scn, rel, tgt, reg, wire, back, dmn, files, why>>,
         cli' \in [Conns -> ClientType],
         \A c \in Conns : /\ cli'[c].next = cli[c].next /\ cli'[c].reply = cli[c].reply
                          /\ cli'[c].st = "idle" => cli[c].st = "idle"
                          /\ cli'[c].st = "sending" => cli[c].st = "sending"
                          /\ c \notin Active => cli'[c].st = cli[c].st
  PROVE  IInv'
<1>1. \A c \in Conns : AllSent(c)' <=> AllSent(c)
  BY ChunkSeqsSame DEF AllSent
<1>2. Active' = Active
  BY ChunkSeqsSame
<1>3. TypeOK'
  BY DEF IInv, TypeOK, Entries, ClientType
<1>4. LinkInv'
  BY DEF IInv, LinkInv, Up
<1>5. PairInv'
  BY DEF IInv, PairInv, Selected, Entries, Up
<1>6. OnceInv'
  <2>1. \A c \in Conns : Untouched(c) => Untouched(c)'
    BY DEF Untouched, Entries, OnWire, InQueue, HasResult
  <2>2. IdleFresh'
    BY <2>1 DEF IInv, OnceInv, IdleFresh
  <2>3. RestIdle'
    BY <1>2 DEF IInv, OnceInv, RestIdle
  <2>4. NoSecond'
    BY DEF IInv, OnceInv, NoSecond, Entries, InitOnWire
  <2> QED
    BY <2>2, <2>3, <2>4 DEF IInv, OnceInv
<1>7. SentInv'
  <2>1. \A c \in Entries : c \in Conns
    BY StreamsNamed DEF IInv
  <2>2. \A c \in Conns : Known(c) => Known(c)'
    BY <1>1 DEF Known, Entries, InitOnWire
  <2>3. \A c \in Conns : \A i : KnownAt(c, i) => KnownAt(c, i)'
    BY <1>1 DEF KnownAt, Entries
  <2>4. \A c \in Conns : Answered(c) => Answered(c)'
    BY <1>1, <1>2 DEF Answered
  <2>5. Handing'
    BY <1>1 DEF IInv, SentInv, Handing
  <2>6. FinalOnWire' /\ HeadersKnown'
    BY <1>1, <2>3 DEF IInv, SentInv, FinalOnWire, HeadersKnown
  <2>7. FinalQueued' /\ QueuesKnown'
    BY <1>1, <2>2 DEF IInv, SentInv, FinalQueued, QueuesKnown, Up, InQueue
  <2>8. RoutesKnown'
    BY <2>2 DEF IInv, SentInv, RoutesKnown, Up
  <2>9. FinalEntered' /\ ResultsLast'
    BY <1>1, <2>1 DEF IInv, SentInv, FinalEntered, ResultsLast, Entries, HasResult
  <2>10. ClosedFor'
    BY <2>4 DEF IInv, SentInv, ClosedFor
  <2> QED
    BY <2>5, <2>6, <2>7, <2>8, <2>9, <2>10 DEF SentInv
<1>8. CellInv'
  BY DEF IInv, CellInv, ChunksBelong, Entries
<1> QED
  BY <1>3, <1>4, <1>5, <1>6, <1>7, <1>8 DEF IInv

LEMMA ClientStep ==
  ASSUME IInv, NEW c \in Active, ClientReads(c) \/ ClientTimesOut(c)
  PROVE  IInv'
<1>1. c \in Conns /\ cli \in [Conns -> ClientType]
  BY StreamsAreConns, TypeFacts DEF IInv
<1>2. CASE ClientReads(c)
  <2>1. cli[c].reply \in {"ok", "err"}
    BY <1>1, <1>2 DEF ClientReads, ClientType
  <2>2. cli' \in [Conns -> ClientType]
    BY <1>1, <1>2, <2>1 DEF ClientReads, ClientType
  <2> QED
    BY <1>1, <1>2, <2>1, <2>2, OnlyClients DEF ClientReads
<1>3. CASE ClientTimesOut(c)
  <2>1. cli' \in [Conns -> ClientType]
    BY <1>1, <1>3 DEF ClientTimesOut, ClientType
  <2> QED
    BY <1>1, <1>3, <2>1, OnlyClients DEF ClientTimesOut
<1> QED
  BY <1>2, <1>3

LEMMA DeathStep ==
  ASSUME IInv, NEW t \in Transfers, ClientDies(t)
  PROVE  IInv'
<1>1. StreamsOf(t) \subseteq Active /\ cli \in [Conns -> ClientType]
  BY TypeFacts DEF IInv, Active
<1>2. cli' \in [Conns -> ClientType]
  BY <1>1 DEF ClientDies, ClientType
<1>3. \A c \in Conns : cli'[c] = IF c \in StreamsOf(t) /\ cli[c].st \notin {"ok", "err"}
                                 THEN [cli[c] EXCEPT !.st = "dead"] ELSE cli[c]
  BY DEF ClientDies
<1>4. \A c \in Conns : /\ cli'[c].next = cli[c].next /\ cli'[c].reply = cli[c].reply
                       /\ cli'[c].st \in {cli[c].st, "dead"}
                       /\ c \notin Active => cli'[c].st = cli[c].st
  BY <1>1, <1>3 DEF ClientType
<1> QED
  BY <1>2, <1>4, OnlyClients DEF ClientDies

---------------------------------------------------------------------------
(***************************************************************************)
(* Forwarding: the steps of the relay's read loops and of a write queue.   *)
(* Streams go on, routes are given up, queues lose frames and get frames   *)
(* of streams that have a route there, and a frame may be written.         *)
(***************************************************************************)

Waits(l, f) == \E i \in DOMAIN tgt[l].q : tgt[l].q[i] = f

StreamsGoOn ==
  \A c \in Conns : /\ cli'[c].next >= cli[c].next
                   /\ cli[c].reply # "none" => cli'[c].reply # "none"
                   /\ cli'[c].st = "idle" <=> cli[c].st = "idle"
                   /\ cli[c].st = "idle" => cli'[c].next = cli[c].next
                   /\ rel'[c].route \in {0, rel[c].route}
                   /\ rel'[c].took # "no" => rel'[c].route # 0
                   /\ rel'[c].pend => rel[c].pend
LinksStay ==
  \A l \in Links : /\ tgt'[l].link = tgt[l].link /\ tgt'[l].gone = tgt[l].gone
                   /\ tgt'[l].qs = tgt[l].qs /\ Len(tgt'[l].q) <= QueueCap
                   /\ tgt[l].link = "new" => tgt'[l].q = <<>>
QueuesServe ==
  \A l \in Links : \A f \in Queued :
    Waits(l, f)' => Waits(l, f) \/ (rel[f.c].route = l /\ (f.fin => AllSent(f.c)'))
WritesOne ==
  \/ wire' = wire
  \/ \E l \in Links : \E f \in Queued :
       /\ Up(l) /\ wire' = wire \o Pair(f)
       /\ Known(f.c) /\ (f.fin => AllSent(f.c)') /\ cli[f.c].st # "idle"

LEMMA Forwarding ==
  ASSUME IInv, UNCHANGED <<scn, reg, back, dmn, files>>,
         why' \in [Transfers -> SUBSET Causes],
         cli' \in [Conns -> ClientType], rel' \in [Conns -> LoopType], tgt' \in [Links -> LinkType],
         StreamsGoOn, Handing', LinksStay, QueuesServe, WritesOne
  PROVE  IInv'
<1> USE DEF IInv
<1>1. \A c \in Conns : AllSent(c) => AllSent(c)'
  BY SentGrows DEF StreamsGoOn
<1>2. Active' = Active
  BY ChunkSeqsSame
<1>3. wire \in Seq(Frames) /\ Paired(wire)
  BY TypeFacts DEF PairInv
<1>4. /\ wire' \in Seq(Frames) /\ Paired(wire')
      /\ \A i \in DOMAIN wire : i \in DOMAIN wire' /\ wire'[i] = wire[i]
      /\ wire' = wire \/ Len(wire') = Len(wire) + 2
      /\ \A i \in DOMAIN wire' : i \in DOMAIN wire \/
           \E f \in Queued :
             /\ Known(f.c) /\ (f.fin => AllSent(f.c)') /\ cli[f.c].st # "idle"
             /\ \A j \in DOMAIN wire : j < i
             /\ wire'[i].k \in {"hdr", "bin"} /\ wire'[i].c = f.c /\ wire'[i].fin = f.fin
  <2>1. CASE wire' = wire
    BY <1>3, <2>1
  <2>2. ASSUME NEW l \in Links, NEW f \in Queued, wire' = wire \o Pair(f),
               Known(f.c), f.fin => AllSent(f.c)', cli[f.c].st # "idle"
        PROVE  <1>4!:
    <3>1. /\ wire' \in Seq(Frames) /\ Paired(wire')
          /\ \A i \in DOMAIN wire : i \in DOMAIN wire' /\ wire'[i] = wire[i]
          /\ Len(wire') = Len(wire) + 2
          /\ \A i \in DOMAIN wire' : i \in DOMAIN wire \/ i = Len(wire) + 1 \/ i = Len(wire) + 2
          /\ wire'[Len(wire) + 1] = Frame("hdr", f) /\ wire'[Len(wire) + 2] = Frame("bin", f)
      BY <1>3, <2>2, WirePair
    <3>2. Len(wire) \in Nat /\ DOMAIN wire = 1 .. Len(wire)
      BY <1>3
    <3>3. \A i \in DOMAIN wire' : i \notin DOMAIN wire =>
             /\ \A j \in DOMAIN wire : j < i
             /\ wire'[i].k \in {"hdr", "bin"} /\ wire'[i].c = f.c /\ wire'[i].fin = f.fin
      BY <3>1, <3>2 DEF Frame
    <3> QED
      BY <2>2, <3>1, <3>3
  <2> QED
    BY <2>1, <2>2 DEF WritesOne
<1>5. \A i \in DOMAIN wire' : i \in DOMAIN wire \/
        (/\ \A j \in DOMAIN wire : j < i
         /\ wire'[i].k \in {"hdr", "bin"} /\ wire'[i].c \in Conns
         /\ cli[wire'[i].c].st # "idle")
  BY <1>4 DEF Queued
<1>6. wire' # wire => \E l \in Links : Up(l)
  BY DEF WritesOne
<1>7. \A l \in Links : Up(l)' <=> Up(l)
  BY DEF LinksStay, Up
<1>8. Entries' = Entries
  BY DEF Entries
<1>9. TypeOK'
  BY <1>4, <1>8 DEF TypeOK, ClientType, LoopType, LinkType, StreamsGoOn, LinksStay
<1>10. LinkInv'
  <2>1. \A l \in Links : l # 0
    BY TransferAssumption DEF Links
  <2>2. \A c \in Conns, l \in Links : rel'[c].route = l => rel[c].route = l
    BY <2>1 DEF StreamsGoOn
  <2>3. \A l, m \in Links : Up(l)' /\ Up(m)' => l = m
    BY <1>7 DEF LinkInv
  <2>4. wire' # <<>> => \E l \in Links : Up(l)'
    BY <1>6, <1>7 DEF LinkInv
  <2> QED
    BY <2>2, <2>3, <2>4 DEF LinkInv, LinksStay
<1>11. PairInv'
  <2>1. SUFFICES ASSUME dmn.pend # NoConn PROVE Selected'
    BY <1>4 DEF PairInv, Selected
  <2>2. wire # <<>> => 1 \in DOMAIN wire
    BY <1>3
  <2>3. wire' # <<>> \/ wire' = wire
    <3>1. \A v : v = <<>> => Len(v) = 0
      OBVIOUS
    <3>2. Len(wire) \in Nat
      BY <1>3
    <3> QED
      BY <1>4, <3>1, <3>2
  <2>4. wire # <<>> => wire' # <<>> /\ wire'[1] = wire[1]
    BY <1>4, <2>2, <2>3
  <2> QED
    BY <1>6, <1>7, <1>8, <2>1, <2>3, <2>4 DEF PairInv, Selected
<1>12. OnceInv'
  <2>1. ASSUME NEW c \in Conns, cli'[c].st = "idle" PROVE Untouched(c)'
    <3>1. cli[c].st = "idle" /\ Untouched(c)
      BY <2>1 DEF OnceInv, IdleFresh, StreamsGoOn
    <3>2. ~OnWire(c)'
      BY <1>4, <1>5, <3>1 DEF Untouched, OnWire
    <3>3. rel'[c].route = 0 /\ ~rel'[c].pend /\ cli'[c].next = 1
      BY <3>1 DEF Untouched, StreamsGoOn, LoopType
    <3>4. ASSUME NEW l \in Links PROVE ~InQueue(c, l)'
      <4>1. SUFFICES ASSUME NEW f \in Queued, Waits(l, f)', f.c = c PROVE FALSE
        <5>1. tgt'[l].q \in Seq(Queued)
          BY DEF LinkType
        <5> QED
          BY <4>1, <5>1 DEF InQueue, Waits
      <4>2. ~Waits(l, f)
        BY <3>1, <4>1 DEF Untouched, InQueue, Waits
      <4>3. rel[c].route = l
        BY <4>1, <4>2 DEF QueuesServe
      <4> QED
        BY <3>1, <4>3, TransferAssumption DEF Untouched, Links
    <3> QED
      BY <1>8, <3>1, <3>2, <3>3, <3>4 DEF Untouched, HasResult
  <2>2. OnceOnly(wire')
    BY <1>4, <1>5 DEF OnceInv, OnceOnly
  <2>3. \A c \in Entries : ~InitOnWire(c)'
    BY <1>4, <1>5 DEF OnceInv, NoSecond, InitOnWire
  <2>4. RestIdle'
    BY <1>2 DEF OnceInv, RestIdle, StreamsGoOn
  <2> QED
    BY <1>8, <2>1, <2>2, <2>3, <2>4 DEF OnceInv, IdleFresh, NoSecond
<1>13. SentInv'
  <2>1. \A c \in Conns : Known(c) => Known(c)'
    BY <1>1, <1>4, <1>8 DEF Known, InitOnWire
  <2>2. ASSUME NEW c \in Conns, HasFinal(wire, c)' PROVE AllSent(c)'
    <3>1. PICK i \in DOMAIN wire' : wire'[i].c = c /\ wire'[i].fin
      BY <2>2 DEF HasFinal
    <3>2. CASE i \in DOMAIN wire
      BY <1>1, <1>4, <3>1, <3>2 DEF SentInv, FinalOnWire, HasFinal
    <3>3. CASE i \notin DOMAIN wire
      BY <1>4, <3>1, <3>3
    <3> QED
      BY <3>2, <3>3
  <2>3. ASSUME NEW c \in Conns, NEW i \in DOMAIN wire', wire'[i].c = c, wire'[i].k = "hdr"
        PROVE  KnownAt(c, i)'
    <3>1. CASE i \in DOMAIN wire
      <4>1. KnownAt(c, i)
        BY <1>4, <2>3, <3>1 DEF SentInv, HeadersKnown
      <4> QED
        BY <1>1, <1>4, <1>8, <4>1 DEF KnownAt
    <3>2. CASE i \notin DOMAIN wire
      <4>1. Known(c) /\ \A j \in DOMAIN wire : j < i
        BY <1>4, <2>3, <3>2
      <4> QED
        BY <1>1, <1>4, <1>8, <4>1 DEF Known, InitOnWire, KnownAt
    <3> QED
      BY <3>1, <3>2
  <2>4. ASSUME NEW l \in Links, NEW f \in Queued, Waits(l, f)'
        PROVE  /\ f.fin => AllSent(f.c)'
               /\ Up(l) => Known(f.c)'
    <3>1. f.c \in Conns
      BY DEF Queued
    <3>2. CASE Waits(l, f)
      BY <1>1, <2>1, <3>1, <3>2 DEF SentInv, FinalQueued, QueuesKnown, Waits, HasFinal, InQueue
    <3>3. CASE rel[f.c].route = l /\ (f.fin => AllSent(f.c)')
      BY <2>1, <3>1, <3>3 DEF SentInv, RoutesKnown
    <3> QED
      BY <2>4, <3>2, <3>3 DEF QueuesServe
  <2>5. ASSUME NEW c \in Conns, NEW l \in Links
        PROVE  /\ HasFinal(tgt[l].q, c)' => AllSent(c)'
               /\ InQueue(c, l)' /\ Up(l) => Known(c)'
    <3>1. tgt'[l].q \in Seq(Queued)
      BY DEF LinkType
    <3>2. \A i \in DOMAIN tgt'[l].q : tgt'[l].q[i] \in Queued
      BY <3>1
    <3>3. HasFinal(tgt[l].q, c)' => \E f \in Queued : Waits(l, f)' /\ f.c = c /\ f.fin
      BY <3>2 DEF HasFinal, Waits
    <3>4. InQueue(c, l)' => \E f \in Queued : Waits(l, f)' /\ f.c = c
      BY <3>2 DEF InQueue, Waits
    <3> QED
      BY <2>4, <3>3, <3>4
  <2>6. ASSUME NEW c \in Conns, NEW l \in Links, rel'[c].route = l, Up(l) PROVE Known(c)'
    <3>1. rel[c].route = l
      BY <2>6, TransferAssumption DEF StreamsGoOn, Links
    <3> QED
      BY <2>1, <2>6, <3>1 DEF SentInv, RoutesKnown
  <2>7. FinalEntered' /\ ResultsLast'
    BY <1>1, <1>8, StreamsNamed DEF SentInv, FinalEntered, ResultsLast, HasResult
  <2>8. ClosedFor'
    <3>1. \A c \in Conns : Answered(c) => Answered(c)'
      BY <1>1, <1>2 DEF Answered, StreamsGoOn
    <3> QED
      BY <3>1 DEF SentInv, ClosedFor, LinksStay
  <2> QED
    BY <1>7, <2>2, <2>3, <2>5, <2>6, <2>7, <2>8
       DEF SentInv, FinalOnWire, HeadersKnown, FinalQueued, QueuesKnown, RoutesKnown
<1>14. CellInv'
  BY <1>8 DEF CellInv, ChunksBelong
<1> QED
  BY <1>9, <1>10, <1>11, <1>12, <1>13, <1>14

LEMMA OneStream ==
  ASSUME IInv, scn' = scn, NEW c \in Conns, cli[c].st # "idle",
         cli' \in [Conns -> ClientType], rel' \in [Conns -> LoopType],
         \A d \in Conns : d # c => cli'[d] = cli[d],
         \A d \in Conns : d # c => rel'[d] = rel[d],
         cli'[c].next >= cli[c].next, cli[c].reply # "none" => cli'[c].reply # "none",
         cli'[c].st # "idle", rel'[c].route \in {0, rel[c].route},
         rel'[c].took # "no" => rel'[c].route # 0, rel'[c].pend => rel[c].pend,
         cli'[c].st = "sending" \/ rel'[c].took # "no" => ~AllSent(c)'
  PROVE  StreamsGoOn /\ Handing'
<1>1. StreamsGoOn
  <2>1. ASSUME NEW d \in Conns, d # c
        PROVE  /\ cli'[d] = cli[d] /\ cli[d].next >= cli[d].next
               /\ rel'[d] = rel[d] /\ (rel[d].took # "no" => rel[d].route # 0)
    BY <2>1, TypeFacts DEF IInv, TypeOK, ClientType
  <2> QED
    BY <2>1 DEF StreamsGoOn
<1>2. \A d \in Conns : d # c => (AllSent(d)' <=> AllSent(d))
  BY ChunkSeqsSame DEF AllSent
<1>3. Handing'
  BY <1>2 DEF IInv, SentInv, Handing
<1> QED
  BY <1>1, <1>3

\* A stream whose chunk the relay has in hand.
LEMMA InHand ==
  ASSUME IInv, NEW c \in Conns, cli[c].st = "sending" \/ rel[c].took # "no"
  PROVE  /\ cli[c].st # "idle" /\ ~AllSent(c)
         /\ rel[c].took # "no" => rel[c].route \in Links
<1>1. rel[c].took # "no" => rel[c].route # 0
  BY DEF IInv, TypeOK
<1>2. rel[c].route # 0 => cli[c].st # "idle"
  BY DEF IInv, OnceInv, IdleFresh, Untouched
<1>3. rel[c].route \in 0 .. MaxLink
  BY TypeFacts DEF IInv, LoopType
<1> QED
  BY <1>1, <1>2, <1>3, TransferAssumption DEF IInv, SentInv, Handing, Links

\* Its chunk is passed on: what is recorded of the stream then.
LEMMA PassedOn ==
  ASSUME IInv, scn' = scn, NEW c \in Conns, cli[c].st = "sending" \/ rel[c].took # "no",
         \/ cli' = Forwarded(c) /\ rel' = RouteAfter(c)
         \/ ForwardFails(c)
         \/ cli' = Forwarded(c) /\ rel' = rel /\ rel[c].took = "no"
  PROVE  /\ cli' \in [Conns -> ClientType] /\ rel' \in [Conns -> LoopType]
         /\ StreamsGoOn /\ Handing' /\ (Chunk(c).fin => AllSent(c)')
         /\ Chunk(c) \in Queued /\ Chunk(c).c = c
<1>1. cli[c].st # "idle" /\ ~AllSent(c) /\ TypeOK
  BY InHand DEF IInv
<1>2. cli \in [Conns -> ClientType] /\ rel \in [Conns -> LoopType]
  BY <1>1, TypeFacts
<1>3. PICK b \in BOOLEAN : b = Chunk(c).fin
  BY <1>1, ChunkFacts DEF Queued
<1> DEFINE n == Forwarded(c)
<1>4. /\ n \in [Conns -> ClientType] /\ \A d \in Conns : d # c => n[d] = cli[d]
      /\ n[c].next = cli[c].next + 1 /\ n[c].reply = cli[c].reply
      /\ n[c].st = IF b /\ cli[c].st = "sending" THEN "waiting" ELSE cli[c].st
      /\ n[c].next > Len(ChunkSeqs(c)) <=> b
  BY <1>1, <1>3, ForwardedFacts
<1> HIDE DEF n
<1>5. /\ cli' \in [Conns -> ClientType] /\ \A d \in Conns : d # c => cli'[d] = cli[d]
      /\ cli'[c].next = n[c].next /\ cli'[c].st = n[c].st
      /\ cli[c].reply # "none" => cli'[c].reply # "none"
  <2>1. CASE cli' = Forwarded(c)
    BY <1>4, <2>1 DEF n
  <2>2. CASE ForwardFails(c)
    <3>1. cli' = [n EXCEPT ![c].reply = IF @ = "none" THEN "err" ELSE @]
      BY <2>2 DEF ForwardFails, n
    <3> QED
      BY <1>4, <3>1 DEF ClientType
  <2> QED
    BY <2>1, <2>2
<1>6. /\ rel' \in [Conns -> LoopType] /\ \A d \in Conns : d # c => rel'[d] = rel[d]
      /\ rel'[c].route \in {0, rel[c].route} /\ rel'[c].took = "no" /\ (rel'[c].pend => rel[c].pend)
  <2>1. CASE rel' = RouteAfter(c)
    <3>1. rel' = [rel EXCEPT ![c].took = "no", ![c].route = IF b THEN 0 ELSE @]
      BY <1>3, <2>1 DEF RouteAfter
    <3>2. (IF b THEN 0 ELSE rel[c].route) \in 0 .. MaxLink
      BY <1>2, TransferAssumption DEF LoopType
    <3> QED
      BY <1>2, <3>1, <3>2 DEF LoopType
  <2>2. CASE ForwardFails(c)
    BY <1>2, <2>2, TransferAssumption DEF LoopType, ForwardFails
  <2>3. CASE rel' = rel /\ rel[c].took = "no"
    BY <1>2, <2>3
  <2> QED
    BY <2>1, <2>2, <2>3
<1>7. ChunkSeqs(c)' = ChunkSeqs(c)
  BY ChunkSeqsSame
<1>8. AllSent(c)' <=> b
  BY <1>4, <1>5, <1>7 DEF AllSent
<1>9. cli'[c].st # "idle" /\ (cli'[c].st = "sending" => ~b)
  BY <1>1, <1>4, <1>5
<1>10. cli'[c].next >= cli[c].next
  BY <1>2, <1>4, <1>5 DEF ClientType
<1>11. StreamsGoOn /\ Handing'
  <2>1. cli'[c].st = "sending" \/ rel'[c].took # "no" => ~AllSent(c)'
    BY <1>6, <1>8, <1>9
  <2>2. rel'[c].took # "no" => rel'[c].route # 0
    BY <1>6
  <2> QED
    BY <1>1, <1>5, <1>6, <1>9, <1>10, <2>1, <2>2, OneStream
<1> QED
  BY <1>1, <1>3, <1>5, <1>6, <1>8, <1>11, ChunkFacts

\* Nothing happens to the daemon's connections, or to the wire.
LEMMA LinksAsTheyWere ==
  ASSUME IInv, tgt' = tgt
  PROVE  LinksStay /\ QueuesServe /\ tgt' \in [Links -> LinkType]
<1>1. LinksStay
  BY TypeFacts DEF IInv, TypeOK, LinkInv, LinksStay
<1>2. QueuesServe
  BY DEF QueuesServe, Waits
<1> QED
  BY <1>1, <1>2, TypeFacts DEF IInv

LEMMA CausesStay ==
  ASSUME IInv, why' = why
  PROVE  why' \in [Transfers -> SUBSET Causes]
  BY DEF IInv, TypeOK

LEMMA DropStep ==
  ASSUME IInv, NEW c \in Conns, RelayDropsChunk(c)
  PROVE  IInv'
<1>1. WritesOne
  BY DEF RelayDropsChunk, WritesOne
<1> QED
  BY <1>1, PassedOn, LinksAsTheyWere, CausesStay, Forwarding DEF RelayDropsChunk

LEMMA TakeStep ==
  ASSUME IInv, NEW c \in Conns, RelayTakesQueue(c)
  PROVE  IInv'
<1>1. cli \in [Conns -> ClientType] /\ rel \in [Conns -> LoopType]
  BY TypeFacts DEF IInv
<1>2. cli[c].st # "idle" /\ ~AllSent(c)
  BY InHand DEF RelayTakesQueue
<1>3. PICK v \in {"queue", "sync"} : rel' = [rel EXCEPT ![c].took = v]
  BY DEF RelayTakesQueue
<1>4. /\ rel' \in [Conns -> LoopType] /\ \A d \in Conns : d # c => rel'[d] = rel[d]
      /\ rel'[c].route = rel[c].route /\ rel'[c].route # 0 /\ rel'[c].pend = rel[c].pend
  BY <1>1, <1>3 DEF LoopType, RelayTakesQueue
<1>5. AllSent(c)' <=> AllSent(c)
  BY ChunkSeqsSame DEF AllSent, RelayTakesQueue
<1>6. cli[c].next >= cli[c].next
  BY <1>1 DEF ClientType
<1>7. StreamsGoOn /\ Handing'
  BY <1>1, <1>2, <1>4, <1>5, <1>6, OneStream DEF RelayTakesQueue
<1>8. WritesOne
  BY DEF RelayTakesQueue, WritesOne
<1> QED
  BY <1>1, <1>4, <1>7, <1>8, LinksAsTheyWere, CausesStay, Forwarding DEF RelayTakesQueue

LEMMA PanicOrEndStep ==
  ASSUME IInv, NEW c \in Conns, RelayPanics(c) \/ RelayEnds(c)
  PROVE  IInv'
<1>1. cli \in [Conns -> ClientType] /\ rel \in [Conns -> LoopType]
  BY TypeFacts DEF IInv
<1>2. cli[c].st # "idle"
  BY InHand DEF RelayPanics, RelayEnds
<1>3. /\ cli' \in [Conns -> ClientType] /\ \A d \in Conns : d # c => cli'[d] = cli[d]
      /\ cli'[c].next = cli[c].next /\ cli'[c].st \notin {"idle", "sending"}
      /\ cli[c].reply # "none" => cli'[c].reply # "none"
  <2>1. CASE RelayPanics(c)
    <3>1. PICK r \in {"ok", "err"} : (cli[c].reply = "none" /\ r = "err") \/ cli[c].reply = r
      BY <1>1 DEF ClientType
    <3>2. Reply(c, "err") = [cli[c] EXCEPT !.reply = r]
      BY <1>1, <3>1 DEF Reply, ClientType
    <3>3. PICK s \in {"waiting", "dead"} : cli' = [cli EXCEPT ![c] = [cli[c] EXCEPT !.reply = r, !.st = s]]
      <4> DEFINE g == [cli[c] EXCEPT !.reply = r]
      <4>1. g \in ClientType /\ g.st = cli[c].st
        BY <1>1 DEF ClientType
      <4>2. cli' = [cli EXCEPT ![c] = [g EXCEPT !.st = IF cli[c].st = "dead" THEN "dead" ELSE "waiting"]]
        BY <1>1, <2>1, <3>2, <4>1 DEF RelayPanics
      <4> QED
        BY <1>1, <4>1, <4>2 DEF ClientType
    <3> QED
      BY <1>1, <3>1, <3>3 DEF ClientType
  <2>2. CASE RelayEnds(c)
    BY <1>1, <2>2 DEF RelayEnds
  <2> QED
    BY <2>1, <2>2
<1>4. /\ rel' \in [Conns -> LoopType] /\ \A d \in Conns : d # c => rel'[d] = rel[d]
      /\ rel'[c].route = 0 /\ rel'[c].took = "no" /\ (rel'[c].pend => rel[c].pend)
  <2>0. 0 \in 0 .. MaxLink
    BY TransferAssumption
  <2>1. CASE RelayPanics(c)
    BY <1>1, <2>0, <2>1 DEF LoopType, RelayPanics
  <2>2. CASE RelayEnds(c)
    <3>0. rel[c].took = "no"
      BY <2>2 DEF RelayEnds
    <3>1. PICK p \in BOOLEAN : p = (rel[c].pend /\ Size(c) # 0)
      OBVIOUS
    <3>2. p => rel[c].pend
      BY <3>1, Zenon
    <3>3. rel' = [rel EXCEPT ![c].route = 0, ![c].pend = p]
      BY <2>2, <3>1 DEF RelayEnds
    <3> QED
      BY <1>1, <2>0, <3>0, <3>2, <3>3 DEF LoopType
  <2> QED
    BY <2>1, <2>2
<1>5. cli'[c].next >= cli[c].next
  BY <1>1, <1>3 DEF ClientType
<1>6. UNCHANGED <<scn, tgt, reg, wire, back, dmn, files, why>>
  BY DEF RelayPanics, RelayEnds
<1>7. StreamsGoOn /\ Handing'
  <2>1. cli'[c].st = "sending" \/ rel'[c].took # "no" => ~AllSent(c)'
    BY <1>3, <1>4
  <2>2. /\ cli'[c].st # "idle" /\ rel'[c].route \in {0, rel[c].route}
        /\ rel'[c].took # "no" => rel'[c].route # 0
    BY <1>3, <1>4
  <2>3. scn' = scn
    BY <1>6
  <2> QED
    BY <1>2, <1>3, <1>4, <1>5, <2>1, <2>2, <2>3, OneStream
<1>8. WritesOne
  BY <1>6 DEF WritesOne
<1> QED
  BY <1>3, <1>4, <1>6, <1>7, <1>8, LinksAsTheyWere, CausesStay, Forwarding

QueueBecomes(l, r) ==
  \/ tgt' = [tgt EXCEPT ![l].q = r]
  \/ tgt' = [tgt EXCEPT ![l].q = r, ![l].werr = TRUE]
LEMMA QueueSet ==
  ASSUME tgt \in [Links -> LinkType], NEW l \in Links, NEW r \in Seq(Queued), QueueBecomes(l, r)
  PROVE  /\ tgt' \in [Links -> LinkType]
         /\ \A m \in Links : m # l => tgt'[m] = tgt[m]
         /\ tgt'[l].q = r /\ tgt'[l].link = tgt[l].link /\ tgt'[l].gone = tgt[l].gone
         /\ tgt'[l].qs = tgt[l].qs
<1> USE DEF QueueBecomes
<1> DEFINE x == [tgt[l] EXCEPT !.q = r]
           y == [tgt[l] EXCEPT !.q = r, !.werr = TRUE]
<1>1. /\ x \in LinkType /\ x.q = r /\ x.link = tgt[l].link /\ x.gone = tgt[l].gone /\ x.qs = tgt[l].qs
      /\ y \in LinkType /\ y.q = r /\ y.link = tgt[l].link /\ y.gone = tgt[l].gone /\ y.qs = tgt[l].qs
  BY DEF LinkType
<1>2. tgt' = [tgt EXCEPT ![l] = x] \/ tgt' = [tgt EXCEPT ![l] = y]
  OBVIOUS
<1> HIDE DEF x, y
<1> QED
  BY <1>1, <1>2

LEMMA EnqueueStep ==
  ASSUME IInv, NEW c \in Conns, RelayEnqueues(c)
  PROVE  IInv'
<1> DEFINE l == rel[c].route
<1>1. rel[c].took = "queue" /\ l \in Links /\ HasRoom(l) /\ tgt \in [Links -> LinkType]
  BY InHand, TypeFacts DEF RelayEnqueues, IInv
<1>2. UNCHANGED <<scn, reg, wire, back, dmn, files, why>>
  BY DEF RelayEnqueues
<1>3. /\ cli' \in [Conns -> ClientType] /\ rel' \in [Conns -> LoopType]
      /\ StreamsGoOn /\ Handing' /\ (Chunk(c).fin => AllSent(c)')
      /\ Chunk(c) \in Queued /\ Chunk(c).c = c
  BY <1>1, PassedOn DEF RelayEnqueues
<1>4. tgt' \in [Links -> LinkType] /\ LinksStay /\ QueuesServe
  <2>1. CASE tgt' = tgt
    BY <2>1, LinksAsTheyWere
  <2>2. CASE tgt' = [tgt EXCEPT ![l].q = Append(@, Chunk(c))]
    <3> DEFINE q == tgt[l].q
               r == Append(q, Chunk(c))
    <3>1. /\ q \in Seq(Queued) /\ r \in Seq(Queued) /\ Len(r) = Len(q) + 1
          /\ \A i \in DOMAIN r : (i \in DOMAIN q /\ r[i] = q[i]) \/ r[i] = Chunk(c)
      BY <1>1, <1>3 DEF LinkType
    <3>2. Len(r) <= QueueCap
      BY <1>1, <3>1, TransferAssumption DEF HasRoom
    <3> HIDE DEF r
    <3>3. QueueBecomes(l, r)
      BY <2>2 DEF r, QueueBecomes
    <3>4. /\ tgt' \in [Links -> LinkType]
          /\ \A m \in Links : m # l => tgt'[m] = tgt[m]
          /\ tgt'[l].q = r /\ tgt'[l].link = tgt[l].link /\ tgt'[l].gone = tgt[l].gone
          /\ tgt'[l].qs = tgt[l].qs
      BY <1>1, <3>1, <3>3, QueueSet
    <3>5. tgt[l].link # "new"
      BY <1>1 DEF IInv, LinkInv
    <3>6. LinksStay
      BY <3>2, <3>4, <3>5 DEF IInv, TypeOK, LinkInv, LinksStay
    <3>7. QueuesServe
      <4>1. ASSUME NEW m \in Links, NEW f \in Queued, Waits(m, f)'
            PROVE  Waits(m, f) \/ (rel[f.c].route = m /\ (f.fin => AllSent(f.c)'))
        <5>1. CASE m # l
          BY <3>4, <4>1, <5>1 DEF Waits
        <5>2. CASE m = l
          <6>1. PICK i \in DOMAIN r : r[i] = f
            BY <3>4, <4>1, <5>2 DEF Waits
          <6>2. CASE f = Chunk(c)
            BY <1>3, <5>2, <6>2
          <6>3. CASE f # Chunk(c)
            BY <3>1, <5>2, <6>1, <6>3 DEF Waits
          <6> QED
            BY <6>2, <6>3
        <5> QED
          BY <5>1, <5>2
      <4> QED
        BY <4>1 DEF QueuesServe
    <3> QED
      BY <3>4, <3>6, <3>7
  <2> QED
    BY <2>1, <2>2 DEF RelayEnqueues
<1>5. WritesOne
  BY <1>2 DEF WritesOne
<1> QED
  BY <1>2, <1>3, <1>4, <1>5, CausesStay, Forwarding

LEMMA SyncStep ==
  ASSUME IInv, NEW c \in Conns, RelayWritesSync(c)
  PROVE  IInv'
<1> DEFINE l == rel[c].route
<1>1. rel[c].took # "no" /\ l \in Links /\ cli[c].st # "idle"
  BY InHand DEF RelayWritesSync
<1>2. UNCHANGED <<scn, tgt, reg, back, dmn, files>>
  BY DEF RelayWritesSync
<1>3. /\ cli' \in [Conns -> ClientType] /\ rel' \in [Conns -> LoopType]
      /\ StreamsGoOn /\ Handing' /\ (Chunk(c).fin => AllSent(c)')
      /\ Chunk(c) \in Queued /\ Chunk(c).c = c
  BY <1>1, <1>2, PassedOn DEF RelayWritesSync
<1>4. WritesOne
  <2>1. CASE Up(l) /\ wire' = wire \o Pair(Chunk(c))
    <3>1. Known(c)
      BY <1>1, <2>1 DEF IInv, SentInv, RoutesKnown
    <3> QED
      BY <1>1, <1>3, <2>1, <3>1 DEF WritesOne
  <2>2. CASE wire' = wire
    BY <2>2 DEF WritesOne
  <2> QED
    BY <2>1, <2>2 DEF RelayWritesSync, Write
<1>5. why' \in [Transfers -> SUBSET Causes]
  <2>1. c[1] \in Transfers
    BY ConnFacts DEF IInv
  <2>2. why \in [Transfers -> SUBSET Causes] /\ "overtaken" \in Causes
    BY DEF IInv, TypeOK, Causes
  <2>3. PICK x \in SUBSET Causes : why' = [why EXCEPT ![c[1]] = @ \cup x]
    BY <2>2 DEF RelayWritesSync
  <2> QED
    BY <2>1, <2>2, <2>3
<1> QED
  BY <1>2, <1>3, <1>4, <1>5, LinksAsTheyWere, Forwarding

LEMMA WriterStep ==
  ASSUME IInv, NEW l \in Links, WriterWrites(l)
  PROVE  IInv'
<1>1. cli \in [Conns -> ClientType] /\ rel \in [Conns -> LoopType] /\ tgt \in [Links -> LinkType]
  BY TypeFacts DEF IInv
<1>2. UNCHANGED <<scn, cli, rel, reg, back, dmn, files, why>>
  BY DEF WriterWrites
<1>3. StreamsGoOn
  BY <1>1, <1>2 DEF StreamsGoOn, IInv, TypeOK, ClientType
<1>4. \A c \in Conns : AllSent(c)' <=> AllSent(c)
  BY <1>2, ChunkSeqsSame DEF AllSent
<1>5. Handing'
  BY <1>2, <1>4 DEF IInv, SentInv, Handing
<1> DEFINE q == tgt[l].q
<1>6. /\ q \in Seq(Queued) /\ q # <<>> /\ Head(q) \in Queued
      /\ Len(q) <= QueueCap /\ QueueCap \in Nat
      /\ Tail(q) \in Seq(Queued) /\ Len(Tail(q)) <= QueueCap
      /\ \A i \in DOMAIN Tail(q) : i + 1 \in DOMAIN q /\ Tail(q)[i] = q[i + 1]
      /\ 1 \in DOMAIN q /\ Head(q) = q[1]
  BY <1>1, TransferAssumption DEF IInv, TypeOK, LinkType, WriterWrites
<1>7. tgt[l].link # "new"
  BY <1>6 DEF IInv, LinkInv
<1>8. PICK r \in {Tail(q), <<>>} :
        /\ tgt' \in [Links -> LinkType]
        /\ \A m \in Links : m # l => tgt'[m] = tgt[m]
        /\ tgt'[l].q = r /\ tgt'[l].link = tgt[l].link /\ tgt'[l].gone = tgt[l].gone
        /\ tgt'[l].qs = tgt[l].qs
  <2>1. QueueBecomes(l, Tail(q)) \/ QueueBecomes(l, <<>>)
    BY DEF WriterWrites, QueueBecomes
  <2>2. <<>> \in Seq(Queued) /\ Tail(q) \in Seq(Queued)
    BY <1>6
  <2> HIDE DEF q
  <2> QED
    BY <1>1, <2>1, <2>2, QueueSet
<1>9. Len(r) <= QueueCap /\ \A i \in DOMAIN r : \E j \in DOMAIN q : r[i] = q[j]
  BY <1>6
<1>10. LinksStay
  BY <1>7, <1>8, <1>9 DEF IInv, TypeOK, LinkInv, LinksStay
<1>11. QueuesServe
  <2>1. ASSUME NEW m \in Links, NEW f \in Queued, Waits(m, f)'
        PROVE  Waits(m, f)
    <3>1. CASE m # l
      BY <1>8, <2>1, <3>1 DEF Waits
    <3>2. CASE m = l
      BY <1>8, <1>9, <2>1, <3>2 DEF Waits
    <3> QED
      BY <3>1, <3>2
  <2> QED
    BY <2>1 DEF QueuesServe
<1>12. WritesOne
  <2>1. CASE Up(l) /\ wire' = wire \o Pair(Head(q))
    <3>1. PICK f \in Queued : f = Head(q)
      BY <1>6
    <3>2. f.c \in Conns /\ InQueue(f.c, l) /\ (f.fin => HasFinal(q, f.c))
      BY <1>6, <3>1 DEF InQueue, HasFinal, Queued
    <3>3. Known(f.c) /\ (f.fin => AllSent(f.c)')
      BY <1>4, <2>1, <3>2 DEF IInv, SentInv, QueuesKnown, FinalQueued
    <3>4. cli[f.c].st # "idle"
      BY <3>2 DEF IInv, OnceInv, IdleFresh, Untouched
    <3> QED
      BY <2>1, <3>1, <3>3, <3>4 DEF WritesOne
  <2>2. CASE wire' = wire
    BY <2>2 DEF WritesOne
  <2> QED
    BY <2>1, <2>2 DEF WriterWrites, Write
<1> QED
  BY <1>1, <1>2, <1>3, <1>5, <1>8, <1>10, <1>11, <1>12, CausesStay, Forwarding

---------------------------------------------------------------------------
(***************************************************************************)
(* The daemon's connections.                                               *)
(***************************************************************************)

\* Only the daemon's connections and registration change.
LEMMA StreamsStand ==
  ASSUME IInv, UNCHANGED <<scn, cli>>
  PROVE  /\ \A c \in Conns : AllSent(c)' <=> AllSent(c)
         /\ Active' = Active
         /\ \A c \in Conns : Answered(c)' <=> Answered(c)
  BY ChunkSeqsSame DEF AllSent, Answered

LEMMA BreakStep ==
  ASSUME IInv, LinkBreaks
  PROVE  IInv'
<1>1. PICK l \in Links : Up(l) /\ tgt' = [tgt EXCEPT ![l].link = "down"]
  BY DEF LinkBreaks
<1>2. UNCHANGED <<scn, cli, rel, reg, dmn, files, why>> /\ wire' = <<>> /\ back' = <<>>
  BY DEF LinkBreaks
<1>3. tgt \in [Links -> LinkType] /\ TypeOK
  BY TypeFacts DEF IInv
<1>4. /\ tgt' \in [Links -> LinkType]
      /\ \A m \in Links : /\ tgt'[m].q = tgt[m].q /\ tgt'[m].gone = tgt[m].gone /\ tgt'[m].qs = tgt[m].qs
                          /\ m # l => tgt'[m] = tgt[m]
      /\ tgt'[l].link = "down"
  BY <1>1, <1>3 DEF LinkType
<1>5. \A m \in Links : ~Up(m)'
  BY <1>1, <1>4 DEF IInv, LinkInv, Up
<1>6. \A m \in Links : tgt'[m].link = "new" => tgt[m].link = "new"
  BY <1>4
<1>7. TypeOK'
  <2>1. wire' \in Seq(Frames) /\ back' \in Seq(Results)
    BY <1>2
  <2> QED
    BY <1>2, <1>3, <1>4, <2>1 DEF TypeOK, Results, LinkType, Entries
<1>8. LinkInv'
  BY <1>2, <1>4, <1>5, <1>6 DEF IInv, LinkInv
<1>9. \A i : i \notin DOMAIN wire' /\ i \notin DOMAIN back'
  BY <1>2
<1>10. PairInv'
  <2>1. Paired(wire')
    BY <1>9 DEF Paired, Announced, Preceded, Numbered
  <2> QED
    BY <1>2, <1>5, <2>1 DEF IInv, PairInv, Selected, Entries
<1>11. OnceInv'
  <2>1. ASSUME NEW c \in Conns, cli'[c].st = "idle" PROVE Untouched(c)'
    BY <1>2, <1>4, <1>9, <2>1 DEF IInv, OnceInv, IdleFresh, Untouched, Entries, OnWire, InQueue, HasResult
  <2> QED
    BY <1>2, <1>9, <2>1, StreamsStand DEF IInv, OnceInv, IdleFresh, RestIdle, OnceOnly, NoSecond, InitOnWire
<1>12. SentInv'
  <2>1. Handing'
    BY <1>2, StreamsStand DEF IInv, SentInv, Handing
  <2>2. FinalOnWire' /\ HeadersKnown' /\ ResultsLast'
    BY <1>9 DEF FinalOnWire, HeadersKnown, ResultsLast, HasFinal, HasResult
  <2>3. FinalQueued'
    <3>1. \A c \in Conns, m \in Links : HasFinal(tgt[m].q, c)' => HasFinal(tgt[m].q, c)
      BY <1>4 DEF HasFinal
    <3> QED
      BY <1>2, <3>1, StreamsStand DEF IInv, SentInv, FinalQueued
  <2>4. QueuesKnown' /\ RoutesKnown'
    BY <1>5 DEF QueuesKnown, RoutesKnown
  <2>5. FinalEntered'
    BY <1>2, StreamsStand, StreamsNamed DEF IInv, SentInv, FinalEntered, Entries
  <2>6. ClosedFor'
    BY <1>2, <1>4, StreamsStand DEF IInv, SentInv, ClosedFor
  <2> QED
    BY <2>1, <2>2, <2>3, <2>4, <2>5, <2>6 DEF SentInv
<1>13. CellInv'
  BY <1>2 DEF IInv, CellInv, ChunksBelong, Entries
<1> QED
  BY <1>7, <1>8, <1>10, <1>11, <1>12, <1>13 DEF IInv

LEMMA UnregisterStep ==
  ASSUME IInv, NEW l \in Links, RelayUnregisters(l)
  PROVE  IInv'
<1>1. UNCHANGED <<scn, cli, rel, wire, back, dmn, files, why>>
  BY DEF RelayUnregisters
<1>2. tgt \in [Links -> LinkType] /\ TypeOK
  BY TypeFacts DEF IInv
<1>3. /\ CloseQueue(l) \in [Links -> LinkType]
      /\ \A m \in Links : /\ CloseQueue(l)[m].q = tgt[m].q /\ CloseQueue(l)[m].link = tgt[m].link
                          /\ m # l => CloseQueue(l)[m] = tgt[m]
  BY <1>2 DEF CloseQueue, LinkType
<1>4. PICK t \in [Links -> LinkType] :
        t = CloseQueue(l) /\ tgt' = [t EXCEPT ![l].gone = TRUE]
  BY <1>3 DEF RelayUnregisters
<1>5. /\ tgt' \in [Links -> LinkType] /\ tgt'[l].gone
      /\ \A m \in Links : /\ tgt'[m].q = tgt[m].q /\ tgt'[m].link = tgt[m].link
                          /\ m # l => tgt'[m] = tgt[m]
  <2>1. \A m \in Links : /\ t[m].q = tgt[m].q /\ t[m].link = tgt[m].link
                         /\ m # l => t[m] = tgt[m]
    BY <1>3, <1>4
  <2>2. /\ tgt' \in [Links -> LinkType] /\ tgt'[l].gone
        /\ \A m \in Links : tgt'[m].q = t[m].q /\ tgt'[m].link = t[m].link
        /\ \A m \in Links : m # l => tgt'[m] = t[m]
    <3>1. \A m \in Links : tgt'[m] = IF m = l THEN [t[m] EXCEPT !.gone = TRUE] ELSE t[m]
      BY <1>4
    <3>2. \A m \in Links : t[m] \in LinkType /\ [t[m] EXCEPT !.gone = TRUE] \in LinkType
      BY DEF LinkType
    <3>3. tgt' \in [Links -> LinkType]
      BY <1>4, <3>2
    <3>4. ASSUME NEW m \in Links
          PROVE  /\ [t[m] EXCEPT !.gone = TRUE].gone
                 /\ [t[m] EXCEPT !.gone = TRUE].q = t[m].q
                 /\ [t[m] EXCEPT !.gone = TRUE].link = t[m].link
      BY DEF LinkType
    <3> QED
      BY <3>1, <3>3, <3>4
  <2>3. \A m \in Links : tgt'[m].q = tgt[m].q /\ tgt'[m].link = tgt[m].link
    BY <2>1, <2>2
  <2>4. \A m \in Links : m # l => tgt'[m] = tgt[m]
    BY <2>1, <2>2
  <2> QED
    BY <2>2, <2>3, <2>4
<1>6. reg' \in {0, reg} /\ reg' \in 0 .. MaxLink
  BY <1>2, TransferAssumption DEF RelayUnregisters, TypeOK
<1>7. \A m \in Links : Up(m)' <=> Up(m)
  BY <1>5 DEF Up
<1>8. TypeOK'
  BY <1>1, <1>2, <1>5, <1>6 DEF TypeOK, LinkType, Entries
<1>9. LinkInv'
  <2>1. \A m \in Links : m # 0
    BY TransferAssumption DEF Links
  <2> QED
    BY <1>1, <1>5, <1>6, <1>7, <2>1 DEF IInv, LinkInv
<1>10. PairInv'
  BY <1>1, <1>7 DEF IInv, PairInv, Selected, Entries
<1>11. OnceInv'
  <2>1. ASSUME NEW c \in Conns, cli'[c].st = "idle" PROVE Untouched(c)'
    BY <1>1, <1>5, <2>1 DEF IInv, OnceInv, IdleFresh, Untouched, Entries, OnWire, InQueue, HasResult
  <2> QED
    BY <1>1, <2>1, StreamsStand DEF IInv, OnceInv, IdleFresh, RestIdle, OnceOnly, NoSecond, InitOnWire, Entries
<1>12. SentInv'
  <2>1. Handing'
    BY <1>1, StreamsStand DEF IInv, SentInv, Handing
  <2>2. FinalOnWire' /\ HeadersKnown' /\ ResultsLast'
    BY <1>1, StreamsStand
       DEF IInv, SentInv, FinalOnWire, HeadersKnown, ResultsLast, HasFinal, HasResult, KnownAt, Entries
  <2>3. \A c \in Conns : Known(c)' <=> Known(c)
    BY <1>1, StreamsStand DEF Known, InitOnWire, Entries
  <2>4. FinalQueued'
    <3>1. \A c \in Conns, m \in Links : HasFinal(tgt[m].q, c)' => HasFinal(tgt[m].q, c)
      BY <1>5 DEF HasFinal
    <3> QED
      BY <1>1, <3>1, StreamsStand DEF IInv, SentInv, FinalQueued
  <2>5. QueuesKnown' /\ RoutesKnown'
    BY <1>1, <1>5, <1>7, <2>3 DEF IInv, SentInv, QueuesKnown, RoutesKnown, InQueue
  <2>6. FinalEntered'
    BY <1>1, StreamsStand, StreamsNamed DEF IInv, SentInv, FinalEntered, Entries
  <2>7. ClosedFor'
    BY <1>1, <1>5, StreamsStand DEF IInv, SentInv, ClosedFor
  <2> QED
    BY <2>1, <2>2, <2>4, <2>5, <2>6, <2>7 DEF SentInv
<1>13. CellInv'
  BY <1>1 DEF IInv, CellInv, ChunksBelong, Entries
<1> QED
  BY <1>8, <1>9, <1>10, <1>11, <1>12, <1>13 DEF IInv

LEMMA ReconnectStep ==
  ASSUME IInv, NEW l \in Links, DaemonReconnects(l)
  PROVE  IInv'
<1>1. /\ \A m \in Links : ~Up(m) /\ (tgt[m].link = "new" <=> m >= l)
      /\ tgt' = [tgt EXCEPT ![l].link = "up"] /\ reg' = l
      /\ dmn' = [reas |-> <<>>, pend |-> NoConn]
      /\ UNCHANGED <<scn, cli, rel, wire, back, files, why>>
  BY DEF DaemonReconnects
<1>2. tgt \in [Links -> LinkType] /\ TypeOK
  BY TypeFacts DEF IInv
<1>3. /\ tgt' \in [Links -> LinkType]
      /\ \A m \in Links : /\ tgt'[m].q = tgt[m].q /\ tgt'[m].gone = tgt[m].gone /\ tgt'[m].qs = tgt[m].qs
                          /\ m # l => tgt'[m] = tgt[m]
      /\ tgt'[l].link = "up"
  BY <1>1, <1>2 DEF LinkType
<1>4. \A m \in Links : Up(m)' <=> m = l
  BY <1>1, <1>3 DEF Up
<1>5. wire = <<>> /\ \A i : i \notin DOMAIN wire
  BY <1>1 DEF IInv, LinkInv
<1>6. Entries' = {}
  <2>1. DOMAIN <<>> = {}
    OBVIOUS
  <2> QED
    BY <1>1, <2>1 DEF Entries
<1>7. /\ tgt[l].q = <<>> /\ reg # l
      /\ \A c \in Conns : rel[c].route # l
  <2>1. l >= l
    BY TransferAssumption DEF Links
  <2> QED
    BY <1>1, <2>1 DEF IInv, LinkInv
<1>8. TypeOK'
  <2>1. dmn' = [reas |-> [c \in Entries |-> dmn.reas[c]], pend |-> dmn.pend]'
    <3>1. DOMAIN <<>> = {} /\ <<>> = [c \in {} |-> <<>>[c]]
      OBVIOUS
    <3> QED
      BY <1>1, <1>6, <3>1
  <2>2. reg' \in 0 .. MaxLink
    BY <1>1, TransferAssumption DEF Links
  <2> QED
    BY <1>1, <1>2, <1>3, <1>6, <2>1, <2>2 DEF TypeOK, LinkType
<1>9. LinkInv'
  BY <1>1, <1>3, <1>4, <1>5 DEF IInv, LinkInv
<1>10. PairInv'
  BY <1>1, <1>5 DEF IInv, PairInv, Selected
<1>11. OnceInv'
  <2>1. ASSUME NEW c \in Conns, cli'[c].st = "idle" PROVE Untouched(c)'
    BY <1>1, <1>3, <1>6, <2>1 DEF IInv, OnceInv, IdleFresh, Untouched, OnWire, InQueue, HasResult
  <2> QED
    BY <1>1, <1>5, <1>6, <2>1, StreamsStand DEF IInv, OnceInv, IdleFresh, RestIdle, OnceOnly, NoSecond
<1>12. SentInv'
  <2>1. Handing'
    BY <1>1, StreamsStand DEF IInv, SentInv, Handing
  <2>2. FinalOnWire' /\ HeadersKnown' /\ ResultsLast'
    BY <1>1, <1>5, StreamsStand DEF IInv, SentInv, FinalOnWire, HeadersKnown, ResultsLast, HasFinal, HasResult
  <2>3. FinalQueued'
    <3>1. \A c \in Conns, m \in Links : HasFinal(tgt[m].q, c)' => HasFinal(tgt[m].q, c)
      BY <1>3 DEF HasFinal
    <3> QED
      BY <1>1, <3>1, StreamsStand DEF IInv, SentInv, FinalQueued
  <2>4. QueuesKnown'
    <3>1. \A c : ~InQueue(c, l)'
      BY <1>3, <1>7 DEF InQueue
    <3> QED
      BY <1>4, <3>1 DEF QueuesKnown
  <2>5. RoutesKnown'
    BY <1>1, <1>4, <1>7 DEF RoutesKnown
  <2>6. FinalEntered'
    BY <1>6 DEF FinalEntered
  <2>7. ClosedFor'
    BY <1>1, <1>3, StreamsStand DEF IInv, SentInv, ClosedFor
  <2> QED
    BY <2>1, <2>2, <2>3, <2>4, <2>5, <2>6, <2>7 DEF SentInv
<1>13. CellInv'
  BY <1>1, <1>6 DEF IInv, CellInv, ChunksBelong
<1> QED
  BY <1>8, <1>9, <1>10, <1>11, <1>12, <1>13 DEF IInv

---------------------------------------------------------------------------
(***************************************************************************)
(* The announcement of a stream.                                           *)
(***************************************************************************)

\* What RelayAnnounces does to the stream, and either nothing else, or the
\* route and the announcement.
LEMMA Announcing ==
  ASSUME IInv, NEW c \in Active, RelayAnnounces(c)
  PROVE  /\ cli[c].st = "idle" /\ c \in Conns
         /\ cli' \in [Conns -> ClientType] /\ \A d \in Conns : d # c => cli'[d] = cli[d]
         /\ cli'[c].next = 1 /\ cli'[c].st \in {"sending", "waiting"}
         /\ cli'[c].st = "sending" => ChunkSeqs(c) # <<>>
         /\ cli[c].reply # "none" => cli'[c].reply # "none"
         /\ UNCHANGED <<scn, reg, back, dmn, files, why>>
         /\ \/ UNCHANGED <<rel, tgt, wire>>
            \/ /\ reg # 0
               /\ rel' = [rel EXCEPT ![c] = [route |-> reg, took |-> "no", pend |-> TRUE]]
               /\ Write(reg, <<[k |-> "init", c |-> c, seq |-> 0, fin |-> FALSE]>>)
               /\ tgt' = Started(reg)
<1>1. c \in Conns /\ cli \in [Conns -> ClientType]
  BY StreamsAreConns, TypeFacts DEF IInv
<1>2. cli[c].st = "idle" /\ cli[c].next = 1
  BY <1>1 DEF IInv, OnceInv, IdleFresh, Untouched, RelayAnnounces
<1> DEFINE s == IF ChunkSeqs(c) = <<>> THEN "waiting" ELSE "sending"
           began == [cli[c] EXCEPT !.st = s]
           refused == [began EXCEPT !.reply = "err"]
<1>3. s \in {"sending", "waiting"} /\ (s = "sending" => ChunkSeqs(c) # <<>>)
  OBVIOUS
<1>4. \/ cli' = [cli EXCEPT ![c] = refused] /\ UNCHANGED <<rel, tgt, wire>>
      \/ /\ cli' = [cli EXCEPT ![c] = began] /\ reg # 0
         /\ rel' = [rel EXCEPT ![c] = [route |-> reg, took |-> "no", pend |-> TRUE]]
         /\ Write(reg, <<[k |-> "init", c |-> c, seq |-> 0, fin |-> FALSE]>>)
         /\ tgt' = Started(reg)
  BY DEF RelayAnnounces
<1> HIDE DEF s
<1>5. /\ began \in ClientType /\ began.st = s /\ began.next = 1 /\ began.reply = cli[c].reply
      /\ refused \in ClientType /\ refused.st = s /\ refused.next = 1 /\ refused.reply = "err"
  BY <1>1, <1>2, <1>3 DEF ClientType
<1> HIDE DEF began, refused
<1>6. /\ cli' \in [Conns -> ClientType] /\ \A d \in Conns : d # c => cli'[d] = cli[d]
      /\ cli'[c] = began \/ cli'[c] = refused
  BY <1>1, <1>4, <1>5
<1>7. UNCHANGED <<scn, reg, back, dmn, files, why>>
  BY DEF RelayAnnounces
<1> QED
  BY <1>1, <1>2, <1>3, <1>4, <1>5, <1>6, <1>7

LEMMA AnnounceStep ==
  ASSUME IInv, NEW c \in Active, RelayAnnounces(c)
  PROVE  IInv'
<1>1. /\ cli[c].st = "idle" /\ c \in Conns
      /\ cli' \in [Conns -> ClientType] /\ \A d \in Conns : d # c => cli'[d] = cli[d]
      /\ cli'[c].next = 1 /\ cli'[c].st \in {"sending", "waiting"}
      /\ cli'[c].st = "sending" => ChunkSeqs(c) # <<>>
      /\ cli[c].reply # "none" => cli'[c].reply # "none"
      /\ UNCHANGED <<scn, reg, back, dmn, files, why>>
  BY Announcing
<1>2. Untouched(c) /\ TypeOK
  BY <1>1 DEF IInv, OnceInv, IdleFresh
<1> DEFINE f == [k |-> "init", c |-> c, seq |-> 0, fin |-> FALSE]
<1>3. \/ UNCHANGED <<rel, tgt, wire>>
      \/ /\ reg \in Links
         /\ rel' = [rel EXCEPT ![c] = [route |-> reg, took |-> "no", pend |-> TRUE]]
         /\ Write(reg, <<f>>) /\ tgt' = Started(reg)
  BY <1>2, Announcing DEF TypeOK, Links
<1>4. /\ rel \in [Conns -> LoopType] /\ tgt \in [Links -> LinkType] /\ cli \in [Conns -> ClientType]
      /\ wire \in Seq(Frames) /\ Paired(wire)
  BY <1>2, TypeFacts DEF IInv, PairInv
<1>5. /\ rel' \in [Conns -> LoopType] /\ \A d \in Conns : d # c => rel'[d] = rel[d]
      /\ rel'[c].took = "no"
      /\ rel'[c].route = 0 \/ (rel'[c].route = reg /\ reg \in Links /\ Write(reg, <<f>>))
  <2>1. rel[c].took = "no" /\ rel[c].route = 0
    BY <1>1, <1>2 DEF TypeOK, Untouched
  <2>2. CASE rel' = rel
    BY <1>4, <2>1, <2>2
  <2>3. CASE reg \in Links /\ rel' = [rel EXCEPT ![c] = [route |-> reg, took |-> "no", pend |-> TRUE]] /\ Write(reg, <<f>>)
    <3>1. [route |-> reg, took |-> "no", pend |-> TRUE] \in LoopType
      BY <2>3, TransferAssumption DEF LoopType, Links
    <3> QED
      BY <1>1, <1>4, <2>3, <3>1
  <2> QED
    BY <1>3, <2>2, <2>3
<1>6. /\ tgt' \in [Links -> LinkType]
      /\ \A l \in Links : /\ tgt'[l].q = tgt[l].q /\ tgt'[l].link = tgt[l].link
                          /\ tgt'[l].gone = tgt[l].gone
                          /\ tgt'[l].qs = "closed" => tgt[l].qs = "closed"
  <2>1. CASE tgt' = tgt
    BY <1>4, <2>1
  <2>2. CASE reg \in Links /\ tgt[reg].qs = "none" /\ tgt' = [tgt EXCEPT ![reg].qs = "open"]
    BY <1>4, <2>2 DEF LinkType
  <2> QED
    BY <1>3, <2>1, <2>2 DEF Started
<1>7. /\ wire' \in Seq(Frames) /\ Paired(wire')
      /\ \A i \in DOMAIN wire : i \in DOMAIN wire' /\ wire'[i] = wire[i]
      /\ \A i \in DOMAIN wire' : i \in DOMAIN wire \/ (i = Len(wire) + 1 /\ wire'[i] = f)
      /\ wire' = wire \/ (Len(wire') = Len(wire) + 1 /\ \E l \in Links : Up(l))
      /\ reg \in Links /\ Up(reg) /\ rel' # rel => \E i \in DOMAIN wire' : wire'[i] = f
  <2>1. CASE wire' = wire /\ ~(reg \in Links /\ Up(reg) /\ rel' # rel)
    BY <1>4, <2>1
  <2>2. CASE reg \in Links /\ Up(reg) /\ wire' = wire \o <<f>>
    <3>1. /\ wire' \in Seq(Frames) /\ Len(wire') = Len(wire) + 1 /\ Paired(wire')
          /\ \A i \in DOMAIN wire : i \in DOMAIN wire' /\ wire'[i] = wire[i]
          /\ \A i \in DOMAIN wire' : i \in DOMAIN wire \/ i = Len(wire) + 1
          /\ wire'[Len(wire) + 1] = f
      BY <1>1, <1>4, <2>2, WireInit
    <3>2. Len(wire) + 1 \in DOMAIN wire'
      BY <1>4, <3>1
    <3> QED
      BY <2>2, <3>1, <3>2
  <2> QED
    BY <1>3, <2>1, <2>2 DEF Write
<1>8. \A l \in Links : Up(l)' <=> Up(l)
  BY <1>6 DEF Up
<1>9. Entries' = Entries /\ Active' = Active
  BY <1>1, ChunkSeqsSame DEF Entries
<1>10. \A d \in Conns : AllSent(d)' <=> AllSent(d)
  BY <1>1, <1>2, ChunkSeqsSame DEF AllSent, Untouched
<1>11. TypeOK'
  <2>1. \A d \in Conns : rel'[d].took # "no" => rel'[d].route # 0
    BY <1>2, <1>5 DEF TypeOK
  <2> QED
    BY <1>1, <1>2, <1>5, <1>6, <1>7, <1>9, <2>1 DEF TypeOK, ClientType, LoopType, LinkType
<1>12. LinkInv'
  <2>1. wire' # <<>> => \E l \in Links : Up(l)'
    BY <1>7, <1>8 DEF IInv, LinkInv
  <2>2. ASSUME NEW l \in Links, tgt[l].link = "new", NEW d \in Conns PROVE rel'[d].route # l
    <3>1. l # 0 /\ reg # l /\ rel[d].route # l
      BY <2>2, TransferAssumption DEF IInv, LinkInv, Links
    <3> QED
      BY <1>5, <3>1
  <2> QED
    BY <1>1, <1>6, <1>8, <2>1, <2>2 DEF IInv, LinkInv
<1>13. PairInv'
  <2>1. SUFFICES ASSUME dmn.pend # NoConn PROVE Selected'
    BY <1>1, <1>7 DEF PairInv, Selected
  <2>2. CASE wire = <<>>
    BY <1>1, <1>7, <1>8, <1>9, <2>1, <2>2 DEF IInv, PairInv, Selected
  <2>3. CASE wire # <<>>
    <3>1. 1 \in DOMAIN wire
      BY <1>4, <2>3
    <3>2. wire' # <<>> /\ wire'[1] = wire[1]
      BY <1>7, <3>1
    <3> QED
      BY <1>1, <1>9, <2>1, <2>3, <3>2 DEF IInv, PairInv, Selected
  <2> QED
    BY <2>2, <2>3
<1>14. OnceInv'
  <2>1. ASSUME NEW d \in Conns, cli'[d].st = "idle" PROVE Untouched(d)'
    <3>1. d # c /\ cli'[d] = cli[d] /\ rel'[d] = rel[d]
      BY <1>1, <1>5, <2>1
    <3>2. Untouched(d)
      BY <2>1, <3>1 DEF IInv, OnceInv, IdleFresh
    <3>3. ~OnWire(d)'
      BY <1>7, <3>1, <3>2 DEF Untouched, OnWire
    <3> QED
      BY <1>1, <1>6, <1>9, <3>1, <3>2, <3>3 DEF Untouched, InQueue, HasResult
  <2>2. RestIdle'
    BY <1>1, <1>9 DEF IInv, OnceInv, RestIdle
  <2>3. OnceOnly(wire')
    BY <1>2, <1>7 DEF IInv, OnceInv, OnceOnly, Untouched, OnWire
  <2>4. NoSecond'
    <3>1. ASSUME NEW d \in Entries, InitOnWire(d)' PROVE FALSE
      <4>1. d # c /\ ~InitOnWire(d)
        BY <1>2 DEF IInv, OnceInv, NoSecond, Untouched
      <4> QED
        BY <1>7, <3>1, <4>1 DEF InitOnWire
    <3> QED
      BY <1>9, <3>1 DEF NoSecond
  <2> QED
    BY <2>1, <2>2, <2>3, <2>4 DEF OnceInv, IdleFresh
<1>15. SentInv'
  <2>1. \A d \in Conns : Known(d) => Known(d)'
    BY <1>7, <1>9, <1>10 DEF Known, InitOnWire
  <2>2. Handing'
    <3>1. cli'[c].st = "sending" => ~AllSent(c)'
      <4>1. ChunkSeqs(c)' = ChunkSeqs(c) /\ ChunkSeqs(c) \in Seq(Nat \ {0})
        BY <1>1, <1>2, ChunkSeqsSame, ChunkSeqsType
      <4>2. ChunkSeqs(c) # <<>> => Len(ChunkSeqs(c)) >= 1
        BY <4>1
      <4> QED
        BY <1>1, <4>1, <4>2 DEF AllSent
    <3> QED
      BY <1>1, <1>5, <1>10, <3>1 DEF IInv, SentInv, Handing
  <2>3. FinalOnWire'
    <3>1. \A d : HasFinal(wire, d)' => HasFinal(wire, d)
      BY <1>7 DEF HasFinal
    <3> QED
      BY <1>10, <3>1 DEF IInv, SentInv, FinalOnWire
  <2>4. HeadersKnown'
    <3>1. ASSUME NEW d \in Conns, NEW i \in DOMAIN wire', wire'[i].c = d, wire'[i].k = "hdr"
          PROVE  KnownAt(d, i)'
      <4>1. i \in DOMAIN wire /\ wire'[i] = wire[i]
        BY <1>7, <3>1
      <4>2. KnownAt(d, i)
        BY <3>1, <4>1 DEF IInv, SentInv, HeadersKnown
      <4> QED
        BY <1>7, <1>9, <1>10, <4>2 DEF KnownAt
    <3> QED
      BY <3>1 DEF HeadersKnown
  <2>5. FinalQueued' /\ QueuesKnown'
    BY <1>6, <1>8, <1>10, <2>1 DEF IInv, SentInv, FinalQueued, QueuesKnown, HasFinal, InQueue
  <2>6. RoutesKnown'
    <3>1. ASSUME NEW d \in Conns, NEW l \in Links, rel'[d].route = l, Up(l) PROVE Known(d)'
      <4>1. CASE rel'[d] = rel[d]
        BY <2>1, <3>1, <4>1 DEF IInv, SentInv, RoutesKnown
      <4>2. CASE rel'[d] # rel[d]
        <5>1. d = c /\ rel' # rel /\ l # 0
          BY <1>5, <4>2, TransferAssumption DEF Links
        <5>2. l = reg /\ reg \in Links
          BY <1>5, <3>1, <5>1
        <5>3. PICK i \in DOMAIN wire' : wire'[i] = f
          BY <1>7, <3>1, <5>1, <5>2
        <5> QED
          BY <5>1, <5>3 DEF Known, InitOnWire
      <4> QED
        BY <4>1, <4>2
    <3> QED
      BY <1>8, <3>1 DEF RoutesKnown
  <2>7. FinalEntered' /\ ResultsLast'
    BY <1>1, <1>9, <1>10, StreamsNamed DEF IInv, SentInv, FinalEntered, ResultsLast, HasResult
  <2>8. ClosedFor'
    <3>1. \A d \in Conns : Answered(d) => Answered(d)'
      BY <1>1, <1>9, <1>10 DEF Answered
    <3> QED
      BY <1>6, <3>1 DEF IInv, SentInv, ClosedFor
  <2> QED
    BY <2>2, <2>3, <2>4, <2>5, <2>6, <2>7, <2>8 DEF SentInv
<1>16. CellInv'
  BY <1>1, <1>9 DEF IInv, CellInv, ChunksBelong
<1> QED
  BY <1>11, <1>12, <1>13, <1>14, <1>15, <1>16 DEF IInv

---------------------------------------------------------------------------
(***************************************************************************)
(* Results.                                                                *)
(***************************************************************************)

\* What handleFileTransferResult does for the result r of a pending stream.
LEMMA Resulting ==
  ASSUME IInv, NEW r \in Results, rel[r.c].pend,
         rel' = [rel EXCEPT ![r.c].pend = FALSE],
         NEW s \in {"ok", "err"}, cli' = [cli EXCEPT ![r.c] = Reply(r.c, s)],
         tgt' = CloseQueue(r.l)
  PROVE  /\ cli' \in [Conns -> ClientType] /\ rel' \in [Conns -> LoopType] /\ tgt' \in [Links -> LinkType]
         /\ \A c \in Conns : /\ cli'[c].next = cli[c].next /\ cli'[c].st = cli[c].st
                             /\ cli[c].reply # "none" => cli'[c].reply # "none"
                             /\ rel'[c].route = rel[c].route /\ rel'[c].took = rel[c].took
                             /\ rel'[c].pend => rel[c].pend
         /\ cli'[r.c].reply # "none"
         /\ \A l \in Links : /\ tgt'[l].q = tgt[l].q /\ tgt'[l].link = tgt[l].link
                             /\ tgt'[l].gone = tgt[l].gone
                             /\ l # r.l => tgt'[l] = tgt[l]
<1>1. /\ cli \in [Conns -> ClientType] /\ rel \in [Conns -> LoopType] /\ tgt \in [Links -> LinkType]
      /\ r.c \in Conns /\ r.l \in Links
  BY TypeFacts DEF IInv, Results
<1>2. /\ rel' \in [Conns -> LoopType]
      /\ \A c \in Conns : /\ rel'[c].route = rel[c].route /\ rel'[c].took = rel[c].took
                          /\ rel'[c].pend => rel[c].pend
  BY <1>1 DEF LoopType
<1>3. /\ tgt' \in [Links -> LinkType]
      /\ \A l \in Links : /\ tgt'[l].q = tgt[l].q /\ tgt'[l].link = tgt[l].link
                          /\ tgt'[l].gone = tgt[l].gone
                          /\ l # r.l => tgt'[l] = tgt[l]
  BY <1>1 DEF CloseQueue, LinkType
<1>4. PICK g \in ClientType : /\ g = Reply(r.c, s) /\ g.next = cli[r.c].next /\ g.st = cli[r.c].st
                              /\ g.reply # "none"
  BY <1>1 DEF Reply, ClientType
<1>5. /\ cli' \in [Conns -> ClientType]
      /\ \A c \in Conns : cli'[c] = IF c = r.c THEN g ELSE cli[c]
  BY <1>1, <1>4
<1> QED
  BY <1>1, <1>2, <1>3, <1>4, <1>5

LEMMA ResultStep ==
  ASSUME IInv, RelayRelaysResult
  PROVE  IInv'
<1>1. /\ UNCHANGED <<scn, reg, wire, dmn, files, why>>
      /\ back # <<>> /\ back' = Tail(back) /\ TypeOK /\ back \in Seq(Results)
  BY TypeFacts DEF IInv, RelayRelaysResult
<1>2. /\ back' \in Seq(Results) /\ 1 \in DOMAIN back /\ Head(back) \in Results /\ Head(back) = back[1]
      /\ \A i \in DOMAIN back' : i + 1 \in DOMAIN back /\ back'[i] = back[i + 1]
  BY <1>1
<1>3. PICK r \in Results : r = Head(back)
  BY <1>2
<1>4. HasResult(r.c) /\ r.c \in Conns
  BY <1>2, <1>3 DEF HasResult, Results
<1>5. AllSent(r.c) /\ r.c \in Active
  BY <1>4 DEF IInv, SentInv, ResultsLast, OnceInv, IdleFresh, RestIdle, Untouched
<1>6. \A c : HasResult(c)' => HasResult(c)
  BY <1>2 DEF HasResult
<1>7. /\ cli' \in [Conns -> ClientType] /\ rel' \in [Conns -> LoopType] /\ tgt' \in [Links -> LinkType]
      /\ \A c \in Conns : /\ cli'[c].next = cli[c].next /\ cli'[c].st = cli[c].st
                          /\ cli[c].reply # "none" => cli'[c].reply # "none"
                          /\ rel'[c].route = rel[c].route /\ rel'[c].took = rel[c].took
                          /\ rel'[c].pend => rel[c].pend
      /\ \A l \in Links : /\ tgt'[l].q = tgt[l].q /\ tgt'[l].link = tgt[l].link
                          /\ tgt'[l].gone = tgt[l].gone
      /\ tgt' = tgt \/ (cli'[r.c].reply # "none" /\ \A l \in Links : l # r.l => tgt'[l] = tgt[l])
  <2>1. CASE rel[r.c].pend
    <3>1. PICK s \in {"ok", "err"} : cli' = [cli EXCEPT ![r.c] = Reply(r.c, s)]
      BY <1>3, <2>1 DEF RelayRelaysResult
    <3>2. rel' = [rel EXCEPT ![r.c].pend = FALSE] /\ tgt' = CloseQueue(r.l)
      BY <1>3, <2>1 DEF RelayRelaysResult
    <3> QED
      BY <2>1, <3>1, <3>2, Resulting
  <2>2. CASE ~rel[r.c].pend
    <3>1. UNCHANGED <<rel, cli, tgt>>
      BY <1>3, <2>2 DEF RelayRelaysResult
    <3> QED
      BY <1>1, <3>1, TypeFacts
  <2> QED
    BY <2>1, <2>2
<1>8. Active' = Active /\ Entries' = Entries
  BY <1>1, ChunkSeqsSame DEF Entries
<1>9. \A c \in Conns : AllSent(c)' <=> AllSent(c)
  BY <1>1, <1>7, ChunkSeqsSame DEF AllSent
<1>10. \A l \in Links : Up(l)' <=> Up(l)
  BY <1>7 DEF Up
<1>11. TypeOK'
  <2>1. /\ scn' \in Scenarios /\ reg' \in 0 .. MaxLink /\ wire' \in Seq(Frames)
        /\ Entries' \subseteq Conns /\ dmn'.pend \in Conns \cup {NoConn}
        /\ (dmn = [reas |-> [c \in Entries |-> dmn.reas[c]], pend |-> dmn.pend])'
        /\ \A c \in Entries' : dmn'.reas[c] \in EntryType
        /\ files' \in [Dsts -> Seq(Cells)] /\ why' \in [Transfers -> SUBSET Causes]
    BY <1>1, <1>8 DEF TypeOK
  <2>2. /\ \A l \in Links : Len(tgt'[l].q) <= QueueCap
        /\ \A c \in Conns : rel'[c].took # "no" => rel'[c].route # 0
    <3>1. /\ \A l \in Links : Len(tgt[l].q) <= QueueCap
          /\ \A c \in Conns : rel[c].took # "no" => rel[c].route # 0
      BY <1>1 DEF TypeOK
    <3> QED
      BY <1>7, <3>1
  <2>3. back' \in Seq([c : Conns, ok : BOOLEAN, l : Links])
    BY <1>2 DEF Results
  <2>4. /\ cli' \in [Conns -> [st : {"idle", "sending", "waiting", "ok", "err", "dead"},
                              next : Nat \ {0}, reply : {"none", "ok", "err"}]]
        /\ rel' \in [Conns -> [route : 0 .. MaxLink, took : {"no", "queue", "sync"}, pend : BOOLEAN]]
        /\ tgt' \in [Links -> [link : {"new", "up", "down"}, gone : BOOLEAN, q : Seq(Queued),
                              qs : {"none", "open", "closed"}, werr : BOOLEAN]]
    BY <1>7 DEF ClientType, LoopType, LinkType
  <2> QED
    BY <2>1, <2>2, <2>3, <2>4 DEF TypeOK
<1>12. LinkInv'
  BY <1>1, <1>7, <1>10 DEF IInv, LinkInv
<1>13. PairInv'
  BY <1>1, <1>8, <1>10 DEF IInv, PairInv, Selected
<1>14. OnceInv'
  <2>1. ASSUME NEW c \in Conns, cli'[c].st = "idle" PROVE Untouched(c)'
    <3>1. Untouched(c)
      BY <1>7, <2>1 DEF IInv, OnceInv, IdleFresh
    <3> QED
      BY <1>1, <1>6, <1>7, <1>8, <3>1 DEF Untouched, OnWire, InQueue
  <2>2. RestIdle' /\ NoSecond'
    BY <1>1, <1>7, <1>8 DEF IInv, OnceInv, RestIdle, NoSecond, InitOnWire
  <2> QED
    BY <1>1, <2>1, <2>2 DEF IInv, OnceInv, IdleFresh
<1>15. SentInv'
  <2>1. \A c \in Conns : Known(c)' <=> Known(c)
    BY <1>1, <1>8, <1>9 DEF Known, InitOnWire
  <2>2. Handing'
    BY <1>7, <1>9 DEF IInv, SentInv, Handing
  <2>3. FinalOnWire' /\ HeadersKnown'
    BY <1>1, <1>8, <1>9 DEF IInv, SentInv, FinalOnWire, HeadersKnown, HasFinal, KnownAt
  <2>4. FinalQueued' /\ QueuesKnown'
    BY <1>7, <1>9, <1>10, <2>1 DEF IInv, SentInv, FinalQueued, QueuesKnown, HasFinal, InQueue
  <2>5. RoutesKnown'
    BY <1>7, <1>10, <2>1 DEF IInv, SentInv, RoutesKnown
  <2>6. FinalEntered' /\ ResultsLast'
    BY <1>1, <1>6, <1>8, <1>9, StreamsNamed DEF IInv, SentInv, FinalEntered, ResultsLast
  <2>7. ClosedFor'
    <3>1. \A c \in Conns : Answered(c) => Answered(c)'
      BY <1>7, <1>8, <1>9 DEF Answered
    <3>2. CASE tgt' = tgt
      BY <3>1, <3>2 DEF IInv, SentInv, ClosedFor
    <3>3. CASE cli'[r.c].reply # "none"
      BY <1>4, <1>5, <1>8, <1>9, <3>3 DEF ClosedFor, Answered
    <3> QED
      BY <1>7, <3>2, <3>3
  <2> QED
    BY <2>2, <2>3, <2>4, <2>5, <2>6, <2>7 DEF SentInv
<1>16. CellInv'
  BY <1>1, <1>8 DEF IInv, CellInv, ChunksBelong
<1> QED
  BY <1>11, <1>12, <1>13, <1>14, <1>15, <1>16 DEF IInv

---------------------------------------------------------------------------
(***************************************************************************)
(* The daemon: it reads a frame, may learn of a stream, and forgets one    *)
(* only when its last chunk was sent.                                      *)
(***************************************************************************)

LEMMA Reading ==
  ASSUME IInv, UNCHANGED <<scn, cli, rel, tgt, reg>>,
         wire # <<>>, wire' = Tail(wire), TypeOK', Selected', CellInv',
         \A c \in Entries : c \in Entries' \/ AllSent(c),
         wire[1].k = "init" => wire[1].c \in Entries',
         \A c \in Entries' : c \in Entries \/ (wire[1].k = "init" /\ c = wire[1].c),
         FinalEntered',
         \A c \in Conns : HasResult(c)' => HasResult(c) \/ (AllSent(c) /\ cli[c].st # "idle")
  PROVE  IInv'
<1>1. wire \in Seq(Frames) /\ Paired(wire) /\ OnceOnly(wire) /\ TypeOK
  BY TypeFacts DEF IInv, PairInv, OnceInv
<1>2. /\ 1 \in DOMAIN wire
      /\ \A i \in DOMAIN wire' : i \in Nat \ {0} /\ i + 1 \in DOMAIN wire /\ wire'[i] = wire[i + 1]
      /\ \A i \in DOMAIN wire : i # 1 => i - 1 \in DOMAIN wire' /\ wire'[i - 1] = wire[i]
      /\ Paired(wire') /\ OnceOnly(wire')
  BY <1>1, WireTail
<1>3. \A c \in Conns : AllSent(c)' <=> AllSent(c)
  BY StreamsStand
<1>4. \A l \in Links : Up(l)' <=> Up(l)
  BY DEF Up
<1>5. \A i \in DOMAIN wire : i \in Nat /\ i >= 1
  BY <1>1
<1>6. LinkInv'
  BY <1>4 DEF IInv, LinkInv
<1>7. PairInv'
  BY <1>2 DEF PairInv
<1>8. OnceInv'
  <2>1. ASSUME NEW c \in Conns, cli'[c].st = "idle" PROVE Untouched(c)'
    <3>1. Untouched(c) /\ cli[c].st = "idle"
      BY <2>1 DEF IInv, OnceInv, IdleFresh
    <3>2. ~OnWire(c)' /\ c \notin Entries'
      BY <1>2, <3>1 DEF Untouched, OnWire
    <3> QED
      BY <3>1, <3>2 DEF Untouched, InQueue
  <2>2. RestIdle'
    BY ChunkSeqsSame DEF IInv, OnceInv, RestIdle
  <2>3. NoSecond'
    <3>1. ASSUME NEW c \in Entries', NEW i \in DOMAIN wire', wire'[i].c = c, wire'[i].k = "init"
          PROVE  FALSE
      <4>1. i + 1 \in DOMAIN wire /\ i + 1 # 1 /\ wire[i + 1].c = c /\ wire[i + 1].k = "init"
        BY <1>2, <3>1
      <4>2. CASE c \in Entries
        BY <4>1, <4>2 DEF IInv, OnceInv, NoSecond, InitOnWire
      <4>3. CASE wire[1].k = "init" /\ c = wire[1].c
        BY <1>1, <1>2, <4>1, <4>3 DEF OnceOnly
      <4> QED
        BY <4>2, <4>3
    <3> QED
      BY <3>1 DEF NoSecond, InitOnWire
  <2> QED
    BY <1>2, <2>1, <2>2, <2>3 DEF OnceInv, IdleFresh
<1>9. SentInv'
  <2>1. ASSUME NEW c \in Conns, Known(c) PROVE Known(c)'
    <3>1. CASE c \in Entries \/ AllSent(c)
      BY <1>3, <3>1 DEF Known
    <3>2. CASE InitOnWire(c)
      <4>1. PICK i \in DOMAIN wire : wire[i].c = c /\ wire[i].k = "init"
        BY <3>2 DEF InitOnWire
      <4>2. CASE i = 1
        BY <4>1, <4>2 DEF Known
      <4>3. CASE i # 1
        BY <1>2, <4>1, <4>3 DEF Known, InitOnWire
      <4> QED
        BY <4>2, <4>3
    <3> QED
      BY <2>1, <3>1, <3>2 DEF Known
  <2>2. Handing'
    BY <1>3 DEF IInv, SentInv, Handing
  <2>3. FinalOnWire'
    <3>1. \A c : HasFinal(wire, c)' => HasFinal(wire, c)
      BY <1>2 DEF HasFinal
    <3> QED
      BY <1>3, <3>1 DEF IInv, SentInv, FinalOnWire
  <2>4. HeadersKnown'
    <3>1. ASSUME NEW c \in Conns, NEW i \in DOMAIN wire', wire'[i].c = c, wire'[i].k = "hdr"
          PROVE  KnownAt(c, i)'
      <4>1. PICK m \in DOMAIN wire : m = i + 1
        BY <1>2
      <4>2. KnownAt(c, m)
        BY <1>2, <3>1, <4>1 DEF IInv, SentInv, HeadersKnown
      <4>3. CASE c \in Entries \/ AllSent(c)
        BY <1>3, <4>3 DEF KnownAt
      <4>4. CASE \E j \in DOMAIN wire : j < m /\ wire[j].c = c /\ wire[j].k = "init"
        <5>1. PICK j \in DOMAIN wire : j < m /\ wire[j].c = c /\ wire[j].k = "init"
          BY <4>4
        <5>2. CASE j = 1
          BY <5>1, <5>2 DEF KnownAt
        <5>3. CASE j # 1
          <6>1. j - 1 \in DOMAIN wire' /\ wire'[j - 1] = wire[j] /\ j - 1 < i
            BY <1>2, <1>5, <4>1, <5>1, <5>3
          <6> QED
            BY <5>1, <6>1 DEF KnownAt
        <5> QED
          BY <5>2, <5>3
      <4> QED
        BY <4>2, <4>3, <4>4 DEF KnownAt
    <3> QED
      BY <3>1 DEF HeadersKnown
  <2>5. FinalQueued' /\ QueuesKnown'
    BY <1>3, <1>4, <2>1 DEF IInv, SentInv, FinalQueued, QueuesKnown, HasFinal, InQueue
  <2>6. RoutesKnown'
    BY <1>4, <2>1 DEF IInv, SentInv, RoutesKnown
  <2>7. ResultsLast'
    BY <1>3 DEF IInv, SentInv, ResultsLast
  <2>8. ClosedFor'
    BY StreamsStand DEF IInv, SentInv, ClosedFor
  <2> QED
    BY <2>2, <2>3, <2>4, <2>5, <2>6, <2>7, <2>8 DEF SentInv
<1> QED
  BY <1>6, <1>7, <1>8, <1>9 DEF IInv

\* The daemon's table with one more entry, or one less.
LEMMA TableFacts ==
  ASSUME NEW r, NEW p, dmn' = [reas |-> r, pend |-> p], r = [d \in DOMAIN r |-> r[d]]
  PROVE  /\ Entries' = DOMAIN r /\ dmn'.pend = p /\ dmn'.reas = r
         /\ dmn' = [reas |-> [d \in Entries |-> dmn.reas[d]], pend |-> dmn.pend]'
  BY DEF Entries

LEMMA TableWith ==
  ASSUME NEW c, NEW e, NEW p, dmn' = [reas |-> WithEntry(c, e), pend |-> p]
  PROVE  /\ Entries' = Entries \cup {c} /\ dmn'.pend = p
         /\ dmn'.reas[c] = e /\ \A d \in Entries : d # c => dmn'.reas[d] = dmn.reas[d]
         /\ dmn' = [reas |-> [d \in Entries |-> dmn.reas[d]], pend |-> dmn.pend]'
<1>1. PICK r : r = WithEntry(c, e)
  OBVIOUS
<1>2. DOMAIN r = Entries \cup {c} /\ r = [d \in DOMAIN r |-> r[d]]
  BY <1>1 DEF WithEntry
<1>3. /\ Entries' = DOMAIN r /\ dmn'.pend = p /\ dmn'.reas = r
      /\ dmn' = [reas |-> [d \in Entries |-> dmn.reas[d]], pend |-> dmn.pend]'
  BY <1>1, <1>2, TableFacts
<1>4. r[c] = e /\ \A d \in Entries : d # c => r[d] = dmn.reas[d]
  BY <1>1 DEF WithEntry
<1>5. Entries' = Entries \cup {c}
  BY <1>2, <1>3
<1>6. dmn'.reas[c] = e /\ \A d \in Entries : d # c => dmn'.reas[d] = dmn.reas[d]
  BY <1>3, <1>4
<1> QED
  BY <1>3, <1>5, <1>6

LEMMA TableWithout ==
  ASSUME NEW c, NEW p, dmn' = [reas |-> Without(c), pend |-> p]
  PROVE  /\ Entries' = Entries \ {c} /\ dmn'.pend = p
         /\ \A d \in Entries : d # c => dmn'.reas[d] = dmn.reas[d]
         /\ dmn' = [reas |-> [d \in Entries |-> dmn.reas[d]], pend |-> dmn.pend]'
<1>1. PICK r : r = Without(c)
  OBVIOUS
<1>2. DOMAIN r = Entries \ {c} /\ r = [d \in DOMAIN r |-> r[d]]
  BY <1>1 DEF Without
<1>3. /\ Entries' = DOMAIN r /\ dmn'.pend = p /\ dmn'.reas = r
      /\ dmn' = [reas |-> [d \in Entries |-> dmn.reas[d]], pend |-> dmn.pend]'
  BY <1>1, <1>2, TableFacts
<1>4. \A d \in Entries : d # c => r[d] = dmn.reas[d]
  BY <1>1 DEF Without
<1>5. Entries' = Entries \ {c}
  BY <1>2, <1>3
<1>6. \A d \in Entries : d # c => dmn'.reas[d] = dmn.reas[d]
  BY <1>3, <1>4
<1> QED
  BY <1>3, <1>5, <1>6

\* What holds of every entry still does when all are as before, or gone, but
\* the one of c.
LEMMA EntriesKept ==
  ASSUME IInv, UNCHANGED <<scn, cli>>, NEW c \in Conns, Entries' \subseteq Entries \cup {c},
         \A d \in Entries' : d # c => dmn'.reas[d] = dmn.reas[d],
         c \in Entries' => /\ dmn'.reas[c] \in EntryType /\ OwnChunks(c, dmn'.reas[c].buf)
                           /\ dmn'.reas[c].fin => AllSent(c)
  PROVE  /\ \A d \in Entries' : d \in Conns /\ dmn'.reas[d] \in EntryType
         /\ \A d \in Entries' : OwnChunks(d, dmn'.reas[d].buf)
         /\ FinalEntered'
<1>1. ASSUME NEW d \in Entries'
      PROVE  /\ d \in Conns /\ dmn'.reas[d] \in EntryType /\ OwnChunks(d, dmn'.reas[d].buf)
             /\ dmn'.reas[d].fin => AllSent(d)
  <2>1. CASE d = c
    BY <2>1
  <2>2. CASE d # c
    <3>1. d \in Entries /\ dmn'.reas[d] = dmn.reas[d]
      BY <2>2
    <3> QED
      BY <3>1 DEF IInv, TypeOK, CellInv, SentInv, FinalEntered
  <2> QED
    BY <2>1, <2>2
<1>2. FinalEntered'
  BY <1>1, StreamsStand DEF FinalEntered
<1> QED
  BY <1>1, <1>2

\* What a file may hold: ChunksBelong, file by file.
FileBelongs(d, f) ==
  \A i \in DOMAIN f :
    \/ f[i] \in {Zero, Old}
    \/ scn.dst[f[i][1]] = d /\ (scn.mode[f[i][1]] = "par" => f[i][2] = i)

LEMMA FileByFile ==
  /\ ChunksBelong <=> \A d \in Dsts : FileBelongs(d, files[d])
  /\ scn' = scn => \A d, f : FileBelongs(d, f)' <=> FileBelongs(d, f')
  /\ scn' = scn /\ files' = files => (ChunksBelong' <=> ChunksBelong)
<1>1. ChunksBelong <=> \A d \in Dsts : FileBelongs(d, files[d])
  BY DEF ChunksBelong, FileBelongs
<1>2. scn' = scn /\ files' = files => (ChunksBelong' <=> ChunksBelong)
  BY DEF ChunksBelong
<1> QED
  BY <1>1, <1>2 DEF FileBelongs

\* One file gets new contents.
LEMMA FileSet ==
  ASSUME TypeOK, ChunksBelong, scn' = scn, NEW d \in Dsts, NEW g \in Seq(Cells), FileBelongs(d, g),
         files' = [files EXCEPT ![d] = g]
  PROVE  files' \in [Dsts -> Seq(Cells)] /\ ChunksBelong'
<1>1. files \in [Dsts -> Seq(Cells)]
  BY DEF TypeOK
<1>2. /\ files' \in [Dsts -> Seq(Cells)] /\ files'[d] = g
      /\ \A m \in Dsts : m # d => files'[m] = files[m]
  BY <1>1
<1>3. ASSUME NEW m \in Dsts PROVE FileBelongs(m, files'[m])
  BY <1>2, FileByFile
<1>4. ChunksBelong'
  BY <1>3 DEF FileBelongs, ChunksBelong
<1> QED
  BY <1>2, <1>4

\* A chunk is written, or kept in the buffer.
LEMMA WriteFacts ==
  ASSUME TypeOK, CellInv, NEW c \in Entries, NEW n \in Nat \ {0}, dmn.reas[c].seq = n,
         NEW w, w = Written(c, dmn.reas[c], Data(c, n)) \/ w = Unwritten(c, dmn.reas[c], Data(c, n))
  PROVE  /\ w[1] \in EntryType /\ w[2] \in Seq(Cells)
         /\ w[1].fin = dmn.reas[c].fin /\ OwnChunks(c, w[1].buf)
         /\ FileBelongs(Dst(c), w[2])
<1> DEFINE cell == Data(c, n)
           f == files[Dst(c)]
<1>1. c \in Conns /\ Dst(c) \in Dsts /\ c[1] \in Transfers
  BY ConnFacts DEF TypeOK
<1>2. cell \in Cells /\ cell[1] = c[1] /\ cell[2] = n
  BY <1>1 DEF Data, Cells
<1>3. f \in Seq(Cells) /\ FileBelongs(Dst(c), f)
  BY <1>1, FileByFile DEF TypeOK, CellInv
<1>4. PICK e \in EntryType : e = dmn.reas[c] /\ OwnChunks(c, e.buf)
  BY DEF TypeOK, CellInv
<1>5. scn.dst[c[1]] = Dst(c) /\ (scn.mode[c[1]] = "par" <=> Mode(c) = "par")
  BY DEF Dst, Mode
<1>6. w = Written(c, e, cell) \/ w = Unwritten(c, e, cell)
  BY <1>4
<1> HIDE DEF cell
<1>7. /\ [e EXCEPT !.buf = Append(@, cell)] \in EntryType
      /\ [e EXCEPT !.buf = Append(@, cell)].fin = e.fin
      /\ OwnChunks(c, [e EXCEPT !.buf = Append(@, cell)].buf)
  <2>0. e.buf \in Seq(Cells)
    BY DEF EntryType
  <2>1. PICK b \in Seq(Cells) : b = Append(e.buf, cell)
    BY <1>2, <2>0, AppendProperties
  <2>2. OwnChunks(c, b)
    BY <1>2, <1>4, <2>1 DEF OwnChunks, EntryType
  <2>3. [e EXCEPT !.buf = b] \in EntryType /\ [e EXCEPT !.buf = b].fin = e.fin /\ [e EXCEPT !.buf = b].buf = b
    BY DEF EntryType
  <2>4. [e EXCEPT !.buf = b] = [e EXCEPT !.buf = Append(@, cell)]
    BY <2>1 DEF EntryType
  <2> QED
    BY <2>2, <2>3, <2>4
<1>8. CASE w = <<[e EXCEPT !.buf = Append(@, cell)], f>>
  BY <1>3, <1>4, <1>7, <1>8
<1>9. CASE Mode(c) = "par" /\ w = <<e, PutCell(f, Offset(e), cell)>>
  <2>1. Offset(e) = n
    BY <1>4 DEF Offset
  <2>2. /\ PutCell(f, n, cell) \in Seq(Cells)
        /\ \A i \in DOMAIN PutCell(f, n, cell) :
             \/ PutCell(f, n, cell)[i] = Zero
             \/ i = n /\ PutCell(f, n, cell)[i] = cell
             \/ i \in DOMAIN f /\ PutCell(f, n, cell)[i] = f[i]
    BY <1>2, <1>3, PutCellFacts
  <2> HIDE DEF f
  <2>3. FileBelongs(Dst(c), PutCell(f, n, cell))
    BY <1>2, <1>3, <1>5, <2>2 DEF FileBelongs
  <2> QED
    BY <1>4, <1>9, <2>1, <2>2, <2>3
<1>10. CASE Mode(c) # "par" /\ w = <<[e EXCEPT !.off = @ + 1], PutCell(f, e.off, cell)>>
  <2>1. PICK m \in Nat \ {0} : m = e.off
    BY DEF EntryType
  <2>2. /\ PutCell(f, m, cell) \in Seq(Cells)
        /\ \A i \in DOMAIN PutCell(f, m, cell) :
             \/ PutCell(f, m, cell)[i] = Zero
             \/ i = m /\ PutCell(f, m, cell)[i] = cell
             \/ i \in DOMAIN f /\ PutCell(f, m, cell)[i] = f[i]
    BY <1>2, <1>3, PutCellFacts
  <2> HIDE DEF f
  <2>3. FileBelongs(Dst(c), PutCell(f, m, cell))
    BY <1>2, <1>3, <1>5, <1>10, <2>2 DEF FileBelongs
  <2>4. /\ [e EXCEPT !.off = @ + 1] \in EntryType /\ [e EXCEPT !.off = @ + 1].fin = e.fin
        /\ [e EXCEPT !.off = @ + 1].buf = e.buf
    BY DEF EntryType
  <2> QED
    BY <1>4, <1>10, <2>1, <2>2, <2>3, <2>4
<1> QED
  BY <1>6, <1>8, <1>9, <1>10 DEF Written, Unwritten

\* What the finished file holds.
LEMMA FinishFacts ==
  ASSUME TypeOK, NEW c \in Conns, NEW e \in EntryType, OwnChunks(c, e.buf),
         NEW f \in Seq(Cells), FileBelongs(Dst(c), f), NEW r \in Finished(c, e, f)
  PROVE  r[1] \in BOOLEAN /\ r[2] \in Seq(Cells) /\ FileBelongs(Dst(c), r[2])
<1>1. scn.dst[c[1]] = Dst(c) /\ (scn.mode[c[1]] = "par" <=> Mode(c) = "par")
  BY DEF Dst, Mode
<1>2. PICK b \in Seq(Cells) : b = e.buf
  BY DEF EntryType
<1>3. Mode(c) # "par" => FileBelongs(Dst(c), b)
  BY <1>1, <1>2 DEF FileBelongs, OwnChunks
<1>4. Mode(c) # "par" => PutCells(f, b) \in Seq(Cells) /\ FileBelongs(Dst(c), PutCells(f, b))
  <2>1. SUFFICES ASSUME Mode(c) # "par"
                 PROVE  PutCells(f, b) \in Seq(Cells) /\ FileBelongs(Dst(c), PutCells(f, b))
    OBVIOUS
  <2>2. /\ PutCells(f, b) \in Seq(Cells)
        /\ \A i \in DOMAIN PutCells(f, b) :
             \/ i \in DOMAIN b /\ PutCells(f, b)[i] = b[i]
             \/ i \in DOMAIN f /\ PutCells(f, b)[i] = f[i]
    BY PutCellsFacts
  <2>3. FileBelongs(Dst(c), PutCells(f, b))
    BY <1>3, <2>1, <2>2 DEF FileBelongs
  <2> QED
    BY <2>2, <2>3
<1>5. \/ r = <<TRUE, f>> \/ r = <<FALSE, f>>
      \/ Mode(c) # "par" /\ r = <<TRUE, b>>
      \/ Mode(c) # "par" /\ r = <<TRUE, PutCells(f, b)>>
  <2>1. CASE Mode(c) = "par" \/ e.open
    <3>1. Finished(c, e, f) = {<<TRUE, f>>}
      BY <2>1 DEF Finished
    <3> QED
      BY <3>1
  <2>2. CASE ~(Mode(c) = "par" \/ e.open)
    BY <1>2, <2>2 DEF Finished
  <2> QED
    BY <2>1, <2>2
<1>6. CASE r = <<TRUE, f>> \/ r = <<FALSE, f>>
  <2>1. r[2] = f /\ r[1] \in BOOLEAN
    <3>1. CASE r = <<TRUE, f>>
      BY <3>1
    <3>2. CASE r = <<FALSE, f>>
      BY <3>2
    <3> QED
      BY <1>6, <3>1, <3>2
  <2> QED
    BY <2>1
<1>7. CASE Mode(c) # "par" /\ r = <<TRUE, b>>
  <2>1. r[2] = b /\ r[1] \in BOOLEAN
    BY <1>7
  <2> QED
    BY <1>3, <1>7, <2>1
<1>8. CASE Mode(c) # "par" /\ r = <<TRUE, PutCells(f, b)>>
  <2>1. r[2] = PutCells(f, b) /\ r[1] \in BOOLEAN
    BY <1>8
  <2> QED
    BY <1>4, <1>8, <2>1
<1> QED
  BY <1>5, <1>6, <1>7, <1>8

\* What every daemon step has to begin with.
LEMMA FirstFrame ==
  ASSUME IInv, wire # <<>>, wire' = Tail(wire)
  PROVE  /\ wire[1] \in Frames /\ Head(wire) = wire[1] /\ 1 \in DOMAIN wire
         /\ wire' \in Seq(Frames)
         /\ wire[1].c \in Conns
         /\ wire[1].k = "hdr" => wire' # <<>> /\ Matches(wire'[1], wire[1])
         /\ wire[1].k # "init" => wire[1].seq \in Nat \ {0}
         /\ dmn.pend # NoConn =>
              /\ dmn.pend \in Entries /\ wire[1].k = "bin" /\ wire[1].c = dmn.pend
              /\ wire[1].seq = dmn.reas[dmn.pend].seq
<1>1. wire \in Seq(Frames) /\ Paired(wire)
  BY TypeFacts DEF IInv, PairInv
<1>2. /\ wire[1] \in Frames /\ Head(wire) = wire[1] /\ 1 \in DOMAIN wire
      /\ wire' \in Seq(Frames)
      /\ wire[1].k = "hdr" => wire' # <<>> /\ Matches(wire'[1], wire[1])
  BY <1>1, WireTail
<1>3. wire[1].c \in Conns /\ wire[1].seq \in Nat
  BY <1>2 DEF Frames
<1>4. wire[1].k # "init" => wire[1].seq # 0
  BY <1>1, <1>2 DEF Paired, Numbered
<1> QED
  BY <1>2, <1>3, <1>4 DEF IInv, PairInv, Selected

LEMMA BeginStep ==
  ASSUME IInv, DaemonBegins
  PROVE  IInv'
<1>1. /\ wire # <<>> /\ wire' = Tail(wire) /\ Head(wire).k = "init"
      /\ UNCHANGED <<scn, cli, rel, tgt, reg, back>> /\ TypeOK
  BY DEF DaemonBegins, Receive, IInv
<1>2. PICK c \in Conns : c = wire[1].c /\ c = Head(wire).c /\ wire[1].k = "init"
  BY <1>1, FirstFrame
<1>3. dmn.pend = NoConn
  BY <1>1, <1>2, FirstFrame
<1>4. PICK e \in EntryType : e = Entry(c) /\ ~e.fin /\ e.buf = <<>>
  <2>1. PICK b \in BOOLEAN : b = (Shares(c) \/ OpensFile(c))
    OBVIOUS
  <2>2. Entry(c) = [buf |-> <<>>, off |-> 1, seq |-> 0, fin |-> FALSE, open |-> b]
    BY <2>1 DEF Entry
  <2>3. <<>> \in Seq(Cells)
    OBVIOUS
  <2>4. [buf |-> <<>>, off |-> 1, seq |-> 0, fin |-> FALSE, open |-> b] \in EntryType
    BY <2>3 DEF EntryType
  <2> QED
    BY <2>2, <2>4
<1>5. dmn' = [reas |-> WithEntry(c, e), pend |-> NoConn]
  <2>1. dmn' = [dmn EXCEPT !.reas = WithEntry(c, e)]
    BY <1>2, <1>4 DEF DaemonBegins
  <2>2. PICK r : dmn = [reas |-> r, pend |-> NoConn]
    BY <1>1, <1>3 DEF TypeOK
  <2> QED
    BY <2>1, <2>2
<1>6. /\ Entries' = Entries \cup {c} /\ dmn'.pend = NoConn
      /\ dmn'.reas[c] = e /\ \A d \in Entries : d # c => dmn'.reas[d] = dmn.reas[d]
      /\ dmn' = [reas |-> [d \in Entries |-> dmn.reas[d]], pend |-> dmn.pend]'
  BY <1>5, TableWith
<1>7. files' \in [Dsts -> Seq(Cells)] /\ ChunksBelong'
  <2>1. ChunksBelong /\ files \in [Dsts -> Seq(Cells)]
    BY DEF IInv, CellInv, TypeOK
  <2>2. CASE OpensFile(c)
    <3> DEFINE g == IF Mode(c) = "par" THEN Blank(Size(c), Zero) ELSE <<>>
    <3>1. files' = [files EXCEPT ![Dst(c)] = g]
      BY <1>2, <2>2 DEF DaemonBegins
    <3>2. Dst(c) \in Dsts /\ Size(c) \in Nat
      BY <1>1, ConnFacts
    <3>3. g \in Seq(Cells) /\ \A i \in DOMAIN g : g[i] = Zero
      BY <3>2 DEF Blank, Cells
    <3>4. FileBelongs(Dst(c), g)
      BY <3>3 DEF FileBelongs
    <3> HIDE DEF g
    <3> QED
      BY <1>1, <2>1, <3>1, <3>2, <3>3, <3>4, FileSet
  <2>3. CASE ~OpensFile(c)
    <3>1. files' = files
      BY <1>2, <2>3 DEF DaemonBegins
    <3> QED
      BY <1>1, <2>1, <3>1, FileByFile
  <2> QED
    BY <2>2, <2>3
<1>8. why' \in [Transfers -> SUBSET Causes]
  <2>1. PICK news \in SUBSET Causes :
          why' = [u \in Transfers |->
                     IF u = c[1] THEN why[u] \cup news
                     ELSE IF u \in Rivals(c[1]) THEN why[u] \cup {"shared"} ELSE why[u]]
    BY <1>2 DEF DaemonBegins, Causes
  <2>2. why \in [Transfers -> SUBSET Causes] /\ "shared" \in Causes
    BY <1>1 DEF TypeOK, Causes
  <2> QED
    BY <2>1, <2>2
<1>9. /\ \A d \in Entries' : d \in Conns /\ dmn'.reas[d] \in EntryType
      /\ \A d \in Entries' : OwnChunks(d, dmn'.reas[d].buf)
      /\ FinalEntered'
  <2>1. OwnChunks(c, dmn'.reas[c].buf)
    BY <1>4, <1>6 DEF OwnChunks
  <2> QED
    BY <1>1, <1>4, <1>6, <2>1, EntriesKept
<1>10. TypeOK'
  <2>1. wire' \in Seq(Frames)
    BY <1>1, FirstFrame
  <2> QED
    BY <1>1, <1>6, <1>7, <1>8, <1>9, <2>1 DEF TypeOK
<1>11. CellInv'
  BY <1>7, <1>9 DEF CellInv, OwnChunks
<1>12. Selected'
  BY <1>6 DEF Selected
<1>13. \A d : HasResult(d)' => HasResult(d)
  BY <1>1 DEF HasResult
<1> QED
  BY <1>1, <1>2, <1>6, <1>9, <1>10, <1>11, <1>12, <1>13, Reading

\* An answer goes back on the connection that is up.
LEMMA AnswerFacts ==
  ASSUME IInv, wire # <<>>, NEW c \in Conns, NEW ok \in BOOLEAN, Answer(c, ok)
  PROVE  /\ back' \in Seq(Results)
         /\ \A d : HasResult(d)' => HasResult(d) \/ d = c
<1>1. back \in Seq(Results)
  BY TypeFacts DEF IInv
<1>2. PICK l \in Links : l = CHOOSE m \in Links : Up(m)
  BY DEF IInv, LinkInv
<1>3. PICK r \in Results : r = [c |-> c, ok |-> ok, l |-> l]
  BY DEF Results
<1>4. back' = Append(back, r)
  BY <1>2, <1>3 DEF Answer
<1>5. back' \in Seq(Results) /\ \A i \in DOMAIN back' : back'[i] = r \/ (i \in DOMAIN back /\ back'[i] = back[i])
  BY <1>1, <1>4
<1> QED
  BY <1>3, <1>5 DEF HasResult

\* A stream with a frame on the wire has begun.
LEMMA Heard ==
  ASSUME IInv, NEW c \in Conns, OnWire(c) \/ c \in Entries
  PROVE  cli[c].st # "idle"
  BY DEF IInv, OnceInv, IdleFresh, Untouched

LEMMA HeaderStep ==
  ASSUME IInv, DaemonReadsHeader
  PROVE  IInv'
<1>1. /\ wire # <<>> /\ wire' = Tail(wire) /\ Head(wire).k = "hdr"
      /\ UNCHANGED <<scn, cli, rel, tgt, reg, files, why>> /\ TypeOK
  BY DEF DaemonReadsHeader, Receive, IInv
<1>2. PICK f \in Frames : f = Head(wire) /\ f = wire[1] /\ f.k = "hdr" /\ 1 \in DOMAIN wire
  BY <1>1, FirstFrame
<1>3. PICK c \in Conns : c = f.c
  BY <1>1, <1>2, FirstFrame
<1>4. dmn.pend = NoConn
  BY <1>1, <1>2, FirstFrame
<1>5. OnWire(c) /\ cli[c].st # "idle"
  BY <1>2, <1>3, Heard DEF OnWire
<1>6. wire' \in Seq(Frames) /\ wire' # <<>> /\ Matches(wire'[1], f)
  BY <1>1, <1>2, FirstFrame
<1>7. CASE c \in Entries
  <2>1. PICK e \in EntryType : /\ e = [dmn.reas[c] EXCEPT !.seq = f.seq, !.fin = f.fin]
                               /\ e.seq = f.seq /\ e.fin = f.fin /\ e.buf = dmn.reas[c].buf
    <3>1. PICK g \in EntryType : g = dmn.reas[c]
      BY <1>1, <1>7 DEF TypeOK
    <3>2. PICK n \in Nat, b \in BOOLEAN : n = f.seq /\ b = f.fin
      BY DEF Frames
    <3>3. /\ [g EXCEPT !.seq = n, !.fin = b] \in EntryType
          /\ [g EXCEPT !.seq = n, !.fin = b].seq = n /\ [g EXCEPT !.seq = n, !.fin = b].fin = b
          /\ [g EXCEPT !.seq = n, !.fin = b].buf = g.buf
      BY DEF EntryType
    <3> QED
      BY <3>1, <3>2, <3>3
  <2>2. dmn' = [reas |-> WithEntry(c, e), pend |-> c] /\ back' = back
    BY <1>2, <1>3, <1>7, <2>1 DEF DaemonReadsHeader
  <2>3. /\ Entries' = Entries \cup {c} /\ dmn'.pend = c
        /\ dmn'.reas[c] = e /\ \A d \in Entries : d # c => dmn'.reas[d] = dmn.reas[d]
        /\ dmn' = [reas |-> [d \in Entries |-> dmn.reas[d]], pend |-> dmn.pend]'
    BY <2>2, TableWith
  <2>4. e.fin => AllSent(c)
    <3>1. e.fin => HasFinal(wire, c)
      BY <1>2, <1>3, <2>1 DEF HasFinal
    <3> QED
      BY <3>1 DEF IInv, SentInv, FinalOnWire
  <2>5. OwnChunks(c, e.buf)
    BY <1>7, <2>1 DEF IInv, CellInv
  <2>6. /\ \A d \in Entries' : d \in Conns /\ dmn'.reas[d] \in EntryType
        /\ \A d \in Entries' : OwnChunks(d, dmn'.reas[d].buf)
        /\ FinalEntered'
    BY <1>1, <2>3, <2>4, <2>5, EntriesKept
  <2>7. TypeOK'
    BY <1>1, <1>6, <2>2, <2>3, <2>6 DEF TypeOK
  <2>8. CellInv'
    BY <1>1, <2>6, FileByFile DEF CellInv, OwnChunks, IInv
  <2>9. Selected'
    BY <1>3, <1>6, <2>1, <2>3 DEF Selected, Matches
  <2>10. \A d : HasResult(d)' => HasResult(d)
    BY <2>2 DEF HasResult
  <2> QED
    BY <1>1, <1>2, <1>7, <2>3, <2>6, <2>7, <2>8, <2>9, <2>10, Reading
<1>8. CASE c \notin Entries
  <2>1. dmn' = dmn /\ Answer(c, FALSE) /\ Entries' = Entries
    BY <1>2, <1>3, <1>8 DEF DaemonReadsHeader, Entries
  <2>2. back' \in Seq(Results) /\ \A d : HasResult(d)' => HasResult(d) \/ d = c
    BY <1>1, <2>1, AnswerFacts
  <2>3. AllSent(c)
    <3>1. KnownAt(c, 1)
      BY <1>2, <1>3 DEF IInv, SentInv, HeadersKnown
    <3>2. ~ \E j \in DOMAIN wire : j < 1
      BY TypeFacts, <1>1
    <3> QED
      BY <1>8, <3>1, <3>2 DEF KnownAt
  <2>4. TypeOK'
    BY <1>1, <1>6, <2>1, <2>2 DEF TypeOK, Results
  <2>5. CellInv'
    BY <1>1, <2>1, FileByFile DEF CellInv, OwnChunks, IInv
  <2>6. Selected'
    BY <1>4, <2>1 DEF Selected
  <2>7. FinalEntered'
    BY <1>1, <2>1, StreamsStand, StreamsNamed DEF IInv, SentInv, FinalEntered
  <2> QED
    BY <1>1, <1>2, <1>5, <2>1, <2>2, <2>3, <2>4, <2>5, <2>6, <2>7, Reading
<1> QED
  BY <1>7, <1>8

LEMMA PayloadStep ==
  ASSUME IInv, DaemonReadsPayload
  PROVE  IInv'
<1>1. /\ wire # <<>> /\ wire' = Tail(wire) /\ Head(wire).k = "bin"
      /\ UNCHANGED <<scn, cli, rel, tgt, reg>> /\ TypeOK
  BY DEF DaemonReadsPayload, Receive, IInv
<1>2. PICK c : c = dmn.pend
  OBVIOUS
<1>3. Head(wire) = wire[1] /\ wire[1].k = "bin" /\ wire' \in Seq(Frames) /\ wire[1].seq \in Nat \ {0}
  BY <1>1, FirstFrame
<1>4. CASE c \notin Entries
  <2>1. dmn.pend = NoConn
    BY <1>1, <1>2, <1>4, FirstFrame
  <2>2. UNCHANGED <<back, files, why>> /\ dmn' = dmn
    <3>1. UNCHANGED <<back, files, why>> /\ dmn' = [dmn EXCEPT !.pend = NoConn]
      BY <1>2, <1>4 DEF DaemonReadsPayload
    <3>2. PICK r : dmn = [reas |-> r, pend |-> NoConn]
      BY <1>1, <2>1 DEF TypeOK
    <3> QED
      BY <3>1, <3>2
  <2>3. TypeOK'
    BY <1>1, <1>3, <2>2 DEF TypeOK, Entries
  <2>4. CellInv'
    BY <1>1, <2>2, FileByFile DEF CellInv, OwnChunks, IInv, Entries
  <2>5. Selected'
    BY <2>1, <2>2 DEF Selected
  <2>6. FinalEntered'
    BY <1>1, <2>2, StreamsStand, StreamsNamed DEF IInv, SentInv, FinalEntered, Entries
  <2>7. Entries' = Entries /\ \A d : HasResult(d)' => HasResult(d)
    BY <2>2 DEF HasResult, Entries
  <2> QED
    BY <1>1, <1>3, <2>3, <2>4, <2>5, <2>6, <2>7, Reading
<1>5. CASE c \in Entries
  <2>1. c \in Conns /\ dmn.pend # NoConn
    BY <1>1, <1>2, <1>5, TransferAssumption DEF TypeOK
  <2>2. wire[1].c = c /\ wire[1].seq = dmn.reas[c].seq
    BY <1>1, <1>2, <2>1, FirstFrame
  <2>3. Dst(c) \in Dsts /\ c[1] \in Transfers
    BY <1>1, <2>1, ConnFacts
  <2>4. PICK e \in EntryType : e = dmn.reas[c]
    BY <1>1, <1>5 DEF TypeOK
  <2> DEFINE W(b) == IF b THEN Unwritten(c, e, Data(c, wire[1].seq)) ELSE Written(c, e, Data(c, wire[1].seq))
             Full(b) == IF b THEN {"full"} ELSE {}
             Unopened == IF e.fin /\ Mode(c) = "par" /\ ~e.open THEN {"unopened"} ELSE {}
             Longer == IF e.fin /\ Mode(c) = "rsync" /\ Len(files[Dst(c)]) > Size(c) THEN {"tail"} ELSE {}
             Does(b, x) == IF Completes(e)
                           THEN \E r \in Finished(c, x[1], x[2]) :
                                  /\ dmn' = [reas |-> Without(c), pend |-> NoConn]
                                  /\ files' = [files EXCEPT ![Dst(c)] = r[2]]
                                  /\ Answer(c, r[1])
                           ELSE /\ dmn' = [reas |-> WithEntry(c, x[1]), pend |-> NoConn]
                                /\ files' = [files EXCEPT ![Dst(c)] = x[2]]
                                /\ UNCHANGED back
  <2>5. \E fails \in {FALSE, scn.full /\ e.open} :
          Does(fails, W(fails)) /\ why' = [why EXCEPT ![c[1]] = @ \cup Full(fails) \cup Unopened \cup Longer]
    <3>1. Head(wire).c = c /\ Head(wire).seq = wire[1].seq
      BY <1>3, <2>2
    <3>2. \E fails \in {FALSE, scn.full /\ dmn.reas[c].open} :
            LET cell == Data(Head(wire).c, Head(wire).seq)
                x == IF fails THEN Unwritten(c, dmn.reas[c], cell) ELSE Written(c, dmn.reas[c], cell)
            IN /\ IF Completes(dmn.reas[c])
                  THEN \E r \in Finished(c, x[1], x[2]) :
                         /\ dmn' = [reas |-> Without(c), pend |-> NoConn]
                         /\ files' = [files EXCEPT ![Dst(c)] = r[2]]
                         /\ Answer(c, r[1])
                  ELSE /\ dmn' = [reas |-> WithEntry(c, x[1]), pend |-> NoConn]
                       /\ files' = [files EXCEPT ![Dst(c)] = x[2]]
                       /\ UNCHANGED back
               /\ why' = [why EXCEPT ![c[1]] = @ \cup
                    (IF fails THEN {"full"} ELSE {}) \cup
                    (IF dmn.reas[c].fin /\ Mode(c) = "par" /\ ~dmn.reas[c].open THEN {"unopened"} ELSE {}) \cup
                    (IF dmn.reas[c].fin /\ Mode(c) = "rsync" /\ Len(files[Dst(c)]) > Size(c)
                     THEN {"tail"} ELSE {})]
      BY <1>2, <1>5, Zenon DEF DaemonReadsPayload
    <3> QED
      BY <2>4, <3>1, <3>2, Zenon
  <2>51. PICK fails : Does(fails, W(fails)) /\ why' = [why EXCEPT ![c[1]] = @ \cup Full(fails) \cup Unopened \cup Longer]
    BY <2>5
  <2>52. PICK w : w = W(fails)
    OBVIOUS
  <2>6. /\ w[1] \in EntryType /\ w[2] \in Seq(Cells)
        /\ w[1].fin = e.fin /\ OwnChunks(c, w[1].buf)
        /\ FileBelongs(Dst(c), w[2])
    <3>1. CellInv /\ (w = Written(c, e, Data(c, wire[1].seq)) \/ w = Unwritten(c, e, Data(c, wire[1].seq)))
      BY <2>52 DEF IInv
    <3> QED
      BY <1>1, <1>3, <1>5, <2>2, <2>4, <3>1, WriteFacts
  <2> HIDE DEF W
  <2>7. why' \in [Transfers -> SUBSET Causes]
    <3>1. Full(fails) \in SUBSET Causes /\ Unopened \in SUBSET Causes /\ Longer \in SUBSET Causes
      BY DEF Causes
    <3>2. PICK more \in SUBSET Causes : why' = [why EXCEPT ![c[1]] = @ \cup more]
      <4> HIDE DEF Full, Unopened, Longer
      <4>1. PICK more \in SUBSET Causes : more = Full(fails) \cup Unopened \cup Longer
        BY <3>1
      <4>2. why[c[1]] \cup Full(fails) \cup Unopened \cup Longer = why[c[1]] \cup more
        BY <4>1
      <4>3. why' = [why EXCEPT ![c[1]] = why[c[1]] \cup Full(fails) \cup Unopened \cup Longer]
        BY <2>51
      <4> QED
        BY <4>2, <4>3
    <3> QED
      BY <1>1, <2>3, <3>2 DEF TypeOK
  <2>8. cli[c].st # "idle"
    BY <1>5, <2>1, Heard
  <2>9. ChunksBelong
    BY DEF IInv, CellInv
  <2>10. CASE Completes(e)
    <3>1. PICK r \in Finished(c, w[1], w[2]) :
            /\ dmn' = [reas |-> Without(c), pend |-> NoConn]
            /\ files' = [files EXCEPT ![Dst(c)] = r[2]]
            /\ Answer(c, r[1])
      BY <2>51, <2>52, <2>10
    <3>2. r[1] \in BOOLEAN /\ r[2] \in Seq(Cells) /\ FileBelongs(Dst(c), r[2])
      BY <1>1, <2>1, <2>6, FinishFacts
    <3>3. files' \in [Dsts -> Seq(Cells)] /\ ChunksBelong'
      BY <1>1, <2>3, <2>9, <3>1, <3>2, FileSet
    <3>4. /\ Entries' = Entries \ {c} /\ dmn'.pend = NoConn
          /\ \A d \in Entries : d # c => dmn'.reas[d] = dmn.reas[d]
          /\ dmn' = [reas |-> [d \in Entries |-> dmn.reas[d]], pend |-> dmn.pend]'
      BY <3>1, TableWithout
    <3>5. /\ \A d \in Entries' : d \in Conns /\ dmn'.reas[d] \in EntryType
          /\ \A d \in Entries' : OwnChunks(d, dmn'.reas[d].buf)
          /\ FinalEntered'
      BY <1>1, <2>1, <3>4, EntriesKept
    <3>6. back' \in Seq(Results) /\ \A d : HasResult(d)' => HasResult(d) \/ d = c
      BY <1>1, <2>1, <3>1, <3>2, AnswerFacts
    <3>7. AllSent(c)
      BY <1>5, <2>4, <2>10 DEF Completes, IInv, SentInv, FinalEntered
    <3>8. TypeOK'
      BY <1>1, <1>3, <2>7, <3>3, <3>4, <3>5, <3>6 DEF TypeOK, Results
    <3>9. CellInv'
      BY <3>3, <3>5 DEF CellInv, OwnChunks
    <3>10. Selected'
      BY <3>4 DEF Selected
    <3> QED
      BY <1>1, <1>3, <2>8, <3>4, <3>5, <3>6, <3>7, <3>8, <3>9, <3>10, Reading
  <2>11. CASE ~Completes(e)
    <3>1. /\ dmn' = [reas |-> WithEntry(c, w[1]), pend |-> NoConn]
          /\ files' = [files EXCEPT ![Dst(c)] = w[2]]
          /\ UNCHANGED back
      BY <2>51, <2>52, <2>11
    <3>2. files' \in [Dsts -> Seq(Cells)] /\ ChunksBelong'
      BY <1>1, <2>3, <2>6, <2>9, <3>1, FileSet
    <3>3. /\ Entries' = Entries \cup {c} /\ dmn'.pend = NoConn
          /\ dmn'.reas[c] = w[1] /\ \A d \in Entries : d # c => dmn'.reas[d] = dmn.reas[d]
          /\ dmn' = [reas |-> [d \in Entries |-> dmn.reas[d]], pend |-> dmn.pend]'
      BY <3>1, TableWith
    <3>4. ~w[1].fin
      BY <2>6, <2>11 DEF Completes
    <3>5. /\ \A d \in Entries' : d \in Conns /\ dmn'.reas[d] \in EntryType
          /\ \A d \in Entries' : OwnChunks(d, dmn'.reas[d].buf)
          /\ FinalEntered'
      BY <1>1, <2>1, <2>6, <3>3, <3>4, EntriesKept
    <3>6. TypeOK'
      BY <1>1, <1>3, <2>7, <3>1, <3>2, <3>3, <3>5 DEF TypeOK
    <3>7. CellInv'
      BY <3>2, <3>5 DEF CellInv, OwnChunks
    <3>8. Selected'
      BY <3>3 DEF Selected
    <3>9. \A d : HasResult(d)' => HasResult(d)
      BY <3>1 DEF HasResult
    <3> QED
      BY <1>1, <1>3, <1>5, <3>3, <3>5, <3>6, <3>7, <3>8, <3>9, Reading
  <2> QED
    BY <2>10, <2>11
<1> QED
  BY <1>4, <1>5

---------------------------------------------------------------------------
(***************************************************************************)
(* The theorems                                                            *)
(***************************************************************************)

LEMMA InitHolds == Init => IInv
<1> SUFFICES ASSUME Init PROVE IInv
  OBVIOUS
<1>1. /\ scn \in ScenarioType /\ scn \in Scenarios
      /\ cli = [c \in Conns |-> [st |-> "idle", next |-> 1, reply |-> "none"]]
      /\ rel = [c \in Conns |-> [route |-> 0, took |-> "no", pend |-> FALSE]]
      /\ tgt = [l \in Links |-> [link |-> IF l = 1 THEN "up" ELSE "new", gone |-> FALSE,
                                 q |-> <<>>, qs |-> "none", werr |-> FALSE]]
      /\ reg = 1 /\ wire = <<>> /\ back = <<>>
      /\ dmn = [reas |-> <<>>, pend |-> NoConn]
      /\ files = [d \in Dsts |-> Blank(scn.old[d], Old)]
      /\ why = [t \in Transfers |-> {}]
  BY TransferAssumption DEF Init
<1>2. Entries = {} /\ dmn.pend = NoConn /\ DOMAIN <<>> = {}
  BY <1>1 DEF Entries
<1>3. \A c \in Conns : /\ cli[c].st = "idle" /\ cli[c].next = 1 /\ cli[c].reply = "none"
                       /\ rel[c].route = 0 /\ rel[c].took = "no" /\ ~rel[c].pend
  BY <1>1
<1>4. \A l \in Links : /\ Up(l) <=> l = 1
                       /\ tgt[l].q = <<>> /\ tgt[l].qs = "none"
                       /\ tgt[l].link = "new" => l # 1
  BY <1>1 DEF Up
<1>5. 1 \in Links /\ MaxLink \in Nat
  BY TransferAssumption DEF Links
<1>6. ASSUME NEW d \in Dsts
      PROVE  files[d] \in Seq(Cells) /\ FileBelongs(d, files[d])
  <2>1. scn.old[d] \in Nat /\ Old \in Cells
    BY <1>1 DEF ScenarioType, Cells
  <2>2. files[d] = Blank(scn.old[d], Old)
    BY <1>1
  <2>3. files[d] \in Seq(Cells) /\ \A i \in DOMAIN files[d] : files[d][i] = Old
    BY <2>1, <2>2 DEF Blank
  <2> QED
    BY <2>3 DEF FileBelongs
<1>7. TypeOK
  <2>1. cli \in [Conns -> ClientType] /\ rel \in [Conns -> LoopType]
    BY <1>1, <1>5 DEF ClientType, LoopType
  <2>2. tgt \in [Links -> LinkType]
    <3>1. <<>> \in Seq(Queued)
      OBVIOUS
    <3> QED
      BY <1>1, <3>1 DEF LinkType
  <2>3. wire \in Seq(Frames) /\ back \in Seq(Results)
    BY <1>1
  <2>4. dmn = [reas |-> [c \in Entries |-> dmn.reas[c]], pend |-> dmn.pend]
    <3>1. <<>> = [c \in {} |-> <<>>[c]]
      OBVIOUS
    <3> QED
      BY <1>1, <1>2, <3>1
  <2>5. files \in [Dsts -> Seq(Cells)]
    BY <1>1, <1>6
  <2>6. why \in [Transfers -> SUBSET Causes]
    BY <1>1
  <2>7. reg \in 0 .. MaxLink /\ \A l \in Links : Len(tgt[l].q) <= QueueCap
    BY <1>1, <1>4, <1>5, TransferAssumption DEF Links
  <2> QED
    BY <1>1, <1>2, <1>3, <2>1, <2>2, <2>3, <2>4, <2>5, <2>6, <2>7
       DEF TypeOK, ClientType, LoopType, LinkType, Results
<1>8. LinkInv
  BY <1>1, <1>3, <1>4, <1>5 DEF LinkInv, Links
<1>9. PairInv
  BY <1>1, <1>2 DEF PairInv, Paired, Announced, Preceded, Numbered, Selected
<1>10. \A c : ~OnWire(c) /\ ~InitOnWire(c) /\ ~HasResult(c) /\ \A l \in Links : ~InQueue(c, l)
  BY <1>1, <1>4 DEF OnWire, InitOnWire, HasResult, InQueue
<1>11. OnceInv
  BY <1>1, <1>2, <1>3, <1>10 DEF OnceInv, IdleFresh, Untouched, RestIdle, OnceOnly, NoSecond
<1>12. SentInv
  <2>1. Handing /\ FinalOnWire /\ HeadersKnown /\ FinalEntered
    BY <1>1, <1>2, <1>3 DEF Handing, FinalOnWire, HeadersKnown, FinalEntered, HasFinal
  <2>2. FinalQueued /\ QueuesKnown /\ ResultsLast /\ ClosedFor
    BY <1>2, <1>4, <1>10 DEF FinalQueued, QueuesKnown, ResultsLast, ClosedFor, HasFinal
  <2>3. RoutesKnown
    BY <1>3 DEF RoutesKnown, Links
  <2> QED
    BY <2>1, <2>2, <2>3 DEF SentInv
<1>13. CellInv
  BY <1>2, <1>6, FileByFile DEF CellInv
<1> QED
  BY <1>7, <1>8, <1>9, <1>11, <1>12, <1>13 DEF IInv

\* Nothing happens.
LEMMA StutterStep ==
  ASSUME IInv, UNCHANGED vars
  PROVE  IInv'
  BY TypeFacts, OnlyClients DEF vars, IInv

\* Every step keeps the invariant.
LEMMA NextKeeps ==
  ASSUME IInv, [Next]_vars
  PROVE  IInv'
<1>1. ASSUME NEW c \in Active, RelayAnnounces(c) PROVE IInv'
  BY <1>1, AnnounceStep
<1>2. ASSUME NEW c \in Active, RelayStep(c) PROVE IInv'
  BY <1>2, StreamsAreConns, DropStep, TakeStep, EnqueueStep, PanicOrEndStep, SyncStep DEF RelayStep
<1>3. ASSUME NEW c \in Active, ClientReads(c) \/ ClientTimesOut(c) PROVE IInv'
  BY <1>3, ClientStep
<1>4. ASSUME NEW l \in Links, WriterWrites(l) PROVE IInv'
  BY <1>4, WriterStep
<1>5. ASSUME NEW l \in Links, RelayUnregisters(l) PROVE IInv'
  BY <1>5, UnregisterStep
<1>6. ASSUME NEW l \in Links, DaemonReconnects(l) PROVE IInv'
  BY <1>6, ReconnectStep
<1>7. CASE DaemonStep
  BY <1>7, BeginStep, HeaderStep, PayloadStep DEF DaemonStep
<1>8. ASSUME NEW t \in Transfers, ClientDies(t) PROVE IInv'
  BY <1>8, DeathStep
<1> QED
  BY <1>1, <1>2, <1>3, <1>4, <1>5, <1>6, <1>7, <1>8, ResultStep, BreakStep, StutterStep DEF Next

\* Whoever closes a queue that a read loop is about to send on is not the
\* loop's own stream: that one is not all sent, so nobody answered it.
LEMMA OwnResultLater == IInv => WriterOutlivesStream
<1> SUFFICES ASSUME IInv, NEW c \in Active, rel[c].took = "queue",
                    tgt[rel[c].route].qs = "closed", ~tgt[rel[c].route].gone
             PROVE  \E d \in Active \ {c} : cli[d].reply # "none"
  BY DEF WriterOutlivesStream
<1>1. c \in Conns /\ ~AllSent(c)
  BY StreamsAreConns DEF IInv, SentInv, Handing
<1>2. rel[c].route \in Links
  <2>1. rel[c].route \in 0 .. MaxLink /\ rel[c].route # 0
    BY <1>1, TypeFacts DEF IInv, TypeOK, LoopType
  <2> QED
    BY <2>1, TransferAssumption DEF Links
<1>3. PICK d \in Conns : Answered(d)
  BY <1>2 DEF IInv, SentInv, ClosedFor
<1> QED
  BY <1>1, <1>3 DEF Answered

\* Everything keeps its type, whatever is copied, over however many streams
\* and connections; a write queue never holds more than its capacity
\* (relay_client.go:32), and a read loop about to send has a route.
THEOREM CopyTypes == Spec => []TypeOK
<1>1. IInv => TypeOK
  BY DEF IInv
<1> QED
  BY <1>1, InitHolds, NextKeeps, PTL DEF Spec

\* No chunk is ever written into another transfer's file, nor, in a parallel
\* copy, at another chunk's place (daemon_filetransfer.go:235): a header and
\* its payload stay together from the relay's write queue to the daemon's
\* pendingBinaryChunk, whatever the other read loops write in between.
THEOREM ChunksStayPut == Spec => []ChunksBelong
<1>1. IInv => ChunksBelong
  BY DEF IInv, CellInv
<1> QED
  BY <1>1, InitHolds, NextKeeps, PTL DEF Spec

\* A read loop never finds the write queue it is about to send on closed by
\* its own transfer's result: closeWriter (relay_client.go:71) was called for
\* another stream, or for the end of the daemon's connection.
THEOREM OwnResultLast == Spec => []WriterOutlivesStream
  BY OwnResultLater, InitHolds, NextKeeps, PTL DEF Spec

---------------------------------------------------------------------------
(***************************************************************************)
(* OkMeansSource is about the step that makes a copy's last stream "ok".   *)
(* A copy can still get there while no cause applies to it and none of its *)
(* streams has failed; everything below is about such a copy.              *)
(***************************************************************************)
Failed(c) == cli[c].reply = "err" \/ cli[c].st \in {"err", "dead"}
Going(t) == /\ why[t] = {} /\ StreamsOf(t) # {}
            /\ \A c \in StreamsOf(t) : ~Failed(c)
            /\ \E c \in StreamsOf(t) : cli[c].st # "ok"

(***************************************************************************)
(* Where a chunk is.  What a queue holds matters while its connection is   *)
(* up; what the daemon has of a stream, while it knows the stream.         *)
(***************************************************************************)
Handed(c, n) == \E j \in DOMAIN ChunkSeqs(c) : j < cli[c].next /\ ChunkSeqs(c)[j] = n
Payload(i, c) == i \in DOMAIN wire /\ wire[i].k = "bin" /\ wire[i].c = c
OnWay(c, n) == \E i \in DOMAIN wire : Payload(i, c) /\ wire[i].seq = n
Queues(c, n) == \E l \in Links : Up(l) /\ \E i \in DOMAIN tgt[l].q : tgt[l].q[i].c = c /\ tgt[l].q[i].seq = n
InFile(c, n) == n \in DOMAIN files[Dst(c)] /\ files[Dst(c)][n] = Data(c, n)
Held(c) == dmn.reas[c].buf
Kept(c, n) == c \in Entries /\ IF Mode(c) = "rsync" THEN n \in DOMAIN Held(c) ELSE InFile(c, n)
Useful(c) == c \in Entries /\ (Mode(c) = "rsync" \/ dmn.reas[c].open)
Carried(c) == InitOnWire(c) \/ (Useful(c) /\ \E l \in Links : Up(l))
GoodResult(c) == \E i \in DOMAIN back : back[i].c = c /\ back[i].ok
Done(c) == GoodResult(c) \/ cli[c].reply = "ok"

(***************************************************************************)
(* Frames are chunks that were handed over, a stream's announcement comes  *)
(* before them, and the daemon has selected the transfer of the payload it *)
(* reads next.                                                             *)
(***************************************************************************)
Genuine(f) == \E j \in DOMAIN ChunkSeqs(f.c) : /\ j < cli[f.c].next /\ f.seq = ChunkSeqs(f.c)[j]
                                               /\ f.fin <=> j = Len(ChunkSeqs(f.c))
WireGenuine == \A i \in DOMAIN wire : wire[i].k # "init" => Genuine(wire[i])
QueueGenuine == \A l \in Links : \A i \in DOMAIN tgt[l].q : Genuine(tgt[l].q[i])
InitFirst == \A i, j \in DOMAIN wire : wire[j].k = "init" /\ wire[i].c = wire[j].c => j <= i
PayloadSelected ==
  /\ dmn.pend # NoConn /\ wire # <<>> => dmn.reas[dmn.pend].fin = wire[1].fin
  /\ wire # <<>> /\ wire[1].k = "bin" /\ wire[1].c \in Entries => dmn.pend = wire[1].c
FrameInv == WireGenuine /\ QueueGenuine /\ InitFirst /\ PayloadSelected

(***************************************************************************)
(* Streams: an answer comes after everything, and a route leads over the   *)
(* connection that carries the stream.                                     *)
(***************************************************************************)
Quiet == \A c \in Conns : cli[c].st = "idle" => cli[c].reply = "none"
OkLast == \A c \in Conns : /\ cli[c].reply = "ok" => AllSent(c)
                           /\ cli[c].st = "ok" => cli[c].reply = "ok"
RouteUp == \A c \in Conns : Carried(c) /\ rel[c].route # 0 => Up(rel[c].route)
EntryOpen == \A c \in Entries : /\ Mode(c) = "rsync" => ~dmn.reas[c].open
                                /\ Mode(c) = "scp" => dmn.reas[c].open = scn.writable
DoneOut == \A c \in Conns : Done(c) => ~InitOnWire(c) /\ c \notin Entries
StreamInv == Quiet /\ OkLast /\ RouteUp /\ EntryOpen /\ DoneOut

(***************************************************************************)
(* Of a copy that is going on, chunks stay in order and none is missing    *)
(* while its stream is carried; what is written is where it belongs; and   *)
(* nobody else writes to its file.                                         *)
(***************************************************************************)
Routed(c) == cli[c].st = "sending" => rel[c].route # 0
InOrder(c) ==
  /\ \A i, j \in DOMAIN wire : Payload(i, c) /\ Payload(j, c) /\ i < j => wire[i].seq < wire[j].seq
  /\ \A l \in Links : Up(l) => \A i, j \in DOMAIN tgt[l].q :
       tgt[l].q[i].c = c /\ tgt[l].q[j].c = c /\ i < j => tgt[l].q[i].seq < tgt[l].q[j].seq
  /\ \A n, m \in Nat : OnWay(c, n) /\ Queues(c, m) => n < m
NoneMissing(c) == Carried(c) => \A n \in Nat : Handed(c, n) => Kept(c, n) \/ OnWay(c, n) \/ Queues(c, n)
Count(c) == IF Mode(c) = "rsync" THEN Len(Held(c)) ELSE Len(files[Dst(c)])
Exact(c) ==
  Useful(c) =>
    IF Mode(c) = "par" THEN Len(files[Dst(c)]) = Size(c)
    ELSE /\ Count(c) < cli[c].next
         /\ \A n \in Nat : OnWay(c, n) \/ Queues(c, n) => n > Count(c)
         /\ IF Mode(c) = "rsync" THEN \A k \in DOMAIN Held(c) : Held(c)[k] = Data(c, k)
            ELSE /\ dmn.reas[c].off = Len(files[Dst(c)]) + 1
                 /\ \A k \in DOMAIN files[Dst(c)] : files[Dst(c)][k] = Data(c, k)
Delivered(c) ==
  Done(c) => /\ ChunkSeqs(c) # <<>>
             /\ Len(files[Dst(c)]) = Size(c)
             /\ \A j \in DOMAIN ChunkSeqs(c) : InFile(c, ChunkSeqs(c)[j])
Unrivalled(t) == (\E c \in StreamsOf(t) : c \in Entries \/ Done(c)) =>
              \A u \in Transfers \ {t} : LiveEntry(u) => scn.dst[u] # scn.dst[t]
GoingInv == \A t \in Transfers : Going(t) =>
              /\ Unrivalled(t)
              /\ \A c \in StreamsOf(t) : Routed(c) /\ InOrder(c) /\ NoneMissing(c) /\ Exact(c) /\ Delivered(c)

CopyInv == FrameInv /\ StreamInv /\ GoingInv

(***************************************************************************)
(* Chunks                                                                  *)
(***************************************************************************)

\* A stream is one of its transfer's, and only of that.
LEMMA StreamOfOne ==
  /\ \A c \in Active : c \in StreamsOf(c[1]) /\ c[1] \in Transfers
  /\ \A t \in Transfers : \A c \in StreamsOf(t) :
       c \in Active /\ c \in Conns /\ c[1] = t /\ Mode(c) = scn.mode[t] /\ Dst(c) = scn.dst[t]
         /\ Size(c) = scn.size[t] /\ Mode(c) # "none" /\ (Mode(c) # "par" => c = <<t, 1>>)
<1>1. ASSUME NEW t \in Transfers, NEW c \in StreamsOf(t)
      PROVE  c[1] = t /\ scn.mode[t] # "none" /\ (scn.mode[t] # "par" => c = <<t, 1>>)
  BY DEF StreamsOf
<1>2. \A t \in Transfers : \A c \in StreamsOf(t) : c \in Active
  BY DEF Active
<1>3. \A c \in Active : c \in StreamsOf(c[1]) /\ c[1] \in Transfers
  BY <1>1 DEF Active
<1> QED
  BY <1>1, <1>2, <1>3, StreamsAreConns DEF Mode, Dst, Size

\* A stream's chunks come in order and are chunks of its file.
LEMMA ChunksAscend ==
  ASSUME TypeOK, NEW c \in Conns
  PROVE  /\ Len(ChunkSeqs(c)) \in Nat /\ DOMAIN ChunkSeqs(c) = 1 .. Len(ChunkSeqs(c))
         /\ \A j \in DOMAIN ChunkSeqs(c) : ChunkSeqs(c)[j] \in 1 .. Size(c)
         /\ \A i, j \in DOMAIN ChunkSeqs(c) : i < j => ChunkSeqs(c)[i] < ChunkSeqs(c)[j]
         /\ Mode(c) # "par" => Len(ChunkSeqs(c)) = Size(c) /\ \A j \in 1 .. Size(c) : ChunkSeqs(c)[j] = j
<1>1. Size(c) \in Nat /\ c[2] \in 1 .. Streams /\ Streams \in Nat \ {0}
  BY ConnFacts, TransferAssumption
<1>2. CASE Mode(c) # "par"
  BY <1>1, <1>2 DEF ChunkSeqs
<1>3. CASE Mode(c) = "par"
  <2> DEFINE n == (Size(c) + Streams - c[2]) \div Streams
  <2>1. PICK z, s, b \in Nat : z = Size(c) /\ s = Streams /\ b = c[2] /\ b >= 1 /\ b <= s
    BY <1>1
  <2>2. n \in Nat /\ n * s <= z + s - b
    <3>1. PICK m \in Nat : m = z + s - b
      BY <2>1
    <3>2. m \div s \in Nat /\ (m \div s) * s <= m
      BY <2>1, <3>1
    <3> QED
      BY <2>1, <3>1, <3>2
  <2> HIDE DEF n
  <2>3. ChunkSeqs(c) = [j \in 1 .. n |-> b + (j - 1) * s]
    BY <1>3, <2>1 DEF ChunkSeqs, n
  <2>4. \A x, y \in Nat : x * y \in Nat
    OBVIOUS
  <2>5. \A x, y, k \in Nat : x <= y => x * k <= y * k
    OBVIOUS
  <2>6. ASSUME NEW j \in 1 .. n PROVE b + (j - 1) * s \in 1 .. z
    <3>1. j \in Nat /\ j <= n /\ j - 1 \in Nat
      BY <2>2
    <3>2. j * s <= n * s /\ j * s \in Nat /\ n * s \in Nat /\ (j - 1) * s \in Nat
      BY <2>1, <2>2, <2>4, <2>5, <3>1
    <3>3. (j - 1) * s = j * s - s
      BY <2>1, <3>1
    <3> QED
      BY <2>1, <2>2, <3>2, <3>3
  <2>7. ASSUME NEW i \in 1 .. n, NEW j \in 1 .. n, i < j
        PROVE  b + (i - 1) * s < b + (j - 1) * s
    <3>1. i \in Nat /\ i <= j - 1 /\ j - 1 \in Nat /\ i - 1 \in Nat
      BY <2>2, <2>7
    <3>2. i * s <= (j - 1) * s /\ i * s \in Nat /\ (j - 1) * s \in Nat /\ (i - 1) * s \in Nat
      BY <2>1, <2>4, <2>5, <3>1
    <3>3. (i - 1) * s = i * s - s
      BY <2>1, <3>1
    <3> QED
      BY <2>1, <3>2, <3>3
  <2> DEFINE g == ChunkSeqs(c)
  <2>8. Len(g) = n /\ DOMAIN g = 1 .. n /\ \A j \in 1 .. n : g[j] = b + (j - 1) * s
    BY <2>2, <2>3
  <2> HIDE DEF g
  <2>9. \A j \in DOMAIN g : g[j] \in 1 .. Size(c)
    BY <2>1, <2>6, <2>8
  <2>10. \A i, j \in DOMAIN g : i < j => g[i] < g[j]
    BY <2>7, <2>8
  <2> QED
    BY <1>3, <2>2, <2>8, <2>9, <2>10 DEF g
<1> QED
  BY <1>2, <1>3

\* Between them the streams of a transfer have every chunk of the file.
LEMMA ChunksCover ==
  ASSUME TypeOK, NEW t \in Transfers, StreamsOf(t) # {}, NEW n \in 1 .. scn.size[t]
  PROVE  \E c \in StreamsOf(t) : \E j \in DOMAIN ChunkSeqs(c) : ChunkSeqs(c)[j] = n
<1>1. CASE scn.mode[t] # "par"
  <2>1. PICK c \in StreamsOf(t) : TRUE
    OBVIOUS
  <2>2. Mode(c) # "par" /\ Size(c) = scn.size[t]
    BY <1>1, StreamOfOne
  <2> QED
    BY <2>2 DEF ChunkSeqs
<1>2. CASE scn.mode[t] = "par"
  <2>1. scn.size[t] \in Nat /\ Streams \in Nat \ {0}
    BY TypeFacts, TransferAssumption DEF ScenarioType
  <2>2. PICK z, s, m \in Nat : z = scn.size[t] /\ s = Streams /\ s # 0 /\ m = n - 1 /\ m < z
    BY <2>1
  <2>3. PICK q, r \in Nat : m = q * s + r /\ r < s
    <3>1. m \div s \in Nat /\ m % s \in Nat /\ m % s < s /\ m = (m \div s) * s + (m % s)
      BY <2>2
    <3> QED
      BY <3>1
  <2> DEFINE b == r + 1
             c == <<t, b>>
             k == (z + s - b) \div s
  <2>4. b \in 1 .. Streams
    BY <2>2, <2>3
  <2>5. c \in StreamsOf(t) /\ Mode(c) = "par" /\ Size(c) = z /\ c[2] = b
    BY <1>2, <2>2, <2>4 DEF StreamsOf, Mode, Size
  <2>6. ChunkSeqs(c) = [j \in 1 .. k |-> b + (j - 1) * s]
    BY <2>2, <2>5 DEF ChunkSeqs
  <2>7. q + 1 \in 1 .. k
    <3>1. PICK x \in Nat : x = z + s - b
      BY <2>2, <2>3
    <3>2. (q + 1) * s = q * s + s /\ q * s \in Nat
      BY <2>2, <2>3
    <3>3. (q + 1) * s <= x
      BY <2>2, <2>3, <3>1, <3>2
    <3>4. k = x \div s /\ k \in Nat /\ x < (k + 1) * s
      <4>1. \A y \in Nat : y \div s \in Nat /\ y < ((y \div s) + 1) * s
        BY <2>2
      <4>2. k = x \div s
        BY <3>1
      <4> QED
        BY <4>1, <4>2
    <3>5. (q + 1) * s < (k + 1) * s
      <4>1. (q + 1) * s \in Nat /\ (k + 1) * s \in Nat
        BY <2>2, <2>3, <3>4
      <4> QED
        BY <3>1, <3>3, <3>4, <4>1
    <3>6. ~(k + 1 <= q + 1)
      <4>1. \A u, v, w \in Nat : u <= v => u * w <= v * w
        OBVIOUS
      <4>2. \A u, w \in Nat : u * w \in Nat
        OBVIOUS
      <4>3. k + 1 \in Nat /\ q + 1 \in Nat
        BY <2>3, <3>4
      <4>4. PICK u, v \in Nat : u = (k + 1) * s /\ v = (q + 1) * s
        BY <2>2, <4>2, <4>3
      <4>5. v < u
        BY <3>5, <4>4
      <4>6. k + 1 <= q + 1 => u <= v
        BY <2>2, <4>1, <4>3, <4>4
      <4> QED
        BY <4>4, <4>5, <4>6
    <3> QED
      BY <2>3, <3>4, <3>6
  <2>8. b + ((q + 1) - 1) * s = n
    BY <2>2, <2>3
  <2> HIDE DEF k
  <2>9. q + 1 \in DOMAIN ChunkSeqs(c) /\ ChunkSeqs(c)[q + 1] = n
    BY <2>6, <2>7, <2>8
  <2> QED
    BY <2>5, <2>9
<1> QED
  BY <1>1, <1>2

(***************************************************************************)
(* What stays.                                                             *)
(***************************************************************************)

\* Failure is final, success too, and causes are never taken back.
Onward ==
  /\ \A c \in Conns : /\ Failed(c) => Failed(c)'
                      /\ cli[c].st = "ok" => cli'[c].st = "ok"
  /\ \A t \in Transfers : why'[t] = {} => why[t] = {}

LEMMA GoesBack ==
  ASSUME scn' = scn, Onward
  PROVE  /\ \A t \in Transfers : StreamsOf(t)' = StreamsOf(t)
         /\ \A t \in Transfers : Going(t)' => Going(t)
<1>1. \A t \in Transfers : StreamsOf(t)' = StreamsOf(t)
  BY DEF StreamsOf
<1>2. ASSUME NEW t \in Transfers, Going(t)' PROVE Going(t)
  <2>1. \A c \in StreamsOf(t) : ~Failed(c)'
    BY <1>1, <1>2 DEF Going
  <2>2. \A c \in StreamsOf(t) : ~Failed(c)
    BY <2>1, StreamsAreConns DEF Onward
  <2>3. \E c \in StreamsOf(t) : cli[c].st # "ok"
    BY <1>1, <1>2, StreamsAreConns DEF Going, Onward
  <2> QED
    BY <1>1, <1>2, <2>2, <2>3 DEF Going, Onward
<1> QED
  BY <1>1, <1>2

\* A stream of a copy that is going on.
LEMMA GoingFacts ==
  ASSUME TypeOK, NEW t \in Transfers, Going(t)
  PROVE  /\ ~Ended(t)
         /\ \A c \in StreamsOf(t) : /\ cli[c].reply \in {"none", "ok"}
                                    /\ cli[c].st \in {"idle", "sending", "waiting", "ok"}
<1>1. \A c \in StreamsOf(t) : /\ cli[c].reply \in {"none", "ok"}
                              /\ cli[c].st \in {"idle", "sending", "waiting", "ok"}
  BY TypeFacts, StreamOfOne DEF Going, Failed, ClientType
<1>2. ~Ended(t)
  BY <1>1 DEF Going, Ended
<1> QED
  BY <1>1, <1>2

\* A chunk that was handed over stays one.
LEMMA GenuineStays ==
  ASSUME TypeOK, scn' = scn, cli' \in [Conns -> ClientType],
         \A c \in Conns : cli'[c].next >= cli[c].next
  PROVE  \A f : f.c \in Conns /\ Genuine(f) => Genuine(f)'
<1>1. ASSUME NEW f, f.c \in Conns, Genuine(f) PROVE Genuine(f)'
  <2>1. ChunkSeqs(f.c)' = ChunkSeqs(f.c)
    BY ChunkSeqsSame
  <2>2. PICK j \in DOMAIN ChunkSeqs(f.c) : /\ j < cli[f.c].next /\ f.seq = ChunkSeqs(f.c)[j]
                                           /\ f.fin <=> j = Len(ChunkSeqs(f.c))
    BY <1>1 DEF Genuine
  <2>3. j \in Nat
    BY <1>1, ChunksAscend
  <2>4. j < cli'[f.c].next
    BY <1>1, <2>2, <2>3, TypeFacts DEF ClientType
  <2> QED
    BY <2>1, <2>2, <2>4 DEF Genuine
<1> QED
  BY <1>1

\* The next chunk is genuine once it is handed over, and comes after all
\* that were.
LEMMA ChunkGenuine ==
  ASSUME TypeOK, NEW c \in Conns, ~AllSent(c)
  PROVE  /\ cli[c].next \in DOMAIN ChunkSeqs(c) /\ Chunk(c).seq = ChunkSeqs(c)[cli[c].next]
         /\ Chunk(c).seq \in Nat
         /\ \A f : f.c = c /\ Genuine(f) => f.seq \in Nat /\ f.seq < Chunk(c).seq
         /\ \A n : Handed(c, n) => n \in Nat /\ n < Chunk(c).seq
<1>1. /\ cli[c].next \in Nat \ {0} /\ Len(ChunkSeqs(c)) \in Nat
      /\ DOMAIN ChunkSeqs(c) = 1 .. Len(ChunkSeqs(c))
      /\ Chunk(c).fin <=> cli[c].next = Len(ChunkSeqs(c))
  BY ChunkFacts, ChunksAscend
<1>2. cli[c].next \in DOMAIN ChunkSeqs(c)
  BY <1>1 DEF AllSent
<1>3. Chunk(c).seq = ChunkSeqs(c)[cli[c].next]
  BY DEF Chunk
<1>4. \A j \in DOMAIN ChunkSeqs(c) : j < cli[c].next => ChunkSeqs(c)[j] \in Nat /\ ChunkSeqs(c)[j] < Chunk(c).seq
  BY <1>2, <1>3, ChunksAscend, ConnFacts
<1>5. \A n : Handed(c, n) => n \in Nat /\ n < Chunk(c).seq
  BY <1>4 DEF Handed
<1>6. \A f : f.c = c /\ Genuine(f) => f.seq \in Nat /\ f.seq < Chunk(c).seq
  BY <1>4 DEF Genuine
<1>7. Chunk(c).seq \in Nat
  BY <1>2, <1>3, ChunksAscend, ConnFacts
<1> QED
  BY <1>2, <1>3, <1>5, <1>6, <1>7

\* A genuine frame has a chunk that was handed over.
LEMMA GenuineFacts ==
  ASSUME TypeOK, NEW f, f.c \in Conns, Genuine(f)
  PROVE  /\ Handed(f.c, f.seq) /\ f.seq \in 1 .. Size(f.c) /\ ChunkSeqs(f.c) # <<>>
         /\ Mode(f.c) # "par" => f.seq < cli[f.c].next /\ (f.fin <=> f.seq = Size(f.c))
         /\ f.fin => \A j \in DOMAIN ChunkSeqs(f.c) : ChunkSeqs(f.c)[j] <= f.seq
<1>1. PICK j \in DOMAIN ChunkSeqs(f.c) : /\ j < cli[f.c].next /\ f.seq = ChunkSeqs(f.c)[j]
                                         /\ f.fin <=> j = Len(ChunkSeqs(f.c))
  BY DEF Genuine
<1> DEFINE g == ChunkSeqs(f.c)
           z == Size(f.c)
<1>2. /\ Len(g) \in Nat /\ DOMAIN g = 1 .. Len(g) /\ z \in Nat
      /\ \A i \in DOMAIN g : g[i] \in 1 .. z
      /\ \A i, k \in DOMAIN g : i < k => g[i] < g[k]
      /\ Mode(f.c) # "par" => Len(g) = z /\ \A i \in 1 .. z : g[i] = i
  BY ChunksAscend, ConnFacts
<1>3. g # <<>>
  BY <1>1, <1>2
<1>4. f.seq = g[j] /\ j \in DOMAIN g /\ (f.fin <=> j = Len(g)) /\ j < cli[f.c].next /\ Handed(f.c, f.seq)
  BY <1>1 DEF Handed
<1> HIDE DEF g, z
<1>5. f.seq \in 1 .. z
  BY <1>2, <1>4
<1>6. Mode(f.c) # "par" => f.seq < cli[f.c].next /\ (f.fin <=> f.seq = z)
  BY <1>2, <1>4
<1>7. f.fin => \A m \in DOMAIN g : g[m] <= f.seq
  <2>1. ASSUME f.fin, NEW m \in DOMAIN g PROVE g[m] <= f.seq
    <3>1. j = Len(g)
      BY <1>4, <2>1, Zenon
    <3>4. m \in 1 .. Len(g) /\ j \in 1 .. Len(g) /\ Len(g) \in Nat
      BY <1>2, <1>4, <2>1
    <3>2. m = j \/ m < j
      BY <3>1, <3>4
    <3>3. g[m] \in Nat /\ g[j] \in Nat /\ (m < j => g[m] < g[j])
      <4>1. g[m] \in 1 .. z /\ g[j] \in 1 .. z
        BY <1>2, <1>4, <2>1
      <4>2. \A i, k \in DOMAIN g : i < k => g[i] < g[k]
        BY <1>2
      <4>3. m < j => g[m] < g[j]
        BY <1>4, <2>1, <4>2
      <4>4. z \in Nat
        BY <1>2
      <4> QED
        BY <4>1, <4>3, <4>4
    <3> QED
      BY <1>4, <3>2, <3>3
  <2> QED
    BY <2>1
<1> QED
  BY <1>3, <1>4, <1>5, <1>6, <1>7 DEF g, z

(***************************************************************************)
(* Steps that move no chunk: whatever else they do to the copies that are  *)
(* still going on afterwards leaves what is said of these.                 *)
(***************************************************************************)
SameQueues == \A l \in Links : tgt'[l].q = tgt[l].q /\ tgt'[l].link = tgt[l].link

LEMMA StillGoing ==
  ASSUME IInv, CopyInv, UNCHANGED <<scn, wire, dmn, files>>, SameQueues, Onward,
         \A c \in Active : Going(c[1])' =>
            cli'[c].next = cli[c].next /\ Routed(c)' /\ (Done(c)' => Done(c))
  PROVE  GoingInv'
<1>1. ASSUME NEW t \in Transfers, Going(t)'
      PROVE  /\ Unrivalled(t)'
             /\ \A c \in StreamsOf(t)' : Routed(c)' /\ InOrder(c)' /\ NoneMissing(c)' /\ Exact(c)' /\ Delivered(c)'
  <2>1. Going(t) /\ StreamsOf(t)' = StreamsOf(t)
    BY <1>1, GoesBack
  <2>2. /\ Unrivalled(t)
        /\ \A c \in StreamsOf(t) : Routed(c) /\ InOrder(c) /\ NoneMissing(c) /\ Exact(c) /\ Delivered(c)
    BY <2>1 DEF CopyInv, GoingInv
  <2>3. Entries' = Entries /\ \A l \in Links : Up(l)' <=> Up(l)
    BY DEF Entries, Up, SameQueues
  <2>4. ASSUME NEW c \in StreamsOf(t)
        PROVE  /\ c \in Conns /\ cli'[c].next = cli[c].next /\ Routed(c)' /\ (Done(c)' => Done(c))
    BY <1>1, <2>4, StreamOfOne
  <2>5. Unrivalled(t)'
    <3>1. \A u \in Transfers : LiveEntry(u)' <=> LiveEntry(u)
      BY <2>3 DEF LiveEntry
    <3> QED
      BY <2>1, <2>2, <2>3, <2>4, <3>1 DEF Unrivalled
  <2>6. ASSUME NEW c \in StreamsOf(t)
        PROVE  InOrder(c)' /\ NoneMissing(c)' /\ Exact(c)' /\ Delivered(c)'
    <3>1. /\ Mode(c)' = Mode(c) /\ Dst(c)' = Dst(c) /\ Size(c)' = Size(c) /\ ChunkSeqs(c)' = ChunkSeqs(c)
      BY ChunkSeqsSame DEF Size
    <3>2. /\ \A i : Payload(i, c)' <=> Payload(i, c)
          /\ \A n : (OnWay(c, n)' <=> OnWay(c, n)) /\ (Queues(c, n)' <=> Queues(c, n))
      BY <2>3 DEF Payload, OnWay, Queues, SameQueues
    <3>3. /\ \A n : InFile(c, n)' <=> InFile(c, n)
          /\ \A n : Kept(c, n)' <=> Kept(c, n)
          /\ Useful(c)' <=> Useful(c)
          /\ Carried(c)' <=> Carried(c)
          /\ Count(c)' = Count(c) /\ Held(c)' = Held(c)
      BY <2>3, <3>1 DEF InFile, Kept, Useful, Carried, InitOnWire, Count, Held, Data
    <3>4. InOrder(c)'
      BY <2>2, <2>3, <3>2 DEF InOrder, SameQueues
    <3>5. NoneMissing(c)'
      BY <2>2, <2>4, <3>1, <3>2, <3>3 DEF NoneMissing, Handed
    <3>6. Exact(c)'
      BY <2>2, <2>4, <3>1, <3>2, <3>3 DEF Exact, Data
    <3>7. Delivered(c)'
      BY <2>2, <2>4, <3>1, <3>3 DEF Delivered
    <3> QED
      BY <3>4, <3>5, <3>6, <3>7
  <2> QED
    BY <2>1, <2>4, <2>5, <2>6
<1> QED
  BY <1>1 DEF GoingInv

\* They also leave what is said of frames and streams.
LEMMA StillFramed ==
  ASSUME IInv, CopyInv, UNCHANGED <<scn, wire, dmn>>, SameQueues,
         cli' \in [Conns -> ClientType], \A c \in Conns : cli'[c].next >= cli[c].next
  PROVE  FrameInv'
<1>1. TypeOK /\ \A f : f.c \in Conns /\ Genuine(f) => Genuine(f)'
  BY GenuineStays DEF IInv
<1>2. WireGenuine'
  <2>1. ASSUME NEW i \in DOMAIN wire, wire[i].k # "init" PROVE Genuine(wire[i])'
    <3>1. PICK f : f = wire[i] /\ f = wire'[i]
      OBVIOUS
    <3>2. Genuine(f) /\ f.c \in Conns
      BY <1>1, <2>1, <3>1, StreamsNamed DEF CopyInv, FrameInv, WireGenuine
    <3> QED
      BY <1>1, <3>1, <3>2
  <2> QED
    BY <2>1 DEF WireGenuine
<1>3. QueueGenuine'
  <2>1. ASSUME NEW l \in Links, NEW i \in DOMAIN tgt'[l].q PROVE Genuine(tgt[l].q[i])'
    <3>1. PICK f : f = tgt[l].q[i] /\ f = tgt'[l].q[i]
      BY DEF SameQueues
    <3>2. Genuine(f) /\ f.c \in Conns
      BY <1>1, <2>1, <3>1, StreamsNamed DEF CopyInv, FrameInv, QueueGenuine, SameQueues
    <3> QED
      BY <1>1, <3>1, <3>2
  <2> QED
    BY <2>1 DEF QueueGenuine
<1>4. InitFirst' /\ PayloadSelected'
  BY DEF CopyInv, FrameInv, InitFirst, PayloadSelected, Entries
<1> QED
  BY <1>2, <1>3, <1>4 DEF FrameInv

LEMMA StillStreams ==
  ASSUME IInv, CopyInv, UNCHANGED <<scn, wire, dmn>>, SameQueues,
         cli' \in [Conns -> ClientType], \A c \in Conns : cli'[c].next >= cli[c].next,
         \A c \in Conns : rel'[c].route \in {0, rel[c].route},
         \A c \in Conns : /\ cli'[c].st = "idle" => cli[c].st = "idle" /\ cli'[c].reply = "none"
                          /\ cli'[c].reply = "ok" => Done(c)
                          /\ GoodResult(c)' => GoodResult(c)
                          /\ cli'[c].st = "ok" => cli'[c].reply = "ok"
  PROVE  StreamInv'
<1>1. Entries' = Entries /\ \A l \in Links : Up(l)' <=> Up(l)
  BY DEF Entries, Up, SameQueues
<1>2. \A c \in Conns : AllSent(c) => AllSent(c)'
  BY SentGrows DEF IInv
<1>3. \A c \in Conns : /\ Done(c)' => Done(c)
                       /\ InitOnWire(c)' <=> InitOnWire(c)
                       /\ Carried(c)' <=> Carried(c)
  BY <1>1, ChunkSeqsSame DEF Done, InitOnWire, Carried, Useful
<1>4. \A c \in Conns : Done(c) => AllSent(c)
  BY DEF Done, GoodResult, HasResult, IInv, SentInv, ResultsLast, CopyInv, StreamInv, OkLast
<1>5. Quiet' /\ OkLast'
  BY <1>2, <1>4 DEF CopyInv, StreamInv, Quiet, OkLast
<1>6. RouteUp'
  <2>1. ASSUME NEW c \in Conns, Carried(c)', rel'[c].route # 0 PROVE Up(rel[c].route)' /\ rel'[c].route = rel[c].route
    <3>1. rel'[c].route = rel[c].route /\ rel[c].route \in 0 .. MaxLink /\ rel[c].route # 0
      BY <2>1, TypeFacts DEF IInv, LoopType
    <3>2. rel[c].route \in Links
      BY <3>1, TransferAssumption DEF Links
    <3>3. Up(rel[c].route)
      BY <1>3, <2>1, <3>1 DEF CopyInv, StreamInv, RouteUp
    <3>4. PICK l \in Links : l = rel[c].route /\ Up(l) /\ l = rel'[c].route
      BY <3>1, <3>2, <3>3
    <3>5. Up(l)'
      BY <1>1, <3>4
    <3> QED
      BY <3>1, <3>4, <3>5 DEF Up
  <2> QED
    BY <2>1 DEF RouteUp, Up
<1>7. EntryOpen' /\ DoneOut'
  BY <1>1, <1>3, ChunkSeqsSame DEF CopyInv, StreamInv, EntryOpen, DoneOut
<1> QED
  BY <1>5, <1>6, <1>7 DEF StreamInv

LEMMA NothingMoves ==
  ASSUME IInv, CopyInv, UNCHANGED <<scn, wire, dmn, files>>, SameQueues, Onward,
         cli' \in [Conns -> ClientType], \A c \in Conns : cli'[c].next >= cli[c].next,
         \A c \in Conns : rel'[c].route \in {0, rel[c].route},
         \A c \in Conns : /\ cli'[c].st = "idle" => cli[c].st = "idle" /\ cli'[c].reply = "none"
                          /\ cli'[c].reply = "ok" => Done(c)
                          /\ GoodResult(c)' => GoodResult(c)
                          /\ cli'[c].st = "ok" => cli'[c].reply = "ok",
         \A c \in Active : Going(c[1])' =>
            /\ cli'[c].next = cli[c].next
            /\ cli'[c].st = "sending" => cli[c].st = "sending" /\ rel'[c].route = rel[c].route
  PROVE  CopyInv'
<1>1. FrameInv'
  BY StillFramed
<1>2. StreamInv'
  BY StillStreams
<1>3. ASSUME NEW c \in Active, Going(c[1])'
      PROVE  cli'[c].next = cli[c].next /\ Routed(c)' /\ (Done(c)' => Done(c))
  <2>1. c \in Conns /\ c \in StreamsOf(c[1]) /\ c[1] \in Transfers
    BY StreamOfOne, StreamsAreConns
  <2>2. Routed(c)
    BY <1>3, <2>1, GoesBack DEF CopyInv, GoingInv
  <2>3. Routed(c)'
    BY <1>3, <2>2 DEF Routed
  <2>4. Done(c)' => Done(c)
    BY <2>1 DEF Done
  <2> QED
    BY <1>3, <2>3, <2>4
<1>4. GoingInv'
  BY <1>3, StillGoing
<1> QED
  BY <1>1, <1>2, <1>4 DEF CopyInv

\* What is known of every stream, for the steps that leave most of them alone.
LEMMA OtherStreams ==
  ASSUME IInv, CopyInv
  PROVE  \A c \in Conns : /\ cli[c].next >= cli[c].next
                          /\ rel[c].route \in {0, rel[c].route}
                          /\ cli[c].st = "idle" => cli[c].reply = "none"
                          /\ cli[c].reply = "ok" => Done(c)
                          /\ cli[c].st = "ok" => cli[c].reply = "ok"
  BY TypeFacts DEF IInv, ClientType, CopyInv, StreamInv, Quiet, OkLast, Done

\* What a client does by itself changes where its streams stand.
LEMMA ClientsOnly ==
  ASSUME IInv, CopyInv, UNCHANGED <<scn, rel, tgt, reg, wire, back, dmn, files, why>>,
         cli' \in [Conns -> ClientType],
         \A c \in Conns : /\ cli'[c].next = cli[c].next /\ cli'[c].reply = cli[c].reply
                          /\ \/ cli'[c].st = cli[c].st
                             \/ cli'[c].st = "ok" /\ cli[c].st = "waiting" /\ cli[c].reply = "ok"
                             \/ cli'[c].st \in {"err", "dead"} /\ cli[c].st # "ok"
  PROVE  CopyInv'
<1>1. SameQueues /\ \A c : GoodResult(c)' <=> GoodResult(c)
  BY DEF SameQueues, GoodResult
<1>2. Onward
  BY DEF Onward, Failed
<1>3. \A c \in Conns : /\ cli'[c].st = "idle" => cli[c].st = "idle" /\ cli'[c].reply = "none"
                       /\ cli'[c].reply = "ok" => Done(c)
                       /\ GoodResult(c)' => GoodResult(c)
                       /\ cli'[c].st = "ok" => cli'[c].reply = "ok"
  BY <1>1, OtherStreams
<1>4. \A c \in Active : /\ cli'[c].next = cli[c].next
                        /\ cli'[c].st = "sending" => cli[c].st = "sending" /\ rel'[c].route = rel[c].route
  BY StreamsAreConns
<1>5. \A c \in Conns : cli'[c].next >= cli[c].next /\ rel'[c].route \in {0, rel[c].route}
  BY OtherStreams
<1> QED
  BY <1>1, <1>2, <1>3, <1>4, <1>5, NothingMoves

LEMMA ClientCopies ==
  ASSUME IInv, CopyInv, NEW c \in Active, ClientReads(c) \/ ClientTimesOut(c)
  PROVE  CopyInv'
<1>1. c \in Conns /\ cli \in [Conns -> ClientType]
  BY StreamsAreConns, TypeFacts DEF IInv
<1>2. PICK s \in {"ok", "err"} : /\ cli[c].st = "waiting" /\ cli' = [cli EXCEPT ![c].st = s]
                                 /\ s = "ok" => cli[c].reply = "ok"
                                 /\ UNCHANGED <<scn, rel, tgt, reg, wire, back, dmn, files, why>>
  BY <1>1 DEF ClientReads, ClientTimesOut, ClientType
<1>3. /\ cli' \in [Conns -> ClientType] /\ \A d \in Conns : d # c => cli'[d] = cli[d]
      /\ cli'[c].st = s /\ cli'[c].next = cli[c].next /\ cli'[c].reply = cli[c].reply
  BY <1>1, <1>2 DEF ClientType
<1> QED
  BY <1>1, <1>2, <1>3, ClientsOnly

LEMMA DeathCopies ==
  ASSUME IInv, CopyInv, NEW t \in Transfers, ClientDies(t)
  PROVE  CopyInv'
<1>1. cli \in [Conns -> ClientType]
  BY TypeFacts DEF IInv
<1>2. cli' \in [Conns -> ClientType]
  BY <1>1 DEF ClientDies, ClientType
<1>3. \A c \in Conns : cli'[c] = IF c \in StreamsOf(t) /\ cli[c].st \notin {"ok", "err"}
                                 THEN [cli[c] EXCEPT !.st = "dead"] ELSE cli[c]
  BY DEF ClientDies
<1>4. \A c \in Conns : /\ cli'[c].next = cli[c].next /\ cli'[c].reply = cli[c].reply
                       /\ cli'[c].st = cli[c].st \/ (cli'[c].st = "dead" /\ cli[c].st # "ok")
  BY <1>1, <1>3 DEF ClientType
<1> QED
  BY <1>2, <1>4, ClientsOnly DEF ClientDies

\* A failing stream's copy does not go on; the others are left alone.
LEMMA OneFails ==
  ASSUME IInv, CopyInv, UNCHANGED <<scn, wire, back, dmn, files, why>>, SameQueues,
         NEW c \in Conns, cli[c].st # "ok", Failed(c)',
         cli' \in [Conns -> ClientType],
         \A d \in Conns : d # c => cli'[d] = cli[d],
         \A d \in Conns : d # c => rel'[d].route = rel[d].route,
         rel'[c].route \in {0, rel[c].route}, cli'[c].next >= cli[c].next,
         cli'[c].st \notin {"idle", "ok"}, cli'[c].reply = "ok" => cli[c].reply = "ok"
  PROVE  CopyInv'
<1>1. \A d : GoodResult(d)' <=> GoodResult(d)
  BY DEF GoodResult
<1>2. Onward
  BY DEF Onward, Failed
<1>3. \A d \in Conns : /\ cli'[d].st = "idle" => cli[d].st = "idle" /\ cli'[d].reply = "none"
                       /\ cli'[d].reply = "ok" => Done(d)
                       /\ GoodResult(d)' => GoodResult(d)
                       /\ cli'[d].st = "ok" => cli'[d].reply = "ok"
  BY <1>1, OtherStreams
<1>4. ASSUME NEW d \in Active, Going(d[1])'
      PROVE  /\ cli'[d].next = cli[d].next
             /\ cli'[d].st = "sending" => cli[d].st = "sending" /\ rel'[d].route = rel[d].route
  <2>1. d \in Conns /\ d \in StreamsOf(d[1])
    BY StreamOfOne, StreamsAreConns
  <2>2. ~Failed(d)'
    <3>1. StreamsOf(d[1])' = StreamsOf(d[1])
      BY DEF StreamsOf
    <3> QED
      BY <1>4, <2>1, <3>1 DEF Going
  <2>3. d # c
    BY <2>2
  <2> QED
    BY <2>1, <2>3
<1>5. \A d \in Conns : cli'[d].next >= cli[d].next /\ rel'[d].route \in {0, rel[d].route}
  BY OtherStreams
<1> QED
  BY <1>1, <1>2, <1>3, <1>4, <1>5, NothingMoves

LEMMA DropCopies ==
  ASSUME IInv, CopyInv, NEW c \in Active, RelayDropsChunk(c)
  PROVE  CopyInv'
<1>1. c \in Conns /\ c \in StreamsOf(c[1]) /\ c[1] \in Transfers /\ ~AllSent(c) /\ TypeOK
  BY InHand, StreamsAreConns, StreamOfOne DEF RelayDropsChunk, IInv
<1>2. /\ UNCHANGED <<scn, rel, tgt, reg, wire, back, dmn, files, why>>
      /\ cli' = Forwarded(c) /\ cli[c].st = "sending" /\ rel[c].route = 0
  BY DEF RelayDropsChunk
<1>3. PICK b \in BOOLEAN : b = Chunk(c).fin
  BY <1>1, ChunkFacts DEF Queued
<1>4. /\ cli' \in [Conns -> ClientType] /\ \A d \in Conns : d # c => cli'[d] = cli[d]
      /\ cli'[c].next = cli[c].next + 1 /\ cli'[c].reply = cli[c].reply
      /\ cli'[c].st = IF b /\ cli[c].st = "sending" THEN "waiting" ELSE cli[c].st
  BY <1>1, <1>2, <1>3, ForwardedFacts
<1>5. cli'[c].st \in {"sending", "waiting"} /\ cli'[c].next >= cli[c].next
  BY <1>1, <1>2, <1>4, TypeFacts DEF ClientType
<1>6. SameQueues /\ \A d : GoodResult(d)' <=> GoodResult(d)
  BY <1>2 DEF SameQueues, GoodResult
<1>7. Onward
  BY <1>2, <1>4, <1>5 DEF Onward, Failed
<1>8. \A d \in Conns : /\ cli'[d].st = "idle" => cli[d].st = "idle" /\ cli'[d].reply = "none"
                       /\ cli'[d].reply = "ok" => Done(d)
                       /\ GoodResult(d)' => GoodResult(d)
                       /\ cli'[d].st = "ok" => cli'[d].reply = "ok"
  BY <1>4, <1>5, <1>6, OtherStreams
<1>9. ASSUME NEW d \in Active, Going(d[1])'
      PROVE  /\ cli'[d].next = cli[d].next
             /\ cli'[d].st = "sending" => cli[d].st = "sending" /\ rel'[d].route = rel[d].route
  <2>1. d \in Conns /\ d \in StreamsOf(d[1]) /\ d[1] \in Transfers
    BY StreamOfOne, StreamsAreConns
  <2>2. Routed(d)
    BY <1>2, <1>7, <1>9, <2>1, GoesBack DEF CopyInv, GoingInv
  <2>3. d # c
    BY <1>2, <2>2 DEF Routed
  <2> QED
    BY <1>2, <1>4, <2>1, <2>3
<1>10. \A d \in Conns : cli'[d].next >= cli[d].next /\ rel'[d].route \in {0, rel[d].route}
  BY <1>2, <1>4, <1>5, OtherStreams
<1> QED
  BY <1>2, <1>4, <1>6, <1>7, <1>8, <1>9, <1>10, NothingMoves

LEMMA TakeCopies ==
  ASSUME IInv, CopyInv, NEW c \in Active, RelayTakesQueue(c)
  PROVE  CopyInv'
<1>1. c \in Conns /\ rel \in [Conns -> LoopType] /\ cli \in [Conns -> ClientType]
  BY StreamsAreConns, TypeFacts DEF IInv
<1>2. UNCHANGED <<scn, cli, tgt, reg, wire, back, dmn, files, why>>
  BY DEF RelayTakesQueue
<1>3. \A d \in Conns : rel'[d].route = rel[d].route
  BY <1>1 DEF RelayTakesQueue, LoopType
<1>4. SameQueues /\ \A d : GoodResult(d)' <=> GoodResult(d)
  BY <1>2 DEF SameQueues, GoodResult
<1>5. Onward
  BY <1>2 DEF Onward, Failed
<1>6. \A d \in Conns : /\ cli'[d].st = "idle" => cli[d].st = "idle" /\ cli'[d].reply = "none"
                       /\ cli'[d].reply = "ok" => Done(d)
                       /\ GoodResult(d)' => GoodResult(d)
                       /\ cli'[d].st = "ok" => cli'[d].reply = "ok"
  BY <1>2, <1>4, OtherStreams
<1>7. \A d \in Active : /\ cli'[d].next = cli[d].next
                        /\ cli'[d].st = "sending" => cli[d].st = "sending" /\ rel'[d].route = rel[d].route
  BY <1>2, <1>3, StreamsAreConns
<1>8. \A d \in Conns : cli'[d].next >= cli[d].next /\ rel'[d].route \in {0, rel[d].route}
  BY <1>2, <1>3, OtherStreams
<1> QED
  BY <1>1, <1>2, <1>4, <1>5, <1>6, <1>7, <1>8, NothingMoves

LEMMA PanicOrEndCopies ==
  ASSUME IInv, CopyInv, NEW c \in Active, RelayPanics(c) \/ RelayEnds(c)
  PROVE  CopyInv'
<1>1. cli \in [Conns -> ClientType] /\ rel \in [Conns -> LoopType] /\ c \in Conns
  BY TypeFacts, StreamsAreConns DEF IInv
<1>2. /\ cli[c].st # "idle" /\ cli[c].st # "ok"
      /\ RelayPanics(c) => cli[c].reply # "ok"
  BY <1>1, InHand DEF RelayPanics, RelayEnds, CopyInv, StreamInv, OkLast
<1>3. /\ cli' \in [Conns -> ClientType] /\ \A d \in Conns : d # c => cli'[d] = cli[d]
      /\ cli'[c].next = cli[c].next /\ cli'[c].st \in {"waiting", "err", "dead"} /\ Failed(c)'
      /\ cli'[c].reply = "ok" => cli[c].reply = "ok"
  <2>1. CASE RelayPanics(c)
    <3>1. Reply(c, "err") = [cli[c] EXCEPT !.reply = "err"]
      BY <1>1, <1>2, <2>1 DEF Reply, ClientType
    <3>2. PICK s \in {"waiting", "dead"} : cli' = [cli EXCEPT ![c] = [cli[c] EXCEPT !.reply = "err", !.st = s]]
      <4> DEFINE g == [cli[c] EXCEPT !.reply = "err"]
      <4>1. g \in ClientType /\ g.st = cli[c].st
        BY <1>1 DEF ClientType
      <4>2. cli' = [cli EXCEPT ![c] = [g EXCEPT !.st = IF cli[c].st = "dead" THEN "dead" ELSE "waiting"]]
        BY <1>1, <2>1, <3>1, <4>1 DEF RelayPanics
      <4> QED
        BY <1>1, <4>1, <4>2 DEF ClientType
    <3> QED
      BY <1>1, <3>2 DEF ClientType, Failed
  <2>2. CASE RelayEnds(c)
    BY <1>1, <2>2 DEF RelayEnds, Failed
  <2> QED
    BY <2>1, <2>2
<1>4. /\ \A d \in Conns : d # c => rel'[d].route = rel[d].route
      /\ rel'[c].route = 0
  <2>1. CASE RelayPanics(c)
    BY <1>1, <2>1 DEF LoopType, RelayPanics
  <2>2. CASE RelayEnds(c)
    <3>1. PICK p : p = (rel[c].pend /\ Size(c) # 0)
      OBVIOUS
    <3>2. rel' = [rel EXCEPT ![c].route = 0, ![c].pend = p]
      BY <2>2, <3>1 DEF RelayEnds
    <3> QED
      BY <1>1, <3>2 DEF LoopType
  <2> QED
    BY <2>1, <2>2
<1>5. UNCHANGED <<scn, tgt, reg, wire, back, dmn, files, why>> /\ SameQueues
  BY DEF RelayPanics, RelayEnds, SameQueues
<1>6. cli'[c].next >= cli[c].next
  BY <1>1, <1>3 DEF ClientType
<1> QED
  BY <1>1, <1>2, <1>3, <1>4, <1>5, <1>6, OneFails

\* A chunk that the relay could not pass on.
LEMMA ForwardFailsCopies ==
  ASSUME IInv, CopyInv, NEW c \in Active, rel[c].took # "no", ForwardFails(c),
         UNCHANGED <<scn, tgt, reg, wire, back, dmn, files>>,
         \A t \in Transfers : why'[t] = {} => why[t] = {}
  PROVE  CopyInv'
<1>1. c \in Conns /\ cli[c].st # "idle" /\ ~AllSent(c) /\ TypeOK
  BY InHand, StreamsAreConns DEF IInv
<1>2. cli[c].reply # "ok" /\ cli[c].st # "ok"
  BY <1>1 DEF CopyInv, StreamInv, OkLast
<1>3. cli \in [Conns -> ClientType] /\ rel \in [Conns -> LoopType]
  BY <1>1, TypeFacts
<1>4. PICK b \in BOOLEAN : b = Chunk(c).fin
  BY <1>1, ChunkFacts DEF Queued
<1> DEFINE n == Forwarded(c)
<1>5. /\ n \in [Conns -> ClientType] /\ \A d \in Conns : d # c => n[d] = cli[d]
      /\ n[c].next = cli[c].next + 1 /\ n[c].reply = cli[c].reply
      /\ n[c].st = IF b /\ cli[c].st = "sending" THEN "waiting" ELSE cli[c].st
  BY <1>1, <1>4, ForwardedFacts
<1>6. cli' = [n EXCEPT ![c].reply = IF @ = "none" THEN "err" ELSE @]
  BY DEF ForwardFails
<1> HIDE DEF n
<1>7. /\ cli' \in [Conns -> ClientType] /\ \A d \in Conns : d # c => cli'[d] = cli[d]
      /\ cli'[c].next = cli[c].next + 1 /\ cli'[c].st = n[c].st /\ cli'[c].reply = "err"
  BY <1>1, <1>2, <1>3, <1>5, <1>6 DEF ClientType
<1>8. \A d \in Conns : d # c => rel'[d] = rel[d]
  BY <1>3 DEF ForwardFails
<1>9. rel'[c].route = 0
  BY <1>1, <1>3 DEF ForwardFails
<1>10. cli'[c].next >= cli[c].next /\ cli'[c].st \notin {"idle", "ok"} /\ Failed(c)'
  BY <1>1, <1>2, <1>3, <1>5, <1>7 DEF ClientType, Failed
<1>11. SameQueues /\ \A d : GoodResult(d)' <=> GoodResult(d)
  BY DEF SameQueues, GoodResult
<1>12. Onward
  BY <1>2, <1>7, <1>10 DEF Onward, Failed
<1>13. \A d \in Conns : /\ cli'[d].st = "idle" => cli[d].st = "idle" /\ cli'[d].reply = "none"
                        /\ cli'[d].reply = "ok" => Done(d)
                        /\ GoodResult(d)' => GoodResult(d)
                        /\ cli'[d].st = "ok" => cli'[d].reply = "ok"
  BY <1>7, <1>10, <1>11, OtherStreams
<1>14. ASSUME NEW d \in Active, Going(d[1])'
       PROVE  /\ cli'[d].next = cli[d].next
              /\ cli'[d].st = "sending" => cli[d].st = "sending" /\ rel'[d].route = rel[d].route
  <2>1. d \in Conns /\ d \in StreamsOf(d[1])
    BY StreamOfOne, StreamsAreConns
  <2>2. ~Failed(d)'
    <3>1. StreamsOf(d[1])' = StreamsOf(d[1])
      BY DEF StreamsOf
    <3> QED
      BY <1>14, <2>1, <3>1 DEF Going
  <2>3. d # c
    BY <1>10, <2>2
  <2> QED
    BY <1>7, <1>8, <2>1, <2>3
<1>15. \A d \in Conns : cli'[d].next >= cli[d].next /\ rel'[d].route \in {0, rel[d].route}
  <2>1. \A d \in Conns : d # c => cli'[d].next >= cli[d].next /\ rel'[d].route \in {0, rel[d].route}
    BY <1>7, <1>8, OtherStreams
  <2> QED
    BY <1>9, <1>10, <2>1
<1> QED
  BY <1>7, <1>11, <1>12, <1>13, <1>14, <1>15, NothingMoves

LEMMA ResultCopies ==
  ASSUME IInv, CopyInv, RelayRelaysResult
  PROVE  CopyInv'
<1>1. /\ UNCHANGED <<scn, reg, wire, dmn, files, why>>
      /\ back # <<>> /\ back' = Tail(back) /\ TypeOK /\ back \in Seq(Results)
      /\ cli \in [Conns -> ClientType] /\ rel \in [Conns -> LoopType] /\ tgt \in [Links -> LinkType]
  BY TypeFacts DEF IInv, RelayRelaysResult
<1>2. /\ 1 \in DOMAIN back /\ Head(back) \in Results /\ Head(back) = back[1]
      /\ \A i \in DOMAIN back' : i + 1 \in DOMAIN back /\ back'[i] = back[i + 1]
  BY <1>1
<1>3. PICK r \in Results : r = Head(back) /\ r = back[1] /\ r.c \in Conns
  BY <1>2 DEF Results
<1>4. r.ok => GoodResult(r.c)
  BY <1>2, <1>3 DEF GoodResult
<1>5. \A c : GoodResult(c)' => GoodResult(c)
  BY <1>2 DEF GoodResult
<1>6. /\ cli' \in [Conns -> ClientType]
      /\ \A c \in Conns : /\ cli'[c].next = cli[c].next /\ cli'[c].st = cli[c].st
                          /\ rel'[c].route = rel[c].route
                          /\ \/ cli'[c].reply = cli[c].reply
                             \/ /\ cli[c].reply = "none" /\ cli[c].st # "idle"
                                /\ cli'[c].reply = "ok" => GoodResult(c)
      /\ SameQueues
  <2>1. CASE rel[r.c].pend
    <3>1. PICK s \in {"ok", "err"} : cli' = [cli EXCEPT ![r.c] = Reply(r.c, s)] /\ (s = "ok" => r.ok)
      BY <1>3, <2>1 DEF RelayRelaysResult
    <3>2. rel' = [rel EXCEPT ![r.c].pend = FALSE] /\ tgt' = CloseQueue(r.l)
      BY <1>3, <2>1 DEF RelayRelaysResult
    <3>3. /\ cli' \in [Conns -> ClientType]
          /\ \A c \in Conns : /\ cli'[c].next = cli[c].next /\ cli'[c].st = cli[c].st
                              /\ rel'[c].route = rel[c].route
          /\ \A l \in Links : tgt'[l].q = tgt[l].q /\ tgt'[l].link = tgt[l].link
      BY <2>1, <3>1, <3>2, Resulting
    <3>4. cli'[r.c] = Reply(r.c, s) /\ \A c \in Conns : c # r.c => cli'[c] = cli[c]
      BY <1>1, <1>3, <3>1
    <3>5. Reply(r.c, s).reply = IF cli[r.c].reply = "none" THEN s ELSE cli[r.c].reply
      BY <1>1, <1>3 DEF Reply, ClientType
    <3>6. cli[r.c].st # "idle"
      BY <1>3, <2>1 DEF IInv, OnceInv, IdleFresh, Untouched
    <3> QED
      BY <1>4, <3>1, <3>3, <3>4, <3>5, <3>6 DEF SameQueues
  <2>2. CASE ~rel[r.c].pend
    <3>1. UNCHANGED <<rel, cli, tgt>>
      BY <1>3, <2>2 DEF RelayRelaysResult
    <3> QED
      BY <1>1, <3>1 DEF SameQueues
  <2> QED
    BY <2>1, <2>2
<1>7. Onward
  BY <1>1, <1>6 DEF Onward, Failed
<1>8. \A d \in Conns : /\ cli'[d].st = "idle" => cli[d].st = "idle" /\ cli'[d].reply = "none"
                       /\ cli'[d].reply = "ok" => Done(d)
                       /\ GoodResult(d)' => GoodResult(d)
                       /\ cli'[d].st = "ok" => cli'[d].reply = "ok"
  BY <1>5, <1>6, OtherStreams DEF Done
<1>9. \A d \in Active : /\ cli'[d].next = cli[d].next
                        /\ cli'[d].st = "sending" => cli[d].st = "sending" /\ rel'[d].route = rel[d].route
  BY <1>6, StreamsAreConns
<1>10. \A d \in Conns : cli'[d].next >= cli[d].next /\ rel'[d].route \in {0, rel[d].route}
  BY <1>6, OtherStreams
<1> QED
  BY <1>1, <1>6, <1>7, <1>8, <1>9, <1>10, NothingMoves

LEMMA UnregisterCopies ==
  ASSUME IInv, CopyInv, NEW l \in Links, RelayUnregisters(l)
  PROVE  CopyInv'
<1>1. /\ UNCHANGED <<scn, cli, rel, wire, back, dmn, files, why>>
      /\ cli \in [Conns -> ClientType] /\ tgt \in [Links -> LinkType]
  BY TypeFacts DEF RelayUnregisters, IInv
<1>2. SameQueues /\ \A d : GoodResult(d)' <=> GoodResult(d)
  <2>1. PICK t \in [Links -> LinkType] :
          /\ tgt' = [t EXCEPT ![l].gone = TRUE]
          /\ \A m \in Links : t[m].q = tgt[m].q /\ t[m].link = tgt[m].link
    <3>1. /\ CloseQueue(l) \in [Links -> LinkType]
          /\ \A m \in Links : CloseQueue(l)[m].q = tgt[m].q /\ CloseQueue(l)[m].link = tgt[m].link
      BY <1>1 DEF CloseQueue, LinkType
    <3> QED
      BY <3>1 DEF RelayUnregisters
  <2>2. SameQueues
    BY <2>1 DEF SameQueues, LinkType
  <2> QED
    BY <1>1, <2>2 DEF GoodResult
<1>3. Onward
  BY <1>1 DEF Onward, Failed
<1>4. \A d \in Conns : /\ cli'[d].st = "idle" => cli[d].st = "idle" /\ cli'[d].reply = "none"
                       /\ cli'[d].reply = "ok" => Done(d)
                       /\ GoodResult(d)' => GoodResult(d)
                       /\ cli'[d].st = "ok" => cli'[d].reply = "ok"
  BY <1>1, <1>2, OtherStreams
<1>5. \A d \in Conns : cli'[d].next >= cli[d].next /\ rel'[d].route \in {0, rel[d].route}
  BY <1>1, OtherStreams
<1> QED
  BY <1>1, <1>2, <1>3, <1>4, <1>5, NothingMoves

(***************************************************************************)
(* A stream is announced: nothing of it exists before, and nothing but the *)
(* announcement afterwards.                                                *)
(***************************************************************************)
LEMMA AnnounceCopies ==
  ASSUME IInv, CopyInv, NEW c \in Active, RelayAnnounces(c)
  PROVE  CopyInv'
<1>1. /\ cli[c].st = "idle" /\ c \in Conns /\ TypeOK
      /\ cli \in [Conns -> ClientType] /\ rel \in [Conns -> LoopType] /\ tgt \in [Links -> LinkType]
      /\ UNCHANGED <<scn, reg, back, dmn, files, why>>
  BY TypeFacts, StreamsAreConns DEF IInv, RelayAnnounces
<1>2. Untouched(c) /\ cli[c].reply = "none" /\ cli[c].next = 1
  BY <1>1 DEF IInv, OnceInv, IdleFresh, Untouched, CopyInv, StreamInv, Quiet
<1> DEFINE s == IF ChunkSeqs(c) = <<>> THEN "waiting" ELSE "sending"
           began == [cli[c] EXCEPT !.st = s]
           refused == [began EXCEPT !.reply = "err"]
           f == [k |-> "init", c |-> c, seq |-> 0, fin |-> FALSE]
<1>3. s \in {"sending", "waiting"}
  OBVIOUS
<1>4. \/ cli' = [cli EXCEPT ![c] = refused] /\ UNCHANGED <<rel, tgt, wire>>
      \/ /\ cli' = [cli EXCEPT ![c] = began] /\ reg # 0
         /\ rel' = [rel EXCEPT ![c] = [route |-> reg, took |-> "no", pend |-> TRUE]]
         /\ Write(reg, <<f>>)
         /\ tgt' = Started(reg)
  BY DEF RelayAnnounces
<1> HIDE DEF s
<1>5. /\ began \in ClientType /\ began.st = s /\ began.next = 1 /\ began.reply = "none"
      /\ refused \in ClientType /\ refused.st = s /\ refused.next = 1 /\ refused.reply = "err"
  BY <1>1, <1>2, <1>3 DEF ClientType
<1> HIDE DEF began, refused
<1>6. CASE cli' = [cli EXCEPT ![c] = refused] /\ UNCHANGED <<rel, tgt, wire>>
  <2>1. /\ cli' \in [Conns -> ClientType] /\ \A d \in Conns : d # c => cli'[d] = cli[d]
        /\ cli'[c] = refused
    BY <1>1, <1>5, <1>6
  <2>2. Failed(c)' /\ cli'[c].st \notin {"idle", "ok"} /\ cli'[c].next >= cli[c].next
    BY <1>2, <1>3, <1>5, <2>1 DEF Failed
  <2>3. SameQueues
    BY <1>6 DEF SameQueues
  <2> QED
    BY <1>1, <1>5, <1>6, <2>1, <2>2, <2>3, OneFails
<1>7. CASE /\ cli' = [cli EXCEPT ![c] = began] /\ reg # 0
           /\ rel' = [rel EXCEPT ![c] = [route |-> reg, took |-> "no", pend |-> TRUE]]
           /\ Write(reg, <<f>>)
           /\ tgt' = Started(reg)
  <2>1. /\ cli' \in [Conns -> ClientType] /\ \A d \in Conns : d # c => cli'[d] = cli[d]
        /\ cli'[c].st = s /\ cli'[c].next = 1 /\ cli'[c].reply = "none"
    BY <1>1, <1>5, <1>7
  <2>2. /\ \A d \in Conns : d # c => rel'[d] = rel[d]
        /\ rel'[c].route = reg /\ reg \in Links
    BY <1>1, <1>7 DEF TypeOK, Links
  <2>3. SameQueues
    BY <1>1, <1>7, <2>2 DEF Started, SameQueues, LinkType
  <2>4. /\ wire \in Seq(Frames) /\ wire' \in Seq(Frames)
        /\ \A i \in DOMAIN wire : i \in DOMAIN wire' /\ wire'[i] = wire[i]
        /\ \A i \in DOMAIN wire' : i \in DOMAIN wire \/ (Up(reg) /\ i = Len(wire) + 1 /\ wire'[i] = f)
    <3>1. wire \in Seq(Frames) /\ Paired(wire)
      BY <1>1, TypeFacts DEF IInv, PairInv
    <3>2. CASE ~Up(reg)
      BY <1>7, <3>1, <3>2 DEF Write
    <3>3. CASE Up(reg)
      <4>1. wire' = wire \o <<[k |-> "init", c |-> c, seq |-> 0, fin |-> FALSE]>>
        BY <1>7, <3>3 DEF Write
      <4>2. /\ wire' \in Seq(Frames)
            /\ \A i \in DOMAIN wire : i \in DOMAIN wire' /\ wire'[i] = wire[i]
            /\ \A i \in DOMAIN wire' : i \in DOMAIN wire \/ i = Len(wire) + 1
            /\ wire'[Len(wire) + 1] = [k |-> "init", c |-> c, seq |-> 0, fin |-> FALSE]
        BY <1>1, <3>1, <4>1, WireInit
      <4> QED
        BY <3>1, <3>3, <4>2
    <3> QED
      BY <3>2, <3>3
  <2>5. Entries' = Entries /\ \A l \in Links : Up(l)' <=> Up(l)
    BY <1>1, <2>3 DEF Entries, Up, SameQueues
  <2>6. \A d \in Conns : cli'[d].next >= cli[d].next
    BY <1>2, <2>1, OtherStreams
  <2>7. /\ \A d \in Conns : d # c => (InitOnWire(d)' <=> InitOnWire(d))
        /\ InitOnWire(c)' => Up(reg)
        /\ \A d \in Conns : \A i : Payload(i, d)' <=> Payload(i, d)
        /\ \A d \in Conns : \A i : Payload(i, d) => wire'[i] = wire[i]
    <3>1. f.k = "init" /\ f.c = c
      OBVIOUS
    <3> HIDE DEF f
    <3> QED
      BY <1>2, <2>4, <3>1 DEF InitOnWire, Untouched, OnWire, Payload
  <2>8. /\ \A d \in Conns : (Useful(d)' <=> Useful(d))
        /\ \A d \in Conns : d # c => (Carried(d)' <=> Carried(d))
        /\ Carried(c)' => Up(reg)
        /\ \A d \in Conns : GoodResult(d)' <=> GoodResult(d)
        /\ \A d \in Conns : Done(d)' <=> Done(d)
        /\ ~Done(c)
    <3>1. \A d \in Conns : (Useful(d)' <=> Useful(d)) /\ (GoodResult(d)' <=> GoodResult(d))
      BY <1>1, <2>5, ChunkSeqsSame DEF Useful, GoodResult
    <3>2. ~Useful(c) /\ ~GoodResult(c)
      BY <1>2 DEF Untouched, Useful, HasResult, GoodResult
    <3>3. \A d \in Conns : cli'[d].reply = cli[d].reply
      BY <1>2, <2>1
    <3>4. \A d \in Conns : Done(d)' <=> Done(d)
      BY <3>1, <3>3 DEF Done
    <3>5. ~Done(c)
      BY <1>2, <3>2 DEF Done
    <3>6. \A d \in Conns : d # c => (Carried(d)' <=> Carried(d))
      BY <2>5, <2>7, <3>1 DEF Carried
    <3>7. Carried(c)' => Up(reg)
      BY <1>1, <2>5, <2>7, <3>1, <3>2 DEF Carried
    <3> QED
      BY <3>1, <3>4, <3>5, <3>6, <3>7
  <2>9. FrameInv'
    <3>1. \A g : g.c \in Conns /\ Genuine(g) => Genuine(g)'
      BY <1>1, <2>1, <2>6, GenuineStays
    <3>2. WireGenuine'
      <4>1. ASSUME NEW i \in DOMAIN wire', wire'[i].k # "init" PROVE Genuine(wire[i])'
        <5>1. i \in DOMAIN wire /\ wire'[i] = wire[i]
          BY <2>4, <4>1
        <5>2. PICK g : g = wire[i] /\ g = wire'[i]
          BY <5>1
        <5>3. Genuine(g) /\ g.c \in Conns
          BY <1>1, <4>1, <5>1, <5>2, StreamsNamed DEF CopyInv, FrameInv, WireGenuine
        <5> QED
          BY <3>1, <5>2, <5>3
      <4> QED
        BY <4>1 DEF WireGenuine
    <3>3. QueueGenuine'
      <4>1. ASSUME NEW l \in Links, NEW i \in DOMAIN tgt'[l].q PROVE Genuine(tgt[l].q[i])'
        <5>1. PICK g : g = tgt[l].q[i] /\ g = tgt'[l].q[i]
          BY <2>3 DEF SameQueues
        <5>2. Genuine(g) /\ g.c \in Conns
          BY <1>1, <2>3, <4>1, <5>1, StreamsNamed DEF CopyInv, FrameInv, QueueGenuine, SameQueues
        <5> QED
          BY <3>1, <5>1, <5>2
      <4> QED
        BY <4>1 DEF QueueGenuine
    <3>4. InitFirst'
      <4>1. \A i \in DOMAIN wire : i \in Nat /\ i <= Len(wire) /\ Len(wire) \in Nat
        BY <2>4
      <4>2. \A i \in DOMAIN wire : wire[i].c # c
        BY <1>2 DEF Untouched, OnWire
      <4>3. f.k = "init" /\ f.c = c
        OBVIOUS
      <4> HIDE DEF f
      <4>4. ASSUME NEW i \in DOMAIN wire', NEW j \in DOMAIN wire', wire'[j].k = "init", wire'[i].c = wire'[j].c
            PROVE  j <= i
        <5>1. CASE j \in DOMAIN wire /\ i \in DOMAIN wire
          BY <2>4, <4>4, <5>1 DEF CopyInv, FrameInv, InitFirst
        <5>2. CASE j \in DOMAIN wire /\ i = Len(wire) + 1 /\ wire'[i] = f
          BY <2>4, <4>1, <5>2
        <5>3. CASE j = Len(wire) + 1 /\ wire'[j] = f
          <6>1. i \notin DOMAIN wire
            BY <2>4, <4>2, <4>3, <4>4, <5>3
          <6>2. i = Len(wire) + 1 /\ Len(wire) \in Nat
            BY <2>4, <6>1
          <6> QED
            BY <5>3, <6>2
        <5> QED
          BY <2>4, <5>1, <5>2, <5>3
      <4> QED
        BY <4>4 DEF InitFirst
    <3>5. PayloadSelected'
      <4>1. CASE wire = <<>>
        <5>1. wire' # <<>> => wire'[1].k = "init" /\ Up(reg)
          BY <1>7, <4>1 DEF Write
        <5>2. Up(reg) => dmn.pend = NoConn
          BY <2>2, <4>1 DEF IInv, PairInv, Selected
        <5> QED
          BY <1>1, <5>1, <5>2 DEF PayloadSelected
      <4>2. CASE wire # <<>>
        <5>1. 1 \in DOMAIN wire /\ wire'[1] = wire[1]
          BY <2>4, <4>2
        <5> QED
          BY <1>1, <2>5, <4>2, <5>1 DEF CopyInv, FrameInv, PayloadSelected
      <4> QED
        BY <4>1, <4>2
    <3> QED
      BY <3>2, <3>3, <3>4, <3>5 DEF FrameInv
  <2>10. StreamInv'
    <3>1. \A d \in Conns : AllSent(d) => AllSent(d)'
      BY <1>1, <2>1, <2>6, SentGrows
    <3>2. Quiet'
      BY <1>3, <2>1 DEF CopyInv, StreamInv, Quiet
    <3>3. OkLast'
      BY <1>3, <2>1, <3>1 DEF CopyInv, StreamInv, OkLast
    <3>4. RouteUp'
      <4>1. ASSUME NEW d \in Conns, Carried(d)', rel'[d].route # 0
            PROVE  \E l \in Links : l = rel'[d].route /\ Up(l)
        <5>1. CASE d = c
          BY <2>2, <2>8, <4>1, <5>1
        <5>2. CASE d # c
          <6>1. rel[d].route = rel'[d].route /\ Carried(d) /\ rel[d].route \in 0 .. MaxLink
            BY <1>1, <2>2, <2>8, <4>1, <5>2 DEF LoopType
          <6>2. rel[d].route \in Links
            BY <4>1, <6>1, TransferAssumption DEF Links
          <6> QED
            BY <4>1, <6>1, <6>2 DEF CopyInv, StreamInv, RouteUp
        <5> QED
          BY <5>1, <5>2
      <4> QED
        BY <2>5, <4>1 DEF RouteUp, Up
    <3>5. EntryOpen'
      BY <1>1, <2>5, ChunkSeqsSame DEF CopyInv, StreamInv, EntryOpen
    <3>6. DoneOut'
      BY <2>5, <2>7, <2>8 DEF CopyInv, StreamInv, DoneOut
    <3> QED
      BY <3>2, <3>3, <3>4, <3>5, <3>6 DEF StreamInv
  <2>11. GoingInv'
    <3>1. Onward
      BY <1>1, <1>2, <2>1 DEF Onward, Failed
    <3>2. ASSUME NEW t \in Transfers, Going(t)'
          PROVE  /\ Unrivalled(t)'
                 /\ \A d \in StreamsOf(t)' : Routed(d)' /\ InOrder(d)' /\ NoneMissing(d)' /\ Exact(d)' /\ Delivered(d)'
      <4>1. Going(t) /\ StreamsOf(t)' = StreamsOf(t)
        BY <1>1, <3>1, <3>2, GoesBack
      <4>2. /\ Unrivalled(t)
            /\ \A d \in StreamsOf(t) : d \in Conns /\ Routed(d) /\ InOrder(d) /\ NoneMissing(d) /\ Exact(d) /\ Delivered(d)
        BY <4>1, StreamOfOne DEF CopyInv, GoingInv
      <4>3. Unrivalled(t)'
        <5>1. \A u \in Transfers : LiveEntry(u)' <=> LiveEntry(u)
          BY <2>5 DEF LiveEntry
        <5> QED
          BY <1>1, <2>5, <2>8, <4>1, <4>2, <5>1 DEF Unrivalled
      <4>4. ASSUME NEW d \in StreamsOf(t)
            PROVE  Routed(d)' /\ InOrder(d)' /\ NoneMissing(d)' /\ Exact(d)' /\ Delivered(d)'
        <5>1. /\ Mode(d)' = Mode(d) /\ Dst(d)' = Dst(d) /\ Size(d)' = Size(d) /\ ChunkSeqs(d)' = ChunkSeqs(d)
          BY <1>1, ChunkSeqsSame DEF Size
        <5>2. /\ \A i : Payload(i, d)' <=> Payload(i, d)
              /\ \A i : Payload(i, d) => wire'[i] = wire[i]
              /\ \A n : (OnWay(d, n)' <=> OnWay(d, n)) /\ (Queues(d, n)' <=> Queues(d, n))
          <6>1. /\ \A i : Payload(i, d)' <=> Payload(i, d)
                /\ \A i : Payload(i, d) => wire'[i] = wire[i]
            BY <2>7, <4>2
          <6>2. \A n : OnWay(d, n)' <=> OnWay(d, n)
            BY <6>1 DEF OnWay, Payload
          <6>3. \A n : Queues(d, n)' <=> Queues(d, n)
            BY <2>3, <2>5 DEF Queues, SameQueues
          <6> QED
            BY <6>1, <6>2, <6>3
        <5>3. /\ \A n : InFile(d, n)' <=> InFile(d, n)
              /\ \A n : Kept(d, n)' <=> Kept(d, n)
              /\ Useful(d)' <=> Useful(d)
              /\ Count(d)' = Count(d) /\ Held(d)' = Held(d)
          BY <1>1, <2>5, <2>8, <4>2, <5>1 DEF InFile, Kept, Count, Held, Data
        <5>4. Routed(d)'
          BY <1>7, <2>1, <2>2, <4>2 DEF Routed
        <5>5. InOrder(d)'
          <6>1. \A i, j \in DOMAIN wire' : Payload(i, d)' /\ Payload(j, d)' /\ i < j => wire'[i].seq < wire'[j].seq
            BY <4>2, <5>2 DEF InOrder, Payload
          <6> QED
            BY <2>3, <2>5, <4>2, <5>2, <6>1 DEF InOrder, SameQueues
        <5>6. NoneMissing(d)'
          <6>1. CASE d = c
            <7>1. \A n : ~Handed(c, n)'
              <8>1. \A j \in DOMAIN ChunkSeqs(c) : j \in Nat /\ ~(j < 1)
                BY <1>1, ChunksAscend
              <8> QED
                BY <2>1, <5>1, <6>1, <8>1 DEF Handed
            <7> QED
              BY <6>1, <7>1 DEF NoneMissing
          <6>2. CASE d # c
            BY <2>1, <2>8, <4>2, <5>1, <5>2, <5>3, <6>2 DEF NoneMissing, Handed
          <6> QED
            BY <6>1, <6>2
        <5>7. Exact(d)'
          <6>1. cli'[d].next = cli[d].next
            BY <1>2, <2>1, <4>2
          <6> QED
            BY <1>1, <4>2, <5>1, <5>2, <5>3, <6>1 DEF Exact, Data
        <5>8. Delivered(d)'
          BY <1>1, <2>8, <4>2, <5>1, <5>3 DEF Delivered
        <5> QED
          BY <5>4, <5>5, <5>6, <5>7, <5>8
      <4> QED
        BY <4>1, <4>3, <4>4
    <3> QED
      BY <3>2 DEF GoingInv
  <2> QED
    BY <2>9, <2>10, <2>11 DEF CopyInv
<1> QED
  BY <1>4, <1>6, <1>7

(***************************************************************************)
(* The daemon's connections: a broken one takes with it what it carried,   *)
(* and a new one carries nothing.                                          *)
(***************************************************************************)
LEMMA NothingCarried ==
  ASSUME IInv, CopyInv, UNCHANGED <<scn, cli, rel, files, why>>,
         wire' = <<>>, \A l \in Links : tgt'[l].q = tgt[l].q,
         \A l \in Links : Up(l)' => tgt[l].q = <<>>,
         \A c \in Conns : GoodResult(c)' => GoodResult(c),
         (dmn' = dmn /\ \A l \in Links : ~Up(l)') \/ (Entries' = {} /\ dmn'.pend = NoConn)
  PROVE  CopyInv'
<1>1. \A i : i \notin DOMAIN wire'
  OBVIOUS
<1>2. \A c \in Conns : ~Carried(c)' /\ ~InitOnWire(c)'
  BY <1>1 DEF Carried, InitOnWire, Useful
<1>3. FrameInv'
  <2>1. \A f : f.c \in Conns /\ Genuine(f) => Genuine(f)'
    BY GenuineStays, TypeFacts, OtherStreams DEF IInv
  <2>2. WireGenuine' /\ InitFirst'
    BY <1>1 DEF WireGenuine, InitFirst
  <2>3. QueueGenuine'
    <3>1. ASSUME NEW l \in Links, NEW i \in DOMAIN tgt'[l].q PROVE Genuine(tgt[l].q[i])'
      <4>1. PICK g : g = tgt[l].q[i] /\ g = tgt'[l].q[i]
        OBVIOUS
      <4>2. Genuine(g) /\ g.c \in Conns
        BY <3>1, <4>1, StreamsNamed DEF CopyInv, FrameInv, QueueGenuine, IInv
      <4> QED
        BY <2>1, <4>1, <4>2
    <3> QED
      BY <3>1 DEF QueueGenuine
  <2>4. PayloadSelected'
    BY DEF PayloadSelected
  <2> QED
    BY <2>2, <2>3, <2>4 DEF FrameInv
<1>4. \A c \in Conns : Done(c)' => Done(c)
  BY DEF Done
<1>5. StreamInv'
  <2>1. Quiet' /\ OkLast'
    BY ChunkSeqsSame DEF CopyInv, StreamInv, Quiet, OkLast, AllSent
  <2>2. RouteUp'
    BY <1>2 DEF RouteUp
  <2>3. EntryOpen'
    BY ChunkSeqsSame DEF CopyInv, StreamInv, EntryOpen, Entries
  <2>4. DoneOut'
    BY <1>2, <1>4 DEF CopyInv, StreamInv, DoneOut, Entries
  <2> QED
    BY <2>1, <2>2, <2>3, <2>4 DEF StreamInv
<1>6. GoingInv'
  <2>1. Onward
    BY DEF Onward, Failed
  <2>2. ASSUME NEW t \in Transfers, Going(t)'
        PROVE  /\ Unrivalled(t)'
               /\ \A d \in StreamsOf(t)' : Routed(d)' /\ InOrder(d)' /\ NoneMissing(d)' /\ Exact(d)' /\ Delivered(d)'
    <3>1. Going(t) /\ StreamsOf(t)' = StreamsOf(t)
      BY <2>1, <2>2, GoesBack
    <3>2. /\ Unrivalled(t)
          /\ \A d \in StreamsOf(t) : d \in Conns /\ Routed(d) /\ InOrder(d) /\ NoneMissing(d) /\ Exact(d) /\ Delivered(d)
      BY <3>1, StreamOfOne DEF CopyInv, GoingInv
    <3>3. Unrivalled(t)'
      <4>1. CASE Entries' = {}
        BY <4>1 DEF Unrivalled, LiveEntry
      <4>2. CASE dmn' = dmn
        BY <1>4, <3>1, <3>2, <4>2 DEF Unrivalled, LiveEntry, Entries
      <4> QED
        BY <4>1, <4>2
    <3>4. ASSUME NEW d \in StreamsOf(t)
          PROVE  Routed(d)' /\ InOrder(d)' /\ NoneMissing(d)' /\ Exact(d)' /\ Delivered(d)'
      <4>1. /\ Mode(d)' = Mode(d) /\ Dst(d)' = Dst(d) /\ Size(d)' = Size(d) /\ ChunkSeqs(d)' = ChunkSeqs(d)
        BY ChunkSeqsSame DEF Size
      <4>2. \A n : ~OnWay(d, n)' /\ ~Queues(d, n)'
        BY <1>1 DEF OnWay, Queues
      <4>3. Routed(d)' /\ InOrder(d)'
        BY <1>1, <3>2, <4>2 DEF Routed, InOrder
      <4>4. NoneMissing(d)'
        BY <1>2, <3>2 DEF NoneMissing
      <4>5. Exact(d)'
        <5>1. CASE Entries' = {}
          BY <5>1 DEF Exact, Useful
        <5>2. CASE dmn' = dmn
          BY <3>2, <4>1, <4>2, <5>2 DEF Exact, Useful, Entries, Count, Held, Data
        <5> QED
          BY <5>1, <5>2
      <4>6. Delivered(d)'
        BY <1>4, <3>2, <4>1 DEF Delivered, InFile, Data
      <4> QED
        BY <4>3, <4>4, <4>5, <4>6
    <3> QED
      BY <3>1, <3>3, <3>4
  <2> QED
    BY <2>2 DEF GoingInv
<1> QED
  BY <1>3, <1>5, <1>6 DEF CopyInv

LEMMA BreakCopies ==
  ASSUME IInv, CopyInv, LinkBreaks
  PROVE  CopyInv'
<1>1. PICK l \in Links : Up(l) /\ tgt' = [tgt EXCEPT ![l].link = "down"]
  BY DEF LinkBreaks
<1>2. UNCHANGED <<scn, cli, rel, reg, dmn, files, why>> /\ wire' = <<>> /\ back' = <<>>
  BY DEF LinkBreaks
<1>3. tgt \in [Links -> LinkType]
  BY TypeFacts DEF IInv
<1>4. \A m \in Links : tgt'[m].q = tgt[m].q /\ ~Up(m)'
  BY <1>1, <1>3 DEF IInv, LinkInv, Up, LinkType
<1>5. \A c \in Conns : ~GoodResult(c)'
  BY <1>2 DEF GoodResult
<1> QED
  BY <1>2, <1>4, <1>5, NothingCarried

LEMMA ReconnectCopies ==
  ASSUME IInv, CopyInv, NEW l \in Links, DaemonReconnects(l)
  PROVE  CopyInv'
<1>1. /\ \A m \in Links : ~Up(m) /\ (tgt[m].link = "new" <=> m >= l)
      /\ tgt' = [tgt EXCEPT ![l].link = "up"]
      /\ dmn' = [reas |-> <<>>, pend |-> NoConn]
      /\ UNCHANGED <<scn, cli, rel, wire, back, files, why>>
  BY DEF DaemonReconnects
<1>2. tgt \in [Links -> LinkType] /\ tgt[l].link = "new" /\ tgt[l].q = <<>>
  BY <1>1, TypeFacts DEF IInv, LinkInv, Links
<1>3. wire' = <<>>
  BY <1>1 DEF IInv, LinkInv
<1>4. \A m \in Links : tgt'[m].q = tgt[m].q /\ (Up(m)' => m = l)
  BY <1>1, <1>2 DEF Up, LinkType
<1>5. Entries' = {} /\ dmn'.pend = NoConn
  BY <1>1 DEF Entries
<1>6. \A c \in Conns : GoodResult(c)' => GoodResult(c)
  BY <1>1 DEF GoodResult
<1> QED
  BY <1>1, <1>2, <1>3, <1>4, <1>5, <1>6, NothingCarried

(***************************************************************************)
(* Steps that move chunks: a write queue gets or gives one, or one is      *)
(* written to the daemon's connection.                                     *)
(***************************************************************************)
LEMMA FramesMoved ==
  ASSUME IInv, CopyInv, UNCHANGED <<scn, dmn>>,
         tgt' \in [Links -> LinkType], \A l \in Links : tgt'[l].link = tgt[l].link,
         cli' \in [Conns -> ClientType], \A c \in Conns : cli'[c].next >= cli[c].next,
         \A l \in Links : \A f \in Queued : Waits(l, f)' => Waits(l, f) \/ Genuine(f)',
         \/ wire' = wire
         \/ \E l \in Links : \E f \in Queued : Up(l) /\ wire' = wire \o Pair(f) /\ Genuine(f)'
  PROVE  /\ FrameInv'
         /\ \A c \in Conns : InitOnWire(c)' => InitOnWire(c)
<1>1. TypeOK /\ \A f : f.c \in Conns /\ Genuine(f) => Genuine(f)'
  BY GenuineStays DEF IInv
<1>2. QueueGenuine'
  <2>1. ASSUME NEW l \in Links, NEW i \in DOMAIN tgt'[l].q PROVE Genuine(tgt[l].q[i])'
    <3>1. PICK f : f = tgt'[l].q[i]
      OBVIOUS
    <3>2. f \in Queued /\ Waits(l, f)' /\ f.c \in Conns
      <4>1. tgt'[l].q \in Seq(Queued)
        BY DEF LinkType
      <4>2. f \in Queued
        BY <2>1, <3>1, <4>1
      <4>3. Waits(l, f)'
        BY <2>1, <3>1 DEF Waits
      <4> QED
        BY <4>2, <4>3 DEF Queued
    <3>3. CASE Waits(l, f)
      <4>1. Genuine(f)
        BY <3>3 DEF Waits, CopyInv, FrameInv, QueueGenuine
      <4> QED
        BY <1>1, <3>1, <3>2, <4>1
    <3>4. CASE Genuine(f)'
      BY <3>1, <3>4
    <3> QED
      BY <3>2, <3>3, <3>4
  <2> QED
    BY <2>1 DEF QueueGenuine
<1>3. ASSUME NEW i \in DOMAIN wire, wire[i].k # "init", wire'[i] = wire[i]
      PROVE  Genuine(wire[i])'
  <2>1. PICK f : f = wire[i] /\ f = wire'[i]
    BY <1>3
  <2>2. Genuine(f) /\ f.c \in Conns
    BY <1>1, <1>3, <2>1, StreamsNamed DEF CopyInv, FrameInv, WireGenuine
  <2> QED
    BY <1>1, <2>1, <2>2
<1>4. CASE wire' = wire
  <2>1. WireGenuine'
    BY <1>3, <1>4 DEF WireGenuine
  <2>2. InitFirst' /\ PayloadSelected'
    BY <1>4 DEF CopyInv, FrameInv, InitFirst, PayloadSelected, Entries
  <2> QED
    BY <1>2, <1>4, <2>1, <2>2 DEF FrameInv, InitOnWire
<1>5. CASE \E l \in Links : \E f \in Queued : Up(l) /\ wire' = wire \o Pair(f) /\ Genuine(f)'
  <2>1. PICK l \in Links, f \in Queued : Up(l) /\ wire' = wire \o Pair(f) /\ Genuine(f)'
    BY <1>5
  <2> DEFINE h == Frame("hdr", f)
             b == Frame("bin", f)
  <2>2. /\ wire \in Seq(Frames) /\ wire' \in Seq(Frames) /\ Len(wire') = Len(wire) + 2
        /\ \A i \in DOMAIN wire : i \in DOMAIN wire' /\ wire'[i] = wire[i]
        /\ \A i \in DOMAIN wire' : i \in DOMAIN wire \/ i = Len(wire) + 1 \/ i = Len(wire) + 2
        /\ wire'[Len(wire) + 1] = h /\ wire'[Len(wire) + 2] = b
    BY <1>1, <2>1, TypeFacts, WirePair DEF IInv, PairInv
  <2>3. /\ h.k = "hdr" /\ b.k = "bin"
        /\ h.c = f.c /\ h.seq = f.seq /\ h.fin = f.fin
        /\ b.c = f.c /\ b.seq = f.seq /\ b.fin = f.fin
    BY DEF Frame
  <2> HIDE DEF h, b
  <2>4. Genuine(h)' /\ Genuine(b)'
    BY <2>1, <2>3 DEF Genuine
  <2>5. WireGenuine'
    <3>1. ASSUME NEW i \in DOMAIN wire', wire'[i].k # "init" PROVE Genuine(wire[i])'
      <4>1. CASE i \in DOMAIN wire
        BY <1>3, <2>2, <3>1, <4>1
      <4>2. CASE wire'[i] = h \/ wire'[i] = b
        BY <2>4, <4>2
      <4> QED
        BY <2>2, <4>1, <4>2
    <3> QED
      BY <3>1 DEF WireGenuine
  <2>6. \A i \in DOMAIN wire' : wire'[i].k = "init" => i \in DOMAIN wire
    BY <2>2, <2>3
  <2>7. InitFirst'
    <3>1. \A i \in DOMAIN wire : i \in Nat /\ i <= Len(wire) /\ Len(wire) \in Nat
      BY <2>2
    <3>2. ASSUME NEW i \in DOMAIN wire', NEW j \in DOMAIN wire', wire'[j].k = "init", wire'[i].c = wire'[j].c
          PROVE  j <= i
      <4>1. j \in DOMAIN wire
        BY <2>6, <3>2
      <4>2. CASE i \in DOMAIN wire
        BY <2>2, <3>2, <4>1, <4>2 DEF CopyInv, FrameInv, InitFirst
      <4>3. CASE i = Len(wire) + 1 \/ i = Len(wire) + 2
        BY <3>1, <4>1, <4>3
      <4> QED
        BY <2>2, <4>2, <4>3
    <3> QED
      BY <3>2 DEF InitFirst
  <2>8. PayloadSelected'
    <3>1. CASE wire = <<>>
      <4>1. dmn.pend = NoConn
        BY <2>1, <3>1 DEF IInv, PairInv, Selected
      <4>2. wire'[1].k = "hdr"
        <5>1. Len(wire) + 1 = 1
          BY <3>1
        <5> QED
          BY <2>2, <2>3, <5>1
      <4> QED
        BY <4>1, <4>2 DEF PayloadSelected
    <3>2. CASE wire # <<>>
      <4>1. 1 \in DOMAIN wire /\ wire'[1] = wire[1]
        BY <2>2, <3>2
      <4> QED
        BY <3>2, <4>1 DEF CopyInv, FrameInv, PayloadSelected, Entries
    <3> QED
      BY <3>1, <3>2
  <2>9. \A c \in Conns : InitOnWire(c)' => InitOnWire(c)
    BY <2>2, <2>6 DEF InitOnWire
  <2> QED
    BY <1>2, <2>5, <2>7, <2>8, <2>9 DEF FrameInv
<1> QED
  BY <1>4, <1>5

LEMMA CopiesMoved ==
  ASSUME IInv, CopyInv, UNCHANGED <<scn, back, dmn, files>>, Onward,
         \A l \in Links : tgt'[l].link = tgt[l].link,
         cli' \in [Conns -> ClientType], \A c \in Conns : cli'[c].next >= cli[c].next,
         \A c \in Conns : rel'[c].route \in {0, rel[c].route},
         \A c \in Conns : /\ cli'[c].st = "idle" => cli[c].st = "idle"
                          /\ cli'[c].st = "ok" => cli[c].st = "ok"
                          /\ cli'[c].reply = cli[c].reply,
         FrameInv', \A c \in Conns : InitOnWire(c)' => InitOnWire(c),
         \A t \in Transfers : Going(t)' => \A c \in StreamsOf(t) :
            /\ Routed(c)' /\ InOrder(c)'
            /\ \A n \in Nat : Handed(c, n)' /\ Carried(c) => Handed(c, n) \/ OnWay(c, n)' \/ Queues(c, n)'
            /\ \A n \in Nat : OnWay(c, n) \/ Queues(c, n) => OnWay(c, n)' \/ Queues(c, n)'
            /\ \A n \in Nat : OnWay(c, n)' \/ Queues(c, n)' =>
                 OnWay(c, n) \/ Queues(c, n) \/ (Mode(c) # "par" => n >= cli[c].next)
  PROVE  CopyInv'
<1>1. Entries' = Entries /\ \A l \in Links : Up(l)' <=> Up(l)
  BY DEF Entries, Up
<1>2. \A c \in Conns : /\ Done(c)' <=> Done(c)
                       /\ Useful(c)' <=> Useful(c)
                       /\ Carried(c)' => Carried(c)
  BY <1>1, ChunkSeqsSame DEF Done, GoodResult, Carried, Useful
<1>3. StreamInv'
  <2>1. \A c \in Conns : AllSent(c) => AllSent(c)'
    BY SentGrows DEF IInv
  <2>2. Quiet' /\ OkLast'
    BY <2>1 DEF CopyInv, StreamInv, Quiet, OkLast
  <2>3. RouteUp'
    <3>1. ASSUME NEW c \in Conns, Carried(c)', rel'[c].route # 0
          PROVE  \E l \in Links : l = rel'[c].route /\ Up(l)
      <4>1. rel'[c].route = rel[c].route /\ rel[c].route \in 0 .. MaxLink /\ Carried(c)
        BY <1>2, <3>1, TypeFacts DEF IInv, LoopType
      <4>2. rel[c].route \in Links
        BY <3>1, <4>1, TransferAssumption DEF Links
      <4> QED
        BY <3>1, <4>1, <4>2 DEF CopyInv, StreamInv, RouteUp
    <3> QED
      BY <1>1, <3>1 DEF RouteUp, Up
  <2>4. EntryOpen' /\ DoneOut'
    BY <1>1, <1>2, ChunkSeqsSame DEF CopyInv, StreamInv, EntryOpen, DoneOut
  <2> QED
    BY <2>2, <2>3, <2>4 DEF StreamInv
<1>4. GoingInv'
  <2>1. ASSUME NEW t \in Transfers, Going(t)'
        PROVE  /\ Unrivalled(t)'
               /\ \A d \in StreamsOf(t)' : Routed(d)' /\ InOrder(d)' /\ NoneMissing(d)' /\ Exact(d)' /\ Delivered(d)'
    <3>1. Going(t) /\ StreamsOf(t)' = StreamsOf(t)
      BY <2>1, GoesBack
    <3>2. /\ Unrivalled(t)
          /\ \A d \in StreamsOf(t) : d \in Conns /\ NoneMissing(d) /\ Exact(d) /\ Delivered(d)
      BY <3>1, StreamOfOne DEF CopyInv, GoingInv
    <3>3. Unrivalled(t)'
      <4>1. \A u \in Transfers : LiveEntry(u)' <=> LiveEntry(u)
        BY <1>1 DEF LiveEntry
      <4> QED
        BY <1>1, <1>2, <3>1, <3>2, <4>1 DEF Unrivalled
    <3>4. ASSUME NEW d \in StreamsOf(t)
          PROVE  Routed(d)' /\ InOrder(d)' /\ NoneMissing(d)' /\ Exact(d)' /\ Delivered(d)'
      <4>1. /\ Mode(d)' = Mode(d) /\ Dst(d)' = Dst(d) /\ Size(d)' = Size(d) /\ ChunkSeqs(d)' = ChunkSeqs(d)
        BY ChunkSeqsSame DEF Size
      <4>2. /\ \A n : InFile(d, n)' <=> InFile(d, n)
            /\ \A n : Kept(d, n)' <=> Kept(d, n)
            /\ Useful(d)' <=> Useful(d)
            /\ Count(d)' = Count(d) /\ Held(d)' = Held(d)
        BY <1>1, <1>2, <3>2, <4>1 DEF InFile, Kept, Count, Held, Data
      <4>3. Routed(d)' /\ InOrder(d)'
        BY <2>1
      <4>4. NoneMissing(d)'
        <5>1. ASSUME Carried(d)', NEW n \in Nat, Handed(d, n)'
              PROVE  Kept(d, n)' \/ OnWay(d, n)' \/ Queues(d, n)'
          <6>1. Carried(d)
            BY <1>2, <3>2, <5>1
          <6>2. Handed(d, n) \/ OnWay(d, n)' \/ Queues(d, n)'
            BY <2>1, <5>1, <6>1
          <6>3. Handed(d, n) => Kept(d, n) \/ OnWay(d, n) \/ Queues(d, n)
            BY <3>2, <6>1 DEF NoneMissing
          <6>4. OnWay(d, n) \/ Queues(d, n) => OnWay(d, n)' \/ Queues(d, n)'
            BY <2>1
          <6> QED
            BY <4>2, <6>2, <6>3, <6>4
        <5> QED
          BY <5>1 DEF NoneMissing
      <4>5. Exact(d)'
        <5>1. cli'[d].next >= cli[d].next /\ cli'[d].next \in Nat /\ cli[d].next \in Nat
          BY <3>2, TypeFacts DEF IInv, ClientType
        <5>2. Useful(d)' /\ Mode(d) # "par" => Count(d) < cli[d].next /\ Count(d) \in Nat
          <6>1. Dst(d) \in Dsts /\ files[Dst(d)] \in Seq(Cells)
            BY <3>2, ConnFacts DEF IInv, TypeOK
          <6>2. d \in Entries => Held(d) \in Seq(Cells)
            BY DEF IInv, TypeOK, EntryType, Held
          <6> QED
            BY <3>2, <4>2, <6>1, <6>2 DEF Exact, Count, Useful
        <5>3. ASSUME Useful(d)', Mode(d) # "par"
              PROVE  /\ Count(d)' < cli'[d].next
                     /\ \A n \in Nat : OnWay(d, n)' \/ Queues(d, n)' => n > Count(d)'
          <6>1. Count(d)' < cli'[d].next
            BY <4>2, <5>1, <5>2, <5>3
          <6>2. ASSUME NEW n \in Nat, OnWay(d, n)' \/ Queues(d, n)' PROVE n > Count(d)
            <7>1. OnWay(d, n) \/ Queues(d, n) \/ n >= cli[d].next
              BY <2>1, <5>3, <6>2
            <7>2. OnWay(d, n) \/ Queues(d, n) => n > Count(d)
              BY <3>2, <4>2, <5>3 DEF Exact
            <7> QED
              BY <5>1, <5>2, <5>3, <7>1, <7>2
          <6> QED
            BY <4>2, <6>1, <6>2
        <5> QED
          BY <3>2, <4>1, <4>2, <5>3 DEF Exact, Data
      <4>6. Delivered(d)'
        BY <1>2, <3>2, <4>1, <4>2 DEF Delivered
      <4> QED
        BY <4>3, <4>4, <4>5, <4>6
    <3> QED
      BY <3>1, <3>3, <3>4
  <2> QED
    BY <2>1 DEF GoingInv
<1> QED
  BY <1>3, <1>4 DEF CopyInv

\* What is recorded of a stream whose chunk is passed on.
LEMMA PassesOn ==
  ASSUME IInv, CopyInv, scn' = scn, NEW c \in Conns, rel[c].took # "no",
         cli' = Forwarded(c), rel' = RouteAfter(c)
  PROVE  /\ cli' \in [Conns -> ClientType]
         /\ \A d \in Conns : /\ cli'[d].next >= cli[d].next
                             /\ rel'[d].route \in {0, rel[d].route}
                             /\ cli'[d].st = "idle" => cli[d].st = "idle"
                             /\ cli'[d].st = "ok" <=> cli[d].st = "ok"
                             /\ cli'[d].reply = cli[d].reply
                             /\ Failed(d) => Failed(d)'
                             /\ Routed(d) => Routed(d)'
                             /\ \A n : Handed(d, n)' => Handed(d, n) \/ (d = c /\ n = Chunk(c).seq)
         /\ Chunk(c) \in Queued /\ Chunk(c).c = c /\ (Mode(c) # "par" => Chunk(c).seq = cli[c].next)
         /\ \A f : f = Chunk(c) => Genuine(f)'
<1>1. cli[c].st # "idle" /\ ~AllSent(c) /\ TypeOK /\ rel[c].route \in Links
  BY InHand DEF IInv
<1>2. cli \in [Conns -> ClientType] /\ rel \in [Conns -> LoopType]
  BY <1>1, TypeFacts
<1>3. PICK b \in BOOLEAN : b = Chunk(c).fin
  BY <1>1, ChunkFacts DEF Queued
<1>4. /\ cli' \in [Conns -> ClientType] /\ \A d \in Conns : d # c => cli'[d] = cli[d]
      /\ cli'[c].next = cli[c].next + 1 /\ cli'[c].reply = cli[c].reply
      /\ cli'[c].st = IF b /\ cli[c].st = "sending" THEN "waiting" ELSE cli[c].st
  BY <1>1, <1>3, ForwardedFacts
<1>5. /\ \A d \in Conns : d # c => rel'[d] = rel[d]
      /\ rel'[c].route = IF b THEN 0 ELSE rel[c].route
  <2>1. rel' = [rel EXCEPT ![c].took = "no", ![c].route = IF b THEN 0 ELSE @]
    BY <1>3 DEF RouteAfter
  <2> QED
    BY <1>2, <2>1 DEF LoopType
<1>6. rel[c].route # 0
  BY <1>1, TransferAssumption DEF Links
<1>7. \A d \in Conns : cli'[d].next >= cli[d].next
  BY <1>2, <1>4 DEF ClientType
<1>8. /\ Chunk(c) \in Queued /\ Chunk(c).c = c /\ (Chunk(c).fin <=> cli[c].next = Len(ChunkSeqs(c)))
      /\ cli[c].next \in DOMAIN ChunkSeqs(c) /\ Chunk(c).seq = ChunkSeqs(c)[cli[c].next]
      /\ cli[c].next \in Nat
  BY <1>1, ChunkFacts, ChunkGenuine
<1>9. Mode(c) # "par" => Chunk(c).seq = cli[c].next
  BY <1>1, <1>8, ChunksAscend
<1>10. \A d : ChunkSeqs(d)' = ChunkSeqs(d)
  BY ChunkSeqsSame
<1>11. \A f : f = Chunk(c) => Genuine(f)'
  <2>1. \A f : f = Chunk(c) => /\ f.c = c /\ (f.fin <=> cli[c].next = Len(ChunkSeqs(c)))
                               /\ cli[c].next \in DOMAIN ChunkSeqs(c) /\ f.seq = ChunkSeqs(c)[cli[c].next]
    BY <1>8
  <2>2. cli[c].next < cli'[c].next
    BY <1>4, <1>8
  <2> QED
    BY <1>10, <2>1, <2>2 DEF Genuine
<1>12. \A d \in Conns : \A n : Handed(d, n)' => Handed(d, n) \/ (d = c /\ n = Chunk(c).seq)
  <2>1. ASSUME NEW d \in Conns, NEW n, Handed(d, n)'
        PROVE  Handed(d, n) \/ (d = c /\ n = Chunk(c).seq)
    <3>1. PICK j \in DOMAIN ChunkSeqs(d) : j < cli'[d].next /\ ChunkSeqs(d)[j] = n
      BY <1>10, <2>1 DEF Handed
    <3>2. CASE d # c
      BY <1>4, <3>1, <3>2 DEF Handed
    <3>3. CASE d = c
      <4>1. j \in Nat
        BY <1>1, <3>1, <3>3, ChunksAscend
      <4>2. j < cli[c].next \/ j = cli[c].next
        BY <1>4, <1>8, <3>1, <3>3, <4>1
      <4> QED
        BY <1>8, <3>1, <3>3, <4>2 DEF Handed
    <3> QED
      BY <3>2, <3>3
  <2> QED
    BY <2>1
<1>13. \A d \in Conns : Routed(d) => Routed(d)'
  BY <1>4, <1>5, <1>6 DEF Routed
<1>14. \A d \in Conns : /\ rel'[d].route \in {0, rel[d].route}
                        /\ cli'[d].st = "idle" => cli[d].st = "idle"
                        /\ cli'[d].st = "ok" <=> cli[d].st = "ok"
                        /\ cli'[d].reply = cli[d].reply
                        /\ Failed(d) => Failed(d)'
  BY <1>4, <1>5 DEF Failed
<1> QED
  BY <1>4, <1>7, <1>8, <1>9, <1>11, <1>12, <1>13, <1>14

\* A chunk put on the wire.
LEMMA WireMoved ==
  ASSUME IInv, NEW f \in Queued, wire' = wire \o Pair(f), NEW d \in Conns
  PROVE  /\ \A n : OnWay(d, n)' <=> OnWay(d, n) \/ (d = f.c /\ n = f.seq)
         /\ (/\ \A i, j \in DOMAIN wire : Payload(i, d) /\ Payload(j, d) /\ i < j => wire[i].seq < wire[j].seq
             /\ d = f.c => \A n : OnWay(d, n) => n < f.seq) =>
            \A i, j \in DOMAIN wire' : Payload(i, d)' /\ Payload(j, d)' /\ i < j => wire'[i].seq < wire'[j].seq
<1> DEFINE b == Frame("bin", f)
<1>1. /\ wire \in Seq(Frames) /\ wire' \in Seq(Frames) /\ Len(wire') = Len(wire) + 2
      /\ \A i \in DOMAIN wire : i \in DOMAIN wire' /\ wire'[i] = wire[i]
      /\ \A i \in DOMAIN wire' : i \in DOMAIN wire \/ i = Len(wire) + 1 \/ i = Len(wire) + 2
      /\ wire'[Len(wire) + 1] = Frame("hdr", f) /\ wire'[Len(wire) + 2] = b
  BY TypeFacts, WirePair DEF IInv, PairInv
<1>2. Frame("hdr", f).k # "bin" /\ b.k = "bin" /\ b.c = f.c /\ b.seq = f.seq
  BY DEF Frame
<1> HIDE DEF b
<1>3. /\ Len(wire) \in Nat /\ DOMAIN wire = 1 .. Len(wire) /\ DOMAIN wire' = 1 .. Len(wire')
      /\ Len(wire) + 2 \in DOMAIN wire'
  BY <1>1
<1>4. \A i : Payload(i, d)' <=> Payload(i, d) \/ (d = f.c /\ i = Len(wire) + 2)
  BY <1>1, <1>2, <1>3 DEF Payload
<1>5. \A n : OnWay(d, n)' <=> OnWay(d, n) \/ (d = f.c /\ n = f.seq)
  <2>1. \A i : Payload(i, d) => i \in DOMAIN wire' /\ wire'[i] = wire[i]
    BY <1>1 DEF Payload
  <2> QED
    BY <1>1, <1>2, <1>3, <1>4, <2>1 DEF OnWay, Payload
<1>6. ASSUME \A i, j \in DOMAIN wire : Payload(i, d) /\ Payload(j, d) /\ i < j => wire[i].seq < wire[j].seq,
             d = f.c => \A n : OnWay(d, n) => n < f.seq,
             NEW i \in DOMAIN wire', NEW j \in DOMAIN wire', Payload(i, d)', Payload(j, d)', i < j
      PROVE  wire'[i].seq < wire'[j].seq
  <2>1. CASE Payload(i, d) /\ Payload(j, d)
    BY <1>1, <1>6, <2>1 DEF Payload
  <2>2. CASE Payload(i, d) /\ d = f.c /\ j = Len(wire) + 2
    <3>1. i \in DOMAIN wire /\ OnWay(d, wire[i].seq) /\ wire'[i] = wire[i]
      BY <1>1, <2>2 DEF Payload, OnWay
    <3> QED
      BY <1>1, <1>2, <1>6, <2>2, <3>1
  <2>3. CASE i = Len(wire) + 2
    <3>1. j \in 1 .. Len(wire) + 2
      BY <1>1, <1>3, <1>6
    <3> QED
      BY <1>3, <1>6, <2>3, <3>1
  <2> QED
    BY <1>4, <1>6, <2>1, <2>2, <2>3
<1> QED
  BY <1>5, <1>6

\* What has been handed over of a stream.
LEMMA WayFacts ==
  ASSUME IInv, CopyInv, NEW c \in Conns
  PROVE  /\ \A n : OnWay(c, n) => \E f : f.c = c /\ f.seq = n /\ Genuine(f)
         /\ \A l \in Links : \A i \in DOMAIN tgt[l].q : tgt[l].q[i].c = c =>
              \E f : f = tgt[l].q[i] /\ f.c = c /\ Genuine(f)
         /\ ~AllSent(c) => \A n : OnWay(c, n) \/ Queues(c, n) => n < Chunk(c).seq
<1>1. \A n : OnWay(c, n) => \E f : f.c = c /\ f.seq = n /\ Genuine(f)
  BY DEF CopyInv, FrameInv, WireGenuine, OnWay, Payload
<1>2. \A l \in Links : \A i \in DOMAIN tgt[l].q : tgt[l].q[i].c = c =>
              \E f : f = tgt[l].q[i] /\ f.c = c /\ Genuine(f)
  BY DEF CopyInv, FrameInv, QueueGenuine
<1>3. \A n : Queues(c, n) => \E f : f.c = c /\ f.seq = n /\ Genuine(f)
  BY <1>2 DEF Queues
<1>4. ~AllSent(c) => \A n : OnWay(c, n) \/ Queues(c, n) => n < Chunk(c).seq
  <2>1. ~AllSent(c) => \A f : f.c = c /\ Genuine(f) => f.seq < Chunk(c).seq
    BY ChunkGenuine DEF IInv
  <2> QED
    BY <1>1, <1>3, <2>1
<1> QED
  BY <1>1, <1>2, <1>4

LEMMA EnqueueCopies ==
  ASSUME IInv, CopyInv, NEW c \in Active, RelayEnqueues(c)
  PROVE  CopyInv'
<1> DEFINE l == rel[c].route
<1>1. /\ c \in Conns /\ rel[c].took # "no" /\ l \in Links /\ ~AllSent(c) /\ TypeOK
      /\ tgt \in [Links -> LinkType]
      /\ UNCHANGED <<scn, reg, wire, back, dmn, files, why>>
  BY InHand, TypeFacts, StreamsAreConns DEF RelayEnqueues, IInv
<1>2. CASE tgt[l].werr
  <2>1. tgt' = tgt /\ ForwardFails(c)
    BY <1>2 DEF RelayEnqueues
  <2> QED
    BY <1>1, <2>1, ForwardFailsCopies
<1>3. CASE ~tgt[l].werr
  <2>1. /\ tgt' = [tgt EXCEPT ![l].q = Append(@, Chunk(c))]
        /\ rel' = RouteAfter(c) /\ cli' = Forwarded(c)
    BY <1>3 DEF RelayEnqueues
  <2>2. PICK f \in Queued : f = Chunk(c)
    BY <1>1, ChunkFacts
  <2>3. /\ cli' \in [Conns -> ClientType]
        /\ \A d \in Conns : /\ cli'[d].next >= cli[d].next
                            /\ rel'[d].route \in {0, rel[d].route}
                            /\ cli'[d].st = "idle" => cli[d].st = "idle"
                            /\ cli'[d].st = "ok" <=> cli[d].st = "ok"
                            /\ cli'[d].reply = cli[d].reply
                            /\ Failed(d) => Failed(d)'
                            /\ Routed(d) => Routed(d)'
                            /\ \A n : Handed(d, n)' => Handed(d, n) \/ (d = c /\ n = f.seq)
        /\ f.c = c /\ (Mode(c) # "par" => f.seq = cli[c].next)
        /\ Genuine(f)'
    BY <1>1, <2>1, <2>2, PassesOn
  <2> DEFINE q == tgt[l].q
             r == Append(q, f)
  <2>4. /\ q \in Seq(Queued) /\ r \in Seq(Queued) /\ Len(r) = Len(q) + 1 /\ Len(q) \in Nat
        /\ DOMAIN q = 1 .. Len(q) /\ DOMAIN r = 1 .. Len(q) + 1
        /\ \A i \in DOMAIN q : i \in DOMAIN r /\ r[i] = q[i]
        /\ r[Len(q) + 1] = f
    BY <1>1 DEF LinkType
  <2>5. QueueBecomes(l, r)
    BY <2>1, <2>2 DEF QueueBecomes
  <2> HIDE DEF r
  <2>6. /\ tgt' \in [Links -> LinkType]
        /\ \A m \in Links : m # l => tgt'[m] = tgt[m]
        /\ tgt'[l].q = r /\ tgt'[l].link = tgt[l].link
    BY <1>1, <2>4, <2>5, QueueSet
  <2>7. \A m \in Links : tgt'[m].link = tgt[m].link /\ (Up(m)' <=> Up(m))
    BY <2>6 DEF Up
  <2>8. \A m \in Links : \A g \in Queued : Waits(m, g)' => Waits(m, g) \/ Genuine(g)'
    <3>1. ASSUME NEW m \in Links, NEW g \in Queued, Waits(m, g)' PROVE Waits(m, g) \/ g = f
      <4>1. CASE m # l
        BY <2>6, <3>1, <4>1 DEF Waits
      <4>2. CASE m = l
        <5>1. PICK i \in DOMAIN r : r[i] = g
          BY <2>6, <3>1, <4>2 DEF Waits
        <5>2. i \in DOMAIN q \/ i = Len(q) + 1
          BY <2>4, <5>1
        <5>3. i \in DOMAIN q => i \in DOMAIN tgt[m].q /\ tgt[m].q[i] = g
          BY <2>4, <4>2, <5>1
        <5>4. i = Len(q) + 1 => g = f
          BY <2>4, <5>1
        <5> QED
          BY <5>2, <5>3, <5>4 DEF Waits
      <4> QED
        BY <4>1, <4>2
    <3> QED
      BY <2>3, <3>1
  <2>9. FrameInv' /\ \A d \in Conns : InitOnWire(d)' => InitOnWire(d)
    BY <1>1, <2>3, <2>6, <2>7, <2>8, FramesMoved
  <2>10. Onward
    BY <1>1, <2>3 DEF Onward
  <2>11. \A d \in Conns : \A n : OnWay(d, n)' <=> OnWay(d, n)
    BY <1>1 DEF OnWay, Payload
  <2>12. \A d \in Conns : \A n : Queues(d, n)' <=> Queues(d, n) \/ (Up(l) /\ d = c /\ n = f.seq)
    <3>1. ASSUME NEW d \in Conns, NEW n, Queues(d, n)'
          PROVE  Queues(d, n) \/ (Up(l) /\ d = c /\ n = f.seq)
      <4>1. PICK m, i : m \in Links /\ i \in DOMAIN tgt'[m].q /\ Up(m) /\ tgt'[m].q[i].c = d /\ tgt'[m].q[i].seq = n
        BY <2>7, <3>1 DEF Queues
      <4>2. CASE m # l
        BY <2>6, <4>1, <4>2 DEF Queues
      <4>3. CASE m = l
        <5>1. i \in DOMAIN q \/ i = Len(q) + 1
          <6>1. i \in DOMAIN r
            BY <2>6, <4>1, <4>3
          <6> QED
            BY <2>4, <6>1
        <5>2. i \in DOMAIN q => Queues(d, n)
          BY <1>1, <2>4, <2>6, <4>1, <4>3 DEF Queues
        <5>3. i = Len(q) + 1 => Up(l) /\ d = c /\ n = f.seq
          BY <2>3, <2>4, <2>6, <4>1, <4>3
        <5> QED
          BY <5>1, <5>2, <5>3
      <4> QED
        BY <4>2, <4>3
    <3>2. ASSUME NEW d \in Conns, NEW n, Queues(d, n) PROVE Queues(d, n)'
      <4>1. PICK m, i : m \in Links /\ i \in DOMAIN tgt[m].q /\ Up(m) /\ tgt[m].q[i].c = d /\ tgt[m].q[i].seq = n
        BY <3>2 DEF Queues
      <4>2. i \in DOMAIN tgt'[m].q /\ tgt'[m].q[i] = tgt[m].q[i]
        BY <2>4, <2>6, <4>1
      <4> QED
        BY <2>7, <4>1, <4>2 DEF Queues
    <3>3. Up(l) => Queues(c, f.seq)'
      <4>1. l \in Links /\ Len(q) + 1 \in DOMAIN tgt'[l].q /\ tgt'[l].q[Len(q) + 1] = f
        BY <1>1, <2>4, <2>6
      <4> QED
        BY <2>3, <2>7, <4>1 DEF Queues
    <3> QED
      BY <3>1, <3>2, <3>3
  <2>13. ASSUME NEW t \in Transfers, Going(t)', NEW d \in StreamsOf(t)
         PROVE  /\ Routed(d)' /\ InOrder(d)'
                /\ \A n \in Nat : Handed(d, n)' /\ Carried(d) => Handed(d, n) \/ OnWay(d, n)' \/ Queues(d, n)'
                /\ \A n \in Nat : OnWay(d, n) \/ Queues(d, n) => OnWay(d, n)' \/ Queues(d, n)'
                /\ \A n \in Nat : OnWay(d, n)' \/ Queues(d, n)' =>
                     OnWay(d, n) \/ Queues(d, n) \/ (Mode(d) # "par" => n >= cli[d].next)
    <3>1. Going(t) /\ d \in Conns
      BY <1>1, <2>10, <2>13, GoesBack, StreamOfOne
    <3>2. Routed(d) /\ InOrder(d)
      BY <3>1, <2>13 DEF CopyInv, GoingInv
    <3>3. Routed(d)'
      BY <2>3, <3>1, <3>2
    <3>4. d = c => \A n : OnWay(d, n) \/ Queues(d, n) => n < f.seq
      BY <1>1, <2>2, WayFacts
    <3>5. InOrder(d)'
      <4>1. \A i, j \in DOMAIN wire' : Payload(i, d)' /\ Payload(j, d)' /\ i < j => wire'[i].seq < wire'[j].seq
        BY <1>1, <3>2 DEF InOrder, Payload
      <4>2. ASSUME NEW m \in Links, Up(m)', NEW i \in DOMAIN tgt'[m].q, NEW j \in DOMAIN tgt'[m].q,
                   tgt'[m].q[i].c = d, tgt'[m].q[j].c = d, i < j
            PROVE  tgt'[m].q[i].seq < tgt'[m].q[j].seq
        <5>1. Up(m)
          BY <2>7, <4>2
        <5>2. CASE m # l
          BY <2>6, <3>2, <4>2, <5>1, <5>2 DEF InOrder
        <5>3. CASE m = l
          <6>1. i \in 1 .. Len(q) + 1 /\ j \in 1 .. Len(q) + 1 /\ tgt'[m].q = r
            BY <2>4, <2>6, <4>2, <5>3
          <6>2. i \in DOMAIN q
            BY <2>4, <4>2, <6>1
          <6>3. CASE j \in DOMAIN q
            BY <2>4, <3>2, <4>2, <5>1, <5>3, <6>1, <6>2, <6>3 DEF InOrder
          <6>4. CASE j = Len(q) + 1
            <7>1. d = c /\ tgt'[m].q[j] = f /\ tgt'[m].q[i] = q[i]
              BY <2>3, <2>4, <4>2, <6>1, <6>2, <6>4
            <7>2. Queues(d, q[i].seq)
              BY <1>1, <4>2, <5>1, <5>3, <6>2, <7>1 DEF Queues
            <7> QED
              BY <3>4, <7>1, <7>2
          <6> QED
            BY <2>4, <6>1, <6>3, <6>4
        <5> QED
          BY <5>2, <5>3
      <4>3. \A n, m \in Nat : OnWay(d, n)' /\ Queues(d, m)' => n < m
        <5>1. \A n, m \in Nat : OnWay(d, n) /\ Queues(d, m) => n < m
          BY <3>2 DEF InOrder
        <5> QED
          BY <2>11, <2>12, <3>1, <3>4, <5>1
      <4> QED
        BY <4>1, <4>2, <4>3 DEF InOrder
    <3>6. Carried(c) => Up(l)
      BY <1>1, TransferAssumption DEF CopyInv, StreamInv, RouteUp, Links
    <3>7. \A n : Handed(d, n)' /\ Carried(d) => Handed(d, n) \/ Queues(d, n)'
      BY <2>3, <2>12, <3>1, <3>6
    <3>8. \A n \in Nat : OnWay(d, n)' \/ Queues(d, n)' =>
             OnWay(d, n) \/ Queues(d, n) \/ (Mode(d) # "par" => n >= cli[d].next)
      <4>1. cli[c].next \in Nat
        BY <1>1, ChunkFacts
      <4> QED
        BY <2>3, <2>11, <2>12, <3>1, <4>1
    <3> QED
      BY <2>11, <2>12, <3>1, <3>3, <3>5, <3>7, <3>8
  <2>14. /\ \A d \in Conns : cli'[d].next >= cli[d].next
         /\ \A d \in Conns : rel'[d].route \in {0, rel[d].route}
         /\ \A d \in Conns : /\ cli'[d].st = "idle" => cli[d].st = "idle"
                             /\ cli'[d].st = "ok" => cli[d].st = "ok"
                             /\ cli'[d].reply = cli[d].reply
    BY <2>3
  <2> QED
    BY <1>1, <2>3, <2>7, <2>9, <2>10, <2>13, <2>14, CopiesMoved
<1> QED
  BY <1>2, <1>3

LEMMA SyncCopies ==
  ASSUME IInv, CopyInv, NEW c \in Active, RelayWritesSync(c)
  PROVE  CopyInv'
<1> DEFINE l == rel[c].route
<1>1. /\ c \in Conns /\ rel[c].took # "no" /\ l \in Links /\ ~AllSent(c) /\ TypeOK
      /\ tgt \in [Links -> LinkType] /\ why \in [Transfers -> SUBSET Causes] /\ c[1] \in Transfers
      /\ UNCHANGED <<scn, tgt, reg, back, dmn, files>>
  BY InHand, TypeFacts, StreamsAreConns, ConnFacts DEF RelayWritesSync, IInv, TypeOK
<1>2. /\ \A t \in Transfers : why'[t] = {} => why[t] = {}
      /\ why'[c[1]] = {} => ~Overtakes(c)
  <2>1. PICK x : x = IF Overtakes(c) THEN {"overtaken"} ELSE {}
    OBVIOUS
  <2>2. why' = [why EXCEPT ![c[1]] = @ \cup x]
    BY <2>1 DEF RelayWritesSync
  <2> QED
    BY <1>1, <2>1, <2>2
<1>3. CASE ForwardFails(c) /\ UNCHANGED wire
  BY <1>1, <1>2, <1>3, ForwardFailsCopies
<1>4. CASE Write(l, Pair(Chunk(c))) /\ rel' = RouteAfter(c) /\ cli' = Forwarded(c)
  <2>2. PICK f \in Queued : f = Chunk(c)
    BY <1>1, ChunkFacts
  <2>3. /\ cli' \in [Conns -> ClientType]
        /\ \A d \in Conns : /\ cli'[d].next >= cli[d].next
                            /\ rel'[d].route \in {0, rel[d].route}
                            /\ cli'[d].st = "idle" => cli[d].st = "idle"
                            /\ cli'[d].st = "ok" <=> cli[d].st = "ok"
                            /\ cli'[d].reply = cli[d].reply
                            /\ Failed(d) => Failed(d)'
                            /\ Routed(d) => Routed(d)'
                            /\ \A n : Handed(d, n)' => Handed(d, n) \/ (d = c /\ n = f.seq)
        /\ f.c = c /\ (Mode(c) # "par" => f.seq = cli[c].next)
        /\ Genuine(f)'
    BY <1>1, <1>4, <2>2, PassesOn
  <2>4. IF Up(l) THEN wire' = wire \o Pair(f) ELSE wire' = wire
    BY <1>4, <2>2 DEF Write
  <2>7. \A m \in Links : tgt'[m].link = tgt[m].link /\ (Up(m)' <=> Up(m))
    BY <1>1 DEF Up
  <2>8. \A m \in Links : \A g \in Queued : Waits(m, g)' => Waits(m, g) \/ Genuine(g)'
    BY <1>1 DEF Waits
  <2>9. FrameInv' /\ \A d \in Conns : InitOnWire(d)' => InitOnWire(d)
    <3>1. \/ wire' = wire
          \/ \E m \in Links : \E g \in Queued : Up(m) /\ wire' = wire \o Pair(g) /\ Genuine(g)'
      BY <1>1, <2>3, <2>4
    <3>2. tgt' \in [Links -> LinkType] /\ \A d \in Conns : cli'[d].next >= cli[d].next
      BY <1>1, <2>3
    <3> QED
      BY <1>1, <2>3, <2>7, <2>8, <3>1, <3>2, FramesMoved
  <2>10. Onward
    BY <1>2, <2>3 DEF Onward
  <2>11. \A d \in Conns : \A n : OnWay(d, n)' <=> OnWay(d, n) \/ (Up(l) /\ d = c /\ n = f.seq)
    <3>1. CASE Up(l)
      BY <2>3, <2>4, <3>1, WireMoved
    <3>2. CASE ~Up(l)
      BY <2>4, <3>2 DEF OnWay, Payload
    <3> QED
      BY <3>1, <3>2
  <2>12. \A d \in Conns : \A n : Queues(d, n)' <=> Queues(d, n)
    BY <1>1, <2>7 DEF Queues
  <2>13. ASSUME NEW t \in Transfers, Going(t)', NEW d \in StreamsOf(t)
         PROVE  /\ Routed(d)' /\ InOrder(d)'
                /\ \A n \in Nat : Handed(d, n)' /\ Carried(d) => Handed(d, n) \/ OnWay(d, n)' \/ Queues(d, n)'
                /\ \A n \in Nat : OnWay(d, n) \/ Queues(d, n) => OnWay(d, n)' \/ Queues(d, n)'
                /\ \A n \in Nat : OnWay(d, n)' \/ Queues(d, n)' =>
                     OnWay(d, n) \/ Queues(d, n) \/ (Mode(d) # "par" => n >= cli[d].next)
    <3>1. Going(t) /\ d \in Conns /\ d[1] = t
      BY <1>1, <2>10, <2>13, GoesBack, StreamOfOne
    <3>2. Routed(d) /\ InOrder(d)
      BY <3>1, <2>13 DEF CopyInv, GoingInv
    <3>3. Routed(d)'
      BY <2>3, <3>1, <3>2
    <3>4. d = c => \A n : OnWay(d, n) \/ Queues(d, n) => n < f.seq
      BY <1>1, <2>2, WayFacts
    <3>45. Up(l) /\ d = c => \A n : ~Queues(d, n)
      <4>1. ~Overtakes(d) \/ d # c
        BY <1>2, <2>13, <3>1 DEF Going
      <4>2. \A m \in Links : Up(m) /\ Up(l) => m = l
        BY <1>1 DEF IInv, LinkInv
      <4> QED
        BY <4>1, <4>2 DEF Queues, Overtakes
    <3>5. InOrder(d)'
      <4>1. \A i, j \in DOMAIN wire' : Payload(i, d)' /\ Payload(j, d)' /\ i < j => wire'[i].seq < wire'[j].seq
        <5>1. CASE Up(l)
          <6>1. /\ \A i, j \in DOMAIN wire : Payload(i, d) /\ Payload(j, d) /\ i < j => wire[i].seq < wire[j].seq
                /\ d = f.c => \A n : OnWay(d, n) => n < f.seq
            BY <2>3, <3>2, <3>4 DEF InOrder
          <6>2. wire' = wire \o Pair(f)
            BY <2>4, <5>1
          <6> QED
            BY <3>1, <6>1, <6>2, WireMoved
        <5>2. CASE ~Up(l)
          BY <2>4, <3>2, <5>2 DEF InOrder, Payload
        <5> QED
          BY <5>1, <5>2
      <4>2. \A m \in Links : Up(m)' => \A i, j \in DOMAIN tgt'[m].q :
               tgt'[m].q[i].c = d /\ tgt'[m].q[j].c = d /\ i < j => tgt'[m].q[i].seq < tgt'[m].q[j].seq
        BY <1>1, <2>7, <3>2 DEF InOrder
      <4>3. \A n, m \in Nat : OnWay(d, n)' /\ Queues(d, m)' => n < m
        <5>1. \A n, m \in Nat : OnWay(d, n) /\ Queues(d, m) => n < m
          BY <3>2 DEF InOrder
        <5> QED
          BY <2>11, <2>12, <3>1, <3>45, <5>1
      <4> QED
        BY <4>1, <4>2, <4>3 DEF InOrder
    <3>6. Carried(c) => Up(l)
      BY <1>1, TransferAssumption DEF CopyInv, StreamInv, RouteUp, Links
    <3>7. \A n : Handed(d, n)' /\ Carried(d) => Handed(d, n) \/ OnWay(d, n)'
      BY <2>3, <2>11, <3>1, <3>6
    <3>8. \A n \in Nat : OnWay(d, n)' \/ Queues(d, n)' =>
             OnWay(d, n) \/ Queues(d, n) \/ (Mode(d) # "par" => n >= cli[d].next)
      <4>1. cli[c].next \in Nat
        BY <1>1, ChunkFacts
      <4> QED
        BY <2>3, <2>11, <2>12, <3>1, <4>1
    <3> QED
      BY <2>11, <2>12, <3>1, <3>3, <3>5, <3>7, <3>8
  <2>14. /\ \A d \in Conns : cli'[d].next >= cli[d].next
         /\ \A d \in Conns : rel'[d].route \in {0, rel[d].route}
         /\ \A d \in Conns : /\ cli'[d].st = "idle" => cli[d].st = "idle"
                             /\ cli'[d].st = "ok" => cli[d].st = "ok"
                             /\ cli'[d].reply = cli[d].reply
    BY <2>3
  <2> QED
    BY <1>1, <2>3, <2>7, <2>9, <2>10, <2>13, <2>14, CopiesMoved
<1> QED
  BY <1>3, <1>4 DEF RelayWritesSync

LEMMA WriterCopies ==
  ASSUME IInv, CopyInv, NEW l \in Links, WriterWrites(l)
  PROVE  CopyInv'
<1>1. /\ UNCHANGED <<scn, cli, rel, reg, back, dmn, files, why>> /\ TypeOK
      /\ cli \in [Conns -> ClientType] /\ tgt \in [Links -> LinkType]
  BY TypeFacts DEF WriterWrites, IInv
<1> DEFINE q == tgt[l].q
<1>2. /\ q \in Seq(Queued) /\ q # <<>> /\ Head(q) \in Queued
      /\ Tail(q) \in Seq(Queued) /\ <<>> \in Seq(Queued)
      /\ DOMAIN Tail(q) = 1 .. Len(q) - 1 /\ Len(q) \in Nat /\ DOMAIN q = 1 .. Len(q)
      /\ \A i \in DOMAIN Tail(q) : i + 1 \in DOMAIN q /\ Tail(q)[i] = q[i + 1]
      /\ 1 \in DOMAIN q /\ Head(q) = q[1]
  BY <1>1 DEF LinkType, WriterWrites
<1>3. PICK f \in Queued : f = q[1] /\ f = Head(q) /\ f.c \in Conns
  BY <1>2 DEF Queued
<1>4. PICK r \in {Tail(q), <<>>} :
        /\ tgt' \in [Links -> LinkType]
        /\ \A m \in Links : m # l => tgt'[m] = tgt[m]
        /\ tgt'[l].q = r /\ tgt'[l].link = tgt[l].link
        /\ \/ r = Tail(q) /\ Write(l, Pair(f))
           \/ ~Up(l) /\ wire' = wire
  <2>1. \/ QueueBecomes(l, Tail(q)) /\ Write(l, Pair(f))
        \/ QueueBecomes(l, <<>>) /\ ~Up(l) /\ wire' = wire
    BY <1>3 DEF WriterWrites, QueueBecomes, MayFail
  <2> HIDE DEF q
  <2> QED
    BY <1>1, <1>2, <2>1, QueueSet
<1>5. /\ Up(l) => r = Tail(q) /\ wire' = wire \o Pair(f)
      /\ ~Up(l) => wire' = wire
  BY <1>4 DEF Write
<1>6. \A m \in Links : tgt'[m].link = tgt[m].link /\ (Up(m)' <=> Up(m))
  BY <1>4 DEF Up
<1>7. \A i \in DOMAIN r : i + 1 \in DOMAIN q /\ r[i] = q[i + 1] /\ i \in Nat \ {0}
  <2>1. CASE r = Tail(q)
    BY <1>2, <2>1
  <2>2. CASE r = <<>>
    BY <2>2
  <2> QED
    BY <1>4, <2>1, <2>2
<1>8. \A m \in Links : \A g \in Queued : Waits(m, g)' => Waits(m, g) \/ Genuine(g)'
  <2>1. ASSUME NEW m \in Links, NEW g \in Queued, Waits(m, g)' PROVE Waits(m, g)
    <3>1. CASE m # l
      BY <1>4, <2>1, <3>1 DEF Waits
    <3>2. CASE m = l
      BY <1>4, <1>7, <2>1, <3>2 DEF Waits
    <3> QED
      BY <3>1, <3>2
  <2> QED
    BY <2>1
<1>9. \A d \in Conns : cli'[d].next >= cli[d].next /\ rel'[d].route \in {0, rel[d].route}
  BY <1>1, OtherStreams
<1>10. Genuine(f)'
  <2>1. Genuine(f)
    BY <1>2, <1>3 DEF CopyInv, FrameInv, QueueGenuine
  <2> QED
    BY <1>1, <1>3, <1>9, <2>1, GenuineStays
<1>11. FrameInv' /\ \A d \in Conns : InitOnWire(d)' => InitOnWire(d)
  <2>1. \/ wire' = wire
        \/ \E m \in Links : \E g \in Queued : Up(m) /\ wire' = wire \o Pair(g) /\ Genuine(g)'
    BY <1>5, <1>10
  <2> QED
    BY <1>1, <1>4, <1>6, <1>8, <1>9, <2>1, FramesMoved
<1>12. Onward
  BY <1>1 DEF Onward, Failed
<1>13. \A d \in Conns : \A n : OnWay(d, n)' <=> OnWay(d, n) \/ (Up(l) /\ d = f.c /\ n = f.seq)
  <2>1. CASE Up(l)
    BY <1>5, <2>1, WireMoved
  <2>2. CASE ~Up(l)
    BY <1>5, <2>2 DEF OnWay, Payload
  <2> QED
    BY <2>1, <2>2
<1>14. Up(l) => Queues(f.c, f.seq)
  BY <1>2, <1>3 DEF Queues
<1>15. ASSUME NEW d \in Conns, NEW n
       PROVE  /\ Queues(d, n)' => Queues(d, n)
              /\ Queues(d, n) => Queues(d, n)' \/ OnWay(d, n)'
  <2>1. ASSUME NEW m \in Links, Up(m), m # l
        PROVE  ~Up(l) /\ tgt'[m] = tgt[m]
    BY <1>4, <2>1 DEF IInv, LinkInv
  <2>2. ASSUME Queues(d, n)' PROVE Queues(d, n)
    <3>1. PICK m, i : m \in Links /\ i \in DOMAIN tgt'[m].q /\ Up(m) /\ tgt'[m].q[i].c = d /\ tgt'[m].q[i].seq = n
      BY <1>6, <2>2 DEF Queues
    <3>2. CASE m # l
      BY <1>4, <3>1, <3>2 DEF Queues
    <3>3. CASE m = l
      BY <1>4, <1>7, <3>1, <3>3 DEF Queues
    <3> QED
      BY <3>2, <3>3
  <2>3. ASSUME Queues(d, n) PROVE Queues(d, n)' \/ OnWay(d, n)'
    <3>1. PICK m, i : m \in Links /\ i \in DOMAIN tgt[m].q /\ Up(m) /\ tgt[m].q[i].c = d /\ tgt[m].q[i].seq = n
      BY <2>3 DEF Queues
    <3>2. CASE m # l
      BY <1>4, <1>6, <3>1, <3>2 DEF Queues
    <3>3. CASE m = l
      <4>1. i \in 1 .. Len(q)
        BY <1>2, <3>1, <3>3
      <4>2. CASE i = 1
        <5>1. d = f.c /\ n = f.seq /\ Up(l)
          BY <1>3, <3>1, <3>3, <4>2
        <5> QED
          BY <1>13, <5>1
      <4>3. CASE i # 1
        <5>1. i - 1 \in DOMAIN Tail(q) /\ Tail(q)[i - 1] = q[i]
          <6>1. PICK k : k = i - 1
            OBVIOUS
          <6>2. k \in DOMAIN Tail(q) /\ k + 1 = i
            BY <1>2, <4>1, <4>3, <6>1
          <6>3. Tail(q)[k] = q[k + 1]
            BY <1>2, <6>2
          <6> QED
            BY <6>1, <6>2, <6>3
        <5>2. i - 1 \in DOMAIN tgt'[l].q /\ tgt'[l].q[i - 1] = q[i]
          BY <1>4, <1>5, <3>1, <3>3, <5>1
        <5> QED
          BY <1>6, <3>1, <3>3, <5>2 DEF Queues
      <4> QED
        BY <4>2, <4>3
    <3> QED
      BY <3>2, <3>3
  <2> QED
    BY <2>2, <2>3
<1>16. ASSUME NEW t \in Transfers, Going(t)', NEW d \in StreamsOf(t)
       PROVE  /\ Routed(d)' /\ InOrder(d)'
              /\ \A n \in Nat : Handed(d, n)' /\ Carried(d) => Handed(d, n) \/ OnWay(d, n)' \/ Queues(d, n)'
              /\ \A n \in Nat : OnWay(d, n) \/ Queues(d, n) => OnWay(d, n)' \/ Queues(d, n)'
              /\ \A n \in Nat : OnWay(d, n)' \/ Queues(d, n)' =>
                   OnWay(d, n) \/ Queues(d, n) \/ (Mode(d) # "par" => n >= cli[d].next)
  <2>1. Going(t) /\ d \in Conns
    BY <1>1, <1>12, <1>16, GoesBack, StreamOfOne
  <2>2. Routed(d) /\ InOrder(d)
    BY <1>16, <2>1 DEF CopyInv, GoingInv
  <2>3. Routed(d)'
    BY <1>1, <2>2 DEF Routed
  <2>4. f.seq \in Nat
    BY DEF Queued
  <2>5. InOrder(d)'
    <3>1. \A i, j \in DOMAIN wire' : Payload(i, d)' /\ Payload(j, d)' /\ i < j => wire'[i].seq < wire'[j].seq
      <4>1. CASE Up(l)
        <5>1. \A n : OnWay(d, n) => n \in Nat
          <6>1. wire \in Seq(Frames)
            BY <1>1, TypeFacts
          <6>2. \A i \in DOMAIN wire : wire[i] \in Frames
            BY <6>1
          <6> QED
            BY <6>2 DEF OnWay, Payload, Frames
        <5>2. /\ \A i, j \in DOMAIN wire : Payload(i, d) /\ Payload(j, d) /\ i < j => wire[i].seq < wire[j].seq
              /\ d = f.c => \A n : OnWay(d, n) => n < f.seq
          BY <1>14, <2>2, <2>4, <4>1, <5>1 DEF InOrder
        <5>3. wire' = wire \o Pair(f)
          BY <1>5, <4>1
        <5> QED
          BY <2>1, <5>2, <5>3, WireMoved
      <4>2. CASE ~Up(l)
        BY <1>5, <2>2, <4>2 DEF InOrder, Payload
      <4> QED
        BY <4>1, <4>2
    <3>2. ASSUME NEW m \in Links, Up(m)', NEW i \in DOMAIN tgt'[m].q, NEW j \in DOMAIN tgt'[m].q,
                 tgt'[m].q[i].c = d, tgt'[m].q[j].c = d, i < j
          PROVE  tgt'[m].q[i].seq < tgt'[m].q[j].seq
      <4>1. CASE m # l
        BY <1>4, <1>6, <2>2, <3>2, <4>1 DEF InOrder
      <4>2. CASE m = l
        <5>1. i + 1 \in DOMAIN q /\ j + 1 \in DOMAIN q /\ i + 1 < j + 1 /\ Up(l)
              /\ tgt'[m].q[i] = q[i + 1] /\ tgt'[m].q[j] = q[j + 1]
          BY <1>4, <1>6, <1>7, <3>2, <4>2
        <5> QED
          BY <2>2, <3>2, <5>1 DEF InOrder
      <4> QED
        BY <4>1, <4>2
    <3>3. ASSUME NEW n \in Nat, NEW m \in Nat, OnWay(d, n)', Queues(d, m)' PROVE n < m
      <4>1. Queues(d, m)
        BY <1>15, <2>1, <3>3
      <4>2. CASE OnWay(d, n)
        BY <2>2, <4>1, <4>2 DEF InOrder
      <4>3. CASE Up(l) /\ d = f.c /\ n = f.seq
        <5>1. PICK k, i : k \in Links /\ i \in DOMAIN tgt'[k].q /\ Up(k) /\ tgt'[k].q[i].c = d /\ tgt'[k].q[i].seq = m
          BY <1>6, <3>3 DEF Queues
        <5>2. k = l
          BY <4>3, <5>1 DEF IInv, LinkInv
        <5>3. i + 1 \in DOMAIN q /\ q[i + 1].c = d /\ q[i + 1].seq = m /\ 1 < i + 1
          BY <1>4, <1>7, <5>1, <5>2
        <5>4. q[1].seq < q[i + 1].seq
          BY <1>2, <1>3, <2>2, <4>3, <5>3 DEF InOrder
        <5> QED
          BY <1>3, <4>3, <5>3, <5>4
      <4> QED
        BY <1>13, <2>1, <3>3, <4>2, <4>3
    <3> QED
      BY <3>1, <3>2, <3>3 DEF InOrder
  <2>6. \A n : Handed(d, n)' => Handed(d, n)
    BY <1>1, ChunkSeqsSame DEF Handed
  <2> QED
    BY <1>13, <1>14, <1>15, <2>1, <2>3, <2>5, <2>6
<1>17. \A d \in Conns : /\ cli'[d].st = "idle" => cli[d].st = "idle"
                        /\ cli'[d].st = "ok" => cli[d].st = "ok"
                        /\ cli'[d].reply = cli[d].reply
  BY <1>1
<1> QED
  BY <1>1, <1>6, <1>9, <1>11, <1>12, <1>16, <1>17, CopiesMoved

(***************************************************************************)
(* The daemon reads a frame.                                               *)
(***************************************************************************)
LEMMA ReadFacts ==
  ASSUME IInv, CopyInv, wire # <<>>, wire' = Tail(wire), UNCHANGED <<scn, cli, tgt>>
  PROVE  /\ WireGenuine' /\ QueueGenuine' /\ InitFirst'
         /\ \A d : /\ InitOnWire(d)' => InitOnWire(d)
                   /\ wire[1].c = d /\ wire[1].k # "init" => ~InitOnWire(d)
                   /\ \A n : OnWay(d, n)' => OnWay(d, n)
                   /\ \A n : OnWay(d, n) => OnWay(d, n)' \/ (Payload(1, d) /\ n = wire[1].seq)
                   /\ \A n : Queues(d, n)' <=> Queues(d, n)
                   /\ \A n : Handed(d, n)' <=> Handed(d, n)
                   /\ InOrder(d) => InOrder(d)'
                   /\ InOrder(d) /\ Payload(1, d) =>
                        \A n \in Nat : OnWay(d, n)' \/ Queues(d, n) => n > wire[1].seq
<1> DEFINE v == wire'
<1>1. /\ wire \in Seq(Frames) /\ v \in Seq(Frames) /\ 1 \in DOMAIN wire
      /\ \A i \in DOMAIN v : i \in Nat \ {0} /\ i + 1 \in DOMAIN wire /\ v[i] = wire[i + 1]
      /\ \A i \in DOMAIN wire : i # 1 => i - 1 \in DOMAIN v /\ v[i - 1] = wire[i]
      /\ \A i \in DOMAIN wire : i \in Nat \ {0}
  BY TypeFacts, WireTail DEF IInv, PairInv
<1>2. \A f : Genuine(f) => Genuine(f)'
  BY ChunkSeqsSame DEF Genuine
<1>3. WireGenuine'
  <2>1. ASSUME NEW i \in DOMAIN v, v[i].k # "init" PROVE Genuine(wire[i])'
    <3>1. PICK f : f = wire[i + 1] /\ f = wire'[i]
      BY <1>1, <2>1
    <3>2. Genuine(f)
      BY <1>1, <2>1, <3>1 DEF CopyInv, FrameInv, WireGenuine
    <3> QED
      BY <1>2, <3>1, <3>2
  <2> QED
    BY <2>1 DEF WireGenuine
<1>4. QueueGenuine'
  <2>1. ASSUME NEW l \in Links, NEW i \in DOMAIN tgt'[l].q PROVE Genuine(tgt[l].q[i])'
    <3>1. PICK f : f = tgt[l].q[i] /\ f = tgt'[l].q[i]
      OBVIOUS
    <3>2. Genuine(f)
      BY <2>1, <3>1 DEF CopyInv, FrameInv, QueueGenuine
    <3> QED
      BY <1>2, <3>1, <3>2
  <2> QED
    BY <2>1 DEF QueueGenuine
<1>5. InitFirst'
  <2>1. ASSUME NEW i \in DOMAIN v, NEW j \in DOMAIN v, v[j].k = "init", v[i].c = v[j].c
        PROVE  j <= i
    <3>1. PICK a, b : a = i + 1 /\ b = j + 1
      OBVIOUS
    <3>2. a \in DOMAIN wire /\ b \in DOMAIN wire /\ wire[b].k = "init" /\ wire[a].c = wire[b].c
      BY <1>1, <2>1, <3>1
    <3>3. b <= a
      BY <3>2 DEF CopyInv, FrameInv, InitFirst
    <3> QED
      BY <1>1, <3>1, <3>3
  <2> QED
    BY <2>1 DEF InitFirst
<1>6. ASSUME NEW d
      PROVE  /\ InitOnWire(d)' => InitOnWire(d)
             /\ wire[1].c = d /\ wire[1].k # "init" => ~InitOnWire(d)
             /\ \A n : OnWay(d, n)' => OnWay(d, n)
             /\ \A n : OnWay(d, n) => OnWay(d, n)' \/ (Payload(1, d) /\ n = wire[1].seq)
             /\ \A n : Queues(d, n)' <=> Queues(d, n)
             /\ \A n : Handed(d, n)' <=> Handed(d, n)
             /\ InOrder(d) => InOrder(d)'
             /\ InOrder(d) /\ Payload(1, d) =>
                  \A n \in Nat : OnWay(d, n)' \/ Queues(d, n) => n > wire[1].seq
  <2>1. InitOnWire(d)' => InitOnWire(d)
    BY <1>1 DEF InitOnWire
  <2>2. wire[1].c = d /\ wire[1].k # "init" => ~InitOnWire(d)
    <3>1. SUFFICES ASSUME wire[1].c = d, wire[1].k # "init", NEW j \in DOMAIN wire, wire[j].c = d, wire[j].k = "init"
                   PROVE  FALSE
      BY DEF InitOnWire
    <3>2. j <= 1
      BY <1>1, <3>1 DEF CopyInv, FrameInv, InitFirst
    <3>3. j = 1
      BY <1>1, <3>2
    <3> QED
      BY <3>1, <3>3
  <2>3. \A i : Payload(i, d)' => Payload(i + 1, d) /\ v[i] = wire[i + 1] /\ i \in Nat \ {0}
    BY <1>1 DEF Payload
  <2>4. \A n : OnWay(d, n)' => OnWay(d, n)
    <3>1. ASSUME NEW n, NEW i \in DOMAIN v, Payload(i, d)', v[i].seq = n
          PROVE  OnWay(d, n)
      <4>1. PICK a : a = i + 1
        OBVIOUS
      <4>2. a \in DOMAIN wire /\ Payload(a, d) /\ wire[a].seq = n
        BY <1>1, <2>3, <3>1, <4>1
      <4> QED
        BY <4>2 DEF OnWay
    <3> QED
      BY <3>1 DEF OnWay, Payload
  <2>5. ASSUME NEW n, OnWay(d, n) PROVE OnWay(d, n)' \/ (Payload(1, d) /\ n = wire[1].seq)
    <3>1. PICK i \in DOMAIN wire : Payload(i, d) /\ wire[i].seq = n
      BY <2>5 DEF OnWay
    <3>2. CASE i = 1
      BY <3>1, <3>2
    <3>3. CASE i # 1
      <4>1. i - 1 \in DOMAIN v /\ v[i - 1] = wire[i]
        BY <1>1, <3>3
      <4> QED
        BY <3>1, <4>1 DEF OnWay, Payload
    <3> QED
      BY <3>2, <3>3
  <2>6. \A n : Queues(d, n)' <=> Queues(d, n)
    BY DEF Queues, Up
  <2>7. \A n : Handed(d, n)' <=> Handed(d, n)
    BY ChunkSeqsSame DEF Handed
  <2>8. ASSUME InOrder(d) PROVE InOrder(d)'
    <3>1. ASSUME NEW i \in DOMAIN v, NEW j \in DOMAIN v, Payload(i, d)', Payload(j, d)', i < j
          PROVE  v[i].seq < v[j].seq
      <4>1. PICK a, b : a = i + 1 /\ b = j + 1
        OBVIOUS
      <4>2. Payload(a, d) /\ Payload(b, d) /\ a < b /\ a \in DOMAIN wire /\ b \in DOMAIN wire
        BY <1>1, <2>3, <3>1, <4>1
      <4>3. wire[a].seq < wire[b].seq
        BY <2>8, <4>2 DEF InOrder
      <4> QED
        BY <2>3, <3>1, <4>1, <4>3
    <3>2. \A l \in Links : Up(l)' => \A i, j \in DOMAIN tgt'[l].q :
            tgt'[l].q[i].c = d /\ tgt'[l].q[j].c = d /\ i < j => tgt'[l].q[i].seq < tgt'[l].q[j].seq
      BY <2>8 DEF InOrder, Up
    <3>3. \A n, m \in Nat : OnWay(d, n)' /\ Queues(d, m)' => n < m
      BY <2>4, <2>6, <2>8 DEF InOrder
    <3> QED
      BY <3>1, <3>2, <3>3 DEF InOrder
  <2>9. ASSUME InOrder(d), Payload(1, d), NEW n \in Nat, OnWay(d, n)' \/ Queues(d, n)
        PROVE  n > wire[1].seq
    <3>1. wire[1].seq \in Nat /\ OnWay(d, wire[1].seq)
      <4>1. wire[1] \in Frames
        BY <1>1
      <4> QED
        BY <1>1, <2>9, <4>1 DEF OnWay, Frames
    <3>2. CASE Queues(d, n)
      BY <2>9, <3>1, <3>2 DEF InOrder
    <3>3. CASE OnWay(d, n)'
      <4>1. PICK i : i \in DOMAIN v /\ Payload(i, d)' /\ v[i].seq = n
        BY <3>3 DEF OnWay, Payload
      <4>2. PICK a : a = i + 1
        OBVIOUS
      <4>3. a \in DOMAIN wire /\ Payload(a, d) /\ wire[a].seq = n /\ 1 < a
        BY <1>1, <2>3, <4>1, <4>2
      <4> QED
        BY <1>1, <2>9, <3>1, <4>3 DEF InOrder
    <3> QED
      BY <2>9, <3>2, <3>3
  <2> QED
    BY <2>1, <2>2, <2>4, <2>5, <2>6, <2>7, <2>8, <2>9
<1> QED
  BY <1>3, <1>4, <1>5, <1>6

\* A stream of a copy that goes on, of which nothing is written by this step.
LEMMA AsItWas ==
  ASSUME IInv, CopyInv, wire # <<>>, wire' = Tail(wire), UNCHANGED <<scn, cli, tgt>>,
         NEW t \in Transfers, Going(t), NEW d \in StreamsOf(t),
         d \in Entries' <=> d \in Entries,
         d \in Entries => /\ dmn'.reas[d].buf = dmn.reas[d].buf
                          /\ dmn'.reas[d].off = dmn.reas[d].off
                          /\ dmn'.reas[d].open = dmn.reas[d].open,
         GoodResult(d)' => GoodResult(d),
         Payload(1, d) => ~Carried(d),
         \/ files'[Dst(d)] = files[Dst(d)]
         \/ ~Useful(d) /\ ~Done(d)
         \/ /\ Mode(d) = "par" /\ Len(files'[Dst(d)]) = Len(files[Dst(d)])
            /\ \A n : InFile(d, n) => InFile(d, n)'
  PROVE  NoneMissing(d)' /\ Exact(d)' /\ Delivered(d)'
<1>1. /\ d \in Conns /\ NoneMissing(d) /\ Exact(d) /\ Delivered(d)
  BY StreamOfOne DEF CopyInv, GoingInv
<1>2. /\ Mode(d)' = Mode(d) /\ Dst(d)' = Dst(d) /\ Size(d)' = Size(d) /\ ChunkSeqs(d)' = ChunkSeqs(d)
  BY ChunkSeqsSame DEF Size
<1>3. /\ InitOnWire(d)' => InitOnWire(d)
      /\ \A n : OnWay(d, n)' => OnWay(d, n)
      /\ \A n : OnWay(d, n) => OnWay(d, n)' \/ (Payload(1, d) /\ n = wire[1].seq)
      /\ \A n : Queues(d, n)' <=> Queues(d, n)
      /\ \A n : Handed(d, n)' <=> Handed(d, n)
  BY ReadFacts
<1>4. Useful(d)' <=> Useful(d)
  BY <1>2 DEF Useful
<1>5. Carried(d)' => Carried(d)
  BY <1>3, <1>4 DEF Carried, Up
<1>6. Done(d)' => Done(d)
  BY DEF Done
<1>7. d \in Entries => Held(d)' = Held(d)
  BY DEF Held
<1>8. CASE ~Useful(d) /\ ~Done(d)
  <2>1. NoneMissing(d)'
    <3>1. Carried(d)' => ~Payload(1, d) /\ d \notin Entries
      <4>1. Carried(d) => InitOnWire(d)
        BY <1>8 DEF Carried
      <4> QED
        BY <1>5, <4>1 DEF IInv, OnceInv, NoSecond
    <3>2. d \notin Entries => \A n : ~Kept(d, n)
      BY DEF Kept
    <3> QED
      BY <1>1, <1>3, <1>5, <3>1, <3>2 DEF NoneMissing
  <2> QED
    BY <1>4, <1>6, <1>8, <2>1 DEF Exact, Delivered
<1>9. CASE \/ files'[Dst(d)] = files[Dst(d)]
           \/ /\ Mode(d) = "par" /\ Len(files'[Dst(d)]) = Len(files[Dst(d)])
              /\ \A n : InFile(d, n) => InFile(d, n)'
  <2>1. \A n : InFile(d, n) => InFile(d, n)'
    BY <1>2, <1>9 DEF InFile, Data
  <2>2. \A n : Kept(d, n) => Kept(d, n)'
    BY <1>2, <1>7, <2>1 DEF Kept
  <2>3. NoneMissing(d)'
    <3>1. Carried(d)' => ~Payload(1, d) /\ Carried(d)
      BY <1>5
    <3> QED
      BY <1>1, <1>3, <2>2, <3>1 DEF NoneMissing
  <2>4. Delivered(d)'
    BY <1>1, <1>2, <1>6, <1>9, <2>1 DEF Delivered
  <2>5. Exact(d)'
    <3>1. CASE Mode(d) = "par"
      BY <1>1, <1>2, <1>4, <1>9, <3>1 DEF Exact
    <3>2. CASE Mode(d) # "par" /\ Useful(d)
      <4>1. files'[Dst(d)] = files[Dst(d)] /\ Held(d)' = Held(d) /\ Count(d)' = Count(d) /\ d \in Entries
        BY <1>2, <1>7, <1>9, <3>2 DEF Count, Useful
      <4> QED
        BY <1>1, <1>2, <1>3, <1>4, <3>2, <4>1 DEF Exact, Data
    <3> QED
      BY <1>4, <3>1, <3>2 DEF Exact
  <2> QED
    BY <2>3, <2>4, <2>5
<1> QED
  BY <1>8, <1>9

\* What the streams of a copy that goes on leave to show of a daemon step.
LEMMA DaemonCopies ==
  ASSUME IInv, CopyInv, wire # <<>>, wire' = Tail(wire), UNCHANGED <<scn, cli, rel, tgt, reg>>,
         NEW c \in Conns, PayloadSelected',
         Entries' \subseteq Entries \cup {c},
         \A d \in Entries' : d # c => dmn'.reas[d] = dmn.reas[d],
         \A d : d # c => (GoodResult(d)' => GoodResult(d)),
         Carried(c)' => Carried(c),
         c \in Entries' => /\ Mode(c) = "rsync" => ~dmn'.reas[c].open
                           /\ Mode(c) = "scp" => dmn'.reas[c].open = scn.writable,
         Done(c)' => ~InitOnWire(c)' /\ c \notin Entries',
         \A t \in Transfers : why'[t] = {} => why[t] = {},
         \A t \in Transfers : Going(t) /\ Going(t)' =>
            /\ Unrivalled(t)'
            /\ \A d \in StreamsOf(t) : NoneMissing(d)' /\ Exact(d)' /\ Delivered(d)'
  PROVE  CopyInv'
<1>1. FrameInv'
  BY ReadFacts DEF FrameInv
<1>2. Onward
  BY DEF Onward, Failed
<1>3. \A d : InitOnWire(d)' => InitOnWire(d)
  BY ReadFacts
<1>4. StreamInv'
  <2>1. Quiet' /\ OkLast'
    BY ChunkSeqsSame DEF CopyInv, StreamInv, Quiet, OkLast, AllSent
  <2>2. \A d \in Conns : Carried(d)' => Carried(d)
    <3>1. \A d \in Conns : d # c => (Useful(d)' => Useful(d))
      BY ChunkSeqsSame DEF Useful
    <3> QED
      BY <1>3, <3>1 DEF Carried, Up
  <2>3. RouteUp'
    BY <2>2 DEF CopyInv, StreamInv, RouteUp, Up
  <2>4. EntryOpen'
    <3>1. ASSUME NEW d \in Entries'
          PROVE  /\ Mode(d) = "rsync" => ~dmn'.reas[d].open
                 /\ Mode(d) = "scp" => dmn'.reas[d].open = scn.writable
      <4>1. CASE d = c
        BY <3>1, <4>1
      <4>2. CASE d # c
        <5>1. d \in Entries /\ dmn'.reas[d] = dmn.reas[d]
          BY <3>1, <4>2
        <5> QED
          BY <5>1 DEF CopyInv, StreamInv, EntryOpen
      <4> QED
        BY <4>1, <4>2
    <3> QED
      BY <3>1, ChunkSeqsSame DEF EntryOpen
  <2>5. DoneOut'
    <3>1. ASSUME NEW d \in Conns, Done(d)' PROVE ~InitOnWire(d)' /\ d \notin Entries'
      <4>1. CASE d = c
        BY <3>1, <4>1
      <4>2. CASE d # c
        <5>1. Done(d)
          BY <3>1, <4>2 DEF Done
        <5> QED
          BY <1>3, <4>2, <5>1 DEF CopyInv, StreamInv, DoneOut
      <4> QED
        BY <4>1, <4>2
    <3> QED
      BY <3>1 DEF DoneOut
  <2> QED
    BY <2>1, <2>3, <2>4, <2>5 DEF StreamInv
<1>5. GoingInv'
  <2>1. ASSUME NEW t \in Transfers, Going(t)'
        PROVE  /\ Unrivalled(t)'
               /\ \A d \in StreamsOf(t)' : Routed(d)' /\ InOrder(d)' /\ NoneMissing(d)' /\ Exact(d)' /\ Delivered(d)'
    <3>1. Going(t) /\ StreamsOf(t)' = StreamsOf(t)
      BY <1>2, <2>1, GoesBack
    <3>2. \A d \in StreamsOf(t) : Routed(d) /\ InOrder(d)
      BY <3>1 DEF CopyInv, GoingInv
    <3>3. \A d \in StreamsOf(t) : Routed(d)' /\ InOrder(d)'
      BY <3>2, ReadFacts DEF Routed
    <3> QED
      BY <2>1, <3>1, <3>3
  <2> QED
    BY <2>1 DEF GoingInv
<1> QED
  BY <1>1, <1>4, <1>5 DEF CopyInv

\* An answer is a good one for nobody but the stream it is about.
LEMMA GoodAnswer ==
  ASSUME IInv, wire # <<>>, NEW c \in Conns, NEW ok \in BOOLEAN, Answer(c, ok)
  PROVE  \A d : GoodResult(d)' => GoodResult(d) \/ (d = c /\ ok)
<1>1. back \in Seq(Results)
  BY TypeFacts DEF IInv
<1>2. PICK l \in Links : l = CHOOSE m \in Links : Up(m)
  BY DEF IInv, LinkInv
<1>3. PICK r \in Results : r = [c |-> c, ok |-> ok, l |-> l]
  BY DEF Results
<1>4. back' = Append(back, r)
  BY <1>2, <1>3 DEF Answer
<1>5. back' \in Seq(Results) /\ \A i \in DOMAIN back' : back'[i] = r \/ (i \in DOMAIN back /\ back'[i] = back[i])
  BY <1>1, <1>4
<1>6. ASSUME NEW d, NEW i \in DOMAIN back', back'[i].c = d, back'[i].ok
      PROVE  GoodResult(d) \/ (d = c /\ ok)
  <2>1. CASE back'[i] = r
    <3>1. back'[i].c = c
      BY <1>3, <2>1
    <3>2. back'[i].ok = ok
      BY <1>3, <2>1
    <3> QED
      BY <1>6, <3>1, <3>2
  <2>2. CASE i \in DOMAIN back /\ back'[i] = back[i]
    BY <1>6, <2>2 DEF GoodResult
  <2> QED
    BY <1>5, <2>1, <2>2
<1> QED
  BY <1>6 DEF GoodResult

\* Who is a rival.
LEMMA RivalFacts ==
  ASSUME IInv, CopyInv, NEW t \in Transfers
  PROVE  /\ \A u \in Transfers \ {t} : LiveEntry(u) /\ scn.dst[u] = scn.dst[t] => u \in Rivals(t)
         /\ Going(t) /\ (\E d \in StreamsOf(t) : d \in Entries \/ Done(d)) =>
              \A u \in Transfers \ {t} : scn.dst[u] = scn.dst[t] => t \in Rivals(u)
<1>1. ASSUME NEW u \in Transfers \ {t}, LiveEntry(u), scn.dst[u] = scn.dst[t]
      PROVE  u \in Rivals(t)
  <2>1. PICK c \in Entries : c[1] = u
    BY <1>1 DEF LiveEntry
  <2>2. c \in Conns /\ c \in Active
    <3>1. c \in Conns
      BY StreamsNamed DEF IInv
    <3> QED
      BY <3>1, Heard DEF IInv, OnceInv, RestIdle
  <2>3. scn.mode[u] # "none"
    BY <2>1, <2>2, StreamOfOne
  <2> QED
    BY <1>1, <2>3 DEF Rivals
<1>2. ASSUME Going(t), NEW d \in StreamsOf(t), d \in Entries \/ Done(d),
             NEW u \in Transfers \ {t}, scn.dst[u] = scn.dst[t]
      PROVE  t \in Rivals(u)
  <2>1. d \in Conns /\ scn.mode[t] # "none"
    BY StreamOfOne
  <2>2. cli[d].st # "idle"
    <3>1. CASE d \in Entries
      BY <2>1, <3>1, Heard
    <3>2. CASE GoodResult(d)
      BY <2>1, <3>2 DEF IInv, OnceInv, IdleFresh, Untouched, HasResult, GoodResult
    <3>3. CASE cli[d].reply = "ok"
      BY <2>1, <3>3 DEF CopyInv, StreamInv, Quiet
    <3> QED
      BY <1>2, <3>1, <3>2, <3>3 DEF Done
  <2>3. Begun(t) /\ ~Ended(t)
    BY <1>2, <2>2, GoingFacts DEF Begun, IInv
  <2> QED
    BY <1>2, <2>1, <2>3 DEF Rivals
<1> QED
  BY <1>1, <1>2

LEMMA BeginCopies ==
  ASSUME IInv, CopyInv, DaemonBegins
  PROVE  CopyInv'
<1>1. /\ wire # <<>> /\ wire' = Tail(wire) /\ Head(wire).k = "init"
      /\ UNCHANGED <<scn, cli, rel, tgt, reg, back>> /\ TypeOK
  BY DEF DaemonBegins, Receive, IInv
<1>2. PICK c \in Conns : c = wire[1].c /\ c = Head(wire).c /\ wire[1].k = "init"
  BY <1>1, FirstFrame
<1>3. dmn.pend = NoConn /\ InitOnWire(c) /\ c \notin Entries /\ ~Done(c)
  <2>1. dmn.pend = NoConn /\ InitOnWire(c)
    BY <1>1, <1>2, FirstFrame DEF InitOnWire
  <2> QED
    BY <2>1 DEF IInv, OnceInv, NoSecond, CopyInv, StreamInv, DoneOut
<1>4. /\ Entries' = Entries \cup {c} /\ dmn'.pend = NoConn
      /\ \A d \in Entries : d # c => dmn'.reas[d] = dmn.reas[d]
      /\ dmn'.reas[c] = Entry(c)
  <2>1. dmn' = [dmn EXCEPT !.reas = WithEntry(c, Entry(c))]
    BY <1>2 DEF DaemonBegins
  <2>2. PICK r : dmn = [reas |-> r, pend |-> NoConn]
    BY <1>1, <1>3 DEF TypeOK
  <2>3. dmn' = [reas |-> WithEntry(c, Entry(c)), pend |-> NoConn]
    BY <2>1, <2>2
  <2> QED
    BY <2>3, TableWith
<1>5. /\ dmn'.reas[c].buf = <<>> /\ dmn'.reas[c].off = 1
      /\ dmn'.reas[c].open <=> Shares(c) \/ OpensFile(c)
  <2>1. PICK b : b = (Shares(c) \/ OpensFile(c))
    OBVIOUS
  <2>2. Entry(c) = [buf |-> <<>>, off |-> 1, seq |-> 0, fin |-> FALSE, open |-> b]
    BY <2>1 DEF Entry
  <2>3. dmn'.reas[c].buf = <<>> /\ dmn'.reas[c].off = 1 /\ dmn'.reas[c].open = b
    BY <1>4, <2>2
  <2>4. dmn'.reas[c].open <=> Shares(c) \/ OpensFile(c)
    BY <2>1, <2>3, Zenon
  <2> QED
    BY <2>3, <2>4
<1> DEFINE g == IF Mode(c) = "par" THEN Blank(Size(c), Zero) ELSE <<>>
           more == IF Mode(c) = "par" /\ OpensFile(c) /\ Holds(c) THEN {"recreated"} ELSE {}
           news == (IF Rivals(c[1]) # {} THEN {"shared"} ELSE {}) \cup more
<1>6. /\ c[1] \in Transfers /\ Dst(c) \in Dsts /\ Size(c) \in Nat /\ files \in [Dsts -> Seq(Cells)]
  BY <1>1, ConnFacts DEF TypeOK
<1>7. files' = IF OpensFile(c) THEN [files EXCEPT ![Dst(c)] = g] ELSE files
  BY <1>2 DEF DaemonBegins
<1>8. why' = [u \in Transfers |->
                 IF u = c[1] THEN why[u] \cup news
                 ELSE IF u \in Rivals(c[1]) THEN why[u] \cup {"shared"} ELSE why[u]]
  BY <1>2 DEF DaemonBegins
<1>9. /\ \A u \in Transfers : why'[u] = {} => why[u] = {}
      /\ why'[c[1]] = {} => Rivals(c[1]) = {} /\ ~(Mode(c) = "par" /\ OpensFile(c) /\ Holds(c))
      /\ \A u \in Transfers : u # c[1] /\ why'[u] = {} => u \notin Rivals(c[1])
  BY <1>6, <1>8
<1> HIDE DEF g, more, news
<1>10. \A u \in Transfers : LiveEntry(u)' => LiveEntry(u) \/ u = c[1]
  BY <1>4 DEF LiveEntry
<1>11. \A d : (GoodResult(d)' <=> GoodResult(d)) /\ (Done(d)' <=> Done(d))
  BY <1>1 DEF GoodResult, Done
<1>12. ASSUME NEW t \in Transfers, Going(t), Going(t)'
       PROVE  Unrivalled(t)'
  <2>1. why'[t] = {}
    BY <1>12 DEF Going
  <2>2. ASSUME NEW u \in Transfers \ {t}, LiveEntry(u)', scn.dst[u] = scn.dst[t],
               NEW d \in StreamsOf(t), d \in Entries' \/ Done(d)'
        PROVE  FALSE
    <3>1. CASE t = c[1]
      <4>1. LiveEntry(u)
        BY <1>10, <2>2, <3>1
      <4>2. u \in Rivals(t)
        BY <2>2, <4>1, RivalFacts
      <4> QED
        BY <1>9, <2>1, <3>1, <4>2
    <3>2. CASE t # c[1]
      <4>1. d # c /\ d[1] = t
        BY <3>2, StreamOfOne
      <4>2. d \in Entries \/ Done(d)
        BY <1>4, <1>11, <2>2, <4>1
      <4>3. CASE u = c[1]
        <5>1. t \in Rivals(u)
          BY <1>12, <2>2, <4>2, RivalFacts
        <5> QED
          BY <1>9, <2>1, <3>2, <4>3, <5>1
      <4>4. CASE u # c[1]
        <5>1. LiveEntry(u)
          BY <1>10, <2>2, <4>4
        <5>2. Unrivalled(t)
          BY <1>12 DEF CopyInv, GoingInv
        <5> QED
          BY <2>2, <4>2, <5>1, <5>2 DEF Unrivalled
      <4> QED
        BY <4>3, <4>4
    <3> QED
      BY <3>1, <3>2
  <2>3. StreamsOf(t)' = StreamsOf(t)
    BY <1>1 DEF StreamsOf
  <2> QED
    BY <1>1, <2>2, <2>3 DEF Unrivalled
<1>13. ASSUME NEW t \in Transfers, Going(t), Going(t)', NEW d \in StreamsOf(t), d # c
       PROVE  NoneMissing(d)' /\ Exact(d)' /\ Delivered(d)'
  <2>1. /\ d \in Conns /\ d[1] = t /\ Dst(d) = scn.dst[t] /\ Dst(d) \in Dsts /\ Mode(d) = scn.mode[t]
        /\ Size(d) = scn.size[t] /\ why'[t] = {}
    BY <1>1, <1>13, StreamOfOne, ConnFacts DEF Going
  <2>2. Dst(c) = scn.dst[c[1]] /\ Mode(c) = scn.mode[c[1]] /\ Size(c) = scn.size[c[1]]
    BY DEF Dst, Mode, Size
  <2>3. files'[Dst(d)] = files[Dst(d)] \/ (~Useful(d) /\ ~Done(d))
    <3>1. CASE ~OpensFile(c) \/ Dst(d) # Dst(c)
      BY <1>6, <1>7, <2>1, <3>1
    <3>2. CASE OpensFile(c) /\ Dst(d) = Dst(c) /\ t # c[1]
      <4>1. d \in Entries \/ Done(d) => t \in Rivals(c[1])
        BY <1>6, <1>13, <2>1, <2>2, <3>2, RivalFacts
      <4>2. d \notin Entries /\ ~Done(d)
        BY <1>9, <2>1, <3>2, <4>1
      <4> QED
        BY <4>2 DEF Useful
    <3>3. CASE OpensFile(c) /\ Dst(d) = Dst(c) /\ t = c[1]
      <4>1. Mode(d) = "par" /\ Mode(c) = "par"
        <5>1. Mode(d) # "par" => d = <<t, 1>>
          BY StreamOfOne
        <5>2. Mode(c) # "par" => c = <<t, 1>>
          <6>1. c \in Active
            BY <1>2, <1>3, Heard DEF OnWire, InitOnWire, IInv, OnceInv, RestIdle
          <6> QED
            BY <3>3, <6>1, StreamOfOne
        <5> QED
          BY <1>13, <2>1, <2>2, <3>3, <5>1, <5>2
      <4>2. ~Useful(d)
        BY <3>3, <4>1 DEF Useful, OpensFile, Shares
      <4>3. ~Done(d)
        <5>1. SUFFICES ASSUME Done(d) PROVE Holds(c)
          BY <1>9, <2>1, <3>3, <4>1
        <5>2. ChunkSeqs(d) # <<>> /\ \A j \in DOMAIN ChunkSeqs(d) : InFile(d, ChunkSeqs(d)[j])
          BY <1>13, <5>1 DEF CopyInv, GoingInv, Delivered
        <5>3. 1 \in DOMAIN ChunkSeqs(d) /\ ChunkSeqs(d)[1] \in 1 .. Size(d)
          BY <1>1, <2>1, <5>2, ChunkSeqsType, ChunksAscend
        <5>4. PICK n \in 1 .. Size(c) : n \in DOMAIN files[Dst(c)] /\ files[Dst(c)][n] = Data(d, n)
          BY <2>1, <2>2, <3>3, <5>2, <5>3 DEF InFile
        <5>5. Data(d, n) = Data(c, n)
          BY <2>1, <3>3 DEF Data
        <5> QED
          BY <5>4, <5>5 DEF Holds
      <4> QED
        BY <4>2, <4>3
    <3> QED
      BY <3>1, <3>2, <3>3
  <2>4. /\ d \in Entries' <=> d \in Entries
        /\ d \in Entries => dmn'.reas[d] = dmn.reas[d]
        /\ ~Payload(1, d)
    BY <1>2, <1>4, <1>13 DEF Payload
  <2> QED
    BY <1>1, <1>11, <1>13, <2>3, <2>4, AsItWas
<1>14. ASSUME NEW t \in Transfers, Going(t), Going(t)', c \in StreamsOf(t)
       PROVE  NoneMissing(c)' /\ Exact(c)' /\ Delivered(c)'
  <2>1. /\ t = c[1] /\ why'[t] = {} /\ Rivals(t) = {} /\ Mode(c) = scn.mode[t] /\ Dst(c) = scn.dst[t]
    BY <1>9, <1>14, StreamOfOne DEF Going
  <2>2. /\ Mode(c)' = Mode(c) /\ Dst(c)' = Dst(c) /\ Size(c)' = Size(c) /\ ChunkSeqs(c)' = ChunkSeqs(c)
    BY <1>1, ChunkSeqsSame DEF Size
  <2>3. /\ \A n : OnWay(c, n)' <=> OnWay(c, n)
        /\ \A n : Queues(c, n)' <=> Queues(c, n)
        /\ \A n : Handed(c, n)' <=> Handed(c, n)
    <3>1. ~Payload(1, c)
      BY <1>2 DEF Payload
    <3> QED
      BY <1>1, <3>1, ReadFacts
  <2>4. NoneMissing(c) /\ Carried(c)
    BY <1>3, <1>14 DEF CopyInv, GoingInv, Carried
  <2>5. NoneMissing(c)'
    BY <1>3, <2>3, <2>4 DEF NoneMissing, Kept
  <2>6. Delivered(c)'
    BY <1>3, <1>11 DEF Delivered
  <2>7. cli'[c].next \in Nat \ {0}
    BY <1>1, TypeFacts DEF ClientType
  <2>8. \A n : OnWay(c, n) \/ Queues(c, n) => n \in Nat /\ n > 0
    <3>1. \A f : f.c = c /\ Genuine(f) => f.seq \in 1 .. Size(c)
      BY <1>1, GenuineFacts
    <3>2. \A n : Queues(c, n) => \E f : f.c = c /\ f.seq = n /\ Genuine(f)
      BY WayFacts DEF Queues
    <3>3. \A n : OnWay(c, n) \/ Queues(c, n) => n \in 1 .. Size(c)
      BY <3>1, <3>2, WayFacts
    <3> QED
      BY <1>6, <3>3
  <2>9. ASSUME Useful(c)' PROVE Exact(c)'
    <3>1. CASE Mode(c) = "par"
      <4>1. Shares(c) \/ OpensFile(c)
        BY <1>5, <2>2, <2>9, <3>1 DEF Useful
      <4>2. CASE OpensFile(c)
        <5>1. files'[Dst(c)] = Blank(Size(c), Zero)
          BY <1>6, <1>7, <3>1, <4>2 DEF g
        <5>2. Len(files'[Dst(c)]) = Size(c)
          BY <1>6, <5>1 DEF Blank
        <5> QED
          BY <2>2, <3>1, <5>2 DEF Exact
      <4>3. CASE ~OpensFile(c)
        <5>1. PICK e \in Entries : Mode(e) = "par" /\ Dst(e) = Dst(c) /\ dmn.reas[e].open
          BY <4>1, <4>3 DEF Shares
        <5>2. e \in Conns /\ e[1] \in Transfers /\ scn.dst[e[1]] = Dst(e)
          BY <1>1, StreamsNamed, ConnFacts DEF Dst
        <5>3. e[1] = t
          <6>1. LiveEntry(e[1])
            BY DEF LiveEntry
          <6>2. e[1] # t => e[1] \in Rivals(t)
            BY <2>1, <5>1, <5>2, <6>1, RivalFacts
          <6> QED
            BY <2>1, <6>2
        <5>4. e \in StreamsOf(t)
          <6>1. e \in Active
            BY <5>2, Heard DEF IInv, OnceInv, RestIdle
          <6> QED
            BY <5>3, <6>1, StreamOfOne
        <5>5. Exact(e) /\ Useful(e)
          BY <1>14, <5>1, <5>4 DEF CopyInv, GoingInv, Useful
        <5>6. Len(files[Dst(c)]) = Size(c)
          BY <2>1, <5>1, <5>3, <5>5 DEF Exact, Size
        <5> QED
          BY <1>7, <2>2, <3>1, <4>3, <5>6 DEF Exact
      <4> QED
        BY <4>2, <4>3
    <3>2. CASE Mode(c) = "rsync"
      <4>1. Held(c)' = <<>>
        BY <1>5 DEF Held
      <4>2. Count(c)' = 0
        BY <2>2, <3>2, <4>1 DEF Count
      <4>3. \A k \in DOMAIN Held(c)' : Held(c)'[k] = Data(c, k)
        BY <4>1
      <4> QED
        BY <2>2, <2>3, <2>7, <2>8, <3>2, <4>2, <4>3 DEF Exact, Data
    <3>3. CASE Mode(c) # "par" /\ Mode(c) # "rsync"
      <4>1. OpensFile(c)
        BY <1>5, <2>2, <2>9, <3>3 DEF Useful, Shares
      <4>2. files'[Dst(c)] = <<>>
        BY <1>6, <1>7, <3>3, <4>1 DEF g
      <4>3. Count(c)' = 0 /\ Len(files'[Dst(c)]) = 0
        BY <2>2, <3>3, <4>2 DEF Count
      <4>4. \A k \in DOMAIN files'[Dst(c)] : files'[Dst(c)][k] = Data(c, k)
        BY <4>2
      <4> QED
        BY <1>5, <2>2, <2>3, <2>7, <2>8, <3>3, <4>3, <4>4 DEF Exact, Data
    <3> QED
      BY <3>1, <3>2, <3>3
  <2> QED
    BY <2>5, <2>6, <2>9 DEF Exact
<1>15. PayloadSelected'
  <2>1. wire' # <<>> => wire'[1].k # "bin"
    <3>1. wire \in Seq(Frames) /\ Paired(wire) /\ wire[1].k # "hdr"
      BY <1>1, <1>2, TypeFacts DEF IInv, PairInv
    <3> QED
      BY <1>1, <3>1, WireTail
  <2> QED
    BY <1>4, <2>1 DEF PayloadSelected
<1>16. /\ Mode(c) = "rsync" => ~dmn'.reas[c].open
       /\ Mode(c) = "scp" => dmn'.reas[c].open = scn.writable
  <2>1. Mode(c) = "rsync" => ~dmn'.reas[c].open
    BY <1>5 DEF Shares, OpensFile
  <2>2. Mode(c) = "scp" => (dmn'.reas[c].open <=> scn.writable)
    BY <1>5 DEF Shares, OpensFile
  <2>3. dmn'.reas[c].open \in BOOLEAN /\ scn.writable \in BOOLEAN
    <3>1. dmn'.reas[c].open \in BOOLEAN
      BY <1>4 DEF Entry
    <3> QED
      BY <1>1, <3>1, TypeFacts DEF ScenarioType
  <2> QED
    BY <2>1, <2>2, <2>3
<1>17. Carried(c)' => Carried(c)
  BY <1>3 DEF Carried
<1>18. \A t \in Transfers : Going(t) /\ Going(t)' =>
         /\ Unrivalled(t)'
         /\ \A d \in StreamsOf(t) : NoneMissing(d)' /\ Exact(d)' /\ Delivered(d)'
  BY <1>12, <1>13, <1>14
<1>19. ~Done(c)'
  BY <1>3, <1>11
<1>20. Entries' \subseteq Entries \cup {c} /\ \A d \in Entries' : d # c => dmn'.reas[d] = dmn.reas[d]
  BY <1>4
<1> QED
  BY <1>1, <1>9, <1>11, <1>15, <1>16, <1>17, <1>18, <1>19, <1>20, DaemonCopies

LEMMA HeaderCopies ==
  ASSUME IInv, CopyInv, DaemonReadsHeader
  PROVE  CopyInv'
<1>1. /\ wire # <<>> /\ wire' = Tail(wire) /\ Head(wire).k = "hdr"
      /\ UNCHANGED <<scn, cli, rel, tgt, reg, files, why>> /\ TypeOK
  BY DEF DaemonReadsHeader, Receive, IInv
<1>2. PICK f \in Frames : f = Head(wire) /\ f = wire[1] /\ f.k = "hdr" /\ 1 \in DOMAIN wire
  BY <1>1, FirstFrame
<1>3. PICK c \in Conns : c = f.c
  BY <1>1, <1>2, FirstFrame
<1>4. dmn.pend = NoConn
  BY <1>1, <1>2, FirstFrame
<1>5. wire' # <<>> /\ Matches(wire'[1], f)
  BY <1>1, <1>2, FirstFrame
<1>6. /\ Entries' = Entries
      /\ \A d \in Entries : d # c => dmn'.reas[d] = dmn.reas[d]
      /\ c \in Entries => /\ dmn'.reas[c].buf = dmn.reas[c].buf /\ dmn'.reas[c].off = dmn.reas[c].off
                          /\ dmn'.reas[c].open = dmn.reas[c].open
      /\ \A d : GoodResult(d)' => GoodResult(d)
      /\ PayloadSelected'
  <2>1. CASE c \in Entries
    <3>1. PICK g \in EntryType : g = dmn.reas[c]
      BY <1>1, <2>1 DEF TypeOK
    <3>2. PICK n \in Nat, b \in BOOLEAN : n = f.seq /\ b = f.fin
      BY DEF Frames
    <3>3. PICK e : e = [g EXCEPT !.seq = n, !.fin = b]
      OBVIOUS
    <3>4. e.buf = g.buf /\ e.off = g.off /\ e.open = g.open /\ e.fin = b
      BY <3>3 DEF EntryType
    <3>5. dmn' = [reas |-> WithEntry(c, e), pend |-> c] /\ back' = back
      BY <1>2, <1>3, <2>1, <3>1, <3>2, <3>3 DEF DaemonReadsHeader
    <3>6. /\ Entries' = Entries \cup {c} /\ dmn'.pend = c
          /\ dmn'.reas[c] = e /\ \A d \in Entries : d # c => dmn'.reas[d] = dmn.reas[d]
      BY <3>5, TableWith
    <3>7. PayloadSelected'
      <4>1. wire'[1].fin = f.fin /\ wire'[1].c = c
        BY <1>3, <1>5 DEF Matches
      <4> QED
        BY <3>2, <3>4, <3>6, <4>1 DEF PayloadSelected
    <3> QED
      BY <2>1, <3>1, <3>4, <3>5, <3>6, <3>7 DEF GoodResult
  <2>2. CASE c \notin Entries
    <3>1. dmn' = dmn /\ Answer(c, FALSE) /\ Entries' = Entries
      BY <1>2, <1>3, <2>2 DEF DaemonReadsHeader, Entries
    <3>2. \A d : GoodResult(d)' => GoodResult(d)
      BY <1>1, <3>1, GoodAnswer
    <3>3. PayloadSelected'
      BY <1>3, <1>4, <1>5, <2>2, <3>1 DEF PayloadSelected, Matches
    <3> QED
      BY <2>2, <3>1, <3>2, <3>3
  <2> QED
    BY <2>1, <2>2
<1>7. \A d : Done(d)' => Done(d)
  BY <1>1, <1>6 DEF Done
<1>8. ASSUME NEW t \in Transfers, Going(t), Going(t)'
      PROVE  /\ Unrivalled(t)'
             /\ \A d \in StreamsOf(t) : NoneMissing(d)' /\ Exact(d)' /\ Delivered(d)'
  <2>1. Unrivalled(t)'
    <3>1. StreamsOf(t)' = StreamsOf(t) /\ \A u \in Transfers : LiveEntry(u)' <=> LiveEntry(u)
      BY <1>1, <1>6 DEF StreamsOf, LiveEntry
    <3>2. Unrivalled(t)
      BY <1>8 DEF CopyInv, GoingInv
    <3> QED
      BY <1>1, <1>6, <1>7, <3>1, <3>2 DEF Unrivalled
  <2>2. ASSUME NEW d \in StreamsOf(t) PROVE NoneMissing(d)' /\ Exact(d)' /\ Delivered(d)'
    <3>1. /\ ~Payload(1, d) /\ (d \in Entries' <=> d \in Entries)
          /\ d \in Entries => /\ dmn'.reas[d].buf = dmn.reas[d].buf
                              /\ dmn'.reas[d].off = dmn.reas[d].off
                              /\ dmn'.reas[d].open = dmn.reas[d].open
          /\ files'[Dst(d)] = files[Dst(d)]
      BY <1>1, <1>2, <1>6 DEF Payload
    <3> QED
      BY <1>1, <1>6, <1>8, <3>1, AsItWas
  <2> QED
    BY <2>1, <2>2
<1>9. Carried(c)' => Carried(c)
  <2>1. Useful(c)' => Useful(c)
    BY <1>1, <1>6, ChunkSeqsSame DEF Useful
  <2> QED
    BY <1>1, <2>1, ReadFacts DEF Carried, Up
<1>10. c \in Entries' => /\ Mode(c) = "rsync" => ~dmn'.reas[c].open
                         /\ Mode(c) = "scp" => dmn'.reas[c].open = scn.writable
  BY <1>6 DEF CopyInv, StreamInv, EntryOpen
<1>11. Done(c)' => ~InitOnWire(c)' /\ c \notin Entries'
  BY <1>1, <1>6, <1>7, ReadFacts DEF CopyInv, StreamInv, DoneOut
<1>12. /\ Entries' \subseteq Entries \cup {c} /\ \A d \in Entries' : d # c => dmn'.reas[d] = dmn.reas[d]
       /\ \A t \in Transfers : why'[t] = {} => why[t] = {}
       /\ PayloadSelected' /\ \A d : d # c => (GoodResult(d)' => GoodResult(d))
  BY <1>1, <1>6
<1> QED
  BY <1>1, <1>8, <1>9, <1>10, <1>11, <1>12, DaemonCopies

\* A payload of a stream the daemon does not know.
LEMMA IgnoredCopies ==
  ASSUME IInv, CopyInv, DaemonReadsPayload, dmn.pend \notin Entries
  PROVE  CopyInv'
<1>1. /\ wire # <<>> /\ wire' = Tail(wire) /\ Head(wire).k = "bin"
      /\ UNCHANGED <<scn, cli, rel, tgt, reg, back, files, why>> /\ TypeOK
  BY DEF DaemonReadsPayload, Receive, IInv
<1>2. Head(wire) = wire[1] /\ wire[1].k = "bin" /\ dmn.pend = NoConn
  BY <1>1, FirstFrame
<1>3. PICK c \in Conns : c = wire[1].c
  BY <1>1, FirstFrame
<1>4. dmn' = dmn /\ Entries' = Entries
  <2>1. dmn' = [dmn EXCEPT !.pend = NoConn]
    BY DEF DaemonReadsPayload
  <2>2. PICK r : dmn = [reas |-> r, pend |-> NoConn]
    BY <1>1, <1>2 DEF TypeOK
  <2> QED
    BY <2>1, <2>2 DEF Entries
<1>5. c \notin Entries /\ ~InitOnWire(c)
  BY <1>1, <1>2, <1>3, ReadFacts DEF CopyInv, FrameInv, PayloadSelected
<1>6. ~Carried(c) /\ ~Carried(c)'
  <2>1. ~Useful(c) /\ ~Useful(c)'
    BY <1>4, <1>5 DEF Useful
  <2> QED
    BY <1>1, <1>5, <2>1, ReadFacts DEF Carried
<1>7. \A d : (GoodResult(d)' <=> GoodResult(d)) /\ (Done(d)' <=> Done(d))
  BY <1>1 DEF GoodResult, Done
<1>8. ASSUME NEW t \in Transfers, Going(t), Going(t)'
      PROVE  /\ Unrivalled(t)'
             /\ \A d \in StreamsOf(t) : NoneMissing(d)' /\ Exact(d)' /\ Delivered(d)'
  <2>1. Unrivalled(t)'
    <3>1. StreamsOf(t)' = StreamsOf(t) /\ \A u \in Transfers : LiveEntry(u)' <=> LiveEntry(u)
      BY <1>1, <1>4 DEF StreamsOf, LiveEntry
    <3>2. Unrivalled(t)
      BY <1>8 DEF CopyInv, GoingInv
    <3> QED
      BY <1>1, <1>4, <1>7, <3>1, <3>2 DEF Unrivalled
  <2>2. ASSUME NEW d \in StreamsOf(t) PROVE NoneMissing(d)' /\ Exact(d)' /\ Delivered(d)'
    <3>1. Payload(1, d) => ~Carried(d)
      BY <1>3, <1>6 DEF Payload
    <3> QED
      BY <1>1, <1>4, <1>7, <1>8, <3>1, AsItWas
  <2> QED
    BY <2>1, <2>2
<1>9. PayloadSelected'
  <2>1. wire' # <<>> => wire'[1].k # "bin"
    <3>1. wire \in Seq(Frames) /\ Paired(wire) /\ wire[1].k # "hdr"
      BY <1>1, <1>2, TypeFacts DEF IInv, PairInv
    <3> QED
      BY <1>1, <3>1, WireTail
  <2> QED
    BY <1>2, <1>4, <2>1 DEF PayloadSelected
<1>10. /\ Entries' \subseteq Entries \cup {c} /\ \A d \in Entries' : d # c => dmn'.reas[d] = dmn.reas[d]
       /\ c \notin Entries' /\ (Done(c)' => ~InitOnWire(c)' /\ c \notin Entries')
       /\ \A t \in Transfers : why'[t] = {} => why[t] = {}
       /\ \A d : d # c => (GoodResult(d)' => GoodResult(d))
  BY <1>1, <1>4, <1>5, <1>7, ReadFacts
<1> QED
  BY <1>1, <1>6, <1>8, <1>9, <1>10, DaemonCopies

(***************************************************************************)
(* The daemon writes a chunk.                                              *)
(***************************************************************************)

\* Within a file, and right after its end.
LEMMA PutCellInside ==
  ASSUME NEW f \in Seq(Cells), NEW n \in 1 .. Len(f), NEW v \in Cells
  PROVE  /\ Len(PutCell(f, n, v)) = Len(f) /\ n \in DOMAIN PutCell(f, n, v) /\ PutCell(f, n, v)[n] = v
         /\ \A i \in DOMAIN f : i \in DOMAIN PutCell(f, n, v) /\ (i # n => PutCell(f, n, v)[i] = f[i])
<1>1. PutCell(f, n, v) = [f EXCEPT ![n] = v]
  BY DEF PutCell
<1> QED
  BY <1>1

LEMMA PutCellNext ==
  ASSUME NEW f \in Seq(Cells), NEW n, n = Len(f) + 1, NEW v \in Cells
  PROVE  PutCell(f, n, v) = Append(f, v)
<1>1. Len(f) \in Nat /\ ~(n <= Len(f)) /\ n - 1 - Len(f) = 0
  OBVIOUS
<1>2. Blank(0, Zero) = <<>>
  BY DEF Blank
<1>3. f \o <<>> = f
  OBVIOUS
<1> QED
  BY <1>1, <1>2, <1>3 DEF PutCell

\* What a payload changes: e and f are the entry and the file after the write.
Wrote(c, e, f) ==
  LET b == dmn.reas[c]
      cell == Data(c, wire[1].seq)
  IN  IF ~b.open THEN e.buf = Append(b.buf, cell) /\ e.off = b.off /\ f = files[Dst(c)]
      ELSE /\ e.buf = b.buf
           /\ IF Mode(c) = "par" THEN e.off = b.off /\ f = PutCell(files[Dst(c)], wire[1].seq, cell)
              ELSE e.off = b.off + 1 /\ f = PutCell(files[Dst(c)], b.off, cell)

LEMMA PayloadFacts ==
  ASSUME IInv, DaemonReadsPayload, NEW c \in Entries, dmn.pend = c
  PROVE  \E e \in EntryType, f \in Seq(Cells), clean \in BOOLEAN :
           /\ e.open = dmn.reas[c].open
           /\ clean => Wrote(c, e, f)
           /\ IF ~dmn.reas[c].fin
              THEN Entries' = Entries /\ dmn'.reas[c] = e /\ files'[Dst(c)] = f /\ UNCHANGED back
              ELSE \E r \in Finished(c, e, f) : /\ Entries' = Entries \ {c}
                                                /\ files'[Dst(c)] = r[2]
                                                /\ r[1] \in BOOLEAN /\ Answer(c, r[1])
           /\ \A x \in Dsts : x # Dst(c) => files'[x] = files[x]
           /\ \A d \in Entries' : d # c => dmn'.reas[d] = dmn.reas[d]
           /\ dmn'.pend = NoConn
           /\ \A t \in Transfers : why'[t] = {} => why[t] = {}
           /\ why'[c[1]] = {} =>
                /\ clean
                /\ ~(dmn.reas[c].fin /\ Mode(c) = "par" /\ ~dmn.reas[c].open)
                /\ ~(dmn.reas[c].fin /\ Mode(c) = "rsync" /\ Len(files[Dst(c)]) > Size(c))
<1>1. /\ wire # <<>> /\ Head(wire).k = "bin" /\ wire' = Tail(wire)
      /\ UNCHANGED <<scn, cli, rel, tgt, reg>> /\ TypeOK
  BY DEF DaemonReadsPayload, Receive, IInv
<1>2. /\ c \in Conns /\ c[1] \in Transfers /\ Dst(c) \in Dsts
      /\ Head(wire) = wire[1] /\ wire[1].c = c /\ wire[1].seq = dmn.reas[c].seq /\ wire[1].seq \in Nat \ {0}
  <2>1. c \in Conns
    BY <1>1 DEF TypeOK
  <2>2. dmn.pend # NoConn
    BY <2>1, TransferAssumption
  <2>3. Head(wire) = wire[1] /\ wire[1].c = c /\ wire[1].seq = dmn.reas[c].seq /\ wire[1].seq \in Nat \ {0}
    BY <1>1, <2>2, FirstFrame
  <2> QED
    BY <1>1, <2>1, <2>3, ConnFacts
<1>3. PICK b \in EntryType : b = dmn.reas[c]
  BY <1>1 DEF TypeOK
<1> DEFINE cell == Data(c, wire[1].seq)
           W(x) == IF x THEN Unwritten(c, b, cell) ELSE Written(c, b, cell)
           Full(x) == IF x THEN {"full"} ELSE {}
           Unopened == IF b.fin /\ Mode(c) = "par" /\ ~b.open THEN {"unopened"} ELSE {}
           Longer == IF b.fin /\ Mode(c) = "rsync" /\ Len(files[Dst(c)]) > Size(c) THEN {"tail"} ELSE {}
           Does(x) == IF Completes(b)
                      THEN \E r \in Finished(c, x[1], x[2]) :
                             /\ dmn' = [reas |-> Without(c), pend |-> NoConn]
                             /\ files' = [files EXCEPT ![Dst(c)] = r[2]]
                             /\ Answer(c, r[1])
                      ELSE /\ dmn' = [reas |-> WithEntry(c, x[1]), pend |-> NoConn]
                           /\ files' = [files EXCEPT ![Dst(c)] = x[2]]
                           /\ UNCHANGED back
<1>4. \E fails \in {FALSE, scn.full /\ b.open} :
        Does(W(fails)) /\ why' = [why EXCEPT ![c[1]] = @ \cup Full(fails) \cup Unopened \cup Longer]
  <2>1. \E fails \in {FALSE, scn.full /\ dmn.reas[c].open} :
          LET x == IF fails THEN Unwritten(c, dmn.reas[c], Data(Head(wire).c, Head(wire).seq))
                   ELSE Written(c, dmn.reas[c], Data(Head(wire).c, Head(wire).seq))
          IN /\ IF Completes(dmn.reas[c])
                THEN \E r \in Finished(c, x[1], x[2]) :
                       /\ dmn' = [reas |-> Without(c), pend |-> NoConn]
                       /\ files' = [files EXCEPT ![Dst(c)] = r[2]]
                       /\ Answer(c, r[1])
                ELSE /\ dmn' = [reas |-> WithEntry(c, x[1]), pend |-> NoConn]
                     /\ files' = [files EXCEPT ![Dst(c)] = x[2]]
                     /\ UNCHANGED back
             /\ why' = [why EXCEPT ![c[1]] = @ \cup
                  (IF fails THEN {"full"} ELSE {}) \cup
                  (IF dmn.reas[c].fin /\ Mode(c) = "par" /\ ~dmn.reas[c].open THEN {"unopened"} ELSE {}) \cup
                  (IF dmn.reas[c].fin /\ Mode(c) = "rsync" /\ Len(files[Dst(c)]) > Size(c)
                   THEN {"tail"} ELSE {})]
    BY Zenon DEF DaemonReadsPayload
  <2>2. Head(wire).c = c /\ Head(wire).seq = wire[1].seq
    BY <1>2
  <2> QED
    BY <1>3, <2>1, <2>2, Zenon
<1>5. PICK fails : Does(W(fails)) /\ why' = [why EXCEPT ![c[1]] = @ \cup Full(fails) \cup Unopened \cup Longer]
  BY <1>4
<1>6. PICK w : w = W(fails)
  OBVIOUS
<1>7. /\ w[1] \in EntryType /\ w[2] \in Seq(Cells) /\ OwnChunks(c, w[1].buf) /\ FileBelongs(Dst(c), w[2])
  <2>1. CellInv /\ (w = Written(c, b, cell) \/ w = Unwritten(c, b, cell))
    BY <1>6 DEF IInv
  <2> QED
    BY <1>1, <1>2, <1>3, <2>1, WriteFacts
<1>8. /\ \A t \in Transfers : why'[t] = {} => why[t] = {}
      /\ why'[c[1]] = {} => /\ ~fails
                            /\ ~(b.fin /\ Mode(c) = "par" /\ ~b.open)
                            /\ ~(b.fin /\ Mode(c) = "rsync" /\ Len(files[Dst(c)]) > Size(c))
  <2>1. why \in [Transfers -> SUBSET Causes]
    BY <1>1 DEF TypeOK
  <2>2. PICK x, y, z : x = Full(fails) /\ y = Unopened /\ z = Longer
    OBVIOUS
  <2>3. why' = [why EXCEPT ![c[1]] = @ \cup x \cup y \cup z]
    BY <1>5, <2>2
  <2>4. \A t \in Transfers : why'[t] = {} => why[t] = {}
    BY <1>2, <2>1, <2>3
  <2>5. why'[c[1]] = {} => x = {} /\ y = {} /\ z = {}
    BY <1>2, <2>1, <2>3
  <2> QED
    BY <2>2, <2>4, <2>5
<1>9. w[1].open = b.open /\ (~fails => Wrote(c, w[1], w[2]))
  <2> DEFINE p == [b EXCEPT !.buf = Append(@, cell)]
             q == [b EXCEPT !.off = @ + 1]
  <2>1. /\ p.open = b.open /\ p.off = b.off /\ p.buf = Append(b.buf, cell)
        /\ q.open = b.open /\ q.off = b.off + 1 /\ q.buf = b.buf
    BY DEF EntryType
  <2>2. CASE fails
    <3>1. w = <<p, files[Dst(c)]>>
      BY <1>6, <2>2 DEF Unwritten
    <3> QED
      BY <2>1, <2>2, <3>1
  <2>3. CASE ~fails
    <3>1. w = Written(c, b, cell)
      BY <1>6, <2>3
    <3>2. CASE ~b.open
      <4>1. w = <<p, files[Dst(c)]>>
        BY <3>1, <3>2 DEF Written
      <4>2. w[1] = p /\ w[2] = files[Dst(c)]
        BY <4>1
      <4> QED
        BY <1>3, <2>1, <3>2, <4>2 DEF Wrote
    <3>3. CASE b.open /\ Mode(c) = "par"
      <4>1. w = <<b, PutCell(files[Dst(c)], wire[1].seq, cell)>>
        BY <1>2, <1>3, <3>1, <3>3 DEF Written, Offset
      <4>2. w[1] = b /\ w[2] = PutCell(files[Dst(c)], wire[1].seq, cell)
        BY <4>1
      <4> QED
        BY <1>3, <3>3, <4>2 DEF Wrote
    <3>4. CASE b.open /\ Mode(c) # "par"
      <4>1. w = <<q, PutCell(files[Dst(c)], b.off, cell)>>
        BY <3>1, <3>4 DEF Written
      <4>2. w[1] = q /\ w[2] = PutCell(files[Dst(c)], b.off, cell)
        BY <4>1
      <4> QED
        BY <1>3, <2>1, <3>4, <4>2 DEF Wrote
    <3> QED
      BY <3>2, <3>3, <3>4
  <2> QED
    BY <2>2, <2>3
<1>10. files \in [Dsts -> Seq(Cells)]
  BY <1>1 DEF TypeOK
<1>11. PICK clean \in BOOLEAN : clean <=> ~fails
  OBVIOUS
<1> HIDE DEF W, Full, Unopened, Longer
<1>12. /\ IF ~b.fin
          THEN Entries' = Entries /\ dmn'.reas[c] = w[1] /\ files'[Dst(c)] = w[2] /\ UNCHANGED back
          ELSE \E r \in Finished(c, w[1], w[2]) : /\ Entries' = Entries \ {c}
                                                  /\ files'[Dst(c)] = r[2]
                                                  /\ r[1] \in BOOLEAN /\ Answer(c, r[1])
       /\ \A x \in Dsts : x # Dst(c) => files'[x] = files[x]
       /\ \A d \in Entries' : d # c => dmn'.reas[d] = dmn.reas[d]
       /\ dmn'.pend = NoConn
  <2>1. CASE b.fin
    <3>1. PICK r \in Finished(c, w[1], w[2]) :
            /\ dmn' = [reas |-> Without(c), pend |-> NoConn]
            /\ files' = [files EXCEPT ![Dst(c)] = r[2]]
            /\ Answer(c, r[1])
      BY <1>5, <1>6, <2>1 DEF Completes
    <3>2. r[1] \in BOOLEAN
      BY <1>1, <1>2, <1>7, FinishFacts
    <3>3. /\ Entries' = Entries \ {c} /\ dmn'.pend = NoConn
          /\ \A d \in Entries : d # c => dmn'.reas[d] = dmn.reas[d]
      <4>1. dmn' = [reas |-> Without(c), pend |-> NoConn]
        BY <3>1
      <4>2. Entries' = Entries \ {c}
        BY <4>1, TableWithout
      <4>3. dmn'.pend = NoConn
        BY <4>1, TableWithout
      <4>4. \A d \in Entries : d # c => dmn'.reas[d] = dmn.reas[d]
        BY <4>1, TableWithout
      <4> QED
        BY <4>2, <4>3, <4>4
    <3>4. files'[Dst(c)] = r[2] /\ \A x \in Dsts : x # Dst(c) => files'[x] = files[x]
      BY <1>2, <1>10, <3>1
    <3> QED
      BY <2>1, <3>1, <3>2, <3>3, <3>4
  <2>2. CASE ~b.fin
    <3>1. /\ dmn' = [reas |-> WithEntry(c, w[1]), pend |-> NoConn]
          /\ files' = [files EXCEPT ![Dst(c)] = w[2]]
          /\ UNCHANGED back
      BY <1>5, <1>6, <2>2 DEF Completes
    <3>2. /\ Entries' = Entries \cup {c} /\ dmn'.pend = NoConn
          /\ dmn'.reas[c] = w[1] /\ \A d \in Entries : d # c => dmn'.reas[d] = dmn.reas[d]
      BY <3>1, TableWith
    <3>3. files'[Dst(c)] = w[2] /\ \A x \in Dsts : x # Dst(c) => files'[x] = files[x]
      BY <1>2, <1>10, <3>1
    <3> QED
      BY <2>2, <3>1, <3>2, <3>3
  <2> QED
    BY <2>1, <2>2
<1>13. /\ w[1] \in EntryType /\ w[2] \in Seq(Cells) /\ w[1].open = b.open /\ (clean => Wrote(c, w[1], w[2]))
       /\ why'[c[1]] = {} => /\ clean
                             /\ ~(b.fin /\ Mode(c) = "par" /\ ~b.open)
                             /\ ~(b.fin /\ Mode(c) = "rsync" /\ Len(files[Dst(c)]) > Size(c))
  BY <1>7, <1>8, <1>9, <1>11
<1>14. \A t \in Transfers : why'[t] = {} => why[t] = {}
  BY <1>8
<1> QED
  BY <1>3, <1>12, <1>13, <1>14

\* A payload the daemon has use for is its stream's next chunk; after the
\* final one nothing of the stream is missing.
LEMMA NextInOrder ==
  ASSUME IInv, CopyInv, wire # <<>>, wire' = Tail(wire), UNCHANGED <<scn, cli, tgt>>,
         NEW t \in Transfers, Going(t), NEW c \in StreamsOf(t), Useful(c), Payload(1, c)
  PROVE  /\ wire[1].seq \in 1 .. Size(c)
         /\ Mode(c) # "par" =>
              /\ Count(c) \in Nat /\ wire[1].seq = Count(c) + 1 /\ wire[1].seq < cli[c].next
              /\ \A n : OnWay(c, n)' \/ Queues(c, n)' => n \in Nat /\ n > wire[1].seq
         /\ wire[1].fin =>
              /\ ChunkSeqs(c) # <<>> /\ (Mode(c) # "par" => wire[1].seq = Size(c))
              /\ \A j \in DOMAIN ChunkSeqs(c) : Kept(c, ChunkSeqs(c)[j]) \/ ChunkSeqs(c)[j] = wire[1].seq
<1>1. TypeOK /\ c \in Conns /\ c \in Entries /\ Size(c) \in Nat /\ Dst(c) \in Dsts
  BY StreamOfOne, ConnFacts DEF IInv, Useful
<1>2. PICK f : f = wire[1] /\ f.c = c /\ f.k = "bin" /\ Genuine(f)
  BY DEF CopyInv, FrameInv, WireGenuine, Payload
<1>3. /\ Handed(c, f.seq) /\ f.seq \in 1 .. Size(c) /\ ChunkSeqs(c) # <<>>
      /\ Mode(c) # "par" => f.seq < cli[c].next /\ (f.fin <=> f.seq = Size(c))
      /\ f.fin => \A j \in DOMAIN ChunkSeqs(c) : ChunkSeqs(c)[j] <= f.seq
  BY <1>1, <1>2, GenuineFacts
<1>4. Carried(c)
  BY DEF Carried, IInv, LinkInv
<1>5. InOrder(c) /\ NoneMissing(c) /\ Exact(c)
  BY DEF CopyInv, GoingInv
<1>6. /\ \A n : OnWay(c, n) => OnWay(c, n)' \/ n = f.seq
      /\ \A n : OnWay(c, n)' => OnWay(c, n)
      /\ \A n : Queues(c, n)' <=> Queues(c, n)
      /\ \A n \in Nat : OnWay(c, n)' \/ Queues(c, n) => n > f.seq
  BY <1>2, <1>5, ReadFacts
<1>7. \A n : OnWay(c, n) \/ Queues(c, n) => n \in Nat
  <2>1. \A g : g.c = c /\ Genuine(g) => g.seq \in 1 .. Size(c)
    BY <1>1, GenuineFacts
  <2>2. \A n : Queues(c, n) => \E g : g.c = c /\ g.seq = n /\ Genuine(g)
    BY <1>1, WayFacts DEF Queues
  <2>3. \A n : OnWay(c, n) \/ Queues(c, n) => n \in 1 .. Size(c)
    BY <1>1, <2>1, <2>2, WayFacts
  <2> QED
    BY <1>1, <2>3
<1>8. ASSUME Mode(c) # "par"
      PROVE  Count(c) \in Nat /\ f.seq = Count(c) + 1
  <2>1. /\ Mode(c) = "rsync" => Held(c) \in Seq(Cells) /\ Count(c) = Len(Held(c))
        /\ Mode(c) # "rsync" => files[Dst(c)] \in Seq(Cells) /\ Count(c) = Len(files[Dst(c)])
    BY <1>1 DEF TypeOK, EntryType, Held, Count
  <2>2. Count(c) \in Nat
    BY <2>1
  <2>3. f.seq > Count(c)
    <3>1. OnWay(c, f.seq)
      BY <1>2 DEF OnWay, Payload
    <3> QED
      BY <1>3, <1>5, <1>8, <3>1 DEF Exact
  <2>4. ASSUME f.seq # Count(c) + 1 PROVE FALSE
    <3>1. PICK m \in Nat : m = Count(c) + 1 /\ m < f.seq /\ m >= 1
      BY <1>1, <1>3, <2>2, <2>3, <2>4
    <3>2. m \in 1 .. Size(c) /\ m < cli[c].next
      <4>1. cli[c].next \in Nat
        BY <1>1, TypeFacts DEF ClientType
      <4> QED
        BY <1>1, <1>3, <1>8, <3>1, <4>1
    <3>3. Handed(c, m)
      BY <1>1, <1>8, <3>2, ChunksAscend DEF Handed
    <3>4. ~Kept(c, m)
      BY <1>8, <2>1, <2>2, <3>1 DEF Kept, InFile
    <3>5. OnWay(c, m) \/ Queues(c, m)
      BY <1>4, <1>5, <3>3, <3>4 DEF NoneMissing
    <3>6. ~(m > f.seq) /\ m # f.seq
      BY <1>1, <1>3, <3>1
    <3> QED
      BY <1>6, <3>5, <3>6
  <2> QED
    BY <2>2, <2>4
<1>9. ASSUME f.fin, NEW j \in DOMAIN ChunkSeqs(c)
      PROVE  Kept(c, ChunkSeqs(c)[j]) \/ ChunkSeqs(c)[j] = f.seq
  <2>1. AllSent(c)
    BY <1>1, <1>2, <1>9, FirstFrame DEF IInv, SentInv, FinalOnWire, HasFinal
  <2>2. PICK n \in Nat : n = ChunkSeqs(c)[j] /\ n <= f.seq
    BY <1>1, <1>3, <1>9, ChunksAscend
  <2>3. Handed(c, n)
    <3>1. j < cli[c].next
      <4>1. cli[c].next \in Nat /\ Len(ChunkSeqs(c)) \in Nat /\ j \in 1 .. Len(ChunkSeqs(c))
        BY <1>1, ChunksAscend, TypeFacts DEF ClientType
      <4> QED
        BY <2>1, <4>1 DEF AllSent
    <3> QED
      BY <2>2, <3>1 DEF Handed
  <2>4. CASE OnWay(c, n) \/ Queues(c, n)
    <3>1. n = f.seq \/ n > f.seq
      BY <1>6, <2>4
    <3> QED
      BY <1>1, <1>3, <2>2, <3>1
  <2>5. CASE Kept(c, n)
    BY <2>2, <2>5
  <2> QED
    BY <1>4, <1>5, <2>3, <2>4, <2>5 DEF NoneMissing
<1>10. \A n : OnWay(c, n)' \/ Queues(c, n)' => n \in Nat /\ n > f.seq
  BY <1>6, <1>7
<1>11. f.fin => (Mode(c) # "par" => f.seq = Size(c))
  BY <1>3, Zenon
<1> QED
  BY <1>2, <1>3, <1>8, <1>9, <1>10, <1>11

\* A chunk the daemon writes goes to its place and disturbs no other.
LEMMA WriteFits ==
  ASSUME IInv, CopyInv, wire # <<>>, wire' = Tail(wire), UNCHANGED <<scn, cli, tgt>>,
         NEW t \in Transfers, Going(t), NEW c \in StreamsOf(t), Useful(c), Payload(1, c),
         NEW e \in EntryType, NEW f \in Seq(Cells), Wrote(c, e, f)
  PROVE  /\ Mode(c) = "par" =>
              /\ Len(f) = Size(c) /\ e.buf = Held(c)
              /\ \A n : InFile(c, n) \/ n = wire[1].seq => n \in DOMAIN f /\ f[n] = Data(c, n)
         /\ Mode(c) = "scp" =>
              /\ Len(f) = wire[1].seq /\ e.off = Len(f) + 1 /\ \A k \in DOMAIN f : f[k] = Data(c, k)
              /\ \A n : InFile(c, n) \/ n = wire[1].seq => n \in DOMAIN f
         /\ Mode(c) = "rsync" =>
              /\ f = files[Dst(c)] /\ Len(e.buf) = wire[1].seq /\ \A k \in DOMAIN e.buf : e.buf[k] = Data(c, k)
              /\ \A n : n \in DOMAIN Held(c) \/ n = wire[1].seq => n \in DOMAIN e.buf
<1>1. /\ TypeOK /\ c \in Conns /\ c \in Entries /\ Size(c) \in Nat /\ Dst(c) \in Dsts
      /\ c[1] \in Transfers /\ Mode(c) \in {"par", "scp", "rsync"} /\ Exact(c)
  BY StreamOfOne, ConnFacts DEF IInv, Useful, CopyInv, GoingInv
<1>2. PICK n : n = wire[1].seq
  OBVIOUS
<1>3. n \in 1 .. Size(c) /\ (Mode(c) # "par" => Count(c) \in Nat /\ n = Count(c) + 1)
  BY <1>2, NextInOrder
<1>4. PICK v \in Cells : v = Data(c, n)
  <2>1. n \in Nat \ {0}
    BY <1>1, <1>3
  <2> QED
    BY <1>1, <2>1 DEF Data, Cells
<1>5. PICK g \in Seq(Cells) : g = files[Dst(c)]
  BY <1>1 DEF TypeOK
<1>6. PICK s \in Seq(Cells) : s = Held(c)
  BY <1>1 DEF TypeOK, EntryType, Held
<1>7. CASE Mode(c) = "par"
  <2>1. dmn.reas[c].open /\ Len(g) = Size(c)
    BY <1>1, <1>5, <1>7 DEF Useful, Exact
  <2>2. f = PutCell(g, n, v) /\ e.buf = s
    BY <1>2, <1>4, <1>5, <1>6, <1>7, <2>1 DEF Wrote, Held
  <2>3. /\ Len(f) = Len(g) /\ n \in DOMAIN f /\ f[n] = v
        /\ \A i \in DOMAIN g : i \in DOMAIN f /\ (i # n => f[i] = g[i])
    BY <1>3, <2>1, <2>2, PutCellInside
  <2>4. \A i : InFile(c, i) \/ i = n => i \in DOMAIN f /\ f[i] = Data(c, i)
    BY <1>4, <1>5, <2>3 DEF InFile
  <2> QED
    BY <1>2, <1>6, <1>7, <2>1, <2>2, <2>3, <2>4
<1>8. CASE Mode(c) = "scp"
  <2>1. /\ dmn.reas[c].open /\ Count(c) = Len(g) /\ dmn.reas[c].off = Len(g) + 1
        /\ \A k \in DOMAIN g : g[k] = Data(c, k)
    BY <1>1, <1>5, <1>8 DEF Useful, Exact, Count
  <2>2. e.off = n + 1 /\ f = PutCell(g, n, v)
    BY <1>2, <1>3, <1>4, <1>5, <1>8, <2>1 DEF Wrote
  <2>3. n = Len(g) + 1 /\ f = Append(g, v)
    BY <1>3, <1>8, <2>1, <2>2, PutCellNext
  <2>4. /\ Len(f) = n /\ f[n] = v /\ DOMAIN f = 1 .. n /\ DOMAIN g \subseteq DOMAIN f
        /\ \A i \in DOMAIN f : i # n => i \in DOMAIN g /\ f[i] = g[i]
    BY <2>3
  <2>5. \A k \in DOMAIN f : f[k] = Data(c, k)
    BY <1>4, <2>1, <2>4
  <2>6. \A i : InFile(c, i) \/ i = n => i \in DOMAIN f
    BY <1>3, <1>5, <2>4 DEF InFile
  <2> QED
    BY <1>2, <1>8, <2>2, <2>4, <2>5, <2>6
<1>9. CASE Mode(c) = "rsync"
  <2>1. ~dmn.reas[c].open /\ Count(c) = Len(s) /\ \A k \in DOMAIN s : s[k] = Data(c, k)
    BY <1>1, <1>6, <1>9 DEF CopyInv, StreamInv, EntryOpen, Exact, Count
  <2>2. f = g /\ e.buf = Append(s, v)
    BY <1>2, <1>4, <1>5, <1>6, <2>1 DEF Wrote, Held
  <2>3. n = Len(s) + 1
    BY <1>3, <1>9, <2>1
  <2>4. PICK b : b = e.buf /\ b = Append(s, v)
    BY <2>2
  <2>5. /\ Len(b) = n /\ b[n] = v /\ DOMAIN b = 1 .. n /\ DOMAIN s \subseteq DOMAIN b
        /\ \A i \in DOMAIN b : i # n => i \in DOMAIN s /\ b[i] = s[i]
    BY <2>3, <2>4
  <2>6. \A k \in DOMAIN b : b[k] = Data(c, k)
    BY <1>4, <2>1, <2>5
  <2>7. \A i : i \in DOMAIN s \/ i = n => i \in DOMAIN b
    BY <1>3, <2>5
  <2> QED
    BY <1>2, <1>5, <1>6, <1>9, <2>2, <2>4, <2>5, <2>6, <2>7
<1> QED
  BY <1>1, <1>7, <1>8, <1>9

LEMMA PayloadCopies ==
  ASSUME IInv, CopyInv, DaemonReadsPayload, NEW c \in Entries, dmn.pend = c
  PROVE  CopyInv'
<1>1. /\ wire # <<>> /\ wire' = Tail(wire) /\ Head(wire).k = "bin"
      /\ UNCHANGED <<scn, cli, rel, tgt, reg>> /\ TypeOK
  BY DEF DaemonReadsPayload, Receive, IInv
<1>2. /\ c \in Conns /\ c # NoConn /\ c[1] \in Transfers /\ Dst(c) \in Dsts /\ Dst(c) = scn.dst[c[1]]
      /\ c \in StreamsOf(c[1]) /\ LiveEntry(c[1]) /\ cli[c].st # "idle"
  <2>1. c \in Conns /\ cli[c].st # "idle"
    BY <1>1, StreamsNamed, Heard
  <2>2. c \in Active
    BY <2>1 DEF IInv, OnceInv, RestIdle
  <2> QED
    BY <1>1, <2>1, <2>2, StreamOfOne, ConnFacts, TransferAssumption DEF LiveEntry, Dst
<1>3. /\ Head(wire) = wire[1] /\ wire[1].c = c /\ wire[1].k = "bin" /\ Payload(1, c)
      /\ dmn.reas[c].fin = wire[1].fin /\ ~InitOnWire(c) /\ ~InitOnWire(c)' /\ ~Done(c)
  <2>1. Head(wire) = wire[1] /\ wire[1].c = c /\ wire[1].k = "bin" /\ Payload(1, c)
    BY <1>1, <1>2, FirstFrame DEF Payload
  <2>2. dmn.reas[c].fin = wire[1].fin
    BY <1>1, <1>2 DEF CopyInv, FrameInv, PayloadSelected
  <2>3. ~InitOnWire(c) /\ ~InitOnWire(c)'
    BY <1>1, <2>1, ReadFacts
  <2>4. ~Done(c)
    BY <1>2 DEF CopyInv, StreamInv, DoneOut
  <2> QED
    BY <2>1, <2>2, <2>3, <2>4
<1>4. PICK e \in EntryType, f \in Seq(Cells), clean \in BOOLEAN :
           /\ e.open = dmn.reas[c].open
           /\ clean => Wrote(c, e, f)
           /\ IF ~dmn.reas[c].fin
              THEN Entries' = Entries /\ dmn'.reas[c] = e /\ files'[Dst(c)] = f /\ UNCHANGED back
              ELSE \E r \in Finished(c, e, f) : /\ Entries' = Entries \ {c}
                                                /\ files'[Dst(c)] = r[2]
                                                /\ r[1] \in BOOLEAN /\ Answer(c, r[1])
           /\ \A x \in Dsts : x # Dst(c) => files'[x] = files[x]
           /\ \A d \in Entries' : d # c => dmn'.reas[d] = dmn.reas[d]
           /\ dmn'.pend = NoConn
           /\ \A t \in Transfers : why'[t] = {} => why[t] = {}
           /\ why'[c[1]] = {} =>
                /\ clean
                /\ ~(dmn.reas[c].fin /\ Mode(c) = "par" /\ ~dmn.reas[c].open)
                /\ ~(dmn.reas[c].fin /\ Mode(c) = "rsync" /\ Len(files[Dst(c)]) > Size(c))
  BY PayloadFacts
<1> DEFINE fin == dmn.reas[c].fin
           open == dmn.reas[c].open
<1>5. ~fin => Entries' = Entries /\ dmn'.reas[c] = e /\ files'[Dst(c)] = f /\ UNCHANGED back
  BY <1>4
<1>6. fin => \E r \in Finished(c, e, f) : /\ Entries' = Entries \ {c}
                                          /\ files'[Dst(c)] = r[2]
                                          /\ r[1] \in BOOLEAN /\ Answer(c, r[1])
  BY <1>4
<1>7. Entries' \subseteq Entries /\ \A d \in Entries : d # c => d \in Entries'
  BY <1>5, <1>6
<1>8. \A d : GoodResult(d)' => GoodResult(d) \/ (d = c /\ fin)
  <2>1. CASE fin
    BY <1>1, <1>2, <1>6, <2>1, GoodAnswer
  <2>2. CASE ~fin
    BY <1>5, <2>2 DEF GoodResult
  <2> QED
    BY <2>1, <2>2
<1>9. \A d : Done(d)' => Done(d) \/ (d = c /\ fin)
  BY <1>1, <1>8 DEF Done
<1>10. \A u \in Transfers : LiveEntry(u)' => LiveEntry(u)
  BY <1>7 DEF LiveEntry
<1>11. c \in Entries' => ~fin /\ dmn'.reas[c] = e /\ dmn'.reas[c].open = open
  BY <1>4, <1>5, <1>6
<1>12. /\ Mode(c)' = Mode(c) /\ Dst(c)' = Dst(c) /\ Size(c)' = Size(c) /\ ChunkSeqs(c)' = ChunkSeqs(c)
  BY <1>1, ChunkSeqsSame DEF Size
<1>13. Useful(c)' => Useful(c) /\ c \in Entries'
  BY <1>7, <1>11, <1>12 DEF Useful
<1>14. PayloadSelected'
  <2>1. wire' # <<>> => wire'[1].k # "bin"
    <3>1. wire \in Seq(Frames) /\ Paired(wire) /\ wire[1].k # "hdr"
      BY <1>1, <1>3, TypeFacts DEF IInv, PairInv
    <3> QED
      BY <1>1, <3>1, WireTail
  <2> QED
    BY <1>4, <2>1 DEF PayloadSelected
<1>15. ASSUME NEW t \in Transfers, Going(t), Going(t)'
       PROVE  Unrivalled(t)'
  <2>1. StreamsOf(t)' = StreamsOf(t)
    BY <1>1 DEF StreamsOf
  <2>2. \A d \in StreamsOf(t) : d \in Entries' \/ Done(d)' => d \in Entries \/ Done(d)
    BY <1>7, <1>9
  <2>3. Unrivalled(t)
    BY <1>15 DEF CopyInv, GoingInv
  <2> QED
    BY <1>1, <1>10, <2>1, <2>2, <2>3 DEF Unrivalled
<1>16. ASSUME NEW t \in Transfers, Going(t), Going(t)', t = c[1]
       PROVE  /\ clean /\ Wrote(c, e, f) /\ Exact(c) /\ NoneMissing(c) /\ c \in StreamsOf(t)
              /\ ~(fin /\ Mode(c) = "par" /\ ~open)
              /\ ~(fin /\ Mode(c) = "rsync" /\ Len(files[Dst(c)]) > Size(c))
              /\ Mode(c) \in {"par", "scp", "rsync"}
  <2>1. why'[t] = {}
    BY <1>16 DEF Going
  <2>2. Mode(c) \in {"par", "scp", "rsync"}
    BY <1>1, <1>2, ConnFacts, StreamOfOne
  <2>3. Exact(c) /\ NoneMissing(c)
    BY <1>2, <1>16 DEF CopyInv, GoingInv
  <2> QED
    BY <1>2, <1>4, <1>16, <2>1, <2>2, <2>3
<1>17. ASSUME NEW t \in Transfers, Going(t), Going(t)', NEW d \in StreamsOf(t), d # c
       PROVE  NoneMissing(d)' /\ Exact(d)' /\ Delivered(d)'
  <2>1. d \in Conns /\ d[1] = t /\ Dst(d) = scn.dst[t] /\ Dst(d) \in Dsts
    BY <1>1, StreamOfOne, ConnFacts
  <2>2. /\ d \in Entries' <=> d \in Entries
        /\ d \in Entries => dmn'.reas[d] = dmn.reas[d]
        /\ ~Payload(1, d) /\ (GoodResult(d)' => GoodResult(d))
    BY <1>3, <1>4, <1>7, <1>8, <1>17 DEF Payload
  <2>3. \/ files'[Dst(d)] = files[Dst(d)]
        \/ ~Useful(d) /\ ~Done(d)
        \/ /\ Mode(d) = "par" /\ Len(files'[Dst(d)]) = Len(files[Dst(d)])
           /\ \A n : InFile(d, n) => InFile(d, n)'
    <3>1. CASE Dst(d) # Dst(c)
      BY <1>4, <2>1, <3>1
    <3>2. CASE Dst(d) = Dst(c) /\ t # c[1]
      <4>1. ~(d \in Entries \/ Done(d))
        BY <1>2, <1>17, <2>1, <3>2 DEF CopyInv, GoingInv, Unrivalled
      <4> QED
        BY <4>1 DEF Useful
    <3>3. CASE t = c[1]
      <4>1. Mode(d) = "par" /\ Mode(c) = "par" /\ Dst(d) = Dst(c) /\ Dst(d)' = Dst(d)
        <5>1. Mode(d) = scn.mode[t] /\ Mode(c) = scn.mode[t]
          BY <1>2, <1>17, <3>3, StreamOfOne
        <5>2. Mode(d) # "par" => d = <<t, 1>> /\ c = <<t, 1>>
          BY <1>2, <1>17, <3>3, <5>1, StreamOfOne
        <5> QED
          BY <1>1, <1>2, <1>17, <2>1, <3>3, <5>1, <5>2, ChunkSeqsSame
      <4>2. files'[Dst(c)] = f
        <5>1. CASE ~fin
          BY <1>5, <5>1
        <5>2. CASE fin
          <6>1. PICK r \in Finished(c, e, f) : files'[Dst(c)] = r[2]
            BY <1>6, <5>2
          <6>2. r = <<TRUE, f>>
            BY <4>1, <6>1 DEF Finished
          <6> QED
            BY <6>1, <6>2
        <5> QED
          BY <5>1, <5>2
      <4>3. CASE ~open
        <5>1. f = files[Dst(c)]
          BY <1>16, <1>17, <3>3, <4>3 DEF Wrote
        <5> QED
          BY <4>1, <4>2, <5>1
      <4>4. CASE open
        <5>1. Useful(c)
          BY <4>4 DEF Useful
        <5>2. /\ Len(f) = Size(c)
              /\ \A n : InFile(c, n) \/ n = wire[1].seq => n \in DOMAIN f /\ f[n] = Data(c, n)
          BY <1>1, <1>3, <1>16, <1>17, <3>3, <4>1, <5>1, WriteFits
        <5>3. Len(files[Dst(c)]) = Size(c)
          BY <1>16, <1>17, <3>3, <4>1, <5>1 DEF Exact
        <5>4. \A n : Data(d, n) = Data(c, n) /\ Data(d, n)' = Data(d, n)
          BY <2>1, <3>3 DEF Data
        <5>5. \A n : InFile(d, n) => InFile(c, n)
          BY <4>1, <5>4 DEF InFile
        <5>6. \A n : InFile(d, n) => InFile(d, n)'
          BY <4>1, <4>2, <5>2, <5>4, <5>5 DEF InFile
        <5> QED
          BY <4>1, <4>2, <5>2, <5>3, <5>6
      <4> QED
        BY <4>3, <4>4
    <3> QED
      BY <3>1, <3>2, <3>3
  <2> QED
    BY <1>1, <1>17, <2>2, <2>3, AsItWas
<1>18. ASSUME NEW t \in Transfers, Going(t), Going(t)', t = c[1], ~fin
       PROVE  NoneMissing(c)' /\ Exact(c)' /\ Delivered(c)'
  <2>1. /\ Wrote(c, e, f) /\ Exact(c) /\ NoneMissing(c) /\ c \in StreamsOf(t)
        /\ Mode(c) \in {"par", "scp", "rsync"}
    BY <1>16, <1>18
  <2>2. c \in Entries' /\ dmn'.reas[c] = e /\ files'[Dst(c)] = f /\ (Useful(c)' <=> Useful(c))
    <3>1. c \in Entries' /\ dmn'.reas[c] = e /\ files'[Dst(c)] = f /\ dmn'.reas[c].open = open
      BY <1>4, <1>5, <1>18
    <3> QED
      BY <1>12, <3>1 DEF Useful
  <2>3. Delivered(c)'
    BY <1>3, <1>9, <1>18 DEF Delivered
  <2>4. CASE ~Useful(c)
    <3>1. ~Carried(c)' /\ ~Useful(c)'
      BY <1>3, <2>2, <2>4 DEF Carried
    <3> QED
      BY <2>3, <3>1 DEF NoneMissing, Exact
  <2>5. CASE Useful(c)
    <3>1. /\ wire[1].seq \in 1 .. Size(c)
          /\ Mode(c) # "par" =>
               /\ wire[1].seq < cli[c].next
               /\ \A n : OnWay(c, n)' \/ Queues(c, n)' => n \in Nat /\ n > wire[1].seq
      BY <1>1, <1>3, <1>18, <2>1, <2>5, NextInOrder
    <3>2. /\ Mode(c) = "par" =>
               /\ Len(f) = Size(c)
               /\ \A n : InFile(c, n) \/ n = wire[1].seq => n \in DOMAIN f /\ f[n] = Data(c, n)
          /\ Mode(c) = "scp" =>
               /\ Len(f) = wire[1].seq /\ e.off = Len(f) + 1 /\ \A k \in DOMAIN f : f[k] = Data(c, k)
               /\ \A n : InFile(c, n) \/ n = wire[1].seq => n \in DOMAIN f
          /\ Mode(c) = "rsync" =>
               /\ Len(e.buf) = wire[1].seq /\ \A k \in DOMAIN e.buf : e.buf[k] = Data(c, k)
               /\ \A n : n \in DOMAIN Held(c) \/ n = wire[1].seq => n \in DOMAIN e.buf
      BY <1>1, <1>3, <1>18, <2>1, <2>5, WriteFits
    <3>3. Held(c)' = e.buf /\ \A n : Data(c, n)' = Data(c, n)
      BY <2>2 DEF Held, Data
    <3>4. \A n : Kept(c, n) \/ n = wire[1].seq => Kept(c, n)'
      <4>1. CASE Mode(c) = "rsync"
        BY <1>12, <2>2, <3>2, <3>3, <4>1 DEF Kept
      <4>2. CASE Mode(c) # "rsync"
        <5>1. \A n : InFile(c, n) \/ n = wire[1].seq => n \in DOMAIN f /\ f[n] = Data(c, n)
          BY <2>1, <3>2, <4>2
        <5>2. \A n : InFile(c, n) \/ n = wire[1].seq => InFile(c, n)'
          BY <1>12, <2>2, <3>3, <5>1 DEF InFile
        <5> QED
          BY <1>12, <2>2, <4>2, <5>2 DEF Kept
      <4> QED
        BY <4>1, <4>2
    <3>5. NoneMissing(c)'
      <4>1. Carried(c)
        BY <1>1, <2>5 DEF Carried, IInv, LinkInv
      <4>2. /\ \A n : OnWay(c, n) => OnWay(c, n)' \/ n = wire[1].seq
            /\ \A n : Queues(c, n)' <=> Queues(c, n)
            /\ \A n : Handed(c, n)' <=> Handed(c, n)
        BY <1>1, ReadFacts
      <4> QED
        BY <2>1, <3>4, <4>1, <4>2 DEF NoneMissing
    <3>6. Exact(c)'
      <4>1. CASE Mode(c) = "par"
        BY <1>12, <2>2, <3>2, <4>1 DEF Exact
      <4>2. CASE Mode(c) = "scp"
        <5>1. Count(c)' = wire[1].seq
          BY <1>12, <2>2, <3>2, <4>2 DEF Count
        <5>2. dmn'.reas[c].off = Len(files'[Dst(c)]) + 1 /\ \A k \in DOMAIN files'[Dst(c)] : files'[Dst(c)][k] = Data(c, k)
          BY <2>2, <3>2, <4>2
        <5> QED
          BY <1>1, <1>12, <3>1, <3>3, <4>2, <5>1, <5>2 DEF Exact
      <4>3. CASE Mode(c) = "rsync"
        <5>1. Count(c)' = wire[1].seq
          BY <1>12, <3>2, <3>3, <4>3 DEF Count
        <5>2. \A k \in DOMAIN Held(c)' : Held(c)'[k] = Data(c, k)
          BY <3>2, <3>3, <4>3
        <5> QED
          BY <1>1, <1>12, <3>1, <3>3, <4>3, <5>1, <5>2 DEF Exact
      <4> QED
        BY <2>1, <4>1, <4>2, <4>3
    <3> QED
      BY <2>3, <3>5, <3>6
  <2> QED
    BY <2>4, <2>5
<1>19. ASSUME NEW t \in Transfers, Going(t), Going(t)', t = c[1], fin
       PROVE  NoneMissing(c)' /\ Exact(c)' /\ Delivered(c)'
  <2>1. /\ Wrote(c, e, f) /\ Exact(c) /\ c \in StreamsOf(t)
        /\ ~(Mode(c) = "par" /\ ~open)
        /\ ~(Mode(c) = "rsync" /\ Len(files[Dst(c)]) > Size(c))
        /\ Mode(c) \in {"par", "scp", "rsync"}
    BY <1>16, <1>19
  <2>2. PICK r \in Finished(c, e, f) : /\ Entries' = Entries \ {c} /\ files'[Dst(c)] = r[2]
                                       /\ r[1] \in BOOLEAN /\ Answer(c, r[1])
    BY <1>6, <1>19
  <2>3. NoneMissing(c)' /\ Exact(c)'
    <3>1. ~Useful(c)' /\ ~Carried(c)'
      BY <1>3, <2>2 DEF Useful, Carried
    <3> QED
      BY <3>1 DEF NoneMissing, Exact
  <2>4. ASSUME Done(c)'
        PROVE  /\ ChunkSeqs(c) # <<>> /\ Len(files'[Dst(c)]) = Size(c)
               /\ \A j \in DOMAIN ChunkSeqs(c) :
                    ChunkSeqs(c)[j] \in DOMAIN files'[Dst(c)] /\ files'[Dst(c)][ChunkSeqs(c)[j]] = Data(c, ChunkSeqs(c)[j])
    <3>1. r[1] = TRUE
      <4>1. GoodResult(c)'
        BY <1>1, <1>3, <2>4 DEF Done
      <4>2. ~GoodResult(c)
        BY <1>3 DEF Done
      <4>3. GoodResult(c) \/ r[1]
        BY <1>1, <1>2, <2>2, <4>1, GoodAnswer
      <4> QED
        BY <2>2, <4>2, <4>3
    <3>2. e.open = open
      BY <1>4
    <3>3. Useful(c) /\ (Mode(c) # "rsync" => open) /\ (Mode(c) = "rsync" => ~open)
      <4>1. Mode(c) = "rsync" => ~open
        BY DEF CopyInv, StreamInv, EntryOpen
      <4>2. Mode(c) = "scp" => open
        <5>1. SUFFICES ASSUME Mode(c) = "scp", ~open PROVE FALSE
          OBVIOUS
        <5>2. ~scn.writable
          BY <5>1 DEF CopyInv, StreamInv, EntryOpen
        <5>3. r = <<FALSE, f>>
          BY <2>2, <3>2, <5>1, <5>2 DEF Finished
        <5> QED
          BY <3>1, <5>3
      <4> QED
        BY <2>1, <4>1, <4>2 DEF Useful
    <3>4. /\ wire[1].seq \in 1 .. Size(c) /\ ChunkSeqs(c) # <<>>
          /\ Mode(c) # "par" => wire[1].seq = Size(c)
          /\ \A j \in DOMAIN ChunkSeqs(c) : Kept(c, ChunkSeqs(c)[j]) \/ ChunkSeqs(c)[j] = wire[1].seq
      BY <1>1, <1>3, <1>19, <2>1, <3>3, NextInOrder
    <3>5. /\ Mode(c) = "par" =>
               /\ Len(f) = Size(c)
               /\ \A n : InFile(c, n) \/ n = wire[1].seq => n \in DOMAIN f /\ f[n] = Data(c, n)
          /\ Mode(c) = "scp" =>
               /\ Len(f) = wire[1].seq /\ \A k \in DOMAIN f : f[k] = Data(c, k)
               /\ \A n : InFile(c, n) \/ n = wire[1].seq => n \in DOMAIN f
          /\ Mode(c) = "rsync" =>
               /\ f = files[Dst(c)]
               /\ Len(e.buf) = wire[1].seq /\ \A k \in DOMAIN e.buf : e.buf[k] = Data(c, k)
               /\ \A n : n \in DOMAIN Held(c) \/ n = wire[1].seq => n \in DOMAIN e.buf
      BY <1>1, <1>3, <1>19, <2>1, <3>3, WriteFits
    <3>6. CASE Mode(c) # "rsync"
      <4>1. r = <<TRUE, f>>
        BY <2>2, <3>2, <3>3, <3>6 DEF Finished
      <4>2. files'[Dst(c)] = f
        BY <2>2, <4>1
      <4>3. Len(f) = Size(c) /\ \A n : InFile(c, n) \/ n = wire[1].seq => n \in DOMAIN f /\ f[n] = Data(c, n)
        BY <2>1, <3>4, <3>5, <3>6
      <4>4. \A j \in DOMAIN ChunkSeqs(c) : InFile(c, ChunkSeqs(c)[j]) \/ ChunkSeqs(c)[j] = wire[1].seq
        BY <3>4, <3>6 DEF Kept
      <4> QED
        BY <3>4, <4>2, <4>3, <4>4
    <3>7. CASE Mode(c) = "rsync"
      <4>1. r = <<TRUE, PutCells(f, e.buf)>>
        <5>1. \A x \in Finished(c, e, f) : x = <<TRUE, PutCells(f, e.buf)>> \/ x = <<FALSE, f>>
          BY <3>2, <3>3, <3>7 DEF Finished
        <5>2. r = <<FALSE, f>> => r[1] = FALSE
          OBVIOUS
        <5>3. r = <<TRUE, PutCells(f, e.buf)>> \/ r = <<FALSE, f>>
          BY <2>2, <5>1
        <5> QED
          BY <3>1, <5>2, <5>3
      <4>2. PICK b \in Seq(Cells) : b = e.buf
        BY DEF EntryType
      <4>3. Len(b) = Size(c) /\ Len(f) <= Size(c)
        <5>1. ~(Len(f) > Size(c)) /\ Len(f) \in Nat /\ Size(c) \in Nat
          BY <1>1, <1>2, <2>1, <3>5, <3>7, ConnFacts
        <5> QED
          BY <3>4, <3>5, <3>7, <4>2, <5>1
      <4>4. PutCells(f, b) = b
        <5>1. SubSeq(f, Len(b) + 1, Len(f)) = <<>>
          <6>1. Len(f) \in Nat /\ Len(b) \in Nat /\ Len(b) + 1 > Len(f)
            BY <4>3
          <6> QED
            BY <6>1
        <5>2. b \o <<>> = b
          OBVIOUS
        <5> QED
          BY <5>1, <5>2 DEF PutCells
      <4>5. files'[Dst(c)] = b
        BY <2>2, <4>1, <4>2, <4>4
      <4>6. \A j \in DOMAIN ChunkSeqs(c) : ChunkSeqs(c)[j] \in DOMAIN b
        BY <3>4, <3>5, <3>7, <4>2 DEF Kept
      <4> QED
        BY <3>4, <3>5, <3>7, <4>2, <4>3, <4>5, <4>6
    <3> QED
      BY <3>6, <3>7
  <2>5. Delivered(c)'
    <3>1. \A n : Data(c, n)' = Data(c, n)
      BY DEF Data
    <3> QED
      BY <1>12, <2>4, <3>1 DEF Delivered, InFile
  <2> QED
    BY <2>3, <2>5
<1>20. \A t \in Transfers : Going(t) /\ Going(t)' =>
         /\ Unrivalled(t)'
         /\ \A d \in StreamsOf(t) : NoneMissing(d)' /\ Exact(d)' /\ Delivered(d)'
  <2>1. \A t \in Transfers : c \in StreamsOf(t) => t = c[1]
    BY StreamOfOne
  <2> QED
    BY <1>15, <1>17, <1>18, <1>19, <2>1
<1>21. Carried(c)' => Carried(c)
  BY <1>1, <1>3, <1>13 DEF Carried, Up
<1>22. c \in Entries' => /\ Mode(c) = "rsync" => ~dmn'.reas[c].open
                         /\ Mode(c) = "scp" => dmn'.reas[c].open = scn.writable
  BY <1>11 DEF CopyInv, StreamInv, EntryOpen
<1>23. Done(c)' => ~InitOnWire(c)' /\ c \notin Entries'
  BY <1>3, <1>9, <1>11
<1>24. /\ Entries' \subseteq Entries \cup {c} /\ \A d \in Entries' : d # c => dmn'.reas[d] = dmn.reas[d]
       /\ \A t \in Transfers : why'[t] = {} => why[t] = {}
       /\ \A d : d # c => (GoodResult(d)' => GoodResult(d))
  BY <1>4, <1>7, <1>8
<1> QED
  BY <1>1, <1>2, <1>14, <1>20, <1>21, <1>22, <1>23, <1>24, DaemonCopies

(***************************************************************************)
(* All steps.                                                              *)
(***************************************************************************)
LEMMA InitCopies == Init => CopyInv
<1> SUFFICES ASSUME Init PROVE CopyInv
  OBVIOUS
<1>1. /\ cli = [c \in Conns |-> [st |-> "idle", next |-> 1, reply |-> "none"]]
      /\ tgt = [l \in Links |-> [link |-> IF l = 1 THEN "up" ELSE "new", gone |-> FALSE,
                                 q |-> <<>>, qs |-> "none", werr |-> FALSE]]
      /\ wire = <<>> /\ back = <<>> /\ dmn = [reas |-> <<>>, pend |-> NoConn] /\ TypeOK
  BY InitHolds DEF Init, IInv
<1>2. /\ Entries = {} /\ dmn.pend = NoConn /\ DOMAIN <<>> = {}
      /\ \A l \in Links : tgt[l].q = <<>>
      /\ \A c \in Conns : cli[c].st = "idle" /\ cli[c].next = 1 /\ cli[c].reply = "none"
  BY <1>1 DEF Entries
<1>3. \A c \in Conns : ~Done(c) /\ ~Carried(c) /\ ~Useful(c)
  BY <1>1, <1>2 DEF Done, GoodResult, Carried, InitOnWire, Useful
<1>4. FrameInv
  BY <1>1, <1>2 DEF FrameInv, WireGenuine, QueueGenuine, InitFirst, PayloadSelected
<1>5. StreamInv
  BY <1>2, <1>3 DEF StreamInv, Quiet, OkLast, RouteUp, EntryOpen, DoneOut
<1>6. GoingInv
  <2>1. ASSUME NEW t \in Transfers
        PROVE  /\ Unrivalled(t)
               /\ \A c \in StreamsOf(t) : Routed(c) /\ InOrder(c) /\ NoneMissing(c) /\ Exact(c) /\ Delivered(c)
    <3>1. StreamsOf(t) \subseteq Conns
      BY StreamsAreConns
    <3>2. Unrivalled(t)
      BY <1>2, <1>3, <3>1 DEF Unrivalled
    <3>3. ASSUME NEW c \in StreamsOf(t)
          PROVE  Routed(c) /\ InOrder(c) /\ NoneMissing(c) /\ Exact(c) /\ Delivered(c)
      <4>1. c \in Conns
        BY <3>1
      <4>2. Routed(c)
        BY <1>2, <4>1 DEF Routed
      <4>3. \A n : ~OnWay(c, n) /\ ~Queues(c, n)
        <5>1. DOMAIN wire = {} /\ \A l \in Links : DOMAIN tgt[l].q = {}
          BY <1>1, <1>2
        <5> QED
          BY <5>1 DEF OnWay, Queues
      <4>4. InOrder(c)
        BY <1>1, <1>2, <4>3 DEF InOrder
      <4> QED
        BY <1>3, <4>1, <4>2, <4>4 DEF NoneMissing, Exact, Delivered
    <3> QED
      BY <3>2, <3>3
  <2> QED
    BY <2>1 DEF GoingInv
<1> QED
  BY <1>4, <1>5, <1>6 DEF CopyInv

LEMMA StutterCopies ==
  ASSUME IInv, CopyInv, UNCHANGED vars
  PROVE  CopyInv'
<1>1. cli' \in [Conns -> ClientType] /\ \A c \in Conns : cli'[c].next >= cli[c].next
  BY TypeFacts DEF vars, IInv, ClientType
<1>2. UNCHANGED <<scn, cli, rel, tgt, reg, wire, back, dmn, files, why>>
  BY DEF vars
<1> QED
  BY <1>1, <1>2, ClientsOnly

LEMMA NextCopies ==
  ASSUME IInv, CopyInv, [Next]_vars
  PROVE  CopyInv'
<1>1. ASSUME NEW c \in Active, RelayAnnounces(c) PROVE CopyInv'
  BY <1>1, AnnounceCopies
<1>2. ASSUME NEW c \in Active, RelayStep(c) PROVE CopyInv'
  BY <1>2, DropCopies, TakeCopies, EnqueueCopies, PanicOrEndCopies, SyncCopies DEF RelayStep
<1>3. ASSUME NEW c \in Active, ClientReads(c) \/ ClientTimesOut(c) PROVE CopyInv'
  BY <1>3, ClientCopies
<1>4. ASSUME NEW l \in Links, WriterWrites(l) \/ RelayUnregisters(l) \/ DaemonReconnects(l) PROVE CopyInv'
  BY <1>4, WriterCopies, UnregisterCopies, ReconnectCopies
<1>5. CASE DaemonStep
  BY <1>5, BeginCopies, HeaderCopies, IgnoredCopies, PayloadCopies DEF DaemonStep
<1>6. ASSUME NEW t \in Transfers, ClientDies(t) PROVE CopyInv'
  BY <1>6, DeathCopies
<1> QED
  BY <1>1, <1>2, <1>3, <1>4, <1>5, <1>6, ResultCopies, BreakCopies, StutterCopies DEF Next

\* Only reading an answer makes a stream "ok".
LEMMA OnlyReadingEnds ==
  ASSUME IInv, [Next]_vars, ~\E c \in Active : ClientReads(c)
  PROVE  \A d \in Conns : cli'[d].st = "ok" => cli[d].st = "ok"
<1>1. cli \in [Conns -> ClientType] /\ TypeOK
  BY TypeFacts DEF IInv
<1>2. ASSUME NEW c \in Active, RelayAnnounces(c)
      PROVE  \A d \in Conns : cli'[d].st = "ok" => cli[d].st = "ok"
  <2> DEFINE s == IF ChunkSeqs(c) = <<>> THEN "waiting" ELSE "sending"
             began == [cli[c] EXCEPT !.st = s]
             refused == [began EXCEPT !.reply = "err"]
  <2>1. c \in Conns /\ (cli' = [cli EXCEPT ![c] = began] \/ cli' = [cli EXCEPT ![c] = refused])
    BY <1>2, StreamsAreConns DEF RelayAnnounces
  <2>2. began.st = s /\ refused.st = s /\ s # "ok"
    BY <1>1, <2>1 DEF ClientType
  <2> HIDE DEF s, began, refused
  <2> QED
    BY <1>1, <2>1, <2>2
<1>3. ASSUME NEW c \in Active, RelayStep(c)
      PROVE  \A d \in Conns : cli'[d].st = "ok" => cli[d].st = "ok"
  <2>1. c \in Conns
    BY StreamsAreConns
  <2>2. ~AllSent(c) => \A d \in Conns : Forwarded(c)[d].st = "ok" => cli[d].st = "ok"
    BY <1>1, <2>1, ForwardedFacts
  <2>3. CASE RelayTakesQueue(c) \/ RelayEnds(c)
    BY <2>3 DEF RelayTakesQueue, RelayEnds
  <2>4. CASE RelayDropsChunk(c) \/ RelayEnqueues(c) \/ RelayWritesSync(c)
    <3>1. ~AllSent(c)
      BY <2>1, <2>4 DEF IInv, SentInv, Handing, RelayDropsChunk, RelayEnqueues, RelayWritesSync
    <3>2. PICK x : x = Forwarded(c)
      OBVIOUS
    <3>3. x \in [Conns -> ClientType]
      BY <1>1, <2>1, <3>1, <3>2, ForwardedFacts
    <3>4. cli' = x \/ cli' = [x EXCEPT ![c].reply = IF @ = "none" THEN "err" ELSE @]
      BY <2>4, <3>2, Zenon DEF RelayDropsChunk, RelayEnqueues, RelayWritesSync, ForwardFails
    <3>5. \A d \in Conns : cli'[d].st = x[d].st
      BY <2>1, <3>3, <3>4 DEF ClientType
    <3> QED
      BY <2>2, <3>1, <3>2, <3>5
  <2>5. CASE RelayPanics(c)
    <3>1. PICK r \in ClientType : r = Reply(c, "err") /\ r.st = cli[c].st
      <4>1. PICK x \in ClientType : x = cli[c]
        BY <1>1, <2>1
      <4>2. [x EXCEPT !.reply = "err"] \in ClientType /\ [x EXCEPT !.reply = "err"].st = x.st
        BY DEF ClientType
      <4> QED
        BY <4>1, <4>2 DEF Reply
    <3>2. PICK s : s = (IF cli[c].st = "dead" THEN "dead" ELSE "waiting")
      OBVIOUS
    <3>3. cli' = [cli EXCEPT ![c] = r, ![c].st = IF @ = "dead" THEN @ ELSE "waiting"]
      BY <2>5, <3>1 DEF RelayPanics
    <3>4. \A d \in Conns : cli'[d].st = IF d = c THEN s ELSE cli[d].st
      BY <1>1, <2>1, <3>1, <3>2, <3>3 DEF ClientType
    <3> QED
      BY <3>2, <3>4
  <2> QED
    BY <1>3, <2>3, <2>4, <2>5 DEF RelayStep
<1>4. ASSUME NEW c \in Active, ClientTimesOut(c)
      PROVE  \A d \in Conns : cli'[d].st = "ok" => cli[d].st = "ok"
  BY <1>1, <1>4, StreamsAreConns DEF ClientTimesOut, ClientType
<1>5. ASSUME NEW l \in Links, WriterWrites(l) \/ RelayUnregisters(l) \/ DaemonReconnects(l)
      PROVE  \A d \in Conns : cli'[d].st = "ok" => cli[d].st = "ok"
  BY <1>5 DEF WriterWrites, RelayUnregisters, DaemonReconnects
<1>6. CASE RelayRelaysResult
  <2>1. \A d \in Conns : cli'[d].st = cli[d].st
    <3>1. back # <<>> /\ (cli' = cli \/ \E s \in {"ok", "err"} : cli' = [cli EXCEPT ![Head(back).c] = Reply(Head(back).c, s)])
      BY <1>6 DEF RelayRelaysResult
    <3>2. PICK b : b = Head(back).c
      OBVIOUS
    <3>3. ASSUME NEW s \in {"ok", "err"}, cli' = [cli EXCEPT ![b] = Reply(b, s)], NEW d \in Conns
          PROVE  cli'[d].st = cli[d].st
      BY <1>1, <3>3 DEF Reply, ClientType
    <3> QED
      BY <3>1, <3>2, <3>3
  <2> QED
    BY <2>1
<1>7. CASE DaemonStep \/ LinkBreaks \/ UNCHANGED vars
  BY <1>7 DEF DaemonStep, DaemonBegins, DaemonReadsHeader, DaemonReadsPayload, LinkBreaks, vars
<1>8. ASSUME NEW t \in Transfers, ClientDies(t)
      PROVE  \A d \in Conns : cli'[d].st = "ok" => cli[d].st = "ok"
  BY <1>1, <1>8 DEF ClientDies, ClientType
<1> QED
  BY <1>2, <1>3, <1>4, <1>5, <1>6, <1>7, <1>8 DEF Next

\* The step that makes a copy's last stream "ok".
LEMMA OkStep ==
  ASSUME IInv, CopyInv, [Next]_vars, NEW t \in Transfers,
         ~ReportedOK(t), ReportedOK(t)', why'[t] = {}
  PROVE  Whole(t)'
<1>1. TypeOK /\ cli \in [Conns -> ClientType] /\ files \in [Dsts -> Seq(Cells)]
      /\ scn \in ScenarioType
  BY TypeFacts DEF IInv, TypeOK
<1>2. scn' = scn
  BY DEF Next, RelayAnnounces, RelayStep, RelayDropsChunk, RelayTakesQueue, RelayEnqueues, RelayPanics,
         RelayWritesSync, RelayEnds, ClientReads, ClientTimesOut, WriterWrites, RelayUnregisters,
         DaemonReconnects, RelayRelaysResult, DaemonStep, DaemonBegins, DaemonReadsHeader,
         DaemonReadsPayload, LinkBreaks, ClientDies, vars
<1>3. /\ StreamsOf(t)' = StreamsOf(t) /\ StreamsOf(t) # {}
      /\ \A d \in StreamsOf(t) : d \in Conns /\ cli'[d].st = "ok"
  <2>1. StreamsOf(t)' = StreamsOf(t)
    BY <1>2 DEF StreamsOf
  <2> QED
    BY <2>1, StreamsAreConns DEF ReportedOK
<1>4. PICK c \in Active : ClientReads(c)
  <2>1. SUFFICES ASSUME ~\E c \in Active : ClientReads(c) PROVE FALSE
    OBVIOUS
  <2>2. \A d \in StreamsOf(t) : cli[d].st = "ok"
    BY <1>3, <2>1, OnlyReadingEnds
  <2> QED
    BY <1>3, <2>2 DEF ReportedOK
<1>5. /\ c \in Conns /\ cli[c].st = "waiting" /\ cli' = [cli EXCEPT ![c].st = cli[c].reply]
      /\ UNCHANGED <<rel, tgt, reg, wire, back, dmn, files, why>>
  BY <1>4, StreamsAreConns DEF ClientReads
<1>6. ASSUME NEW d \in StreamsOf(t)
      PROVE  cli[d].reply = "ok" /\ cli[d].st \in {"waiting", "ok"}
  <2>1. CASE d = c
    BY <1>1, <1>3, <1>5, <2>1 DEF ClientType
  <2>2. CASE d # c
    <3>1. cli[d].st = "ok"
      BY <1>1, <1>3, <1>5, <2>2
    <3> QED
      BY <1>3, <3>1 DEF CopyInv, StreamInv, OkLast
  <2> QED
    BY <2>1, <2>2
<1>7. Going(t)
  <2>1. \E d \in StreamsOf(t) : cli[d].st # "ok"
    BY <1>3 DEF ReportedOK
  <2> QED
    BY <1>3, <1>5, <1>6, <2>1 DEF Going, Failed
<1>8. ASSUME NEW d \in StreamsOf(t)
      PROVE  /\ Len(files[scn.dst[t]]) = scn.size[t]
             /\ \A j \in DOMAIN ChunkSeqs(d) :
                  LET n == ChunkSeqs(d)[j] IN n \in DOMAIN files[scn.dst[t]] /\ files[scn.dst[t]][n] = <<t, n>>
  <2>1. Delivered(d) /\ Done(d)
    BY <1>6, <1>7 DEF CopyInv, GoingInv, Done
  <2>2. Dst(d) = scn.dst[t] /\ Size(d) = scn.size[t] /\ d[1] = t
    BY StreamOfOne
  <2> QED
    BY <2>1, <2>2 DEF Delivered, InFile, Data
<1>9. PICK g \in Seq(Cells) : g = files[scn.dst[t]]
  <2>1. scn.dst[t] \in Dsts
    BY <1>1 DEF ScenarioType
  <2> QED
    BY <1>1, <2>1
<1>10. Len(g) = scn.size[t] /\ scn.size[t] \in Nat
  BY <1>1, <1>3, <1>8, <1>9 DEF ScenarioType
<1>11. \A n \in 1 .. scn.size[t] : g[n] = <<t, n>>
  BY <1>1, <1>3, <1>8, <1>9, ChunksCover
<1>12. g = [k \in 1 .. scn.size[t] |-> <<t, k>>]
  <2>1. g = [k \in 1 .. Len(g) |-> g[k]]
    OBVIOUS
  <2>2. [k \in 1 .. Len(g) |-> g[k]] = [k \in 1 .. Len(g) |-> <<t, k>>]
    BY <1>10, <1>11
  <2> QED
    BY <1>10, <2>1, <2>2
<1> QED
  BY <1>2, <1>5, <1>9, <1>12 DEF Whole

\* A copy that `cp` reports to have succeeded (filetransfer.go:51) is the
\* source, chunk by chunk, for any number of copies, streams and connections,
\* unless one of the named Causes applied to it: finishReassembly
\* (daemon_filetransfer.go:267) and the client compare nothing, so all of it
\* rests on the order of the frames and on who writes to the file.
THEOREM OkIsTheSource == Spec => OkMeansSource
<1>1. IInv /\ CopyInv /\ [Next]_vars =>
        [\A t \in Transfers : (~ReportedOK(t) /\ ReportedOK(t)' /\ why'[t] = {}) => Whole(t)']_vars
  BY OkStep
<1>2. Init => IInv /\ CopyInv
  BY InitHolds, InitCopies
<1>3. IInv /\ CopyInv /\ [Next]_vars => (IInv /\ CopyInv)'
  BY NextKeeps, NextCopies
<1> QED
  BY <1>1, <1>2, <1>3, PTL DEF Spec, OkMeansSource
=============================================================================
