---------------------------- MODULE FileTransfer ----------------------------
(***************************************************************************)
(* `cp`: a client sends a file in chunks through the relay to a daemon,    *)
(* over one connection or over several parallel ones, and is told whether  *)
(* the copy succeeded.                                                     *)
(*                                                                         *)
(* The client reads nothing until it has sent everything, so the frames it *)
(* has sent are the part of its connection the relay has not read yet, and *)
(* sending and reading a frame is one step.  A stream's relay-side request *)
(* id is the stream itself.  At the relay every connection has a read loop *)
(* that forwards chunks through the asynchronous write queue of the        *)
(* daemon's connection; taking the queue and sending on it are two steps,  *)
(* because closeWriter runs in the read loop of the daemon's connection.   *)
(* The channel and the frame its goroutine holds are one sequence.         *)
(***************************************************************************)
EXTENDS Integers, Sequences, FiniteSets

CONSTANTS
  Transfers,   \* invocations of `cp`
  Dsts,        \* destination paths on the daemon's machine
  Scenarios,   \* what is copied, see ScenarioType; one is chosen in Init
  Streams,     \* parallel streams of a transfer in mode "par"
  QueueCap,    \* frames a write queue holds (128 in the code)
  MaxLink,     \* bound: connections of the daemon
  NoConn

Conns == Transfers \X (1 .. Streams)
Links == 1 .. MaxLink

\* mode "scp" is one stream, "par" is scp with ParallelStreams > 1, "rsync" a
\* tar archive; size counts chunks; old is the number of chunks a destination
\* already holds.  writable, full, kill and drop say what may go wrong.
ScenarioType ==
  [mode : [Transfers -> {"none", "scp", "par", "rsync"}],
   size : [Transfers -> Nat], dst : [Transfers -> Dsts], old : [Dsts -> Nat],
   writable : BOOLEAN, full : BOOLEAN, kill : BOOLEAN, drop : BOOLEAN]

ASSUME TransferAssumption ==
  /\ Scenarios \subseteq ScenarioType
  /\ Streams \in Nat \ {0} /\ QueueCap \in Nat \ {0} /\ MaxLink \in Nat \ {0}
  /\ NoConn \notin Conns /\ {"zero", "old"} \cap Transfers = {}

VARIABLES
  scn,     \* the scenario (never changes)
  cli,     \* [Conns -> [st, next, reply]] a stream of the client
  rel,     \* [Conns -> [route, took, pend]] its read loop at the relay
  tgt,     \* [Links -> [link, gone, q, qs, werr]] the daemon's connections
  reg,     \* rs.clients: the daemon's registered connection, or 0
  wire,    \* frames on their way to the daemon
  back,    \* file_transfer_results on their way to the relay
  dmn,     \* [reas, pend] the daemon's td.reassembly and td.pendingBinaryChunk
  files,   \* [Dsts -> Seq(Cells)] the daemon's disk
  why      \* history: [Transfers -> SUBSET Causes], see below

vars == <<scn, cli, rel, tgt, reg, wire, back, dmn, files, why>>

---------------------------------------------------------------------------
(* Who sends what.                                                         *)

Mode(c) == scn.mode[c[1]]
Dst(c) == scn.dst[c[1]]
Size(c) == scn.size[c[1]]
StreamsOf(t) == IF scn.mode[t] = "par" THEN {t} \X (1 .. Streams)
                ELSE IF scn.mode[t] = "none" THEN {} ELSE {<<t, 1>>}
Active == UNION {StreamsOf(t) : t \in Transfers}

\* sendFileParallel: stream i sends chunks i, i + n, ...; otherwise all.
ChunkSeqs(c) ==
  IF Mode(c) = "par"
  THEN [j \in 1 .. (Size(c) + Streams - c[2]) \div Streams |-> c[2] + (j - 1) * Streams]
  ELSE [k \in 1 .. Size(c) |-> k]

Chunk(c) ==
  LET s == ChunkSeqs(c)
  IN  [c |-> c, seq |-> s[cli[c].next], fin |-> cli[c].next = Len(s)]

\* A chunk is a JSON header and the binary frame that follows it, written
\* under one acquisition of the connection's lock.
Frame(kind, f) == [k |-> kind, c |-> f.c, seq |-> f.seq, fin |-> f.fin]
PairSwapped(f) == <<Frame("bin", f), Frame("hdr", f)>>
Pair(f) == <<Frame("hdr", f), Frame("bin", f)>>

Ended(t) == \A c \in StreamsOf(t) : cli[c].st \in {"ok", "err", "dead"}
ReportedOK(t) == /\ StreamsOf(t) # {}
                 /\ \A c \in StreamsOf(t) : cli[c].st = "ok"

\* With kill, one transfer may be killed and another is its retry.
Victim == CHOOSE t \in Transfers : \A u \in Transfers : scn.size[u] <= scn.size[t]

---------------------------------------------------------------------------
(* The write queue of a daemon connection l (relayClient).                 *)

\* startWriter: writeOnce, so a closed queue is never opened again.
Started(l) == IF tgt[l].qs = "none" THEN [tgt EXCEPT ![l].qs = "open"] ELSE tgt
\* closeWriter: the channel is closed; its goroutine still drains it.
CloseQueue(l) == IF tgt[l].qs = "open" THEN [tgt EXCEPT ![l].qs = "closed"] ELSE tgt

Up(l) == tgt[l].link = "up"
\* A write on the socket of l.  On a broken link it vanishes or fails.
Write(l, frames) == wire' = IF Up(l) THEN wire \o frames ELSE wire
MayFail(l) == ~Up(l)

\* Is there room in the channel?
HasRoomAtCap(l) == Len(tgt[l].q) <= QueueCap
HasRoom(l) == Len(tgt[l].q) < QueueCap

\* The goroutine of the queue: write the next frame; after an error drain.
WriterWrites(l) ==
  /\ tgt[l].q # <<>>
  /\ \/ /\ Write(l, Pair(Head(tgt[l].q)))
        /\ tgt' = [tgt EXCEPT ![l].q = Tail(@)]
     \/ /\ MayFail(l)
        /\ tgt' = [tgt EXCEPT ![l].q = <<>>, ![l].werr = TRUE]
        /\ UNCHANGED wire
  /\ UNCHANGED <<scn, cli, rel, reg, back, dmn, files, why>>

---------------------------------------------------------------------------
(* The relay's read loop of a client's connection c.                       *)

Reply(c, r) == IF cli[c].reply = "none" THEN [cli[c] EXCEPT !.reply = r] ELSE cli[c]

\* handleFileTransfer: look the daemon up, record the request, forward the
\* announcement synchronously, remember the route, start the queue.  Before:
\* handleFileTransfer of the client, which dials and sends the announcement.
RelayAnnounces(c) ==
  /\ cli[c].st = "idle"
  /\ scn.kill => \A t \in Transfers \ {c[1]} : t # Victim \/ Ended(t)
  /\ LET began == [cli[c] EXCEPT !.st = IF ChunkSeqs(c) = <<>> THEN "waiting" ELSE "sending"]
         refused == [began EXCEPT !.reply = "err"]
     IN  \/ /\ reg = 0
            /\ cli' = [cli EXCEPT ![c] = refused]
            /\ UNCHANGED <<rel, tgt, wire>>
         \/ /\ reg # 0 /\ MayFail(reg)
            /\ cli' = [cli EXCEPT ![c] = refused]
            /\ UNCHANGED <<rel, tgt, wire>>
         \/ /\ reg # 0
            /\ cli' = [cli EXCEPT ![c] = began]
            /\ rel' = [rel EXCEPT ![c] = [route |-> reg, took |-> "no", pend |-> TRUE]]
            /\ Write(reg, <<[k |-> "init", c |-> c, seq |-> 0, fin |-> FALSE]>>)
            /\ tgt' = Started(reg)
  /\ UNCHANGED <<scn, reg, back, dmn, files, why>>

Forwarded(c) ==
  [cli EXCEPT ![c].next = @ + 1,
              ![c].st = IF Chunk(c).fin /\ @ = "sending" THEN "waiting" ELSE @]
RouteAfter(c) == [rel EXCEPT ![c].took = "no", ![c].route = IF Chunk(c).fin THEN 0 ELSE @]

\* handleFileChunk without a route: header and payload are dropped.
RelayDropsChunk(c) ==
  /\ cli[c].st = "sending" /\ rel[c].took = "no" /\ rel[c].route = 0
  /\ cli' = Forwarded(c)
  /\ UNCHANGED <<scn, rel, tgt, reg, wire, back, dmn, files, why>>

\* handleFileChunk reads header and payload; sendRawHeaderAndBinary takes q.
RelayTakesQueue(c) ==
  /\ cli[c].st = "sending" /\ rel[c].took = "no" /\ rel[c].route # 0
  /\ rel' = [rel EXCEPT ![c].took = IF tgt[rel[c].route].qs = "open" THEN "queue" ELSE "sync"]
  /\ UNCHANGED <<scn, cli, tgt, reg, wire, back, dmn, files, why>>

\* An error of the send: the route and the pending entry go, the client hears.
ForwardFails(c) ==
  /\ rel' = [rel EXCEPT ![c] = [route |-> 0, took |-> "no", pend |-> FALSE]]
  /\ cli' = [Forwarded(c) EXCEPT ![c].reply = IF @ = "none" THEN "err" ELSE @]

\* The frame goes into the queue; a failure of an earlier one is returned.
RelayEnqueues(c) ==
  LET l == rel[c].route IN
  /\ rel[c].took = "queue" /\ tgt[l].qs = "open" /\ HasRoom(l)
  /\ tgt' = IF tgt[l].werr THEN tgt ELSE [tgt EXCEPT ![l].q = Append(@, Chunk(c))]
  /\ \/ ~tgt[l].werr /\ rel' = RouteAfter(c) /\ cli' = Forwarded(c)
     \/ tgt[l].werr /\ ForwardFails(c)
  /\ UNCHANGED <<scn, reg, wire, back, dmn, files, why>>

\* Send on a channel that closeWriter has closed since: a panic.  The server
\* recovers it, and the client's connection is closed.
RelayPanics(c) ==
  /\ rel[c].took = "queue" /\ tgt[rel[c].route].qs = "closed"
  /\ rel' = [rel EXCEPT ![c].took = "no", ![c].route = 0]
  /\ cli' = [cli EXCEPT ![c] = Reply(c, "err"), ![c].st = IF @ = "dead" THEN @ ELSE "waiting"]
  /\ UNCHANGED <<scn, tgt, reg, wire, back, dmn, files, why>>

Overtakes(c) == \E i \in DOMAIN tgt[rel[c].route].q : tgt[rel[c].route].q[i].c = c

\* No queue, or a full one: written at once, before what is still queued.
RelayWritesSync(c) ==
  LET l == rel[c].route IN
  /\ \/ rel[c].took = "sync"
     \/ rel[c].took = "queue" /\ tgt[l].qs = "open" /\ ~HasRoom(l)
  /\ \/ /\ Write(l, Pair(Chunk(c)))
        /\ rel' = RouteAfter(c) /\ cli' = Forwarded(c)
     \/ MayFail(l) /\ ForwardFails(c) /\ UNCHANGED wire
  /\ why' = [why EXCEPT ![c[1]] = @ \cup (IF Overtakes(c) THEN {"overtaken"} ELSE {})]
  /\ UNCHANGED <<scn, tgt, reg, back, dmn, files>>

\* The client is gone: its read loop ends.  The connection never registered,
\* so unregister does not run and the pending entry stays; only a payload that
\* cannot be read (the header-only chunk of an empty file) removes it.
RelayEnds(c) ==
  /\ cli[c].st \in {"err", "dead"} /\ rel[c].took = "no" /\ rel[c].route # 0
  /\ rel' = [rel EXCEPT ![c].route = 0, ![c].pend = @ /\ Size(c) # 0]
  /\ UNCHANGED <<scn, cli, tgt, reg, wire, back, dmn, files, why>>

\* handleFileTransferResult, in the read loop of the daemon's connection.
RelayRelaysResult ==
  /\ back # <<>>
  /\ LET r == Head(back) IN
     IF rel[r.c].pend
     THEN /\ rel' = [rel EXCEPT ![r.c].pend = FALSE]
          /\ cli' = [cli EXCEPT ![r.c] = Reply(r.c, IF r.ok THEN "ok" ELSE "err")]
          /\ tgt' = CloseQueue(r.l)
     ELSE UNCHANGED <<rel, cli, tgt>>
  /\ back' = Tail(back)
  /\ UNCHANGED <<scn, reg, wire, dmn, files, why>>

---------------------------------------------------------------------------
(* The daemon.  A cell of a file is a chunk: the one a transfer sent, the   *)
(* zeros of a preallocated file, or what the file held before.             *)

Zero == <<"zero", 0>>
Old == <<"old", 0>>
Cells == (Transfers \X (Nat \ {0})) \cup {Zero, Old}
Data(c, n) == <<c[1], n>>
Blank(n, v) == [i \in 1 .. n |-> v]
Whole(t) == files[scn.dst[t]] = [k \in 1 .. scn.size[t] |-> <<t, k>>]

\* Writing cell n of a file; a gap before it reads as zeros.
PutCell(f, n, v) ==
  IF n <= Len(f) THEN [f EXCEPT ![n] = v] ELSE Append(f \o Blank(n - 1 - Len(f), Zero), v)

\* Extraction opens existing files without truncating them.
PutCells(f, s) == s \o SubSeq(f, Len(s) + 1, Len(f))

Entries == DOMAIN dmn.reas
Begun(t) == \E c \in StreamsOf(t) : cli[c].st # "idle"
LiveEntry(t) == \E c \in Entries : c[1] = t
\* Other transfers to the same file that are still going on at either end.
Rivals(t) == {u \in Transfers \ {t} : /\ scn.mode[u] # "none" /\ scn.dst[u] = scn.dst[t]
                                      /\ LiveEntry(u) \/ (Begun(u) /\ ~Ended(u))}

\* Why a copy may be reported to have succeeded and not be the source:
\*   "overtaken"  a chunk was written before one the write queue still held
\*   "shared"     another transfer to the same file was under way
\*   "recreated"  a parallel stream began after an earlier one had finished
\*   "unopened"   a parallel transfer's file could not be created
\*   "full"       a write failed
\*   "tail"       a directory was unpacked over a longer file
Causes == {"overtaken", "shared", "recreated", "unopened", "full", "tail"}

\* Chunks of the same transfer are in the file already.
Holds(c) == \E n \in 1 .. Size(c) : \E i \in DOMAIN files[Dst(c)] : files[Dst(c)][i] = Data(c, n)

\* A live parallel entry for the same path, whose file writer is shared.
Shares(c) == Mode(c) = "par" /\ \E e \in Entries : /\ Mode(e) = "par" /\ Dst(e) = Dst(c)
                                                  /\ dmn.reas[e].open
OpensFile(c) == ~Shares(c) /\ Mode(c) # "rsync" /\ scn.writable
Entry(c) == [buf |-> <<>>, off |-> 1, seq |-> 0, fin |-> FALSE,
             open |-> Shares(c) \/ OpensFile(c)]
WithEntry(c, e) == [d \in Entries \cup {c} |-> IF d = c THEN e ELSE dmn.reas[d]]
Without(c) == [d \in Entries \ {c} |-> dmn.reas[d]]

Receive(kind) == wire # <<>> /\ Head(wire).k = kind /\ wire' = Tail(wire)
Answer(c, ok) == back' = Append(back, [c |-> c, ok |-> ok,
                                       l |-> CHOOSE l \in Links : Up(l)])

\* beginChunkedTransfer: os.Create truncates, a parallel one preallocates.
DaemonBegins ==
  /\ Receive("init")
  /\ LET c == Head(wire).c
         news == (IF Rivals(c[1]) # {} THEN {"shared"} ELSE {})
                 \cup (IF Mode(c) = "par" /\ OpensFile(c) /\ Holds(c)
                      THEN {"recreated"} ELSE {})
     IN /\ dmn' = [dmn EXCEPT !.reas = WithEntry(c, Entry(c))]
        /\ files' = IF OpensFile(c)
                    THEN [files EXCEPT ![Dst(c)] =
                            IF Mode(c) = "par" THEN Blank(Size(c), Zero) ELSE <<>>]
                    ELSE files
        /\ why' = [u \in Transfers |->
                     IF u = c[1] THEN why[u] \cup news
                     ELSE IF u \in Rivals(c[1]) THEN why[u] \cup {"shared"} ELSE why[u]]
  /\ UNCHANGED <<scn, cli, rel, tgt, reg, back>>

\* handleFileChunk: the header selects the transfer of the next binary frame.
DaemonReadsHeader ==
  /\ Receive("hdr")
  /\ LET f == Head(wire) IN
     IF f.c \in Entries
     THEN /\ dmn' = [reas |-> WithEntry(f.c, [dmn.reas[f.c] EXCEPT !.seq = f.seq, !.fin = f.fin]),
                      pend |-> f.c]
          /\ UNCHANGED back
     ELSE Answer(f.c, FALSE) /\ UNCHANGED dmn
  /\ UNCHANGED <<scn, cli, rel, tgt, reg, files, why>>

\* Where a parallel stream's chunk goes: seq * chunkSizeBytes.
OffsetPast(e) == e.seq + 1
Offset(e) == e.seq

\* writeChunkData: at the chunk's offset, or after the last one; a write that
\* fails goes to the buffer, and is not reported.  Yields entry and file.
Written(c, e, cell) ==
  IF ~e.open THEN <<[e EXCEPT !.buf = Append(@, cell)], files[Dst(c)]>>
  ELSE IF Mode(c) = "par" THEN <<e, PutCell(files[Dst(c)], Offset(e), cell)>>
  ELSE <<[e EXCEPT !.off = @ + 1], PutCell(files[Dst(c)], e.off, cell)>>
Unwritten(c, e, cell) == <<[e EXCEPT !.buf = Append(@, cell)], files[Dst(c)]>>

\* finishReassembly, given the entry and the file after the last write: the
\* answer and the file.  An archive out of order may or may not be refused.
Finished(c, e, f) ==
  IF Mode(c) = "par" \/ e.open THEN {<<TRUE, f>>}
  ELSE IF ~scn.writable THEN {<<FALSE, f>>}
  ELSE IF Mode(c) = "scp" THEN {<<TRUE, e.buf>>}
  ELSE {<<TRUE, PutCells(f, e.buf)>>} \cup
       (IF e.buf = [k \in 1 .. Size(c) |-> Data(c, k)] THEN {} ELSE {<<FALSE, f>>})

\* Is the transfer complete?
CompletesEarly(e) == TRUE
Completes(e) == e.fin

\* handleBinaryChunk: write, and finish after the final chunk.
DaemonReadsPayload ==
  /\ Receive("bin")
  /\ LET c == dmn.pend IN
     IF c \notin Entries
     THEN dmn' = [dmn EXCEPT !.pend = NoConn] /\ UNCHANGED <<back, files, why>>
     ELSE \E fails \in {FALSE, scn.full /\ dmn.reas[c].open} :
            LET e == dmn.reas[c]
                cell == Data(Head(wire).c, Head(wire).seq)
                w == IF fails THEN Unwritten(c, e, cell) ELSE Written(c, e, cell)
            IN /\ IF Completes(e)
                  THEN \E r \in Finished(c, w[1], w[2]) :
                         /\ dmn' = [reas |-> Without(c), pend |-> NoConn]
                         /\ files' = [files EXCEPT ![Dst(c)] = r[2]]
                         /\ Answer(c, r[1])
                  ELSE /\ dmn' = [reas |-> WithEntry(c, w[1]), pend |-> NoConn]
                       /\ files' = [files EXCEPT ![Dst(c)] = w[2]]
                       /\ UNCHANGED back
               /\ why' = [why EXCEPT ![c[1]] = @ \cup
                    (IF fails THEN {"full"} ELSE {}) \cup
                    (IF e.fin /\ Mode(c) = "par" /\ ~e.open THEN {"unopened"} ELSE {}) \cup
                    (IF e.fin /\ Mode(c) = "rsync" /\ Len(files[Dst(c)]) > Size(c)
                     THEN {"tail"} ELSE {})]
  /\ UNCHANGED <<scn, cli, rel, tgt, reg>>

---------------------------------------------------------------------------
(* The client, and what goes wrong.                                        *)

\* The result is read once everything is sent.
ClientReads(c) ==
  /\ cli[c].st = "waiting" /\ cli[c].reply # "none"
  /\ cli' = [cli EXCEPT ![c].st = cli[c].reply]
  /\ UNCHANGED <<scn, rel, tgt, reg, wire, back, dmn, files, why>>

\* Ten minutes without a result; sendFileParallel has no such limit.
NoTimeout(c) == FALSE
HasTimeout(c) == Mode(c) # "par"
ClientTimesOut(c) ==
  /\ cli[c].st = "waiting" /\ cli[c].reply = "none" /\ HasTimeout(c)
  /\ cli' = [cli EXCEPT ![c].st = "err"]
  /\ UNCHANGED <<scn, rel, tgt, reg, wire, back, dmn, files, why>>

\* The `cp` process is killed.
ClientDies(t) ==
  /\ scn.kill /\ t = Victim
  /\ Begun(t) /\ ~Ended(t)
  /\ cli' = [c \in Conns |-> IF c \in StreamsOf(t) /\ cli[c].st \notin {"ok", "err"}
                             THEN [cli[c] EXCEPT !.st = "dead"] ELSE cli[c]]
  /\ UNCHANGED <<scn, rel, tgt, reg, wire, back, dmn, files, why>>

\* The daemon's connection breaks with all that is on it.
LinkBreaks ==
  /\ scn.drop
  /\ \E l \in Links : Up(l) /\ tgt' = [tgt EXCEPT ![l].link = "down"]
  /\ wire' = <<>> /\ back' = <<>>
  /\ UNCHANGED <<scn, cli, rel, reg, dmn, files, why>>

\* The relay notices: unregister, which closes the queue.
RelayUnregisters(l) ==
  /\ tgt[l].link = "down" /\ ~tgt[l].gone
  /\ tgt' = [CloseQueue(l) EXCEPT ![l].gone = TRUE]
  /\ reg' = IF reg = l THEN 0 ELSE reg
  /\ UNCHANGED <<scn, cli, rel, wire, back, dmn, files, why>>

\* run: clear the reassemblies, dial, register.
DaemonReconnects(l) ==
  /\ \A m \in Links : ~Up(m) /\ (tgt[m].link = "new" <=> m >= l)
  /\ tgt' = [tgt EXCEPT ![l].link = "up"]
  /\ reg' = l
  /\ dmn' = [reas |-> <<>>, pend |-> NoConn]
  /\ UNCHANGED <<scn, cli, rel, wire, back, files, why>>

---------------------------------------------------------------------------
Init ==
  /\ scn \in Scenarios
  /\ cli = [c \in Conns |-> [st |-> "idle", next |-> 1, reply |-> "none"]]
  /\ rel = [c \in Conns |-> [route |-> 0, took |-> "no", pend |-> FALSE]]
  /\ tgt = [l \in Links |-> [link |-> IF l = 1 THEN "up" ELSE "new", gone |-> FALSE, q |-> <<>>, qs |-> "none",
                             werr |-> FALSE]]
  /\ reg = 1
  /\ wire = <<>>
  /\ back = <<>>
  /\ dmn = [reas |-> <<>>, pend |-> NoConn]
  /\ files = [d \in Dsts |-> Blank(scn.old[d], Old)]
  /\ why = [t \in Transfers |-> {}]

RelayStep(c) ==
  \/ RelayDropsChunk(c) \/ RelayTakesQueue(c) \/ RelayEnqueues(c)
  \/ RelayPanics(c) \/ RelayWritesSync(c) \/ RelayEnds(c)
DaemonStep == DaemonBegins \/ DaemonReadsHeader \/ DaemonReadsPayload

Next ==
  \/ \E c \in Active : RelayAnnounces(c) \/ RelayStep(c) \/ ClientReads(c) \/ ClientTimesOut(c)
  \/ \E l \in Links : WriterWrites(l) \/ RelayUnregisters(l) \/ DaemonReconnects(l)
  \/ RelayRelaysResult \/ DaemonStep \/ LinkBreaks
  \/ \E t \in Transfers : ClientDies(t)

Spec == Init /\ [][Next]_vars

\* Processes that run keep going, a started timer fires, and once a copy has
\* begun all its streams are dialled; nobody has to start one, and nothing has
\* to break.
Fairness ==
  /\ \A c \in Conns : /\ WF_vars(c \in Active /\ RelayStep(c))
                      /\ WF_vars(c \in Active /\ Begun(c[1]) /\ RelayAnnounces(c))
                      /\ WF_vars(c \in Active /\ ClientReads(c))
                      /\ WF_vars(c \in Active /\ ClientTimesOut(c))
  /\ \A l \in Links : WF_vars(WriterWrites(l)) /\ WF_vars(DaemonReconnects(l))
  /\ WF_vars(RelayRelaysResult) /\ WF_vars(DaemonStep)
FairSpec == Spec /\ Fairness

---------------------------------------------------------------------------
Frames == [k : {"init", "hdr", "bin"}, c : Conns, seq : Nat, fin : BOOLEAN]
Queued == [c : Conns, seq : Nat \ {0}, fin : BOOLEAN]
EntryType == [buf : Seq(Cells), off : Nat \ {0}, seq : Nat, fin : BOOLEAN, open : BOOLEAN]

\* Types, and two ranges: a write queue never holds more than its capacity,
\* and a read loop that is about to send has a route.
TypeOK ==
  /\ scn \in Scenarios
  /\ cli \in [Conns -> [st : {"idle", "sending", "waiting", "ok", "err", "dead"},
                        next : Nat \ {0}, reply : {"none", "ok", "err"}]]
  /\ rel \in [Conns -> [route : 0 .. MaxLink, took : {"no", "queue", "sync"}, pend : BOOLEAN]]
  /\ tgt \in [Links -> [link : {"new", "up", "down"}, gone : BOOLEAN, q : Seq(Queued),
                        qs : {"none", "open", "closed"}, werr : BOOLEAN]]
  /\ reg \in 0 .. MaxLink
  /\ wire \in Seq(Frames)
  /\ back \in Seq([c : Conns, ok : BOOLEAN, l : Links])
  /\ Entries \subseteq Conns /\ dmn.pend \in Conns \cup {NoConn}
  /\ dmn = [reas |-> [c \in Entries |-> dmn.reas[c]], pend |-> dmn.pend]
  /\ \A c \in Entries : dmn.reas[c] \in EntryType
  /\ files \in [Dsts -> Seq(Cells)]
  /\ why \in [Transfers -> SUBSET Causes]
  /\ \A l \in Links : Len(tgt[l].q) <= QueueCap
  /\ \A c \in Conns : rel[c].took # "no" => rel[c].route # 0

\* A copy that is reported to have succeeded is the source, chunk by chunk,
\* unless one of the Causes applied to it: finishReassembly and `cp`'s "Copy
\* completed successfully" (filetransfer.go:51) compare nothing.
OkMeansSource ==
  [][\A t \in Transfers : (~ReportedOK(t) /\ ReportedOK(t)' /\ why'[t] = {}) => Whole(t)']_vars

\* The same without exception.
OkMeansCopied ==
  [][\A t \in Transfers : (~ReportedOK(t) /\ ReportedOK(t)') => Whole(t)']_vars

\* A chunk is never written into another transfer's file, nor, in a parallel
\* transfer, at another chunk's place: header and payload stay together on
\* the daemon's connection although several read loops write to it.
ChunksBelong ==
  \A d \in Dsts : \A i \in DOMAIN files[d] :
    files[d][i] \in {Zero, Old} \/
    LET t == files[d][i][1] IN
      scn.dst[t] = d /\ (scn.mode[t] = "par" => files[d][i][2] = i)

\* The queue a read loop is about to send on is closed under it only by the
\* end of another stream or of the daemon's connection, never because of its
\* own transfer's result: closeWriter is called after the last chunk
\* (relay_client.go:71).
WriterOutlivesStream ==
  \A c \in Active :
    (rel[c].took = "queue" /\ tgt[rel[c].route].qs = "closed") =>
      \/ tgt[rel[c].route].gone
      \/ \E d \in Active \ {c} : cli[d].reply # "none"

\* Every copy over one connection ends, answered or not, and so does every
\* parallel one as long as the daemon's connection lasts, each stream has a
\* chunk to send and none of its chunks is overtaken.
MustEnd(t) == \/ scn.mode[t] \in {"scp", "rsync"}
              \/ scn.mode[t] = "par" /\ ~scn.drop /\ scn.size[t] >= Streams
EveryCopyEnds == \A t \in Transfers : (MustEnd(t) /\ Begun(t)) ~> Ended(t)
=============================================================================
