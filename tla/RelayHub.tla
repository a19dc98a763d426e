----------------------------- MODULE RelayHub -----------------------------
(***************************************************************************)
(* The relay hub of remotecmd-cli with the daemons registered at it and    *)
(* the clients that run commands through it: register and take-over of a   *)
(* name, execute (buffered and streamed), the kill switch `disconnect',    *)
(* replies, unregister, connection loss at either end, reconnection, and   *)
(* restart of a daemon (by its supervisor, if it has one) or of the relay. *)
(*                                                                         *)
(* One WebSocket is one element of Conns.  The relay runs one goroutine    *)
(* per connection (handleWS); a handler that releases rs.mu between two    *)
(* effects is split there, and h[c] holds what its locals hold.            *)
(***************************************************************************)
EXTENDS Integers, Sequences, FiniteSets, SequencesExt

CONSTANTS
  Daemons,            \* daemon processes (TargetDaemon)
  Clients,            \* client processes, one WebSocket each
  Names, Tokens,
  NameOf, TokenOf,    \* what each daemon registers with
  WantName, WantToken,\* the target and token in each client's config
  Unauth,             \* peers that do not present the relay secret
  Exempt,             \* RELAY_SECRET_EXEMPT
  Kinds,              \* what clients send: "execute", "stream", "disconnect"
  Chunks,             \* a streamed command prints at most so many lines
  MaxExec,            \* bound: messages per client
  Supervised,         \* daemons run as a service: Restart=always
  MaxDials,           \* bound: connections per daemon
  MaxBreaks,          \* bound: so many of them may break
  MaxReq,             \* bound: request ids the relay draws (newID)
  Breaks,             \* may connections break and processes crash?
  Timeouts,           \* may a client stop waiting?
  NoConn, NoName, NoToken, NoDaemon

CConns == Clients \X {1}
DConns == Daemons \X (1 .. MaxDials)
Conns  == CConns \cup DConns
ReqIds == 1 .. MaxReq

ASSUME PeersAssumption ==
  /\ Clients \cap Daemons = {}
  /\ NoConn \notin Conns
  /\ NoName \notin Names
  /\ NoToken \notin Tokens
  /\ NoDaemon \notin Daemons

ASSUME ConfigAssumption ==
  /\ NameOf \in [Daemons -> Names]
  /\ TokenOf \in [Daemons -> Tokens]
  /\ WantName \in [Clients -> Names]
  /\ WantToken \in [Clients -> Tokens]
  /\ Unauth \subseteq Clients \cup Daemons
  /\ Exempt \subseteq Names
  /\ Supervised \subseteq Daemons
  /\ Kinds \subseteq {"execute", "stream", "disconnect"}

ASSUME BoundsAssumption ==
  /\ Chunks \in Nat
  /\ MaxExec \in Nat
  /\ MaxDials \in Nat
  /\ MaxReq \in Nat
  /\ Breaks \in BOOLEAN
  /\ MaxBreaks \in Nat
  /\ Timeouts \in BOOLEAN

VARIABLES
  \* ---- the sockets
  peerEnd,    \* [Conns -> BOOLEAN] the client's or daemon's end is open
  relayEnd,   \* [Conns -> BOOLEAN] the relay's handler is reading it
  up, down,   \* [Conns -> Seq(Msg)] frames towards the relay / the peer
  \* ---- RelayServer
  clients,    \* [Names -> Conns]  rs.clients
  pending,    \* [ReqIds -> entry] rs.pending
  nextId,     \* the next fresh request id (newID)
  reg,        \* [Conns -> [name, token]] rc.name, rc.token
  h,          \* [Conns -> handler position and locals]
  \* ---- daemons
  dproc,      \* [Daemons -> "wait" | "dialled" | "up" | "replaced" | "killed"]
  dials,      \* [Daemons -> Nat] td.conn is the last connection dialled
  job,        \* [ReqIds -> execution of the command with this id]
  \* ---- clients
  csent, cwait, ckind, shown, answer,
  \* ---- history
  heard,      \* [Clients -> [1 .. MaxExec -> run]] whose output the answer is
  origin,     \* [ReqIds -> entry] who asked for a request id, never erased
  replaced,   \* connections whose name was taken over
  overtaken   \* ... by an older socket of the same daemon

sockVars   == <<peerEnd, relayEnd, up, down>>
relayVars  == <<clients, pending, nextId, reg, h>>
daemonVars == <<dproc, dials, job>>
clientVars == <<csent, cwait, ckind, shown, answer, heard>>
histVars   == <<origin, replaced, overtaken>>
vars == <<peerEnd, relayEnd, up, down, clients, pending, nextId, reg, h,
          dproc, dials, job, csent, cwait, ckind, shown, answer, heard,
          origin, replaced, overtaken>>

---------------------------------------------------------------------------
(* Frames.  id is the message id on the wire (0: none); run is the request *)
(* id of the execution whose output the frame carries (0: the relay's own  *)
(* words); seq numbers stream chunks, and on stream_end counts them.       *)

MsgTypes == {"register", "execute", "stream", "disconnect", "result",
             "stream_chunk", "stream_end", "registered", "replaced",
             "taken", "command", "error", "disconnect_confirmed"}
Msg == [type : MsgTypes, id : Nat, run : Nat, seq : Nat]
Frame(t, i, r, s) == [type |-> t, id |-> i, run |-> r, seq |-> s]
errResult(i) == Frame("result", i, 0, 0)
NoMsg == Frame("error", 0, 0, 0)

\* A line a client shows: whose output it is, and its number there.
Lines == Nat \X Nat

Entries == [conn : Conns \cup {NoConn}, serverID : Nat]
Locals == [pc : {"read", "ack", "insert", "forward", "deliver", "kill"},
           tgt : Conns \cup {NoConn}, msg : Msg, id : Nat]
Jobs == [st : {"none", "running", "over"}, by : Daemons \cup {NoDaemon},
         stream : BOOLEAN, out : Nat]

NoEntry == [conn |-> NoConn, serverID |-> 0]
NoReg   == [name |-> NoName, token |-> NoToken]
NoJob   == [st |-> "none", by |-> NoDaemon, stream |-> FALSE, out |-> 0]
Idle    == [pc |-> "read", tgt |-> NoConn, msg |-> NoMsg, id |-> 0]

Owner(c) == c[1]
Live(d)  == <<d, dials[d]>>        \* td.conn

SockTypes ==
  /\ peerEnd \in [Conns -> BOOLEAN]
  /\ relayEnd \in [Conns -> BOOLEAN]
  /\ up \in [Conns -> Seq(Msg)]
  /\ down \in [Conns -> Seq(Msg)]

RelayTypes ==
  /\ clients \in [Names -> Conns \cup {NoConn}]
  /\ pending \in [ReqIds -> Entries]
  /\ nextId \in Nat \ {0}
  /\ reg \in [Conns -> [name : Names \cup {NoName},
                        token : Tokens \cup {NoToken}]]
  /\ h \in [Conns -> Locals]

DaemonTypes ==
  /\ dproc \in [Daemons -> {"wait", "dialled", "up", "replaced", "killed"}]
  /\ dials \in [Daemons -> 0 .. MaxDials]
  /\ job \in [ReqIds -> Jobs]

ClientTypes ==
  /\ csent \in [Clients -> Nat]
  /\ cwait \in [Clients -> Nat]
  /\ ckind \in [Clients -> Kinds \cup {"none"}]
  /\ shown \in [Clients -> Seq(Lines)]
  /\ answer \in [Clients -> [1 .. MaxExec -> {"none", "refused", "output",
                                              "confirmed", "lost"}]]
  /\ heard \in [Clients -> [1 .. MaxExec -> Nat]]

HistTypes ==
  /\ origin \in [ReqIds -> Entries]
  /\ replaced \in SUBSET Conns
  /\ overtaken \in SUBSET Conns

\* Every frame on a socket, and every local of a split handler, has the type
\* its reader expects, whatever connection it comes from.
TypeOK == SockTypes /\ RelayTypes /\ DaemonTypes /\ ClientTypes /\ HistTypes

Init ==
  /\ peerEnd = [c \in Conns |-> FALSE]
  /\ relayEnd = [c \in Conns |-> FALSE]
  /\ up = [c \in Conns |-> <<>>]
  /\ down = [c \in Conns |-> <<>>]
  /\ clients = [n \in Names |-> NoConn]
  /\ pending = [i \in ReqIds |-> NoEntry]
  /\ nextId = 1
  /\ reg = [c \in Conns |-> NoReg]
  /\ h = [c \in Conns |-> Idle]
  /\ dproc = [d \in Daemons |-> "wait"]
  /\ dials = [d \in Daemons |-> 0]
  /\ job = [i \in ReqIds |-> NoJob]
  /\ csent = [cl \in Clients |-> 0]
  /\ cwait = [cl \in Clients |-> 0]
  /\ ckind = [cl \in Clients |-> "none"]
  /\ shown = [cl \in Clients |-> <<>>]
  /\ answer = [cl \in Clients |-> [k \in 1 .. MaxExec |-> "none"]]
  /\ heard = [cl \in Clients |-> [k \in 1 .. MaxExec |-> 0]]
  /\ origin = [i \in ReqIds |-> NoEntry]
  /\ replaced = {}
  /\ overtaken = {}

---------------------------------------------------------------------------
(* Sending.  A frame written to a socket whose far end has gone is lost,   *)
(* with or without the writer being told.                                  *)

Arrives(c) == peerEnd[c] /\ relayEnd[c]
DownWith(c, m) == IF Arrives(c) THEN [down EXCEPT ![c] = Append(@, m)] ELSE down
SendFails(c) == ~peerEnd[c] \/ ~relayEnd[c]
SendReturnsNil(c) == relayEnd[c]

Incoming(c, types) ==
  /\ relayEnd[c]
  /\ h[c].pc = "read"
  /\ up[c] # <<>>
  /\ Head(up[c]).type \in types

Consume(c) == up' = [up EXCEPT ![c] = Tail(@)]
Goto(c, pc, tgt, m, id) ==
  h' = [h EXCEPT ![c] = [pc |-> pc, tgt |-> tgt, msg |-> m, id |-> id]]

\* handleWS returning without a registration: conn.Close and nothing else.
Hangup(c) ==
  /\ relayEnd' = [relayEnd EXCEPT ![c] = FALSE]
  /\ up' = [up EXCEPT ![c] = <<>>]
  /\ h' = [h EXCEPT ![c] = Idle]

---------------------------------------------------------------------------
(* handleRegister *)

SecretMissing(c) == Owner(c) \in Unauth /\ NameOf[Owner(c)] \notin Exempt
HeldByOther(c) ==
  LET old == clients[NameOf[Owner(c)]]
  IN  old # NoConn /\ reg[old].token # TokenOf[Owner(c)]

\* The connection that had the name is told so, under rs.mu.
\* Variant: the newcomer is told instead.
NotifyNewcomer(c, old) == DownWith(c, Frame("replaced", 0, 0, 0))
NotifyReplaced(c, old) == DownWith(old, Frame("replaced", 0, 0, 0))

RejectRegister(c) ==
  /\ Incoming(c, {"register"})
  /\ SecretMissing(c) \/ HeldByOther(c)
  /\ down' = DownWith(c, Frame(IF SecretMissing(c) THEN "error" ELSE "taken",
                               0, 0, 0))
  /\ Hangup(c)
  /\ UNCHANGED <<peerEnd, clients, pending, nextId, reg, daemonVars,
                 clientVars, histVars>>

AcceptRegister(c) ==
  LET n == NameOf[Owner(c)]
      old == clients[n]
  IN
  /\ Incoming(c, {"register"})
  /\ ~SecretMissing(c) /\ ~HeldByOther(c)
  /\ clients' = [clients EXCEPT ![n] = c]
  /\ reg' = [reg EXCEPT ![c] = [name |-> n, token |-> TokenOf[Owner(c)]]]
  /\ IF old = NoConn
     THEN UNCHANGED <<down, replaced, overtaken>>
     ELSE /\ down' = NotifyReplaced(c, old)
          /\ replaced' = replaced \cup {old}
          /\ overtaken' = IF Owner(old) = Owner(c) /\ c[2] < old[2]
                          THEN overtaken \cup {old} ELSE overtaken
  /\ Goto(c, "ack", c, Frame("registered", 0, 0, 0), 0)
  /\ Consume(c)
  /\ UNCHANGED <<peerEnd, relayEnd, pending, nextId, daemonVars, clientVars,
                 origin>>

\* The rest of a handler that has only a frame left to send: "registered"
\* after handleRegister unlocks, a reply after its pending entry was read.
Deliver(c) ==
  /\ h[c].pc \in {"ack", "deliver"}
  /\ down' = DownWith(h[c].tgt, h[c].msg)
  /\ h' = [h EXCEPT ![c] = Idle]
  /\ UNCHANGED <<peerEnd, relayEnd, up, clients, pending, nextId, reg,
                 daemonVars, clientVars, histVars>>

---------------------------------------------------------------------------
(* handleExecute and handleDisconnect *)

ClientMsgs == {"execute", "stream", "disconnect"}

\* What the two handlers answer when they refuse: disconnect has no id.
Refusal(m) == IF m.type = "disconnect" THEN Frame("error", 0, 0, 0)
                                       ELSE errResult(m.id)

\* ctx.authenticated: the relay secret was presented, or none is set.
Authenticated(c) == Owner(c) \notin Unauth

\* clientOnlyMessages from a connection without the relay secret.
RejectClient(c) ==
  /\ Incoming(c, ClientMsgs)
  /\ ~Authenticated(c)
  /\ down' = DownWith(c, Refusal(Head(up[c])))
  /\ Hangup(c)
  /\ UNCHANGED <<peerEnd, clients, pending, nextId, reg, daemonVars,
                 clientVars, histVars>>

\* The target is looked up under RLock; its token is compared after RUnlock.
\* Variant: a listed name is enough.
TargetListed(c, tgt) == tgt # NoConn
TargetOK(c, tgt) == tgt # NoConn /\ reg[tgt].token = WantToken[Owner(c)]

LookupFails(c) ==
  /\ Incoming(c, ClientMsgs)
  /\ Authenticated(c)
  /\ ~TargetOK(c, clients[WantName[Owner(c)]])
  /\ down' = DownWith(c, Refusal(Head(up[c])))
  /\ Consume(c)
  /\ UNCHANGED <<peerEnd, relayEnd, relayVars, daemonVars, clientVars,
                 histVars>>

LookupFinds(c) ==
  LET tgt == clients[WantName[Owner(c)]]
      m == Head(up[c])
  IN
  /\ Incoming(c, ClientMsgs)
  /\ Authenticated(c)
  /\ TargetOK(c, tgt)
  /\ IF m.type = "disconnect"
     THEN Goto(c, "kill", tgt, Frame("disconnect", 0, 0, 0), 0)
     ELSE Goto(c, "insert", tgt,
               Frame("command", 0, 0, IF m.type = "stream" THEN 1 ELSE 0), m.id)
  /\ Consume(c)
  /\ UNCHANGED <<peerEnd, relayEnd, down, clients, pending, nextId, reg,
                 daemonVars, clientVars, histVars>>

\* newID draws an id nobody has used.
FreshId(i) == i + 1

\* rs.pending[newID()] = &pendingRequest{serverID: msg.ID, clientConn: rc}
InsertPending(c) ==
  LET entry == [conn |-> c, serverID |-> h[c].id]
  IN
  /\ h[c].pc = "insert"
  /\ nextId \in ReqIds
  /\ pending' = [pending EXCEPT ![nextId] = entry]
  /\ origin' = [origin EXCEPT ![nextId] = entry]
  /\ nextId' = FreshId(nextId)
  /\ h' = [h EXCEPT ![c].pc = "forward", ![c].msg.id = nextId]
  /\ UNCHANGED <<sockVars, clients, reg, daemonVars, clientVars, replaced,
                 overtaken>>

ForwardSent(c) ==
  /\ h[c].pc = "forward"
  /\ SendReturnsNil(h[c].tgt)
  /\ down' = DownWith(h[c].tgt, h[c].msg)
  /\ h' = [h EXCEPT ![c] = Idle]
  /\ UNCHANGED <<peerEnd, relayEnd, up, clients, pending, nextId, reg,
                 daemonVars, clientVars, histVars>>

\* cleanupPending, then errResult to the client.
ForwardFails(c) ==
  /\ h[c].pc = "forward"
  /\ SendFails(h[c].tgt)
  /\ pending' = [pending EXCEPT ![h[c].msg.id] = NoEntry]
  /\ down' = DownWith(c, errResult(h[c].id))
  /\ h' = [h EXCEPT ![c] = Idle]
  /\ UNCHANGED <<peerEnd, relayEnd, up, clients, nextId, reg, daemonVars,
                 clientVars, histVars>>

\* handleDisconnect after the token check.
ForwardKill(c) ==
  /\ h[c].pc = "kill"
  /\ \/ /\ SendReturnsNil(h[c].tgt)
        /\ LET sent == DownWith(h[c].tgt, h[c].msg)
               yes == Frame("disconnect_confirmed", 0, 0, 0)
           IN  down' = IF Arrives(c) THEN [sent EXCEPT ![c] = Append(@, yes)]
                                     ELSE sent
     \/ /\ SendFails(h[c].tgt)
        /\ down' = DownWith(c, Frame("error", 0, 0, 0))
  /\ h' = [h EXCEPT ![c] = Idle]
  /\ UNCHANGED <<peerEnd, relayEnd, up, clients, pending, nextId, reg,
                 daemonVars, clientVars, histVars>>

---------------------------------------------------------------------------
(* handleResult (single target), handleStreamChunk, handleStreamEnd: the   *)
(* entry is read, and for a final frame deleted, under the lock; the       *)
(* frame goes to the client after the unlock.                              *)

\* Only a final frame uses the entry up.
EndsRequest(m) == m.type # "stream_chunk"

\* msg.ID = pr.serverID.  Variant: the daemon's id goes to the client.
Untranslated(m, pr) == m
Translated(m, pr) == [m EXCEPT !.id = pr.serverID]

\* rs.pending[msg.ID].  Variant: replies come in the order of the requests.
OldestPending(m) ==
  LET live == {i \in ReqIds : pending[i] # NoEntry}
  IN  IF live = {} THEN NoEntry
      ELSE pending[CHOOSE i \in live : \A j \in live : i <= j]
PendingOf(m) == IF m.id \in ReqIds THEN pending[m.id] ELSE NoEntry

HandleReply(c) ==
  LET m == Head(up[c])
      pr == PendingOf(m)
  IN
  /\ Incoming(c, {"result", "stream_chunk", "stream_end"})
  /\ Consume(c)
  /\ IF pr = NoEntry
     THEN UNCHANGED <<pending, h>>
     ELSE /\ Goto(c, "deliver", pr.conn, Translated(m, pr), 0)
          /\ pending' = IF EndsRequest(m)
                        THEN [pending EXCEPT ![m.id] = NoEntry] ELSE pending
  /\ UNCHANGED <<peerEnd, relayEnd, down, clients, nextId, reg, daemonVars,
                 clientVars, histVars>>

---------------------------------------------------------------------------
(* The end of a connection at the relay: ReadMessage fails, and unregister *)
(* runs only if the connection ever sent an accepted register.             *)

MayBreak(c) == Breaks /\ (Owner(c) \in Daemons => c[2] <= MaxBreaks)

\* `existing == rc'.  Variant: delete by name, whoever has it now.
UnregisteredByName(c) == [n \in Names |-> IF n = reg[c].name THEN NoConn
                                          ELSE clients[n]]
Unregistered(c) == [n \in Names |-> IF n = reg[c].name /\ clients[n] = c
                                    THEN NoConn ELSE clients[n]]

Unregister(c) ==
  /\ h[c].pc = "read"
  /\ IF reg[c] # NoReg
     THEN /\ clients' = Unregistered(c)
          /\ pending' = [i \in ReqIds |-> IF pending[i].conn = c THEN NoEntry
                                          ELSE pending[i]]
     ELSE UNCHANGED <<clients, pending>>
  /\ Hangup(c)
  /\ UNCHANGED <<peerEnd, down, nextId, reg, daemonVars, clientVars, histVars>>

\* The peer is gone and its last frame has been read (or the pong is late).
HandlerEOF(c) ==
  /\ relayEnd[c]
  /\ ~peerEnd[c]
  /\ up[c] = <<>>
  /\ Unregister(c)

\* The network fails on the relay's side first.
HandlerBreak(c) ==
  /\ relayEnd[c]
  /\ MayBreak(c)
  /\ Unregister(c)

\* The relay process dies and is started again: its maps are empty and
\* every socket is cut.
RelayRestart ==
  /\ Breaks
  /\ \E c \in Conns : relayEnd[c]
  /\ \A c \in Conns : relayEnd[c] => MayBreak(c)
  /\ relayEnd' = [c \in Conns |-> FALSE]
  /\ up' = [c \in Conns |-> <<>>]
  /\ h' = [c \in Conns |-> Idle]
  /\ clients' = [n \in Names |-> NoConn]
  /\ pending' = [i \in ReqIds |-> NoEntry]
  /\ UNCHANGED <<peerEnd, down, nextId, reg, daemonVars, clientVars, histVars>>

---------------------------------------------------------------------------
(* Daemons *)

Running(d) == {i \in ReqIds : job[i].st = "running" /\ job[i].by = d}

\* The frames of an abandoned socket that still reach the relay: a prefix.
Abandon(c) ==
  /\ peerEnd' = [peerEnd EXCEPT ![c] = FALSE]
  /\ down' = [down EXCEPT ![c] = <<>>]
  /\ \E n \in 0 .. Len(up[c]) : up' = [up EXCEPT ![c] = SubSeq(@, 1, n)]

\* run: dialRelay, td.conn = conn.  Commands still running from an earlier
\* connection write to this one from now on, even before it registers.
DaemonDial(d) ==
  /\ dproc[d] = "wait"
  /\ dials[d] < MaxDials
  /\ LET c == <<d, dials[d] + 1>>
     IN  /\ peerEnd' = [peerEnd EXCEPT ![c] = TRUE]
         /\ relayEnd' = [relayEnd EXCEPT ![c] = TRUE]
  /\ dials' = [dials EXCEPT ![d] = @ + 1]
  /\ dproc' = [dproc EXCEPT ![d] = "dialled"]
  /\ UNCHANGED <<up, down, relayVars, job, clientVars, histVars>>

\* td.send writes to td.conn, whichever connection that is by now; on a
\* broken one the frame is only logged.
UpWith(d, m) ==
  IF dials[d] > 0 /\ Arrives(Live(d))
  THEN [up EXCEPT ![Live(d)] = Append(@, m)] ELSE up

\* The register frame is sent, and the read loop begins.
DaemonRegister(d) ==
  /\ dproc[d] = "dialled"
  /\ up' = UpWith(d, Frame("register", 0, 0, 0))
  /\ dproc' = [dproc EXCEPT ![d] = "up"]
  /\ UNCHANGED <<peerEnd, relayEnd, down, relayVars, dials, job, clientVars,
                 histVars>>

\* The read loop fails.  Commands in flight go on.
Disconnected(d) ==
  /\ Abandon(Live(d))
  /\ dproc' = [dproc EXCEPT ![d] = "wait"]
  /\ UNCHANGED <<relayEnd, relayVars, dials, job, clientVars, histVars>>

\* The relay hung up.
DaemonEOF(d) ==
  /\ dproc[d] = "up"
  /\ ~relayEnd[Live(d)]
  /\ down[Live(d)] = <<>>
  /\ Disconnected(d)

\* The network fails on the daemon's side first.
DaemonBreak(d) ==
  /\ dproc[d] = "up"
  /\ MayBreak(Live(d))
  /\ Disconnected(d)

EndJobs(d) ==
  job' = [i \in ReqIds |-> IF i \in Running(d) THEN [job[i] EXCEPT !.st = "over"]
                           ELSE job[i]]

\* The process is killed and started again by its supervisor.  One that
\* has none is as if its connection broke and it took no step any more.
DaemonCrash(d) ==
  /\ d \in Supervised
  /\ dproc[d] \in {"dialled", "up"}
  /\ MayBreak(Live(d))
  /\ Abandon(Live(d))
  /\ dproc' = [dproc EXCEPT ![d] = "wait"]
  /\ EndJobs(d)
  /\ UNCHANGED <<relayEnd, relayVars, dials, clientVars, histVars>>

DaemonHas(d, types) ==
  /\ dproc[d] = "up"
  /\ down[Live(d)] # <<>>
  /\ Head(down[Live(d)]).type \in types

\* "command": a goroutine runs it.
DaemonCommand(d) ==
  LET m == Head(down[Live(d)])
  IN
  /\ DaemonHas(d, {"command"})
  /\ down' = [down EXCEPT ![Live(d)] = Tail(@)]
  /\ job' = [job EXCEPT ![m.id] = [st |-> "running", by |-> d,
                                   stream |-> m.seq = 1, out |-> 0]]
  /\ UNCHANGED <<peerEnd, relayEnd, up, relayVars, dproc, dials, clientVars,
                 histVars>>

\* "registered" and the errors that are only logged.
DaemonNotice(d) ==
  /\ DaemonHas(d, {"registered", "taken", "error"})
  /\ down' = [down EXCEPT ![Live(d)] = Tail(@)]
  /\ UNCHANGED <<peerEnd, relayEnd, up, relayVars, daemonVars, clientVars,
                 histVars>>

\* "replaced by new connection" and "disconnect": the process exits.
DaemonExit(d) ==
  /\ DaemonHas(d, {"replaced", "disconnect"})
  /\ dproc' = [dproc EXCEPT ![d] = IF Head(down[Live(d)]).type = "replaced"
                                   THEN "replaced" ELSE "killed"]
  /\ Abandon(Live(d))
  /\ EndJobs(d)
  /\ UNCHANGED <<relayEnd, relayVars, dials, clientVars, histVars>>

\* The service manager starts what has exited, with whatever exit code.
SupervisorRestarts(d) ==
  /\ d \in Supervised
  /\ dproc[d] \in {"replaced", "killed"}
  /\ dproc' = [dproc EXCEPT ![d] = "wait"]
  /\ UNCHANGED <<sockVars, relayVars, dials, job, clientVars, histVars>>

EmitChunk(i) ==
  /\ job[i].st = "running" /\ job[i].stream /\ job[i].out < Chunks
  /\ up' = UpWith(job[i].by, Frame("stream_chunk", i, i, job[i].out + 1))
  /\ job' = [job EXCEPT ![i].out = @ + 1]
  /\ UNCHANGED <<peerEnd, relayEnd, down, relayVars, dproc, dials, clientVars,
                 histVars>>

\* The command ended or was killed at its time-out and nothing it started
\* holds its pipes any more: stream_end after wg.Wait, or a result.
\* Variant: the count is one short.
FinalFrameShort(i) == Frame("result", i, i, job[i].out - 1)
FinalFrame(i) == Frame(IF job[i].stream THEN "stream_end" ELSE "result",
                       i, i, job[i].out)

EmitFinal(i) ==
  /\ job[i].st = "running"
  /\ up' = UpWith(job[i].by, FinalFrame(i))
  /\ job' = [job EXCEPT ![i].st = "over"]
  /\ UNCHANGED <<peerEnd, relayEnd, down, relayVars, dproc, dials, clientVars,
                 histVars>>

---------------------------------------------------------------------------
(* Clients *)

CConn(cl) == <<cl, 1>>

\* The one-shot commands dial and send; a client session sends again on the
\* same socket.  `pair disconnect' has a socket of its own.
ClientSend(cl, kind) ==
  LET c == CConn(cl)
      m == Frame(kind, IF kind = "disconnect" THEN 0 ELSE csent[cl] + 1, 0, 0)
  IN
  /\ cwait[cl] = 0 /\ csent[cl] < MaxExec
  /\ csent[cl] > 0 => peerEnd[c] /\ "disconnect" \notin {kind, ckind[cl]}
  /\ peerEnd' = [peerEnd EXCEPT ![c] = TRUE]
  /\ IF csent[cl] = 0
     THEN /\ relayEnd' = [relayEnd EXCEPT ![c] = TRUE]
          /\ up' = [up EXCEPT ![c] = <<m>>]
     ELSE /\ UNCHANGED relayEnd
          /\ up' = IF relayEnd[c] THEN [up EXCEPT ![c] = Append(@, m)] ELSE up
  /\ csent' = [csent EXCEPT ![cl] = @ + 1]
  /\ cwait' = [cwait EXCEPT ![cl] = csent[cl] + 1]
  /\ ckind' = [ckind EXCEPT ![cl] = kind]
  /\ shown' = [shown EXCEPT ![cl] = <<>>]
  /\ UNCHANGED <<down, relayVars, daemonVars, answer, heard, histVars>>

\* Which frames the reader of the current request accepts.  Variant: it
\* does not look at the id.
AcceptsAny(cl, m) == cwait[cl] # 0
Accepts(cl, m) ==
  /\ cwait[cl] # 0
  /\ IF ckind[cl] = "disconnect" THEN m.type \in {"disconnect_confirmed", "error"}
     ELSE m.id = cwait[cl] \/ (m.type = "error" /\ m.id = 0)

\* The reader returns on stream_end, result and error.
ReturnsOn(m) == m.type # "stream_chunk"

Outcome(m) == CASE m.type = "disconnect_confirmed" -> "confirmed"
                [] m.run # 0 -> "output"
                [] OTHER -> "refused"

ClientRecv(cl) ==
  LET c == CConn(cl)
      m == Head(down[c])
  IN
  /\ peerEnd[c] /\ down[c] # <<>>
  /\ down' = [down EXCEPT ![c] = Tail(@)]
  /\ IF ~Accepts(cl, m) THEN UNCHANGED <<cwait, shown, answer, heard>>
     ELSE IF ReturnsOn(m)
          THEN /\ cwait' = [cwait EXCEPT ![cl] = 0]
               /\ answer' = [answer EXCEPT ![cl][cwait[cl]] = Outcome(m)]
               /\ heard' = [heard EXCEPT ![cl][cwait[cl]] = m.run]
               /\ UNCHANGED shown
          ELSE /\ shown' = [shown EXCEPT ![cl] = Append(@, <<m.run, m.seq>>)]
               /\ UNCHANGED <<cwait, answer, heard>>
  /\ UNCHANGED <<peerEnd, relayEnd, up, relayVars, daemonVars, csent, ckind,
                 histVars>>

GiveUp(cl) ==
  /\ cwait' = [cwait EXCEPT ![cl] = 0]
  /\ answer' = IF cwait[cl] = 0 THEN answer
               ELSE [answer EXCEPT ![cl][cwait[cl]] = "lost"]
  /\ UNCHANGED <<csent, ckind, shown, heard>>

\* time.After(timeout+5) fires first; a session keeps its socket.
ClientTimeout(cl) ==
  /\ Timeouts
  /\ cwait[cl] # 0
  /\ GiveUp(cl)
  /\ UNCHANGED <<sockVars, relayVars, daemonVars, histVars>>

\* The client ends, or its read fails.
ClientClose(cl) ==
  LET c == CConn(cl)
  IN
  /\ peerEnd[c]
  /\ Breaks \/ cwait[cl] = 0 \/ (~relayEnd[c] /\ down[c] = <<>>)
  /\ Abandon(c)
  /\ GiveUp(cl)
  /\ UNCHANGED <<relayEnd, relayVars, daemonVars, histVars>>

---------------------------------------------------------------------------
Handler(c) ==
  \/ RejectRegister(c) \/ AcceptRegister(c) \/ Deliver(c)
  \/ RejectClient(c) \/ LookupFails(c) \/ LookupFinds(c)
  \/ InsertPending(c) \/ ForwardSent(c) \/ ForwardFails(c) \/ ForwardKill(c)
  \/ HandleReply(c) \/ HandlerEOF(c)

DaemonStep(d) ==
  \/ DaemonDial(d) \/ DaemonRegister(d) \/ DaemonEOF(d)
  \/ DaemonCommand(d) \/ DaemonNotice(d) \/ DaemonExit(d)
  \/ SupervisorRestarts(d)

ClientStep(cl) ==
  \/ \E kind \in Kinds : ClientSend(cl, kind)
  \/ ClientRecv(cl) \/ ClientTimeout(cl) \/ ClientClose(cl)

Next ==
  \/ \E c \in Conns : Handler(c)
  \/ \E d \in Daemons : DaemonStep(d)
  \/ \E i \in ReqIds : EmitChunk(i) \/ EmitFinal(i)
  \/ \E cl \in Clients : ClientStep(cl)
  \/ \E c \in Conns : HandlerBreak(c)
  \/ \E d \in Daemons : DaemonBreak(d) \/ DaemonCrash(d)
  \/ RelayRestart

Spec == Init /\ [][Next]_vars

\* A relay goroutine is scheduled, a daemon reads, redials every 5 s, is
\* restarted if supervised and notices a dead link, a client reads.  Nobody
\* has to send a command, nothing has to break, and no command has to end:
\* its time-out kills the shell, and Run waits for whoever holds the pipes.
Fairness ==
  /\ \A c \in Conns : WF_vars(Handler(c))
  /\ \A d \in Daemons : WF_vars(DaemonStep(d))
  /\ \A cl \in Clients : WF_vars(ClientRecv(cl))

FairSpec == Spec /\ Fairness

---------------------------------------------------------------------------
(***************************************************************************)
(* Properties                                                              *)
(***************************************************************************)

\* The routing table is exact: a name leads to a connection if and only if
\* the relay is still reading that connection, it registered the name, and
\* nobody has taken the name over since.  A late unregister of a stale
\* socket must not evict the daemon that has already come back
\* (`existing == rc' in unregister), and no dead socket may stay listed.
RegistryExact ==
  \A n \in Names, c \in Conns :
    clients[n] = c <=> relayEnd[c] /\ reg[c].name = n /\ c \notin replaced

\* Client connection c may command daemon d.
Entitled(c, d) ==
  /\ c \in CConns
  /\ Owner(c) \notin Unauth
  /\ NameOf[d] = WantName[Owner(c)]
  /\ TokenOf[d] = WantToken[Owner(c)]

\* A command that is on its way to a daemon, or was ever executed, was asked
\* for by a client that presented the relay secret, that daemon's name and
\* that daemon's token: although handleExecute compares the token before
\* the entry is made and the frame is sent, and the name may change hands in
\* between.  The kill switch is held to the same.
CommandAuthorised ==
  /\ \A c \in Conns : \A j \in DOMAIN down[c] :
       down[c][j].type = "command" =>
         /\ c \in DConns
         /\ down[c][j].id \in ReqIds
         /\ Entitled(origin[down[c][j].id].conn, Owner(c))
  /\ \A i \in ReqIds :
       job[i].st # "none" => Entitled(origin[i].conn, job[i].by)
  /\ \A d \in Daemons :
       dproc[d] = "killed" => \E cl \in Clients : Entitled(CConn(cl), d)

\* Another process has registered d's name with d's token.
Duplicate(d) ==
  \E e \in Daemons \ {d}, n \in 1 .. MaxDials :
    reg[<<e, n>>] = [name |-> NameOf[d], token |-> TokenOf[d]]

\* A daemon that exits on "replaced by new connection" does so because
\* another process registered its name with its token (what the comment in
\* TargetDaemon.run says), or because the register frame of a socket it had
\* given up was read after that of its live one; whatever else was lost,
\* restarted or taken over, and however late it is told.
ReplacedExplained ==
  \A d \in Daemons :
    dproc[d] = "replaced" =>
      Duplicate(d) \/ \E c \in overtaken : Owner(c) = d

\* The comment itself: "our own reconnects always use a fresh socket, so a
\* replacement notice on the live one means another process registered".
ReplacedMeansDuplicate ==
  \A d \in Daemons : dproc[d] = "replaced" => Duplicate(d)

\* Client cl's streamed request is reported complete by this step.
StreamCompletes(cl) ==
  /\ ckind[cl] = "stream"
  /\ cwait[cl] # 0 /\ cwait'[cl] = 0
  /\ answer'[cl][cwait[cl]] = "output"

\* The frame that says so, and the lines of which its command told.
LastFrame(cl) == Head(down[CConn(cl)])
Printed(cl) == [j \in 1 .. LastFrame(cl).seq |-> <<LastFrame(cl).run, j>>]

\* Id i was drawn for the request client cl is waiting for.
AskedBy(cl, i) ==
  /\ i \in ReqIds
  /\ origin[i] = [conn |-> CConn(cl), serverID |-> cwait[cl]]

\* When a streamed command is reported complete, it is the command the
\* client asked for, and the client has shown lines of that command only and
\* none twice; and as long as its target has not had to dial again, all the
\* lines the daemon read from the pipes, in their order, whatever was still
\* under way for earlier requests and other clients.
StreamFaithful ==
  [][\A cl \in Clients : StreamCompletes(cl) =>
       /\ AskedBy(cl, LastFrame(cl).run)
       /\ ToSet(shown[cl]) \subseteq ToSet(Printed(cl))
       /\ IsInjective(shown[cl])
       /\ (\A d \in Daemons : NameOf[d] = WantName[cl] => dials[d] <= 1) =>
            shown[cl] = Printed(cl)]_vars

\* Once connections stop breaking, one daemon of every name is routed to for
\* good, whatever sockets and register frames were left behind: duplicates
\* settle on one as long as one of them at most is started again.
SomeDaemonRouted ==
  \A n \in Names :
    (\E d \in Daemons : NameOf[d] = n) =>
      <>[](\E d \in Daemons : clients[n] = Live(d) /\ dproc[d] = "up")

\* The command of client cl's k-th request is running.
RunsFor(cl, k) ==
  \E i \in ReqIds : /\ job[i].st = "running"
                     /\ origin[i] = [conn |-> CConn(cl), serverID |-> k]

\* The daemon client cl means was switched off.
SwitchedOff(cl) ==
  \E d \in Daemons : NameOf[d] = WantName[cl] /\ dproc[d] = "killed"

\* With nothing broken, a client that does not give up is answered, refusals
\* included, or its command runs, and once that no longer runs it is
\* answered; unless somebody switches the daemon off meanwhile.
EveryRequestAnswered ==
  \A cl \in Clients, k \in 1 .. MaxExec :
    cwait[cl] = k /\ relayEnd[CConn(cl)] /\ ~RunsFor(cl, k) ~>
      cwait[cl] # k \/ RunsFor(cl, k) \/ SwitchedOff(cl)

---------------------------------------------------------------------------
(* What a caller may rely on, as the abstract specification ExecService.   *)

Requests == Clients \X (1 .. MaxExec)
ReqOf(i) == <<Owner(origin[i].conn), origin[i].serverID>>

Service == INSTANCE ExecService WITH
  Workers <- ReqIds \X Daemons,
  May <- [r \in Requests |-> ReqIds \X {d \in Daemons : Entitled(CConn(r[1]), d)}],
  asked <- [r \in Requests |-> r[2] <= csent[r[1]]],
  ran <- [r \in Requests |-> {<<i, job[i].by>> :
            i \in {x \in ReqIds : /\ job[x].st # "none"
                                  /\ origin[x].conn # NoConn
                                  /\ ReqOf(x) = r}}],
  reply <- [r \in Requests |-> answer[r[1]][r[2]]],
  output <- [r \in Requests |-> {<<i, job[i].by>> :
               i \in {x \in ReqIds : x = heard[r[1]][r[2]]}}]

\* A request runs at most once, only on a daemon its client is entitled to,
\* the output it is answered with is that of its own run and not of another
\* request's that ran beside or before it, and one that was refused never
\* runs.
ImplementsService == Service!Spec
=============================================================================
