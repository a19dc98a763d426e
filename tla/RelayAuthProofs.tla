-------------------------- MODULE RelayAuthProofs --------------------------
(***************************************************************************)
(* What RelayHub promises about commands, for any daemons, clients, names, *)
(* tokens and bounds.  First CommandAuthorised.  handleExecute looks the   *)
(* target up under RLock and compares its token afterwards; the entry is   *)
(* made and the frame is sent later still.  The argument: what the handler *)
(* holds is a connection, not a name, and what a connection is registered  *)
(* as is settled by its owner (RegInv), so a name that changes hands       *)
(* meanwhile changes nothing; and the origin of a request id never changes *)
(* once the id is drawn.  The take-over of a name follows, then that the   *)
(* hub implements ExecService (ImplementsService), and last that a         *)
(* streamed command is shown as it was printed (StreamFaithful).           *)
(***************************************************************************)
EXTENDS RelayHubProofs

\* Somebody may switch daemon d off.
Condemned(d) == \E cl \in Clients : Entitled(CConn(cl), d)

\* Request i was drawn, and its client may command daemon d.
Ordered(i, d) == i \in ReqIds /\ i < nextId /\ Entitled(origin[i].conn, d)

\* Frame m may stand in the queue to the peer of c.
Fine(c, m) ==
  /\ m.type = "command" => c \in DConns /\ Ordered(m.id, Owner(c))
  /\ m.type = "disconnect" => c \in DConns /\ Condemned(Owner(c))

DownInv == \A c \in Conns : \A j \in 1 .. Len(down[c]) : Fine(c, down[c][j])

(***************************************************************************)
(* A handler past the token comparison holds a daemon's connection that    *)
(* its client may command; past the insertion, its request's id.           *)
(***************************************************************************)
Purpose(c) ==
  /\ h[c].pc \in {"insert", "forward", "kill"} =>
       /\ c \in CConns
       /\ h[c].tgt \in DConns
       /\ Entitled(c, Owner(h[c].tgt))
  /\ h[c].pc \in {"insert", "forward"} => h[c].msg.type = "command"
  /\ h[c].pc = "kill" => h[c].msg.type = "disconnect"
  /\ h[c].pc \in {"ack", "deliver"} => h[c].msg.type \notin {"command", "disconnect"}
  /\ h[c].pc = "forward" =>
       /\ h[c].msg.id \in ReqIds
       /\ h[c].msg.id < nextId
       /\ origin[h[c].msg.id].conn = c

HandlerInv == \A c \in Conns : Purpose(c)

JobInv == \A i \in ReqIds : job[i].st # "none" => Ordered(i, job[i].by)

DaemonInv ==
  \A d \in Daemons :
    /\ dproc[d] \in {"dialled", "up"} => dials[d] >= 1
    /\ dproc[d] = "killed" => Condemned(d)

AuthInv == DownInv /\ HandlerInv /\ JobInv /\ DaemonInv

---------------------------------------------------------------------------
(***************************************************************************)
(* Queues to the peers                                                     *)
(***************************************************************************)

\* Frames that command nothing may stand anywhere.
LEMMA FineNotice ==
  ASSUME NEW c, NEW m, m.type \notin {"command", "disconnect"}
  PROVE  Fine(c, m)
  BY DEF Fine

\* An element of the tail is an element of the sequence.
LEMMA TailElement ==
  ASSUME NEW s \in Seq(Msg), s # <<>>
  PROVE  \A i \in 1 .. Len(Tail(s)) :
           i + 1 \in 1 .. Len(s) /\ Tail(s)[i] = s[i + 1]
  OBVIOUS

\* What one queue gets is fine: appended, shortened or emptied.
LEMMA DownAppend ==
  ASSUME NEW q \in [Conns -> Seq(Msg)], NEW c, NEW m \in Msg,
         c \in Conns => Fine(c, m),
         \A x \in Conns : \A j \in 1 .. Len(q[x]) : Fine(x, q[x][j]),
         NEW r, r = [q EXCEPT ![c] = Append(@, m)]
  PROVE  \A x \in Conns : \A j \in 1 .. Len(r[x]) : Fine(x, r[x][j])
<1> SUFFICES ASSUME NEW x \in Conns, NEW j \in 1 .. Len(r[x])
             PROVE  Fine(x, r[x][j])
  OBVIOUS
<1>1. CASE x = c
  <2>1. r[x] = Append(q[x], m) /\ q[x] \in Seq(Msg)
    BY <1>1
  <2>2. (j \in 1 .. Len(q[x]) /\ r[x][j] = q[x][j]) \/ r[x][j] = m
    BY <2>1
  <2> QED
    BY <1>1, <2>2
<1>2. CASE x # c
  <2>1. r[x] = q[x]
    BY <1>2
  <2> QED
    BY <2>1
<1> QED
  BY <1>1, <1>2

\* A fine frame written to a socket, arriving or lost, leaves fine queues.
LEMMA DownWithFine ==
  ASSUME SockTypes, DownInv, NEW c, NEW m \in Msg, c \in Conns => Fine(c, m)
  PROVE  \A x \in Conns : \A j \in 1 .. Len(DownWith(c, m)[x]) :
           Fine(x, DownWith(c, m)[x][j])
<1>1. CASE DownWith(c, m) = down
  BY <1>1 DEF DownInv
<1>2. CASE DownWith(c, m) = [down EXCEPT ![c] = Append(@, m)]
  BY <1>2, DownAppend DEF DownInv, SockTypes
<1> QED
  BY <1>1, <1>2 DEF DownWith

\* Fine does not depend on what a step that draws no id changes.
LEMMA FineKept ==
  ASSUME UNCHANGED <<origin, nextId>>,
         \A x \in Conns : \A j \in 1 .. Len(down'[x]) : Fine(x, down'[x][j])
  PROVE  DownInv'
<1>1. ASSUME NEW x, NEW m PROVE Fine(x, m) => Fine(x, m)'
  BY DEF Fine, Ordered
<1> QED
  BY <1>1 DEF DownInv

\* A frame sent down, ...
LEMMA DownSend ==
  ASSUME SockTypes, DownInv, NEW c, NEW m \in Msg, c \in Conns => Fine(c, m),
         down' = DownWith(c, m), UNCHANGED <<origin, nextId>>
  PROVE  DownInv'
  BY DownWithFine, FineKept

\* ... the first one taken, ...
LEMMA DownTake ==
  ASSUME SockTypes, DownInv, NEW c, c \in Conns => down[c] # <<>>,
         down' = [down EXCEPT ![c] = Tail(@)], UNCHANGED <<origin, nextId>>
  PROVE  DownInv'
<1>1. ASSUME NEW x \in Conns, NEW j \in 1 .. Len(down'[x])
      PROVE  Fine(x, down'[x][j])
  <2>1. CASE x = c
    <3>1. down'[x] = Tail(down[x]) /\ down[x] \in Seq(Msg) /\ down[x] # <<>>
      BY <2>1 DEF SockTypes
    <3>2. \A i \in 1 .. Len(Tail(down[x])) :
            i + 1 \in 1 .. Len(down[x]) /\ Tail(down[x])[i] = down[x][i + 1]
      BY <3>1, TailElement
    <3> QED
      BY <3>1, <3>2 DEF DownInv
  <2>2. CASE x # c
    BY <2>2 DEF SockTypes, DownInv
  <2> QED
    BY <2>1, <2>2
<1> QED
  BY <1>1, FineKept

\* ... or all of them dropped.
LEMMA DownAbandon ==
  ASSUME SockTypes, DownInv, NEW c, Abandon(c), UNCHANGED <<origin, nextId>>
  PROVE  DownInv'
<1>1. ASSUME NEW x \in Conns, NEW j \in 1 .. Len(down'[x])
      PROVE  Fine(x, down'[x][j])
  <2>1. CASE x = c
    <3>1. down'[x] = <<>>
      BY <2>1 DEF SockTypes, Abandon
    <3>2. Len(down'[x]) = 0
      BY <3>1
    <3> QED
      BY <3>2
  <2>2. CASE x # c
    BY <2>2 DEF SockTypes, Abandon, DownInv
  <2> QED
    BY <2>1, <2>2
<1> QED
  BY <1>1, FineKept

\* A daemon reads from its last connection.
LEMMA LiveConn ==
  ASSUME DaemonTypes, DaemonInv, NEW d \in Daemons, dproc[d] = "up"
  PROVE  Live(d) \in DConns /\ Live(d) \in Conns /\ Owner(Live(d)) = d
  BY BoundsAssumption DEF DaemonTypes, DaemonInv, Live, DConns, Conns, Owner

\* The frame a daemon has read.
LEMMA TakenFine ==
  ASSUME SockTypes, DaemonTypes, DownInv, DaemonInv, NEW d \in Daemons,
         NEW types, DaemonHas(d, types)
  PROVE  /\ Live(d) \in DConns /\ Live(d) \in Conns /\ Owner(Live(d)) = d
         /\ down[Live(d)] # <<>>
         /\ Head(down[Live(d)]).type \in types
         /\ Fine(Live(d), Head(down[Live(d)]))
<1>1. Live(d) \in DConns /\ Live(d) \in Conns /\ Owner(Live(d)) = d
  BY LiveConn DEF DaemonHas
<1>2. down[Live(d)] \in Seq(Msg) /\ down[Live(d)] # <<>>
  BY <1>1 DEF SockTypes, DaemonHas
<1>3. 1 \in 1 .. Len(down[Live(d)]) /\ Head(down[Live(d)]) = down[Live(d)][1]
  BY <1>2
<1> QED
  BY <1>1, <1>2, <1>3 DEF DownInv, DaemonHas

---------------------------------------------------------------------------
(***************************************************************************)
(* Steps                                                                   *)
(***************************************************************************)

\* The connection a handler finds under the wanted name, with the wanted
\* token, is one its client may command: the table is exact, and a
\* connection is registered as what its owner is.
LEMMA FoundTarget ==
  ASSUME SockTypes, RelayTypes, QueueInv, RegInv, RegistryExact, NEW c \in Conns,
         Incoming(c, ClientMsgs), Authenticated(c),
         TargetOK(c, clients[WantName[Owner(c)]])
  PROVE  /\ c \in CConns
         /\ clients[WantName[Owner(c)]] \in DConns
         /\ Entitled(c, Owner(clients[WantName[Owner(c)]]))
<1> DEFINE n == WantName[Owner(c)]
           tgt == clients[n]
<1>1. c \in CConns /\ Owner(c) \in Clients /\ n \in Names
  BY ClientMsgOfClient
<1>2. tgt \in Conns /\ reg[tgt].token = WantToken[Owner(c)]
  BY <1>1 DEF RelayTypes, TargetOK
<1>3. reg[tgt].name = n
  BY <1>1, <1>2 DEF RegistryExact
<1>4. reg[tgt] # NoReg
  BY <1>1, <1>3, PeersAssumption DEF NoReg
<1>5. tgt \in DConns /\ reg[tgt] = [name |-> NameOf[Owner(tgt)], token |-> TokenOf[Owner(tgt)]]
  BY <1>2, <1>4 DEF RegInv
<1>6. NameOf[Owner(tgt)] = n /\ TokenOf[Owner(tgt)] = WantToken[Owner(c)]
  BY <1>2, <1>3, <1>5
<1> QED
  BY <1>1, <1>5, <1>6 DEF Entitled, Authenticated

\* The queues to the peers.
LEMMA DownStep == IInv /\ AuthInv /\ Next => DownInv'
<1> SUFFICES ASSUME IInv, AuthInv, Next PROVE DownInv'
  OBVIOUS
<1>0. /\ SockTypes /\ RelayTypes /\ DaemonTypes /\ ClientTypes /\ HistTypes
      /\ QueueInv /\ RegInv /\ RegistryExact
      /\ DownInv /\ HandlerInv /\ JobInv /\ DaemonInv
  BY DEF IInv, TypeOK, AuthInv
<1>a. ASSUME UNCHANGED <<down, origin, nextId>> PROVE DownInv'
  BY <1>0, <1>a, FineKept DEF DownInv
<1>1. ASSUME NEW c \in Conns, RejectRegister(c) PROVE DownInv'
  <2>1. PICK t \in {"error", "taken"} : down' = DownWith(c, Frame(t, 0, 0, 0))
    BY <1>1 DEF RejectRegister
  <2>2. Frame(t, 0, 0, 0) \in Msg /\ Frame(t, 0, 0, 0).type = t
    BY FrameType DEF MsgTypes
  <2>3. Fine(c, Frame(t, 0, 0, 0))
    BY <2>2, FineNotice
  <2> QED
    BY <1>0, <1>1, <2>1, <2>2, <2>3, DownSend DEF RejectRegister, histVars
<1>2. ASSUME NEW c \in Conns, AcceptRegister(c) PROVE DownInv'
  <2> DEFINE m == Frame("replaced", 0, 0, 0)
  <2>1. m \in Msg /\ m.type = "replaced"
    BY FrameType DEF MsgTypes
  <2>2. \A x : Fine(x, m)
    BY <2>1, FineNotice
  <2>3. down' = down \/ down' = DownWith(clients[NameOf[Owner(c)]], m)
    BY <1>2 DEF AcceptRegister, NotifyReplaced
  <2> HIDE DEF m
  <2> QED
    BY <1>0, <1>2, <1>a, <2>1, <2>2, <2>3, DownSend DEF AcceptRegister
<1>3. ASSUME NEW c \in Conns, Deliver(c) PROVE DownInv'
  <2>1. h[c].msg \in Msg /\ h[c].msg.type \notin {"command", "disconnect"}
    BY <1>0, <1>3 DEF RelayTypes, Locals, Deliver, HandlerInv, Purpose
  <2>2. Fine(h[c].tgt, h[c].msg)
    BY <2>1, FineNotice
  <2> QED
    BY <1>0, <1>3, <2>1, <2>2, DownSend DEF Deliver, histVars
<1>4. ASSUME NEW c \in Conns, RejectClient(c) \/ LookupFails(c) PROVE DownInv'
  <2>1. Refusal(Head(up[c])) \in Msg
    BY <1>0, <1>4, RefusalType DEF RejectClient, LookupFails
  <2>2. Refusal(Head(up[c])).type \notin {"command", "disconnect"}
    BY DEF Refusal, errResult, Frame
  <2>3. Fine(c, Refusal(Head(up[c])))
    BY <2>2, FineNotice
  <2>4. down' = DownWith(c, Refusal(Head(up[c]))) /\ UNCHANGED <<origin, nextId>>
    BY <1>4 DEF RejectClient, LookupFails, histVars, relayVars
  <2> QED
    BY <1>0, <2>1, <2>3, <2>4, DownSend
<1>5. ASSUME NEW c \in Conns, InsertPending(c) PROVE DownInv'
  <2>1. /\ down' = down
        /\ nextId \in Nat /\ nextId' = nextId + 1
        /\ \A i \in ReqIds : i < nextId => origin'[i] = origin[i]
    BY <1>0, <1>5 DEF InsertPending, sockVars, FreshId, RelayTypes, HistTypes, ReqIds
  <2>2. ASSUME NEW x, NEW m, Fine(x, m) PROVE Fine(x, m)'
    BY <2>1, <2>2, BoundsAssumption DEF Fine, Ordered, ReqIds
  <2> QED
    BY <1>0, <2>1, <2>2 DEF DownInv
<1>6. ASSUME NEW c \in Conns, ForwardSent(c) PROVE DownInv'
  <2>1. h[c].msg \in Msg /\ Fine(h[c].tgt, h[c].msg)
    BY <1>0, <1>6 DEF RelayTypes, Locals, ForwardSent, HandlerInv, Purpose, Fine, Ordered
  <2> QED
    BY <1>0, <1>6, <2>1, DownSend DEF ForwardSent, histVars
<1>7. ASSUME NEW c \in Conns, ForwardFails(c) PROVE DownInv'
  <2>1. h[c].id \in Nat
    BY <1>0 DEF RelayTypes, Locals
  <2>2. errResult(h[c].id) \in Msg /\ errResult(h[c].id).type = "result"
    BY <2>1, FrameType, SMTT(30) DEF errResult, MsgTypes
  <2>3. Fine(c, errResult(h[c].id))
    BY <2>2, FineNotice
  <2> QED
    BY <1>0, <1>7, <2>2, <2>3, DownSend DEF ForwardFails, histVars
<1>8. ASSUME NEW c \in Conns, ForwardKill(c) PROVE DownInv'
  <2> DEFINE sent == DownWith(h[c].tgt, h[c].msg)
             yes == Frame("disconnect_confirmed", 0, 0, 0)
             no == Frame("error", 0, 0, 0)
  <2>1. yes \in Msg /\ yes.type = "disconnect_confirmed" /\ no \in Msg /\ no.type = "error"
    BY FrameType DEF MsgTypes
  <2>2. Fine(c, yes) /\ Fine(c, no)
    BY <2>1, FineNotice
  <2>3. h[c].msg \in Msg /\ h[c].msg.type = "disconnect" /\ h[c].tgt \in DConns
        /\ c \in CConns /\ Entitled(c, Owner(h[c].tgt))
    BY <1>0, <1>8 DEF RelayTypes, Locals, ForwardKill, HandlerInv, Purpose
  <2>4. Condemned(Owner(h[c].tgt))
    BY <2>3 DEF Condemned, CConns, CConn
  <2>5. Fine(h[c].tgt, h[c].msg)
    BY <2>3, <2>4 DEF Fine
  <2>6. sent \in [Conns -> Seq(Msg)] /\ \A x \in Conns : \A j \in 1 .. Len(sent[x]) : Fine(x, sent[x][j])
    BY <1>0, <2>3, <2>5, DownWithType, DownWithFine
  <2>7. \/ down' = [sent EXCEPT ![c] = Append(@, yes)]
        \/ down' = sent
        \/ down' = DownWith(c, no)
    BY <1>8 DEF ForwardKill
  <2>8. UNCHANGED <<origin, nextId>>
    BY <1>8 DEF ForwardKill, histVars
  <2> HIDE DEF sent, yes, no
  <2>9. CASE down' = [sent EXCEPT ![c] = Append(@, yes)]
    BY <2>1, <2>2, <2>6, <2>8, <2>9, DownAppend, FineKept
  <2>10. CASE down' = sent
    BY <2>6, <2>8, <2>10, FineKept
  <2>11. CASE down' = DownWith(c, no)
    BY <1>0, <2>1, <2>2, <2>8, <2>11, DownSend
  <2> QED
    BY <2>7, <2>9, <2>10, <2>11
<1>9. ASSUME NEW c \in Conns, LookupFinds(c) \/ HandleReply(c) \/ Unregister(c)
      PROVE DownInv'
  BY <1>9, <1>a DEF LookupFinds, HandleReply, PendingOf, Unregister, histVars
<1>10. CASE RelayRestart
  BY <1>10, <1>a DEF RelayRestart, histVars
<1>11. ASSUME NEW d \in Daemons, DaemonDial(d) \/ DaemonRegister(d) \/ SupervisorRestarts(d)
       PROVE DownInv'
  BY <1>11, <1>a DEF DaemonDial, DaemonRegister, SupervisorRestarts, sockVars, relayVars, histVars
<1>12. ASSUME NEW d \in Daemons, Disconnected(d) \/ DaemonCrash(d) \/ DaemonExit(d)
       PROVE DownInv'
  <2>1. Abandon(Live(d)) /\ UNCHANGED <<origin, nextId>>
    BY <1>12 DEF Disconnected, DaemonCrash, DaemonExit, relayVars, histVars
  <2> QED
    BY <1>0, <2>1, DownAbandon
<1>13. ASSUME NEW d \in Daemons, DaemonCommand(d) \/ DaemonNotice(d) PROVE DownInv'
  <2>1. down[Live(d)] # <<>>
    BY <1>13 DEF DaemonCommand, DaemonNotice, DaemonHas
  <2>2. down' = [down EXCEPT ![Live(d)] = Tail(@)] /\ UNCHANGED <<origin, nextId>>
    BY <1>13 DEF DaemonCommand, DaemonNotice, relayVars, histVars
  <2> QED
    BY <1>0, <2>1, <2>2, DownTake
<1>14. ASSUME NEW i \in ReqIds, EmitChunk(i) \/ EmitFinal(i) PROVE DownInv'
  BY <1>14, <1>a DEF EmitChunk, EmitFinal, relayVars, histVars
<1>15. ASSUME NEW cl \in Clients, NEW kind \in Kinds, ClientSend(cl, kind) PROVE DownInv'
  BY <1>15, <1>a DEF ClientSend, relayVars, histVars
<1>16. ASSUME NEW cl \in Clients, ClientRecv(cl) PROVE DownInv'
  <2>1. /\ down[CConn(cl)] # <<>>
        /\ down' = [down EXCEPT ![CConn(cl)] = Tail(@)]
        /\ UNCHANGED <<origin, nextId>>
    BY <1>16 DEF ClientRecv, relayVars, histVars
  <2> QED
    BY <1>0, <2>1, DownTake
<1>17. ASSUME NEW cl \in Clients, ClientTimeout(cl) PROVE DownInv'
  BY <1>17, <1>a DEF ClientTimeout, sockVars, relayVars, histVars
<1>18. ASSUME NEW cl \in Clients, ClientClose(cl) PROVE DownInv'
  BY <1>0, <1>18, DownAbandon DEF ClientClose, relayVars, histVars
<1> QED
  BY <1>1, <1>2, <1>3, <1>4, <1>5, <1>6, <1>7, <1>8, <1>9, <1>10, <1>11,
     <1>12, <1>13, <1>14, <1>15, <1>16, <1>17, <1>18
  DEF Next, Handler, HandlerEOF, HandlerBreak, DaemonStep, DaemonEOF,
      DaemonBreak, ClientStep

\* The handlers.
LEMMA HandlerStep == IInv /\ AuthInv /\ Next => HandlerInv'
<1> SUFFICES ASSUME IInv, AuthInv, Next PROVE HandlerInv'
  OBVIOUS
<1>0. /\ SockTypes /\ RelayTypes /\ DaemonTypes /\ ClientTypes /\ HistTypes
      /\ QueueInv /\ RegInv /\ RegistryExact
      /\ DownInv /\ HandlerInv /\ JobInv /\ DaemonInv
  BY DEF IInv, TypeOK, AuthInv
\* A step that draws no id and gives at most one handler another purpose.
<1>a. ASSUME NEW c \in Conns, NEW l \in Locals, h' = [h EXCEPT ![c] = l],
             UNCHANGED <<origin, nextId>>,
             l.pc \notin {"insert", "forward", "kill"},
             l.pc \in {"ack", "deliver"} => l.msg.type \notin {"command", "disconnect"}
      PROVE  HandlerInv'
  <2>1. ASSUME NEW x \in Conns PROVE Purpose(x)'
    <3>1. CASE x = c
      <4>1. h'[x] = l
        BY <1>0, <1>a, <3>1 DEF RelayTypes
      <4> QED
        BY <1>a, <4>1 DEF Purpose
    <3>2. CASE x # c
      <4>1. h'[x] = h[x] /\ Purpose(x)
        BY <1>0, <1>a, <3>2 DEF RelayTypes, HandlerInv
      <4> QED
        BY <1>a, <4>1 DEF Purpose
    <3> QED
      BY <3>1, <3>2
  <2> QED
    BY <2>1 DEF HandlerInv
<1>b. ASSUME UNCHANGED <<h, origin, nextId>> PROVE HandlerInv'
  BY <1>0, <1>b DEF HandlerInv, Purpose
<1>c. Idle \in Locals /\ Idle.pc = "read"
  BY DefaultTypes DEF Idle
<1>1. ASSUME NEW c \in Conns,
             \/ RejectRegister(c) \/ RejectClient(c) \/ Unregister(c)
             \/ Deliver(c) \/ ForwardSent(c) \/ ForwardFails(c) \/ ForwardKill(c)
      PROVE HandlerInv'
  <2>1. h' = [h EXCEPT ![c] = Idle] /\ UNCHANGED <<origin, nextId>>
    BY <1>1 DEF RejectRegister, RejectClient, Unregister, Hangup, Deliver,
                ForwardSent, ForwardFails, ForwardKill, histVars
  <2> QED
    BY <1>a, <1>c, <2>1
<1>2. ASSUME NEW c \in Conns, AcceptRegister(c) PROVE HandlerInv'
  <2> DEFINE l == [pc |-> "ack", tgt |-> c, msg |-> Frame("registered", 0, 0, 0), id |-> 0]
  <2>1. Frame("registered", 0, 0, 0) \in Msg /\ Frame("registered", 0, 0, 0).type = "registered"
    BY FrameType DEF MsgTypes
  <2>2. l \in Locals /\ l.pc = "ack" /\ l.msg.type = "registered"
    BY <2>1 DEF Locals
  <2>3. h' = [h EXCEPT ![c] = l] /\ UNCHANGED <<origin, nextId>>
    BY <1>2 DEF AcceptRegister, Goto
  <2> HIDE DEF l
  <2> QED
    BY <1>a, <2>2, <2>3
<1>3. ASSUME NEW c \in Conns, LookupFails(c) PROVE HandlerInv'
  BY <1>3, <1>b DEF LookupFails, relayVars, histVars
<1>4. ASSUME NEW c \in Conns, LookupFinds(c) PROVE HandlerInv'
  <2> DEFINE tgt == clients[WantName[Owner(c)]]
  <2>1. c \in CConns /\ tgt \in DConns /\ Entitled(c, Owner(tgt))
    BY <1>0, <1>4, FoundTarget DEF LookupFinds
  <2>2. UNCHANGED <<origin, nextId>>
    BY <1>4 DEF LookupFinds, histVars
  <2>3. /\ h'[c].tgt = tgt
        /\ \/ h'[c].pc = "kill" /\ h'[c].msg.type = "disconnect"
           \/ h'[c].pc = "insert" /\ h'[c].msg.type = "command"
        /\ \A x \in Conns \ {c} : h'[x] = h[x]
    BY <1>0, <1>4 DEF LookupFinds, Goto, Frame, RelayTypes
  <2> HIDE DEF tgt
  <2>4. ASSUME NEW x \in Conns PROVE Purpose(x)'
    <3>1. CASE x = c
      BY <2>1, <2>3, <3>1 DEF Purpose
    <3>2. CASE x # c
      BY <1>0, <2>2, <2>3, <3>2 DEF HandlerInv, Purpose
    <3> QED
      BY <3>1, <3>2
  <2> QED
    BY <2>4 DEF HandlerInv
<1>5. ASSUME NEW c \in Conns, InsertPending(c) PROVE HandlerInv'
  <2>1. /\ nextId \in Nat /\ nextId \in ReqIds /\ nextId' = nextId + 1
        /\ \A i \in ReqIds : i < nextId => origin'[i] = origin[i]
        /\ origin'[nextId].conn = c
    BY <1>0, <1>5 DEF InsertPending, FreshId, RelayTypes, HistTypes, ReqIds
  <2>2. /\ h[c].pc = "insert"
        /\ h'[c].pc = "forward" /\ h'[c].tgt = h[c].tgt
        /\ h'[c].msg.id = nextId /\ h'[c].msg.type = h[c].msg.type
        /\ \A x \in Conns \ {c} : h'[x] = h[x]
    BY <1>0, <1>5 DEF InsertPending, RelayTypes, Locals, Msg
  <2>3. ASSUME NEW x \in Conns PROVE Purpose(x)'
    <3>1. CASE x = c
      BY <1>0, <2>1, <2>2, <3>1 DEF HandlerInv, Purpose
    <3>2. CASE x # c
      <4>1. h'[x] = h[x] /\ Purpose(x)
        BY <1>0, <2>2, <3>2 DEF HandlerInv
      <4> QED
        BY <2>1, <4>1, BoundsAssumption DEF Purpose, ReqIds
    <3> QED
      BY <3>1, <3>2
  <2> QED
    BY <2>3 DEF HandlerInv
<1>6. ASSUME NEW c \in Conns, HandleReply(c) PROVE HandlerInv'
  <2> DEFINE m == Head(up[c])
             pr == IF m.id \in ReqIds THEN pending[m.id] ELSE NoEntry
             l == [pc |-> "deliver", tgt |-> pr.conn, msg |-> Translated(m, pr), id |-> 0]
  <2>1. m \in Msg /\ m.type \in {"result", "stream_chunk", "stream_end"}
    BY <1>0, <1>6, IncomingType DEF HandleReply, PendingOf
  <2>2. pr \in Entries
    BY <1>0, DefaultTypes DEF RelayTypes
  <2>3. Translated(m, pr) \in Msg /\ Translated(m, pr).type = m.type
    BY <2>1, <2>2 DEF Translated, Msg, Entries
  <2>4. l \in Locals /\ l.pc = "deliver" /\ l.msg.type \notin {"command", "disconnect"}
    BY <2>1, <2>2, <2>3 DEF Locals, Entries
  <2>5. UNCHANGED <<origin, nextId>>
    BY <1>6 DEF HandleReply, PendingOf, histVars
  <2>6. UNCHANGED h \/ h' = [h EXCEPT ![c] = l]
    BY <1>6 DEF HandleReply, PendingOf, Goto
  <2> HIDE DEF l
  <2> QED
    BY <1>a, <1>b, <2>4, <2>5, <2>6
<1>7. CASE RelayRestart
  <2>1. \A x \in Conns : h'[x].pc = "read"
    BY <1>7, <1>c DEF RelayRestart
  <2> QED
    BY <2>1 DEF HandlerInv, Purpose
<1>8. ASSUME NEW d \in Daemons,
             \/ DaemonDial(d) \/ DaemonRegister(d)
             \/ Disconnected(d) \/ DaemonCrash(d)
             \/ DaemonCommand(d) \/ DaemonNotice(d) \/ DaemonExit(d)
             \/ SupervisorRestarts(d)
      PROVE HandlerInv'
  BY <1>8, <1>b DEF DaemonDial, DaemonRegister, Disconnected, DaemonCrash, DaemonCommand,
                    DaemonNotice, DaemonExit, SupervisorRestarts, relayVars, histVars
<1>9. ASSUME NEW i \in ReqIds, EmitChunk(i) \/ EmitFinal(i) PROVE HandlerInv'
  BY <1>9, <1>b DEF EmitChunk, EmitFinal, relayVars, histVars
<1>10. ASSUME NEW cl \in Clients, ClientStep(cl) PROVE HandlerInv'
  BY <1>10, <1>b DEF ClientStep, ClientSend, ClientRecv, ClientTimeout, ClientClose,
                     relayVars, histVars
<1> QED
  BY <1>1, <1>2, <1>3, <1>4, <1>5, <1>6, <1>7, <1>8, <1>9, <1>10
  DEF Next, Handler, HandlerEOF, HandlerBreak, DaemonStep, DaemonEOF, DaemonBreak

\* The daemons and the executions.
LEMMA DaemonsStep == IInv /\ AuthInv /\ Next => JobInv' /\ DaemonInv'
<1> SUFFICES ASSUME IInv, AuthInv, Next PROVE JobInv' /\ DaemonInv'
  OBVIOUS
<1>0. /\ SockTypes /\ RelayTypes /\ DaemonTypes /\ ClientTypes /\ HistTypes
      /\ DownInv /\ HandlerInv /\ JobInv /\ DaemonInv
  BY DEF IInv, TypeOK, AuthInv
\* Executions that go on or end stay ordered.
<1>a. ASSUME \A i \in ReqIds : /\ job'[i].st # "none" => job[i].st # "none"
                              /\ job'[i].by = job[i].by,
             UNCHANGED <<origin, nextId>>
      PROVE  JobInv'
  BY <1>0, <1>a DEF JobInv, Ordered
<1>b. ASSUME UNCHANGED <<dproc, dials>> PROVE DaemonInv'
  BY <1>0, <1>b DEF DaemonInv
<1>c. ASSUME NEW d, EndJobs(d)
      PROVE  \A i \in ReqIds : /\ job'[i].st # "none" => job[i].st # "none"
                              /\ job'[i].by = job[i].by
  BY <1>0, <1>c DEF EndJobs, Running, DaemonTypes, Jobs
<1>1. ASSUME NEW c \in Conns, InsertPending(c) PROVE JobInv' /\ DaemonInv'
  <2>1. /\ UNCHANGED <<job, dproc, dials>>
        /\ nextId \in Nat /\ nextId' = nextId + 1
        /\ \A i \in ReqIds : i < nextId => origin'[i] = origin[i]
    BY <1>0, <1>1 DEF InsertPending, daemonVars, FreshId, RelayTypes, HistTypes, ReqIds
  <2>2. JobInv'
    BY <1>0, <2>1, BoundsAssumption DEF JobInv, Ordered, ReqIds
  <2> QED
    BY <1>b, <2>1, <2>2
<1>2. ASSUME NEW c \in Conns,
             \/ RejectRegister(c) \/ AcceptRegister(c) \/ RejectClient(c)
             \/ Unregister(c) \/ Deliver(c) \/ ForwardSent(c)
             \/ ForwardFails(c) \/ ForwardKill(c) \/ LookupFails(c)
             \/ LookupFinds(c) \/ HandleReply(c)
      PROVE JobInv' /\ DaemonInv'
  <2>1. UNCHANGED <<job, dproc, dials, origin, nextId>>
    BY <1>2 DEF RejectRegister, AcceptRegister, RejectClient, Unregister,
                Deliver, ForwardSent, ForwardFails, ForwardKill, LookupFails,
                LookupFinds, HandleReply, PendingOf, relayVars, daemonVars, histVars
  <2> QED
    BY <1>a, <1>b, <2>1
<1>3. CASE RelayRestart
  BY <1>3, <1>a, <1>b DEF RelayRestart, daemonVars, histVars
<1>4. ASSUME NEW d \in Daemons, DaemonDial(d) PROVE JobInv' /\ DaemonInv'
  <2>1. /\ dials' = [dials EXCEPT ![d] = @ + 1] /\ dproc' = [dproc EXCEPT ![d] = "dialled"]
        /\ UNCHANGED <<job, origin, nextId>>
    BY <1>4 DEF DaemonDial, relayVars, histVars
  <2>2. DaemonInv'
    BY <1>0, <2>1, BoundsAssumption DEF DaemonInv, DaemonTypes
  <2> QED
    BY <1>a, <2>1, <2>2
<1>4a. ASSUME NEW d \in Daemons, DaemonRegister(d) PROVE JobInv' /\ DaemonInv'
  <2>1. /\ dproc[d] = "dialled" /\ dproc' = [dproc EXCEPT ![d] = "up"]
        /\ UNCHANGED <<job, dials, origin, nextId>>
    BY <1>4a DEF DaemonRegister, relayVars, histVars
  <2>2. DaemonInv'
    BY <1>0, <2>1 DEF DaemonInv, DaemonTypes
  <2> QED
    BY <1>a, <2>1, <2>2
<1>5. ASSUME NEW d \in Daemons, Disconnected(d) \/ DaemonCrash(d) PROVE JobInv' /\ DaemonInv'
  <2>1. /\ dproc' = [dproc EXCEPT ![d] = "wait"] /\ UNCHANGED <<dials, origin, nextId>>
        /\ UNCHANGED job \/ EndJobs(d)
    BY <1>5 DEF Disconnected, DaemonCrash, relayVars, histVars
  <2>2. DaemonInv'
    BY <1>0, <2>1 DEF DaemonInv, DaemonTypes
  <2>3. JobInv'
    BY <1>a, <1>c, <2>1
  <2> QED
    BY <2>2, <2>3
<1>6. ASSUME NEW d \in Daemons, DaemonExit(d) PROVE JobInv' /\ DaemonInv'
  <2>1. /\ DaemonHas(d, {"replaced", "disconnect"}) /\ EndJobs(d)
        /\ dproc' = [dproc EXCEPT ![d] = IF Head(down[Live(d)]).type = "replaced"
                                        THEN "replaced" ELSE "killed"]
        /\ UNCHANGED <<dials, origin, nextId>>
    BY <1>6 DEF DaemonExit, relayVars, histVars
  <2>2. Head(down[Live(d)]).type # "replaced" => Condemned(d)
    <3>1. /\ Owner(Live(d)) = d /\ Fine(Live(d), Head(down[Live(d)]))
          /\ Head(down[Live(d)]).type \in {"replaced", "disconnect"}
      BY <1>0, <2>1, TakenFine
    <3> QED
      BY <3>1 DEF Fine
  <2>3. DaemonInv'
    BY <1>0, <2>1, <2>2 DEF DaemonInv, DaemonTypes
  <2> QED
    BY <1>a, <1>c, <2>1, <2>3
<1>7. ASSUME NEW d \in Daemons, DaemonCommand(d) PROVE JobInv' /\ DaemonInv'
  <2> DEFINE m == Head(down[Live(d)])
  <2>1. /\ DaemonHas(d, {"command"})
        /\ job' = [job EXCEPT ![m.id] = [st |-> "running", by |-> d,
                                         stream |-> m.seq = 1, out |-> 0]]
        /\ UNCHANGED <<dproc, dials, origin, nextId>>
    BY <1>7 DEF DaemonCommand, relayVars, histVars
  <2>2. Owner(Live(d)) = d /\ m.type \in {"command"} /\ Fine(Live(d), m)
    BY <1>0, <2>1, TakenFine
  <2>3. Ordered(m.id, d)
    BY <2>2 DEF Fine
  <2> HIDE DEF m
  <2>4. \A i \in ReqIds : job'[i].st # "none" =>
          \/ i = m.id /\ job'[i].by = d
          \/ job[i].st # "none" /\ job'[i].by = job[i].by
    BY <1>0, <2>1 DEF DaemonTypes
  <2>5. JobInv'
    BY <1>0, <2>1, <2>3, <2>4 DEF JobInv, Ordered
  <2> QED
    BY <1>b, <2>1, <2>5
<1>8. ASSUME NEW d \in Daemons, DaemonNotice(d) PROVE JobInv' /\ DaemonInv'
  BY <1>8, <1>a, <1>b DEF DaemonNotice, relayVars, daemonVars, histVars
<1>8a. ASSUME NEW d \in Daemons, SupervisorRestarts(d) PROVE JobInv' /\ DaemonInv'
  <2>1. dproc' = [dproc EXCEPT ![d] = "wait"] /\ UNCHANGED <<job, dials, origin, nextId>>
    BY <1>8a DEF SupervisorRestarts, relayVars, histVars
  <2>2. DaemonInv'
    BY <1>0, <2>1 DEF DaemonInv, DaemonTypes, Condemned
  <2> QED
    BY <1>a, <2>1, <2>2
<1>9. ASSUME NEW i \in ReqIds, EmitChunk(i) \/ EmitFinal(i) PROVE JobInv' /\ DaemonInv'
  <2>1. UNCHANGED <<dproc, dials, origin, nextId>> /\ job[i].st = "running"
    BY <1>9 DEF EmitChunk, EmitFinal, relayVars, histVars
  <2>2. \A x \in ReqIds : /\ job'[x].st # "none" => job[x].st # "none"
                          /\ job'[x].by = job[x].by
    BY <1>0, <1>9 DEF EmitChunk, EmitFinal, DaemonTypes, Jobs
  <2> QED
    BY <1>a, <1>b, <2>1, <2>2
<1>10. ASSUME NEW cl \in Clients, ClientStep(cl) PROVE JobInv' /\ DaemonInv'
  <2>1. UNCHANGED <<job, dproc, dials, origin, nextId>>
    BY <1>10 DEF ClientStep, ClientSend, ClientRecv, ClientTimeout, ClientClose,
                 relayVars, daemonVars, histVars
  <2> QED
    BY <1>a, <1>b, <2>1
<1> QED
  BY <1>1, <1>2, <1>3, <1>4, <1>4a, <1>5, <1>6, <1>7, <1>8, <1>8a, <1>9, <1>10
  DEF Next, Handler, HandlerEOF, HandlerBreak, DaemonStep, DaemonEOF, DaemonBreak

---------------------------------------------------------------------------
\* Nothing has been asked for yet.
LEMMA InitAuth == Init => AuthInv
<1> SUFFICES ASSUME Init PROVE AuthInv
  OBVIOUS
<1>1. \A c \in Conns : Len(down[c]) = 0
  BY DEF Init
<1>2. DownInv
  BY <1>1 DEF DownInv
<1>3. HandlerInv
  BY DEF Init, HandlerInv, Purpose, Idle
<1>4. JobInv /\ DaemonInv
  BY DEF Init, JobInv, DaemonInv, NoJob
<1> QED
  BY <1>2, <1>3, <1>4 DEF AuthInv

\* A step of the system, or none, keeps the authority argument.
LEMMA StepAuth == IInv /\ AuthInv /\ [Next]_vars => AuthInv'
<1> SUFFICES ASSUME IInv, AuthInv, [Next]_vars PROVE AuthInv'
  OBVIOUS
<1>1. CASE Next
  BY <1>1, DownStep, HandlerStep, DaemonsStep DEF AuthInv
<1>2. CASE UNCHANGED vars
  <2>1. UNCHANGED <<down, h, origin, nextId, job, dproc, dials>>
    BY <1>2 DEF vars
  <2>2. DownInv'
    BY <2>1, FineKept DEF AuthInv, DownInv
  <2>3. HandlerInv' /\ JobInv' /\ DaemonInv'
    BY <2>1 DEF AuthInv, HandlerInv, Purpose, JobInv, Ordered, DaemonInv
  <2> QED
    BY <2>2, <2>3 DEF AuthInv
<1> QED
  BY <1>1, <1>2

\* No daemon ever executes a command, or is switched off, for a client
\* without the relay secret, the daemon's name and its token, for any
\* number of daemons, clients, names, tokens, reconnections and take-overs.
THEOREM CommandsAuthorised == Spec => []CommandAuthorised
<1>1. Init => IInv /\ AuthInv
  BY InitIInv, InitAuth
<1>2. IInv /\ AuthInv /\ [Next]_vars => (IInv /\ AuthInv)'
  BY StepIInv, StepAuth
<1>3. IInv /\ AuthInv => CommandAuthorised
  <2> SUFFICES ASSUME IInv, AuthInv PROVE CommandAuthorised
    OBVIOUS
  <2>1. ASSUME NEW c \in Conns, NEW j \in DOMAIN down[c]
        PROVE  down[c][j].type = "command" => c \in DConns /\ Ordered(down[c][j].id, Owner(c))
    <3>1. down[c] \in Seq(Msg)
      BY DEF IInv, TypeOK, SockTypes
    <3>2. j \in 1 .. Len(down[c])
      BY <3>1
    <3> QED
      BY <3>2 DEF AuthInv, DownInv, Fine
  <2>2. \A i \in ReqIds : job[i].st # "none" => Ordered(i, job[i].by)
    BY DEF AuthInv, JobInv
  <2>3. \A d \in Daemons : dproc[d] = "killed" => \E cl \in Clients : Entitled(CConn(cl), d)
    BY DEF AuthInv, DaemonInv, Condemned
  <2> QED
    BY <2>1, <2>2, <2>3 DEF Ordered, CommandAuthorised
<1> QED
  BY <1>1, <1>2, <1>3, PTL DEF Spec
---------------------------------------------------------------------------
(***************************************************************************)
(* ReplacedExplained.  A daemon reads its last socket only, so the notice  *)
(* that makes it exit was written to that one.  What took the name over    *)
(* was a socket of another process, or, since a socket registers once, an  *)
(* older one of its own, whose register frame came late.                   *)
(***************************************************************************)

\* What a daemon may be told that it was replaced for.
Explained(d) == Duplicate(d) \/ \E c \in overtaken : Owner(c) = d

\* Frame m in the queue to the peer of c, if a daemon will read it.
Told(c, m) ==
  m.type = "replaced" /\ c \in DConns /\ c[2] = dials[c[1]] => Explained(c[1])

NoticeInv == \A c \in Conns : \A j \in 1 .. Len(down[c]) : Told(c, down[c][j])

\* What was never dialled is closed and empty.
FreshInv == \A c \in DConns : c[2] > dials[c[1]] => ~peerEnd[c] /\ down[c] = <<>>

\* No handler holds a notice: it is written under rs.mu.
HeldInv == \A c \in Conns : h[c].msg.type # "replaced"

GoneInv == \A d \in Daemons : dproc[d] = "replaced" => Explained(d)

TakeoverInv == NoticeInv /\ FreshInv /\ HeldInv /\ GoneInv

\* No queue gets a notice that was not in it.
Calm ==
  \A x \in Conns : \A j \in 1 .. Len(down'[x]) :
    \/ down'[x][j].type # "replaced"
    \/ \E i \in 1 .. Len(down[x]) : down[x][i] = down'[x][j]

\* Nothing comes to a closed, empty socket.
Shut == \A x \in Conns : ~peerEnd[x] /\ down[x] = <<>> => down'[x] = <<>>

---------------------------------------------------------------------------
\* An appended sequence.
LEMMA AppendElement ==
  ASSUME NEW s \in Seq(Msg), NEW m \in Msg
  PROVE  \A j \in 1 .. Len(Append(s, m)) :
           Append(s, m)[j] = m \/ (j \in 1 .. Len(s) /\ Append(s, m)[j] = s[j])
  OBVIOUS

\* A frame that is no notice leaves the queues calm, arriving or lost, ...
LEMMA CalmSend ==
  ASSUME SockTypes, NEW c, NEW m \in Msg, m.type # "replaced",
         down' = DownWith(c, m)
  PROVE  Calm /\ Shut
<1>1. CASE down' = down
  BY <1>1 DEF Calm, Shut
<1>2. CASE Arrives(c) /\ down' = [down EXCEPT ![c] = Append(@, m)]
  <2>1. ASSUME NEW x \in Conns, x = c
        PROVE  down'[x] = Append(down[x], m) /\ down[x] \in Seq(Msg) /\ peerEnd[x]
    BY <1>2, <2>1 DEF SockTypes, Arrives
  <2>2. ASSUME NEW x \in Conns, x # c PROVE down'[x] = down[x]
    BY <1>2, <2>2 DEF SockTypes
  <2>3. ASSUME NEW x \in Conns, NEW j \in 1 .. Len(down'[x])
        PROVE  \/ down'[x][j].type # "replaced"
               \/ \E i \in 1 .. Len(down[x]) : down[x][i] = down'[x][j]
    BY <2>1, <2>2, AppendElement
  <2>4. Shut
    BY <2>1, <2>2 DEF Shut
  <2> QED
    BY <2>3, <2>4 DEF Calm
<1> QED
  BY <1>1, <1>2 DEF DownWith

\* ... so does a frame that is read, ...
LEMMA CalmTake ==
  ASSUME SockTypes, NEW c, c \in Conns => down[c] # <<>>,
         down' = [down EXCEPT ![c] = Tail(@)]
  PROVE  Calm /\ Shut
<1>1. ASSUME NEW x \in Conns, x = c
      PROVE  down'[x] = Tail(down[x]) /\ down[x] \in Seq(Msg) /\ down[x] # <<>>
  BY <1>1 DEF SockTypes
<1>2. ASSUME NEW x \in Conns, x # c PROVE down'[x] = down[x]
  BY <1>2 DEF SockTypes
<1>3. ASSUME NEW x \in Conns, NEW j \in 1 .. Len(down'[x])
      PROVE  \/ down'[x][j].type # "replaced"
             \/ \E i \in 1 .. Len(down[x]) : down[x][i] = down'[x][j]
  BY <1>1, <1>2, TailElement
<1>4. Shut
  BY <1>1, <1>2 DEF Shut
<1> QED
  BY <1>3, <1>4 DEF Calm

\* ... and a socket that is given up.
LEMMA CalmAbandon ==
  ASSUME SockTypes, NEW c, Abandon(c)
  PROVE  Calm /\ Shut
<1>1. ASSUME NEW x \in Conns PROVE down'[x] = <<>> \/ down'[x] = down[x]
  BY DEF SockTypes, Abandon
<1>2. ASSUME NEW x \in Conns, NEW j \in 1 .. Len(down'[x])
      PROVE  \/ down'[x][j].type # "replaced"
             \/ \E i \in 1 .. Len(down[x]) : down[x][i] = down'[x][j]
  <2>1. CASE down'[x] = <<>>
    <3>1. Len(down'[x]) = 0
      BY <2>1
    <3> QED
      BY <3>1
  <2>2. CASE down'[x] = down[x]
    BY <2>2
  <2> QED
    BY <1>1, <2>1, <2>2
<1>3. Shut
  BY <1>1 DEF Shut
<1> QED
  BY <1>2, <1>3 DEF Calm

\* Only a registration writes a notice.
LEMMA CalmStep ==
  IInv /\ AuthInv /\ TakeoverInv /\ Next =>
    Shut /\ (Calm \/ \E c \in Conns : AcceptRegister(c))
<1> SUFFICES ASSUME IInv, AuthInv, TakeoverInv, Next
             PROVE  Shut /\ (Calm \/ \E c \in Conns : AcceptRegister(c))
  OBVIOUS
<1>0. /\ SockTypes /\ RelayTypes /\ DaemonTypes
      /\ HandlerInv /\ DaemonInv /\ HeldInv
  BY DEF IInv, TypeOK, AuthInv, TakeoverInv
<1>a. ASSUME UNCHANGED down PROVE Calm /\ Shut
  BY <1>a DEF Calm, Shut
<1>1. ASSUME NEW c \in Conns, RejectRegister(c) PROVE Calm /\ Shut
  <2>1. PICK t \in {"error", "taken"} : down' = DownWith(c, Frame(t, 0, 0, 0))
    BY <1>1 DEF RejectRegister
  <2>2. Frame(t, 0, 0, 0) \in Msg /\ Frame(t, 0, 0, 0).type = t
    BY FrameType DEF MsgTypes
  <2> QED
    BY <1>0, <2>1, <2>2, CalmSend
<1>2. ASSUME NEW c \in Conns, AcceptRegister(c) PROVE Shut
  BY <1>0, <1>2 DEF AcceptRegister, NotifyReplaced, DownWith, Arrives, Shut, SockTypes
<1>3. ASSUME NEW c \in Conns, Deliver(c) PROVE Calm /\ Shut
  <2>1. h[c].msg \in Msg /\ h[c].msg.type # "replaced"
    BY <1>0 DEF RelayTypes, Locals, HeldInv
  <2> QED
    BY <1>0, <1>3, <2>1, CalmSend DEF Deliver
<1>4. ASSUME NEW c \in Conns, RejectClient(c) \/ LookupFails(c) PROVE Calm /\ Shut
  <2>1. Refusal(Head(up[c])) \in Msg
    BY <1>0, <1>4, RefusalType DEF RejectClient, LookupFails
  <2>2. Refusal(Head(up[c])).type # "replaced"
    BY DEF Refusal, errResult, Frame
  <2>3. down' = DownWith(c, Refusal(Head(up[c])))
    BY <1>4 DEF RejectClient, LookupFails
  <2> QED
    BY <1>0, <2>1, <2>2, <2>3, CalmSend
<1>5. ASSUME NEW c \in Conns, ForwardSent(c) PROVE Calm /\ Shut
  <2>1. h[c].msg \in Msg /\ h[c].msg.type # "replaced"
    BY <1>0 DEF RelayTypes, Locals, HeldInv
  <2> QED
    BY <1>0, <1>5, <2>1, CalmSend DEF ForwardSent
<1>6. ASSUME NEW c \in Conns, ForwardFails(c) PROVE Calm /\ Shut
  <2>1. h[c].id \in Nat
    BY <1>0 DEF RelayTypes, Locals
  <2>2. errResult(h[c].id) \in Msg /\ errResult(h[c].id).type = "result"
    BY <2>1, FrameType, SMTT(30) DEF errResult, MsgTypes
  <2> QED
    BY <1>0, <1>6, <2>2, CalmSend DEF ForwardFails
<1>7. ASSUME NEW c \in Conns, ForwardKill(c) PROVE Calm /\ Shut
  <2> DEFINE sent == DownWith(h[c].tgt, h[c].msg)
             yes == Frame("disconnect_confirmed", 0, 0, 0)
             no == Frame("error", 0, 0, 0)
  <2>1. yes \in Msg /\ yes.type = "disconnect_confirmed" /\ no \in Msg /\ no.type = "error"
    BY FrameType DEF MsgTypes
  <2>2. h[c].msg \in Msg /\ h[c].msg.type # "replaced"
    BY <1>0 DEF RelayTypes, Locals, HeldInv
  <2>3. \/ Arrives(c) /\ down' = [sent EXCEPT ![c] = Append(@, yes)]
        \/ down' = sent
        \/ down' = DownWith(c, no)
    BY <1>7 DEF ForwardKill
  <2>4. sent \in [Conns -> Seq(Msg)]
    BY <1>0, <2>2, DownWithType
  <2>5. ASSUME NEW x \in Conns
        PROVE  /\ \A j \in 1 .. Len(sent[x]) :
                    \/ sent[x][j].type # "replaced"
                    \/ \E i \in 1 .. Len(down[x]) : down[x][i] = sent[x][j]
               /\ ~peerEnd[x] /\ down[x] = <<>> => sent[x] = <<>>
    <3>1. sent = down \/ (Arrives(h[c].tgt) /\ sent = [down EXCEPT ![h[c].tgt] = Append(@, h[c].msg)])
      BY DEF DownWith
    <3> HIDE DEF sent
    <3>2. CASE sent[x] = down[x]
      BY <3>2
    <3>3. CASE peerEnd[x] /\ sent[x] = Append(down[x], h[c].msg)
      <4>1. down[x] \in Seq(Msg)
        BY <1>0 DEF SockTypes
      <4> QED
        BY <2>2, <3>3, <4>1, AppendElement
    <3>4. sent[x] = down[x] \/ (peerEnd[x] /\ sent[x] = Append(down[x], h[c].msg))
      BY <1>0, <3>1 DEF SockTypes, Arrives
    <3> QED
      BY <3>2, <3>3, <3>4
  <2> HIDE DEF sent, yes, no
  <2>6. CASE down' = sent
    BY <2>5, <2>6 DEF Calm, Shut
  <2>7. CASE down' = DownWith(c, no)
    BY <1>0, <2>1, <2>7, CalmSend
  <2>8. CASE Arrives(c) /\ down' = [sent EXCEPT ![c] = Append(@, yes)]
    <3>1. ASSUME NEW x \in Conns
          PROVE  down'[x] = sent[x] \/ (x = c /\ peerEnd[x] /\ down'[x] = Append(sent[x], yes))
      BY <2>4, <2>8 DEF Arrives
    <3>2. ASSUME NEW x \in Conns, NEW j \in 1 .. Len(down'[x])
          PROVE  \/ down'[x][j].type # "replaced"
                 \/ \E i \in 1 .. Len(down[x]) : down[x][i] = down'[x][j]
      <4>1. CASE down'[x] = sent[x]
        BY <2>5, <4>1
      <4>2. CASE down'[x] = Append(sent[x], yes)
        <5>1. sent[x] \in Seq(Msg)
          BY <2>4
        <5>2. down'[x][j] = yes \/ (j \in 1 .. Len(sent[x]) /\ down'[x][j] = sent[x][j])
          BY <2>1, <4>2, <5>1, AppendElement
        <5> QED
          BY <2>1, <2>5, <5>2
      <4> QED
        BY <3>1, <4>1, <4>2
    <3>3. Shut
      BY <2>5, <3>1 DEF Shut
    <3> QED
      BY <3>2, <3>3 DEF Calm
  <2> QED
    BY <2>3, <2>6, <2>7, <2>8
<1>8. ASSUME NEW c \in Conns,
             LookupFinds(c) \/ InsertPending(c) \/ HandleReply(c) \/ Unregister(c)
      PROVE Calm /\ Shut
  BY <1>8, <1>a DEF LookupFinds, InsertPending, HandleReply, PendingOf, Unregister, sockVars
<1>9. CASE RelayRestart
  BY <1>9, <1>a DEF RelayRestart
<1>10. ASSUME NEW d \in Daemons, DaemonDial(d) \/ DaemonRegister(d) \/ SupervisorRestarts(d)
       PROVE Calm /\ Shut
  BY <1>10, <1>a DEF DaemonDial, DaemonRegister, SupervisorRestarts, sockVars
<1>11. ASSUME NEW d \in Daemons, Disconnected(d) \/ DaemonCrash(d) \/ DaemonExit(d)
       PROVE Calm /\ Shut
  BY <1>0, <1>11, CalmAbandon DEF Disconnected, DaemonCrash, DaemonExit
<1>12. ASSUME NEW d \in Daemons, DaemonCommand(d) \/ DaemonNotice(d) PROVE Calm /\ Shut
  <2>1. down[Live(d)] # <<>> /\ down' = [down EXCEPT ![Live(d)] = Tail(@)]
    BY <1>12 DEF DaemonCommand, DaemonNotice, DaemonHas
  <2> QED
    BY <1>0, <2>1, CalmTake
<1>13. ASSUME NEW i \in ReqIds, EmitChunk(i) \/ EmitFinal(i) PROVE Calm /\ Shut
  BY <1>13, <1>a DEF EmitChunk, EmitFinal
<1>14. ASSUME NEW cl \in Clients, NEW kind \in Kinds, ClientSend(cl, kind) PROVE Calm /\ Shut
  BY <1>14, <1>a DEF ClientSend
<1>15. ASSUME NEW cl \in Clients, ClientRecv(cl) PROVE Calm /\ Shut
  <2>1. down[CConn(cl)] # <<>> /\ down' = [down EXCEPT ![CConn(cl)] = Tail(@)]
    BY <1>15 DEF ClientRecv
  <2> QED
    BY <1>0, <2>1, CalmTake
<1>16. ASSUME NEW cl \in Clients, ClientTimeout(cl) PROVE Calm /\ Shut
  BY <1>16, <1>a DEF ClientTimeout, sockVars
<1>17. ASSUME NEW cl \in Clients, ClientClose(cl) PROVE Calm /\ Shut
  BY <1>0, <1>17, CalmAbandon DEF ClientClose
<1> QED
  BY <1>1, <1>2, <1>3, <1>4, <1>5, <1>6, <1>7, <1>8, <1>9, <1>10, <1>11,
     <1>12, <1>13, <1>14, <1>15, <1>16, <1>17
  DEF Next, Handler, HandlerEOF, HandlerBreak, DaemonStep, DaemonEOF,
      DaemonBreak, ClientStep

---------------------------------------------------------------------------
\* Only handleRegister writes rc.name and rc.token.
LEMMA RegStays == Next => UNCHANGED reg \/ \E x \in Conns : AcceptRegister(x)
<1> SUFFICES ASSUME Next PROVE UNCHANGED reg \/ \E x \in Conns : AcceptRegister(x)
  OBVIOUS
<1>1. ASSUME NEW c \in Conns, Handler(c) \/ HandlerBreak(c)
      PROVE  UNCHANGED reg \/ AcceptRegister(c)
  BY <1>1 DEF Handler, RejectRegister, Deliver, RejectClient, LookupFails, LookupFinds,
              InsertPending, ForwardSent, ForwardFails, ForwardKill, HandleReply, PendingOf,
              HandlerEOF, HandlerBreak, Unregister, relayVars
<1>2. ASSUME NEW d \in Daemons, DaemonStep(d) \/ DaemonBreak(d) \/ DaemonCrash(d)
      PROVE  UNCHANGED reg
  BY <1>2 DEF DaemonStep, DaemonDial, DaemonRegister, DaemonEOF, DaemonBreak, DaemonCrash,
              Disconnected, DaemonCommand, DaemonNotice, DaemonExit, SupervisorRestarts, relayVars
<1>3. ASSUME NEW cl \in Clients, ClientStep(cl) PROVE UNCHANGED reg
  BY <1>3 DEF ClientStep, ClientSend, ClientRecv, ClientTimeout, ClientClose, relayVars
<1>4. ASSUME NEW i \in ReqIds, EmitChunk(i) \/ EmitFinal(i) PROVE UNCHANGED reg
  BY <1>4 DEF EmitChunk, EmitFinal, relayVars
<1>5. RelayRestart => UNCHANGED reg
  BY DEF RelayRestart
<1> QED
  BY <1>1, <1>2, <1>3, <1>4, <1>5 DEF Next

\* What a connection is registered as never changes.
LEMMA DuplicateKept ==
  ASSUME IInv, Next, NEW d \in Daemons, Duplicate(d)
  PROVE  Duplicate(d)'
<1>1. PICK e \in Daemons \ {d}, n \in 1 .. MaxDials :
        reg[<<e, n>>] = [name |-> NameOf[d], token |-> TokenOf[d]]
  BY DEF Duplicate
<1> DEFINE c == <<e, n>>
<1>2. c \in Conns /\ reg \in [Conns -> [name : Names \cup {NoName}, token : Tokens \cup {NoToken}]]
  BY DEF Conns, DConns, IInv, TypeOK, RelayTypes
<1>3. reg[c] # NoReg
  <2>1. reg[c].name = NameOf[d] /\ NameOf[d] # NoName
    BY <1>1, PeersAssumption, ConfigAssumption
  <2> QED
    BY <2>1 DEF NoReg
<1>4. CASE UNCHANGED reg
  BY <1>1, <1>4 DEF Duplicate
<1>5. ASSUME NEW x \in Conns, AcceptRegister(x) PROVE Duplicate(d)'
  <2>1. MayRegister(x)
    BY <1>5, RegisterOfDaemon DEF AcceptRegister, IInv, TypeOK
  <2>2. x # c
    BY <1>3, <2>1 DEF MayRegister
  <2>3. reg'[c] = reg[c]
    BY <1>2, <1>5, <2>2 DEF AcceptRegister
  <2> QED
    BY <1>1, <2>3 DEF Duplicate
<1> QED
  BY <1>4, <1>5, RegStays

\* Nor is a connection that was overtaken ever not.
LEMMA OvertakenStays == Next => overtaken \subseteq overtaken'
<1> SUFFICES ASSUME Next PROVE overtaken \subseteq overtaken'
  OBVIOUS
<1>1. ASSUME NEW c \in Conns, Handler(c) \/ HandlerBreak(c)
      PROVE  overtaken \subseteq overtaken'
  BY <1>1 DEF Handler, RejectRegister, AcceptRegister, Deliver, RejectClient, LookupFails,
              LookupFinds, InsertPending, ForwardSent, ForwardFails, ForwardKill, HandleReply,
              HandlerEOF, HandlerBreak, Unregister, histVars
<1>2. ASSUME NEW d \in Daemons, DaemonStep(d) \/ DaemonBreak(d) \/ DaemonCrash(d)
      PROVE  UNCHANGED overtaken
  BY <1>2 DEF DaemonStep, DaemonDial, DaemonRegister, DaemonEOF, DaemonBreak, DaemonCrash,
              Disconnected, DaemonCommand, DaemonNotice, DaemonExit, SupervisorRestarts, histVars
<1>3. ASSUME NEW cl \in Clients, ClientStep(cl) PROVE UNCHANGED overtaken
  BY <1>3 DEF ClientStep, ClientSend, ClientRecv, ClientTimeout, ClientClose, histVars
<1>4. ASSUME NEW i \in ReqIds, EmitChunk(i) \/ EmitFinal(i) PROVE UNCHANGED overtaken
  BY <1>4 DEF EmitChunk, EmitFinal, histVars
<1>5. RelayRestart => UNCHANGED overtaken
  BY DEF RelayRestart, histVars
<1> QED
  BY <1>1, <1>2, <1>3, <1>4, <1>5 DEF Next

LEMMA ExplainedKept ==
  ASSUME IInv, Next, NEW d \in Daemons, Explained(d)
  PROVE  Explained(d)'
<1>1. CASE Duplicate(d)
  BY <1>1, DuplicateKept DEF Explained
<1>2. CASE \E c \in overtaken : Owner(c) = d
  <2>1. PICK c \in overtaken : Owner(c) = d
    BY <1>2
  <2>2. c \in overtaken'
    BY <2>1, OvertakenStays
  <2> QED
    BY <2>1, <2>2 DEF Explained
<1> QED
  BY <1>1, <1>2 DEF Explained

\* What every frame of every queue has to be after a step.
LEMMA AllTold ==
  ASSUME \A x \in Conns : \A j \in 1 .. Len(down'[x]) :
           \A m : m = down'[x][j] => Told(x, m)'
  PROVE  NoticeInv'
  BY DEF NoticeInv

\* Whoever reads the notice of a registration can explain it.
LEMMA NoticeAccept ==
  ASSUME IInv, TakeoverInv, Next, NEW c \in Conns, AcceptRegister(c)
  PROVE  NoticeInv'
<1> DEFINE m == Frame("replaced", 0, 0, 0)
<1>. PICK old : old = clients[NameOf[Owner(c)]]
  OBVIOUS
<1>0. SockTypes /\ RelayTypes /\ RegInv /\ RegistryExact /\ NoticeInv
  BY DEF IInv, TypeOK, TakeoverInv
<1>1. c \in DConns /\ c[1] \in Daemons /\ c[2] \in 1 .. MaxDials
      /\ c = <<c[1], c[2]>> /\ c[2] <= dials[c[1]] /\ reg[c] = NoReg
  <2>1. MayRegister(c)
    BY RegisterOfDaemon DEF IInv, TypeOK, AcceptRegister
  <2> QED
    BY <2>1 DEF MayRegister, DConns
<1>2. NameOf[c[1]] \in Names /\ NameOf[c[1]] # NoName
  BY <1>1, ConfigAssumption, PeersAssumption
<1>3. reg'[c] = [name |-> NameOf[c[1]], token |-> TokenOf[c[1]]]
  BY <1>0 DEF AcceptRegister, RelayTypes, Owner
<1>4. UNCHANGED dials
  BY DEF AcceptRegister, daemonVars
<1>5. m \in Msg
  BY FrameType DEF MsgTypes
<1>6. down' = down \/ (old # NoConn /\ down' = DownWith(old, m))
  BY DEF AcceptRegister, NotifyReplaced
<1>7. ASSUME old # NoConn, old \in DConns, old[2] = dials[old[1]]
      PROVE  Explained(old[1])'
  <2>1. old \in Conns /\ reg[old].name = NameOf[c[1]]
    BY <1>0, <1>2, <1>7 DEF RegistryExact, Conns, Owner
  <2>2. reg[old] # NoReg
    BY <1>2, <2>1 DEF NoReg
  <2>3. reg[old] = [name |-> NameOf[old[1]], token |-> TokenOf[old[1]]]
    BY <1>0, <2>1, <2>2 DEF RegInv, Owner
  <2>4. reg[old].token = TokenOf[c[1]]
    BY <1>7 DEF AcceptRegister, HeldByOther, Owner
  <2>5. NameOf[old[1]] = NameOf[c[1]] /\ TokenOf[old[1]] = TokenOf[c[1]]
    BY <2>1, <2>3, <2>4
  <2>6. old # c
    BY <1>1, <2>2
  <2>7. old = <<old[1], old[2]>>
    BY <1>7 DEF DConns
  <2>8. CASE old[1] # c[1]
    <3>1. c[1] \in Daemons \ {old[1]}
      BY <1>1, <2>8
    <3>2. reg'[<<c[1], c[2]>>] = [name |-> NameOf[old[1]], token |-> TokenOf[old[1]]]
      BY <1>1, <1>3, <2>5
    <3> QED
      BY <1>1, <3>1, <3>2 DEF Duplicate, Explained
  <2>9. CASE old[1] = c[1]
    <3>1. c[2] # old[2] /\ c[2] <= old[2] /\ old[2] \in Int
      BY <1>1, <1>7, <2>6, <2>7, <2>9 DEF DConns
    <3>2. c[2] < old[2] /\ Owner(old) = Owner(c)
      BY <1>1, <2>9, <3>1 DEF Owner
    <3>3. old \in overtaken'
      BY <1>7, <3>2 DEF AcceptRegister
    <3> QED
      BY <3>3 DEF Explained, Owner
  <2> QED
    BY <2>8, <2>9
<1> HIDE DEF m
<1>8. ASSUME NEW x \in Conns, NEW j \in 1 .. Len(down'[x]), NEW f, f = down'[x][j]
      PROVE  Told(x, f)'
  <2>1. CASE \E i \in 1 .. Len(down[x]) : down[x][i] = down'[x][j]
    <3>1. Told(x, f)
      BY <1>0, <1>8, <2>1 DEF NoticeInv
    <3> SUFFICES ASSUME x \in DConns, Explained(x[1]) PROVE Explained(x[1])'
      BY <1>4, <3>1 DEF Told
    <3>2. x[1] \in Daemons
      BY DEF DConns
    <3> QED
      BY <3>2, ExplainedKept
  <2>2. CASE x = old /\ old # NoConn
    BY <1>4, <1>7, <2>2 DEF Told
  <2>3. (x = old /\ old # NoConn) \/ \E i \in 1 .. Len(down[x]) : down[x][i] = down'[x][j]
    <3>1. CASE down'[x] = down[x]
      BY <3>1
    <3>2. CASE x = old /\ old # NoConn
      BY <3>2
    <3>3. down'[x] = down[x] \/ (x = old /\ old # NoConn)
      BY <1>0, <1>6 DEF DownWith, SockTypes
    <3> QED
      BY <3>1, <3>2, <3>3
  <2> QED
    BY <2>1, <2>2, <2>3
<1> QED
  BY <1>8, AllTold

\* Only dialling changes td.conn to another connection.
LEMMA DialsStay == Next => UNCHANGED dials \/ \E d \in Daemons : DaemonDial(d)
<1> SUFFICES ASSUME Next PROVE UNCHANGED dials \/ \E d \in Daemons : DaemonDial(d)
  OBVIOUS
<1>1. ASSUME NEW c \in Conns, Handler(c) \/ HandlerBreak(c) PROVE UNCHANGED dials
  BY <1>1 DEF Handler, RejectRegister, AcceptRegister, Deliver, RejectClient, LookupFails,
              LookupFinds, InsertPending, ForwardSent, ForwardFails, ForwardKill,
              HandleReply, PendingOf, HandlerEOF, HandlerBreak, Unregister, daemonVars
<1>2. ASSUME NEW d \in Daemons, DaemonStep(d) \/ DaemonBreak(d) \/ DaemonCrash(d)
      PROVE  UNCHANGED dials \/ DaemonDial(d)
  BY <1>2 DEF DaemonStep, DaemonRegister, DaemonEOF, DaemonBreak, DaemonCrash,
              Disconnected, DaemonCommand, DaemonNotice, DaemonExit, SupervisorRestarts, daemonVars
<1>3. ASSUME NEW cl \in Clients, ClientStep(cl) PROVE UNCHANGED dials
  BY <1>3 DEF ClientStep, ClientSend, ClientRecv, ClientTimeout, ClientClose, daemonVars
<1>4. ASSUME NEW i \in ReqIds, EmitChunk(i) \/ EmitFinal(i) PROVE UNCHANGED dials
  BY <1>4 DEF EmitChunk, EmitFinal
<1>5. RelayRestart => UNCHANGED dials
  BY DEF RelayRestart, daemonVars
<1> QED
  BY <1>1, <1>2, <1>3, <1>4, <1>5 DEF Next

\* The notices.
LEMMA NoticeStep == IInv /\ AuthInv /\ TakeoverInv /\ Next => NoticeInv'
<1> SUFFICES ASSUME IInv, AuthInv, TakeoverInv, Next PROVE NoticeInv'
  OBVIOUS
<1>0. NoticeInv /\ FreshInv /\ DaemonTypes
  BY DEF TakeoverInv, IInv, TypeOK
<1>a. ASSUME NEW x \in Conns, x \in DConns, Explained(x[1]) PROVE Explained(x[1])'
  <2>1. x[1] \in Daemons
    BY <1>a DEF DConns
  <2> QED
    BY <1>a, <2>1, ExplainedKept
<1>1. CASE \E c \in Conns : AcceptRegister(c)
  BY <1>1, NoticeAccept
<1>2. CASE Calm /\ UNCHANGED dials
  <2>1. ASSUME NEW x \in Conns, NEW j \in 1 .. Len(down'[x]), NEW f, f = down'[x][j]
        PROVE  Told(x, f)'
    <3>1. CASE f.type # "replaced"
      BY <3>1 DEF Told
    <3>2. CASE \E i \in 1 .. Len(down[x]) : down[x][i] = down'[x][j]
      <4>1. Told(x, f)
        BY <1>0, <2>1, <3>2 DEF NoticeInv
      <4> QED
        BY <1>2, <1>a, <4>1 DEF Told
    <3> QED
      BY <1>2, <2>1, <3>1, <3>2 DEF Calm
  <2> QED
    BY <2>1, AllTold
<1>3. ASSUME NEW d \in Daemons, DaemonDial(d) PROVE NoticeInv'
  <2>1. UNCHANGED down /\ dials' = [dials EXCEPT ![d] = @ + 1]
    BY <1>3 DEF DaemonDial
  <2>2. ASSUME NEW x \in Conns, NEW j \in 1 .. Len(down[x]),
               x \in DConns, x[2] = dials'[x[1]]
        PROVE  x[2] = dials[x[1]]
    <3>1. CASE x[1] = d
      <4>1. x[2] > dials[x[1]]
        BY <1>0, <2>1, <2>2, <3>1, BoundsAssumption DEF DaemonTypes
      <4>2. Len(down[x]) = 0
        BY <1>0, <2>2, <4>1 DEF FreshInv
      <4> QED
        BY <4>2
    <3>2. CASE x[1] # d
      BY <1>0, <2>1, <2>2, <3>2 DEF DaemonTypes, DConns
    <3> QED
      BY <3>1, <3>2
  <2>3. ASSUME NEW x \in Conns, NEW j \in 1 .. Len(down[x]), NEW f, f = down[x][j]
        PROVE  Told(x, f)'
    <3>1. Told(x, f)
      BY <1>0, <2>3 DEF NoticeInv
    <3> QED
      BY <1>a, <2>1, <2>2, <3>1 DEF Told
  <2> QED
    BY <2>1, <2>3, AllTold
<1> QED
  BY <1>1, <1>2, <1>3, CalmStep, DialsStay

\* Connections not dialled yet.
LEMMA FreshStep == IInv /\ AuthInv /\ TakeoverInv /\ Next => FreshInv'
<1> SUFFICES ASSUME IInv, AuthInv, TakeoverInv, Next,
                    NEW x \in DConns, x[2] > dials'[x[1]]
             PROVE  ~peerEnd'[x] /\ down'[x] = <<>>
  BY DEF FreshInv
<1>0. FreshInv /\ DaemonTypes /\ SockTypes /\ x \in Conns
  BY DEF TakeoverInv, IInv, TypeOK, Conns
<1>1. x[2] > dials[x[1]]
  <2>1. CASE UNCHANGED dials
    BY <2>1
  <2>2. ASSUME NEW d \in Daemons, DaemonDial(d) PROVE x[2] > dials[x[1]]
    <3>1. dials' = [dials EXCEPT ![d] = @ + 1]
      BY <2>2 DEF DaemonDial
    <3>2. dials[x[1]] \in Nat /\ x[2] \in Nat /\ dials'[x[1]] \in {dials[x[1]], dials[x[1]] + 1}
      BY <1>0, <3>1, BoundsAssumption DEF DaemonTypes, DConns
    <3> QED
      BY <3>2
  <2> QED
    BY <2>1, <2>2, DialsStay
<1>2. ~peerEnd[x] /\ down[x] = <<>>
  BY <1>0, <1>1 DEF FreshInv
<1>3. down'[x] = <<>>
  BY <1>0, <1>2, CalmStep DEF Shut
<1>4. ~peerEnd'[x]
  <2>1. ASSUME NEW c \in Conns, Handler(c) \/ HandlerBreak(c) PROVE UNCHANGED peerEnd
    BY <2>1 DEF Handler, RejectRegister, AcceptRegister, Deliver, RejectClient, LookupFails,
                LookupFinds, InsertPending, ForwardSent, ForwardFails, ForwardKill,
                HandleReply, PendingOf, HandlerEOF, HandlerBreak, Unregister, sockVars
  <2>2. ASSUME NEW c, Abandon(c) PROVE ~peerEnd'[x]
    BY <1>0, <1>2, <2>2 DEF Abandon, SockTypes
  <2>3. ASSUME NEW d \in Daemons, DaemonDial(d) PROVE ~peerEnd'[x]
    <3>1. peerEnd' = [peerEnd EXCEPT ![<<d, dials[d] + 1>>] = TRUE]
          /\ dials' = [dials EXCEPT ![d] = @ + 1]
      BY <2>3 DEF DaemonDial
    <3>2. x # <<d, dials[d] + 1>>
      <4>1. SUFFICES ASSUME x = <<d, dials[d] + 1>> PROVE FALSE
        OBVIOUS
      <4>2. dials'[x[1]] = dials[d] + 1 /\ x[2] = dials[d] + 1 /\ dials[d] \in Nat
        BY <1>0, <3>1, <4>1, BoundsAssumption DEF DaemonTypes
      <4> QED
        BY <4>2
    <3> QED
      BY <1>0, <1>2, <3>1, <3>2 DEF SockTypes
  <2>4. ASSUME NEW d \in Daemons, DaemonStep(d) \/ DaemonBreak(d) \/ DaemonCrash(d)
        PROVE  ~peerEnd'[x]
    BY <1>2, <2>2, <2>3, <2>4
    DEF DaemonStep, DaemonRegister, DaemonEOF, DaemonBreak, DaemonCrash,
        Disconnected, DaemonCommand, DaemonNotice, DaemonExit, SupervisorRestarts, sockVars
  <2>5. ASSUME NEW cl \in Clients, ClientStep(cl) PROVE ~peerEnd'[x]
    <3>1. x # CConn(cl)
      BY PeersAssumption DEF DConns, CConn
    <3>2. \/ UNCHANGED peerEnd
          \/ peerEnd' = [peerEnd EXCEPT ![CConn(cl)] = TRUE]
          \/ Abandon(CConn(cl))
      BY <2>5 DEF ClientStep, ClientSend, ClientRecv, ClientTimeout, ClientClose, sockVars
    <3> QED
      BY <1>0, <1>2, <2>2, <3>1, <3>2 DEF SockTypes
  <2>6. ASSUME NEW i \in ReqIds, EmitChunk(i) \/ EmitFinal(i) PROVE UNCHANGED peerEnd
    BY <2>6 DEF EmitChunk, EmitFinal
  <2>7. RelayRestart => UNCHANGED peerEnd
    BY DEF RelayRestart
  <2> QED
    BY <1>2, <2>1, <2>4, <2>5, <2>6, <2>7 DEF Next
<1> QED
  BY <1>3, <1>4

\* The handlers' frames.
LEMMA HeldStep == IInv /\ TakeoverInv /\ Next => HeldInv'
<1> SUFFICES ASSUME IInv, TakeoverInv, Next PROVE HeldInv'
  OBVIOUS
<1>0. SockTypes /\ RelayTypes /\ HeldInv
  BY DEF TakeoverInv, IInv, TypeOK
<1>a. ASSUME NEW c \in Conns, NEW l, h' = [h EXCEPT ![c] = l], l.msg.type # "replaced"
      PROVE  HeldInv'
  BY <1>0, <1>a DEF HeldInv, RelayTypes
<1>b. Idle.msg.type # "replaced"
  BY DEF Idle, NoMsg, Frame
<1>c. ASSUME UNCHANGED h PROVE HeldInv'
  BY <1>0, <1>c DEF HeldInv
<1>1. ASSUME NEW c \in Conns,
             \/ RejectRegister(c) \/ RejectClient(c) \/ Unregister(c)
             \/ Deliver(c) \/ ForwardSent(c) \/ ForwardFails(c) \/ ForwardKill(c)
      PROVE HeldInv'
  <2>1. h' = [h EXCEPT ![c] = Idle]
    BY <1>1 DEF RejectRegister, RejectClient, Unregister, Hangup, Deliver,
                ForwardSent, ForwardFails, ForwardKill
  <2> QED
    BY <1>a, <1>b, <2>1
<1>2. ASSUME NEW c \in Conns, AcceptRegister(c) PROVE HeldInv'
  <2> DEFINE l == [pc |-> "ack", tgt |-> c, msg |-> Frame("registered", 0, 0, 0), id |-> 0]
  <2>1. l.msg.type = "registered"
    BY DEF Frame
  <2>2. h' = [h EXCEPT ![c] = l]
    BY <1>2 DEF AcceptRegister, Goto
  <2> HIDE DEF l
  <2> QED
    BY <1>a, <2>1, <2>2
<1>3. ASSUME NEW c \in Conns, LookupFails(c) PROVE HeldInv'
  BY <1>3, <1>c DEF LookupFails, relayVars
<1>4. ASSUME NEW c \in Conns, LookupFinds(c) PROVE HeldInv'
  <2>1. h'[c].msg.type # "replaced" /\ \A x \in Conns \ {c} : h'[x] = h[x]
    BY <1>0, <1>4 DEF LookupFinds, Goto, Frame, RelayTypes
  <2> QED
    BY <1>0, <2>1 DEF HeldInv
<1>5. ASSUME NEW c \in Conns, InsertPending(c) PROVE HeldInv'
  <2>1. h'[c].msg.type = h[c].msg.type /\ \A x \in Conns \ {c} : h'[x] = h[x]
    BY <1>0, <1>5 DEF InsertPending, RelayTypes, Locals, Msg
  <2> QED
    BY <1>0, <2>1 DEF HeldInv
<1>6. ASSUME NEW c \in Conns, HandleReply(c) PROVE HeldInv'
  <2> DEFINE m == Head(up[c])
             pr == IF m.id \in ReqIds THEN pending[m.id] ELSE NoEntry
             l == [pc |-> "deliver", tgt |-> pr.conn, msg |-> Translated(m, pr), id |-> 0]
  <2>1. m \in Msg /\ m.type \in {"result", "stream_chunk", "stream_end"}
    BY <1>0, <1>6, IncomingType DEF HandleReply, PendingOf
  <2>2. l.msg.type # "replaced"
    BY <2>1 DEF Translated, Msg
  <2>3. UNCHANGED h \/ h' = [h EXCEPT ![c] = l]
    BY <1>6 DEF HandleReply, PendingOf, Goto
  <2> HIDE DEF l
  <2> QED
    BY <1>a, <1>c, <2>2, <2>3
<1>7. CASE RelayRestart
  BY <1>7, <1>b DEF RelayRestart, HeldInv
<1>8. ASSUME NEW d \in Daemons, DaemonStep(d) \/ DaemonBreak(d) \/ DaemonCrash(d)
      PROVE HeldInv'
  <2>1. UNCHANGED h
    BY <1>8 DEF DaemonStep, DaemonDial, DaemonRegister, DaemonEOF, DaemonBreak, DaemonCrash,
                Disconnected, DaemonCommand, DaemonNotice, DaemonExit, SupervisorRestarts, relayVars
  <2> QED
    BY <1>c, <2>1
<1>9. ASSUME NEW i \in ReqIds, EmitChunk(i) \/ EmitFinal(i) PROVE HeldInv'
  BY <1>9, <1>c DEF EmitChunk, EmitFinal, relayVars
<1>10. ASSUME NEW cl \in Clients, ClientStep(cl) PROVE HeldInv'
  BY <1>10, <1>c DEF ClientStep, ClientSend, ClientRecv, ClientTimeout, ClientClose, relayVars
<1> QED
  BY <1>1, <1>2, <1>3, <1>4, <1>5, <1>6, <1>7, <1>8, <1>9, <1>10
  DEF Next, Handler, HandlerEOF, HandlerBreak

\* The daemons that exited on a notice.
LEMMA GoneStep == IInv /\ AuthInv /\ TakeoverInv /\ Next => GoneInv'
<1> SUFFICES ASSUME IInv, AuthInv, TakeoverInv, Next,
                    NEW d \in Daemons, dproc'[d] = "replaced"
             PROVE  Explained(d)'
  BY DEF GoneInv
<1>0. /\ SockTypes /\ DaemonTypes /\ DownInv /\ DaemonInv
      /\ NoticeInv /\ GoneInv
  BY DEF IInv, TypeOK, AuthInv, TakeoverInv
<1>1. CASE dproc[d] = "replaced"
  BY <1>0, <1>1, ExplainedKept DEF GoneInv
<1>2. CASE dproc[d] # "replaced"
  <2>1. ASSUME NEW c \in Conns, Handler(c) \/ HandlerBreak(c) PROVE UNCHANGED dproc
    BY <2>1 DEF Handler, RejectRegister, AcceptRegister, Deliver, RejectClient, LookupFails,
                LookupFinds, InsertPending, ForwardSent, ForwardFails, ForwardKill,
                HandleReply, PendingOf, HandlerEOF, HandlerBreak, Unregister, daemonVars
  <2>2. ASSUME NEW e \in Daemons,
               \/ DaemonDial(e) \/ DaemonRegister(e) \/ Disconnected(e) \/ DaemonCrash(e)
               \/ DaemonCommand(e) \/ DaemonNotice(e) \/ SupervisorRestarts(e)
        PROVE  FALSE
    BY <1>0, <1>2, <2>2 DEF DaemonDial, DaemonRegister, Disconnected, DaemonCrash,
                            DaemonCommand, DaemonNotice, SupervisorRestarts, daemonVars, DaemonTypes
  <2>3. ASSUME NEW e \in Daemons, DaemonExit(e) PROVE Explained(d)'
    <3>1. e = d /\ DaemonHas(d, {"replaced", "disconnect"})
          /\ Head(down[Live(d)]).type = "replaced"
      BY <1>0, <1>2, <2>3 DEF DaemonExit, DaemonTypes
    <3>2. Live(d) \in DConns /\ Live(d) \in Conns /\ down[Live(d)] # <<>>
      BY <1>0, <3>1, TakenFine
    <3>3. down[Live(d)] \in Seq(Msg)
      BY <1>0, <3>2 DEF SockTypes
    <3>4. 1 \in 1 .. Len(down[Live(d)]) /\ Head(down[Live(d)]) = down[Live(d)][1]
      BY <3>2, <3>3
    <3>5. Told(Live(d), Head(down[Live(d)]))
      BY <1>0, <3>2, <3>4 DEF NoticeInv
    <3>6. Explained(d)
      BY <3>1, <3>2, <3>5 DEF Told, Live
    <3> QED
      BY <3>6, ExplainedKept
  <2>4. ASSUME NEW cl \in Clients, ClientStep(cl) PROVE UNCHANGED dproc
    BY <2>4 DEF ClientStep, ClientSend, ClientRecv, ClientTimeout, ClientClose, daemonVars
  <2>5. ASSUME NEW i \in ReqIds, EmitChunk(i) \/ EmitFinal(i) PROVE UNCHANGED dproc
    BY <2>5 DEF EmitChunk, EmitFinal
  <2>6. RelayRestart => UNCHANGED dproc
    BY DEF RelayRestart, daemonVars
  <2> QED
    BY <1>2, <2>1, <2>2, <2>3, <2>4, <2>5, <2>6 DEF Next, DaemonStep, DaemonEOF, DaemonBreak
<1> QED
  BY <1>1, <1>2

\* Nothing is registered yet.
LEMMA InitTakeover == Init => TakeoverInv
<1> SUFFICES ASSUME Init PROVE TakeoverInv
  OBVIOUS
<1>1. \A c \in Conns : Len(down[c]) = 0 /\ ~peerEnd[c] /\ down[c] = <<>>
  BY DEF Init
<1>2. NoticeInv /\ FreshInv
  BY <1>1 DEF NoticeInv, FreshInv, Conns
<1>3. HeldInv /\ GoneInv
  BY DEF Init, HeldInv, GoneInv, Idle, NoMsg, Frame
<1> QED
  BY <1>2, <1>3 DEF TakeoverInv

\* A daemon that exits on "replaced by new connection" has a duplicate, or
\* the register frame of a socket it had given up was read after that of its
\* last one: for any number of daemons that share names and tokens, lose
\* connections, are started again and dial again, and however late a frame
\* arrives.
THEOREM ReplacedIsExplained == Spec => []ReplacedExplained
<1>1. Init => IInv /\ AuthInv /\ TakeoverInv
  BY InitIInv, InitAuth, InitTakeover
<1>2. IInv /\ AuthInv /\ TakeoverInv /\ [Next]_vars => (IInv /\ AuthInv /\ TakeoverInv)'
  <2> SUFFICES ASSUME IInv, AuthInv, TakeoverInv, [Next]_vars
               PROVE  (IInv /\ AuthInv /\ TakeoverInv)'
    OBVIOUS
  <2>1. IInv' /\ AuthInv'
    BY StepIInv, StepAuth
  <2>2. CASE Next
    <3>1. NoticeInv' /\ FreshInv' /\ HeldInv' /\ GoneInv'
      BY <2>2, NoticeStep, FreshStep, HeldStep, GoneStep
    <3> QED
      BY <2>1, <3>1 DEF TakeoverInv
  <2>3. CASE UNCHANGED vars
    <3>1. UNCHANGED <<down, peerEnd, dials, dproc, h, reg, overtaken>>
      BY <2>3 DEF vars
    <3>2. TakeoverInv'
      BY <3>1 DEF TakeoverInv, NoticeInv, Told, Explained, Duplicate, FreshInv, HeldInv, GoneInv
    <3> QED
      BY <2>1, <3>2
  <2> QED
    BY <2>2, <2>3
<1>3. TakeoverInv => ReplacedExplained
  BY DEF TakeoverInv, GoneInv, Explained, ReplacedExplained
<1> QED
  BY <1>1, <1>2, <1>3, PTL DEF Spec

---------------------------------------------------------------------------
(***************************************************************************)
(* ImplementsService.  What a request has come to is spread over the       *)
(* client's queue, the handler, the entries, the queues to the daemons and *)
(* the executions.  A client numbers its requests, and the queue and the   *)
(* handler take them in that order: what is drawn an id is older than what *)
(* is in hand, and that is older than what is in the queue.                *)
(***************************************************************************)
Asking == {"execute", "stream"}
Replies == {"result", "stream_chunk", "stream_end"}

Asked(s) == {s[j].id : j \in {i \in 1 .. Len(s) : s[i].type \in Asking}}
Rising(s) == \A i, j \in 1 .. Len(s) :
  i < j /\ s[i].type \in Asking /\ s[j].type \in Asking => s[i].id < s[j].id
Before(A, B) == \A a \in A, b \in B : a < b

InHand(c) == IF h[c].pc = "insert" THEN {h[c].id} ELSE {}
Drawn(c) == {origin[i].serverID : i \in {x \in ReqIds : origin[x].conn = c}}
InOrder(c) ==
  /\ Rising(up[c])
  /\ Before(Drawn(c), InHand(c) \cup Asked(up[c])) /\ Before(InHand(c), Asked(up[c]))
  /\ Drawn(c) \cup InHand(c) \cup Asked(up[c]) \subseteq 1 .. csent[Owner(c)]
OrderInv == \A c \in CConns : InOrder(c)

(***************************************************************************)
(* An id is drawn once, for one request; its command is forwarded once and *)
(* begun once.                                                             *)
(***************************************************************************)
OriginInv ==
  /\ \A i \in ReqIds : origin[i] = NoEntry \/ (origin[i].conn \in CConns /\ i < nextId)
  /\ \A i, j \in ReqIds : origin[i] = origin[j] /\ origin[i] # NoEntry => i = j
  /\ \A i \in ReqIds : pending[i] \in {NoEntry, origin[i]}
  /\ \A i \in ReqIds : job[i].st # "none" => job[i].by \in Daemons

Commands(s) == {s[j].id : j \in {i \in 1 .. Len(s) : s[i].type = "command"}}
Single(s) == \A i, j \in 1 .. Len(s) :
  s[i].type = "command" /\ s[j].type = "command" /\ s[i].id = s[j].id => i = j
Travels(i) == \E c \in Conns : i \in Commands(down[c])
Begun(i) == job[i].st # "none" \/ Travels(i)
OnceInv ==
  /\ \A c \in Conns : Single(down[c])
  /\ \A x, y \in Conns : x # y => Commands(down[x]) \cap Commands(down[y]) = {}
  /\ \A i \in ReqIds : Travels(i) => job[i].st = "none"
  /\ \A c \in Conns : h[c].pc = "forward" =>
       origin[h[c].msg.id].serverID = h[c].id /\ ~Begun(h[c].msg.id)

(***************************************************************************)
(* What a client may be told: output of an execution of its own request,   *)
(* and a refusal only if the request is nowhere any more and has not       *)
(* begun.  Whoever sends `disconnect' sends nothing else.                  *)
(***************************************************************************)
Never(c, k) ==
  /\ k \in 1 .. csent[Owner(c)]
  /\ k \notin Asked(up[c]) \cup InHand(c)
  /\ h[c].pc = "forward" => h[c].id # k
  /\ \A i \in ReqIds : origin[i].conn = c /\ origin[i].serverID = k => ~Begun(i)
OutputOf(c, m) ==
  /\ m.run \in ReqIds /\ job[m.run].st # "none"
  /\ origin[m.run].conn = c /\ origin[m.run].serverID = m.id
Solo(c) == ckind[Owner(c)] = "disconnect"
Says(c, m) ==
  /\ m.type \in {"error", "disconnect_confirmed"} => Solo(c) /\ m.run = 0
  /\ m.run # 0 => OutputOf(c, m)
  /\ m.run = 0 /\ m.id # 0 => Never(c, m.id)

ReplyInv ==
  /\ \A c \in Conns : \A j \in 1 .. Len(up[c]) : up[c][j].type \in Replies =>
       up[c][j].id = up[c][j].run /\ up[c][j].run \in ReqIds /\ job[up[c][j].run].st # "none"
  /\ \A c \in Conns : h[c].pc = "deliver" =>
       h[c].msg.type \in Replies /\ OutputOf(h[c].tgt, h[c].msg)
  /\ \A c \in Conns : h[c].pc = "ack" => h[c].msg = Frame("registered", 0, 0, 0)
SaysInv == \A c \in CConns : \A j \in 1 .. Len(down[c]) : Says(c, down[c][j])
SoloInv ==
  \A c \in CConns :
    /\ h[c].pc = "kill" => Solo(c)
    /\ \A j \in 1 .. Len(up[c]) : up[c][j].type = "disconnect" => Solo(c)
    /\ Solo(c) => /\ Asked(up[c]) = {} /\ Drawn(c) = {} /\ csent[Owner(c)] > 0
                  /\ h[c].pc \notin {"insert", "forward"}
WaitInv ==
  \A cl \in Clients :
    /\ csent[cl] <= MaxExec /\ cwait[cl] \in {0, csent[cl]}
    /\ cwait[cl] # 0 => answer[cl][cwait[cl]] = "none"
    /\ \A k \in 1 .. MaxExec : k > csent[cl] => answer[cl][k] = "none"
    /\ \A k \in 1 .. MaxExec : answer[cl][k] = "refused" => Never(CConn(cl), k)
\* What a client has heard is what an execution printed; an unanswered one
\* has heard nothing.
HeardInv ==
  \A cl \in Clients, k \in 1 .. MaxExec :
    /\ answer[cl][k] = "none" => heard[cl][k] = 0
    /\ heard[cl][k] # 0 => heard[cl][k] \in ReqIds /\ job[heard[cl][k]].st # "none"

ServeInv ==
  OrderInv /\ OriginInv /\ OnceInv /\ ReplyInv /\ SaysInv /\ SoloInv /\ WaitInv /\ HeardInv

---------------------------------------------------------------------------
\* What is left of a queue keeps its order.
LEMMA AskedTail ==
  ASSUME NEW s \in Seq(Msg), s # <<>>, Rising(s)
  PROVE  /\ Rising(Tail(s)) /\ Asked(Tail(s)) \subseteq Asked(s)
         /\ Head(s).type \in Asking =>
              Head(s).id \in Asked(s) /\ \A n \in Asked(Tail(s)) : Head(s).id < n
<1>1. /\ \A i \in 1 .. Len(Tail(s)) : i + 1 \in 1 .. Len(s) /\ Tail(s)[i] = s[i + 1] /\ 1 < i + 1
      /\ 1 \in 1 .. Len(s) /\ Head(s) = s[1]
      /\ \A i, j \in 1 .. Len(Tail(s)) : i < j => i + 1 < j + 1
  OBVIOUS
<1>2. Rising(Tail(s))
  <2> SUFFICES ASSUME NEW i \in 1 .. Len(Tail(s)), NEW j \in 1 .. Len(Tail(s)), i < j,
                      Tail(s)[i].type \in Asking, Tail(s)[j].type \in Asking
               PROVE  Tail(s)[i].id < Tail(s)[j].id
    BY DEF Rising
  <2> QED
    BY <1>1 DEF Rising
<1>3. Asked(Tail(s)) \subseteq Asked(s)
  BY <1>1 DEF Asked
<1>4. ASSUME Head(s).type \in Asking
      PROVE  Head(s).id \in Asked(s) /\ \A n \in Asked(Tail(s)) : Head(s).id < n
  BY <1>1, <1>4 DEF Asked, Rising
<1> QED
  BY <1>2, <1>3, <1>4

LEMMA AskedPrefix ==
  ASSUME NEW s \in Seq(Msg), NEW n \in 0 .. Len(s), Rising(s)
  PROVE  Rising(SubSeq(s, 1, n)) /\ Asked(SubSeq(s, 1, n)) \subseteq Asked(s)
<1>1. Len(SubSeq(s, 1, n)) = n /\ \A i \in 1 .. n : i \in 1 .. Len(s) /\ SubSeq(s, 1, n)[i] = s[i]
  OBVIOUS
<1> QED
  BY <1>1 DEF Rising, Asked

LEMMA AskedAppend ==
  ASSUME NEW s \in Seq(Msg), NEW m \in Msg, Rising(s),
         m.type \in Asking => \A n \in Asked(s) : n < m.id
  PROVE  /\ Rising(Append(s, m))
         /\ Asked(Append(s, m)) = IF m.type \in Asking THEN Asked(s) \cup {m.id} ELSE Asked(s)
<1> DEFINE r == Append(s, m)
           e == Len(s) + 1
<1>1. /\ Len(r) = e /\ r[e] = m /\ e \in Nat
      /\ \A i \in 1 .. e : i = e \/ i \in 1 .. Len(s)
      /\ \A i \in 1 .. Len(s) : r[i] = s[i] /\ i \in 1 .. e /\ i < e
      /\ e \in 1 .. e
  OBVIOUS
<1> HIDE DEF r, e
<1>2. Rising(r)
  <2> SUFFICES ASSUME NEW i \in 1 .. e, NEW j \in 1 .. e, i < j,
                      r[i].type \in Asking, r[j].type \in Asking
               PROVE  r[i].id < r[j].id
    BY <1>1 DEF Rising
  <2>1. i \in 1 .. Len(s) /\ s[i].id \in Asked(s)
    <3>1. i \in 1 .. Len(s)
      BY <1>1
    <3> QED
      BY <1>1, <3>1 DEF Asked
  <2>2. CASE j = e
    BY <1>1, <2>1, <2>2
  <2>3. CASE j \in 1 .. Len(s)
    BY <1>1, <2>1, <2>3 DEF Rising
  <2> QED
    BY <1>1, <2>2, <2>3
<1>3. Asked(r) = IF m.type \in Asking THEN Asked(s) \cup {m.id} ELSE Asked(s)
  BY <1>1 DEF Asked
<1> QED
  BY <1>2, <1>3 DEF r

LEMMA AskedEmpty == Rising(<<>>) /\ Asked(<<>>) = {}
  BY DEF Rising, Asked

\* The same for the commands in a queue to a daemon.
LEMMA CommandsTail ==
  ASSUME NEW s \in Seq(Msg), s # <<>>, Single(s)
  PROVE  /\ Single(Tail(s)) /\ Commands(Tail(s)) \subseteq Commands(s)
         /\ Head(s).type = "command" =>
              Head(s).id \in Commands(s) /\ Head(s).id \notin Commands(Tail(s))
<1>1. /\ \A i \in 1 .. Len(Tail(s)) : i + 1 \in 1 .. Len(s) /\ Tail(s)[i] = s[i + 1] /\ 1 # i + 1
      /\ 1 \in 1 .. Len(s) /\ Head(s) = s[1]
      /\ \A i, j \in 1 .. Len(Tail(s)) : i + 1 = j + 1 => i = j
  OBVIOUS
<1>2. Single(Tail(s))
  <2> SUFFICES ASSUME NEW i \in 1 .. Len(Tail(s)), NEW j \in 1 .. Len(Tail(s)),
                      Tail(s)[i].type = "command", Tail(s)[j].type = "command",
                      Tail(s)[i].id = Tail(s)[j].id
               PROVE  i = j
    BY DEF Single
  <2> QED
    BY <1>1 DEF Single
<1>3. Commands(Tail(s)) \subseteq Commands(s)
  BY <1>1 DEF Commands
<1>4. ASSUME Head(s).type = "command"
      PROVE  Head(s).id \in Commands(s) /\ Head(s).id \notin Commands(Tail(s))
  BY <1>1, <1>4 DEF Commands, Single
<1> QED
  BY <1>2, <1>3, <1>4

LEMMA CommandsAppend ==
  ASSUME NEW s \in Seq(Msg), NEW m \in Msg, Single(s),
         m.type = "command" => m.id \notin Commands(s)
  PROVE  /\ Single(Append(s, m))
         /\ Commands(Append(s, m)) = IF m.type = "command" THEN Commands(s) \cup {m.id}
                                     ELSE Commands(s)
<1> DEFINE r == Append(s, m)
           e == Len(s) + 1
<1>1. /\ Len(r) = e /\ r[e] = m /\ e \in Nat
      /\ \A i \in 1 .. e : i = e \/ i \in 1 .. Len(s)
      /\ \A i \in 1 .. Len(s) : r[i] = s[i] /\ i \in 1 .. e
      /\ e \in 1 .. e
  OBVIOUS
<1> HIDE DEF r, e
<1>2. Single(r)
  <2> SUFFICES ASSUME NEW i \in 1 .. e, NEW j \in 1 .. e,
                      r[i].type = "command", r[j].type = "command", r[i].id = r[j].id
               PROVE  i = j
    BY <1>1 DEF Single
  <2>1. \A k \in 1 .. Len(s) : s[k].type = "command" => s[k].id \in Commands(s)
    BY DEF Commands
  <2> QED
    BY <1>1, <2>1 DEF Single
<1>3. Commands(r) = IF m.type = "command" THEN Commands(s) \cup {m.id} ELSE Commands(s)
  BY <1>1 DEF Commands
<1> QED
  BY <1>2, <1>3 DEF r

LEMMA CommandsEmpty == Single(<<>>) /\ Commands(<<>>) = {}
  BY DEF Single, Commands

---------------------------------------------------------------------------
\* Clients' connections are no daemons', and a client has one.
LEMMA ClientConns ==
  /\ \A c \in CConns : c \in Conns /\ c \notin DConns /\ Owner(c) \in Clients /\ CConn(Owner(c)) = c
  /\ \A d \in Daemons : Live(d) \notin CConns
  /\ \A cl \in Clients : CConn(cl) \in CConns /\ Owner(CConn(cl)) = cl
  BY PeersAssumption DEF CConns, DConns, Conns, Owner, CConn, Live

\* What a step does to a queue of frames that nobody writes to.
Shrinks(s, t) ==
  t = s \/ (s # <<>> /\ t = Tail(s)) \/ \E n \in 0 .. Len(s) : t = SubSeq(s, 1, n)

LEMMA AskedShrinks ==
  ASSUME NEW s \in Seq(Msg), NEW t, Shrinks(s, t), Rising(s)
  PROVE  t \in Seq(Msg) /\ Rising(t) /\ Asked(t) \subseteq Asked(s)
<1>1. CASE t = s
  BY <1>1
<1>2. CASE s # <<>> /\ t = Tail(s)
  BY <1>2, AskedTail
<1>3. CASE \E n \in 0 .. Len(s) : t = SubSeq(s, 1, n)
  <2>1. PICK n \in 0 .. Len(s) : t = SubSeq(s, 1, n)
    BY <1>3
  <2>2. SubSeq(s, 1, n) \in Seq(Msg)
    OBVIOUS
  <2> QED
    BY <2>1, <2>2, AskedPrefix
<1> QED
  BY <1>1, <1>2, <1>3 DEF Shrinks

\* Every frame of what is left was there before.
LEMMA ShrinksElement ==
  ASSUME NEW s \in Seq(Msg), NEW t, Shrinks(s, t)
  PROVE  t \in Seq(Msg) /\ \A j \in 1 .. Len(t) : \E k \in 1 .. Len(s) : t[j] = s[k]
<1>1. CASE t = s
  BY <1>1
<1>2. CASE s # <<>> /\ t = Tail(s)
  <2>1. /\ Tail(s) \in Seq(Msg)
        /\ \A j \in 1 .. Len(Tail(s)) : j + 1 \in 1 .. Len(s) /\ Tail(s)[j] = s[j + 1]
    BY <1>2
  <2> QED
    BY <1>2, <2>1
<1>3. CASE \E n \in 0 .. Len(s) : t = SubSeq(s, 1, n)
  <2>1. PICK n \in 0 .. Len(s) : t = SubSeq(s, 1, n)
    BY <1>3
  <2>2. /\ SubSeq(s, 1, n) \in Seq(Msg) /\ Len(SubSeq(s, 1, n)) = n
        /\ \A j \in 1 .. n : j \in 1 .. Len(s) /\ SubSeq(s, 1, n)[j] = s[j]
    OBVIOUS
  <2> QED
    BY <2>1, <2>2
<1> QED
  BY <1>1, <1>2, <1>3 DEF Shrinks

\* What is left of the commands in a queue to a daemon.
LEMMA CommandsShrinks ==
  ASSUME NEW s \in Seq(Msg), NEW t, Shrinks(s, t), Single(s)
  PROVE  Single(t) /\ Commands(t) \subseteq Commands(s)
<1>1. CASE t = s
  BY <1>1
<1>2. CASE s # <<>> /\ t = Tail(s)
  BY <1>2, CommandsTail
<1>3. CASE \E n \in 0 .. Len(s) : t = SubSeq(s, 1, n)
  <2>1. PICK n \in 0 .. Len(s) : t = SubSeq(s, 1, n)
    BY <1>3
  <2>2. /\ Len(SubSeq(s, 1, n)) = n
        /\ \A j \in 1 .. n : j \in 1 .. Len(s) /\ SubSeq(s, 1, n)[j] = s[j]
    OBVIOUS
  <2> QED
    BY <2>1, <2>2 DEF Single, Commands
<1> QED
  BY <1>1, <1>2, <1>3 DEF Shrinks

\* What a step does to the frames on their way to the relay.
LEMMA UpEffect ==
  ASSUME IInv, OriginInv, Next, NEW c \in Conns
  PROVE  \/ Shrinks(up[c], up'[c])
         \/ \E cl \in Clients, kind \in Kinds : ClientSend(cl, kind) /\ c = CConn(cl)
         \/ c \notin CConns /\ up'[c] = Append(up[c], Frame("register", 0, 0, 0))
         \/ c \notin CConns /\ \E i \in ReqIds : EmitChunk(i) /\
              up'[c] = Append(up[c], Frame("stream_chunk", i, i, job[i].out + 1))
         \/ c \notin CConns /\ \E i \in ReqIds : EmitFinal(i) /\ up'[c] = Append(up[c], FinalFrame(i))
<1>0. SockTypes
  BY DEF IInv, TypeOK
<1>1. Shrinks(up[c], up[c]) /\ Shrinks(up[c], <<>>)
  <2>1. up[c] \in Seq(Msg)
    BY <1>0 DEF SockTypes
  <2>2. SubSeq(up[c], 1, 0) = <<>> /\ 0 \in 0 .. Len(up[c])
    BY <2>1
  <2> QED
    BY <2>2 DEF Shrinks
<1>2. ASSUME NEW x \in Conns, Consume(x), up[x] # <<>> PROVE Shrinks(up[c], up'[c])
  BY <1>0, <1>1, <1>2 DEF Consume, SockTypes, Shrinks
<1>3. ASSUME NEW x, Hangup(x) PROVE Shrinks(up[c], up'[c])
  BY <1>0, <1>1, <1>3 DEF Hangup, SockTypes
<1>4. ASSUME NEW x, Abandon(x) PROVE Shrinks(up[c], up'[c])
  BY <1>0, <1>1, <1>4 DEF Abandon, SockTypes, Shrinks
<1>5. ASSUME up' = up PROVE Shrinks(up[c], up'[c])
  BY <1>1, <1>5
<1>6. ASSUME NEW d \in Daemons, NEW m, up' = UpWith(d, m)
      PROVE  up'[c] = up[c] \/ (c \notin CConns /\ up'[c] = Append(up[c], m))
  BY <1>0, <1>6, ClientConns DEF UpWith, SockTypes
<1>7. ASSUME NEW x \in Conns,
             \/ AcceptRegister(x) \/ LookupFails(x) \/ LookupFinds(x) \/ HandleReply(x)
      PROVE Shrinks(up[c], up'[c])
  BY <1>2, <1>7 DEF AcceptRegister, LookupFails, LookupFinds, HandleReply, PendingOf, Incoming
<1>8. ASSUME NEW x \in Conns, RejectRegister(x) \/ RejectClient(x) \/ Unregister(x)
      PROVE Shrinks(up[c], up'[c])
  BY <1>3, <1>8 DEF RejectRegister, RejectClient, Unregister
<1>9. ASSUME NEW x \in Conns,
             Deliver(x) \/ InsertPending(x) \/ ForwardSent(x) \/ ForwardFails(x) \/ ForwardKill(x)
      PROVE Shrinks(up[c], up'[c])
  BY <1>5, <1>9 DEF Deliver, InsertPending, ForwardSent, ForwardFails, ForwardKill, sockVars
<1>10. ASSUME RelayRestart PROVE Shrinks(up[c], up'[c])
  BY <1>1, <1>10 DEF RelayRestart
<1>11. ASSUME NEW d \in Daemons, Disconnected(d) \/ DaemonCrash(d) \/ DaemonExit(d)
       PROVE Shrinks(up[c], up'[c])
  BY <1>4, <1>11 DEF Disconnected, DaemonCrash, DaemonExit
<1>12. ASSUME NEW d \in Daemons,
              DaemonDial(d) \/ DaemonCommand(d) \/ DaemonNotice(d) \/ SupervisorRestarts(d)
       PROVE  Shrinks(up[c], up'[c])
  BY <1>5, <1>12 DEF DaemonDial, DaemonCommand, DaemonNotice, SupervisorRestarts, sockVars
<1>13. ASSUME NEW d \in Daemons, DaemonRegister(d)
       PROVE  \/ Shrinks(up[c], up'[c])
              \/ c \notin CConns /\ up'[c] = Append(up[c], Frame("register", 0, 0, 0))
  BY <1>1, <1>6, <1>13 DEF DaemonRegister
<1>14. ASSUME NEW i \in ReqIds, EmitChunk(i)
       PROVE  \/ Shrinks(up[c], up'[c])
              \/ c \notin CConns /\ up'[c] = Append(up[c], Frame("stream_chunk", i, i, job[i].out + 1))
  <2>1. job[i].by \in Daemons
    BY <1>14 DEF EmitChunk, OriginInv
  <2> QED
    BY <1>1, <1>6, <1>14, <2>1 DEF EmitChunk
<1>15. ASSUME NEW i \in ReqIds, EmitFinal(i)
       PROVE  \/ Shrinks(up[c], up'[c])
              \/ c \notin CConns /\ up'[c] = Append(up[c], FinalFrame(i))
  <2>1. job[i].by \in Daemons
    BY <1>15 DEF EmitFinal, OriginInv
  <2> QED
    BY <1>1, <1>6, <1>15, <2>1 DEF EmitFinal
<1>16. ASSUME NEW cl \in Clients, NEW kind \in Kinds, ClientSend(cl, kind)
       PROVE  Shrinks(up[c], up'[c]) \/ c = CConn(cl)
  BY <1>0, <1>1, <1>16 DEF ClientSend, SockTypes
<1>17. ASSUME NEW cl \in Clients, ClientRecv(cl) \/ ClientTimeout(cl) \/ ClientClose(cl)
       PROVE Shrinks(up[c], up'[c])
  BY <1>4, <1>5, <1>17 DEF ClientRecv, ClientTimeout, ClientClose, sockVars
<1> QED
  BY <1>7, <1>8, <1>9, <1>10, <1>11, <1>12, <1>13, <1>14, <1>15, <1>16, <1>17
  DEF Next, Handler, HandlerEOF, HandlerBreak, DaemonStep, DaemonEOF, DaemonBreak, ClientStep

\* What a step does to the handlers.
LEMMA HandEffect ==
  ASSUME IInv, Next, NEW c \in Conns
  PROVE  \/ h'[c] = h[c] \/ h'[c] = Idle
         \/ LookupFinds(c) \/ InsertPending(c) \/ HandleReply(c) \/ AcceptRegister(c)
<1>0. h \in [Conns -> Locals]
  BY DEF IInv, TypeOK, RelayTypes
<1>1. ASSUME NEW x \in Conns,
             \/ RejectRegister(x) \/ RejectClient(x) \/ Unregister(x)
             \/ Deliver(x) \/ ForwardSent(x) \/ ForwardFails(x) \/ ForwardKill(x)
      PROVE  h'[c] = h[c] \/ h'[c] = Idle
  BY <1>0, <1>1 DEF RejectRegister, RejectClient, Unregister, Hangup, Deliver, ForwardSent,
                    ForwardFails, ForwardKill
<1>2. ASSUME NEW x \in Conns, x # c,
             LookupFinds(x) \/ InsertPending(x) \/ HandleReply(x) \/ AcceptRegister(x)
      PROVE  h'[c] = h[c]
  BY <1>0, <1>2 DEF LookupFinds, InsertPending, HandleReply, PendingOf, AcceptRegister, Goto
<1>3. ASSUME NEW x \in Conns, LookupFails(x) PROVE h' = h
  BY <1>3 DEF LookupFails, relayVars
<1>4. CASE RelayRestart
  BY <1>4 DEF RelayRestart
<1>5. ASSUME NEW d \in Daemons, DaemonStep(d) \/ DaemonBreak(d) \/ DaemonCrash(d)
      PROVE  h' = h
  BY <1>5 DEF DaemonStep, DaemonDial, DaemonRegister, DaemonEOF, DaemonBreak, Disconnected,
              DaemonCommand, DaemonNotice, DaemonExit, SupervisorRestarts, DaemonCrash, relayVars
<1>6. ASSUME NEW i \in ReqIds, EmitChunk(i) \/ EmitFinal(i) PROVE h' = h
  BY <1>6 DEF EmitChunk, EmitFinal, relayVars
<1>7. ASSUME NEW cl \in Clients, ClientStep(cl) PROVE h' = h
  BY <1>7 DEF ClientStep, ClientSend, ClientRecv, ClientTimeout, ClientClose, relayVars
<1> QED
  BY <1>1, <1>2, <1>3, <1>4, <1>5, <1>6, <1>7 DEF Next, Handler, HandlerEOF, HandlerBreak

\* What a step does to the entries and the ids.
LEMMA EntryEffect ==
  ASSUME IInv, Next
  PROVE  \/ UNCHANGED <<origin, nextId>> /\ \A i \in ReqIds : pending'[i] \in {NoEntry, pending[i]}
         \/ \E c \in Conns : InsertPending(c)
<1>0. pending \in [ReqIds -> Entries]
  BY DEF IInv, TypeOK, RelayTypes
<1> DEFINE Quiet == UNCHANGED <<origin, nextId>> /\ \A i \in ReqIds : pending'[i] \in {NoEntry, pending[i]}
<1>1. ASSUME NEW x \in Conns, ForwardFails(x) \/ HandleReply(x) \/ Unregister(x) PROVE Quiet
  BY <1>0, <1>1 DEF ForwardFails, HandleReply, PendingOf, Unregister, histVars
<1>2. ASSUME NEW x \in Conns,
             \/ RejectRegister(x) \/ AcceptRegister(x) \/ RejectClient(x) \/ Deliver(x)
             \/ ForwardSent(x) \/ ForwardKill(x) \/ LookupFails(x) \/ LookupFinds(x)
      PROVE  Quiet
  BY <1>2 DEF RejectRegister, AcceptRegister, RejectClient, Deliver, ForwardSent, ForwardKill,
              LookupFails, LookupFinds, relayVars, histVars
<1>3. CASE RelayRestart
  BY <1>3 DEF RelayRestart, histVars
<1>4. ASSUME NEW d \in Daemons, DaemonStep(d) \/ DaemonBreak(d) \/ DaemonCrash(d)
      PROVE  Quiet
  BY <1>4 DEF DaemonStep, DaemonDial, DaemonRegister, DaemonEOF, DaemonBreak, Disconnected,
              DaemonCommand, DaemonNotice, DaemonExit, SupervisorRestarts, DaemonCrash, relayVars, histVars
<1>5. ASSUME NEW i \in ReqIds, EmitChunk(i) \/ EmitFinal(i) PROVE Quiet
  BY <1>5 DEF EmitChunk, EmitFinal, relayVars, histVars
<1>6. ASSUME NEW cl \in Clients, ClientStep(cl) PROVE Quiet
  BY <1>6 DEF ClientStep, ClientSend, ClientRecv, ClientTimeout, ClientClose, relayVars, histVars
<1> QED
  BY <1>1, <1>2, <1>3, <1>4, <1>5, <1>6 DEF Next, Handler, HandlerEOF, HandlerBreak

\* What a step does to the executions.
LEMMA JobEffect ==
  ASSUME IInv, Next
  PROVE  \/ \A i \in ReqIds : (job'[i].st = "none" <=> job[i].st = "none") /\ job'[i].by = job[i].by
         \/ \E d \in Daemons : DaemonCommand(d)
<1>0. job \in [ReqIds -> Jobs]
  BY DEF IInv, TypeOK, DaemonTypes
<1> DEFINE Quiet == \A i \in ReqIds : (job'[i].st = "none" <=> job[i].st = "none") /\ job'[i].by = job[i].by
<1>1. ASSUME NEW c \in Conns, Handler(c) \/ HandlerBreak(c) PROVE Quiet
  <2>1. job' = job
    BY <1>1 DEF Handler, RejectRegister, AcceptRegister, Deliver, RejectClient, LookupFails,
                LookupFinds, InsertPending, ForwardSent, ForwardFails, ForwardKill, HandleReply, PendingOf,
                HandlerEOF, HandlerBreak, Unregister, daemonVars
  <2> QED
    BY <2>1
<1>2. CASE RelayRestart
  BY <1>2 DEF RelayRestart, daemonVars
<1>3. ASSUME NEW d \in Daemons, EndJobs(d) PROVE Quiet
  BY <1>0, <1>3 DEF EndJobs, Running, Jobs
<1>4. ASSUME NEW d \in Daemons, DaemonCrash(d) \/ DaemonExit(d) PROVE Quiet
  BY <1>3, <1>4 DEF DaemonCrash, DaemonExit
<1>5. ASSUME NEW d \in Daemons,
             \/ DaemonDial(d) \/ DaemonRegister(d) \/ Disconnected(d) \/ DaemonNotice(d)
             \/ SupervisorRestarts(d)
      PROVE  Quiet
  BY <1>5 DEF DaemonDial, DaemonRegister, Disconnected, DaemonNotice, SupervisorRestarts, daemonVars
<1>6. ASSUME NEW i \in ReqIds, EmitChunk(i) \/ EmitFinal(i) PROVE Quiet
  BY <1>0, <1>6 DEF EmitChunk, EmitFinal, Jobs
<1>7. ASSUME NEW cl \in Clients, ClientStep(cl) PROVE Quiet
  BY <1>7 DEF ClientStep, ClientSend, ClientRecv, ClientTimeout, ClientClose, daemonVars
<1> QED
  BY <1>1, <1>2, <1>4, <1>5, <1>6, <1>7 DEF Next, DaemonStep, DaemonEOF, DaemonBreak

\* What a step does to the clients' own state.
LEMMA ClientEffect ==
  ASSUME Next
  PROVE  \/ UNCHANGED <<csent, ckind, cwait, answer, heard>>
         \/ \E cl \in Clients, kind \in Kinds : ClientSend(cl, kind)
         \/ /\ UNCHANGED <<csent, ckind>>
            /\ \E cl \in Clients : ClientRecv(cl) \/ ClientTimeout(cl) \/ ClientClose(cl)
<1>1. ASSUME NEW c \in Conns, Handler(c) \/ HandlerBreak(c) PROVE UNCHANGED <<csent, ckind, cwait, answer, heard>>
  BY <1>1 DEF Handler, RejectRegister, AcceptRegister, Deliver, RejectClient, LookupFails,
              LookupFinds, InsertPending, ForwardSent, ForwardFails, ForwardKill, HandleReply, PendingOf,
              HandlerEOF, HandlerBreak, Unregister, clientVars
<1>2. CASE RelayRestart
  BY <1>2 DEF RelayRestart, clientVars
<1>3. ASSUME NEW d \in Daemons, DaemonStep(d) \/ DaemonBreak(d) \/ DaemonCrash(d)
      PROVE  UNCHANGED <<csent, ckind, cwait, answer, heard>>
  BY <1>3 DEF DaemonStep, DaemonDial, DaemonRegister, DaemonEOF, DaemonBreak, Disconnected,
              DaemonCommand, DaemonNotice, DaemonExit, SupervisorRestarts, DaemonCrash, clientVars
<1>4. ASSUME NEW i \in ReqIds, EmitChunk(i) \/ EmitFinal(i) PROVE UNCHANGED <<csent, ckind, cwait, answer, heard>>
  BY <1>4 DEF EmitChunk, EmitFinal, clientVars
<1>5. ASSUME NEW cl \in Clients, ClientStep(cl)
      PROVE  \/ \E kind \in Kinds : ClientSend(cl, kind)
             \/ /\ UNCHANGED <<csent, ckind>>
                /\ ClientRecv(cl) \/ ClientTimeout(cl) \/ ClientClose(cl)
  BY <1>5 DEF ClientStep, ClientRecv, ClientTimeout, ClientClose, GiveUp
<1> QED
  BY <1>1, <1>2, <1>3, <1>4, <1>5 DEF Next

\* Frame m is written to the peer of c.
Gets(c, m) ==
  \/ \E x \in Conns : (Deliver(x) \/ ForwardSent(x) \/ ForwardKill(x)) /\ c = h[x].tgt /\ m = h[x].msg
  \/ (RejectClient(c) \/ LookupFails(c)) /\ m = Refusal(Head(up[c]))
  \/ ForwardFails(c) /\ m = errResult(h[c].id)
  \/ ForwardKill(c) /\ m \in {Frame("disconnect_confirmed", 0, 0, 0), Frame("error", 0, 0, 0)}
  \/ RejectRegister(c) /\ m \in {Frame("error", 0, 0, 0), Frame("taken", 0, 0, 0)}
  \/ \E x \in Conns : AcceptRegister(x) /\ m = Frame("replaced", 0, 0, 0)

\* What a step does to the frames on their way to a peer.
LEMMA DownEffect ==
  ASSUME IInv, AuthInv, Next, NEW c \in Conns
  PROVE  Shrinks(down[c], down'[c]) \/ \E m \in Msg : Gets(c, m) /\ down'[c] = Append(down[c], m)
<1>0. /\ SockTypes /\ RelayTypes /\ QueueInv /\ down[c] \in Seq(Msg) /\ DOMAIN down = Conns
      /\ HandlerInv
  BY DEF IInv, TypeOK, SockTypes, AuthInv
<1>1. Shrinks(down[c], down[c]) /\ Shrinks(down[c], <<>>)
  <2>1. SubSeq(down[c], 1, 0) = <<>> /\ 0 \in 0 .. Len(down[c])
    BY <1>0
  <2> QED
    BY <2>1 DEF Shrinks
<1>2. ASSUME NEW x, NEW m, down' = DownWith(x, m)
      PROVE  down'[c] = down[c] \/ (x = c /\ down'[c] = Append(down[c], m))
  BY <1>0, <1>2 DEF DownWith
<1>3. ASSUME NEW x \in Conns, down[x] # <<>>, down' = [down EXCEPT ![x] = Tail(@)]
      PROVE  Shrinks(down[c], down'[c])
  BY <1>0, <1>1, <1>3 DEF Shrinks
<1>4. ASSUME NEW x, Abandon(x) PROVE Shrinks(down[c], down'[c])
  BY <1>0, <1>1, <1>4 DEF Abandon
<1>5. ASSUME down' = down PROVE Shrinks(down[c], down'[c])
  BY <1>1, <1>5
<1> DEFINE Right == Shrinks(down[c], down'[c]) \/ \E m \in Msg : Gets(c, m) /\ down'[c] = Append(down[c], m)
<1>6. ASSUME NEW x \in Conns, Deliver(x) \/ ForwardSent(x) PROVE Right
  <2>1. h[x].msg \in Msg /\ down' = DownWith(h[x].tgt, h[x].msg)
    BY <1>0, <1>6 DEF RelayTypes, Locals, Deliver, ForwardSent
  <2> QED
    BY <1>1, <1>2, <1>6, <2>1 DEF Gets
<1>7. ASSUME NEW x \in Conns, RejectClient(x) \/ LookupFails(x) PROVE Right
  <2>1. Refusal(Head(up[x])) \in Msg
    BY <1>0, <1>7, RefusalType DEF RejectClient, LookupFails
  <2>2. down' = DownWith(x, Refusal(Head(up[x])))
    BY <1>7 DEF RejectClient, LookupFails
  <2> QED
    BY <1>1, <1>2, <1>7, <2>1, <2>2 DEF Gets
<1>8. ASSUME NEW x \in Conns, ForwardFails(x) PROVE Right
  <2>1. errResult(h[x].id) \in Msg
    BY <1>0, FrameType DEF RelayTypes, Locals, errResult, MsgTypes
  <2> QED
    BY <1>1, <1>2, <1>8, <2>1 DEF Gets, ForwardFails
<1>9. ASSUME NEW x \in Conns, ForwardKill(x) PROVE Right
  <2> DEFINE yes == Frame("disconnect_confirmed", 0, 0, 0)
             no == Frame("error", 0, 0, 0)
  <2>1. yes \in Msg /\ no \in Msg /\ h[x].msg \in Msg
    BY <1>0, FrameType DEF MsgTypes, RelayTypes, Locals
  <2>2. x # h[x].tgt
    <3>1. x \in CConns /\ h[x].tgt \in DConns
      BY <1>0, <1>9 DEF HandlerInv, Purpose, ForwardKill
    <3> QED
      BY <3>1, ClientConns
  <2>3. \/ \E s : s = DownWith(h[x].tgt, h[x].msg) /\ down' = [s EXCEPT ![x] = Append(@, yes)]
        \/ down' = DownWith(h[x].tgt, h[x].msg)
        \/ down' = DownWith(x, no)
    BY <1>9 DEF ForwardKill
  <2>4. ASSUME NEW s, s = DownWith(h[x].tgt, h[x].msg), down' = [s EXCEPT ![x] = Append(@, yes)]
        PROVE  Right
    <3>1. s = down \/ s = [down EXCEPT ![h[x].tgt] = Append(@, h[x].msg)]
      BY <2>4 DEF DownWith
    <3>2. CASE x = c
      <4>1. s[c] = down[c] /\ DOMAIN s = Conns
        BY <1>0, <2>2, <3>1, <3>2
      <4>2. down'[c] = Append(down[c], yes)
        BY <2>4, <3>2, <4>1
      <4> QED
        BY <1>9, <2>1, <3>2, <4>2 DEF Gets
    <3>3. CASE x # c
      <4>1. down'[c] = s[c] /\ (s[c] = down[c] \/ (c = h[x].tgt /\ s[c] = Append(down[c], h[x].msg)))
        BY <1>0, <2>4, <3>1, <3>3
      <4> QED
        BY <1>1, <1>9, <2>1, <4>1 DEF Gets
    <3> QED
      BY <3>2, <3>3
  <2>5. CASE down' = DownWith(h[x].tgt, h[x].msg)
    BY <1>1, <1>2, <1>9, <2>1, <2>5 DEF Gets
  <2>6. CASE down' = DownWith(x, no)
    BY <1>1, <1>2, <1>9, <2>1, <2>6 DEF Gets
  <2> QED
    BY <2>3, <2>4, <2>5, <2>6
<1>10. ASSUME NEW x \in Conns, RejectRegister(x) PROVE Right
  <2>1. Frame("error", 0, 0, 0) \in Msg /\ Frame("taken", 0, 0, 0) \in Msg
    BY FrameType DEF MsgTypes
  <2>2. \E m \in {Frame("error", 0, 0, 0), Frame("taken", 0, 0, 0)} : down' = DownWith(x, m)
    BY <1>10 DEF RejectRegister
  <2> QED
    BY <1>1, <1>2, <1>10, <2>1, <2>2 DEF Gets
<1>11. ASSUME NEW x \in Conns, AcceptRegister(x) PROVE Right
  <2>1. Frame("replaced", 0, 0, 0) \in Msg
    BY FrameType DEF MsgTypes
  <2>2. down' = down \/ \E y : down' = DownWith(y, Frame("replaced", 0, 0, 0))
    BY <1>11 DEF AcceptRegister, NotifyReplaced
  <2> QED
    BY <1>1, <1>2, <1>11, <2>1, <2>2 DEF Gets
<1>12. ASSUME NEW x \in Conns,
              InsertPending(x) \/ LookupFinds(x) \/ HandleReply(x) \/ Unregister(x)
       PROVE  Right
  BY <1>5, <1>12 DEF InsertPending, LookupFinds, HandleReply, PendingOf, Unregister, sockVars
<1>13. CASE RelayRestart
  BY <1>5, <1>13 DEF RelayRestart
<1>14. ASSUME NEW d \in Daemons, Disconnected(d) \/ DaemonCrash(d) \/ DaemonExit(d) PROVE Right
  BY <1>4, <1>14 DEF Disconnected, DaemonCrash, DaemonExit
<1>15. ASSUME NEW d \in Daemons, DaemonDial(d) \/ DaemonRegister(d) \/ SupervisorRestarts(d)
       PROVE  Right
  BY <1>5, <1>15 DEF DaemonDial, DaemonRegister, SupervisorRestarts, sockVars
<1>16. ASSUME NEW d \in Daemons, DaemonCommand(d) \/ DaemonNotice(d) PROVE Right
  <2>1. \E t : DaemonHas(d, t) /\ down' = [down EXCEPT ![Live(d)] = Tail(@)]
    BY <1>16 DEF DaemonCommand, DaemonNotice
  <2>2. Live(d) \in Conns
    BY <2>1, TakenFine DEF IInv, TypeOK, AuthInv
  <2> QED
    BY <1>3, <2>1, <2>2 DEF DaemonHas
<1>17. ASSUME NEW i \in ReqIds, EmitChunk(i) \/ EmitFinal(i) PROVE Right
  BY <1>5, <1>17 DEF EmitChunk, EmitFinal
<1>18. ASSUME NEW cl \in Clients, NEW kind \in Kinds, ClientSend(cl, kind) PROVE Right
  BY <1>5, <1>18 DEF ClientSend
<1>19. ASSUME NEW cl \in Clients, ClientRecv(cl) \/ ClientTimeout(cl) \/ ClientClose(cl) PROVE Right
  BY <1>3, <1>4, <1>5, <1>19, ClientConns DEF ClientRecv, ClientTimeout, ClientClose, sockVars
<1> QED
  BY <1>6, <1>7, <1>8, <1>9, <1>10, <1>11, <1>12, <1>13, <1>14, <1>15, <1>16, <1>17, <1>18, <1>19
  DEF Next, Handler, HandlerEOF, HandlerBreak, DaemonStep, DaemonEOF, DaemonBreak, ClientStep

---------------------------------------------------------------------------
\* The numbers in a client's queue: fewer, or the next one.
LEMMA AskedEffect ==
  ASSUME IInv, OriginInv, OrderInv, Next, NEW c \in CConns
  PROVE  /\ Rising(up'[c])
         /\ \/ Asked(up'[c]) \subseteq Asked(up[c])
            \/ \E cl \in Clients, kind \in Kinds :
                 /\ ClientSend(cl, kind) /\ c = CConn(cl) /\ kind # "disconnect"
                 /\ Asked(up'[c]) \subseteq Asked(up[c]) \cup {csent[cl] + 1}
<1>0. /\ c \in Conns /\ up \in [Conns -> Seq(Msg)] /\ up[c] \in Seq(Msg) /\ InOrder(c) /\ Rising(up[c])
      /\ csent \in [Clients -> Nat]
  BY ClientConns DEF IInv, TypeOK, SockTypes, ClientTypes, OrderInv, InOrder
<1>1. ASSUME Shrinks(up[c], up'[c]) PROVE Rising(up'[c]) /\ Asked(up'[c]) \subseteq Asked(up[c])
  BY <1>0, <1>1, AskedShrinks
<1>2. ASSUME NEW cl \in Clients, NEW kind \in Kinds, ClientSend(cl, kind), c = CConn(cl)
      PROVE  /\ Rising(up'[c])
             /\ \/ Asked(up'[c]) \subseteq Asked(up[c])
                \/ kind # "disconnect" /\ Asked(up'[c]) \subseteq Asked(up[c]) \cup {csent[cl] + 1}
  <2> DEFINE m == Frame(kind, IF kind = "disconnect" THEN 0 ELSE csent[cl] + 1, 0, 0)
  <2>1. m \in Msg /\ m.type = kind /\ (kind # "disconnect" => m.id = csent[cl] + 1)
    <3>1. kind \in MsgTypes /\ csent[cl] + 1 \in Nat
      BY <1>0, ConfigAssumption DEF MsgTypes
    <3> QED
      BY <3>1 DEF Frame, Msg
  <2>2. Owner(c) = cl /\ \A n \in Asked(up[c]) : n < csent[cl] + 1
    BY <1>0, <1>2, ClientConns DEF InOrder
  <2>3. up'[c] = up[c] \/ up'[c] = <<m>> \/ up'[c] = Append(up[c], m)
    BY <1>0, <1>2 DEF ClientSend
  <2>4. <<m>> = Append(<<>>, m) /\ <<>> \in Seq(Msg)
    BY <2>1
  <2>5. m.type \in Asking <=> kind # "disconnect"
    BY <2>1, ConfigAssumption DEF Asking
  <2> HIDE DEF m
  <2>6. CASE up'[c] = up[c]
    BY <1>0, <2>6
  <2>7. CASE up'[c] = Append(<<>>, m)
    <3>1. Rising(<<>>) /\ Asked(<<>>) = {}
      BY AskedEmpty
    <3>2. /\ Rising(Append(<<>>, m))
          /\ Asked(Append(<<>>, m)) = IF m.type \in Asking THEN {} \cup {m.id} ELSE {}
      BY <2>1, <2>4, <3>1, AskedAppend
    <3> QED
      BY <2>1, <2>5, <2>7, <3>2
  <2>8. CASE up'[c] = Append(up[c], m)
    <3>1. /\ Rising(Append(up[c], m))
          /\ Asked(Append(up[c], m)) = IF m.type \in Asking THEN Asked(up[c]) \cup {m.id} ELSE Asked(up[c])
      BY <1>0, <2>1, <2>2, <2>5, AskedAppend
    <3> QED
      BY <2>1, <2>5, <2>8, <3>1
  <2> QED
    BY <2>3, <2>4, <2>6, <2>7, <2>8
<1> QED
  BY <1>0, <1>1, <1>2, UpEffect

\* Numbers of requests go up.
LEMMA CountEffect ==
  ASSUME IInv, Next, NEW cl \in Clients
  PROVE  csent[cl] \in Nat /\ csent'[cl] \in Nat /\ csent[cl] <= csent'[cl]
<1>1. csent \in [Clients -> Nat]
  BY DEF IInv, TypeOK, ClientTypes
<1>2. ASSUME NEW x \in Clients, NEW kind \in Kinds, ClientSend(x, kind)
      PROVE  csent'[cl] = csent[cl] \/ csent'[cl] = csent[cl] + 1
  BY <1>1, <1>2 DEF ClientSend
<1> QED
  BY <1>1, <1>2, ClientEffect

\* Only its own handler draws an id for a client.
LEMMA DrawnEffect ==
  ASSUME IInv, Next, NEW c \in Conns, ~InsertPending(c)
  PROVE  Drawn(c)' \subseteq Drawn(c)
<1>1. CASE UNCHANGED origin
  BY <1>1 DEF Drawn
<1>2. CASE \E x \in Conns : InsertPending(x)
  <2>1. PICK x \in Conns : InsertPending(x)
    BY <1>2
  <2>2. x # c /\ origin' = [origin EXCEPT ![nextId] = [conn |-> x, serverID |-> h[x].id]]
    BY <2>1 DEF InsertPending
  <2>3. \A i \in ReqIds : origin'[i] = origin[i] \/ origin'[i].conn = x
    BY <2>1, <2>2 DEF InsertPending, IInv, TypeOK, HistTypes
  <2> QED
    BY <2>2, <2>3 DEF Drawn
<1> QED
  BY <1>1, <1>2, EntryEffect

\* The order of a client's requests is kept.
LEMMA OrderStep == IInv /\ AuthInv /\ OriginInv /\ OrderInv /\ Next => OrderInv'
<1> SUFFICES ASSUME IInv, AuthInv, OriginInv, OrderInv, Next, NEW c \in CConns
             PROVE  InOrder(c)'
  BY DEF OrderInv
<1>0. /\ c \in Conns /\ c \in CConns /\ Owner(c) \in Clients /\ CConn(Owner(c)) = c
      /\ up[c] \in Seq(Msg) /\ InOrder(c) /\ h \in [Conns -> Locals] /\ up \in [Conns -> Seq(Msg)]
      /\ SockTypes /\ HandlerInv
  BY ClientConns DEF IInv, TypeOK, SockTypes, RelayTypes, OrderInv, AuthInv
<1>1. /\ csent[Owner(c)] \in Nat /\ csent'[Owner(c)] \in Nat /\ csent[Owner(c)] <= csent'[Owner(c)]
      /\ Rising(up'[c])
  BY <1>0, CountEffect, AskedEffect
<1>2. ASSUME NEW k, k \in 1 .. csent[Owner(c)] PROVE k \in 1 .. csent'[Owner(c)]
  BY <1>1, <1>2
<1>3. ASSUME InHand(c)' \subseteq InHand(c), Drawn(c)' \subseteq Drawn(c), Asked(up'[c]) \subseteq Asked(up[c])
      PROVE  InOrder(c)'
  BY <1>0, <1>1, <1>2, <1>3 DEF InOrder, Before
<1>4. CASE \E kind \in Kinds : ClientSend(Owner(c), kind)
  <2>1. PICK kind \in Kinds : ClientSend(Owner(c), kind)
    BY <1>4
  <2>2. InHand(c)' = InHand(c) /\ Drawn(c)' = Drawn(c)
    BY <2>1 DEF ClientSend, InHand, Drawn, relayVars, histVars
  <2>3. csent'[Owner(c)] = csent[Owner(c)] + 1
    BY <1>0, <2>1 DEF ClientSend, IInv, TypeOK, ClientTypes
  <2>4. Asked(up'[c]) \subseteq Asked(up[c]) \cup {csent[Owner(c)] + 1}
    BY <1>0, AskedEffect, ClientConns
  <2>5. Before(Drawn(c), Asked(up'[c]) \cup InHand(c)) /\ Before(InHand(c), Asked(up'[c]))
    BY <1>0, <1>1, <2>4 DEF InOrder, Before
  <2>6. csent[Owner(c)] + 1 \in 1 .. csent'[Owner(c)]
    BY <1>1, <2>3
  <2> QED
    BY <1>0, <1>1, <1>2, <2>2, <2>4, <2>5, <2>6 DEF InOrder
<1>5. CASE LookupFinds(c)
  <2>1. /\ Incoming(c, ClientMsgs) /\ up'[c] = Tail(up[c]) /\ up[c] # <<>> /\ Drawn(c)' = Drawn(c)
    BY <1>0, <1>5 DEF LookupFinds, Consume, Incoming, Drawn, histVars
  <2>2. InHand(c)' \subseteq {Head(up[c]).id} /\ (InHand(c)' # {} => Head(up[c]).type # "disconnect")
    BY <1>0, <1>5 DEF LookupFinds, InHand, Goto
  <2>3. InHand(c)' # {} => Head(up[c]).type \in Asking
    BY <2>1, <2>2 DEF Incoming, ClientMsgs, Asking
  <2>4. /\ Asked(up'[c]) \subseteq Asked(up[c])
        /\ InHand(c)' # {} => InHand(c)' \subseteq Asked(up[c]) /\ \A n \in Asked(up'[c]) : Head(up[c]).id < n
    BY <1>0, <2>1, <2>2, <2>3, AskedTail DEF InOrder
  <2> QED
    BY <1>0, <1>1, <1>2, <2>1, <2>2, <2>4 DEF InOrder, Before
<1>6. CASE InsertPending(c)
  <2>1. h[c].pc = "insert" /\ InHand(c) = {h[c].id} /\ nextId \in ReqIds
    BY <1>6 DEF InsertPending, InHand
  <2>2. InHand(c)' = {}
    BY <1>0, <1>6 DEF InsertPending, InHand
  <2>3. up' = up
    BY <1>6 DEF InsertPending, sockVars
  <2>4. Drawn(c)' \subseteq Drawn(c) \cup {h[c].id}
    <3>1. origin' = [origin EXCEPT ![nextId] = [conn |-> c, serverID |-> h[c].id]] /\ origin \in [ReqIds -> Entries]
      BY <1>6 DEF InsertPending, IInv, TypeOK, HistTypes
    <3>2. \A x \in ReqIds : origin'[x] = origin[x] \/ origin'[x].serverID = h[c].id
      BY <3>1
    <3> QED
      BY <3>2 DEF Drawn
  <2> QED
    BY <1>0, <1>1, <1>2, <2>1, <2>2, <2>3, <2>4 DEF InOrder, Before
<1>7. CASE ~LookupFinds(c) /\ ~InsertPending(c) /\ ~\E kind \in Kinds : ClientSend(Owner(c), kind)
  <2>1. Asked(up'[c]) \subseteq Asked(up[c])
    BY <1>0, <1>7, AskedEffect, ClientConns
  <2>2. InHand(c)' \subseteq InHand(c)
    <3>1. ASSUME HandleReply(c) \/ AcceptRegister(c) PROVE InHand(c)' = {}
      BY <1>0, <3>1 DEF HandleReply, PendingOf, AcceptRegister, Goto, InHand, Incoming
    <3>2. h'[c] = Idle => InHand(c)' = {}
      BY DEF Idle, InHand
    <3> QED
      BY <1>0, <1>7, <3>1, <3>2, HandEffect DEF InHand
  <2>3. Drawn(c)' \subseteq Drawn(c)
    BY <1>0, <1>7, DrawnEffect
  <2> QED
    BY <1>3, <2>1, <2>2, <2>3
<1> QED
  BY <1>4, <1>5, <1>6, <1>7

\* A handler draws a new id for a request that has none.
LEMMA DrawEffect ==
  ASSUME IInv, AuthInv, OrderInv, NEW c \in Conns, InsertPending(c)
  PROVE  /\ c \in CConns /\ nextId \in ReqIds /\ nextId' = nextId + 1 /\ nextId \in Nat
         /\ origin'[nextId] = [conn |-> c, serverID |-> h[c].id]
         /\ \A i \in ReqIds : i # nextId => origin'[i] = origin[i]
         /\ \A i \in ReqIds : origin[i].conn = c => origin[i].serverID < h[c].id
<1>1. c \in CConns /\ h[c].pc = "insert" /\ nextId \in ReqIds /\ nextId \in Nat /\ nextId' = nextId + 1
  BY DEF IInv, TypeOK, RelayTypes, AuthInv, HandlerInv, Purpose, InsertPending, FreshId
<1>2. origin' = [origin EXCEPT ![nextId] = [conn |-> c, serverID |-> h[c].id]] /\ origin \in [ReqIds -> Entries]
  BY DEF InsertPending, IInv, TypeOK, HistTypes
<1>3. Before(Drawn(c), {h[c].id})
  BY <1>1 DEF OrderInv, InOrder, InHand, Before
<1>4. \A i \in ReqIds : origin[i].conn = c => origin[i].serverID \in Drawn(c)
  BY DEF Drawn
<1> QED
  BY <1>1, <1>2, <1>3, <1>4 DEF Before

\* An id belongs to one request.
LEMMA OriginStep == IInv /\ AuthInv /\ OriginInv /\ OrderInv /\ Next => OriginInv'
<1> SUFFICES ASSUME IInv, AuthInv, OriginInv, OrderInv, Next
             PROVE  OriginInv'
  OBVIOUS
<1>0. /\ origin \in [ReqIds -> Entries] /\ pending \in [ReqIds -> Entries] /\ job \in [ReqIds -> Jobs]
      /\ nextId \in Nat /\ ReqIds \subseteq Nat
  BY DEF IInv, TypeOK, RelayTypes, HistTypes, DaemonTypes, ReqIds
<1>1. ASSUME UNCHANGED <<origin, nextId>>, \A i \in ReqIds : pending'[i] \in {NoEntry, pending[i]}
      PROVE  /\ \A i \in ReqIds : (origin[i] = NoEntry \/ (origin[i].conn \in CConns /\ i < nextId))'
             /\ \A i, j \in ReqIds : (origin[i] = origin[j] /\ origin[i] # NoEntry => i = j)'
             /\ \A i \in ReqIds : (pending[i] \in {NoEntry, origin[i]})'
  BY <1>1 DEF OriginInv
<1>2. ASSUME NEW c \in Conns, InsertPending(c)
      PROVE  /\ \A i \in ReqIds : (origin[i] = NoEntry \/ (origin[i].conn \in CConns /\ i < nextId))'
             /\ \A i, j \in ReqIds : (origin[i] = origin[j] /\ origin[i] # NoEntry => i = j)'
             /\ \A i \in ReqIds : (pending[i] \in {NoEntry, origin[i]})'
  <2>1. /\ c \in CConns /\ nextId \in ReqIds /\ nextId' = nextId + 1 /\ nextId \in Nat
        /\ origin'[nextId] = [conn |-> c, serverID |-> h[c].id]
        /\ \A i \in ReqIds : i # nextId => origin'[i] = origin[i]
        /\ \A i \in ReqIds : origin[i].conn = c => origin[i].serverID < h[c].id
    BY <1>2, DrawEffect
  <2>2. ASSUME NEW i \in ReqIds PROVE (origin[i] = NoEntry \/ (origin[i].conn \in CConns /\ i < nextId))'
    BY <1>0, <2>1, <2>2 DEF OriginInv
  <2>3. ASSUME NEW i \in ReqIds, i # nextId PROVE origin'[i] # origin'[nextId]
    <3>1. CASE origin[i].conn = c
      <4>1. h[c].id \in Nat /\ origin[i].serverID \in Nat
        BY <1>0, <2>1 DEF IInv, TypeOK, RelayTypes, Locals, Entries
      <4>2. origin'[i].serverID < h[c].id /\ origin'[nextId].serverID = h[c].id
        BY <2>1, <2>3, <3>1
      <4>3. origin'[i].serverID # h[c].id
        BY <2>1, <2>3, <4>1, <4>2
      <4> QED
        BY <4>2, <4>3
    <3>2. CASE origin[i].conn # c
      <4>1. origin'[i].conn # c
        BY <2>1, <2>3, <3>2
      <4>2. origin'[nextId].conn = c
        BY <2>1
      <4> QED
        BY <4>1, <4>2
    <3> QED
      BY <3>1, <3>2
  <2>4. ASSUME NEW i \in ReqIds, NEW j \in ReqIds
        PROVE  (origin[i] = origin[j] /\ origin[i] # NoEntry => i = j)'
    BY <2>1, <2>3, <2>4 DEF OriginInv
  <2>5. pending' = [pending EXCEPT ![nextId] = [conn |-> c, serverID |-> h[c].id]]
    BY <1>2 DEF InsertPending
  <2>6. ASSUME NEW i \in ReqIds PROVE (pending[i] \in {NoEntry, origin[i]})'
    BY <1>0, <2>1, <2>5, <2>6 DEF OriginInv
  <2> QED
    BY <2>2, <2>4, <2>6
<1>3. ASSUME NEW i \in ReqIds PROVE (job[i].st # "none" => job[i].by \in Daemons)'
  <2>1. ASSUME NEW d \in Daemons, DaemonCommand(d) PROVE job'[i] = job[i] \/ job'[i].by = d
    BY <1>0, <2>1 DEF DaemonCommand
  <2> QED
    BY <2>1, JobEffect DEF OriginInv
<1> QED
  BY <1>1, <1>2, <1>3, EntryEffect DEF OriginInv

\* What a step does to the commands on their way.
LEMMA CommandEffect ==
  ASSUME IInv, AuthInv, OnceInv, Next, NEW c \in Conns
  PROVE  /\ Single(down'[c])
         /\ \/ Commands(down'[c]) \subseteq Commands(down[c])
            \/ \E x \in Conns : /\ ForwardSent(x) /\ c = h[x].tgt
                                /\ Commands(down'[c]) \subseteq Commands(down[c]) \cup {h[x].msg.id}
<1>0. down[c] \in Seq(Msg) /\ Single(down[c]) /\ HandlerInv
  BY DEF IInv, TypeOK, SockTypes, OnceInv, AuthInv
<1>1. ASSUME Shrinks(down[c], down'[c])
      PROVE  Single(down'[c]) /\ Commands(down'[c]) \subseteq Commands(down[c])
  BY <1>0, <1>1, CommandsShrinks
<1>2. ASSUME NEW m \in Msg, down'[c] = Append(down[c], m), m.type # "command"
      PROVE  Single(down'[c]) /\ Commands(down'[c]) \subseteq Commands(down[c])
  BY <1>0, <1>2, CommandsAppend
<1>3. ASSUME NEW m \in Msg, NEW x \in Conns, down'[c] = Append(down[c], m), ForwardSent(x), c = h[x].tgt,
             m = h[x].msg
      PROVE  /\ Single(down'[c])
             /\ Commands(down'[c]) \subseteq Commands(down[c]) \cup {h[x].msg.id}
  <2>1. ~Travels(m.id)
    BY <1>3 DEF OnceInv, Begun, ForwardSent
  <2>2. m.id \notin Commands(down[c])
    BY <2>1 DEF Travels
  <2> QED
    BY <1>0, <1>3, <2>2, CommandsAppend
<1>4. ASSUME NEW m \in Msg, Gets(c, m), m.type = "command" PROVE \E x \in Conns : ForwardSent(x) /\ c = h[x].tgt /\ m = h[x].msg
  BY <1>0, <1>4 DEF Gets, Frame, errResult, Refusal, Deliver, ForwardKill, HandlerInv, Purpose
<1> QED
  BY <1>1, <1>2, <1>3, <1>4, DownEffect

\* A command that a daemon takes was waiting for it once, and is gone.
LEMMA TakeEffect ==
  ASSUME IInv, AuthInv, OnceInv, NEW d \in Daemons, DaemonCommand(d)
  PROVE  LET i == Head(down[Live(d)]).id
         IN  /\ i \in ReqIds /\ job[i].st = "none" /\ Travels(i)
             /\ Entitled(origin[i].conn, d)
             /\ job' = [job EXCEPT ![i] = [st |-> "running", by |-> d,
                                           stream |-> Head(down[Live(d)]).seq = 1, out |-> 0]]
             /\ \A c \in Conns : Commands(down'[c]) \subseteq Commands(down[c]) \ {i}
<1> DEFINE l == Live(d)
           m == Head(down[l])
<1>1. /\ DaemonHas(d, {"command"}) /\ down' = [down EXCEPT ![l] = Tail(@)]
      /\ job' = [job EXCEPT ![m.id] = [st |-> "running", by |-> d, stream |-> m.seq = 1, out |-> 0]]
  BY DEF DaemonCommand
<1>2. l \in Conns /\ Owner(l) = d /\ down[l] # <<>> /\ m.type = "command" /\ Fine(l, m)
  <2>1. SockTypes /\ DaemonTypes /\ DownInv /\ DaemonInv
    BY DEF IInv, TypeOK, AuthInv
  <2> QED
    BY <1>1, <2>1, TakenFine
<1>3. down \in [Conns -> Seq(Msg)] /\ Single(down[l])
  BY <1>2 DEF IInv, TypeOK, SockTypes, OnceInv
<1>4. m.id \in Commands(down[l]) /\ m.id \notin Commands(Tail(down[l]))
      /\ Commands(Tail(down[l])) \subseteq Commands(down[l])
  BY <1>2, <1>3, CommandsTail
<1>5. m.id \in ReqIds /\ Entitled(origin[m.id].conn, d)
  BY <1>2 DEF Fine, Ordered
<1>6. Travels(m.id) /\ job[m.id].st = "none"
  BY <1>2, <1>4, <1>5 DEF Travels, OnceInv
<1>7. ASSUME NEW c \in Conns PROVE Commands(down'[c]) \subseteq Commands(down[c]) \ {m.id}
  <2>1. CASE c = l
    BY <1>1, <1>3, <1>4, <2>1
  <2>2. CASE c # l
    <3>1. down'[c] = down[c] /\ Commands(down[c]) \cap Commands(down[l]) = {}
      BY <1>1, <1>2, <1>3, <2>2 DEF OnceInv
    <3> QED
      BY <1>4, <3>1
  <2> QED
    BY <2>1, <2>2
<1> QED
  BY <1>1, <1>5, <1>6, <1>7

\* What has begun was drawn; and the origin of what was drawn stays.
LEMMA BegunDrawn ==
  ASSUME IInv, AuthInv, OriginInv, NEW i \in ReqIds, Begun(i)
  PROVE  i < nextId /\ \E d \in Daemons : Entitled(origin[i].conn, d)
<1>1. CASE job[i].st # "none"
  BY <1>1 DEF AuthInv, JobInv, OriginInv, Ordered
<1>2. CASE Travels(i)
  <2>1. PICK c \in Conns : i \in Commands(down[c])
    BY <1>2 DEF Travels
  <2>2. PICK j \in 1 .. Len(down[c]) : down[c][j].type = "command" /\ down[c][j].id = i
    BY <2>1 DEF Commands
  <2>3. Fine(c, down[c][j])
    BY <2>1, <2>2 DEF AuthInv, DownInv
  <2> QED
    BY <2>2, <2>3 DEF Fine, Ordered, DConns, Owner
<1> QED
  BY <1>1, <1>2 DEF Begun

LEMMA OriginStays ==
  ASSUME IInv, AuthInv, OrderInv, Next, NEW i \in ReqIds, i < nextId
  PROVE  origin'[i] = origin[i]
<1>1. ASSUME NEW x \in Conns, InsertPending(x) PROVE origin'[i] = origin[i]
  <2>1. i # nextId
    BY DEF ReqIds
  <2> QED
    BY <1>1, <2>1, DrawEffect
<1> QED
  BY <1>1, EntryEffect

\* A handler forwards alone.
LEMMA ForwardsAlone ==
  ASSUME IInv, NEW x \in Conns, NEW y \in Conns, ForwardSent(x), ForwardSent(y)
  PROVE  x = y
<1>1. h \in [Conns -> Locals] /\ h' = [h EXCEPT ![x] = Idle] /\ h' = [h EXCEPT ![y] = Idle]
      /\ h[x].pc = "forward"
  BY DEF IInv, TypeOK, RelayTypes, ForwardSent
<1>2. h'[x].pc = "read"
  BY <1>1 DEF Idle
<1> QED
  BY <1>1, <1>2

\* What begins in a step is what is forwarded in it.
LEMMA TravelEffect ==
  ASSUME IInv, AuthInv, OnceInv, Next, NEW i \in ReqIds
  PROVE  /\ Travels(i)' => Travels(i) \/ \E x \in Conns : ForwardSent(x) /\ i = h[x].msg.id
         /\ Begun(i)' => Begun(i) \/ \E x \in Conns : ForwardSent(x) /\ i = h[x].msg.id
         /\ Travels(i)' => job'[i].st = "none"
<1>1. Travels(i)' => Travels(i) \/ \E x \in Conns : ForwardSent(x) /\ i = h[x].msg.id
  BY CommandEffect DEF Travels
<1>2. ASSUME job'[i].st # "none", job[i].st = "none" PROVE Travels(i) /\ ~Travels(i)'
  <2>1. PICK d \in Daemons : DaemonCommand(d)
    BY <1>2, JobEffect
  <2>2. i = Head(down[Live(d)]).id
    BY <1>2, <2>1, TakeEffect DEF IInv, TypeOK, DaemonTypes
  <2>3. Travels(i) /\ \A c \in Conns : i \notin Commands(down'[c])
    BY <2>1, <2>2, TakeEffect
  <2> QED
    BY <2>3 DEF Travels
<1>3. ASSUME Travels(i)', job[i].st # "none" PROVE FALSE
  <2>1. ~Travels(i)
    BY <1>3 DEF OnceInv
  <2>2. PICK x \in Conns : ForwardSent(x) /\ i = h[x].msg.id
    BY <1>1, <1>3, <2>1
  <2>3. ~Begun(i)
    BY <2>2 DEF OnceInv, ForwardSent
  <2> QED
    BY <1>3, <2>3 DEF Begun
<1>4. Begun(i)' => Begun(i) \/ \E x \in Conns : ForwardSent(x) /\ i = h[x].msg.id
  BY <1>1, <1>2 DEF Begun
<1>5. Travels(i)' => job'[i].st = "none"
  BY <1>2, <1>3
<1> QED
  BY <1>1, <1>4, <1>5

\* Every command is forwarded once and begun once.
LEMMA OnceStep == IInv /\ AuthInv /\ OriginInv /\ OrderInv /\ OnceInv /\ Next => OnceInv'
<1> SUFFICES ASSUME IInv, AuthInv, OriginInv, OrderInv, OnceInv, Next
             PROVE  OnceInv'
  OBVIOUS
<1>0. HandlerInv /\ h \in [Conns -> Locals] /\ nextId \in Nat
  BY DEF AuthInv, IInv, TypeOK, RelayTypes
<1>1. \A c \in Conns : Single(down[c])'
  BY CommandEffect
<1>2. ASSUME NEW x \in Conns, NEW y \in Conns, x # y
      PROVE  Commands(down'[x]) \cap Commands(down'[y]) = {}
  <2>1. ASSUME NEW z \in Conns, ForwardSent(z) PROVE \A c \in Conns : h[z].msg.id \notin Commands(down[c])
    BY <2>1 DEF OnceInv, Begun, Travels, ForwardSent
  <2>2. Commands(down[x]) \cap Commands(down[y]) = {}
    BY <1>2 DEF OnceInv
  <2>3. \/ Commands(down'[x]) \subseteq Commands(down[x])
        \/ \E z \in Conns : /\ ForwardSent(z) /\ x = h[z].tgt
                            /\ Commands(down'[x]) \subseteq Commands(down[x]) \cup {h[z].msg.id}
    BY CommandEffect
  <2>4. \/ Commands(down'[y]) \subseteq Commands(down[y])
        \/ \E z \in Conns : /\ ForwardSent(z) /\ y = h[z].tgt
                            /\ Commands(down'[y]) \subseteq Commands(down[y]) \cup {h[z].msg.id}
    BY CommandEffect
  <2> QED
    BY <1>2, <2>1, <2>2, <2>3, <2>4, ForwardsAlone
<1>3. \A i \in ReqIds : Travels(i)' => job'[i].st = "none"
  BY TravelEffect
<1>4. ASSUME NEW c \in Conns, h'[c].pc = "forward"
      PROVE  \E i \in ReqIds : i = h'[c].msg.id /\ origin'[i].serverID = h'[c].id /\ ~Begun(i)'
  <2>1. CASE h'[c] = h[c]
    <3>1. PICK i \in ReqIds : i = h[c].msg.id /\ i < nextId /\ origin[i].conn = c
                              /\ origin[i].serverID = h[c].id /\ ~Begun(i)
      BY <1>0, <1>4, <2>1 DEF HandlerInv, Purpose, OnceInv
    <3>2. ASSUME NEW x \in Conns, ForwardSent(x), i = h[x].msg.id PROVE FALSE
      <4>1. x = c
        BY <1>0, <3>1, <3>2 DEF HandlerInv, Purpose, ForwardSent
      <4>2. h'[c] = Idle
        BY <1>0, <3>2, <4>1 DEF ForwardSent
      <4> QED
        BY <1>4, <4>2 DEF Idle
    <3>3. ~Begun(i)'
      BY <3>1, <3>2, TravelEffect
    <3>4. origin'[i] = origin[i]
      BY <3>1, OriginStays
    <3> QED
      BY <2>1, <3>1, <3>3, <3>4
  <2>2. CASE InsertPending(c)
    <3>1. PICK i \in ReqIds : i = nextId
      BY <2>2 DEF InsertPending
    <3>2. h'[c].msg.id = i /\ h'[c].id = h[c].id
      BY <1>0, <2>2, <3>1 DEF InsertPending, Locals, Msg
    <3>3. origin'[i].serverID = h[c].id
      <4>1. origin'[nextId] = [conn |-> c, serverID |-> h[c].id]
        BY <2>2, DrawEffect
      <4> QED
        BY <3>1, <4>1
    <3>4. ~Begun(i)
      BY <1>0, <3>1, BegunDrawn
    <3>5. ASSUME NEW x \in Conns, ForwardSent(x), h[x].msg.id = i PROVE FALSE
      BY <1>0, <3>1, <3>5 DEF HandlerInv, Purpose, ForwardSent
    <3>6. ~Begun(i)'
      BY <3>4, <3>5, TravelEffect
    <3> QED
      BY <3>2, <3>3, <3>6
  <2>3. CASE LookupFinds(c) \/ HandleReply(c) \/ AcceptRegister(c)
    <3>1. h'[c].pc # "forward"
      BY <1>0, <2>3 DEF LookupFinds, HandleReply, PendingOf, AcceptRegister, Goto, Incoming
    <3> QED
      BY <1>4, <3>1
  <2>4. CASE h'[c] = Idle
    BY <1>4, <2>4 DEF Idle
  <2> QED
    BY <2>1, <2>2, <2>3, <2>4, HandEffect
<1>5. \A c \in Conns : (h[c].pc = "forward" =>
         origin[h[c].msg.id].serverID = h[c].id /\ ~Begun(h[c].msg.id))'
  BY <1>4 DEF Begun, Travels
<1> QED
  BY <1>1, <1>2, <1>3, <1>5 DEF OnceInv

\* What has begun stays begun, by the same daemon.
LEMMA JobStays ==
  ASSUME IInv, AuthInv, OnceInv, Next, NEW i \in ReqIds, job[i].st # "none"
  PROVE  job'[i].st # "none" /\ job'[i].by = job[i].by
<1>1. ASSUME NEW d \in Daemons, DaemonCommand(d) PROVE job'[i] = job[i]
  <2>1. i # Head(down[Live(d)]).id
    BY <1>1, TakeEffect
  <2>2. job \in [ReqIds -> Jobs]
    BY DEF IInv, TypeOK, DaemonTypes
  <2> QED
    BY <1>1, <2>1, <2>2, TakeEffect
<1> QED
  BY <1>1, JobEffect

LEMMA OutputStays ==
  ASSUME IInv, AuthInv, OriginInv, OrderInv, OnceInv, Next, NEW c, NEW m, OutputOf(c, m)
  PROVE  OutputOf(c, m)'
<1>1. PICK i \in ReqIds : i = m.run /\ job[i].st # "none" /\ origin[i].conn = c /\ origin[i].serverID = m.id
  BY DEF OutputOf
<1>2. job'[i].st # "none"
  BY <1>1, JobStays
<1>3. origin'[i] = origin[i]
  BY <1>1, BegunDrawn, OriginStays DEF Begun
<1> QED
  BY <1>1, <1>2, <1>3 DEF OutputOf

\* A reply is passed on to the client whose request it answers, under the
\* number that client gave it.
LEMMA ReplyStep == IInv /\ AuthInv /\ OriginInv /\ OrderInv /\ OnceInv /\ ReplyInv /\ Next => ReplyInv'
<1> SUFFICES ASSUME IInv, AuthInv, OriginInv, OrderInv, OnceInv, ReplyInv, Next
             PROVE  ReplyInv'
  OBVIOUS
<1> DEFINE Own(m) == m.type \in Replies => m.id = m.run /\ m.run \in ReqIds /\ job'[m.run].st # "none"
<1>0. /\ h \in [Conns -> Locals] /\ up \in [Conns -> Seq(Msg)] /\ pending \in [ReqIds -> Entries]
      /\ SockTypes /\ DaemonTypes /\ job \in [ReqIds -> Jobs] /\ ReqIds \subseteq Nat
  BY DEF IInv, TypeOK, SockTypes, RelayTypes, DaemonTypes, ReqIds
<1>1. ASSUME NEW c \in Conns, NEW j \in 1 .. Len(up'[c]) PROVE Own(up'[c][j])
  <2>1. ASSUME NEW k \in 1 .. Len(up[c]) PROVE Own(up[c][k])
    BY <2>1, JobStays DEF ReplyInv
  <2>2. ASSUME NEW m \in Msg, up'[c] = Append(up[c], m), Own(m) PROVE Own(up'[c][j])
    <3>1. up'[c][j] = m \/ (j \in 1 .. Len(up[c]) /\ up'[c][j] = up[c][j])
      BY <1>0, <2>2
    <3> QED
      BY <2>1, <2>2, <3>1
  <2>3. CASE Shrinks(up[c], up'[c])
    <3>1. PICK k \in 1 .. Len(up[c]) : up'[c][j] = up[c][k]
      BY <1>0, <2>3, ShrinksElement
    <3> QED
      BY <2>1, <3>1
  <2>4. ASSUME NEW cl \in Clients, NEW kind \in Kinds, ClientSend(cl, kind), c = CConn(cl)
        PROVE  Own(up'[c][j])
    <3> DEFINE m == Frame(kind, IF kind = "disconnect" THEN 0 ELSE csent[cl] + 1, 0, 0)
    <3>1. m \in Msg /\ m.type \notin Replies
      <4>1. kind \in MsgTypes /\ kind \notin Replies /\ csent[cl] + 1 \in Nat
        BY ConfigAssumption DEF MsgTypes, Replies, IInv, TypeOK, ClientTypes
      <4> QED
        BY <4>1, FrameType
    <3>2. up'[c] = up[c] \/ up'[c] = <<m>> \/ up'[c] = Append(up[c], m)
      BY <1>0, <2>4, ClientConns DEF ClientSend
    <3> HIDE DEF m
    <3>3. CASE up'[c] = <<m>>
      BY <3>1, <3>3
    <3>4. CASE up'[c] = up[c]
      BY <2>1, <3>4
    <3> QED
      BY <2>2, <3>1, <3>2, <3>3, <3>4
  <2>5. CASE up'[c] = Append(up[c], Frame("register", 0, 0, 0))
    <3>1. Frame("register", 0, 0, 0) \in Msg /\ Own(Frame("register", 0, 0, 0))
      BY FrameType DEF MsgTypes, Replies
    <3> QED
      BY <2>2, <2>5, <3>1
  <2>6. ASSUME NEW i \in ReqIds, EmitChunk(i), up'[c] = Append(up[c], Frame("stream_chunk", i, i, job[i].out + 1))
        PROVE  Own(up'[c][j])
    <3> DEFINE m == Frame("stream_chunk", i, i, job[i].out + 1)
    <3>1. job[i].out + 1 \in Nat
      BY <1>0, BoundsAssumption DEF Jobs
    <3>2. m \in Msg /\ m.id = i /\ m.run = i
      BY <1>0, <3>1, FrameType DEF MsgTypes, Frame
    <3>3. job'[i].st # "none"
      BY <2>6, JobStays DEF EmitChunk
    <3> HIDE DEF m
    <3>4. Own(m)
      BY <3>2, <3>3
    <3> QED
      BY <2>2, <2>6, <3>2, <3>4 DEF m
  <2>7. ASSUME NEW i \in ReqIds, EmitFinal(i), up'[c] = Append(up[c], FinalFrame(i))
        PROVE  Own(up'[c][j])
    <3>1. FinalFrame(i) \in Msg /\ FinalFrame(i).id = i /\ FinalFrame(i).run = i
      BY <1>0, FinalType DEF FinalFrame, Frame
    <3>2. job'[i].st # "none"
      BY <2>7, JobStays DEF EmitFinal
    <3> QED
      BY <2>2, <2>7, <3>1, <3>2
  <2> QED
    BY <2>3, <2>4, <2>5, <2>6, <2>7, UpEffect
<1>2. ASSUME NEW c \in Conns, h'[c].pc = "deliver"
      PROVE  (h[c].msg.type \in Replies /\ OutputOf(h[c].tgt, h[c].msg))'
  <2>1. CASE h'[c] = h[c]
    <3>1. PICK t, m : t = h[c].tgt /\ m = h[c].msg
      OBVIOUS
    <3>2. m.type \in Replies /\ OutputOf(t, m)
      BY <1>2, <2>1, <3>1 DEF ReplyInv
    <3>3. OutputOf(t, m)'
      BY <3>2, OutputStays
    <3> QED
      BY <2>1, <3>1, <3>2, <3>3 DEF OutputOf
  <2>2. CASE HandleReply(c)
    <3> DEFINE m == Head(up[c])
    <3>1. m \in Msg /\ m.type \in Replies /\ up[c] # <<>>
      BY <1>0, <2>2, IncomingType DEF HandleReply, PendingOf, Replies
    <3>2. 1 \in 1 .. Len(up[c]) /\ m = up[c][1]
      BY <1>0, <3>1
    <3>3. m.id = m.run /\ m.run \in ReqIds /\ job[m.run].st # "none"
      BY <3>1, <3>2 DEF ReplyInv
    <3>4. /\ pending[m.id] # NoEntry
          /\ h'[c] = [pc |-> "deliver", tgt |-> pending[m.id].conn,
                      msg |-> [m EXCEPT !.id = pending[m.id].serverID], id |-> 0]
      BY <1>0, <1>2, <2>2, <3>3 DEF HandleReply, PendingOf, Goto, Translated, Incoming
    <3>5. pending[m.id] = origin[m.id]
      BY <3>3, <3>4 DEF OriginInv
    <3> HIDE DEF m
    <3>6. PICK t, r : t = h'[c].tgt /\ r = h'[c].msg
      OBVIOUS
    <3>7. /\ r.type \in Replies /\ r.run = m.run /\ r.id = origin[m.run].serverID
          /\ t = origin[m.run].conn
      BY <3>1, <3>3, <3>4, <3>5, <3>6 DEF Msg
    <3>8. OutputOf(t, r)
      BY <3>3, <3>7 DEF OutputOf
    <3>9. OutputOf(t, r)'
      BY <3>8, OutputStays
    <3> QED
      BY <3>6, <3>7, <3>9 DEF OutputOf
  <2>3. CASE LookupFinds(c) \/ InsertPending(c) \/ AcceptRegister(c)
    <3>1. h'[c].pc # "deliver"
      BY <1>0, <2>3 DEF LookupFinds, InsertPending, AcceptRegister, Goto, Locals
    <3> QED
      BY <1>2, <3>1
  <2>4. CASE h'[c] = Idle
    BY <1>2, <2>4 DEF Idle
  <2> QED
    BY <2>1, <2>2, <2>3, <2>4, HandEffect
<1>3. ASSUME NEW c \in Conns, h'[c].pc = "ack" PROVE h'[c].msg = Frame("registered", 0, 0, 0)
  <2>1. CASE AcceptRegister(c)
    BY <1>0, <2>1 DEF AcceptRegister, Goto
  <2>2. CASE LookupFinds(c) \/ InsertPending(c) \/ HandleReply(c)
    <3>1. h'[c].pc # "ack"
      BY <1>0, <2>2 DEF LookupFinds, InsertPending, HandleReply, PendingOf, Goto, Locals, Incoming
    <3> QED
      BY <1>3, <3>1
  <2>3. CASE h'[c] = h[c] \/ h'[c] = Idle
    BY <1>3, <2>3 DEF Idle, ReplyInv
  <2> QED
    BY <2>1, <2>2, <2>3, HandEffect
<1>4. \A c \in Conns : (h[c].pc = "deliver" => h[c].msg.type \in Replies /\ OutputOf(h[c].tgt, h[c].msg))'
  BY <1>2
<1> QED
  BY <1>1, <1>3, <1>4 DEF ReplyInv

\* Whoever sends `disconnect' sends nothing after it, ...
LEMMA SoloAlone ==
  ASSUME SoloInv, NEW c \in CConns, Solo(c), NEW cl \in Clients, NEW kind, ClientSend(cl, kind)
  PROVE  c # CConn(cl) /\ Owner(c) # cl
<1>1. Owner(c) # cl
  BY DEF SoloInv, Solo, ClientSend
<1> QED
  BY <1>1, ClientConns

LEMMA SoloStays ==
  ASSUME IInv, SoloInv, Next, NEW c \in CConns, Solo(c)
  PROVE  Solo(c)' /\ csent'[Owner(c)] = csent[Owner(c)]
<1>0. /\ Owner(c) \in Clients /\ ckind \in [Clients -> Kinds \cup {"none"}] /\ csent \in [Clients -> Nat]
  BY ClientConns DEF IInv, TypeOK, ClientTypes
<1>1. ASSUME NEW cl \in Clients, NEW kind \in Kinds, ClientSend(cl, kind)
      PROVE  ckind'[Owner(c)] = ckind[Owner(c)] /\ csent'[Owner(c)] = csent[Owner(c)]
  <2>1. Owner(c) # cl
    BY <1>1, SoloAlone
  <2> QED
    BY <1>0, <1>1, <2>1 DEF ClientSend
<1> QED
  BY <1>1, ClientEffect DEF Solo

\* ... and nothing before it.
LEMMA SoloBegins ==
  ASSUME IInv, Next, NEW c \in CConns, ~Solo(c), Solo(c)'
  PROVE  ClientSend(Owner(c), "disconnect") /\ csent[Owner(c)] = 0 /\ csent'[Owner(c)] = 1
<1>0. /\ Owner(c) \in Clients /\ ckind \in [Clients -> Kinds \cup {"none"}] /\ csent \in [Clients -> Nat]
  BY ClientConns DEF IInv, TypeOK, ClientTypes
<1>1. PICK cl \in Clients, kind \in Kinds : ClientSend(cl, kind)
  BY ClientEffect DEF Solo
<1>2. ckind' = [ckind EXCEPT ![cl] = kind] /\ csent' = [csent EXCEPT ![cl] = @ + 1]
  BY <1>1 DEF ClientSend
<1>3. cl = Owner(c) /\ kind = "disconnect"
  BY <1>0, <1>2 DEF Solo
<1>4. csent[cl] = 0
  BY <1>0, <1>1, <1>3 DEF ClientSend
<1> QED
  BY <1>0, <1>1, <1>2, <1>3, <1>4

\* A frame in a queue: one of a client's messages has a number that was asked.
LEMMA AskedHead ==
  ASSUME NEW s \in Seq(Msg), s # <<>>
  PROVE  /\ 1 \in 1 .. Len(s) /\ Head(s) = s[1]
         /\ Head(s).type \in Asking => Head(s).id \in Asked(s)
<1>1. 1 \in 1 .. Len(s) /\ Head(s) = s[1]
  OBVIOUS
<1> QED
  BY <1>1 DEF Asked

\* The kill switch has a socket of its own.
LEMMA SoloStep == IInv /\ AuthInv /\ OriginInv /\ OrderInv /\ OnceInv /\ SoloInv /\ Next => SoloInv'
<1> SUFFICES ASSUME IInv, AuthInv, OriginInv, OrderInv, OnceInv, SoloInv, Next, NEW c \in CConns
             PROVE  /\ h'[c].pc = "kill" => Solo(c)'
                    /\ \A j \in 1 .. Len(up'[c]) : up'[c][j].type = "disconnect" => Solo(c)'
                    /\ Solo(c)' => /\ Asked(up'[c]) = {} /\ Drawn(c)' = {} /\ csent'[Owner(c)] > 0
                                   /\ h'[c].pc \notin {"insert", "forward"}
  BY DEF SoloInv
<1>0. /\ c \in Conns /\ Owner(c) \in Clients /\ CConn(Owner(c)) = c
      /\ up \in [Conns -> Seq(Msg)] /\ up[c] \in Seq(Msg) /\ h \in [Conns -> Locals] /\ csent \in [Clients -> Nat]
      /\ ckind \in [Clients -> Kinds \cup {"none"}]
  BY ClientConns DEF IInv, TypeOK, SockTypes, RelayTypes, ClientTypes
<1>1. ASSUME LookupFinds(c), Head(up[c]).type = "disconnect" PROVE Solo(c)
  BY <1>0, <1>1, AskedHead DEF SoloInv, LookupFinds, Incoming
<1>2. ASSUME h'[c].pc = "kill" PROVE Solo(c)'
  <2>1. CASE LookupFinds(c)
    <3>1. Head(up[c]).type = "disconnect"
      BY <1>0, <1>2, <2>1 DEF LookupFinds, Goto
    <3> QED
      BY <1>1, <2>1, <3>1, SoloStays
  <2>2. CASE h'[c] = h[c]
    BY <1>2, <2>2, SoloStays DEF SoloInv
  <2>3. CASE InsertPending(c) \/ HandleReply(c) \/ AcceptRegister(c)
    <3>1. h'[c].pc # "kill"
      BY <1>0, <2>3 DEF InsertPending, HandleReply, PendingOf, AcceptRegister, Goto, Locals, Incoming
    <3> QED
      BY <1>2, <3>1
  <2>4. CASE h'[c] = Idle
    BY <1>2, <2>4 DEF Idle
  <2> QED
    BY <1>0, <2>1, <2>2, <2>3, <2>4, HandEffect
<1>3. ASSUME NEW j \in 1 .. Len(up'[c]), up'[c][j].type = "disconnect" PROVE Solo(c)'
  <2>1. ASSUME NEW k \in 1 .. Len(up[c]), up[c][k].type = "disconnect" PROVE Solo(c)'
    BY <2>1, SoloStays DEF SoloInv
  <2>2. CASE Shrinks(up[c], up'[c])
    <3>1. PICK k \in 1 .. Len(up[c]) : up'[c][j] = up[c][k]
      BY <1>0, <1>3, <2>2, ShrinksElement
    <3> QED
      BY <1>3, <2>1, <3>1
  <2>3. ASSUME NEW cl \in Clients, NEW kind \in Kinds, ClientSend(cl, kind), c = CConn(cl)
        PROVE  Solo(c)'
    <3> DEFINE m == Frame(kind, IF kind = "disconnect" THEN 0 ELSE csent[cl] + 1, 0, 0)
    <3>1. m \in Msg /\ m.type = kind
      <4>1. kind \in MsgTypes /\ csent[cl] + 1 \in Nat
        BY <1>0, ConfigAssumption DEF MsgTypes
      <4> QED
        BY <4>1, FrameType
    <3>2. up'[c] = up[c] \/ up'[c] = <<m>> \/ up'[c] = Append(up[c], m)
      BY <1>0, <2>3 DEF ClientSend
    <3> HIDE DEF m
    <3>3. up'[c][j] = m \/ (j \in 1 .. Len(up[c]) /\ up'[c][j] = up[c][j])
      <4>1. CASE up'[c] = <<m>>
        BY <1>3, <4>1
      <4>2. CASE up'[c] = up[c]
        BY <1>3, <4>2
      <4>3. CASE up'[c] = Append(up[c], m)
        BY <1>0, <1>3, <3>1, <4>3, AppendElement
      <4> QED
        BY <3>2, <4>1, <4>2, <4>3
    <3>4. ckind'[Owner(c)] = kind
      BY <1>0, <2>3, ClientConns DEF ClientSend
    <3> QED
      BY <1>3, <2>1, <3>1, <3>3, <3>4 DEF Solo
  <2> QED
    BY <1>0, <2>2, <2>3, UpEffect
<1>4. ASSUME Solo(c)'
      PROVE  /\ Asked(up'[c]) = {} /\ Drawn(c)' = {} /\ csent'[Owner(c)] > 0
             /\ h'[c].pc \notin {"insert", "forward"}
  <2>1. CASE Solo(c)
    <3>1. /\ Asked(up[c]) = {} /\ Drawn(c) = {} /\ csent[Owner(c)] > 0 /\ h[c].pc \notin {"insert", "forward"}
      BY <2>1 DEF SoloInv
    <3>2. Asked(up'[c]) = {}
      BY <2>1, <3>1, AskedEffect, SoloAlone
    <3>3. ~InsertPending(c)
      BY <3>1 DEF InsertPending
    <3>4. Drawn(c)' = {}
      BY <1>0, <3>1, <3>3, DrawnEffect
    <3>5. csent'[Owner(c)] > 0
      BY <2>1, <3>1, SoloStays
    <3>6. h'[c].pc \notin {"insert", "forward"}
      <4>1. CASE LookupFinds(c)
        <5>1. Head(up[c]).type \notin Asking /\ Head(up[c]).type \in ClientMsgs
          BY <1>0, <3>1, <4>1, AskedHead DEF LookupFinds, Incoming
        <5>2. Head(up[c]).type = "disconnect"
          BY <5>1 DEF Asking, ClientMsgs
        <5> QED
          BY <1>0, <4>1, <5>2 DEF LookupFinds, Goto
      <4>2. CASE HandleReply(c) \/ AcceptRegister(c)
        BY <1>0, <4>2 DEF HandleReply, PendingOf, AcceptRegister, Goto, Incoming
      <4>3. CASE h'[c] = h[c] \/ h'[c] = Idle
        BY <3>1, <4>3 DEF Idle
      <4> QED
        BY <1>0, <3>3, <4>1, <4>2, <4>3, HandEffect
    <3> QED
      BY <3>2, <3>4, <3>5, <3>6
  <2>2. CASE ~Solo(c)
    <3>1. ClientSend(Owner(c), "disconnect") /\ csent[Owner(c)] = 0 /\ csent'[Owner(c)] = 1
      BY <1>4, <2>2, SoloBegins
    <3>2. Drawn(c) = {} /\ InHand(c) = {} /\ Asked(up[c]) = {}
      <4>1. 1 .. csent[Owner(c)] = {}
        BY <3>1
      <4>2. Drawn(c) \cup InHand(c) \cup Asked(up[c]) \subseteq 1 .. csent[Owner(c)]
        BY DEF OrderInv, InOrder
      <4> QED
        BY <4>1, <4>2
    <3>3. h' = h /\ origin' = origin
      BY <3>1 DEF ClientSend, relayVars, histVars
    <3>4. Drawn(c)' = {}
      BY <3>2, <3>3 DEF Drawn
    <3>5. h[c].pc # "forward"
      <4>1. h[c].pc = "forward" => h[c].msg.id \in ReqIds /\ origin[h[c].msg.id].conn = c
        BY <1>0 DEF AuthInv, HandlerInv, Purpose
      <4> QED
        BY <3>2, <4>1 DEF Drawn
    <3>6. h[c].pc # "insert"
      BY <3>2 DEF InHand
    <3>7. Asked(up'[c]) = {}
      <4>1. up'[c] = <<Frame("disconnect", 0, 0, 0)>>
        BY <1>0, <3>1 DEF ClientSend
      <4>2. Frame("disconnect", 0, 0, 0).type \notin Asking
        BY DEF Frame, Asking
      <4> QED
        BY <4>1, <4>2 DEF Asked
    <3> QED
      BY <3>1, <3>3, <3>4, <3>5, <3>6, <3>7
  <2> QED
    BY <2>1, <2>2
<1> QED
  BY <1>2, <1>3, <1>4

\* A request that is nowhere any more stays so.
LEMMA NeverStays ==
  ASSUME IInv, AuthInv, OriginInv, OrderInv, OnceInv, Next, NEW c \in CConns, NEW k, Never(c, k)
  PROVE  Never(c, k)'
<1>0. /\ c \in Conns /\ Owner(c) \in Clients /\ CConn(Owner(c)) = c /\ h \in [Conns -> Locals] /\ up[c] \in Seq(Msg)
      /\ HandlerInv /\ Rising(up[c])
  BY ClientConns DEF IInv, TypeOK, SockTypes, RelayTypes, AuthInv, OrderInv, InOrder
<1>1. k \in Nat /\ k <= csent[Owner(c)] /\ k \in 1 .. csent'[Owner(c)]
  <2>1. csent[Owner(c)] \in Nat /\ csent'[Owner(c)] \in Nat /\ csent[Owner(c)] <= csent'[Owner(c)]
    BY <1>0, CountEffect
  <2> QED
    BY <2>1 DEF Never
<1>2. k \notin Asked(up'[c])
  <2>1. \/ Asked(up'[c]) \subseteq Asked(up[c])
        \/ Asked(up'[c]) \subseteq Asked(up[c]) \cup {csent[Owner(c)] + 1}
    BY <1>0, AskedEffect, ClientConns
  <2>2. k # csent[Owner(c)] + 1
    BY <1>0, <1>1 DEF IInv, TypeOK, ClientTypes
  <2> QED
    BY <2>1, <2>2 DEF Never
<1>3. k \notin InHand(c)' /\ (h'[c].pc = "forward" => h'[c].id # k)
  <2>1. CASE LookupFinds(c)
    <3>1. InHand(c)' # {} => InHand(c)' = {Head(up[c]).id} /\ Head(up[c]).type # "disconnect"
      BY <1>0, <2>1 DEF LookupFinds, InHand, Goto
    <3>2. InHand(c)' # {} => Head(up[c]).id \in Asked(up[c])
      BY <1>0, <2>1, <3>1, AskedHead DEF LookupFinds, Incoming, ClientMsgs, Asking
    <3>3. h'[c].pc # "forward"
      BY <1>0, <2>1 DEF LookupFinds, Goto
    <3> QED
      BY <3>1, <3>2, <3>3 DEF Never
  <2>2. CASE InsertPending(c)
    <3>1. h'[c].pc = "forward" /\ h'[c].id = h[c].id /\ h[c].id \in InHand(c)
      BY <1>0, <2>2 DEF InsertPending, InHand, Locals
    <3> QED
      BY <3>1 DEF Never, InHand
  <2>3. CASE HandleReply(c) \/ AcceptRegister(c)
    <3>1. h'[c].pc \notin {"insert", "forward"}
      BY <1>0, <2>3 DEF HandleReply, PendingOf, AcceptRegister, Goto, Incoming
    <3> QED
      BY <3>1 DEF InHand
  <2>4. CASE h'[c] = Idle
    BY <2>4 DEF Idle, InHand
  <2>5. CASE h'[c] = h[c]
    BY <2>5 DEF Never, InHand
  <2> QED
    BY <1>0, <2>1, <2>2, <2>3, <2>4, <2>5, HandEffect
<1>4. ASSUME NEW i \in ReqIds, origin'[i].conn = c, origin'[i].serverID = k PROVE ~Begun(i)'
  <2>1. origin'[i] = origin[i]
    <3>1. ASSUME NEW x \in Conns, InsertPending(x) PROVE origin'[i] = origin[i]
      <4>1. CASE i = nextId
        <5>1. origin'[nextId] = [conn |-> x, serverID |-> h[x].id] /\ h[x].pc = "insert"
          BY <3>1, DrawEffect DEF InsertPending
        <5>2. x = c /\ h[x].id = k
          BY <1>4, <4>1, <5>1
        <5> QED
          BY <5>1, <5>2 DEF Never, InHand
      <4>2. CASE i # nextId
        BY <3>1, <4>2, DrawEffect
      <4> QED
        BY <4>1, <4>2
    <3> QED
      BY <3>1, EntryEffect
  <2>2. ~Begun(i)
    BY <1>4, <2>1 DEF Never
  <2>3. ASSUME NEW x \in Conns, ForwardSent(x), i = h[x].msg.id PROVE FALSE
    <3>1. h[x].pc = "forward" /\ x = c
      BY <1>0, <1>4, <2>1, <2>3 DEF ForwardSent, HandlerInv, Purpose
    <3>2. h[x].id = k
      BY <1>4, <2>1, <2>3, <3>1 DEF OnceInv
    <3> QED
      BY <3>1, <3>2 DEF Never
  <2> QED
    BY <2>2, <2>3, TravelEffect
<1> QED
  BY <1>1, <1>2, <1>3, <1>4 DEF Never

LEMMA SaysStays ==
  ASSUME IInv, AuthInv, OriginInv, OrderInv, OnceInv, SoloInv, Next, NEW c \in CConns, NEW m, Says(c, m)
  PROVE  Says(c, m)'
<1>1. m.type \in {"error", "disconnect_confirmed"} => Solo(c)' /\ m.run = 0
  BY SoloStays DEF Says
<1>2. m.run # 0 => OutputOf(c, m)'
  BY OutputStays DEF Says
<1>3. m.run = 0 /\ m.id # 0 => Never(c, m.id)'
  BY NeverStays DEF Says
<1> QED
  BY <1>1, <1>2, <1>3 DEF Says

\* A refusal at the lookup: the request is taken from the queue, and that
\* is all that ever was.
LEMMA RefusedAtLookup ==
  ASSUME IInv, AuthInv, OriginInv, OrderInv, OnceInv, SoloInv, Next, NEW c \in CConns,
         RejectClient(c) \/ LookupFails(c), NEW r, r = Refusal(Head(up[c]))
  PROVE  Says(c, r)'
<1> DEFINE m == Head(up[c])
<1>0. /\ c \in Conns /\ Owner(c) \in Clients /\ h \in [Conns -> Locals] /\ up \in [Conns -> Seq(Msg)]
      /\ up[c] \in Seq(Msg) /\ up[c] # <<>> /\ h[c].pc = "read" /\ m.type \in ClientMsgs /\ InOrder(c)
  BY ClientConns DEF IInv, TypeOK, SockTypes, RelayTypes, OrderInv, RejectClient, LookupFails, Incoming
<1>1. CASE m.type = "disconnect"
  <2>1. Solo(c)
    BY <1>0, <1>1, AskedHead DEF SoloInv
  <2>2. Solo(c)'
    BY <2>1, SoloStays
  <2>3. r = Frame("error", 0, 0, 0)
    BY <1>1 DEF Refusal
  <2> QED
    BY <2>2, <2>3 DEF Says, Frame
<1>2. CASE m.type # "disconnect"
  <2>1. m.type \in Asking
    BY <1>0, <1>2 DEF Asking, ClientMsgs
  <2>2. PICK k : k = m.id
    OBVIOUS
  <2>3. k \in Asked(up[c]) /\ \A n \in Asked(Tail(up[c])) : k < n
    BY <1>0, <2>1, <2>2, AskedTail DEF InOrder
  <2>4. k \in 1 .. csent[Owner(c)] /\ \A n \in Drawn(c) : n < k
    BY <1>0, <2>3 DEF InOrder, Before
  <2>5. k \in 1 .. csent'[Owner(c)] /\ k \in Nat
    BY <1>0, <2>4, CountEffect
  <2>6. k \notin Asked(up'[c])
    <3>1. CASE RejectClient(c)
      <4>1. up'[c] = <<>>
        BY <1>0, <3>1 DEF RejectClient, Hangup
      <4> QED
        BY <4>1, AskedEmpty
    <3>2. CASE LookupFails(c)
      <4>1. up'[c] = Tail(up[c])
        BY <1>0, <3>2 DEF LookupFails, Consume
      <4> QED
        BY <2>3, <2>5, <4>1
    <3> QED
      BY <3>1, <3>2
  <2>7. h'[c].pc = "read"
    BY <1>0 DEF RejectClient, LookupFails, Hangup, Idle, relayVars
  <2>8. ASSUME NEW i \in ReqIds, origin'[i].conn = c, origin'[i].serverID = k PROVE FALSE
    <3>1. origin' = origin
      BY DEF RejectClient, LookupFails, histVars
    <3>2. k \in Drawn(c)
      BY <2>8, <3>1 DEF Drawn
    <3> QED
      BY <2>4, <2>5, <3>2
  <2>9. Never(c, k)'
    BY <2>5, <2>6, <2>7, <2>8 DEF Never, InHand
  <2>10. r = Frame("result", k, 0, 0)
    BY <1>2, <2>2 DEF Refusal, errResult
  <2> QED
    BY <2>9, <2>10 DEF Says, Frame
<1> QED
  BY <1>1, <1>2

\* A refusal after the write failed: the command has not been sent.
LEMMA RefusedAtForward ==
  ASSUME IInv, AuthInv, OriginInv, OrderInv, OnceInv, Next, NEW c \in CConns, ForwardFails(c),
         NEW r, r = errResult(h[c].id)
  PROVE  Says(c, r)'
<1>0. /\ c \in Conns /\ Owner(c) \in Clients /\ h \in [Conns -> Locals] /\ InOrder(c) /\ HandlerInv
      /\ h[c].pc = "forward"
  BY ClientConns DEF IInv, TypeOK, RelayTypes, OrderInv, AuthInv, ForwardFails
<1>k. PICK k : k = h[c].id
  OBVIOUS
<1>1. PICK i \in ReqIds : /\ i = h[c].msg.id /\ k = h[c].id /\ origin[i].conn = c
                          /\ origin[i].serverID = k /\ ~Begun(i)
  BY <1>0, <1>k DEF HandlerInv, Purpose, OnceInv
<1>2. k \in Drawn(c)
  BY <1>1 DEF Drawn
<1>3. k \in 1 .. csent[Owner(c)] /\ \A n \in Asked(up[c]) : k < n
  BY <1>0, <1>2 DEF InOrder, Before
<1>4. k \in 1 .. csent'[Owner(c)] /\ k \in Nat
  BY <1>0, <1>3, CountEffect
<1>5. up' = up /\ origin' = origin /\ job' = job /\ h'[c] = Idle /\ down' = DownWith(c, errResult(k))
  BY <1>0, <1>1 DEF ForwardFails, histVars, daemonVars
<1>6. ASSUME NEW x \in ReqIds, origin'[x].conn = c, origin'[x].serverID = k PROVE ~Begun(x)'
  <2>1. x = i
    <3>1. origin[x] = origin[i] /\ origin[i] # NoEntry
      <4>1. origin \in [ReqIds -> Entries]
        BY DEF IInv, TypeOK, HistTypes
      <4>2. c # NoConn
        BY <1>0, PeersAssumption
      <4> QED
        BY <1>1, <1>5, <1>6, <4>1, <4>2 DEF Entries, NoEntry
    <3> QED
      BY <3>1 DEF OriginInv
  <2>2. ~Travels(i)'
    <3>1. ASSUME NEW y \in Conns PROVE Commands(down'[y]) \subseteq Commands(down[y])
      <4>1. errResult(k) \in Msg /\ errResult(k).type = "result"
        <5>1. "result" \in MsgTypes /\ k \in Nat
          BY <1>4 DEF MsgTypes
        <5> QED
          BY <5>1, FrameType DEF errResult
      <4>2. down'[y] = down[y] \/ down'[y] = Append(down[y], errResult(k))
        BY <1>5 DEF DownWith, IInv, TypeOK, SockTypes
      <4>3. down[y] \in Seq(Msg) /\ Single(down[y])
        BY DEF IInv, TypeOK, SockTypes, OnceInv
      <4> QED
        BY <4>1, <4>2, <4>3, CommandsAppend
    <3> QED
      BY <1>1, <3>1 DEF Begun, Travels
  <2> QED
    BY <1>1, <1>5, <2>1, <2>2 DEF Begun
<1>7. Never(c, k)'
  <2>1. k \notin Asked(up[c])
    BY <1>3, <1>4
  <2> QED
    BY <1>4, <1>5, <1>6, <2>1 DEF Never, InHand, Idle
<1> QED
  BY <1>1, <1>7 DEF Says, errResult, Frame

\* The relay tells a client nothing but the output of its own requests and
\* refusals of requests that are over.
LEMMA SaysStep ==
  IInv /\ AuthInv /\ OriginInv /\ OrderInv /\ OnceInv /\ ReplyInv /\ SaysInv /\ SoloInv /\ Next => SaysInv'
<1> SUFFICES ASSUME IInv, AuthInv, OriginInv, OrderInv, OnceInv, ReplyInv, SaysInv, SoloInv, Next,
                    NEW c \in CConns, NEW j \in 1 .. Len(down'[c])
             PROVE  Says(c, down[c][j])'
  BY DEF SaysInv
<1>0. /\ c \in Conns /\ c \notin DConns /\ down[c] \in Seq(Msg) /\ HandlerInv /\ SockTypes /\ QueueInv
      /\ ReqIds \subseteq Nat \ {0}
  BY ClientConns DEF IInv, TypeOK, SockTypes, AuthInv, ReqIds
<1>1. ASSUME NEW k \in 1 .. Len(down[c]), NEW m, m = down[c][k] PROVE Says(c, m)'
  BY <1>1, SaysStays DEF SaysInv
<1>2. ASSUME NEW m, m.run = 0, m.id = 0, m.type \in {"error", "disconnect_confirmed"} => Solo(c)'
      PROVE  Says(c, m)'
  BY <1>2 DEF Says
<1>3. ASSUME NEW m \in Msg, Gets(c, m) PROVE Says(c, m)'
  <2>1. ASSUME NEW x \in Conns, Deliver(x), c = h[x].tgt, m = h[x].msg PROVE Says(c, m)'
    <3>1. CASE h[x].pc = "ack"
      <4>1. m = Frame("registered", 0, 0, 0)
        BY <2>1, <3>1 DEF ReplyInv
      <4> QED
        BY <1>2, <4>1 DEF Frame
    <3>2. CASE h[x].pc = "deliver"
      <4>1. m.type \in Replies /\ OutputOf(c, m)
        BY <2>1, <3>2 DEF ReplyInv
      <4>2. m.run # 0
        BY <1>0, <4>1 DEF OutputOf
      <4> QED
        BY <4>1, <4>2, OutputStays DEF Says, Replies
    <3> QED
      BY <2>1, <3>1, <3>2 DEF Deliver
  <2>2. ASSUME NEW x \in Conns, ForwardSent(x) \/ ForwardKill(x), c = h[x].tgt PROVE FALSE
    BY <1>0, <2>2 DEF ForwardSent, ForwardKill, HandlerInv, Purpose
  <2>3. CASE (RejectClient(c) \/ LookupFails(c)) /\ m = Refusal(Head(up[c]))
    BY <2>3, RefusedAtLookup
  <2>4. CASE ForwardFails(c) /\ m = errResult(h[c].id)
    BY <2>4, RefusedAtForward
  <2>5. CASE ForwardKill(c) /\ m \in {Frame("disconnect_confirmed", 0, 0, 0), Frame("error", 0, 0, 0)}
    <3>1. Solo(c)'
      BY <2>5, SoloStays DEF SoloInv, ForwardKill
    <3> QED
      BY <1>2, <2>5, <3>1 DEF Frame
  <2>6. ~RejectRegister(c)
    BY <1>0, RegisterOfDaemon DEF RejectRegister, MayRegister
  <2>7. CASE m = Frame("replaced", 0, 0, 0)
    BY <1>2, <2>7 DEF Frame
  <2> QED
    BY <1>3, <2>1, <2>2, <2>3, <2>4, <2>5, <2>6, <2>7 DEF Gets
<1>4. CASE Shrinks(down[c], down'[c])
  <2>1. PICK k \in 1 .. Len(down[c]) : down'[c][j] = down[c][k]
    BY <1>0, <1>4, ShrinksElement
  <2>2. PICK m : m = down[c][k]
    OBVIOUS
  <2>3. Says(c, m)'
    BY <1>1, <2>1, <2>2
  <2> QED
    BY <2>1, <2>2, <2>3 DEF Says, OutputOf, Never
<1>5. ASSUME NEW m \in Msg, Gets(c, m), down'[c] = Append(down[c], m)
      PROVE  Says(c, down[c][j])'
  <2>1. CASE down'[c][j] = m
    <3>1. Says(c, m)'
      BY <1>3, <1>5
    <3> QED
      BY <2>1, <3>1 DEF Says, OutputOf, Never
  <2>2. CASE j \in 1 .. Len(down[c]) /\ down'[c][j] = down[c][j]
    <3>1. PICK r : r = down[c][j]
      OBVIOUS
    <3>2. Says(c, r)'
      BY <1>1, <2>2, <3>1
    <3> QED
      BY <2>2, <3>1, <3>2 DEF Says, OutputOf, Never
  <2> QED
    BY <1>0, <1>5, <2>1, <2>2, AppendElement
<1>6. CASE \E m \in Msg : Gets(c, m) /\ down'[c] = Append(down[c], m)
  <2>1. PICK m \in Msg : Gets(c, m) /\ down'[c] = Append(down[c], m)
    BY <1>6
  <2> QED
    BY <1>5, <2>1
<1>7. Shrinks(down[c], down'[c]) \/ \E m \in Msg : Gets(c, m) /\ down'[c] = Append(down[c], m)
  BY <1>0, DownEffect
<1> QED
  BY <1>4, <1>6, <1>7

\* What a client takes for the answer to its request.
LEMMA AnswerTaken ==
  ASSUME IInv, AuthInv, OrderInv, SaysInv, SoloInv, WaitInv, NEW cl \in Clients, ClientRecv(cl),
         NEW m, m = Head(down[CConn(cl)]), Accepts(cl, m), NEW k, k = cwait[cl]
  PROVE  /\ k = csent[cl] /\ k \in 1 .. MaxExec /\ answer[cl][k] = "none"
         /\ Outcome(m) = "refused" => Never(CConn(cl), k)
         /\ Outcome(m) = "output" => OutputOf(CConn(cl), m) /\ m.id = k
         /\ Outcome(m) # "output" => m.run = 0
<1> DEFINE c == CConn(cl)
<1>0. /\ c \in CConns /\ c \in Conns /\ Owner(c) = cl /\ c \notin DConns /\ down[c] \in Seq(Msg) /\ down[c] # <<>>
      /\ csent[cl] \in Nat /\ MaxExec \in Nat /\ HandlerInv
  BY ClientConns, BoundsAssumption DEF ClientRecv, IInv, TypeOK, SockTypes, ClientTypes, AuthInv
<1>1. k # 0 /\ k = csent[cl] /\ k \in 1 .. MaxExec /\ k \in 1 .. csent[cl] /\ answer[cl][k] = "none"
  BY <1>0 DEF Accepts, WaitInv
<1>2. Says(c, m)
  <2>1. 1 \in 1 .. Len(down[c]) /\ m = down[c][1]
    BY <1>0
  <2> QED
    BY <1>0, <2>1 DEF SaysInv
<1>3. m.type \in {"error", "disconnect_confirmed"} => Solo(c) /\ m.run = 0
  BY <1>2 DEF Says
<1>4. Solo(c) => ckind[cl] = "disconnect"
  BY <1>0 DEF Solo
<1>5. ASSUME Outcome(m) = "output" PROVE OutputOf(c, m) /\ m.id = k
  <2>1. m.run # 0
    BY <1>5 DEF Outcome
  <2>2. m.type # "error" /\ m.type # "disconnect_confirmed"
    BY <1>3, <2>1
  <2>3. m.id = k
    BY <2>1, <2>2 DEF Accepts
  <2> QED
    BY <1>2, <2>1, <2>3 DEF Says
<1>6. ASSUME Outcome(m) = "refused" PROVE Never(c, k)
  <2>1. m.run = 0 /\ m.type # "disconnect_confirmed"
    BY <1>6 DEF Outcome
  <2>2. CASE Solo(c)
    <3>1. Asked(up[c]) = {} /\ Drawn(c) = {} /\ h[c].pc \notin {"insert", "forward"}
      BY <1>0, <2>2 DEF SoloInv
    <3>2. \A i \in ReqIds : origin[i].conn # c
      BY <3>1 DEF Drawn
    <3> QED
      BY <1>0, <1>1, <3>1, <3>2 DEF Never, InHand
  <2>3. CASE ~Solo(c)
    <3>1. m.type # "error" /\ ckind[cl] # "disconnect"
      BY <1>0, <1>3, <2>3 DEF Solo
    <3>2. m.id = k
      BY <3>1 DEF Accepts
    <3> QED
      BY <1>1, <1>2, <2>1, <3>2 DEF Says
  <2> QED
    BY <2>2, <2>3
<1>7. ASSUME Outcome(m) # "output" PROVE m.run = 0
  BY <1>3, <1>7 DEF Outcome
<1> QED
  BY <1>1, <1>5, <1>6, <1>7

\* What a step does to a client's answers.
LEMMA AnswerEffect ==
  ASSUME IInv, AuthInv, OrderInv, SaysInv, SoloInv, WaitInv, Next, NEW cl \in Clients, NEW k \in 1 .. MaxExec,
         answer'[cl][k] # answer[cl][k]
  PROVE  /\ k = cwait[cl] /\ k = csent[cl] /\ answer[cl][k] = "none" /\ cwait'[cl] = 0
         /\ csent' = csent /\ answer' = [answer EXCEPT ![cl][k] = answer'[cl][k]]
         /\ UNCHANGED <<origin, job>>
         /\ \/ answer'[cl][k] = "lost" /\ heard' = heard
            \/ \E m : /\ ClientRecv(cl) /\ m = Head(down[CConn(cl)]) /\ Accepts(cl, m)
                      /\ answer'[cl][k] = Outcome(m) /\ heard' = [heard EXCEPT ![cl][k] = m.run]
<1>0. answer \in [Clients -> [1 .. MaxExec -> {"none", "refused", "output", "confirmed", "lost"}]]
      /\ cwait \in [Clients -> Nat]
  BY DEF IInv, TypeOK, ClientTypes
<1>1. PICK x \in Clients : UNCHANGED csent /\ (ClientRecv(x) \/ ClientTimeout(x) \/ ClientClose(x))
  <2>1. ASSUME NEW x \in Clients, NEW kind \in Kinds, ClientSend(x, kind) PROVE FALSE
    BY <2>1 DEF ClientSend
  <2> QED
    BY <2>1, ClientEffect
<1>2. CASE ClientTimeout(x) \/ ClientClose(x)
  <2>1. GiveUp(x) /\ UNCHANGED <<origin, job>>
    BY <1>2 DEF ClientTimeout, ClientClose, histVars, daemonVars
  <2>2. /\ cwait[x] # 0 /\ answer' = [answer EXCEPT ![x][cwait[x]] = "lost"]
        /\ cwait' = [cwait EXCEPT ![x] = 0] /\ heard' = heard
    BY <2>1 DEF GiveUp
  <2>3. x = cl /\ cwait[x] = k
    BY <1>0, <2>2
  <2>4. k = csent[cl] /\ answer[cl][k] = "none"
    BY <2>2, <2>3 DEF WaitInv
  <2> QED
    BY <1>0, <1>1, <2>1, <2>2, <2>3, <2>4
<1>3. CASE ClientRecv(x)
  <2> DEFINE m == Head(down[CConn(x)])
  <2>1. /\ Accepts(x, m) /\ answer' = [answer EXCEPT ![x][cwait[x]] = Outcome(m)]
        /\ cwait' = [cwait EXCEPT ![x] = 0] /\ UNCHANGED <<origin, job>>
        /\ heard' = [heard EXCEPT ![x][cwait[x]] = m.run]
    BY <1>3 DEF ClientRecv, histVars, daemonVars
  <2>2. x = cl /\ cwait[x] = k
    BY <1>0, <2>1
  <2>3. k = csent[cl] /\ answer[cl][k] = "none"
    BY <1>3, <2>1, <2>2, AnswerTaken
  <2>4. answer'[cl][k] = Outcome(m)
    BY <1>0, <2>1, <2>2
  <2> QED
    BY <1>0, <1>1, <1>3, <2>1, <2>2, <2>3, <2>4
<1> QED
  BY <1>1, <1>2, <1>3

\* As long as a request is not answered, nothing is heard for it.
LEMMA HeardStays ==
  ASSUME IInv, AuthInv, OrderInv, SaysInv, SoloInv, WaitInv, Next, NEW cl \in Clients, NEW k \in 1 .. MaxExec,
         answer'[cl][k] = answer[cl][k]
  PROVE  heard'[cl][k] = heard[cl][k]
<1>0. /\ answer \in [Clients -> [1 .. MaxExec -> {"none", "refused", "output", "confirmed", "lost"}]]
      /\ heard \in [Clients -> [1 .. MaxExec -> Nat]]
  BY DEF IInv, TypeOK, ClientTypes
<1>1. ASSUME NEW x \in Clients, ClientRecv(x) PROVE heard'[cl][k] = heard[cl][k]
  <2> DEFINE m == Head(down[CConn(x)])
  <2>1. CASE heard' = heard
    BY <2>1
  <2>2. CASE Accepts(x, m) /\ ReturnsOn(m)
    <3>1. /\ answer' = [answer EXCEPT ![x][cwait[x]] = Outcome(m)]
          /\ heard' = [heard EXCEPT ![x][cwait[x]] = m.run]
      BY <1>1, <2>2 DEF ClientRecv
    <3>2. cwait[x] \in 1 .. MaxExec /\ answer[x][cwait[x]] = "none" /\ Outcome(m) # "none"
      BY <1>1, <2>2, AnswerTaken DEF Outcome
    <3> HIDE DEF m
    <3>3. x # cl \/ cwait[x] # k
      BY <1>0, <3>1, <3>2
    <3> QED
      BY <1>0, <3>1, <3>2, <3>3
  <2> QED
    BY <1>1, <2>1, <2>2 DEF ClientRecv
<1>2. ASSUME NEW x \in Clients, NEW kind \in Kinds, ClientSend(x, kind) PROVE heard' = heard
  BY <1>2 DEF ClientSend
<1>3. ASSUME NEW x \in Clients, ClientTimeout(x) \/ ClientClose(x) PROVE heard' = heard
  BY <1>3 DEF ClientTimeout, ClientClose, GiveUp
<1> QED
  BY <1>1, <1>2, <1>3, ClientEffect

\* What is heard comes from an execution.
LEMMA HeardStep ==
  /\ IInv /\ AuthInv /\ OriginInv /\ OrderInv /\ OnceInv /\ SaysInv /\ SoloInv /\ WaitInv /\ HeardInv /\ Next
  => HeardInv'
<1> SUFFICES ASSUME IInv, AuthInv, OriginInv, OrderInv, OnceInv, SaysInv, SoloInv, WaitInv, HeardInv, Next,
                    NEW cl \in Clients, NEW k \in 1 .. MaxExec
             PROVE  /\ answer'[cl][k] = "none" => heard'[cl][k] = 0
                    /\ heard'[cl][k] # 0 => heard'[cl][k] \in ReqIds /\ job'[heard'[cl][k]].st # "none"
  BY DEF HeardInv
<1>1. CASE answer'[cl][k] = answer[cl][k]
  <2>1. PICK i : i = heard[cl][k] /\ i = heard'[cl][k]
    BY <1>1, HeardStays
  <2>2. answer'[cl][k] = "none" => i = 0
    BY <1>1, <2>1 DEF HeardInv
  <2>3. ASSUME i # 0 PROVE i \in ReqIds /\ job'[i].st # "none"
    <3>1. i \in ReqIds /\ job[i].st # "none"
      BY <2>1, <2>3 DEF HeardInv
    <3> QED
      BY <3>1, JobStays
  <2> QED
    BY <2>1, <2>2, <2>3
<1>2. CASE answer'[cl][k] # answer[cl][k]
  <2>0. heard \in [Clients -> [1 .. MaxExec -> Nat]]
    BY DEF IInv, TypeOK, ClientTypes
  <2>1. /\ answer[cl][k] = "none" /\ UNCHANGED job /\ k = cwait[cl]
        /\ \/ heard' = heard
           \/ \E m : /\ ClientRecv(cl) /\ m = Head(down[CConn(cl)]) /\ Accepts(cl, m)
                     /\ heard' = [heard EXCEPT ![cl][k] = m.run]
    BY <1>2, AnswerEffect
  <2>2. answer'[cl][k] # "none"
    BY <1>2, <2>1
  <2>3. CASE heard' = heard
    BY <2>1, <2>2, <2>3 DEF HeardInv
  <2>4. CASE \E m : /\ ClientRecv(cl) /\ m = Head(down[CConn(cl)]) /\ Accepts(cl, m)
                    /\ heard' = [heard EXCEPT ![cl][k] = m.run]
    <3>1. PICK m : /\ ClientRecv(cl) /\ m = Head(down[CConn(cl)]) /\ Accepts(cl, m)
                   /\ heard' = [heard EXCEPT ![cl][k] = m.run]
      BY <2>4
    <3>2. m.run = 0 \/ OutputOf(CConn(cl), m)
      BY <2>1, <3>1, AnswerTaken
    <3>3. PICK i : i = m.run /\ heard'[cl][k] = i
      BY <2>0, <3>1
    <3>4. i # 0 => i \in ReqIds /\ job[i].st # "none"
      BY <3>2, <3>3 DEF OutputOf
    <3> QED
      BY <2>1, <2>2, <3>3, <3>4
  <2> QED
    BY <2>1, <2>3, <2>4
<1> QED
  BY <1>1, <1>2

\* A client waits for its last request, and is refused only what is over.
LEMMA WaitStep ==
  /\ IInv /\ AuthInv /\ OriginInv /\ OrderInv /\ OnceInv /\ SaysInv /\ SoloInv /\ WaitInv /\ Next
  => WaitInv'
<1> SUFFICES ASSUME IInv, AuthInv, OriginInv, OrderInv, OnceInv, SaysInv, SoloInv, WaitInv, Next,
                    NEW cl \in Clients
             PROVE  /\ csent'[cl] <= MaxExec /\ cwait'[cl] \in {0, csent'[cl]}
                    /\ cwait'[cl] # 0 => answer'[cl][cwait'[cl]] = "none"
                    /\ \A k \in 1 .. MaxExec : k > csent'[cl] => answer'[cl][k] = "none"
                    /\ \A k \in 1 .. MaxExec : answer'[cl][k] = "refused" => Never(CConn(cl), k)'
  BY DEF WaitInv, CConn
<1>0. /\ csent \in [Clients -> Nat] /\ cwait \in [Clients -> Nat] /\ MaxExec \in Nat
      /\ answer \in [Clients -> [1 .. MaxExec -> {"none", "refused", "output", "confirmed", "lost"}]]
      /\ CConn(cl) \in CConns /\ csent'[cl] \in Nat /\ csent[cl] <= csent'[cl]
  BY ClientConns, CountEffect, BoundsAssumption DEF IInv, TypeOK, ClientTypes
<1>1. \/ csent'[cl] = csent[cl] /\ cwait'[cl] \in {0, cwait[cl]}
      \/ \E kind \in Kinds : ClientSend(cl, kind)
  <2>1. ASSUME NEW x \in Clients, NEW kind \in Kinds, ClientSend(x, kind), x # cl
        PROVE  csent'[cl] = csent[cl] /\ cwait'[cl] = cwait[cl]
    BY <1>0, <2>1 DEF ClientSend
  <2>2. ASSUME NEW x \in Clients, ClientRecv(x) \/ ClientTimeout(x) \/ ClientClose(x), UNCHANGED csent
        PROVE  cwait'[cl] \in {0, cwait[cl]}
    BY <1>0, <2>2 DEF ClientRecv, ClientTimeout, ClientClose, GiveUp
  <2> QED
    BY <2>1, <2>2, ClientEffect
<1>2. ASSUME NEW k \in 1 .. MaxExec, answer'[cl][k] = "refused" PROVE Never(CConn(cl), k)'
  <2>1. Never(CConn(cl), k)
    <3>1. CASE answer'[cl][k] = answer[cl][k]
      BY <1>2, <3>1 DEF WaitInv
    <3>2. CASE answer'[cl][k] # answer[cl][k]
      <4>1. PICK m : /\ ClientRecv(cl) /\ m = Head(down[CConn(cl)]) /\ Accepts(cl, m)
                     /\ Outcome(m) = "refused" /\ k = cwait[cl]
        BY <1>2, <3>2, AnswerEffect
      <4> QED
        BY <4>1, AnswerTaken
    <3> QED
      BY <3>1, <3>2
  <2>2. PICK c \in CConns : c = CConn(cl)
    BY <1>0
  <2> QED
    BY <2>1, <2>2, NeverStays DEF CConn
<1>3. CASE \E kind \in Kinds : ClientSend(cl, kind)
  <2>1. PICK kind \in Kinds : ClientSend(cl, kind)
    BY <1>3
  <2>2. csent'[cl] = csent[cl] + 1 /\ cwait'[cl] = csent[cl] + 1 /\ csent[cl] < MaxExec /\ answer' = answer
    BY <1>0, <2>1 DEF ClientSend
  <2>3. csent[cl] + 1 \in 1 .. MaxExec /\ answer[cl][csent[cl] + 1] = "none"
    BY <1>0, <2>2 DEF WaitInv
  <2>4. \A k \in 1 .. MaxExec : k > csent'[cl] => answer'[cl][k] = "none"
    BY <1>0, <2>2 DEF WaitInv
  <2> QED
    BY <1>0, <1>2, <2>2, <2>3, <2>4
<1>4. CASE csent'[cl] = csent[cl] /\ cwait'[cl] \in {0, cwait[cl]}
  <2>1. csent[cl] <= MaxExec /\ cwait[cl] \in {0, csent[cl]}
    BY DEF WaitInv
  <2>2. ASSUME cwait'[cl] # 0 PROVE answer'[cl][cwait'[cl]] = "none"
    <3>1. cwait'[cl] = cwait[cl] /\ cwait[cl] \in 1 .. MaxExec /\ answer[cl][cwait[cl]] = "none"
      BY <1>0, <1>4, <2>1, <2>2 DEF WaitInv
    <3>2. answer'[cl][cwait[cl]] = answer[cl][cwait[cl]]
      BY <2>2, <3>1, AnswerEffect
    <3> QED
      BY <3>1, <3>2
  <2>3. ASSUME NEW k \in 1 .. MaxExec, k > csent'[cl] PROVE answer'[cl][k] = "none"
    <3>1. k > csent[cl] /\ answer[cl][k] = "none"
      BY <1>4, <2>3 DEF WaitInv
    <3>2. answer'[cl][k] = answer[cl][k]
      BY <1>0, <3>1, AnswerEffect
    <3> QED
      BY <3>1, <3>2
  <2> QED
    BY <1>2, <1>4, <2>1, <2>2, <2>3
<1> QED
  BY <1>1, <1>3, <1>4

LEMMA InitServe == Init => ServeInv
<1> SUFFICES ASSUME Init PROVE ServeInv
  OBVIOUS
<1>0. /\ \A c \in Conns : up[c] = <<>> /\ down[c] = <<>> /\ h[c] = Idle
      /\ \A i \in ReqIds : origin[i] = NoEntry /\ pending[i] = NoEntry /\ job[i] = NoJob
      /\ \A cl \in Clients : /\ csent[cl] = 0 /\ cwait[cl] = 0 /\ ckind[cl] = "none"
                             /\ \A k \in 1 .. MaxExec : answer[cl][k] = "none" /\ heard[cl][k] = 0
  BY DEF Init
<1>1. /\ \A c \in Conns : /\ Rising(up[c]) /\ Asked(up[c]) = {} /\ Commands(down[c]) = {} /\ Single(down[c])
                          /\ Len(up[c]) = 0 /\ Len(down[c]) = 0 /\ h[c].pc = "read" /\ InHand(c) = {}
      /\ \A c \in CConns : Drawn(c) = {} /\ Owner(c) \in Clients /\ c \in Conns
  <2>1. NoConn \notin CConns
    BY PeersAssumption DEF Conns
  <2> QED
    BY <1>0, <2>1, AskedEmpty, CommandsEmpty, ClientConns DEF Idle, InHand, Drawn, NoEntry
<1>2. OrderInv
  BY <1>1 DEF OrderInv, InOrder, Before
<1>3. OriginInv
  BY <1>0 DEF OriginInv, NoJob
<1>4. OnceInv
  BY <1>0, <1>1 DEF OnceInv, Travels
<1>5. ReplyInv
  BY <1>1 DEF ReplyInv
<1>6. SaysInv
  BY <1>1 DEF SaysInv
<1>7. SoloInv
  BY <1>0, <1>1 DEF SoloInv, Solo
<1>8. WaitInv
  BY <1>0, BoundsAssumption DEF WaitInv
<1>9. HeardInv
  BY <1>0 DEF HeardInv
<1> QED
  BY <1>2, <1>3, <1>4, <1>5, <1>6, <1>7, <1>8, <1>9 DEF ServeInv

LEMMA UnchangedServe == ServeInv /\ UNCHANGED vars => ServeInv'
<1> SUFFICES ASSUME ServeInv, UNCHANGED vars PROVE ServeInv'
  OBVIOUS
<1>0. UNCHANGED <<up, down, pending, nextId, h, job, csent, cwait, ckind, answer, heard, origin>>
  BY DEF vars
<1>1. OrderInv'
  <2>1. \A c : Drawn(c)' = Drawn(c) /\ InHand(c)' = InHand(c)
    BY <1>0 DEF Drawn, InHand
  <2>2. \A c : InOrder(c)' <=> InOrder(c)
    BY <1>0, <2>1 DEF InOrder
  <2> QED
    BY <2>2 DEF ServeInv, OrderInv
<1>2. OriginInv'
  BY <1>0 DEF ServeInv, OriginInv
<1>3. OnceInv'
  BY <1>0 DEF ServeInv, OnceInv, Travels, Begun
<1>4. ReplyInv'
  BY <1>0 DEF ServeInv, ReplyInv, OutputOf
<1>5. \A c, k : Never(c, k)' <=> Never(c, k)
  BY <1>0 DEF Never, InHand, Begun, Travels
<1>6. SaysInv'
  BY <1>0, <1>5 DEF ServeInv, SaysInv, Says, OutputOf, Solo
<1>7. SoloInv'
  BY <1>0 DEF ServeInv, SoloInv, Solo, Drawn
<1>8. WaitInv'
  BY <1>0, <1>5 DEF ServeInv, WaitInv
<1>9. HeardInv'
  BY <1>0 DEF ServeInv, HeardInv
<1> QED
  BY <1>1, <1>2, <1>3, <1>4, <1>6, <1>7, <1>8, <1>9 DEF ServeInv

LEMMA StepServe == IInv /\ AuthInv /\ ServeInv /\ [Next]_vars => ServeInv'
  BY OrderStep, OriginStep, OnceStep, ReplyStep, SaysStep, SoloStep, WaitStep, HeardStep,
     UnchangedServe DEF ServeInv

---------------------------------------------------------------------------
(***************************************************************************)
(* The refinement.  ClientSend asks, DaemonCommand runs, a frame that the  *)
(* client takes for its answer or its giving up replies; nothing else is   *)
(* seen by the caller.                                                     *)
(***************************************************************************)
Ran(r) == {<<i, job[i].by>> : i \in {x \in ReqIds : /\ job[x].st # "none"
                                                   /\ origin[x].conn # NoConn
                                                   /\ ReqOf(x) = r}}
AskedView == [r \in Requests |-> r[2] <= csent[r[1]]]
RanView == [r \in Requests |-> Ran(r)]
ReplyView == [r \in Requests |-> answer[r[1]][r[2]]]
Heard(r) == {<<i, job[i].by>> : i \in {x \in ReqIds : x = heard[r[1]][r[2]]}}
OutputView == [r \in Requests |-> Heard(r)]
MayView == [r \in Requests |-> ReqIds \X {d \in Daemons : Entitled(CConn(r[1]), d)}]

\* Whose request an id was drawn for.
LEMMA RequestOf ==
  ASSUME IInv, AuthInv, OriginInv, OrderInv, WaitInv, NEW i \in ReqIds, Begun(i)
  PROVE  \E cl \in Clients, k \in 1 .. MaxExec :
           /\ ReqOf(i) = <<cl, k>> /\ <<cl, k>> \in Requests /\ k <= csent[cl]
           /\ origin[i].conn = CConn(cl) /\ origin[i].serverID = k /\ origin[i].conn # NoConn
<1>1. PICK c \in CConns : c = origin[i].conn
  BY BegunDrawn DEF Entitled
<1>2. PICK cl \in Clients : cl = Owner(c) /\ c = CConn(cl) /\ c # NoConn
  BY ClientConns, PeersAssumption
<1>3. origin[i].serverID \in 1 .. csent[cl]
  BY <1>1, <1>2 DEF OrderInv, InOrder, Drawn
<1>4. csent[cl] \in Nat /\ csent[cl] <= MaxExec /\ MaxExec \in Nat
  BY BoundsAssumption DEF WaitInv, IInv, TypeOK, ClientTypes
<1>5. PICK k \in 1 .. MaxExec : k = origin[i].serverID /\ k <= csent[cl]
  BY <1>3, <1>4
<1>6. ReqOf(i) = <<cl, k>> /\ <<cl, k>> \in Requests
  BY <1>1, <1>2, <1>5 DEF ReqOf, Requests
<1> QED
  BY <1>1, <1>2, <1>5, <1>6

\* Conversely, the requests of one client number are one id's.
LEMMA RanNothing ==
  ASSUME IInv, AuthInv, OriginInv, OrderInv, WaitInv, NEW cl \in Clients, NEW k, Never(CConn(cl), k)
  PROVE  Ran(<<cl, k>>) = {}
<1> SUFFICES ASSUME NEW i \in ReqIds, job[i].st # "none", ReqOf(i) = <<cl, k>> PROVE FALSE
  BY DEF Ran
<1>1. PICK x \in Clients, n \in 1 .. MaxExec :
        ReqOf(i) = <<x, n>> /\ origin[i].conn = CConn(x) /\ origin[i].serverID = n
  BY RequestOf DEF Begun
<1>2. x = cl /\ n = k
  BY <1>1
<1> QED
  BY <1>1, <1>2 DEF Never, Begun

\* A step that begins nothing leaves the executions of every request.
LEMMA RanStays ==
  ASSUME IInv, AuthInv, OriginInv, OrderInv, OnceInv, Next, ~\E d \in Daemons : DaemonCommand(d), NEW r
  PROVE  Ran(r)' = Ran(r)
<1>1. ASSUME NEW i \in ReqIds
      PROVE  /\ (job'[i].st = "none" <=> job[i].st = "none") /\ job'[i].by = job[i].by
             /\ job[i].st # "none" => origin'[i] = origin[i]
  <2>1. (job'[i].st = "none" <=> job[i].st = "none") /\ job'[i].by = job[i].by
    BY JobEffect
  <2>2. job[i].st # "none" => origin'[i] = origin[i]
    BY BegunDrawn, OriginStays DEF Begun
  <2> QED
    BY <2>1, <2>2
<1>2. ASSUME NEW i \in ReqIds, job[i].st # "none" PROVE ReqOf(i)' = ReqOf(i)
  BY <1>1, <1>2 DEF ReqOf
<1> QED
  BY <1>1, <1>2 DEF Ran

\* What was heard was printed by the daemon that printed it.
LEMMA HeardSame ==
  ASSUME IInv, AuthInv, ServeInv, Next, NEW r \in Requests, answer'[r[1]][r[2]] = answer[r[1]][r[2]]
  PROVE  Heard(r)' = Heard(r)
<1>1. r[1] \in Clients /\ r[2] \in 1 .. MaxExec
  BY DEF Requests
<1>2. heard'[r[1]][r[2]] = heard[r[1]][r[2]]
  BY <1>1, HeardStays DEF ServeInv
<1>3. 0 \notin ReqIds
  BY DEF ReqIds
<1>4. ASSUME NEW i \in ReqIds, i = heard[r[1]][r[2]] PROVE job'[i].by = job[i].by
  <2>1. job[i].st # "none"
    BY <1>1, <1>3, <1>4 DEF ServeInv, HeardInv
  <2> QED
    BY <2>1, JobStays DEF ServeInv
<1> QED
  BY <1>2, <1>4 DEF Heard

\* The output of a request is what its own execution printed.
LEMMA HeardIsRan ==
  ASSUME IInv, AuthInv, OriginInv, OrderInv, WaitInv, NEW cl \in Clients, NEW k \in 1 .. MaxExec,
         NEW m, OutputOf(CConn(cl), m), m.id = k
  PROVE  Ran(<<cl, k>>) = {<<i, job[i].by>> : i \in {x \in ReqIds : x = m.run}}
<1>1. PICK i \in ReqIds : i = m.run /\ job[i].st # "none" /\ origin[i].conn = CConn(cl) /\ origin[i].serverID = k
  BY DEF OutputOf
<1>2. ReqOf(i) = <<cl, k>> /\ origin[i].conn # NoConn
  BY <1>1, ClientConns, PeersAssumption DEF ReqOf
<1>3. ASSUME NEW x \in ReqIds, job[x].st # "none", ReqOf(x) = <<cl, k>> PROVE x = i
  <2>1. origin[x].conn = CConn(cl) /\ origin[x].serverID = k
    <3>1. PICK y \in Clients, n \in 1 .. MaxExec :
            ReqOf(x) = <<y, n>> /\ origin[x].conn = CConn(y) /\ origin[x].serverID = n
      BY <1>3, RequestOf DEF Begun
    <3>2. y = cl /\ n = k
      BY <1>3, <3>1
    <3> QED
      BY <3>1, <3>2
  <2>2. origin[x] = origin[i]
    BY <1>1, <2>1 DEF IInv, TypeOK, HistTypes, Entries
  <2>3. origin[i] # NoEntry
    BY <1>2 DEF NoEntry
  <2> QED
    BY <2>2, <2>3 DEF OriginInv
<1>4. {x \in ReqIds : job[x].st # "none" /\ origin[x].conn # NoConn /\ ReqOf(x) = <<cl, k>>} = {i}
  BY <1>1, <1>2, <1>3
<1>5. {x \in ReqIds : x = m.run} = {i}
  BY <1>1
<1> QED
  BY <1>4, <1>5 DEF Ran

\* A daemon that begins a command runs a request that has not run.
LEMMA RunEffect ==
  ASSUME IInv, AuthInv, OriginInv, OrderInv, OnceInv, WaitInv, Next, NEW d \in Daemons, DaemonCommand(d)
  PROVE  \E cl \in Clients, k \in 1 .. MaxExec, i \in ReqIds :
           /\ <<cl, k>> \in Requests /\ k <= csent[cl] /\ answer[cl][k] # "refused"
           /\ Ran(<<cl, k>>) = {} /\ Ran(<<cl, k>>)' = {<<i, d>>}
           /\ \A r : r # <<cl, k>> => Ran(r)' = Ran(r)
           /\ Entitled(CConn(cl), d)
<1>1. PICK i \in ReqIds : i = Head(down[Live(d)]).id
  BY TakeEffect
<1>2. /\ job[i].st = "none" /\ Begun(i) /\ Entitled(origin[i].conn, d)
      /\ job'[i].st = "running" /\ job'[i].by = d
      /\ \A x \in ReqIds : x # i => job'[x] = job[x]
  <2>1. job \in [ReqIds -> Jobs]
    BY DEF IInv, TypeOK, DaemonTypes
  <2> QED
    <3>1. /\ job[i].st = "none" /\ Travels(i) /\ Entitled(origin[i].conn, d)
          /\ \E e : e.st = "running" /\ e.by = d /\ job' = [job EXCEPT ![i] = e]
      BY <1>1, TakeEffect
    <3> QED
      BY <2>1, <3>1 DEF Begun
<1>3. PICK cl \in Clients, k \in 1 .. MaxExec :
        /\ ReqOf(i) = <<cl, k>> /\ <<cl, k>> \in Requests /\ k <= csent[cl]
        /\ origin[i].conn = CConn(cl) /\ origin[i].serverID = k /\ origin[i].conn # NoConn
  BY <1>2, RequestOf
<1>4. origin' = origin /\ \A x : ReqOf(x)' = ReqOf(x)
  BY DEF DaemonCommand, histVars, ReqOf
<1>5. ASSUME NEW x \in ReqIds, job[x].st # "none", ReqOf(x) = <<cl, k>> PROVE FALSE
  <2>1. origin[x].conn = CConn(cl) /\ origin[x].serverID = k
    <3>1. PICK y \in Clients, n \in 1 .. MaxExec :
            ReqOf(x) = <<y, n>> /\ origin[x].conn = CConn(y) /\ origin[x].serverID = n
      BY <1>5, RequestOf DEF Begun
    <3>2. y = cl /\ n = k
      BY <1>5, <3>1
    <3> QED
      BY <3>1, <3>2
  <2>2. origin[x] = origin[i]
    BY <1>3, <2>1 DEF IInv, TypeOK, HistTypes, Entries
  <2>3. origin[i] # NoEntry
    BY <1>3 DEF NoEntry
  <2>4. x = i
    BY <2>2, <2>3 DEF OriginInv
  <2> QED
    BY <1>2, <1>5, <2>4
<1>6. answer[cl][k] # "refused"
  BY <1>2, <1>3 DEF WaitInv, Never
<1>7. Ran(<<cl, k>>) = {}
  BY <1>5 DEF Ran
<1>8. Ran(<<cl, k>>)' = {<<i, d>>}
  <2>1. \A x \in ReqIds : job'[x].st # "none" /\ ReqOf(x) = <<cl, k>> => x = i
    BY <1>2, <1>5
  <2>2. job'[i].st # "none" /\ ReqOf(i) = <<cl, k>> /\ origin'[i].conn # NoConn
    BY <1>2, <1>3, <1>4
  <2> QED
    BY <1>2, <1>4, <2>1, <2>2 DEF Ran
<1>9. ASSUME NEW r, r # <<cl, k>> PROVE Ran(r)' = Ran(r)
  <2>1. \A x \in ReqIds : ReqOf(x) = r => job'[x] = job[x]
    BY <1>2, <1>3, <1>9
  <2> QED
    BY <1>4, <2>1 DEF Ran
<1>10. Entitled(CConn(cl), d)
  BY <1>2, <1>3
<1> QED
  BY <1>3, <1>6, <1>7, <1>8, <1>9, <1>10

\* The caller sees an action of ExecService, or nothing.
LEMMA ServiceStep == IInv /\ AuthInv /\ ServeInv /\ Next => Service!Next \/ UNCHANGED Service!svars
<1> SUFFICES ASSUME IInv, AuthInv, ServeInv, Next
             PROVE  Service!Next \/ UNCHANGED Service!svars
  OBVIOUS
<1>0. /\ OriginInv /\ OrderInv /\ OnceInv /\ SaysInv /\ SoloInv /\ WaitInv
      /\ csent \in [Clients -> Nat] /\ MaxExec \in Nat
      /\ answer \in [Clients -> [1 .. MaxExec -> {"none", "refused", "output", "confirmed", "lost"}]]
  BY BoundsAssumption DEF ServeInv, IInv, TypeOK, ClientTypes
<1> DEFINE Same == \A r : Ran(r)' = Ran(r)
<1>1. Same => RanView' = RanView
  BY DEF RanView
<1>2. csent' = csent => AskedView' = AskedView
  BY DEF AskedView
<1>3. (\A cl \in Clients : \A k \in 1 .. MaxExec : answer'[cl][k] = answer[cl][k]) => ReplyView' = ReplyView
  BY DEF ReplyView, Requests
<1>3a. (\A cl \in Clients : \A k \in 1 .. MaxExec : answer'[cl][k] = answer[cl][k]) => OutputView' = OutputView
  <2>1. ASSUME \A cl \in Clients : \A k \in 1 .. MaxExec : answer'[cl][k] = answer[cl][k]
        PROVE  OutputView' = OutputView
    <3>1. \A r \in Requests : Heard(r)' = Heard(r)
      <4>1. ASSUME NEW r \in Requests PROVE answer'[r[1]][r[2]] = answer[r[1]][r[2]]
        BY <2>1 DEF Requests
      <4> QED
        BY <4>1, HeardSame
    <3> QED
      BY <3>1 DEF OutputView
  <2> QED
    BY <2>1
<1>4. UNCHANGED <<AskedView, RanView, ReplyView, OutputView>> => UNCHANGED Service!svars
  BY DEF Service!svars, AskedView, RanView, ReplyView, OutputView, Ran, Heard
<1>9. /\ \A r \in Requests : \E x \in Clients, n \in 1 .. MaxExec : r = <<x, n>> /\ r[1] = x /\ r[2] = n
      /\ \A x \in Clients, n \in 1 .. MaxExec :
           /\ <<x, n>> \in Requests /\ (AskedView[<<x, n>>] <=> n <= csent[x])
           /\ RanView[<<x, n>>] = Ran(<<x, n>>) /\ ReplyView[<<x, n>>] = answer[x][n]
  <2>1. \A x \in Clients, n \in 1 .. MaxExec : <<x, n>> \in Requests
    BY DEF Requests
  <2>2. \A r \in Requests : \E x \in Clients, n \in 1 .. MaxExec : r = <<x, n>> /\ r[1] = x /\ r[2] = n
    BY DEF Requests
  <2> QED
    BY <2>1, <2>2 DEF AskedView, RanView, ReplyView
<1>5. CASE \E cl \in Clients, kind \in Kinds : ClientSend(cl, kind)
  <2>1. PICK cl \in Clients, kind \in Kinds : ClientSend(cl, kind)
    BY <1>5
  <2>2. csent' = [csent EXCEPT ![cl] = @ + 1] /\ csent[cl] < MaxExec /\ answer' = answer
    BY <2>1 DEF ClientSend
  <2>3. PICK k \in 1 .. MaxExec : k = csent[cl] + 1
    BY <1>0, <2>2
  <2>4. <<cl, k>> \in Requests /\ ~AskedView[<<cl, k>>]
    <3>1. ~(k <= csent[cl])
      BY <1>0, <2>3
    <3> QED
      BY <1>9, <3>1
  <2>5. AskedView' = [AskedView EXCEPT ![<<cl, k>>] = TRUE]
    <3>1. ASSUME NEW x \in Clients, NEW n \in 1 .. MaxExec
          PROVE  n <= csent'[x] <=> (x = cl /\ n = k) \/ n <= csent[x]
      BY <1>0, <2>2, <2>3
    <3>2. ASSUME NEW x \in Clients, NEW n \in 1 .. MaxExec
          PROVE  AskedView'[<<x, n>>] <=> n <= csent'[x]
      BY <1>9 DEF AskedView
    <3>3. AskedView \in [Requests -> BOOLEAN] /\ AskedView' \in [Requests -> BOOLEAN]
      BY DEF AskedView
    <3>4. ASSUME NEW r \in Requests PROVE AskedView'[r] = [AskedView EXCEPT ![<<cl, k>>] = TRUE][r]
      <4>1. AskedView'[r] <=> r = <<cl, k>> \/ AskedView[r]
        <5>1. PICK x \in Clients, n \in 1 .. MaxExec : r = <<x, n>>
          BY <1>9
        <5>2. AskedView'[r] <=> (x = cl /\ n = k) \/ AskedView[r]
          BY <1>9, <3>1, <3>2, <5>1
        <5> QED
          BY <5>1, <5>2
      <4>2. CASE r = <<cl, k>>
        BY <3>3, <4>1, <4>2
      <4>3. CASE r # <<cl, k>>
        <5>1. AskedView'[r] \in BOOLEAN /\ AskedView[r] \in BOOLEAN
          BY <3>3
        <5>2. AskedView'[r] = AskedView[r]
          BY <4>1, <4>3, <5>1
        <5> QED
          BY <3>3, <4>3, <5>2
      <4> QED
        BY <4>2, <4>3
    <3> QED
      BY <3>3, <3>4
  <2>6. RanView' = RanView
    <3>1. ~\E d \in Daemons : DaemonCommand(d)
      <4>1. csent'[cl] # csent[cl]
        BY <1>0, <2>2
      <4> QED
        BY <4>1 DEF DaemonCommand, clientVars
    <3> QED
      BY <1>0, <1>1, <3>1, RanStays
  <2>7. ReplyView' = ReplyView /\ OutputView' = OutputView
    BY <1>3, <1>3a, <2>2
  <2>8. Service!Ask(<<cl, k>>)
    BY <2>4, <2>5, <2>6, <2>7 DEF Service!Ask, AskedView, RanView, ReplyView, OutputView, Ran, Heard
  <2> QED
    BY <2>4, <2>8 DEF Service!Next
<1>6. CASE \E d \in Daemons : DaemonCommand(d)
  <2>1. PICK d \in Daemons : DaemonCommand(d)
    BY <1>6
  <2>2. PICK cl \in Clients, k \in 1 .. MaxExec, i \in ReqIds :
           /\ <<cl, k>> \in Requests /\ k <= csent[cl] /\ answer[cl][k] # "refused"
           /\ Ran(<<cl, k>>) = {} /\ Ran(<<cl, k>>)' = {<<i, d>>}
           /\ \A r : r # <<cl, k>> => Ran(r)' = Ran(r)
           /\ Entitled(CConn(cl), d)
    BY <1>0, <2>1, RunEffect
  <2>3. csent' = csent /\ answer' = answer
    BY <2>1 DEF DaemonCommand, clientVars
  <2>4. AskedView[<<cl, k>>] /\ RanView[<<cl, k>>] = {} /\ ReplyView[<<cl, k>>] # "refused"
    BY <1>9, <2>2
  <2>5. RanView' = [RanView EXCEPT ![<<cl, k>>] = {<<i, d>>}]
    BY <2>2 DEF RanView
  <2>6. AskedView' = AskedView /\ ReplyView' = ReplyView /\ OutputView' = OutputView
    BY <1>2, <1>3, <1>3a, <2>3
  <2>7. \E w \in MayView[<<cl, k>>] : RanView' = [RanView EXCEPT ![<<cl, k>>] = {w}]
    <3>1. MayView[<<cl, k>>] = ReqIds \X {e \in Daemons : Entitled(CConn(cl), e)}
      BY <2>2 DEF MayView
    <3>2. <<i, d>> \in MayView[<<cl, k>>]
      BY <2>2, <3>1
    <3> QED
      BY <2>5, <3>2
  <2>8. UNCHANGED <<AskedView, ReplyView, OutputView>>
    BY <2>6
  <2>9. Service!Run(<<cl, k>>)
    <3>1. PICK q : q = <<cl, k>>
      OBVIOUS
    <3>2. Service!Run(q) <=>
            /\ AskedView[q] /\ RanView[q] = {} /\ ReplyView[q] # "refused"
            /\ \E w \in MayView[q] : RanView' = [RanView EXCEPT ![q] = {w}]
            /\ UNCHANGED <<AskedView, ReplyView, OutputView>>
      BY DEF Service!Run, AskedView, RanView, ReplyView, OutputView, MayView, Ran, Heard
    <3>3. /\ AskedView[q] /\ RanView[q] = {} /\ ReplyView[q] # "refused"
          /\ \E w \in MayView[q] : RanView' = [RanView EXCEPT ![q] = {w}]
          /\ UNCHANGED <<AskedView, ReplyView, OutputView>>
      BY <2>4, <2>7, <2>8, <3>1
    <3> QED
      BY <3>1, <3>2, <3>3
  <2> QED
    BY <2>2, <2>9 DEF Service!Next
<1>7. CASE /\ ~\E d \in Daemons : DaemonCommand(d)
           /\ \E cl \in Clients : \E k \in 1 .. MaxExec : answer'[cl][k] # answer[cl][k]
  <2>1. PICK cl \in Clients, k \in 1 .. MaxExec : answer'[cl][k] # answer[cl][k]
    BY <1>7
  <2>2. PICK a : a = answer'[cl][k]
    OBVIOUS
  <2>3. /\ k = csent[cl] /\ answer[cl][k] = "none" /\ csent' = csent
        /\ answer' = [answer EXCEPT ![cl][k] = a] /\ UNCHANGED <<origin, job>>
        /\ \/ a = "lost" /\ heard' = heard
           \/ \E m : /\ ClientRecv(cl) /\ m = Head(down[CConn(cl)]) /\ Accepts(cl, m)
                     /\ a = Outcome(m) /\ k = cwait[cl]
                     /\ heard' = [heard EXCEPT ![cl][k] = m.run]
    BY <1>0, <2>1, <2>2, AnswerEffect
  <2>4. <<cl, k>> \in Requests /\ AskedView[<<cl, k>>] /\ ReplyView[<<cl, k>>] = "none"
    BY <1>0, <1>9, <2>3
  <2>5. ReplyView' = [ReplyView EXCEPT ![<<cl, k>>] = a]
    <3>1. ASSUME NEW x \in Clients, NEW n \in 1 .. MaxExec
          PROVE  answer'[x][n] = IF x = cl /\ n = k THEN a ELSE answer[x][n]
      BY <1>0, <2>3
    <3>2. ASSUME NEW r \in Requests
          PROVE  answer'[r[1]][r[2]] = IF r = <<cl, k>> THEN a ELSE answer[r[1]][r[2]]
      BY <1>9, <3>1
    <3> QED
      BY <3>2 DEF ReplyView
  <2>6. AskedView' = AskedView /\ RanView' = RanView
    BY <1>0, <1>1, <1>2, <1>7, <2>3, RanStays
  <2>7. a \in {"output", "confirmed", "refused", "lost"}
    BY <2>3 DEF Outcome
  <2>8. ASSUME a = "output" PROVE RanView[<<cl, k>>] # {}
    <3>1. PICK m : /\ ClientRecv(cl) /\ m = Head(down[CConn(cl)]) /\ Accepts(cl, m)
                   /\ "output" = Outcome(m) /\ k = cwait[cl]
      BY <2>3, <2>8
    <3>2. OutputOf(CConn(cl), m) /\ m.id = k
      BY <1>0, <3>1, AnswerTaken
    <3>3. PICK i \in ReqIds : job[i].st # "none" /\ origin[i].conn = CConn(cl) /\ origin[i].serverID = k
      BY <3>2 DEF OutputOf
    <3>4. ReqOf(i) = <<cl, k>> /\ origin[i].conn # NoConn
      BY <3>3, ClientConns, PeersAssumption DEF ReqOf
    <3>5. <<i, job[i].by>> \in Ran(<<cl, k>>)
      BY <3>3, <3>4 DEF Ran
    <3> QED
      BY <2>4, <3>5 DEF RanView
  <2>9. ASSUME a = "refused" PROVE RanView[<<cl, k>>] = {}
    <3>1. PICK m : /\ ClientRecv(cl) /\ m = Head(down[CConn(cl)]) /\ Accepts(cl, m)
                   /\ "refused" = Outcome(m) /\ k = cwait[cl]
      BY <2>3, <2>9
    <3>2. Never(CConn(cl), k)
      BY <1>0, <3>1, AnswerTaken
    <3>3. Ran(<<cl, k>>) = {}
      BY <1>0, <3>2, RanNothing
    <3> QED
      BY <2>4, <3>3 DEF RanView
  <2>10. OutputView' = [OutputView EXCEPT ![<<cl, k>>] = IF a = "output" THEN RanView[<<cl, k>>] ELSE {}]
    <3>1. ASSUME NEW r \in Requests, r # <<cl, k>> PROVE Heard(r)' = Heard(r)
      <4>1. PICK x \in Clients, n \in 1 .. MaxExec : r = <<x, n>>
        BY <1>9
      <4>2. answer'[r[1]][r[2]] = answer[r[1]][r[2]]
        BY <1>0, <2>3, <3>1, <4>1
      <4> QED
        BY <4>2, HeardSame
    <3>2. Heard(<<cl, k>>)' = IF a = "output" THEN Ran(<<cl, k>>) ELSE {}
      <4>0. 0 \notin ReqIds /\ heard \in [Clients -> [1 .. MaxExec -> Nat]]
        BY DEF ReqIds, IInv, TypeOK, ClientTypes
      <4>1. CASE a = "lost" /\ heard' = heard
        <5>1. heard'[cl][k] = 0
          BY <2>3, <4>1 DEF ServeInv, HeardInv
        <5> QED
          BY <4>0, <4>1, <5>1 DEF Heard
      <4>2. ASSUME NEW m, ClientRecv(cl), m = Head(down[CConn(cl)]), Accepts(cl, m),
                   a = Outcome(m), k = cwait[cl], heard' = [heard EXCEPT ![cl][k] = m.run]
            PROVE  Heard(<<cl, k>>)' = IF a = "output" THEN Ran(<<cl, k>>) ELSE {}
        <5>1. heard'[cl][k] = m.run
          BY <4>0, <4>2
        <5>a. PICK S : S = {<<i, job[i].by>> : i \in {x \in ReqIds : x = m.run}}
          OBVIOUS
        <5>2. Heard(<<cl, k>>)' = S
          BY <2>3, <5>1, <5>a DEF Heard
        <5>3. CASE a = "output"
          <6>1. OutputOf(CConn(cl), m) /\ m.id = k
            BY <1>0, <4>2, <5>3, AnswerTaken
          <6>2. Ran(<<cl, k>>) = S
            BY <1>0, <5>a, <6>1, HeardIsRan
          <6> QED
            BY <5>2, <5>3, <6>2
        <5>4. CASE a # "output"
          <6>1. m.run = 0
            BY <1>0, <4>2, <5>4, AnswerTaken
          <6> QED
            BY <4>0, <5>a, <5>2, <5>4, <6>1
        <5> QED
          BY <5>3, <5>4
      <4> QED
        BY <2>3, <4>1, <4>2
    <3>3. RanView[<<cl, k>>] = Ran(<<cl, k>>)
      BY <1>9
    <3> QED
      BY <3>1, <3>2, <3>3 DEF OutputView
  <2>11. Service!Reply(<<cl, k>>, a)
    BY <2>4, <2>5, <2>6, <2>8, <2>9, <2>10
    DEF Service!Reply, AskedView, RanView, ReplyView, OutputView, Ran, Heard
  <2> QED
    BY <2>4, <2>7, <2>11 DEF Service!Next
<1>8. CASE /\ ~\E cl \in Clients, kind \in Kinds : ClientSend(cl, kind)
           /\ ~\E d \in Daemons : DaemonCommand(d)
           /\ \A cl \in Clients : \A k \in 1 .. MaxExec : answer'[cl][k] = answer[cl][k]
  <2>1. csent' = csent
    BY <1>8, ClientEffect
  <2>2. Same
    BY <1>0, <1>8, RanStays
  <2> QED
    BY <1>1, <1>2, <1>3, <1>3a, <1>4, <1>8, <2>1, <2>2
<1> QED
  BY <1>5, <1>6, <1>7, <1>8

\* A request runs at most once, only on a daemon its client is entitled to;
\* the output a caller is given is that of its own run, and what was refused
\* has not run and never will (handleExecute, handleResult, ClientSession).
THEOREM ServiceImplemented == Spec => ImplementsService
<1> DEFINE Inv == IInv /\ AuthInv /\ ServeInv
<1>1. Init => Inv
  BY InitIInv, InitAuth, InitServe
<1>2. Inv /\ [Next]_vars => Inv'
  BY StepIInv, StepAuth, StepServe
<1>3. Init => Service!Init
  <2> SUFFICES ASSUME Init PROVE Service!Init
    OBVIOUS
  <2>1. \A cl \in Clients : csent[cl] = 0 /\ \A k \in 1 .. MaxExec : answer[cl][k] = "none" /\ heard[cl][k] = 0
    BY DEF Init
  <2>2. \A i \in ReqIds : job[i].st = "none"
    BY DEF Init, NoJob
  <2>3. AskedView = [r \in Requests |-> FALSE]
    <3>1. \A k \in 1 .. MaxExec : (k <= 0) = FALSE
      BY BoundsAssumption
    <3> QED
      BY <2>1, <3>1 DEF AskedView, Requests
  <2>4. RanView = [r \in Requests |-> {}]
    BY <2>2 DEF RanView, Ran
  <2>5. ReplyView = [r \in Requests |-> "none"]
    BY <2>1 DEF ReplyView, Requests
  <2>6. OutputView = [r \in Requests |-> {}]
    <3>1. 0 \notin ReqIds
      BY DEF ReqIds
    <3> QED
      BY <2>1, <3>1 DEF OutputView, Heard, Requests
  <2> QED
    BY <2>3, <2>4, <2>5, <2>6 DEF Service!Init, AskedView, RanView, ReplyView, OutputView, Ran, Heard
<1>4. Inv /\ [Next]_vars => [Service!Next]_(Service!svars)
  <2>1. UNCHANGED vars => UNCHANGED Service!svars
    BY DEF vars, Service!svars, ReqOf
  <2> QED
    BY <2>1, ServiceStep
<1> QED
  BY <1>1, <1>2, <1>3, <1>4, PTL DEF Spec, ImplementsService, Service!Spec

---------------------------------------------------------------------------
(***************************************************************************)
(* StreamFaithful.  What a command prints is numbered: its lines from one  *)
(* on, and what ends it comes after its last line.  The frames of one      *)
(* command are spread over the daemon's connections, the handlers, the     *)
(* client's connection and what the client has shown.  As long as the      *)
(* daemon has not had to dial again they stand there in their order, and   *)
(* in any case each in one place.                                          *)
(***************************************************************************)
Key(m) == IF m.type = "stream_chunk" THEN m.seq ELSE m.seq + 1
Steady(i) == job[i].by \in Daemons /\ dials[job[i].by] <= 1
After(i, a, b) == a # b /\ (Steady(i) => a < b)
InLine(s) == \A a, b \in 1 .. Len(s) :
  a < b /\ s[a].run # 0 /\ s[a].run = s[b].run => After(s[a].run, Key(s[a]), Key(s[b]))

Keys(s, i) == {Key(s[j]) : j \in {n \in 1 .. Len(s) : s[n].run = i}}
Held(c, i) == IF h[c].pc = "deliver" /\ h[c].msg.run = i THEN {Key(h[c].msg)} ELSE {}
Waits(cl, i) == cwait[cl] # 0 /\ origin[i].conn = CConn(cl) /\ origin[i].serverID = cwait[cl]
\* The numbers of the lines a client has shown.
Lineno == [cl \in Clients |-> [j \in 1 .. Len(shown[cl]) |-> shown[cl][j][2]]]
Seen(cl) == {Lineno[cl][j] : j \in 1 .. Len(Lineno[cl])}

(***************************************************************************)
(* A frame of a command says what the command has printed, and comes by a  *)
(* connection of the daemon that runs it.  A client shows what it waits    *)
(* for.                                                                    *)
(***************************************************************************)
Fits(m) ==
  /\ m.type \in Replies /\ m.run \in ReqIds /\ job[m.run].st # "none"
  /\ IF m.type = "stream_chunk" THEN m.seq \in 1 .. job[m.run].out
     ELSE m.seq = job[m.run].out /\ job[m.run].st = "over"
Sent(c, m) ==
  Fits(m) /\ c \in DConns /\ Owner(c) = job[m.run].by /\ c[2] <= dials[Owner(c)]
Shows(cl) == cwait[cl] # 0 /\ Lineno[cl] # <<>> =>
  \E i \in ReqIds : /\ Waits(cl, i) /\ job[i].st # "none"
                    /\ \A j \in 1 .. Len(Lineno[cl]) : Lineno[cl][j] \in 1 .. job[i].out
MarkInv ==
  /\ \A c \in Conns : \A j \in 1 .. Len(up[c]) : up[c][j].run # 0 => Sent(c, up[c][j])
  /\ \A c \in Conns : h[c].pc = "deliver" => Sent(c, h[c].msg)
  /\ \A c \in CConns : \A j \in 1 .. Len(down[c]) :
       IF down[c][j].run # 0 THEN Fits(down[c][j]) ELSE down[c][j].type # "stream_chunk"
  /\ \A i \in ReqIds : job[i].st # "none" => dials[job[i].by] > 0
  /\ \A cl \in Clients : Shows(cl)

\* Each frame is in one place, and the places are in order.
Along(i, A, B) == \A a \in A, b \in B : After(i, a, b)
Coming(c, i) == Held(c, i) \cup Keys(up[c], i)
LineInv ==
  /\ \A c \in Conns : InLine(up[c])
  /\ \A c \in CConns : InLine(down[c])
  /\ \A i \in ReqIds, c \in Conns : Along(i, Held(c, i), Keys(up[c], i))
  /\ \A i \in ReqIds, x, y \in Conns : x # y => Coming(x, i) \cap Coming(y, i) = {}
  /\ \A i \in ReqIds, c \in CConns, x \in Conns : Along(i, Keys(down[c], i), Coming(x, i))
  /\ \A cl \in Clients, i \in ReqIds : Waits(cl, i) =>
       /\ \A a, b \in 1 .. Len(Lineno[cl]) : a < b => After(i, Lineno[cl][a], Lineno[cl][b])
       /\ Along(i, Seen(cl), Keys(down[CConn(cl)], i))
       /\ \A x \in Conns : Along(i, Seen(cl), Coming(x, i))

(***************************************************************************)
(* Nothing is missing before a frame, as far as it can still be passed on: *)
(* before one on the way to the client always, before one in hand unless   *)
(* the client has gone, before one the relay has not read unless it has no *)
(* entry any more, and before the next line unless the daemon's connection *)
(* is lost.                                                                *)
(***************************************************************************)
FirstConn(i) == <<job[i].by, 1>>
Passed(cl, i) == Seen(cl) \cup Keys(down[CConn(cl)], i)
Whole(cl, i) ==
  /\ \A j \in 1 .. Len(Lineno[cl]) : Lineno[cl][j] = j
  /\ \A k \in Keys(down[CConn(cl)], i) : 1 .. k - 1 \subseteq Passed(cl, i)
  /\ Arrives(CConn(cl)) =>
       /\ \A k \in Held(FirstConn(i), i) : 1 .. k - 1 \subseteq Passed(cl, i)
       /\ pending[i] # NoEntry =>
            /\ \A k \in Keys(up[FirstConn(i)], i) :
                 1 .. k - 1 \subseteq Passed(cl, i) \cup Coming(FirstConn(i), i)
            /\ Arrives(FirstConn(i)) =>
                 1 .. job[i].out \subseteq Passed(cl, i) \cup Coming(FirstConn(i), i)
WholeInv ==
  \A cl \in Clients, i \in ReqIds :
    Waits(cl, i) /\ job[i].st # "none" /\ Steady(i) => Whole(cl, i)

Hub == IInv /\ AuthInv /\ ServeInv

---------------------------------------------------------------------------
\* Numbers are numbers.
LEMMA KeyType ==
  ASSUME NEW s \in Seq(Msg), NEW i
  PROVE  Keys(s, i) \subseteq Nat /\ \A m \in Msg : Key(m) \in Nat
<1>1. ASSUME NEW m \in Msg PROVE Key(m) \in Nat
  BY <1>1 DEF Key, Msg
<1>2. \A j \in 1 .. Len(s) : s[j] \in Msg
  OBVIOUS
<1> QED
  BY <1>1, <1>2 DEF Keys

\* The first frame of a queue, and what is left of it.
LEMMA KeysTail ==
  ASSUME NEW s \in Seq(Msg), s # <<>>, InLine(s), NEW i
  PROVE  /\ InLine(Tail(s)) /\ Keys(Tail(s), i) \subseteq Keys(s, i)
         /\ Head(s).run # i => Keys(Tail(s), i) = Keys(s, i)
         /\ Head(s).run = i =>
              /\ Keys(s, i) = {Key(Head(s))} \cup Keys(Tail(s), i)
              /\ i # 0 => Along(i, {Key(Head(s))}, Keys(Tail(s), i))
<1> DEFINE t == Tail(s)
<1>1. /\ \A j \in 1 .. Len(t) : j + 1 \in 1 .. Len(s) /\ t[j] = s[j + 1] /\ 1 < j + 1
      /\ 1 \in 1 .. Len(s) /\ Head(s) = s[1]
      /\ \A j, k \in 1 .. Len(t) : j < k => j + 1 < k + 1
      /\ \A j \in 1 .. Len(s) : j = 1 \/ (j - 1 \in 1 .. Len(t) /\ t[j - 1] = s[j])
  OBVIOUS
<1> HIDE DEF t
<1>2. InLine(t)
  <2> SUFFICES ASSUME NEW a \in 1 .. Len(t), NEW b \in 1 .. Len(t), a < b, t[a].run # 0, t[a].run = t[b].run
               PROVE  After(t[a].run, Key(t[a]), Key(t[b]))
    BY DEF InLine
  <2>1. /\ a + 1 \in 1 .. Len(s) /\ b + 1 \in 1 .. Len(s) /\ a + 1 < b + 1
        /\ t[a] = s[a + 1] /\ t[b] = s[b + 1]
    BY <1>1
  <2> QED
    BY <2>1 DEF InLine
<1>3. Keys(t, i) \subseteq Keys(s, i)
  BY <1>1 DEF Keys
<1>4. \A k \in Keys(s, i) : k \in Keys(t, i) \/ (Head(s).run = i /\ k = Key(Head(s)))
  <2> SUFFICES ASSUME NEW a \in 1 .. Len(s), s[a].run = i
               PROVE  Key(s[a]) \in Keys(t, i) \/ (Head(s).run = i /\ Key(s[a]) = Key(Head(s)))
    BY DEF Keys
  <2>1. CASE a = 1
    BY <1>1, <2>1
  <2>2. CASE a # 1
    <3>1. a - 1 \in 1 .. Len(t) /\ t[a - 1] = s[a]
      BY <1>1, <2>2
    <3> QED
      BY <3>1 DEF Keys
  <2> QED
    BY <2>1, <2>2
<1>5. ASSUME Head(s).run = i PROVE Key(Head(s)) \in Keys(s, i)
  BY <1>1, <1>5 DEF Keys
<1>6. ASSUME Head(s).run = i, i # 0, NEW k \in Keys(t, i) PROVE After(i, Key(Head(s)), k)
  <2>1. PICK j \in 1 .. Len(t) : t[j].run = i /\ k = Key(t[j])
    BY DEF Keys
  <2> QED
    BY <1>1, <1>6, <2>1 DEF InLine
<1> QED
  BY <1>2, <1>3, <1>4, <1>5, <1>6 DEF t, Along

\* A prefix.
LEMMA KeysPrefix ==
  ASSUME NEW s \in Seq(Msg), InLine(s), NEW n \in 0 .. Len(s), NEW t, t = SubSeq(s, 1, n), NEW i
  PROVE  /\ InLine(t) /\ Keys(t, i) \subseteq Keys(s, i)
         /\ i # 0 /\ Steady(i) => \A k \in Keys(t, i), p \in Keys(s, i) : p < k => p \in Keys(t, i)
<1>1. Len(t) = n /\ \A j \in 1 .. n : j \in 1 .. Len(s) /\ t[j] = s[j]
  OBVIOUS
<1>2. InLine(t) /\ Keys(t, i) \subseteq Keys(s, i)
  BY <1>1 DEF InLine, Keys
<1>3. ASSUME i # 0, Steady(i), NEW k \in Keys(t, i), NEW p \in Keys(s, i), p < k PROVE p \in Keys(t, i)
  <2>1. PICK b \in 1 .. n : s[b].run = i /\ k = Key(s[b]) /\ b \in 1 .. Len(s)
    BY <1>1 DEF Keys
  <2>2. PICK a \in 1 .. Len(s) : s[a].run = i /\ p = Key(s[a])
    BY DEF Keys
  <2>3. p \in Nat /\ k \in Nat
    BY <1>2, KeyType
  <2>4. ~(b < a)
    <3>1. ASSUME b < a PROVE FALSE
      <4>1. k < p
        BY <1>3, <2>1, <2>2, <3>1 DEF InLine, After
      <4> QED
        BY <1>3, <2>3, <4>1
    <3> QED
      BY <3>1
  <2>5. a \in 1 .. n
    BY <2>1, <2>4
  <2>6. t[a] = s[a] /\ a \in 1 .. Len(t)
    BY <1>1, <2>5
  <2> QED
    BY <2>2, <2>6 DEF Keys
<1> QED
  BY <1>2, <1>3

\* A frame more.
LEMMA KeysMore ==
  ASSUME NEW s \in Seq(Msg), NEW m \in Msg, NEW i
  PROVE  Keys(Append(s, m), i) = IF m.run = i THEN Keys(s, i) \cup {Key(m)} ELSE Keys(s, i)
<1> DEFINE t == Append(s, m)
           e == Len(s) + 1
<1>1. /\ Len(t) = e /\ t[e] = m /\ e \in Nat /\ e \in 1 .. e
      /\ \A j \in 1 .. e : j = e \/ j \in 1 .. Len(s)
      /\ \A j \in 1 .. Len(s) : t[j] = s[j] /\ j \in 1 .. e
  OBVIOUS
<1> HIDE DEF e, t
<1>2. ASSUME m.run = i PROVE Keys(t, i) = Keys(s, i) \cup {Key(m)}
  BY <1>1, <1>2 DEF Keys
<1>3. ASSUME m.run # i PROVE Keys(t, i) = Keys(s, i)
  BY <1>1, <1>3 DEF Keys
<1> QED
  BY <1>2, <1>3 DEF t

LEMMA LineMore ==
  ASSUME NEW s \in Seq(Msg), InLine(s), NEW m \in Msg,
         m.run # 0 => Along(m.run, Keys(s, m.run), {Key(m)})
  PROVE  InLine(Append(s, m))
<1> DEFINE t == Append(s, m)
           e == Len(s) + 1
<1>1. /\ Len(t) = e /\ t[e] = m /\ e \in Nat /\ e \in 1 .. e
      /\ \A j \in 1 .. e : j = e \/ j \in 1 .. Len(s)
      /\ \A j \in 1 .. Len(s) : t[j] = s[j] /\ j \in 1 .. e /\ j < e
  OBVIOUS
<1> HIDE DEF e, t
<1>2. SUFFICES ASSUME NEW a \in 1 .. e, NEW b \in 1 .. e, a < b, t[a].run # 0, t[a].run = t[b].run
               PROVE  After(t[a].run, Key(t[a]), Key(t[b]))
  BY <1>1 DEF InLine, t
<1>3. a \in 1 .. Len(s) /\ t[a] = s[a]
  BY <1>1, <1>2
<1>4. CASE b = e
  <2>1. Key(s[a]) \in Keys(s, m.run) /\ m.run = s[a].run
    BY <1>1, <1>2, <1>3, <1>4 DEF Keys
  <2> QED
    BY <1>1, <1>2, <1>3, <1>4, <2>1 DEF Along
<1>5. CASE b \in 1 .. Len(s)
  BY <1>1, <1>2, <1>3, <1>5 DEF InLine
<1> QED
  BY <1>1, <1>4, <1>5

\* An execution keeps its daemon, and prints more or ends.
LEMMA JobGrows ==
  ASSUME Hub, Next, NEW i \in ReqIds, job[i].st # "none"
  PROVE  /\ job'[i].st # "none" /\ job'[i].by = job[i].by
         /\ job[i].out \in Nat /\ job'[i].out \in Nat /\ job[i].out <= job'[i].out
         /\ job[i].st = "over" => job'[i].st = "over" /\ job'[i].out = job[i].out
         /\ job'[i].out = job[i].out \/ (EmitChunk(i) /\ job'[i].out = job[i].out + 1)
<1>0. job \in [ReqIds -> Jobs] /\ job[i].out \in Nat
  BY DEF Hub, IInv, TypeOK, DaemonTypes, Jobs
<1> DEFINE Right == /\ job'[i].st # "none" /\ job'[i].by = job[i].by
                    /\ job[i].st = "over" => job'[i].st = "over"
                    /\ job'[i].out = job[i].out
<1>1. ASSUME job' = job PROVE Right
  BY <1>1
<1>2. ASSUME NEW c \in Conns, Handler(c) \/ HandlerBreak(c) PROVE Right
  <2>1. job' = job
    BY <1>2 DEF Handler, RejectRegister, AcceptRegister, Deliver, RejectClient, LookupFails,
                LookupFinds, InsertPending, ForwardSent, ForwardFails, ForwardKill, HandleReply, PendingOf,
                HandlerEOF, HandlerBreak, Unregister, daemonVars
  <2> QED
    BY <1>1, <2>1
<1>3. ASSUME RelayRestart PROVE Right
  BY <1>1, <1>3 DEF RelayRestart, daemonVars
<1>4. ASSUME NEW d \in Daemons, EndJobs(d) PROVE Right
  BY <1>0, <1>4 DEF EndJobs, Running, Jobs
<1>5. ASSUME NEW d \in Daemons,
             \/ DaemonDial(d) \/ DaemonRegister(d) \/ Disconnected(d) \/ DaemonNotice(d)
             \/ SupervisorRestarts(d)
      PROVE  Right
  BY <1>1, <1>5 DEF DaemonDial, DaemonRegister, Disconnected, DaemonNotice, SupervisorRestarts, daemonVars
<1>6. ASSUME NEW d \in Daemons, DaemonCommand(d) PROVE Right
  <2>1. i # Head(down[Live(d)]).id
    BY <1>6, TakeEffect DEF Hub, ServeInv
  <2>2. job'[i] = job[i]
    BY <1>0, <1>6, <2>1 DEF DaemonCommand
  <2> QED
    BY <2>2
<1>7. ASSUME NEW j \in ReqIds, EmitFinal(j) PROVE Right
  BY <1>0, <1>7 DEF EmitFinal, Jobs
<1>8. ASSUME NEW j \in ReqIds, EmitChunk(j), j # i PROVE Right
  BY <1>0, <1>8 DEF EmitChunk
<1>9. ASSUME EmitChunk(i)
      PROVE  job'[i].out = job[i].out + 1 /\ job'[i].st = job[i].st /\ job'[i].by = job[i].by
             /\ job[i].st = "running"
  BY <1>0, <1>9 DEF EmitChunk, Jobs
<1>10. ASSUME NEW cl \in Clients, ClientStep(cl) PROVE Right
  BY <1>1, <1>10 DEF ClientStep, ClientSend, ClientRecv, ClientTimeout, ClientClose, daemonVars
<1>11. Right \/ EmitChunk(i)
  BY <1>2, <1>3, <1>4, <1>5, <1>6, <1>7, <1>8, <1>10
  DEF Next, DaemonStep, DaemonEOF, DaemonBreak, DaemonExit, SupervisorRestarts, DaemonCrash
<1> QED
  BY <1>0, <1>9, <1>11

\* A daemon dials more and more.
LEMMA DialsGrow ==
  ASSUME Hub, Next, NEW d \in Daemons
  PROVE  dials[d] \in Nat /\ dials'[d] \in Nat /\ dials[d] <= dials'[d]
<1>1. dials \in [Daemons -> 0 .. MaxDials] /\ MaxDials \in Nat
  BY BoundsAssumption DEF Hub, IInv, TypeOK, DaemonTypes
<1>2. ASSUME NEW e \in Daemons, DaemonDial(e) PROVE dials' = [dials EXCEPT ![e] = @ + 1]
  BY <1>2 DEF DaemonDial
<1> QED
  BY <1>1, <1>2, DialsStay

\* Order once established stays.
LEMMA AfterStays ==
  ASSUME Hub, Next, NEW i \in ReqIds, job[i].st # "none"
  PROVE  /\ Steady(i)' => Steady(i)
         /\ FirstConn(i)' = FirstConn(i)
         /\ \A a, b : After(i, a, b) => After(i, a, b)'
<1>1. Steady(i)' => Steady(i)
  <2>1. ASSUME Steady(i)' PROVE Steady(i)
    <3>1. PICK d : d = job[i].by
      OBVIOUS
    <3>2. d \in Daemons /\ dials'[d] <= 1
      BY <2>1, <3>1, JobGrows DEF Steady
    <3>3. dials[d] <= 1
      BY <3>2, DialsGrow
    <3> QED
      BY <3>1, <3>2, <3>3 DEF Steady
  <2> QED
    BY <2>1
<1>2. FirstConn(i)' = FirstConn(i)
  BY JobGrows DEF FirstConn
<1> QED
  BY <1>1, <1>2 DEF After

\* What fits goes on to fit.
LEMMA FitsStays ==
  ASSUME Hub, Next, NEW m, Fits(m)
  PROVE  /\ Fits(m)' /\ \A c : Sent(c, m) => Sent(c, m)'
<1>1. Fits(m)'
  <2>1. PICK i : i = m.run
    OBVIOUS
  <2>2. i \in ReqIds /\ job[i].st # "none"
    BY <2>1 DEF Fits
  <2>3. \A n \in 1 .. job[i].out : n \in 1 .. job'[i].out
    BY <2>2, JobGrows
  <2> QED
    BY <2>1, <2>2, <2>3, JobGrows DEF Fits
<1>2. ASSUME NEW c, Sent(c, m) PROVE Sent(c, m)'
  <2>1. PICK i, d : i = m.run /\ d = Owner(c)
    OBVIOUS
  <2>2. /\ i \in ReqIds /\ job[i].st # "none" /\ d = job[i].by /\ c \in DConns /\ d \in Daemons
        /\ c[2] <= dials[d] /\ c[2] \in Nat
    BY <1>2, <2>1, BoundsAssumption DEF Sent, Fits, DConns, Owner
  <2>3. d = job'[i].by /\ c[2] <= dials'[d]
    BY <2>2, JobGrows, DialsGrow
  <2> QED
    BY <1>1, <2>1, <2>2, <2>3 DEF Sent, Owner
<1> QED
  BY <1>1, <1>2

---------------------------------------------------------------------------
\* A client waits for one command.
LEMMA WaitsOne ==
  ASSUME Hub, NEW cl, NEW i \in ReqIds, NEW j \in ReqIds, Waits(cl, i), Waits(cl, j)
  PROVE  i = j
<1>1. origin[i] \in Entries /\ origin[j] \in Entries
  BY DEF Hub, IInv, TypeOK, HistTypes
<1>2. origin[i].conn = origin[j].conn /\ origin[i].serverID = origin[j].serverID /\ cwait[cl] # 0
  BY DEF Waits
<1>3. origin[i] = origin[j]
  BY <1>1, <1>2 DEF Entries
<1>4. origin[i] # NoEntry
  BY <1>2 DEF NoEntry, Waits
<1> QED
  BY <1>3, <1>4 DEF Hub, ServeInv, OriginInv

\* What a step does to what a client has shown.
LEMMA LinesEffect ==
  ASSUME Hub, Next, NEW cl \in Clients
  PROVE  \/ shown'[cl] = shown[cl] /\ cwait'[cl] \in {0, cwait[cl]}
         \/ (\E kind \in Kinds : ClientSend(cl, kind)) /\ shown'[cl] = <<>>
         \/ /\ ClientRecv(cl) /\ Accepts(cl, Head(down[CConn(cl)]))
            /\ Head(down[CConn(cl)]).type = "stream_chunk"
            /\ shown'[cl] = Append(shown[cl], <<Head(down[CConn(cl)]).run, Head(down[CConn(cl)]).seq>>)
            /\ cwait'[cl] = cwait[cl]
<1>0. DOMAIN shown = Clients /\ DOMAIN cwait = Clients
  BY DEF Hub, IInv, TypeOK, ClientTypes
<1>1. ASSUME NEW c \in Conns, Handler(c) \/ HandlerBreak(c) PROVE UNCHANGED <<shown, cwait>>
  BY <1>1 DEF Handler, RejectRegister, AcceptRegister, Deliver, RejectClient, LookupFails,
              LookupFinds, InsertPending, ForwardSent, ForwardFails, ForwardKill, HandleReply, PendingOf,
              HandlerEOF, HandlerBreak, Unregister, clientVars
<1>2. ASSUME RelayRestart PROVE UNCHANGED <<shown, cwait>>
  BY <1>2 DEF RelayRestart, clientVars
<1>3. ASSUME NEW d \in Daemons, DaemonStep(d) \/ DaemonBreak(d) \/ DaemonCrash(d)
      PROVE  UNCHANGED <<shown, cwait>>
  BY <1>3 DEF DaemonStep, DaemonDial, DaemonRegister, DaemonEOF, DaemonBreak, Disconnected,
              DaemonCommand, DaemonNotice, DaemonExit, SupervisorRestarts, DaemonCrash, clientVars
<1>4. ASSUME NEW i \in ReqIds, EmitChunk(i) \/ EmitFinal(i) PROVE UNCHANGED <<shown, cwait>>
  BY <1>4 DEF EmitChunk, EmitFinal, clientVars
<1>5. ASSUME NEW x \in Clients, ClientTimeout(x) \/ ClientClose(x)
      PROVE  shown' = shown /\ cwait'[cl] \in {0, cwait[cl]}
  BY <1>0, <1>5 DEF ClientTimeout, ClientClose, GiveUp
<1>6. ASSUME NEW x \in Clients, NEW kind \in Kinds, ClientSend(x, kind)
      PROVE  IF x = cl THEN shown'[cl] = <<>> ELSE shown'[cl] = shown[cl] /\ cwait'[cl] = cwait[cl]
  BY <1>0, <1>6 DEF ClientSend
<1>7. ASSUME NEW x \in Clients, x # cl, ClientRecv(x)
      PROVE  shown'[cl] = shown[cl] /\ cwait'[cl] = cwait[cl]
  BY <1>0, <1>7 DEF ClientRecv
<1>8. ASSUME ClientRecv(cl)
      PROVE  \/ shown'[cl] = shown[cl] /\ cwait'[cl] \in {0, cwait[cl]}
             \/ /\ Accepts(cl, Head(down[CConn(cl)]))
                /\ Head(down[CConn(cl)]).type = "stream_chunk"
                /\ shown'[cl] = Append(shown[cl], <<Head(down[CConn(cl)]).run, Head(down[CConn(cl)]).seq>>)
                /\ cwait'[cl] = cwait[cl]
  BY <1>0, <1>8 DEF ClientRecv, ReturnsOn
<1> QED
  BY <1>1, <1>2, <1>3, <1>4, <1>5, <1>6, <1>7, <1>8 DEF Next, ClientStep

\* ... as far as the numbers of the lines go.
LEMMA LinenoType ==
  ASSUME ClientTypes, NEW cl \in Clients
  PROVE  /\ Lineno[cl] \in Seq(Nat) /\ Len(Lineno[cl]) = Len(shown[cl]) /\ Len(shown[cl]) \in Nat
         /\ \A n \in 1 .. Len(shown[cl]) : shown[cl][n] \in Lines /\ Lineno[cl][n] = shown[cl][n][2]
         /\ Lineno[cl] = [n \in 1 .. Len(shown[cl]) |-> shown[cl][n][2]]
<1>1. shown[cl] \in Seq(Lines)
  BY DEF ClientTypes
<1>2. PICK z \in Nat : z = Len(shown[cl])
  BY <1>1
<1>3. \A n \in 1 .. z : shown[cl][n] \in Lines
  BY <1>1, <1>2
<1>4. \A n \in 1 .. z : shown[cl][n][2] \in Nat
  BY <1>3 DEF Lines
<1>5. Lineno[cl] = [n \in 1 .. z |-> shown[cl][n][2]]
  BY <1>2 DEF Lineno
<1>6. Lineno[cl] \in Seq(Nat) /\ Len(Lineno[cl]) = z
  BY <1>2, <1>4, <1>5
<1> QED
  BY <1>2, <1>3, <1>5, <1>6

LEMMA NatsSeq ==
  ASSUME NEW n \in Nat, NEW f \in [1 .. n -> Nat]
  PROVE  f \in Seq(Nat) /\ Len(f) = n /\ (n = 0 => f = <<>>)
<1>1. f \in Seq(Nat) /\ Len(f) = n
  OBVIOUS
<1> QED
  BY <1>1

LEMMA LinenoMore ==
  ASSUME NEW s \in Seq(Lines), NEW p \in Lines, NEW t, t = Append(s, p)
  PROVE  [n \in 1 .. Len(t) |-> t[n][2]] = Append([n \in 1 .. Len(s) |-> s[n][2]], p[2])
<1>1. PICK z \in Nat : z = Len(s)
  OBVIOUS
<1>2. Len(t) = z + 1 /\ t[z + 1] = p /\ \A n \in 1 .. z : t[n] = s[n]
  BY <1>1
<1>3. \A n \in 1 .. z : s[n] \in Lines
  BY <1>1
<1>4. (\A n \in 1 .. z : s[n][2] \in Nat) /\ p[2] \in Nat
  BY <1>3 DEF Lines
<1> DEFINE q == [n \in 1 .. z |-> s[n][2]]
<1>5. q \in Seq(Nat) /\ Len(q) = z /\ \A n \in 1 .. z : q[n] = s[n][2]
  BY <1>4
<1> HIDE DEF q
<1>6. /\ Append(q, p[2]) \in Seq(Nat) /\ Len(Append(q, p[2])) = z + 1 /\ Append(q, p[2])[z + 1] = p[2]
      /\ \A n \in 1 .. z : Append(q, p[2])[n] = q[n]
  BY <1>4, <1>5
<1> DEFINE r == [n \in 1 .. z + 1 |-> t[n][2]]
<1>7. ASSUME NEW n \in 1 .. z + 1 PROVE r[n] = Append(q, p[2])[n]
  <2>1. n \in 1 .. z \/ n = z + 1
    OBVIOUS
  <2>2. r[n] = t[n][2]
    OBVIOUS
  <2> HIDE DEF r
  <2> QED
    BY <1>2, <1>5, <1>6, <2>1, <2>2
<1>8. r \in [1 .. z + 1 -> Nat]
  <2>1. \A n \in 1 .. z + 1 : t[n][2] \in Nat
    <3>1. \A n \in 1 .. z + 1 : n \in 1 .. z \/ n = z + 1
      OBVIOUS
    <3> QED
      BY <1>2, <1>4, <3>1
  <2> QED
    BY <2>1
<1> HIDE DEF r
<1>9. r \in Seq(Nat) /\ Len(r) = z + 1
  BY <1>8, NatsSeq
<1>10. r = Append(q, p[2])
  <2>1. PICK v : v = Append(q, p[2])
    OBVIOUS
  <2>2. v \in Seq(Nat) /\ Len(v) = z + 1 /\ \A n \in 1 .. z + 1 : r[n] = v[n]
    BY <1>6, <1>7, <2>1
  <2>3. r = v
    BY <1>9, <2>2
  <2> QED
    BY <2>1, <2>3
<1>11. [n \in 1 .. Len(t) |-> t[n][2]] = r
  BY <1>2 DEF r
<1>12. [n \in 1 .. Len(s) |-> s[n][2]] = q
  BY <1>1 DEF q
<1> QED
  BY <1>10, <1>11, <1>12

LEMMA LinenoAppend ==
  ASSUME Hub, NEW cl \in Clients, NEW m \in Msg, shown'[cl] = Append(shown[cl], <<m.run, m.seq>>)
  PROVE  Lineno'[cl] = Append(Lineno[cl], m.seq)
<1>1. shown[cl] \in Seq(Lines)
  BY DEF Hub, IInv, TypeOK, ClientTypes
<1>2. PICK p \in Lines : p = <<m.run, m.seq>> /\ p[2] = m.seq
  <2>1. m.run \in Nat /\ m.seq \in Nat
    BY DEF Msg
  <2>2. <<m.run, m.seq>> \in Lines /\ <<m.run, m.seq>>[2] = m.seq
    BY <2>1 DEF Lines
  <2> QED
    BY <2>2
<1>3. PICK t : t = shown'[cl]
  OBVIOUS
<1>4. /\ Lineno'[cl] = [n \in 1 .. Len(t) |-> t[n][2]]
      /\ Lineno[cl] = [n \in 1 .. Len(shown[cl]) |-> shown[cl][n][2]]
  BY <1>3 DEF Lineno
<1> QED
  BY <1>1, <1>2, <1>3, <1>4, LinenoMore

LEMMA ShownEffect ==
  ASSUME Hub, Next, NEW cl \in Clients
  PROVE  \/ Lineno'[cl] = Lineno[cl] /\ cwait'[cl] \in {0, cwait[cl]}
         \/ (\E kind \in Kinds : ClientSend(cl, kind)) /\ Lineno'[cl] = <<>>
         \/ /\ ClientRecv(cl) /\ Accepts(cl, Head(down[CConn(cl)]))
            /\ Head(down[CConn(cl)]).type = "stream_chunk"
            /\ Lineno'[cl] = Append(Lineno[cl], Head(down[CConn(cl)]).seq)
            /\ cwait'[cl] = cwait[cl]
<1>1. CASE shown'[cl] = shown[cl]
  BY <1>1, LinesEffect DEF Lineno
<1>2. ASSUME (\E kind \in Kinds : ClientSend(cl, kind)), shown'[cl] = <<>>
      PROVE  Lineno'[cl] = <<>>
  <2>1. PICK t : t = shown'[cl]
    OBVIOUS
  <2>2. Len(t) = 0
    BY <1>2, <2>1
  <2>3. Lineno'[cl] = [n \in 1 .. Len(t) |-> t[n][2]]
    BY <2>1 DEF Lineno
  <2>4. [n \in 1 .. Len(t) |-> t[n][2]] \in [1 .. 0 -> Nat]
    BY <2>2
  <2>5. [n \in 1 .. Len(t) |-> t[n][2]] = <<>>
    BY <2>4, NatsSeq
  <2> QED
    BY <2>3, <2>5
<1>3. ASSUME NEW m, m = Head(down[CConn(cl)]), ClientRecv(cl), m.type = "stream_chunk",
             shown'[cl] = Append(shown[cl], <<m.run, m.seq>>)
      PROVE  Lineno'[cl] = Append(Lineno[cl], m.seq)
  <2>1. CConn(cl) \in Conns
    BY ClientConns
  <2>2. down[CConn(cl)] \in Seq(Msg) /\ down[CConn(cl)] # <<>>
    <3>1. down \in [Conns -> Seq(Msg)]
      BY DEF Hub, IInv, TypeOK, SockTypes
    <3> QED
      BY <1>3, <2>1, <3>1 DEF ClientRecv
  <2>3. m \in Msg
    BY <1>3, <2>2
  <2> QED
    BY <1>3, <2>3, LinenoAppend
<1> QED
  BY <1>1, <1>2, <1>3, LinesEffect

AllNumbered == \A cl \in Clients : Lineno[cl] \in Seq(Nat)
LEMMA LinesNumbered == Hub => AllNumbered
  BY LinenoType DEF Hub, IInv, TypeOK, AllNumbered

\* A client that waits for a command has waited for it already.
LEMMA WaitsBefore ==
  ASSUME Hub, Next, NEW cl \in Clients, NEW i \in ReqIds, i < nextId, Waits(cl, i)'
  PROVE  /\ Waits(cl, i) /\ cwait'[cl] = cwait[cl]
         /\ ~\E kind \in Kinds : ClientSend(cl, kind)
<1>1. origin'[i] = origin[i]
  BY OriginStays DEF Hub, ServeInv
<1>2. origin[i].conn = CConn(cl) /\ origin[i].serverID = cwait'[cl] /\ cwait'[cl] # 0
  BY <1>1 DEF Waits
<1>3. origin[i].serverID \in 1 .. csent[cl]
  BY <1>2, ClientConns DEF Hub, ServeInv, OrderInv, InOrder, Drawn
<1>4. ASSUME NEW kind \in Kinds, ClientSend(cl, kind) PROVE FALSE
  <2>1. csent[cl] \in Nat /\ cwait \in [Clients -> Nat]
    BY DEF Hub, IInv, TypeOK, ClientTypes
  <2>2. cwait'[cl] = csent[cl] + 1
    BY <1>4, <2>1 DEF ClientSend
  <2> QED
    BY <1>2, <1>3, <2>1, <2>2
<1>5. cwait'[cl] = cwait[cl]
  BY <1>2, <1>4, ShownEffect
<1> QED
  BY <1>2, <1>4, <1>5 DEF Waits

\* Output that a client receives is of the command it waits for if and only
\* if it accepts it.
LEMMA OutputTaken ==
  ASSUME Hub, NEW cl \in Clients, NEW m, m = Head(down[CConn(cl)]), down[CConn(cl)] # <<>>, m.run # 0
  PROVE  /\ m.run \in ReqIds
         /\ Accepts(cl, m) => Waits(cl, m.run)
         /\ Waits(cl, m.run) => Accepts(cl, m)
<1> DEFINE c == CConn(cl)
<1>1. c \in CConns /\ c \in Conns /\ Owner(c) = cl
  BY ClientConns
<1>2. m = down[c][1] /\ 1 \in 1 .. Len(down[c])
  BY <1>1 DEF Hub, IInv, TypeOK, SockTypes
<1>3. Says(c, m)
  BY <1>1, <1>2 DEF Hub, ServeInv, SaysInv
<1>4. /\ m.run \in ReqIds /\ origin[m.run].conn = c /\ origin[m.run].serverID = m.id
      /\ m.type \notin {"error", "disconnect_confirmed"}
  BY <1>3 DEF Says, OutputOf
<1>5. ckind[cl] # "disconnect"
  <2>1. Drawn(c) # {}
    BY <1>4 DEF Drawn
  <2> QED
    BY <1>1, <2>1 DEF Hub, ServeInv, SoloInv, Solo
<1> QED
  BY <1>4, <1>5 DEF Accepts, Waits

---------------------------------------------------------------------------
\* The frames on their way from the daemons.
LEMMA MarkUp ==
  ASSUME Hub, MarkInv, Next, NEW c \in Conns, NEW j \in 1 .. Len(up'[c]), up'[c][j].run # 0
  PROVE  Sent(c, up[c][j])'
<1>0. up[c] \in Seq(Msg) /\ up \in [Conns -> Seq(Msg)] /\ peerEnd \in [Conns -> BOOLEAN]
  BY DEF Hub, IInv, TypeOK, SockTypes
<1>1. ASSUME NEW m, up'[c][j] = m, Sent(c, m)' PROVE Sent(c, up[c][j])'
  BY <1>1 DEF Sent, Fits
<1>2. ASSUME NEW k \in 1 .. Len(up[c]), up'[c][j] = up[c][k] PROVE Sent(c, up[c][j])'
  <2>1. PICK m : m = up[c][k]
    OBVIOUS
  <2>2. Sent(c, m)
    BY <1>2, <2>1 DEF MarkInv
  <2>3. Sent(c, m)'
    BY <2>2, FitsStays DEF Sent
  <2> QED
    BY <1>1, <1>2, <2>1, <2>3
<1>3. CASE Shrinks(up[c], up'[c])
  BY <1>0, <1>2, <1>3, ShrinksElement
<1>4. ASSUME NEW m \in Msg, up'[c] = Append(up[c], m)
      PROVE  up'[c][j] = m \/ \E k \in 1 .. Len(up[c]) : up'[c][j] = up[c][k]
  BY <1>0, <1>4, AppendElement
<1>5. CASE up'[c] = Append(up[c], Frame("register", 0, 0, 0))
  <2>1. Frame("register", 0, 0, 0) \in Msg
    BY FrameType DEF MsgTypes
  <2> QED
    BY <1>2, <1>4, <1>5, <2>1 DEF Frame
<1>6. ASSUME NEW cl \in Clients, NEW kind \in Kinds, ClientSend(cl, kind), c = CConn(cl)
      PROVE  Sent(c, up[c][j])'
  <2>1. PICK n \in Nat : n = IF kind = "disconnect" THEN 0 ELSE csent[cl] + 1
    BY DEF Hub, IInv, TypeOK, ClientTypes
  <2>2. PICK m : m = Frame(kind, n, 0, 0)
    OBVIOUS
  <2>3. m \in Msg /\ m.run = 0
    <3>1. kind \in MsgTypes
      BY ConfigAssumption DEF MsgTypes
    <3> QED
      BY <2>2, <3>1, FrameType DEF Frame
  <2>4. up'[c] = up[c] \/ up'[c] = <<m>> \/ up'[c] = Append(up[c], m)
    BY <1>0, <1>6, <2>1, <2>2 DEF ClientSend
  <2>5. CASE up'[c] = <<m>>
    BY <2>3, <2>5
  <2> QED
    BY <1>2, <1>4, <2>3, <2>4, <2>5
<1>7. ASSUME NEW i \in ReqIds, NEW m, job[i].st = "running", up' = UpWith(job[i].by, m),
             up'[c] # up[c], m.run = i, Fits(m)'
      PROVE  Sent(c, m)'
  <2>1. PICK d : d = job[i].by /\ d = job'[i].by /\ d \in Daemons
    BY <1>7, JobGrows DEF Hub, ServeInv, OriginInv
  <2>2. c = Live(d) /\ dials[d] > 0
    BY <1>0, <1>7, <2>1 DEF UpWith
  <2>3. c \in DConns /\ Owner(c) = d /\ c[2] = dials[d] /\ dials[d] <= dials'[d]
    <3>1. dials[d] \in 1 .. MaxDials
      BY <2>1, <2>2 DEF Hub, IInv, TypeOK, DaemonTypes
    <3> QED
      BY <2>1, <2>2, <3>1, DialsGrow DEF Live, DConns, Owner
  <2> QED
    BY <1>7, <2>1, <2>3 DEF Sent
<1>8. ASSUME NEW i \in ReqIds, EmitChunk(i), up'[c] = Append(up[c], Frame("stream_chunk", i, i, job[i].out + 1))
      PROVE  Sent(c, up[c][j])'
  <2>1. PICK m : m = Frame("stream_chunk", i, i, job[i].out + 1)
    OBVIOUS
  <2>2. /\ job[i].out + 1 \in Nat /\ i \in Nat /\ m \in Msg /\ m.type = "stream_chunk" /\ m.run = i
        /\ m.seq = job[i].out + 1
    <3>1. job[i].out + 1 \in Nat /\ i \in Nat /\ "stream_chunk" \in MsgTypes
      BY DEF Hub, IInv, TypeOK, DaemonTypes, Jobs, ReqIds, MsgTypes
    <3> QED
      BY <2>1, <3>1, FrameType DEF Frame
  <2>3. /\ job[i].st = "running" /\ up' = UpWith(job[i].by, m) /\ job'[i].st = "running"
        /\ job'[i].out = job[i].out + 1
    BY <1>8, <2>1 DEF EmitChunk, Hub, IInv, TypeOK, DaemonTypes, Jobs
  <2>4. Fits(m)'
    <3>1. m.seq \in 1 .. job'[i].out
      <4>1. job[i].out \in Nat
        BY DEF Hub, IInv, TypeOK, DaemonTypes, Jobs
      <4> QED
        BY <2>2, <2>3, <4>1
    <3>2. job'[i].st # "none"
      BY <2>3
    <3> QED
      BY <2>2, <3>1, <3>2 DEF Fits, Replies
  <2>5. up'[c] # up[c]
    BY <1>0, <1>8
  <2>6. Sent(c, m)'
    BY <1>7, <2>2, <2>3, <2>4, <2>5
  <2> QED
    BY <1>1, <1>2, <1>4, <1>8, <2>1, <2>2, <2>6
<1>9. ASSUME NEW i \in ReqIds, EmitFinal(i), up'[c] = Append(up[c], FinalFrame(i))
      PROVE  Sent(c, up[c][j])'
  <2>1. PICK m : m = FinalFrame(i)
    OBVIOUS
  <2>2. /\ m \in Msg /\ m.type \in {"stream_end", "result"} /\ m.run = i /\ m.seq = job[i].out
    <3>1. job[i].out \in Nat /\ i \in Nat /\ {"stream_end", "result"} \subseteq MsgTypes
      BY DEF Hub, IInv, TypeOK, DaemonTypes, Jobs, ReqIds, MsgTypes
    <3> QED
      BY <2>1, <3>1, FrameType DEF Frame, FinalFrame
  <2>3. /\ job[i].st = "running" /\ up' = UpWith(job[i].by, m) /\ job'[i].st = "over"
        /\ job'[i].out = job[i].out
    BY <1>9, <2>1 DEF EmitFinal, Hub, IInv, TypeOK, DaemonTypes, Jobs
  <2>4. Fits(m)'
    BY <2>2, <2>3 DEF Fits, Replies
  <2>5. up'[c] # up[c]
    BY <1>0, <1>9
  <2>6. Sent(c, m)'
    BY <1>7, <2>2, <2>3, <2>4, <2>5
  <2> QED
    BY <1>1, <1>2, <1>4, <1>9, <2>1, <2>2, <2>6
<1> QED
  BY <1>3, <1>5, <1>6, <1>8, <1>9, UpEffect DEF Hub, ServeInv

\* What a handler reads from its queue.
LEMMA ReplyRead ==
  ASSUME Hub, MarkInv, NEW c \in Conns, HandleReply(c), NEW m, m = Head(up[c])
  PROVE  /\ up[c] # <<>> /\ up[c] \in Seq(Msg) /\ m \in Msg /\ Sent(c, m) /\ m.id = m.run
         /\ m.run \in ReqIds /\ m.run # 0 /\ h[c].pc = "read"
         /\ up' = [up EXCEPT ![c] = Tail(@)]
         /\ \/ h' = h /\ pending' = pending /\ pending[m.run] = NoEntry
            \/ /\ pending[m.run] # NoEntry
               /\ pending' = IF m.type = "stream_chunk" THEN pending
                             ELSE [pending EXCEPT ![m.run] = NoEntry]
               /\ \E r \in Msg : /\ h' = [h EXCEPT ![c] = [pc |-> "deliver", tgt |-> pending[m.run].conn,
                                                          msg |-> r, id |-> 0]]
                                 /\ r.type = m.type /\ r.run = m.run /\ r.seq = m.seq
<1>1. /\ up[c] # <<>> /\ up[c] \in Seq(Msg) /\ up[c][1] = m /\ 1 \in 1 .. Len(up[c]) /\ m \in Msg
      /\ h[c].pc = "read" /\ up' = [up EXCEPT ![c] = Tail(@)] /\ m.type \in Replies
  BY DEF HandleReply, PendingOf, Incoming, Consume, Hub, IInv, TypeOK, SockTypes, Replies
<1>2. m.id = m.run /\ m.run \in ReqIds /\ m.run # 0
  BY <1>1 DEF Hub, ServeInv, ReplyInv, ReqIds
<1>3. Sent(c, m)
  BY <1>1, <1>2 DEF MarkInv
<1>4. CASE pending[m.run] = NoEntry
  BY <1>1, <1>2, <1>3, <1>4 DEF HandleReply, PendingOf
<1>5. CASE pending[m.run] # NoEntry
  <2>1. PICK r : r = Translated(m, pending[m.run])
    OBVIOUS
  <2>2. r \in Msg /\ r.type = m.type /\ r.run = m.run /\ r.seq = m.seq
    <3>1. pending[m.run].serverID \in Nat
      BY <1>2 DEF Hub, IInv, TypeOK, RelayTypes, Entries
    <3> QED
      BY <1>1, <2>1, <3>1 DEF Translated, Msg
  <2>3. /\ h' = [h EXCEPT ![c] = [pc |-> "deliver", tgt |-> pending[m.run].conn, msg |-> r, id |-> 0]]
        /\ pending' = IF m.type = "stream_chunk" THEN pending ELSE [pending EXCEPT ![m.run] = NoEntry]
    BY <1>2, <1>5, <2>1 DEF HandleReply, PendingOf, Goto, EndsRequest
  <2> QED
    BY <1>1, <1>2, <1>3, <1>5, <2>2, <2>3
<1> QED
  BY <1>4, <1>5

\* The frames in hand.
LEMMA MarkHeld ==
  ASSUME Hub, MarkInv, Next, NEW c \in Conns, h'[c].pc = "deliver"
  PROVE  Sent(c, h[c].msg)'
<1>0. h \in [Conns -> Locals]
  BY DEF Hub, IInv, TypeOK, RelayTypes
<1>1. ASSUME NEW m, Sent(c, m), h'[c].msg.type = m.type, h'[c].msg.run = m.run, h'[c].msg.seq = m.seq
      PROVE  Sent(c, h[c].msg)'
  <2>1. Sent(c, m)'
    BY <1>1, FitsStays DEF Sent
  <2> QED
    BY <1>1, <2>1 DEF Sent, Fits
<1>2. CASE h'[c] = h[c]
  <2>1. PICK m : m = h[c].msg
    OBVIOUS
  <2>2. Sent(c, m)
    BY <1>2, <2>1 DEF MarkInv
  <2> QED
    BY <1>1, <1>2, <2>1, <2>2
<1>3. h'[c] # Idle
  BY DEF Idle
<1>4. ~LookupFinds(c) /\ ~InsertPending(c) /\ ~AcceptRegister(c)
  <2>1. LookupFinds(c) => h'[c].pc \in {"kill", "insert"}
    BY <1>0 DEF LookupFinds, Goto
  <2>2. InsertPending(c) => h'[c].pc = "forward"
    BY <1>0 DEF InsertPending, Locals
  <2>3. AcceptRegister(c) => h'[c].pc = "ack"
    BY <1>0 DEF AcceptRegister, Goto
  <2> QED
    BY <2>1, <2>2, <2>3
<1>5. CASE HandleReply(c)
  <2>1. PICK m : m = Head(up[c])
    OBVIOUS
  <2>2. Sent(c, m) /\ h[c].pc = "read"
        /\ (h' = h \/ \E r \in Msg : /\ h'[c].msg = r
                                     /\ r.type = m.type /\ r.run = m.run /\ r.seq = m.seq)
    BY <1>0, <1>5, <2>1, ReplyRead
  <2> QED
    BY <1>1, <2>2
<1> QED
  BY <1>2, <1>3, <1>4, <1>5, HandEffect DEF Hub

\* The frames on their way to a client.
LEMMA MarkDown ==
  ASSUME Hub, MarkInv, Next, NEW c \in CConns, NEW j \in 1 .. Len(down'[c])
  PROVE  (IF down[c][j].run # 0 THEN Fits(down[c][j]) ELSE down[c][j].type # "stream_chunk")'
<1> DEFINE Good(m) == IF m.run # 0 THEN Fits(m) ELSE m.type # "stream_chunk"
<1>0. c \in Conns /\ down[c] \in Seq(Msg) /\ c \notin DConns
  BY ClientConns DEF Hub, IInv, TypeOK, SockTypes
<1>1. ASSUME NEW m, down'[c][j] = m, Good(m) PROVE Good(down[c][j])'
  <2>1. Good(m)'
    BY <1>1, FitsStays
  <2> QED
    BY <1>1, <2>1 DEF Fits
<1>2. ASSUME NEW k \in 1 .. Len(down[c]), down'[c][j] = down[c][k] PROVE Good(down[c][j])'
  <2>1. PICK m : m = down[c][k]
    OBVIOUS
  <2>2. Good(m)
    BY <2>1 DEF MarkInv
  <2> QED
    BY <1>1, <1>2, <2>1, <2>2
<1>3. CASE Shrinks(down[c], down'[c])
  BY <1>0, <1>2, <1>3, ShrinksElement
<1>4. ASSUME NEW m \in Msg, Gets(c, m) PROVE Good(m)
  <2>1. ASSUME NEW x \in Conns, Deliver(x), m = h[x].msg PROVE Good(m)
    <3>1. h[x].pc = "ack" => m.run = 0 /\ m.type # "stream_chunk"
      BY <2>1 DEF Hub, ServeInv, ReplyInv, Frame
    <3>2. h[x].pc = "deliver" => Fits(m) /\ m.run # 0
      BY <2>1 DEF MarkInv, Sent, Fits, ReqIds
    <3> QED
      BY <2>1, <3>1, <3>2 DEF Deliver
  <2>2. ASSUME NEW x \in Conns, ForwardSent(x) \/ ForwardKill(x), c = h[x].tgt PROVE FALSE
    BY <1>0, <2>2 DEF ForwardSent, ForwardKill, Hub, AuthInv, HandlerInv, Purpose
  <2>3. ASSUME NEW k, m = Refusal(k) \/ m = errResult(k) PROVE Good(m)
    BY <2>3 DEF Refusal, errResult, Frame
  <2>4. ASSUME NEW t \in {"disconnect_confirmed", "error", "taken", "replaced"}, m = Frame(t, 0, 0, 0)
        PROVE  Good(m)
    BY <2>4 DEF Frame
  <2> QED
    BY <1>4, <2>1, <2>2, <2>3, <2>4 DEF Gets
<1>5. ASSUME NEW m \in Msg, Gets(c, m), down'[c] = Append(down[c], m) PROVE Good(down[c][j])'
  <2>1. down'[c][j] = m \/ \E k \in 1 .. Len(down[c]) : down'[c][j] = down[c][k]
    BY <1>0, <1>5, AppendElement
  <2> QED
    BY <1>1, <1>2, <1>4, <1>5, <2>1
<1> QED
  BY <1>0, <1>3, <1>5, DownEffect DEF Hub

\* What the clients have shown.
LEMMA MarkShown ==
  ASSUME Hub, MarkInv, Next, NEW cl \in Clients
  PROVE  Shows(cl)'
<1>0. Lineno[cl] \in Seq(Nat) /\ Shows(cl) /\ CConn(cl) \in CConns
  BY ClientConns, LinesNumbered DEF AllNumbered, MarkInv
<1>1. ASSUME NEW i \in ReqIds, Waits(cl, i), job[i].st # "none", cwait'[cl] = cwait[cl],
             \A j \in 1 .. Len(Lineno'[cl]) : Lineno'[cl][j] \in 1 .. job[i].out
      PROVE  Shows(cl)'
  <2>1. origin'[i] = origin[i]
    BY <1>1, BegunDrawn, OriginStays DEF Begun, Hub, ServeInv
  <2>2. Waits(cl, i)'
    BY <1>1, <2>1 DEF Waits
  <2>3. job'[i].st # "none" /\ \A n \in 1 .. job[i].out : n \in 1 .. job'[i].out
    BY <1>1, JobGrows
  <2> QED
    BY <1>1, <2>2, <2>3 DEF Shows
<1>2. CASE Lineno'[cl] = Lineno[cl] /\ cwait'[cl] \in {0, cwait[cl]}
  <2>1. SUFFICES ASSUME cwait'[cl] # 0, Lineno'[cl] # <<>> PROVE Shows(cl)'
    BY DEF Shows
  <2>2. PICK i \in ReqIds : /\ Waits(cl, i) /\ job[i].st # "none"
                            /\ \A j \in 1 .. Len(Lineno[cl]) : Lineno[cl][j] \in 1 .. job[i].out
    BY <1>0, <1>2, <2>1 DEF Shows
  <2> QED
    BY <1>1, <1>2, <2>1, <2>2
<1>3. CASE Lineno'[cl] = <<>>
  BY <1>3 DEF Shows
<1>4. ASSUME ClientRecv(cl), NEW m, m = Head(down[CConn(cl)]), Accepts(cl, m), m.type = "stream_chunk",
             Lineno'[cl] = Append(Lineno[cl], m.seq), cwait'[cl] = cwait[cl]
      PROVE  Shows(cl)'
  <2>1. down[CConn(cl)] # <<>> /\ 1 \in 1 .. Len(down[CConn(cl)]) /\ m = down[CConn(cl)][1]
    BY <1>0, <1>4, ClientConns DEF ClientRecv, Hub, IInv, TypeOK, SockTypes
  <2>2. m.run # 0 /\ Fits(m)
    BY <1>0, <1>4, <2>1 DEF MarkInv
  <2>3. m.run \in ReqIds /\ Waits(cl, m.run) /\ job[m.run].st # "none" /\ m.seq \in 1 .. job[m.run].out
    BY <1>4, <2>1, <2>2, OutputTaken DEF Fits
  <2>4. ASSUME NEW j \in 1 .. Len(Lineno[cl]) PROVE Lineno[cl][j] \in 1 .. job[m.run].out
    <3>1. PICK i \in ReqIds : /\ Waits(cl, i) /\ job[i].st # "none"
                              /\ \A k \in 1 .. Len(Lineno[cl]) : Lineno[cl][k] \in 1 .. job[i].out
      BY <1>0, <2>3, <2>4 DEF Shows, Waits
    <3>2. i = m.run
      BY <2>3, <3>1, WaitsOne
    <3> QED
      BY <3>1, <3>2
  <2>5. \A j \in 1 .. Len(Lineno'[cl]) : Lineno'[cl][j] \in 1 .. job[m.run].out
    BY <1>0, <1>4, <2>3, <2>4
  <2> QED
    BY <1>1, <1>4, <2>3, <2>5
<1> QED
  BY <1>2, <1>3, <1>4, ShownEffect

LEMMA MarkStep == Hub /\ MarkInv /\ Next => MarkInv'
<1> SUFFICES ASSUME Hub, MarkInv, Next PROVE MarkInv'
  OBVIOUS
<1>1. ASSUME NEW i \in ReqIds, job'[i].st # "none" PROVE dials'[job'[i].by] > 0
  <2>1. CASE job[i].st # "none"
    <3>1. PICK d : d = job[i].by
      OBVIOUS
    <3>2. d \in Daemons /\ dials[d] > 0 /\ job'[i].by = d
      BY <2>1, <3>1, JobGrows DEF MarkInv, Hub, ServeInv, OriginInv
    <3> QED
      BY <3>2, DialsGrow
  <2>2. CASE job[i].st = "none"
    <3>1. PICK d \in Daemons : DaemonCommand(d)
      BY <1>1, <2>2, JobEffect DEF Hub
    <3>2. i = Head(down[Live(d)]).id /\ job'[i].by = d
      <4>1. job \in [ReqIds -> Jobs]
        BY DEF Hub, IInv, TypeOK, DaemonTypes
      <4> QED
        BY <1>1, <2>2, <3>1, <4>1 DEF DaemonCommand
    <3>3. Live(d) \in DConns
      BY <3>1, TakenFine DEF Hub, IInv, TypeOK, AuthInv, DaemonCommand
    <3>4. dials[d] > 0
      BY <3>3, BoundsAssumption DEF Live, DConns
    <3> QED
      BY <3>2, <3>4, DialsGrow
  <2> QED
    BY <2>1, <2>2
<1> QED
  BY <1>1, MarkUp, MarkHeld, MarkDown, MarkShown DEF MarkInv

---------------------------------------------------------------------------
\* What has been printed is there at most; what has not begun is nowhere.
LEMMA PrintedKeys ==
  ASSUME Hub, MarkInv, NEW i \in ReqIds, NEW k,
         \/ \E c \in Conns : k \in Coming(c, i)
         \/ \E c \in CConns : k \in Keys(down[c], i)
         \/ \E cl \in Clients : Waits(cl, i) /\ k \in Seen(cl)
  PROVE  /\ k \in Nat /\ job[i].st # "none" /\ job[i].out \in Nat
         /\ job[i].st = "running" => k <= job[i].out
<1>0. job[i].out \in Nat /\ i # 0
  BY DEF Hub, IInv, TypeOK, DaemonTypes, Jobs, ReqIds
<1>1. ASSUME NEW m, Fits(m), m.run = i, k = Key(m)
      PROVE  k \in Nat /\ job[i].st # "none" /\ (job[i].st = "running" => k <= job[i].out)
  BY <1>0, <1>1 DEF Fits, Key
<1>2. ASSUME NEW c \in Conns, k \in Coming(c, i) PROVE \E m : Fits(m) /\ m.run = i /\ k = Key(m)
  BY <1>0, <1>2 DEF MarkInv, Sent, Coming, Held, Keys
<1>3. ASSUME NEW c \in CConns, k \in Keys(down[c], i) PROVE \E m : Fits(m) /\ m.run = i /\ k = Key(m)
  BY <1>0, <1>3 DEF MarkInv, Keys
<1>4. ASSUME NEW cl \in Clients, Waits(cl, i), k \in Seen(cl)
      PROVE  job[i].st # "none" /\ k \in 1 .. job[i].out
  <2>1. cwait[cl] # 0 /\ Lineno[cl] # <<>>
    BY <1>4 DEF Waits, Seen
  <2>2. PICK j \in ReqIds : /\ Waits(cl, j) /\ job[j].st # "none"
                            /\ \A n \in 1 .. Len(Lineno[cl]) : Lineno[cl][n] \in 1 .. job[j].out
    BY <2>1 DEF MarkInv, Shows
  <2>3. i = j
    BY <1>4, <2>2, WaitsOne
  <2> QED
    BY <1>4, <2>2, <2>3 DEF Seen
<1> QED
  BY <1>0, <1>1, <1>2, <1>3, <1>4

\* What a step does to the frames of a command on their way to the relay.
LEMMA UpKeys ==
  ASSUME Hub, MarkInv, LineInv, Next, NEW c \in Conns, NEW i \in ReqIds
  PROVE  \/ Keys(up'[c], i) = Keys(up[c], i)
         \/ HandleReply(c)
         \/ ~Arrives(c)' /\ \E n \in 0 .. Len(up[c]) : up'[c] = SubSeq(up[c], 1, n)
         \/ /\ EmitChunk(i) \/ EmitFinal(i)
            /\ c = Live(job[i].by) /\ Keys(up'[c], i) = Keys(up[c], i) \cup {job[i].out + 1}
<1>0. /\ up \in [Conns -> Seq(Msg)] /\ up[c] \in Seq(Msg) /\ InLine(up[c]) /\ i # 0
      /\ peerEnd \in [Conns -> BOOLEAN] /\ relayEnd \in [Conns -> BOOLEAN]
  BY DEF Hub, IInv, TypeOK, SockTypes, LineInv, ReqIds
<1> DEFINE Same == Keys(up'[c], i) = Keys(up[c], i)
           Cut == ~Arrives(c)' /\ \E n \in 0 .. Len(up[c]) : up'[c] = SubSeq(up[c], 1, n)
           Emit == /\ EmitChunk(i) \/ EmitFinal(i)
                   /\ c = Live(job[i].by) /\ Keys(up'[c], i) = Keys(up[c], i) \cup {job[i].out + 1}
<1>1. ASSUME NEW x \in Conns, Consume(x), up[x] # <<>>, Head(up[x]).type \notin Replies PROVE Same
  <2>1. CASE c = x
    <3>1. up'[c] = Tail(up[c]) /\ up[c][1] = Head(up[c]) /\ 1 \in 1 .. Len(up[c])
      BY <1>0, <1>1, <2>1 DEF Consume
    <3>2. Head(up[c]).run # i
      BY <1>0, <1>1, <2>1, <3>1 DEF MarkInv, Sent, Fits
    <3>3. Keys(Tail(up[c]), i) = Keys(up[c], i)
      BY <1>0, <1>1, <2>1, <3>2, KeysTail
    <3> QED
      BY <3>1, <3>3
  <2>2. CASE c # x
    BY <1>0, <1>1, <2>2 DEF Consume
  <2> QED
    BY <2>1, <2>2
<1>2. ASSUME NEW x \in Conns, AcceptRegister(x) \/ LookupFails(x) \/ LookupFinds(x) PROVE Same
  BY <1>1, <1>2 DEF AcceptRegister, LookupFails, LookupFinds, Incoming, ClientMsgs, Replies
<1>3. ASSUME NEW x \in Conns, HandleReply(x) PROVE Same \/ HandleReply(c)
  BY <1>0, <1>3 DEF HandleReply, PendingOf, Consume
<1>4. SubSeq(up[c], 1, 0) = <<>> /\ 0 \in 0 .. Len(up[c])
  BY <1>0
<1>5. ASSUME NEW x \in Conns, RejectRegister(x) \/ RejectClient(x) \/ Unregister(x) PROVE Same \/ Cut
  <2>1. Hangup(x)
    BY <1>5 DEF RejectRegister, RejectClient, Unregister
  <2>2. CASE x = c
    BY <1>0, <1>4, <2>1, <2>2 DEF Hangup, Arrives
  <2>3. CASE x # c
    BY <1>0, <2>1, <2>3 DEF Hangup
  <2> QED
    BY <2>2, <2>3
<1>6. ASSUME RelayRestart PROVE Cut
  BY <1>4, <1>6 DEF RelayRestart, Arrives
<1>7. ASSUME NEW x, Abandon(x) PROVE Same \/ Cut
  BY <1>0, <1>7 DEF Abandon, Arrives
<1>8. ASSUME up' = up PROVE Same
  BY <1>8
<1>9. ASSUME NEW x \in Conns,
             Deliver(x) \/ InsertPending(x) \/ ForwardSent(x) \/ ForwardFails(x) \/ ForwardKill(x)
      PROVE  Same
  BY <1>8, <1>9 DEF Deliver, InsertPending, ForwardSent, ForwardFails, ForwardKill, sockVars
<1>10. ASSUME NEW d \in Daemons, Disconnected(d) \/ DaemonCrash(d) \/ DaemonExit(d) PROVE Same \/ Cut
  BY <1>7, <1>10 DEF Disconnected, DaemonCrash, DaemonExit
<1>11. ASSUME NEW d \in Daemons,
              DaemonDial(d) \/ DaemonCommand(d) \/ DaemonNotice(d) \/ SupervisorRestarts(d)
       PROVE  Same
  BY <1>8, <1>11 DEF DaemonDial, DaemonCommand, DaemonNotice, SupervisorRestarts, sockVars
<1>12. ASSUME NEW m \in Msg, m.run # i, up'[c] = Append(up[c], m) PROVE Same
  <2>1. PICK s : s = up[c]
    OBVIOUS
  <2>2. s \in Seq(Msg) /\ InLine(s)
    BY <1>0, <2>1
  <2>3. Keys(Append(s, m), i) = Keys(s, i)
    BY <1>12, <2>2, KeysMore
  <2> QED
    BY <1>12, <2>1, <2>3
<1>13. ASSUME NEW d \in Daemons, DaemonRegister(d) PROVE Same
  <2>1. PICK m : m = Frame("register", 0, 0, 0)
    OBVIOUS
  <2>2. m \in Msg /\ m.run # i
    <3>1. "register" \in MsgTypes
      BY DEF MsgTypes
    <3>2. m \in Msg
      BY <2>1, <3>1, FrameType
    <3> QED
      BY <1>0, <2>1, <3>2 DEF Frame
  <2> QED
    BY <1>0, <1>12, <1>13, <2>1, <2>2 DEF DaemonRegister, UpWith
<1>14. ASSUME NEW j \in ReqIds, NEW m \in Msg, up' = UpWith(job[j].by, m), m.run = j, Key(m) = job[j].out + 1,
              EmitChunk(j) \/ EmitFinal(j)
       PROVE  Same \/ Emit
  <2>1. up'[c] = up[c] \/ (c = Live(job[j].by) /\ up'[c] = Append(up[c], m))
    BY <1>0, <1>14 DEF UpWith
  <2>2. CASE j = i /\ c = Live(job[j].by) /\ up'[c] = Append(up[c], m)
    <3>1. PICK s : s = up[c]
      OBVIOUS
    <3>2. s \in Seq(Msg) /\ InLine(s) /\ m.run = i
      BY <1>0, <1>14, <2>2, <3>1
    <3>3. Keys(Append(s, m), i) = Keys(s, i) \cup {Key(m)}
      BY <3>2, KeysMore
    <3> QED
      BY <1>14, <2>2, <3>1, <3>3
  <2> QED
    BY <1>12, <1>14, <2>1, <2>2
<1>15. ASSUME NEW j \in ReqIds, EmitChunk(j) \/ EmitFinal(j) PROVE Same \/ Emit
  <2>1. job[j].out \in Nat /\ j \in Nat
    BY DEF Hub, IInv, TypeOK, DaemonTypes, Jobs, ReqIds
  <2>2. CASE EmitChunk(j)
    <3>1. PICK m : m = Frame("stream_chunk", j, j, job[j].out + 1)
      OBVIOUS
    <3>2. job[j].out + 1 \in Nat /\ "stream_chunk" \in MsgTypes
      BY <2>1 DEF MsgTypes
    <3>3. m \in Msg /\ m.run = j /\ Key(m) = job[j].out + 1
      BY <2>1, <3>1, <3>2, FrameType DEF Frame, Key
    <3> QED
      BY <1>14, <2>2, <3>1, <3>3 DEF EmitChunk
  <2>3. CASE EmitFinal(j)
    <3>1. PICK m : m = FinalFrame(j)
      OBVIOUS
    <3>2. {"stream_end", "result"} \subseteq MsgTypes
      BY DEF MsgTypes
    <3>3. m \in Msg /\ m.run = j /\ Key(m) = job[j].out + 1
      BY <2>1, <3>1, <3>2, FrameType DEF FinalFrame, Frame, Key
    <3> QED
      BY <1>14, <2>3, <3>1, <3>3 DEF EmitFinal
  <2> QED
    BY <1>15, <2>2, <2>3
<1>16. ASSUME NEW cl \in Clients, NEW kind \in Kinds, ClientSend(cl, kind) PROVE Same
  <2>1. CASE c # CConn(cl)
    BY <1>0, <1>16, <2>1 DEF ClientSend
  <2>2. CASE c = CConn(cl)
    <3>1. c \notin DConns
      BY <2>2, ClientConns
    <3>2. Keys(up[c], i) = {}
      BY <1>0, <3>1 DEF MarkInv, Sent, Keys
    <3>3. PICK n \in Nat : n = IF kind = "disconnect" THEN 0 ELSE csent[cl] + 1
      BY DEF Hub, IInv, TypeOK, ClientTypes
    <3>4. PICK m : m = Frame(kind, n, 0, 0)
      OBVIOUS
    <3>7. m \in Msg /\ m.run = 0
      <4>1. kind \in MsgTypes
        BY ConfigAssumption DEF MsgTypes
      <4> QED
        BY <3>3, <3>4, <4>1, FrameType DEF Frame
    <3>5. up'[c] = up[c] \/ up'[c] = <<m>> \/ up'[c] = Append(up[c], m)
      BY <1>0, <1>16, <2>2, <3>3, <3>4 DEF ClientSend
    <3>6. CASE up'[c] = <<m>>
      BY <1>0, <3>2, <3>6, <3>7 DEF Keys
    <3> QED
      BY <1>0, <1>12, <3>5, <3>6, <3>7
  <2> QED
    BY <2>1, <2>2
<1>17. ASSUME NEW cl \in Clients, ClientRecv(cl) \/ ClientTimeout(cl) \/ ClientClose(cl) PROVE Same \/ Cut
  BY <1>7, <1>8, <1>17 DEF ClientRecv, ClientTimeout, ClientClose, sockVars
<1> QED
  BY <1>2, <1>3, <1>5, <1>6, <1>9, <1>10, <1>11, <1>13, <1>15, <1>16, <1>17
  DEF Next, Handler, HandlerEOF, HandlerBreak, DaemonStep, DaemonEOF, DaemonBreak, ClientStep

---------------------------------------------------------------------------
\* Every frame of the queue is the relay's own words or of a command that
\* has begun.
Known(t) == \A j \in 1 .. Len(t) : t[j].run # 0 => t[j].run \in ReqIds /\ job[t[j].run].st # "none"

LEMMA LineStays ==
  ASSUME Hub, Next, NEW t, InLine(t), Known(t)
  PROVE  InLine(t)'
<1> SUFFICES ASSUME NEW a \in 1 .. Len(t), NEW b \in 1 .. Len(t), a < b, t[a].run # 0, t[a].run = t[b].run
             PROVE  After(t[a].run, Key(t[a]), Key(t[b]))'
  BY DEF InLine, Key
<1>1. PICK i, k, n : i = t[a].run /\ k = Key(t[a]) /\ n = Key(t[b])
  OBVIOUS
<1>2. i \in ReqIds /\ job[i].st # "none" /\ After(i, k, n)
  BY <1>1 DEF InLine, Known
<1>3. After(i, k, n)'
  BY <1>2, AfterStays
<1> QED
  BY <1>1, <1>3 DEF After, Steady

LEMMA LineShrinks ==
  ASSUME NEW s \in Seq(Msg), InLine(s), Known(s), NEW t, Shrinks(s, t)
  PROVE  InLine(t) /\ Known(t) /\ t \in Seq(Msg) /\ \A i : Keys(t, i) \subseteq Keys(s, i)
<1>1. t \in Seq(Msg) /\ \A j \in 1 .. Len(t) : \E k \in 1 .. Len(s) : t[j] = s[k]
  BY ShrinksElement
<1>2. Known(t)
  BY <1>1 DEF Known
<1>3. ASSUME NEW i PROVE Keys(t, i) \subseteq Keys(s, i)
  BY <1>1 DEF Keys
<1>4. CASE t = s
  BY <1>4
<1>5. CASE s # <<>> /\ t = Tail(s)
  <2>1. InLine(Tail(s)) /\ Keys(Tail(s), 0) \subseteq Keys(s, 0)
    BY <1>5, KeysTail
  <2> QED
    BY <1>2, <1>3, <1>1, <1>5, <2>1
<1>6. ASSUME NEW n \in 0 .. Len(s), t = SubSeq(s, 1, n) PROVE InLine(t)
  BY <1>6, KeysPrefix
<1> QED
  BY <1>1, <1>2, <1>3, <1>4, <1>5, <1>6 DEF Shrinks

LEMMA KnownMore ==
  ASSUME NEW s \in Seq(Msg), Known(s), NEW m \in Msg,
         m.run # 0 => m.run \in ReqIds /\ job[m.run].st # "none"
  PROVE  Known(Append(s, m))
<1>1. \A j \in 1 .. Len(Append(s, m)) :
        Append(s, m)[j] = m \/ (j \in 1 .. Len(s) /\ Append(s, m)[j] = s[j])
  BY AppendElement
<1> QED
  BY <1>1 DEF Known

\* The frames that the daemon sends.
LEMMA EmitFrame ==
  ASSUME Hub, NEW i \in ReqIds, NEW m,
         \/ EmitChunk(i) /\ m = Frame("stream_chunk", i, i, job[i].out + 1)
         \/ EmitFinal(i) /\ m = FinalFrame(i)
  PROVE  /\ m \in Msg /\ m.run = i /\ i # 0 /\ Key(m) = job[i].out + 1 /\ job[i].out \in Nat
         /\ job[i].st = "running" /\ up' = UpWith(job[i].by, m)
<1>1. job[i].out \in Nat /\ i \in Nat /\ job[i].out + 1 \in Nat /\ i # 0
  BY DEF Hub, IInv, TypeOK, DaemonTypes, Jobs, ReqIds
<1>2. {"stream_chunk", "stream_end", "result"} \subseteq MsgTypes
  BY DEF MsgTypes
<1>3. CASE EmitChunk(i) /\ m = Frame("stream_chunk", i, i, job[i].out + 1)
  <2>1. m \in Msg
    BY <1>1, <1>2, <1>3, FrameType
  <2> QED
    BY <1>1, <1>3, <2>1 DEF EmitChunk, Frame, Key
<1>4. CASE EmitFinal(i) /\ m = FinalFrame(i)
  <2>1. m \in Msg
    BY <1>1, <1>2, <1>4, FrameType DEF FinalFrame
  <2> QED
    BY <1>1, <1>4, <2>1 DEF EmitFinal, FinalFrame, Frame, Key
<1> QED
  BY <1>3, <1>4

\* A queue to the relay stays in order: what a daemon adds comes after all
\* it has printed.
LEMMA LineUp ==
  ASSUME Hub, MarkInv, LineInv, Next, NEW c \in Conns
  PROVE  InLine(up[c])'
<1> SUFFICES ASSUME NEW s, s = up[c], NEW t, t = up'[c] PROVE InLine(t) /\ Known(t)
  <2>1. PICK t : t = up'[c]
    OBVIOUS
  <2>2. InLine(t)'
    BY <2>1, LineStays
  <2> QED
    BY <2>1, <2>2 DEF InLine
<1>0. s \in Seq(Msg) /\ InLine(s) /\ up \in [Conns -> Seq(Msg)]
  BY DEF Hub, IInv, TypeOK, SockTypes, LineInv
<1>1. Known(s)
  BY DEF MarkInv, Sent, Fits, Known
<1>2. CASE Shrinks(s, t)
  BY <1>0, <1>1, <1>2, LineShrinks
<1>3. ASSUME NEW m \in Msg, m.run = 0, t = Append(s, m) PROVE InLine(t) /\ Known(t)
  BY <1>0, <1>1, <1>3, LineMore, KnownMore
<1>4. CASE t = Append(s, Frame("register", 0, 0, 0))
  <2>1. PICK m : m = Frame("register", 0, 0, 0)
    OBVIOUS
  <2>2. m \in Msg /\ m.run = 0
    <3>1. m \in Msg
      BY <2>1, FrameType DEF MsgTypes
    <3> QED
      BY <2>1, <3>1 DEF Frame
  <2> QED
    BY <1>3, <1>4, <2>1, <2>2
<1>5. ASSUME NEW cl \in Clients, NEW kind \in Kinds, ClientSend(cl, kind), c = CConn(cl)
      PROVE  InLine(t) /\ Known(t)
  <2>1. PICK n \in Nat : n = IF kind = "disconnect" THEN 0 ELSE csent[cl] + 1
    BY DEF Hub, IInv, TypeOK, ClientTypes
  <2>2. PICK m : m = Frame(kind, n, 0, 0)
    OBVIOUS
  <2>3. m \in Msg /\ m.run = 0
    <3>1. kind \in MsgTypes
      BY ConfigAssumption DEF MsgTypes
    <3> QED
      BY <2>2, <3>1, FrameType DEF Frame
  <2>4. t = s \/ t = <<m>> \/ t = Append(s, m)
    BY <1>0, <1>5, <2>1, <2>2 DEF ClientSend
  <2>5. CASE t = <<m>>
    BY <2>3, <2>5 DEF InLine, Known
  <2> QED
    BY <1>0, <1>1, <1>3, <2>3, <2>4, <2>5
<1>6. ASSUME NEW i \in ReqIds, NEW m, t = Append(s, m),
             \/ EmitChunk(i) /\ m = Frame("stream_chunk", i, i, job[i].out + 1)
             \/ EmitFinal(i) /\ m = FinalFrame(i)
      PROVE  InLine(t) /\ Known(t)
  <2>1. /\ m \in Msg /\ m.run = i /\ Key(m) = job[i].out + 1 /\ job[i].out \in Nat
        /\ job[i].st = "running"
    BY <1>6, EmitFrame
  <2>2. Along(i, Keys(s, i), {Key(m)})
    <3> SUFFICES ASSUME NEW k \in Keys(s, i) PROVE After(i, k, job[i].out + 1)
      BY <2>1 DEF Along
    <3>1. k \in Coming(c, i)
      BY DEF Coming
    <3>2. k \in Nat /\ k <= job[i].out
      BY <2>1, <3>1, PrintedKeys
    <3> QED
      BY <2>1, <3>2 DEF After
  <2> QED
    BY <1>0, <1>1, <1>6, <2>1, <2>2, LineMore, KnownMore
<1> QED
  BY <1>2, <1>4, <1>5, <1>6, UpEffect DEF Hub, ServeInv

\* Output reaches a client from the hand of a handler.
LEMMA GetsRun ==
  ASSUME Hub, MarkInv, NEW c \in CConns, NEW m \in Msg, Gets(c, m), m.run # 0
  PROVE  \E x \in Conns : /\ Deliver(x) /\ h[x].pc = "deliver" /\ c = h[x].tgt /\ m = h[x].msg
                          /\ Fits(m)
<1>1. ASSUME NEW x \in Conns, Deliver(x), m = h[x].msg PROVE h[x].pc = "deliver" /\ Fits(m)
  <2>1. h[x].pc = "ack" => m.run = 0
    BY <1>1 DEF Hub, ServeInv, ReplyInv, Frame
  <2> QED
    BY <1>1, <2>1 DEF Deliver, MarkInv, Sent
<1>2. ASSUME NEW x \in Conns, ForwardSent(x) \/ ForwardKill(x), c = h[x].tgt PROVE FALSE
  <2>1. c \notin DConns
    BY ClientConns
  <2> QED
    BY <1>2, <2>1 DEF ForwardSent, ForwardKill, Hub, AuthInv, HandlerInv, Purpose
<1>3. \A k : m # Refusal(k) /\ m # errResult(k)
  BY DEF Refusal, errResult, Frame
<1>4. \A t : m # Frame(t, 0, 0, 0)
  BY DEF Frame
<1> QED
  BY <1>1, <1>2, <1>3, <1>4 DEF Gets

\* A queue to a client stays in order: what a handler has in hand comes
\* after what it has passed on.
LEMMA LineDown ==
  ASSUME Hub, MarkInv, LineInv, Next, NEW c \in CConns
  PROVE  InLine(down[c])'
<1> SUFFICES ASSUME NEW s, s = down[c], NEW t, t = down'[c] PROVE InLine(t) /\ Known(t)
  <2>1. PICK t : t = down'[c]
    OBVIOUS
  <2>2. InLine(t)'
    BY <2>1, LineStays
  <2> QED
    BY <2>1, <2>2 DEF InLine
<1>0. s \in Seq(Msg) /\ InLine(s) /\ c \in Conns
  BY ClientConns DEF Hub, IInv, TypeOK, SockTypes, LineInv
<1>1. Known(s)
  BY DEF MarkInv, Fits, Known
<1>2. CASE Shrinks(s, t)
  BY <1>0, <1>1, <1>2, LineShrinks
<1>3. ASSUME NEW m \in Msg, Gets(c, m), t = Append(s, m) PROVE InLine(t) /\ Known(t)
  <2>1. CASE m.run = 0
    BY <1>0, <1>1, <1>3, <2>1, LineMore, KnownMore
  <2>2. CASE m.run # 0
    <3>1. PICK x \in Conns : h[x].pc = "deliver" /\ m = h[x].msg /\ Fits(m)
      BY <1>3, <2>2, GetsRun
    <3>2. Key(m) \in Coming(x, m.run) /\ m.run \in ReqIds /\ job[m.run].st # "none"
      BY <3>1 DEF Coming, Held, Fits
    <3>3. Along(m.run, Keys(s, m.run), {Key(m)})
      BY <3>2 DEF LineInv, Along
    <3> QED
      BY <1>0, <1>1, <1>3, <3>2, <3>3, LineMore, KnownMore
  <2> QED
    BY <2>1, <2>2
<1> QED
  BY <1>0, <1>2, <1>3, DownEffect DEF Hub

---------------------------------------------------------------------------
(***************************************************************************)
(* What the steps do to the frames of one command: a handler takes the     *)
(* first one from its queue, passes it on, the client takes the first one  *)
(* from its queue, the daemon adds the next one.                           *)
(***************************************************************************)

\* The first frame of a queue is taken.
LEMMA KeysTaken ==
  ASSUME NEW s \in Seq(Msg), s # <<>>, InLine(s), NEW i \in ReqIds, NEW m, m = Head(s)
  PROVE  /\ Tail(s) \in Seq(Msg) /\ Keys(Tail(s), i) \subseteq Keys(s, i)
         /\ m.run # i => Keys(Tail(s), i) = Keys(s, i)
         /\ m.run = i => /\ Keys(s, i) = {Key(m)} \cup Keys(Tail(s), i)
                         /\ Along(i, {Key(m)}, Keys(Tail(s), i))
<1>1. i # 0 /\ Tail(s) \in Seq(Msg)
  BY DEF ReqIds
<1> QED
  BY <1>1, KeysTail

\* A queue that does not get shorter loses nothing.
LEMMA ShrinksNot ==
  ASSUME NEW s \in Seq(Msg), NEW t, Shrinks(s, t), Len(t) >= Len(s)
  PROVE  t = s
<1>1. ASSUME s # <<>>, t = Tail(s) PROVE FALSE
  BY <1>1
<1>2. ASSUME NEW n \in 0 .. Len(s), t = SubSeq(s, 1, n) PROVE t = s
  <2>1. n = Len(s)
    BY <1>2
  <2> QED
    BY <1>2, <2>1
<1> QED
  BY <1>1, <1>2 DEF Shrinks

\* Only the client itself takes from its queue.
LEMMA DownKept ==
  ASSUME Hub, Next, NEW cl \in Clients, ~ClientRecv(cl), ~ClientClose(cl), NEW c, c = CConn(cl)
  PROVE  \/ down'[c] = down[c]
         \/ \E m \in Msg : Gets(c, m) /\ down'[c] = Append(down[c], m)
<1>0. /\ c \in Conns /\ c \in CConns /\ down[c] \in Seq(Msg) /\ DOMAIN down = Conns
      /\ \A d \in Daemons : Live(d) # c
      /\ \A x \in Clients : CConn(x) = c => x = cl
  BY ClientConns DEF Hub, IInv, TypeOK, SockTypes
<1> DEFINE Grows == Len(down'[c]) >= Len(down[c])
<1>1. ASSUME down'[c] = down[c] PROVE Grows
  BY <1>0, <1>1
<1>2. ASSUME NEW s, NEW x, NEW m, Len(s[c]) >= Len(down[c]), s[c] \in Seq(Msg), DOMAIN s = Conns,
             down' = [s EXCEPT ![x] = Append(@, m)]
      PROVE  Grows
  BY <1>0, <1>2
<1>3. ASSUME NEW x, NEW m, down' = DownWith(x, m) PROVE Grows
  BY <1>0, <1>1, <1>2, <1>3 DEF DownWith
<1>4. ASSUME NEW x \in Conns, Deliver(x) \/ ForwardSent(x) \/ RejectClient(x) \/ LookupFails(x)
                              \/ ForwardFails(x) \/ RejectRegister(x)
      PROVE  Grows
  <2>1. \E y, m : down' = DownWith(y, m)
    BY <1>4 DEF Deliver, ForwardSent, RejectClient, LookupFails, ForwardFails, RejectRegister
  <2> QED
    BY <1>3, <2>1
<1>5. ASSUME NEW x \in Conns, ForwardKill(x) PROVE Grows
  <2>1. h[x].msg \in Msg
    BY DEF Hub, IInv, TypeOK, RelayTypes, Locals
  <2>2. PICK s : s = DownWith(h[x].tgt, h[x].msg)
    OBVIOUS
  <2>3. Len(s[c]) >= Len(down[c]) /\ s[c] \in Seq(Msg) /\ DOMAIN s = Conns
    BY <1>0, <2>1, <2>2 DEF DownWith
  <2>4. \/ \E m : down' = [s EXCEPT ![x] = Append(@, m)]
        \/ down' = s
        \/ \E m : down' = DownWith(x, m)
    BY <1>5, <2>2 DEF ForwardKill
  <2> QED
    BY <1>2, <1>3, <2>3, <2>4
<1>6. ASSUME NEW x \in Conns, AcceptRegister(x) PROVE Grows
  BY <1>1, <1>3, <1>6 DEF AcceptRegister, NotifyReplaced
<1>7. ASSUME NEW x \in Conns,
             InsertPending(x) \/ LookupFinds(x) \/ HandleReply(x) \/ Unregister(x)
      PROVE  Grows
  BY <1>1, <1>7 DEF InsertPending, LookupFinds, HandleReply, PendingOf, Unregister, sockVars
<1>8. CASE RelayRestart
  BY <1>1, <1>8 DEF RelayRestart
<1>9. ASSUME NEW d \in Daemons, DaemonStep(d) \/ DaemonBreak(d) \/ DaemonCrash(d) PROVE Grows
  BY <1>0, <1>1, <1>9
  DEF DaemonStep, DaemonDial, DaemonRegister, DaemonEOF, DaemonBreak, Disconnected, DaemonCommand,
      DaemonNotice, DaemonExit, SupervisorRestarts, DaemonCrash, Abandon, sockVars
<1>10. ASSUME NEW i \in ReqIds, EmitChunk(i) \/ EmitFinal(i) PROVE Grows
  BY <1>1, <1>10 DEF EmitChunk, EmitFinal
<1>11. ASSUME NEW x \in Clients, ClientStep(x) PROVE Grows
  BY <1>0, <1>1, <1>11
  DEF ClientStep, ClientSend, ClientRecv, ClientTimeout, ClientClose, Abandon, sockVars
<1>12. Grows
  BY <1>4, <1>5, <1>6, <1>7, <1>8, <1>9, <1>10, <1>11 DEF Next, Handler, HandlerEOF, HandlerBreak
<1>13. Shrinks(down[c], down'[c]) => down'[c] = down[c]
  BY <1>0, <1>12, ShrinksNot
<1> QED
  BY <1>0, <1>13, DownEffect DEF Hub

\* A frame in hand stays there until it is passed on.
LEMMA HandKept ==
  ASSUME Hub, Next, NEW c \in Conns, h[c].pc = "deliver", ~Deliver(c), ~RelayRestart
  PROVE  h'[c] = h[c]
<1>0. h \in [Conns -> Locals]
  BY DEF Hub, IInv, TypeOK, RelayTypes
<1>1. ASSUME NEW x \in Conns, Handler(x) \/ HandlerBreak(x) PROVE h'[c] = h[c]
  BY <1>0, <1>1
  DEF Handler, RejectRegister, AcceptRegister, Deliver, RejectClient, LookupFails, LookupFinds,
      InsertPending, ForwardSent, ForwardFails, ForwardKill, HandleReply, PendingOf, HandlerEOF, HandlerBreak,
      Unregister, Hangup, Goto, Incoming, relayVars
<1>2. ASSUME NEW d \in Daemons, DaemonStep(d) \/ DaemonBreak(d) \/ DaemonCrash(d)
      PROVE  h' = h
  BY <1>2 DEF DaemonStep, DaemonDial, DaemonRegister, DaemonEOF, DaemonBreak, Disconnected,
              DaemonCommand, DaemonNotice, DaemonExit, SupervisorRestarts, DaemonCrash, relayVars
<1>3. ASSUME NEW i \in ReqIds, EmitChunk(i) \/ EmitFinal(i) PROVE h' = h
  BY <1>3 DEF EmitChunk, EmitFinal, relayVars
<1>4. ASSUME NEW cl \in Clients, ClientStep(cl) PROVE h' = h
  BY <1>4 DEF ClientStep, ClientSend, ClientRecv, ClientTimeout, ClientClose, relayVars
<1> QED
  BY <1>1, <1>2, <1>3, <1>4 DEF Next

\* A handler that takes no reply gets none in hand.
LEMMA HeldEffect ==
  ASSUME Hub, Next, NEW c \in Conns, ~HandleReply(c), ~Deliver(c), NEW i
  PROVE  Held(c, i)' = Held(c, i) \/ (RelayRestart /\ Held(c, i)' = {})
<1>0. h \in [Conns -> Locals] /\ (RelayRestart => h'[c] = Idle)
  BY DEF Hub, IInv, TypeOK, RelayTypes, RelayRestart
<1>1. CASE h'[c] = h[c]
  BY <1>1 DEF Held, Key
<1>2. CASE RelayRestart
  BY <1>0, <1>2 DEF Held, Idle
<1>3. CASE h'[c] # h[c] /\ ~RelayRestart
  <2>1. h[c].pc # "deliver"
    BY <1>3, HandKept
  <2>2. LookupFinds(c) => h'[c].pc \in {"kill", "insert"}
    BY <1>0 DEF LookupFinds, Goto
  <2>3. InsertPending(c) => h'[c].pc = "forward"
    BY <1>0 DEF InsertPending, Locals
  <2>4. AcceptRegister(c) => h'[c].pc = "ack"
    BY <1>0 DEF AcceptRegister, Goto
  <2>5. h'[c].pc # "deliver"
    BY <1>3, <2>2, <2>3, <2>4, HandEffect DEF Hub, Idle
  <2> QED
    BY <2>1, <2>5 DEF Held
<1> QED
  BY <1>1, <1>2, <1>3

\* A handler takes a reply.
LEMMA ReplyTakes ==
  ASSUME Hub, MarkInv, LineInv, NEW x \in Conns, HandleReply(x), NEW i \in ReqIds, NEW m, m = Head(up[x])
  PROVE  /\ \A c \in Conns \ {x} : up'[c] = up[c] /\ h'[c] = h[c]
         /\ UNCHANGED <<peerEnd, relayEnd, down, job, dials, cwait, Lineno, origin>>
         /\ Held(x, i) = {} /\ Keys(up'[x], i) \subseteq Keys(up[x], i)
         /\ m.run # i => Keys(up'[x], i) = Keys(up[x], i) /\ Held(x, i)' = {}
         /\ m.run = i => /\ Keys(up[x], i) = {Key(m)} \cup Keys(up'[x], i)
                         /\ Along(i, {Key(m)}, Keys(up'[x], i))
                         /\ Held(x, i)' = IF pending[i] = NoEntry THEN {} ELSE {Key(m)}
<1>0. h \in [Conns -> Locals] /\ up \in [Conns -> Seq(Msg)] /\ InLine(up[x])
  BY DEF Hub, IInv, TypeOK, SockTypes, RelayTypes, LineInv
<1>1. /\ up[x] # <<>> /\ up[x] \in Seq(Msg) /\ m \in Msg
      /\ h[x].pc = "read" /\ m.id = m.run /\ m.run \in ReqIds
      /\ up' = [up EXCEPT ![x] = Tail(@)]
      /\ \/ h' = h /\ pending[m.run] = NoEntry
         \/ /\ pending[m.run] # NoEntry
            /\ \E r \in Msg : /\ h' = [h EXCEPT ![x] = [pc |-> "deliver", tgt |-> pending[m.run].conn,
                                                        msg |-> r, id |-> 0]]
                              /\ r.type = m.type /\ r.run = m.run /\ r.seq = m.seq
  BY ReplyRead
<1>2. up'[x] = Tail(up[x]) /\ \A c \in Conns \ {x} : up'[c] = up[c] /\ h'[c] = h[c]
  BY <1>0, <1>1
<1>10. PICK s \in Seq(Msg) : s = up[x]
  BY <1>1
<1>8. s # <<>> /\ InLine(s) /\ m = Head(s)
  BY <1>0, <1>1, <1>10
<1>9. /\ Keys(Tail(s), i) \subseteq Keys(s, i)
      /\ m.run # i => Keys(Tail(s), i) = Keys(s, i)
      /\ m.run = i => /\ Keys(s, i) = {Key(m)} \cup Keys(Tail(s), i)
                      /\ Along(i, {Key(m)}, Keys(Tail(s), i))
  BY <1>8, KeysTaken
<1>3. /\ Keys(up'[x], i) \subseteq Keys(up[x], i)
      /\ m.run # i => Keys(up'[x], i) = Keys(up[x], i)
      /\ m.run = i => /\ Keys(up[x], i) = {Key(m)} \cup Keys(up'[x], i)
                      /\ Along(i, {Key(m)}, Keys(up'[x], i))
  BY <1>2, <1>9, <1>10
<1>4. Held(x, i) = {}
  BY <1>1 DEF Held
<1>5. UNCHANGED <<peerEnd, relayEnd, down, job, dials, cwait, Lineno, origin>>
  BY DEF HandleReply, PendingOf, daemonVars, clientVars, histVars, Lineno
<1>6. CASE h' = h /\ pending[m.run] = NoEntry
  BY <1>1, <1>2, <1>3, <1>4, <1>5, <1>6 DEF Held
<1>7. ASSUME pending[m.run] # NoEntry,
             NEW r \in Msg, h' = [h EXCEPT ![x] = [pc |-> "deliver", tgt |-> pending[m.run].conn,
                                                  msg |-> r, id |-> 0]],
             r.type = m.type, r.run = m.run, r.seq = m.seq
      PROVE  Held(x, i)' = IF m.run = i THEN {Key(m)} ELSE {}
  <2>1. h'[x].pc = "deliver" /\ h'[x].msg = r
    BY <1>0, <1>7
  <2> QED
    BY <1>7, <2>1 DEF Held, Key
<1> QED
  BY <1>1, <1>2, <1>3, <1>4, <1>5, <1>6, <1>7

\* A handler passes the frame on that it has in hand.
LEMMA DeliverPasses ==
  ASSUME Hub, MarkInv, LineInv, NEW x \in Conns, Deliver(x), NEW i \in ReqIds
  PROVE  /\ UNCHANGED <<peerEnd, relayEnd, up, pending, job, dials, cwait, Lineno, origin>>
         /\ Held(x, i)' = {} /\ \A c \in Conns \ {x} : h'[c] = h[c]
         /\ \A c \in CConns :
              Keys(down'[c], i) = Keys(down[c], i) \cup
                                  IF h[x].tgt = c /\ Arrives(c) THEN Held(x, i) ELSE {}
<1>0. h \in [Conns -> Locals] /\ down \in [Conns -> Seq(Msg)] /\ i # 0 /\ CConns \subseteq Conns
  BY ClientConns DEF Hub, IInv, TypeOK, SockTypes, RelayTypes, ReqIds
<1>1. UNCHANGED <<peerEnd, relayEnd, up, pending, job, dials, cwait, Lineno, origin>>
  BY DEF Deliver, daemonVars, clientVars, histVars, Lineno
<1>2. Held(x, i)' = {} /\ \A c \in Conns \ {x} : h'[c] = h[c]
  BY <1>0 DEF Deliver, Held, Idle
<1>3. PICK m : m = h[x].msg /\ m \in Msg
  BY <1>0 DEF Locals
<1>4. Held(x, i) = IF m.run = i THEN {Key(m)} ELSE {}
  <2>1. h[x].pc = "ack" => m.run = 0
    BY <1>3 DEF Hub, ServeInv, ReplyInv, Frame
  <2> QED
    BY <1>0, <1>3, <2>1 DEF Deliver, Held
<1>5. ASSUME NEW c \in CConns
      PROVE  Keys(down'[c], i) = Keys(down[c], i) \cup
                                 IF h[x].tgt = c /\ Arrives(c) THEN Held(x, i) ELSE {}
  <2>1. down'[c] = IF h[x].tgt = c /\ Arrives(c) THEN Append(down[c], m) ELSE down[c]
    BY <1>0, <1>3 DEF Deliver, DownWith
  <2>2. PICK s \in Seq(Msg) : s = down[c]
    BY <1>0
  <2>3. Keys(Append(s, m), i) = Keys(s, i) \cup Held(x, i)
    BY <1>3, <1>4, KeysMore
  <2> QED
    BY <2>1, <2>2, <2>3
<1> QED
  BY <1>1, <1>2, <1>5

\* A client reads a frame.
LEMMA RecvTakes ==
  ASSUME Hub, LineInv, NEW cl \in Clients, ClientRecv(cl), NEW i \in ReqIds,
         NEW c, c = CConn(cl), NEW m, m = Head(down[c])
  PROVE  /\ UNCHANGED <<peerEnd, relayEnd, up, h, pending, job, dials, origin>>
         /\ \A y \in Conns \ {c} : down'[y] = down[y]
         /\ Keys(down'[c], i) \subseteq Keys(down[c], i)
         /\ m.run # i => Keys(down'[c], i) = Keys(down[c], i)
         /\ m.run = i => /\ Keys(down[c], i) = {Key(m)} \cup Keys(down'[c], i)
                         /\ Along(i, {Key(m)}, Keys(down'[c], i))
<1>0. c \in CConns /\ c \in Conns /\ down \in [Conns -> Seq(Msg)] /\ down[c] # <<>> /\ InLine(down[c])
  BY ClientConns DEF Hub, IInv, TypeOK, SockTypes, LineInv, ClientRecv
<1>1. down'[c] = Tail(down[c]) /\ \A y \in Conns \ {c} : down'[y] = down[y]
  BY <1>0 DEF ClientRecv
<1>2. UNCHANGED <<peerEnd, relayEnd, up, h, pending, job, dials, origin>>
  BY DEF ClientRecv, relayVars, daemonVars, histVars
<1>3. PICK s \in Seq(Msg) : s = down[c]
  BY <1>0
<1>5. s # <<>> /\ InLine(s) /\ m = Head(s)
  BY <1>0, <1>3
<1>4. /\ Keys(Tail(s), i) \subseteq Keys(s, i)
      /\ m.run # i => Keys(Tail(s), i) = Keys(s, i)
      /\ m.run = i => /\ Keys(s, i) = {Key(m)} \cup Keys(Tail(s), i)
                      /\ Along(i, {Key(m)}, Keys(Tail(s), i))
  BY <1>5, KeysTaken
<1> QED
  BY <1>1, <1>2, <1>3, <1>4

\* What there is of a command is of one that has begun.
Placed(k, i) ==
  \/ \E c \in Conns : k \in Coming(c, i)
  \/ \E c \in CConns : k \in Keys(down[c], i)
  \/ \E cl \in Clients : Waits(cl, i) /\ k \in Seen(cl)
AllBegun == \A i \in ReqIds : \A k : Placed(k, i) => job[i].st # "none"

LEMMA PlacedBegun == Hub /\ MarkInv => AllBegun
<1> SUFFICES ASSUME Hub, MarkInv, NEW i \in ReqIds, NEW k, Placed(k, i) PROVE job[i].st # "none"
  BY DEF AllBegun
<1> QED
  BY PrintedKeys DEF Placed

LEMMA PlacedNext ==
  ASSUME Hub, MarkInv, Next, Hub', MarkInv', NEW i \in ReqIds, NEW k, Placed(k, i)'
  PROVE  job[i].st # "none"
<1>1. (Hub /\ MarkInv => AllBegun)'
  BY PlacedBegun, PTL
<1>2. job'[i].st # "none"
  BY <1>1 DEF AllBegun
<1>3. ASSUME NEW d \in Daemons, DaemonCommand(d) PROVE Placed(k, i)
  <2>1. UNCHANGED <<up, h, Lineno, cwait, origin>>
    BY <1>3 DEF DaemonCommand, relayVars, clientVars, histVars, Lineno
  <2>2. \A c \in CConns : down'[c] = down[c]
    <3>1. \A c \in CConns : c \in Conns /\ c # Live(d)
      BY ClientConns
    <3> QED
      BY <1>3, <3>1 DEF DaemonCommand, Hub, IInv, TypeOK, SockTypes
  <2>3. \A c \in Conns : Coming(c, i)' = Coming(c, i)
    BY <2>1 DEF Coming, Held, Keys, Key
  <2>4. \A c \in CConns : Keys(down[c], i)' = Keys(down[c], i)
    BY <2>2 DEF Keys, Key
  <2>5. \A cl \in Clients : Waits(cl, i)' = Waits(cl, i) /\ Seen(cl)' = Seen(cl)
    BY <2>1 DEF Waits, Seen
  <2> QED
    BY <2>3, <2>4, <2>5 DEF Placed
<1>4. ASSUME job'[i].st = "none" <=> job[i].st = "none" PROVE job[i].st # "none"
  BY <1>2, <1>4
<1> QED
  BY <1>3, <1>4, PlacedBegun, JobEffect DEF Hub, AllBegun

---------------------------------------------------------------------------
\* Where what is somewhere after a step was before it.
LEMMA UpGrows ==
  ASSUME Hub, MarkInv, LineInv, Next, NEW c \in Conns, NEW i \in ReqIds, NEW k \in Keys(up'[c], i)
  PROVE  \/ k \in Keys(up[c], i)
         \/ (EmitChunk(i) \/ EmitFinal(i)) /\ k = job[i].out + 1 /\ c = Live(job[i].by)
<1>0. up[c] \in Seq(Msg) /\ InLine(up[c])
  BY DEF Hub, IInv, TypeOK, SockTypes, LineInv
<1>1. ASSUME NEW n \in 0 .. Len(up[c]), up'[c] = SubSeq(up[c], 1, n) PROVE k \in Keys(up[c], i)
  <2>1. PICK s, t : s = up[c] /\ t = up'[c]
    OBVIOUS
  <2>2. s \in Seq(Msg) /\ InLine(s) /\ n \in 0 .. Len(s) /\ t = SubSeq(s, 1, n)
    BY <1>0, <1>1, <2>1
  <2>3. Keys(t, i) \subseteq Keys(s, i)
    BY <2>2, KeysPrefix
  <2> QED
    BY <2>1, <2>3
<1>2. CASE HandleReply(c)
  BY <1>2, ReplyTakes
<1> QED
  BY <1>1, <1>2, UpKeys

LEMMA HeldGrows ==
  ASSUME Hub, MarkInv, LineInv, Next, NEW c \in Conns, NEW i \in ReqIds, NEW k \in Held(c, i)'
  PROVE  \/ k \in Held(c, i)
         \/ k \in Keys(up[c], i) /\ Along(i, {k}, Keys(up'[c], i))
<1>1. CASE HandleReply(c)
  <2>1. PICK m : m = Head(up[c])
    OBVIOUS
  <2>2. /\ m.run # i => Held(c, i)' = {}
        /\ m.run = i => /\ Keys(up[c], i) = {Key(m)} \cup Keys(up'[c], i)
                        /\ Along(i, {Key(m)}, Keys(up'[c], i))
                        /\ Held(c, i)' = IF pending[i] = NoEntry THEN {} ELSE {Key(m)}
    BY <1>1, <2>1, ReplyTakes
  <2>3. m.run = i /\ k = Key(m)
    BY <2>2
  <2> QED
    BY <2>2, <2>3
<1>2. CASE Deliver(c)
  BY <1>2, DeliverPasses
<1> QED
  BY <1>1, <1>2, HeldEffect

LEMMA ComingGrows ==
  ASSUME Hub, MarkInv, LineInv, Next, NEW c \in Conns, NEW i \in ReqIds, NEW k \in Coming(c, i)'
  PROVE  \/ k \in Coming(c, i)
         \/ (EmitChunk(i) \/ EmitFinal(i)) /\ k = job[i].out + 1 /\ c = Live(job[i].by)
<1>1. CASE k \in Held(c, i)'
  BY <1>1, HeldGrows DEF Coming
<1>2. CASE k \in Keys(up'[c], i)
  BY <1>2, UpGrows DEF Coming
<1>3. Keys(up[c], i)' = Keys(up'[c], i)
  BY DEF Keys, Key
<1> QED
  BY <1>1, <1>2, <1>3 DEF Coming

LEMMA PassGrows ==
  ASSUME Hub, MarkInv, LineInv, Next, NEW c \in CConns, NEW i \in ReqIds, NEW k \in Keys(down'[c], i)
  PROVE  \/ k \in Keys(down[c], i)
         \/ \E x \in Conns : Deliver(x) /\ k \in Held(x, i)
<1>0. down[c] \in Seq(Msg) /\ InLine(down[c]) /\ c \in Conns /\ Known(down[c]) /\ i # 0
  BY ClientConns DEF Hub, IInv, TypeOK, SockTypes, LineInv, MarkInv, Fits, Known, ReqIds
<1>1. CASE Shrinks(down[c], down'[c])
  <2>1. PICK s, t : s = down[c] /\ t = down'[c]
    OBVIOUS
  <2>2. s \in Seq(Msg) /\ InLine(s) /\ Known(s) /\ Shrinks(s, t)
    BY <1>0, <1>1, <2>1
  <2>3. Keys(t, i) \subseteq Keys(s, i)
    BY <2>2, LineShrinks
  <2> QED
    BY <2>1, <2>3
<1>2. ASSUME NEW m \in Msg, Gets(c, m), down'[c] = Append(down[c], m), k \notin Keys(down[c], i)
      PROVE  \E x \in Conns : Deliver(x) /\ k \in Held(x, i)
  <2>1. PICK s \in Seq(Msg) : s = down[c]
    BY <1>0
  <2>2. Keys(Append(s, m), i) = IF m.run = i THEN Keys(s, i) \cup {Key(m)} ELSE Keys(s, i)
    BY KeysMore
  <2>3. m.run = i /\ k = Key(m)
    BY <1>2, <2>1, <2>2
  <2>4. PICK x \in Conns : Deliver(x) /\ h[x].pc = "deliver" /\ m = h[x].msg
    BY <1>0, <1>2, <2>3, GetsRun
  <2> QED
    BY <2>3, <2>4 DEF Held
<1> QED
  BY <1>0, <1>1, <1>2, DownEffect DEF Hub

\* What a client has shown of the command it waits for.
LEMMA SeenEffect ==
  ASSUME Hub, MarkInv, Next, Hub', MarkInv', NEW cl \in Clients, NEW i \in ReqIds,
         Waits(cl, i)', Lineno'[cl] # <<>>
  PROVE  /\ Waits(cl, i) /\ job[i].st # "none"
         /\ \/ Lineno'[cl] = Lineno[cl]
            \/ /\ ClientRecv(cl) /\ Head(down[CConn(cl)]).run = i
               /\ Head(down[CConn(cl)]).type = "stream_chunk"
               /\ Lineno'[cl] = Append(Lineno[cl], Head(down[CConn(cl)]).seq)
<1>0. Lineno'[cl] \in Seq(Nat)
  <2>1. (Hub => AllNumbered)'
    BY LinesNumbered, PTL
  <2> QED
    BY <2>1 DEF AllNumbered
<1>1. PICK k : k \in Seen(cl)'
  <2>1. 1 \in 1 .. Len(Lineno'[cl])
    BY <1>0
  <2> QED
    BY <2>1 DEF Seen
<1>2. job[i].st # "none"
  BY <1>1, PlacedNext DEF Placed
<1>3. Waits(cl, i) /\ ~\E kind \in Kinds : ClientSend(cl, kind)
  BY <1>2, BegunDrawn, WaitsBefore DEF Begun, Hub, ServeInv
<1>4. ASSUME ClientRecv(cl), NEW m, m = Head(down[CConn(cl)]), Accepts(cl, m), m.type = "stream_chunk"
      PROVE  m.run = i
  <2>1. CConn(cl) \in CConns /\ CConn(cl) \in Conns /\ down[CConn(cl)] # <<>>
        /\ 1 \in 1 .. Len(down[CConn(cl)]) /\ m = down[CConn(cl)][1]
    BY <1>4, ClientConns DEF ClientRecv, Hub, IInv, TypeOK, SockTypes
  <2>2. m.run # 0
    BY <1>4, <2>1 DEF MarkInv
  <2>3. m.run \in ReqIds /\ Waits(cl, m.run)
    BY <1>4, <2>1, <2>2, OutputTaken
  <2> QED
    BY <1>3, <2>3, WaitsOne
<1> QED
  BY <1>2, <1>3, <1>4, ShownEffect

LEMMA SeenGrows ==
  ASSUME Hub, MarkInv, LineInv, Next, Hub', MarkInv', NEW cl \in Clients, NEW i \in ReqIds,
         Waits(cl, i)', NEW k \in Seen(cl)'
  PROVE  /\ Waits(cl, i) /\ job[i].st # "none"
         /\ \/ k \in Seen(cl)
            \/ /\ k \in Keys(down[CConn(cl)], i) /\ Along(i, {k}, Keys(down'[CConn(cl)], i))
               /\ ClientRecv(cl)
<1>0. Lineno'[cl] # <<>> /\ Lineno[cl] \in Seq(Nat)
  BY LinesNumbered DEF AllNumbered, Seen
<1>1. Waits(cl, i) /\ job[i].st # "none"
  BY <1>0, SeenEffect
<1>2. CASE Lineno'[cl] = Lineno[cl]
  BY <1>1, <1>2 DEF Seen
<1>3. ASSUME ClientRecv(cl), NEW m, m = Head(down[CConn(cl)]), m.run = i, m.type = "stream_chunk",
             Lineno'[cl] = Append(Lineno[cl], m.seq)
      PROVE  \/ k \in Seen(cl)
             \/ k \in Keys(down[CConn(cl)], i) /\ Along(i, {k}, Keys(down'[CConn(cl)], i))
  <2>1. k = m.seq \/ k \in Seen(cl)
    BY <1>0, <1>3 DEF Seen
  <2>2. Key(m) = m.seq
    BY <1>3 DEF Key
  <2>3. PICK c : c = CConn(cl) /\ m = Head(down[c])
    BY <1>3
  <2>4. Keys(down[c], i) = {Key(m)} \cup Keys(down'[c], i) /\ Along(i, {Key(m)}, Keys(down'[c], i))
    BY <1>3, <2>3, RecvTakes
  <2> QED
    BY <2>1, <2>2, <2>3, <2>4
<1> QED
  BY <1>0, <1>1, <1>2, <1>3, SeenEffect

\* While the daemon has dialled once, what it has printed comes one way.
LEMMA OneWay ==
  ASSUME Hub, MarkInv, NEW i \in ReqIds, Steady(i), NEW x \in Conns, NEW k \in Coming(x, i)
  PROVE  x = FirstConn(i)
<1>1. PICK m : Sent(x, m) /\ m.run = i
  BY DEF MarkInv, Coming, Held, Keys, ReqIds
<1>2. x \in DConns /\ Owner(x) = job[i].by /\ x[2] <= dials[Owner(x)] /\ dials[Owner(x)] <= 1
  BY <1>1 DEF Sent, Steady
<1>3. x = <<x[1], x[2]>> /\ x[2] \in 1 .. MaxDials /\ x[1] \in Daemons /\ MaxDials \in Nat
  BY <1>2, BoundsAssumption DEF DConns
<1>4. dials[x[1]] \in Nat
  BY <1>3, BoundsAssumption DEF Hub, IInv, TypeOK, DaemonTypes
<1>5. x[2] = 1
  BY <1>2, <1>3, <1>4 DEF Owner
<1> QED
  BY <1>2, <1>3, <1>5 DEF FirstConn, Owner

\* What a daemon adds comes after all there is.
LEMMA AddedLast ==
  ASSUME Hub, MarkInv, NEW i \in ReqIds, EmitChunk(i) \/ EmitFinal(i), NEW k, Placed(k, i)
  PROVE  After(i, k, job[i].out + 1)
<1>1. k \in Nat /\ job[i].out \in Nat /\ (job[i].st = "running" => k <= job[i].out)
  BY PrintedKeys DEF Placed
<1>2. job[i].st = "running"
  BY DEF EmitChunk, EmitFinal
<1> QED
  BY <1>1, <1>2 DEF After

\* The order is kept.
LEMMA LineStep ==
  ASSUME Hub, MarkInv, LineInv, Next, Hub', MarkInv'
  PROVE  LineInv'
<1> USE ClientConns
<1>1. ASSUME NEW i \in ReqIds, NEW c \in Conns, NEW a \in Held(c, i)', NEW b \in Keys(up'[c], i)
      PROVE  After(i, a, b)'
  <2>1. job[i].st # "none"
    <3>1. a \in Coming(c, i)'
      BY <1>1 DEF Coming
    <3> QED
      BY <3>1, PlacedNext DEF Placed
  <2>2. a \in Held(c, i) \/ (a \in Keys(up[c], i) /\ After(i, a, b))
    BY <1>1, HeldGrows DEF Along
  <2>3. Placed(a, i)
    BY <2>2 DEF Placed, Coming
  <2>4. After(i, a, b)
    <3>1. CASE a \in Held(c, i) /\ b \in Keys(up[c], i)
      BY <3>1 DEF LineInv, Along
    <3>2. CASE (EmitChunk(i) \/ EmitFinal(i)) /\ b = job[i].out + 1
      BY <2>3, <3>2, AddedLast
    <3> QED
      BY <1>1, <2>2, <3>1, <3>2, UpGrows
  <2> QED
    BY <2>1, <2>4, AfterStays
<1>2. ASSUME NEW i \in ReqIds, NEW x \in Conns, NEW y \in Conns, x # y,
             NEW k \in Coming(x, i)', k \in Coming(y, i)'
      PROVE  FALSE
  <2>1. CASE k \in Coming(x, i) /\ k \in Coming(y, i)
    BY <1>2, <2>1 DEF LineInv
  <2>2. ASSUME EmitChunk(i) \/ EmitFinal(i), k = job[i].out + 1, k \in Coming(x, i) \/ k \in Coming(y, i)
        PROVE  FALSE
    <3>1. Placed(k, i)
      BY <2>2 DEF Placed
    <3> QED
      BY <2>2, <3>1, AddedLast DEF After
  <2> QED
    BY <1>2, <2>1, <2>2, ComingGrows
<1>3. ASSUME NEW i \in ReqIds, NEW c \in CConns, NEW x \in Conns, NEW a \in Keys(down'[c], i),
             NEW b \in Coming(x, i)'
      PROVE  After(i, a, b)'
  <2>1. job[i].st # "none"
    BY <1>3, PlacedNext DEF Placed
  <2>2. Placed(a, i)
    <3>1. CASE a \in Keys(down[c], i)
      BY <3>1 DEF Placed
    <3>2. ASSUME NEW y \in Conns, a \in Held(y, i) PROVE Placed(a, i)
      BY <3>2 DEF Placed, Coming
    <3> QED
      BY <1>3, <3>1, <3>2, PassGrows
  <2>3. After(i, a, b)
    <3>1. CASE a \in Keys(down[c], i) /\ b \in Coming(x, i)
      BY <3>1 DEF LineInv, Along
    <3>2. CASE (EmitChunk(i) \/ EmitFinal(i)) /\ b = job[i].out + 1
      BY <2>2, <3>2, AddedLast
    <3>3. ASSUME NEW y \in Conns, Deliver(y), a \in Held(y, i), b \in Coming(x, i), x = y
          PROVE  After(i, a, b)
      <4>1. up' = up /\ Held(x, i)' = {}
        BY <3>3, DeliverPasses
      <4>2. Coming(x, i)' = Keys(up[x], i)
        BY <4>1 DEF Coming, Keys, Key
      <4> QED
        BY <1>3, <3>3, <4>2 DEF LineInv, Along
    <3>4. ASSUME NEW y \in Conns, a \in Held(y, i), b \in Coming(x, i), x # y
          PROVE  After(i, a, b)
      <4>1. a \in Coming(y, i)
        BY <3>4 DEF Coming
      <4>2. a # b
        BY <3>4, <4>1 DEF LineInv
      <4>3. ~Steady(i)
        BY <3>4, <4>1, OneWay
      <4> QED
        BY <4>2, <4>3 DEF After
    <3> QED
      BY <1>3, <3>1, <3>2, <3>3, <3>4, PassGrows, ComingGrows
  <2> QED
    BY <2>1, <2>3, AfterStays
<1>4. ASSUME NEW cl \in Clients, NEW i \in ReqIds, Waits(cl, i)',
             NEW a \in 1 .. Len(Lineno'[cl]), NEW b \in 1 .. Len(Lineno'[cl]), a < b
      PROVE  After(i, Lineno[cl][a], Lineno[cl][b])'
  <2>0. Lineno[cl] \in Seq(Nat) /\ Lineno'[cl] # <<>>
    BY <1>4, LinesNumbered DEF AllNumbered
  <2>1. Waits(cl, i) /\ job[i].st # "none"
    BY <1>4, <2>0, SeenEffect
  <2>2. PICK p, q : p = Lineno'[cl][a] /\ q = Lineno'[cl][b]
    OBVIOUS
  <2>7. \A r, t \in 1 .. Len(Lineno[cl]) : r < t => After(i, Lineno[cl][r], Lineno[cl][t])
    BY <2>1 DEF LineInv
  <2>3. ASSUME Lineno'[cl] = Lineno[cl] PROVE After(i, p, q)
    BY <1>4, <2>2, <2>3, <2>7
  <2>4. ASSUME ClientRecv(cl), NEW m, m = Head(down[CConn(cl)]), m.run = i, m.type = "stream_chunk",
               Lineno'[cl] = Append(Lineno[cl], m.seq)
        PROVE  After(i, p, q)
    <3>1. a \in 1 .. Len(Lineno[cl]) /\ p = Lineno[cl][a] /\ p \in Seen(cl)
      BY <1>4, <2>0, <2>2, <2>4 DEF Seen
    <3>2. CASE b \in 1 .. Len(Lineno[cl])
      <4>1. q = Lineno[cl][b]
        BY <2>0, <2>2, <2>4, <3>2
      <4> QED
        BY <1>4, <2>7, <3>1, <3>2, <4>1
    <3>3. CASE b = Len(Lineno[cl]) + 1
      <4>1. q = Key(m)
        BY <2>0, <2>2, <2>4, <3>3 DEF Key
      <4>2. PICK c \in CConns : c = CConn(cl)
        OBVIOUS
      <4>3. Keys(down[c], i) = {Key(m)} \cup Keys(down'[c], i)
        BY <2>4, <4>2, RecvTakes
      <4>4. q \in Keys(down[CConn(cl)], i)
        BY <4>1, <4>2, <4>3
      <4> QED
        BY <2>1, <3>1, <4>4 DEF LineInv, Along
    <3> QED
      BY <1>4, <2>0, <2>4, <3>2, <3>3
  <2>5. After(i, p, q)
    BY <1>4, <2>0, <2>3, <2>4, SeenEffect
  <2>6. After(i, p, q)'
    BY <2>1, <2>5, AfterStays
  <2> QED
    BY <2>2, <2>6 DEF After
<1>5. ASSUME NEW cl \in Clients, NEW i \in ReqIds, Waits(cl, i)', NEW a \in Seen(cl)',
             NEW b \in Keys(down'[CConn(cl)], i)
      PROVE  After(i, a, b)'
  <2>1. Waits(cl, i) /\ job[i].st # "none"
    BY <1>5, SeenGrows
  <2>2. CASE a \in Keys(down[CConn(cl)], i) /\ After(i, a, b)
    BY <2>1, <2>2, AfterStays
  <2>3. CASE a \in Seen(cl)
    <3>1. b \in Keys(down[CConn(cl)], i) \/ \E x \in Conns : b \in Coming(x, i)
      BY <1>5, PassGrows DEF Coming
    <3>2. After(i, a, b)
      BY <2>1, <2>3, <3>1 DEF LineInv, Along
    <3> QED
      BY <2>1, <3>2, AfterStays
  <2> QED
    BY <1>5, <2>2, <2>3, SeenGrows DEF Along
<1>6. ASSUME NEW cl \in Clients, NEW i \in ReqIds, Waits(cl, i)', NEW x \in Conns, NEW a \in Seen(cl)',
             NEW b \in Coming(x, i)'
      PROVE  After(i, a, b)'
  <2>1. Waits(cl, i) /\ job[i].st # "none"
    BY <1>6, SeenGrows
  <2>2. a \in Seen(cl) \/ a \in Keys(down[CConn(cl)], i)
    BY <1>6, SeenGrows
  <2>3. Placed(a, i)
    BY <2>1, <2>2 DEF Placed
  <2>4. After(i, a, b)
    <3>1. CASE b \in Coming(x, i)
      BY <2>1, <2>2, <3>1 DEF LineInv, Along
    <3>2. CASE (EmitChunk(i) \/ EmitFinal(i)) /\ b = job[i].out + 1
      BY <2>3, <3>2, AddedLast
    <3> QED
      BY <1>6, <3>1, <3>2, ComingGrows
  <2> QED
    BY <2>1, <2>4, AfterStays
<1>7. \A i : \A c : Keys(up[c], i)' = Keys(up'[c], i) /\ Keys(down[c], i)' = Keys(down'[c], i)
  BY DEF Keys, Key
<1>8. ASSUME NEW i \in ReqIds, NEW c \in Conns PROVE Along(i, Held(c, i), Keys(up[c], i))'
  BY <1>1, <1>7 DEF Along
<1>9. ASSUME NEW i \in ReqIds, NEW x \in Conns, NEW y \in Conns, x # y
      PROVE  (Coming(x, i) \cap Coming(y, i) = {})'
  BY <1>2, <1>9
<1>10. ASSUME NEW i \in ReqIds, NEW c \in CConns, NEW x \in Conns
       PROVE  Along(i, Keys(down[c], i), Coming(x, i))'
  BY <1>3, <1>7 DEF Along
<1>11. ASSUME NEW cl \in Clients, NEW i \in ReqIds, Waits(cl, i)'
       PROVE  /\ (\A a, b \in 1 .. Len(Lineno[cl]) : a < b => After(i, Lineno[cl][a], Lineno[cl][b]))'
              /\ Along(i, Seen(cl), Keys(down[CConn(cl)], i))'
              /\ \A x \in Conns : Along(i, Seen(cl), Coming(x, i))'
  BY <1>4, <1>5, <1>6, <1>7, <1>11 DEF Along
<1> QED
  BY <1>8, <1>9, <1>10, <1>11, LineUp, LineDown DEF LineInv

---------------------------------------------------------------------------
\* Only a new connection opens.
LEMMA OpenBefore ==
  ASSUME Hub, Next, NEW c \in Conns, Arrives(c)'
  PROVE  \/ Arrives(c)
         \/ \E d \in Daemons : DaemonDial(d) /\ c = <<d, dials[d] + 1>>
         \/ \E cl \in Clients, kind \in Kinds : ClientSend(cl, kind) /\ c = CConn(cl)
<1>0. /\ peerEnd \in [Conns -> BOOLEAN] /\ relayEnd \in [Conns -> BOOLEAN]
      /\ peerEnd'[c] /\ relayEnd'[c]
  BY DEF Hub, IInv, TypeOK, SockTypes, Arrives
<1>1. ASSUME NEW x \in Conns, Handler(x) \/ HandlerBreak(x) PROVE Arrives(c)
  BY <1>0, <1>1
  DEF Handler, RejectRegister, AcceptRegister, Deliver, RejectClient, LookupFails, LookupFinds,
      InsertPending, ForwardSent, ForwardFails, ForwardKill, HandleReply, PendingOf, HandlerEOF, HandlerBreak,
      Unregister, Hangup, Arrives, sockVars
<1>2. ASSUME RelayRestart PROVE FALSE
  BY <1>0, <1>2 DEF RelayRestart
<1>3. ASSUME NEW x, Abandon(x), relayEnd' = relayEnd PROVE Arrives(c)
  BY <1>0, <1>3 DEF Abandon, Arrives
<1>4. ASSUME peerEnd' = peerEnd, relayEnd' = relayEnd PROVE Arrives(c)
  BY <1>0, <1>4 DEF Arrives
<1>5. ASSUME NEW d \in Daemons, DaemonDial(d), c # <<d, dials[d] + 1>> PROVE Arrives(c)
  BY <1>0, <1>5 DEF DaemonDial, Arrives
<1>6. ASSUME NEW d \in Daemons,
             \/ DaemonRegister(d) \/ Disconnected(d) \/ DaemonCommand(d) \/ DaemonNotice(d)
             \/ DaemonExit(d) \/ DaemonCrash(d) \/ SupervisorRestarts(d)
      PROVE  Arrives(c)
  BY <1>3, <1>4, <1>6
  DEF DaemonRegister, Disconnected, DaemonCommand, DaemonNotice, DaemonExit, SupervisorRestarts,
      DaemonCrash, sockVars
<1>7. ASSUME NEW i \in ReqIds, EmitChunk(i) \/ EmitFinal(i) PROVE Arrives(c)
  BY <1>4, <1>7 DEF EmitChunk, EmitFinal
<1>8. ASSUME NEW cl \in Clients, NEW kind \in Kinds, ClientSend(cl, kind), c # CConn(cl) PROVE Arrives(c)
  BY <1>0, <1>8 DEF ClientSend, Arrives
<1>9. ASSUME NEW cl \in Clients, ClientRecv(cl) \/ ClientTimeout(cl) \/ ClientClose(cl) PROVE Arrives(c)
  BY <1>3, <1>4, <1>9 DEF ClientRecv, ClientTimeout, ClientClose, sockVars
<1> QED
  BY <1>1, <1>2, <1>5, <1>6, <1>7, <1>8, <1>9
  DEF Next, DaemonStep, DaemonEOF, DaemonBreak, ClientStep

\* The only way of a command that has begun is not opened again.
LEMMA WayBefore ==
  ASSUME Hub, MarkInv, Next, NEW i \in ReqIds, job[i].st # "none", Steady(i)
  PROVE  /\ FirstConn(i) \in Conns /\ FirstConn(i) \in DConns /\ FirstConn(i) = Live(job[i].by)
         /\ dials[job[i].by] > 0
         /\ Arrives(FirstConn(i))' => Arrives(FirstConn(i))
         /\ pending'[i] # NoEntry => pending[i] # NoEntry
<1>1. PICK d \in Daemons : d = job[i].by
  BY DEF Steady
<1>2. dials[d] = 1 /\ dials[d] \in 1 .. MaxDials
  <2>1. dials[d] > 0 /\ dials[d] <= 1 /\ dials[d] \in 0 .. MaxDials
    BY <1>1 DEF MarkInv, Steady, Hub, IInv, TypeOK, DaemonTypes
  <2> QED
    BY <2>1, BoundsAssumption
<1>3. PICK f : f = <<d, 1>>
  OBVIOUS
<1>4. f = FirstConn(i) /\ f = Live(d) /\ f \in DConns /\ f \in Conns
  BY <1>1, <1>2, <1>3 DEF FirstConn, Live, DConns, Conns
<1>5. ASSUME Arrives(f)' PROVE Arrives(f)
  <2>1. ASSUME NEW e \in Daemons, f = <<e, dials[e] + 1>> PROVE FALSE
    BY <1>2, <1>3, <2>1
  <2>2. \A cl \in Clients : f # CConn(cl)
    BY <1>4, ClientConns
  <2> QED
    BY <1>4, <1>5, <2>1, <2>2, OpenBefore
<1>6. FirstConn(i)' = f
  BY <1>4, AfterStays
<1>7. Arrives(FirstConn(i))' = Arrives(f)'
  BY <1>6 DEF Arrives
<1>8. i < nextId
  BY BegunDrawn DEF Begun, Hub, ServeInv
<1>9. ASSUME NEW c \in Conns, InsertPending(c) PROVE pending'[i] = pending[i]
  <2>1. pending \in [ReqIds -> Entries] /\ nextId # i
    BY <1>8 DEF Hub, IInv, TypeOK, RelayTypes, ReqIds
  <2> QED
    BY <1>9, <2>1 DEF InsertPending
<1> QED
  BY <1>1, <1>2, <1>4, <1>5, <1>7, <1>9, EntryEffect DEF Hub

\* A client that goes on waiting has shown the line that it reads.
LEMMA RecvShows ==
  ASSUME Hub, MarkInv, NEW cl \in Clients, NEW i \in ReqIds, Waits(cl, i), cwait'[cl] # 0, ClientRecv(cl),
         NEW m, m = Head(down[CConn(cl)]), m.run = i
  PROVE  /\ m.type = "stream_chunk" /\ Lineno'[cl] = Append(Lineno[cl], m.seq) /\ Key(m) = m.seq
         /\ m.seq \in Nat /\ m.seq > 0
<1>1. /\ CConn(cl) \in CConns /\ CConn(cl) \in Conns /\ down[CConn(cl)] # <<>>
      /\ 1 \in 1 .. Len(down[CConn(cl)]) /\ m = down[CConn(cl)][1] /\ m.run # 0
      /\ DOMAIN shown = Clients /\ DOMAIN cwait = Clients
  BY ClientConns DEF ClientRecv, Hub, IInv, TypeOK, SockTypes, ClientTypes, ReqIds
<1>2. Accepts(cl, m)
  BY <1>1, OutputTaken
<1>3. m.type = "stream_chunk" /\ Lineno'[cl] = Append(Lineno[cl], m.seq)
  <2>1. /\ m.type = "stream_chunk" /\ shown'[cl] = Append(shown[cl], <<m.run, m.seq>>)
        /\ cwait'[cl] = cwait[cl]
    BY <1>1, <1>2 DEF ClientRecv, ReturnsOn
  <2>2. m \in Msg
    BY <1>1 DEF Hub, IInv, TypeOK, SockTypes
  <2> QED
    BY <2>1, <2>2, LinenoAppend
<1>4. m.seq \in 1 .. job[m.run].out /\ job[m.run].out \in Nat
  BY <1>1, <1>3 DEF MarkInv, Fits, Hub, IInv, TypeOK, DaemonTypes, Jobs
<1> QED
  BY <1>3, <1>4 DEF Key

\* What has been passed on stays so.
LEMMA PassedStays ==
  ASSUME Hub, MarkInv, LineInv, Next, Hub', MarkInv', NEW cl \in Clients, NEW i \in ReqIds,
         Waits(cl, i), Waits(cl, i)', i < nextId
  PROVE  Passed(cl, i) \subseteq Passed(cl, i)'
<1>0. PICK c \in CConns : c = CConn(cl) /\ c \in Conns
  BY ClientConns
<1>1. /\ down[c] \in Seq(Msg) /\ Lineno[cl] \in Seq(Nat) /\ cwait'[cl] # 0
      /\ \A kind \in Kinds : ~ClientSend(cl, kind)
  BY <1>0, WaitsBefore, LinesNumbered DEF AllNumbered, Hub, IInv, TypeOK, SockTypes, Waits
<1>2. Keys(down[c], i)' = Keys(down'[c], i)
  BY DEF Keys, Key
<1>3. Seen(cl) \subseteq Seen(cl)'
  <2>1. \/ Lineno'[cl] = Lineno[cl]
        \/ \E n : Lineno'[cl] = Append(Lineno[cl], n)
    BY <1>1, ShownEffect
  <2>2. /\ Len(Lineno[cl]) \in Nat /\ 1 .. Len(Lineno[cl]) \subseteq 1 .. Len(Lineno'[cl])
        /\ \A j \in 1 .. Len(Lineno[cl]) : Lineno'[cl][j] = Lineno[cl][j]
    BY <1>1, <2>1, SMTT(30)
  <2> QED
    BY <2>2, Zenon DEF Seen
<1>4. Keys(down[c], i) \subseteq Seen(cl)' \cup Keys(down'[c], i)
  <2>1. CASE ClientRecv(cl)
    <3>1. PICK m : m = Head(down[c])
      OBVIOUS
    <3>2. CASE m.run # i
      BY <1>0, <2>1, <3>1, <3>2, RecvTakes
    <3>3. CASE m.run = i
      <4>1. Lineno'[cl] = Append(Lineno[cl], m.seq) /\ Key(m) = m.seq
        BY <1>0, <1>1, <2>1, <3>1, <3>3, RecvShows
      <4>2. Key(m) \in Seen(cl)'
        <5>1. Len(Lineno[cl]) + 1 \in 1 .. Len(Lineno'[cl]) /\ Lineno'[cl][Len(Lineno[cl]) + 1] = m.seq
          BY <1>1, <4>1
        <5> QED
          BY <4>1, <5>1 DEF Seen
      <4>3. Keys(down[c], i) = {Key(m)} \cup Keys(down'[c], i)
        BY <1>0, <2>1, <3>1, <3>3, RecvTakes
      <4> QED
        BY <4>2, <4>3
    <3> QED
      BY <3>2, <3>3
  <2>2. CASE ~ClientRecv(cl)
    <3>1. ~ClientClose(cl)
      <4>1. DOMAIN cwait = Clients
        BY DEF Hub, IInv, TypeOK, ClientTypes
      <4> QED
        BY <1>1, <4>1 DEF ClientClose, GiveUp
    <3>2. ASSUME NEW m \in Msg, down'[c] = Append(down[c], m) PROVE Keys(down[c], i) \subseteq Keys(down'[c], i)
      <4>1. PICK s \in Seq(Msg) : s = down[c]
        BY <1>1
      <4>2. Keys(s, i) \subseteq Keys(Append(s, m), i)
        BY KeysMore
      <4> QED
        BY <3>2, <4>1, <4>2
    <3> QED
      BY <1>0, <2>2, <3>1, <3>2, DownKept
  <2> QED
    BY <2>1, <2>2
<1>5. CConn(cl)' = c
  BY <1>0 DEF CConn
<1>6. Keys(down[CConn(cl)], i)' = Keys(down'[c], i)
  BY <1>0, <1>2 DEF CConn
<1> QED
  BY <1>0, <1>3, <1>4, <1>6 DEF Passed

---------------------------------------------------------------------------
\* The lines that a client has shown are the first ones.
LEMMA ShownWhole ==
  ASSUME Hub, MarkInv, LineInv, Next, Hub', MarkInv', NEW cl \in Clients, NEW i \in ReqIds,
         Waits(cl, i), Waits(cl, i)', Steady(i), Whole(cl, i)
  PROVE  \A j \in 1 .. Len(Lineno'[cl]) : Lineno'[cl][j] = j
<1>0. Lineno[cl] \in Seq(Nat) /\ \A j \in 1 .. Len(Lineno[cl]) : Lineno[cl][j] = j
  BY LinesNumbered DEF AllNumbered, Whole
<1>1. CASE Lineno'[cl] = Lineno[cl]
  BY <1>0, <1>1
<1>2. CASE Lineno'[cl] = <<>>
  BY <1>2
<1>3. ASSUME ClientRecv(cl), NEW m, m = Head(down[CConn(cl)]), m.run = i
      PROVE  \A j \in 1 .. Len(Lineno'[cl]) : Lineno'[cl][j] = j
  <2>1. /\ m.type = "stream_chunk" /\ Lineno'[cl] = Append(Lineno[cl], m.seq) /\ Key(m) = m.seq
        /\ m.seq \in Nat /\ m.seq > 0
    BY <1>3, RecvShows DEF Waits
  <2>2. PICK c \in CConns : c = CConn(cl)
    BY ClientConns
  <2>3. Keys(down[c], i) = {Key(m)} \cup Keys(down'[c], i) /\ Along(i, {Key(m)}, Keys(down'[c], i))
    BY <1>3, <2>2, RecvTakes
  <2>4. PICK k : k = m.seq /\ k \in Nat /\ k > 0
    BY <2>1
  <2>5. k \in Keys(down[c], i) /\ \A n \in Keys(down[c], i) : n = k \/ k < n
    BY <2>1, <2>3, <2>4 DEF Along, After
  <2>6. \A n \in Keys(down[c], i) : n \in Nat
    <3>1. PICK s \in Seq(Msg) : s = down[c]
      BY <2>2, ClientConns DEF Hub, IInv, TypeOK, SockTypes
    <3> QED
      BY <3>1, KeyType
  <2>7. PICK z \in Nat : z = Len(Lineno[cl])
    BY <1>0
  <2>8. Seen(cl) = 1 .. z
    BY <1>0, <2>7 DEF Seen
  <2>9. z < k
    <3>1. \A a \in 1 .. z : a < k
      BY <2>2, <2>5, <2>8 DEF LineInv, Along, After
    <3>2. CASE z = 0
      BY <2>4, <3>2
    <3>3. CASE z # 0
      <4>1. z \in 1 .. z
        BY <2>7, <3>3
      <4> QED
        BY <3>1, <4>1
    <3> QED
      BY <3>2, <3>3
  <2>10. 1 .. k - 1 \subseteq 1 .. z
    <3>1. 1 .. k - 1 \subseteq Passed(cl, i)
      BY <2>2, <2>5 DEF Whole
    <3>2. ASSUME NEW n \in 1 .. k - 1 PROVE n \in 1 .. z
      <4>1. n \in Keys(down[c], i) => FALSE
        BY <2>4, <2>5, <2>6, <3>2
      <4> QED
        BY <2>2, <2>8, <3>1, <4>1 DEF Passed
    <3> QED
      BY <3>2
  <2>11. k = z + 1
    <3>1. CASE k = 1
      BY <2>7, <2>9, <3>1
    <3>2. CASE k # 1
      <4>1. k - 1 \in 1 .. k - 1
        BY <2>4, <3>2
      <4>2. k - 1 \in 1 .. z
        BY <2>10, <4>1
      <4> QED
        BY <2>4, <2>7, <2>9, <4>2
    <3> QED
      BY <3>1, <3>2
  <2> QED
    BY <1>0, <2>1, <2>4, <2>7, <2>11
<1> QED
  BY <1>1, <1>2, <1>3, SeenEffect

\* What is on the way of a command is passed on or still there, unless the
\* way is lost.
LEMMA ComingStays ==
  ASSUME Hub, MarkInv, LineInv, Next, Hub', MarkInv', NEW cl \in Clients, NEW i \in ReqIds,
         Waits(cl, i), Waits(cl, i)', i < nextId, Arrives(CConn(cl)), NEW f \in Conns,
         pending'[i] # NoEntry, pending[i] # NoEntry
  PROVE  /\ Held(f, i) \subseteq Passed(cl, i)' \cup Coming(f, i)'
         /\ \/ Keys(up[f], i) \subseteq Coming(f, i)'
            \/ ~Arrives(f)' /\ \E n \in 0 .. Len(up[f]) : up'[f] = SubSeq(up[f], 1, n)
<1>1. PICK c \in CConns : c = CConn(cl)
  BY ClientConns
<1>2. Keys(up[f], i)' = Keys(up'[f], i) /\ Keys(down[CConn(cl)], i)' = Keys(down'[c], i)
  BY <1>1 DEF Keys, Key, CConn
<1>3. Held(f, i) \subseteq Passed(cl, i)' \cup Coming(f, i)'
  <2>1. CASE HandleReply(f)
    BY <2>1, ReplyTakes
  <2>2. CASE Deliver(f)
    <3> SUFFICES ASSUME NEW k \in Held(f, i) PROVE k \in Keys(down'[c], i)
      BY <1>2 DEF Passed
    <3>1. h[f].pc = "deliver" /\ h[f].msg.run = i
      BY DEF Held
    <3>2. h[f].tgt = c
      BY <1>1, <3>1 DEF Hub, ServeInv, ReplyInv, OutputOf, Waits
    <3> QED
      BY <1>1, <2>2, <3>2, DeliverPasses
  <2>3. ~RelayRestart
    BY DEF RelayRestart
  <2>4. CASE ~HandleReply(f) /\ ~Deliver(f)
    BY <2>3, <2>4, HeldEffect DEF Coming
  <2> QED
    BY <2>1, <2>2, <2>4
<1>4. CASE HandleReply(f)
  <2>1. PICK m : m = Head(up[f])
    OBVIOUS
  <2>2. /\ m.run # i => Keys(up'[f], i) = Keys(up[f], i)
        /\ m.run = i => /\ Keys(up[f], i) = {Key(m)} \cup Keys(up'[f], i)
                        /\ Held(f, i)' = IF pending[i] = NoEntry THEN {} ELSE {Key(m)}
    BY <1>4, <2>1, ReplyTakes
  <2>3. Keys(up[f], i) \subseteq Held(f, i)' \cup Keys(up'[f], i)
    BY <2>2
  <2> QED
    BY <1>2, <1>3, <2>3 DEF Coming
<1> QED
  BY <1>2, <1>3, <1>4, UpKeys DEF Coming

\* A command begins with nothing.
LEMMA WholeBegins ==
  ASSUME Hub, MarkInv, Next, Hub', MarkInv', NEW cl \in Clients, NEW i \in ReqIds,
         Waits(cl, i)', job[i].st = "none", job'[i].st # "none", Steady(i)'
  PROVE  Whole(cl, i)'
<1>1. \A k : ~Placed(k, i)'
  BY PlacedNext
<1>2. Keys(down[CConn(cl)], i)' = {}
  <2>1. PICK c \in CConns : c = CConn(cl)
    BY ClientConns
  <2>2. Keys(down[c], i)' = {}
    BY <1>1 DEF Placed
  <2> QED
    BY <2>1, <2>2 DEF Keys, CConn
<1>3. Lineno'[cl] = <<>>
  BY SeenEffect
<1>4. PICK d \in Daemons : DaemonCommand(d)
  BY JobEffect DEF Hub
<1>5. job'[i].out = 0 /\ job'[i].by = d /\ UNCHANGED <<dials, pending>>
  <2>1. job \in [ReqIds -> Jobs]
    BY DEF Hub, IInv, TypeOK, DaemonTypes
  <2> QED
    BY <1>4, <2>1 DEF DaemonCommand, relayVars
<1>6. PICK f : f = <<d, 1>>
  OBVIOUS
<1>7. f \in Conns /\ FirstConn(i)' = f
  <2>1. dials'[d] > 0 /\ dials'[d] \in 0 .. MaxDials
    BY <1>5 DEF MarkInv, Hub, IInv, TypeOK, DaemonTypes
  <2>2. 1 \in 1 .. MaxDials
    BY <2>1, BoundsAssumption
  <2> QED
    BY <1>5, <1>6, <2>2 DEF FirstConn, Conns, DConns
<1>8. Coming(f, i)' = {}
  BY <1>1, <1>7 DEF Placed
<1>9. Held(FirstConn(i), i)' = {} /\ Keys(up[FirstConn(i)], i)' = {}
  <2>1. Held(f, i)' = {} /\ Keys(up[f], i)' = {}
    BY <1>8 DEF Coming
  <2>2. Held(FirstConn(i), i)' = Held(f, i)' /\ Keys(up[FirstConn(i)], i)' = Keys(up[f], i)'
    BY <1>7 DEF Held, Keys
  <2> QED
    BY <2>1, <2>2
<1>10. 1 .. job'[i].out = {} /\ \A j \in 1 .. Len(Lineno'[cl]) : FALSE
  BY <1>3, <1>5
<1> QED
  BY <1>2, <1>9, <1>10 DEF Whole

\* Nothing gets lost in between.
LEMMA WholeStays ==
  ASSUME Hub, MarkInv, LineInv, Next, Hub', MarkInv', NEW cl \in Clients, NEW i \in ReqIds,
         Waits(cl, i)', job[i].st # "none", Steady(i)', Waits(cl, i) /\ Steady(i) => Whole(cl, i)
  PROVE  Whole(cl, i)'
<1>1. PICK c \in CConns : c = CConn(cl) /\ c \in Conns
  BY ClientConns
<1>2. PICK f \in Conns : f = FirstConn(i)
  BY WayBefore, AfterStays
<1>3. /\ Waits(cl, i) /\ Steady(i) /\ Whole(cl, i) /\ i < nextId
      /\ \A kind \in Kinds : ~ClientSend(cl, kind)
      /\ FirstConn(i)' = f /\ f = Live(job[i].by) /\ f \in DConns /\ dials[job[i].by] > 0
      /\ Arrives(f)' => Arrives(f)
      /\ pending'[i] # NoEntry => pending[i] # NoEntry
  <2>1. i < nextId
    BY BegunDrawn DEF Begun, Hub, ServeInv
  <2>2. Waits(cl, i) /\ \A kind \in Kinds : ~ClientSend(cl, kind)
    BY <2>1, WaitsBefore
  <2>3. Steady(i) /\ FirstConn(i)' = f
    BY <1>2, AfterStays
  <2>4. Arrives(FirstConn(i))' = Arrives(f)'
    BY <2>3 DEF Arrives
  <2> QED
    BY <1>2, <2>1, <2>2, <2>3, <2>4, WayBefore
<1>4. Arrives(c)' => Arrives(c)
  <2>1. \A d \in Daemons : c # <<d, dials[d] + 1>>
    <3>1. \A d \in Daemons : <<d, dials[d] + 1>> # c
      BY <1>1, PeersAssumption DEF CConn
    <3> QED
      BY <3>1
  <2>2. \A x \in Clients : CConn(x) = c => x = cl
    BY <1>1, ClientConns
  <2> QED
    BY <1>1, <1>3, <2>1, <2>2, OpenBefore
<1>5. Passed(cl, i) \subseteq Passed(cl, i)'
  BY <1>3, PassedStays
<1>6. \A j \in 1 .. Len(Lineno'[cl]) : Lineno'[cl][j] = j
  BY <1>3, ShownWhole
<1>7. /\ \A k \in Keys(down[c], i) : 1 .. k - 1 \subseteq Passed(cl, i)
      /\ Arrives(c) =>
           /\ \A k \in Held(f, i) : 1 .. k - 1 \subseteq Passed(cl, i)
           /\ pending[i] # NoEntry =>
                /\ \A k \in Keys(up[f], i) : 1 .. k - 1 \subseteq Passed(cl, i) \cup Coming(f, i)
                /\ Arrives(f) => 1 .. job[i].out \subseteq Passed(cl, i) \cup Coming(f, i)
  BY <1>1, <1>2, <1>3 DEF Whole
<1>8. ASSUME NEW k \in Keys(down'[c], i) PROVE 1 .. k - 1 \subseteq Passed(cl, i)'
  <2>1. CASE k \in Keys(down[c], i)
    BY <1>5, <1>7, <2>1
  <2>2. ASSUME NEW x \in Conns, Deliver(x), k \in Held(x, i), k \notin Keys(down[c], i)
        PROVE  1 .. k - 1 \subseteq Passed(cl, i)
    <3>1. x = f
      BY <1>2, <1>3, <2>2, OneWay DEF Coming
    <3>2. Arrives(c)
      BY <1>8, <2>2, DeliverPasses
    <3> QED
      BY <1>7, <2>2, <3>1, <3>2
  <2> QED
    BY <1>5, <1>8, <2>1, <2>2, PassGrows
<1>9. ASSUME Arrives(c)', NEW k \in Held(f, i)' PROVE 1 .. k - 1 \subseteq Passed(cl, i)'
  <2>1. CASE k \in Held(f, i)
    BY <1>4, <1>5, <1>7, <1>9, <2>1
  <2>2. CASE HandleReply(f)
    <3>1. PICK m : m = Head(up[f])
      OBVIOUS
    <3>2. /\ Held(f, i) = {} /\ (m.run # i => Held(f, i)' = {})
          /\ m.run = i => /\ Keys(up[f], i) = {Key(m)} \cup Keys(up'[f], i)
                          /\ Along(i, {Key(m)}, Keys(up'[f], i))
                          /\ Held(f, i)' = IF pending[i] = NoEntry THEN {} ELSE {Key(m)}
      BY <2>2, <3>1, ReplyTakes
    <3>3. m.run = i /\ k = Key(m) /\ pending[i] # NoEntry
      BY <1>9, <3>2
    <3>4. Coming(f, i) = {k} \cup Keys(up'[f], i) /\ \A n \in Keys(up'[f], i) : k < n
      BY <1>3, <3>2, <3>3 DEF Coming, Along, After
    <3>5. k \in Nat /\ \A n \in Keys(up'[f], i) : n \in Nat
      BY <3>4, PrintedKeys
    <3>6. 1 .. k - 1 \subseteq Passed(cl, i) \cup Coming(f, i)
      BY <1>4, <1>7, <1>9, <3>2, <3>3
    <3>7. \A n \in 1 .. k - 1 : n \notin Coming(f, i)
      BY <3>4, <3>5
    <3> QED
      BY <1>5, <3>6, <3>7
  <2>3. CASE Deliver(f)
    BY <1>9, <2>3, DeliverPasses
  <2> QED
    BY <1>9, <2>1, <2>2, <2>3, HeldEffect
<1> DEFINE Cut == ~Arrives(f)' /\ \E n \in 0 .. Len(up[f]) : up'[f] = SubSeq(up[f], 1, n)
           There == Passed(cl, i)' \cup Coming(f, i)'
<1>10. ASSUME Arrives(c)', pending'[i] # NoEntry
       PROVE  /\ Passed(cl, i) \cup Held(f, i) \subseteq There
              /\ Keys(up[f], i) \subseteq There \/ Cut
  <2>1. Arrives(CConn(cl)) /\ pending[i] # NoEntry
    BY <1>1, <1>3, <1>4, <1>10
  <2> QED
    BY <1>3, <1>5, <1>10, <2>1, ComingStays
<1>11. ASSUME EmitChunk(i) \/ EmitFinal(i), up'[f] # up[f] PROVE Arrives(f) /\ Arrives(f)'
  <2>1. PICK m : up' = UpWith(job[i].by, m)
    BY <1>11 DEF EmitChunk, EmitFinal
  <2>2. up' # up
    BY <1>11
  <2>3. Arrives(f)
    BY <1>3, <2>1, <2>2 DEF UpWith
  <2> QED
    BY <1>11, <2>3 DEF EmitChunk, EmitFinal, Arrives
<1>12. Keys(up[f], i)' = Keys(up'[f], i) /\ Keys(down[c], i)' = Keys(down'[c], i)
       /\ Keys(up'[f], i) \subseteq There
  BY DEF Keys, Key, Coming
<1>13. ASSUME Arrives(c)', pending'[i] # NoEntry, NEW k \in Keys(up'[f], i)
       PROVE  1 .. k - 1 \subseteq There
  <2>1. CASE k \in Keys(up[f], i)
    <3>1. 1 .. k - 1 \subseteq Passed(cl, i) \cup Held(f, i) \cup Keys(up[f], i)
      BY <1>3, <1>4, <1>7, <1>13, <2>1 DEF Coming
    <3>2. ASSUME Cut, NEW n \in 1 .. k - 1, n \in Keys(up[f], i) PROVE n \in There
      <4>1. PICK z \in 0 .. Len(up[f]) : up'[f] = SubSeq(up[f], 1, z)
        BY <3>2
      <4>2. PICK s, t : s = up[f] /\ t = up'[f]
        OBVIOUS
      <4>3. s \in Seq(Msg) /\ InLine(s) /\ z \in 0 .. Len(s) /\ t = SubSeq(s, 1, z) /\ i # 0
        BY <4>1, <4>2 DEF Hub, IInv, TypeOK, SockTypes, LineInv, ReqIds
      <4>4. \A b \in Keys(t, i), p \in Keys(s, i) : p < b => p \in Keys(t, i)
        BY <1>3, <4>3, KeysPrefix
      <4>5. k \in Coming(f, i)
        BY <2>1 DEF Coming
      <4>6. k \in Nat
        BY <4>5, PrintedKeys
      <4>7. n < k
        BY <3>2, <4>6
      <4>8. n \in Keys(t, i)
        BY <1>13, <3>2, <4>2, <4>4, <4>7
      <4> QED
        BY <1>12, <4>2, <4>8
    <3> QED
      BY <1>10, <1>13, <3>1, <3>2
  <2>2. CASE k \notin Keys(up[f], i)
    <3>1. (EmitChunk(i) \/ EmitFinal(i)) /\ k = job[i].out + 1
      BY <1>13, <2>2, UpGrows
    <3>2. Arrives(f) /\ ~Cut
      BY <1>11, <1>13, <2>2, <3>1
    <3>3. job[i].out \in Nat
      BY DEF Hub, IInv, TypeOK, DaemonTypes, Jobs
    <3>4. 1 .. k - 1 \subseteq Passed(cl, i) \cup Held(f, i) \cup Keys(up[f], i)
      BY <1>3, <1>4, <1>7, <1>13, <3>1, <3>2, <3>3 DEF Coming
    <3> QED
      BY <1>10, <1>13, <3>2, <3>4
  <2> QED
    BY <2>1, <2>2
<1>14. ASSUME Arrives(c)', pending'[i] # NoEntry, Arrives(f)'
       PROVE  1 .. job'[i].out \subseteq There
  <2>1. 1 .. job[i].out \subseteq Passed(cl, i) \cup Held(f, i) \cup Keys(up[f], i)
    BY <1>3, <1>4, <1>7, <1>14 DEF Coming
  <2>2. 1 .. job[i].out \subseteq There
    BY <1>10, <1>14, <2>1
  <2>3. job[i].out \in Nat /\ (job'[i].out = job[i].out \/ (EmitChunk(i) /\ job'[i].out = job[i].out + 1))
    BY JobGrows
  <2>4. ASSUME EmitChunk(i) PROVE job[i].out + 1 \in There
    <3>1. PICK m : m = Frame("stream_chunk", i, i, job[i].out + 1)
      OBVIOUS
    <3>2. m \in Msg /\ m.run = i /\ Key(m) = job[i].out + 1 /\ up' = UpWith(job[i].by, m)
      BY <2>4, <3>1, EmitFrame
    <3>3. up'[f] = Append(up[f], m)
      BY <1>3, <1>14, <3>2 DEF UpWith, Hub, IInv, TypeOK, SockTypes
    <3>4. PICK s \in Seq(Msg) : s = up[f]
      BY DEF Hub, IInv, TypeOK, SockTypes
    <3>5. Key(m) \in Keys(Append(s, m), i)
      BY <3>2, KeysMore
    <3> QED
      BY <1>12, <3>2, <3>3, <3>4, <3>5
  <2>5. CASE job'[i].out = job[i].out
    BY <2>2, <2>5
  <2>6. CASE EmitChunk(i) /\ job'[i].out = job[i].out + 1
    <3>1. \A n \in 1 .. job'[i].out : n \in 1 .. job[i].out \/ n = job[i].out + 1
      BY <2>3, <2>6
    <3> QED
      BY <2>2, <2>4, <2>6, <3>1
  <2> QED
    BY <2>3, <2>5, <2>6
<1>15. CConn(cl)' = c
  BY <1>1 DEF CConn
<1>16. /\ Keys(down[CConn(cl)], i)' = Keys(down'[c], i) /\ Arrives(CConn(cl))' = Arrives(c)'
       /\ Held(FirstConn(i), i)' = Held(f, i)' /\ Keys(up[FirstConn(i)], i)' = Keys(up'[f], i)
       /\ Coming(FirstConn(i), i)' = Coming(f, i)' /\ Arrives(FirstConn(i))' = Arrives(f)'
  <2>1. /\ Keys(down[CConn(cl)], i)' = Keys(down'[c], i) /\ Arrives(CConn(cl))' = Arrives(c)'
    BY <1>1, <1>15 DEF Keys, Key, Arrives, CConn
  <2>2. /\ Held(FirstConn(i), i)' = Held(f, i)' /\ Keys(up[FirstConn(i)], i)' = Keys(up'[f], i)
        /\ Arrives(FirstConn(i))' = Arrives(f)' 
    BY <1>3 DEF Held, Keys, Key, Arrives
  <2>3. Coming(FirstConn(i), i)' = Coming(f, i)'
    BY <1>3 DEF Coming, Held, Keys, Key
  <2> QED
    BY <2>1, <2>2, <2>3
<1> QED
  BY <1>6, <1>8, <1>9, <1>13, <1>14, <1>16 DEF Whole

LEMMA WholeStep == Hub /\ MarkInv /\ LineInv /\ WholeInv /\ Next /\ Hub' /\ MarkInv' => WholeInv'
<1> SUFFICES ASSUME Hub, MarkInv, LineInv, WholeInv, Next, Hub', MarkInv',
                    NEW cl \in Clients, NEW i \in ReqIds,
                    Waits(cl, i)', job'[i].st # "none", Steady(i)'
             PROVE  Whole(cl, i)'
  BY DEF WholeInv
<1>1. CASE job[i].st = "none"
  BY <1>1, WholeBegins
<1>2. CASE job[i].st # "none"
  BY <1>2, WholeStays DEF WholeInv
<1> QED
  BY <1>1, <1>2

\* A client shows lines of the command it waits for.
OwnLines(cl) == cwait[cl] # 0 =>
  \A j \in 1 .. Len(shown[cl]) : shown[cl][j][1] \in ReqIds /\ Waits(cl, shown[cl][j][1])
OwnInv == \A cl \in Clients : OwnLines(cl)

LEMMA OwnStep ==
  ASSUME Hub, MarkInv, OwnInv, Next, NEW cl \in Clients
  PROVE  OwnLines(cl)'
<1>0. OwnLines(cl) /\ shown[cl] \in Seq(Lines) /\ CConn(cl) \in CConns /\ CConn(cl) \in Conns
  BY ClientConns DEF OwnInv, Hub, IInv, TypeOK, ClientTypes
<1>1. SUFFICES ASSUME cwait'[cl] # 0, NEW j \in 1 .. Len(shown'[cl]), NEW i, i = shown'[cl][j][1]
               PROVE  i \in ReqIds /\ Waits(cl, i)'
  BY Zenon DEF OwnLines
<1>2. ASSUME i \in ReqIds, Waits(cl, i), cwait'[cl] = cwait[cl] PROVE i \in ReqIds /\ Waits(cl, i)'
  <2>1. origin[i] # NoEntry
    BY <1>0, <1>2, ClientConns DEF Waits, NoEntry
  <2>2. origin'[i] = origin[i]
    BY <1>2, <2>1, OriginStays DEF Hub, ServeInv, OriginInv
  <2> QED
    BY <1>2, <2>2 DEF Waits
<1>3. CASE shown'[cl] = shown[cl] /\ cwait'[cl] \in {0, cwait[cl]}
  <2>1. cwait'[cl] = cwait[cl] /\ cwait[cl] # 0
    BY <1>1, <1>3
  <2>2. i \in ReqIds /\ Waits(cl, i)
    BY <1>0, <1>1, <1>3, <2>1 DEF OwnLines
  <2> QED
    BY <1>2, <2>1, <2>2
<1>4. CASE shown'[cl] = <<>>
  BY <1>1, <1>4
<1>5. ASSUME NEW m, m = Head(down[CConn(cl)]), ClientRecv(cl), Accepts(cl, m), m.type = "stream_chunk",
             shown'[cl] = Append(shown[cl], <<m.run, m.seq>>), cwait'[cl] = cwait[cl]
      PROVE  i \in ReqIds /\ Waits(cl, i)'
  <2>1. PICK z \in Nat : z = Len(shown[cl])
    BY <1>0
  <2>2. j \in 1 .. z \/ (j = z + 1 /\ shown'[cl][j] = <<m.run, m.seq>>)
    BY <1>0, <1>5, <2>1
  <2>3. CASE j \in 1 .. z
    <3>1. shown'[cl][j] = shown[cl][j]
      BY <1>0, <1>5, <2>1, <2>3
    <3>2. i \in ReqIds /\ Waits(cl, i)
      BY <1>0, <1>1, <1>5, <2>1, <2>3, <3>1 DEF OwnLines
    <3> QED
      BY <1>2, <1>5, <3>2
  <2>4. CASE j = z + 1 /\ shown'[cl][j] = <<m.run, m.seq>>
    <3>1. i = m.run
      BY <1>1, <2>4
    <3>2. down[CConn(cl)] \in Seq(Msg) /\ down[CConn(cl)] # <<>>
      BY <1>0, <1>5 DEF ClientRecv, Hub, IInv, TypeOK, SockTypes
    <3>3. m.run # 0
      <4>1. m = down[CConn(cl)][1] /\ 1 \in 1 .. Len(down[CConn(cl)])
        BY <1>5, <3>2
      <4> QED
        BY <1>0, <1>5, <4>1 DEF MarkInv
    <3> QED
      BY <1>2, <1>5, <3>1, <3>2, <3>3, OutputTaken
  <2> QED
    BY <2>2, <2>3, <2>4
<1> QED
  BY <1>3, <1>4, <1>5, LinesEffect

StreamInv == Hub /\ MarkInv /\ LineInv /\ WholeInv /\ OwnInv

LEMMA InitStream == Init => StreamInv
<1> SUFFICES ASSUME Init PROVE StreamInv
  OBVIOUS
<1>1. Hub
  BY InitIInv, InitAuth, InitServe DEF Hub
<1>2. /\ \A c \in Conns : up[c] = <<>> /\ down[c] = <<>> /\ h[c].pc # "deliver"
      /\ \A i \in ReqIds : job[i].st = "none"
      /\ \A cl \in Clients : cwait[cl] = 0
      /\ CConns \subseteq Conns
  BY ClientConns DEF Init, NoJob, Idle
<1>3. \A i, c : (c \in Conns => Held(c, i) = {} /\ Keys(up[c], i) = {} /\ Keys(down[c], i) = {})
  BY <1>2 DEF Held, Keys
<1>4. MarkInv
  BY <1>2 DEF MarkInv, Shows
<1>5. LineInv
  <2>1. InLine(<<>>)
    BY DEF InLine
  <2>2. \A i : \A c \in Conns : Coming(c, i) = {}
    BY <1>3 DEF Coming
  <2> QED
    BY <1>2, <1>3, <2>1, <2>2 DEF LineInv, Along, Waits
<1>6. WholeInv
  BY <1>2 DEF WholeInv
<1>7. OwnInv
  BY <1>2 DEF OwnInv, OwnLines
<1> QED
  BY <1>1, <1>4, <1>5, <1>6, <1>7 DEF StreamInv

LEMMA StepStream == StreamInv /\ [Next]_vars => StreamInv'
<1> SUFFICES ASSUME StreamInv, [Next]_vars PROVE StreamInv'
  OBVIOUS
<1>1. Hub'
  BY StepIInv, StepAuth, StepServe DEF StreamInv, Hub
<1>2. CASE Next
  <2>1. MarkInv'
    BY <1>2, MarkStep DEF StreamInv
  <2>2. OwnInv'
    BY <1>2, OwnStep DEF StreamInv, OwnInv
  <2> QED
    BY <1>1, <1>2, <2>1, <2>2, LineStep, WholeStep DEF StreamInv
<1>3. CASE UNCHANGED vars
  <2>1. /\ UNCHANGED <<up, down, h, job, dials, cwait, Lineno, origin>>
        /\ UNCHANGED <<peerEnd, relayEnd, pending, shown>>
    BY <1>3 DEF vars, Lineno
  <2>2. MarkInv'
    BY <2>1 DEF StreamInv, MarkInv, Sent, Fits, Shows, Waits
  <2>8. OwnInv'
    BY <2>1 DEF StreamInv, OwnInv, OwnLines, Waits
  <2>3. /\ \A i : Steady(i)' = Steady(i) /\ FirstConn(i)' = FirstConn(i)
        /\ \A i, a, b : After(i, a, b)' = After(i, a, b)
        /\ \A cl, i : Waits(cl, i)' = Waits(cl, i) /\ Seen(cl)' = Seen(cl)
        /\ \A c, i : Held(c, i)' = Held(c, i) /\ Coming(c, i)' = Coming(c, i)
        /\ \A c : Arrives(c)' = Arrives(c)
    BY <2>1 DEF Steady, FirstConn, After, Waits, Seen, Held, Coming, Keys, Key, Arrives
  <2>4. /\ \A c, i : Keys(up[c], i)' = Keys(up[c], i) /\ Keys(down[c], i)' = Keys(down[c], i)
        /\ \A c : InLine(up[c])' = InLine(up[c]) /\ InLine(down[c])' = InLine(down[c])
    BY <2>1 DEF Keys, Key, InLine, After, Steady
  <2>5. LineInv'
    BY <2>1, <2>3, <2>4 DEF StreamInv, LineInv, Along
  <2>6. \A cl, i : Passed(cl, i)' = Passed(cl, i) /\ Whole(cl, i)' = Whole(cl, i)
    BY <2>1 DEF Whole, Passed, Coming, Held, Keys, Key, Seen, FirstConn, Arrives, CConn
  <2>7. WholeInv'
    BY <2>1, <2>3, <2>6 DEF StreamInv, WholeInv
  <2> QED
    BY <1>1, <2>2, <2>5, <2>7, <2>8 DEF StreamInv
<1> QED
  BY <1>2, <1>3

\* When a client takes its final frame, its lines are there.
LEMMA CompletesWhole ==
  ASSUME StreamInv, [Next]_vars, NEW cl \in Clients, StreamCompletes(cl)
  PROVE  /\ AskedBy(cl, LastFrame(cl).run)
         /\ LastFrame(cl).run \in Nat /\ LastFrame(cl).seq \in Nat
         /\ \A j \in 1 .. Len(shown[cl]) : shown[cl][j][1] = LastFrame(cl).run
         /\ \A j \in 1 .. Len(shown[cl]) : Lineno[cl][j] \in 1 .. LastFrame(cl).seq
         /\ IsInjective(Lineno[cl])
         /\ (\A d \in Daemons : NameOf[d] = WantName[cl] => dials[d] <= 1) =>
              Lineno[cl] = [j \in 1 .. LastFrame(cl).seq |-> j]
<1>0. Hub /\ MarkInv /\ LineInv /\ WholeInv /\ OwnInv /\ Next
  BY DEF StreamInv, StreamCompletes, vars
<1>1. PICK k \in 1 .. MaxExec : k = cwait[cl] /\ answer'[cl][k] = "output" /\ answer[cl][k] = "none"
  <2>1. cwait[cl] = csent[cl] /\ csent[cl] \in Nat /\ csent[cl] # 0 /\ csent[cl] <= MaxExec /\ MaxExec \in Nat
        /\ answer[cl][cwait[cl]] = "none"
    BY <1>0, BoundsAssumption
    DEF Hub, ServeInv, WaitInv, StreamCompletes, IInv, TypeOK, ClientTypes
  <2>2. cwait[cl] \in 1 .. MaxExec
    BY <2>1
  <2> QED
    BY <2>1, <2>2 DEF StreamCompletes
<1>2. PICK m : ClientRecv(cl) /\ m = Head(down[CConn(cl)]) /\ Accepts(cl, m) /\ Outcome(m) = "output"
  BY <1>0, <1>1, AnswerEffect DEF Hub, ServeInv
<1>3. PICK c \in CConns : c = CConn(cl) /\ c \in Conns /\ Owner(c) = cl
  BY ClientConns
<1>4. /\ down[c] \in Seq(Msg) /\ down[c] # <<>> /\ 1 \in 1 .. Len(down[c]) /\ m = down[c][1] /\ m \in Msg
      /\ Lineno[cl] \in Seq(Nat) /\ DOMAIN cwait = Clients
  BY <1>0, <1>2, <1>3, LinesNumbered DEF AllNumbered, ClientRecv, Hub, IInv, TypeOK, SockTypes, ClientTypes
<1>5. m.run # 0 /\ m.type # "stream_chunk"
  <2>1. m.run # 0
    BY <1>2 DEF Outcome
  <2>2. ReturnsOn(m)
    BY <1>2, <1>3, <1>4 DEF ClientRecv, StreamCompletes
  <2> QED
    BY <2>1, <2>2 DEF ReturnsOn
<1>6. PICK i \in ReqIds : i = m.run /\ Waits(cl, i)
  BY <1>0, <1>2, <1>3, <1>4, <1>5, OutputTaken
<1>7. PICK z \in Nat : /\ z = m.seq /\ z = job[i].out /\ job[i].st # "none" /\ Key(m) = z + 1
                       /\ z = LastFrame(cl).seq /\ i = LastFrame(cl).run
  BY <1>0, <1>2, <1>3, <1>4, <1>5, <1>6 DEF MarkInv, Fits, Key, Msg, LastFrame
<1>8. ASSUME NEW j \in 1 .. Len(Lineno[cl]) PROVE Lineno[cl][j] \in 1 .. z
  <2>1. Lineno[cl] # <<>>
    BY <1>8
  <2>2. PICK n \in ReqIds : Waits(cl, n) /\ \A p \in 1 .. Len(Lineno[cl]) : Lineno[cl][p] \in 1 .. job[n].out
    BY <1>0, <1>6, <2>1 DEF MarkInv, Shows, Waits
  <2>3. n = i
    BY <1>0, <1>6, <2>2, WaitsOne
  <2> QED
    BY <1>7, <1>8, <2>2, <2>3
<1>9. ASSUME NEW j \in 1 .. Len(shown[cl]) PROVE shown[cl][j][1] = i
  <2>1. shown[cl][j][1] \in ReqIds /\ Waits(cl, shown[cl][j][1])
    BY <1>0, <1>6, <1>9 DEF OwnInv, OwnLines, Waits
  <2> QED
    BY <1>0, <1>6, <2>1, WaitsOne
<1>10. IsInjective(Lineno[cl])
  <2> SUFFICES ASSUME NEW a \in 1 .. Len(Lineno[cl]), NEW b \in 1 .. Len(Lineno[cl]), a # b
               PROVE  Lineno[cl][a] # Lineno[cl][b]
    <3>1. PICK q \in Seq(Nat) : q = Lineno[cl]
      BY <1>4
    <3>2. (\A a, b \in 1 .. Len(q) : a # b => q[a] # q[b]) => IsInjective(q)
      BY DEF IsInjective
    <3> QED
      BY <3>1, <3>2
  <2>1. \A p, q \in 1 .. Len(Lineno[cl]) : p < q => After(i, Lineno[cl][p], Lineno[cl][q])
    BY <1>0, <1>6 DEF LineInv
  <2>2. a < b \/ b < a
    BY <1>4
  <2> QED
    BY <2>1, <2>2 DEF After
<1>11. ASSUME \A d \in Daemons : NameOf[d] = WantName[cl] => dials[d] <= 1
       PROVE  Lineno[cl] = [j \in 1 .. z |-> j]
  <2>1. Steady(i)
    <3>1. Entitled(origin[i].conn, job[i].by) /\ job[i].by \in Daemons
      BY <1>0, <1>7 DEF Hub, AuthInv, JobInv, Ordered, ServeInv, OriginInv
    <3>2. NameOf[job[i].by] = WantName[cl]
      BY <1>3, <1>6, <3>1 DEF Entitled, Waits
    <3> QED
      BY <1>11, <3>1, <3>2 DEF Steady
  <2>2. Whole(cl, i)
    BY <1>0, <1>6, <1>7, <2>1 DEF WholeInv
  <2>3. \A j \in 1 .. Len(Lineno[cl]) : Lineno[cl][j] = j
    BY <2>2 DEF Whole
  <2>4. /\ Keys(down[c], i) = {z + 1} \cup Keys(down'[c], i)
        /\ Along(i, {z + 1}, Keys(down'[c], i))
    <3>1. m = Head(down[c])
      BY <1>2, <1>3
    <3>2. /\ Keys(down[c], i) = {Key(m)} \cup Keys(down'[c], i)
          /\ Along(i, {Key(m)}, Keys(down'[c], i))
      BY <1>0, <1>2, <1>3, <1>6, <3>1, RecvTakes
    <3> QED
      BY <1>7, <3>2
  <2>5. \A n \in Keys(down[c], i) : n \in Nat /\ (n = z + 1 \/ z + 1 < n)
    <3>1. PICK s \in Seq(Msg) : s = down[c]
      BY <1>4
    <3>2. Keys(s, i) \subseteq Nat
      BY KeyType
    <3> QED
      BY <2>1, <2>4, <3>1, <3>2 DEF Along, After
  <2>6. ASSUME NEW n \in 1 .. z PROVE n \in 1 .. Len(Lineno[cl])
    <3>1. z + 1 \in Keys(down[c], i)
      BY <2>4
    <3>2. 1 .. (z + 1) - 1 \subseteq Passed(cl, i)
      BY <1>3, <2>2, <3>1 DEF Whole
    <3>3. n \in Passed(cl, i)
      BY <1>7, <2>6, <3>2
    <3>4. n \notin Keys(down[c], i)
      BY <1>7, <2>5, <2>6
    <3>5. n \in Seen(cl)
      BY <1>3, <3>3, <3>4 DEF Passed
    <3> QED
      BY <2>3, <3>5 DEF Seen
  <2>7. ASSUME NEW n \in 1 .. Len(Lineno[cl]) PROVE n \in 1 .. z
    BY <1>8, <2>3, <2>7
  <2>8. Len(Lineno[cl]) = z
    <3>1. PICK l \in Nat : l = Len(Lineno[cl])
      BY <1>4
    <3>2. z > 0 => z \in 1 .. z
      BY <1>7
    <3>3. l > 0 => l \in 1 .. l
      BY <3>1
    <3> QED
      BY <1>7, <2>6, <2>7, <3>1, <3>2, <3>3
  <2>9. Lineno[cl] = [j \in 1 .. z |-> Lineno[cl][j]]
    BY <1>4, <2>8
  <2> QED
    BY <1>7, <2>3, <2>8, <2>9
<1>12. AskedBy(cl, i) /\ i \in Nat
  <2>1. origin[i] \in Entries
    BY <1>0 DEF Hub, IInv, TypeOK, HistTypes
  <2>2. origin[i] = [conn |-> CConn(cl), serverID |-> cwait[cl]]
    BY <1>6, <2>1 DEF Entries, Waits
  <2> QED
    BY <2>2 DEF AskedBy, ReqIds
<1>13. Len(Lineno[cl]) = Len(shown[cl])
  BY <1>0, LinenoType DEF Hub, IInv, TypeOK
<1> QED
  BY <1>7, <1>8, <1>9, <1>10, <1>11, <1>12, <1>13

\* ... as the pairs of a command and a number that StreamFaithful speaks of.
LEMMA CompletesFaithful ==
  ASSUME StreamInv, [Next]_vars, NEW cl \in Clients, StreamCompletes(cl)
  PROVE  /\ AskedBy(cl, LastFrame(cl).run)
         /\ ToSet(shown[cl]) \subseteq ToSet(Printed(cl))
         /\ IsInjective(shown[cl])
         /\ (\A d \in Daemons : NameOf[d] = WantName[cl] => dials[d] <= 1) =>
              shown[cl] = Printed(cl)
<1>1. PICK r, n \in Nat, s \in Seq(Lines), q \in Seq(Nat) :
        /\ r = LastFrame(cl).run /\ n = LastFrame(cl).seq /\ s = shown[cl] /\ q = Lineno[cl]
        /\ Len(q) = Len(s) /\ Len(s) \in Nat
        /\ \A j \in 1 .. Len(s) : s[j] \in Lines /\ q[j] = s[j][2]
  <2>1. ClientTypes
    BY DEF StreamInv, Hub, IInv, TypeOK
  <2>2. shown[cl] \in Seq(Lines)
    BY <2>1 DEF ClientTypes
  <2>3. Lineno[cl] \in Seq(Nat) /\ LastFrame(cl).run \in Nat /\ LastFrame(cl).seq \in Nat
    BY <2>1, CompletesWhole, LinenoType
  <2>4. /\ Len(Lineno[cl]) = Len(shown[cl]) /\ Len(shown[cl]) \in Nat
        /\ \A j \in 1 .. Len(shown[cl]) : shown[cl][j] \in Lines /\ Lineno[cl][j] = shown[cl][j][2]
    BY <2>1, LinenoType
  <2> QED
    BY <2>2, <2>3, <2>4
<1>2. \A j \in 1 .. Len(s) : s[j] = <<r, q[j]>> /\ q[j] \in 1 .. n
  <2>1. \A j \in 1 .. Len(s) : s[j] = <<s[j][1], s[j][2]>>
    BY <1>1 DEF Lines
  <2> QED
    BY <1>1, <2>1, CompletesWhole
<1>3. /\ Printed(cl) = [j \in 1 .. n |-> <<r, j>>]
      /\ \A j \in 1 .. n : j \in DOMAIN Printed(cl) /\ Printed(cl)[j] = <<r, j>>
  BY <1>1 DEF Printed
<1>4. DOMAIN s = 1 .. Len(s) /\ DOMAIN q = 1 .. Len(s)
  BY <1>1
<1>5. ToSet(s) \subseteq ToSet(Printed(cl))
  BY <1>2, <1>3, <1>4 DEF ToSet
<1>6. IsInjective(s)
  <2>1. IsInjective(q)
    BY <1>1, CompletesWhole
  <2>2. \A a, b \in 1 .. Len(s) : q[a] = q[b] => a = b
    BY <1>4, <2>1 DEF IsInjective
  <2>3. \A a, b \in 1 .. Len(s) : s[a] = s[b] => q[a] = q[b]
    BY <1>1
  <2> QED
    BY <1>4, <2>2, <2>3 DEF IsInjective
<1>7. ASSUME q = [j \in 1 .. n |-> j] PROVE s = Printed(cl)
  <2>1. DOMAIN q = 1 .. n /\ \A j \in 1 .. n : q[j] = j
    BY <1>7
  <2>2. Len(s) = n
    BY <1>1, <1>4, <2>1
  <2>3. s = [j \in 1 .. n |-> s[j]]
    BY <1>1, <2>2
  <2>4. \A j \in 1 .. n : s[j] = <<r, j>>
    BY <1>2, <2>1, <2>2
  <2> QED
    BY <1>3, <2>3, <2>4
<1> QED
  BY <1>1, <1>5, <1>6, <1>7, CompletesWhole

\* A streamed command that is reported complete is the one its client asked
\* for, and has been shown without a line of another command and none twice,
\* for any number of clients, daemons, requests in flight, lost connections
\* and take-overs; and while its target has dialled once, line for line
\* (sendStreamChunk, wg.Wait before stream_end, handleStreamChunk,
\* handleStreamEnd, the client's reader).
THEOREM StreamsFaithful == Spec => StreamFaithful
<1>1. Init => StreamInv
  BY InitStream
<1>2. StreamInv /\ [Next]_vars => StreamInv'
  BY StepStream
<1>3. StreamInv /\ [Next]_vars =>
        [\A cl \in Clients : StreamCompletes(cl) =>
           /\ AskedBy(cl, LastFrame(cl).run)
           /\ ToSet(shown[cl]) \subseteq ToSet(Printed(cl))
           /\ IsInjective(shown[cl])
           /\ (\A d \in Daemons : NameOf[d] = WantName[cl] => dials[d] <= 1) =>
                shown[cl] = Printed(cl)]_vars
  BY CompletesFaithful
<1> QED
  BY <1>1, <1>2, <1>3, PTL DEF Spec, StreamFaithful
=============================================================================
