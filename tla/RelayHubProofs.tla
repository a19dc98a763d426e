--------------------------- MODULE RelayHubProofs ---------------------------
(***************************************************************************)
(* Proofs about RelayHub, for any daemons, clients, names, tokens and      *)
(* bounds: type correctness and the exactness of the routing table.        *)
(***************************************************************************)
EXTENDS RelayHub, TLAPS

(***************************************************************************)
(* What may stand in a queue towards the relay: at most one register       *)
(* frame, on a daemon's connection that has not registered yet             *)
(* (TargetDaemon.run sends it once, after dialling; output of earlier      *)
(* commands may overtake it), and client messages only on a client's       *)
(* connection.                                                             *)
(***************************************************************************)
Sane(s, c, first) ==
  /\ s \in Seq(Msg)
  /\ \A j \in 1 .. Len(s) :
       /\ s[j].type = "register" =>
            first /\ \A k \in 1 .. Len(s) : s[k].type = "register" => k = j
       /\ s[j].type \in ClientMsgs => c \in CConns

\* Daemon d has dialled c and not sent its register frame yet.
Unannounced(c) == dproc[c[1]] = "dialled" /\ c[2] = dials[c[1]]
MayRegister(c) == /\ c \in DConns
                  /\ reg[c] = NoReg
                  /\ c[2] <= dials[c[1]]
                  /\ ~Unannounced(c)
QueueInv == \A c \in Conns : Sane(up[c], c, MayRegister(c))

(***************************************************************************)
(* Only daemons' connections that were dialled are registered, with the    *)
(* name and token of their daemon, after their register frame; only        *)
(* registered ones are replaced.                                           *)
(***************************************************************************)
RegInv ==
  /\ \A c \in Conns : reg[c] # NoReg =>
       /\ c \in DConns
       /\ c[2] <= dials[c[1]]
       /\ ~Unannounced(c)
       /\ reg[c] = [name |-> NameOf[Owner(c)], token |-> TokenOf[Owner(c)]]
  /\ \A c \in replaced : reg[c] # NoReg

IInv == TypeOK /\ QueueInv /\ RegInv /\ RegistryExact

---------------------------------------------------------------------------
(***************************************************************************)
(* Frames and queues                                                       *)
(***************************************************************************)

\* Frame builds a message.
LEMMA FrameType ==
  ASSUME NEW t \in MsgTypes, NEW i \in Nat, NEW r \in Nat, NEW s \in Nat
  PROVE  Frame(t, i, r, s) \in Msg /\ Frame(t, i, r, s).type = t
  BY DEF Frame, Msg

\* The first frame of a queue is a message.
LEMMA HeadType ==
  ASSUME NEW s \in Seq(Msg), s # <<>>
  PROVE  Head(s) \in Msg /\ Tail(s) \in Seq(Msg)
  OBVIOUS

\* Appending to one queue keeps all queues sequences of messages.
LEMMA AppendType ==
  ASSUME NEW q \in [Conns -> Seq(Msg)], NEW c, NEW m \in Msg
  PROVE  [q EXCEPT ![c] = Append(@, m)] \in [Conns -> Seq(Msg)]
<1>1. CASE c \in Conns
  <2>1. Append(q[c], m) \in Seq(Msg)
    BY <1>1
  <2> QED
    BY <2>1
<1>2. CASE c \notin Conns
  BY <1>2
<1> QED
  BY <1>1, <1>2

\* A frame to a peer leaves the queues to the peers well typed.
LEMMA DownWithType ==
  ASSUME SockTypes, NEW c, NEW m \in Msg
  PROVE  DownWith(c, m) \in [Conns -> Seq(Msg)]
  BY AppendType DEF DownWith, SockTypes

\* A frame from a daemon leaves the queues to the relay well typed.
LEMMA UpWithType ==
  ASSUME SockTypes, NEW d, NEW m \in Msg
  PROVE  UpWith(d, m) \in [Conns -> Seq(Msg)]
  BY AppendType DEF UpWith, SockTypes

\* An empty queue is sane, ...
LEMMA SaneEmpty ==
  ASSUME NEW c, NEW f \in BOOLEAN
  PROVE  Sane(<<>>, c, f)
  BY DEF Sane

\* ... what is left of one when its first frame is taken, ...
LEMMA SaneTail ==
  ASSUME NEW c, NEW f \in BOOLEAN, NEW s, Sane(s, c, f), s # <<>>
  PROVE  Sane(Tail(s), c, f)
  BY DEF Sane

\* ... whatever the connection may send afterwards if that frame was the
\* register frame, ...
LEMMA SaneRegistered ==
  ASSUME NEW c, NEW f \in BOOLEAN, NEW g \in BOOLEAN, NEW s, Sane(s, c, f),
         s # <<>>, Head(s).type = "register"
  PROVE  Sane(Tail(s), c, g)
  BY DEF Sane

\* ... a prefix of one, ...
LEMMA SanePrefix ==
  ASSUME NEW c, NEW f \in BOOLEAN, NEW s, Sane(s, c, f), NEW n \in 0 .. Len(s)
  PROVE  Sane(SubSeq(s, 1, n), c, f)
  BY DEF Sane

\* ... and one with a frame more that is no register frame and, if it is a
\* client message, stands on a client's connection.
LEMMA SaneAppend ==
  ASSUME NEW c, NEW f \in BOOLEAN, NEW s, Sane(s, c, f), NEW m \in Msg,
         m.type # "register", m.type \in ClientMsgs => c \in CConns
  PROVE  Sane(Append(s, m), c, f)
  BY DEF Sane

\* A register frame may be appended where none could stand.
LEMMA SaneAnnounce ==
  ASSUME NEW c, NEW s, Sane(s, c, FALSE), NEW m \in Msg, m.type = "register"
  PROVE  Sane(Append(s, m), c, TRUE)
  BY DEF Sane, ClientMsgs

---------------------------------------------------------------------------
(***************************************************************************)
(* Types                                                                   *)
(***************************************************************************)

\* The empty entry and the idle handler have the types of their variables.
LEMMA DefaultTypes == NoMsg \in Msg /\ Idle \in Locals /\ NoEntry \in Entries /\ NoJob \in Jobs
  BY DEF NoMsg, Frame, Msg, MsgTypes, Idle, Locals, NoEntry, Entries, NoJob, Jobs

\* What a step leaves alone keeps its type.
LEMMA UnchangedTypes ==
  /\ SockTypes /\ UNCHANGED sockVars => SockTypes'
  /\ RelayTypes /\ UNCHANGED relayVars => RelayTypes'
  /\ DaemonTypes /\ UNCHANGED daemonVars => DaemonTypes'
  /\ ClientTypes /\ UNCHANGED clientVars => ClientTypes'
  /\ HistTypes /\ UNCHANGED histVars => HistTypes'
  BY DEF SockTypes, RelayTypes, DaemonTypes, ClientTypes, HistTypes,
         sockVars, relayVars, daemonVars, clientVars, histVars

\* The frame a handler has read.
LEMMA IncomingType ==
  ASSUME SockTypes, NEW c \in Conns, NEW types, Incoming(c, types)
  PROVE  /\ up[c] # <<>>
         /\ Head(up[c]) \in Msg
         /\ Head(up[c]).id \in Nat
         /\ Head(up[c]).type \in types
         /\ Tail(up[c]) \in Seq(Msg)
<1>1. up[c] \in Seq(Msg) /\ up[c] # <<>>
  BY DEF SockTypes, Incoming
<1>2. Head(up[c]) \in Msg /\ Tail(up[c]) \in Seq(Msg)
  BY <1>1, HeadType
<1> QED
  BY <1>1, <1>2 DEF Incoming, Msg

\* Taking the first frame keeps the queues well typed.
LEMMA ConsumeType ==
  ASSUME SockTypes, NEW c \in Conns, NEW types, Incoming(c, types), Consume(c)
  PROVE  up' \in [Conns -> Seq(Msg)]
  BY IncomingType DEF SockTypes, Consume

\* A handler's locals keep their type.
LEMMA GotoType ==
  ASSUME RelayTypes, NEW c, NEW l \in {"read", "ack", "insert", "forward", "deliver", "kill"},
         NEW t \in Conns \cup {NoConn}, NEW m \in Msg, NEW i \in Nat,
         Goto(c, l, t, m, i)
  PROVE  h' \in [Conns -> Locals]
  BY DEF RelayTypes, Goto, Locals

\* A hangup at the relay keeps types.
LEMMA HangupType ==
  ASSUME SockTypes, RelayTypes, NEW c \in Conns, Hangup(c)
  PROVE  /\ relayEnd' \in [Conns -> BOOLEAN]
         /\ up' \in [Conns -> Seq(Msg)]
         /\ h' \in [Conns -> Locals]
<1>1. relayEnd' \in [Conns -> BOOLEAN]
  BY DEF Hangup, SockTypes
<1>2. up' \in [Conns -> Seq(Msg)]
  BY DEF Hangup, SockTypes
<1>3. h' \in [Conns -> Locals]
  BY DefaultTypes DEF Hangup, RelayTypes
<1> QED
  BY <1>1, <1>2, <1>3

\* An abandoned socket keeps a prefix of what was sent.
LEMMA AbandonType ==
  ASSUME SockTypes, NEW c, Abandon(c), UNCHANGED relayEnd
  PROVE  SockTypes'
<1>1. PICK n \in 0 .. Len(up[c]) : up' = [up EXCEPT ![c] = SubSeq(@, 1, n)]
  BY DEF Abandon
<1>2. up' \in [Conns -> Seq(Msg)]
  <2>1. CASE c \in Conns
    <3>1. SubSeq(up[c], 1, n) \in Seq(Msg)
      BY <2>1 DEF SockTypes
    <3> QED
      BY <1>1, <3>1 DEF SockTypes
  <2>2. CASE c \notin Conns
    BY <1>1, <2>2 DEF SockTypes
  <2> QED
    BY <2>1, <2>2
<1>3. down' \in [Conns -> Seq(Msg)]
  <2>1. down' = [down EXCEPT ![c] = <<>>] /\ down \in [Conns -> Seq(Msg)]
    BY DEF Abandon, SockTypes
  <2>2. <<>> \in Seq(Msg)
    OBVIOUS
  <2> QED
    BY <2>1, <2>2
<1>4. peerEnd' \in [Conns -> BOOLEAN]
  BY DEF Abandon, SockTypes
<1> QED
  BY <1>2, <1>3, <1>4 DEF SockTypes

\* Ending the jobs of a daemon keeps their type.
LEMMA EndJobsType ==
  ASSUME DaemonTypes, NEW d, EndJobs(d)
  PROVE  job' \in [ReqIds -> Jobs]
  BY DEF DaemonTypes, EndJobs, Jobs, Running

\* Only a daemon has a register frame in its queue, ...
LEMMA RegisterOfDaemon ==
  ASSUME SockTypes, QueueInv, NEW c \in Conns, Incoming(c, {"register"})
  PROVE  /\ MayRegister(c)
         /\ Owner(c) \in Daemons
         /\ NameOf[Owner(c)] \in Names
         /\ TokenOf[Owner(c)] \in Tokens
<1>1. up[c] \in Seq(Msg) /\ up[c] # <<>> /\ Head(up[c]).type = "register"
  BY DEF SockTypes, Incoming
<1>2. Len(up[c]) >= 1 /\ Head(up[c]) = up[c][1]
  BY <1>1
<1>3. MayRegister(c)
  BY <1>1, <1>2 DEF QueueInv, Sane
<1>4. Owner(c) \in Daemons
  BY <1>3 DEF MayRegister, DConns, Owner
<1> QED
  BY <1>3, <1>4, ConfigAssumption

\* ... and only a client has client messages in its queue.
LEMMA ClientMsgOfClient ==
  ASSUME SockTypes, QueueInv, NEW c \in Conns, Incoming(c, ClientMsgs)
  PROVE  /\ c \in CConns
         /\ Owner(c) \in Clients
         /\ WantName[Owner(c)] \in Names
         /\ WantToken[Owner(c)] \in Tokens
<1>1. up[c] \in Seq(Msg) /\ up[c] # <<>> /\ Head(up[c]).type \in ClientMsgs
  BY DEF SockTypes, Incoming
<1>2. Len(up[c]) >= 1 /\ Head(up[c]) = up[c][1]
  BY <1>1
<1>3. c \in CConns
  BY <1>1, <1>2 DEF QueueInv, Sane
<1>4. Owner(c) \in Clients
  BY <1>3 DEF CConns, Owner
<1> QED
  BY <1>3, <1>4, ConfigAssumption

\* A refusal is a message.
LEMMA RefusalType ==
  ASSUME SockTypes, NEW c \in Conns, NEW types, Incoming(c, types)
  PROVE  Refusal(Head(up[c])) \in Msg
<1>1. Head(up[c]).id \in Nat
  BY IncomingType
<1> QED
  BY <1>1, FrameType DEF Refusal, errResult, MsgTypes

\* So is the last frame of an execution.
LEMMA FinalType ==
  ASSUME DaemonTypes, NEW i \in ReqIds
  PROVE  FinalFrame(i) \in Msg
<1>1. i \in Nat /\ job[i].out \in Nat
  BY BoundsAssumption DEF DaemonTypes, Jobs, ReqIds
<1> QED
  BY <1>1, FrameType DEF FinalFrame, MsgTypes

\* A daemon that takes a frame leaves well-typed queues.
LEMMA TakeType ==
  ASSUME SockTypes, NEW d, NEW types, DaemonHas(d, types),
         down' = [down EXCEPT ![Live(d)] = Tail(@)],
         UNCHANGED <<peerEnd, relayEnd, up>>
  PROVE  SockTypes'
<1>1. CASE Live(d) \in Conns
  <2>1. down[Live(d)] \in Seq(Msg) /\ down[Live(d)] # <<>>
    BY <1>1 DEF SockTypes, DaemonHas
  <2>2. Tail(down[Live(d)]) \in Seq(Msg)
    BY <2>1, HeadType
  <2> QED
    BY <2>2 DEF SockTypes
<1>2. CASE Live(d) \notin Conns
  BY <1>2 DEF SockTypes
<1> QED
  BY <1>1, <1>2

\* A client that stops waiting keeps types.
LEMMA GiveUpType ==
  ASSUME ClientTypes, NEW cl \in Clients, GiveUp(cl)
  PROVE  ClientTypes'
  BY DEF ClientTypes, GiveUp

\* Every step keeps every variable in its type.  QueueInv and RegInv are
\* needed where a handler looks up the owner of a connection: only a daemon
\* has a name to register, only a client a name it wants.
LEMMA TypeStep == TypeOK /\ QueueInv /\ Next => TypeOK'
<1> SUFFICES ASSUME TypeOK, QueueInv, Next PROVE TypeOK'
  OBVIOUS
<1>0. SockTypes /\ RelayTypes /\ DaemonTypes /\ ClientTypes /\ HistTypes
  BY DEF TypeOK
<1>1. ASSUME NEW c \in Conns, RejectRegister(c) PROVE TypeOK'
  <2>1. Hangup(c) /\ \E t \in {"error", "taken"} : down' = DownWith(c, Frame(t, 0, 0, 0))
    BY <1>1 DEF RejectRegister
  <2>2. down' \in [Conns -> Seq(Msg)]
    BY <1>0, <2>1, FrameType, DownWithType DEF MsgTypes
  <2>3. SockTypes' /\ RelayTypes'
    BY <1>0, <1>1, <2>1, <2>2, HangupType DEF RejectRegister, SockTypes, RelayTypes
  <2> QED
    BY <1>0, <1>1, <2>3, UnchangedTypes DEF RejectRegister, histVars, TypeOK
<1>2. ASSUME NEW c \in Conns, AcceptRegister(c) PROVE TypeOK'
  <2>1. NameOf[Owner(c)] \in Names /\ TokenOf[Owner(c)] \in Tokens
    BY <1>0, <1>2, RegisterOfDaemon DEF AcceptRegister
  <2>2. clients[NameOf[Owner(c)]] \in Conns \cup {NoConn}
    BY <1>0, <2>1 DEF RelayTypes
  <2>3. down' \in [Conns -> Seq(Msg)] /\ replaced' \in SUBSET Conns
        /\ overtaken' \in SUBSET Conns
    <3>1. Frame("replaced", 0, 0, 0) \in Msg
      BY FrameType DEF MsgTypes
    <3>2. DownWith(clients[NameOf[Owner(c)]], Frame("replaced", 0, 0, 0)) \in [Conns -> Seq(Msg)]
      BY <1>0, <3>1, DownWithType
    <3> QED
      BY <1>0, <1>2, <2>2, <3>2 DEF AcceptRegister, NotifyReplaced, SockTypes, HistTypes
  <2>4. up' \in [Conns -> Seq(Msg)]
    BY <1>0, <1>2, ConsumeType DEF AcceptRegister
  <2>5. Frame("registered", 0, 0, 0) \in Msg
    BY FrameType DEF MsgTypes
  <2>6. h' \in [Conns -> Locals]
    BY <1>0, <1>2, <2>5, GotoType DEF AcceptRegister
  <2>7. RelayTypes'
    <3>1. clients' \in [Names -> Conns \cup {NoConn}]
      BY <1>0, <1>2 DEF AcceptRegister, RelayTypes
    <3>2. reg' \in [Conns -> [name : Names \cup {NoName}, token : Tokens \cup {NoToken}]]
      BY <1>0, <1>2, <2>1 DEF AcceptRegister, RelayTypes
    <3> QED
      BY <1>0, <1>2, <2>6, <3>1, <3>2 DEF AcceptRegister, RelayTypes
  <2>8. SockTypes'
    BY <1>0, <1>2, <2>3, <2>4 DEF AcceptRegister, SockTypes
  <2>9. HistTypes'
    BY <1>0, <1>2, <2>3 DEF AcceptRegister, HistTypes
  <2> QED
    BY <1>0, <1>2, <2>7, <2>8, <2>9, UnchangedTypes DEF AcceptRegister, TypeOK
<1>3. ASSUME NEW c \in Conns, Deliver(c) PROVE TypeOK'
  <2>1. h[c].msg \in Msg
    BY <1>0 DEF RelayTypes, Locals
  <2>2. down' \in [Conns -> Seq(Msg)]
    BY <1>0, <1>3, <2>1, DownWithType DEF Deliver
  <2>3. SockTypes'
    BY <1>0, <1>3, <2>2 DEF Deliver, SockTypes
  <2>4. RelayTypes'
    BY <1>0, <1>3, DefaultTypes DEF Deliver, RelayTypes
  <2> QED
    BY <1>0, <1>3, <2>3, <2>4, UnchangedTypes DEF Deliver, TypeOK
<1>4. ASSUME NEW c \in Conns, RejectClient(c) PROVE TypeOK'
  <2>1. Hangup(c) /\ down' = DownWith(c, Refusal(Head(up[c])))
    BY <1>4 DEF RejectClient
  <2>2. Refusal(Head(up[c])) \in Msg
    BY <1>0, <1>4, RefusalType DEF RejectClient
  <2>3. down' \in [Conns -> Seq(Msg)]
    BY <1>0, <2>1, <2>2, DownWithType
  <2>4. SockTypes' /\ RelayTypes'
    BY <1>0, <1>4, <2>1, <2>3, HangupType DEF RejectClient, SockTypes, RelayTypes
  <2> QED
    BY <1>0, <1>4, <2>4, UnchangedTypes DEF RejectClient, TypeOK
<1>5. ASSUME NEW c \in Conns, LookupFails(c) PROVE TypeOK'
  <2>1. Refusal(Head(up[c])) \in Msg
    BY <1>0, <1>5, RefusalType DEF LookupFails
  <2>2. down' \in [Conns -> Seq(Msg)]
    BY <1>0, <1>5, <2>1, DownWithType DEF LookupFails
  <2>3. up' \in [Conns -> Seq(Msg)]
    BY <1>0, <1>5, ConsumeType DEF LookupFails
  <2>4. SockTypes'
    BY <1>0, <1>5, <2>2, <2>3 DEF LookupFails, SockTypes
  <2> QED
    BY <1>0, <1>5, <2>4, UnchangedTypes DEF LookupFails, TypeOK
<1>6. ASSUME NEW c \in Conns, LookupFinds(c) PROVE TypeOK'
  <2>1. Incoming(c, ClientMsgs) /\ Consume(c)
    BY <1>6 DEF LookupFinds
  <2>2. Head(up[c]).id \in Nat /\ up' \in [Conns -> Seq(Msg)]
    BY <1>0, <2>1, IncomingType, ConsumeType
  <2>3. WantName[Owner(c)] \in Names
    BY <1>0, <2>1, ClientMsgOfClient
  <2>4. clients[WantName[Owner(c)]] \in Conns \cup {NoConn}
    BY <1>0, <2>3 DEF RelayTypes
  <2>5. Frame("disconnect", 0, 0, 0) \in Msg /\ Frame("command", 0, 0, 0) \in Msg
        /\ Frame("command", 0, 0, 1) \in Msg
    BY FrameType DEF MsgTypes
  <2>6. h' \in [Conns -> Locals]
    <3>1. CASE Head(up[c]).type = "disconnect"
      BY <1>0, <1>6, <2>4, <2>5, <3>1, GotoType DEF LookupFinds
    <3>2. CASE Head(up[c]).type # "disconnect"
      BY <1>0, <1>6, <2>2, <2>4, <2>5, <3>2, GotoType DEF LookupFinds
    <3> QED
      BY <3>1, <3>2
  <2>7. SockTypes'
    BY <1>0, <1>6, <2>2 DEF LookupFinds, SockTypes
  <2>8. RelayTypes'
    BY <1>0, <1>6, <2>6 DEF LookupFinds, RelayTypes
  <2> QED
    BY <1>0, <1>6, <2>7, <2>8, UnchangedTypes DEF LookupFinds, TypeOK
<1>7. ASSUME NEW c \in Conns, InsertPending(c) PROVE TypeOK'
  <2> DEFINE entry == [conn |-> c, serverID |-> h[c].id]
  <2>1. entry \in Entries /\ h[c] \in Locals /\ h[c].msg \in Msg
    BY <1>0 DEF Entries, RelayTypes, Locals
  <2>2. pending' \in [ReqIds -> Entries] /\ origin' \in [ReqIds -> Entries]
    BY <1>0, <1>7, <2>1 DEF InsertPending, RelayTypes, HistTypes
  <2>3. nextId' \in Nat \ {0} /\ nextId \in Nat
    BY <1>0, <1>7 DEF InsertPending, RelayTypes, FreshId
  <2>4. [h[c].msg EXCEPT !.id = nextId] \in Msg
    BY <2>1, <2>3 DEF Msg
  <2>5. h' \in [Conns -> Locals]
    BY <1>0, <1>7, <2>1, <2>4 DEF InsertPending, RelayTypes, Locals
  <2>6. RelayTypes'
    BY <1>0, <1>7, <2>2, <2>3, <2>5 DEF InsertPending, RelayTypes
  <2>7. HistTypes'
    BY <1>0, <1>7, <2>2 DEF InsertPending, HistTypes
  <2> QED
    BY <1>0, <1>7, <2>6, <2>7, UnchangedTypes DEF InsertPending, TypeOK
<1>8. ASSUME NEW c \in Conns, ForwardSent(c) PROVE TypeOK'
  <2>1. h[c].msg \in Msg
    BY <1>0 DEF RelayTypes, Locals
  <2>2. down' \in [Conns -> Seq(Msg)]
    BY <1>0, <1>8, <2>1, DownWithType DEF ForwardSent
  <2>3. SockTypes'
    BY <1>0, <1>8, <2>2 DEF ForwardSent, SockTypes
  <2>4. RelayTypes'
    BY <1>0, <1>8, DefaultTypes DEF ForwardSent, RelayTypes
  <2> QED
    BY <1>0, <1>8, <2>3, <2>4, UnchangedTypes DEF ForwardSent, TypeOK
<1>9. ASSUME NEW c \in Conns, ForwardFails(c) PROVE TypeOK'
  <2>1. h[c].id \in Nat
    BY <1>0 DEF RelayTypes, Locals
  <2>2. errResult(h[c].id) \in Msg
    BY <2>1, FrameType DEF errResult, MsgTypes
  <2>3. down' \in [Conns -> Seq(Msg)]
    BY <1>0, <1>9, <2>2, DownWithType DEF ForwardFails
  <2>4. SockTypes'
    BY <1>0, <1>9, <2>3 DEF ForwardFails, SockTypes
  <2>5. RelayTypes'
    BY <1>0, <1>9, DefaultTypes DEF ForwardFails, RelayTypes
  <2> QED
    BY <1>0, <1>9, <2>4, <2>5, UnchangedTypes DEF ForwardFails, TypeOK
<1>10. ASSUME NEW c \in Conns, ForwardKill(c) PROVE TypeOK'
  <2>1. h[c].msg \in Msg
    BY <1>0 DEF RelayTypes, Locals
  <2>2. Frame("disconnect_confirmed", 0, 0, 0) \in Msg /\ Frame("error", 0, 0, 0) \in Msg
    BY FrameType DEF MsgTypes
  <2>3. DownWith(h[c].tgt, h[c].msg) \in [Conns -> Seq(Msg)]
        /\ DownWith(c, Frame("error", 0, 0, 0)) \in [Conns -> Seq(Msg)]
    BY <1>0, <2>1, <2>2, DownWithType
  <2>4. down' \in [Conns -> Seq(Msg)]
    <3> DEFINE sent == DownWith(h[c].tgt, h[c].msg)
               yes == Frame("disconnect_confirmed", 0, 0, 0)
    <3>1. [sent EXCEPT ![c] = Append(@, yes)] \in [Conns -> Seq(Msg)]
      BY <2>2, <2>3, AppendType
    <3>2. \/ down' = [sent EXCEPT ![c] = Append(@, yes)]
          \/ down' = sent
          \/ down' = DownWith(c, Frame("error", 0, 0, 0))
      BY <1>10 DEF ForwardKill
    <3> QED
      BY <2>3, <3>1, <3>2
  <2>5. SockTypes'
    BY <1>0, <1>10, <2>4 DEF ForwardKill, SockTypes
  <2>6. RelayTypes'
    BY <1>0, <1>10, DefaultTypes DEF ForwardKill, RelayTypes
  <2> QED
    BY <1>0, <1>10, <2>5, <2>6, UnchangedTypes DEF ForwardKill, TypeOK
<1>11. ASSUME NEW c \in Conns, HandleReply(c) PROVE TypeOK'
  <2> DEFINE m == Head(up[c])
             pr == IF m.id \in ReqIds THEN pending[m.id] ELSE NoEntry
  <2>1. Incoming(c, {"result", "stream_chunk", "stream_end"}) /\ Consume(c)
    BY <1>11 DEF HandleReply, PendingOf
  <2>2. m \in Msg /\ up' \in [Conns -> Seq(Msg)]
    BY <1>0, <2>1, IncomingType, ConsumeType
  <2>3. pr \in Entries
    BY <1>0, DefaultTypes DEF RelayTypes
  <2>4. pr.conn \in Conns \cup {NoConn} /\ Translated(m, pr) \in Msg
    BY <2>2, <2>3 DEF Entries, Translated, Msg
  <2>5. h' \in [Conns -> Locals]
    <3>1. CASE pr = NoEntry
      BY <1>0, <1>11, <3>1 DEF HandleReply, PendingOf, RelayTypes
    <3>2. CASE pr # NoEntry
      <4>1. Goto(c, "deliver", pr.conn, Translated(m, pr), 0)
        BY <1>11, <3>2 DEF HandleReply, PendingOf
      <4> QED
        BY <1>0, <2>4, <4>1, GotoType
    <3> QED
      BY <3>1, <3>2
  <2>6. pending' \in [ReqIds -> Entries]
    BY <1>0, <1>11, DefaultTypes DEF HandleReply, PendingOf, RelayTypes
  <2>7. SockTypes'
    BY <1>0, <1>11, <2>2 DEF HandleReply, PendingOf, SockTypes
  <2>8. RelayTypes'
    BY <1>0, <1>11, <2>5, <2>6 DEF HandleReply, PendingOf, RelayTypes
  <2> QED
    BY <1>0, <1>11, <2>7, <2>8, UnchangedTypes DEF HandleReply, PendingOf, TypeOK
<1>12. ASSUME NEW c \in Conns, Unregister(c) PROVE TypeOK'
  <2>1. Hangup(c)
    BY <1>12 DEF Unregister
  <2>2. clients' \in [Names -> Conns \cup {NoConn}] /\ pending' \in [ReqIds -> Entries]
    BY <1>0, <1>12, DefaultTypes DEF Unregister, Unregistered, RelayTypes
  <2>3. SockTypes'
    BY <1>0, <1>12, <2>1, HangupType DEF Unregister, SockTypes
  <2>4. RelayTypes'
    BY <1>0, <1>12, <2>1, <2>2, HangupType DEF Unregister, RelayTypes
  <2> QED
    BY <1>0, <1>12, <2>3, <2>4, UnchangedTypes DEF Unregister, TypeOK
<1>13. CASE RelayRestart
  <2>1. SockTypes'
    BY <1>0, <1>13 DEF RelayRestart, SockTypes
  <2>2. RelayTypes'
    BY <1>0, <1>13, DefaultTypes DEF RelayRestart, RelayTypes
  <2> QED
    BY <1>0, <1>13, <2>1, <2>2, UnchangedTypes DEF RelayRestart, TypeOK
<1>14. ASSUME NEW d \in Daemons, DaemonDial(d) PROVE TypeOK'
  <2>1. SockTypes'
    BY <1>0, <1>14 DEF DaemonDial, SockTypes
  <2>2. DaemonTypes'
    BY <1>0, <1>14, BoundsAssumption DEF DaemonDial, DaemonTypes
  <2> QED
    BY <1>0, <1>14, <2>1, <2>2, UnchangedTypes DEF DaemonDial, TypeOK
<1>14a. ASSUME NEW d \in Daemons, DaemonRegister(d) PROVE TypeOK'
  <2>1. Frame("register", 0, 0, 0) \in Msg
    BY FrameType DEF MsgTypes
  <2>2. SockTypes'
    BY <1>0, <1>14a, <2>1, UpWithType DEF DaemonRegister, SockTypes
  <2>3. DaemonTypes'
    BY <1>0, <1>14a DEF DaemonRegister, DaemonTypes
  <2> QED
    BY <1>0, <1>14a, <2>2, <2>3, UnchangedTypes DEF DaemonRegister, TypeOK
<1>15. ASSUME NEW d \in Daemons, Disconnected(d) PROVE TypeOK'
  <2>1. SockTypes'
    BY <1>0, <1>15, AbandonType DEF Disconnected
  <2>2. DaemonTypes'
    BY <1>0, <1>15 DEF Disconnected, DaemonTypes
  <2> QED
    BY <1>0, <1>15, <2>1, <2>2, UnchangedTypes DEF Disconnected, TypeOK
<1>16. ASSUME NEW d \in Daemons, DaemonCrash(d) PROVE TypeOK'
  <2>1. SockTypes'
    BY <1>0, <1>16, AbandonType DEF DaemonCrash
  <2>2. DaemonTypes'
    BY <1>0, <1>16, EndJobsType DEF DaemonCrash, DaemonTypes
  <2> QED
    BY <1>0, <1>16, <2>1, <2>2, UnchangedTypes DEF DaemonCrash, TypeOK
<1>17. ASSUME NEW d \in Daemons, DaemonCommand(d) PROVE TypeOK'
  <2>1. SockTypes'
    BY <1>0, <1>17, TakeType DEF DaemonCommand
  <2>2. job' \in [ReqIds -> Jobs]
    BY <1>0, <1>17 DEF DaemonCommand, DaemonTypes, Jobs
  <2>3. DaemonTypes'
    BY <1>0, <1>17, <2>2 DEF DaemonCommand, DaemonTypes
  <2> QED
    BY <1>0, <1>17, <2>1, <2>3, UnchangedTypes DEF DaemonCommand, TypeOK
<1>18. ASSUME NEW d \in Daemons, DaemonNotice(d) PROVE TypeOK'
  <2>1. SockTypes'
    BY <1>0, <1>18, TakeType DEF DaemonNotice
  <2> QED
    BY <1>0, <1>18, <2>1, UnchangedTypes DEF DaemonNotice, TypeOK
<1>19. ASSUME NEW d \in Daemons, DaemonExit(d) PROVE TypeOK'
  <2>1. SockTypes'
    BY <1>0, <1>19, AbandonType DEF DaemonExit
  <2>2. DaemonTypes'
    BY <1>0, <1>19, EndJobsType DEF DaemonExit, DaemonTypes
  <2> QED
    BY <1>0, <1>19, <2>1, <2>2, UnchangedTypes DEF DaemonExit, TypeOK
<1>19a. ASSUME NEW d \in Daemons, SupervisorRestarts(d) PROVE TypeOK'
  <2>1. DaemonTypes'
    BY <1>0, <1>19a DEF SupervisorRestarts, DaemonTypes
  <2> QED
    BY <1>0, <1>19a, <2>1, UnchangedTypes DEF SupervisorRestarts, TypeOK
<1>20. ASSUME NEW i \in ReqIds, EmitChunk(i) PROVE TypeOK'
  <2>1. job[i] \in Jobs /\ i \in Nat /\ job[i].out + 1 \in Nat
    BY <1>0, BoundsAssumption DEF DaemonTypes, Jobs, ReqIds
  <2>2. Frame("stream_chunk", i, i, job[i].out + 1) \in Msg
    BY <2>1, FrameType DEF MsgTypes
  <2>3. SockTypes'
    BY <1>0, <1>20, <2>2, UpWithType DEF EmitChunk, SockTypes
  <2>4. DaemonTypes'
    BY <1>0, <1>20, <2>1 DEF EmitChunk, DaemonTypes, Jobs
  <2> QED
    BY <1>0, <1>20, <2>3, <2>4, UnchangedTypes DEF EmitChunk, TypeOK
<1>21. ASSUME NEW i \in ReqIds, EmitFinal(i) PROVE TypeOK'
  <2>1. FinalFrame(i) \in Msg
    BY <1>0, FinalType
  <2>2. SockTypes'
    BY <1>0, <1>21, <2>1, UpWithType DEF EmitFinal, SockTypes
  <2>3. DaemonTypes'
    BY <1>0, <1>21 DEF EmitFinal, DaemonTypes, Jobs
  <2> QED
    BY <1>0, <1>21, <2>2, <2>3, UnchangedTypes DEF EmitFinal, TypeOK
<1>22. ASSUME NEW cl \in Clients, NEW kind \in Kinds, ClientSend(cl, kind) PROVE TypeOK'
  <2> DEFINE c == CConn(cl)
             m == Frame(kind, IF kind = "disconnect" THEN 0 ELSE csent[cl] + 1, 0, 0)
  <2>1. csent[cl] \in Nat
    BY <1>0 DEF ClientTypes
  <2>2. m \in Msg
    <3>1. kind \in MsgTypes
      BY ConfigAssumption DEF MsgTypes
    <3>2. (IF kind = "disconnect" THEN 0 ELSE csent[cl] + 1) \in Nat
      BY <2>1
    <3> QED
      BY <3>1, <3>2, FrameType
  <2>3. <<m>> \in Seq(Msg)
    BY <2>2
  <2>4. up' \in [Conns -> Seq(Msg)]
    <3>1. [up EXCEPT ![c] = Append(@, m)] \in [Conns -> Seq(Msg)]
      BY <1>0, <2>2, AppendType DEF SockTypes
    <3>2. \/ up' = [up EXCEPT ![c] = <<m>>]
          \/ up' = [up EXCEPT ![c] = Append(@, m)]
          \/ up' = up
      BY <1>22 DEF ClientSend
    <3> QED
      BY <1>0, <2>3, <3>1, <3>2 DEF SockTypes
  <2>5. SockTypes'
    BY <1>0, <1>22, <2>4 DEF ClientSend, SockTypes
  <2>6. ClientTypes'
    <3>1. shown' \in [Clients -> Seq(Lines)]
      <4>1. <<>> \in Seq(Lines)
        OBVIOUS
      <4> QED
        BY <1>0, <1>22, <4>1 DEF ClientSend, ClientTypes
    <3>2. UNCHANGED <<answer, heard>>
      BY <1>22 DEF ClientSend
    <3>3. csent' \in [Clients -> Nat] /\ cwait' \in [Clients -> Nat]
          /\ ckind' \in [Clients -> Kinds \cup {"none"}]
      BY <1>0, <1>22, <2>1 DEF ClientSend, ClientTypes
    <3> QED
      BY <1>0, <3>1, <3>2, <3>3 DEF ClientTypes
  <2> QED
    BY <1>0, <1>22, <2>5, <2>6, UnchangedTypes DEF ClientSend, TypeOK
<1>23. ASSUME NEW cl \in Clients, ClientRecv(cl) PROVE TypeOK'
  <2> DEFINE c == CConn(cl)
             m == Head(down[c])
  <2>1. c \in Conns
    BY DEF CConn, Conns, CConns
  <2>2. down[c] \in Seq(Msg) /\ down[c] # <<>>
    BY <1>0, <1>23, <2>1 DEF SockTypes, ClientRecv
  <2>3. m \in Msg /\ Tail(down[c]) \in Seq(Msg)
    BY <2>2, HeadType
  <2>4. SockTypes'
    BY <1>0, <1>23, <2>3 DEF ClientRecv, SockTypes
  <2>5. Outcome(m) \in {"confirmed", "output", "refused"} /\ m.seq \in Nat /\ m.run \in Nat
    BY <2>3 DEF Outcome, Msg
  <2>6. ClientTypes'
    <3>0. /\ cwait \in [Clients -> Nat] /\ shown \in [Clients -> Seq(Lines)]
          /\ UNCHANGED <<csent, ckind>>
      BY <1>0, <1>23 DEF ClientRecv, ClientTypes
    <3>1. cwait' \in [Clients -> Nat]
      <4>1. cwait' = cwait \/ cwait' = [cwait EXCEPT ![cl] = 0]
        BY <1>23 DEF ClientRecv
      <4> QED
        BY <3>0, <4>1
    <3>2. shown' \in [Clients -> Seq(Lines)]
      <4>1. Append(shown[cl], <<m.run, m.seq>>) \in Seq(Lines)
        <5>1. <<m.run, m.seq>> \in Lines
          BY <2>5 DEF Lines
        <5> QED
          BY <3>0, <5>1
      <4>2. shown' = shown \/ shown' = [shown EXCEPT ![cl] = Append(@, <<m.run, m.seq>>)]
        BY <1>23 DEF ClientRecv
      <4> QED
        BY <3>0, <4>1, <4>2
    <3>3. answer' \in [Clients -> [1 .. MaxExec -> {"none", "refused", "output",
                                                   "confirmed", "lost"}]]
      <4>1. answer' = answer \/ answer' = [answer EXCEPT ![cl][cwait[cl]] = Outcome(m)]
        BY <1>23 DEF ClientRecv
      <4>2. [answer[cl] EXCEPT ![cwait[cl]] = Outcome(m)]
              \in [1 .. MaxExec -> {"none", "refused", "output", "confirmed", "lost"}]
        BY <1>0, <2>5 DEF ClientTypes
      <4> QED
        BY <1>0, <4>1, <4>2 DEF ClientTypes
    <3>4. heard' \in [Clients -> [1 .. MaxExec -> Nat]]
      <4>1. heard' = heard \/ heard' = [heard EXCEPT ![cl][cwait[cl]] = m.run]
        BY <1>23 DEF ClientRecv
      <4>2. [heard[cl] EXCEPT ![cwait[cl]] = m.run] \in [1 .. MaxExec -> Nat]
        BY <1>0, <2>5 DEF ClientTypes
      <4> QED
        BY <1>0, <4>1, <4>2 DEF ClientTypes
    <3> QED
      BY <1>0, <3>0, <3>1, <3>2, <3>3, <3>4 DEF ClientTypes
  <2> QED
    BY <1>0, <1>23, <2>4, <2>6, UnchangedTypes DEF ClientRecv, TypeOK
<1>24. ASSUME NEW cl \in Clients, ClientTimeout(cl) PROVE TypeOK'
  <2>1. ClientTypes'
    BY <1>0, <1>24, GiveUpType DEF ClientTimeout
  <2> QED
    BY <1>0, <1>24, <2>1, UnchangedTypes DEF ClientTimeout, TypeOK
<1>25. ASSUME NEW cl \in Clients, ClientClose(cl) PROVE TypeOK'
  <2>1. SockTypes'
    BY <1>0, <1>25, AbandonType DEF ClientClose
  <2>2. ClientTypes'
    BY <1>0, <1>25, GiveUpType DEF ClientClose
  <2> QED
    BY <1>0, <1>25, <2>1, <2>2, UnchangedTypes DEF ClientClose, TypeOK
<1> QED
  BY <1>1, <1>2, <1>3, <1>4, <1>5, <1>6, <1>7, <1>8, <1>9, <1>10, <1>11, <1>12,
     <1>13, <1>14, <1>14a, <1>15, <1>16, <1>17, <1>18, <1>19, <1>19a, <1>20, <1>21, <1>22,
     <1>23, <1>24, <1>25
  DEF Next, Handler, HandlerEOF, HandlerBreak, DaemonStep, DaemonEOF,
      DaemonBreak, ClientStep

---------------------------------------------------------------------------
(***************************************************************************)
(* The queues towards the relay                                            *)
(***************************************************************************)

\* More connections may send a register frame after the step than before.
LEMMA SaneWeaken ==
  ASSUME NEW s, NEW c, NEW f \in BOOLEAN, NEW g \in BOOLEAN, Sane(s, c, f), f => g
  PROVE  Sane(s, c, g)
  BY DEF Sane

\* The step registers and dials no connection.
SameConns ==
  /\ UNCHANGED <<reg, dials>>
  /\ \A d \in Daemons : dproc'[d] = "dialled" => dproc[d] = "dialled"

\* A step that adds no registration keeps every queue it leaves alone or
\* makes sane.
LEMMA QueueKept ==
  ASSUME DaemonTypes, QueueInv, SameConns,
         \A x \in Conns : up'[x] = up[x] \/ Sane(up'[x], x, MayRegister(x))
  PROVE  QueueInv'
<1>1. ASSUME NEW x \in Conns PROVE Sane(up'[x], x, MayRegister(x)')
  <2>1. Sane(up'[x], x, MayRegister(x))
    BY DEF QueueInv
  <2>2. MayRegister(x) => MayRegister(x)'
    BY DEF MayRegister, Unannounced, SameConns, DConns
  <2>3. MayRegister(x) \in BOOLEAN /\ MayRegister(x)' \in BOOLEAN
    BY DEF MayRegister
  <2> QED
    BY <2>1, <2>2, <2>3, SaneWeaken
<1> QED
  BY <1>1 DEF QueueInv

\* Hangup empties a queue, Consume shortens it, Abandon keeps a prefix.
LEMMA QueueHangup ==
  ASSUME SockTypes, DaemonTypes, QueueInv, NEW c \in Conns, Hangup(c),
         SameConns
  PROVE  QueueInv'
<1>1. \A x \in Conns : up'[x] = IF x = c THEN <<>> ELSE up[x]
  BY DEF Hangup, SockTypes
<1>2. Sane(<<>>, c, MayRegister(c))
  BY SaneEmpty DEF MayRegister
<1> QED
  BY <1>1, <1>2, QueueKept

\* A handler that takes a frame keeps the queues sane, ...
LEMMA QueueConsume ==
  ASSUME SockTypes, DaemonTypes, QueueInv, NEW c \in Conns, NEW types,
         Incoming(c, types), Consume(c), SameConns
  PROVE  QueueInv'
<1>1. \A x \in Conns : up'[x] = IF x = c THEN Tail(up[x]) ELSE up[x]
  BY DEF Consume, SockTypes
<1>2. up[c] # <<>> /\ Sane(up[c], c, MayRegister(c)) /\ MayRegister(c) \in BOOLEAN
  BY DEF Incoming, QueueInv, MayRegister
<1>3. Sane(Tail(up[c]), c, MayRegister(c))
  BY <1>2, SaneTail
<1> QED
  BY <1>1, <1>3, QueueKept

\* ... and so does a peer that abandons its socket.
LEMMA QueueAbandon ==
  ASSUME SockTypes, DaemonTypes, QueueInv, NEW c, Abandon(c),
         SameConns
  PROVE  QueueInv'
<1>1. PICK n \in 0 .. Len(up[c]) : up' = [up EXCEPT ![c] = SubSeq(@, 1, n)]
  BY DEF Abandon
<1>2. CASE c \in Conns
  <2>1. Sane(up[c], c, MayRegister(c)) /\ MayRegister(c) \in BOOLEAN
    BY <1>2 DEF QueueInv, MayRegister
  <2>2. Sane(SubSeq(up[c], 1, n), c, MayRegister(c))
    BY <2>1, SanePrefix
  <2>3. \A x \in Conns : up'[x] = IF x = c THEN SubSeq(up[c], 1, n) ELSE up[x]
    BY <1>1 DEF SockTypes
  <2> QED
    BY <2>2, <2>3, QueueKept
<1>3. CASE c \notin Conns
  <2>1. \A x \in Conns : up'[x] = up[x]
    BY <1>1, <1>3 DEF SockTypes
  <2> QED
    BY <2>1, QueueKept
<1> QED
  BY <1>2, <1>3

\* What is appended is neither a register frame nor a client message out of
\* place.
LEMMA QueueAppend ==
  ASSUME SockTypes, DaemonTypes, QueueInv, NEW c, NEW m \in Msg,
         m.type # "register", m.type \in ClientMsgs => c \in CConns,
         up' = [up EXCEPT ![c] = Append(@, m)], SameConns
  PROVE  QueueInv'
<1>1. CASE c \in Conns
  <2>1. Sane(up[c], c, MayRegister(c)) /\ MayRegister(c) \in BOOLEAN
    BY <1>1 DEF QueueInv, MayRegister
  <2>2. Sane(Append(up[c], m), c, MayRegister(c))
    BY <2>1, SaneAppend
  <2>3. \A x \in Conns : up'[x] = IF x = c THEN Append(up[c], m) ELSE up[x]
    BY DEF SockTypes
  <2> QED
    BY <2>2, <2>3, QueueKept
<1>2. CASE c \notin Conns
  <2>1. \A x \in Conns : up'[x] = up[x]
    BY <1>2 DEF SockTypes
  <2> QED
    BY <2>1, QueueKept
<1> QED
  BY <1>1, <1>2

\* A frame of a daemon's execution.
LEMMA QueueOutput ==
  ASSUME SockTypes, DaemonTypes, QueueInv, NEW d, NEW m \in Msg,
         m.type \in {"result", "stream_chunk", "stream_end"},
         up' = UpWith(d, m), SameConns
  PROVE  QueueInv'
<1>1. CASE up' = up
  BY <1>1, QueueKept
<1>2. CASE up' = [up EXCEPT ![Live(d)] = Append(@, m)]
  BY <1>2, QueueAppend DEF ClientMsgs
<1> QED
  BY <1>1, <1>2 DEF UpWith

\* A first frame on a new connection.
LEMMA QueueFirst ==
  ASSUME SockTypes, NEW c \in Conns, NEW m \in Msg, NEW f \in BOOLEAN,
         m.type = "register" => f, m.type \in ClientMsgs => c \in CConns
  PROVE  Sane(<<m>>, c, f)
  BY DEF Sane

\* Every step keeps the queues sane.
LEMMA QueueStep == TypeOK /\ QueueInv /\ RegInv /\ Next => QueueInv'
<1> SUFFICES ASSUME TypeOK, QueueInv, RegInv, Next PROVE QueueInv'
  OBVIOUS
<1>0. SockTypes /\ RelayTypes /\ DaemonTypes /\ ClientTypes
  BY DEF TypeOK
<1>a. ASSUME UNCHANGED <<reg, dials, dproc>> PROVE SameConns
  BY <1>a DEF SameConns
<1>b. ASSUME NEW d, NEW s, UNCHANGED <<reg, dials>>, s # "dialled",
             dproc' = [dproc EXCEPT ![d] = s]
      PROVE  SameConns
  BY <1>0, <1>b DEF SameConns, DaemonTypes
<1>1. ASSUME NEW c \in Conns, RejectRegister(c) PROVE QueueInv'
  BY <1>0, <1>a, <1>1, QueueHangup DEF RejectRegister, daemonVars
<1>2. ASSUME NEW c \in Conns, AcceptRegister(c) PROVE QueueInv'
  <2>1. Consume(c) /\ up[c] # <<>> /\ Head(up[c]).type = "register"
        /\ UNCHANGED <<dials, dproc>>
    BY <1>2 DEF AcceptRegister, Incoming, daemonVars
  <2>2. ASSUME NEW x \in Conns PROVE Sane(up'[x], x, MayRegister(x)')
    <3>1. Sane(up[x], x, MayRegister(x)) /\ MayRegister(x) \in BOOLEAN
          /\ MayRegister(x)' \in BOOLEAN
      BY DEF QueueInv, MayRegister
    <3>2. CASE x = c
      <4>1. up'[x] = Tail(up[x])
        BY <1>0, <2>1, <3>2 DEF Consume, SockTypes
      <4> QED
        BY <2>1, <3>1, <3>2, <4>1, SaneRegistered
    <3>3. CASE x # c
      <4>1. up'[x] = up[x] /\ reg'[x] = reg[x]
        BY <1>0, <1>2, <2>1, <3>3 DEF Consume, SockTypes, RelayTypes, AcceptRegister
      <4>2. MayRegister(x)' = MayRegister(x)
        BY <2>1, <4>1 DEF MayRegister, Unannounced
      <4> QED
        BY <3>1, <4>1, <4>2
    <3> QED
      BY <3>2, <3>3
  <2> QED
    BY <2>2 DEF QueueInv
<1>3. ASSUME NEW c \in Conns, RejectClient(c) PROVE QueueInv'
  BY <1>0, <1>a, <1>3, QueueHangup DEF RejectClient, daemonVars
<1>4. ASSUME NEW c \in Conns, LookupFails(c) PROVE QueueInv'
  BY <1>0, <1>a, <1>4, QueueConsume DEF LookupFails, relayVars, daemonVars
<1>5. ASSUME NEW c \in Conns, LookupFinds(c) PROVE QueueInv'
  BY <1>0, <1>a, <1>5, QueueConsume DEF LookupFinds, daemonVars
<1>6. ASSUME NEW c \in Conns, HandleReply(c) PROVE QueueInv'
  BY <1>0, <1>a, <1>6, QueueConsume DEF HandleReply, PendingOf, daemonVars
<1>7. ASSUME NEW c \in Conns,
             Deliver(c) \/ InsertPending(c) \/ ForwardSent(c)
               \/ ForwardFails(c) \/ ForwardKill(c)
      PROVE QueueInv'
  <2>1. UNCHANGED <<up, reg, dials, dproc>>
    BY <1>7 DEF Deliver, InsertPending, ForwardSent, ForwardFails, ForwardKill,
                sockVars, daemonVars
  <2> QED
    BY <1>0, <1>a, <2>1, QueueKept
<1>8. ASSUME NEW c \in Conns, Unregister(c) PROVE QueueInv'
  BY <1>0, <1>a, <1>8, QueueHangup DEF Unregister, daemonVars
<1>9. CASE RelayRestart
  <2>1. \A x \in Conns : up'[x] = <<>> /\ Sane(<<>>, x, MayRegister(x))
    BY <1>9, SaneEmpty DEF RelayRestart, MayRegister
  <2> QED
    BY <1>0, <1>a, <1>9, <2>1, QueueKept DEF RelayRestart, daemonVars
<1>10. ASSUME NEW d \in Daemons, DaemonDial(d) PROVE QueueInv'
  <2>1. /\ dials' = [dials EXCEPT ![d] = dials[d] + 1]
        /\ dproc' = [dproc EXCEPT ![d] = "dialled"]
        /\ UNCHANGED <<up, reg>>
    BY <1>10 DEF DaemonDial, relayVars
  <2>2. ASSUME NEW x \in Conns PROVE MayRegister(x) => MayRegister(x)'
    <3>1. CASE x \in DConns
      <4>1. x[1] \in Daemons /\ x[2] \in Int /\ dials[x[1]] \in Int
        BY <1>0, <3>1, BoundsAssumption DEF DConns, DaemonTypes
      <4>2. CASE x[1] = d
        <5>1. dials'[x[1]] = dials[x[1]] + 1
          BY <1>0, <2>1, <4>1, <4>2 DEF DaemonTypes
        <5> QED
          BY <2>1, <4>1, <5>1 DEF MayRegister, Unannounced
      <4>3. CASE x[1] # d
        <5>1. dials'[x[1]] = dials[x[1]] /\ dproc'[x[1]] = dproc[x[1]]
          BY <1>0, <2>1, <4>1, <4>3 DEF DaemonTypes
        <5> QED
          BY <2>1, <5>1 DEF MayRegister, Unannounced
      <4> QED
        BY <4>2, <4>3
    <3> QED
      BY <3>1 DEF MayRegister
  <2>3. ASSUME NEW x \in Conns PROVE Sane(up'[x], x, MayRegister(x)')
    <3>1. up'[x] = up[x] /\ Sane(up[x], x, MayRegister(x))
      BY <2>1 DEF QueueInv
    <3>2. MayRegister(x) \in BOOLEAN /\ MayRegister(x)' \in BOOLEAN
      BY DEF MayRegister
    <3> QED
      BY <2>2, <3>1, <3>2, SaneWeaken
  <2> QED
    BY <2>3 DEF QueueInv
<1>10a. ASSUME NEW d \in Daemons, DaemonRegister(d) PROVE QueueInv'
  <2> DEFINE m == Frame("register", 0, 0, 0)
  <2>1. /\ dproc[d] = "dialled"
        /\ dproc' = [dproc EXCEPT ![d] = "up"]
        /\ UNCHANGED <<reg, dials>>
    BY <1>10a DEF DaemonRegister, relayVars
  <2>2. SameConns
    BY <1>b, <2>1
  <2>3. CASE up' = up
    BY <1>0, <2>2, <2>3, QueueKept
  <2>4. CASE dials[d] > 0 /\ up' = [up EXCEPT ![Live(d)] = Append(@, m)]
    <3>1. dials[d] \in 1 .. MaxDials
      BY <1>0, <2>4, BoundsAssumption DEF DaemonTypes
    <3>a. PICK c \in DConns : c = <<d, dials[d]>>
      BY <3>1 DEF DConns
    <3>2. c = Live(d) /\ c \in Conns /\ c[1] = d /\ c[2] = dials[d]
      BY <3>a DEF Live, Conns
    <3>3. Unannounced(c)
      BY <2>1, <3>2 DEF Unannounced
    <3>4. MayRegister(c) = FALSE /\ reg[c] = NoReg
      BY <3>2, <3>3 DEF MayRegister, RegInv
    <3>5. MayRegister(c)' = TRUE
      <4>1. dproc'[d] = "up" /\ dials[d] \in Int
        BY <1>0, <2>1, <3>1, BoundsAssumption DEF DaemonTypes
      <4> QED
        BY <2>1, <3>a, <3>2, <3>4, <4>1 DEF MayRegister, Unannounced
    <3>6. m \in Msg /\ m.type = "register"
      BY FrameType DEF MsgTypes
    <3>7. Sane(Append(up[c], m), c, TRUE)
      BY <3>2, <3>4, <3>6, SaneAnnounce DEF QueueInv
    <3> HIDE DEF m
    <3>8. \A x \in Conns : up'[x] = IF x = c THEN Append(up[c], m) ELSE up[x]
      BY <1>0, <2>4, <3>2 DEF SockTypes
    <3>9. ASSUME NEW x \in Conns, x # c PROVE Sane(up'[x], x, MayRegister(x)')
      <4>1. Sane(up'[x], x, MayRegister(x))
        BY <3>8, <3>9 DEF QueueInv
      <4>2. MayRegister(x) => MayRegister(x)'
        BY <2>2 DEF MayRegister, Unannounced, SameConns, DConns
      <4>3. MayRegister(x) \in BOOLEAN /\ MayRegister(x)' \in BOOLEAN
        BY DEF MayRegister
      <4> QED
        BY <4>1, <4>2, <4>3, SaneWeaken
    <3> QED
      BY <3>5, <3>7, <3>8, <3>9 DEF QueueInv
  <2> QED
    BY <1>10a, <2>3, <2>4 DEF DaemonRegister, UpWith
<1>11. ASSUME NEW d \in Daemons, Disconnected(d) PROVE QueueInv'
  BY <1>0, <1>b, <1>11, QueueAbandon DEF Disconnected, relayVars
<1>12. ASSUME NEW d \in Daemons, DaemonCrash(d) PROVE QueueInv'
  BY <1>0, <1>b, <1>12, QueueAbandon DEF DaemonCrash, relayVars
<1>13. ASSUME NEW d \in Daemons, DaemonCommand(d) \/ DaemonNotice(d) PROVE QueueInv'
  <2>1. UNCHANGED <<up, reg, dials, dproc>>
    BY <1>13 DEF DaemonCommand, DaemonNotice, relayVars, daemonVars
  <2> QED
    BY <1>0, <1>a, <2>1, QueueKept
<1>14. ASSUME NEW d \in Daemons, DaemonExit(d) PROVE QueueInv'
  <2>1. PICK s \in {"replaced", "killed"} : dproc' = [dproc EXCEPT ![d] = s]
    BY <1>14 DEF DaemonExit
  <2>2. Abandon(Live(d)) /\ UNCHANGED <<reg, dials>>
    BY <1>14 DEF DaemonExit, relayVars
  <2>3. SameConns
    BY <1>b, <2>1, <2>2
  <2> QED
    BY <1>0, <2>2, <2>3, QueueAbandon
<1>14a. ASSUME NEW d \in Daemons, SupervisorRestarts(d) PROVE QueueInv'
  <2>1. dproc' = [dproc EXCEPT ![d] = "wait"] /\ UNCHANGED <<up, reg, dials>>
    BY <1>14a DEF SupervisorRestarts, sockVars, relayVars
  <2>2. SameConns
    BY <1>b, <2>1
  <2> QED
    BY <1>0, <2>1, <2>2, QueueKept
<1>15. ASSUME NEW i \in ReqIds, EmitChunk(i) PROVE QueueInv'
  <2>1. i \in Nat /\ job[i].out + 1 \in Nat
    BY <1>0, BoundsAssumption DEF DaemonTypes, Jobs, ReqIds
  <2>2. Frame("stream_chunk", i, i, job[i].out + 1) \in Msg
        /\ Frame("stream_chunk", i, i, job[i].out + 1).type = "stream_chunk"
    <3>1. "stream_chunk" \in MsgTypes
      BY DEF MsgTypes
    <3> QED
      BY <2>1, <3>1, FrameType
  <2> QED
    BY <1>0, <1>a, <1>15, <2>2, QueueOutput DEF EmitChunk, relayVars
<1>16. ASSUME NEW i \in ReqIds, EmitFinal(i) PROVE QueueInv'
  <2>1. FinalFrame(i) \in Msg
    BY <1>0, FinalType
  <2>2. FinalFrame(i).type \in {"result", "stream_end"}
    BY DEF FinalFrame, Frame
  <2> QED
    BY <1>0, <1>a, <1>16, <2>1, <2>2, QueueOutput DEF EmitFinal, relayVars
<1>17. ASSUME NEW cl \in Clients, NEW kind \in Kinds, ClientSend(cl, kind) PROVE QueueInv'
  <2> DEFINE c == CConn(cl)
             m == Frame(kind, IF kind = "disconnect" THEN 0 ELSE csent[cl] + 1, 0, 0)
  <2>1. c \in CConns /\ c \in Conns
    BY DEF CConn, Conns, CConns
  <2>2. m \in Msg /\ m.type = kind
    <3>1. kind \in MsgTypes
      BY ConfigAssumption DEF MsgTypes
    <3>2. (IF kind = "disconnect" THEN 0 ELSE csent[cl] + 1) \in Nat
      BY <1>0 DEF ClientTypes
    <3> QED
      BY <3>1, <3>2, FrameType
  <2>3. m.type # "register"
    BY <2>2, ConfigAssumption
  <2>4. SameConns
    BY <1>a, <1>17 DEF ClientSend, relayVars, daemonVars
  <2> HIDE DEF m, c
  <2>5. CASE up' = [up EXCEPT ![c] = <<m>>]
    <3>1. Sane(<<m>>, c, MayRegister(c))
      BY <1>0, <2>1, <2>2, <2>3, QueueFirst DEF MayRegister
    <3>2. \A x \in Conns : up'[x] = IF x = c THEN <<m>> ELSE up[x]
      BY <1>0, <2>5 DEF SockTypes
    <3> QED
      BY <1>0, <2>4, <3>1, <3>2, QueueKept
  <2>6. CASE up' = [up EXCEPT ![c] = Append(@, m)]
    BY <1>0, <2>1, <2>2, <2>3, <2>4, <2>6, QueueAppend
  <2>7. CASE up' = up
    BY <1>0, <2>4, <2>7, QueueKept
  <2> QED
    BY <1>17, <2>5, <2>6, <2>7 DEF ClientSend, c, m
<1>18. ASSUME NEW cl \in Clients, ClientRecv(cl) \/ ClientTimeout(cl) PROVE QueueInv'
  <2>1. UNCHANGED <<up, reg, dials, dproc>>
    BY <1>18 DEF ClientRecv, ClientTimeout, sockVars, relayVars, daemonVars
  <2> QED
    BY <1>0, <1>a, <2>1, QueueKept
<1>19. ASSUME NEW cl \in Clients, ClientClose(cl) PROVE QueueInv'
  BY <1>0, <1>a, <1>19, QueueAbandon DEF ClientClose, relayVars, daemonVars
<1> QED
  BY <1>1, <1>2, <1>3, <1>4, <1>5, <1>6, <1>7, <1>8, <1>9, <1>10, <1>10a, <1>11,
     <1>12, <1>13, <1>14, <1>14a, <1>15, <1>16, <1>17, <1>18, <1>19
  DEF Next, Handler, HandlerEOF, HandlerBreak, DaemonStep, DaemonEOF,
      DaemonBreak, ClientStep

---------------------------------------------------------------------------
(***************************************************************************)
(* Registrations                                                           *)
(***************************************************************************)

\* Registration is the only step that changes what a connection is
\* registered as; the number of dials only grows.
LEMMA RegStep == TypeOK /\ QueueInv /\ RegInv /\ RegistryExact /\ Next => RegInv'
<1> SUFFICES ASSUME TypeOK, QueueInv, RegInv, RegistryExact, Next PROVE RegInv'
  OBVIOUS
<1>0. SockTypes /\ RelayTypes /\ DaemonTypes /\ HistTypes
  BY DEF TypeOK
<1>1. ASSUME NEW c \in Conns, AcceptRegister(c) PROVE RegInv'
  <2> DEFINE n == NameOf[Owner(c)]
             old == clients[n]
  <2>1. MayRegister(c) /\ n \in Names /\ TokenOf[Owner(c)] \in Tokens
    BY <1>0, <1>1, RegisterOfDaemon DEF AcceptRegister
  <2>2. reg' = [reg EXCEPT ![c] = [name |-> n, token |-> TokenOf[Owner(c)]]]
        /\ UNCHANGED <<dials, dproc>>
    BY <1>1 DEF AcceptRegister, daemonVars
  <2>3. reg'[c] = [name |-> n, token |-> TokenOf[Owner(c)]] /\ reg'[c] # NoReg
    BY <1>0, <2>1, <2>2, PeersAssumption DEF RelayTypes, NoReg
  <2>4. \A x \in Conns \ {c} : reg'[x] = reg[x]
    BY <1>0, <2>2 DEF RelayTypes
  <2>5. \A x \in replaced' : x \in Conns /\ reg'[x] # NoReg
    <3>1. \A x \in replaced : x \in Conns /\ reg'[x] # NoReg
      BY <1>0, <2>3, <2>4 DEF RegInv, HistTypes
    <3>2. CASE old = NoConn
      BY <1>1, <3>1, <3>2 DEF AcceptRegister
    <3>3. CASE old # NoConn
      <4>1. old \in Conns /\ replaced' = replaced \cup {old}
        BY <1>0, <1>1, <2>1, <3>3 DEF AcceptRegister, RelayTypes
      <4>2. reg[old].name = n
        BY <2>1, <4>1 DEF RegistryExact
      <4>3. reg[old] # NoReg
        BY <2>1, <4>2, PeersAssumption DEF NoReg
      <4> QED
        BY <2>3, <2>4, <3>1, <4>1, <4>3
    <3> QED
      BY <3>2, <3>3
  <2>6. \A x \in Conns : reg'[x] # NoReg =>
          /\ x \in DConns
          /\ x[2] <= dials'[x[1]]
          /\ ~Unannounced(x)'
          /\ reg'[x] = [name |-> NameOf[Owner(x)], token |-> TokenOf[Owner(x)]]
    BY <2>1, <2>2, <2>3, <2>4 DEF RegInv, MayRegister, Unannounced
  <2> QED
    BY <2>5, <2>6 DEF RegInv
<1>2. ASSUME NEW d \in Daemons, DaemonDial(d) PROVE RegInv'
  <2>1. /\ dials' = [dials EXCEPT ![d] = dials[d] + 1]
        /\ dproc' = [dproc EXCEPT ![d] = "dialled"]
        /\ UNCHANGED <<reg, replaced>>
    BY <1>2 DEF DaemonDial, relayVars, histVars
  <2>2. ASSUME NEW x \in Conns, reg'[x] # NoReg
        PROVE  x[2] <= dials'[x[1]] /\ ~Unannounced(x)'
    <3>1. x \in DConns /\ x[2] <= dials[x[1]] /\ ~Unannounced(x)
      BY <2>1, <2>2 DEF RegInv
    <3>2. x[1] \in Daemons /\ x[2] \in Int /\ dials[x[1]] \in Int
      BY <1>0, <3>1, BoundsAssumption DEF DConns, DaemonTypes
    <3>3. CASE x[1] = d
      <4>1. dials'[x[1]] = dials[x[1]] + 1
        BY <1>0, <2>1, <3>2, <3>3 DEF DaemonTypes
      <4> QED
        BY <3>1, <3>2, <4>1 DEF Unannounced
    <3>4. CASE x[1] # d
      <4>1. dials'[x[1]] = dials[x[1]] /\ dproc'[x[1]] = dproc[x[1]]
        BY <1>0, <2>1, <3>2, <3>4 DEF DaemonTypes
      <4> QED
        BY <3>1, <4>1 DEF Unannounced
    <3> QED
      BY <3>3, <3>4
  <2> QED
    BY <2>1, <2>2 DEF RegInv
<1>3. ASSUME UNCHANGED replaced, SameConns PROVE RegInv'
  BY <1>3 DEF RegInv, SameConns, Unannounced, DConns
<1>a. ASSUME UNCHANGED <<reg, dials, dproc>> PROVE SameConns
  BY <1>a DEF SameConns
<1>b. ASSUME NEW d, NEW s, UNCHANGED <<reg, dials>>, s # "dialled",
             dproc' = [dproc EXCEPT ![d] = s]
      PROVE  SameConns
  BY <1>0, <1>b DEF SameConns, DaemonTypes
<1>4. ASSUME NEW c \in Conns,
             \/ RejectRegister(c) \/ Deliver(c) \/ RejectClient(c)
             \/ LookupFails(c) \/ LookupFinds(c) \/ InsertPending(c)
             \/ ForwardSent(c) \/ ForwardFails(c) \/ ForwardKill(c)
             \/ HandleReply(c) \/ Unregister(c)
      PROVE  UNCHANGED replaced /\ SameConns
  BY <1>a, <1>4 DEF RejectRegister, Deliver, RejectClient, LookupFails, LookupFinds,
              InsertPending, ForwardSent, ForwardFails, ForwardKill, HandleReply, PendingOf,
              Unregister, relayVars, daemonVars, histVars
<1>5. ASSUME NEW d \in Daemons,
             \/ DaemonRegister(d) \/ Disconnected(d) \/ DaemonCrash(d)
             \/ DaemonCommand(d) \/ DaemonNotice(d) \/ DaemonExit(d)
             \/ SupervisorRestarts(d)
      PROVE  UNCHANGED replaced /\ SameConns
  <2>1. UNCHANGED <<replaced, reg, dials>>
    BY <1>5 DEF DaemonRegister, Disconnected, DaemonCrash, DaemonCommand,
                DaemonNotice, DaemonExit, SupervisorRestarts, sockVars, relayVars,
                daemonVars, histVars
  <2>2. \/ UNCHANGED dproc
        \/ \E s \in {"up", "wait", "replaced", "killed"} : dproc' = [dproc EXCEPT ![d] = s]
    BY <1>5 DEF DaemonRegister, Disconnected, DaemonCrash, DaemonCommand,
                DaemonNotice, DaemonExit, SupervisorRestarts, daemonVars
  <2> QED
    BY <1>a, <1>b, <2>1, <2>2
<1>6. ASSUME NEW i \in ReqIds, EmitChunk(i) \/ EmitFinal(i)
      PROVE  UNCHANGED replaced /\ SameConns
  BY <1>a, <1>6 DEF EmitChunk, EmitFinal, relayVars, histVars
<1>7. ASSUME NEW cl \in Clients, ClientStep(cl)
      PROVE  UNCHANGED replaced /\ SameConns
  BY <1>a, <1>7 DEF ClientStep, ClientSend, ClientRecv, ClientTimeout, ClientClose,
              relayVars, daemonVars, histVars
<1>8. CASE RelayRestart
  BY <1>a, <1>3, <1>8 DEF RelayRestart, daemonVars, histVars
<1> QED
  BY <1>1, <1>2, <1>3, <1>4, <1>5, <1>6, <1>7, <1>8
  DEF Next, Handler, HandlerEOF, HandlerBreak, DaemonStep, DaemonEOF, DaemonBreak

---------------------------------------------------------------------------
(***************************************************************************)
(* The routing table                                                       *)
(***************************************************************************)

\* A connection that never registered can end without touching the table.
LEMMA ExactHangup ==
  ASSUME SockTypes, RegistryExact, NEW c \in Conns, reg[c] = NoReg,
         Hangup(c), UNCHANGED <<clients, reg, replaced>>
  PROVE  RegistryExact'
<1>1. ~relayEnd'[c] /\ \A x \in Conns \ {c} : relayEnd'[x] = relayEnd[x]
  BY DEF Hangup, SockTypes
<1>2. \A n \in Names : reg[c].name # n
  BY PeersAssumption DEF NoReg
<1> QED
  BY <1>1, <1>2 DEF RegistryExact

\* A connection that never registered can open without touching it.
LEMMA ExactOpen ==
  ASSUME SockTypes, RegistryExact, NEW c \in Conns, reg[c] = NoReg,
         relayEnd' = [relayEnd EXCEPT ![c] = TRUE],
         UNCHANGED <<clients, reg, replaced>>
  PROVE  RegistryExact'
<1>1. \A x \in Conns : relayEnd'[x] = IF x = c THEN TRUE ELSE relayEnd[x]
  BY DEF SockTypes
<1>2. \A n \in Names : reg[c].name # n
  BY PeersAssumption DEF NoReg
<1> QED
  BY <1>1, <1>2 DEF RegistryExact

\* A client's connection is never registered.
LEMMA ClientUnregistered ==
  ASSUME RegInv, NEW c \in CConns
  PROVE  c \in Conns /\ reg[c] = NoReg
<1>1. c \in Conns /\ c \notin DConns
  BY PeersAssumption DEF CConns, DConns, Conns
<1> QED
  BY <1>1 DEF RegInv

\* Every step keeps the table exact.
LEMMA ExactStep == TypeOK /\ QueueInv /\ RegInv /\ RegistryExact /\ Next => RegistryExact'
<1> SUFFICES ASSUME TypeOK, QueueInv, RegInv, RegistryExact, Next PROVE RegistryExact'
  OBVIOUS
<1>0. SockTypes /\ RelayTypes /\ DaemonTypes /\ HistTypes
  BY DEF TypeOK
<1>1. ASSUME NEW c \in Conns, RejectRegister(c) PROVE RegistryExact'
  <2>1. reg[c] = NoReg
    BY <1>0, <1>1, RegisterOfDaemon DEF RejectRegister, MayRegister
  <2> QED
    BY <1>0, <1>1, <2>1, ExactHangup DEF RejectRegister, histVars
<1>2. ASSUME NEW c \in Conns, AcceptRegister(c) PROVE RegistryExact'
  <2> DEFINE n == NameOf[Owner(c)]
             old == clients[n]
  <2>1. reg[c] = NoReg /\ n \in Names
    BY <1>0, <1>2, RegisterOfDaemon DEF AcceptRegister, MayRegister
  <2>2. /\ \A m \in Names : clients'[m] = IF m = n THEN c ELSE clients[m]
        /\ \A x \in Conns : reg'[x].name = IF x = c THEN n ELSE reg[x].name
        /\ relayEnd[c] /\ relayEnd' = relayEnd
    BY <1>0, <1>2 DEF AcceptRegister, RelayTypes, Incoming
  <2>3. replaced' = IF old = NoConn THEN replaced ELSE replaced \cup {old}
    BY <1>2 DEF AcceptRegister
  <2>4. c \notin replaced /\ c # NoConn /\ old # c
    <3>1. c \notin replaced
      BY <2>1 DEF RegInv
    <3>2. c # NoConn
      BY PeersAssumption
    <3>3. old # c
      BY <2>1, PeersAssumption DEF RegistryExact, NoReg
    <3> QED
      BY <3>1, <3>2, <3>3
  <2>5. ASSUME NEW m \in Names, NEW x \in Conns
        PROVE  clients'[m] = x <=> relayEnd'[x] /\ reg'[x].name = m /\ x \notin replaced'
    <3>1. CASE x = c
      <4>1. m = n => clients'[m] = c
        BY <2>2
      <4>2. m # n => clients'[m] # c
        BY <2>1, <2>2, PeersAssumption DEF RegistryExact, NoReg
      <4> QED
        BY <2>2, <2>3, <2>4, <3>1, <4>1, <4>2
    <3>2. CASE x # c /\ m = n
      <4>1. clients'[m] # x
        BY <2>2, <3>2
      <4>2. relayEnd[x] /\ reg[x].name = n /\ x \notin replaced => old = x
        BY <2>1 DEF RegistryExact
      <4>3. x # NoConn
        BY PeersAssumption
      <4> QED
        BY <2>2, <2>3, <3>2, <4>1, <4>2, <4>3
    <3>3. CASE x # c /\ m # n
      <4>1. clients'[m] = clients[m] /\ reg'[x].name = reg[x].name
        BY <2>2, <3>3
      <4>2. old = x => reg[x].name = n
        BY <2>1 DEF RegistryExact
      <4>3. clients[m] = x <=> relayEnd[x] /\ reg[x].name = m /\ x \notin replaced
        BY DEF RegistryExact
      <4> QED
        BY <2>2, <2>3, <3>3, <4>1, <4>2, <4>3
    <3> QED
      BY <3>1, <3>2, <3>3
  <2> QED
    BY <2>5 DEF RegistryExact
<1>3. ASSUME NEW c \in Conns, RejectClient(c) PROVE RegistryExact'
  <2>1. reg[c] = NoReg
    BY <1>0, <1>3, ClientMsgOfClient, ClientUnregistered DEF RejectClient
  <2> QED
    BY <1>0, <1>3, <2>1, ExactHangup DEF RejectClient, histVars
<1>4. ASSUME NEW c \in Conns, Unregister(c) PROVE RegistryExact'
  <2>1. CASE reg[c] = NoReg
    BY <1>0, <1>4, <2>1, ExactHangup DEF Unregister, histVars
  <2>2. CASE reg[c] # NoReg
    <3>1. /\ \A m \in Names : clients'[m] = IF m = reg[c].name /\ clients[m] = c
                                           THEN NoConn ELSE clients[m]
          /\ UNCHANGED <<reg, replaced>>
      BY <1>4, <2>2 DEF Unregister, Unregistered, histVars
    <3>2. ~relayEnd'[c] /\ \A x \in Conns \ {c} : relayEnd'[x] = relayEnd[x]
      BY <1>0, <1>4 DEF Unregister, Hangup, SockTypes
    <3>3. \A x \in Conns : x # NoConn
      BY PeersAssumption
    <3> QED
      BY <3>1, <3>2, <3>3 DEF RegistryExact
  <2> QED
    BY <2>1, <2>2
<1>5. CASE RelayRestart
  <2>1. \A m \in Names, x \in Conns : clients'[m] # x /\ ~relayEnd'[x]
    BY <1>5, PeersAssumption DEF RelayRestart
  <2> QED
    BY <2>1 DEF RegistryExact
<1>6. ASSUME NEW d \in Daemons, DaemonDial(d) PROVE RegistryExact'
  <2>0. <<d, dials[d] + 1>> \in DConns /\ dials[d] \in Nat
    BY <1>0, <1>6, BoundsAssumption DEF DaemonDial, DConns, DaemonTypes
  <2>1. PICK c \in DConns : c = <<d, dials[d] + 1>>
    BY <2>0
  <2>2. c \in Conns /\ ~(c[2] <= dials[c[1]])
    BY <2>0, <2>1 DEF Conns
  <2>3. reg[c] = NoReg
    BY <2>2 DEF RegInv
  <2>4. relayEnd' = [relayEnd EXCEPT ![c] = TRUE] /\ UNCHANGED <<clients, reg, replaced>>
    BY <1>6, <2>1 DEF DaemonDial, relayVars, histVars
  <2> QED
    BY <1>0, <2>2, <2>3, <2>4, ExactOpen
<1>7. ASSUME NEW cl \in Clients, NEW kind \in Kinds, ClientSend(cl, kind) PROVE RegistryExact'
  <2>1. CConn(cl) \in Conns /\ reg[CConn(cl)] = NoReg
    BY ClientUnregistered DEF CConn, CConns
  <2>2. UNCHANGED <<clients, reg, replaced>>
    BY <1>7 DEF ClientSend, relayVars, histVars
  <2>3. CASE relayEnd' = [relayEnd EXCEPT ![CConn(cl)] = TRUE]
    BY <1>0, <2>1, <2>2, <2>3, ExactOpen
  <2>4. CASE UNCHANGED relayEnd
    BY <2>2, <2>4 DEF RegistryExact
  <2> QED
    BY <1>7, <2>3, <2>4 DEF ClientSend
<1>8. ASSUME UNCHANGED <<clients, relayEnd, reg, replaced>> PROVE RegistryExact'
  BY <1>8 DEF RegistryExact
<1>9. ASSUME NEW c \in Conns,
             \/ Deliver(c) \/ LookupFails(c) \/ LookupFinds(c)
             \/ InsertPending(c) \/ ForwardSent(c) \/ ForwardFails(c)
             \/ ForwardKill(c) \/ HandleReply(c)
      PROVE  UNCHANGED <<clients, relayEnd, reg, replaced>>
  BY <1>9 DEF Deliver, LookupFails, LookupFinds, InsertPending, ForwardSent,
              ForwardFails, ForwardKill, HandleReply, PendingOf, sockVars, relayVars, histVars
<1>10. ASSUME NEW d \in Daemons,
              \/ DaemonRegister(d) \/ Disconnected(d) \/ DaemonCrash(d)
              \/ DaemonCommand(d) \/ DaemonNotice(d) \/ DaemonExit(d)
              \/ SupervisorRestarts(d)
       PROVE  UNCHANGED <<clients, relayEnd, reg, replaced>>
  BY <1>10 DEF DaemonRegister, Disconnected, DaemonCrash, DaemonCommand, DaemonNotice, DaemonExit,
               SupervisorRestarts, sockVars, relayVars, histVars
<1>11. ASSUME NEW i \in ReqIds, EmitChunk(i) \/ EmitFinal(i)
       PROVE  UNCHANGED <<clients, relayEnd, reg, replaced>>
  BY <1>11 DEF EmitChunk, EmitFinal, relayVars, histVars
<1>12. ASSUME NEW cl \in Clients, ClientRecv(cl) \/ ClientTimeout(cl) \/ ClientClose(cl)
       PROVE  UNCHANGED <<clients, relayEnd, reg, replaced>>
  BY <1>12 DEF ClientRecv, ClientTimeout, ClientClose, sockVars, relayVars, histVars
<1> QED
  BY <1>1, <1>2, <1>3, <1>4, <1>5, <1>6, <1>7, <1>8, <1>9, <1>10, <1>11, <1>12
  DEF Next, Handler, HandlerEOF, HandlerBreak, DaemonStep, DaemonEOF,
      DaemonBreak, ClientStep

\* The invariant holds when nothing has connected yet.
LEMMA InitIInv == Init => IInv
<1> SUFFICES ASSUME Init PROVE IInv
  OBVIOUS
<1>1. TypeOK
  <2>1. SockTypes
    BY DEF Init, SockTypes
  <2>2. RelayTypes
    BY DefaultTypes DEF Init, RelayTypes, NoReg
  <2>3. DaemonTypes
    BY DefaultTypes, BoundsAssumption DEF Init, DaemonTypes
  <2>4. ClientTypes
    BY DEF Init, ClientTypes
  <2>5. HistTypes
    BY DefaultTypes DEF Init, HistTypes
  <2> QED
    BY <2>1, <2>2, <2>3, <2>4, <2>5 DEF TypeOK
<1>2. QueueInv
  BY SaneEmpty DEF Init, QueueInv, MayRegister
<1>3. RegInv
  BY DEF Init, RegInv
<1>4. RegistryExact
  BY PeersAssumption DEF Init, RegistryExact
<1> QED
  BY <1>1, <1>2, <1>3, <1>4 DEF IInv

\* Every step preserves the invariant.
LEMMA StepIInv == IInv /\ [Next]_vars => IInv'
<1> SUFFICES ASSUME IInv, [Next]_vars PROVE IInv'
  OBVIOUS
<1>1. CASE Next
  BY <1>1, TypeStep, QueueStep, RegStep, ExactStep DEF IInv
<1>2. CASE UNCHANGED vars
  <2>1. TypeOK'
    BY <1>2, UnchangedTypes DEF IInv, TypeOK, vars, sockVars, relayVars,
                                daemonVars, clientVars, histVars
  <2>2. QueueInv' /\ RegInv' /\ RegistryExact'
    BY <1>2 DEF IInv, vars, QueueInv, MayRegister, Unannounced, RegInv,
                  RegistryExact
  <2> QED
    BY <2>1, <2>2 DEF IInv
<1> QED
  BY <1>1, <1>2

---------------------------------------------------------------------------
(***************************************************************************)
(* The theorems                                                            *)
(***************************************************************************)

\* handleRegister, unregister and the daemons' redialling keep the
\* inductive invariant, whatever is lost and whoever restarts.
THEOREM HubInvariant == Spec => []IInv
<1>1. Init => IInv
  BY InitIInv
<1>2. IInv /\ [Next]_vars => IInv'
  BY StepIInv
<1> QED
  BY <1>1, <1>2, PTL DEF Spec

\* Frames, locals and maps of the relay, of daemons and of clients keep
\* their types.
THEOREM HubTypes == Spec => []TypeOK
<1>1. IInv => TypeOK
  BY DEF IInv
<1> QED
  BY <1>1, HubInvariant, PTL

\* rs.clients is exact for any number of daemons that share names, redial
\* and take names over: no late unregister evicts a live registration and
\* no dead connection stays listed.
THEOREM RegistryAlwaysExact == Spec => []RegistryExact
<1>1. IInv => RegistryExact
  BY DEF IInv
<1> QED
  BY <1>1, HubInvariant, PTL
=============================================================================
