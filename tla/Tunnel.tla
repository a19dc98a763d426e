------------------------------- MODULE Tunnel -------------------------------
(***************************************************************************)
(* `tunnel`: a client process accepts local TCP connections and carries    *)
(* each of them through the relay to a TCP connection that the daemon      *)
(* opens to a remote service.  The client and the daemon both reconnect to *)
(* the relay; the local port and the remote connections outlive that.      *)
(*                                                                         *)
(* A tunnel is one local connection.  Every goroutine that touches it is   *)
(* in the model: the one that opens and pipes the local connection, the    *)
(* client's read loop, the relay's read loops, the daemon's read loop, the *)
(* goroutine that dials, and the one that reads the remote connection.     *)
(* Payload is counted: the k-th piece read from a socket is the number k.  *)
(***************************************************************************)
EXTENDS Naturals, Sequences, FiniteSets, SequencesExt

CONSTANTS
  Tunnels,     \* local connections
  Scenarios,   \* sets of the failures that may happen; one is chosen in Init
  MaxData,     \* bound: pieces each end of a tunnel writes
  MaxLink      \* bound: connections of the client, and of the daemon, in turn

Links == 1 .. MaxLink
Failures == {"client link", "daemon link", "timeout", "dial"}

ASSUME TunnelAssumption ==
  /\ Scenarios \subseteq SUBSET Failures
  /\ MaxData \in Nat /\ MaxLink \in Nat \ {0}
  /\ IsFiniteSet(Tunnels) /\ Tunnels # {}

VARIABLES
  scn,    \* the scenario (never changes)
  cl,     \* [link, conn, up]: last relay connection dialled by the client,
          \*   ct.conn (0 is nil), is that connection intact?
  loc,    \* [Tunnels -> ...] the client's side of a tunnel, see TypeOK
  sess,   \* rs.tunnels: [Tunnels -> [c, d]], c = 0 when there is none
  look,   \* the daemon connection found by the tunnel_open in hand, or 0
  reg,    \* rs.clients: the daemon's registered connection, or 0
  alive,  \* daemon connections whose end the relay has not noticed
  dm,     \* [link, up]: td.conn and whether it is intact
  rem,    \* [Tunnels -> ...] the daemon's side of a tunnel, see TypeOK
  c2r, r2c, r2d, d2r,   \* frames in flight between client, relay and daemon
  why     \* history: [Tunnels -> SUBSET Causes]

vars == <<scn, cl, loc, sess, look, reg, alive, dm, rem, c2r, r2c, r2d, d2r, why>>
client == <<cl, loc, r2c>>
daemon == <<dm, rem, r2d>>
relay == <<sess, look, reg, alive>>

NoSession == [c |-> 0, d |-> 0]

\* What may have gone wrong with a tunnel: a frame came before the socket it
\* is for was registered ("early": for the local, "soon": for the remote
\* socket), the daemon lost its relay connection ("relink"), the client gave
\* up waiting for the answer ("gave up"), the client lost its relay connection
\* ("lost") while the answer was already there ("late").
Causes == {"early", "soon", "relink", "gave up", "lost", "late"}

Blame(t, cause) == why' = [why EXCEPT ![t] = @ \cup {cause}]
BlameAll(S, cause) == why' = [t \in Tunnels |-> IF t \in S THEN why[t] \cup {cause} ELSE why[t]]

Msg(k, t, n) == [k |-> k, t |-> t, n |-> n]
May(failure) == failure \in scn

---------------------------------------------------------------------------
(* Writing a frame.  On a connection that is broken the frame is lost.     *)

ToRelay(m) == c2r' = IF cl.up THEN Append(c2r, m) ELSE c2r
ToClientAny(c, m) == r2c' = IF cl.up THEN Append(r2c, m) ELSE r2c
\* rc.send by the relay on the client's connection c, the daemon's d.
ToClient(c, m) == r2c' = IF c = cl.link /\ cl.up THEN Append(r2c, m) ELSE r2c
ToDaemon(d, m) == r2d' = IF d = dm.link /\ dm.up THEN Append(r2d, m) ELSE r2d
\* td.send: an error is logged, nothing else.
FromDaemon(ms) == d2r' = IF dm.up THEN d2r \o ms ELSE d2r

---------------------------------------------------------------------------
(* Client: handleLocalConnection, one goroutine per local connection.      *)

Closed(t) == [loc[t] EXCEPT !.st = "done", !.sock = "closed"]
\* sendOn: a replaced connection must not carry data for the old one.
Rides(t) == cl.conn = loc[t].on

\* A local connection is accepted, waits for the relay (waitConn) and opens.
LocalOpens(t) ==
  /\ loc[t].st = "none" /\ cl.conn # 0
  /\ loc' = [loc EXCEPT ![t].st = "opening", ![t].sock = "open", ![t].on = cl.conn]
  /\ ToRelay(Msg("open", t, 0))
  /\ UNCHANGED <<scn, cl, r2c, relay, daemon, d2r, why>>

\* waitConn gives up, or the write of tunnel_open fails.
LocalRefused(t) ==
  /\ loc[t].st = "none" /\ ~cl.up
  /\ loc' = [loc EXCEPT ![t] = Closed(t)]
  /\ UNCHANGED <<scn, cl, r2c, relay, daemon, c2r, d2r, why>>

\* The answer that was put into openCh is taken.
LocalAnswered(t) ==
  /\ loc[t].st = "opening" /\ loc[t].ans # "none"
  /\ loc' = [loc EXCEPT ![t] = IF loc[t].ans = "ok" THEN [@ EXCEPT !.st = "opened"] ELSE Closed(t)]
  /\ UNCHANGED <<scn, cl, r2c, relay, daemon, c2r, d2r, why>>

\* tunnelOpenTimeout.  Without the failure "timeout" it is not hit before an
\* answer that comes, but no answer comes when the daemon is lost.
LocalGivesUp(t) ==
  /\ May("timeout") \/ May("daemon link")
  /\ loc[t].st = "opening" /\ loc[t].ans = "none"
  /\ loc' = [loc EXCEPT ![t] = Closed(t)]
  /\ Blame(t, "gave up")
  /\ UNCHANGED <<scn, cl, r2c, relay, daemon, c2r, d2r>>

\* activeConns.Store: from here on frames for the tunnel find its socket.
LocalStores(t) ==
  /\ loc[t].st = "opened"
  /\ loc' = [loc EXCEPT ![t].st = "piping", ![t].active = TRUE]
  /\ UNCHANGED <<scn, cl, r2c, relay, daemon, c2r, d2r, why>>

UnstoredLeaky(t) == Closed(t)
\* The goroutine ends: `defer closeTunnel`.
Unstored(t) == [Closed(t) EXCEPT !.active = FALSE]

\* A piece read from the local socket is sent, unless the relay is gone.
LocalPipes(t) ==
  /\ loc[t].st = "piping" /\ loc[t].sock = "open" /\ loc[t].sent < MaxData
  /\ IF Rides(t)
     THEN /\ loc' = [loc EXCEPT ![t].sent = @ + 1]
          /\ ToRelay(Msg("data", t, loc[t].sent + 1))
     ELSE loc' = [loc EXCEPT ![t] = Unstored(t)] /\ UNCHANGED c2r
  /\ UNCHANGED <<scn, cl, r2c, relay, daemon, d2r, why>>

\* Read returns an error, since the socket was closed by closeTunnel or
\* dropConn, or io.EOF, since the local program has closed its side.
LocalEnds(t) ==
  /\ loc[t].st = "piping"
  /\ loc' = [loc EXCEPT ![t] = Unstored(t)]
  /\ IF Rides(t) THEN ToRelay(Msg("close", t, 0)) ELSE UNCHANGED c2r
  /\ UNCHANGED <<scn, cl, r2c, relay, daemon, d2r, why>>

---------------------------------------------------------------------------
(* Client: readLoop and maintain.                                          *)

\* closeTunnel
CloseLocal(t) == IF loc[t].active THEN [loc[t] EXCEPT !.active = FALSE, !.sock = "closed"]
                 ELSE loc[t]
\* Is a frame dropped because handleLocalConnection is not there yet?
NotStored(t) == ~loc[t].active /\ loc[t].st \in {"opening", "opened"}

\* The pending open t gets answer a; openCh holds one message.
Answer(t, a) == IF loc[t].st = "opening" /\ loc[t].ans = "none"
                THEN [loc[t] EXCEPT !.ans = a] ELSE loc[t]

\* A piece for a tunnel whose socket is found is written to it.
LocalGets(t, n) == IF loc[t].active /\ loc[t].sock = "open"
                   THEN [loc[t] EXCEPT !.got = Append(@, n)] ELSE loc[t]

\* What frame m makes of its tunnel's local side.  The local program may have
\* gone at any time; the Write to its socket fails then, and closeTunnel runs.
AfterFrame(m) ==
  CASE m.k \in {"ok", "err"} -> {Answer(m.t, m.k)}
    [] m.k = "data" -> {LocalGets(m.t, m.n), CloseLocal(m.t)}
    [] m.k = "close" -> {CloseLocal(m.t)}

ClientReads ==
  /\ cl.conn # 0 /\ r2c # <<>>
  /\ r2c' = Tail(r2c)
  /\ LET m == Head(r2c)  t == m.t
     IN  /\ \E after \in AfterFrame(m) : loc' = [loc EXCEPT ![t] = after]
         /\ IF m.k \in {"data", "close"} /\ NotStored(t) THEN Blame(t, "early") ELSE UNCHANGED why
  /\ UNCHANGED <<scn, cl, relay, daemon, c2r, d2r>>

\* dropConn: the read loop has ended; local connections riding on this one
\* are closed and pending opens fail.
DroppedActive(t) == CloseLocal(t)
Dropped(t) == IF loc[t].active THEN CloseLocal(t) ELSE Answer(t, "err")

ClientDrops ==
  /\ cl.conn # 0 /\ ~cl.up
  /\ cl' = [cl EXCEPT !.conn = 0]
  /\ loc' = [t \in Tunnels |-> Dropped(t)]
  /\ why' = [t \in Tunnels |-> IF loc[t].st = "opened" \/ (loc[t].st = "opening" /\ loc[t].ans = "ok")
                               THEN why[t] \cup {"late"} ELSE why[t]]
  /\ UNCHANGED <<scn, r2c, relay, daemon, c2r, d2r>>

ClientRedials ==
  /\ cl.conn = 0 /\ cl.link < MaxLink
  /\ cl' = [link |-> cl.link + 1, conn |-> cl.link + 1, up |-> TRUE]
  /\ UNCHANGED <<scn, loc, r2c, relay, daemon, c2r, d2r, why>>

\* The client's connection breaks; what is in flight is lost.  The relay only
\* ends its read loop: no daemon registered there, so nothing is unregistered.
ClientLinkBreaks ==
  /\ May("client link") /\ cl.up /\ cl.link < MaxLink
  /\ cl' = [cl EXCEPT !.up = FALSE]
  /\ c2r' = <<>> /\ r2c' = <<>> /\ look' = 0
  /\ BlameAll({t \in Tunnels : loc[t].st \notin {"none"}}, "lost")
  /\ UNCHANGED <<scn, loc, sess, reg, alive, daemon, d2r>>

---------------------------------------------------------------------------
(* Relay: the read loop of the client's connection.                        *)

Takes(k) == c2r # <<>> /\ Head(c2r).k = k

\* handleTunnelOpen, first part: the daemon is looked up under the lock.
RelayLooksUp ==
  /\ Takes("open") /\ look = 0
  /\ IF reg = 0
     THEN c2r' = Tail(c2r) /\ ToClient(cl.link, Msg("err", Head(c2r).t, 0)) /\ UNCHANGED look
     ELSE look' = reg /\ UNCHANGED <<c2r, r2c>>
  /\ UNCHANGED <<scn, cl, loc, sess, reg, alive, daemon, d2r, why>>

\* Second part: the session is recorded, then the request is forwarded to the
\* connection found before; when that fails the session is removed again.
RelayForwardsOpen ==
  /\ Takes("open") /\ look # 0
  /\ LET t == Head(c2r).t
     IN  \/ /\ sess' = [sess EXCEPT ![t] = [c |-> cl.link, d |-> look]]
            /\ ToDaemon(look, Msg("open", t, 0))
            /\ UNCHANGED r2c
         \/ /\ ~(look = dm.link /\ dm.up)
            /\ ToClient(cl.link, Msg("err", t, 0))
            /\ UNCHANGED <<sess, r2d>>
  /\ c2r' = Tail(c2r) /\ look' = 0
  /\ UNCHANGED <<scn, cl, loc, reg, alive, dm, rem, d2r, why>>

\* handleTunnelRelay and handleTunnelClose for a frame of the client.
RelayFromClient ==
  /\ Takes("data") \/ Takes("close")
  /\ c2r' = Tail(c2r)
  /\ LET m == Head(c2r)  s == sess[m.t]
     IN  IF s = NoSession THEN UNCHANGED <<sess, r2d>>
         ELSE /\ ToDaemon(s.d, m)
              /\ sess' = IF m.k = "close" THEN [sess EXCEPT ![m.t] = NoSession] ELSE sess
  /\ UNCHANGED <<scn, client, look, reg, alive, dm, rem, d2r, why>>

---------------------------------------------------------------------------
(* Relay: the read loop of the daemon's connection.                        *)

\* The frame goes to the side that is not the sender.  The sender of a frame
\* in d2r is never the client's connection, so that is the client.
RelayFromDaemon ==
  /\ d2r # <<>> /\ Head(d2r).k # "register"
  /\ d2r' = Tail(d2r)
  /\ LET m == Head(d2r)  s == sess[m.t]
     IN  IF s = NoSession THEN UNCHANGED <<sess, r2c>>
         ELSE /\ ToClient(s.c, m)
              /\ sess' = IF m.k = "close" THEN [sess EXCEPT ![m.t] = NoSession] ELSE sess
  /\ UNCHANGED <<scn, cl, loc, look, reg, alive, daemon, c2r, why>>

\* handleRegister
RelayRegisters ==
  /\ d2r # <<>> /\ Head(d2r).k = "register"
  /\ d2r' = Tail(d2r)
  /\ reg' = dm.link /\ alive' = alive \cup {dm.link}
  /\ UNCHANGED <<scn, client, sess, look, daemon, c2r, why>>

\* unregister, when the read loop of a daemon's connection has ended: the
\* sessions on it are removed and their clients are told.
OrphanedNone(l) == {}
Orphaned(l) == {t \in Tunnels : sess[t].d = l}
RelayUnregisters(l) ==
  /\ l \in alive /\ ~(l = dm.link /\ dm.up)
  /\ alive' = alive \ {l}
  /\ reg' = IF reg = l THEN 0 ELSE reg
  /\ sess' = [t \in Tunnels |-> IF t \in Orphaned(l) THEN NoSession ELSE sess[t]]
  /\ \E order \in SetToSeqs({t \in Orphaned(l) : sess[t].c = cl.link /\ cl.up}) :
       r2c' = r2c \o [i \in DOMAIN order |-> Msg("close", order[i], 0)]
  /\ UNCHANGED <<scn, cl, loc, look, daemon, c2r, d2r, why>>

---------------------------------------------------------------------------
(* Daemon: the read loop (run).                                            *)

CloseRemoteForgets(t) == [rem[t] EXCEPT !.active = FALSE]
\* closeTunnel
CloseRemote(t) == IF rem[t].active THEN [rem[t] EXCEPT !.active = FALSE, !.sock = "closed"]
                  ELSE rem[t]
NotRegistered(t) == ~rem[t].active /\ rem[t].st \in {"dialing", "opened"}

\* handleTunnelData finds the remote side closed: Write fails.
WriteFails(t) == rem[t].active /\ rem[t].peer = "gone"

\* go td.handleTunnelOpen(msg)
Dialing(t) == [rem[t] EXCEPT !.st = "dialing"]
RemoteGets(t, n) == IF rem[t].active THEN [rem[t] EXCEPT !.got = Append(@, n)] ELSE rem[t]

DaemonReads ==
  /\ r2d # <<>>
  /\ r2d' = Tail(r2d)
  /\ LET m == Head(r2d)  t == m.t
     IN  /\ rem' = [rem EXCEPT ![t] =
                      CASE m.k = "open" -> Dialing(t)
                        [] m.k = "close" \/ (m.k = "data" /\ WriteFails(t)) -> CloseRemote(t)
                        [] OTHER -> RemoteGets(t, m.n)]
         /\ IF m.k = "data" /\ WriteFails(t) THEN FromDaemon(<<Msg("close", t, 0)>>)
            ELSE UNCHANGED d2r
         /\ IF m.k # "open" /\ NotRegistered(t) THEN Blame(t, "soon") ELSE UNCHANGED why
  /\ UNCHANGED <<scn, client, relay, dm, c2r>>

\* The connection breaks.  run returns, tunnels are left as they are, and
\* after a pause the daemon dials again and registers.
DaemonLinkBreaks ==
  /\ May("daemon link") /\ dm.up /\ dm.link < MaxLink
  /\ dm' = [dm EXCEPT !.up = FALSE]
  /\ r2d' = <<>> /\ d2r' = <<>>
  /\ BlameAll({t \in Tunnels : rem[t].st # "none" \/ sess[t].d = dm.link}, "relink")
  /\ UNCHANGED <<scn, client, relay, rem, c2r>>

DaemonRedials ==
  /\ ~dm.up
  /\ dm' = [link |-> dm.link + 1, up |-> TRUE]
  /\ d2r' = <<Msg("register", CHOOSE t \in Tunnels : TRUE, 0)>>
  /\ UNCHANGED <<scn, client, relay, rem, r2d, c2r, why>>

---------------------------------------------------------------------------
(* Daemon: handleTunnelOpen and tunnelReadLoop, goroutines of their own.   *)

DaemonDials(t) ==
  /\ rem[t].st = "dialing"
  /\ \/ /\ rem' = [rem EXCEPT ![t].st = "opened", ![t].sock = "open"]
        /\ FromDaemon(<<Msg("ok", t, 0)>>)
     \/ /\ May("dial")
        /\ rem' = [rem EXCEPT ![t].st = "done"]
        /\ FromDaemon(<<Msg("err", t, 0)>>)
  /\ UNCHANGED <<scn, client, relay, dm, r2d, c2r, why>>

\* registerTunnel, after tunnel_opened was sent.
DaemonStores(t) ==
  /\ rem[t].st = "opened"
  /\ rem' = [rem EXCEPT ![t].st = "reading", ![t].active = TRUE]
  /\ UNCHANGED <<scn, client, relay, dm, r2d, c2r, d2r, why>>

RemotePipes(t) ==
  /\ rem[t].st = "reading" /\ rem[t].sock = "open" /\ rem[t].peer = "here"
  /\ rem[t].sent < MaxData
  /\ rem' = [rem EXCEPT ![t].sent = @ + 1]
  /\ FromDaemon(<<Msg("data", t, rem[t].sent + 1)>>)
  /\ UNCHANGED <<scn, client, relay, dm, r2d, c2r, why>>

\* The remote service closes its end of the connection.
PeerLeaves(t) ==
  /\ rem[t].sock = "open" /\ rem[t].peer = "here"
  /\ rem' = [rem EXCEPT ![t].peer = "gone"]
  /\ UNCHANGED <<scn, client, relay, dm, r2d, c2r, d2r, why>>

\* Read fails: the service has closed its end or closeTunnel closed ours.
RemoteEnds(t) ==
  /\ rem[t].st = "reading" /\ (rem[t].peer = "gone" \/ rem[t].sock = "closed")
  /\ rem' = [rem EXCEPT ![t] = [CloseRemote(t) EXCEPT !.st = "done", !.sock = "closed"]]
  /\ FromDaemon(<<Msg("close", t, 0)>>)
  /\ UNCHANGED <<scn, client, relay, dm, r2d, c2r, why>>

---------------------------------------------------------------------------
Init ==
  /\ scn \in Scenarios
  /\ cl = [link |-> 1, conn |-> 1, up |-> TRUE]
  /\ loc = [t \in Tunnels |-> [st |-> "none", sock |-> "none", on |-> 0, ans |-> "none",
                               active |-> FALSE, sent |-> 0, got |-> <<>>]]
  /\ sess = [t \in Tunnels |-> NoSession] /\ look = 0
  /\ reg = 1 /\ alive = {1} /\ dm = [link |-> 1, up |-> TRUE]
  /\ rem = [t \in Tunnels |-> [st |-> "none", sock |-> "none", peer |-> "here",
                               active |-> FALSE, sent |-> 0, got |-> <<>>]]
  /\ c2r = <<>> /\ r2c = <<>> /\ r2d = <<>> /\ d2r = <<>>
  /\ why = [t \in Tunnels |-> {}]

\* Steps the two programs, the relay and the operating system take by
\* themselves.  A local program or a service may stay silent for ever, and so
\* no piece of data, no break and no end of a peer is among them.
Works ==
  \/ ClientReads \/ ClientDrops \/ ClientRedials
  \/ RelayLooksUp \/ RelayForwardsOpen \/ RelayFromClient \/ RelayFromDaemon \/ RelayRegisters
  \/ \E l \in Links : RelayUnregisters(l)
  \/ DaemonReads \/ DaemonRedials

Proceeds(t) ==
  \/ LocalAnswered(t) \/ LocalStores(t) \/ LocalRefused(t)
  \/ (loc[t].sock = "closed" /\ LocalEnds(t))
  \/ DaemonDials(t) \/ DaemonStores(t) \/ RemoteEnds(t)

Next ==
  \/ Works \/ ClientLinkBreaks \/ DaemonLinkBreaks
  \/ \E t \in Tunnels :
       \/ Proceeds(t)
       \/ LocalOpens(t) \/ LocalGivesUp(t) \/ LocalPipes(t) \/ LocalEnds(t)
       \/ RemotePipes(t) \/ PeerLeaves(t)

Spec == Init /\ [][Next]_vars

\* Read loops and goroutines keep running: each of their steps that stays
\* possible is taken.
Fairness ==
  /\ WF_vars(ClientReads) /\ WF_vars(ClientDrops) /\ WF_vars(ClientRedials)
  /\ WF_vars(RelayLooksUp \/ RelayForwardsOpen \/ RelayFromClient)
  /\ WF_vars(RelayFromDaemon \/ RelayRegisters)
  /\ WF_vars(\E l \in Links : RelayUnregisters(l))
  /\ WF_vars(DaemonReads) /\ WF_vars(DaemonRedials)
  /\ \A t \in Tunnels :
       /\ WF_vars(LocalAnswered(t) \/ LocalStores(t) \/ LocalGivesUp(t))
       /\ WF_vars(loc[t].sock = "closed" /\ LocalEnds(t))
       /\ WF_vars(DaemonDials(t) \/ DaemonStores(t) \/ RemoteEnds(t))

FairSpec == Spec /\ Fairness

---------------------------------------------------------------------------
(* Properties.                                                             *)

Numbers == 0 .. MaxData
Frames(kinds) == [k : kinds, t : Tunnels, n : Numbers]
Locals == [st : {"none", "opening", "opened", "piping", "done"},
           sock : {"none", "open", "closed"}, on : {0} \cup Links,
           ans : {"none", "ok", "err"}, active : BOOLEAN,
           sent : Numbers, got : Seq(Numbers)]
Remotes == [st : {"none", "dialing", "opened", "reading", "done"},
            sock : {"none", "open", "closed"}, peer : {"here", "gone"},
            active : BOOLEAN, sent : Numbers, got : Seq(Numbers)]

TypeOK ==
  /\ scn \in Scenarios
  /\ cl \in [link : Links, conn : {0} \cup Links, up : BOOLEAN]
  /\ dm \in [link : Links, up : BOOLEAN]
  /\ reg \in {0} \cup Links /\ look \in {0} \cup Links /\ alive \subseteq Links
  /\ loc \in [Tunnels -> Locals]
  /\ rem \in [Tunnels -> Remotes]
  /\ sess \in [Tunnels -> [c : Links, d : Links] \cup {NoSession}]
  /\ why \in [Tunnels -> SUBSET Causes]
  /\ c2r \in Seq(Frames({"open", "data", "close"}))
  /\ r2d \in Seq(Frames({"open", "data", "close"}))
  /\ r2c \in Seq(Frames({"ok", "err", "data", "close"}))
  /\ d2r \in Seq(Frames({"ok", "err", "data", "close", "register"}))
  /\ \A t \in Tunnels :
       /\ loc[t].active => loc[t].st = "piping" /\ loc[t].sock = "open"
       /\ loc[t].st \in {"opening", "opened"} => loc[t].sock = "open"
       /\ rem[t].active => rem[t].st = "reading" /\ rem[t].sock = "open"
       /\ rem[t].st = "opened" => rem[t].sock = "open"

Increasing(s) == \A i, j \in DOMAIN s : i < j => s[i] < s[j]
Whole(s) == \A i \in DOMAIN s : s[i] = i

\* A TCP stream never has a hole in it.  What either end reads is what the
\* other end wrote, in order, and nothing is missing in the middle, unless a
\* piece arrived before the socket was registered (activeConns.Store and
\* registerTunnel come after tunnel_opened), or the service's data was sent
\* while the daemon was between two relay connections: tunnelReadLoop goes on
\* and the session may outlive the break.
StreamsWhole ==
  \A t \in Tunnels :
    /\ Increasing(rem[t].got) /\ (Whole(rem[t].got) \/ "soon" \in why[t])
    /\ Increasing(loc[t].got) /\ (Whole(loc[t].got) \/ why[t] \cap {"early", "relink"} # {})

\* dropConn: "connections in flight are closed (they cannot survive the
\* relay)".  A local connection whose relay connection is gone is closed in
\* the end; not so when tunnel_opened had come and activeConns.Store runs
\* after dropConn has gone through the map.
InFlightClosed ==
  \A t \in Tunnels :
    (loc[t].sock = "open" /\ (loc[t].on # cl.link \/ ~cl.up))
      ~> (loc[t].sock = "closed" \/ "late" \in why[t])

\* When the service has hung up, or could not be reached, the local program
\* is told: its connection is closed, in spite of a relay connection lost at
\* either side, unless the tunnel_close came before activeConns.Store.
HangUpReachesLocal ==
  \A t \in Tunnels :
    (rem[t].st = "done") ~> (loc[t].sock = "closed" \/ why[t] \cap {"early", "late"} # {})

\* When the local program is gone the service's connection is closed as well.
\* The excuses are the leaks of this code: the client gave up waiting, a
\* relay connection was lost (the relay does not unregister a client, run
\* keeps activeTunnels), or tunnel_close came before registerTunnel.
HangUpReachesRemote ==
  \A t \in Tunnels :
    (loc[t].sock = "closed")
      ~> (rem[t].sock # "open" \/ why[t] \cap {"soon", "relink", "gave up", "lost"} # {})
=============================================================================
