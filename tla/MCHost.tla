------------------------------- MODULE MCHost -------------------------------
(* Small machines for TLC: two invocations at once, one or two daemons. *)
EXTENDS Host

PidsAtFirst == [n \in Names |-> IF n = "a" THEN 1 ELSE 2]

Two(k1, k2, up, method) ==
  [kind |-> [o \in Ops |-> IF o = "o1" THEN k1 ELSE k2], name |-> [o \in Ops |-> "a"],
   up |-> up, method |-> method, works |-> TRUE, slow |-> FALSE, force |-> FALSE,
   busy |-> FALSE, long |-> FALSE]

\* PID files: every pair of invocations, with a daemon and with a stale file.
Pairs == {Two(k1, k2, up, "reexec") : k1, k2 \in {"start", "stop", "status"}, up \in {{}, {"a"}}}

\* Updates that restart in place, with commands running.
InPlace == {[Two("daemon_update", k, {"a"}, "reexec") EXCEPT
               !.works = w, !.busy = (k = "none"), !.long = l] :
              k \in {"none", "stop", "daemon_update", "update"}, w, l \in BOOLEAN}

\* Updates through helpers: alone, and beside another invocation.
Alone == {[Two("daemon_update", "none", {"a"}, "helper") EXCEPT !.works = w, !.slow = s, !.force = f] :
            w, s, f \in BOOLEAN}
Beside == {[Two("daemon_update", k, {"a"}, "helper") EXCEPT !.works = w] :
             k \in {"update", "start"}, w \in BOOLEAN}

\* Two daemons of one binary, and two updates that restart one daemon.
TwoDaemons == {[Two("daemon_update", "none", {"a", "b"}, "helper") EXCEPT !.works = w] : w \in BOOLEAN}
TwoUpdates == {[Two("daemon_update", "daemon_update", {"a"}, "helper") EXCEPT !.works = w] : w \in BOOLEAN}

Machines == Pairs \cup InPlace \cup Alone \cup Beside \cup TwoDaemons \cup TwoUpdates
=============================================================================
