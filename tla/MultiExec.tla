----------------------------- MODULE MultiExec -----------------------------
(***************************************************************************)
(* execute_multi at the relay: one caller's command is sent to a list of   *)
(* targets, the sub-results are collected by the handlers of the daemons'  *)
(* connections, and one aggregated reply goes back, at the latest when the *)
(* batch timer fires.  Every step between two acquisitions of rs.mu is an  *)
(* action; the loop over the targets runs under RLock, so that actions     *)
(* that take the write lock wait for it, but a second loop does not.       *)
(***************************************************************************)
EXTENDS Integers, Sequences, FiniteSets, SequencesExt

CONSTANTS
  Callers,       \* execute_multi messages, each from its own connection
  Names,         \* names of targets
  TargetsOf,     \* [Callers -> Seq(Names)] msg.Targets
  NoCommand,     \* SUBSET Callers: messages without a command
  TokenFor,      \* [Callers -> SUBSET Names] targets whose token is right
  Flaky,         \* SUBSET Names: sending to these may fail
  MapRaceFatal   \* does the Go runtime detect two writers of one map?

ASSUME MultiAssumption ==
  /\ \A m \in Callers : TargetsOf[m] \in Seq(Names)
  /\ NoCommand \subseteq Callers
  /\ TokenFor \in [Callers -> SUBSET Names]
  /\ Flaky \subseteq Names
  /\ MapRaceFatal \in BOOLEAN

VARIABLES
  online,        \* names in rs.clients
  pc,            \* [Callers -> position of handleExecuteMulti]
  next,          \* [Callers -> Nat] loop index
  count,         \* [Callers -> Nat] pendingCount
  entry,         \* [Callers -> "none" | "live" | "deleted"] in rs.multiPending
  results,       \* [Callers -> partial function from Names] entry.results
  remaining,     \* [Callers -> Int] entry.remaining
  timer,         \* [Callers -> "nil" | "armed" | "stopped" | "fired"]
  subs,          \* ids in rs.subToMulti; id <<m, j>> is for TargetsOf[m][j]
  inbox,         \* ids of commands a daemon holds
  replies,       \* ids of results on their way to the relay
  aggregates,    \* [Callers -> Seq(results)] the multi_results sent
  crashed,       \* "fatal error: concurrent map writes"
  ran,           \* history: ids whose command a daemon ran
  failed         \* history: ids whose command could not be sent

vars == <<online, pc, next, count, entry, results, remaining, timer, subs,
          inbox, replies, aggregates, crashed, ran, failed>>

Outcomes == {"output", "offline", "invalid", "unsent", "timeout"}
NameOfSub(s) == TargetsOf[s[1]][s[2]]
Subs == UNION {{m} \X DOMAIN TargetsOf[m] : m \in Callers}
ResultMaps == UNION {[S -> Outcomes] : S \in SUBSET Names}

Put(f, n, v) == [x \in DOMAIN f \cup {n} |-> IF x = n THEN v ELSE f[x]]

\* Types and ranges.  entry.remaining never exceeds pendingCount, although
\* results are counted down before handleExecuteMulti has set it, and it
\* falls below 0 only for an entry that was used up in the same step.
TypeOK ==
  /\ online \subseteq Names
  /\ pc \in [Callers -> {"idle", "refused", "created", "loop", "insert", "send",
                         "unlocked", "arm", "done"}]
  /\ next \in [Callers -> Nat \ {0}]
  /\ count \in [Callers -> Nat]
  /\ entry \in [Callers -> {"none", "live", "deleted"}]
  /\ results \in [Callers -> ResultMaps]
  /\ remaining \in [Callers -> Int]
  /\ timer \in [Callers -> {"nil", "armed", "stopped", "fired"}]
  /\ subs \subseteq Subs
  /\ inbox \subseteq Subs
  /\ replies \subseteq Subs
  /\ aggregates \in [Callers -> Seq(ResultMaps)]
  /\ crashed \in BOOLEAN
  /\ ran \subseteq Subs
  /\ failed \subseteq Subs
  /\ \A m \in Callers :
       /\ next[m] <= Len(TargetsOf[m]) + 1
       /\ count[m] <= Len(TargetsOf[m])
       /\ remaining[m] \in -1 .. count[m]

Init ==
  /\ online \in SUBSET Names
  /\ pc = [m \in Callers |-> "idle"]
  /\ next = [m \in Callers |-> 1]
  /\ count = [m \in Callers |-> 0]
  /\ entry = [m \in Callers |-> "none"]
  /\ results = [m \in Callers |-> <<>>]
  /\ remaining = [m \in Callers |-> 0]
  /\ timer = [m \in Callers |-> "nil"]
  /\ subs = {}
  /\ inbox = {}
  /\ replies = {}
  /\ aggregates = [m \in Callers |-> <<>>]
  /\ crashed = FALSE
  /\ ran = {}
  /\ failed = {}

---------------------------------------------------------------------------
Looping == {m \in Callers : pc[m] \in {"loop", "insert", "send"}}
WriteLock == ~crashed /\ Looping = {}

Goto(m, l) == pc' = [pc EXCEPT ![m] = l]
Current(m) == TargetsOf[m][next[m]]

\* sendMultiResult: the results so far, in the order of the request.
SendAggregate(m, res) ==
  aggregates' = [aggregates EXCEPT ![m] = Append(@, res)]

\* A message without targets or without a command is answered at once with
\* an error, and leaves no entry.
Runnable(m) == TargetsOf[m] # <<>> /\ m \notin NoCommand

Refuse(m) ==
  /\ ~crashed
  /\ pc[m] = "idle"
  /\ ~Runnable(m)
  /\ Goto(m, "refused")
  /\ UNCHANGED <<online, next, count, entry, results, remaining, timer, subs,
                 inbox, replies, aggregates, crashed, ran, failed>>

\* rs.multiPending[multiID] = entry, under the write lock.
Create(m) ==
  /\ WriteLock
  /\ pc[m] = "idle"
  /\ Runnable(m)
  /\ entry' = [entry EXCEPT ![m] = "live"]
  /\ Goto(m, "created")
  /\ UNCHANGED <<online, next, count, results, remaining, timer, subs, inbox,
                 replies, aggregates, crashed, ran, failed>>

ReadLock(m) ==
  /\ ~crashed
  /\ pc[m] = "created"
  /\ Goto(m, "loop")
  /\ UNCHANGED <<online, next, count, entry, results, remaining, timer, subs,
                 inbox, replies, aggregates, crashed, ran, failed>>

\* A target that is not connected or whose token is wrong.
LoopSkip(m) ==
  /\ ~crashed
  /\ pc[m] = "loop"
  /\ next[m] <= Len(TargetsOf[m])
  /\ \/ Current(m) \notin online
     \/ Current(m) \notin TokenFor[m]
  /\ results' = [results EXCEPT ![m] =
       Put(@, Current(m), IF Current(m) \in online THEN "invalid" ELSE "offline")]
  /\ next' = [next EXCEPT ![m] = @ + 1]
  /\ UNCHANGED <<online, pc, count, entry, remaining, timer, subs, inbox,
                 replies, aggregates, crashed, ran, failed>>

\* rs.subToMulti[subID] = ..., a map write under the read lock: while one
\* handler is in it ("insert") another may start.
LoopInsert(m) ==
  /\ ~crashed
  /\ pc[m] = "loop"
  /\ next[m] <= Len(TargetsOf[m])
  /\ Current(m) \in online /\ Current(m) \in TokenFor[m]
  /\ Goto(m, "insert")
  /\ UNCHANGED <<online, next, count, entry, results, remaining, timer, subs,
                 inbox, replies, aggregates, crashed, ran, failed>>

Counted(m) == count' = [count EXCEPT ![m] = @ + 1]

LoopInserted(m) ==
  /\ ~crashed
  /\ pc[m] = "insert"
  /\ subs' = subs \cup {<<m, next[m]>>}
  /\ Counted(m)
  /\ Goto(m, "send")
  /\ UNCHANGED <<online, next, entry, results, remaining, timer, inbox,
                 replies, aggregates, crashed, ran, failed>>

\* Two goroutines inside a write of rs.subToMulti: the runtime may throw,
\* which no recover catches.
MapRace ==
  /\ MapRaceFatal
  /\ ~crashed
  /\ \E m1, m2 \in Callers : m1 # m2 /\ pc[m1] = "insert" /\ pc[m2] = "insert"
  /\ crashed' = TRUE
  /\ UNCHANGED <<online, pc, next, count, entry, results, remaining, timer,
                 subs, inbox, replies, aggregates, ran, failed>>

LoopSend(m) ==
  /\ ~crashed
  /\ pc[m] = "send"
  /\ inbox' = inbox \cup {<<m, next[m]>>}
  /\ next' = [next EXCEPT ![m] = @ + 1]
  /\ Goto(m, "loop")
  /\ UNCHANGED <<online, count, entry, results, remaining, timer, subs,
                 replies, aggregates, crashed, ran, failed>>

\* The failed target is recorded, its id forgotten; pendingCount stays.
LoopSendFails(m) ==
  /\ ~crashed
  /\ pc[m] = "send"
  /\ Current(m) \in Flaky
  /\ subs' = subs \ {<<m, next[m]>>}
  /\ results' = [results EXCEPT ![m] = Put(@, Current(m), "unsent")]
  /\ failed' = failed \cup {<<m, next[m]>>}
  /\ next' = [next EXCEPT ![m] = @ + 1]
  /\ Goto(m, "loop")
  /\ UNCHANGED <<online, count, entry, remaining, timer, inbox, replies,
                 aggregates, crashed, ran>>

Unlock(m) ==
  /\ ~crashed
  /\ pc[m] = "loop"
  /\ next[m] > Len(TargetsOf[m])
  /\ Goto(m, "unlocked")
  /\ UNCHANGED <<online, next, count, entry, results, remaining, timer, subs,
                 inbox, replies, aggregates, crashed, ran, failed>>

\* entry.remaining = pendingCount, outside every lock.
SetRemaining(m) ==
  /\ ~crashed
  /\ pc[m] = "unlocked"
  /\ count[m] > 0
  /\ remaining' = [remaining EXCEPT ![m] = count[m]]
  /\ Goto(m, "arm")
  /\ UNCHANGED <<online, next, count, entry, results, timer, subs, inbox,
                 replies, aggregates, crashed, ran, failed>>

\* Nobody was sent the command.  Variant: the reply is forgotten.
NobodyReply(m) == UNCHANGED aggregates
ImmediateReply(m) == SendAggregate(m, results[m])

NothingPending(m) ==
  /\ WriteLock
  /\ pc[m] = "unlocked"
  /\ count[m] = 0
  /\ entry' = [entry EXCEPT ![m] = "deleted"]
  /\ ImmediateReply(m)
  /\ Goto(m, "done")
  /\ UNCHANGED <<online, next, count, results, remaining, timer, subs, inbox,
                 replies, crashed, ran, failed>>

Arm(m) ==
  /\ ~crashed
  /\ pc[m] = "arm"
  /\ timer' = [timer EXCEPT ![m] = "armed"]
  /\ Goto(m, "done")
  /\ UNCHANGED <<online, next, count, entry, results, remaining, subs, inbox,
                 replies, aggregates, crashed, ran, failed>>

---------------------------------------------------------------------------
\* What the timer adds before it replies.  Variant: it does not look whether
\* a target is done.
FillAll(m) == [n \in ToSet(TargetsOf[m]) |-> "timeout"]
FillMissing(m) ==
  [n \in ToSet(TargetsOf[m]) |->
     IF n \in DOMAIN results[m] THEN results[m][n] ELSE "timeout"]

\* e, ok := rs.multiPending[multiID]; if !ok return.  Variant: unchecked.
TimerAlways(m) == TRUE
TimerFindsEntry(m) == entry[m] = "live"

TimerFires(m) ==
  /\ WriteLock
  /\ timer[m] = "armed"
  /\ timer' = [timer EXCEPT ![m] = "fired"]
  /\ IF TimerFindsEntry(m)
     THEN /\ entry' = [entry EXCEPT ![m] = "deleted"]
          /\ subs' = {s \in subs : s[1] # m}
          /\ results' = [results EXCEPT ![m] = FillMissing(m)]
          /\ SendAggregate(m, FillMissing(m))
     ELSE UNCHANGED <<entry, subs, results, aggregates>>
  /\ UNCHANGED <<online, pc, next, count, remaining, inbox, replies, crashed, ran, failed>>

---------------------------------------------------------------------------
\* The condition under which handleResult replies.  Variants: it waits for
\* one more; it tests for zero alone.
BelowZero(left) == left < 0
ExactlyZero(left) == left = 0
AllIn(left) == left <= 0

\* handleResult for a sub-result.
HandleResult(s) ==
  LET m == s[1]
      left == remaining[m] - 1
      res == Put(results[m], NameOfSub(s), "output")
  IN
  /\ WriteLock
  /\ s \in replies
  /\ replies' = replies \ {s}
  /\ subs' = subs \ {s}
  /\ IF s \in subs /\ entry[m] = "live"
     THEN /\ results' = [results EXCEPT ![m] = res]
          /\ remaining' = [remaining EXCEPT ![m] = left]
          /\ IF AllIn(left)
             THEN /\ entry' = [entry EXCEPT ![m] = "deleted"]
                  /\ timer' = IF timer[m] = "armed"
                              THEN [timer EXCEPT ![m] = "stopped"] ELSE timer
                  /\ SendAggregate(m, res)
             ELSE UNCHANGED <<entry, timer, aggregates>>
     ELSE UNCHANGED <<results, remaining, entry, timer, aggregates>>
  /\ UNCHANGED <<online, pc, next, count, inbox, crashed, ran, failed>>

\* The daemon runs the command and answers; or it never does.
DaemonAnswers(s) ==
  /\ s \in inbox
  /\ inbox' = inbox \ {s}
  /\ replies' = replies \cup {s}
  /\ ran' = ran \cup {s}
  /\ UNCHANGED <<online, pc, next, count, entry, results, remaining, timer,
                 subs, aggregates, crashed, failed>>

\* unregister of a target, which takes the write lock.
TargetLeaves(n) ==
  /\ WriteLock
  /\ n \in online
  /\ online' = online \ {n}
  /\ inbox' = {s \in inbox : NameOfSub(s) # n}
  /\ UNCHANGED <<pc, next, count, entry, results, remaining, timer, subs,
                 replies, aggregates, crashed, ran, failed>>

\* handleRegister of a target, which takes it too.
TargetJoins(n) ==
  /\ WriteLock
  /\ n \notin online
  /\ online' = online \cup {n}
  /\ UNCHANGED <<pc, next, count, entry, results, remaining, timer, subs,
                 inbox, replies, aggregates, crashed, ran, failed>>

HandlerStep(m) ==
  \/ ReadLock(m) \/ LoopSkip(m) \/ LoopInsert(m) \/ LoopInserted(m)
  \/ LoopSend(m) \/ LoopSendFails(m) \/ Unlock(m)
  \/ SetRemaining(m) \/ NothingPending(m) \/ Arm(m)

Next ==
  \/ \E m \in Callers : Refuse(m) \/ Create(m) \/ HandlerStep(m) \/ TimerFires(m)
  \/ \E s \in Subs : HandleResult(s) \/ DaemonAnswers(s)
  \/ \E n \in Names : TargetLeaves(n) \/ TargetJoins(n)
  \/ MapRace

Spec == Init /\ [][Next]_vars

\* Goroutines of the relay are scheduled and the timer expires; a daemon may
\* stay silent for ever.
Fairness ==
  /\ \A m \in Callers : WF_vars(HandlerStep(m)) /\ WF_vars(TimerFires(m))
  /\ \A s \in Subs : WF_vars(HandleResult(s))

FairSpec == Spec /\ Fairness

---------------------------------------------------------------------------
(***************************************************************************)
(* Properties                                                              *)
(***************************************************************************)

\* A caller is answered at most once, although the last sub-result and the
\* batch timer race for the entry, and handleResult may have replied before
\* the timer was even armed.
AtMostOneAggregate == \A m \in Callers : Len(aggregates[m]) <= 1

\* What an aggregate says of a target is true when it is sent: "output" if
\* and only if its result has come in, "offline" and "invalid" only for a
\* target that was never handed the command, "unsent" only if it could not be
\* handed it (results are kept by name: one listed twice, of which only one
\* send failed, may be "unsent" and run the command), "timeout" for the others.
AggregateHonest ==
  [][\A m \in Callers :
       aggregates'[m] # aggregates[m] =>
         LET a == Last(aggregates'[m])
             Mine(n) == {s \in Subs : s[1] = m /\ NameOfSub(s) = n}
         IN  \A n \in DOMAIN a :
               /\ a[n] = "output" <=> Mine(n) \cap (ran \ replies') # {}
               /\ a[n] \in {"offline", "invalid"} => Mine(n) \cap (inbox \cup ran) = {}
               /\ a[n] = "unsent" => Mine(n) \cap failed # {}]_vars

\* Nobody waits for the batch timer in vain: while the entry stands after the
\* fan-out, an answer is still to come, unless a send has failed (such a
\* target stays in pendingCount).
AllInMeansSent ==
  \A m \in Callers :
    pc[m] = "done" /\ entry[m] = "live" => \E s \in subs \cup failed : s[1] = m

\* An aggregate that was not sent by the timer speaks of every target.
CompleteUnlessTimedOut ==
  \A m \in Callers : \A k \in DOMAIN aggregates[m] :
    timer[m] # "fired" => DOMAIN aggregates[m][k] = ToSet(TargetsOf[m])

\* Every execute_multi that is not refused gets its aggregated reply, silent
\* targets or not, as long as the relay lives.
EveryMultiAnswered ==
  \A m \in Callers : pc[m] \notin {"idle", "refused"} ~> aggregates[m] # <<>> \/ crashed

=============================================================================
