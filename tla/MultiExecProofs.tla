-------------------------- MODULE MultiExecProofs --------------------------
(***************************************************************************)
(* Proofs about MultiExec, for any callers, targets and lists of targets:  *)
(* types and AtMostOneAggregate from the first invariant (IInv), what the  *)
(* counter counts from a second (OutInv), what an aggregate says from a    *)
(* third (HonestInv).                                                      *)
(***************************************************************************)
EXTENDS MultiExec, FiniteSetTheorems, TLAPS

(***************************************************************************)
(* pendingCount counts targets the loop has passed, and the counter that   *)
(* handleResult decrements cannot be driven below -1: whoever brings it to *)
(* 0 or below deletes the entry in the same critical section.              *)
(***************************************************************************)
CountInv ==
  \A m \in Callers :
    /\ pc[m] \in {"insert", "send"} => next[m] <= Len(TargetsOf[m])
    /\ pc[m] # "send" => count[m] <= next[m] - 1
    /\ count[m] <= next[m]
    /\ entry[m] # "deleted" => remaining[m] >= 0

(***************************************************************************)
(* Why a caller cannot be answered twice: whoever answers deletes the      *)
(* entry, and nobody answers without it.  handleExecuteMulti's own answer  *)
(* (NothingPending) does not look the entry up; it is safe because a       *)
(* result can only have used the entry up if a command was sent, that is   *)
(* if pendingCount is not 0.                                               *)
(***************************************************************************)
Answers(m) ==
  /\ entry[m] = "none" <=> pc[m] \in {"idle", "refused"}
  /\ entry[m] # "deleted" => aggregates[m] = <<>>
  /\ Len(aggregates[m]) <= 1
  /\ entry[m] = "deleted" => count[m] > 0 \/ pc[m] = "done"
  /\ pc[m] \in {"send", "arm"} => count[m] > 0
  /\ timer[m] = "armed" => count[m] > 0
  /\ (\E s \in subs : s[1] = m) => count[m] > 0

AnswerInv == \A m \in Callers : Answers(m)

IInv == TypeOK /\ CountInv /\ AnswerInv

(***************************************************************************)
(* What entry.remaining counts: the commands whose result has not been     *)
(* handled and those that could not be sent.  Before handleExecuteMulti    *)
(* has set it, it is 0 and pendingCount counts them, for a result that is  *)
(* handled that early uses the entry up.                                   *)
(***************************************************************************)
Out(m) == {s \in subs \cup failed : s[1] = m}

Outstanding(m) ==
  /\ IsFiniteSet(Out(m))
  /\ pc[m] \in {"idle", "refused"} => Out(m) = {}
  /\ \A s \in Out(m) : s[2] < next[m] \/ (pc[m] = "send" /\ s[2] = next[m])
  /\ pc[m] = "send" => <<m, next[m]>> \in subs \ failed
  /\ entry[m] # "deleted" =>
       IF pc[m] \in {"arm", "done"}
       THEN remaining[m] = Cardinality(Out(m)) /\ remaining[m] > 0
       ELSE remaining[m] = 0 /\ count[m] = Cardinality(Out(m))

OutInv == subs \cap failed = {} /\ \A m \in Callers : Outstanding(m)

(***************************************************************************)
(* Why an aggregate is honest.  Handled are the commands whose result has  *)
(* come in.  While the entry stands, what is recorded of a target agrees   *)
(* with what became of its commands (Recorded); during the fan-out nobody  *)
(* comes or goes, so that two places of one target in the list fare alike  *)
(* but for a failed send (FanOut).                                         *)
(***************************************************************************)
Sent == inbox \cup ran
Handled == ran \ replies
Mine(m, n) == {s \in Subs : s[1] = m /\ NameOfSub(s) = n}

Commands ==
  /\ inbox \cap ran = {}
  /\ replies \subseteq ran
  /\ \A s \in Sent : s[2] < next[s[1]] /\ s \notin failed /\ NameOfSub(s) \in TokenFor[s[1]]
  /\ \A s \in inbox \cup replies : entry[s[1]] # "deleted" => s \in subs
  /\ \A s \in Handled : pc[s[1]] \notin {"idle", "refused", "created", "loop", "insert", "send"}

Recorded(m, n) ==
  /\ results[m][n] # "timeout"
  /\ results[m][n] = "output" => Mine(m, n) \cap Handled # {}
  /\ results[m][n] \in {"offline", "invalid"} => Mine(m, n) \cap Sent = {}
  /\ results[m][n] = "unsent" => Mine(m, n) \cap failed # {}

Records ==
  /\ \A m \in Callers : \A n \in DOMAIN results[m] : entry[m] # "deleted" => Recorded(m, n)
  /\ \A s \in Handled : entry[s[1]] # "deleted" =>
       NameOfSub(s) \in DOMAIN results[s[1]] /\ results[s[1]][NameOfSub(s)] = "output"

FanOut ==
  \A m \in Callers :
    /\ pc[m] \in {"idle", "refused", "created"} => next[m] = 1 /\ DOMAIN results[m] = {}
    /\ m \in Looping =>
         /\ \A n \in DOMAIN results[m] : /\ results[m][n] # "output"
                                         /\ results[m][n] = "offline" => n \notin online
                                         /\ results[m][n] = "invalid" => n \notin TokenFor[m]
         /\ \A s \in Sent : s[1] = m => NameOfSub(s) \in online
    /\ pc[m] \in {"insert", "send"} => Current(m) \in online /\ Current(m) \in TokenFor[m]

HonestInv == Commands /\ Records /\ FanOut

\* The bounds of the counters, the last conjunct of TypeOK.
Ranges ==
  \A m \in Callers :
    /\ next[m] <= Len(TargetsOf[m]) + 1
    /\ count[m] <= Len(TargetsOf[m])
    /\ remaining[m] \in -1 .. count[m]

\* The types the counting and answering arguments need.
Control ==
  /\ pc \in [Callers -> {"idle", "refused", "created", "loop", "insert", "send",
                         "unlocked", "arm", "done"}]
  /\ next \in [Callers -> Nat \ {0}]
  /\ count \in [Callers -> Nat]
  /\ entry \in [Callers -> {"none", "live", "deleted"}]
  /\ remaining \in [Callers -> Int]
  /\ timer \in [Callers -> {"nil", "armed", "stopped", "fired"}]

---------------------------------------------------------------------------
(***************************************************************************)
(* The helpers                                                             *)
(***************************************************************************)

\* Recording the outcome of a target in a map of results gives such a map.
LEMMA PutType ==
  ASSUME NEW f \in ResultMaps, NEW n \in Names, NEW v \in Outcomes
  PROVE  Put(f, n, v) \in ResultMaps
<1>1. PICK S \in SUBSET Names : f \in [S -> Outcomes]
  BY DEF ResultMaps
<1>2. Put(f, n, v) \in [S \cup {n} -> Outcomes]
  BY <1>1 DEF Put
<1> QED
  BY <1>2 DEF ResultMaps

\* The timer's map of results is a map of results.
LEMMA FillType ==
  ASSUME TypeOK, NEW m \in Callers
  PROVE  FillMissing(m) \in ResultMaps
<1>1. results[m] \in ResultMaps
  BY DEF TypeOK
<1>2. PICK S \in SUBSET Names : results[m] \in [S -> Outcomes]
  BY <1>1 DEF ResultMaps
<1>3. ToSet(TargetsOf[m]) \in SUBSET Names
  BY MultiAssumption DEF ToSet
<1>4. FillMissing(m) \in [ToSet(TargetsOf[m]) -> Outcomes]
  BY <1>2 DEF FillMissing, Outcomes
<1> QED
  BY <1>3, <1>4 DEF ResultMaps

\* A sub-request belongs to a caller and to one of its targets.
LEMMA SubType ==
  ASSUME NEW s \in Subs
  PROVE  /\ s[1] \in Callers
         /\ s[2] \in DOMAIN TargetsOf[s[1]]
         /\ NameOfSub(s) \in Names
<1>1. PICK m \in Callers : s \in {m} \X DOMAIN TargetsOf[m]
  BY DEF Subs
<1>2. TargetsOf[m] \in Seq(Names)
  BY MultiAssumption
<1> QED
  BY <1>1, <1>2 DEF NameOfSub

\* Positions in a list of targets are numbered from 1.
LEMMA SubPosition == \A s \in Subs : s[2] \in Nat /\ s[2] >= 1
<1> SUFFICES ASSUME NEW s \in Subs PROVE s[2] \in Nat /\ s[2] >= 1
  OBVIOUS
<1>1. s[1] \in Callers /\ s[2] \in DOMAIN TargetsOf[s[1]]
  BY SubType
<1>2. TargetsOf[s[1]] \in Seq(Names)
  BY <1>1, MultiAssumption
<1>3. s[2] \in 1 .. Len(TargetsOf[s[1]])
  BY <1>1, <1>2
<1> QED
  BY <1>3

\* The id the loop draws for the current target is a sub-request.
LEMMA CurrentSub ==
  ASSUME TypeOK, NEW m \in Callers, next[m] <= Len(TargetsOf[m])
  PROVE  <<m, next[m]>> \in Subs /\ Current(m) \in Names
<1>1. TargetsOf[m] \in Seq(Names)
  BY MultiAssumption
<1>2. next[m] \in DOMAIN TargetsOf[m]
  BY <1>1 DEF TypeOK
<1> QED
  BY <1>1, <1>2 DEF Subs, Current

\* An answer after none is one answer.
LEMMA FirstAnswer ==
  ASSUME TypeOK, NEW m \in Callers, aggregates[m] = <<>>,
         NEW res \in ResultMaps, SendAggregate(m, res)
  PROVE  /\ aggregates' \in [Callers -> Seq(ResultMaps)]
         /\ Len(aggregates'[m]) = 1
         /\ \A x \in Callers \ {m} : aggregates'[x] = aggregates[x]
  BY DEF TypeOK, SendAggregate
---------------------------------------------------------------------------
(***************************************************************************)
(* Initial states and steps                                                *)
(***************************************************************************)

\* The invariant holds before the first execute_multi message.
LEMMA InitIInv == Init => IInv
<1> SUFFICES ASSUME Init PROVE IInv
  OBVIOUS
<1>0. <<>> \in ResultMaps
  <2>1. <<>> \in [{} -> Outcomes]
    OBVIOUS
  <2> QED
    BY <2>1 DEF ResultMaps
<1>1. \A m \in Callers : Len(TargetsOf[m]) \in Nat
  BY MultiAssumption
<1>2. TypeOK
  <2>1. Ranges
    BY <1>1 DEF Init, Ranges
  <2>2. Control
    BY DEF Init, Control
  <2>3. /\ aggregates \in [Callers -> Seq(ResultMaps)]
        /\ results \in [Callers -> ResultMaps]
    BY <1>0 DEF Init
  <2> QED
    BY <2>1, <2>2, <2>3 DEF Init, Control, TypeOK, Ranges
<1>3. CountInv
  BY <1>1 DEF Init, CountInv
<1>4. AnswerInv
  BY DEF Init, AnswerInv, Answers
<1> QED
  BY <1>2, <1>3, <1>4 DEF IInv

\* Every step of the relay and of the daemons preserves the invariant.
LEMMA StepIInv == IInv /\ [Next]_vars => IInv'
<1> SUFFICES ASSUME IInv, [Next]_vars PROVE IInv'
  OBVIOUS
<1> USE DEF IInv
<1>0. \A m \in Callers : TargetsOf[m] \in Seq(Names) /\ Len(TargetsOf[m]) \in Nat
  BY MultiAssumption
<1>t. Control
  BY DEF TypeOK, Control
<1>r. Ranges
  BY DEF TypeOK, Ranges
<1>1. ASSUME NEW m \in Callers, Create(m) PROVE IInv'
  <2>1. TypeOK'
    BY <1>1 DEF Create, WriteLock, Goto, TypeOK
  <2>2. CountInv'
    <3>1. entry[m] = "none"
      BY <1>1 DEF Create, AnswerInv, Answers
    <3> QED
      BY <1>t, <1>1, <3>1 DEF Create, WriteLock, Goto, Control, CountInv
  <2>3. AnswerInv'
    BY <1>t, <1>1 DEF Create, WriteLock, Goto, Control, AnswerInv, Answers
  <2> QED
    BY <2>1, <2>2, <2>3
<1>2a. ASSUME NEW m \in Callers, Refuse(m) PROVE IInv'
  <2>1. TypeOK'
    BY <1>2a DEF Refuse, Goto, TypeOK
  <2>2. CountInv'
    BY <1>t, <1>2a DEF Refuse, Goto, Control, CountInv
  <2>3. AnswerInv'
    BY <1>t, <1>2a DEF Refuse, Goto, Control, AnswerInv, Answers
  <2> QED
    BY <2>1, <2>2, <2>3
<1>2. ASSUME NEW m \in Callers, ReadLock(m) PROVE IInv'
  <2>1. TypeOK'
    BY <1>2 DEF ReadLock, Goto, TypeOK
  <2>2. CountInv'
    BY <1>t, <1>2 DEF ReadLock, Goto, Control, CountInv
  <2>3. AnswerInv'
    BY <1>t, <1>2 DEF ReadLock, Goto, Control, AnswerInv, Answers
  <2> QED
    BY <2>1, <2>2, <2>3
<1>3. ASSUME NEW m \in Callers, LoopSkip(m) PROVE IInv'
  <2>1. Current(m) \in Names
    BY <1>3, CurrentSub DEF LoopSkip
  <2>2. \A v \in Outcomes : Put(results[m], Current(m), v) \in ResultMaps
    BY <2>1, PutType DEF TypeOK
  <2>3. results' \in [Callers -> ResultMaps]
    BY <1>3, <2>2 DEF LoopSkip, TypeOK, Outcomes
  <2>4. TypeOK'
    BY <1>0, <1>3, <2>3, SMTT(30) DEF LoopSkip, TypeOK
  <2>5. CountInv'
    BY <1>t, <1>0, <1>3 DEF LoopSkip, Control, CountInv
  <2>6. AnswerInv'
    BY <1>t, <1>3 DEF LoopSkip, Control, AnswerInv, Answers
  <2> QED
    BY <2>4, <2>5, <2>6
<1>4. ASSUME NEW m \in Callers, LoopInsert(m) PROVE IInv'
  <2>1. TypeOK'
    BY <1>4 DEF LoopInsert, Goto, TypeOK
  <2>2. CountInv'
    BY <1>t, <1>4 DEF LoopInsert, Goto, Control, CountInv
  <2>3. AnswerInv'
    BY <1>t, <1>4 DEF LoopInsert, Goto, Control, AnswerInv, Answers
  <2> QED
    BY <2>1, <2>2, <2>3
<1>5. ASSUME NEW m \in Callers, LoopInserted(m) PROVE IInv'
  <2>1. next[m] <= Len(TargetsOf[m]) /\ count[m] <= next[m] - 1
    BY <1>5 DEF LoopInserted, CountInv
  <2>2. <<m, next[m]>> \in Subs
    BY <2>1, CurrentSub
  <2>3. TypeOK'
    <3>1. Ranges'
      BY <1>0, <1>t, <1>r, <1>5, <2>1 DEF LoopInserted, Counted, Goto, Control, Ranges
    <3>2. Control'
      BY <1>t, <1>5 DEF LoopInserted, Counted, Goto, Control
    <3> QED
      BY <1>5, <2>2, <3>1, <3>2 DEF LoopInserted, TypeOK, Ranges, Control
  <2>4. CountInv'
    BY <1>t, <1>0, <1>5, <2>1 DEF LoopInserted, Counted, Goto, Control, CountInv
  <2>5. AnswerInv'
    BY <1>t, <1>5 DEF LoopInserted, Counted, Goto, Control, AnswerInv, Answers
  <2> QED
    BY <2>3, <2>4, <2>5
<1>6. ASSUME NEW m \in Callers, LoopSend(m) PROVE IInv'
  <2>1. next[m] <= Len(TargetsOf[m])
    BY <1>6 DEF LoopSend, CountInv
  <2>2. <<m, next[m]>> \in Subs
    BY <2>1, CurrentSub
  <2>3. TypeOK'
    <3>1. Ranges'
      BY <1>0, <1>t, <1>r, <1>6, <2>1 DEF LoopSend, Goto, Control, Ranges
    <3>2. Control'
      BY <1>t, <1>6 DEF LoopSend, Goto, Control
    <3> QED
      BY <1>6, <2>2, <3>1, <3>2 DEF LoopSend, TypeOK, Ranges, Control
  <2>4. CountInv'
    BY <1>t, <1>0, <1>6 DEF LoopSend, Goto, Control, CountInv
  <2>5. AnswerInv'
    BY <1>t, <1>6 DEF LoopSend, Goto, Control, AnswerInv, Answers
  <2> QED
    BY <2>3, <2>4, <2>5
<1>7. ASSUME NEW m \in Callers, LoopSendFails(m) PROVE IInv'
  <2>1. next[m] <= Len(TargetsOf[m])
    BY <1>7 DEF LoopSendFails, CountInv
  <2>2. Put(results[m], Current(m), "unsent") \in ResultMaps
    BY <2>1, CurrentSub, PutType DEF TypeOK, Outcomes
  <2>3. TypeOK'
    <3>1. Ranges'
      BY <1>0, <1>t, <1>r, <1>7, <2>1 DEF LoopSendFails, Goto, Control, Ranges
    <3>2. Control'
      BY <1>t, <1>7 DEF LoopSendFails, Goto, Control
    <3>3. <<m, next[m]>> \in Subs
      BY <2>1, CurrentSub
    <3>4. results' \in [Callers -> ResultMaps]
      BY <1>7, <2>2 DEF LoopSendFails, TypeOK
    <3> QED
      BY <1>7, <3>1, <3>2, <3>3, <3>4 DEF LoopSendFails, TypeOK, Ranges, Control
  <2>4. CountInv'
    BY <1>t, <1>0, <1>7 DEF LoopSendFails, Goto, Control, CountInv
  <2>5. AnswerInv'
    BY <1>t, <1>7 DEF LoopSendFails, Goto, Control, AnswerInv, Answers
  <2> QED
    BY <2>3, <2>4, <2>5
<1>8. ASSUME NEW m \in Callers, Unlock(m) PROVE IInv'
  <2>1. TypeOK'
    BY <1>8 DEF Unlock, Goto, TypeOK
  <2>2. CountInv'
    BY <1>t, <1>8 DEF Unlock, Goto, Control, CountInv
  <2>3. AnswerInv'
    BY <1>t, <1>8 DEF Unlock, Goto, Control, AnswerInv, Answers
  <2> QED
    BY <2>1, <2>2, <2>3
<1>9. ASSUME NEW m \in Callers, SetRemaining(m) PROVE IInv'
  <2>1. TypeOK'
    BY <1>9 DEF SetRemaining, Goto, TypeOK
  <2>2. CountInv'
    BY <1>t, <1>9 DEF SetRemaining, Goto, Control, CountInv
  <2>3. AnswerInv'
    BY <1>t, <1>9 DEF SetRemaining, Goto, Control, AnswerInv, Answers
  <2> QED
    BY <2>1, <2>2, <2>3
<1>10. ASSUME NEW m \in Callers, NothingPending(m) PROVE IInv'
  <2>1. pc[m] = "unlocked" /\ count[m] = 0 /\ SendAggregate(m, results[m])
    BY <1>10 DEF NothingPending, ImmediateReply
  <2>2. entry[m] = "live" /\ aggregates[m] = <<>>
    <3>1. entry[m] \in {"none", "live", "deleted"}
      BY <1>t DEF Control
    <3>2. entry[m] # "none"
      BY <2>1 DEF AnswerInv, Answers
    <3>3. entry[m] # "deleted"
      BY <2>1 DEF AnswerInv, Answers
    <3>4. aggregates[m] = <<>>
      BY <3>3 DEF AnswerInv, Answers
    <3> QED
      BY <3>1, <3>2, <3>3, <3>4
  <2>3. results[m] \in ResultMaps
    BY DEF TypeOK
  <2>4. /\ aggregates' \in [Callers -> Seq(ResultMaps)]
        /\ Len(aggregates'[m]) = 1
        /\ \A x \in Callers \ {m} : aggregates'[x] = aggregates[x]
    BY <2>1, <2>2, <2>3, FirstAnswer
  <2>5. TypeOK'
    BY <1>10, <2>4 DEF NothingPending, Goto, TypeOK
  <2>6. CountInv'
    BY <1>t, <1>10 DEF NothingPending, Goto, Control, CountInv
  <2>7. AnswerInv'
    <3>1. entry' = [entry EXCEPT ![m] = "deleted"] /\ pc' = [pc EXCEPT ![m] = "done"]
          /\ UNCHANGED <<count, timer, subs>>
      BY <1>10 DEF NothingPending, Goto
    <3>2. entry'[m] = "deleted" /\ pc'[m] = "done"
      BY <1>t, <3>1 DEF Control
    <3>3. timer'[m] # "armed" /\ ~\E s \in subs' : s[1] = m
      BY <2>1, <3>1 DEF AnswerInv, Answers
    <3>4. \A x \in Callers \ {m} : entry'[x] = entry[x] /\ pc'[x] = pc[x]
      BY <1>t, <3>1 DEF Control
    <3>5. Answers(m)'
      BY <2>4, <3>1, <3>2, <3>3 DEF Answers
    <3>6. ASSUME NEW x \in Callers \ {m} PROVE Answers(x)'
      <4>1. Answers(x)
        BY DEF AnswerInv
      <4> QED
        BY <2>4, <3>1, <3>4, <4>1 DEF Answers
    <3> QED
      BY <3>5, <3>6 DEF AnswerInv
  <2> QED
    BY <2>5, <2>6, <2>7
<1>11. ASSUME NEW m \in Callers, Arm(m) PROVE IInv'
  <2>1. TypeOK'
    BY <1>11 DEF Arm, Goto, TypeOK
  <2>2. CountInv'
    BY <1>t, <1>11 DEF Arm, Goto, Control, CountInv
  <2>3. AnswerInv'
    BY <1>t, <1>11 DEF Arm, Goto, Control, AnswerInv, Answers
  <2> QED
    BY <2>1, <2>2, <2>3
<1>12. ASSUME NEW m \in Callers, TimerFires(m) PROVE IInv'
  <2>1. CASE entry[m] = "live"
    <3>1. SendAggregate(m, FillMissing(m)) /\ aggregates[m] = <<>>
      BY <1>12, <2>1 DEF TimerFires, TimerFindsEntry, AnswerInv, Answers
    <3>2. FillMissing(m) \in ResultMaps
      BY FillType
    <3>3. /\ aggregates' \in [Callers -> Seq(ResultMaps)]
          /\ Len(aggregates'[m]) = 1
          /\ \A x \in Callers \ {m} : aggregates'[x] = aggregates[x]
      BY <3>1, <3>2, FirstAnswer
    <3>4. TypeOK'
      BY <1>12, <2>1, <3>2, <3>3 DEF TimerFires, TimerFindsEntry, TypeOK
    <3>5. CountInv'
      BY <1>t, <1>12, <2>1 DEF TimerFires, TimerFindsEntry, Control, CountInv
    <3>6. AnswerInv'
      <4>1. /\ entry' = [entry EXCEPT ![m] = "deleted"]
            /\ timer' = [timer EXCEPT ![m] = "fired"]
            /\ subs' \subseteq subs
            /\ UNCHANGED <<count, pc>>
        BY <1>12, <2>1 DEF TimerFires, TimerFindsEntry
      <4>2. pc[m] \notin {"idle", "refused"} /\ count[m] > 0
        BY <1>12, <2>1 DEF TimerFires, AnswerInv, Answers
      <4>3. entry'[m] = "deleted"
        BY <1>t, <4>1 DEF Control
      <4>4. \A x \in Callers \ {m} : entry'[x] = entry[x] /\ timer'[x] = timer[x]
        BY <1>t, <4>1 DEF Control
      <4>5. Answers(m)'
        BY <3>3, <4>1, <4>2, <4>3 DEF Answers
      <4>6. ASSUME NEW x \in Callers \ {m} PROVE Answers(x)'
        BY <3>3, <4>1, <4>4, <4>6 DEF AnswerInv, Answers
      <4> QED
        BY <4>5, <4>6 DEF AnswerInv
    <3> QED
      BY <3>4, <3>5, <3>6
  <2>2. CASE entry[m] # "live"
    <3>1. TypeOK'
      BY <1>12, <2>2 DEF TimerFires, TimerFindsEntry, TypeOK
    <3>2. CountInv'
      BY <1>t, <1>12, <2>2 DEF TimerFires, TimerFindsEntry, Control, CountInv
    <3>3. AnswerInv'
      BY <1>t, <1>12, <2>2 DEF TimerFires, TimerFindsEntry, Control, AnswerInv, Answers
    <3> QED
      BY <3>1, <3>2, <3>3
  <2> QED
    BY <2>1, <2>2
<1>13. ASSUME NEW s \in Subs, HandleResult(s) PROVE IInv'
  <2> DEFINE m == s[1]
             left == remaining[m] - 1
             res == Put(results[m], NameOfSub(s), "output")
  <2>0. m \in Callers /\ res \in ResultMaps
    BY SubType, PutType DEF TypeOK, Outcomes
  <2>1. CASE s \in subs /\ entry[m] = "live" /\ left <= 0
    <3>a. Answers(m) /\ \E t \in subs : t[1] = m
      BY <2>0, <2>1 DEF AnswerInv
    <3>0. count[m] > 0 /\ pc[m] \notin {"idle", "refused"} /\ left \in -1 .. count[m] /\ aggregates[m] = <<>>
      <4>1. count[m] > 0 /\ pc[m] \notin {"idle", "refused"} /\ aggregates[m] = <<>>
        BY <2>1, <3>a DEF Answers
      <4>2. remaining[m] >= 0
        BY <2>0, <2>1 DEF CountInv
      <4>3. remaining[m] \in -1 .. count[m] /\ count[m] \in Nat
        BY <1>t, <2>0 DEF Control, TypeOK
      <4>4. left \in -1 .. count[m]
        BY <4>2, <4>3
      <4> QED
        BY <4>1, <4>4
    <3>1. /\ SendAggregate(m, res)
          /\ results' = [results EXCEPT ![m] = res]
          /\ remaining' = [remaining EXCEPT ![m] = left]
          /\ entry' = [entry EXCEPT ![m] = "deleted"]
          /\ timer' = IF timer[m] = "armed" THEN [timer EXCEPT ![m] = "stopped"] ELSE timer
          /\ subs' = subs \ {s} /\ replies' = replies \ {s}
          /\ UNCHANGED <<online, pc, next, count, inbox, crashed, ran, failed>>
      BY <1>13, <2>1 DEF HandleResult, AllIn
    <3>2. /\ aggregates' \in [Callers -> Seq(ResultMaps)]
          /\ Len(aggregates'[m]) = 1
          /\ \A x \in Callers \ {m} : aggregates'[x] = aggregates[x]
      BY <2>0, <3>0, <3>1, FirstAnswer
    <3> HIDE DEF m, left, res
    <3>3. TypeOK'
      <4>1. Ranges'
        BY <1>t, <1>r, <2>0, <3>0, <3>1 DEF Control, Ranges
      <4>2. Control'
        BY <1>t, <2>0, <3>0, <3>1 DEF Control
      <4>3. results' \in [Callers -> ResultMaps]
        BY <2>0, <3>1 DEF TypeOK
      <4> QED
        BY <3>1, <3>2, <4>1, <4>2, <4>3 DEF TypeOK, Ranges, Control
    <3>4. CountInv'
      BY <1>t, <2>0, <3>1 DEF Control, CountInv
    <3>5. AnswerInv'
      <4>1. \A x \in Callers : timer'[x] = "armed" => timer[x] = "armed"
        BY <1>t, <2>0, <3>1 DEF Control
      <4>2. entry'[m] = "deleted"
        BY <1>t, <2>0, <3>1 DEF Control
      <4>3. \A x \in Callers \ {m} : entry'[x] = entry[x]
        BY <1>t, <3>1 DEF Control
      <4>4. Answers(m)'
        BY <2>0, <3>0, <3>1, <3>2, <4>2 DEF Answers
      <4>5. ASSUME NEW x \in Callers \ {m} PROVE Answers(x)'
        BY <3>1, <3>2, <4>1, <4>3, <4>5 DEF AnswerInv, Answers
      <4> QED
        BY <4>4, <4>5 DEF AnswerInv
    <3> QED
      BY <3>3, <3>4, <3>5
  <2>2. CASE s \in subs /\ entry[m] = "live" /\ left > 0
    <3>1. /\ results' = [results EXCEPT ![m] = res]
          /\ remaining' = [remaining EXCEPT ![m] = left]
          /\ subs' = subs \ {s} /\ replies' = replies \ {s}
          /\ UNCHANGED <<online, pc, next, count, inbox, crashed, ran, failed, entry, timer, aggregates>>
      <4>1. left \in Int /\ ~AllIn(left)
        BY <1>t, <2>0, <2>2 DEF AllIn, Control
      <4> QED
        BY <1>13, <2>2, <4>1 DEF HandleResult
    <3>2. left \in -1 .. count[m]
      BY <2>0, <2>2 DEF TypeOK
    <3> HIDE DEF m, left, res
    <3>3. TypeOK'
      BY <2>0, <3>1, <3>2 DEF TypeOK
    <3>4. CountInv'
      BY <1>t, <2>0, <2>2, <3>1, <3>2 DEF Control, CountInv
    <3>5. AnswerInv'
      BY <1>t, <3>1 DEF Control, AnswerInv, Answers
    <3> QED
      BY <3>3, <3>4, <3>5
  <2>3. CASE ~(s \in subs /\ entry[m] = "live")
    <3>1. /\ subs' = subs \ {s} /\ replies' = replies \ {s}
          /\ UNCHANGED <<online, pc, next, count, inbox, crashed, ran, failed, entry, timer,
                         aggregates, results, remaining>>
      BY <1>13, <2>3 DEF HandleResult
    <3>2. TypeOK' /\ CountInv' /\ AnswerInv'
      BY <1>t, <3>1 DEF Control, TypeOK, CountInv, AnswerInv, Answers
    <3> QED
      BY <3>2
  <2>4. left \in Int
    BY <2>0 DEF TypeOK
  <2> QED
    BY <2>1, <2>2, <2>3, <2>4
<1>14. ASSUME NEW s \in Subs, DaemonAnswers(s) PROVE IInv'
  BY <1>t, <1>14 DEF DaemonAnswers, Control, TypeOK, CountInv, AnswerInv, Answers
<1>15. ASSUME NEW n \in Names, TargetLeaves(n) PROVE IInv'
  BY <1>t, <1>15 DEF TargetLeaves, Control, TypeOK, CountInv, AnswerInv, Answers
<1>15a. ASSUME NEW n \in Names, TargetJoins(n) PROVE IInv'
  BY <1>t, <1>15a DEF TargetJoins, Control, TypeOK, CountInv, AnswerInv, Answers
<1>16. CASE MapRace
  BY <1>t, <1>16 DEF MapRace, Control, TypeOK, CountInv, AnswerInv, Answers
<1>17. CASE UNCHANGED vars
  BY <1>t, <1>17 DEF vars, Control, TypeOK, CountInv, AnswerInv, Answers
<1> QED
  BY <1>1, <1>2, <1>2a, <1>3, <1>4, <1>5, <1>6, <1>7, <1>8, <1>9, <1>10, <1>11,
     <1>12, <1>13, <1>14, <1>15, <1>15a, <1>16, <1>17 DEF Next, HandlerStep

---------------------------------------------------------------------------
(***************************************************************************)
(* What entry.remaining counts                                             *)
(***************************************************************************)

\* Before the first message nothing is outstanding.
LEMMA InitOut == Init => OutInv
<1> SUFFICES ASSUME Init PROVE OutInv
  OBVIOUS
<1>1. \A m \in Callers : Out(m) = {}
  BY DEF Init, Out
<1>2. IsFiniteSet({}) /\ Cardinality({}) = 0
  BY FS_EmptySet
<1>3. ASSUME NEW m \in Callers PROVE Outstanding(m)
  BY <1>1, <1>2 DEF Init, Outstanding
<1> QED
  BY <1>3 DEF Init, OutInv

\* A batch none of whose state changes keeps its count.
LEMMA OutstandingSame ==
  ASSUME NEW m \in Callers, Outstanding(m), Out(m)' = Out(m),
         pc'[m] = pc[m], next'[m] = next[m], count'[m] = count[m],
         entry'[m] = entry[m], remaining'[m] = remaining[m],
         pc[m] = "send" => (<<m, next[m]>> \in subs' \ failed')
  PROVE  Outstanding(m)'
  BY DEF Outstanding

\* Sending, failing to send, counting down and timing out keep the counters
\* equal to the number of outstanding commands.
LEMMA StepOut == IInv /\ OutInv /\ [Next]_vars => OutInv'
<1> SUFFICES ASSUME IInv, OutInv, [Next]_vars PROVE OutInv'
  OBVIOUS
<1>t. Control
  BY DEF IInv, TypeOK, Control
<1>o. /\ subs \cap failed = {}
      /\ \A m \in Callers : Outstanding(m)
  BY DEF OutInv
\* Steps of one batch that send nothing and handle no result.
<1>s. ASSUME NEW m \in Callers, UNCHANGED <<subs, failed>>,
             \A x \in Callers \ {m} : UNCHANGED <<pc[x], next[x], count[x], entry[x], remaining[x]>>,
             Outstanding(m)'
      PROVE  OutInv'
  <2>1. \A x \in Callers : Out(x)' = Out(x)
    BY <1>s DEF Out
  <2>2. ASSUME NEW x \in Callers \ {m} PROVE Outstanding(x)'
    <3>1. Outstanding(x)
      BY <1>o
    <3> QED
      BY <1>s, <2>1, <3>1 DEF Outstanding
  <2> QED
    BY <1>s, <1>o, <2>2 DEF OutInv
<1>1. ASSUME NEW m \in Callers, Create(m) PROVE OutInv'
  <2>1. Out(m)' = Out(m) /\ Outstanding(m) /\ pc[m] = "idle" /\ entry[m] = "none"
    BY <1>o, <1>1 DEF Create, Out, IInv, AnswerInv, Answers
  <2>2. Outstanding(m)'
    BY <1>t, <1>1, <2>1 DEF Create, Goto, Control, Outstanding
  <2> QED
    BY <1>t, <1>1, <1>s, <2>2 DEF Create, Goto, Control
<1>2a. ASSUME NEW m \in Callers, Refuse(m) PROVE OutInv'
  <2>1. Out(m)' = Out(m) /\ Outstanding(m) /\ pc[m] = "idle"
    BY <1>o, <1>2a DEF Refuse, Out
  <2>2. Outstanding(m)'
    BY <1>t, <1>2a, <2>1 DEF Refuse, Goto, Control, Outstanding
  <2> QED
    BY <1>t, <1>2a, <1>s, <2>2 DEF Refuse, Goto, Control
<1>2. ASSUME NEW m \in Callers, ReadLock(m) \/ LoopInsert(m) \/ Unlock(m) \/ Arm(m) PROVE OutInv'
  <2>1. /\ UNCHANGED <<subs, failed, next, count, entry, remaining>>
        /\ \A x \in Callers \ {m} : pc'[x] = pc[x]
        /\ pc'[m] # "send" /\ pc'[m] \notin {"idle", "refused"} /\ pc[m] # "send"
        /\ pc'[m] \in {"arm", "done"} <=> pc[m] \in {"arm", "done"}
    BY <1>t, <1>2 DEF ReadLock, LoopInsert, Unlock, Arm, Goto, Control
  <2>2. Out(m)' = Out(m) /\ Outstanding(m)
    BY <1>o, <2>1 DEF Out
  <2>3. Outstanding(m)'
    BY <2>1, <2>2 DEF Outstanding
  <2> QED
    BY <1>s, <2>1, <2>3
<1>3. ASSUME NEW m \in Callers, LoopSkip(m) PROVE OutInv'
  <2>1. /\ UNCHANGED <<subs, failed, pc, count, entry, remaining>>
        /\ \A x \in Callers \ {m} : next'[x] = next[x]
        /\ next'[m] = next[m] + 1 /\ pc[m] = "loop" /\ next[m] \in Nat
    BY <1>t, <1>3 DEF LoopSkip, Control
  <2>2. Out(m)' = Out(m) /\ Outstanding(m)
    BY <1>o, <2>1 DEF Out
  <2>3. \A s \in Out(m) : s[2] \in Nat
    BY SubPosition DEF Out, IInv, TypeOK
  <2>4. Outstanding(m)'
    BY <2>1, <2>2, <2>3 DEF Outstanding
  <2> QED
    BY <1>s, <2>1, <2>4
<1>4. ASSUME NEW m \in Callers, LoopInserted(m) PROVE OutInv'
  <2> DEFINE s == <<m, next[m]>>
  <2>1. /\ UNCHANGED <<next, entry, remaining, failed>>
        /\ subs' = subs \cup {s}
        /\ \A x \in Callers \ {m} : pc'[x] = pc[x] /\ count'[x] = count[x]
        /\ pc[m] = "insert" /\ pc'[m] = "send"
        /\ count[m] \in Nat /\ count'[m] = count[m] + 1 /\ next[m] \in Nat
    BY <1>t, <1>4 DEF LoopInserted, Counted, Goto, Control
  <2>2. Outstanding(m)
    BY <1>o
  <2>3. s \notin Out(m)
    BY <2>1, <2>2 DEF Outstanding
  <2>4. Out(m)' = Out(m) \cup {s}
    BY <2>1 DEF Out
  <2>5. IsFiniteSet(Out(m)') /\ Cardinality(Out(m)') = Cardinality(Out(m)) + 1
    BY <2>2, <2>3, <2>4, FS_AddElement DEF Outstanding
  <2>6. s \notin failed
    BY <2>3 DEF Out
  <2>7. Outstanding(m)'
    BY <2>1, <2>2, <2>4, <2>5, <2>6 DEF Outstanding
  <2>8. ASSUME NEW x \in Callers \ {m} PROVE Outstanding(x)'
    <3>1. Out(x)' = Out(x) /\ Outstanding(x)
      BY <1>o, <2>1 DEF Out
    <3> QED
      BY <2>1, <3>1 DEF Outstanding
  <2> QED
    BY <1>o, <2>1, <2>6, <2>7, <2>8 DEF OutInv
<1>5. ASSUME NEW m \in Callers, LoopSend(m) PROVE OutInv'
  <2>1. /\ UNCHANGED <<subs, failed, count, entry, remaining>>
        /\ \A x \in Callers \ {m} : pc'[x] = pc[x] /\ next'[x] = next[x]
        /\ next'[m] = next[m] + 1 /\ pc[m] = "send" /\ pc'[m] = "loop" /\ next[m] \in Nat
    BY <1>t, <1>5 DEF LoopSend, Goto, Control
  <2>2. Out(m)' = Out(m) /\ Outstanding(m)
    BY <1>o, <2>1 DEF Out
  <2>3. \A s \in Out(m) : s[2] \in Nat
    BY SubPosition DEF Out, IInv, TypeOK
  <2>4. Outstanding(m)'
    BY <2>1, <2>2, <2>3 DEF Outstanding
  <2> QED
    BY <1>s, <2>1, <2>4
<1>6. ASSUME NEW m \in Callers, LoopSendFails(m) PROVE OutInv'
  <2> DEFINE s == <<m, next[m]>>
  <2>1. /\ UNCHANGED <<count, entry, remaining>>
        /\ subs' = subs \ {s} /\ failed' = failed \cup {s}
        /\ \A x \in Callers \ {m} : pc'[x] = pc[x] /\ next'[x] = next[x]
        /\ next'[m] = next[m] + 1 /\ pc[m] = "send" /\ pc'[m] = "loop" /\ next[m] \in Nat
    BY <1>t, <1>6 DEF LoopSendFails, Goto, Control
  <2>2. Outstanding(m) /\ s \in subs
    BY <1>o, <2>1 DEF Outstanding
  <2>3. \A x \in Callers : Out(x)' = Out(x)
    BY <2>1, <2>2 DEF Out
  <2>4. \A z \in Out(m) : z[2] \in Nat
    BY SubPosition DEF Out, IInv, TypeOK
  <2>5. Outstanding(m)'
    BY <2>1, <2>2, <2>3, <2>4 DEF Outstanding
  <2>6. ASSUME NEW x \in Callers \ {m} PROVE Outstanding(x)'
    BY <1>o, <2>1, <2>3 DEF Outstanding
  <2> QED
    BY <1>o, <2>1, <2>5, <2>6 DEF OutInv
<1>7. ASSUME NEW m \in Callers, SetRemaining(m) PROVE OutInv'
  <2>1. /\ UNCHANGED <<subs, failed, next, count, entry>>
        /\ \A x \in Callers \ {m} : pc'[x] = pc[x] /\ remaining'[x] = remaining[x]
        /\ pc[m] = "unlocked" /\ pc'[m] = "arm" /\ count[m] > 0 /\ remaining'[m] = count[m]
    BY <1>t, <1>7 DEF SetRemaining, Goto, Control
  <2>2. Out(m)' = Out(m) /\ Outstanding(m)
    BY <1>o, <2>1 DEF Out
  <2>3. Outstanding(m)'
    BY <2>1, <2>2 DEF Outstanding
  <2> QED
    BY <1>s, <2>1, <2>3
<1>8. ASSUME NEW m \in Callers, NothingPending(m) PROVE OutInv'
  <2>1. /\ UNCHANGED <<subs, failed, next, count, remaining>>
        /\ \A x \in Callers \ {m} : pc'[x] = pc[x] /\ entry'[x] = entry[x]
        /\ pc[m] = "unlocked" /\ pc'[m] = "done" /\ entry'[m] = "deleted"
    BY <1>t, <1>8 DEF NothingPending, Goto, Control
  <2>2. Out(m)' = Out(m) /\ Outstanding(m)
    BY <1>o, <2>1 DEF Out
  <2>3. Outstanding(m)'
    BY <2>1, <2>2 DEF Outstanding
  <2> QED
    BY <1>s, <2>1, <2>3
<1>9. ASSUME NEW m \in Callers, TimerFires(m) PROVE OutInv'
  <2>1. CASE entry[m] = "live"
    <3>1. /\ UNCHANGED <<pc, next, count, remaining, failed>>
          /\ \A x \in Callers \ {m} : entry'[x] = entry[x]
          /\ entry'[m] = "deleted" /\ pc[m] \notin {"loop", "insert", "send", "idle", "refused"}
          /\ subs' = {s \in subs : s[1] # m}
      BY <1>t, <1>9, <2>1 DEF TimerFires, TimerFindsEntry, WriteLock, Looping, Control,
                              IInv, AnswerInv, Answers
    <3>2. Out(m)' \subseteq Out(m) /\ Outstanding(m)
      BY <1>o, <3>1 DEF Out
    <3>3. IsFiniteSet(Out(m)')
      BY <3>2, FS_Subset DEF Outstanding
    <3>4. Outstanding(m)'
      BY <3>1, <3>2, <3>3 DEF Outstanding
    <3>5. ASSUME NEW x \in Callers \ {m} PROVE Outstanding(x)'
      <4>1. Out(x)' = Out(x) /\ Outstanding(x)
        BY <1>o, <3>1 DEF Out
      <4> QED
        BY <3>1, <4>1 DEF Outstanding
    <3> QED
      BY <1>o, <3>1, <3>4, <3>5 DEF OutInv
  <2>2. CASE entry[m] # "live"
    <3>1. UNCHANGED <<pc, next, count, entry, remaining, subs, failed>>
      BY <1>9, <2>2 DEF TimerFires, TimerFindsEntry
    <3> QED
      BY <3>1 DEF OutInv, Outstanding, Out
  <2> QED
    BY <2>1, <2>2
<1>10. ASSUME NEW s \in Subs, HandleResult(s) PROVE OutInv'
  <2> DEFINE m == s[1]
             left == remaining[m] - 1
  <2>0. /\ m \in Callers /\ pc[m] \notin {"loop", "insert", "send"}
        /\ \A x \in Callers : pc[x] # "send"
        /\ subs' = subs \ {s} /\ UNCHANGED <<pc, next, count, failed>>
        /\ Outstanding(m) /\ left \in Int
    BY <1>o, <1>t, <1>10, SubType DEF HandleResult, WriteLock, Looping, Control
  <2>1. CASE s \in subs /\ entry[m] = "live"
    <3>1. /\ remaining' = [remaining EXCEPT ![m] = left]
          /\ entry' = IF left <= 0 THEN [entry EXCEPT ![m] = "deleted"] ELSE entry
      BY <1>10, <2>1 DEF HandleResult, AllIn
    <3> HIDE DEF left
    <3>2. s \in Out(m) /\ s \notin failed
      BY <1>o, <2>1 DEF Out
    <3>3. Out(m)' = Out(m) \ {s}
      BY <2>0, <3>2 DEF Out
    <3>4. IsFiniteSet(Out(m)') /\ Cardinality(Out(m)') = Cardinality(Out(m)) - 1
      BY <2>0, <3>2, <3>3, FS_RemoveElement DEF Outstanding
    <3>5. pc[m] \notin {"idle", "refused"}
      BY <2>0, <3>2 DEF Outstanding
    <3>6. entry'[m] # "deleted" => (left > 0 /\ remaining'[m] = left)
      BY <1>t, <2>0, <3>1 DEF Control
    <3>7. left = remaining[m] - 1
      BY DEF left
    <3>8. Outstanding(m)'
      BY <2>0, <2>1, <3>3, <3>4, <3>5, <3>6, <3>7 DEF Outstanding
    <3>9. ASSUME NEW x \in Callers \ {m} PROVE Outstanding(x)'
      <4>1. Out(x)' = Out(x) /\ Outstanding(x)
        BY <1>o, <2>0 DEF Out
      <4>2. remaining'[x] = remaining[x] /\ entry'[x] = entry[x]
        BY <1>t, <3>1 DEF Control
      <4> QED
        BY <2>0, <4>1, <4>2 DEF Outstanding
    <3> QED
      BY <1>o, <2>0, <3>8, <3>9 DEF OutInv
  <2>2. CASE s \in subs /\ entry[m] # "live"
    <3>1. UNCHANGED <<remaining, entry>>
      BY <1>10, <2>2 DEF HandleResult
    <3>2. s \in Out(m) /\ entry[m] = "deleted"
      <4>1. s \in Out(m) /\ pc[m] \notin {"idle", "refused"}
        BY <2>0, <2>2 DEF Out, Outstanding
      <4> QED
        BY <1>t, <2>0, <2>2, <4>1 DEF Control, IInv, AnswerInv, Answers
    <3>3. Out(m)' \subseteq Out(m)
      BY <2>0 DEF Out
    <3>4. IsFiniteSet(Out(m)')
      BY <2>0, <3>3, FS_Subset DEF Outstanding
    <3>5. Outstanding(m)'
      BY <2>0, <3>1, <3>2, <3>3, <3>4 DEF Outstanding
    <3>6. ASSUME NEW x \in Callers \ {m} PROVE Outstanding(x)'
      <4>1. Out(x)' = Out(x) /\ Outstanding(x)
        BY <1>o, <2>0 DEF Out
      <4> QED
        BY <2>0, <3>1, <4>1 DEF Outstanding
    <3> QED
      BY <1>o, <2>0, <3>5, <3>6 DEF OutInv
  <2>3. CASE s \notin subs
    <3>1. UNCHANGED <<remaining, entry, subs>>
      BY <1>10, <2>0, <2>3 DEF HandleResult
    <3> QED
      BY <2>0, <3>1 DEF OutInv, Outstanding, Out
  <2> QED
    BY <2>1, <2>2, <2>3
<1>11. CASE UNCHANGED <<pc, next, count, entry, remaining, subs, failed>>
  BY <1>11 DEF OutInv, Outstanding, Out
<1>12. ASSUME NEW s \in Subs, DaemonAnswers(s) PROVE OutInv'
  BY <1>11, <1>12 DEF DaemonAnswers
<1>13. ASSUME NEW n \in Names, TargetLeaves(n) \/ TargetJoins(n) PROVE OutInv'
  BY <1>11, <1>13 DEF TargetLeaves, TargetJoins
<1>14. CASE MapRace
  BY <1>11, <1>14 DEF MapRace
<1>15. CASE UNCHANGED vars
  BY <1>11, <1>15 DEF vars
<1> QED
  BY <1>1, <1>2, <1>2a, <1>3, <1>4, <1>5, <1>6, <1>7, <1>8, <1>9, <1>10, <1>12,
     <1>13, <1>14, <1>15 DEF Next, HandlerStep

---------------------------------------------------------------------------
(***************************************************************************)
(* What an aggregate says                                                  *)
(***************************************************************************)

\* No command has been sent and nothing recorded before the first message.
LEMMA InitHonest == Init => HonestInv
<1> SUFFICES ASSUME Init PROVE HonestInv
  OBVIOUS
<1>1. Sent = {} /\ Handled = {} /\ Looping = {} /\ \A m \in Callers : results[m] = <<>>
  BY DEF Init, Sent, Handled, Looping
<1>2. DOMAIN <<>> = {}
  OBVIOUS
<1> QED
  BY <1>1, <1>2 DEF Init, HonestInv, Commands, Records, FanOut

\* A command that a daemon holds or has run comes from a batch that has got
\* past its first target, and whose entry exists.
LEMMA SentMeansStarted ==
  ASSUME IInv, HonestInv, NEW s \in Sent
  PROVE  /\ s \in Subs /\ s[1] \in Callers /\ NameOfSub(s) \in Names
         /\ s[2] < next[s[1]]
         /\ pc[s[1]] \notin {"idle", "refused", "created"} /\ entry[s[1]] # "none"
<1>1. s \in Subs
  BY DEF Sent, IInv, TypeOK
<1>2. s[1] \in Callers /\ NameOfSub(s) \in Names /\ s[2] \in Nat /\ s[2] >= 1
  BY <1>1, SubType, SubPosition
<1>3. s[2] < next[s[1]]
  BY DEF HonestInv, Commands
<1>4. pc[s[1]] \notin {"idle", "refused", "created"}
  BY <1>2, <1>3 DEF HonestInv, FanOut
<1> QED
  BY <1>1, <1>2, <1>3, <1>4 DEF IInv, AnswerInv, Answers

\* Commands: sent once each, on their way exactly while they are awaited.
LEMMA StepCommands == IInv /\ OutInv /\ HonestInv /\ [Next]_vars => Commands'
<1> SUFFICES ASSUME IInv, OutInv, HonestInv, [Next]_vars PROVE Commands'
  OBVIOUS
<1>t. Control
  BY DEF IInv, TypeOK, Control
<1>c. Commands
  BY DEF HonestInv
<1>s. \A s \in Sent : s \in Subs /\ s[1] \in Callers /\ s[2] \in Nat
  BY SentMeansStarted, SubPosition
\* Steps that neither send nor handle nor forget a command.
<1>u. ASSUME UNCHANGED <<subs, replies, ran, failed>>, inbox' \subseteq inbox,
             \A x \in Callers : /\ next'[x] >= next[x]
                                /\ entry'[x] # "deleted" => entry[x] # "deleted"
                                /\ pc'[x] \in {"idle", "refused", "created", "loop", "insert", "send"} =>
                                     pc[x] \in {"idle", "refused", "created", "loop", "insert", "send"}
      PROVE  Commands'
  <2>3. \A s \in Sent : s[2] < next'[s[1]]
    <3> SUFFICES ASSUME NEW s \in Sent PROVE s[2] < next'[s[1]]
      OBVIOUS
    <3>1. next' \in [Callers -> Nat \ {0}]
      BY StepIInv DEF IInv, TypeOK
    <3>2. s[1] \in Callers /\ s[2] \in Nat /\ s[2] < next[s[1]]
      BY <1>s, <1>c DEF Commands
    <3> QED
      BY <1>u, <1>t, <3>1, <3>2 DEF Control
  <2>4. Sent' \subseteq Sent /\ Handled' = Handled
    BY <1>u DEF Sent, Handled
  <2>5. \A s \in Handled : s \in Sent
    BY DEF Handled, Sent
  <2>6. \A s \in Sent' : s[2] < next'[s[1]] /\ s \notin failed' /\ NameOfSub(s) \in TokenFor[s[1]]
    BY <1>c, <1>u, <2>3, <2>4 DEF Commands
  <2>7. \A s \in inbox' \cup replies' : entry'[s[1]] # "deleted" => s \in subs'
    BY <1>c, <1>s, <1>u DEF Commands, Sent
  <2>8. \A s \in Handled' : pc'[s[1]] \notin {"idle", "refused", "created", "loop", "insert", "send"}
    BY <1>c, <1>s, <1>u, <2>4, <2>5 DEF Commands
  <2> QED
    BY <1>c, <1>u, <2>6, <2>7, <2>8 DEF Commands
<1>1. ASSUME NEW m \in Callers,
             Refuse(m) \/ Create(m) \/ ReadLock(m) \/ LoopSkip(m) \/ LoopInsert(m) \/ Unlock(m)
               \/ SetRemaining(m) \/ NothingPending(m) \/ Arm(m)
      PROVE Commands'
  <2>1. CASE Create(m)
    BY <1>t, <1>u, <2>1 DEF Create, Goto, Control, IInv, AnswerInv, Answers
  <2>2. CASE Refuse(m) \/ ReadLock(m) \/ LoopInsert(m) \/ Unlock(m) \/ SetRemaining(m) \/ Arm(m)
    BY <1>t, <1>u, <2>2 DEF Refuse, ReadLock, LoopInsert, Unlock, SetRemaining, Arm, Goto, Control
  <2>3. CASE LoopSkip(m)
    BY <1>t, <1>u, <2>3 DEF LoopSkip, Control
  <2>4. CASE NothingPending(m)
    BY <1>t, <1>u, <2>4 DEF NothingPending, Goto, Control
  <2> QED
    BY <1>1, <2>1, <2>2, <2>3, <2>4
<1>2. ASSUME NEW m \in Callers, LoopInserted(m) PROVE Commands'
  <2>1. /\ subs \subseteq subs' /\ UNCHANGED <<inbox, replies, ran, failed, next, entry>>
        /\ pc[m] = "insert" /\ \A x \in Callers \ {m} : pc'[x] = pc[x]
    BY <1>t, <1>2 DEF LoopInserted, Goto, Control
  <2>2. \A s \in Handled : s[1] # m
    BY <1>c, <2>1 DEF Commands
  <2>3. Sent' = Sent /\ Handled' = Handled /\ Handled \subseteq Sent
    BY <2>1 DEF Sent, Handled
  <2> QED
    BY <1>c, <1>s, <2>1, <2>2, <2>3 DEF Commands
<1>3. ASSUME NEW m \in Callers, LoopSend(m) PROVE Commands'
  <2> DEFINE z == <<m, next[m]>>
  <2>1. /\ inbox' = inbox \cup {z} /\ UNCHANGED <<subs, replies, ran, failed, entry>>
        /\ pc[m] = "send" /\ next[m] \in Nat /\ next'[m] = next[m] + 1
        /\ \A x \in Callers \ {m} : pc'[x] = pc[x] /\ next'[x] = next[x]
    BY <1>t, <1>3 DEF LoopSend, Goto, Control
  <2>2. z \in subs \ failed
    BY <2>1 DEF OutInv, Outstanding
  <2>3. z \notin Sent
    BY <1>c, <2>1 DEF Commands
  <2>4. Sent' = Sent \cup {z} /\ Handled' = Handled
    BY <2>1 DEF Sent, Handled
  <2>5. NameOfSub(z) \in TokenFor[m]
    BY <2>1 DEF HonestInv, FanOut, NameOfSub, Current
  <2>6. \A s \in Sent : s[2] < next'[s[1]]
    BY <1>c, <1>s, <2>1 DEF Commands
  <2>7. \A s \in Handled : s[1] \in Callers \ {m}
    BY <1>c, <1>s, <2>1 DEF Commands, Handled, Sent
  <2>8. \A s \in Sent' : s[2] < next'[s[1]] /\ s \notin failed' /\ NameOfSub(s) \in TokenFor[s[1]]
    BY <1>c, <2>1, <2>2, <2>4, <2>5, <2>6 DEF Commands
  <2> QED
    BY <1>c, <2>1, <2>2, <2>3, <2>4, <2>7, <2>8 DEF Commands, Sent
<1>4. ASSUME NEW m \in Callers, LoopSendFails(m) PROVE Commands'
  <2> DEFINE z == <<m, next[m]>>
  <2>1. /\ failed' = failed \cup {z} /\ subs' = subs \ {z}
        /\ UNCHANGED <<inbox, replies, ran, entry>>
        /\ pc[m] = "send" /\ next[m] \in Nat /\ next'[m] = next[m] + 1
        /\ \A x \in Callers \ {m} : pc'[x] = pc[x] /\ next'[x] = next[x]
    BY <1>t, <1>4 DEF LoopSendFails, Goto, Control
  <2>2. z \notin Sent
    BY <1>c, <2>1 DEF Commands
  <2>3. Sent' = Sent /\ Handled' = Handled
    BY <2>1 DEF Sent, Handled
  <2>4. \A s \in Sent : s[2] < next'[s[1]]
    BY <1>c, <1>s, <2>1 DEF Commands
  <2>5. \A s \in Handled : s[1] \in Callers \ {m}
    BY <1>c, <1>s, <2>1 DEF Commands, Handled, Sent
  <2>6. inbox \cup replies \subseteq Sent
    BY <1>c DEF Commands, Sent
  <2> QED
    BY <1>c, <2>1, <2>2, <2>3, <2>4, <2>5, <2>6 DEF Commands
<1>5. ASSUME NEW m \in Callers, TimerFires(m) PROVE Commands'
  <2>1. CASE entry[m] = "live"
    <3>1. /\ UNCHANGED <<pc, next, inbox, replies, ran, failed>>
          /\ \A x \in Callers \ {m} : entry'[x] = entry[x]
          /\ entry'[m] = "deleted"
          /\ subs' = {s \in subs : s[1] # m}
      BY <1>t, <1>5, <2>1 DEF TimerFires, TimerFindsEntry, Control
    <3>2. inbox \cup replies \subseteq Sent
      BY <1>c DEF Commands, Sent
    <3>3. \A s \in inbox \cup replies : entry'[s[1]] # "deleted" => s \in subs'
      BY <1>c, <1>s, <3>1, <3>2 DEF Commands
    <3> QED
      BY <1>c, <3>1, <3>3 DEF Commands, Sent, Handled
  <2>2. CASE entry[m] # "live"
    <3>1. UNCHANGED <<pc, next, entry, subs, inbox, replies, ran, failed>>
      BY <1>5, <2>2 DEF TimerFires, TimerFindsEntry
    <3> QED
      BY <1>c, <3>1 DEF Commands, Sent, Handled
  <2> QED
    BY <2>1, <2>2
<1>6. ASSUME NEW z \in Subs, HandleResult(z) PROVE Commands'
  <2>1. /\ z \in replies /\ replies' = replies \ {z} /\ subs' = subs \ {z}
        /\ UNCHANGED <<pc, next, inbox, ran, failed>>
        /\ Looping = {}
    BY <1>6 DEF HandleResult, WriteLock
  <2>2. z \in Sent /\ z \notin inbox /\ z[1] \in Callers
    BY <1>c, <1>s, <2>1 DEF Commands, Sent
  <2>3. \A x \in Callers : entry'[x] # "deleted" => entry[x] # "deleted"
    BY <1>t, <1>6, <2>2 DEF HandleResult, Control
  <2>4. Handled' \subseteq Handled \cup {z} /\ Sent' = Sent
    BY <2>1 DEF Handled, Sent
  <2>5. pc[z[1]] \notin {"idle", "refused", "created", "loop", "insert", "send"}
    BY <2>1, <2>2, SentMeansStarted DEF Looping
  <2>6. inbox \cup replies \subseteq Sent
    BY <1>c DEF Commands, Sent
  <2>7. \A s \in inbox' \cup replies' : entry'[s[1]] # "deleted" => s \in subs'
    BY <1>c, <1>s, <2>1, <2>2, <2>3, <2>6 DEF Commands
  <2>8. \A s \in Handled' : pc'[s[1]] \notin {"idle", "refused", "created", "loop", "insert", "send"}
    BY <1>c, <2>1, <2>4, <2>5 DEF Commands
  <2> QED
    BY <1>c, <2>1, <2>4, <2>7, <2>8 DEF Commands
<1>7. ASSUME NEW z \in Subs, DaemonAnswers(z) PROVE Commands'
  <2>1. /\ z \in inbox /\ inbox' = inbox \ {z} /\ replies' = replies \cup {z}
        /\ ran' = ran \cup {z} /\ UNCHANGED <<pc, next, entry, subs, failed>>
    BY <1>7 DEF DaemonAnswers
  <2>2. Sent' = Sent /\ Handled' = Handled
    BY <1>c, <2>1 DEF Sent, Handled, Commands
  <2> QED
    BY <1>c, <2>1, <2>2 DEF Commands
<1>8. ASSUME NEW n \in Names, TargetLeaves(n) \/ TargetJoins(n) PROVE Commands'
  <2>1. UNCHANGED <<subs, replies, ran, failed, next, entry, pc>> /\ inbox' \subseteq inbox
    BY <1>8 DEF TargetLeaves, TargetJoins
  <2> QED
    BY <1>t, <1>u, <2>1 DEF Control
<1>9. CASE MapRace \/ UNCHANGED vars
  <2>1. UNCHANGED <<subs, replies, ran, failed, next, entry, pc, inbox>>
    BY <1>9 DEF MapRace, vars
  <2> QED
    BY <1>t, <1>u, <2>1 DEF Control
<1> QED
  BY <1>1, <1>2, <1>3, <1>4, <1>5, <1>6, <1>7, <1>8, <1>9 DEF Next, HandlerStep

\* What is recorded of a target while the entry stands.
LEMMA StepRecords == IInv /\ OutInv /\ HonestInv /\ [Next]_vars => Records'
<1> SUFFICES ASSUME IInv, OutInv, HonestInv, [Next]_vars PROVE Records'
  OBVIOUS
<1>t. Control
  BY DEF IInv, TypeOK, Control
<1>c. Commands /\ Records /\ FanOut
  BY DEF HonestInv
<1>s. \A s \in Sent : s \in Subs /\ s[1] \in Callers
  BY SentMeansStarted
<1>h. Handled \subseteq Sent
  BY DEF Handled, Sent
<1>r. results \in [Callers -> ResultMaps]
  BY DEF IInv, TypeOK
\* Steps that record nothing.
<1>u. ASSUME UNCHANGED results, Handled' = Handled, Sent' \subseteq Sent, failed \subseteq failed',
             \A x \in Callers : entry'[x] # "deleted" => entry[x] # "deleted"
      PROVE  Records'
  <2>1. ASSUME NEW x \in Callers, NEW n \in DOMAIN results[x], entry[x] # "deleted"
        PROVE  Recorded(x, n)'
    <3>1. Recorded(x, n)
      BY <1>c, <2>1 DEF Records
    <3> QED
      BY <1>u, <3>1 DEF Recorded, Mine
  <2> QED
    BY <1>c, <1>h, <1>s, <1>u, <2>1 DEF Records
\* Steps that record v for target t of batch m.
<1>p. ASSUME NEW m \in Callers, NEW t, NEW v, Recorded(m, t)',
             results' = [results EXCEPT ![m] = Put(@, t, v)],
             Handled \subseteq Handled', Sent' \subseteq Sent, failed \subseteq failed',
             \A x \in Callers : entry'[x] # "deleted" => entry[x] # "deleted",
             \A s \in Handled' :
               IF s[1] = m /\ NameOfSub(s) = t THEN v = "output" ELSE s \in Handled
      PROVE  Records'
  <2>1. ASSUME NEW x \in Callers, NEW n, x # m \/ n # t,
               n \in DOMAIN results[x], entry[x] # "deleted"
        PROVE  Recorded(x, n)'
    <3>1. Recorded(x, n)
      BY <1>c, <2>1 DEF Records
    <3>2. results'[x][n] = results[x][n]
      BY <1>p, <1>r, <2>1 DEF Put
    <3> QED
      BY <1>p, <3>1, <3>2 DEF Recorded, Mine
  <2>2. /\ \A x \in Callers \ {m} : results'[x] = results[x]
        /\ DOMAIN results'[m] = DOMAIN results[m] \cup {t}
        /\ results'[m][t] = v
        /\ \A n \in DOMAIN results[m] \ {t} : results'[m][n] = results[m][n]
    BY <1>p, <1>r DEF Put
  <2>3. ASSUME NEW x \in Callers, NEW n \in DOMAIN results'[x], entry'[x] # "deleted"
        PROVE  Recorded(x, n)'
    <3>1. CASE x = m /\ n = t
      BY <1>p, <3>1
    <3>2. CASE ~(x = m /\ n = t)
      BY <1>p, <2>1, <2>2, <2>3, <3>2
    <3> QED
      BY <3>1, <3>2
  <2>4. ASSUME NEW s \in Handled', entry'[s[1]] # "deleted"
        PROVE  NameOfSub(s) \in DOMAIN results'[s[1]] /\ results'[s[1]][NameOfSub(s)] = "output"
    <3>1. CASE s[1] = m /\ NameOfSub(s) = t
      BY <1>p, <2>2, <2>4, <3>1
    <3>2. CASE ~(s[1] = m /\ NameOfSub(s) = t)
      <4>1. s \in Handled /\ s[1] \in Callers
        BY <1>h, <1>p, <1>s, <2>4, <3>2
      <4>2. NameOfSub(s) \in DOMAIN results[s[1]] /\ results[s[1]][NameOfSub(s)] = "output"
        BY <1>c, <1>p, <2>4, <4>1 DEF Records
      <4> QED
        BY <2>2, <3>2, <4>1, <4>2
    <3> QED
      BY <3>1, <3>2
  <2> QED
    BY <2>3, <2>4 DEF Records
<1>1. ASSUME NEW m \in Callers,
             Refuse(m) \/ Create(m) \/ ReadLock(m) \/ LoopInsert(m) \/ LoopInserted(m) \/ Unlock(m)
               \/ SetRemaining(m) \/ NothingPending(m) \/ Arm(m)
      PROVE Records'
  <2>1. UNCHANGED <<results, inbox, ran, replies, failed>>
    BY <1>1 DEF Refuse, Create, ReadLock, LoopInsert, LoopInserted, Unlock, SetRemaining,
                NothingPending, Arm
  <2>2. \A x \in Callers : entry'[x] # "deleted" => entry[x] # "deleted"
    <3>1. CASE Create(m)
      BY <1>t, <3>1 DEF Create, Control, IInv, AnswerInv, Answers
    <3>2. CASE ~Create(m)
      BY <1>t, <1>1, <3>2 DEF Refuse, ReadLock, LoopInsert, LoopInserted, Unlock, SetRemaining,
                NothingPending, Arm, Control
    <3> QED
      BY <3>1, <3>2
  <2> QED
    BY <1>u, <2>1, <2>2 DEF Handled, Sent
<1>2. ASSUME NEW m \in Callers, LoopSkip(m) PROVE Records'
  <2>0. PICK t, v : t = Current(m) /\ v = IF t \in online THEN "invalid" ELSE "offline"
    OBVIOUS
  <2>1. /\ results' = [results EXCEPT ![m] = Put(@, t, v)]
        /\ UNCHANGED <<inbox, ran, replies, failed, entry, online>>
        /\ pc[m] = "loop" /\ (t \notin online \/ t \notin TokenFor[m])
    BY <1>2, <2>0 DEF LoopSkip
  <2>2. m \in Looping
    BY <2>1 DEF Looping
  <2>3. Mine(m, t) \cap Sent = {}
    <3> SUFFICES ASSUME NEW s \in Sent, s[1] = m, NameOfSub(s) = t PROVE FALSE
      BY DEF Mine
    <3>1. t \in TokenFor[m]
      BY <1>c DEF Commands
    <3>2. t \in online
      BY <1>c, <2>2 DEF FanOut
    <3> QED
      BY <2>1, <3>1, <3>2
  <2>4. Sent' = Sent /\ Handled' = Handled
    BY <2>1 DEF Sent, Handled
  <2>5. results'[m][t] = v /\ v \in {"invalid", "offline"}
    BY <1>r, <2>0, <2>1 DEF Put
  <2>6. Recorded(m, t)'
    BY <2>3, <2>4, <2>5 DEF Recorded, Mine
  <2>7. \A s \in Handled' : ~(s[1] = m /\ NameOfSub(s) = t) /\ s \in Handled
    BY <1>h, <1>s, <2>3, <2>4 DEF Mine
  <2> QED
    BY <1>p, <2>1, <2>4, <2>6, <2>7
<1>3. ASSUME NEW m \in Callers, LoopSend(m) PROVE Records'
  <2> DEFINE z == <<m, next[m]>>
             t == Current(m)
  <2>1. /\ inbox' = inbox \cup {z} /\ UNCHANGED <<online, results, replies, ran, failed, entry>>
        /\ pc[m] = "send"
    BY <1>3 DEF LoopSend
  <2>2. m \in Looping /\ t \in online /\ t \in TokenFor[m]
    BY <1>c, <2>1 DEF Looping, FanOut
  <2>3. NameOfSub(z) = t
    BY DEF NameOfSub, Current
  <2>4. Sent' = Sent \cup {z} /\ Handled' = Handled
    BY <2>1 DEF Sent, Handled
  <2>5. ASSUME NEW x \in Callers, NEW n \in DOMAIN results[x], entry[x] # "deleted"
        PROVE  Recorded(x, n)'
    <3>1. Recorded(x, n)
      BY <1>c, <2>5 DEF Records
    <3>2. CASE x = m /\ n = t
      <4>1. results[m][t] \notin {"offline", "invalid"}
        BY <1>c, <2>2, <2>5, <3>2 DEF FanOut
      <4> QED
        BY <2>1, <2>4, <3>1, <3>2, <4>1 DEF Recorded, Mine
    <3>3. CASE ~(x = m /\ n = t)
      <4>1. z \notin Mine(x, n)
        BY <2>3, <3>3 DEF Mine
      <4> QED
        BY <2>1, <2>4, <3>1, <4>1 DEF Recorded, Mine
    <3> QED
      BY <3>2, <3>3
  <2> QED
    BY <1>c, <2>1, <2>4, <2>5 DEF Records
<1>4. ASSUME NEW m \in Callers, LoopSendFails(m) PROVE Records'
  <2>0. PICK t, z : t = Current(m) /\ z = <<m, next[m]>>
    OBVIOUS
  <2>1. /\ failed' = failed \cup {z} /\ results' = [results EXCEPT ![m] = Put(@, t, "unsent")]
        /\ UNCHANGED <<inbox, replies, ran, entry>> /\ pc[m] = "send"
    BY <1>4, <2>0 DEF LoopSendFails
  <2>2. z \in Subs /\ z[1] = m /\ NameOfSub(z) = t
    BY <2>0, <2>1, CurrentSub DEF NameOfSub, Current, IInv, CountInv
  <2>3. Sent' = Sent /\ Handled' = Handled
    BY <2>1 DEF Sent, Handled
  <2>4. results'[m][t] = "unsent"
    BY <1>r, <2>1 DEF Put
  <2>5. Recorded(m, t)'
    BY <2>1, <2>2, <2>4 DEF Recorded, Mine
  <2>6. \A s \in Handled : s[1] # m
    BY <1>c, <2>1 DEF Commands
  <2> QED
    BY <1>p, <2>1, <2>3, <2>5, <2>6
<1>5. ASSUME NEW m \in Callers, TimerFires(m) PROVE Records'
  <2>1. CASE entry[m] = "live"
    <3>1. /\ UNCHANGED <<inbox, replies, ran, failed>>
          /\ entry'[m] = "deleted"
          /\ \A x \in Callers \ {m} : entry'[x] = entry[x] /\ results'[x] = results[x]
      BY <1>t, <1>r, <1>5, <2>1 DEF TimerFires, TimerFindsEntry, Control
    <3>2. Sent' = Sent /\ Handled' = Handled
      BY <3>1 DEF Sent, Handled
    <3>3. ASSUME NEW x \in Callers, NEW n \in DOMAIN results'[x], entry'[x] # "deleted"
          PROVE  Recorded(x, n)'
      <4>1. x # m /\ results'[x] = results[x] /\ entry[x] # "deleted"
        BY <3>1, <3>3
      <4>2. Recorded(x, n)
        BY <1>c, <3>3, <4>1 DEF Records
      <4> QED
        BY <3>1, <3>2, <4>1, <4>2 DEF Recorded, Mine
    <3>4. ASSUME NEW s \in Handled, entry'[s[1]] # "deleted"
          PROVE  NameOfSub(s) \in DOMAIN results'[s[1]] /\ results'[s[1]][NameOfSub(s)] = "output"
      <4>1. s[1] \in Callers \ {m}
        BY <1>h, <1>s, <3>1, <3>4
      <4> QED
        BY <1>c, <3>1, <3>4, <4>1 DEF Records
    <3> QED
      BY <3>2, <3>3, <3>4 DEF Records
  <2>2. CASE entry[m] # "live"
    <3>1. UNCHANGED <<results, entry, inbox, replies, ran, failed>>
      BY <1>5, <2>2 DEF TimerFires, TimerFindsEntry
    <3> QED
      BY <1>u, <3>1 DEF Sent, Handled
  <2> QED
    BY <2>1, <2>2
<1>6. ASSUME NEW z \in Subs, HandleResult(z) PROVE Records'
  <2> DEFINE m == z[1]
             t == NameOfSub(z)
  <2>1. /\ z \in replies /\ replies' = replies \ {z} /\ UNCHANGED <<inbox, ran, failed, pc>>
    BY <1>6 DEF HandleResult
  <2>2. z \in Sent /\ z \in ran /\ m \in Callers
    BY <1>c, <1>s, <2>1 DEF Commands, Sent
  <2>3. Sent' = Sent /\ Handled' = Handled \cup {z}
    BY <2>1, <2>2 DEF Sent, Handled
  <2>4. CASE z \in subs /\ entry[m] = "live"
    <3>1. results' = [results EXCEPT ![m] = Put(@, t, "output")]
      BY <1>6, <2>4 DEF HandleResult
    <3>2. \A x \in Callers : entry'[x] # "deleted" => entry[x] # "deleted"
      BY <1>t, <1>6, <2>2 DEF HandleResult, Control
    <3>3. results'[m][t] = "output"
      BY <1>r, <2>2, <3>1 DEF Put
    <3>4. z \in Mine(m, t)
      BY DEF Mine
    <3>5. Recorded(m, t)'
      BY <2>3, <3>3, <3>4 DEF Recorded, Mine
    <3> HIDE DEF m, t
    <3> QED
      BY <1>p, <2>1, <2>2, <2>3, <3>1, <3>2, <3>5 DEF m, t
  <2>5. CASE z \notin subs \/ entry[m] # "live"
    <3>1. UNCHANGED <<results, entry>>
      BY <1>6, <2>5 DEF HandleResult
    <3>2. entry[m] = "deleted"
      <4>1. entry[m] # "none"
        BY <2>2, SentMeansStarted
      <4>2. entry[m] # "deleted" => z \in subs
        BY <1>c, <2>1 DEF Commands
      <4> QED
        BY <1>t, <2>2, <2>5, <4>1, <4>2 DEF Control
    <3>3. ASSUME NEW x \in Callers, NEW n \in DOMAIN results[x], entry[x] # "deleted"
          PROVE  Recorded(x, n)'
      <4>1. Recorded(x, n)
        BY <1>c, <3>3 DEF Records
      <4> QED
        BY <2>1, <2>3, <3>1, <4>1 DEF Recorded, Mine
    <3> QED
      BY <1>c, <2>3, <3>1, <3>2, <3>3 DEF Records
  <2> QED
    BY <2>4, <2>5
<1>7. ASSUME NEW z \in Subs, DaemonAnswers(z) PROVE Records'
  <2>1. /\ z \in inbox /\ inbox' = inbox \ {z} /\ replies' = replies \cup {z}
        /\ ran' = ran \cup {z} /\ UNCHANGED <<entry, failed, results>>
    BY <1>7 DEF DaemonAnswers
  <2>2. Sent' = Sent /\ Handled' = Handled
    BY <1>c, <2>1 DEF Sent, Handled, Commands
  <2> QED
    BY <1>u, <2>1, <2>2
<1>8. ASSUME NEW n \in Names, TargetLeaves(n) \/ TargetJoins(n) PROVE Records'
  <2>1. UNCHANGED <<replies, ran, failed, entry, results>> /\ inbox' \subseteq inbox
    BY <1>8 DEF TargetLeaves, TargetJoins
  <2> QED
    BY <1>u, <2>1 DEF Sent, Handled
<1>9. CASE MapRace \/ UNCHANGED vars
  <2>1. UNCHANGED <<replies, ran, failed, entry, results, inbox>>
    BY <1>9 DEF MapRace, vars
  <2> QED
    BY <1>u, <2>1 DEF Sent, Handled
<1> QED
  BY <1>1, <1>2, <1>3, <1>4, <1>5, <1>6, <1>7, <1>8, <1>9 DEF Next, HandlerStep

\* The fan-out runs under the read lock: nobody comes or goes meanwhile.
LEMMA StepFanOut == IInv /\ OutInv /\ HonestInv /\ [Next]_vars => FanOut'
<1> SUFFICES ASSUME IInv, OutInv, HonestInv, [Next]_vars PROVE FanOut'
  OBVIOUS
<1>t. Control
  BY DEF IInv, TypeOK, Control
<1>c. Commands /\ FanOut
  BY DEF HonestInv
<1>s. \A s \in Sent : s[1] \in Callers /\ pc[s[1]] \notin {"idle", "refused", "created"}
  BY SentMeansStarted
<1>r. results \in [Callers -> ResultMaps]
  BY DEF IInv, TypeOK
<1> DEFINE Early(m) == pc[m] \in {"idle", "refused", "created"} => next[m] = 1 /\ DOMAIN results[m] = {}
           Fair(m) == m \in Looping =>
             /\ \A n \in DOMAIN results[m] : /\ results[m][n] # "output"
                                             /\ results[m][n] = "offline" => n \notin online
                                             /\ results[m][n] = "invalid" => n \notin TokenFor[m]
             /\ \A s \in Sent : s[1] = m => NameOfSub(s) \in online
           Chosen(m) == pc[m] \in {"insert", "send"} =>
                          Current(m) \in online /\ Current(m) \in TokenFor[m]
           Kept(m) == /\ pc'[m] = pc[m] /\ next'[m] = next[m] /\ results'[m] = results[m]
                      /\ {s \in Sent' : s[1] = m} = {s \in Sent : s[1] = m}
<1>f. \A m \in Callers : Early(m) /\ Fair(m) /\ Chosen(m)
  BY <1>c DEF FanOut
<1>g. ASSUME \A m \in Callers : (Early(m) /\ Fair(m) /\ Chosen(m))' PROVE FanOut'
  BY <1>g DEF FanOut
<1>k. ASSUME UNCHANGED online, NEW m \in Callers, Kept(m) PROVE (Early(m) /\ Fair(m) /\ Chosen(m))'
  <2>1. Early(m)' /\ Chosen(m)'
    BY <1>f, <1>k DEF Current
  <2>2. Fair(m)'
    BY <1>f, <1>k DEF Looping
  <2> QED
    BY <2>1, <2>2
<1>1. ASSUME NEW m \in Callers,
             Refuse(m) \/ Create(m) \/ ReadLock(m) \/ LoopInsert(m) \/ LoopInserted(m) \/ Unlock(m)
               \/ SetRemaining(m) \/ NothingPending(m) \/ Arm(m)
      PROVE FanOut'
  <2>1. UNCHANGED <<results, inbox, ran, next, online>>
    BY <1>1 DEF Refuse, Create, ReadLock, LoopInsert, LoopInserted, Unlock, SetRemaining,
                NothingPending, Arm
  <2>2. \A x \in Callers \ {m} : pc'[x] = pc[x]
    BY <1>t, <1>1 DEF Refuse, Create, ReadLock, LoopInsert, LoopInserted, Unlock, SetRemaining,
                NothingPending, Arm, Goto, Control
  <2>3. Sent' = Sent
    BY <2>1 DEF Sent
  <2>4. \A x \in Callers \ {m} : Kept(x)
    BY <2>1, <2>2, <2>3
  <2>5. \A x \in Callers \ {m} : (Early(x) /\ Fair(x) /\ Chosen(x))'
    BY <1>k, <2>1, <2>4
  <2>6. Early(m)'
    BY <1>t, <1>1, <1>f, <2>1 DEF Refuse, Create, ReadLock, LoopInsert, LoopInserted, Unlock,
                SetRemaining, NothingPending, Arm, Goto, Control
  <2>7. Chosen(m)'
    BY <1>t, <1>1, <1>f, <2>1 DEF Refuse, Create, ReadLock, LoopInsert, LoopInserted, Unlock,
                SetRemaining, NothingPending, Arm, Goto, Control, Current
  <2>8. Fair(m)'
    <3>1. CASE ReadLock(m)
      <4>1. pc[m] = "created" /\ DOMAIN results[m] = {} /\ \A s \in Sent : s[1] # m
        BY <1>f, <1>s, <3>1 DEF ReadLock
      <4> QED
        BY <2>1, <2>3, <4>1
    <3>2. CASE ~ReadLock(m)
      <4>1. m \in Looping' => m \in Looping
        BY <1>t, <1>1, <3>2 DEF Refuse, Create, LoopInsert, LoopInserted, Unlock,
                SetRemaining, NothingPending, Arm, Goto, Control, Looping
      <4> QED
        BY <1>f, <2>1, <2>3, <4>1
    <3> QED
      BY <3>1, <3>2
  <2> QED
    BY <1>g, <2>5, <2>6, <2>7, <2>8
<1>2. ASSUME NEW m \in Callers, LoopSkip(m) PROVE FanOut'
  <2>0. PICK t, v : t = Current(m) /\ v = IF t \in online THEN "invalid" ELSE "offline"
    OBVIOUS
  <2>1. /\ results' = [results EXCEPT ![m] = Put(@, t, v)]
        /\ next' = [next EXCEPT ![m] = @ + 1]
        /\ UNCHANGED <<inbox, ran, online, pc>>
        /\ pc[m] = "loop" /\ (t \notin online \/ t \notin TokenFor[m])
    BY <1>2, <2>0 DEF LoopSkip
  <2>2. Sent' = Sent
    BY <2>1 DEF Sent
  <2>3. \A x \in Callers \ {m} : Kept(x)
    BY <1>t, <1>r, <2>1, <2>2 DEF Control
  <2>4. \A x \in Callers \ {m} : (Early(x) /\ Fair(x) /\ Chosen(x))'
    BY <1>k, <2>1, <2>3
  <2>5. (Early(m) /\ Chosen(m))'
    BY <2>1
  <2>6. Fair(m)'
    <3>1. m \in Looping
      BY <2>1 DEF Looping
    <3>2. /\ DOMAIN results'[m] = DOMAIN results[m] \cup {t}
          /\ results'[m][t] = v
          /\ \A n \in DOMAIN results[m] \ {t} : results'[m][n] = results[m][n]
      BY <1>r, <2>1 DEF Put
    <3>3. /\ v # "output"
          /\ v = "offline" => t \notin online
          /\ v = "invalid" => t \notin TokenFor[m]
      BY <2>0, <2>1
    <3>4. ASSUME NEW n \in DOMAIN results'[m]
          PROVE  /\ results'[m][n] # "output"
                 /\ results'[m][n] = "offline" => n \notin online
                 /\ results'[m][n] = "invalid" => n \notin TokenFor[m]
      <4>1. CASE n = t
        BY <3>2, <3>3, <4>1
      <4>2. CASE n # t
        <5>1. n \in DOMAIN results[m] /\ results'[m][n] = results[m][n]
          BY <3>2, <3>4, <4>2
        <5>2. Fair(m)
          BY <1>f
        <5> QED
          BY <3>1, <5>1, <5>2
      <4> QED
        BY <4>1, <4>2
    <3>5. \A s \in Sent : s[1] = m => NameOfSub(s) \in online
      BY <1>f, <3>1
    <3> QED
      BY <2>1, <2>2, <3>4, <3>5
  <2> QED
    BY <1>g, <2>4, <2>5, <2>6
<1>3. ASSUME NEW m \in Callers, LoopSend(m) PROVE FanOut'
  <2>0. PICK z : z = <<m, next[m]>>
    OBVIOUS
  <2>1. /\ inbox' = inbox \cup {z} /\ UNCHANGED <<online, results, ran>>
        /\ next' = [next EXCEPT ![m] = @ + 1]
        /\ pc[m] = "send" /\ pc' = [pc EXCEPT ![m] = "loop"]
    BY <1>3, <2>0 DEF LoopSend, Goto
  <2>2. Sent' = Sent \cup {z} /\ z[1] = m
    BY <2>0, <2>1 DEF Sent
  <2>3. \A x \in Callers \ {m} : Kept(x)
    BY <1>t, <2>1, <2>2 DEF Control
  <2>4. \A x \in Callers \ {m} : (Early(x) /\ Fair(x) /\ Chosen(x))'
    BY <1>k, <2>1, <2>3
  <2>5. (Early(m) /\ Chosen(m))'
    BY <1>t, <2>1 DEF Control
  <2>6. Fair(m)'
    <3>1. m \in Looping
      BY <2>1 DEF Looping
    <3>2. NameOfSub(z) \in online
      BY <1>f, <2>0, <2>1 DEF NameOfSub, Current
    <3> QED
      BY <1>f, <2>1, <2>2, <3>1, <3>2
  <2> QED
    BY <1>g, <2>4, <2>5, <2>6
<1>4. ASSUME NEW m \in Callers, LoopSendFails(m) PROVE FanOut'
  <2>0. PICK t : t = Current(m)
    OBVIOUS
  <2>1. /\ results' = [results EXCEPT ![m] = Put(@, t, "unsent")]
        /\ next' = [next EXCEPT ![m] = @ + 1]
        /\ UNCHANGED <<inbox, ran, online>>
        /\ pc[m] = "send" /\ pc' = [pc EXCEPT ![m] = "loop"]
    BY <1>4, <2>0 DEF LoopSendFails, Goto
  <2>2. Sent' = Sent
    BY <2>1 DEF Sent
  <2>3. \A x \in Callers \ {m} : Kept(x)
    BY <1>t, <1>r, <2>1, <2>2 DEF Control
  <2>4. \A x \in Callers \ {m} : (Early(x) /\ Fair(x) /\ Chosen(x))'
    BY <1>k, <2>1, <2>3
  <2>5. (Early(m) /\ Chosen(m))'
    BY <1>t, <2>1 DEF Control
  <2>6. Fair(m)'
    <3>1. m \in Looping
      BY <2>1 DEF Looping
    <3>2. /\ DOMAIN results'[m] = DOMAIN results[m] \cup {t}
          /\ results'[m][t] = "unsent"
          /\ \A n \in DOMAIN results[m] \ {t} : results'[m][n] = results[m][n]
      BY <1>r, <2>1 DEF Put
    <3> QED
      BY <1>f, <2>1, <2>2, <3>1, <3>2
  <2> QED
    BY <1>g, <2>4, <2>5, <2>6
\* Under the write lock nobody is in the loop.
<1>w. ASSUME Looping = {}, UNCHANGED <<pc, next>>,
             \A x \in Callers : pc[x] \in {"idle", "refused", "created"} => results'[x] = results[x]
      PROVE  FanOut'
  <2>1. Looping' = {}
    BY <1>w DEF Looping
  <2>2. \A x \in Callers : pc'[x] \notin {"insert", "send"}
    BY <2>1 DEF Looping
  <2>3. \A x \in Callers : Early(x)'
    BY <1>f, <1>w
  <2> QED
    BY <1>g, <2>1, <2>2, <2>3
<1>5. ASSUME NEW m \in Callers, TimerFires(m) PROVE FanOut'
  <2>1. pc[m] \notin {"idle", "refused", "created"}
    <3>1. count[m] > 0
      BY <1>5 DEF TimerFires, IInv, AnswerInv, Answers
    <3>2. pc[m] # "send" => count[m] <= next[m] - 1
      BY DEF IInv, CountInv
    <3>3. pc[m] \in {"idle", "refused", "created"} => next[m] = 1
      BY <1>f
    <3>4. count[m] \in Nat
      BY <1>t DEF Control
    <3> QED
      BY <3>1, <3>2, <3>3, <3>4
  <2>2. Looping = {} /\ UNCHANGED <<pc, next>> /\ \A x \in Callers \ {m} : results'[x] = results[x]
    BY <1>r, <1>5 DEF TimerFires, WriteLock
  <2> QED
    BY <1>w, <2>1, <2>2
<1>6. ASSUME NEW z \in Subs, HandleResult(z) PROVE FanOut'
  <2>1. /\ z \in replies /\ Looping = {} /\ UNCHANGED <<pc, next>>
        /\ \A x \in Callers \ {z[1]} : results'[x] = results[x]
    BY <1>r, <1>6 DEF HandleResult, WriteLock
  <2>2. pc[z[1]] \notin {"idle", "refused", "created"}
    BY <1>c, <1>s, <2>1 DEF Commands, Sent
  <2> QED
    BY <1>w, <2>1, <2>2
<1>7. ASSUME NEW z \in Subs, DaemonAnswers(z) PROVE FanOut'
  <2>1. UNCHANGED <<pc, next, results, online>> /\ Sent' = Sent
    BY <1>7 DEF DaemonAnswers, Sent
  <2>2. \A x \in Callers : Kept(x)
    BY <2>1
  <2> QED
    BY <1>g, <1>k, <2>1, <2>2
<1>8. ASSUME NEW n \in Names, TargetLeaves(n) \/ TargetJoins(n) PROVE FanOut'
  <2>1. UNCHANGED <<pc, next, results>> /\ Looping = {}
    BY <1>8 DEF TargetLeaves, TargetJoins, WriteLock
  <2> QED
    BY <1>w, <2>1
<1>9. CASE MapRace \/ UNCHANGED vars
  <2>1. UNCHANGED <<pc, next, results, online>> /\ Sent' = Sent
    BY <1>9 DEF MapRace, vars, Sent
  <2>2. \A x \in Callers : Kept(x)
    BY <2>1
  <2> QED
    BY <1>g, <1>k, <2>1, <2>2
<1> QED
  BY <1>1, <1>2, <1>3, <1>4, <1>5, <1>6, <1>7, <1>8, <1>9 DEF Next, HandlerStep

\* What the answer to m says of its targets, as AggregateHonest has it.
HonestAnswer(m, a) ==
  \A n \in DOMAIN a :
    /\ a[n] = "output" <=> Mine(m, n) \cap (ran \ replies') # {}
    /\ a[n] \in {"offline", "invalid"} => Mine(m, n) \cap (inbox \cup ran) = {}
    /\ a[n] = "unsent" => Mine(m, n) \cap failed # {}

\* While the entry stands, what is recorded is honest of the results handled.
LEMMA RecordedIsHonest ==
  ASSUME IInv, HonestInv, NEW m \in Callers, entry[m] # "deleted",
         NEW n \in DOMAIN results[m]
  PROVE  /\ results[m][n] = "output" <=> Mine(m, n) \cap Handled # {}
         /\ results[m][n] \in {"offline", "invalid"} => Mine(m, n) \cap (inbox \cup ran) = {}
         /\ results[m][n] = "unsent" => Mine(m, n) \cap failed # {}
<1>1. Recorded(m, n)
  BY DEF HonestInv, Records
<1>2. \A s \in Mine(m, n) \cap Handled : results[m][n] = "output"
  BY DEF HonestInv, Records, Mine
<1> QED
  BY <1>1, <1>2 DEF Recorded, Sent

\* The three places that answer do so honestly.
LEMMA StepAnswers ==
  ASSUME IInv, OutInv, HonestInv, Next, NEW m \in Callers, aggregates'[m] # aggregates[m]
  PROVE  aggregates[m] = <<>> /\ \E a \in ResultMaps : SendAggregate(m, a) /\ HonestAnswer(m, a)
<1>t. Control
  BY DEF IInv, TypeOK, Control
<1>g. aggregates \in [Callers -> Seq(ResultMaps)]
  BY DEF IInv, TypeOK
<1>1. \/ NothingPending(m)
      \/ TimerFires(m) /\ entry[m] = "live"
      \/ \E s \in Subs : HandleResult(s) /\ s[1] = m /\ s \in subs /\ entry[m] = "live"
  <2>1. CASE \E x \in Callers : NothingPending(x)
    <3>1. \A x \in Callers \ {m} : NothingPending(x) => aggregates'[m] = aggregates[m]
      BY <1>g DEF NothingPending, ImmediateReply, SendAggregate
    <3> QED
      BY <2>1, <3>1
  <2>2. CASE \E x \in Callers : TimerFires(x)
    <3>1. \A x \in Callers \ {m} : TimerFires(x) => aggregates'[m] = aggregates[m]
      BY <1>g DEF TimerFires, SendAggregate
    <3>2. TimerFires(m) => entry[m] = "live"
      BY DEF TimerFires, TimerFindsEntry
    <3> QED
      BY <2>2, <3>1, <3>2
  <2>3. CASE \E s \in Subs : HandleResult(s)
    <3>1. PICK s \in Subs : HandleResult(s)
      BY <2>3
    <3>2. s \in subs /\ entry[s[1]] = "live"
      BY <3>1 DEF HandleResult
    <3>3. s[1] = m
      BY <1>g, <3>1, <3>2 DEF HandleResult, SendAggregate
    <3> QED
      BY <3>1, <3>2, <3>3
  <2>4. CASE UNCHANGED aggregates
    BY <2>4
  <2>5. \A x \in Callers : Refuse(x) \/ Create(x) \/ ReadLock(x) \/ LoopSkip(x) \/ LoopInsert(x)
          \/ LoopInserted(x) \/ LoopSend(x) \/ LoopSendFails(x) \/ Unlock(x)
          \/ SetRemaining(x) \/ Arm(x) => UNCHANGED aggregates
    BY DEF Refuse, Create, ReadLock, LoopSkip, LoopInsert, LoopInserted, LoopSend, LoopSendFails,
           Unlock, SetRemaining, Arm
  <2>6. /\ \A s \in Subs : DaemonAnswers(s) => UNCHANGED aggregates
        /\ \A n \in Names : TargetLeaves(n) \/ TargetJoins(n) => UNCHANGED aggregates
        /\ MapRace => UNCHANGED aggregates
    BY DEF DaemonAnswers, TargetLeaves, TargetJoins, MapRace
  <2> QED
    BY <2>1, <2>2, <2>3, <2>4, <2>5, <2>6 DEF Next, HandlerStep
<1>2. CASE NothingPending(m)
  <2>1. /\ SendAggregate(m, results[m]) /\ UNCHANGED <<ran, replies>>
        /\ pc[m] = "unlocked" /\ count[m] = 0
    BY <1>2 DEF NothingPending, ImmediateReply
  <2>2. entry[m] # "deleted"
    BY <2>1 DEF IInv, AnswerInv, Answers
  <2>3. HonestAnswer(m, results[m])
    BY <2>1, <2>2, RecordedIsHonest DEF HonestAnswer, Handled
  <2> QED
    BY <2>1, <2>2, <2>3 DEF IInv, TypeOK, AnswerInv, Answers
<1>3. CASE TimerFires(m) /\ entry[m] = "live"
  <2>1. SendAggregate(m, FillMissing(m)) /\ UNCHANGED <<ran, replies>>
    BY <1>3 DEF TimerFires, TimerFindsEntry
  <2>2. ASSUME NEW n \in DOMAIN FillMissing(m)
        PROVE  /\ FillMissing(m)[n] = "output" <=> Mine(m, n) \cap (ran \ replies') # {}
               /\ FillMissing(m)[n] \in {"offline", "invalid"} => Mine(m, n) \cap (inbox \cup ran) = {}
               /\ FillMissing(m)[n] = "unsent" => Mine(m, n) \cap failed # {}
    <3>1. CASE n \in DOMAIN results[m]
      <4>1. FillMissing(m)[n] = results[m][n]
        BY <2>2, <3>1 DEF FillMissing
      <4> QED
        BY <1>3, <2>1, <3>1, <4>1, RecordedIsHonest DEF Handled
    <3>2. CASE n \notin DOMAIN results[m]
      <4>1. FillMissing(m)[n] = "timeout"
        BY <2>2, <3>2 DEF FillMissing
      <4>2. Mine(m, n) \cap Handled = {}
        BY <1>3, <3>2 DEF Mine, HonestInv, Records
      <4> QED
        BY <2>1, <4>1, <4>2 DEF Handled
    <3> QED
      BY <3>1, <3>2
  <2>3. HonestAnswer(m, FillMissing(m))
    BY <2>2 DEF HonestAnswer
  <2>4. FillMissing(m) \in ResultMaps
    BY FillType DEF IInv
  <2> QED
    BY <1>3, <2>1, <2>3, <2>4 DEF IInv, AnswerInv, Answers
<1>4. ASSUME NEW s \in Subs, HandleResult(s), s[1] = m, s \in subs, entry[m] = "live"
      PROVE  aggregates[m] = <<>> /\ \E a \in ResultMaps : SendAggregate(m, a) /\ HonestAnswer(m, a)
  <2> DEFINE res == Put(results[m], NameOfSub(s), "output")
  <2>1. SendAggregate(m, res) /\ s \in replies /\ replies' = replies \ {s} /\ UNCHANGED ran
    BY <1>4 DEF HandleResult
  <2>2. s \in ran
    BY <2>1 DEF HonestInv, Commands
  <2>3. ran \ replies' = Handled \cup {s}
    BY <2>1, <2>2 DEF Handled
  <2>4. ASSUME NEW n \in DOMAIN res
        PROVE  /\ res[n] = "output" <=> Mine(m, n) \cap (ran \ replies') # {}
               /\ res[n] \in {"offline", "invalid"} => Mine(m, n) \cap (inbox \cup ran) = {}
               /\ res[n] = "unsent" => Mine(m, n) \cap failed # {}
    <3>1. CASE n = NameOfSub(s)
      <4>1. res[n] = "output" /\ s \in Mine(m, n)
        BY <1>4, <3>1 DEF Put, Mine
      <4> QED
        BY <2>3, <4>1
    <3>2. CASE n # NameOfSub(s)
      <4>1. n \in DOMAIN results[m] /\ res[n] = results[m][n] /\ s \notin Mine(m, n)
        BY <2>4, <3>2 DEF Put, Mine
      <4> HIDE DEF res
      <4> QED
        BY <1>4, <2>3, <4>1, RecordedIsHonest
    <3> QED
      BY <3>1, <3>2
  <2>5. HonestAnswer(m, res)
    BY <2>4 DEF HonestAnswer
  <2>6. res \in ResultMaps
    BY SubType, PutType DEF IInv, TypeOK, Outcomes
  <2> HIDE DEF res
  <2> QED
    BY <1>4, <2>1, <2>5, <2>6 DEF IInv, AnswerInv, Answers
<1> QED
  BY <1>1, <1>2, <1>3, <1>4

---------------------------------------------------------------------------
(***************************************************************************)
(* The theorems                                                            *)
(***************************************************************************)

\* The counting and the answering of handleExecuteMulti, handleResult and
\* the batch timer keep the invariant, whatever their interleaving.
THEOREM MultiInvariant == Spec => []IInv
<1>1. Init => IInv
  BY InitIInv
<1>2. IInv /\ [Next]_vars => IInv'
  BY StepIInv
<1> QED
  BY <1>1, <1>2, PTL DEF Spec

\* The state of every batch has its type; entry.remaining stays between -1
\* and pendingCount.
THEOREM MultiTypes == Spec => []TypeOK
<1>1. IInv => TypeOK
  BY DEF IInv
<1> QED
  BY <1>1, MultiInvariant, PTL

\* An execute_multi is answered at most once, for any number of callers and
\* targets: the premature answer of handleResult, the timer's answer and
\* the immediate answer exclude each other.
THEOREM AnsweredOnce == Spec => []AtMostOneAggregate
<1>1. IInv => AtMostOneAggregate
  BY DEF IInv, AnswerInv, Answers, AtMostOneAggregate
<1> QED
  BY <1>1, MultiInvariant, PTL

\* After the fan-out entry.remaining is the number of commands that are
\* outstanding or could not be sent, and it is positive while the entry
\* stands: nobody waits for the batch timer in vain.
THEOREM NobodyWaitsInVain == Spec => []AllInMeansSent
<1>1. Init => IInv /\ OutInv
  BY InitIInv, InitOut
<1>2. IInv /\ OutInv /\ [Next]_vars => (IInv /\ OutInv)'
  BY StepIInv, StepOut
<1>3. OutInv => AllInMeansSent
  <2> SUFFICES ASSUME OutInv, NEW m \in Callers, pc[m] = "done", entry[m] = "live"
               PROVE  \E s \in subs \cup failed : s[1] = m
    BY DEF AllInMeansSent
  <2>1. Cardinality(Out(m)) > 0
    BY DEF OutInv, Outstanding
  <2>2. Out(m) # {}
    BY <2>1, FS_EmptySet
  <2> QED
    BY <2>2 DEF Out
<1> QED
  BY <1>1, <1>2, <1>3, PTL DEF Spec

\* The aggregate a caller gets is true of every target it names, whoever
\* sends it: the loop, the last result or the batch timer.
THEOREM HonestAggregates == Spec => AggregateHonest
<1>1. Init => IInv /\ OutInv /\ HonestInv
  BY InitIInv, InitOut, InitHonest
<1>2. IInv /\ OutInv /\ HonestInv /\ [Next]_vars => (IInv /\ OutInv /\ HonestInv)'
  BY StepIInv, StepOut, StepCommands, StepRecords, StepFanOut DEF HonestInv
<1> DEFINE Said == \A m \in Callers :
             aggregates'[m] # aggregates[m] =>
               HonestAnswer(m, Last(aggregates'[m]))
<1>3. IInv /\ OutInv /\ HonestInv /\ [Next]_vars => [Said]_vars
  <2> SUFFICES ASSUME IInv, OutInv, HonestInv, Next, NEW m \in Callers,
                      aggregates'[m] # aggregates[m]
               PROVE  HonestAnswer(m, Last(aggregates'[m]))
    OBVIOUS
  <2>1. PICK a \in ResultMaps : /\ aggregates[m] = <<>> /\ SendAggregate(m, a)
                                /\ HonestAnswer(m, a)
    BY StepAnswers
  <2>2. aggregates \in [Callers -> Seq(ResultMaps)]
    BY DEF IInv, TypeOK
  <2>3. aggregates'[m] = Append(<<>>, a)
    BY <2>1, <2>2 DEF SendAggregate
  <2>4. Last(Append(<<>>, a)) = a
    BY DEF Last
  <2> QED
    BY <2>1, <2>3, <2>4
<1>4. [Said]_vars =>
        [\A m \in Callers :
           aggregates'[m] # aggregates[m] =>
             LET a == Last(aggregates'[m])
                 My(n) == {s \in Subs : s[1] = m /\ NameOfSub(s) = n}
             IN  \A n \in DOMAIN a :
                   /\ a[n] = "output" <=> My(n) \cap (ran \ replies') # {}
                   /\ a[n] \in {"offline", "invalid"} => My(n) \cap (inbox \cup ran) = {}
                   /\ a[n] = "unsent" => My(n) \cap failed # {}]_vars
  BY DEF HonestAnswer, Mine
<1> QED
  BY <1>1, <1>2, <1>3, <1>4, PTL DEF Spec, AggregateHonest
=============================================================================
