----------------------------- MODULE HostProofs -----------------------------
(***************************************************************************)
(* Proofs about Host, for any number of invocations, helpers, daemons,     *)
(* processes and files: type correctness, that a restart cuts off no       *)
(* command that was running (SignalledWorkFinishes), that the path of the  *)
(* binary names a complete file but during a rollback (ExeRunnable), that  *)
(* PID files name the process that runs (PidFileExact), and that no daemon *)
(* is left without a process that works (NeverLeftWithout).                *)
(***************************************************************************)
EXTENDS Host, TLAPS

(***************************************************************************)
(* Who is where: helpers and commands run different parts of the program.  *)
(***************************************************************************)
HelperPcs == {"none", "kill", "start", "confirm", "rescue", "copy", "copying", "copied",
              "start_again", "confirm_again", "done"}
OpPcs == {"probe", "wait", "sweep", "spawn", "truncate", "write", "term", "remove",
          "look", "download", "copy", "copying", "copied", "swap", "restart", "done"}
Roles ==
  /\ \A h \in Helpers : inv[h].pc \in HelperPcs /\ inv[h].kind = "helper"
  /\ \A o \in Ops : inv[o].pc \in OpPcs /\ (At(o, "sweep") => inv[o].then # "none")

(***************************************************************************)
(* waitIdle: it gives up only when a minute has passed, and no command that *)
(* was running takes so long, or when none of them is left.                *)
(***************************************************************************)
Patient(d) == d.usr2 \in {"late", "idle"} => scn.long \/ "before" \notin d.work
WorkInv == SignalledWorkFinishes /\ \A p \in Pids : Patient(proc[p])

(***************************************************************************)
(* The binary: until a .bak exists nobody rolls back and exe is whole, one *)
(* update at a time writes .bak, and from then on what is at exe or is     *)
(* about to get there is whole or being completed from the whole .bak.     *)
(***************************************************************************)
Again == \E n \in Names : "again" \in why[n]
Failed == \A n \in Names : "failed" \in why[n]
Spoilt == Again \/ Failed
Good(v) == v \in {"v1", "v2"}
InCopy(o) == inv[o].pc \in {"copying", "copied"}
Completed(i) == Good(ino[i]) \/ \E h \in Helpers : At(h, "copying") /\ inv[h].to = i

BeforeBak ==
  /\ file.exetmp = 0 /\ file.exe # 0 /\ Good(ino[file.exe])
  /\ \A h \in Helpers : ~At(h, "copy") /\ ~InCopy(h)
  /\ \A o \in Ops : InCopy(o) => file.baktmp # 0 /\ inv[o].to = file.baktmp
  /\ \A o, q \in Ops : InCopy(o) /\ InCopy(q) => o = q
  /\ \A o \in Ops : At(o, "copying") => Good(ino[inv[o].from]) /\ ino[inv[o].to] = "part"
  /\ \A o \in Ops : At(o, "copied") => Good(ino[inv[o].to])
AfterBak ==
  /\ file.baktmp = 0 /\ \A o \in Ops : ~InCopy(o)
  /\ Good(ino[file.bak]) /\ file.exetmp # file.bak
  /\ \A h \in Helpers : At(h, "copying") => /\ inv[h].from = file.bak
                                            /\ ino[inv[h].to] \in {"part", ino[file.bak]}
  /\ file.exe # 0 => Completed(file.exe)
  /\ file.exetmp # 0 => Completed(file.exetmp)
  /\ file.exe = 0 => \E h \in Helpers : At(h, "copy") \/ (InCopy(h) /\ file.exetmp # 0)
ExeInv == Spoilt \/ IF file.bak = 0 THEN BeforeBak ELSE AfterBak

(***************************************************************************)
(* Whatever updates write to .bak, exe is whole until one rolls back.      *)
(***************************************************************************)
Copying(o) == inv[o].pc \in {"copy", "copying", "copied"}
Rolled == \E n \in Names : "rolled" \in why[n]
Whole ==
  /\ file.exe # 0 /\ Good(ino[file.exe])
  /\ file.baktmp # 0 => file.baktmp # file.exe /\ ino[file.baktmp] # "none"
  /\ \A h \in Helpers : ~Copying(h)
  /\ \A o \in Ops : InCopy(o) => /\ inv[o].to # file.exe /\ ino[inv[o].to] # "none"
                                /\ ino[inv[o].from] # "none"
WholeInv == Rolled \/ Whole

(***************************************************************************)
(* PID files.  An invocation that starts a daemon owns the pid it will     *)
(* write; a pid in a file, or about to be sent SIGTERM, has been written.  *)
(***************************************************************************)
Starting(o) == inv[o].pc \in {"truncate", "write"}
Written(p) == \A o \in Invs : Starting(o) => inv[o].pid # p
Is(p, n) == proc[p].st # "none" /\ proc[p].name = n

OwnPids ==
  /\ \A o \in Invs : Starting(o) => Is(inv[o].pid, inv[o].name)
  /\ \A o, q \in Invs : Starting(o) /\ Starting(q) /\ inv[o].pid = inv[q].pid => o = q
FiledPids == \A n \in Names : pidf[n].val \in Pids => Is(pidf[n].val, n) /\ Written(pidf[n].val)
TermPids == \A o \in Invs : At(o, "term") => proc[inv[o].pid].st # "none" /\ Written(inv[o].pid)
HelperPids ==
  /\ \A o \in Invs : \A p \in inv[o].procs : proc[p].st # "none"
  /\ \A h \in Helpers : inv[h].pc \in {"kill", "confirm", "confirm_again"} => Is(inv[h].pid, inv[h].name)
  /\ \A h \in Helpers : inv[h].pc \notin {"none", "kill", "done"} => "moved" \in why[inv[h].name]

Blamed(n) == why[n] \cap {"double", "swept", "moved", "unready"} # {}
Filed(p, n) ==
  \/ pidf[n].val = p
  \/ \E o \in Invs : /\ Starting(o) /\ inv[o].name = n /\ inv[o].pid = p
                     /\ At(o, "write") => pidf[n].gen = inv[o].gen /\ pidf[n].val = Empty
One(n) ==
  /\ \A o \in Invs : Starting(o) /\ inv[o].name = n => proc[inv[o].pid].st = "up"
  /\ \A p, q \in Live(n) : p = q
  /\ \A p \in Live(n) : Filed(p, n)
OneEach == \A n \in Names : Blamed(n) \/ One(n)
PidInv == OwnPids /\ FiledPids /\ TermPids /\ HelperPids /\ OneEach

IInv == TypeOK /\ Roles /\ WorkInv /\ ExeInv /\ WholeInv /\ PidInv

---------------------------------------------------------------------------
(***************************************************************************)
(* What the steps do, field by field.                                      *)
(***************************************************************************)

\* Invocation o changes; all others stay as they are.
Alone(o) ==
  /\ inv' \in [Invs -> InvType]
  /\ \A q \in Invs : q # o => inv'[q] = inv[q]
  /\ inv'[o].kind = inv[o].kind
  /\ inv'[o].name = inv[o].name
SamePid(o) == inv'[o].pid = inv[o].pid /\ inv'[o].procs = inv[o].procs /\ inv'[o].gen = inv[o].gen
SameCopy(o) == inv'[o].from = inv[o].from /\ inv'[o].to = inv[o].to

LEMMA GotoFacts ==
  ASSUME TypeOK, NEW o \in Invs, NEW pc \in Pcs, Goto(o, pc)
  PROVE  Alone(o) /\ SamePid(o) /\ SameCopy(o) /\ inv'[o].pc = pc /\ inv'[o].then = inv[o].then
<1>1. inv \in [Invs -> InvType] /\ inv' = [inv EXCEPT ![o].pc = pc]
  BY DEF TypeOK, Goto
<1> QED
  BY <1>1 DEF Alone, SamePid, SameCopy, InvType

\* A probe of "stop" that finds a process means the one in the PID file.
LEMMA ProbesFacts ==
  ASSUME TypeOK, NEW o \in Invs, Probes(o)
  PROVE  /\ Alone(o) /\ SameCopy(o)
         /\ inv'[o].procs = inv[o].procs /\ inv'[o].gen = inv[o].gen
         /\ inv[o].pc \in {"probe", "wait"}
         /\ inv'[o].pc \in {"done", "term", "wait", "remove", "sweep", "spawn"}
         /\ inv'[o].pc = "sweep" => inv'[o].then # "none"
         /\ inv'[o].pc = "term" => /\ inv'[o].pid = pidf[inv[o].name].val /\ inv'[o].pid \in Pids
                                   /\ proc[inv'[o].pid].st = "up"
         /\ UNCHANGED <<scn, proc, ino, file, pidf, cut, why>>
<1> DEFINE got == pidf[inv[o].name].val
           alive == got \in Pids /\ proc[got].st = "up"
<1>1. /\ inv \in [Invs -> InvType] /\ inv[o].kind \in {"start", "stop", "status"}
      /\ inv[o].pc \in {"probe", "wait"}
      /\ UNCHANGED <<scn, proc, ino, file, pidf, cut, why>>
  BY DEF TypeOK, Probes, disk
<1>2. PICK pid, pc, then :
        /\ pid = IF alive /\ At(o, "probe") THEN got ELSE inv[o].pid
        /\ pc = IF alive THEN Yes(o) ELSE IF got = NoFile THEN No(o) ELSE "sweep"
        /\ then = IF alive THEN "none" ELSE No(o)
  OBVIOUS
<1>3. inv' = [inv EXCEPT ![o].pid = pid, ![o].pc = pc, ![o].then = then]
  BY <1>1, <1>2 DEF Probes
<1>4. /\ Yes(o) \in {"done", "term", "wait"} /\ No(o) \in {"spawn", "done", "remove"}
      /\ Yes(o) = "term" => At(o, "probe")
  BY <1>1 DEF Yes, No, At
<1>5. /\ pid \in Pids /\ pc \in {"done", "term", "wait", "remove", "sweep", "spawn"}
      /\ then \in {"none", "spawn", "remove", "done"}
      /\ pc = "term" => alive /\ pid = got
      /\ pc = "sweep" => then # "none"
  BY <1>1, <1>2, <1>4 DEF InvType
<1>6. pc \in Pcs
  BY <1>5 DEF Pcs
<1>7. /\ inv' \in [Invs -> InvType] /\ \A q \in Invs : q # o => inv'[q] = inv[q]
      /\ inv'[o].kind = inv[o].kind /\ inv'[o].name = inv[o].name
      /\ inv'[o].procs = inv[o].procs /\ inv'[o].gen = inv[o].gen
      /\ inv'[o].from = inv[o].from /\ inv'[o].to = inv[o].to
      /\ inv'[o].pid = pid /\ inv'[o].pc = pc /\ inv'[o].then = then
  BY <1>1, <1>3, <1>5, <1>6, ZenonT(40) DEF InvType
<1> QED
  BY <1>1, <1>5, <1>7 DEF Alone, SameCopy

\* A removal takes no file away that names the process that runs, unblamed.
LEMMA RemovesFacts ==
  ASSUME TypeOK, NEW o \in Invs, NEW n \in Names, n = inv[o].name, Removes(o)
  PROVE  /\ pidf' \in [Names -> [val : 0 .. Empty, gen : Nat]] /\ why' \in [Names -> SUBSET Causes]
         /\ \A m \in Names : m # n => pidf'[m] = pidf[m]
         /\ pidf'[n] = pidf[n] \/ pidf'[n].val = NoFile
         /\ pidf[n].val = Empty \/ pidf[n].val \in Live(n) => "swept" \in why'[n]
         /\ \A m \in Names : why[m] \subseteq why'[m]
         /\ \A m \in Names : "again" \in why'[m] => "again" \in why[m]
<1>1. /\ pidf \in [Names -> [val : 0 .. Empty, gen : Nat]] /\ why \in [Names -> SUBSET Causes]
      /\ NoFile \in 0 .. Empty
  BY HostAssumption DEF TypeOK, NoFile, Empty
<1>2. /\ pidf' = pidf \/ pidf' = [pidf EXCEPT ![n] = [val |-> NoFile, gen |-> @.gen + 1]]
      /\ IF pidf[n].val = Empty \/ pidf[n].val \in Live(n) THEN Blame(n, "swept") ELSE UNCHANGED why
  BY DEF Removes
<1>3. /\ pidf' \in [Names -> [val : 0 .. Empty, gen : Nat]]
      /\ \A m \in Names : m # n => pidf'[m] = pidf[m]
      /\ pidf'[n] = pidf[n] \/ pidf'[n].val = NoFile
  BY <1>1, <1>2
<1>4. /\ why' \in [Names -> SUBSET Causes] /\ \A m \in Names : why[m] \subseteq why'[m]
      /\ \A m \in Names : "again" \in why'[m] => "again" \in why[m]
      /\ pidf[n].val = Empty \/ pidf[n].val \in Live(n) => "swept" \in why'[n]
  BY <1>1, <1>2 DEF Blame, Causes
<1> QED
  BY <1>3, <1>4

\* Blaming adds one cause.
LEMMA BlameFacts ==
  ASSUME TypeOK, NEW n \in Names, NEW c \in Causes, Blame(n, c) \/ BlameAll(c)
  PROVE  /\ why' \in [Names -> SUBSET Causes] /\ c \in why'[n]
         /\ \A m \in Names : /\ why[m] \subseteq why'[m]
                             /\ \A b \in why'[m] : b = c \/ b \in why[m]
<1>1. why \in [Names -> SUBSET Causes]
  BY DEF TypeOK
<1> QED
  BY <1>1 DEF Blame, BlameAll

\* Processes: the types, of those that run and those that do not.
ProcTyped ==
  /\ proc \in [Pids -> ProcType]
  /\ \A p \in Pids : proc[p].st # "up" => proc[p].usr2 = "no" /\ proc[p].work = {}

LEMMA DiesFacts ==
  ASSUME TypeOK, NEW p \in Pids, proc[p].st = "up", proc' = [proc EXCEPT ![p] = Died(p)]
  PROVE  /\ ProcTyped' /\ \A q \in Pids : q # p => proc'[q] = proc[q]
         /\ proc'[p].st = "gone" /\ proc'[p].name = proc[p].name
         /\ proc'[p].usr2 = "no" /\ proc'[p].work = {}
<1>1. proc \in [Pids -> ProcType]
  BY DEF TypeOK
<1>2. PICK d \in ProcType : d = Died(p) /\ d.st = "gone" /\ d.name = proc[p].name /\ d.usr2 = "no" /\ d.work = {}
  <2>1. PICK e \in ProcType : e = proc[p]
    BY <1>1
  <2>2. PICK w \in SUBSET Work : w = {}
    OBVIOUS
  <2>3. /\ [e EXCEPT !.st = "gone", !.usr2 = "no", !.work = w] \in ProcType
        /\ [e EXCEPT !.st = "gone", !.usr2 = "no", !.work = w].st = "gone"
        /\ [e EXCEPT !.st = "gone", !.usr2 = "no", !.work = w].name = e.name
        /\ [e EXCEPT !.st = "gone", !.usr2 = "no", !.work = w].usr2 = "no"
        /\ [e EXCEPT !.st = "gone", !.usr2 = "no", !.work = w].work = w
    BY DEF ProcType
  <2> QED
    BY <2>1, <2>2, <2>3 DEF Died
<1>3. proc' \in [Pids -> ProcType] /\ proc'[p] = d /\ \A q \in Pids : q # p => proc'[q] = proc[q]
  BY <1>1, <1>2
<1> QED
  BY <1>2, <1>3 DEF ProcTyped, TypeOK

LEMMA NewbornFacts ==
  ASSUME NEW n \in Names, NEW v \in {"v1", "v2"}
  PROVE  /\ Newborn(n, v) \in ProcType
         /\ Newborn(n, v).st = "up" /\ Newborn(n, v).name = n /\ Newborn(n, v).usr2 = "no"
         /\ Newborn(n, v).work = {}
<1>1. {} \in SUBSET Work
  OBVIOUS
<1>2. [st |-> "up", name |-> n, bin |-> v, ready |-> FALSE, usr2 |-> "no",
       more |-> FALSE, work |-> {}] \in ProcType
  BY <1>1 DEF ProcType
<1> QED
  BY <1>2 DEF Newborn

LEMMA BornFacts ==
  ASSUME TypeOK, NEW p \in Pids, NEW n \in Names, NEW v \in {"v1", "v2"},
         proc' = [proc EXCEPT ![p] = Newborn(n, v)]
  PROVE  /\ ProcTyped' /\ \A q \in Pids : q # p => proc'[q] = proc[q]
         /\ proc'[p].st = "up" /\ proc'[p].name = n
         /\ proc'[p].usr2 = "no" /\ proc'[p].work = {}
<1>1. proc \in [Pids -> ProcType]
  BY DEF TypeOK
<1>2. PICK d \in ProcType : /\ d = Newborn(n, v) /\ d.st = "up" /\ d.name = n /\ d.usr2 = "no"
                            /\ d.work = {}
  BY NewbornFacts, ZenonT(40)
<1>3. proc' \in [Pids -> ProcType] /\ proc'[p] = d /\ \A q \in Pids : q # p => proc'[q] = proc[q]
  BY <1>1, <1>2
<1>4. ProcTyped'
  BY <1>2, <1>3 DEF ProcTyped, TypeOK
<1> QED
  BY <1>2, <1>3, <1>4

\* A process that stays what it is, but for one record.
Becomes(p, d) == proc' = [proc EXCEPT ![p] = d]

LEMMA BecomesFacts ==
  ASSUME TypeOK, NEW p \in Pids, NEW d \in ProcType, Becomes(p, d),
         d.st = proc[p].st, d.name = proc[p].name, proc[p].st = "up"
  PROVE  /\ ProcTyped' /\ proc'[p] = d /\ \A q \in Pids : q # p => proc'[q] = proc[q]
         /\ \A q \in Pids : proc'[q].st = proc[q].st /\ proc'[q].name = proc[q].name
<1>1. proc \in [Pids -> ProcType]
  BY DEF TypeOK
<1>2. proc' \in [Pids -> ProcType] /\ proc'[p] = d /\ \A q \in Pids : q # p => proc'[q] = proc[q]
  BY <1>1 DEF Becomes
<1> QED
  BY <1>2 DEF ProcTyped, TypeOK

\* What a step cuts off was not running when the restart was asked for.
CutOff(w) == cut' = cut \cup w /\ w \subseteq Work /\ (scn.long \/ "before" \notin w)

LEMMA ChangesFacts ==
  ASSUME TypeOK, WorkInv, NEW p \in Pids, NEW d \in ProcType, Becomes(p, d), proc[p].st = "up",
         d.st = "up", d.name = proc[p].name, Patient(d), scn' = scn, NEW w, CutOff(w)
  PROVE  /\ ProcTyped' /\ WorkInv' /\ cut' \subseteq Work
         /\ \A q \in Pids : proc'[q].st = proc[q].st /\ proc'[q].name = proc[q].name
<1>1. /\ ProcTyped' /\ proc'[p] = d /\ \A q \in Pids : q # p => proc'[q] = proc[q]
      /\ \A q \in Pids : proc'[q].st = proc[q].st /\ proc'[q].name = proc[q].name
  BY BecomesFacts
<1>2. \A q \in Pids : Patient(proc[q])'
  <2> SUFFICES ASSUME NEW q \in Pids PROVE Patient(proc[q])'
    OBVIOUS
  <2>1. Patient(proc[q]) /\ scn' = scn
    BY DEF WorkInv
  <2>2. proc'[q] = d \/ proc'[q] = proc[q]
    BY <1>1
  <2> QED
    BY <2>1, <2>2, Zenon DEF Patient
<1>3. SignalledWorkFinishes'
  BY Zenon DEF WorkInv, SignalledWorkFinishes, CutOff
<1>4. cut' \subseteq Work
  BY DEF TypeOK, CutOff
<1> QED
  BY <1>1, <1>2, <1>3, <1>4 DEF WorkInv

\* What the processes do between themselves and their work.
LEMMA ServesFacts ==
  ASSUME TypeOK, WorkInv, NEW p \in Pids,
         Serves(p) \/ WorkArrives(p) \/ \E w \in Work : WorkEnds(p, w)
  PROVE  /\ ProcTyped' /\ WorkInv' /\ cut' \subseteq Work
         /\ \A q \in Pids : proc'[q].st = proc[q].st /\ proc'[q].name = proc[q].name
         /\ UNCHANGED <<scn, inv, ino, file, pidf, why>>
<1>1. PICK e \in ProcType : e = proc[p]
  BY DEF TypeOK
<1>2. /\ proc \in [Pids -> ProcType] /\ cut \subseteq Work
      /\ Patient(e)
  BY <1>1 DEF TypeOK, WorkInv
<1>3. UNCHANGED <<scn, inv, ino, file, pidf, why>>
  BY DEF Serves, Notifies, WorkArrives, WorkEnds, MinutePasses, GoesIdle, Reexecs, disk
<1>4. proc[p].st = "up"
  BY DEF Serves, Notifies, WorkArrives, WorkEnds, MinutePasses, GoesIdle, Reexecs, TypeOK
<1>5. SUFFICES \E d \in ProcType, w \in SUBSET Work :
        Becomes(p, d) /\ d.st = "up" /\ d.name = e.name /\ Patient(d) /\ CutOff(w)
  BY <1>1, <1>3, <1>4, ChangesFacts
<1>6. cut' = cut => CutOff({})
  BY DEF CutOff
<1>7. CASE Notifies(p)
  <2>1. PICK d \in ProcType : d = [e EXCEPT !.ready = TRUE]
    BY DEF ProcType
  <2>2. Becomes(p, d) /\ cut' = cut
    BY <1>1, <1>2, <1>7, <2>1 DEF Becomes, Notifies
  <2>3. d.st = e.st /\ d.name = e.name /\ d.usr2 = e.usr2 /\ d.work = e.work
    BY <2>1 DEF ProcType
  <2>4. Patient(d)
    BY <1>2, <2>3, Zenon DEF Patient
  <2> QED
    BY <1>1, <1>4, <1>6, <2>2, <2>3, <2>4
<1>8. CASE WorkArrives(p)
  <2>1. PICK w \in {"transfer", IF e.usr2 = "no" THEN "before" ELSE "after"} :
          proc' = [proc EXCEPT ![p].work = @ \cup {w}] /\ cut' = cut
    BY <1>1, <1>8 DEF WorkArrives
  <2>2. w \in Work /\ (e.usr2 # "no" => w # "before")
    BY <2>1 DEF Work
  <2>3. PICK d \in ProcType : d = [e EXCEPT !.work = @ \cup {w}]
    BY <2>2 DEF ProcType
  <2>4. d.st = e.st /\ d.name = e.name /\ d.usr2 = e.usr2 /\ d.work = e.work \cup {w}
    BY <2>3 DEF ProcType
  <2>5. Becomes(p, d)
    BY <1>1, <1>2, <2>1, <2>3 DEF Becomes
  <2>6. "before" \in d.work => "before" \in e.work \/ e.usr2 = "no"
    BY <2>2, <2>4
  <2>7. Patient(d)
    BY <1>2, <2>4, <2>6, Zenon DEF Patient
  <2> QED
    BY <1>1, <1>4, <1>6, <2>1, <2>4, <2>5, <2>7
<1>9. ASSUME NEW w \in Work, WorkEnds(p, w)
      PROVE  \E d \in ProcType, c \in SUBSET Work :
               Becomes(p, d) /\ d.st = "up" /\ d.name = e.name /\ Patient(d) /\ CutOff(c)
  <2>1. PICK d \in ProcType : d = [e EXCEPT !.work = @ \ {w}]
    BY DEF ProcType
  <2>2. Becomes(p, d) /\ cut' = cut
    BY <1>1, <1>2, <1>9, <2>1 DEF Becomes, WorkEnds
  <2>3. d.st = e.st /\ d.name = e.name /\ d.usr2 = e.usr2 /\ d.work = e.work \ {w}
    BY <2>1 DEF ProcType
  <2>4. "before" \in d.work => "before" \in e.work
    BY <2>3
  <2>5. Patient(d)
    BY <1>2, <2>3, <2>4, Zenon DEF Patient
  <2> QED
    BY <1>1, <1>4, <1>6, <2>2, <2>3, <2>5
<1>10. CASE MinutePasses(p)
  <2>1. PICK d \in ProcType : d = [e EXCEPT !.usr2 = "late"]
    BY DEF ProcType
  <2>2. Becomes(p, d) /\ cut' = cut
    BY <1>1, <1>2, <1>10, <2>1 DEF Becomes, MinutePasses
  <2>3. d.st = e.st /\ d.name = e.name /\ d.work = e.work
    BY <2>1 DEF ProcType
  <2>4. Patient(d)
    BY <1>1, <1>10, <2>3, Zenon DEF Patient, MinutePasses
  <2> QED
    BY <1>1, <1>4, <1>6, <2>2, <2>3, <2>4
<1>11. CASE GoesIdle(p)
  <2>1. PICK d \in ProcType : d = [e EXCEPT !.usr2 = "idle"]
    BY DEF ProcType
  <2>2. Becomes(p, d) /\ cut' = cut
    BY <1>1, <1>2, <1>11, <2>1 DEF Becomes, GoesIdle
  <2>3. d.st = e.st /\ d.name = e.name /\ d.usr2 = "idle" /\ d.work = e.work
    BY <2>1 DEF ProcType
  <2>4. "before" \notin e.work \/ e.usr2 = "late"
    BY <1>1, <1>11 DEF GoesIdle, Idle, Counted
  <2>5. Patient(d)
    BY <1>2, <2>3, <2>4, Zenon DEF Patient
  <2> QED
    BY <1>1, <1>4, <1>6, <2>2, <2>3, <2>5
<1>12. CASE Reexecs(p)
  <2>1. CASE Content("exe") \in {"v1", "v2"}
    <3>0. PICK n \in Names, v \in {"v1", "v2"} : n = e.name /\ v = Content("exe")
      BY <2>1 DEF ProcType
    <3>1. PICK d \in ProcType : /\ d = Newborn(n, v) /\ d.st = "up" /\ d.work = {}
                                /\ d.name = n /\ d.usr2 = "no"
      BY NewbornFacts, ZenonT(40)
    <3>2. Becomes(p, d) /\ cut' = cut \cup e.work /\ e.usr2 = "idle"
      BY <1>1, <1>12, <3>0, <3>1 DEF Becomes, Reexecs
    <3>3. e.work \subseteq Work
      BY DEF ProcType
    <3>4. CutOff(e.work)
      BY <1>2, <3>2, <3>3, Zenon DEF CutOff, Patient
    <3>5. Patient(d)
      BY <3>1 DEF Patient
    <3> QED
      BY <1>1, <3>0, <3>1, <3>2, <3>3, <3>4, <3>5
  <2>2. CASE Content("exe") \notin {"v1", "v2"}
    <3>1. PICK d \in ProcType : d = Continued(p) /\ d.st = e.st /\ d.name = e.name /\ d.usr2 \notin {"late", "idle"}
      <4>1. PICK u \in {"sent", "no"} : u = IF e.more THEN "sent" ELSE "no"
        OBVIOUS
      <4>2. PICK w \in SUBSET Work :
              w = (e.work \ Counted) \cup (IF e.work \cap Counted = {} THEN {} ELSE {"before"})
        BY DEF ProcType, Work
      <4>3. /\ [e EXCEPT !.usr2 = u, !.more = FALSE, !.work = w] \in ProcType
            /\ [e EXCEPT !.usr2 = u, !.more = FALSE, !.work = w].st = e.st
            /\ [e EXCEPT !.usr2 = u, !.more = FALSE, !.work = w].name = e.name
            /\ [e EXCEPT !.usr2 = u, !.more = FALSE, !.work = w].usr2 = u
        BY <4>1, <4>2 DEF ProcType
      <4>4. Continued(p) = [e EXCEPT !.usr2 = u, !.more = FALSE, !.work = w]
        BY <1>1, <4>1, <4>2 DEF Continued, ProcType
      <4> QED
        BY <4>1, <4>3, <4>4
    <3>2. Becomes(p, d) /\ cut' = cut
      BY <1>12, <2>2, <3>1 DEF Becomes, Reexecs
    <3>3. Patient(d)
      BY <3>1 DEF Patient
    <3> QED
      BY <1>1, <1>4, <1>6, <3>1, <3>2, <3>3
  <2> QED
    BY <2>1, <2>2
<1> QED
  BY <1>7, <1>8, <1>9, <1>10, <1>11, <1>12 DEF Serves

LEMMA SweepsFacts ==
  ASSUME TypeOK, NEW o \in Invs, Sweeps(o) \/ Unlinks(o)
  PROVE  /\ Alone(o) /\ SamePid(o) /\ SameCopy(o) /\ inv[o].pc \in {"sweep", "remove"}
         /\ inv'[o].pc = IF At(o, "sweep") THEN inv[o].then ELSE "done"
         /\ Removes(o)
         /\ UNCHANGED <<scn, proc, ino, file, cut>>
<1>1. PICK pc \in Pcs : pc = IF At(o, "sweep") THEN inv[o].then ELSE "done"
  BY DEF TypeOK, InvType, Pcs
<1>2. Goto(o, pc) /\ Removes(o) /\ inv[o].pc \in {"sweep", "remove"} /\ UNCHANGED <<scn, proc, ino, file, cut>>
  BY <1>1 DEF Sweeps, Unlinks, At, disk
<1> QED
  BY <1>1, <1>2, GotoFacts

\* A second daemon of one name is started only by "double".
LEMMA SpawnsFacts ==
  ASSUME TypeOK, NEW o \in Invs, Spawns(o)
  PROVE  /\ Alone(o) /\ SameCopy(o) /\ At(o, "spawn")
         /\ inv'[o].procs = inv[o].procs /\ inv'[o].gen = inv[o].gen
         /\ UNCHANGED <<scn, ino, file, pidf, cut>>
         /\ why' \in [Names -> SUBSET Causes]
         /\ \A m \in Names : why[m] \subseteq why'[m] /\ ("again" \in why'[m] => "again" \in why[m])
         /\ \/ inv'[o].pc = "done" /\ UNCHANGED <<proc, why>>
            \/ /\ inv'[o].pc = "truncate" /\ proc[inv'[o].pid].st = "none" /\ ProcTyped'
               /\ proc'[inv'[o].pid].st = "up" /\ proc'[inv'[o].pid].name = inv[o].name
               /\ proc'[inv'[o].pid].usr2 = "no"
               /\ \A q \in Pids : q # inv'[o].pid => proc'[q] = proc[q]
               /\ Live(inv[o].name) # {} => "double" \in why'[inv[o].name]
<1>1. /\ inv \in [Invs -> InvType] /\ inv[o].name \in Names /\ why \in [Names -> SUBSET Causes]
      /\ At(o, "spawn") /\ UNCHANGED <<scn, ino, file, pidf, cut>>
  BY DEF TypeOK, InvType, Spawns, disk
<1>2. PICK n \in Names : n = inv[o].name
  BY <1>1
<1>3. CASE Content("exe") \in {"v1", "v2"}
  <2>1. PICK p \in Pids :
          /\ Free(p) /\ proc' = [proc EXCEPT ![p] = Newborn(n, Content("exe"))]
          /\ inv' = [inv EXCEPT ![o].pc = "truncate", ![o].pid = p]
          /\ IF Live(n) # {} THEN Blame(n, "double") ELSE UNCHANGED why
    BY <1>2, <1>3 DEF Spawns
  <2>2. PICK v \in {"v1", "v2"} : v = Content("exe")
    BY <1>3
  <2>3. /\ ProcTyped' /\ \A q \in Pids : q # p => proc'[q] = proc[q]
        /\ proc'[p].st = "up" /\ proc'[p].name = n /\ proc'[p].usr2 = "no"
    BY <2>1, <2>2, BornFacts
  <2>4. "truncate" \in Pcs
    BY DEF Pcs
  <2>5. /\ inv' \in [Invs -> InvType] /\ \A q \in Invs : q # o => inv'[q] = inv[q]
        /\ inv'[o].kind = inv[o].kind /\ inv'[o].name = inv[o].name
        /\ inv'[o].procs = inv[o].procs /\ inv'[o].gen = inv[o].gen
        /\ inv'[o].from = inv[o].from /\ inv'[o].to = inv[o].to
        /\ inv'[o].pid = p /\ inv'[o].pc = "truncate"
    BY <1>1, <2>1, <2>4 DEF InvType
  <2>6. /\ why' \in [Names -> SUBSET Causes]
        /\ \A m \in Names : why[m] \subseteq why'[m] /\ ("again" \in why'[m] => "again" \in why[m])
        /\ Live(n) # {} => "double" \in why'[n]
    BY <1>1, <2>1, BlameFacts DEF Causes
  <2>7. Alone(o) /\ SameCopy(o)
    BY <2>5 DEF Alone, SameCopy
  <2>8. proc[p].st = "none"
    BY <2>1 DEF Free
  <2> QED
    BY <1>1, <1>2, <2>3, <2>5, <2>6, <2>7, <2>8
<1>4. CASE Content("exe") \notin {"v1", "v2"}
  <2>1. Goto(o, "done") /\ UNCHANGED <<proc, why>> /\ "done" \in Pcs
    BY <1>4 DEF Spawns, Pcs
  <2> QED
    BY <1>1, <2>1, GotoFacts DEF SamePid
<1> QED
  BY <1>3, <1>4

LEMMA TruncatesFacts ==
  ASSUME TypeOK, NEW o \in Invs, Truncates(o)
  PROVE  /\ Alone(o) /\ SameCopy(o) /\ At(o, "truncate") /\ inv'[o].pc = "write"
         /\ inv'[o].procs = inv[o].procs /\ inv'[o].pid = inv[o].pid
         /\ inv'[o].gen = pidf[inv[o].name].gen
         /\ pidf' \in [Names -> [val : 0 .. Empty, gen : Nat]]
         /\ \A m \in Names : m # inv[o].name => pidf'[m] = pidf[m]
         /\ pidf'[inv[o].name].val = Empty /\ pidf'[inv[o].name].gen = pidf[inv[o].name].gen
         /\ UNCHANGED <<scn, proc, ino, file, cut, why>>
<1>1. /\ inv \in [Invs -> InvType] /\ inv[o].name \in Names
      /\ pidf \in [Names -> [val : 0 .. Empty, gen : Nat]] /\ Empty \in 0 .. Empty
  BY HostAssumption DEF TypeOK, InvType, Empty
<1>2. /\ At(o, "truncate") /\ UNCHANGED <<scn, proc, ino, file, cut, why>>
      /\ pidf' = [pidf EXCEPT ![inv[o].name].val = Empty]
      /\ inv' = [inv EXCEPT ![o].pc = "write", ![o].gen = pidf[inv[o].name].gen]
  BY DEF Truncates, disk
<1>3. "write" \in Pcs
  BY DEF Pcs
<1>4. PICK n \in Names : n = inv[o].name
  BY <1>1
<1>5. /\ pidf' \in [Names -> [val : 0 .. Empty, gen : Nat]]
      /\ \A m \in Names : m # n => pidf'[m] = pidf[m]
      /\ pidf'[n].val = Empty /\ pidf'[n].gen = pidf[n].gen
  BY <1>1, <1>2, <1>4
<1>6. PICK g \in Nat : g = pidf[n].gen
  BY <1>1
<1>7. /\ inv' \in [Invs -> InvType] /\ \A q \in Invs : q # o => inv'[q] = inv[q]
      /\ inv'[o].kind = inv[o].kind /\ inv'[o].name = inv[o].name
      /\ inv'[o].procs = inv[o].procs /\ inv'[o].gen = g
      /\ inv'[o].from = inv[o].from /\ inv'[o].to = inv[o].to
      /\ inv'[o].pid = inv[o].pid /\ inv'[o].pc = "write"
  BY <1>1, <1>2, <1>3, <1>4, <1>6 DEF InvType
<1> QED
  BY <1>2, <1>4, <1>5, <1>6, <1>7 DEF Alone, SameCopy

LEMMA WritesFacts ==
  ASSUME TypeOK, NEW o \in Invs, Writes(o)
  PROVE  /\ Alone(o) /\ SamePid(o) /\ SameCopy(o) /\ At(o, "write") /\ inv'[o].pc = "done"
         /\ pidf' \in [Names -> [val : 0 .. Empty, gen : Nat]]
         /\ \A m \in Names : m # inv[o].name => pidf'[m] = pidf[m]
         /\ pidf'[inv[o].name].gen = pidf[inv[o].name].gen
         /\ pidf'[inv[o].name].val = IF pidf[inv[o].name].gen = inv[o].gen THEN inv[o].pid
                                     ELSE pidf[inv[o].name].val
         /\ UNCHANGED <<scn, proc, ino, file, cut, why>>
<1>1. /\ inv \in [Invs -> InvType] /\ inv[o].name \in Names /\ inv[o].pid \in Pids
      /\ pidf \in [Names -> [val : 0 .. Empty, gen : Nat]] /\ Pids \subseteq 0 .. Empty
  BY HostAssumption DEF TypeOK, InvType, Empty, Pids
<1>2. /\ At(o, "write") /\ UNCHANGED <<scn, proc, ino, file, cut, why>> /\ Goto(o, "done")
      /\ "done" \in Pcs
  BY DEF Writes, disk, Pcs
<1>4. PICK n \in Names, p \in Pids : n = inv[o].name /\ p = inv[o].pid
  BY <1>1
<1>3. pidf' = [pidf EXCEPT ![n].val = IF pidf[n].gen = inv[o].gen THEN p ELSE @]
  BY <1>4 DEF Writes, PidOf
<1>5. /\ pidf' \in [Names -> [val : 0 .. Empty, gen : Nat]]
      /\ \A m \in Names : m # n => pidf'[m] = pidf[m]
      /\ pidf'[n].gen = pidf[n].gen
      /\ pidf'[n].val = IF pidf[n].gen = inv[o].gen THEN p ELSE pidf[n].val
  BY <1>1, <1>3
<1> QED
  BY <1>2, <1>4, <1>5, GotoFacts

\* SIGTERM, of stop or of a helper: the process it is sent to is gone then.
Killed(p) == IF proc[p].st = "up" THEN proc' = [proc EXCEPT ![p] = Died(p)] ELSE proc' = proc
LEMMA KilledFacts ==
  ASSUME TypeOK, NEW p \in Pids, Killed(p)
  PROVE  /\ ProcTyped' /\ \A q \in Pids : q # p => proc'[q] = proc[q]
         /\ \A q \in Pids : /\ proc'[q].name = proc[q].name
                            /\ proc'[q].st = "none" <=> proc[q].st = "none"
                            /\ proc'[q].st = "up" => proc[q].st = "up"
                            /\ proc'[q] = proc[q] \/ proc'[q].usr2 = "no"
         /\ proc'[p].st # "up"
<1>1. CASE proc[p].st = "up"
  <2>1. /\ ProcTyped' /\ \A q \in Pids : q # p => proc'[q] = proc[q]
        /\ proc'[p].st = "gone" /\ proc'[p].name = proc[p].name /\ proc'[p].usr2 = "no"
    BY <1>1, DiesFacts DEF Killed
  <2> QED
    BY <1>1, <2>1
<1>2. CASE proc[p].st # "up"
  BY <1>2 DEF Killed, ProcTyped, TypeOK
<1> QED
  BY <1>1, <1>2

LEMMA WriteFailsFacts ==
  ASSUME TypeOK, NEW o \in Invs, WriteFails(o)
  PROVE  /\ Alone(o) /\ SamePid(o) /\ SameCopy(o) /\ inv[o].pc \in {"truncate", "write"}
         /\ inv'[o].pc = "done" /\ Killed(inv[o].pid)
         /\ UNCHANGED <<scn, ino, file, pidf, cut, why>>
<1>1. /\ inv[o].pc \in {"truncate", "write"} /\ UNCHANGED <<scn, ino, file, pidf, cut, why>>
      /\ Goto(o, "done") /\ Killed(inv[o].pid)
  BY DEF WriteFails, disk, Killed, PidOf, At
<1>2. "done" \in Pcs
  BY DEF Pcs
<1> QED
  BY <1>1, <1>2, GotoFacts

LEMMA TerminatesFacts ==
  ASSUME TypeOK, NEW o \in Invs, Terminates(o)
  PROVE  /\ Alone(o) /\ SamePid(o) /\ SameCopy(o) /\ At(o, "term")
         /\ inv'[o].pc \in {"wait", "remove"} /\ Killed(inv[o].pid)
         /\ UNCHANGED <<scn, ino, file, pidf, cut, why>>
<1>1. /\ At(o, "term") /\ UNCHANGED <<scn, ino, file, pidf, cut, why>> /\ Killed(inv[o].pid)
      /\ Goto(o, "wait") \/ Goto(o, "remove")
  BY DEF Terminates, disk, Killed
<1>2. "wait" \in Pcs /\ "remove" \in Pcs
  BY DEF Pcs
<1> QED
  BY <1>1, <1>2, GotoFacts

LEMMA UpdatesFacts ==
  ASSUME TypeOK, NEW o \in Invs, Updates(o)
  PROVE  /\ Alone(o) /\ SameCopy(o) /\ At(o, "look") /\ inv[o].kind # "helper"
         /\ inv'[o].pid = inv[o].pid /\ inv'[o].gen = inv[o].gen
         /\ inv'[o].pc \in {"done", "download", "restart"}
         /\ \A p \in inv'[o].procs : proc[p].st # "none"
         /\ UNCHANGED <<scn, proc, ino, file, pidf, cut, why>>
<1>1. /\ inv \in [Invs -> InvType] /\ At(o, "look") /\ inv[o].kind # "helper"
      /\ UNCHANGED <<scn, proc, ino, file, pidf, cut, why>>
  BY DEF TypeOK, Updates, disk
<1>2. PICK pc \in {"done", "download", "restart"}, procs \in SUBSET Pids :
        /\ inv' = [inv EXCEPT ![o].procs = procs, ![o].pc = pc]
        /\ \A p \in procs : proc[p].st # "none"
  <2> DEFINE found == IF inv[o].kind = "update" THEN {} ELSE {p \in Pids : proc[p].st = "up"}
             target == IF Installs THEN "v2" ELSE Content("exe")
             restart == {p \in found : scn.force \/ Installs \/ proc[p].bin # target}
  <2>1. restart \in SUBSET Pids /\ \A p \in restart : proc[p].st # "none"
    OBVIOUS
  <2>2. PICK pc \in {"done", "download", "restart"} :
          pc = IF inv[o].kind = "daemon_update" /\ found = {} THEN "done"
               ELSE IF Installs THEN "download" ELSE "restart"
    OBVIOUS
  <2>3. inv' = [inv EXCEPT ![o].procs = restart, ![o].pc = pc]
    BY <2>2 DEF Updates
  <2> QED
    BY <2>1, <2>2, <2>3
<1>3. pc \in Pcs
  BY <1>2 DEF Pcs
<1>4. /\ inv' \in [Invs -> InvType] /\ \A q \in Invs : q # o => inv'[q] = inv[q]
      /\ inv'[o].kind = inv[o].kind /\ inv'[o].name = inv[o].name
      /\ inv'[o].procs = procs /\ inv'[o].gen = inv[o].gen
      /\ inv'[o].from = inv[o].from /\ inv'[o].to = inv[o].to
      /\ inv'[o].pid = inv[o].pid /\ inv'[o].pc = pc
  BY <1>1, <1>2, <1>3 DEF InvType
<1> QED
  BY <1>1, <1>2, <1>4 DEF Alone, SameCopy

Files == {"exe", "bak", "baktmp", "exetmp"}
Source(o) == IF o \in Helpers THEN "bak" ELSE "exe"
Target(o) == IF o \in Helpers THEN "exe" ELSE "bak"
TmpFile(o) == IF o \in Helpers THEN "exetmp" ELSE "baktmp"
After(o) == IF o \in Helpers THEN "start_again" ELSE "swap"
LEMMA CopyOfFacts ==
  ASSUME NEW o
  PROVE  /\ CopyOf(o).src = Source(o) /\ CopyOf(o).dst = Target(o) /\ CopyOf(o).next = After(o)
         /\ Tmp(CopyOf(o).dst) = TmpFile(o)
         /\ Source(o) \in Files /\ Target(o) \in Files /\ TmpFile(o) \in Files
         /\ After(o) \in Pcs
BY DEF CopyOf, Source, Target, After, TmpFile, Tmp, Files, Pcs

LEMMA CopyOpensFacts ==
  ASSUME TypeOK, NEW o \in Invs, CopyOpens(o)
  PROVE  /\ Alone(o) /\ SamePid(o) /\ At(o, "copy")
         /\ UNCHANGED <<scn, proc, pidf, cut>>
         /\ why' \in [Names -> SUBSET Causes]
         /\ \A m \in Names : why[m] \subseteq why'[m]
         /\ \/ /\ inv'[o].pc = "done" /\ SameCopy(o) /\ UNCHANGED <<ino, file, why>>
               /\ file[Source(o)] = 0
            \/ /\ inv'[o].pc = "copying" /\ inv'[o].to \in Inodes
               /\ file[Source(o)] # 0 /\ inv'[o].from = file[Source(o)]
               /\ IF file[TmpFile(o)] = 0 THEN Fresh(inv'[o].to) ELSE inv'[o].to = file[TmpFile(o)]
               /\ ino' = [ino EXCEPT ![inv'[o].to] = "part"]
               /\ file' = [file EXCEPT ![TmpFile(o)] = inv'[o].to]
               /\ o \notin Helpers /\ (file.bak # 0 \/ file.baktmp # 0) => \A m \in Names : "again" \in why'[m]
<1>1. /\ inv \in [Invs -> InvType] /\ file \in [Files -> {0} \cup Inodes] /\ 0 \notin Inodes
      /\ why \in [Names -> SUBSET Causes]
      /\ At(o, "copy") /\ UNCHANGED <<scn, proc, pidf, cut>>
  BY DEF TypeOK, CopyOpens, Files, Inodes
<1>2. CASE file[Source(o)] = 0
  <2>1. Goto(o, "done") /\ UNCHANGED <<ino, file, why>> /\ "done" \in Pcs
    BY <1>2, CopyOfFacts DEF CopyOpens, disk, Pcs
  <2> QED
    BY <1>1, <1>2, <2>1, GotoFacts
<1>3. CASE file[Source(o)] # 0
  <2>1. PICK i \in Inodes :
          /\ IF file[TmpFile(o)] = 0 THEN Fresh(i) ELSE i = file[TmpFile(o)]
          /\ ino' = [ino EXCEPT ![i] = "part"]
          /\ file' = [file EXCEPT ![TmpFile(o)] = i]
          /\ inv' = [inv EXCEPT ![o].pc = "copying", ![o].from = file[Source(o)], ![o].to = i]
          /\ IF Target(o) = "bak" /\ (file.bak # 0 \/ file.baktmp # 0) THEN BlameAll("again")
             ELSE UNCHANGED why
    BY <1>3, CopyOfFacts DEF CopyOpens
  <2>2. PICK j \in Inodes : j = file[Source(o)]
    BY <1>1, <1>3, CopyOfFacts
  <2>3. "copying" \in Pcs
    BY DEF Pcs
  <2>4. /\ inv' \in [Invs -> InvType] /\ \A q \in Invs : q # o => inv'[q] = inv[q]
        /\ inv'[o].kind = inv[o].kind /\ inv'[o].name = inv[o].name
        /\ inv'[o].procs = inv[o].procs /\ inv'[o].gen = inv[o].gen
        /\ inv'[o].from = j /\ inv'[o].to = i
        /\ inv'[o].pid = inv[o].pid /\ inv'[o].pc = "copying"
    BY <1>1, <2>1, <2>2, <2>3, ZenonT(40) DEF InvType
  <2>5. /\ why' \in [Names -> SUBSET Causes] /\ \A m \in Names : why[m] \subseteq why'[m]
        /\ o \notin Helpers /\ (file.bak # 0 \/ file.baktmp # 0) => \A m \in Names : "again" \in why'[m]
    BY <1>1, <2>1 DEF BlameAll, Causes, Target
  <2> QED
    BY <1>1, <1>3, <2>1, <2>2, <2>4, <2>5 DEF Alone, SamePid
<1> QED
  BY <1>2, <1>3

LEMMA CopyWritesFacts ==
  ASSUME TypeOK, NEW o \in Invs, CopyWrites(o)
  PROVE  /\ Alone(o) /\ SamePid(o) /\ SameCopy(o) /\ At(o, "copying") /\ inv'[o].pc = "copied"
         /\ UNCHANGED <<scn, proc, file, pidf, cut, why>>
         /\ inv[o].from \in Inodes /\ inv[o].to \in Inodes
         /\ \E new \in {"part", ino[inv[o].from]} :
              /\ ino' = [ino EXCEPT ![inv[o].to] = new]
              /\ ino[inv[o].to] \in {"part", ino[inv[o].from]} => new = ino[inv[o].from]
<1>1. /\ At(o, "copying") /\ UNCHANGED <<scn, proc, file, pidf, cut, why>> /\ Goto(o, "copied")
      /\ "copied" \in Pcs /\ inv[o].from \in Inodes /\ inv[o].to \in Inodes
  BY DEF CopyWrites, Pcs, TypeOK, InvType
<1>2. \E new \in {"part", ino[inv[o].from]} :
        /\ ino' = [ino EXCEPT ![inv[o].to] = new]
        /\ ino[inv[o].to] \in {"part", ino[inv[o].from]} => new = ino[inv[o].from]
  BY DEF CopyWrites
<1> QED
  BY <1>1, <1>2, GotoFacts

LEMMA CopyRenamesFacts ==
  ASSUME TypeOK, NEW o \in Invs, CopyRenames(o)
  PROVE  /\ Alone(o) /\ SamePid(o) /\ SameCopy(o) /\ At(o, "copied")
         /\ UNCHANGED <<scn, proc, ino, pidf, cut, why>>
         /\ \/ /\ file[TmpFile(o)] = 0 /\ inv'[o].pc = "done" /\ UNCHANGED file
            \/ /\ file[TmpFile(o)] # 0 /\ inv'[o].pc = After(o)
               /\ file' = [file EXCEPT ![Target(o)] = file[TmpFile(o)], ![TmpFile(o)] = 0]
<1>1. /\ At(o, "copied") /\ UNCHANGED <<scn, proc, ino, pidf, cut, why>>
      /\ "done" \in Pcs
  BY DEF CopyRenames, Pcs
<1>2. \/ file[TmpFile(o)] = 0 /\ Goto(o, "done") /\ UNCHANGED file
      \/ /\ file[TmpFile(o)] # 0 /\ Goto(o, After(o))
         /\ file' = [file EXCEPT ![Target(o)] = file[TmpFile(o)], ![TmpFile(o)] = 0]
  BY CopyOfFacts DEF CopyRenames
<1> QED
  BY <1>1, <1>2, CopyOfFacts, GotoFacts

LEMMA CopyFailsFacts ==
  ASSUME TypeOK, NEW o \in Invs, CopyFails(o)
  PROVE  /\ Alone(o) /\ SamePid(o) /\ SameCopy(o) /\ Copying(o) /\ inv'[o].pc = "done"
         /\ UNCHANGED <<scn, proc, pidf, cut>> /\ inv[o].to \in Inodes
         /\ IF At(o, "copying")
            THEN /\ file' = [file EXCEPT ![TmpFile(o)] = 0]
                 /\ \E new \in {ino[inv[o].to], "part"} : ino' = [ino EXCEPT ![inv[o].to] = new]
            ELSE UNCHANGED <<ino, file>>
         /\ why' \in [Names -> SUBSET Causes]
         /\ \A m \in Names : why[m] \subseteq why'[m] /\ why'[m] \subseteq why[m] \cup {"failed"}
         /\ IF o \in Helpers THEN Failed' ELSE why' = why
<1>1. /\ Copying(o) /\ UNCHANGED <<scn, proc, pidf, cut>> /\ Goto(o, "done")
      /\ "done" \in Pcs /\ inv[o].to \in Inodes /\ why \in [Names -> SUBSET Causes]
  BY DEF CopyFails, Copying, Pcs, TypeOK, InvType
<1>2. IF At(o, "copying")
      THEN /\ file' = [file EXCEPT ![TmpFile(o)] = 0]
           /\ \E new \in {ino[inv[o].to], "part"} : ino' = [ino EXCEPT ![inv[o].to] = new]
      ELSE UNCHANGED <<ino, file>>
  BY CopyOfFacts DEF CopyFails, disk
<1>3. IF o \in Helpers THEN BlameAll("failed") ELSE UNCHANGED why
  BY DEF CopyFails
<1>4. /\ why' \in [Names -> SUBSET Causes]
      /\ \A m \in Names : why[m] \subseteq why'[m] /\ why'[m] \subseteq why[m] \cup {"failed"}
      /\ IF o \in Helpers THEN Failed' ELSE why' = why
  BY <1>1, <1>3 DEF BlameAll, Causes, Failed
<1> QED
  BY <1>1, <1>2, <1>4, GotoFacts

LEMMA SwapsFacts ==
  ASSUME TypeOK, NEW o \in Invs, Swaps(o)
  PROVE  /\ Alone(o) /\ SamePid(o) /\ SameCopy(o) /\ At(o, "swap")
         /\ UNCHANGED <<scn, proc, pidf, cut, why>>
         /\ \/ /\ inv'[o].pc = "restart"
               /\ \E i \in Inodes : /\ Fresh(i) /\ ino' = [ino EXCEPT ![i] = "v2"]
                                    /\ file' = [file EXCEPT !.exe = i]
            \/ inv'[o].pc = "done" /\ UNCHANGED <<ino, file>>
<1>1. /\ At(o, "swap") /\ "restart" \in Pcs /\ "done" \in Pcs
      /\ UNCHANGED <<scn, proc, pidf, cut, why>>
      /\ \/ /\ Goto(o, "restart")
            /\ \E i \in Inodes : /\ Fresh(i) /\ ino' = [ino EXCEPT ![i] = "v2"]
                                 /\ file' = [file EXCEPT !.exe = i]
         \/ Goto(o, "done") /\ UNCHANGED <<ino, file>>
  BY DEF Swaps, Pcs, disk
<1> QED
  BY <1>1, GotoFacts

\* SIGUSR2 to one process: it is noted, or kills a process without a handler.
LEMMA SignalledFacts ==
  ASSUME TypeOK, NEW p \in Pids, proc' = [proc EXCEPT ![p] = Signalled(p)]
  PROVE  /\ ProcTyped' /\ \A q \in Pids : q # p => proc'[q] = proc[q]
         /\ \A q \in Pids : /\ proc'[q].name = proc[q].name
                            /\ proc'[q].st = "none" <=> proc[q].st = "none"
                            /\ proc'[q].st = "up" => proc[q].st = "up"
         /\ proc[p].st = "up" /\ proc[p].ready => proc'[p].st = "up"
         /\ \/ proc'[p].usr2 \notin {"late", "idle"}
            \/ proc'[p].usr2 = proc[p].usr2 /\ proc'[p].work = proc[p].work
<1>1. PICK e \in ProcType : e = proc[p] /\ proc \in [Pids -> ProcType]
  BY DEF TypeOK
<1>2. CASE e.st # "up"
  <2>1. Signalled(p) = proc[p]
    BY <1>1, <1>2 DEF Signalled
  <2>2. proc' = proc
    BY <1>1, <2>1
  <2> QED
    BY <1>1, <1>2, <2>2 DEF ProcTyped, TypeOK
<1>3. CASE e.st = "up" /\ e.ready
  <2>1. PICK d \in ProcType : /\ d = SignalTaken(p) /\ d.st = e.st /\ d.name = e.name
                              /\ \/ d.usr2 = "sent"
                                 \/ d.usr2 = e.usr2 /\ d.work = e.work
    <3>1. CASE e.usr2 = "no"
      <4>1. PICK d \in ProcType : d = [e EXCEPT !.usr2 = "sent"]
        BY DEF ProcType
      <4>2. SignalTaken(p) = d
        BY <1>1, <3>1, <4>1 DEF SignalTaken
      <4>3. d.st = e.st /\ d.name = e.name /\ d.usr2 = "sent"
        BY <4>1 DEF ProcType
      <4> QED
        BY <4>2, <4>3
    <3>2. CASE e.usr2 # "no"
      <4>1. PICK d \in ProcType : d = [e EXCEPT !.more = TRUE]
        BY DEF ProcType
      <4>2. SignalTaken(p) = d
        BY <1>1, <3>2, <4>1 DEF SignalTaken
      <4>3. d.st = e.st /\ d.name = e.name /\ d.usr2 = e.usr2 /\ d.work = e.work
        BY <4>1 DEF ProcType
      <4> QED
        BY <4>2, <4>3
    <3> QED
      BY <3>1, <3>2
  <2>2. Becomes(p, d)
    BY <1>1, <1>3, <2>1, Zenon DEF Becomes, Signalled
  <2>3. /\ ProcTyped' /\ proc'[p] = d /\ \A q \in Pids : q # p => proc'[q] = proc[q]
        /\ \A q \in Pids : proc'[q].st = proc[q].st /\ proc'[q].name = proc[q].name
    BY <1>1, <1>3, <2>1, <2>2, BecomesFacts
  <2> QED
    BY <1>1, <1>3, <2>1, <2>3
<1>4. CASE e.st = "up" /\ ~e.ready
  <2>1. proc' = [proc EXCEPT ![p] = Died(p)] /\ proc[p].st = "up" /\ ~proc[p].ready
    BY <1>1, <1>4, Zenon DEF Signalled
  <2>2. /\ ProcTyped' /\ \A q \in Pids : q # p => proc'[q] = proc[q]
        /\ proc'[p].st = "gone" /\ proc'[p].name = proc[p].name /\ proc'[p].usr2 = "no"
    BY <2>1, DiesFacts
  <2> QED
    BY <2>1, <2>2
<1> QED
  BY <1>2, <1>3, <1>4

\* The two ways of restartProc; a signal that comes too early is "unready".
InPlaceFacts(o) ==
  /\ Alone(o) /\ SameCopy(o) /\ inv'[o].pid = inv[o].pid /\ inv'[o].gen = inv[o].gen
  /\ inv'[o].pc = "restart" /\ inv'[o].procs \subseteq inv[o].procs
  /\ ProcTyped' /\ why' \in [Names -> SUBSET Causes]
  /\ \A m \in Names : why[m] \subseteq why'[m] /\ ("again" \in why'[m] => "again" \in why[m])
  /\ \A q \in Pids : /\ proc'[q].name = proc[q].name
                     /\ proc'[q].st = "none" <=> proc[q].st = "none"
                     /\ proc'[q].st = "up" => proc[q].st = "up"
                     /\ proc[q].st = "up" => proc'[q].st = "up" \/ "unready" \in why'[proc[q].name]
                     /\ \/ proc'[q].usr2 \notin {"late", "idle"}
                        \/ proc'[q].usr2 = proc[q].usr2 /\ proc'[q].work = proc[q].work
HandsOver(o, h) ==
  /\ At(h, "none") /\ h # o /\ inv' \in [Invs -> InvType]
  /\ \A q \in Invs : q # o /\ q # h => inv'[q] = inv[q]
  /\ inv'[o].pc = "restart"
  /\ inv'[o].kind = inv[o].kind /\ inv'[o].name = inv[o].name /\ SameCopy(o)
  /\ inv'[o].pid = inv[o].pid /\ inv'[o].gen = inv[o].gen /\ inv'[o].procs \subseteq inv[o].procs
  /\ inv'[h].pc = "kill" /\ inv'[h].kind = inv[h].kind /\ inv'[h].pid \in inv[o].procs
  /\ inv'[h].name = proc[inv'[h].pid].name /\ inv'[h].procs = inv[h].procs
  /\ UNCHANGED <<proc, why>>

LEMMA RestartsFacts ==
  ASSUME TypeOK, NEW o \in Invs, Restarts(o)
  PROVE  /\ At(o, "restart") /\ UNCHANGED <<scn, ino, file, pidf, cut>>
         /\ \/ /\ Alone(o) /\ SamePid(o) /\ SameCopy(o) /\ inv'[o].pc = "done"
               /\ UNCHANGED <<proc, why>>
            \/ InPlaceFacts(o)
            \/ \E h \in Helpers : HandsOver(o, h)
<1>1. /\ inv \in [Invs -> InvType] /\ At(o, "restart") /\ UNCHANGED <<scn, ino, file, pidf, cut>>
  BY DEF TypeOK, Restarts, disk
<1>2. CASE inv[o].procs = {}
  BY <1>1, <1>2, GotoFacts DEF Restarts, Pcs
<1>3. CASE inv[o].procs # {}
  <2>1. PICK p \in inv[o].procs :
          LET left == [inv EXCEPT ![o].procs = @ \ {p}]  n == proc[p].name
          IN  IF scn.method = "reexec"
              THEN /\ proc' = [proc EXCEPT ![p] = Signalled(p)]
                   /\ inv' = left
                   /\ IF proc[p].st = "up" /\ ~proc[p].ready THEN Blame(n, "unready") ELSE UNCHANGED why
              ELSE \E h \in Helpers :
                   /\ At(h, "none")
                   /\ inv' = [left EXCEPT ![h] = [@ EXCEPT !.pc = "kill", !.pid = p, !.name = n]]
                   /\ UNCHANGED <<proc, why>>
    BY <1>1, <1>3 DEF Restarts
  <2>2. p \in Pids /\ proc[p].name \in Names /\ inv[o].procs \ {p} \in SUBSET Pids
    BY <1>1 DEF TypeOK, InvType, ProcType
  <2>0. PICK left : left = [inv EXCEPT ![o].procs = @ \ {p}]
    OBVIOUS
  <2>3. /\ left \in [Invs -> InvType] /\ \A q \in Invs : q # o => left[q] = inv[q]
        /\ left[o].kind = inv[o].kind /\ left[o].name = inv[o].name
        /\ left[o].procs = inv[o].procs \ {p} /\ left[o].gen = inv[o].gen
        /\ left[o].from = inv[o].from /\ left[o].to = inv[o].to
        /\ left[o].pid = inv[o].pid /\ left[o].pc = inv[o].pc
    BY <1>1, <2>0, <2>2 DEF InvType
  <2>4. CASE scn.method = "reexec"
    <3>1. /\ proc' = [proc EXCEPT ![p] = Signalled(p)] /\ inv' = left
          /\ IF proc[p].st = "up" /\ ~proc[p].ready THEN Blame(proc[p].name, "unready") ELSE UNCHANGED why
      BY <2>0, <2>1, <2>4
    <3>2. /\ ProcTyped' /\ \A q \in Pids : q # p => proc'[q] = proc[q]
          /\ \A q \in Pids : /\ proc'[q].name = proc[q].name
                             /\ proc'[q].st = "none" <=> proc[q].st = "none"
                             /\ proc'[q].st = "up" => proc[q].st = "up"
          /\ proc[p].st = "up" /\ proc[p].ready => proc'[p].st = "up"
          /\ \/ proc'[p].usr2 \notin {"late", "idle"}
             \/ proc'[p].usr2 = proc[p].usr2 /\ proc'[p].work = proc[p].work
      BY <2>2, <3>1, SignalledFacts
    <3>3. PICK n \in Names : n = proc[p].name
      BY <2>2
    <3>4. /\ why' \in [Names -> SUBSET Causes]
          /\ \A m \in Names : why[m] \subseteq why'[m] /\ ("again" \in why'[m] => "again" \in why[m])
          /\ proc[p].st = "up" /\ ~proc[p].ready => "unready" \in why'[n]
      BY <3>1, <3>3, BlameFacts DEF Causes, TypeOK
    <3>5. Alone(o) /\ SameCopy(o) /\ inv'[o].pc = "restart"
      BY <1>1, <2>3, <3>1 DEF Alone, SameCopy, At
    <3> QED
      BY <1>1, <2>2, <2>3, <3>1, <3>2, <3>3, <3>4, <3>5 DEF InPlaceFacts
  <2>5. CASE scn.method # "reexec"
    <3>1. PICK h \in Helpers :
            /\ At(h, "none")
            /\ inv' = [left EXCEPT ![h] = [left[h] EXCEPT !.pc = "kill", !.pid = p, !.name = proc[p].name]]
            /\ UNCHANGED <<proc, why>>
      BY <2>0, <2>1, <2>5 DEF Invs
    <3>2. h # o /\ h \in Invs /\ left[h] = inv[h]
      BY <1>1, <2>3, <3>1 DEF At, Invs
    <3>3. PICK n \in Names : n = proc[p].name
      BY <2>2
    <3>4. PICK e \in InvType : e = inv[h]
      BY <1>1, <3>2
    <3>5. "kill" \in Pcs
      BY DEF Pcs
    <3>6. PICK d \in InvType : d = [e EXCEPT !.pc = "kill", !.pid = p, !.name = n]
      BY <2>2, <3>5 DEF InvType
    <3>7. /\ d.pc = "kill" /\ d.pid = p /\ d.name = n /\ d.kind = e.kind
          /\ d.procs = e.procs
      BY <3>6 DEF InvType
    <3>8. inv' = [left EXCEPT ![h] = d]
      BY <3>1, <3>2, <3>3, <3>4, <3>6
    <3>9. /\ inv' \in [Invs -> InvType] /\ inv'[h] = d
          /\ \A q \in Invs : q # h => inv'[q] = left[q]
      BY <2>3, <3>2, <3>8
    <3>10. HandsOver(o, h)
      BY <1>1, <2>2, <2>3, <3>1, <3>2, <3>3, <3>4, <3>7, <3>9 DEF HandsOver, SameCopy, At
    <3> QED
      BY <1>1, <3>10
  <2> QED
    BY <2>4, <2>5
<1> QED
  BY <1>2, <1>3

LEMMA HelperStopsFacts ==
  ASSUME TypeOK, NEW o \in Invs, HelperStops(o)
  PROVE  /\ Alone(o) /\ SamePid(o) /\ SameCopy(o) /\ At(o, "kill") /\ inv'[o].pc = "start"
         /\ Killed(inv[o].pid) /\ UNCHANGED <<scn, ino, file, pidf, cut>>
         /\ why' \in [Names -> SUBSET Causes] /\ "moved" \in why'[inv[o].name]
         /\ \A m \in Names : why[m] \subseteq why'[m] /\ ("again" \in why'[m] => "again" \in why[m])
<1>1. /\ At(o, "kill") /\ Goto(o, "start") /\ "start" \in Pcs /\ Killed(inv[o].pid)
      /\ UNCHANGED <<scn, ino, file, pidf, cut>>
  BY DEF HelperStops, Pcs, disk, Killed
<1>2. PICK n \in Names : n = inv[o].name /\ Blame(n, "moved")
  BY DEF TypeOK, InvType, HelperStops
<1>3. /\ why' \in [Names -> SUBSET Causes] /\ "moved" \in why'[n]
      /\ \A m \in Names : why[m] \subseteq why'[m] /\ ("again" \in why'[m] => "again" \in why[m])
  BY <1>2, BlameFacts DEF Causes
<1> QED
  BY <1>1, <1>2, <1>3, GotoFacts

LEMMA HelperStartsFacts ==
  ASSUME TypeOK, NEW o \in Invs, HelperStarts(o)
  PROVE  /\ Alone(o) /\ SameCopy(o) /\ inv[o].pc \in {"start", "start_again"}
         /\ inv'[o].procs = inv[o].procs /\ inv'[o].gen = inv[o].gen
         /\ UNCHANGED <<scn, ino, file, pidf, cut>> /\ why' \in [Names -> SUBSET Causes]
         /\ \A m \in Names : why[m] \subseteq why'[m] /\ why'[m] \subseteq why[m] \cup {"failed"}
         /\ \/ inv'[o].pc \in {"done", "rescue"} /\ SamePid(o) /\ UNCHANGED proc
            \/ /\ inv'[o].pc \in {"confirm", "confirm_again"} /\ proc[inv'[o].pid].st = "none" /\ ProcTyped'
               /\ proc'[inv'[o].pid].st = "up" /\ proc'[inv'[o].pid].name = inv[o].name
               /\ proc'[inv'[o].pid].usr2 = "no"
               /\ \A q \in Pids : q # inv'[o].pid => proc'[q] = proc[q]
<1>1. /\ inv \in [Invs -> InvType] /\ inv[o].name \in Names
      /\ inv[o].pc \in {"start", "start_again"} /\ UNCHANGED <<scn, ino, file, pidf, cut>>
      /\ why \in [Names -> SUBSET Causes]
  BY DEF TypeOK, InvType, HelperStarts, disk, At
<1>2. PICK n \in Names : n = inv[o].name
  BY <1>1
<1> DEFINE Born ==
             \E p \in Pids, pc \in {"confirm", "confirm_again"} :
               /\ Free(p) /\ proc' = [proc EXCEPT ![p] = Newborn(n, Content("exe"))]
               /\ inv' = [inv EXCEPT ![o].pid = p, ![o].pc = pc]
           Unborn ==
             /\ \E pc \in {"done", "rescue"} : Goto(o, pc) /\ UNCHANGED proc
             /\ why' = why \/ Blame(n, "failed")
<1>5. (Content("exe") \in {"v1", "v2"} /\ why' = why /\ Born) \/ Unborn
  BY <1>2 DEF HelperStarts
<1>3. CASE Content("exe") \in {"v1", "v2"} /\ why' = why /\ Born
  <2>1. PICK p \in Pids, pc \in {"confirm", "confirm_again"} :
          /\ Free(p) /\ proc' = [proc EXCEPT ![p] = Newborn(n, Content("exe"))]
          /\ inv' = [inv EXCEPT ![o].pid = p, ![o].pc = pc]
    BY <1>3
  <2>2. PICK v \in {"v1", "v2"} : v = Content("exe")
    BY <1>3
  <2>3. /\ ProcTyped' /\ \A q \in Pids : q # p => proc'[q] = proc[q]
        /\ proc'[p].st = "up" /\ proc'[p].name = n /\ proc'[p].usr2 = "no"
    BY <2>1, <2>2, BornFacts
  <2>4. pc \in Pcs /\ proc[p].st = "none"
    BY <2>1 DEF Pcs, Free
  <2>5. /\ inv' \in [Invs -> InvType] /\ \A q \in Invs : q # o => inv'[q] = inv[q]
        /\ inv'[o].kind = inv[o].kind /\ inv'[o].name = inv[o].name
        /\ inv'[o].procs = inv[o].procs /\ inv'[o].gen = inv[o].gen
        /\ inv'[o].from = inv[o].from /\ inv'[o].to = inv[o].to
        /\ inv'[o].pid = p /\ inv'[o].pc = pc
    BY <1>1, <2>1, <2>4 DEF InvType
  <2>7. Alone(o) /\ SameCopy(o)
    BY <2>5 DEF Alone, SameCopy
  <2> QED
    BY <1>1, <1>2, <1>3, <2>1, <2>3, <2>4, <2>5, <2>7
<1>4. CASE Unborn
  <2>1. PICK pc \in {"done", "rescue"} : Goto(o, pc) /\ UNCHANGED proc
    BY <1>4
  <2>2. pc \in Pcs
    BY <2>1 DEF Pcs
  <2>3. /\ why' \in [Names -> SUBSET Causes]
        /\ \A m \in Names : why[m] \subseteq why'[m] /\ why'[m] \subseteq why[m] \cup {"failed"}
    BY <1>1, <1>4 DEF Blame, Causes
  <2> QED
    BY <1>1, <2>1, <2>2, <2>3, GotoFacts DEF SamePid
<1> QED
  BY <1>3, <1>4, <1>5

LEMMA HelperConfirmsFacts ==
  ASSUME TypeOK, NEW o \in Invs, HelperConfirms(o)
  PROVE  /\ Alone(o) /\ SamePid(o) /\ SameCopy(o) /\ inv[o].pc \in {"confirm", "confirm_again"}
         /\ UNCHANGED <<scn, ino, file, pidf, cut, why>>
         /\ inv'[o].pc \in {"done", "rescue"} /\ (proc' = proc \/ Killed(inv[o].pid))
<1>1. /\ inv[o].pc \in {"confirm", "confirm_again"} /\ UNCHANGED <<scn, ino, file, pidf, cut, why>>
      /\ proc' = proc \/ Killed(inv[o].pid)
      /\ Goto(o, "done") \/ Goto(o, "rescue")
  BY DEF HelperConfirms, At, disk, Killed
<1>2. "done" \in Pcs /\ "rescue" \in Pcs
  BY DEF Pcs
<1> QED
  BY <1>1, <1>2, GotoFacts

LEMMA HelperRescuesFacts ==
  ASSUME TypeOK, NEW o \in Invs, HelperRescues(o)
  PROVE  /\ Alone(o) /\ SamePid(o) /\ SameCopy(o) /\ At(o, "rescue")
         /\ UNCHANGED <<scn, proc, ino, pidf, cut>>
         /\ why' \in [Names -> SUBSET Causes]
         /\ \A m \in Names : why[m] \subseteq why'[m] /\ ("again" \in why'[m] => "again" \in why[m])
         /\ \/ file.bak = 0 /\ inv'[o].pc = "done" /\ UNCHANGED <<file, why>>
            \/ /\ file.bak # 0 /\ inv'[o].pc = "copy" /\ file' = [file EXCEPT !.exe = 0]
               /\ \A m \in Names : "rolled" \in why'[m]
<1>1. /\ At(o, "rescue") /\ UNCHANGED <<scn, proc, ino, pidf, cut>>
      /\ why \in [Names -> SUBSET Causes] /\ "done" \in Pcs /\ "copy" \in Pcs
  BY DEF HelperRescues, Pcs, TypeOK
<1>2. \/ file.bak = 0 /\ Goto(o, "done") /\ UNCHANGED <<file, why>>
      \/ /\ file.bak # 0 /\ Goto(o, "copy") /\ file' = [file EXCEPT !.exe = 0]
         /\ \E c \in {{"rolled"}, {"rolled", "crowd"}} : why' = [n \in Names |-> why[n] \cup c]
  BY DEF HelperRescues
<1>3. /\ why' \in [Names -> SUBSET Causes]
      /\ \A m \in Names : why[m] \subseteq why'[m] /\ ("again" \in why'[m] => "again" \in why[m])
      /\ file.bak # 0 => \A m \in Names : "rolled" \in why'[m]
  BY <1>1, <1>2 DEF Causes
<1> QED
  BY <1>1, <1>2, <1>3, GotoFacts

---------------------------------------------------------------------------
(***************************************************************************)
(* Types, roles and waitIdle.                                              *)
(***************************************************************************)
LEMMA TypeStep ==
  ASSUME TypeOK, scn' = scn, inv' \in [Invs -> InvType], ProcTyped' \/ proc' = proc,
         ino' \in [Inodes -> Contents \cup {"none"}], file' \in [Files -> {0} \cup Inodes],
         pidf' \in [Names -> [val : 0 .. Empty, gen : Nat]], cut' \subseteq Work,
         why' \in [Names -> SUBSET Causes]
  PROVE  TypeOK'
BY DEF TypeOK, ProcTyped, Files

\* A step of one invocation leaves it where its kind may be.
LEMMA RolesStep ==
  ASSUME Roles, NEW o \in Invs, Alone(o),
         o \in Helpers => inv'[o].pc \in HelperPcs,
         o \in Ops => inv'[o].pc \in OpPcs /\ (inv'[o].pc = "sweep" => inv'[o].then # "none")
  PROVE  Roles'
BY DEF Roles, Alone, Invs, At

LEMMA PatientStep ==
  ASSUME WorkInv, scn' = scn, cut' = cut,
         \A p \in Pids : \/ proc'[p].usr2 \notin {"late", "idle"}
                         \/ proc'[p].usr2 = proc[p].usr2 /\ proc'[p].work = proc[p].work
  PROVE  WorkInv'
<1>1. SignalledWorkFinishes'
  BY Zenon DEF WorkInv, SignalledWorkFinishes
<1>2. ASSUME NEW p \in Pids PROVE Patient(proc[p])'
  <2>1. /\ Patient(proc[p])
        /\ \/ proc'[p].usr2 \notin {"late", "idle"}
           \/ proc'[p].usr2 = proc[p].usr2 /\ proc'[p].work = proc[p].work
    BY DEF WorkInv
  <2> QED
    BY <2>1, Zenon DEF Patient
<1> QED
  BY <1>1, <1>2 DEF WorkInv

\* Where a command is, a helper is not.
LEMMA RoleFacts ==
  ASSUME Roles, NEW o \in Invs
  PROVE  /\ inv[o].pc \in OpPcs \ HelperPcs => o \in Ops
         /\ inv[o].pc \in HelperPcs \ OpPcs => o \in Helpers
         /\ inv[o].kind # "helper" => o \in Ops
         /\ o \in Ops <=> o \notin Helpers
BY HostAssumption DEF Roles, Invs

LEMMA RunsTypes ==
  ASSUME TypeOK, Roles, WorkInv, NEW o \in Invs, Runs(o)
  PROVE  TypeOK' /\ Roles' /\ WorkInv'
<1>1. /\ inv \in [Invs -> InvType] /\ proc \in [Pids -> ProcType] /\ cut \subseteq Work
      /\ ino \in [Inodes -> Contents \cup {"none"}] /\ file \in [Files -> {0} \cup Inodes]
      /\ pidf \in [Names -> [val : 0 .. Empty, gen : Nat]] /\ why \in [Names -> SUBSET Causes]
      /\ inv[o].name \in Names /\ inv[o].pid \in Pids
  BY DEF TypeOK, Files, InvType
<1>2. /\ o \in Ops => o \notin Helpers /\ inv[o].pc \in OpPcs /\ (At(o, "sweep") => inv[o].then # "none")
      /\ o \in Helpers => inv[o].pc \in HelperPcs /\ inv[o].kind = "helper"
  BY HostAssumption DEF Roles
<1>3. CASE Probes(o)
  <2>1. /\ Alone(o) /\ inv[o].pc \in {"probe", "wait"}
        /\ inv'[o].pc \in {"done", "term", "wait", "remove", "sweep", "spawn"}
        /\ inv'[o].pc = "sweep" => inv'[o].then # "none"
        /\ UNCHANGED <<scn, proc, ino, file, pidf, cut, why>>
    BY <1>3, ProbesFacts
  <2>2. TypeOK'
    BY <1>1, <2>1, TypeStep DEF Alone
  <2>3. Roles'
    BY <1>2, <2>1, RolesStep DEF HelperPcs, OpPcs
  <2> QED
    BY <2>1, <2>2, <2>3, PatientStep
<1>4. CASE Sweeps(o) \/ Unlinks(o)
  <2>1. /\ Alone(o) /\ inv[o].pc \in {"sweep", "remove"} /\ Removes(o)
        /\ inv'[o].pc = IF At(o, "sweep") THEN inv[o].then ELSE "done"
        /\ UNCHANGED <<scn, proc, ino, file, cut>>
    BY <1>4, SweepsFacts
  <2>2. pidf' \in [Names -> [val : 0 .. Empty, gen : Nat]] /\ why' \in [Names -> SUBSET Causes]
    BY <1>1, <2>1, RemovesFacts
  <2>3. TypeOK'
    BY <1>1, <2>1, <2>2, TypeStep DEF Alone
  <2>4. inv[o].then \in {"none", "spawn", "remove", "done"}
    BY <1>1 DEF InvType
  <2>5. Roles'
    BY <1>2, <2>1, <2>4, RolesStep DEF HelperPcs, OpPcs
  <2> QED
    BY <2>1, <2>3, <2>5, PatientStep
<1>5. CASE Spawns(o)
  <2>1. /\ Alone(o) /\ At(o, "spawn") /\ UNCHANGED <<scn, ino, file, pidf, cut>>
        /\ why' \in [Names -> SUBSET Causes] /\ inv'[o].pc \in {"done", "truncate"}
        /\ ProcTyped' \/ proc' = proc
        /\ \A p \in Pids : proc'[p] = proc[p] \/ proc'[p].usr2 = "no"
    BY <1>5, SpawnsFacts
  <2>2. TypeOK'
    BY <1>1, <2>1, TypeStep DEF Alone
  <2>3. Roles'
    BY <1>2, <2>1, RolesStep DEF HelperPcs, OpPcs, At
  <2> QED
    BY <2>1, <2>2, <2>3, PatientStep
<1>6. CASE Truncates(o) \/ Writes(o)
  <2>1. /\ Alone(o) /\ inv[o].pc \in {"truncate", "write"} /\ inv'[o].pc \in {"write", "done"}
        /\ pidf' \in [Names -> [val : 0 .. Empty, gen : Nat]]
        /\ UNCHANGED <<scn, proc, ino, file, cut, why>>
    BY <1>6, TruncatesFacts, WritesFacts DEF At
  <2>2. TypeOK'
    BY <1>1, <2>1, TypeStep DEF Alone
  <2>3. Roles'
    BY <1>2, <2>1, RolesStep DEF HelperPcs, OpPcs
  <2> QED
    BY <2>1, <2>2, <2>3, PatientStep
<1>7. CASE Terminates(o)
  <2>1. /\ Alone(o) /\ At(o, "term") /\ inv'[o].pc \in {"wait", "remove"}
        /\ UNCHANGED <<scn, ino, file, pidf, cut, why>> /\ ProcTyped'
        /\ \A p \in Pids : proc'[p] = proc[p] \/ proc'[p].usr2 = "no"
    BY <1>1, <1>7, TerminatesFacts, KilledFacts
  <2>2. TypeOK'
    BY <1>1, <2>1, TypeStep DEF Alone
  <2>3. Roles'
    BY <1>2, <2>1, RolesStep DEF HelperPcs, OpPcs, At
  <2> QED
    BY <2>1, <2>2, <2>3, PatientStep
<1>8. CASE GivesUpWaiting(o) \/ Downloads(o)
  <2>1. PICK pc \in {"remove", "copy", "done"} :
          Goto(o, pc) /\ inv[o].pc \in {"wait", "download"} /\ UNCHANGED <<scn, proc, ino, file, pidf, cut, why>>
    BY <1>8 DEF GivesUpWaiting, Downloads, At, disk
  <2>2. Alone(o) /\ inv'[o].pc = pc
    BY <2>1, GotoFacts DEF Pcs
  <2>3. TypeOK'
    BY <1>1, <2>1, <2>2, TypeStep DEF Alone
  <2>4. Roles'
    BY <1>2, <2>1, <2>2, RolesStep DEF HelperPcs, OpPcs
  <2> QED
    BY <2>1, <2>3, <2>4, PatientStep
<1>9. CASE CopyOpens(o)
  <2>1. /\ Alone(o) /\ At(o, "copy") /\ inv'[o].pc \in {"copying", "done"}
        /\ UNCHANGED <<scn, proc, pidf, cut>> /\ why' \in [Names -> SUBSET Causes]
        /\ ino' \in [Inodes -> Contents \cup {"none"}] /\ file' \in [Files -> {0} \cup Inodes]
    BY <1>1, <1>9, CopyOpensFacts, CopyOfFacts DEF Contents
  <2>2. TypeOK'
    BY <1>1, <2>1, TypeStep DEF Alone
  <2>3. Roles'
    BY <1>2, <2>1, RolesStep DEF HelperPcs, OpPcs
  <2> QED
    BY <2>1, <2>2, <2>3, PatientStep
<1>10. CASE CopyWrites(o)
  <2>1. /\ Alone(o) /\ At(o, "copying") /\ inv'[o].pc = "copied"
        /\ UNCHANGED <<scn, proc, file, pidf, cut, why>>
        /\ ino' \in [Inodes -> Contents \cup {"none"}]
    BY <1>1, <1>10, CopyWritesFacts DEF Contents
  <2>2. TypeOK'
    BY <1>1, <2>1, TypeStep DEF Alone
  <2>3. Roles'
    BY <1>2, <2>1, RolesStep DEF HelperPcs, OpPcs
  <2> QED
    BY <2>1, <2>2, <2>3, PatientStep
<1>11. CASE CopyRenames(o)
  <2>1. /\ Alone(o) /\ At(o, "copied") /\ inv'[o].pc \in {After(o), "done"}
        /\ UNCHANGED <<scn, proc, ino, pidf, cut, why>>
        /\ file' \in [Files -> {0} \cup Inodes]
    BY <1>1, <1>11, CopyRenamesFacts, CopyOfFacts
  <2>2. TypeOK'
    BY <1>1, <2>1, TypeStep DEF Alone
  <2>3. Roles'
    BY <1>2, <2>1, RolesStep DEF HelperPcs, OpPcs, After
  <2> QED
    BY <2>1, <2>2, <2>3, PatientStep
<1>12. CASE Updates(o)
  <2>1. /\ Alone(o) /\ At(o, "look") /\ inv'[o].pc \in {"done", "download", "restart"}
        /\ inv[o].kind # "helper" /\ UNCHANGED <<scn, proc, ino, file, pidf, cut, why>>
    BY <1>12, UpdatesFacts
  <2>2. TypeOK'
    BY <1>1, <2>1, TypeStep DEF Alone
  <2>3. Roles'
    BY <1>2, <2>1, RolesStep DEF HelperPcs, OpPcs
  <2> QED
    BY <2>1, <2>2, <2>3, PatientStep
<1>13. CASE Swaps(o)
  <2>1. /\ Alone(o) /\ At(o, "swap") /\ inv'[o].pc \in {"restart", "done"}
        /\ UNCHANGED <<scn, proc, pidf, cut, why>>
        /\ ino' \in [Inodes -> Contents \cup {"none"}] /\ file' \in [Files -> {0} \cup Inodes]
    BY <1>1, <1>13, SwapsFacts DEF Contents
  <2>2. TypeOK'
    BY <1>1, <2>1, TypeStep DEF Alone
  <2>3. Roles'
    BY <1>2, <2>1, RolesStep DEF HelperPcs, OpPcs, At
  <2> QED
    BY <2>1, <2>2, <2>3, PatientStep
<1>14. CASE Restarts(o)
  <2>1. At(o, "restart") /\ UNCHANGED <<scn, ino, file, pidf, cut>>
    BY <1>14, RestartsFacts
  <2>2. CASE Alone(o) /\ inv'[o].pc = "done" /\ UNCHANGED <<proc, why>>
    <3>1. TypeOK'
      BY <1>1, <2>1, <2>2, TypeStep DEF Alone
    <3>2. Roles'
      BY <1>2, <2>1, <2>2, RolesStep DEF HelperPcs, OpPcs, At
    <3> QED
      BY <2>1, <2>2, <3>1, <3>2, PatientStep
  <2>3. CASE InPlaceFacts(o)
    <3>1. TypeOK'
      BY <1>1, <2>1, <2>3, TypeStep DEF Alone, InPlaceFacts
    <3>2. Roles'
      BY <1>2, <2>1, <2>3, RolesStep DEF HelperPcs, OpPcs, At, InPlaceFacts
    <3> QED
      BY <2>1, <2>3, <3>1, <3>2, PatientStep DEF InPlaceFacts
  <2>4. ASSUME NEW h \in Helpers, HandsOver(o, h) PROVE TypeOK' /\ Roles' /\ WorkInv'
    <3>1. TypeOK'
      BY <1>1, <2>1, <2>4, TypeStep DEF HandsOver
    <3>2. o \in Ops /\ h \in Invs /\ h \notin Ops
      BY <1>2, <2>1, HostAssumption DEF Invs, HelperPcs, At
    <3>3. Roles'
      BY <2>1, <2>4, <3>2 DEF Roles, HandsOver, HelperPcs, OpPcs, Invs, At
    <3> QED
      BY <2>1, <2>4, <3>1, <3>3, PatientStep DEF HandsOver
  <2> QED
    BY <1>14, <2>2, <2>3, <2>4, RestartsFacts
<1>15. CASE HelperStops(o)
  <2>1. /\ Alone(o) /\ At(o, "kill") /\ inv'[o].pc = "start"
        /\ UNCHANGED <<scn, ino, file, pidf, cut>> /\ ProcTyped' /\ why' \in [Names -> SUBSET Causes]
        /\ \A p \in Pids : proc'[p] = proc[p] \/ proc'[p].usr2 = "no"
    BY <1>1, <1>15, HelperStopsFacts, KilledFacts
  <2>2. TypeOK'
    BY <1>1, <2>1, TypeStep DEF Alone
  <2>3. Roles'
    BY <1>2, <2>1, RolesStep DEF HelperPcs, OpPcs, At
  <2> QED
    BY <2>1, <2>2, <2>3, PatientStep
<1>16. CASE HelperStarts(o)
  <2>1. /\ Alone(o) /\ inv[o].pc \in {"start", "start_again"}
        /\ inv'[o].pc \in {"done", "rescue", "confirm", "confirm_again"}
        /\ UNCHANGED <<scn, ino, file, pidf, cut>> /\ (ProcTyped' \/ proc' = proc)
        /\ why' \in [Names -> SUBSET Causes]
        /\ \A p \in Pids : proc'[p] = proc[p] \/ proc'[p].usr2 = "no"
    BY <1>16, HelperStartsFacts
  <2>2. TypeOK'
    BY <1>1, <2>1, TypeStep DEF Alone
  <2>3. Roles'
    BY <1>2, <2>1, RolesStep DEF HelperPcs, OpPcs
  <2> QED
    BY <2>1, <2>2, <2>3, PatientStep
<1>17. CASE HelperConfirms(o)
  <2>1. /\ Alone(o) /\ inv[o].pc \in {"confirm", "confirm_again"} /\ inv'[o].pc \in {"done", "rescue"}
        /\ UNCHANGED <<scn, ino, file, pidf, cut, why>> /\ (ProcTyped' \/ proc' = proc)
        /\ \A p \in Pids : proc'[p] = proc[p] \/ proc'[p].usr2 = "no"
    BY <1>1, <1>17, HelperConfirmsFacts, KilledFacts
  <2>2. TypeOK'
    BY <1>1, <2>1, TypeStep DEF Alone
  <2>3. Roles'
    BY <1>2, <2>1, RolesStep DEF HelperPcs, OpPcs
  <2> QED
    BY <2>1, <2>2, <2>3, PatientStep
<1>18. CASE HelperRescues(o)
  <2>1. /\ Alone(o) /\ At(o, "rescue") /\ inv'[o].pc \in {"done", "copy"}
        /\ UNCHANGED <<scn, proc, ino, pidf, cut>> /\ why' \in [Names -> SUBSET Causes]
        /\ file' \in [Files -> {0} \cup Inodes]
    BY <1>1, <1>18, HelperRescuesFacts
  <2>2. TypeOK'
    BY <1>1, <2>1, TypeStep DEF Alone
  <2>3. Roles'
    BY <1>2, <2>1, RolesStep DEF HelperPcs, OpPcs, At
  <2> QED
    BY <2>1, <2>2, <2>3, PatientStep
<1>19. CASE WriteFails(o)
  <2>1. /\ Alone(o) /\ inv[o].pc \in {"truncate", "write"} /\ inv'[o].pc = "done"
        /\ UNCHANGED <<scn, ino, file, pidf, cut, why>> /\ ProcTyped'
        /\ \A p \in Pids : proc'[p] = proc[p] \/ proc'[p].usr2 = "no"
    BY <1>1, <1>19, WriteFailsFacts, KilledFacts
  <2>2. TypeOK'
    BY <1>1, <2>1, TypeStep DEF Alone
  <2>3. Roles'
    BY <1>2, <2>1, RolesStep DEF HelperPcs, OpPcs
  <2> QED
    BY <2>1, <2>2, <2>3, PatientStep
<1>20. CASE CopyFails(o)
  <2>1. /\ Alone(o) /\ inv'[o].pc = "done"
        /\ UNCHANGED <<scn, proc, pidf, cut>> /\ why' \in [Names -> SUBSET Causes]
    BY <1>20, CopyFailsFacts
  <2>2. file' \in [Files -> {0} \cup Inodes] /\ ino' \in [Inodes -> Contents \cup {"none"}]
    BY <1>1, <1>20, CopyFailsFacts DEF Contents
  <2>3. TypeOK'
    BY <1>1, <2>1, <2>2, TypeStep DEF Alone
  <2>4. Roles'
    BY <1>2, <2>1, RolesStep DEF HelperPcs, OpPcs
  <2> QED
    BY <2>1, <2>3, <2>4, PatientStep
<1> QED
  BY <1>3, <1>4, <1>5, <1>6, <1>7, <1>8, <1>9, <1>10, <1>11, <1>12, <1>13, <1>14, <1>15, <1>16, <1>17, <1>18,
     <1>19, <1>20 DEF Runs

---------------------------------------------------------------------------
(***************************************************************************)
(* The binary.                                                             *)
(***************************************************************************)
\* Steps outside of copyFile, renames and rollbacks.
LEMMA ExeFrame ==
  ASSUME ExeInv, ino' = ino, file' = file,
         \A m \in Names : why[m] \subseteq why'[m],
         \A q \in Invs : InCopy(q) \/ InCopy(q)' =>
           inv'[q].pc = inv[q].pc /\ inv'[q].from = inv[q].from /\ inv'[q].to = inv[q].to,
         \A h \in Helpers : inv'[h].pc = "copy" <=> inv[h].pc = "copy"
  PROVE  ExeInv'
<1>1. Spoilt => Spoilt'
  BY DEF Spoilt, Again, Failed
<1>2. ASSUME BeforeBak PROVE BeforeBak'
  BY <1>2 DEF BeforeBak, InCopy, At, Good, Invs
<1>3. ASSUME AfterBak PROVE AfterBak'
  <2>1. \A i : Completed(i) => Completed(i)'
    BY DEF Completed, Good, At, InCopy, Invs
  <2>2. /\ \A q \in Invs : InCopy(q) <=> InCopy(q)'
        /\ \A h \in Helpers : At(h, "copying") <=> At(h, "copying")'
        /\ \A h \in Helpers : At(h, "copy") <=> At(h, "copy")'
        /\ \A h \in Helpers : At(h, "copying") => inv'[h].from = inv[h].from /\ inv'[h].to = inv[h].to
    BY DEF InCopy, At, Invs
  <2> QED
    BY <1>3, <2>1, <2>2 DEF AfterBak, Good, Invs
<1> QED
  BY <1>1, <1>2, <1>3 DEF ExeInv

\* A step of one invocation outside of copyFile, of renames and of rollbacks.
LEMMA ExeAlone ==
  ASSUME ExeInv, NEW o \in Invs, Alone(o), ino' = ino, file' = file,
         \A m \in Names : why[m] \subseteq why'[m],
         ~InCopy(o), ~InCopy(o)', o \in Helpers => inv[o].pc # "copy" /\ inv'[o].pc # "copy"
  PROVE  ExeInv'
<1>1. \A q \in Invs : InCopy(q) \/ InCopy(q)' => inv'[q] = inv[q]
  BY DEF Alone
<1>2. \A h \in Helpers : inv'[h].pc = "copy" <=> inv[h].pc = "copy"
  BY DEF Alone, Invs
<1> QED
  BY <1>1, <1>2, ExeFrame

LEMMA ExeOpens ==
  ASSUME TypeOK, Roles, ExeInv, NEW o \in Invs, CopyOpens(o)
  PROVE  ExeInv'
<1>1. /\ file \in [Files -> {0} \cup Inodes] /\ 0 \notin Inodes
      /\ ino \in [Inodes -> Contents \cup {"none"}] /\ inv \in [Invs -> InvType]
      /\ o \in Ops <=> o \notin Helpers
  BY RoleFacts DEF TypeOK, Files, Inodes
<1>2. /\ Alone(o) /\ At(o, "copy") /\ \A m \in Names : why[m] \subseteq why'[m]
      /\ \/ /\ inv'[o].pc = "done" /\ UNCHANGED <<ino, file, why>>
            /\ file[Source(o)] = 0
         \/ /\ inv'[o].pc = "copying" /\ inv'[o].to \in Inodes
            /\ file[Source(o)] # 0 /\ inv'[o].from = file[Source(o)]
            /\ IF file[TmpFile(o)] = 0 THEN Fresh(inv'[o].to) ELSE inv'[o].to = file[TmpFile(o)]
            /\ ino' = [ino EXCEPT ![inv'[o].to] = "part"]
            /\ file' = [file EXCEPT ![TmpFile(o)] = inv'[o].to]
            /\ o \notin Helpers /\ (file.bak # 0 \/ file.baktmp # 0) => \A m \in Names : "again" \in why'[m]
  BY CopyOpensFacts
<1>3. Spoilt => ExeInv'
  BY <1>2 DEF Spoilt, Again, Failed, ExeInv
<1>4. SUFFICES ASSUME ~Spoilt, ~Spoilt' PROVE ExeInv'
  BY <1>3 DEF ExeInv
<1>5. CASE o \in Ops
  <2>1. \/ file.bak = 0 /\ file.baktmp = 0
        \/ inv'[o].pc = "done" /\ UNCHANGED <<ino, file>> /\ file.exe = 0
    BY <1>1, <1>2, <1>4, <1>5, HostAssumption DEF Spoilt, Again, Source
  <2>2. CASE file.exe = 0
    <3>1. file.bak # 0 /\ AfterBak /\ inv'[o].pc = "done" /\ UNCHANGED <<ino, file>>
      BY <1>1, <1>2, <1>4, <1>5, <2>2 DEF ExeInv, BeforeBak, Source
    <3>2. \A q \in Invs : InCopy(q) \/ InCopy(q)' => inv'[q] = inv[q]
      BY <1>2, <3>1 DEF Alone, InCopy, At
    <3>3. \A h \in Helpers : inv'[h] = inv[h]
      BY <1>1, <1>2, <1>5 DEF Alone, Invs
    <3> QED
      BY <1>2, <3>1, <3>2, <3>3, ExeFrame
  <2>3. CASE file.exe # 0
    <3>1. file.bak = 0 /\ file.baktmp = 0 /\ BeforeBak
      BY <1>4, <2>1, <2>3 DEF ExeInv
    <3>2. /\ inv'[o].pc = "copying" /\ inv'[o].from = file.exe /\ inv'[o].to \in Inodes
          /\ Fresh(inv'[o].to) /\ ino' = [ino EXCEPT ![inv'[o].to] = "part"]
          /\ file' = [file EXCEPT !["baktmp"] = inv'[o].to]
      BY <1>1, <1>2, <1>5, <2>3, <3>1 DEF Source, TmpFile
    <3>3. /\ \A q \in Ops : ~InCopy(q)
          /\ \A q \in Invs : q # o => inv'[q] = inv[q]
      BY <1>2, <3>1 DEF BeforeBak, Alone
    <3>4. /\ file'.baktmp = inv'[o].to /\ file'.exe = file.exe /\ file'.bak = 0 /\ file'.exetmp = file.exetmp
      BY <1>1, <3>1, <3>2 DEF Files
    <3>5. /\ file.exe # inv'[o].to /\ ino'[inv'[o].to] = "part" /\ ino'[file.exe] = ino[file.exe]
      BY <1>1, <3>1, <3>2 DEF Fresh, BeforeBak, Good, Files
    <3>6. BeforeBak'
      BY <1>1, <1>5, <3>1, <3>2, <3>3, <3>4, <3>5 DEF BeforeBak, InCopy, At, Good, Invs
    <3> QED
      BY <3>4, <3>6 DEF ExeInv
  <2> QED
    BY <2>2, <2>3
<1>6. CASE o \in Helpers
  <2>1. file.bak # 0 /\ AfterBak
    BY <1>2, <1>4, <1>6 DEF ExeInv, BeforeBak
  <2>2. /\ inv'[o].pc = "copying" /\ inv'[o].from = file.bak /\ inv'[o].to \in Inodes
        /\ IF file.exetmp = 0 THEN Fresh(inv'[o].to) ELSE inv'[o].to = file.exetmp
        /\ ino' = [ino EXCEPT ![inv'[o].to] = "part"]
        /\ file' = [file EXCEPT !["exetmp"] = inv'[o].to]
    BY <1>1, <1>2, <1>6, <2>1 DEF Source, TmpFile
  <2>3. PICK i \in Inodes : i = inv'[o].to
    BY <2>2
  <2>4. /\ file'.baktmp = file.baktmp /\ file'.exe = file.exe /\ file'.bak = file.bak /\ file'.exetmp = i
    BY <1>1, <2>2, <2>3 DEF Files
  <2>5. i # file.bak /\ i # 0 /\ file.bak \in Inodes
    BY <1>1, <2>1, <2>2, <2>3 DEF AfterBak, Good, Fresh, Files
  <2>6. ino'[i] = "part" /\ \A j \in Inodes : j # i => ino'[j] = ino[j]
    BY <1>1, <2>2, <2>3
  <2>7. \A q \in Invs : q # o => inv'[q] = inv[q]
    BY <1>2 DEF Alone
  <2>8. \A j \in Inodes : j = i \/ Completed(j) => Completed(j)'
    <3>1. Completed(i)'
      BY <1>6, <2>2, <2>3 DEF Completed, At
    <3>2. ASSUME NEW j \in Inodes, j # i, Completed(j) PROVE Completed(j)'
      <4>1. CASE Good(ino[j])
        BY <2>6, <3>2, <4>1 DEF Completed, Good
      <4>2. ASSUME NEW h \in Helpers, At(h, "copying"), inv[h].to = j PROVE Completed(j)'
        <5>1. h # o /\ inv'[h] = inv[h]
          BY <1>2, <2>7, <4>2 DEF At, Invs
        <5> QED
          BY <4>2, <5>1 DEF Completed, At
      <4> QED
        BY <3>2, <4>1, <4>2 DEF Completed
    <3> QED
      BY <3>1, <3>2
  <2>9. \A q \in Ops : ~InCopy(q)'
    BY <1>1, <1>6, <2>1, <2>7 DEF AfterBak, InCopy, Invs
  <2>10. \A h \in Helpers : At(h, "copying")' => /\ inv'[h].from = file.bak
                                                 /\ ino'[inv'[h].to] \in {"part", ino'[file.bak]}
    <3> SUFFICES ASSUME NEW h \in Helpers, At(h, "copying")'
                 PROVE  inv'[h].from = file.bak /\ ino'[inv'[h].to] \in {"part", ino'[file.bak]}
      OBVIOUS
    <3>1. CASE h = o
      BY <2>2, <2>3, <2>6, <3>1
    <3>2. CASE h # o
      <4>1. inv'[h] = inv[h] /\ inv[h].to \in Inodes
        BY <1>1, <2>7, <3>2 DEF InvType, Invs
      <4>2. At(h, "copying")
        BY <4>1 DEF At
      <4> QED
        BY <2>1, <2>5, <2>6, <4>1, <4>2 DEF AfterBak
    <3> QED
      BY <3>1, <3>2
  <2>11. AfterBak'
    BY <1>1, <1>6, <2>1, <2>2, <2>3, <2>4, <2>5, <2>6, <2>8, <2>9, <2>10
       DEF AfterBak, Good, InCopy, Files
  <2> QED
    BY <2>1, <2>4, <2>11 DEF ExeInv
<1> QED
  BY <1>5, <1>6 DEF Invs

LEMMA ExeWrites ==
  ASSUME TypeOK, Roles, ExeInv, NEW o \in Invs, CopyWrites(o)
  PROVE  ExeInv'
<1>1. /\ file \in [Files -> {0} \cup Inodes]
      /\ ino \in [Inodes -> Contents \cup {"none"}] /\ inv \in [Invs -> InvType]
      /\ o \in Ops <=> o \notin Helpers
  BY RoleFacts DEF TypeOK, Files
<1>2. /\ Alone(o) /\ SameCopy(o) /\ At(o, "copying") /\ inv'[o].pc = "copied"
      /\ UNCHANGED <<file, why>>
      /\ inv[o].from \in Inodes /\ inv[o].to \in Inodes
  BY CopyWritesFacts
<1>3. PICK new \in {"part", ino[inv[o].from]} :
        /\ ino' = [ino EXCEPT ![inv[o].to] = new]
        /\ ino[inv[o].to] \in {"part", ino[inv[o].from]} => new = ino[inv[o].from]
  BY CopyWritesFacts
<1>4. SUFFICES ASSUME ~Spoilt PROVE ExeInv'
  BY <1>2 DEF ExeInv, Spoilt, Again, Failed
<1>5. PICK i \in Inodes : i = inv[o].to
  BY <1>2
<1>6. /\ \A q \in Invs : q # o => inv'[q] = inv[q]
      /\ ino'[i] = new /\ \A j \in Inodes : j # i => ino'[j] = ino[j]
      /\ inv'[o].from = inv[o].from /\ inv'[o].to = i
  BY <1>1, <1>2, <1>3, <1>5 DEF Alone, SameCopy
<1>7. CASE file.bak = 0
  <2>1. BeforeBak /\ o \in Ops
    BY <1>1, <1>2, <1>4, <1>7 DEF ExeInv, BeforeBak, InCopy, At
  <2>2. Good(ino[inv[o].from]) /\ ino[i] = "part"
    BY <1>2, <1>5, <2>1 DEF BeforeBak
  <2>3. new = ino[inv[o].from] /\ Good(new)
    BY <1>3, <1>5, <2>2
  <2>4. Good(ino'[file.exe])
    BY <1>1, <1>6, <2>1, <2>2, <2>3 DEF BeforeBak, Good, Files
  <2>5. \A q \in Ops : InCopy(q) => q = o
    BY <1>2, <2>1 DEF BeforeBak, InCopy, At
  <2>6. \A q \in Ops : /\ ~At(q, "copying")' /\ (InCopy(q)' => q = o)
                       /\ At(q, "copied")' => q = o
    BY <1>2, <1>6, <2>5 DEF InCopy, At, Invs
  <2>7. \A h \in Helpers : ~At(h, "copy")' /\ ~InCopy(h)'
    BY <1>1, <1>6, <2>1 DEF BeforeBak, InCopy, At, Invs
  <2>8. file.baktmp # 0 /\ inv'[o].to = file.baktmp /\ Good(ino'[inv'[o].to])
    BY <1>2, <1>5, <1>6, <2>1, <2>3 DEF BeforeBak, InCopy, At, Good
  <2>9. BeforeBak'
    BY <1>2, <2>1, <2>4, <2>6, <2>7, <2>8 DEF BeforeBak, Good
  <2> QED
    BY <1>2, <1>7, <2>9 DEF ExeInv
<1>8. CASE file.bak # 0
  <2>1. AfterBak /\ o \in Helpers
    BY <1>1, <1>2, <1>4, <1>8 DEF ExeInv, AfterBak, InCopy, At
  <2>2. new = ino[file.bak] /\ Good(new) /\ file.bak \in Inodes
    BY <1>1, <1>2, <1>3, <1>8, <2>1 DEF AfterBak, Files
  <2>3. ino'[file.bak] = ino[file.bak]
    BY <1>6, <2>2
  <2>4. ASSUME NEW j \in Inodes, Completed(j) PROVE Completed(j)'
    <3>1. CASE j = i
      BY <1>6, <2>2, <3>1 DEF Completed, Good
    <3>2. CASE j # i /\ Good(ino[j])
      BY <1>6, <3>2 DEF Completed, Good
    <3>3. ASSUME j # i, NEW h \in Helpers, At(h, "copying"), inv[h].to = j PROVE Completed(j)'
      <4>1. h # o /\ inv'[h] = inv[h]
        BY <1>5, <1>6, <3>3 DEF Invs
      <4> QED
        BY <3>3, <4>1 DEF Completed, At
    <3> QED
      BY <2>4, <3>1, <3>2, <3>3 DEF Completed
  <2>5. ASSUME NEW h \in Helpers, At(h, "copying")'
        PROVE  inv'[h].from = file.bak /\ ino'[inv'[h].to] \in {"part", ino'[file.bak]}
    <3>1. h # o
      BY <1>2, <2>5 DEF At
    <3>2. inv'[h] = inv[h] /\ inv[h].to \in Inodes
      BY <1>1, <1>6, <3>1 DEF InvType, Invs
    <3>3. At(h, "copying")
      BY <2>5, <3>2 DEF At
    <3> QED
      BY <1>6, <2>1, <2>2, <2>3, <3>2, <3>3 DEF AfterBak
  <2>6. \A q \in Ops : ~InCopy(q)'
    BY <1>1, <1>6, <2>1 DEF AfterBak, InCopy, Invs
  <2>7. ASSUME file.exe = 0
        PROVE  \E h \in Helpers : At(h, "copy")' \/ (InCopy(h)' /\ file.exetmp # 0)
    <3>1. PICK h \in Helpers : At(h, "copy") \/ (InCopy(h) /\ file.exetmp # 0)
      BY <2>1, <2>7 DEF AfterBak
    <3>2. CASE h = o
      BY <1>2, <3>1, <3>2 DEF At, InCopy
    <3>3. CASE h # o
      <4>1. inv'[h] = inv[h]
        BY <1>6, <3>3 DEF Invs
      <4> QED
        BY <3>1, <4>1 DEF At, InCopy
    <3> QED
      BY <3>2, <3>3
  <2>8. AfterBak'
    BY <1>1, <1>2, <2>1, <2>2, <2>3, <2>4, <2>5, <2>6, <2>7 DEF AfterBak, Files
  <2> QED
    BY <1>2, <1>8, <2>8 DEF ExeInv
<1> QED
  BY <1>7, <1>8

LEMMA ExeRenames ==
  ASSUME TypeOK, Roles, ExeInv, NEW o \in Invs, CopyRenames(o)
  PROVE  ExeInv'
<1>1. /\ file \in [Files -> {0} \cup Inodes] /\ inv \in [Invs -> InvType]
      /\ o \in Ops <=> o \notin Helpers
  BY RoleFacts DEF TypeOK, Files
<1>2. /\ Alone(o) /\ At(o, "copied") /\ UNCHANGED <<ino, why>>
      /\ \/ file[TmpFile(o)] = 0 /\ inv'[o].pc = "done" /\ UNCHANGED file
         \/ /\ file[TmpFile(o)] # 0 /\ inv'[o].pc = After(o)
            /\ file' = [file EXCEPT ![Target(o)] = file[TmpFile(o)], ![TmpFile(o)] = 0]
  BY CopyRenamesFacts
<1>3. SUFFICES ASSUME ~Spoilt PROVE ExeInv'
  BY <1>2 DEF ExeInv, Spoilt, Again, Failed
<1>4. /\ \A q \in Invs : q # o => inv'[q] = inv[q]
      /\ ~InCopy(o)' /\ ~At(o, "copy")' /\ InCopy(o)
  BY <1>2 DEF Alone, InCopy, At, After
<1>5. CASE file.bak = 0
  <2>1. BeforeBak /\ o \in Ops
    BY <1>1, <1>3, <1>4, <1>5 DEF ExeInv, BeforeBak
  <2>2. /\ file.baktmp # 0 /\ inv[o].to = file.baktmp /\ Good(ino[file.baktmp])
        /\ \A q \in Ops : InCopy(q) => q = o
    BY <1>2, <1>4, <2>1 DEF BeforeBak
  <2>3. file' = [file EXCEPT !["bak"] = file.baktmp, !["baktmp"] = 0]
    BY <1>1, <1>2, <2>1, <2>2 DEF TmpFile, Target
  <2>4. file'.bak = file.baktmp /\ file'.baktmp = 0 /\ file'.exe = file.exe /\ file'.exetmp = file.exetmp
    BY <1>1, <2>3 DEF Files
  <2>5. \A q \in Ops : ~InCopy(q)'
    BY <1>4, <2>2 DEF InCopy, Invs
  <2>6. \A h \in Helpers : ~At(h, "copying")'
    BY <1>1, <1>4, <2>1 DEF BeforeBak, InCopy, At, Invs
  <2>7. AfterBak'
    BY <1>2, <2>1, <2>2, <2>4, <2>5, <2>6 DEF AfterBak, BeforeBak, Completed, Good
  <2> QED
    BY <2>2, <2>4, <2>7 DEF ExeInv
<1>6. CASE file.bak # 0
  <2>1. AfterBak /\ o \in Helpers
    BY <1>1, <1>3, <1>4, <1>6 DEF ExeInv, AfterBak
  <2>2. \A h \in Helpers : /\ At(h, "copying") <=> At(h, "copying")'
                           /\ At(h, "copying") => inv'[h] = inv[h]
                           /\ At(h, "copy") => At(h, "copy")'
    BY <1>2, <1>4 DEF At, Invs, After
  <2>3. \A j : Completed(j) => Completed(j)'
    BY <1>2, <2>2 DEF Completed, Good
  <2>4. \A q \in Ops : ~InCopy(q)'
    BY <1>1, <1>4, <2>1 DEF AfterBak, InCopy, Invs
  <2>5. CASE file.exetmp = 0
    <3>1. UNCHANGED file
      BY <1>2, <2>1, <2>5 DEF TmpFile
    <3>2. file.exe = 0 => \E h \in Helpers : At(h, "copy")'
      BY <2>1, <2>2, <2>5 DEF AfterBak
    <3>3. AfterBak'
      BY <1>2, <2>1, <2>2, <2>3, <2>4, <3>1, <3>2 DEF AfterBak, Good
    <3> QED
      BY <1>6, <3>1, <3>3 DEF ExeInv
  <2>6. CASE file.exetmp # 0
    <3>1. file' = [file EXCEPT !["exe"] = file.exetmp, !["exetmp"] = 0]
      BY <1>2, <2>1, <2>6 DEF TmpFile, Target
    <3>2. file'.exe = file.exetmp /\ file'.exetmp = 0 /\ file'.bak = file.bak /\ file'.baktmp = file.baktmp
      BY <1>1, <3>1 DEF Files
    <3>3. AfterBak'
      BY <1>2, <1>6, <2>1, <2>2, <2>3, <2>4, <2>6, <3>2 DEF AfterBak, Good
    <3> QED
      BY <1>6, <3>2, <3>3 DEF ExeInv
  <2> QED
    BY <2>5, <2>6
<1> QED
  BY <1>5, <1>6

LEMMA ExeSwaps ==
  ASSUME TypeOK, Roles, ExeInv, NEW o \in Invs, Swaps(o)
  PROVE  ExeInv'
<1>1. /\ file \in [Files -> {0} \cup Inodes] /\ inv \in [Invs -> InvType] /\ 0 \notin Inodes
      /\ ino \in [Inodes -> Contents \cup {"none"}]
  BY DEF TypeOK, Files, Inodes
<1>2. /\ Alone(o) /\ SameCopy(o) /\ At(o, "swap") /\ inv'[o].pc \in {"restart", "done"}
      /\ UNCHANGED why
  BY SwapsFacts
<1>10. CASE UNCHANGED <<ino, file>>
  BY <1>2, <1>10, ExeAlone, RoleFacts DEF InCopy, At
<1>11. SUFFICES ASSUME ~UNCHANGED <<ino, file>> PROVE ExeInv'
  BY <1>10
<1>3. PICK i \in Inodes : /\ Fresh(i) /\ ino' = [ino EXCEPT ![i] = "v2"]
                          /\ file' = [file EXCEPT !.exe = i]
  BY <1>11, SwapsFacts
<1>4. SUFFICES ASSUME ~Spoilt PROVE ExeInv'
  BY <1>2 DEF ExeInv, Spoilt, Again, Failed
<1>5. /\ ino[i] = "none" /\ ino'[i] = "v2" /\ \A j \in Inodes : j # i => ino'[j] = ino[j]
      /\ file'.exe = i /\ file'.bak = file.bak /\ file'.baktmp = file.baktmp /\ file'.exetmp = file.exetmp
  BY <1>1, <1>3 DEF Fresh, Files
<1>6. \A q \in Invs : /\ InCopy(q)' <=> InCopy(q)
                      /\ At(q, "copy")' <=> At(q, "copy")
                      /\ At(q, "copying")' <=> At(q, "copying")
                      /\ At(q, "copied")' <=> At(q, "copied")
                      /\ inv'[q].from = inv[q].from /\ inv'[q].to = inv[q].to
                      /\ inv[q].from \in Inodes /\ inv[q].to \in Inodes
  BY <1>1, <1>2 DEF Alone, SameCopy, InCopy, At, InvType
<1>7. \A j \in Inodes : Good(ino[j]) => ino'[j] = ino[j]
  BY <1>5 DEF Good
<1>8. CASE file.bak = 0
  <2>1. BeforeBak
    BY <1>4, <1>8 DEF ExeInv
  <2>2. BeforeBak'
    BY <1>1, <1>5, <1>6, <1>7, <2>1 DEF BeforeBak, Good, Invs
  <2> QED
    BY <1>5, <1>8, <2>2 DEF ExeInv
<1>9. CASE file.bak # 0
  <2>1. AfterBak /\ file.bak \in Inodes /\ ino'[file.bak] = ino[file.bak]
    BY <1>1, <1>4, <1>7, <1>9 DEF ExeInv, AfterBak, Files
  <2>2. \A j \in Inodes : j = i \/ Completed(j) => Completed(j)'
    BY <1>5, <1>6, <1>7 DEF Completed, Good, Invs
  <2>3. ASSUME NEW h \in Helpers, At(h, "copying")
        PROVE  inv[h].from = file.bak /\ ino'[inv[h].to] \in {"part", ino'[file.bak]}
    <3>1. inv[h].from = file.bak /\ ino[inv[h].to] \in {"part", ino[file.bak]} /\ inv[h].to \in Inodes
      BY <1>6, <2>1, <2>3 DEF AfterBak, Invs
    <3>2. inv[h].to # i
      BY <1>5, <2>1, <3>1 DEF AfterBak, Good
    <3> QED
      BY <1>5, <2>1, <3>1, <3>2
  <2>4. AfterBak'
    BY <1>1, <1>5, <1>6, <2>1, <2>2, <2>3 DEF AfterBak, Good, Files, Invs
  <2> QED
    BY <1>5, <1>9, <2>4 DEF ExeInv
<1> QED
  BY <1>8, <1>9

LEMMA ExeRescues ==
  ASSUME TypeOK, Roles, ExeInv, NEW o \in Invs, HelperRescues(o)
  PROVE  ExeInv'
<1>1. file \in [Files -> {0} \cup Inodes] /\ inv \in [Invs -> InvType] /\ o \in Helpers
  BY RoleFacts, HelperRescuesFacts DEF TypeOK, Files, HelperPcs, OpPcs, At
<1>2. /\ Alone(o) /\ At(o, "rescue") /\ UNCHANGED ino
      /\ \A m \in Names : why[m] \subseteq why'[m]
      /\ \/ file.bak = 0 /\ inv'[o].pc = "done" /\ UNCHANGED file
         \/ file.bak # 0 /\ inv'[o].pc = "copy" /\ file' = [file EXCEPT !.exe = 0]
  BY HelperRescuesFacts
<1>3. /\ \A q \in Invs : q # o => inv'[q] = inv[q]
      /\ ~InCopy(o) /\ ~InCopy(o)'
  BY <1>2 DEF Alone, InCopy, At
<1>4. SUFFICES ASSUME ~Spoilt PROVE ExeInv'
  BY <1>2 DEF ExeInv, Spoilt, Again, Failed
<1>5. CASE file.bak = 0
  <2>1. \A q \in Invs : InCopy(q) \/ InCopy(q)' => inv'[q] = inv[q]
    BY <1>3
  <2>2. \A h \in Helpers : inv'[h].pc = "copy" <=> inv[h].pc = "copy"
    BY <1>2, <1>3, <1>5 DEF At, Invs
  <2> QED
    BY <1>2, <1>5, <2>1, <2>2, ExeFrame
<1>6. CASE file.bak # 0
  <2>1. AfterBak /\ inv'[o].pc = "copy"
    BY <1>2, <1>4, <1>6 DEF ExeInv
  <2>2. file'.exe = 0 /\ file'.bak = file.bak /\ file'.baktmp = file.baktmp /\ file'.exetmp = file.exetmp
    BY <1>1, <1>2, <1>6 DEF Files
  <2>3. \A h \in Helpers : /\ At(h, "copying") <=> At(h, "copying")'
                           /\ At(h, "copying") => inv'[h] = inv[h]
    BY <1>2, <1>3, <2>1 DEF At, Invs
  <2>4. \A j : Completed(j) => Completed(j)'
    BY <1>2, <2>3 DEF Completed, Good
  <2>5. \A q \in Ops : ~InCopy(q)'
    BY <1>3, <2>1 DEF AfterBak, InCopy, Invs
  <2>6. AfterBak'
    BY <1>1, <1>2, <2>1, <2>2, <2>3, <2>4, <2>5 DEF AfterBak, Good, At
  <2> QED
    BY <1>6, <2>2, <2>6 DEF ExeInv
<1> QED
  BY <1>5, <1>6

\* A copy that fails is one that is not made; a rollback's spoils it.
LEMMA ExeFails ==
  ASSUME TypeOK, Roles, ExeInv, NEW o \in Invs, CopyFails(o)
  PROVE  ExeInv'
<1>1. /\ file \in [Files -> {0} \cup Inodes] /\ inv \in [Invs -> InvType]
      /\ ino \in [Inodes -> Contents \cup {"none"}]
      /\ o \in Ops <=> o \notin Helpers
  BY RoleFacts DEF TypeOK, Files
<1>2. /\ Alone(o) /\ Copying(o) /\ inv'[o].pc = "done"
      /\ \A m \in Names : why[m] \subseteq why'[m]
      /\ o \in Helpers => Failed'
      /\ IF At(o, "copying")
         THEN /\ file' = [file EXCEPT ![TmpFile(o)] = 0]
              /\ \E new \in {ino[inv[o].to], "part"} : ino' = [ino EXCEPT ![inv[o].to] = new]
         ELSE UNCHANGED <<ino, file>>
  BY CopyFailsFacts
<1>3. SUFFICES ASSUME ~Spoilt, o \in Ops, o \notin Helpers PROVE ExeInv'
  BY <1>1, <1>2 DEF ExeInv, Spoilt, Again, Failed, Invs
<1>4. /\ \A q \in Invs : q # o => inv'[q] = inv[q]
      /\ ~InCopy(o)' /\ \A h \in Helpers : inv'[h] = inv[h]
  BY <1>2, <1>3 DEF Alone, InCopy, Invs
<1>5. CASE file.bak = 0
  <2>1. BeforeBak
    BY <1>3, <1>5 DEF ExeInv
  <2>5. ino' = ino
    <3>1. CASE At(o, "copying")
      <4>1. ino[inv[o].to] = "part"
        BY <1>3, <2>1, <3>1 DEF BeforeBak
      <4> QED
        BY <1>1, <1>2, <3>1, <4>1
    <3> QED
      BY <1>2, <3>1
  <2>6. file' = [file EXCEPT !["baktmp"] = 0] \/ file' = file
    BY <1>2, <1>3 DEF TmpFile
  <2>2. /\ ino' = ino /\ file'.bak = 0 /\ file'.exe = file.exe /\ file'.exetmp = file.exetmp
        /\ file' = file \/ At(o, "copying")
    BY <1>1, <1>2, <1>5, <2>5, <2>6 DEF Files
  <2>3. \A q \in Ops : InCopy(q)' => inv'[q] = inv[q] /\ InCopy(q) /\ file' = file
    BY <1>4, <2>1, <2>2 DEF BeforeBak, InCopy, At, Invs
  <2>4. BeforeBak'
    BY <1>4, <2>1, <2>2, <2>3 DEF BeforeBak, InCopy, At, Good
  <2> QED
    BY <2>2, <2>4 DEF ExeInv
<1>6. CASE file.bak # 0
  <2>1. AfterBak /\ ~InCopy(o)
    BY <1>3, <1>6 DEF ExeInv, AfterBak
  <2>2. UNCHANGED <<ino, file>>
    BY <1>2, <2>1 DEF InCopy, At
  <2> QED
    BY <1>2, <1>3, <1>4, <2>1, <2>2, ExeAlone
<1> QED
  BY <1>5, <1>6

LEMMA RunsExe ==
  ASSUME TypeOK, Roles, ExeInv, NEW o \in Invs, Runs(o)
  PROVE  ExeInv'
<1>1. /\ o \in Helpers => o \notin Ops /\ inv[o].pc \in HelperPcs
      /\ inv[o].name \in Names
      /\ \A m \in Names : why[m] \subseteq why[m]
  BY RoleFacts DEF Roles, TypeOK, InvType
<1>2. CASE Probes(o)
  <2>1. /\ Alone(o) /\ UNCHANGED <<ino, file, why>> /\ inv[o].pc \in {"probe", "wait"}
        /\ inv'[o].pc \in {"done", "term", "wait", "remove", "sweep", "spawn"}
    BY <1>2, ProbesFacts
  <2> QED
    BY <1>1, <2>1, ExeAlone DEF InCopy
<1>3. CASE Sweeps(o) \/ Unlinks(o)
  <2>1. /\ Alone(o) /\ inv[o].pc \in {"sweep", "remove"} /\ Removes(o) /\ UNCHANGED <<ino, file>>
        /\ inv'[o].pc = IF At(o, "sweep") THEN inv[o].then ELSE "done"
    BY <1>3, SweepsFacts
  <2>2. \A m \in Names : why[m] \subseteq why'[m]
    BY <1>1, <2>1, RemovesFacts
  <2>3. inv[o].then \in {"none", "spawn", "remove", "done"}
    BY DEF TypeOK, InvType
  <2> QED
    BY <1>1, <2>1, <2>2, <2>3, ExeAlone DEF InCopy
<1>4. CASE Spawns(o)
  <2>1. /\ Alone(o) /\ UNCHANGED <<ino, file>> /\ At(o, "spawn") /\ inv'[o].pc \in {"done", "truncate"}
        /\ \A m \in Names : why[m] \subseteq why'[m]
    BY <1>4, SpawnsFacts
  <2> QED
    BY <2>1, ExeAlone DEF InCopy, At
<1>5. CASE Truncates(o) \/ Writes(o) \/ WriteFails(o)
  <2>1. /\ Alone(o) /\ UNCHANGED <<ino, file, why>>
        /\ inv[o].pc \in {"truncate", "write"} /\ inv'[o].pc \in {"write", "done"}
    BY <1>5, TruncatesFacts, WritesFacts, WriteFailsFacts DEF At
  <2> QED
    BY <1>1, <2>1, ExeAlone DEF InCopy
<1>6. CASE Terminates(o)
  <2>1. Alone(o) /\ UNCHANGED <<ino, file, why>> /\ At(o, "term") /\ inv'[o].pc \in {"wait", "remove"}
    BY <1>6, TerminatesFacts
  <2> QED
    BY <1>1, <2>1, ExeAlone DEF InCopy, At
<1>7. CASE GivesUpWaiting(o) \/ Downloads(o)
  <2>1. PICK pc \in {"remove", "copy", "done"} :
          Goto(o, pc) /\ inv[o].pc \in {"wait", "download"} /\ UNCHANGED <<ino, file, why>>
    BY <1>7 DEF GivesUpWaiting, Downloads, At, disk
  <2>2. Alone(o) /\ inv'[o].pc = pc
    BY <2>1, GotoFacts DEF Pcs
  <2>3. o \notin Helpers
    BY <1>1, <2>1 DEF HelperPcs
  <2> QED
    BY <1>1, <2>1, <2>2, <2>3, ExeAlone DEF InCopy
<1>8. CASE CopyOpens(o) \/ CopyWrites(o) \/ CopyRenames(o) \/ CopyFails(o) \/ Swaps(o)
           \/ HelperRescues(o)
  BY <1>8, ExeOpens, ExeWrites, ExeRenames, ExeFails, ExeSwaps, ExeRescues
<1>9. CASE Updates(o)
  <2>1. /\ Alone(o) /\ UNCHANGED <<ino, file, why>> /\ At(o, "look")
        /\ inv'[o].pc \in {"done", "download", "restart"}
    BY <1>9, UpdatesFacts
  <2> QED
    BY <1>1, <2>1, ExeAlone DEF InCopy, At
<1>10. CASE Restarts(o)
  <2>1. At(o, "restart") /\ UNCHANGED <<ino, file>>
    BY <1>10, RestartsFacts
  <2>2. CASE Alone(o) /\ inv'[o].pc \in {"done", "restart"} /\ \A m \in Names : why[m] \subseteq why'[m]
    BY <2>1, <2>2, ExeAlone DEF InCopy, At
  <2>3. ASSUME NEW h \in Helpers, HandsOver(o, h) PROVE ExeInv'
    <3>1. \A q \in Invs : InCopy(q) \/ InCopy(q)' => inv'[q] = inv[q]
      BY <2>1, <2>3 DEF HandsOver, InCopy, At
    <3>2. \A g \in Helpers : inv'[g].pc = "copy" <=> inv[g].pc = "copy"
      BY <2>1, <2>3 DEF HandsOver, At, Invs
    <3>3. UNCHANGED why
      BY <2>3 DEF HandsOver
    <3> QED
      BY <1>1, <2>1, <3>1, <3>2, <3>3, ExeFrame
  <2> QED
    BY <1>1, <1>10, <2>2, <2>3, RestartsFacts DEF InPlaceFacts
<1>11. CASE HelperStops(o)
  <2>1. /\ Alone(o) /\ UNCHANGED <<ino, file>> /\ At(o, "kill") /\ inv'[o].pc = "start"
        /\ \A m \in Names : why[m] \subseteq why'[m]
    BY <1>11, HelperStopsFacts
  <2> QED
    BY <2>1, ExeAlone DEF InCopy, At
<1>12. CASE HelperStarts(o)
  <2>1. /\ Alone(o) /\ UNCHANGED <<ino, file>> /\ inv[o].pc \in {"start", "start_again"}
        /\ \A m \in Names : why[m] \subseteq why'[m]
        /\ inv'[o].pc \in {"done", "rescue", "confirm", "confirm_again"}
    BY <1>12, HelperStartsFacts
  <2> QED
    BY <1>1, <2>1, ExeAlone DEF InCopy
<1>13. CASE HelperConfirms(o)
  <2>1. /\ Alone(o) /\ UNCHANGED <<ino, file, why>> /\ inv[o].pc \in {"confirm", "confirm_again"}
        /\ inv'[o].pc \in {"done", "rescue"}
    BY <1>13, HelperConfirmsFacts
  <2> QED
    BY <1>1, <2>1, ExeAlone DEF InCopy
<1> QED
  BY <1>2, <1>3, <1>4, <1>5, <1>6, <1>7, <1>8, <1>9, <1>10, <1>11, <1>12, <1>13 DEF Runs

---------------------------------------------------------------------------
(***************************************************************************)
(* The binary until the first rollback.                                    *)
(***************************************************************************)

\* Steps that leave the disk alone and open no copy.
LEMMA WholeFrame ==
  ASSUME WholeInv, ino' = ino, file' = file, \A m \in Names : why[m] \subseteq why'[m],
         \A q \in Invs : Copying(q)' => Copying(q) \/ q \in Ops,
         \A q \in Invs : InCopy(q)' => InCopy(q) /\ inv'[q].to = inv[q].to /\ inv'[q].from = inv[q].from
  PROVE  WholeInv'
<1>1. Rolled => Rolled'
  BY DEF Rolled
<1>2. ASSUME Whole PROVE Whole'
  <2>1. \A h \in Helpers : ~Copying(h)'
    BY <1>2, HostAssumption DEF Whole, Invs
  <2>2. \A q \in Ops : InCopy(q)' => InCopy(q) /\ inv'[q].to = inv[q].to /\ inv'[q].from = inv[q].from
    BY DEF Invs
  <2> QED
    BY <1>2, <2>1, <2>2 DEF Whole, Good
<1> QED
  BY <1>1, <1>2 DEF WholeInv

LEMMA WholeAlone ==
  ASSUME WholeInv, NEW o \in Invs, Alone(o), ino' = ino, file' = file,
         \A m \in Names : why[m] \subseteq why'[m], ~InCopy(o)', Copying(o)' => o \in Ops
  PROVE  WholeInv'
<1>1. \A q \in Invs : Copying(q)' => Copying(q) \/ q \in Ops
  BY DEF Alone, Copying
<1>2. \A q \in Invs : InCopy(q)' => InCopy(q) /\ inv'[q].to = inv[q].to /\ inv'[q].from = inv[q].from
  BY DEF Alone, InCopy
<1> QED
  BY <1>1, <1>2, WholeFrame

LEMMA WholeCopies ==
  ASSUME TypeOK, Roles, WholeInv, NEW o \in Invs,
         CopyOpens(o) \/ CopyWrites(o) \/ CopyRenames(o) \/ CopyFails(o)
  PROVE  WholeInv'
<1>1. /\ file \in [Files -> {0} \cup Inodes] /\ inv \in [Invs -> InvType] /\ 0 \notin Inodes
      /\ ino \in [Inodes -> Contents \cup {"none"}]
      /\ o \in Ops <=> o \notin Helpers
      /\ "baktmp" \in Files /\ "exe" \in Files /\ "none" \notin Contents
  BY RoleFacts DEF TypeOK, Files, Inodes, Contents
<1>2. /\ Alone(o) /\ Copying(o) /\ \A m \in Names : why[m] \subseteq why'[m]
  BY CopyOpensFacts, CopyWritesFacts, CopyRenamesFacts, CopyFailsFacts DEF Copying, At
<1>3. SUFFICES ASSUME Whole, o \in Ops, o \notin Helpers PROVE Whole'
  BY <1>1, <1>2 DEF WholeInv, Rolled, Whole, Invs
<1>4. /\ \A q \in Invs : q # o => inv'[q] = inv[q]
      /\ \A h \in Helpers : ~Copying(h)'
  BY <1>2, <1>3 DEF Alone, Whole, Copying, Invs
<1>5. file.exe \in Inodes /\ (file.baktmp # 0 => file.baktmp \in Inodes) /\ ino[file.exe] # "none"
  BY <1>1, <1>3 DEF Whole, Good
<1>6. ASSUME NEW i \in Inodes, NEW new \in Contents, i # file.exe, ino' = [ino EXCEPT ![i] = new],
             file'.exe = file.exe, file'.baktmp \in {0, i, file.baktmp},
             InCopy(o)' => inv'[o].to = i /\ inv'[o].from \in Inodes /\ ino[inv'[o].from] # "none"
      PROVE  Whole'
  <2>0. new # "none" /\ ino' = [ino EXCEPT ![i] = new] /\ i # file.exe
    BY <1>6 DEF Contents
  <2>1. /\ ino'[i] # "none" /\ ino'[file.exe] = ino[file.exe]
        /\ \A j \in Inodes : ino[j] # "none" => ino'[j] # "none"
    BY <1>1, <1>5, <2>0
  <2>2. file'.baktmp # 0 => file'.baktmp # file'.exe /\ ino'[file'.baktmp] # "none"
    BY <1>3, <1>5, <1>6, <2>1 DEF Whole
  <2>3. ASSUME NEW q \in Ops, InCopy(q)'
        PROVE  /\ inv'[q].to # file'.exe /\ ino'[inv'[q].to] # "none"
               /\ ino'[inv'[q].from] # "none"
    <3>1. CASE q = o
      BY <1>6, <2>1, <2>3, <3>1
    <3>2. CASE q # o
      <4>1. inv'[q] = inv[q] /\ inv[q].to \in Inodes /\ inv[q].from \in Inodes /\ InCopy(q)
        BY <1>1, <1>4, <2>3, <3>2 DEF InvType, InCopy, Invs
      <4> QED
        <5>1. /\ inv[q].to # file.exe /\ ino[inv[q].to] # "none" /\ ino[inv[q].from] # "none"
          BY <1>3, <2>3, <4>1 DEF Whole
        <5>2. file'.exe = file.exe
          BY <1>6
        <5> QED
          BY <2>0, <2>1, <4>1, <5>1, <5>2
    <3> QED
      BY <3>1, <3>2
  <2> QED
    BY <1>3, <1>4, <1>6, <2>1, <2>2, <2>3 DEF Whole, Good
<1>7. ASSUME ino' = ino, file'.exe = file.exe, file'.baktmp \in {0, file.baktmp}, ~InCopy(o)'
      PROVE  Whole'
  <2>1. \A q \in Ops : InCopy(q)' => inv'[q] = inv[q] /\ InCopy(q)
    BY <1>4, <1>7 DEF InCopy, Invs
  <2> QED
    BY <1>3, <1>4, <1>7, <2>1 DEF Whole, Good
<1>8. CASE CopyOpens(o)
  <2>1. CASE inv'[o].pc = "done" /\ UNCHANGED <<ino, file>>
    BY <1>7, <2>1 DEF InCopy
  <2>2. CASE ~(inv'[o].pc = "done" /\ UNCHANGED <<ino, file>>)
    <3>1. /\ inv'[o].to \in Inodes /\ ino' = [ino EXCEPT ![inv'[o].to] = "part"]
          /\ IF file.baktmp = 0 THEN Fresh(inv'[o].to) ELSE inv'[o].to = file.baktmp
          /\ file' = [file EXCEPT !["baktmp"] = inv'[o].to]
      BY <1>3, <1>8, <2>2, CopyOpensFacts DEF TmpFile
    <3>2. inv'[o].to # file.exe
      BY <1>3, <1>5, <3>1 DEF Whole, Fresh
    <3>3. file'.exe = file.exe /\ file'.baktmp = inv'[o].to
      BY <1>1, <3>1
    <3>4. PICK i \in Inodes : i = inv'[o].to
      BY <3>1
    <3>5. inv'[o].from = file.exe
      BY <1>3, <1>8, <2>2, CopyOpensFacts DEF Source
    <3> QED
      BY <1>5, <1>6, <3>1, <3>2, <3>3, <3>4, <3>5 DEF Contents
  <2> QED
    BY <2>1, <2>2
<1>9. CASE CopyWrites(o)
  <2>1. /\ SameCopy(o) /\ At(o, "copying") /\ file' = file /\ inv[o].from \in Inodes
        /\ inv[o].to \in Inodes
        /\ \E new \in {"part", ino[inv[o].from]} : ino' = [ino EXCEPT ![inv[o].to] = new]
    BY <1>9, CopyWritesFacts
  <2>4. PICK i \in Inodes : i = inv[o].to
    BY <2>1
  <2>2. PICK new \in {"part", ino[inv[o].from]} : i = inv[o].to /\ ino' = [ino EXCEPT ![i] = new]
    BY <2>1, <2>4
  <2>5. InCopy(o)
    BY <2>1 DEF InCopy, At
  <2>6. i # file.exe /\ ino[inv[o].from] # "none"
    BY <1>3, <2>2, <2>5 DEF Whole
  <2>3. i # file.exe /\ ino[inv[o].from] # "none" /\ new \in Contents
    BY <1>1, <2>1, <2>2, <2>6 DEF Contents
  <2> QED
    BY <1>6, <2>1, <2>2, <2>3 DEF SameCopy
<1>10. CASE CopyRenames(o)
  <2>1. ~InCopy(o)' /\ ino' = ino
    BY <1>10, CopyRenamesFacts DEF InCopy, After
  <2>2. file' = file \/ file' = [file EXCEPT !["bak"] = file.baktmp, !["baktmp"] = 0]
    BY <1>3, <1>10, CopyRenamesFacts DEF TmpFile, Target
  <2>3. file'.exe = file.exe /\ file'.baktmp \in {0, file.baktmp}
    BY <1>1, <2>2
  <2> QED
    BY <1>7, <2>1, <2>3
<1>11. CASE CopyFails(o)
  <2>1. CASE UNCHANGED <<ino, file>>
    BY <1>7, <1>11, <2>1, CopyFailsFacts DEF InCopy
  <2>2. CASE ~UNCHANGED <<ino, file>>
    <3>1. /\ At(o, "copying") /\ inv[o].to \in Inodes /\ file' = [file EXCEPT !["baktmp"] = 0]
          /\ \E new \in {ino[inv[o].to], "part"} : ino' = [ino EXCEPT ![inv[o].to] = new]
          /\ inv'[o].pc = "done"
      BY <1>3, <1>11, <2>2, CopyFailsFacts DEF TmpFile
    <3>5. PICK i \in Inodes : i = inv[o].to
      BY <3>1
    <3>2. PICK new \in {ino[inv[o].to], "part"} :
            i = inv[o].to /\ ino' = [ino EXCEPT ![i] = new]
      BY <3>1, <3>5
    <3>3. i # file.exe /\ ino[i] # "none"
      BY <1>3, <3>1, <3>2 DEF Whole, InCopy, At
    <3>4. new \in Contents /\ file'.exe = file.exe /\ file'.baktmp = 0 /\ ~InCopy(o)'
      BY <1>1, <3>1, <3>2, <3>3 DEF Contents, InCopy
    <3> QED
      BY <1>6, <3>2, <3>3, <3>4
  <2> QED
    BY <2>1, <2>2
<1> QED
  BY <1>8, <1>9, <1>10, <1>11

LEMMA WholeSwaps ==
  ASSUME TypeOK, Roles, WholeInv, NEW o \in Invs, Swaps(o)
  PROVE  WholeInv'
<1>1. /\ file \in [Files -> {0} \cup Inodes] /\ inv \in [Invs -> InvType] /\ 0 \notin Inodes
      /\ ino \in [Inodes -> Contents \cup {"none"}]
  BY DEF TypeOK, Files, Inodes
<1>2. /\ Alone(o) /\ SameCopy(o) /\ inv'[o].pc \in {"restart", "done"} /\ UNCHANGED why
      /\ ~InCopy(o)' /\ ~Copying(o)'
  BY SwapsFacts DEF InCopy, Copying
<1>3. CASE UNCHANGED <<ino, file>>
  BY <1>2, <1>3, WholeAlone
<1>4. ASSUME NEW i \in Inodes, Fresh(i), ino' = [ino EXCEPT ![i] = "v2"], file' = [file EXCEPT !.exe = i]
      PROVE  WholeInv'
  <2>1. SUFFICES ASSUME Whole PROVE Whole'
    BY <1>2 DEF WholeInv, Rolled
  <2>2. /\ ino[i] = "none" /\ ino'[i] = "v2" /\ \A j \in Inodes : j # i => ino'[j] = ino[j]
        /\ file'.exe = i /\ file'.baktmp = file.baktmp /\ i # 0
    BY <1>1, <1>4 DEF Fresh, Files
  <2>3. file.baktmp # 0 => file.baktmp \in Inodes /\ ino[file.baktmp] # "none"
    BY <1>1, <2>1 DEF Whole, Files
  <2>4. \A h \in Helpers : ~Copying(h)'
    BY <1>2, <2>1 DEF Alone, Whole, Copying, Invs
  <2>5. \A q \in Ops : InCopy(q)' => /\ inv'[q] = inv[q] /\ InCopy(q)
                                    /\ inv[q].to \in Inodes /\ inv[q].from \in Inodes
    BY <1>1, <1>2 DEF Alone, InCopy, InvType, Invs
  <2> QED
    BY <2>1, <2>2, <2>3, <2>4, <2>5 DEF Whole, Good
<1> QED
  BY <1>3, <1>4, SwapsFacts

LEMMA RunsWhole ==
  ASSUME TypeOK, Roles, WholeInv, NEW o \in Invs, Runs(o)
  PROVE  WholeInv'
<1>1. /\ o \in Helpers => o \notin Ops /\ inv[o].pc \in HelperPcs
      /\ inv[o].name \in Names /\ inv[o].then \in {"none", "spawn", "remove", "done"}
      /\ o \in Ops <=> o \notin Helpers
  BY RoleFacts DEF Roles, TypeOK, InvType
<1>2. CASE CopyOpens(o) \/ CopyWrites(o) \/ CopyRenames(o) \/ CopyFails(o)
  BY <1>2, WholeCopies
<1>3. CASE Swaps(o)
  BY <1>3, WholeSwaps
<1>4. CASE HelperRescues(o)
  <2>1. /\ Alone(o) /\ UNCHANGED ino /\ \A m \in Names : why[m] \subseteq why'[m]
        /\ \/ inv'[o].pc = "done" /\ UNCHANGED file
           \/ \A m \in Names : "rolled" \in why'[m]
    BY <1>4, HelperRescuesFacts
  <2>2. CASE inv'[o].pc = "done" /\ UNCHANGED file
    BY <2>1, <2>2, WholeAlone DEF InCopy, Copying
  <2>3. CASE \A m \in Names : "rolled" \in why'[m]
    BY <1>1, <2>3 DEF WholeInv, Rolled
  <2> QED
    BY <2>1, <2>2, <2>3
<1>5. CASE Restarts(o)
  <2>1. At(o, "restart") /\ UNCHANGED <<ino, file>>
    BY <1>5, RestartsFacts
  <2>2. CASE Alone(o) /\ inv'[o].pc \in {"done", "restart"} /\ \A m \in Names : why[m] \subseteq why'[m]
    BY <2>1, <2>2, WholeAlone DEF InCopy, Copying
  <2>3. ASSUME NEW h \in Helpers, HandsOver(o, h) PROVE WholeInv'
    <3>1. \A q \in Invs : Copying(q)' => Copying(q)
      BY <2>1, <2>3 DEF HandsOver, Copying, At
    <3>2. \A q \in Invs : InCopy(q)' => InCopy(q) /\ inv'[q].to = inv[q].to /\ inv'[q].from = inv[q].from
      BY <2>1, <2>3 DEF HandsOver, InCopy, At
    <3>3. UNCHANGED why
      BY <2>3 DEF HandsOver
    <3> QED
      BY <2>1, <3>1, <3>2, <3>3, WholeFrame
  <2> QED
    BY <1>1, <1>5, <2>2, <2>3, RestartsFacts DEF InPlaceFacts
<1>6. CASE \/ Probes(o) \/ Sweeps(o) \/ Unlinks(o) \/ Spawns(o) \/ Truncates(o) \/ Writes(o)
           \/ WriteFails(o) \/ Terminates(o) \/ Updates(o) \/ HelperStops(o) \/ HelperStarts(o)
           \/ HelperConfirms(o)
  <2>1. CASE Probes(o) \/ Truncates(o) \/ Writes(o) \/ WriteFails(o) \/ Terminates(o) \/ Updates(o)
    <3>1. /\ Alone(o) /\ UNCHANGED <<ino, file, why>>
          /\ inv'[o].pc \in {"done", "term", "wait", "remove", "sweep", "spawn", "write", "download", "restart"}
      BY <2>1, ProbesFacts, TruncatesFacts, WritesFacts, WriteFailsFacts, TerminatesFacts, UpdatesFacts
    <3> QED
      BY <3>1, WholeAlone DEF InCopy, Copying
  <2>2. CASE Sweeps(o) \/ Unlinks(o)
    <3>1. /\ Alone(o) /\ Removes(o) /\ UNCHANGED <<ino, file>>
          /\ inv'[o].pc \in {"none", "spawn", "remove", "done"}
      BY <1>1, <2>2, SweepsFacts
    <3>2. \A m \in Names : why[m] \subseteq why'[m]
      BY <1>1, <3>1, RemovesFacts
    <3> QED
      BY <3>1, <3>2, WholeAlone DEF InCopy, Copying
  <2>3. CASE Spawns(o) \/ HelperStops(o) \/ HelperStarts(o) \/ HelperConfirms(o)
    <3>1. /\ Alone(o) /\ UNCHANGED <<ino, file>> /\ \A m \in Names : why[m] \subseteq why'[m]
          /\ inv'[o].pc \in {"done", "truncate", "start", "rescue", "confirm", "confirm_again"}
      BY <2>3, SpawnsFacts, HelperStopsFacts, HelperStartsFacts, HelperConfirmsFacts
    <3> QED
      BY <3>1, WholeAlone DEF InCopy, Copying
  <2> QED
    BY <1>6, <2>1, <2>2, <2>3
<1>7. CASE GivesUpWaiting(o) \/ Downloads(o)
  <2>1. PICK pc \in {"remove", "copy", "done"} :
          Goto(o, pc) /\ inv[o].pc \in {"wait", "download"} /\ UNCHANGED <<ino, file, why>>
    BY <1>7 DEF GivesUpWaiting, Downloads, At, disk
  <2>2. Alone(o) /\ inv'[o].pc = pc
    BY <2>1, GotoFacts DEF Pcs
  <2>3. o \in Ops
    BY <1>1, <2>1 DEF HelperPcs
  <2> QED
    BY <2>1, <2>2, <2>3, WholeAlone DEF InCopy
<1> QED
  BY <1>2, <1>3, <1>4, <1>5, <1>6, <1>7 DEF Runs

\* The binary is whole before a rollback, and after one from a .bak that
\* only one update wrote, whose copy did not fail.
LEMMA ExeInvRunnable ==
  ASSUME TypeOK, Roles, ExeInv, WholeInv
  PROVE  ExeRunnable
<1>5. CASE Whole
  BY <1>5 DEF Whole, ExeRunnable, Content, Good
<1>6. CASE Failed
  BY <1>6, HostAssumption DEF Failed, ExeRunnable, Ever
<1>1. SUFFICES ASSUME ~Spoilt, \A h \in Helpers : ~Copying(h)
               PROVE  Good(Content("exe"))
  BY <1>5, <1>6 DEF ExeRunnable, Spoilt, Again, Copying, Good, WholeInv, Rolled, Ever
<1>2. file \in [Files -> {0} \cup Inodes]
  BY DEF TypeOK, Files
<1>3. CASE file.bak = 0
  <2>1. file.exe # 0 /\ Good(ino[file.exe])
    BY <1>1, <1>3 DEF ExeInv, BeforeBak
  <2> QED
    BY <2>1 DEF Content
<1>4. CASE file.bak # 0
  <2>1. AfterBak /\ \A h \in Helpers : ~At(h, "copy") /\ ~At(h, "copying") /\ ~InCopy(h)
    BY <1>1, <1>4 DEF ExeInv, Copying, At, InCopy
  <2>2. file.exe # 0 /\ Good(ino[file.exe])
    BY <2>1 DEF AfterBak, Completed
  <2> QED
    BY <2>2 DEF Content
<1> QED
  BY <1>3, <1>4

---------------------------------------------------------------------------
(***************************************************************************)
(* PID files: what the steps have in common.                               *)
(***************************************************************************)

\* Processes keep their names, and remain known when they are gone.
Lasting == \A p \in Pids : proc[p].st # "none" => proc'[p].st # "none" /\ proc'[p].name = proc[p].name
\* Nobody but o gets a pid to write, and only a new one.
Starts(o) == \A q \in Invs : Starting(q)' =>
  \/ Starting(q) /\ inv'[q].pid = inv[q].pid /\ inv'[q].name = inv[q].name
  \/ q = o /\ proc[inv'[q].pid].st = "none" /\ Is(inv[q].pid, inv[q].name)'

LEMMA OwnStep ==
  ASSUME TypeOK, OwnPids, Lasting, NEW o \in Invs, Starts(o)
  PROVE  OwnPids'
<1>1. ASSUME NEW q \in Invs, Starting(q)' PROVE Is(inv[q].pid, inv[q].name)'
  <2>1. PICK p \in Pids : p = inv[q].pid
    BY DEF TypeOK, InvType
  <2>2. Starting(q) => Is(p, inv[q].name)
    BY <2>1 DEF OwnPids
  <2> QED
    BY <1>1, <2>1, <2>2 DEF Lasting, Starts, Is
<1>2. ASSUME NEW q \in Invs, NEW r \in Invs, Starting(q)', Starting(r)', inv'[q].pid = inv'[r].pid
      PROVE  q = r
  BY <1>2 DEF OwnPids, Starts, Is
<1> QED
  BY <1>1, <1>2 DEF OwnPids

LEMMA WrittenStep ==
  ASSUME NEW o \in Invs, Starts(o), NEW p \in Pids, Written(p), proc[p].st # "none"
  PROVE  Written(p)'
BY DEF Written, Starts

LEMMA FiledStep ==
  ASSUME FiledPids, Lasting, NEW o \in Invs, Starts(o),
         \A n \in Names : pidf'[n].val \in Pids => pidf'[n].val = pidf[n].val
  PROVE  FiledPids'
<1>1. SUFFICES ASSUME NEW n \in Names, NEW p \in Pids, p = pidf'[n].val
               PROVE  Is(p, n)' /\ Written(p)'
  BY DEF FiledPids, Is, Written
<1>2. Is(p, n) /\ Written(p)
  BY <1>1 DEF FiledPids
<1>3. Is(p, n)' /\ proc[p].st # "none"
  BY <1>2 DEF Is, Lasting
<1> QED
  BY <1>2, <1>3, WrittenStep

LEMMA TermStep ==
  ASSUME TypeOK, TypeOK', TermPids, FiledPids, Lasting, NEW o \in Invs, Starts(o),
         \A q \in Invs : At(q, "term")' =>
           \/ At(q, "term") /\ inv'[q].pid = inv[q].pid
           \/ \E n \in Names : inv'[q].pid = pidf[n].val
  PROVE  TermPids'
<1>1. SUFFICES ASSUME NEW q \in Invs, At(q, "term")', NEW p \in Pids, p = inv'[q].pid
               PROVE  proc'[p].st # "none" /\ Written(p)'
  BY DEF TermPids, TypeOK, InvType, Written
<1>2. proc[p].st # "none" /\ Written(p)
  BY <1>1 DEF TermPids, FiledPids, Is
<1> QED
  BY <1>2, WrittenStep DEF Lasting

LEMMA HelperStep ==
  ASSUME HelperPids, TypeOK, Lasting, \A m \in Names : why[m] \subseteq why'[m],
         \A q \in Invs : \A p \in inv'[q].procs : p \in inv[q].procs \/ proc[p].st # "none",
         \A h \in Helpers : inv'[h].pc \in {"kill", "confirm", "confirm_again"} =>
           \/ /\ inv[h].pc \in {"kill", "confirm", "confirm_again"}
              /\ inv'[h].pid = inv[h].pid /\ inv'[h].name = inv[h].name
           \/ Is(inv[h].pid, inv[h].name)',
         \A h \in Helpers : inv'[h].pc \notin {"none", "kill", "done"} =>
           \/ inv[h].pc \notin {"none", "kill", "done"} /\ inv'[h].name = inv[h].name
           \/ "moved" \in why'[inv'[h].name],
         TypeOK'
  PROVE  HelperPids'
<1>1. ASSUME NEW q \in Invs, NEW p \in inv'[q].procs PROVE proc'[p].st # "none"
  <2>1. p \in Pids /\ proc[p].st # "none"
    BY DEF HelperPids, TypeOK, InvType
  <2> QED
    BY <2>1 DEF Lasting
<1>2. ASSUME NEW h \in Helpers, inv'[h].pc \in {"kill", "confirm", "confirm_again"}
      PROVE  Is(inv[h].pid, inv[h].name)'
  <2>1. PICK p \in Pids : p = inv[h].pid
    BY DEF TypeOK, InvType, Invs
  <2>2. inv[h].pc \in {"kill", "confirm", "confirm_again"} => Is(p, inv[h].name)
    BY <2>1 DEF HelperPids
  <2> QED
    BY <1>2, <2>1, <2>2 DEF Is, Lasting
<1>3. ASSUME NEW h \in Helpers, inv'[h].pc \notin {"none", "kill", "done"}
      PROVE  "moved" \in why'[inv'[h].name]
  <2>1. inv[h].name \in Names
    BY DEF TypeOK, InvType, Invs
  <2> QED
    BY <1>3, <2>1 DEF HelperPids
<1> QED
  BY <1>1, <1>2, <1>3 DEF HelperPids

\* One daemon of a name: nothing about it changes but that it may die.
SameOne(n) ==
  /\ \A p \in Live(n)' : p \in Live(n)
  /\ pidf'[n] = pidf[n]
  /\ \A q \in Invs : Starting(q)' /\ inv'[q].name = n =>
       Starting(q) /\ inv[q].name = n /\ inv'[q].pid = inv[q].pid /\ proc'[inv[q].pid].st = "up"
  /\ \A q \in Invs : Starting(q) /\ inv[q].name = n => inv'[q] = inv[q]

LEMMA OneFrame ==
  ASSUME NEW n \in Names, One(n), SameOne(n)
  PROVE  One(n)'
<1>1. ASSUME NEW q \in Invs, Starting(q)', inv'[q].name = n PROVE proc'[inv'[q].pid].st = "up"
  BY <1>1 DEF SameOne
<1>2. \A p, q \in Live(n)' : p = q
  BY DEF One, SameOne
<1>3. ASSUME NEW p \in Live(n)' PROVE Filed(p, n)'
  <2>1. Filed(p, n)
    BY <1>3 DEF One, SameOne
  <2>2. CASE pidf[n].val = p
    BY <2>2 DEF Filed, SameOne
  <2>3. ASSUME NEW o \in Invs, Starting(o), inv[o].name = n, inv[o].pid = p,
               At(o, "write") => pidf[n].gen = inv[o].gen /\ pidf[n].val = Empty
        PROVE  Filed(p, n)'
    <3>1. inv'[o] = inv[o] /\ pidf'[n] = pidf[n]
      BY <2>3 DEF SameOne
    <3> QED
      BY <2>3, <3>1 DEF Filed, Starting, At
  <2> QED
    BY <2>1, <2>2, <2>3 DEF Filed
<1> QED
  BY <1>1, <1>2, <1>3 DEF One

NowBlamed(n) == why'[n] \cap {"double", "swept", "moved", "unready"} # {}

\* A name that is not blamed after a step was not blamed before it.
LEMMA BlamedStep ==
  ASSUME OneEach, NEW n \in Names, why[n] \subseteq why'[n], ~NowBlamed(n)
  PROVE  One(n)
BY DEF OneEach, Blamed, NowBlamed

\* A process that comes up has others to blame for it, and one that dies too,
\* unless it is on file.
Explained == \A p \in Pids :
  /\ proc'[p].st = "up" => proc[p].st = "up" \/ NowBlamed(proc'[p].name)
  /\ proc[p].st = "up" => proc'[p].st = "up" \/ Written(p) \/ NowBlamed(proc[p].name)

\* Steps that keep the files, and kill only what is written or to blame.
LEMMA OneStep ==
  ASSUME TypeOK, TypeOK', OwnPids, OneEach, Lasting, pidf' = pidf,
         \A m \in Names : why[m] \subseteq why'[m],
         \A q \in Invs : Starting(q) \/ Starting(q)' => inv'[q] = inv[q],
         Explained
  PROVE  OneEach'
<1>1. SUFFICES ASSUME NEW n \in Names, ~NowBlamed(n) PROVE One(n)'
  BY DEF OneEach, Blamed, NowBlamed
<1>2. One(n)
  BY <1>1, BlamedStep
<1>3. \A p \in Live(n)' : p \in Live(n)
  BY <1>1 DEF Live, Lasting, Explained
<1>4. ASSUME NEW q \in Invs, Starting(q), inv[q].name = n PROVE proc'[inv[q].pid].st = "up"
  <2>1. PICK p \in Pids : p = inv[q].pid
    BY DEF TypeOK, InvType
  <2>2. proc[p].st = "up" /\ proc[p].name = n /\ ~Written(p)
    BY <1>2, <1>4, <2>1 DEF One, OwnPids, Is, Written
  <2> QED
    BY <1>1, <2>1, <2>2 DEF Explained
<1>5. \A q \in Invs : Starting(q)' => Starting(q)
  BY DEF Starting
<1>6. SameOne(n)
  BY <1>3, <1>4, <1>5 DEF SameOne
<1> QED
  BY <1>2, <1>6, OneFrame

\* A step of an invocation that starts nothing and leaves the PID files alone.
GoesOn(o) ==
  /\ \A p \in inv'[o].procs : p \in inv[o].procs \/ proc[p].st # "none"
  /\ inv'[o].pc = "term" => \E n \in Names : inv'[o].pid = pidf[n].val
  /\ o \in Helpers /\ inv'[o].pc \in {"kill", "confirm", "confirm_again"} => Is(inv[o].pid, inv[o].name)'
  /\ o \in Helpers /\ inv'[o].pc \notin {"none", "kill", "done"} =>
       inv[o].pc \notin {"none", "kill", "done"} \/ "moved" \in why'[inv'[o].name]

LEMMA QuietStep ==
  ASSUME TypeOK, TypeOK', PidInv, NEW o \in Invs, Alone(o), GoesOn(o), ~Starting(o), ~Starting(o)',
         Lasting, Explained, pidf' = pidf, \A m \in Names : why[m] \subseteq why'[m]
  PROVE  PidInv'
<1>1. \A q \in Invs : q # o => inv'[q] = inv[q]
  BY DEF Alone
<1>2. \A q \in Invs : Starting(q) \/ Starting(q)' => inv'[q] = inv[q]
  BY <1>1
<1>3. Starts(o)
  BY <1>1 DEF Starts, Starting
<1>4. OwnPids'
  BY <1>3, OwnStep DEF PidInv
<1>5. FiledPids'
  BY <1>3, FiledStep DEF PidInv
<1>6. TermPids'
  <2>1. \A q \in Invs : At(q, "term")' =>
          \/ At(q, "term") /\ inv'[q].pid = inv[q].pid
          \/ \E n \in Names : inv'[q].pid = pidf[n].val
    BY <1>1 DEF GoesOn, At
  <2> QED
    BY <1>3, <2>1, TermStep DEF PidInv
<1>7. HelperPids'
  <2>1. \A q \in Invs : \A p \in inv'[q].procs : p \in inv[q].procs \/ proc[p].st # "none"
    BY <1>1 DEF GoesOn
  <2>2. \A h \in Helpers : inv'[h].pc \in {"kill", "confirm", "confirm_again"} =>
           \/ /\ inv[h].pc \in {"kill", "confirm", "confirm_again"}
              /\ inv'[h].pid = inv[h].pid /\ inv'[h].name = inv[h].name
           \/ Is(inv[h].pid, inv[h].name)'
    BY <1>1 DEF GoesOn, Invs
  <2>3. \A h \in Helpers : inv'[h].pc \notin {"none", "kill", "done"} =>
           \/ inv[h].pc \notin {"none", "kill", "done"} /\ inv'[h].name = inv[h].name
           \/ "moved" \in why'[inv'[h].name]
    BY <1>1 DEF GoesOn, Invs, Alone
  <2> QED
    BY <2>1, <2>2, <2>3, HelperStep DEF PidInv
<1>8. OneEach'
  BY <1>2, OneStep DEF PidInv
<1> QED
  BY <1>4, <1>5, <1>6, <1>7, <1>8 DEF PidInv

\* Processes that stay as they are.
LEMMA SameProcs ==
  ASSUME proc' = proc \/ \A p \in Pids : proc'[p].st = proc[p].st /\ proc'[p].name = proc[p].name
  PROVE  Lasting /\ Explained
BY DEF Lasting, Explained

\* A kill of a process that is on file, or whose name is to blame for it.
LEMMA KilledSteps ==
  ASSUME TypeOK, NEW p \in Pids, Killed(p), Written(p) \/ NowBlamed(proc[p].name)
  PROVE  Lasting /\ Explained
<1>1. /\ \A q \in Pids : q # p => proc'[q] = proc[q]
      /\ \A q \in Pids : /\ proc'[q].name = proc[q].name
                         /\ proc'[q].st = "none" <=> proc[q].st = "none"
                         /\ proc'[q].st = "up" => proc[q].st = "up"
  BY KilledFacts
<1> QED
  BY <1>1 DEF Lasting, Explained

\* The four steps of one invocation that OneStep does not cover: the other
\* invariants hold after them as they do after any step of an operation.
LEMMA OperationStep ==
  ASSUME TypeOK, TypeOK', PidInv, NEW o \in Ops, o \notin Helpers, Alone(o), Starts(o), Lasting,
         inv'[o].procs = inv[o].procs, inv'[o].pc # "term",
         \A m \in Names : why[m] \subseteq why'[m]
  PROVE  OwnPids' /\ TermPids' /\ HelperPids'
<1>1. o \in Invs /\ \A q \in Invs : q # o => inv'[q] = inv[q]
  BY DEF Alone, Invs
<1>2. OwnPids'
  BY <1>1, OwnStep DEF PidInv
<1>3. TermPids'
  BY <1>1, TermStep DEF PidInv, At
<1>4. HelperPids'
  <2>1. \A q \in Invs : \A p \in inv'[q].procs : p \in inv[q].procs
    BY <1>1
  <2>2. \A h \in Helpers : inv'[h] = inv[h]
    BY <1>1 DEF Invs
  <2> QED
    BY <2>1, <2>2, HelperStep DEF PidInv
<1> QED
  BY <1>2, <1>3, <1>4

LEMMA SpawnsPids ==
  ASSUME TypeOK, TypeOK', PidInv, NEW o \in Ops, o \notin Helpers, Spawns(o)
  PROVE  PidInv'
<1>1. /\ Alone(o) /\ At(o, "spawn") /\ UNCHANGED pidf /\ inv'[o].procs = inv[o].procs
      /\ \A m \in Names : why[m] \subseteq why'[m]
      /\ \/ inv'[o].pc = "done" /\ UNCHANGED <<proc, why>>
         \/ /\ inv'[o].pc = "truncate" /\ proc[inv'[o].pid].st = "none"
            /\ proc'[inv'[o].pid].st = "up" /\ proc'[inv'[o].pid].name = inv[o].name
            /\ \A q \in Pids : q # inv'[o].pid => proc'[q] = proc[q]
            /\ Live(inv[o].name) # {} => "double" \in why'[inv[o].name]
  BY SpawnsFacts DEF Invs
<1>2. /\ \A q \in Invs : q # o => inv'[q] = inv[q]
      /\ inv'[o].name = inv[o].name /\ ~Starting(o) /\ o \in Invs
  BY <1>1 DEF Alone, Starting, At, Invs
<1>3. CASE inv'[o].pc = "done" /\ UNCHANGED <<proc, why>>
  <2>1. GoesOn(o) /\ ~Starting(o)'
    BY <1>1, <1>3 DEF GoesOn, Starting
  <2> QED
    BY <1>1, <1>2, <1>3, <2>1, SameProcs, QuietStep
<1>4. CASE inv'[o].pc = "truncate" /\ proc[inv'[o].pid].st = "none"
  <2>1. PICK p \in Pids, n \in Names : p = inv'[o].pid /\ n = inv[o].name
    BY <1>2 DEF TypeOK, InvType
  <2>2. /\ proc[p].st = "none" /\ proc'[p].st = "up" /\ proc'[p].name = n
        /\ \A q \in Pids : q # p => proc'[q] = proc[q]
        /\ Live(n) # {} => "double" \in why'[n]
    BY <1>1, <1>4, <2>1
  <2>3. Lasting
    BY <2>2 DEF Lasting
  <2>4. Starts(o)
    BY <1>2, <1>4, <2>1, <2>2 DEF Starts, Starting, Is
  <2>5. OwnPids' /\ TermPids' /\ HelperPids'
    BY <1>1, <1>4, <2>3, <2>4, OperationStep
  <2>6. FiledPids'
    BY <1>1, <1>2, <2>3, <2>4, FiledStep DEF PidInv
  <2>7. ASSUME NEW m \in Names, ~NowBlamed(m) PROVE One(m)'
    <3>1. One(m)
      BY <1>1, <2>7, BlamedStep DEF PidInv
    <3>2. CASE m # n
      <4>1. SameOne(m)
        <5>1. \A q \in Live(m)' : q \in Live(m)
          BY <2>2, <3>2 DEF Live
        <5>2. ASSUME NEW q \in Invs, Starting(q)', inv'[q].name = m
              PROVE  /\ Starting(q) /\ inv[q].name = m /\ inv'[q].pid = inv[q].pid
                     /\ proc'[inv[q].pid].st = "up"
          <6>1. q # o /\ inv'[q] = inv[q]
            BY <1>2, <2>1, <3>2, <5>2
          <6>2. PICK r \in Pids : r = inv[q].pid
            BY DEF TypeOK, InvType
          <6>3. Starting(q) /\ proc[r].st = "up"
            BY <3>1, <5>2, <6>1, <6>2 DEF One, Starting
          <6> QED
            BY <2>2, <5>2, <6>1, <6>2, <6>3
        <5> QED
          BY <1>1, <1>2, <5>1, <5>2 DEF SameOne
      <4> QED
        BY <3>1, <4>1, OneFrame
    <3>3. CASE m = n
      <4>1. Live(n) = {}
        BY <2>2, <2>7, <3>3 DEF NowBlamed
      <4>2. \A q \in Live(n)' : q = p
        BY <2>2, <4>1 DEF Live
      <4>3. Filed(p, n)'
        BY <1>2, <1>4, <2>1 DEF Filed, Starting, At
      <4>4. ASSUME NEW q \in Invs, Starting(q)', inv'[q].name = n, q # o PROVE FALSE
        <5>1. inv'[q] = inv[q]
          BY <1>2, <4>4
        <5>2. PICK r \in Pids : r = inv[q].pid
          BY DEF TypeOK, InvType
        <5>3. Starting(q) /\ inv[q].name = n /\ proc[r].st = "up" /\ proc[r].name = n
          BY <3>1, <3>3, <4>4, <5>1, <5>2 DEF One, Starting, PidInv, OwnPids, Is
        <5> QED
          BY <4>1, <5>3 DEF Live
      <4> QED
        BY <2>1, <2>2, <3>3, <4>2, <4>3, <4>4 DEF One
    <3> QED
      BY <3>2, <3>3
  <2>8. OneEach'
    BY <2>7 DEF OneEach, Blamed, NowBlamed
  <2> QED
    BY <2>5, <2>6, <2>8 DEF PidInv
<1> QED
  BY <1>1, <1>3, <1>4

\* Names whose file a step does not touch.
LEMMA OtherNames ==
  ASSUME TypeOK, NEW o \in Invs, NEW m \in Names, m # inv[o].name, One(m), Alone(o), proc' = proc,
         pidf'[m] = pidf[m]
  PROVE  One(m)'
<1>1. \A q \in Invs : /\ inv'[q].name = inv[q].name
                      /\ inv[q].name = m => inv'[q] = inv[q]
  BY DEF Alone
<1>2. \A p \in Live(m)' : p \in Live(m)
  BY DEF Live
<1>3. \A q \in Invs : inv'[q] = inv[q] => (Starting(q)' <=> Starting(q))
  BY DEF Starting
<1>4. SameOne(m)
  BY <1>1, <1>2, <1>3 DEF SameOne, One
<1> QED
  BY <1>4, OneFrame

\* The starter of a daemon that is alone holds the pid of the one that runs.
LEMMA StarterFacts ==
  ASSUME TypeOK, OwnPids, NEW o \in Invs, NEW n \in Names, One(n), Starting(o), inv[o].name = n
  PROVE  /\ inv[o].pid \in Live(n) /\ \A p \in Live(n) : p = inv[o].pid
         /\ \A q \in Invs : Starting(q) /\ inv[q].name = n => q = o
<1>1. ASSUME NEW q \in Invs, Starting(q), inv[q].name = n PROVE inv[q].pid \in Live(n)
  BY <1>1 DEF TypeOK, InvType, OwnPids, Is, One, Live
<1>2. \A p \in Live(n) : p = inv[o].pid
  BY <1>1 DEF One
<1> QED
  BY <1>1, <1>2 DEF OwnPids

LEMMA TruncatesPids ==
  ASSUME TypeOK, TypeOK', PidInv, NEW o \in Ops, o \notin Helpers, Truncates(o)
  PROVE  PidInv'
<1>1. PICK n \in Names : n = inv[o].name /\ o \in Invs
  BY DEF TypeOK, InvType, Invs
<1>2. /\ Alone(o) /\ At(o, "truncate") /\ inv'[o].pc = "write"
      /\ inv'[o].procs = inv[o].procs /\ inv'[o].pid = inv[o].pid
      /\ inv'[o].gen = pidf[n].gen /\ UNCHANGED <<proc, why>>
      /\ \A m \in Names : m # n => pidf'[m] = pidf[m]
      /\ pidf'[n].val = Empty /\ pidf'[n].gen = pidf[n].gen
  BY <1>1, TruncatesFacts
<1>3. /\ \A q \in Invs : q # o => inv'[q] = inv[q]
      /\ inv'[o].name = n /\ Starting(o)
  BY <1>1, <1>2 DEF Alone, Starting, At
<1>4. Starts(o)
  BY <1>1, <1>2, <1>3 DEF Starts, Starting
<1>5. Lasting /\ \A m \in Names : why[m] \subseteq why'[m]
  BY <1>2, SameProcs
<1>6. OwnPids' /\ TermPids' /\ HelperPids'
  BY <1>2, <1>4, <1>5, OperationStep
<1>7. Empty \notin Pids
  BY HostAssumption DEF Empty, Pids
<1>8. FiledPids'
  BY <1>1, <1>2, <1>4, <1>5, <1>7, FiledStep DEF PidInv
<1>9. ASSUME NEW m \in Names, ~NowBlamed(m) PROVE One(m)'
  <2>1. One(m)
    BY <1>5, <1>9, BlamedStep DEF PidInv
  <2>2. CASE m # n
    BY <1>1, <1>2, <2>1, <2>2, OtherNames
  <2>3. CASE m = n
    <3>1. /\ inv[o].pid \in Live(n) /\ \A p \in Live(n) : p = inv[o].pid
          /\ \A q \in Invs : Starting(q) /\ inv[q].name = n => q = o
      BY <1>1, <1>3, <2>1, <2>3, StarterFacts DEF PidInv
    <3>2. Live(n)' = Live(n)
      BY <1>2 DEF Live
    <3>3. \A p \in Live(n)' : Filed(p, n)'
      BY <1>1, <1>2, <1>3, <3>1, <3>2 DEF Filed, Starting, At
    <3>4. \A q \in Invs : Starting(q)' /\ inv'[q].name = n => q = o
      BY <1>3, <3>1 DEF Starting
    <3> QED
      BY <1>2, <2>3, <3>1, <3>2, <3>3, <3>4 DEF One, Live
  <2> QED
    BY <2>2, <2>3
<1>10. OneEach'
  BY <1>9 DEF OneEach, Blamed, NowBlamed
<1> QED
  BY <1>6, <1>8, <1>10 DEF PidInv

LEMMA WritesPids ==
  ASSUME TypeOK, TypeOK', PidInv, NEW o \in Ops, o \notin Helpers, Writes(o)
  PROVE  PidInv'
<1>1. PICK n \in Names, p \in Pids : n = inv[o].name /\ p = inv[o].pid /\ o \in Invs
  BY DEF TypeOK, InvType, Invs
<1>2. /\ Alone(o) /\ SamePid(o) /\ At(o, "write") /\ inv'[o].pc = "done" /\ UNCHANGED <<proc, why>>
      /\ \A m \in Names : m # n => pidf'[m] = pidf[m]
      /\ pidf'[n].gen = pidf[n].gen
      /\ pidf'[n].val = IF pidf[n].gen = inv[o].gen THEN p ELSE pidf[n].val
  BY <1>1, WritesFacts
<1>3. /\ \A q \in Invs : q # o => inv'[q] = inv[q]
      /\ inv'[o].name = n /\ Starting(o) /\ ~Starting(o)' /\ inv'[o].procs = inv[o].procs
  BY <1>1, <1>2 DEF Alone, SamePid, Starting, At
<1>4. Starts(o)
  BY <1>1, <1>2, <1>3 DEF Starts, Starting
<1>5. Lasting /\ \A m \in Names : why[m] \subseteq why'[m]
  BY <1>2, SameProcs
<1>6. OwnPids' /\ TermPids' /\ HelperPids'
  BY <1>2, <1>3, <1>4, <1>5, OperationStep
<1>7. Is(p, n) /\ Written(p)'
  BY <1>1, <1>3 DEF PidInv, OwnPids, Written, Starting
<1>8. FiledPids'
  <2>1. SUFFICES ASSUME NEW m \in Names, NEW r \in Pids, r = pidf'[m].val
                 PROVE  Is(r, m)' /\ Written(r)'
    BY DEF FiledPids, Is, Written
  <2>2. CASE r = pidf[m].val
    <3>1. Is(r, m) /\ Written(r)
      BY <2>2 DEF PidInv, FiledPids
    <3> QED
      BY <1>1, <1>2, <1>4, <3>1, WrittenStep DEF Is
  <2>3. CASE m = n /\ r = p
    BY <1>2, <1>7, <2>3 DEF Is
  <2> QED
    BY <1>2, <2>1, <2>2, <2>3
<1>9. ASSUME NEW m \in Names, ~NowBlamed(m) PROVE One(m)'
  <2>1. One(m)
    BY <1>5, <1>9, BlamedStep DEF PidInv
  <2>2. CASE m # n
    BY <1>1, <1>2, <2>1, <2>2, OtherNames
  <2>3. CASE m = n
    <3>1. /\ p \in Live(n) /\ \A r \in Live(n) : r = p
          /\ \A q \in Invs : Starting(q) /\ inv[q].name = n => q = o
      BY <1>1, <1>3, <2>1, <2>3, StarterFacts DEF PidInv
    <3>2. Live(n)' = Live(n)
      BY <1>2 DEF Live
    <3>3. pidf'[n].val = p
      <4>1. Filed(p, n)
        BY <2>1, <2>3, <3>1 DEF One
      <4>2. pidf[n].val = p \/ pidf[n].gen = inv[o].gen
        BY <1>2, <3>1, <4>1 DEF Filed
      <4> QED
        BY <1>2, <4>2
    <3>4. ~\E q \in Invs : Starting(q)' /\ inv'[q].name = n
      BY <1>3, <3>1 DEF Starting
    <3> QED
      BY <2>3, <3>1, <3>2, <3>3, <3>4 DEF One, Filed
  <2> QED
    BY <2>2, <2>3
<1>10. OneEach'
  BY <1>9 DEF OneEach, Blamed, NowBlamed
<1> QED
  BY <1>6, <1>8, <1>10 DEF PidInv

\* The PID file stays as it is, the child that it was for is killed.
LEMMA WriteFailsPids ==
  ASSUME TypeOK, TypeOK', PidInv, NEW o \in Ops, o \notin Helpers, WriteFails(o)
  PROVE  PidInv'
<1>1. PICK n \in Names, p \in Pids : n = inv[o].name /\ p = inv[o].pid /\ o \in Invs
  BY DEF TypeOK, InvType, Invs
<1>2. /\ Alone(o) /\ SamePid(o) /\ Starting(o) /\ inv'[o].pc = "done" /\ Killed(p)
      /\ UNCHANGED <<pidf, why>>
  BY <1>1, WriteFailsFacts DEF Starting
<1>3. /\ \A q \in Invs : q # o => inv'[q] = inv[q]
      /\ inv'[o].name = n /\ ~Starting(o)' /\ inv'[o].procs = inv[o].procs
  BY <1>1, <1>2 DEF Alone, SamePid, Starting
<1>4. Starts(o)
  BY <1>1, <1>2, <1>3 DEF Starts, Starting
<1>5. /\ \A q \in Pids : q # p => proc'[q] = proc[q]
      /\ \A q \in Pids : /\ proc'[q].name = proc[q].name
                         /\ proc'[q].st = "none" <=> proc[q].st = "none"
                         /\ proc'[q].st = "up" => proc[q].st = "up"
      /\ proc'[p].st # "up"
  BY <1>2, KilledFacts
<1>6. Lasting /\ \A m \in Names : why[m] \subseteq why'[m]
  BY <1>2, <1>5 DEF Lasting
<1>7. OwnPids' /\ TermPids' /\ HelperPids'
  BY <1>2, <1>3, <1>4, <1>6, OperationStep
<1>8. FiledPids'
  BY <1>1, <1>2, <1>4, <1>6, FiledStep DEF PidInv
<1>9. Is(p, n) /\ \A q \in Invs : Starting(q) /\ q # o => inv[q].pid # p
  BY <1>1, <1>2 DEF PidInv, OwnPids
<1>10. ASSUME NEW m \in Names, ~NowBlamed(m) PROVE One(m)'
  <2>1. One(m)
    BY <1>6, <1>10, BlamedStep DEF PidInv
  <2>2. \A r \in Live(m)' : r \in Live(m)
    BY <1>5 DEF Live
  <2>3. ASSUME NEW q \in Invs, Starting(q)', inv'[q].name = m
        PROVE  /\ q # o /\ Starting(q) /\ inv[q].name = m /\ inv'[q].pid = inv[q].pid
               /\ proc'[inv[q].pid].st = "up"
    <3>1. q # o /\ inv'[q] = inv[q] /\ Starting(q)
      BY <1>3, <2>3 DEF Starting
    <3>2. inv[q].pid \in Pids /\ inv[q].pid # p /\ proc[inv[q].pid].st = "up"
      BY <1>9, <2>1, <2>3, <3>1 DEF One, TypeOK, InvType
    <3> QED
      BY <1>5, <2>3, <3>1, <3>2
  <2>4. CASE m # n
    <3>1. \A q \in Invs : Starting(q) /\ inv[q].name = m => inv'[q] = inv[q]
      BY <1>1, <1>3, <2>4
    <3>2. SameOne(m)
      BY <1>2, <2>2, <2>3, <3>1 DEF SameOne
    <3> QED
      BY <2>1, <3>2, OneFrame
  <2>5. CASE m = n
    <3>1. \A r \in Live(n) : r = p
      BY <1>1, <1>2, <2>1, <2>5, StarterFacts DEF PidInv
    <3>2. Live(m)' = {}
      BY <1>5, <2>2, <2>5, <3>1 DEF Live
    <3> QED
      BY <2>3, <3>2 DEF One
  <2> QED
    BY <2>4, <2>5
<1>11. OneEach'
  BY <1>10 DEF OneEach, Blamed, NowBlamed
<1> QED
  BY <1>7, <1>8, <1>11 DEF PidInv

LEMMA SweepsPids ==
  ASSUME TypeOK, TypeOK', PidInv, NEW o \in Ops, o \notin Helpers, Sweeps(o) \/ Unlinks(o)
  PROVE  PidInv'
<1>1. PICK n \in Names : n = inv[o].name /\ o \in Invs
  BY DEF TypeOK, InvType, Invs
<1>2. /\ Alone(o) /\ SamePid(o) /\ inv[o].pc \in {"sweep", "remove"} /\ Removes(o) /\ UNCHANGED proc
      /\ inv'[o].pc = IF At(o, "sweep") THEN inv[o].then ELSE "done"
  BY <1>1, SweepsFacts
<1>3. inv'[o].pc \in {"none", "spawn", "remove", "done"}
  BY <1>1, <1>2 DEF TypeOK, InvType
<1>4. /\ \A q \in Invs : q # o => inv'[q] = inv[q]
      /\ inv'[o].name = n /\ ~Starting(o) /\ ~Starting(o)' /\ inv'[o].procs = inv[o].procs
  BY <1>1, <1>2, <1>3 DEF Alone, SamePid, Starting
<1>5. /\ \A m \in Names : m # n => pidf'[m] = pidf[m]
      /\ pidf'[n] = pidf[n] \/ pidf'[n].val = NoFile
      /\ pidf[n].val = Empty \/ pidf[n].val \in Live(n) => "swept" \in why'[n]
      /\ \A m \in Names : why[m] \subseteq why'[m]
  BY <1>1, <1>2, RemovesFacts
<1>6. Starts(o) /\ Lasting
  BY <1>2, <1>4, SameProcs DEF Starts, Starting
<1>7. OwnPids' /\ TermPids' /\ HelperPids'
  BY <1>2, <1>3, <1>4, <1>5, <1>6, OperationStep
<1>8. NoFile \notin Pids
  BY DEF NoFile, Pids
<1>9. FiledPids'
  BY <1>1, <1>5, <1>6, <1>8, FiledStep DEF PidInv
<1>10. ASSUME NEW m \in Names, ~NowBlamed(m) PROVE One(m)'
  <2>1. One(m)
    BY <1>5, <1>10, BlamedStep DEF PidInv
  <2>2. CASE m # n
    BY <1>1, <1>2, <1>5, <2>1, <2>2, OtherNames
  <2>3. CASE m = n
    <3>1. pidf[n].val # Empty /\ pidf[n].val \notin Live(n)
      BY <1>5, <1>10, <2>3 DEF NowBlamed
    <3>2. Live(n)' = Live(n)
      BY <1>2 DEF Live
    <3>3. \A q \in Invs : Starting(q) \/ Starting(q)' => inv'[q] = inv[q] /\ Starting(q)
      BY <1>4 DEF Starting
    <3>4. ASSUME NEW p \in Live(n) PROVE Filed(p, n)'
      <4>1. PICK q \in Invs : /\ Starting(q) /\ inv[q].name = n /\ inv[q].pid = p
                              /\ ~At(q, "write")
        BY <2>1, <2>3, <3>1 DEF One, Filed
      <4> QED
        BY <3>3, <4>1 DEF Filed, Starting, At
    <3> QED
      BY <1>2, <2>1, <2>3, <3>2, <3>3, <3>4 DEF One
  <2> QED
    BY <2>2, <2>3
<1>11. OneEach'
  BY <1>10 DEF OneEach, Blamed, NowBlamed
<1> QED
  BY <1>7, <1>9, <1>11 DEF PidInv

LEMMA RunsPids ==
  ASSUME TypeOK, TypeOK', Roles, PidInv, NEW o \in Invs, Runs(o)
  PROVE  PidInv'
<1>1. /\ o \in Helpers => o \notin Ops /\ inv[o].pc \in HelperPcs
      /\ o \notin Helpers => o \in Ops /\ inv[o].pc \in OpPcs
      /\ inv[o].name \in Names /\ inv[o].pid \in Pids
  BY RoleFacts DEF Roles, TypeOK, InvType
<1>2. CASE Probes(o)
  <2>1. /\ Alone(o) /\ UNCHANGED <<proc, pidf, why>> /\ inv[o].pc \in {"probe", "wait"}
        /\ inv'[o].pc \in {"done", "term", "wait", "remove", "sweep", "spawn"}
        /\ inv'[o].pc = "term" => inv'[o].pid = pidf[inv[o].name].val
        /\ inv'[o].procs = inv[o].procs
    BY <1>2, ProbesFacts
  <2>2. o \notin Helpers
    BY <1>1, <2>1 DEF HelperPcs
  <2>3. GoesOn(o) /\ ~Starting(o) /\ ~Starting(o)'
    BY <1>1, <2>1, <2>2 DEF GoesOn, Starting
  <2> QED
    BY <2>1, <2>3, SameProcs, QuietStep
<1>3. CASE Sweeps(o) \/ Unlinks(o)
  <2>1. inv[o].pc \in {"sweep", "remove"}
    BY <1>3, SweepsFacts
  <2>2. o \in Ops /\ o \notin Helpers
    BY <1>1, <2>1 DEF HelperPcs
  <2> QED
    BY <1>3, <2>2, SweepsPids
<1>4. CASE Spawns(o) \/ Truncates(o) \/ Writes(o) \/ WriteFails(o)
  <2>1. inv[o].pc \in {"spawn", "truncate", "write"}
    BY <1>4 DEF Spawns, Truncates, Writes, WriteFails, At
  <2>2. o \in Ops /\ o \notin Helpers
    BY <1>1, <2>1 DEF HelperPcs
  <2> QED
    BY <1>4, <2>2, SpawnsPids, TruncatesPids, WritesPids, WriteFailsPids
<1>5. CASE Terminates(o)
  <2>1. /\ Alone(o) /\ SamePid(o) /\ At(o, "term") /\ inv'[o].pc \in {"wait", "remove"}
        /\ Killed(inv[o].pid) /\ UNCHANGED <<pidf, why>>
    BY <1>5, TerminatesFacts
  <2>2. Written(inv[o].pid)
    BY <2>1 DEF PidInv, TermPids
  <2>3. Lasting /\ Explained
    BY <1>1, <2>1, <2>2, KilledSteps
  <2>4. o \notin Helpers
    BY <1>1, <2>1 DEF HelperPcs, At
  <2>5. GoesOn(o) /\ ~Starting(o) /\ ~Starting(o)'
    BY <2>1, <2>4 DEF GoesOn, Starting, At, SamePid
  <2> QED
    BY <2>1, <2>3, <2>5, QuietStep
<1>6. CASE GivesUpWaiting(o) \/ Downloads(o)
  <2>1. PICK pc \in {"remove", "copy", "done"} :
          Goto(o, pc) /\ inv[o].pc \in {"wait", "download"} /\ UNCHANGED <<proc, pidf, why>>
    BY <1>6 DEF GivesUpWaiting, Downloads, At
  <2>2. Alone(o) /\ SamePid(o) /\ inv'[o].pc = pc
    BY <2>1, GotoFacts DEF Pcs
  <2>3. o \notin Helpers
    BY <1>1, <2>1 DEF HelperPcs
  <2>4. GoesOn(o) /\ ~Starting(o) /\ ~Starting(o)'
    BY <2>1, <2>2, <2>3 DEF GoesOn, Starting, SamePid
  <2> QED
    BY <2>1, <2>2, <2>4, SameProcs, QuietStep
<1>7. CASE CopyOpens(o) \/ CopyWrites(o) \/ CopyRenames(o) \/ CopyFails(o) \/ Swaps(o)
           \/ HelperRescues(o)
  <2>1. /\ Alone(o) /\ SamePid(o) /\ UNCHANGED <<proc, pidf>>
        /\ inv[o].pc \in {"copy", "copying", "copied", "swap", "rescue"}
        /\ inv'[o].pc \in {"done", "copying", "copied", "copy", "restart", After(o)}
        /\ \A m \in Names : why[m] \subseteq why'[m]
    BY <1>7, CopyOpensFacts, CopyWritesFacts, CopyRenamesFacts, CopyFailsFacts, SwapsFacts,
       HelperRescuesFacts DEF At, Copying
  <2>2. inv'[o].pc \in {"done", "copying", "copied", "copy", "restart", "start_again", "swap"}
    BY <2>1 DEF After
  <2>3. GoesOn(o) /\ ~Starting(o) /\ ~Starting(o)'
    BY <2>1, <2>2 DEF GoesOn, Starting, SamePid
  <2> QED
    BY <2>1, <2>3, SameProcs, QuietStep
<1>8. CASE Updates(o)
  <2>1. /\ Alone(o) /\ At(o, "look") /\ UNCHANGED <<proc, pidf, why>>
        /\ inv'[o].pc \in {"done", "download", "restart"}
        /\ \A p \in inv'[o].procs : proc[p].st # "none"
    BY <1>8, UpdatesFacts
  <2>2. o \notin Helpers
    BY <1>1, <2>1 DEF HelperPcs, At
  <2>3. GoesOn(o) /\ ~Starting(o) /\ ~Starting(o)'
    BY <2>1, <2>2 DEF GoesOn, Starting, At
  <2> QED
    BY <2>1, <2>3, SameProcs, QuietStep
<1>9. CASE Restarts(o)
  <2>1. At(o, "restart") /\ UNCHANGED pidf /\ o \notin Helpers
    BY <1>1, <1>9, RestartsFacts DEF HelperPcs, At
  <2>2. CASE Alone(o) /\ SamePid(o) /\ inv'[o].pc = "done" /\ UNCHANGED <<proc, why>>
    <3>1. GoesOn(o) /\ ~Starting(o) /\ ~Starting(o)'
      BY <2>1, <2>2 DEF GoesOn, Starting, At, SamePid
    <3> QED
      BY <2>1, <2>2, <3>1, SameProcs, QuietStep
  <2>3. CASE InPlaceFacts(o)
    <3>1. GoesOn(o) /\ ~Starting(o) /\ ~Starting(o)' /\ Alone(o)
      BY <2>1, <2>3 DEF GoesOn, Starting, At, InPlaceFacts
    <3>2. Lasting /\ Explained /\ \A m \in Names : why[m] \subseteq why'[m]
      BY <2>3 DEF InPlaceFacts, Lasting, Explained, NowBlamed
    <3> QED
      BY <2>1, <3>1, <3>2, QuietStep
  <2>4. ASSUME NEW h \in Helpers, HandsOver(o, h) PROVE PidInv'
    <3>1. /\ At(h, "none") /\ h # o /\ h \in Invs /\ UNCHANGED <<proc, why>>
          /\ \A q \in Invs : q # o /\ q # h => inv'[q] = inv[q]
          /\ inv'[o].pc = "restart" /\ inv'[o].procs \subseteq inv[o].procs
          /\ inv'[h].pc = "kill" /\ inv'[h].pid \in inv[o].procs
          /\ inv'[h].name = proc[inv'[h].pid].name /\ inv'[h].procs = inv[h].procs
      BY <2>4 DEF HandsOver, Invs
    <3>2. ~Starting(o) /\ ~Starting(h) /\ ~Starting(o)' /\ ~Starting(h)'
      BY <2>1, <3>1 DEF Starting, At
    <3>3. \A q \in Invs : Starting(q) \/ Starting(q)' => inv'[q] = inv[q]
      BY <3>1, <3>2
    <3>4. Starts(o)
      BY <3>3 DEF Starts, Starting
    <3>5. Lasting /\ Explained /\ \A m \in Names : why[m] \subseteq why'[m]
      BY <3>1, SameProcs
    <3>6. OwnPids'
      BY <3>4, <3>5, OwnStep DEF PidInv
    <3>7. FiledPids'
      BY <2>1, <3>4, <3>5, FiledStep DEF PidInv
    <3>8. TermPids'
      <4>1. \A q \in Invs : At(q, "term")' => At(q, "term") /\ inv'[q].pid = inv[q].pid
        BY <3>1 DEF At
      <4> QED
        BY <3>4, <3>5, <4>1, TermStep DEF PidInv
    <3>9. HelperPids'
      <4>1. Is(inv[h].pid, inv[h].name)'
        BY <3>1 DEF PidInv, HelperPids, Is
      <4>2. \A q \in Invs : \A p \in inv'[q].procs : p \in inv[q].procs
        BY <3>1
      <4>3. \A g \in Helpers : inv'[g].pc \in {"kill", "confirm", "confirm_again"} =>
              \/ /\ inv[g].pc \in {"kill", "confirm", "confirm_again"}
                 /\ inv'[g].pid = inv[g].pid /\ inv'[g].name = inv[g].name
              \/ Is(inv[g].pid, inv[g].name)'
        BY <2>1, <3>1, <4>1 DEF Invs
      <4>4. \A g \in Helpers : inv'[g].pc \notin {"none", "kill", "done"} =>
              inv[g].pc \notin {"none", "kill", "done"} /\ inv'[g].name = inv[g].name
        BY <2>1, <3>1 DEF Invs
      <4> QED
        BY <3>5, <4>2, <4>3, <4>4, HelperStep DEF PidInv
    <3>10. OneEach'
      BY <2>1, <3>3, <3>5, OneStep DEF PidInv
    <3> QED
      BY <3>6, <3>7, <3>8, <3>9, <3>10 DEF PidInv
  <2> QED
    BY <1>9, <2>2, <2>3, <2>4, RestartsFacts
<1>10. CASE HelperStops(o)
  <2>1. /\ Alone(o) /\ SamePid(o) /\ At(o, "kill") /\ inv'[o].pc = "start"
        /\ Killed(inv[o].pid) /\ UNCHANGED pidf /\ "moved" \in why'[inv[o].name]
        /\ \A m \in Names : why[m] \subseteq why'[m]
    BY <1>10, HelperStopsFacts
  <2>2. o \in Helpers
    BY <1>1, <2>1 DEF OpPcs, At
  <2>3. proc[inv[o].pid].name = inv[o].name
    BY <2>1, <2>2 DEF PidInv, HelperPids, Is, At
  <2>4. NowBlamed(proc[inv[o].pid].name)
    BY <2>1, <2>3 DEF NowBlamed
  <2>5. Lasting /\ Explained
    BY <1>1, <2>1, <2>4, KilledSteps
  <2>6. inv'[o].name = inv[o].name
    BY <2>1 DEF Alone
  <2>7. GoesOn(o) /\ ~Starting(o) /\ ~Starting(o)'
    BY <2>1, <2>6 DEF GoesOn, Starting, At, SamePid
  <2> QED
    BY <2>1, <2>5, <2>7, QuietStep
<1>11. CASE HelperStarts(o)
  <2>1. /\ Alone(o) /\ UNCHANGED pidf /\ inv[o].pc \in {"start", "start_again"}
        /\ \A m \in Names : why[m] \subseteq why'[m]
        /\ inv'[o].procs = inv[o].procs
        /\ \/ inv'[o].pc \in {"done", "rescue"} /\ UNCHANGED proc
           \/ /\ inv'[o].pc \in {"confirm", "confirm_again"} /\ proc[inv'[o].pid].st = "none"
              /\ proc'[inv'[o].pid].st = "up" /\ proc'[inv'[o].pid].name = inv[o].name
              /\ \A q \in Pids : q # inv'[o].pid => proc'[q] = proc[q]
    BY <1>11, HelperStartsFacts
  <2>2. o \in Helpers /\ inv'[o].name = inv[o].name
    BY <1>1, <2>1 DEF OpPcs, Alone
  <2>3. NowBlamed(inv[o].name)
    BY <1>1, <2>1, <2>2 DEF PidInv, HelperPids, NowBlamed
  <2>4. ~Starting(o) /\ ~Starting(o)'
    BY <2>1 DEF Starting
  <2>5. CASE inv'[o].pc \in {"done", "rescue"} /\ UNCHANGED proc
    <3>1. GoesOn(o)
      BY <2>1, <2>5 DEF GoesOn
    <3> QED
      BY <2>1, <2>4, <2>5, <3>1, SameProcs, QuietStep
  <2>6. CASE inv'[o].pc \in {"confirm", "confirm_again"} /\ proc[inv'[o].pid].st = "none"
    <3>1. PICK p \in Pids : p = inv'[o].pid
      BY DEF TypeOK, InvType
    <3>2. /\ proc[p].st = "none" /\ proc'[p].st = "up" /\ proc'[p].name = inv[o].name
          /\ \A q \in Pids : q # p => proc'[q] = proc[q]
      BY <2>1, <2>6, <3>1
    <3>3. Lasting /\ Explained
      BY <2>3, <3>2 DEF Lasting, Explained
    <3>4. GoesOn(o)
      BY <2>1, <2>2, <2>6, <3>1, <3>2 DEF GoesOn, Is
    <3> QED
      BY <2>1, <2>4, <3>3, <3>4, QuietStep
  <2> QED
    BY <2>1, <2>5, <2>6
<1>12. CASE HelperConfirms(o)
  <2>1. /\ Alone(o) /\ SamePid(o) /\ inv[o].pc \in {"confirm", "confirm_again"} /\ UNCHANGED <<pidf, why>>
        /\ inv'[o].pc \in {"done", "rescue"} /\ (proc' = proc \/ Killed(inv[o].pid))
    BY <1>12, HelperConfirmsFacts
  <2>2. o \in Helpers
    BY <1>1, <2>1 DEF OpPcs
  <2>3. proc[inv[o].pid].name = inv[o].name /\ "moved" \in why[inv[o].name]
    BY <2>1, <2>2 DEF PidInv, HelperPids, Is
  <2>4. NowBlamed(proc[inv[o].pid].name)
    BY <2>1, <2>3 DEF NowBlamed
  <2>5. Lasting /\ Explained
    BY <1>1, <2>1, <2>4, KilledSteps, SameProcs
  <2>6. GoesOn(o) /\ ~Starting(o) /\ ~Starting(o)'
    BY <2>1 DEF GoesOn, Starting, SamePid
  <2> QED
    BY <2>1, <2>5, <2>6, QuietStep
<1> QED
  BY <1>2, <1>3, <1>4, <1>5, <1>6, <1>7, <1>8, <1>9, <1>10, <1>11, <1>12 DEF Runs

\* Steps of the processes themselves.
LEMMA ServesPids ==
  ASSUME TypeOK, PidInv, UNCHANGED <<inv, pidf, why>>,
         \A p \in Pids : proc'[p].st = proc[p].st /\ proc'[p].name = proc[p].name
  PROVE  PidInv'
<1>1. \A p \in Pids : \A n : Is(p, n)' <=> Is(p, n)
  BY DEF Is
<1>2. \A p : Written(p)' <=> Written(p)
  BY DEF Written, Starting
<1>3. \A o \in Invs : inv[o].pid \in Pids /\ inv[o].procs \subseteq Pids
  BY DEF TypeOK, InvType
<1>4. OwnPids' /\ FiledPids' /\ TermPids'
  BY <1>1, <1>2, <1>3 DEF PidInv, OwnPids, FiledPids, TermPids, Starting, At
<1>5. HelperPids'
  BY <1>1, <1>3 DEF PidInv, HelperPids, Invs
<1>6. \A n : Live(n)' = Live(n)
  BY DEF Live
<1>7. \A p, n : Filed(p, n)' <=> Filed(p, n)
  BY DEF Filed, Starting, At
<1>8. \A n : One(n) => One(n)'
  BY <1>3, <1>6, <1>7 DEF One, Starting
<1>9. OneEach'
  BY <1>8 DEF PidInv, OneEach, Blamed
<1> QED
  BY <1>4, <1>5, <1>9 DEF PidInv

---------------------------------------------------------------------------
(***************************************************************************)
(* The inductive invariant.                                                *)
(***************************************************************************)
LEMMA InitProcs ==
  ASSUME Init
  PROVE  /\ ProcTyped
         /\ \A p \in Pids : proc[p].usr2 = "no" /\ proc[p].work = {}
         /\ \A n \in Names : proc[FirstPid[n]].st # "none" /\ proc[FirstPid[n]].name = n
         /\ \A p \in Pids : proc[p].st # "none" => FirstPid[proc[p].name] = p
<1> DEFINE owners(p) == {n \in Names : FirstPid[n] = p}
           first(p) == CHOOSE m \in IF owners(p) = {} THEN Names ELSE owners(p) : TRUE
           one(p) == [Newborn(first(p), "v1") EXCEPT
              !.st = IF owners(p) = {} THEN "none" ELSE IF first(p) \in scn.up THEN "up" ELSE "gone",
              !.ready = owners(p) # {} /\ first(p) \in scn.up]
<1>1. proc = [p \in Pids |-> one(p)]
  BY DEF Init
<1>2. ASSUME NEW p \in Pids
      PROVE  first(p) \in Names /\ (owners(p) # {} => FirstPid[first(p)] = p)
  BY HostAssumption
<1>3. ASSUME NEW p \in Pids
      PROVE  /\ one(p) \in ProcType /\ one(p).usr2 = "no" /\ one(p).work = {} /\ one(p).name = first(p)
             /\ one(p).st # "none" <=> owners(p) # {}
  <2>1. PICK e \in ProcType : e = Newborn(first(p), "v1") /\ e.usr2 = "no" /\ e.work = {} /\ e.name = first(p)
    <3>1. PICK n \in Names, v \in {"v1", "v2"} : n = first(p) /\ v = "v1"
      BY <1>2
    <3>2. /\ Newborn(n, v) \in ProcType /\ Newborn(n, v).usr2 = "no" /\ Newborn(n, v).work = {}
          /\ Newborn(n, v).name = n
      BY NewbornFacts, ZenonT(40)
    <3> QED
      BY <3>1, <3>2
  <2>2. PICK st \in {"none", "up", "gone"}, b \in BOOLEAN :
          /\ st = IF owners(p) = {} THEN "none" ELSE IF first(p) \in scn.up THEN "up" ELSE "gone"
          /\ b = (owners(p) # {} /\ first(p) \in scn.up)
    OBVIOUS
  <2>3. one(p) = [e EXCEPT !.st = st, !.ready = b]
    BY <2>1, <2>2, Zenon
  <2>4. /\ [e EXCEPT !.st = st, !.ready = b] \in ProcType
        /\ [e EXCEPT !.st = st, !.ready = b].usr2 = e.usr2
        /\ [e EXCEPT !.st = st, !.ready = b].work = e.work
        /\ [e EXCEPT !.st = st, !.ready = b].name = e.name
        /\ [e EXCEPT !.st = st, !.ready = b].st = st
    BY DEF ProcType
  <2>5. st # "none" <=> owners(p) # {}
    BY <2>2
  <2> HIDE DEF one
  <2> QED
    BY <2>1, <2>3, <2>4, <2>5
<1> HIDE DEF one, owners, first
<1>4. \A p \in Pids : proc[p] = one(p)
  BY <1>1
<1>5. proc \in [Pids -> ProcType]
  BY <1>1, <1>3
<1>6. \A n \in Names : FirstPid[n] \in Pids /\ n \in owners(FirstPid[n])
  BY HostAssumption DEF owners
<1>7. \A n \in Names : first(FirstPid[n]) = n
  BY <1>2, <1>6, HostAssumption
<1> QED
  BY <1>2, <1>3, <1>4, <1>5, <1>6, <1>7 DEF ProcTyped

LEMMA InitTypes ==
  ASSUME Init
  PROVE  TypeOK /\ \A o \in Invs : inv[o].procs = {} /\ inv[o].pc = IF o \in Helpers THEN "none"
                                                                    ELSE FirstPc(scn.kind[o])
<1>1. scn \in Scenarios /\ scn.kind \in [Ops -> Commands] /\ scn.name \in [Ops -> Names]
  BY HostAssumption DEF Init, ScenarioType
<1>2. 1 \in Pids /\ 1 \in Inodes
  BY HostAssumption DEF Pids, Inodes
<1>3. \A k \in Commands : FirstPc(k) \in {"done", "probe", "look"}
  BY DEF Commands, FirstPc
<1>4. PICK b \in InvType : b = Blank /\ b.procs = {} /\ b.pc = "none" /\ b.then = "none"
  <2>1. PICK n \in Names : n = CHOOSE m \in Names : TRUE
    BY HostAssumption
  <2>2. [kind |-> "none", name |-> n, pc |-> "none", then |-> "none",
          gen |-> 0, pid |-> 1, procs |-> {}, from |-> 1, to |-> 1] \in InvType
    BY <1>2 DEF InvType, Commands, Pcs
  <2> QED
    BY <2>1, <2>2 DEF Blank
<1>5. ASSUME NEW o \in Invs
      PROVE  /\ inv[o] \in InvType /\ inv[o].procs = {}
             /\ inv[o].pc = IF o \in Helpers THEN "none" ELSE FirstPc(scn.kind[o])
  <2>1. CASE o \in Helpers
    <3>1. inv[o] = [b EXCEPT !.kind = "helper"]
      BY <1>4, <2>1 DEF Init
    <3> QED
      BY <1>4, <2>1, <3>1 DEF InvType
  <2>2. CASE o \notin Helpers
    <3>1. PICK k \in Commands, n \in Names, pc \in Pcs : k = scn.kind[o] /\ n = scn.name[o] /\ pc = FirstPc(k)
      BY <1>1, <1>3, <2>2 DEF Invs, Pcs
    <3>2. inv[o] = [b EXCEPT !.kind = k, !.name = n, !.pc = pc]
      BY <1>4, <2>2, <3>1 DEF Init
    <3> QED
      BY <1>4, <2>2, <3>1, <3>2 DEF InvType
  <2> QED
    BY <2>1, <2>2
<1>6. inv \in [Invs -> InvType]
  BY <1>5 DEF Init
<1>7. /\ ino \in [Inodes -> Contents \cup {"none"}]
      /\ file \in [{"exe", "bak", "baktmp", "exetmp"} -> {0} \cup Inodes]
  <2>1. /\ ino = [i \in Inodes |-> IF i = 1 THEN "v1" ELSE "none"]
        /\ file = [exe |-> 1, bak |-> 0, baktmp |-> 0, exetmp |-> 0]
    BY DEF Init
  <2>2. ino \in [Inodes -> Contents \cup {"none"}]
    BY <2>1 DEF Contents
  <2>3. file \in [{"exe", "bak", "baktmp", "exetmp"} -> {0} \cup Inodes]
    BY <1>2, <2>1
  <2> QED
    BY <2>2, <2>3
<1>8. pidf \in [Names -> [val : 0 .. Empty, gen : Nat]]
  <2>1. pidf = [n \in Names |-> [val |-> FirstPid[n], gen |-> 0]]
    BY DEF Init
  <2>2. \A n \in Names : FirstPid[n] \in 0 .. Empty
    BY HostAssumption DEF Empty, Pids
  <2> QED
    BY <2>1, <2>2
<1>9. cut \subseteq Work /\ why \in [Names -> SUBSET Causes]
  BY DEF Init
<1> QED
  BY <1>1, <1>5, <1>6, <1>7, <1>8, <1>9, InitProcs DEF TypeOK, ProcTyped

LEMMA InitInv ==
  ASSUME Init
  PROVE  IInv
<1>1. /\ TypeOK /\ \A o \in Invs : inv[o].procs = {}
      /\ \A h \in Helpers : inv[h].pc = "none"
      /\ \A o \in Ops : inv[o].pc \in {"done", "probe", "look"}
  <2>1. scn.kind \in [Ops -> Commands]
    BY HostAssumption DEF Init, ScenarioType
  <2>2. \A k \in Commands : FirstPc(k) \in {"done", "probe", "look"}
    BY DEF Commands, FirstPc
  <2> QED
    BY <2>1, <2>2, InitTypes, HostAssumption DEF Invs
<1>2. \A h \in Helpers : inv[h].kind = "helper"
  BY DEF Init, Invs, Blank
<1>3. Roles
  BY <1>1, <1>2 DEF Roles, HelperPcs, OpPcs, At
<1>4. WorkInv
  <2>1. cut = {}
    BY DEF Init
  <2>2. \A p \in Pids : Patient(proc[p])
    BY InitProcs DEF Patient
  <2> QED
    BY <2>1, <2>2 DEF WorkInv, SignalledWorkFinishes
<1>5. \A o \in Invs : ~Starting(o) /\ ~InCopy(o) /\ ~At(o, "term") /\ ~At(o, "copying") /\ ~At(o, "copied")
  BY <1>1 DEF Invs, Starting, InCopy, At
<1>6. ExeInv /\ WholeInv
  <2>1. file.bak = 0 /\ file.exetmp = 0 /\ file.exe = 1 /\ ino[1] = "v1"
    <3>1. /\ ino = [i \in Inodes |-> IF i = 1 THEN "v1" ELSE "none"]
          /\ file = [exe |-> 1, bak |-> 0, baktmp |-> 0, exetmp |-> 0]
      BY DEF Init
    <3>2. 1 \in Inodes
      BY HostAssumption DEF Inodes
    <3> QED
      BY <3>1, <3>2
  <2>2. BeforeBak
    BY <1>1, <1>5, <2>1 DEF BeforeBak, Good, At, Invs
  <2>3. file.baktmp = 0
    BY DEF Init
  <2>4. Whole
    BY <1>1, <1>5, <2>1, <2>3 DEF Whole, Copying, Good, Invs
  <2> QED
    BY <2>1, <2>2, <2>4 DEF ExeInv, WholeInv
<1>7. OwnPids /\ TermPids /\ HelperPids
  BY <1>1, <1>5 DEF OwnPids, TermPids, HelperPids
<1>8. \A n \in Names : pidf[n].val = FirstPid[n]
  BY DEF Init
<1>9. FiledPids
  BY <1>5, <1>8, InitProcs DEF FiledPids, Is, Written
<1>10. ASSUME NEW n \in Names PROVE One(n)
  <2>1. \A p \in Live(n) : p = pidf[n].val
    BY <1>8, InitProcs DEF Live
  <2> QED
    BY <1>5, <2>1 DEF One, Filed
<1> QED
  BY <1>1, <1>3, <1>4, <1>6, <1>7, <1>9, <1>10 DEF IInv, PidInv, OneEach

LEMMA NextInv ==
  ASSUME IInv, [Next]_vars
  PROVE  IInv'
<1>1. ASSUME NEW o \in Invs, Runs(o) PROVE IInv'
  BY <1>1, RunsTypes, RunsExe, RunsWhole, RunsPids DEF IInv
<1>2. ASSUME NEW p \in Pids, Serves(p) \/ WorkArrives(p) \/ \E w \in Work : WorkEnds(p, w) PROVE IInv'
  <2>1. /\ ProcTyped' /\ WorkInv' /\ cut' \subseteq Work
        /\ \A q \in Pids : proc'[q].st = proc[q].st /\ proc'[q].name = proc[q].name
        /\ UNCHANGED <<scn, inv, ino, file, pidf, why>>
    BY <1>2, ServesFacts DEF IInv
  <2>2. TypeOK'
    BY <2>1, TypeStep DEF IInv, TypeOK, Files
  <2>3. Roles'
    BY <2>1 DEF IInv, Roles, At
  <2>4. ExeInv' /\ WholeInv'
    BY <2>1, ExeFrame, WholeFrame DEF IInv, Copying, InCopy
  <2>5. PidInv'
    BY <2>1, ServesPids DEF IInv
  <2> QED
    BY <2>1, <2>2, <2>3, <2>4, <2>5 DEF IInv
<1>3. CASE UNCHANGED vars
  <2>1. UNCHANGED <<scn, inv, proc, ino, file, pidf, cut, why>>
    BY <1>3 DEF vars
  <2>2. TypeOK'
    BY <2>1 DEF IInv, TypeOK
  <2>3. Roles'
    BY <2>1 DEF IInv, Roles, At
  <2>4. WorkInv'
    BY <2>1, PatientStep DEF IInv
  <2>5. ExeInv' /\ WholeInv'
    BY <2>1, ExeFrame, WholeFrame DEF IInv, Copying, InCopy
  <2>6. PidInv'
    BY <2>1, ServesPids DEF IInv
  <2> QED
    BY <2>2, <2>3, <2>4, <2>5, <2>6 DEF IInv
<1> QED
  BY <1>1, <1>2, <1>3 DEF Next

LEMMA Inductive == Spec => []IInv
BY InitInv, NextInv, PTL DEF Spec

\* Type correctness, of every value and for any number of everything.
THEOREM HostTypes == Spec => []TypeOK
<1>1. IInv => TypeOK
  BY DEF IInv
<1> QED
  BY <1>1, Inductive, PTL

\* waitIdle: a restart in place cuts off no command that was running when it
\* was asked for, unless commands may run for over a minute.
THEOREM RestartsWait == Spec => []SignalledWorkFinishes
<1>1. IInv => SignalledWorkFinishes
  BY DEF IInv, WorkInv
<1> QED
  BY <1>1, Inductive, PTL

\* installRelease and the rollback: the path of the binary names a complete
\* file at every moment, whatever fails, but for a rollback that is under way,
\* one that failed (logged as ROLLBACK FAILED), and one from a .bak that two
\* updates wrote to.
THEOREM BinaryRunnable == Spec => []ExeRunnable
<1>1. IInv => ExeRunnable
  BY ExeInvRunnable DEF IInv
<1> QED
  BY <1>1, Inductive, PTL

\* startBackground, stopBackground and the restarts: when nothing is under way
\* the PID file names the one process that runs, unless one of the four things
\* happened that PidFileExact lists.
THEOREM PidFilesExact == Spec => []PidFileExact
<1>1. ASSUME IInv, AllDone, NEW n \in Names, ~Blamed(n), NEW p \in Live(n) PROVE pidf[n].val = p
  <2>1. Filed(p, n)
    BY <1>1 DEF IInv, PidInv, OneEach, One
  <2>2. \A o \in Invs : ~Starting(o)
    BY <1>1 DEF AllDone, Starting
  <2> QED
    BY <2>1, <2>2 DEF Filed
<1>2. IInv => PidFileExact
  BY <1>1 DEF PidFileExact, Blamed
<1> QED
  BY <1>2, Inductive, PTL
---------------------------------------------------------------------------
(***************************************************************************)
(* The rollback.  Without a second writer of .bak and without two helpers  *)
(* that roll back at once: .bak is the first release; no helper runs, and  *)
(* the binary is the first release, until the one update that wrote .bak   *)
(* has swapped the new one in; one helper rolls back at a time, and when   *)
(* it starts the daemon again the first release is back in place.          *)
(***************************************************************************)
Crowd == \E n \in Names : "crowd" \in why[n]
First(i) == i # 0 /\ ino[i] = "v1"
Rolling(h) == inv[h].pc \in {"copy", "copying", "copied", "start_again"}

BeforeRelease ==
  /\ First(file.exe)
  /\ \A h \in Helpers : At(h, "none")
  /\ \A o \in Ops : ~At(o, "swap") /\ ~At(o, "restart")
  /\ \A o \in Ops : At(o, "copying") => First(inv[o].from)
  /\ \A o \in Ops : At(o, "copied") => First(inv[o].to)
AfterRelease ==
  /\ First(file.bak)
  /\ \A o \in Ops : At(o, "swap") => /\ First(file.exe)
                                     /\ \A h \in Helpers : At(h, "none")
                                     /\ \A q \in Ops : ~At(q, "restart") /\ (At(q, "swap") => q = o)
  /\ \A g, h \in Helpers : Rolling(g) /\ Rolling(h) => g = h
  /\ \A h \in Helpers : InCopy(h) => file.exetmp # 0 /\ inv[h].to = file.exetmp
  /\ \A h \in Helpers : At(h, "copied") => First(file.exetmp)
  /\ \A h \in Helpers : At(h, "start_again") => First(file.exe)
ReleaseInv == Spoilt \/ Crowd \/ IF file.bak = 0 THEN BeforeRelease ELSE AfterRelease

(***************************************************************************)
(* Whoever takes a daemon's last working process away has to put one back: *)
(* a helper between its kill and the end of its rollback stands for the    *)
(* daemon.  Only a stop of the daemon does not.                            *)
(***************************************************************************)
Stands(h, n) == inv[h].name = n /\ inv[h].pc \in {"start", "confirm", "rescue", "copy", "copying",
                                                  "copied", "start_again"}
Runner(p, n) == p \in Live(n) /\ Works(proc[p].bin) /\ Written(p)
Served(n) == (\E p \in Pids : Runner(p, n)) \/ (\E h \in Helpers : Stands(h, n))
Excused(n) == why[n] \cap {"again", "crowd", "failed", "unready"} # {} \/ (scn.method = "reexec" /\ ~scn.works)

Asked == \A o \in Ops : inv[o].kind = scn.kind[o] /\ inv[o].name = scn.name[o]
StopPids == \A o \in Ops : At(o, "term") => inv[o].kind = "stop" /\ Is(inv[o].pid, inv[o].name)
Methods ==
  /\ \A h \in Helpers : ~At(h, "none") => scn.method = "helper"
  /\ \A p \in Pids : proc[p].usr2 # "no" => scn.method = "reexec"
ConfirmPids == \A h \in Helpers : At(h, "confirm") => Written(inv[h].pid)
BlamedAlike == \A m, n \in Names : why[m] \cap {"again", "crowd"} = why[n] \cap {"again", "crowd"}
ServedEach == \A n \in scn.up : Stopped(n) \/ Excused(n) \/ Served(n)
LeftInv == ReleaseInv /\ Asked /\ StopPids /\ Methods /\ ConfirmPids /\ BlamedAlike /\ ServedEach

\* Steps outside of copyFile, renames, rollbacks and handing over.
LEMMA ReleaseAlone ==
  ASSUME TypeOK, Roles, ReleaseInv, NEW o \in Invs, Alone(o), ino' = ino, file' = file,
         \A m \in Names : why[m] \subseteq why'[m],
         inv'[o].pc \notin {"copying", "copied", "start_again", "swap", "none"},
         inv'[o].pc = "restart" => inv[o].pc = "restart",
         o \in Helpers => inv[o].pc # "none" /\ inv'[o].pc # "copy"
  PROVE  ReleaseInv'
<1>1. /\ \A h \in Helpers : /\ At(h, "none")' <=> At(h, "none")
                            /\ Rolling(h)' => Rolling(h) /\ inv'[h] = inv[h]
                            /\ InCopy(h)' => InCopy(h) /\ inv'[h] = inv[h]
                            /\ At(h, "start_again")' => At(h, "start_again")
                            /\ At(h, "copied")' => At(h, "copied")
      /\ \A q \in Ops : /\ At(q, "copying")' => At(q, "copying") /\ inv'[q] = inv[q]
                        /\ At(q, "copied")' => At(q, "copied") /\ inv'[q] = inv[q]
                        /\ At(q, "swap")' => At(q, "swap")
                        /\ At(q, "restart")' => At(q, "restart")
  BY DEF Alone, At, Rolling, InCopy, Invs
<1>2. \A i : First(i)' <=> First(i)
  BY DEF First
<1>3. Spoilt \/ Crowd => Spoilt' \/ Crowd'
  BY DEF Spoilt, Again, Failed, Crowd
<1>4. ASSUME BeforeRelease PROVE BeforeRelease'
  BY <1>1, <1>2, <1>4 DEF BeforeRelease, First
<1>5. ASSUME AfterRelease PROVE AfterRelease'
  BY <1>1, <1>2, <1>5 DEF AfterRelease, First
<1> QED
  BY <1>3, <1>4, <1>5 DEF ReleaseInv

\* "Installs" is decided by what is at exe.
LEMMA UpdatesRestarts ==
  ASSUME TypeOK, NEW o \in Invs, Updates(o), inv'[o].pc = "restart"
  PROVE  Content("exe") # "v1"
<1>1. inv \in [Invs -> InvType]
  BY DEF TypeOK
<1> DEFINE found == IF inv[o].kind = "update" THEN {} ELSE {p \in Pids : proc[p].st = "up"}
           target == IF Installs THEN "v2" ELSE Content("exe")
           chosen == {p \in found : scn.force \/ Installs \/ proc[p].bin # target}
           next == IF inv[o].kind = "daemon_update" /\ found = {} THEN "done"
                   ELSE IF Installs THEN "download" ELSE "restart"
<1>2. PICK ps, pc : ps = chosen /\ pc = next
  OBVIOUS
<1>3. inv' = [inv EXCEPT ![o].procs = ps, ![o].pc = pc]
  BY <1>2 DEF Updates
<1>4. pc = "restart" => ~Installs
  BY <1>2
<1> HIDE DEF found, target, chosen, next
<1>5. inv'[o].pc = pc
  BY <1>1, <1>3 DEF InvType
<1> QED
  BY <1>4, <1>5 DEF Installs

LEMMA ReleaseUpdates ==
  ASSUME TypeOK, Roles, ReleaseInv, NEW o \in Invs, Updates(o)
  PROVE  ReleaseInv'
<1>1. /\ Alone(o) /\ At(o, "look") /\ inv'[o].pc \in {"done", "download", "restart"}
      /\ UNCHANGED <<ino, file, why>>
  BY UpdatesFacts
<1>2. o \in Ops /\ o \notin Helpers
  BY <1>1, RoleFacts DEF At, OpPcs, HelperPcs
<1>3. CASE inv'[o].pc # "restart"
  BY <1>1, <1>2, <1>3, ReleaseAlone
<1>4. CASE inv'[o].pc = "restart"
  <2>1. Content("exe") # "v1"
    BY <1>4, UpdatesRestarts
  <2>2. ~First(file.exe)
    BY <2>1 DEF First, Content
  <2>3. /\ \A h \in Helpers : inv'[h] = inv[h]
        /\ \A q \in Ops : q # o => inv'[q] = inv[q]
    BY <1>1, <1>2 DEF Alone, Invs
  <2>4. \A i : First(i)' <=> First(i)
    BY <1>1 DEF First
  <2>5. CASE Spoilt \/ Crowd
    BY <1>1, <2>5 DEF ReleaseInv, Spoilt, Again, Failed, Crowd
  <2>6. CASE ~Spoilt /\ ~Crowd
    <3>1. AfterRelease /\ file.bak # 0
      BY <2>2, <2>6 DEF ReleaseInv, BeforeRelease
    <3>2. AfterRelease'
      <4>1. \A q \in Ops : ~At(q, "swap")'
        BY <1>4, <2>2, <2>3, <3>1 DEF AfterRelease, At
      <4> QED
        BY <1>1, <2>3, <2>4, <3>1, <4>1 DEF AfterRelease, Rolling, InCopy, At, First
    <3> QED
      BY <1>1, <3>1, <3>2 DEF ReleaseInv
  <2> QED
    BY <2>5, <2>6
<1> QED
  BY <1>3, <1>4

LEMMA ReleaseHandsOver ==
  ASSUME TypeOK, Roles, ReleaseInv, NEW o \in Invs, At(o, "restart"), UNCHANGED <<ino, file>>,
         NEW h \in Helpers, HandsOver(o, h)
  PROVE  ReleaseInv'
<1>1. o \in Ops /\ o \notin Helpers /\ h \notin Ops /\ h \in Invs
  BY RoleFacts DEF At, OpPcs, HelperPcs, Invs
<1>2. /\ \A g \in Helpers : g # h => inv'[g] = inv[g]
      /\ \A q \in Ops : q # o => inv'[q] = inv[q]
      /\ inv'[o].pc = "restart" /\ inv'[h].pc = "kill" /\ UNCHANGED why
  BY <1>1 DEF HandsOver, Invs
<1>3. CASE Spoilt \/ Crowd
  BY <1>2, <1>3 DEF ReleaseInv, Spoilt, Again, Failed, Crowd
<1>4. CASE ~Spoilt /\ ~Crowd
  <2>1. AfterRelease /\ file.bak # 0
    BY <1>1, <1>4 DEF ReleaseInv, BeforeRelease
  <2>2. \A q \in Ops : ~At(q, "swap")'
    BY <1>1, <1>2, <2>1 DEF AfterRelease, At
  <2>3. AfterRelease'
    BY <1>2, <2>1, <2>2 DEF AfterRelease, Rolling, InCopy, At, First
  <2> QED
    BY <2>1, <2>3 DEF ReleaseInv
<1> QED
  BY <1>3, <1>4

LEMMA ReleaseOpens ==
  ASSUME TypeOK, Roles, ExeInv, ReleaseInv, NEW o \in Invs, CopyOpens(o)
  PROVE  ReleaseInv'
<1>1. /\ file \in [Files -> {0} \cup Inodes] /\ 0 \notin Inodes
      /\ ino \in [Inodes -> Contents \cup {"none"}]
      /\ o \in Ops <=> o \notin Helpers
  BY RoleFacts DEF TypeOK, Files, Inodes
<1>2. /\ Alone(o) /\ At(o, "copy") /\ \A m \in Names : why[m] \subseteq why'[m]
      /\ \/ /\ inv'[o].pc = "done" /\ UNCHANGED <<ino, file, why>>
         \/ /\ inv'[o].pc = "copying" /\ inv'[o].to \in Inodes
            /\ file[Source(o)] # 0 /\ inv'[o].from = file[Source(o)]
            /\ IF file[TmpFile(o)] = 0 THEN Fresh(inv'[o].to) ELSE inv'[o].to = file[TmpFile(o)]
            /\ ino' = [ino EXCEPT ![inv'[o].to] = "part"]
            /\ file' = [file EXCEPT ![TmpFile(o)] = inv'[o].to]
            /\ o \notin Helpers /\ (file.bak # 0 \/ file.baktmp # 0) => \A m \in Names : "again" \in why'[m]
  BY CopyOpensFacts
<1>3. SUFFICES ASSUME ~Spoilt', ~Crowd' PROVE ReleaseInv'
  BY DEF ReleaseInv
<1>4. ~Spoilt /\ ~Crowd
  BY <1>2, <1>3 DEF Spoilt, Again, Failed, Crowd
<1>5. CASE inv'[o].pc = "done"
  <2>1. UNCHANGED <<ino, file>>
    BY <1>2, <1>5
  <2>2. o \in Helpers => inv[o].pc # "none" /\ inv'[o].pc # "copy"
    BY <1>2, <1>5 DEF At
  <2> QED
    BY <1>2, <1>5, <2>1, <2>2, ReleaseAlone
<1>6. CASE inv'[o].pc = "copying" /\ o \in Ops
  <2>1. /\ Source(o) = "exe" /\ TmpFile(o) = "baktmp"
    BY <1>1, <1>6 DEF Source, TmpFile
  <2>2. file.bak = 0 /\ file.baktmp = 0
    BY <1>1, <1>2, <1>3, <1>6, HostAssumption DEF Spoilt, Again
  <2>3. BeforeRelease /\ BeforeBak
    BY <1>4, <2>2 DEF ReleaseInv, ExeInv
  <2> DEFINE i == inv'[o].to
  <2>4. /\ i \in Inodes /\ Fresh(i) /\ ino' = [ino EXCEPT ![i] = "part"]
        /\ file' = [file EXCEPT !.baktmp = i] /\ inv'[o].from = file.exe /\ inv'[o].pc = "copying"
    BY <1>1, <1>2, <1>6, <2>1, <2>2
  <2>5. i # file.exe /\ file'.exe = file.exe /\ file'.bak = 0
    BY <1>1, <2>2, <2>3, <2>4 DEF BeforeRelease, First, Fresh, Files
  <2>6. file.exe \in Inodes /\ First(file.exe)'
    BY <1>1, <2>3, <2>4, <2>5 DEF BeforeRelease, First, Files
  <2>7. \A q \in Ops : InCopy(q)' => q = o
    BY <1>2, <2>2, <2>3 DEF BeforeBak, Alone, InCopy, Invs
  <2>8. /\ \A h \in Helpers : inv'[h] = inv[h]
        /\ \A q \in Ops : q # o => inv'[q] = inv[q]
    BY <1>1, <1>2, <1>6 DEF Alone, Invs
  <2>9. BeforeRelease'
    <3>1. \A h \in Helpers : At(h, "none")'
      BY <2>3, <2>8 DEF BeforeRelease, At
    <3>2. \A q \in Ops : ~At(q, "swap")' /\ ~At(q, "restart")'
      BY <2>3, <2>4, <2>8 DEF BeforeRelease, At
    <3>3. \A q \in Ops : (At(q, "copying") => First(inv[q].from))'
      BY <2>4, <2>5, <2>6, <2>7 DEF At, InCopy
    <3>4. \A q \in Ops : ~At(q, "copied")'
      BY <2>4, <2>7 DEF At, InCopy
    <3> QED
      BY <2>5, <2>6, <3>1, <3>2, <3>3, <3>4 DEF BeforeRelease
  <2> QED
    BY <2>5, <2>9 DEF ReleaseInv
<1>7. CASE inv'[o].pc = "copying" /\ o \in Helpers
  <2>1. Source(o) = "bak" /\ TmpFile(o) = "exetmp"
    BY <1>7 DEF Source, TmpFile
  <2>2. file.bak # 0 /\ AfterRelease /\ AfterBak
    BY <1>2, <1>4, <1>7 DEF ReleaseInv, ExeInv, BeforeRelease, At
  <2> DEFINE i == inv'[o].to
  <2>3. /\ i \in Inodes /\ ino' = [ino EXCEPT ![i] = "part"]
        /\ file' = [file EXCEPT !.exetmp = i] /\ IF file.exetmp = 0 THEN Fresh(i) ELSE i = file.exetmp
    BY <1>1, <1>2, <1>7, <2>1
  <2>4. file.bak \in Inodes /\ i # file.bak /\ file'.bak = file.bak /\ file'.exetmp = i
    BY <1>1, <2>2, <2>3 DEF AfterRelease, AfterBak, First, Fresh, Files
  <2>5. First(file.bak)'
    BY <1>1, <2>2, <2>3, <2>4 DEF AfterRelease, First
  <2>6. \A h \in Helpers : Rolling(h)' => h = o
    BY <1>2, <1>7, <2>2 DEF AfterRelease, Alone, Rolling, At, Invs
  <2>7. \A q \in Ops : ~At(q, "swap")'
    BY <1>1, <1>2, <1>7, <2>2 DEF AfterRelease, Alone, At, Invs
  <2>8. AfterRelease'
    BY <1>1, <1>2, <1>7, <2>4, <2>5, <2>6, <2>7 DEF AfterRelease, Rolling, InCopy, At
  <2> QED
    BY <1>1, <2>2, <2>4, <2>8 DEF ReleaseInv
<1> QED
  BY <1>1, <1>2, <1>5, <1>6, <1>7 DEF Invs

LEMMA ReleaseWrites ==
  ASSUME TypeOK, Roles, ExeInv, ReleaseInv, NEW o \in Invs, CopyWrites(o)
  PROVE  ReleaseInv'
<1>1. /\ file \in [Files -> {0} \cup Inodes] /\ 0 \notin Inodes
      /\ ino \in [Inodes -> Contents \cup {"none"}]
      /\ o \in Ops <=> o \notin Helpers
  BY RoleFacts DEF TypeOK, Files, Inodes
<1>2. /\ Alone(o) /\ SameCopy(o) /\ At(o, "copying") /\ inv'[o].pc = "copied" /\ UNCHANGED <<file, why>>
      /\ inv[o].from \in Inodes /\ inv[o].to \in Inodes
  BY CopyWritesFacts
<1>3. PICK new : /\ ino' = [ino EXCEPT ![inv[o].to] = new]
                 /\ ino[inv[o].to] \in {"part", ino[inv[o].from]} => new = ino[inv[o].from]
  BY CopyWritesFacts
<1>4. CASE Spoilt \/ Crowd
  BY <1>2, <1>4 DEF ReleaseInv, Spoilt, Again, Failed, Crowd
<1>5. CASE ~Spoilt /\ ~Crowd /\ o \in Ops
  <2>1. file.bak = 0 /\ BeforeRelease /\ BeforeBak
    BY <1>2, <1>5 DEF ReleaseInv, ExeInv, AfterBak, InCopy, At
  <2>2. ino[inv[o].to] = "part" /\ ino[inv[o].from] = "v1"
    BY <1>2, <1>5, <2>1 DEF BeforeBak, BeforeRelease, First
  <2>3. ino' = [ino EXCEPT ![inv[o].to] = "v1"]
    BY <1>3, <2>2
  <2>4. \A i \in Inodes : First(i) => First(i)'
    BY <1>1, <2>3 DEF First
  <2>5. First(inv[o].to)' /\ inv'[o].to = inv[o].to
    BY <1>1, <1>2, <2>3 DEF First, SameCopy
  <2>6. \A q \in Ops : InCopy(q)' => q = o
    BY <1>2, <1>5, <2>1 DEF BeforeBak, Alone, InCopy, At, Invs
  <2>7. /\ \A h \in Helpers : inv'[h] = inv[h]
        /\ \A q \in Ops : q # o => inv'[q] = inv[q]
    BY <1>1, <1>2, <1>5 DEF Alone, Invs
  <2>8. First(file.exe)'
    BY <1>1, <1>2, <2>1, <2>4 DEF BeforeRelease, First, Files
  <2>9. BeforeRelease'
    <3>1. \A h \in Helpers : At(h, "none")'
      BY <2>1, <2>7 DEF BeforeRelease, At
    <3>2. \A q \in Ops : ~At(q, "swap")' /\ ~At(q, "restart")'
      BY <1>2, <2>1, <2>7 DEF BeforeRelease, At
    <3>3. \A q \in Ops : ~At(q, "copying")'
      BY <1>2, <2>6 DEF At, InCopy
    <3>4. \A q \in Ops : (At(q, "copied") => First(inv[q].to))'
      BY <2>5, <2>6 DEF At, InCopy, First
    <3> QED
      BY <2>8, <3>1, <3>2, <3>3, <3>4 DEF BeforeRelease
  <2> QED
    BY <1>2, <2>1, <2>9 DEF ReleaseInv
<1>6. CASE ~Spoilt /\ ~Crowd /\ o \in Helpers
  <2>1. file.bak # 0 /\ AfterRelease /\ AfterBak
    BY <1>2, <1>6 DEF ReleaseInv, ExeInv, BeforeRelease, At
  <2>2. /\ inv[o].from = file.bak /\ ino[inv[o].to] \in {"part", ino[file.bak]}
        /\ file.exetmp # 0 /\ inv[o].to = file.exetmp /\ ino[file.bak] = "v1"
    BY <1>2, <1>6, <2>1 DEF AfterRelease, AfterBak, InCopy, At, First
  <2>3. ino' = [ino EXCEPT ![file.exetmp] = "v1"]
    BY <1>3, <2>2
  <2>4. \A i \in Inodes : First(i) => First(i)'
    BY <1>1, <2>3 DEF First
  <2>5. First(file.exetmp)' /\ First(file.bak)'
    <3>1. file.exetmp \in Inodes /\ file.bak \in Inodes /\ First(file.bak)
      BY <1>1, <1>2, <2>1, <2>2 DEF AfterRelease, Files
    <3> QED
      BY <1>1, <1>2, <2>2, <2>3, <2>4, <3>1 DEF First
  <2>6. \A h \in Helpers : Rolling(h)' => h = o
    BY <1>2, <1>6, <2>1 DEF AfterRelease, Alone, Rolling, At, Invs
  <2>7. \A q \in Ops : ~At(q, "swap")'
    BY <1>1, <1>2, <1>6, <2>1 DEF AfterRelease, Alone, At, Invs
  <2>8. AfterRelease'
    BY <1>1, <1>2, <1>6, <2>2, <2>5, <2>6, <2>7 DEF AfterRelease, Rolling, InCopy, At, SameCopy
  <2> QED
    BY <1>2, <2>1, <2>8 DEF ReleaseInv
<1> QED
  BY <1>1, <1>4, <1>5, <1>6

LEMMA ReleaseRenames ==
  ASSUME TypeOK, Roles, ExeInv, ReleaseInv, NEW o \in Invs, CopyRenames(o)
  PROVE  ReleaseInv'
<1>1. /\ file \in [Files -> {0} \cup Inodes]
      /\ o \in Ops <=> o \notin Helpers
  BY RoleFacts DEF TypeOK, Files
<1>2. /\ Alone(o) /\ At(o, "copied") /\ UNCHANGED <<ino, why>>
      /\ \/ file[TmpFile(o)] = 0 /\ inv'[o].pc = "done" /\ UNCHANGED file
         \/ /\ file[TmpFile(o)] # 0 /\ inv'[o].pc = After(o)
            /\ file' = [file EXCEPT ![Target(o)] = file[TmpFile(o)], ![TmpFile(o)] = 0]
  BY CopyRenamesFacts
<1>3. \A i : First(i)' <=> First(i)
  BY <1>2 DEF First
<1>4. CASE Spoilt \/ Crowd
  BY <1>2, <1>4 DEF ReleaseInv, Spoilt, Again, Failed, Crowd
<1>5. CASE ~Spoilt /\ ~Crowd /\ o \in Ops
  <2>1. file.bak = 0 /\ BeforeRelease /\ BeforeBak
    BY <1>2, <1>5 DEF ReleaseInv, ExeInv, AfterBak, InCopy, At
  <2>2. file.baktmp # 0 /\ inv[o].to = file.baktmp /\ First(file.baktmp)
    BY <1>2, <1>5, <2>1 DEF BeforeBak, BeforeRelease, InCopy, At
  <2>3. inv'[o].pc = "swap" /\ file' = [file EXCEPT !.bak = file.baktmp, !.baktmp = 0]
    BY <1>1, <1>2, <1>5, <2>2 DEF After, TmpFile, Target
  <2>4. file'.bak = file.baktmp /\ file'.exe = file.exe
    BY <1>1, <2>3 DEF Files
  <2>5. \A h \in Helpers : At(h, "none")' /\ ~Rolling(h)' /\ ~InCopy(h)' /\ ~At(h, "copied")' /\ ~At(h, "start_again")'
    BY <1>1, <1>2, <1>5, <2>1 DEF BeforeRelease, Alone, At, Rolling, InCopy, Invs
  <2>6. \A q \in Ops : ~At(q, "restart")' /\ (At(q, "swap")' => q = o)
    BY <1>2, <1>5, <2>1, <2>3 DEF BeforeRelease, Alone, At, Invs
  <2>7. First(file.bak)' /\ First(file.exe)'
    BY <1>3, <2>1, <2>2, <2>4 DEF BeforeRelease, First
  <2>8. AfterRelease'
    BY <2>5, <2>6, <2>7 DEF AfterRelease
  <2> QED
    BY <2>2, <2>4, <2>8 DEF ReleaseInv
<1>6. CASE ~Spoilt /\ ~Crowd /\ o \in Helpers
  <2>1. file.bak # 0 /\ AfterRelease
    BY <1>2, <1>6 DEF ReleaseInv, BeforeRelease, At
  <2>2. file.exetmp # 0 /\ First(file.exetmp)
    BY <1>2, <1>6, <2>1 DEF AfterRelease, InCopy, At
  <2>3. inv'[o].pc = "start_again" /\ file' = [file EXCEPT !.exe = file.exetmp, !.exetmp = 0]
    BY <1>2, <1>6, <2>2 DEF After, TmpFile, Target
  <2>4. file'.bak = file.bak /\ file'.exe = file.exetmp
    BY <1>1, <2>3 DEF Files
  <2>5. \A h \in Helpers : Rolling(h)' => h = o
    BY <1>2, <1>6, <2>1 DEF AfterRelease, Alone, Rolling, At, Invs
  <2>6. \A q \in Ops : ~At(q, "swap")'
    BY <1>1, <1>2, <1>6, <2>1 DEF AfterRelease, Alone, At, Invs
  <2>7. First(file.bak)' /\ First(file.exe)'
    BY <1>3, <2>1, <2>2, <2>4 DEF AfterRelease, First
  <2>8. AfterRelease'
    BY <1>6, <2>3, <2>5, <2>6, <2>7 DEF AfterRelease, Rolling, InCopy, At
  <2> QED
    BY <2>1, <2>4, <2>8 DEF ReleaseInv
<1> QED
  BY <1>1, <1>4, <1>5, <1>6

LEMMA ReleaseSwaps ==
  ASSUME TypeOK, Roles, ReleaseInv, NEW o \in Invs, Swaps(o)
  PROVE  ReleaseInv'
<1>1. /\ file \in [Files -> {0} \cup Inodes] /\ ino \in [Inodes -> Contents \cup {"none"}]
      /\ Alone(o) /\ At(o, "swap") /\ UNCHANGED why
      /\ \/ inv'[o].pc = "restart" /\ \E i \in Inodes : /\ Fresh(i) /\ ino' = [ino EXCEPT ![i] = "v2"]
                                                        /\ file' = [file EXCEPT !.exe = i]
         \/ inv'[o].pc = "done" /\ UNCHANGED <<ino, file>>
  BY SwapsFacts DEF TypeOK, Files
<1>2. o \in Ops /\ o \notin Helpers
  BY <1>1, RoleFacts DEF At, OpPcs, HelperPcs
<1>3. CASE inv'[o].pc = "done"
  BY <1>1, <1>2, <1>3, ReleaseAlone
<1>4. CASE Spoilt \/ Crowd
  BY <1>1, <1>4 DEF ReleaseInv, Spoilt, Again, Failed, Crowd
<1>5. CASE ~Spoilt /\ ~Crowd /\ inv'[o].pc # "done"
  <2>0. PICK i \in Inodes : /\ Fresh(i) /\ ino' = [ino EXCEPT ![i] = "v2"]
                            /\ file' = [file EXCEPT !.exe = i]
    BY <1>1, <1>5
  <2>1. file.bak # 0 /\ AfterRelease
    BY <1>1, <1>2, <1>5 DEF ReleaseInv, BeforeRelease
  <2>2. file'.bak = file.bak /\ file.bak \in Inodes /\ i # file.bak
    BY <1>1, <2>0, <2>1 DEF AfterRelease, First, Fresh, Files
  <2>3. First(file.bak)'
    BY <1>1, <2>0, <2>1, <2>2 DEF AfterRelease, First
  <2>4. \A h \in Helpers : ~Rolling(h)' /\ ~InCopy(h)' /\ ~At(h, "copied")' /\ ~At(h, "start_again")'
    BY <1>1, <1>2, <2>1 DEF AfterRelease, Alone, At, Rolling, InCopy, Invs
  <2>5. \A q \in Ops : ~At(q, "swap")'
    BY <1>1, <1>2, <1>5, <2>1 DEF AfterRelease, Alone, At, Invs
  <2>6. AfterRelease'
    BY <2>3, <2>4, <2>5 DEF AfterRelease
  <2> QED
    BY <2>1, <2>2, <2>6 DEF ReleaseInv
<1> QED
  BY <1>3, <1>4, <1>5

\* A copy that fails before the new binary is in place leaves exe alone; one
\* that fails in a rollback is said to have failed.
LEMMA ReleaseFails ==
  ASSUME TypeOK, Roles, ExeInv, ReleaseInv, NEW o \in Invs, CopyFails(o)
  PROVE  ReleaseInv'
<1>1. /\ file \in [Files -> {0} \cup Inodes] /\ ino \in [Inodes -> Contents \cup {"none"}]
      /\ o \in Ops <=> o \notin Helpers
      /\ Alone(o) /\ Copying(o) /\ inv'[o].pc = "done" /\ inv[o].to \in Inodes
      /\ \A m \in Names : why[m] \subseteq why'[m]
      /\ IF At(o, "copying")
         THEN /\ file' = [file EXCEPT ![TmpFile(o)] = 0]
              /\ \E new \in {ino[inv[o].to], "part"} : ino' = [ino EXCEPT ![inv[o].to] = new]
         ELSE UNCHANGED <<ino, file>>
      /\ IF o \in Helpers THEN Failed' ELSE why' = why
  BY CopyFailsFacts, RoleFacts DEF TypeOK, Files
<1>2. CASE o \in Helpers
  BY <1>1, <1>2 DEF ReleaseInv, Spoilt
<1>3. CASE o \in Ops /\ ~At(o, "copying")
  BY <1>1, <1>3, ReleaseAlone
<1>4. CASE o \in Ops /\ At(o, "copying") /\ (Spoilt \/ Crowd)
  BY <1>1, <1>4 DEF ReleaseInv, Spoilt, Again, Failed, Crowd
<1>5. CASE o \in Ops /\ At(o, "copying") /\ ~Spoilt /\ ~Crowd
  <2>1. file.bak = 0 /\ BeforeRelease /\ BeforeBak
    BY <1>5 DEF ReleaseInv, ExeInv, AfterBak, InCopy, At
  <2>2. ino[inv[o].to] = "part" /\ TmpFile(o) = "baktmp"
    BY <1>1, <1>5, <2>1 DEF BeforeBak, TmpFile
  <2>3. ino' = ino
    BY <1>1, <1>5, <2>2
  <2>4. file'.exe = file.exe /\ file'.bak = 0
    BY <1>1, <1>5, <2>1, <2>2 DEF Files
  <2>5. /\ \A h \in Helpers : inv'[h] = inv[h]
        /\ \A q \in Ops : q # o => inv'[q] = inv[q]
    BY <1>1, <1>5 DEF Alone, Invs
  <2>6. BeforeRelease'
    BY <1>1, <2>1, <2>3, <2>4, <2>5 DEF BeforeRelease, First, At
  <2> QED
    BY <2>4, <2>6 DEF ReleaseInv
<1> QED
  BY <1>1, <1>2, <1>3, <1>4, <1>5

\* "crowd": a rollback while another helper is at work.
LEMMA RescuesCrowd ==
  ASSUME TypeOK, NEW o \in Invs, HelperRescues(o), file.bak # 0, ~Crowd'
  PROVE  \A h \in Helpers \ {o} : inv[h].pc \in {"none", "done"}
<1>1. PICK n \in Names : TRUE
  BY HostAssumption
<1>2. ASSUME Others(o) # {} PROVE FALSE
  <2>1. why' = [m \in Names |-> why[m] \cup {"rolled", "crowd"}]
    BY <1>2 DEF HelperRescues
  <2> QED
    BY <1>1, <2>1 DEF Crowd
<1> QED
  BY <1>2 DEF Others

LEMMA ReleaseRescues ==
  ASSUME TypeOK, Roles, ReleaseInv, NEW o \in Invs, HelperRescues(o)
  PROVE  ReleaseInv'
<1>1. /\ file \in [Files -> {0} \cup Inodes]
      /\ Alone(o) /\ At(o, "rescue") /\ UNCHANGED ino
      /\ \A m \in Names : why[m] \subseteq why'[m]
      /\ \/ file.bak = 0 /\ inv'[o].pc = "done" /\ UNCHANGED file
         \/ file.bak # 0 /\ inv'[o].pc = "copy" /\ file' = [file EXCEPT !.exe = 0]
  BY HelperRescuesFacts DEF TypeOK, Files
<1>2. o \in Helpers /\ o \notin Ops
  BY <1>1, RoleFacts DEF At, OpPcs, HelperPcs
<1>3. SUFFICES ASSUME ~Spoilt', ~Crowd' PROVE ReleaseInv'
  BY DEF ReleaseInv
<1>4. ~Spoilt /\ ~Crowd
  BY <1>1, <1>3 DEF Spoilt, Again, Failed, Crowd
<1>5. file.bak # 0 /\ AfterRelease
  BY <1>1, <1>2, <1>4 DEF ReleaseInv, BeforeRelease, At
<1>6. \A h \in Helpers : h # o => inv[h].pc \in {"none", "done"} /\ inv'[h] = inv[h]
  BY <1>1, <1>3, <1>5, RescuesCrowd DEF Alone, Invs
<1>7. /\ \A h \in Helpers : Rolling(h)' => h = o
      /\ \A h \in Helpers : ~InCopy(h)' /\ ~At(h, "copied")' /\ ~At(h, "start_again")'
  BY <1>1, <1>5, <1>6 DEF Rolling, InCopy, At
<1>8. \A q \in Ops : ~At(q, "swap")'
  BY <1>1, <1>2, <1>5 DEF AfterRelease, Alone, At, Invs
<1>9. file'.bak = file.bak /\ First(file.bak)'
  BY <1>1, <1>5 DEF AfterRelease, First, Files
<1>10. AfterRelease'
  BY <1>7, <1>8, <1>9 DEF AfterRelease
<1> QED
  BY <1>5, <1>9, <1>10 DEF ReleaseInv

LEMMA RunsRelease ==
  ASSUME TypeOK, Roles, ExeInv, ReleaseInv, NEW o \in Invs, Runs(o)
  PROVE  ReleaseInv'
<1>1. /\ o \in Helpers => o \notin Ops /\ inv[o].pc \in HelperPcs
      /\ o \notin Helpers => o \in Ops /\ inv[o].pc \in OpPcs
      /\ inv[o].name \in Names
      /\ \A m \in Names : why[m] \subseteq why[m]
  BY RoleFacts DEF Roles, TypeOK, InvType
<1>2. CASE Probes(o)
  <2>1. /\ Alone(o) /\ UNCHANGED <<ino, file, why>> /\ inv[o].pc \in {"probe", "wait"}
        /\ inv'[o].pc \in {"done", "term", "wait", "remove", "sweep", "spawn"}
    BY <1>2, ProbesFacts
  <2> QED
    BY <1>1, <2>1, ReleaseAlone
<1>3. CASE Sweeps(o) \/ Unlinks(o)
  <2>1. /\ Alone(o) /\ inv[o].pc \in {"sweep", "remove"} /\ Removes(o) /\ UNCHANGED <<ino, file>>
        /\ inv'[o].pc = IF At(o, "sweep") THEN inv[o].then ELSE "done"
    BY <1>3, SweepsFacts
  <2>2. \A m \in Names : why[m] \subseteq why'[m]
    BY <1>1, <2>1, RemovesFacts
  <2>3. /\ inv[o].then \in {"none", "spawn", "remove", "done"}
        /\ At(o, "sweep") => inv[o].then # "none"
    BY <1>1, <2>1 DEF TypeOK, InvType, Roles, HelperPcs
  <2> QED
    BY <1>1, <2>1, <2>2, <2>3, ReleaseAlone
<1>4. CASE Spawns(o)
  <2>1. /\ Alone(o) /\ UNCHANGED <<ino, file>> /\ At(o, "spawn") /\ inv'[o].pc \in {"done", "truncate"}
        /\ \A m \in Names : why[m] \subseteq why'[m]
    BY <1>4, SpawnsFacts
  <2> QED
    BY <2>1, ReleaseAlone DEF At
<1>5. CASE Truncates(o) \/ Writes(o) \/ WriteFails(o)
  <2>1. /\ Alone(o) /\ UNCHANGED <<ino, file, why>>
        /\ inv[o].pc \in {"truncate", "write"} /\ inv'[o].pc \in {"write", "done"}
    BY <1>5, TruncatesFacts, WritesFacts, WriteFailsFacts DEF At
  <2> QED
    BY <1>1, <2>1, ReleaseAlone
<1>6. CASE Terminates(o)
  <2>1. Alone(o) /\ UNCHANGED <<ino, file, why>> /\ At(o, "term") /\ inv'[o].pc \in {"wait", "remove"}
    BY <1>6, TerminatesFacts
  <2> QED
    BY <1>1, <2>1, ReleaseAlone DEF At
<1>7. CASE GivesUpWaiting(o) \/ Downloads(o)
  <2>1. PICK pc \in {"remove", "copy", "done"} :
          Goto(o, pc) /\ inv[o].pc \in {"wait", "download"} /\ UNCHANGED <<ino, file, why>>
    BY <1>7 DEF GivesUpWaiting, Downloads, At, disk
  <2>2. Alone(o) /\ inv'[o].pc = pc
    BY <2>1, GotoFacts DEF Pcs
  <2>3. o \notin Helpers
    BY <1>1, <2>1 DEF HelperPcs
  <2> QED
    BY <1>1, <2>1, <2>2, <2>3, ReleaseAlone
<1>8. CASE CopyOpens(o) \/ CopyWrites(o) \/ CopyRenames(o) \/ CopyFails(o) \/ Swaps(o)
           \/ HelperRescues(o)
  BY <1>8, ReleaseOpens, ReleaseWrites, ReleaseRenames, ReleaseFails, ReleaseSwaps, ReleaseRescues
<1>9. CASE Updates(o)
  BY <1>9, ReleaseUpdates
<1>10. CASE Restarts(o)
  <2>1. At(o, "restart") /\ UNCHANGED <<ino, file>>
    BY <1>10, RestartsFacts
  <2>2. CASE Alone(o) /\ inv'[o].pc \in {"done", "restart"} /\ \A m \in Names : why[m] \subseteq why'[m]
    BY <2>1, <2>2, ReleaseAlone DEF At
  <2>3. ASSUME NEW h \in Helpers, HandsOver(o, h) PROVE ReleaseInv'
    BY <2>1, <2>3, ReleaseHandsOver
  <2> QED
    BY <1>1, <1>10, <2>2, <2>3, RestartsFacts DEF InPlaceFacts
<1>11. CASE HelperStops(o)
  <2>1. /\ Alone(o) /\ UNCHANGED <<ino, file>> /\ At(o, "kill") /\ inv'[o].pc = "start"
        /\ \A m \in Names : why[m] \subseteq why'[m]
    BY <1>11, HelperStopsFacts
  <2> QED
    BY <2>1, ReleaseAlone DEF At
<1>12. CASE HelperStarts(o)
  <2>1. /\ Alone(o) /\ UNCHANGED <<ino, file>> /\ inv[o].pc \in {"start", "start_again"}
        /\ \A m \in Names : why[m] \subseteq why'[m]
        /\ inv'[o].pc \in {"done", "rescue", "confirm", "confirm_again"}
    BY <1>12, HelperStartsFacts
  <2> QED
    BY <1>1, <2>1, ReleaseAlone
<1>13. CASE HelperConfirms(o)
  <2>1. /\ Alone(o) /\ UNCHANGED <<ino, file, why>> /\ inv[o].pc \in {"confirm", "confirm_again"}
        /\ inv'[o].pc \in {"done", "rescue"}
    BY <1>13, HelperConfirmsFacts
  <2> QED
    BY <1>1, <2>1, ReleaseAlone
<1> QED
  BY <1>2, <1>3, <1>4, <1>5, <1>6, <1>7, <1>8, <1>9, <1>10, <1>11, <1>12, <1>13 DEF Runs

---------------------------------------------------------------------------
(***************************************************************************)
(* Who takes a process away, and what its binary is.                       *)
(***************************************************************************)

\* Only a restart in place changes the binary of a process, and only it
\* signals processes.
LEMMA ServesBins ==
  ASSUME TypeOK, NEW p \in Pids,
         Serves(p) \/ WorkArrives(p) \/ \E w \in Work : WorkEnds(p, w)
  PROVE  \A q \in Pids : /\ proc'[q].bin = proc[q].bin \/ proc[q].usr2 # "no"
                         /\ proc'[q].usr2 # "no" => proc[q].usr2 # "no"
<1>1. PICK e \in ProcType : e = proc[p] /\ proc \in [Pids -> ProcType]
  BY DEF TypeOK
<1>2. SUFFICES \E d : Becomes(p, d) /\ (d.bin = e.bin \/ e.usr2 # "no") /\ (d.usr2 # "no" => e.usr2 # "no")
  BY <1>1 DEF Becomes
<1>3. CASE Notifies(p)
  <2>1. PICK d \in ProcType : d = [e EXCEPT !.ready = TRUE]
    BY DEF ProcType
  <2>2. d.bin = e.bin /\ d.usr2 = e.usr2
    BY <2>1 DEF ProcType
  <2>3. Becomes(p, d)
    BY <1>1, <1>3, <2>1 DEF Becomes, Notifies
  <2> QED
    BY <2>2, <2>3
<1>4. CASE WorkArrives(p)
  <2>1. PICK w \in {"transfer", IF e.usr2 = "no" THEN "before" ELSE "after"} :
          proc' = [proc EXCEPT ![p].work = @ \cup {w}]
    BY <1>1, <1>4 DEF WorkArrives
  <2>2. PICK d : d = [e EXCEPT !.work = @ \cup {w}]
    OBVIOUS
  <2>3. d.bin = e.bin /\ d.usr2 = e.usr2
    BY <2>2 DEF ProcType
  <2>4. Becomes(p, d)
    BY <1>1, <2>1, <2>2 DEF Becomes
  <2> QED
    BY <2>3, <2>4
<1>5. ASSUME NEW w \in Work, WorkEnds(p, w)
      PROVE  \E d : Becomes(p, d) /\ d.bin = e.bin /\ d.usr2 = e.usr2
  <2>1. PICK d : d = [e EXCEPT !.work = @ \ {w}]
    OBVIOUS
  <2>2. d.bin = e.bin /\ d.usr2 = e.usr2
    BY <2>1 DEF ProcType
  <2>3. Becomes(p, d)
    BY <1>1, <1>5, <2>1 DEF Becomes, WorkEnds
  <2> QED
    BY <2>2, <2>3
<1>6. CASE MinutePasses(p)
  <2>1. PICK d : d = [e EXCEPT !.usr2 = "late"]
    OBVIOUS
  <2>2. Becomes(p, d) /\ e.usr2 # "no"
    BY <1>1, <1>6, <2>1 DEF Becomes, MinutePasses
  <2> QED
    BY <2>2
<1>7. CASE GoesIdle(p)
  <2>1. PICK d : d = [e EXCEPT !.usr2 = "idle"]
    OBVIOUS
  <2>2. Becomes(p, d) /\ e.usr2 # "no"
    BY <1>1, <1>7, <2>1 DEF Becomes, GoesIdle
  <2> QED
    BY <2>2
<1>8. CASE Reexecs(p)
  <2>1. e.usr2 # "no" /\ \E d : Becomes(p, d)
    BY <1>1, <1>8 DEF Becomes, Reexecs
  <2> QED
    BY <2>1
<1> QED
  BY <1>3, <1>4, <1>5, <1>6, <1>7, <1>8 DEF Serves

\* restartProc: by signal, or by helper.
LEMMA RestartsMethod ==
  ASSUME TypeOK, NEW o \in Invs, Restarts(o)
  PROVE  /\ scn.method = "reexec" => Alone(o)
         /\ scn.method # "reexec" => UNCHANGED <<proc, why>>
<1>1. inv \in [Invs -> InvType]
  BY DEF TypeOK
<1>2. CASE inv[o].procs = {}
  BY <1>2, GotoFacts DEF Restarts, Pcs
<1>3. CASE inv[o].procs # {}
  <2>1. scn.method # "reexec" => UNCHANGED <<proc, why>>
    BY <1>3 DEF Restarts
  <2>2. ASSUME scn.method = "reexec" PROVE Alone(o)
    <3>1. PICK p \in inv[o].procs : inv' = [inv EXCEPT ![o].procs = @ \ {p}]
      BY <1>3, <2>2 DEF Restarts
    <3>2. inv[o].procs \ {p} \in SUBSET Pids
      BY <1>1 DEF InvType
    <3> QED
      BY <1>1, <3>1, <3>2 DEF Alone, InvType
  <2> QED
    BY <2>1, <2>2
<1> QED
  BY <1>2, <1>3

\* startAndConfirm: who is confirmed works, and who is not is stopped.
LEMMA ConfirmsOutcome ==
  ASSUME TypeOK, NEW o \in Invs, HelperConfirms(o)
  PROVE  \/ /\ inv'[o].pc = "done" /\ proc' = proc
            /\ At(o, "confirm") => proc[inv[o].pid].st = "up" /\ Works(proc[inv[o].pid].bin)
         \/ At(o, "confirm") /\ inv'[o].pc = "rescue" /\ Killed(inv[o].pid)
<1>1. "done" \in Pcs /\ "rescue" \in Pcs
  BY DEF Pcs
<1>2. /\ Goto(o, "done") => inv'[o].pc = "done"
      /\ Goto(o, "rescue") => inv'[o].pc = "rescue"
  BY <1>1, GotoFacts
<1>3. At(o, "confirm") \/ At(o, "confirm_again")
  BY DEF HelperConfirms
<1>4. At(o, "confirm_again") => ~At(o, "confirm")
  BY DEF At
<1>5. \/ proc[inv[o].pid].st = "up" /\ Works(proc[inv[o].pid].bin) /\ Goto(o, "done") /\ proc' = proc
      \/ At(o, "confirm_again") /\ Goto(o, "done") /\ proc' = proc
      \/ ~At(o, "confirm_again") /\ Killed(inv[o].pid) /\ Goto(o, "rescue")
  BY DEF HelperConfirms, Killed
<1> QED
  BY <1>2, <1>3, <1>4, <1>5

LEMMA StartsOutcome ==
  ASSUME TypeOK, NEW o \in Invs, HelperStarts(o)
  PROVE  \/ At(o, "start") /\ inv'[o].pc \in {"confirm", "rescue"}
         \/ /\ At(o, "start_again") /\ Content("exe") \notin {"v1", "v2"}
         \/ /\ At(o, "start_again") /\ "failed" \in why'[inv[o].name]
         \/ /\ At(o, "start_again") /\ inv'[o].pc = "confirm_again"
            /\ inv'[o].pid \in Pids /\ proc'[inv'[o].pid].bin = Content("exe")
<1>1. /\ inv \in [Invs -> InvType] /\ proc \in [Pids -> ProcType]
      /\ why \in [Names -> SUBSET Causes] /\ inv[o].name \in Names
  BY DEF TypeOK, InvType
<1> DEFINE again == At(o, "start_again")
           runnable == Content("exe") \in {"v1", "v2"}
           next == IF again THEN "confirm_again" ELSE "confirm"
           end == IF again THEN "done" ELSE "rescue"
<1>2. PICK pc, qc : pc = next /\ qc = end
  OBVIOUS
<1>3. \/ /\ runnable
         /\ \E p \in Pids : /\ proc' = [proc EXCEPT ![p] = Newborn(inv[o].name, Content("exe"))]
                            /\ inv' = [inv EXCEPT ![o].pid = p, ![o].pc = pc]
      \/ Goto(o, qc) /\ (again /\ runnable => Blame(inv[o].name, "failed"))
  BY <1>2 DEF HelperStarts
<1>4. /\ again => pc = "confirm_again"
      /\ ~again => At(o, "start") /\ pc = "confirm" /\ qc = "rescue"
  BY <1>2 DEF HelperStarts
<1> HIDE DEF next, end
<1>5. CASE \E p \in Pids : /\ proc' = [proc EXCEPT ![p] = Newborn(inv[o].name, Content("exe"))]
                           /\ inv' = [inv EXCEPT ![o].pid = p, ![o].pc = pc]
  <2>1. PICK p \in Pids : /\ proc' = [proc EXCEPT ![p] = Newborn(inv[o].name, Content("exe"))]
                          /\ inv' = [inv EXCEPT ![o].pid = p, ![o].pc = pc]
    BY <1>5
  <2>2. proc'[p] = Newborn(inv[o].name, Content("exe"))
    BY <1>1, <2>1
  <2>3. proc'[p].bin = Content("exe")
    BY <2>2 DEF Newborn
  <2>4. inv'[o].pid = p /\ inv'[o].pc = pc
    BY <1>1, <2>1 DEF InvType
  <2> QED
    BY <1>4, <2>3, <2>4
<1>6. CASE Goto(o, qc) /\ (again /\ runnable => Blame(inv[o].name, "failed"))
  <2>1. Blame(inv[o].name, "failed") => "failed" \in why'[inv[o].name]
    BY <1>1 DEF Blame
  <2>2. qc = "rescue" => inv'[o].pc = "rescue"
    BY <1>6, GotoFacts DEF Pcs
  <2> QED
    BY <1>4, <1>6, <2>1, <2>2
<1> QED
  BY <1>3, <1>5, <1>6

\* Processes last and keep their binary, but for a restart in place; one that
\* is taken away is taken by a stop, by a helper that starts another, by the
\* start that failed to file it, or by a signal that came too early.
Taken(o, q) ==
  \/ q = inv[o].pid /\ At(o, "term")
  \/ q = inv[o].pid /\ Starting(o)
  \/ /\ q = inv[o].pid /\ inv[o].pc \in {"kill", "confirm"} /\ o \in Helpers
     /\ inv'[o].pc \in {"start", "rescue"} /\ Alone(o)
  \/ proc[q].name \in Names /\ "unready" \in why'[proc[q].name]
Fates(o) ==
  /\ Lasting
  /\ \A q \in Pids : proc[q].st = "up" /\ proc'[q].st = "up" =>
       proc'[q].bin = proc[q].bin \/ scn.method = "reexec"
  /\ \A q \in Pids : proc[q].st = "up" /\ proc'[q].st # "up" => Taken(o, q)
  /\ \A q \in Pids : proc'[q].usr2 # "no" => proc[q].usr2 # "no" \/ scn.method = "reexec"

LEMMA KilledFates ==
  ASSUME TypeOK, NEW o \in Invs, Killed(inv[o].pid), proc[inv[o].pid].st = "up" => Taken(o, inv[o].pid)
  PROVE  Fates(o)
<1>1. inv[o].pid \in Pids
  BY DEF TypeOK, InvType
<1>2. /\ \A q \in Pids : q # inv[o].pid => proc'[q] = proc[q]
      /\ \A q \in Pids : /\ proc'[q].name = proc[q].name
                         /\ proc'[q].st = "none" <=> proc[q].st = "none"
                         /\ proc'[q].st = "up" => proc[q].st = "up"
                         /\ proc'[q] = proc[q] \/ proc'[q].usr2 = "no"
      /\ proc'[inv[o].pid].st # "up"
  BY <1>1, KilledFacts
<1> QED
  BY <1>1, <1>2 DEF Fates, Lasting

LEMMA BornFates ==
  ASSUME TypeOK, NEW o \in Invs, NEW p \in Pids, proc[p].st = "none", proc'[p].st = "up",
         proc'[p].usr2 = "no", \A q \in Pids : q # p => proc'[q] = proc[q]
  PROVE  Fates(o)
BY DEF Fates, Lasting

LEMMA RunsFates ==
  ASSUME TypeOK, TypeOK', Roles, NEW o \in Invs, Runs(o)
  PROVE  /\ Fates(o) /\ scn' = scn
         /\ Alone(o) \/ (scn.method # "reexec" /\ \E h \in Helpers : HandsOver(o, h))
<1>1. /\ o \in Helpers => o \notin Ops /\ inv[o].pc \in HelperPcs
      /\ o \notin Helpers => o \in Ops /\ inv[o].pc \in OpPcs
      /\ proc' = proc => Fates(o)
      /\ inv'[o].pid \in Pids
  BY RoleFacts DEF Roles, Fates, Lasting, TypeOK, InvType
<1>2. CASE Probes(o)
  BY <1>1, <1>2, ProbesFacts
<1>3. CASE Sweeps(o) \/ Unlinks(o)
  BY <1>1, <1>3, SweepsFacts
<1>4. CASE Spawns(o)
  <2>1. CASE proc' = proc
    BY <1>1, <1>4, <2>1, SpawnsFacts
  <2>2. CASE proc' # proc
    BY <1>1, <1>4, <2>2, SpawnsFacts, BornFates
  <2> QED
    BY <2>1, <2>2
<1>5. CASE Truncates(o) \/ Writes(o)
  BY <1>1, <1>5, TruncatesFacts, WritesFacts
<1>6. CASE Terminates(o) \/ WriteFails(o)
  <2>1. Alone(o) /\ (At(o, "term") \/ Starting(o)) /\ Killed(inv[o].pid) /\ scn' = scn
    BY <1>6, TerminatesFacts, WriteFailsFacts DEF Starting
  <2>2. Taken(o, inv[o].pid)
    BY <2>1 DEF Taken
  <2> QED
    BY <2>1, <2>2, KilledFates
<1>7. CASE GivesUpWaiting(o) \/ Downloads(o)
  <2>1. PICK pc \in {"remove", "copy", "done"} : Goto(o, pc) /\ UNCHANGED <<scn, proc>>
    BY <1>7 DEF GivesUpWaiting, Downloads
  <2>2. Alone(o)
    BY <2>1, GotoFacts DEF Pcs
  <2> QED
    BY <1>1, <2>1, <2>2
<1>8. CASE CopyOpens(o) \/ CopyWrites(o) \/ CopyRenames(o) \/ CopyFails(o) \/ Swaps(o)
           \/ HelperRescues(o)
  BY <1>1, <1>8, CopyOpensFacts, CopyWritesFacts, CopyRenamesFacts, CopyFailsFacts, SwapsFacts,
     HelperRescuesFacts
<1>9. CASE Updates(o)
  BY <1>1, <1>9, UpdatesFacts
<1>10. CASE Restarts(o)
  <2>1. /\ scn' = scn
        /\ \/ Alone(o) /\ proc' = proc
           \/ InPlaceFacts(o)
           \/ proc' = proc /\ \E h \in Helpers : HandsOver(o, h)
    BY <1>10, RestartsFacts DEF HandsOver
  <2>2. /\ scn.method = "reexec" => Alone(o)
        /\ scn.method # "reexec" => proc' = proc
    BY <1>10, RestartsMethod
  <2>3. ASSUME InPlaceFacts(o), scn.method = "reexec" PROVE Fates(o)
    <3>1. \A q \in Pids : proc[q].name \in Names
      BY DEF TypeOK, ProcType
    <3> QED
      BY <2>3, <3>1 DEF InPlaceFacts, Fates, Lasting, Taken
  <2> QED
    BY <1>1, <2>1, <2>2, <2>3 DEF InPlaceFacts
<1>11. CASE HelperStops(o)
  <2>1. Alone(o) /\ At(o, "kill") /\ inv'[o].pc = "start" /\ Killed(inv[o].pid) /\ scn' = scn
    BY <1>11, HelperStopsFacts
  <2>2. o \in Helpers
    BY <1>1, <2>1 DEF At, OpPcs
  <2>3. Taken(o, inv[o].pid)
    BY <2>1, <2>2 DEF Taken, At
  <2> QED
    BY <2>1, <2>3, KilledFates
<1>12. CASE HelperStarts(o)
  <2>1. CASE proc' = proc
    BY <1>1, <1>12, <2>1, HelperStartsFacts
  <2>2. CASE proc' # proc
    BY <1>1, <1>12, <2>2, HelperStartsFacts, BornFates
  <2> QED
    BY <2>1, <2>2
<1>13. CASE HelperConfirms(o)
  <2>1. Alone(o) /\ scn' = scn
    BY <1>13, HelperConfirmsFacts
  <2>2. CASE At(o, "confirm") /\ inv'[o].pc = "rescue" /\ Killed(inv[o].pid)
    <3>1. o \in Helpers
      BY <1>1, <2>2 DEF At, OpPcs
    <3>2. Taken(o, inv[o].pid)
      BY <2>1, <2>2, <3>1 DEF Taken, At
    <3> QED
      BY <2>1, <2>2, <3>2, KilledFates
  <2> QED
    BY <1>1, <1>13, <2>1, <2>2, ConfirmsOutcome
<1> QED
  BY <1>2, <1>3, <1>4, <1>5, <1>6, <1>7, <1>8, <1>9, <1>10, <1>11, <1>12, <1>13 DEF Runs

---------------------------------------------------------------------------
(***************************************************************************)
(* A daemon always has a process that works, or a helper that stands for   *)
(* it.                                                                     *)
(***************************************************************************)

\* Only a probe of "stop" is followed by SIGTERM.
LEMMA TermFrom ==
  ASSUME TypeOK, Roles, NEW o \in Ops, Runs(o), inv'[o].pc = "term"
  PROVE  Probes(o) /\ inv[o].kind = "stop"
<1>1. o \in Invs /\ inv[o].pc \in OpPcs /\ (At(o, "sweep") => inv[o].then # "none")
  BY DEF Invs, Roles
<1>2. inv[o].then \in {"none", "spawn", "remove", "done"}
  BY <1>1 DEF TypeOK, InvType
<1>3. ~Sweeps(o) /\ ~Unlinks(o) /\ ~Spawns(o) /\ ~Truncates(o) /\ ~Writes(o) /\ ~WriteFails(o)
      /\ ~Terminates(o)
  BY <1>1, <1>2, SweepsFacts, SpawnsFacts, TruncatesFacts, WritesFacts, WriteFailsFacts, TerminatesFacts
<1>4. ~GivesUpWaiting(o) /\ ~Downloads(o)
  <2>1. \A pc \in {"remove", "copy", "done"} : ~Goto(o, pc)
    BY <1>1, GotoFacts DEF Pcs
  <2> QED
    BY <2>1 DEF GivesUpWaiting, Downloads
<1>5. ~CopyOpens(o) /\ ~CopyWrites(o) /\ ~CopyRenames(o) /\ ~CopyFails(o) /\ ~Swaps(o) /\ ~Updates(o)
  BY <1>1, CopyOpensFacts, CopyWritesFacts, CopyRenamesFacts, CopyFailsFacts, SwapsFacts,
     UpdatesFacts DEF After
<1>6. ~Restarts(o)
  BY <1>1, RestartsFacts DEF InPlaceFacts, HandsOver
<1>7. ~HelperStops(o) /\ ~HelperStarts(o) /\ ~HelperConfirms(o) /\ ~HelperRescues(o)
  BY <1>1, HelperStopsFacts, HelperStartsFacts, HelperConfirmsFacts, HelperRescuesFacts
<1>8. Probes(o)
  BY <1>3, <1>4, <1>5, <1>6, <1>7 DEF Runs
<1>9. inv[o].kind = "stop"
  <2> DEFINE got == pidf[inv[o].name].val
             alive == got \in Pids /\ proc[got].st = "up"
  <2>1. PICK pid, pc, then :
          /\ pid = IF alive /\ At(o, "probe") THEN got ELSE inv[o].pid
          /\ pc = IF alive THEN Yes(o) ELSE IF got = NoFile THEN No(o) ELSE "sweep"
          /\ then = IF alive THEN "none" ELSE No(o)
    OBVIOUS
  <2>2. inv' = [inv EXCEPT ![o].pid = pid, ![o].pc = pc, ![o].then = then]
    BY <1>8, <2>1 DEF Probes
  <2>3. pc = "term"
    BY <1>1, <2>2 DEF TypeOK, InvType
  <2>4. inv[o].kind \in {"start", "stop", "status"}
    BY <1>8 DEF Probes
  <2> HIDE DEF alive, got
  <2> QED
    BY <2>1, <2>3, <2>4 DEF Yes, No
<1> QED
  BY <1>8, <1>9

\* "again" and "crowd" are said of all daemons at once.
LEMMA RunsBlames ==
  ASSUME NEW o \in Invs, Runs(o)
  PROVE  \/ UNCHANGED why
         \/ \E n, c : Blame(n, c) /\ c \notin {"again", "crowd"}
         \/ \E cs : why' = [m \in Names |-> why[m] \cup cs]
<1> DEFINE AllBlamed == \E cs : why' = [m \in Names |-> why[m] \cup cs]
<1>1. \A c : BlameAll(c) => AllBlamed
  BY DEF BlameAll
<1>2. CASE Probes(o) \/ Truncates(o) \/ Writes(o) \/ WriteFails(o) \/ Terminates(o) \/ GivesUpWaiting(o)
           \/ Updates(o) \/ Downloads(o) \/ Swaps(o) \/ CopyWrites(o) \/ CopyRenames(o)
           \/ HelperConfirms(o)
  BY <1>2 DEF Probes, Truncates, Writes, WriteFails, Terminates, GivesUpWaiting, Updates, Downloads,
              Swaps, CopyWrites, CopyRenames, HelperConfirms
<1>3. CASE Sweeps(o) \/ Unlinks(o)
  BY <1>3 DEF Sweeps, Unlinks, Removes
<1>4. CASE Spawns(o)
  BY <1>4 DEF Spawns
<1>5. CASE CopyOpens(o) \/ CopyFails(o)
  <2>1. why' = why \/ BlameAll("again") \/ BlameAll("failed")
    BY <1>5 DEF CopyOpens, CopyFails
  <2> HIDE DEF AllBlamed
  <2>2. why' = why \/ AllBlamed
    BY <1>1, <2>1
  <2> QED
    BY <2>2 DEF AllBlamed
<1>6. CASE Restarts(o)
  <2>1. UNCHANGED why \/ \E p : Blame(proc[p].name, "unready")
    BY <1>6 DEF Restarts
  <2> QED
    BY <2>1
<1>7. CASE HelperStarts(o)
  <2>1. UNCHANGED why \/ Blame(inv[o].name, "failed")
    BY <1>7 DEF HelperStarts
  <2> QED
    BY <2>1
<1>8. CASE HelperStops(o)
  BY <1>8 DEF HelperStops
<1>9. CASE HelperRescues(o)
  <2>1. why' = why \/ \E cs : why' = [m \in Names |-> why[m] \cup cs]
    BY <1>9 DEF HelperRescues
  <2> QED
    BY <2>1
<1> QED
  BY <1>2, <1>3, <1>4, <1>5, <1>6, <1>7, <1>8, <1>9 DEF Runs

LEMMA BlamedAlikeStep ==
  ASSUME TypeOK, BlamedAlike, NEW o \in Invs, Runs(o)
  PROVE  BlamedAlike'
<1>1. why \in [Names -> SUBSET Causes]
  BY DEF TypeOK
<1>2. CASE UNCHANGED why
  BY <1>2 DEF BlamedAlike
<1>3. ASSUME NEW n, NEW c, Blame(n, c), c \notin {"again", "crowd"} PROVE BlamedAlike'
  <2>1. \A m \in Names : why'[m] \cap {"again", "crowd"} = why[m] \cap {"again", "crowd"}
    BY <1>1, <1>3 DEF Blame
  <2> QED
    BY <2>1 DEF BlamedAlike
<1>4. ASSUME NEW cs, why' = [m \in Names |-> why[m] \cup cs] PROVE BlamedAlike'
  <2>1. \A m \in Names : why'[m] = why[m] \cup cs
    BY <1>4
  <2> SUFFICES ASSUME NEW m \in Names, NEW n \in Names
               PROVE  why'[m] \cap {"again", "crowd"} = why'[n] \cap {"again", "crowd"}
    BY DEF BlamedAlike
  <2>2. why[m] \cap {"again", "crowd"} = why[n] \cap {"again", "crowd"}
    BY DEF BlamedAlike
  <2> QED
    BY <2>1, <2>2
<1> QED
  BY <1>2, <1>3, <1>4, RunsBlames

\* Whatever an invocation does, nobody begins to write the pid of a process
\* that was there before.
LEMMA RunsStarts ==
  ASSUME TypeOK, Roles, NEW o \in Invs, Runs(o)
  PROVE  Starts(o)
<1>1. /\ o \in Helpers => o \notin Ops /\ inv[o].pc \in HelperPcs
      /\ o \notin Helpers => o \in Ops /\ inv[o].pc \in OpPcs
  BY RoleFacts DEF Roles
<1>10. /\ inv[o].then \in {"none", "spawn", "remove", "done"}
       /\ At(o, "sweep") => inv[o].then # "none"
  BY <1>1 DEF TypeOK, InvType, Roles, HelperPcs, At
<1>2. ASSUME Alone(o), ~Starting(o)' PROVE Starts(o)
  BY <1>2 DEF Alone, Starts, Starting
<1>3. CASE Spawns(o)
  <2>1. Alone(o) /\ (inv'[o].pc = "done" \/ (/\ proc[inv'[o].pid].st = "none"
                                            /\ proc'[inv'[o].pid].st = "up"
                                            /\ proc'[inv'[o].pid].name = inv[o].name))
    BY <1>3, SpawnsFacts
  <2> QED
    BY <1>2, <2>1 DEF Alone, Starts, Starting, Is
<1>4. CASE Truncates(o)
  <2>1. Alone(o) /\ At(o, "truncate") /\ inv'[o].pid = inv[o].pid
    BY <1>4, TruncatesFacts
  <2> QED
    BY <2>1 DEF Alone, Starts, Starting, At
<1>5. CASE Restarts(o)
  <2>1. At(o, "restart") /\ (\/ Alone(o) /\ inv'[o].pc \in {"done", "restart"}
                             \/ \E h \in Helpers : HandsOver(o, h))
    BY <1>5, RestartsFacts DEF InPlaceFacts
  <2>2. ASSUME NEW h \in Helpers, HandsOver(o, h) PROVE Starts(o)
    <3>1. /\ \A q \in Invs : q # o /\ q # h => inv'[q] = inv[q]
          /\ inv'[o].pc = "restart" /\ inv'[h].pc = "kill"
      BY <2>2 DEF HandsOver, Invs
    <3> QED
      BY <3>1 DEF Starts, Starting
  <2>3. ASSUME Alone(o), inv'[o].pc \in {"done", "restart"} PROVE Starts(o)
    BY <1>2, <2>3 DEF Starting
  <2> QED
    BY <2>1, <2>2, <2>3
<1>6. CASE Probes(o) \/ Sweeps(o) \/ Unlinks(o) \/ Writes(o) \/ WriteFails(o) \/ Terminates(o) \/ Updates(o)
  <2>1. Alone(o) /\ inv'[o].pc \notin {"truncate", "write"}
    BY <1>1, <1>6, <1>10, ProbesFacts, SweepsFacts, WritesFacts, WriteFailsFacts, TerminatesFacts, UpdatesFacts DEF At
  <2> QED
    BY <1>2, <2>1 DEF Starting
<1>7. CASE GivesUpWaiting(o) \/ Downloads(o)
  <2>1. PICK pc \in {"remove", "copy", "done"} : Goto(o, pc)
    BY <1>7 DEF GivesUpWaiting, Downloads
  <2>2. Alone(o) /\ inv'[o].pc = pc
    BY <2>1, GotoFacts DEF Pcs
  <2> QED
    BY <1>2, <2>1, <2>2 DEF Starting
<1>8. CASE CopyOpens(o) \/ CopyWrites(o) \/ CopyRenames(o) \/ CopyFails(o) \/ Swaps(o)
  <2>1. Alone(o) /\ inv'[o].pc \in {"done", "copying", "copied", "restart", After(o)}
    BY <1>8, CopyOpensFacts, CopyWritesFacts, CopyRenamesFacts, CopyFailsFacts, SwapsFacts
  <2> QED
    BY <1>2, <2>1 DEF Starting, After
<1>9. CASE HelperStops(o) \/ HelperStarts(o) \/ HelperConfirms(o) \/ HelperRescues(o)
  <2>1. Alone(o) /\ inv'[o].pc \in {"done", "start", "rescue", "confirm", "confirm_again", "copy"}
    BY <1>9, HelperStopsFacts, HelperStartsFacts, HelperConfirmsFacts, HelperRescuesFacts
  <2> QED
    BY <1>2, <2>1 DEF Starting
<1> QED
  BY <1>3, <1>4, <1>5, <1>6, <1>7, <1>8, <1>9 DEF Runs

\* Only a start is followed by the wait of startAndConfirm.
LEMMA ConfirmFrom ==
  ASSUME TypeOK, Roles, NEW o \in Helpers, Runs(o), inv'[o].pc = "confirm"
  PROVE  HelperStarts(o)
<1>1. /\ o \in Invs /\ inv[o].pc \in HelperPcs /\ o \notin Ops
  BY RoleFacts DEF Roles, Invs
<1>2. ~Probes(o) /\ ~Sweeps(o) /\ ~Unlinks(o) /\ ~Spawns(o) /\ ~Truncates(o) /\ ~Writes(o) /\ ~WriteFails(o)
      /\ ~Terminates(o) /\ ~GivesUpWaiting(o) /\ ~Updates(o) /\ ~Downloads(o) /\ ~Swaps(o) /\ ~Restarts(o)
  BY <1>1 DEF HelperPcs, At, Probes, Sweeps, Unlinks, Spawns, Truncates, Writes, WriteFails, Terminates,
              GivesUpWaiting, Updates, Downloads, Swaps, Restarts
<1>3. ~CopyOpens(o) /\ ~CopyWrites(o) /\ ~CopyRenames(o) /\ ~CopyFails(o)
  BY <1>1, CopyOpensFacts, CopyWritesFacts, CopyRenamesFacts, CopyFailsFacts DEF After
<1>4. ~HelperStops(o) /\ ~HelperConfirms(o) /\ ~HelperRescues(o)
  BY <1>1, HelperStopsFacts, HelperConfirmsFacts, HelperRescuesFacts
<1> QED
  BY <1>2, <1>3, <1>4 DEF Runs

\* What a helper waits for is its own child.
LEMMA ConfirmStep ==
  ASSUME TypeOK, TypeOK', Roles, PidInv, ConfirmPids, NEW o \in Invs, Runs(o)
  PROVE  ConfirmPids'
<1>1. Starts(o)
  BY RunsStarts
<1>2. SUFFICES ASSUME NEW h \in Helpers, inv'[h].pc = "confirm", NEW p \in Pids, p = inv'[h].pid
               PROVE  Written(p)'
  BY DEF ConfirmPids, At, TypeOK, InvType, Written, Invs
<1>3. CASE inv'[h] = inv[h]
  <2>1. Written(p) /\ proc[p].st # "none"
    BY <1>2, <1>3 DEF ConfirmPids, PidInv, HelperPids, Is, At
  <2> QED
    BY <1>1, <2>1, WrittenStep
<1>4. CASE inv'[h] # inv[h]
  <2>1. h \in Invs /\ o = h
    <3>1. Alone(o) \/ \E g \in Helpers : HandsOver(o, g)
      BY RunsFates
    <3> QED
      BY <1>2, <1>4, <3>1 DEF Alone, HandsOver, Invs
  <2>2. HelperStarts(o)
    BY <1>2, <2>1, ConfirmFrom
  <2>3. proc[p].st = "none" /\ Alone(o)
    BY <1>2, <2>1, <2>2, HelperStartsFacts
  <2>4. ~Starting(o)'
    BY <1>2, <2>1 DEF Starting
  <2> QED
    BY <2>3, <2>4 DEF Alone, PidInv, OwnPids, Is, Written, Starting
<1> QED
  BY <1>3, <1>4

\* A helper that stands for a daemon stands for it until another process of
\* the daemon works.
LEMMA StandsStep ==
  ASSUME TypeOK, TypeOK', Roles, PidInv, ReleaseInv, ConfirmPids, ~Spoilt, ~Crowd,
         NEW o \in Helpers, NEW n \in Names, Stands(o, n), Runs(o)
  PROVE  Served(n)' \/ "failed" \in why'[n]
<1>1. /\ o \in Invs /\ o \notin Ops /\ inv[o].name = n
      /\ inv[o].pc \in {"start", "confirm", "rescue", "copy", "copying", "copied", "start_again"}
      /\ file.bak # 0 /\ AfterRelease
  <2>1. /\ inv[o].name = n
        /\ inv[o].pc \in {"start", "confirm", "rescue", "copy", "copying", "copied", "start_again"}
    BY DEF Stands
  <2>2. ~BeforeRelease
    BY <2>1 DEF BeforeRelease, At
  <2> QED
    BY <2>1, <2>2, HostAssumption DEF ReleaseInv, Invs
<1>2. SUFFICES \/ Stands(o, n)' \/ "failed" \in why'[n]
               \/ \E p \in Pids : /\ proc'[p].st = "up" /\ proc'[p].name = n
                                  /\ Works(proc[p].bin)' /\ Written(p)'
  BY <1>1 DEF Served, Runner, Live
<1>3. CASE CopyOpens(o)
  <2>1. Alone(o) /\ inv'[o].pc = "copying"
    BY <1>1, <1>3, CopyOpensFacts DEF Source
  <2> QED
    BY <1>1, <2>1 DEF Stands, Alone
<1>4. CASE CopyWrites(o)
  <2>1. Alone(o) /\ inv'[o].pc = "copied"
    BY <1>1, <1>4, CopyWritesFacts
  <2> QED
    BY <1>1, <2>1 DEF Stands, Alone
<1>5. CASE CopyRenames(o)
  <2>1. At(o, "copied")
    BY <1>1, <1>5, CopyRenamesFacts
  <2>2. file.exetmp # 0
    BY <1>1, <2>1 DEF AfterRelease, InCopy, At
  <2>3. Alone(o) /\ inv'[o].pc = "start_again"
    BY <1>1, <1>5, <2>2, CopyRenamesFacts DEF TmpFile, After
  <2> QED
    BY <1>1, <2>3 DEF Stands, Alone
<1>6. CASE HelperRescues(o)
  <2>1. Alone(o) /\ inv'[o].pc = "copy"
    BY <1>1, <1>6, HelperRescuesFacts
  <2> QED
    BY <1>1, <2>1 DEF Stands, Alone
<1>7. CASE HelperStarts(o)
  <2>1. CASE At(o, "start_again") /\ "failed" \notin why'[n]
    <3>1. Content("exe") = "v1"
      BY <1>1, <2>1 DEF AfterRelease, First, Content
    <3>2. ~At(o, "start")
      BY <2>1 DEF At
    <3>3. PICK p \in Pids : p = inv'[o].pid /\ inv'[o].pc = "confirm_again" /\ proc'[p].bin = "v1"
      BY <1>1, <1>7, <2>1, <3>1, <3>2, StartsOutcome
    <3>4. Alone(o) /\ proc[p].st = "none" /\ proc'[p].st = "up" /\ proc'[p].name = n
      BY <1>1, <1>7, <3>3, HelperStartsFacts
    <3>5. ~Starting(o)'
      BY <3>3 DEF Starting
    <3>6. Written(p)'
      BY <3>4, <3>5 DEF Alone, PidInv, OwnPids, Is, Written, Starting
    <3> QED
      BY <3>3, <3>4, <3>6 DEF Works
  <2>2. CASE ~At(o, "start_again")
    <3>1. Alone(o) /\ inv'[o].pc \in {"confirm", "rescue"}
      BY <1>1, <1>7, <2>2, StartsOutcome, HelperStartsFacts
    <3> QED
      BY <1>1, <3>1 DEF Stands, Alone
  <2> QED
    BY <2>1, <2>2
<1>8. CASE HelperConfirms(o)
  <2>1. Alone(o) /\ At(o, "confirm") /\ scn' = scn /\ inv[o].pid \in Pids
    BY <1>1, <1>8, HelperConfirmsFacts DEF At, TypeOK, InvType
  <2>2. CASE inv'[o].pc = "rescue"
    BY <1>1, <2>1, <2>2 DEF Stands, Alone
  <2>3. CASE inv'[o].pc # "rescue"
    <3>1. PICK p \in Pids : /\ p = inv[o].pid
                            /\ proc' = proc /\ proc[p].st = "up" /\ Works(proc[p].bin)
      BY <1>1, <1>8, <2>1, <2>3, ConfirmsOutcome
    <3>2. proc[p].name = n /\ Written(p)
      BY <1>1, <2>1, <3>1 DEF PidInv, HelperPids, ConfirmPids, Is, At
    <3>3. Written(p)'
      BY <1>1, <3>1, <3>2, RunsStarts, WrittenStep
    <3> QED
      BY <2>1, <3>1, <3>2, <3>3 DEF Works
  <2> QED
    BY <2>2, <2>3
<1>10. CASE CopyFails(o)
  <2>1. "failed" \in why'[n]
    BY <1>1, <1>10, CopyFailsFacts DEF Failed
  <2> QED
    BY <2>1
<1>9. CASE ~CopyOpens(o) /\ ~CopyWrites(o) /\ ~CopyRenames(o) /\ ~HelperRescues(o)
           /\ ~HelperStarts(o) /\ ~HelperConfirms(o) /\ ~CopyFails(o)
  BY <1>1, <1>9 DEF Runs, Probes, Sweeps, Spawns, Truncates, Writes, WriteFails, Terminates, GivesUpWaiting, Unlinks,
                    Updates, Downloads, Swaps, Restarts, HelperStops, At
<1> QED
  BY <1>3, <1>4, <1>5, <1>6, <1>7, <1>8, <1>9, <1>10

LEMMA ServedStep ==
  ASSUME TypeOK, TypeOK', Roles, PidInv, LeftInv, BlamedAlike', NEW o \in Invs, Runs(o)
  PROVE  ServedEach'
<1>1. /\ Fates(o) /\ scn' = scn
      /\ Alone(o) \/ \E h \in Helpers : HandsOver(o, h)
  BY RunsFates
<1>2. \A m \in Names : why[m] \subseteq why'[m]
  <2>1. why \in [Names -> SUBSET Causes]
    BY DEF TypeOK
  <2> QED
    BY <2>1, RunsBlames DEF Blame
<1>3. SUFFICES ASSUME NEW n \in scn.up, ~Stopped(n), ~Excused(n)' PROVE Served(n)'
  BY <1>1 DEF ServedEach, Stopped
<1>4. n \in Names
  BY HostAssumption DEF TypeOK, ScenarioType
<1>5. ~Excused(n) /\ Served(n) /\ (scn.method = "reexec" => scn.works)
  BY <1>1, <1>2, <1>3, <1>4 DEF Excused, LeftInv, ServedEach
<1>6. ~Spoilt /\ ~Crowd
  BY <1>4, <1>5 DEF Spoilt, Again, Failed, Crowd, Excused, LeftInv, BlamedAlike
<1>7. ASSUME NEW p \in Pids, Runner(p, n) PROVE Served(n)'
  <2>1. proc[p].st = "up" /\ proc[p].name = n /\ Works(proc[p].bin) /\ Written(p)
    BY <1>7 DEF Runner, Live
  <2>2. proc'[p].name = n /\ proc'[p].bin \in {"v1", "v2"}
    BY <1>1, <2>1 DEF Fates, Lasting, TypeOK, ProcType
  <2>3. CASE proc'[p].st = "up"
    <3>1. proc'[p].bin = proc[p].bin \/ scn.works
      BY <1>1, <1>5, <2>1, <2>3 DEF Fates
    <3>2. Works(proc[p].bin)'
      BY <1>1, <2>1, <2>2, <3>1 DEF Works
    <3>3. Written(p)'
      BY <2>1, RunsStarts, WrittenStep
    <3> QED
      BY <2>2, <2>3, <3>2, <3>3 DEF Served, Runner, Live
  <2>4. CASE proc'[p].st # "up"
    <3>1. Taken(o, p)
      BY <1>1, <2>1, <2>4 DEF Fates
    <3>2. ~(p = inv[o].pid /\ At(o, "term"))
      <4>1. SUFFICES ASSUME p = inv[o].pid, At(o, "term") PROVE FALSE
        OBVIOUS
      <4>2. o \in Ops
        BY <4>1, RoleFacts DEF At, OpPcs, HelperPcs
      <4>3. inv[o].kind = "stop" /\ inv[o].name = n
        BY <2>1, <4>1, <4>2 DEF LeftInv, StopPids, Is
      <4> QED
        BY <1>3, <4>2, <4>3 DEF LeftInv, Asked, Stopped
    <3>3. "unready" \notin why'[proc[p].name]
      BY <1>3, <2>1 DEF Excused
    <3>4. ~(p = inv[o].pid /\ Starting(o))
      BY <2>1 DEF Written
    <3>5. /\ p = inv[o].pid /\ inv[o].pc \in {"kill", "confirm"} /\ o \in Helpers
          /\ inv'[o].pc \in {"start", "rescue"} /\ Alone(o)
      BY <3>1, <3>2, <3>3, <3>4 DEF Taken
    <3>6. inv[o].name = n
      BY <2>1, <3>5 DEF PidInv, HelperPids, Is
    <3> QED
      BY <3>5, <3>6 DEF Served, Stands, Alone
  <2> QED
    BY <2>3, <2>4
<1>8. ASSUME NEW h \in Helpers, Stands(h, n) PROVE Served(n)'
  <2>1. CASE h = o
    BY <1>3, <1>4, <1>6, <1>8, <2>1, StandsStep DEF LeftInv, Excused
  <2>2. CASE h # o
    <3>1. inv'[h] = inv[h]
      BY <1>1, <1>8, <2>2 DEF Alone, HandsOver, Stands, At, Invs
    <3> QED
      BY <1>8, <3>1 DEF Served, Stands
  <2> QED
    BY <2>1, <2>2
<1> QED
  BY <1>5, <1>7, <1>8 DEF Served

LEMMA RunsLeft ==
  ASSUME TypeOK, TypeOK', Roles, ExeInv, PidInv, LeftInv, NEW o \in Invs, Runs(o)
  PROVE  LeftInv'
<1>1. /\ Fates(o) /\ scn' = scn
      /\ Alone(o) \/ (scn.method # "reexec" /\ \E h \in Helpers : HandsOver(o, h))
  BY RunsFates
<1>2. ReleaseInv'
  BY RunsRelease DEF LeftInv
<1>3. \A q \in Ops : inv'[q].kind = inv[q].kind /\ inv'[q].name = inv[q].name
  BY <1>1, HostAssumption DEF Alone, HandsOver, Invs
<1>4. Asked'
  BY <1>1, <1>3 DEF LeftInv, Asked
<1>5. StopPids'
  <2> SUFFICES ASSUME NEW q \in Ops, inv'[q].pc = "term"
               PROVE  inv'[q].kind = "stop" /\ Is(inv[q].pid, inv[q].name)'
    BY DEF StopPids, At
  <2>1. inv[q].pid \in Pids /\ inv'[q].pid \in Pids /\ q \in Invs
    BY DEF TypeOK, InvType, Invs
  <2>2. CASE q = o
    <3>1. Probes(o) /\ inv[o].kind = "stop" /\ inv[o].name \in Names
      BY <2>1, <2>2, TermFrom DEF TypeOK, InvType
    <3>2. inv'[o].pid = pidf[inv[o].name].val
      BY <2>2, <3>1, ProbesFacts
    <3>3. Is(inv'[o].pid, inv[o].name)
      BY <2>1, <2>2, <3>1, <3>2 DEF PidInv, FiledPids
    <3> QED
      BY <1>1, <1>3, <2>1, <2>2, <3>1, <3>3 DEF Fates, Lasting, Is
  <2>3. CASE q # o
    <3>1. inv'[q] = inv[q]
      BY <1>1, <2>1, <2>3, HostAssumption DEF Alone, HandsOver
    <3>2. inv[q].kind = "stop" /\ Is(inv[q].pid, inv[q].name)
      BY <3>1 DEF LeftInv, StopPids, At
    <3> QED
      BY <1>1, <2>1, <3>1, <3>2 DEF Fates, Lasting, Is
  <2> QED
    BY <2>2, <2>3
<1>6. Methods'
  <2>1. \A p \in Pids : proc'[p].usr2 # "no" => scn'.method = "reexec"
    BY <1>1 DEF Fates, LeftInv, Methods
  <2>2. scn.method \in {"reexec", "helper"}
    BY HostAssumption DEF TypeOK, ScenarioType
  <2>3. ASSUME NEW h \in Helpers, inv'[h].pc # "none" PROVE scn'.method = "helper"
    <3>1. CASE inv[h].pc # "none"
      BY <1>1, <3>1 DEF LeftInv, Methods, At
    <3>2. CASE inv[h].pc = "none"
      <4>1. h \in Invs /\ (h = o => FALSE)
        BY <3>2, HostAssumption DEF Invs, Roles, Runs, Probes, Sweeps, Spawns, Truncates, Writes, WriteFails,
             Terminates, GivesUpWaiting, Unlinks, CopyOpens, CopyWrites, CopyRenames, CopyFails, Updates, Downloads, Swaps,
             Restarts, HelperStops, HelperStarts, HelperConfirms, HelperRescues, At
      <4>2. ~Alone(o)
        BY <2>3, <3>2, <4>1 DEF Alone
      <4> QED
        BY <1>1, <2>2, <4>2
    <3> QED
      BY <3>1, <3>2
  <2> QED
    BY <2>1, <2>3 DEF Methods, At
<1>7. BlamedAlike'
  BY BlamedAlikeStep DEF LeftInv
<1>8. ServedEach'
  BY <1>7, ServedStep
<1>9. ConfirmPids'
  BY ConfirmStep DEF LeftInv
<1> QED
  BY <1>2, <1>4, <1>5, <1>6, <1>7, <1>8, <1>9 DEF LeftInv

LEMMA ServesLeft ==
  ASSUME TypeOK, TypeOK', LeftInv, NEW p \in Pids, UNCHANGED <<scn, inv, ino, file, why>>,
         \A q \in Pids : proc'[q].st = proc[q].st /\ proc'[q].name = proc[q].name,
         \A q \in Pids : /\ proc'[q].bin = proc[q].bin \/ proc[q].usr2 # "no"
                         /\ proc'[q].usr2 # "no" => proc[q].usr2 # "no"
  PROVE  LeftInv'
<1>1. /\ Spoilt' = Spoilt /\ Crowd' = Crowd /\ \A i : First(i)' <=> First(i)
      /\ \A q : Written(q)' <=> Written(q)
  BY DEF Spoilt, Again, Failed, Crowd, First, Written, Starting
<1>2. ReleaseInv'
  <2>1. BeforeRelease => BeforeRelease'
    BY <1>1 DEF BeforeRelease, At, First
  <2>2. AfterRelease => AfterRelease'
    BY <1>1 DEF AfterRelease, At, First, Rolling, InCopy
  <2> QED
    BY <1>1, <2>1, <2>2 DEF LeftInv, ReleaseInv
<1>3. Asked' /\ BlamedAlike'
  BY DEF LeftInv, Asked, BlamedAlike
<1>4. StopPids'
  <2>1. \A q \in Ops : inv[q].pid \in Pids
    BY DEF TypeOK, InvType, Invs
  <2> QED
    BY <2>1 DEF LeftInv, StopPids, At, Is
<1>5. Methods' /\ ConfirmPids'
  BY <1>1 DEF LeftInv, Methods, ConfirmPids, At
<1>6. ServedEach'
  <2> SUFFICES ASSUME NEW n \in scn.up, ~Stopped(n), ~Excused(n) PROVE Served(n)'
    BY DEF ServedEach, Stopped, Excused
  <2>1. Served(n) /\ (scn.method = "reexec" => scn.works)
    BY DEF LeftInv, ServedEach, Excused
  <2>2. ASSUME NEW q \in Pids, Runner(q, n) PROVE Runner(q, n)'
    <3>1. proc[q].st = "up" /\ proc[q].name = n /\ Works(proc[q].bin)
      BY <2>2 DEF Runner, Live
    <3>2. proc'[q].bin \in {"v1", "v2"}
      BY DEF TypeOK, ProcType
    <3>3. proc'[q].bin = proc[q].bin \/ scn.works
      BY <2>1 DEF LeftInv, Methods
    <3>4. Works(proc[q].bin)'
      BY <3>1, <3>2, <3>3 DEF Works
    <3> QED
      BY <1>1, <2>2, <3>1, <3>4 DEF Runner, Live
  <2>3. \A h \in Helpers : Stands(h, n) => Stands(h, n)'
    BY DEF Stands
  <2> QED
    BY <2>1, <2>2, <2>3 DEF Served
<1> QED
  BY <1>2, <1>3, <1>4, <1>5, <1>6 DEF LeftInv

LEMMA InitUp ==
  ASSUME Init, NEW n \in scn.up
  PROVE  FirstPid[n] \in Pids /\ Runner(FirstPid[n], n)
<1> DEFINE owners(p) == {m \in Names : FirstPid[m] = p}
           first(p) == CHOOSE m \in IF owners(p) = {} THEN Names ELSE owners(p) : TRUE
           st(p) == IF owners(p) = {} THEN "none" ELSE IF first(p) \in scn.up THEN "up" ELSE "gone"
           ready(p) == owners(p) # {} /\ first(p) \in scn.up
<1>1. n \in Names /\ FirstPid[n] \in Pids
  BY HostAssumption DEF Init, ScenarioType
<1>2. PICK p \in Pids : p = FirstPid[n]
  BY <1>1
<1>3. owners(p) = {n}
  BY <1>1, <1>2, HostAssumption
<1>4. first(p) = n
  BY <1>3
<1>5. st(p) = "up"
  BY <1>3, <1>4
<1>6. PICK d : d = Newborn(first(p), "v1")
  OBVIOUS
<1>7. PICK s, b : s = st(p) /\ b = ready(p)
  OBVIOUS
<1> DEFINE one(q) == [Newborn(first(q), "v1") EXCEPT !.st = st(q), !.ready = ready(q)]
<1>8. proc[p] = one(p)
  <2>1. proc = [q \in Pids |-> one(q)]
    BY DEF Init
  <2> HIDE DEF one
  <2> QED
    BY <2>1
<1> HIDE DEF st, ready, owners, first
<1>9. proc[p] = [d EXCEPT !.st = s, !.ready = b]
  BY <1>6, <1>7, <1>8
<1>10. d = [st |-> "up", name |-> n, bin |-> "v1", ready |-> FALSE, usr2 |-> "no",
            more |-> FALSE, work |-> {}]
  BY <1>4, <1>6 DEF Newborn
<1>11. proc[p].st = s /\ proc[p].name = n /\ proc[p].bin = "v1"
  BY <1>9, <1>10
<1>12. Written(p)
  <2>1. \A k \in Commands : FirstPc(k) \notin {"truncate", "write"}
    BY DEF Commands, FirstPc
  <2>2. scn.kind \in [Ops -> Commands]
    BY HostAssumption DEF Init, ScenarioType
  <2> QED
    BY <2>1, <2>2, InitTypes DEF Written, Starting, Invs
<1> QED
  BY <1>2, <1>5, <1>7, <1>11, <1>12 DEF Runner, Live, Works

LEMMA InitLeft ==
  ASSUME Init
  PROVE  LeftInv
<1>1. TypeOK /\ \A o \in Invs : inv[o].pc = IF o \in Helpers THEN "none" ELSE FirstPc(scn.kind[o])
  BY InitTypes
<1>2. /\ \A h \in Helpers : inv[h].pc = "none"
      /\ \A o \in Ops : inv[o].pc \in {"done", "probe", "look"}
  <2>1. scn.kind \in [Ops -> Commands]
    BY HostAssumption DEF Init, ScenarioType
  <2>2. \A k \in Commands : FirstPc(k) \in {"done", "probe", "look"}
    BY DEF Commands, FirstPc
  <2> QED
    BY <1>1, <2>1, <2>2, HostAssumption DEF Invs
<1>3. ReleaseInv
  <2>1. file.bak = 0 /\ file.exe = 1 /\ ino[1] = "v1"
    <3>1. /\ ino = [i \in Inodes |-> IF i = 1 THEN "v1" ELSE "none"]
          /\ file = [exe |-> 1, bak |-> 0, baktmp |-> 0, exetmp |-> 0]
      BY DEF Init
    <3>2. 1 \in Inodes
      BY HostAssumption DEF Inodes
    <3> QED
      BY <3>1, <3>2
  <2>2. BeforeRelease
    BY <1>2, <2>1 DEF BeforeRelease, First, At
  <2> QED
    BY <2>1, <2>2 DEF ReleaseInv
<1>4. Asked
  <2>1. ASSUME NEW o \in Ops PROVE inv[o].kind = scn.kind[o] /\ inv[o].name = scn.name[o]
    <3>1. inv[o] = [Blank EXCEPT !.kind = scn.kind[o], !.name = scn.name[o], !.pc = FirstPc(scn.kind[o])]
      BY HostAssumption DEF Init, Invs
    <3>2. PICK k, n, pc : k = scn.kind[o] /\ n = scn.name[o] /\ pc = FirstPc(scn.kind[o])
      OBVIOUS
    <3> QED
      BY <3>1, <3>2 DEF Blank
  <2> QED
    BY <2>1 DEF Asked
<1>5. StopPids
  BY <1>2 DEF StopPids, At
<1>6. Methods
  BY <1>2, InitProcs DEF Methods, At
<1>7. BlamedAlike
  BY DEF Init, BlamedAlike
<1>8. ServedEach
  BY InitUp DEF ServedEach, Served
<1>9. ConfirmPids
  BY <1>2 DEF ConfirmPids, At
<1> QED
  BY <1>3, <1>4, <1>5, <1>6, <1>7, <1>8, <1>9 DEF LeftInv

LEMMA NextLeft ==
  ASSUME IInv, IInv', LeftInv, [Next]_vars
  PROVE  LeftInv'
<1>1. ASSUME NEW o \in Invs, Runs(o) PROVE LeftInv'
  BY <1>1, RunsLeft DEF IInv
<1>2. ASSUME NEW p \in Pids, Serves(p) \/ WorkArrives(p) \/ \E w \in Work : WorkEnds(p, w) PROVE LeftInv'
  <2>1. /\ \A q \in Pids : proc'[q].st = proc[q].st /\ proc'[q].name = proc[q].name
        /\ UNCHANGED <<scn, inv, ino, file, pidf, why>>
    BY <1>2, ServesFacts DEF IInv
  <2>2. \A q \in Pids : /\ proc'[q].bin = proc[q].bin \/ proc[q].usr2 # "no"
                        /\ proc'[q].usr2 # "no" => proc[q].usr2 # "no"
    BY <1>2, ServesBins DEF IInv
  <2> QED
    BY <2>1, <2>2, ServesLeft DEF IInv
<1>3. CASE UNCHANGED vars
  <2>1. UNCHANGED <<scn, inv, proc, ino, file, why>>
    BY <1>3 DEF vars
  <2>2. PICK p \in Pids : TRUE
    BY HostAssumption DEF Pids
  <2> QED
    BY <2>1, <2>2, ServesLeft DEF IInv
<1> QED
  BY <1>1, <1>2, <1>3 DEF Next

\* The rollback: when every update and every helper has ended, a daemon that
\* ran and was not stopped runs a binary that works, whatever the release is
\* and whatever fails on the way: a start that cannot file its pid kills only
\* its own child.  The exceptions are those that NeverLeftWithout names; among
\* failures only that of the rollback itself.
THEOREM NobodyLeftWithout == Spec => []NeverLeftWithout
<1>1. Spec => []LeftInv
  BY Inductive, InitLeft, NextLeft, PTL DEF Spec
<1>2. ASSUME LeftInv, AllDone, NEW n \in scn.up, ~Stopped(n), ~Excused(n)
      PROVE  \E p \in Live(n) : Works(proc[p].bin)
  <2>1. Served(n)
    BY <1>2 DEF LeftInv, ServedEach
  <2>2. \A h \in Helpers : ~Stands(h, n)
    BY <1>2 DEF AllDone, Stands, Invs
  <2> QED
    BY <2>1, <2>2 DEF Served, Runner
<1>3. LeftInv => NeverLeftWithout
  BY <1>2 DEF NeverLeftWithout, Excused
<1> QED
  BY <1>1, <1>3, PTL
=============================================================================
