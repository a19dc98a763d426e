-------------------------------- MODULE Host --------------------------------
(***************************************************************************)
(* One machine that runs daemons: background start, stop and status with   *)
(* PID files, `daemon update`, which swaps the binary and restarts what    *)
(* runs it (in place on SIGUSR2, or through a detached helper that rolls   *)
(* back), and plain `update`.                                              *)
(*                                                                         *)
(* An invocation of the CLI is a process: its program counter stands       *)
(* before its next access to shared state, the files and the processes of  *)
(* the machine.  Files are names of inodes, so that a rename under a       *)
(* writer, and two writers of one temporary file, are what they are.       *)
(***************************************************************************)
EXTENDS Naturals

CONSTANTS
  Names,       \* daemons: instances with a --name and a PID file each
  Ops,         \* invocations of the CLI
  Helpers,     \* restart helpers spawned by them
  Scenarios,   \* see ScenarioType; one is chosen in Init
  FirstPid,    \* [Names -> Pids] the pid each daemon has at first
  MaxPid,      \* bound: processes
  MaxIno       \* bound: files ever created

Pids == 1 .. MaxPid
Inodes == 1 .. MaxIno
Invs == Ops \cup Helpers
Commands == {"none", "start", "stop", "status", "update", "daemon_update"}
NoFile == 0
Empty == MaxPid + 1
Contents == {"v1", "v2", "part"}

\* kind and name: the invocations.  up: daemons that run at first.  method:
\* what restarts them.  works: the new release comes up (it passes its smoke
\* test either way).  slow: a good binary may miss the helper's deadline.
\* busy: commands run on the daemons; long: they may run for over a minute.
ScenarioType ==
  [kind : [Ops -> Commands], name : [Ops -> Names], up : SUBSET Names,
   method : {"reexec", "helper"}, works : BOOLEAN, slow : BOOLEAN,
   force : BOOLEAN, busy : BOOLEAN, long : BOOLEAN]

ASSUME HostAssumption ==
  /\ Scenarios \subseteq ScenarioType
  /\ MaxPid \in Nat \ {0} /\ MaxIno \in Nat \ {0}
  /\ Ops \cap Helpers = {} /\ Names # {}
  /\ FirstPid \in [Names -> Pids]
  /\ \A m, n \in Names : FirstPid[m] = FirstPid[n] => m = n

VARIABLES
  scn,    \* the scenario (never changes)
  inv,    \* [Invs -> ...] the invocations, see TypeOK
  proc,   \* [Pids -> ...] the processes of daemons, see TypeOK
  ino,    \* [Inodes -> Contents or "none"]
  file,   \* [exe, bak, baktmp, exetmp: an inode, or 0]
  pidf,   \* [Names -> [val, gen]] the PID files: a pid, NoFile or Empty, and
          \*   how many files of that name were removed so far
  cut,    \* history: which work was cut off by a restart in place
  why     \* history: [Names -> SUBSET Causes]

vars == <<scn, inv, proc, ino, file, pidf, cut, why>>
disk == <<ino, file>>

\* What made a PID file or a rollback wrong: a second daemon was started
\* ("double"), a PID file was removed that was being written, or that had
\* changed since it was read ("swept"), a helper took a daemon over ("moved"),
\* a second update began to write .bak ("again"), a helper began to roll back
\* ("rolled"), two did so with one binary at once ("crowd"), one could not
\* restore the binary or start it ("failed", logged as ROLLBACK FAILED);
\* SIGUSR2 came before its handler was installed ("unready").
Causes == {"double", "swept", "moved", "again", "rolled", "crowd", "failed", "unready"}
BlameAll(c) == why' = [n \in Names |-> why[n] \cup {c}]
Blame(n, c) == why' = [why EXCEPT ![n] = @ \cup {c}]

Live(n) == {p \in Pids : proc[p].st = "up" /\ proc[p].name = n}
Free(p) == proc[p].st = "none" /\ \A q \in Pids : q < p => proc[q].st # "none"
Fresh(i) == ino[i] = "none" /\ \A j \in Inodes : j < i => ino[j] # "none"
Content(f) == IF file[f] = 0 THEN "none" ELSE ino[file[f]]
Works(v) == v = "v1" \/ (v = "v2" /\ scn.works)

\* A process of daemon n running binary v; its signal handlers are not
\* installed yet.
Newborn(n, v) == [st |-> "up", name |-> n, bin |-> v, ready |-> FALSE, usr2 |-> "no",
                  more |-> FALSE, work |-> {}]
Died(p) == [proc[p] EXCEPT !.st = "gone", !.usr2 = "no", !.work = {}]

At(o, pc) == inv[o].pc = pc
Goto(o, pc) == inv' = [inv EXCEPT ![o].pc = pc]

---------------------------------------------------------------------------
(* isRunning: read the PID file, probe the process, remove a stale file.   *)

\* Where an invocation goes on after isRunning has answered yes, and no.
Yes(o) == [start |-> "done", stop |-> IF At(o, "probe") THEN "term" ELSE "wait",
           status |-> "done"][inv[o].kind]
No(o) == [start |-> "spawn", status |-> "done",
          stop |-> IF At(o, "probe") THEN "remove" ELSE "done"][inv[o].kind]

Probes(o) ==
  /\ inv[o].kind \in {"start", "stop", "status"}
  /\ inv[o].pc \in {"probe", "wait"}
  /\ LET got == pidf[inv[o].name].val
         alive == got \in Pids /\ proc[got].st = "up"
     IN  inv' = [inv EXCEPT ![o].pid = IF alive /\ At(o, "probe") THEN got ELSE @,
                   ![o].pc = IF alive THEN Yes(o) ELSE IF got = NoFile THEN No(o) ELSE "sweep",
                   ![o].then = IF alive THEN "none" ELSE No(o)]
  /\ UNCHANGED <<scn, proc, disk, pidf, cut, why>>

\* os.Remove of the PID file; by now it may be another one.
Removes(o) ==
  LET n == inv[o].name  f == pidf[n].val
  IN  /\ pidf' = IF f = NoFile THEN pidf ELSE [pidf EXCEPT ![n] = [val |-> NoFile, gen |-> @.gen + 1]]
      /\ IF f = Empty \/ f \in Live(n) THEN Blame(n, "swept") ELSE UNCHANGED why

Sweeps(o) ==
  /\ At(o, "sweep")
  /\ Removes(o)
  /\ Goto(o, inv[o].then)
  /\ UNCHANGED <<scn, proc, disk, cut>>

---------------------------------------------------------------------------
(* startBackground and stopBackground.                                     *)

Spawns(o) ==
  /\ At(o, "spawn")
  /\ LET n == inv[o].name
     IN  IF Content("exe") \in {"v1", "v2"}
         THEN \E p \in Pids :
                /\ Free(p)
                /\ proc' = [proc EXCEPT ![p] = Newborn(n, Content("exe"))]
                /\ inv' = [inv EXCEPT ![o].pc = "truncate", ![o].pid = p]
                /\ IF Live(n) # {} THEN Blame(n, "double") ELSE UNCHANGED why
         ELSE Goto(o, "done") /\ UNCHANGED <<proc, why>>
  /\ UNCHANGED <<scn, disk, pidf, cut>>

\* os.WriteFile opens the file with O_TRUNC, then writes.
Truncates(o) ==
  /\ At(o, "truncate")
  /\ pidf' = [pidf EXCEPT ![inv[o].name].val = Empty]
  /\ inv' = [inv EXCEPT ![o].pc = "write", ![o].gen = pidf[inv[o].name].gen]
  /\ UNCHANGED <<scn, proc, disk, cut, why>>

PidOfSelf(o) == 1
\* cmd.Process.Pid
PidOf(o) == inv[o].pid

Writes(o) ==
  /\ At(o, "write")
  \* A file that was removed in between is written all the same, unseen.
  /\ pidf' = [pidf EXCEPT ![inv[o].name].val =
                IF pidf[inv[o].name].gen = inv[o].gen THEN PidOf(o) ELSE @]
  /\ Goto(o, "done")
  /\ UNCHANGED <<scn, proc, disk, cut, why>>

\* The PID file cannot be opened, or not be written: the child is killed.
WriteFails(o) ==
  /\ At(o, "truncate") \/ At(o, "write")
  /\ LET p == PidOf(o)
     IN  proc' = IF proc[p].st = "up" THEN [proc EXCEPT ![p] = Died(p)] ELSE proc
  /\ Goto(o, "done")
  /\ UNCHANGED <<scn, disk, pidf, cut, why>>

\* SIGTERM: a daemon handles it nowhere and dies.  If that fails the process
\* is gone already and the PID file is removed.
Terminates(o) ==
  /\ At(o, "term")
  /\ LET p == inv[o].pid
     IN  IF proc[p].st = "up"
         THEN proc' = [proc EXCEPT ![p] = Died(p)] /\ Goto(o, "wait")
         ELSE Goto(o, "remove") /\ UNCHANGED proc
  /\ UNCHANGED <<scn, disk, pidf, cut, why>>

\* After ten probes that found a live process: kill the one it meant, which
\* is dead, and remove the PID file, which belongs to another one.
GivesUpWaiting(o) ==
  /\ At(o, "wait")
  /\ pidf[inv[o].name].val \in Live(inv[o].name)
  /\ Goto(o, "remove")
  /\ UNCHANGED <<scn, proc, disk, pidf, cut, why>>

Unlinks(o) ==
  /\ At(o, "remove")
  /\ Removes(o)
  /\ Goto(o, "done")
  /\ UNCHANGED <<scn, proc, disk, cut>>

---------------------------------------------------------------------------
(* copyFile, in three steps: source and <dst>.tmp are opened, the latter   *)
(* with O_TRUNC; the data is written; the temporary file is renamed.       *)

\* Both temporary names are the same for every invocation.
Tmp(f) == IF f = "bak" THEN "baktmp" ELSE "exetmp"
CopyOfExe(o) == IF o \in Helpers THEN [src |-> "exe", dst |-> "bak", next |-> "start_again"]
                ELSE [src |-> "exe", dst |-> "bak", next |-> "swap"]
CopyOf(o) == IF o \in Helpers THEN [src |-> "bak", dst |-> "exe", next |-> "start_again"]
             ELSE [src |-> "exe", dst |-> "bak", next |-> "swap"]

CopyOpens(o) ==
  /\ At(o, "copy")
  /\ LET c == CopyOf(o)  t == Tmp(c.dst)
     IN  IF file[c.src] = 0 THEN Goto(o, "done") /\ UNCHANGED <<disk, why>>
         ELSE \E i \in Inodes :
                /\ IF file[t] = 0 THEN Fresh(i) ELSE i = file[t]
                /\ ino' = [ino EXCEPT ![i] = "part"]
                /\ file' = [file EXCEPT ![t] = i]
                /\ inv' = [inv EXCEPT ![o].pc = "copying", ![o].from = file[c.src], ![o].to = i]
                /\ IF c.dst = "bak" /\ (file.bak # 0 \/ file.baktmp # 0) THEN BlameAll("again")
                   ELSE UNCHANGED why
  /\ UNCHANGED <<scn, proc, pidf, cut>>

\* Over the bytes of another writer: the longer binary's tail stays.
CopyWrites(o) ==
  /\ At(o, "copying")
  /\ \E new \in IF ino[inv[o].to] \in {"part", ino[inv[o].from]} THEN {ino[inv[o].from]}
                ELSE {ino[inv[o].from], "part"} :
       ino' = [ino EXCEPT ![inv[o].to] = new]
  /\ Goto(o, "copied")
  /\ UNCHANGED <<scn, proc, file, pidf, cut, why>>

CopyRenames(o) ==
  /\ At(o, "copied")
  /\ LET c == CopyOf(o)  t == Tmp(c.dst)
     IN  IF file[t] = 0 THEN Goto(o, "done") /\ UNCHANGED file
         ELSE /\ file' = [file EXCEPT ![c.dst] = file[t], ![t] = 0]
              /\ Goto(o, c.next)
  /\ UNCHANGED <<scn, proc, ino, pidf, cut, why>>

\* An error (no space, no permission) ends the copy.  One while data is
\* written leaves part of it, and what goes by the temporary name is removed.
\* A rollback that fails has moved exe away already.
CopyFails(o) ==
  /\ inv[o].pc \in {"copy", "copying", "copied"}
  /\ IF At(o, "copying")
     THEN /\ \E new \in {ino[inv[o].to], "part"} : ino' = [ino EXCEPT ![inv[o].to] = new]
          /\ file' = [file EXCEPT ![Tmp(CopyOf(o).dst)] = 0]
     ELSE UNCHANGED disk
  /\ Goto(o, "done")
  /\ IF o \in Helpers THEN BlameAll("failed") ELSE UNCHANGED why
  /\ UNCHANGED <<scn, proc, pidf, cut>>

---------------------------------------------------------------------------
(* update and daemon update: handleUpdate, handleProcUpdate, installRelease. *)

\* handleUpdate compares the CLI's own version, handleProcUpdate the disk's.
Installs == scn.force \/ Content("exe") = "v1"

\* Which processes are restarted, and is the release installed first?
Updates(o) ==
  /\ inv[o].kind \in {"update", "daemon_update"} /\ At(o, "look")
  /\ LET found == IF inv[o].kind = "update" THEN {} ELSE {p \in Pids : proc[p].st = "up"}
         target == IF Installs THEN "v2" ELSE Content("exe")
         restart == {p \in found : scn.force \/ Installs \/ proc[p].bin # target}
     IN  inv' = [inv EXCEPT ![o].procs = restart,
                   ![o].pc = IF inv[o].kind = "daemon_update" /\ found = {} THEN "done"
                             ELSE IF Installs THEN "download" ELSE "restart"]
  /\ UNCHANGED <<scn, proc, disk, pidf, cut, why>>

\* The release goes to a file of this process, is verified and smoke-tested.
\* Any of them may fail; nothing that others see has changed then.
Downloads(o) ==
  /\ At(o, "download")
  /\ Goto(o, "copy") \/ Goto(o, "done")
  /\ UNCHANGED <<scn, proc, disk, pidf, cut, why>>

SwapsAside(o) ==
  /\ At(o, "swap") /\ file.exe # 0
  /\ file' = [file EXCEPT !.exe = 0]
  /\ UNCHANGED <<scn, inv, proc, ino, pidf, cut, why>>
\* rename(2) of the new file over exe, unless it fails.
Swaps(o) ==
  /\ At(o, "swap")
  /\ \/ /\ \E i \in Inodes :
            Fresh(i) /\ ino' = [ino EXCEPT ![i] = "v2"] /\ file' = [file EXCEPT !.exe = i]
        /\ Goto(o, "restart")
     \/ Goto(o, "done") /\ UNCHANGED disk
  /\ UNCHANGED <<scn, proc, pidf, cut, why>>

\* sendRestartSignal: SIGUSR2, which kills a process without a handler and
\* fails for one that is gone.  The channel keeps one that comes during
\* waitIdle, which is lost in the exec.
SignalTaken(p) == IF proc[p].usr2 = "no" THEN [proc[p] EXCEPT !.usr2 = "sent"]
                  ELSE [proc[p] EXCEPT !.more = TRUE]
SignalledBlindly(p) == IF proc[p].ready THEN SignalTaken(p) ELSE Died(p)
Signalled(p) == IF proc[p].st # "up" THEN proc[p]
                ELSE IF proc[p].ready THEN SignalTaken(p) ELSE Died(p)

\* restartProc, for one process after the other.
Restarts(o) ==
  /\ At(o, "restart")
  /\ IF inv[o].procs = {} THEN Goto(o, "done") /\ UNCHANGED <<proc, why>>
     ELSE \E p \in inv[o].procs :
       LET left == [inv EXCEPT ![o].procs = @ \ {p}]  n == proc[p].name
       IN  IF scn.method = "reexec"
           THEN /\ proc' = [proc EXCEPT ![p] = Signalled(p)]
                /\ inv' = left
                /\ IF proc[p].st = "up" /\ ~proc[p].ready THEN Blame(n, "unready") ELSE UNCHANGED why
           ELSE \E h \in Helpers :
                /\ At(h, "none")
                /\ inv' = [left EXCEPT ![h] = [@ EXCEPT !.pc = "kill", !.pid = p, !.name = n]]
                /\ UNCHANGED <<proc, why>>
  /\ UNCHANGED <<scn, disk, pidf, cut>>

---------------------------------------------------------------------------
(* The restart helper.                                                     *)

HelperStops(h) ==
  /\ At(h, "kill")
  /\ LET p == inv[h].pid
     IN  proc' = IF proc[p].st = "up" THEN [proc EXCEPT ![p] = Died(p)] ELSE proc
  /\ Goto(h, "start")
  /\ Blame(inv[h].name, "moved")
  /\ UNCHANGED <<scn, disk, pidf, cut>>

\* startAndConfirm, the start.  It may fail for want of a log file or a
\* process, too.
HelperStarts(h) ==
  /\ At(h, "start") \/ At(h, "start_again")
  /\ LET n == inv[h].name
         again == At(h, "start_again")
         runnable == Content("exe") \in {"v1", "v2"}
     IN  \/ /\ runnable
            /\ \E p \in Pids :
                 /\ Free(p)
                 /\ proc' = [proc EXCEPT ![p] = Newborn(n, Content("exe"))]
                 /\ inv' = [inv EXCEPT ![h].pid = p, ![h].pc = IF again THEN "confirm_again" ELSE "confirm"]
            /\ UNCHANGED why
         \/ /\ Goto(h, IF again THEN "done" ELSE "rescue")
            /\ IF again /\ runnable THEN Blame(n, "failed") ELSE UNCHANGED why
            /\ UNCHANGED proc
  /\ UNCHANGED <<scn, disk, pidf, cut>>

\* startAndConfirm, the wait: what does not come up is stopped and rolled
\* back the first time, left alone the second time.
HelperConfirms(h) ==
  /\ At(h, "confirm") \/ At(h, "confirm_again")
  /\ LET p == inv[h].pid  good == proc[p].st = "up" /\ Works(proc[p].bin)
     IN  \/ good /\ Goto(h, "done") /\ UNCHANGED proc
         \/ /\ ~good \/ scn.slow
            /\ IF At(h, "confirm_again")
               THEN Goto(h, "done") /\ UNCHANGED proc
               ELSE /\ proc' = IF proc[p].st = "up" THEN [proc EXCEPT ![p] = Died(p)] ELSE proc
                    /\ Goto(h, "rescue")
  /\ UNCHANGED <<scn, disk, pidf, cut, why>>

\* The rollback: exe is moved to exe.failed, then .bak is copied back.
Others(h) == {g \in Helpers \ {h} : inv[g].pc \notin {"none", "done"}}
HelperRescues(h) ==
  /\ At(h, "rescue")
  /\ IF file.bak = 0 THEN Goto(h, "done") /\ UNCHANGED <<file, why>>
     ELSE /\ file' = [file EXCEPT !.exe = 0]
          /\ Goto(h, "copy")
          /\ why' = [n \in Names |-> why[n] \cup IF Others(h) = {} THEN {"rolled"} ELSE {"rolled", "crowd"}]
  /\ UNCHANGED <<scn, proc, ino, pidf, cut>>

---------------------------------------------------------------------------
(* A daemon: listenForRestartSignal, waitIdle, and the work it does.       *)

\* signal.Notify, in a goroutine at the start of runDaemon.
Notifies(p) ==
  /\ proc[p].st = "up" /\ ~proc[p].ready
  /\ proc' = [proc EXCEPT ![p].ready = TRUE]
  /\ UNCHANGED <<scn, inv, disk, pidf, cut, why>>

\* A command (counted in td.inflight) or a chunked transfer (not counted)
\* arrives, and later ends.
Counted == {"before", "after"}
Work == {"before", "after", "transfer"}
WorkArrives(p) ==
  /\ scn.busy /\ proc[p].st = "up" /\ proc[p].ready /\ proc[p].bin = "v1"
  /\ \E w \in {"transfer", IF proc[p].usr2 = "no" THEN "before" ELSE "after"} \ proc[p].work :
       proc' = [proc EXCEPT ![p].work = @ \cup {w}]
  /\ UNCHANGED <<scn, inv, disk, pidf, cut, why>>

WorkEnds(p, w) ==
  /\ proc[p].st = "up" /\ w \in proc[p].work
  /\ proc' = [proc EXCEPT ![p].work = @ \ {w}]
  /\ UNCHANGED <<scn, inv, disk, pidf, cut, why>>

\* A minute has passed since SIGUSR2; commands are shorter, unless scn.long.
MinutePasses(p) ==
  /\ proc[p].usr2 = "sent" /\ (scn.long \/ "before" \notin proc[p].work)
  /\ proc' = [proc EXCEPT ![p].usr2 = "late"]
  /\ UNCHANGED <<scn, inv, disk, pidf, cut, why>>

\* waitIdle returns: nothing counted is running, or a minute has passed.
IdleAtOnce(p) == TRUE
IdlePatient(p) == proc[p].work \cap Counted = {}
Idle(p) == proc[p].work \cap Counted = {} \/ proc[p].usr2 = "late"
GoesIdle(p) ==
  /\ proc[p].usr2 \in {"sent", "late"} /\ Idle(p)
  /\ proc' = [proc EXCEPT ![p].usr2 = "idle"]
  /\ UNCHANGED <<scn, inv, disk, pidf, cut, why>>

\* syscall.Exec of the path the process was started from, 200 ms later; what
\* still runs is cut off.  If exe cannot be run the process continues, and
\* takes the next signal; what runs then was there before that.
Continued(p) ==
  [proc[p] EXCEPT !.usr2 = IF proc[p].more THEN "sent" ELSE "no", !.more = FALSE,
                  !.work = (@ \ Counted) \cup (IF @ \cap Counted = {} THEN {} ELSE {"before"})]
Reexecs(p) ==
  /\ proc[p].usr2 = "idle"
  /\ IF Content("exe") \in {"v1", "v2"}
     THEN /\ proc' = [proc EXCEPT ![p] = Newborn(proc[p].name, Content("exe"))]
          /\ cut' = cut \cup proc[p].work
     ELSE proc' = [proc EXCEPT ![p] = Continued(p)] /\ UNCHANGED cut
  /\ UNCHANGED <<scn, inv, disk, pidf, why>>

---------------------------------------------------------------------------
FirstPc(k) == CASE k = "none" -> "done" [] k \in {"start", "stop", "status"} -> "probe" [] OTHER -> "look"
Blank == [kind |-> "none", name |-> CHOOSE n \in Names : TRUE, pc |-> "none", then |-> "none",
          gen |-> 0, pid |-> 1, procs |-> {}, from |-> 1, to |-> 1]

Init ==
  /\ scn \in Scenarios
  /\ inv = [o \in Invs |-> IF o \in Helpers THEN [Blank EXCEPT !.kind = "helper"]
                           ELSE [Blank EXCEPT !.kind = scn.kind[o], !.name = scn.name[o],
                                              !.pc = FirstPc(scn.kind[o])]]
  \* The daemons that run, and those that were killed and left their PID
  \* files behind.
  /\ proc = [p \in Pids |->
       LET owners == {n \in Names : FirstPid[n] = p}
           n == CHOOSE m \in IF owners = {} THEN Names ELSE owners : TRUE
       IN  [Newborn(n, "v1") EXCEPT
              !.st = IF owners = {} THEN "none" ELSE IF n \in scn.up THEN "up" ELSE "gone",
              !.ready = owners # {} /\ n \in scn.up]]
  /\ pidf = [n \in Names |-> [val |-> FirstPid[n], gen |-> 0]]
  /\ ino = [i \in Inodes |-> IF i = 1 THEN "v1" ELSE "none"]
  /\ file = [exe |-> 1, bak |-> 0, baktmp |-> 0, exetmp |-> 0]
  /\ cut = {} /\ why = [n \in Names |-> {}]

\* A step of invocation o.
Runs(o) ==
  \/ Probes(o) \/ Sweeps(o)
  \/ Spawns(o) \/ Truncates(o) \/ Writes(o) \/ WriteFails(o)
  \/ Terminates(o) \/ GivesUpWaiting(o) \/ Unlinks(o)
  \/ CopyOpens(o) \/ CopyWrites(o) \/ CopyRenames(o) \/ CopyFails(o)
  \/ Updates(o) \/ Downloads(o) \/ Swaps(o) \/ Restarts(o)
  \/ HelperStops(o) \/ HelperStarts(o) \/ HelperConfirms(o) \/ HelperRescues(o)

\* A step of the process p of a daemon towards its restart.
Serves(p) == Notifies(p) \/ MinutePasses(p) \/ GoesIdle(p) \/ Reexecs(p)

Next == (\E o \in Invs : Runs(o)) \/ (\E p \in Pids : \/ Serves(p) \/ WorkArrives(p)
                                                           \/ \E w \in Work : WorkEnds(p, w))

Spec == Init /\ [][Next]_vars

\* The operating system runs every process; commands end.
FairSpec == Spec /\ (\A o \in Invs : WF_vars(Runs(o)))
                 /\ (\A p \in Pids : /\ WF_vars(Serves(p))
                                     /\ \A w \in Work : WF_vars(WorkEnds(p, w)))

---------------------------------------------------------------------------
(* Properties.                                                             *)

Pcs == {"none", "probe", "wait", "sweep", "spawn", "truncate", "write", "term", "remove",
        "copy", "copying", "copied", "look", "download", "swap", "restart",
        "kill", "start", "confirm", "rescue", "start_again", "confirm_again", "done"}
InvType == [kind : Commands \cup {"helper"}, name : Names, pc : Pcs,
            then : {"none", "spawn", "remove", "done"}, gen : Nat, pid : Pids,
            procs : SUBSET Pids, from : Inodes, to : Inodes]
ProcType == [st : {"none", "up", "gone"}, name : Names, bin : {"v1", "v2"}, ready : BOOLEAN,
             usr2 : {"no", "sent", "late", "idle"}, more : BOOLEAN, work : SUBSET Work]

TypeOK ==
  /\ scn \in Scenarios
  /\ inv \in [Invs -> InvType]
  /\ proc \in [Pids -> ProcType]
  /\ \A p \in Pids : proc[p].st # "up" => proc[p].usr2 = "no" /\ proc[p].work = {}
  /\ ino \in [Inodes -> Contents \cup {"none"}]
  /\ file \in [{"exe", "bak", "baktmp", "exetmp"} -> {0} \cup Inodes]
  /\ pidf \in [Names -> [val : 0 .. Empty, gen : Nat]]
  /\ cut \subseteq Work
  /\ why \in [Names -> SUBSET Causes]

Ever(c) == \E n \in Names : c \in why[n]

\* installRelease: the binary is swapped in by one rename, so that the path of
\* the binary names a complete, executable file at every moment, whatever
\* other updates run and whatever fails on the way: only a rollback takes it
\* away, until its copy is complete or for good if the copy fails, and only
\* after a rollback from a .bak that two updates wrote to there may be a
\* fragment.
ExeRunnable ==
  \/ Content("exe") \in {"v1", "v2"}
  \/ \E h \in Helpers : inv[h].pc \in {"copy", "copying", "copied"}
  \/ Ever("failed") \/ (Ever("again") /\ Ever("rolled"))

AllDone == /\ \A o \in Invs : inv[o].pc \in {"none", "done"}
           /\ \A p \in Pids : proc[p].usr2 = "no"

\* When nothing is under way, the PID file of a daemon names the one process
\* of it that runs.  The ways to lose it: start checks and writes in separate
\* steps ("double"), isRunning and stopBackground remove a file they read or
\* expected earlier ("swept"), a helper kills the daemon, maybe before its
\* start has written the file, and starts one without writing it ("moved");
\* the signal of another update may kill it as early ("unready").
PidFileExact ==
  AllDone => \A n \in Names :
    \/ \A p \in Live(n) : pidf[n].val = p
    \/ why[n] \cap {"double", "swept", "moved", "unready"} # {}

Stopped(n) == \E o \in Ops : scn.kind[o] = "stop" /\ scn.name[o] = n
\* restarthelper.go: nodes "must never be left without a running daemon, hence
\* the automatic rollback".  After updates and their helpers have ended, each
\* daemon that ran before and was not stopped runs a binary that works, even
\* if the release does not come up.  Not so when the rollback fails itself,
\* when .bak was overwritten by a second update, when two helpers roll back
\* one binary, or with a restart in place, which has no rollback and whose
\* signal may kill.
NeverLeftWithout ==
  AllDone => \A n \in scn.up :
    \/ Stopped(n)
    \/ \E p \in Live(n) : Works(proc[p].bin)
    \/ why[n] \cap {"again", "crowd", "failed", "unready"} # {}
    \/ scn.method = "reexec" /\ ~scn.works

\* waitIdle: a command that was running when the restart was asked for is not
\* cut off by it, unless it runs for over a minute.
SignalledWorkFinishes == "before" \in cut => scn.long

\* Every invocation ends, and a restart that was asked for takes place in
\* spite of commands that keep arriving.
EverythingEnds == <>[]AllDone
=============================================================================
