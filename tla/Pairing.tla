------------------------------ MODULE Pairing -------------------------------
(***************************************************************************)
(* Pairing: `pair listen` waits at the relay for a daemon that presents    *)
(* the same code, `pair accept` leaves code and activation key in files    *)
(* for the daemon, which offers them until the relay confirms, and the     *)
(* relay checks the key against a file that `relay add-key` and `relay     *)
(* remove-key` rewrite while it runs.                                      *)
(*                                                                         *)
(* os.WriteFile truncates and then writes: a file that is being written    *)
(* is Half; the key file is None until the first add-key.  A stamp stands  *)
(* for the modification time and size of the key file; no two writes have  *)
(* the same one.  Time is a single day's passing.                          *)
(***************************************************************************)
EXTENDS Naturals, Sequences, FiniteSets

CONSTANTS
  Listeners, Daemons, Codes, Keys, Clis,   \* Clis: invocations of add-key and remove-key
  Scenarios,   \* see ScenarioType; one is chosen in Init
  MaxStamp,    \* bound: writes of the key file
  None, Half

\* listen: code of each listener, or None; need: those with
\* --require-activation-key.  accept: what `pair accept` is run with on each
\* daemon's machine, in this order; before: where the first of them is
\* before the daemon starts, as install.sh does it.  cli: what happens to the keys.
\* bare: there is no key file yet; unread: reading it may fail.  quits:
\* listeners may time out; drop: a daemon may lose the relay, once; day: 24 h
\* pass.
ScenarioType ==
  [listen : [Listeners -> Codes \cup {None}], need : SUBSET Listeners,
   accept : [Daemons -> Seq([code : Codes, key : Keys \cup {None}])],
   keys : SUBSET Keys, cli : [Clis -> {"add", "remove", "none"} \X Keys],
   bare : BOOLEAN, unread : BOOLEAN,
   before : SUBSET Daemons, quits : BOOLEAN, drop : BOOLEAN, day : BOOLEAN]

ASSUME PairingAssumption ==
  /\ Scenarios \subseteq ScenarioType /\ MaxStamp \in Nat \ {0}
  /\ \A s \in Scenarios : (\A d \in s.before : s.accept[d] # <<>>) /\ (s.bare => s.keys = {})
  /\ None # Half /\ {None, Half} \cap (Codes \cup Keys \cup Daemons \cup Listeners) = {}
  /\ \A S \in SUBSET Keys : S \notin {None, Half}

VARIABLES
  scn,    \* the scenario (never changes)
  lis,    \* [Listeners -> [st, got]] `pair listen`, got: the daemons of pair_done
  tab,    \* rs.pairListeners: [Codes -> a listener or None]
  hand,   \* [Daemons -> ...] the relay's handlePair for a daemon, see TypeOK
  cache,  \* activationKeys: [keys, stamp]
  kfile,  \* the key file: [keys: a set, Half or None; stamp]
  cli,    \* [Clis -> [pc, keys]]
  dm,     \* [Daemons -> ...] the daemon, see TypeOK
  file,   \* [Daemons -> [code, key, old]] its files; old: over 24 h
  acc,    \* [Daemons -> [pc, n]] `pair accept` on its machine
  day,    \* has the day passed?
  lost    \* history: [Daemons -> SUBSET Causes]

vars == <<scn, lis, tab, hand, cache, kfile, cli, dm, file, acc, day, lost>>
relayKeys == <<cache, kfile, cli>>

\* Why a code was given up without a pairing: 24 h had passed ("expired"),
\* the relay confirmed although the listener was gone ("deaf"), the
\* confirmation of another code deleted it ("crossed"), it was deleted as
\* expired before its time ("young").  "raced": the key cache was set back by
\* a slower reload before the daemon's key was looked up.  "unread": the relay
\* could not read the key file, and looked a key up in what it had read before.
\* "cleared": a reload that had found no file cleared what another had read.
Causes == {"expired", "deaf", "crossed", "young", "raced", "unread", "cleared"}
Blame(d, c) == lost' = [lost EXCEPT ![d] = @ \cup {c}]

---------------------------------------------------------------------------
(* `pair listen`.                                                          *)

Listens(l) ==
  /\ lis[l].st = "idle" /\ scn.listen[l] # None
  /\ lis' = [lis EXCEPT ![l].st = "waiting"]
  /\ tab' = [tab EXCEPT ![scn.listen[l]] = l]
  /\ UNCHANGED <<scn, hand, relayKeys, dm, file, acc, day, lost>>

\* --timeout, or the user interrupts it.  The relay does not unregister a
\* connection that never registered a name, so the entry stays.
Quits(l) ==
  /\ scn.quits /\ lis[l].st = "waiting"
  /\ lis' = [lis EXCEPT ![l].st = "gone"]
  /\ UNCHANGED <<scn, tab, hand, relayKeys, dm, file, acc, day, lost>>

---------------------------------------------------------------------------
(* The relay's handlePair, in the read loop of daemon d.                   *)

Done(d) == hand' = [hand EXCEPT ![d].pc = "idle"]

\* The keys that a reader of the key file gets.
Parsed == IF kfile.keys \in {Half, None} THEN {} ELSE kfile.keys

\* The listener is taken out of the table under the lock.
EntryKept(c) == tab
EntryTaken(c) == [tab EXCEPT ![c] = None]
Takes(d) ==
  /\ dm[d].up /\ dm[d].out # <<>> /\ hand[d].pc = "idle"
  /\ LET m == Head(dm[d].out)  l == tab[m.code]
     IN  /\ dm' = [dm EXCEPT ![d].out = Tail(@)]
         /\ IF l = None THEN UNCHANGED <<tab, hand>>
            ELSE /\ tab' = EntryTaken(m.code)
                 /\ hand' = [hand EXCEPT ![d] =
                      [@ EXCEPT !.code = m.code, !.key = m.key, !.lis = l,
                                !.pc = IF l \notin scn.need THEN "match"
                                       ELSE IF m.key = None THEN "reject" ELSE "stat",
                                !.held = m.key \in Parsed]]
  /\ UNCHANGED <<scn, lis, relayKeys, file, acc, day, lost>>

\* activationKeyStore.reload: stat, and nothing more if the file has not
\* changed; read; store.  No lock is held from one to the next.
FreshOnceRead == cache.stamp # 0
Fresh == kfile.stamp = cache.stamp
Stats(d) ==
  /\ hand[d].pc = "stat"
  /\ hand' = [hand EXCEPT ![d].stamp = IF kfile.keys = None THEN 0 ELSE kfile.stamp,
                          ![d].pc = IF kfile.keys = None THEN "gone"
                                    ELSE IF Fresh THEN "check" ELSE "read"]
  /\ UNCHANGED <<scn, lis, tab, relayKeys, dm, file, acc, day, lost>>

\* "File doesn't exist": the keys are cleared, their stamp is not.
Clears(d) ==
  /\ hand[d].pc = "gone"
  /\ cache' = [cache EXCEPT !.keys = {}]
  /\ hand' = [hand EXCEPT ![d].pc = "check"]
  /\ lost' = [e \in Daemons |-> IF kfile.keys = None THEN lost[e] ELSE lost[e] \cup {"cleared"}]
  /\ UNCHANGED <<scn, lis, tab, kfile, cli, dm, file, acc, day>>

Reads(d) ==
  /\ hand[d].pc = "read"
  /\ hand' = [hand EXCEPT ![d].pc = "store", ![d].keys = Parsed]
  /\ UNCHANGED <<scn, lis, tab, relayKeys, dm, file, acc, day, lost>>

\* os.ReadFile fails: reload returns and the old keys stay.  Bound: once for
\* each daemon.
ReadFails(d) ==
  /\ scn.unread /\ hand[d].pc = "read" /\ "unread" \notin lost[d]
  /\ hand' = [hand EXCEPT ![d].pc = "check"]
  /\ Blame(d, "unread")
  /\ UNCHANGED <<scn, lis, tab, relayKeys, dm, file, acc, day>>

Stores(d) ==
  /\ hand[d].pc = "store"
  /\ cache' = [keys |-> hand[d].keys, stamp |-> hand[d].stamp]
  /\ hand' = [hand EXCEPT ![d].pc = "check"]
  /\ lost' = [e \in Daemons |->
       IF e # d /\ hand[e].pc = "check" /\ hand[d].stamp < cache.stamp THEN lost[e] \cup {"raced"} ELSE lost[e]]
  /\ UNCHANGED <<scn, lis, tab, kfile, cli, dm, file, acc, day>>

Checks(d) ==
  /\ hand[d].pc = "check"
  /\ hand' = [hand EXCEPT ![d].pc = IF hand[d].key \in cache.keys THEN "match" ELSE "reject"]
  /\ UNCHANGED <<scn, lis, tab, relayKeys, dm, file, acc, day, lost>>

\* The listener is put back, whatever is in its place by now.
Rejects(d) ==
  /\ hand[d].pc = "reject"
  /\ tab' = [tab EXCEPT ![hand[d].code] = hand[d].lis]
  /\ Done(d)
  /\ UNCHANGED <<scn, lis, relayKeys, dm, file, acc, day, lost>>

\* pair_done to the listener, then pair_confirmed to the daemon: neither
\* send's error is looked at.
Matches(d) ==
  /\ hand[d].pc = "match"
  /\ LET l == hand[d].lis  hears == lis[l].st \in {"waiting", "paired"}
     IN  /\ lis' = IF hears THEN [lis EXCEPT ![l] = [st |-> "paired", got |-> Append(@.got, d)]] ELSE lis
         /\ dm' = IF dm[d].up THEN [dm EXCEPT ![d].in = Append(@, hand[d].code)] ELSE dm
         /\ IF ~hears THEN Blame(d, "deaf") ELSE UNCHANGED lost
  /\ Done(d)
  /\ UNCHANGED <<scn, tab, relayKeys, file, acc, day>>

---------------------------------------------------------------------------
(* relay add-key and remove-key: read the file, change the list, write.    *)

\* A file that cannot be read looks like an empty one.
CliReads(x) ==
  /\ cli[x].pc = "read" /\ scn.cli[x][1] # "none"
  /\ \E seen \in IF scn.unread THEN {Parsed, {}} ELSE {Parsed} :
       LET k == scn.cli[x][2]
           new == IF scn.cli[x][1] = "add" THEN seen \cup {k} ELSE seen \ {k}
       IN  cli' = [cli EXCEPT ![x] = [keys |-> new, pc |-> IF scn.cli[x][1] = "add" /\ k \in seen
                                                           THEN "done" ELSE "truncate"]]
  /\ UNCHANGED <<scn, lis, tab, hand, cache, kfile, dm, file, acc, day, lost>>

\* The keys whose holder may be admitted by a check that is going on.
Witnessed(keys) == [d \in Daemons |-> [hand[d] EXCEPT !.held = @ \/ hand[d].key \in keys]]

CliWrites(x) ==
  /\ cli[x].pc \in {"truncate", "write"} /\ kfile.stamp < MaxStamp
  /\ IF cli[x].pc = "truncate"
     THEN kfile' = [keys |-> Half, stamp |-> kfile.stamp + 1] /\ UNCHANGED hand
     ELSE kfile' = [keys |-> cli[x].keys, stamp |-> kfile.stamp + 1] /\ hand' = Witnessed(cli[x].keys)
  /\ cli' = [cli EXCEPT ![x].pc = IF @ = "truncate" THEN "write" ELSE "done"]
  /\ UNCHANGED <<scn, lis, tab, cache, dm, file, acc, day, lost>>

---------------------------------------------------------------------------
(* The daemon: sendPairIfNeeded, pairRetryLoop, pair_confirmed.            *)

CodeDeleted(d) == [file EXCEPT ![d].code = None]
NoCode(d) == [file EXCEPT ![d].code = None, ![d].old = FALSE]

\* loadPairCode, then loadActivationKey, then send: by the goroutine started
\* on "registered", by the retry loop, or on SIGUSR1.
Offers(d) ==
  /\ dm[d].up /\ dm[d].due /\ dm[d].sees = None
  /\ dm' = [dm EXCEPT ![d].due = FALSE,
                      ![d].sees = IF file[d].code \in Codes THEN file[d].code ELSE None]
  /\ UNCHANGED <<scn, lis, tab, hand, relayKeys, file, acc, day, lost>>

\* "Don't delete the pair code here": it stays until pair_confirmed.
AfterSendNone(d) == NoCode(d)
AfterSend(d) == file
Sends(d) ==
  /\ dm[d].sees # None
  /\ file' = AfterSend(d)
  /\ dm' = [dm EXCEPT ![d].sees = None,
                      ![d].out = IF dm[d].up THEN Append(@, [code |-> dm[d].sees,
                                    key |-> file[d].key]) ELSE @]
  /\ UNCHANGED <<scn, lis, tab, hand, relayKeys, acc, day, lost>>

\* An interval of the retry loop passes.  Bound: one offer is under way at a
\* time (the interval is 15 s at least).
Quiet(d) == dm[d].out = <<>> /\ dm[d].in = <<>> /\ hand[d].pc = "idle" /\ dm[d].sees = None
Retries(d) ==
  /\ dm[d].up /\ dm[d].loop = "young" /\ Quiet(d) /\ ~dm[d].due /\ file[d].code # None
  /\ dm' = [dm EXCEPT ![d].due = TRUE]
  /\ UNCHANGED <<scn, lis, tab, hand, relayKeys, file, acc, day, lost>>

\* 24 h after the loop's start the code is removed and the loop ends.  The
\* start is the time of the code file when the loop began, if there was one.
Expires(d) ==
  /\ dm[d].up /\ dm[d].loop = "old"
  /\ dm' = [dm EXCEPT ![d].loop = "ended"]
  /\ file' = IF file[d].code \in Codes THEN NoCode(d) ELSE file
  /\ IF file[d].code \in Codes THEN Blame(d, IF file[d].old THEN "expired" ELSE "young")
     ELSE UNCHANGED lost
  /\ UNCHANGED <<scn, lis, tab, hand, relayKeys, acc, day>>

\* "pair_confirmed": both files are deleted, whichever code they hold.
Confirmed(d) ==
  /\ dm[d].up /\ dm[d].in # <<>>
  /\ dm' = [dm EXCEPT ![d].in = Tail(@)]
  /\ file' = [NoCode(d) EXCEPT ![d].key = None]
  /\ IF file[d].code \notin {None, Head(dm[d].in)} THEN Blame(d, "crossed") ELSE UNCHANGED lost
  /\ UNCHANGED <<scn, lis, tab, hand, relayKeys, acc, day>>

\* The connection is lost with what was in flight; run returns and closes
\* the loop's stop channel.  The relay's handler goes on.
Drops(d) ==
  /\ scn.drop /\ dm[d].up /\ ~dm[d].cut
  /\ dm' = [dm EXCEPT ![d] = [@ EXCEPT !.up = FALSE, !.cut = TRUE, !.loop = "ended", !.out = <<>>, !.in = <<>>,
                                       !.due = FALSE]]
  /\ UNCHANGED <<scn, lis, tab, hand, relayKeys, file, acc, day, lost>>

\* Dialled and registered again: a new offer and a new loop.  The relay has
\* done with the old connection's last message.
LoopLeft(d) == "ended"
LoopStart(d) == IF file[d].code # None /\ file[d].old THEN "old" ELSE "young"
Redials(d) ==
  /\ ~dm[d].up /\ dm[d].sees = None /\ hand[d].pc = "idle"
  /\ dm' = [dm EXCEPT ![d] = [@ EXCEPT !.up = TRUE, !.due = TRUE, !.loop = LoopStart(d)]]
  /\ UNCHANGED <<scn, lis, tab, hand, relayKeys, file, acc, day, lost>>

---------------------------------------------------------------------------
(* `pair accept` on the machine of daemon d.                               *)

Wanted(d) == scn.accept[d][acc[d].n]
\* savePairCode in two steps, saveActivationKey or deleteActivationKey (a
\* daemon that reads the key file half written offers no key, as if there
\* were none), then SIGUSR1 to the process in the PID file, if it is there.
Accepts(d) ==
  /\ acc[d].n <= Len(scn.accept[d])
  /\ LET w == Wanted(d)  at == acc[d].pc
     IN  /\ file' = [file EXCEPT ![d] =
              CASE at = "code" -> [@ EXCEPT !.code = Half, !.old = FALSE]
                [] at = "code2" -> IF @.code = None THEN @ ELSE [@ EXCEPT !.code = w.code, !.old = FALSE]
                [] at = "key" -> [@ EXCEPT !.key = w.key]
                [] OTHER -> @]
         /\ acc' = [acc EXCEPT ![d] =
              IF at = "signal" THEN [pc |-> "code", n |-> @.n + 1]
              ELSE [@ EXCEPT !.pc = [code |-> "code2", code2 |-> "key", key |-> "signal"][at]]]
         /\ \/ at # "signal" /\ UNCHANGED dm
            \/ at = "signal" /\ dm' = [dm EXCEPT ![d].due = dm[d].up]
  /\ UNCHANGED <<scn, lis, tab, hand, relayKeys, day, lost>>

DayPasses ==
  /\ scn.day /\ ~day
  /\ day' = TRUE
  /\ file' = [d \in Daemons |-> [file[d] EXCEPT !.old = file[d].code # None]]
  /\ dm' = [d \in Daemons |-> [dm[d] EXCEPT !.loop = IF @ = "young" THEN "old" ELSE @]]
  /\ UNCHANGED <<scn, lis, tab, hand, relayKeys, acc, lost>>

---------------------------------------------------------------------------
Init ==
  /\ scn \in Scenarios
  /\ lis = [l \in Listeners |-> [st |-> "idle", got |-> <<>>]]
  /\ tab = [c \in Codes |-> None]
  /\ hand = [d \in Daemons |-> [pc |-> "idle", code |-> None, key |-> None, lis |-> None,
                                stamp |-> 0, keys |-> {}, held |-> FALSE]]
  /\ cache = [keys |-> {}, stamp |-> 0]
  /\ kfile = [keys |-> IF scn.bare THEN None ELSE scn.keys, stamp |-> 1]
  /\ cli = [x \in Clis |-> [pc |-> "read", keys |-> {}]]
  /\ dm = [d \in Daemons |-> [up |-> TRUE, cut |-> FALSE, due |-> d \in scn.before, sees |-> None, loop |-> "young",
                              out |-> <<>>, in |-> <<>>]]
  /\ file = [d \in Daemons |-> [code |-> IF d \in scn.before THEN scn.accept[d][1].code ELSE None,
                                key |-> IF d \in scn.before THEN scn.accept[d][1].key ELSE None, old |-> FALSE]]
  /\ acc = [d \in Daemons |-> [pc |-> "code", n |-> IF d \in scn.before THEN 2 ELSE 1]]
  /\ day = FALSE /\ lost = [d \in Daemons |-> {}]

\* handlePair and the functions it calls, for daemon d.
Reloads(d) == Stats(d) \/ Clears(d) \/ Reads(d) \/ ReadFails(d) \/ Stores(d)
Handles(d) == Takes(d) \/ Reloads(d) \/ Checks(d) \/ Rejects(d) \/ Matches(d)
\* The goroutines of daemon d.
Works(d) == Offers(d) \/ Sends(d) \/ Retries(d) \/ Expires(d) \/ Confirmed(d) \/ Redials(d)

Next ==
  \/ \E l \in Listeners : Listens(l) \/ Quits(l)
  \/ \E x \in Clis : CliReads(x) \/ CliWrites(x)
  \/ \E d \in Daemons : Handles(d) \/ Works(d) \/ Drops(d) \/ Accepts(d)
  \/ DayPasses

Spec == Init /\ [][Next]_vars

\* The programs run; listeners, connections and the day are not forced to end.
FairSpec == Spec /\ (\A l \in Listeners : WF_vars(Listens(l)))
                 /\ (\A x \in Clis : WF_vars(CliReads(x) \/ CliWrites(x)))
                 /\ (\A d \in Daemons : WF_vars(Handles(d)) /\ WF_vars(Works(d)) /\ WF_vars(Accepts(d)))

---------------------------------------------------------------------------
(* Properties.                                                             *)

TypeOK ==
  /\ scn \in Scenarios
  /\ \A l \in Listeners : lis[l].st \in {"idle", "waiting", "paired", "gone"} /\ lis[l].got \in Seq(Daemons)
  /\ tab \in [Codes -> Listeners \cup {None}]
  /\ \A d \in Daemons :
       /\ hand[d].pc \in {"idle", "stat", "gone", "read", "store", "check", "match", "reject"}
       /\ hand[d].pc # "idle" => hand[d].lis \in Listeners /\ hand[d].code \in Codes
       /\ hand[d].stamp \in 0 .. MaxStamp /\ hand[d].keys \subseteq Keys /\ hand[d].held \in BOOLEAN
       /\ dm[d].loop \in {"young", "old", "ended"} /\ dm[d].sees \in Codes \cup {None}
       /\ dm[d].in \in Seq(Codes) /\ (~dm[d].up => dm[d].in = <<>> /\ dm[d].out = <<>>)
       /\ file[d].code \in Codes \cup {None, Half} /\ file[d].key \in Keys \cup {None}
       /\ file[d].old => file[d].code # None
  /\ cache.keys \subseteq Keys /\ cache.stamp <= kfile.stamp
  /\ lost \in [Daemons -> SUBSET Causes]

\* A pair code serves once.  A listener is told of one daemon at most, and
\* while the relay has it in hand for one daemon no other can be given it:
\* also when the first is rejected and the listener is put back.
OneDaemonPerListener ==
  \A l \in Listeners :
    /\ Len(lis[l].got) <= 1
    /\ Cardinality({d \in Daemons : hand[d].pc # "idle" /\ hand[d].lis = l}) <= 1

\* A listener that requires an activation key is only told of a daemon whose
\* key was in the key file at some moment while the relay was checking it,
\* whatever was added and removed meanwhile; not so when a slower reload, of
\* another daemon's check, has set the cache back before the look-up, or when
\* the file could not be read.
KeyWasValid ==
  \A d \in Daemons : hand[d].pc = "match" /\ hand[d].lis \in scn.need =>
                       hand[d].held \/ lost[d] \cap {"raced", "unread"} # {}

\* daemon.go: "keep retrying until the relay sends pair_confirmed".  A code
\* that pair accept has left is only gone when its listener got the daemon or
\* 24 h have passed, or in one of the three ways in which it is given up too
\* early.
Left(d) == acc[d].n > 1 /\ acc[d].pc = "code"
GotBy(d, l) == \E i \in DOMAIN lis[l].got : lis[l].got[i] = d
PairedOn(d, c) == \E l \in Listeners : scn.listen[l] = c /\ GotBy(d, l)
CodeKept ==
  \A d \in Daemons :
    Left(d) /\ file[d].code = None =>
      PairedOn(d, scn.accept[d][acc[d].n - 1].code) \/ lost[d] \cap {"expired", "deaf", "crossed", "young"} # {}

\* A daemon whose code a listener waits for, with a key that is in the file
\* and that no command removes, is paired with it in the end, in spite of a
\* lost connection and of files half written or not readable, while no other
\* daemon tries the same code and no other `pair listen` with that code has
\* been started; not so when a reload that had found no key file cleared the
\* keys that another had read from it: the cache then passes for fresh.
Stays == {k \in Parsed : \A x \in Clis : scn.cli[x] # <<"remove", k>>}
Waits(d, l) == /\ lis[l].st = "waiting" /\ file[d].code = scn.listen[l] /\ ~day
               /\ l \in scn.need => file[d].key \in Stays
               /\ \A e \in Daemons \ {d} : file[e].code # scn.listen[l]
               /\ \A m \in Listeners \ {l} : scn.listen[m] = scn.listen[l] => lis[m].st = "idle"
WaitingPairsUp ==
  \A d \in Daemons, l \in Listeners : Waits(d, l) ~> (~Waits(d, l) \/ "cleared" \in lost[d])
=============================================================================
