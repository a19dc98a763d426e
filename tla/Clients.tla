------------------------------ MODULE Clients -------------------------------
(***************************************************************************)
(* The client program on one machine.  Every invocation (add-target,       *)
(* group, set-relay, exec, list-targets, a tool call of the MCP server)    *)
(* loads config.json; some change it, others record what they learnt of    *)
(* the daemons in health.json.  Nothing locks these files, and             *)
(* os.WriteFile truncates when it opens and writes from the start of the   *)
(* file: a file in between is Half, and a text written over a longer one   *)
(* keeps the end of it and is Torn.                                        *)
(*                                                                         *)
(* A shell runs its script one invocation after the other, and so does the *)
(* MCP server with its tool calls.  The relay and the daemons are external *)
(* here: whoever is asked may answer, or not, in time or at all.           *)
(***************************************************************************)
EXTENDS Naturals, Sequences, FiniteSets

CONSTANTS
  Shells, Aliases, Groups, Names,  \* Names: registered names of daemons
  Values,      \* relay URLs and secrets
  Scenarios,   \* see ScenarioType; one is chosen in Init
  MaxVer,      \* bound: versions of a daemon
  None, Half, Torn

Ops ==
  [op : {"add"}, a : Aliases, n : Names]
    \cup [op : {"remove", "exec", "mcp_exec", "mcp_health"}, a : Aliases]
    \cup [op : {"gcreate", "gadd", "gremove"}, g : Groups, as : Seq(Aliases)]
    \cup [op : {"gdelete", "group"}, g : Groups]
    \cup [op : {"list"}, refresh : BOOLEAN]
    \cup ([op : {"relay"}, url : Values \cup {None}, secret : Values \cup {None}]
            \ {[op |-> "relay", url |-> None, secret |-> None]})

ConfigType ==
  [tgt : [Aliases -> Names \cup {None}], grp : [Groups -> Seq(Aliases) \cup {None}],
   url : Values, secret : Values \cup {None}]

\* cfg: config.json in the beginning; upgrade: daemons may be upgraded.
ScenarioType == [script : [Shells -> Seq(Ops)], cfg : ConfigType, upgrade : BOOLEAN]

ASSUME ClientsAssumption ==
  /\ Scenarios \subseteq ScenarioType /\ MaxVer \in Nat \ {0}
  /\ IsFiniteSet(Aliases)
  /\ None \notin Aliases \cup Groups \cup Names \cup Values \cup {Half, Torn} /\ None \notin ConfigType

VARIABLES
  scn,     \* the scenario (never changes)
  cfg,     \* config.json: a ConfigType, Half or Torn
  health,  \* health.json: [Aliases -> TargetHealth], Half or Torn
  run,     \* [Shells -> ...] the invocation a shell is running, see Idle
  ver,     \* [Names -> 1 .. MaxVer] the version each daemon runs
  known    \* history: [Aliases -> 0 .. MaxVer], see VersionKept

vars == <<scn, cfg, health, run, ver, known>>

\* TargetHealth: the state, the machine that answered and its version (0:
\* none known).
Unknown == [st |-> "none", host |-> None, ver |-> 0]
NoHealth == [a \in Aliases |-> Unknown]

\* pc: next step; n: place in the script; cfg, health: what was loaded and
\* is to be written; k: edits done; as: the aliases in question; res: what
\* the daemons answered (0: nothing or an error); out: outcome of the last
\* invocation; old, torn (history): somebody has saved health.json since it
\* was loaded, it could not be parsed when it was loaded.
Idle == [pc |-> "load", n |-> 1, cfg |-> None, health |-> None, k |-> 1, as |-> <<>>,
         res |-> [n \in Names |-> 0], out |-> "none", old |-> FALSE, torn |-> FALSE]

Running(s) == run[s].n <= Len(scn.script[s])
Op(s) == scn.script[s][run[s].n]
At(s, pc) == Running(s) /\ run[s].pc = pc

To(s, r) == run' = [run EXCEPT ![s] = r]
\* The invocation ends; the next one of the script starts.
Ended(s, out) == [Idle EXCEPT !.n = run[s].n + 1, !.out = out]
End(s, out) == To(s, Ended(s, out))

ToSet(q) == {q[i] : i \in DOMAIN q}
Relays(c, as) == {c.tgt[a] : a \in ToSet(as)}
Resolves(c, as) == \A a \in ToSet(as) : c.tgt[a] # None

\* What json.Unmarshal rejects.
Broken == {Half, Torn}
\* The write of text into a file that has been truncated.  What another one
\* has written since is as long, or longer, or shorter.
Written(file, text) == IF file \in {Half, text} THEN {text} ELSE {text, Torn}

---------------------------------------------------------------------------
(* Commands that change config.json.                                       *)

\* set-relay saves the address and then, in a second round, the secret.
EditsBoth(o) == IF o.op # "relay" THEN <<o.op>> ELSE <<"url", "secret">>
Edits(o) == IF o.op # "relay" THEN <<o.op>>
            ELSE (IF o.url = None THEN <<>> ELSE <<"url">>) \o (IF o.secret = None THEN <<>> ELSE <<"secret">>)

\* The members must be targets, a new group must be new and any other one exist.
RefusesUnchecked(o, c) ==
  \/ o.op = "gcreate" /\ c.grp[o.g] # None
  \/ o.op \in {"gadd", "gremove", "gdelete"} /\ c.grp[o.g] = None
Refuses(o, c) ==
  \/ RefusesUnchecked(o, c)
  \/ o.op \in {"gcreate", "gadd"} /\ ~Resolves(c, o.as)

\* The items of q at the places in keep, in order.
Picked(q, keep) ==
  [k \in 1 .. Cardinality(keep) |-> q[CHOOSE i \in keep : Cardinality({j \in keep : j < i}) = k - 1]]
NewTo(q, members) == Picked(q, {i \in DOMAIN q : q[i] \notin ToSet(members)})
Edited(o, e, c) ==
  CASE e = "add" -> [c EXCEPT !.tgt[o.a] = o.n]
    [] e = "remove" -> [c EXCEPT !.tgt[o.a] = None]
    [] e = "gcreate" -> [c EXCEPT !.grp[o.g] = o.as]
    [] e = "gadd" -> [c EXCEPT !.grp[o.g] = @ \o NewTo(o.as, @)]
    [] e = "gremove" -> [c EXCEPT !.grp[o.g] = NewTo(@, o.as)]
    [] e = "gdelete" -> [c EXCEPT !.grp[o.g] = None]
    [] e = "url" -> [c EXCEPT !.url = o.url]
    [] e = "secret" -> [c EXCEPT !.secret = o.secret]

\* A file that cannot be parsed ends the invocation: nothing is saved.
LoadedEmpty == IF cfg \in Broken THEN [scn.cfg EXCEPT !.tgt = [a \in Aliases |-> None],
                                                  !.grp = [g \in Groups |-> None]] ELSE cfg
Loaded == cfg
Loads(s) ==
  /\ At(s, "load") /\ Op(s).op \in {"add", "remove", "gcreate", "gadd", "gremove", "gdelete", "relay"}
  /\ IF Loaded \in Broken THEN End(s, "error")
     ELSE IF Refuses(Op(s), Loaded) THEN End(s, "error")
     ELSE To(s, [run[s] EXCEPT !.pc = "truncate", !.cfg = Edited(Op(s), Edits(Op(s))[run[s].k], Loaded)])
  /\ UNCHANGED <<scn, cfg, health, ver, known>>

Truncates(s) ==
  /\ At(s, "truncate")
  /\ cfg' = Half
  /\ To(s, [run[s] EXCEPT !.pc = "write"])
  /\ UNCHANGED <<scn, health, ver, known>>

Writes(s) ==
  /\ At(s, "write")
  /\ cfg' \in Written(cfg, run[s].cfg)
  /\ IF run[s].k = Len(Edits(Op(s))) THEN End(s, "ok")
     ELSE To(s, [run[s] EXCEPT !.pc = "load", !.cfg = None, !.k = @ + 1])
  /\ UNCHANGED <<scn, health, ver, known>>

---------------------------------------------------------------------------
(* exec and the MCP tools: load the configuration, ask, note the version.  *)

\* The tools of the MCP server load the file once.  exec loads it to look the
\* target up, or the members of the group: an empty group leads to targetList[0].
McpTools == {"mcp_exec", "mcp_health"}
Members(s, c) == IF Op(s).op # "group" THEN <<Op(s).a>> ELSE IF c.grp[Op(s).g] = None THEN None ELSE c.grp[Op(s).g]
Finds(s) ==
  /\ At(s, "load") /\ Op(s).op \in {"exec", "group", "mcp_exec", "mcp_health"}
  /\ IF cfg \in Broken THEN End(s, "error")
     ELSE LET as == Members(s, cfg)
          IN  IF as = None THEN End(s, "error")
              ELSE IF as = <<>> THEN End(s, "panic")
              ELSE IF Op(s).op # "group" /\ ~Resolves(cfg, as) THEN End(s, "error")
              ELSE IF Op(s).op \in McpTools THEN To(s, [run[s] EXCEPT !.pc = "ask", !.as = as, !.cfg = cfg])
              ELSE To(s, [run[s] EXCEPT !.pc = "resolve", !.as = as])
  /\ UNCHANGED <<scn, cfg, health, ver, known>>

\* handleExecWithStdin and resolveRelayTargets load it again; one unknown alias and nobody is asked.
Finds2(s) ==
  /\ At(s, "resolve") /\ Op(s).op # "list"
  /\ IF cfg \in Broken THEN End(s, "error")
     ELSE IF ~Resolves(cfg, run[s].as) THEN End(s, "error")
     ELSE To(s, [run[s] EXCEPT !.pc = "ask", !.cfg = cfg])
  /\ UNCHANGED <<scn, cfg, health, ver, known>>

\* What the daemons of set who answer, out of those asked.
Answers(asked, who) == [n \in Names |-> IF n \in asked \cap who THEN ver[n] ELSE 0]
\* A version is on a result since SelfVer; older daemons report none.
SelfVer == 2
Reported(v) == IF v >= SelfVer THEN v ELSE 0

\* mcpHealth looks at the exit code of the reply, which an error reply has
\* too: it is 0.
Outcome(s, res) ==
  LET n == run[s].cfg.tgt[run[s].as[1]]
  IN  IF Op(s).op = "mcp_health" THEN "healthy" ELSE IF res[n] = 0 THEN "failed" ELSE "answered"
Asks(s) ==
  /\ At(s, "ask") /\ Op(s).op # "list"
  /\ \E who \in SUBSET Relays(run[s].cfg, run[s].as) :
       LET res == Answers(Relays(run[s].cfg, run[s].as), who)
       IN  \/ To(s, [run[s] EXCEPT !.pc = IF Op(s).op \in McpTools THEN "end" ELSE "note",
                                   !.res = res, !.out = Outcome(s, res)])
           \/ who = {} /\ End(s, "error")   \* timed out, or no connection
  /\ UNCHANGED <<scn, cfg, health, ver, known>>

Returns(s) ==
  /\ At(s, "end")
  /\ End(s, run[s].out)
  /\ UNCHANGED <<scn, cfg, health, ver, known>>

\* noteDaemonVersion for the next alias: load health.json, save it if the
\* version is new.
NextAlias(s) == [run[s] EXCEPT !.as = Tail(@)]
Notes(s) ==
  /\ At(s, "note")
  /\ IF run[s].as = <<>> THEN End(s, run[s].out)
     ELSE LET a == Head(run[s].as)  v == Reported(run[s].res[run[s].cfg.tgt[a]])
          IN  IF v = 0 \/ health \in Broken THEN To(s, NextAlias(s))
              ELSE IF health[a].ver = v THEN To(s, NextAlias(s))
              ELSE To(s, [run[s] EXCEPT !.pc = "htruncate", !.health = [health EXCEPT ![a].ver = v],
                                        !.old = FALSE, !.torn = FALSE])
  /\ UNCHANGED <<scn, cfg, health, ver, known>>

---------------------------------------------------------------------------
(* list-targets.                                                           *)

AliasOrder == CHOOSE q \in [1 .. Cardinality(Aliases) -> Aliases] : ToSet(q) = Aliases
\* A cache that cannot be read counts as empty; targets it has nothing of,
\* or all of them with --refresh, are probed.  (An entry older than an hour
\* is probed as with --refresh.)
ListLoads(s) ==
  /\ At(s, "load") /\ Op(s).op = "list"
  /\ IF cfg \in Broken THEN End(s, "error")
     ELSE LET h == IF health \in Broken THEN NoHealth ELSE health
              as == Picked(AliasOrder, {i \in DOMAIN AliasOrder :
                       /\ cfg.tgt[AliasOrder[i]] # None
                       /\ Op(s).refresh \/ h[AliasOrder[i]].st = "none"})
          IN  IF as = <<>> THEN End(s, "ok")
              ELSE To(s, [run[s] EXCEPT !.pc = "resolve", !.health = h, !.as = as,
                                        !.old = FALSE, !.torn = (health \in Broken)])
  /\ UNCHANGED <<scn, cfg, health, ver, known>>

\* The version is kept while a target is down or silent.
KeptNot(old, new) == new
Kept(old, new) == IF new.ver = 0 THEN [new EXCEPT !.ver = old.ver] ELSE new
Merged(s, fresh) == [a \in Aliases |-> IF a \in DOMAIN fresh THEN Kept(run[s].health[a], fresh[a])
                                       ELSE run[s].health[a]]
Down == [st |-> "down", host |-> None, ver |-> 0]
AllDown(s) == To(s, [run[s] EXCEPT !.pc = "htruncate",
                       !.health = Merged(s, [a \in ToSet(run[s].as) |-> Down])])

ListResolves(s) ==
  /\ At(s, "resolve") /\ Op(s).op = "list"
  /\ IF cfg \in Broken THEN AllDown(s)
     ELSE IF ~Resolves(cfg, run[s].as) THEN AllDown(s)
     ELSE To(s, [run[s] EXCEPT !.pc = "ask", !.cfg = cfg])
  /\ UNCHANGED <<scn, cfg, health, ver, known>>

ListAsks(s) ==
  /\ At(s, "ask") /\ Op(s).op = "list"
  /\ \/ AllDown(s)
     \/ \E who \in SUBSET Relays(run[s].cfg, run[s].as) :
          To(s, [run[s] EXCEPT !.pc = "probe", !.res = Answers(Relays(run[s].cfg, run[s].as), who)])
  /\ UNCHANGED <<scn, cfg, health, ver, known>>

\* aliasByRelay: of two aliases of one daemon the last one stands for it.
ByRelayAny(as, c, n) == as[CHOOSE i \in DOMAIN as : c.tgt[as[i]] # None]
ByRelay(as, c, n) == as[CHOOSE i \in DOMAIN as : c.tgt[as[i]] = n /\ \A j \in DOMAIN as : c.tgt[as[j]] = n => j <= i]
\* Those who answered without a version are asked for it in a second round.
ListProbes(s) ==
  /\ At(s, "probe")
  /\ LET c == run[s].cfg  as == run[s].as  res == run[s].res
         Entry(n, who) == IF res[n] = 0 THEN Down
                          ELSE [st |-> "up", host |-> n, ver |-> IF res[n] >= SelfVer \/ n \in who THEN res[n] ELSE 0]
     IN  \E who \in SUBSET {n \in Relays(c, as) : res[n] # 0 /\ res[n] < SelfVer} :
           LET fresh == [a \in {ByRelay(as, c, n) : n \in Relays(c, as)} |->
                           Entry(CHOOSE n \in Relays(c, as) : ByRelay(as, c, n) = a, who)]
           IN  To(s, [run[s] EXCEPT !.pc = "htruncate", !.health = Merged(s, fresh)])
  /\ UNCHANGED <<scn, cfg, health, ver, known>>

---------------------------------------------------------------------------
(* health.json is saved.                                                   *)

HTruncates(s) ==
  /\ At(s, "htruncate")
  /\ health' = Half
  /\ To(s, [run[s] EXCEPT !.pc = "hwrite"])
  /\ UNCHANGED <<scn, cfg, ver, known>>

\* The invocations that have read the file before this save.
Outdated(s) == [t \in Shells |-> IF t = s THEN run[t] ELSE [run[t] EXCEPT !.old = TRUE]]
\* The version of alias a that this save is to record, 0 if it has no answer.
Learnt(s, a) ==
  LET c == run[s].cfg  as == IF Op(s).op = "list" THEN run[s].as ELSE <<Head(run[s].as)>>
  IN  IF c = None THEN 0
      ELSE IF a \notin ToSet(as) THEN 0
      ELSE IF ByRelay(as, c, c.tgt[a]) # a \/ run[s].res[c.tgt[a]] = 0 THEN 0
      ELSE IF Reported(run[s].res[c.tgt[a]]) # 0 THEN Reported(run[s].res[c.tgt[a]])
      ELSE run[s].health[a].ver
HWrites(s) ==
  /\ At(s, "hwrite")
  /\ health' \in Written(health, run[s].health)
  /\ run' = [Outdated(s) EXCEPT ![s] = IF Op(s).op = "list" THEN Ended(s, "ok")
                                       ELSE [NextAlias(s) EXCEPT !.pc = "note", !.health = None]]
  /\ known' = [a \in Aliases |-> IF run[s].old \/ run[s].torn THEN 0
                                 ELSE IF Learnt(s, a) # 0 THEN Learnt(s, a) ELSE known[a]]
  /\ UNCHANGED <<scn, cfg, ver>>

---------------------------------------------------------------------------
Upgrades ==
  /\ scn.upgrade
  /\ \E n \in Names : ver[n] < MaxVer /\ ver' = [ver EXCEPT ![n] = @ + 1]
  /\ UNCHANGED <<scn, cfg, health, run, known>>

Init ==
  /\ scn \in Scenarios
  /\ cfg = scn.cfg /\ health = NoHealth
  /\ run = [s \in Shells |-> Idle]
  /\ ver = [n \in Names |-> 1] /\ known = [a \in Aliases |-> 0]

Step(s) ==
  \/ Loads(s) \/ Truncates(s) \/ Writes(s)
  \/ Finds(s) \/ Finds2(s) \/ Asks(s) \/ Returns(s) \/ Notes(s)
  \/ ListLoads(s) \/ ListResolves(s) \/ ListAsks(s) \/ ListProbes(s)
  \/ HTruncates(s) \/ HWrites(s)

Next == Upgrades \/ \E s \in Shells : Step(s)

Spec == Init /\ [][Next]_vars

---------------------------------------------------------------------------
(* Properties.                                                             *)

Scripted == UNION {ToSet(scn.script[s]) : s \in Shells}

TypeOK ==
  /\ scn \in Scenarios /\ (cfg \in Broken \/ cfg \in ConfigType)
  /\ health \in Broken \/ health \in [Aliases -> [st : {"none", "up", "down"}, host : Names \cup {None}, ver : 0 .. MaxVer]]
  /\ \A s \in Shells : run[s].n <= Len(scn.script[s]) + 1 /\ run[s].as \in Seq(Aliases)
  /\ ver \in [Names -> 1 .. MaxVer] /\ known \in [Aliases -> 0 .. MaxVer]

\* config.go: no lock and no temporary file.  Commands that run at the same
\* time may undo one another or leave a file that nobody can parse, but in
\* one that can be parsed what no command is about is as it was, in whatever
\* order they read, truncate and write: a target, a group, the relay's
\* address and the secret, which set-relay is to preserve.
UntouchedKept ==
  cfg \notin Broken =>
    /\ \A a \in Aliases : (\A o \in Scripted : o.op \in {"add", "remove"} => o.a # a) => cfg.tgt[a] = scn.cfg.tgt[a]
    /\ \A g \in Groups : (\A o \in Scripted : o.op \in {"gcreate", "gadd", "gremove", "gdelete"} => o.g # g)
                           => cfg.grp[g] = scn.cfg.grp[g]
    /\ (\A o \in Scripted : o.op = "relay" => o.secret = None) => cfg.secret = scn.cfg.secret

\* "Validate all targets exist": a member of a group that is no target has
\* been removed by remove-target, also when commands overlap, or was there
\* without one in the beginning.
Dangling(g) == {a \in Aliases : scn.cfg.grp[g] # None /\ a \in ToSet(scn.cfg.grp[g]) /\ scn.cfg.tgt[a] = None}
MembersAreTargets ==
  cfg \notin Broken =>
    \A g \in Groups : cfg.grp[g] # None =>
      \A a \in ToSet(cfg.grp[g]) \ Dangling(g) :
        cfg.tgt[a] # None \/ \E o \in Scripted : o.op = "remove" /\ o.a = a

\* "Keep the last known version while a node is down or silent."  The version
\* that a save recorded of a daemon stays in the cache until another answer
\* replaces it; not so once a save has been based on a cache that was read
\* before somebody else's save or could not be parsed.
VersionKept == health \notin Broken => \A a \in Aliases : known[a] # 0 => health[a].ver = known[a]

\* An alias is only listed as up for an answer of a daemon it stands for, and
\* a target that is probed gets an entry "rather than being dropped", also
\* when config.json changes while list-targets waits; not so for an alias
\* that shares its daemon with another one.
Owns(a) == {scn.cfg.tgt[a]} \cup {o.n : o \in {x \in Scripted : x.op = "add" /\ x.a = a}}
Shares(a) == \E b \in Aliases \ {a} : (Owns(a) \cap Owns(b)) \ {None} # {}
ListHonest ==
  /\ health \notin Broken => \A a \in Aliases : health[a].st = "up" => health[a].host \in Owns(a)
  /\ \A s \in Shells : At(s, "hwrite") /\ Op(s).op = "list" =>
       \A a \in ToSet(run[s].as) : run[s].health[a].st # "none" \/ Shares(a)

=============================================================================
