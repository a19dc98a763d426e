--------------------------- MODULE ClientsProofs ---------------------------
(***************************************************************************)
(* Proofs about Clients, for any number of shells with any scripts.        *)
(*                                                                         *)
(* What no command is about is as it was in every config.json that can be  *)
(* parsed: commands read the file, keep a copy while others write, and     *)
(* write the copy back, so every configuration there is, on file or in an  *)
(* invocation's hands, must agree with the first one on the untouched.     *)
(*                                                                         *)
(* Groups only name targets, versions are kept and lists are honest: here  *)
(* every configuration there is must be Proper, every cache there is a     *)
(* Cache, and an invocation's copies must be what its stage says of them.  *)
(***************************************************************************)
EXTENDS Clients, FiniteSetTheorems, TLAPS

\* A configuration with the fields it should have.
Shaped(c) ==
  /\ c = [tgt |-> c.tgt, grp |-> c.grp, url |-> c.url, secret |-> c.secret]
  /\ c.tgt = [a \in Aliases |-> c.tgt[a]]
  /\ c.grp = [g \in Groups |-> c.grp[g]]

\* Nobody's script is about this alias, this group, the secret.
FreeAlias(a) == \A o \in Scripted : o.op \in {"add", "remove"} => o.a # a
FreeGroup(g) == \A o \in Scripted : o.op \in {"gcreate", "gadd", "gremove", "gdelete"} => o.g # g
FreeSecret == \A o \in Scripted : o.op = "relay" => o.secret = None

Agrees(c) ==
  /\ Shaped(c)
  /\ \A a \in Aliases : FreeAlias(a) => c.tgt[a] = scn.cfg.tgt[a]
  /\ \A g \in Groups : FreeGroup(g) => c.grp[g] = scn.cfg.grp[g]
  /\ FreeSecret => c.secret = scn.cfg.secret

\* An invocation with the fields it should have.
Invocation(r) ==
  /\ r = [pc |-> r.pc, n |-> r.n, cfg |-> r.cfg, health |-> r.health, k |-> r.k, as |-> r.as,
          res |-> r.res, out |-> r.out, old |-> r.old, torn |-> r.torn]
  /\ r.n \in Nat \ {0}

\* An invocation has edits left as long as it is there, and what it is about
\* to write agrees.
EditLeft(s, r) == r.n <= Len(scn.script[s]) => r.k \in 1 .. Len(Edits(scn.script[s][r.n]))
CopyAgrees(r) == r.pc \in {"truncate", "write"} => Agrees(r.cfg)
Sound(s, r) == Invocation(r) /\ EditLeft(s, r) /\ CopyAgrees(r)

ConfigInv ==
  /\ scn \in Scenarios
  /\ cfg \in Broken \/ Agrees(cfg)
  /\ run = [s \in Shells |-> run[s]]
  /\ \A s \in Shells : Sound(s, run[s])

---------------------------------------------------------------------------
\* What an operation may be.
LEMMA Operations ==
  ASSUME scn \in Scenarios, NEW s \in Shells, NEW n \in 1 .. Len(scn.script[s])
  PROVE  /\ scn.script[s][n] \in Ops
         /\ scn.script[s][n] \in Scripted
<1>1. scn.script \in [Shells -> Seq(Ops)]
  BY ClientsAssumption DEF ScenarioType
<1>2. scn.script[s] \in Seq(Ops)
  BY <1>1
<1>3. n \in DOMAIN scn.script[s]
  BY <1>2
<1>4. scn.script[s][n] \in ToSet(scn.script[s])
  BY <1>3 DEF ToSet
<1> QED BY <1>2, <1>3, <1>4 DEF Scripted

\* Every operation has an edit; only set-relay has two.
LEMMA EditsOf ==
  ASSUME NEW o \in Ops
  PROVE  /\ Len(Edits(o)) \in Nat \ {0}
         /\ \A k \in 1 .. Len(Edits(o)) :
              \/ o.op # "relay" /\ Edits(o)[k] = o.op
              \/ o.op = "relay" /\ Edits(o)[k] = "url" /\ o.url # None
              \/ o.op = "relay" /\ Edits(o)[k] = "secret" /\ o.secret # None
<1>1. CASE o.op # "relay"
  <2>1. Edits(o) = <<o.op>>
    BY <1>1 DEF Edits
  <2> QED BY <1>1, <2>1
<1>2. CASE o.op = "relay"
  <2>1. o.url # None \/ o.secret # None
    BY <1>2 DEF Ops
  <2>2. CASE o.url # None /\ o.secret # None
    <3>1. Edits(o) = <<"url">> \o <<"secret">>
      BY <1>2, <2>2 DEF Edits
    <3> DEFINE q == <<"url">> \o <<"secret">>
    <3>2. Len(q) = 2 /\ q[1] = "url" /\ q[2] = "secret"
      OBVIOUS
    <3> HIDE DEF q
    <3> QED BY <1>2, <2>2, <3>1, <3>2 DEF q
  <2>3. CASE o.url = None /\ o.secret # None
    <3>1. Edits(o) = <<"secret">>
      BY <1>2, <2>3 DEF Edits
    <3> QED BY <1>2, <2>3, <3>1
  <2>4. CASE o.url # None /\ o.secret = None
    <3>1. Edits(o) = <<"url">>
      BY <1>2, <2>4 DEF Edits
    <3> QED BY <1>2, <2>4, <3>1
  <2> QED BY <2>1, <2>2, <2>3, <2>4
<1> QED BY <1>1, <1>2

\* What a command changes is what it is about.
LEMMA EditedAgrees ==
  ASSUME NEW o \in Ops, o \in Scripted, NEW k \in 1 .. Len(Edits(o)),
         o.op \in {"add", "remove", "gcreate", "gadd", "gremove", "gdelete", "relay"},
         NEW c, Agrees(c)
  PROVE  Agrees(Edited(o, Edits(o)[k], c))
<1> DEFINE e == Edits(o)[k]
           d == Edited(o, e, c)
<1>1. \/ o.op # "relay" /\ e = o.op
      \/ o.op = "relay" /\ e = "url"
      \/ o.op = "relay" /\ e = "secret" /\ o.secret # None
  BY EditsOf
<1> HIDE DEF e
<1>2. CASE o.op \in {"add", "remove"}
  <2>1. PICK v : d = [c EXCEPT !.tgt[o.a] = v]
    BY <1>1, <1>2 DEF Edited
  <2>2. ~FreeAlias(o.a)
    BY <1>2 DEF FreeAlias
  <2> HIDE DEF d
  <2>3. Shaped(d) /\ d.grp = c.grp /\ d.secret = c.secret /\ \A a \in Aliases : a # o.a => d.tgt[a] = c.tgt[a]
    BY <2>1 DEF Agrees, Shaped
  <2>4. Agrees(d)
    BY <2>2, <2>3 DEF Agrees
  <2> QED BY <2>4 DEF d, e
<1>3. CASE o.op \in {"gcreate", "gadd", "gremove", "gdelete"}
  <2>1. PICK v : d = [c EXCEPT !.grp[o.g] = v]
    BY <1>1, <1>3 DEF Edited
  <2>2. ~FreeGroup(o.g)
    BY <1>3 DEF FreeGroup
  <2> HIDE DEF d
  <2>3. Shaped(d) /\ d.tgt = c.tgt /\ d.secret = c.secret /\ \A g \in Groups : g # o.g => d.grp[g] = c.grp[g]
    BY <2>1 DEF Agrees, Shaped
  <2>4. Agrees(d)
    BY <2>2, <2>3 DEF Agrees
  <2> QED BY <2>4 DEF d, e
<1>4. CASE o.op = "relay" /\ e = "url"
  <2>1. d = [c EXCEPT !.url = o.url]
    BY <1>4 DEF Edited
  <2> HIDE DEF d
  <2>2. Agrees(d)
    BY <2>1 DEF Agrees, Shaped
  <2> QED BY <2>2 DEF d, e
<1>5. CASE o.op = "relay" /\ e = "secret" /\ o.secret # None
  <2>1. d = [c EXCEPT !.secret = o.secret]
    BY <1>5 DEF Edited
  <2>2. ~FreeSecret
    BY <1>5 DEF FreeSecret
  <2> HIDE DEF d
  <2>3. Agrees(d)
    BY <2>1, <2>2 DEF Agrees, Shaped
  <2> QED BY <2>3 DEF d, e
<1> QED BY <1>1, <1>2, <1>3, <1>4, <1>5

\* One shell goes on with a sound invocation; the file agrees.
LEMMA GoesOn ==
  ASSUME ConfigInv, NEW s \in Shells, NEW r, Sound(s, r), run' = [run EXCEPT ![s] = r],
         scn' = scn, cfg' = cfg \/ cfg' \in Broken \/ Agrees(cfg')
  PROVE  ConfigInv'
<1>1. cfg' \in Broken \/ Agrees(cfg')
  BY DEF ConfigInv
<1>2. run' = [t \in Shells |-> run'[t]]
  BY DEF ConfigInv
<1>3. \A t \in Shells : Sound(t, run'[t])
  BY DEF ConfigInv
<1>4. \A c : Agrees(c) => Agrees(c)'
  BY DEF Agrees, FreeAlias, FreeGroup, FreeSecret, Scripted
<1> QED BY <1>1, <1>2, <1>3, <1>4 DEF ConfigInv, Sound, EditLeft, CopyAgrees

\* An invocation that goes on to another step and has nothing to write.
LEMMA StepSound ==
  ASSUME NEW s, NEW q, Sound(s, q), NEW r, Invocation(r), r.n = q.n, r.k = q.k,
         r.pc \notin {"truncate", "write"}
  PROVE  Sound(s, r)
BY DEF Sound, EditLeft, CopyAgrees

\* The invocation r is q, further on with the same edit.
Same(r, q) == Invocation(r) /\ r.n = q.n /\ r.k = q.k

\* One field of an invocation changes.
SetPc(q, v) == [q EXCEPT !.pc = v]
SetCfg(q, v) == [q EXCEPT !.cfg = v]
SetHealth(q, v) == [q EXCEPT !.health = v]
SetAs(q, v) == [q EXCEPT !.as = v]
SetRes(q, v) == [q EXCEPT !.res = v]
SetOut(q, v) == [q EXCEPT !.out = v]
SetOld(q, v) == [q EXCEPT !.old = v]
SetTorn(q, v) == [q EXCEPT !.torn = v]
SetK(q, v) == [q EXCEPT !.k = v]
SetN(q, v) == [q EXCEPT !.n = v]

LEMMA PcChanges ==
  ASSUME NEW q, Invocation(q), NEW v
  PROVE  Same(SetPc(q, v), q) /\ SetPc(q, v).pc = v /\ SetPc(q, v).cfg = q.cfg
BY DEF Invocation, Same, SetPc

LEMMA CfgChanges ==
  ASSUME NEW q, Invocation(q), NEW v
  PROVE  Same(SetCfg(q, v), q) /\ SetCfg(q, v).pc = q.pc /\ SetCfg(q, v).cfg = v
BY DEF Invocation, Same, SetCfg

LEMMA HealthChanges ==
  ASSUME NEW q, Invocation(q), NEW v
  PROVE  Same(SetHealth(q, v), q) /\ SetHealth(q, v).pc = q.pc /\ SetHealth(q, v).cfg = q.cfg
BY DEF Invocation, Same, SetHealth

LEMMA AsChanges ==
  ASSUME NEW q, Invocation(q), NEW v
  PROVE  Same(SetAs(q, v), q) /\ SetAs(q, v).pc = q.pc /\ SetAs(q, v).cfg = q.cfg
BY DEF Invocation, Same, SetAs

LEMMA ResChanges ==
  ASSUME NEW q, Invocation(q), NEW v
  PROVE  Same(SetRes(q, v), q) /\ SetRes(q, v).pc = q.pc /\ SetRes(q, v).cfg = q.cfg
BY DEF Invocation, Same, SetRes

LEMMA OutChanges ==
  ASSUME NEW q, Invocation(q), NEW v
  PROVE  Same(SetOut(q, v), q) /\ SetOut(q, v).pc = q.pc /\ SetOut(q, v).cfg = q.cfg
BY DEF Invocation, Same, SetOut

LEMMA OldChanges ==
  ASSUME NEW q, Invocation(q), NEW v
  PROVE  Same(SetOld(q, v), q) /\ SetOld(q, v).pc = q.pc /\ SetOld(q, v).cfg = q.cfg
BY DEF Invocation, Same, SetOld

LEMMA TornChanges ==
  ASSUME NEW q, Invocation(q), NEW v
  PROVE  Same(SetTorn(q, v), q) /\ SetTorn(q, v).pc = q.pc /\ SetTorn(q, v).cfg = q.cfg
BY DEF Invocation, Same, SetTorn

LEMMA KChanges ==
  ASSUME NEW q, Invocation(q), NEW v
  PROVE  Invocation(SetK(q, v)) /\ SetK(q, v).n = q.n /\ SetK(q, v).k = v /\ SetK(q, v).pc = q.pc
BY DEF Invocation, SetK

LEMMA NChanges ==
  ASSUME NEW q, Invocation(q), NEW v \in Nat \ {0}
  PROVE  Invocation(SetN(q, v)) /\ SetN(q, v).n = v /\ SetN(q, v).k = q.k /\ SetN(q, v).pc = q.pc
BY DEF Invocation, SetN

\* The next invocation of a script.
LEMMA EndSound ==
  ASSUME ConfigInv, NEW s \in Shells, NEW out
  PROVE  Sound(s, Ended(s, out))
<1> DEFINE r == Ended(s, out)
<1>1. run[s].n \in Nat \ {0}
  BY DEF ConfigInv, Sound, Invocation
<1>2. Invocation(r) /\ r.pc = "load" /\ r.k = 1
  <2>1. Invocation(Idle) /\ Idle.pc = "load" /\ Idle.k = 1
    BY DEF Idle, Invocation
  <2>2. r = SetOut(SetN(Idle, run[s].n + 1), out)
    BY DEF Ended, SetOut, SetN
  <2>3. run[s].n + 1 \in Nat \ {0}
    BY <1>1
  <2> HIDE DEF r
  <2> QED BY <2>1, <2>2, <2>3, NChanges, OutChanges DEF Same
<1> HIDE DEF r
<1>3. EditLeft(s, r)
  <2> SUFFICES ASSUME r.n <= Len(scn.script[s])
               PROVE  r.k \in 1 .. Len(Edits(scn.script[s][r.n]))
    BY DEF EditLeft
  <2>1. scn.script[s][r.n] \in Ops
    <3>1. scn.script[s] \in Seq(Ops)
      BY ClientsAssumption DEF ScenarioType, ConfigInv
    <3>2. r.n \in 1 .. Len(scn.script[s])
      BY <1>2, <3>1 DEF Invocation
    <3> QED BY <3>2, Operations DEF ConfigInv
  <2> HIDE DEF r
  <2> QED BY <1>2, <2>1, EditsOf
<1> QED BY <1>2, <1>3 DEF Sound, CopyAgrees, r

\* The operation an invocation carries out.
LEMMA Current ==
  ASSUME ConfigInv, NEW s \in Shells, Running(s)
  PROVE  /\ Op(s) \in Ops /\ Op(s) \in Scripted
         /\ run[s].k \in 1 .. Len(Edits(Op(s)))
         /\ Invocation(run[s]) /\ run[s].n \in Nat \ {0}
<1>1. Sound(s, run[s])
  BY DEF ConfigInv
<1>2. scn.script[s] \in Seq(Ops)
  BY ClientsAssumption DEF ScenarioType, ConfigInv
<1>3. run[s].n \in 1 .. Len(scn.script[s])
  BY <1>1, <1>2 DEF Sound, Invocation, Running
<1> QED BY <1>1, <1>3, Operations DEF ConfigInv, Sound, EditLeft, Op, Running, Invocation

\* The commands that change the file: load, truncate, write.
LEMMA EditSteps ==
  ASSUME ConfigInv, NEW s \in Shells, Loads(s) \/ Truncates(s) \/ Writes(s)
  PROVE  ConfigInv'
<1>1. /\ scn' = scn /\ Running(s) /\ Sound(s, run[s]) /\ Invocation(run[s])
  BY Current DEF Loads, Truncates, Writes, At, ConfigInv
<1>2. CASE Loads(s)
  <2>1. cfg' = cfg
    BY <1>2 DEF Loads
  <2>2. CASE \E out : run' = [run EXCEPT ![s] = Ended(s, out)]
    BY <1>1, <2>1, <2>2, EndSound, GoesOn
  <2>3. CASE ~ \E out : run' = [run EXCEPT ![s] = Ended(s, out)]
    <3> DEFINE c == Edited(Op(s), Edits(Op(s))[run[s].k], cfg)
               r == [run[s] EXCEPT !.pc = "truncate", !.cfg = c]
    <3>1. cfg \notin Broken /\ run' = [run EXCEPT ![s] = r]
      BY <1>2, <2>3 DEF Loads, Loaded, To, End
    <3>2. Agrees(c)
      BY <1>1, <1>2, <3>1, Current, EditedAgrees DEF Loads, ConfigInv
    <3> HIDE DEF c
    <3>0. r = SetCfg(SetPc(run[s], "truncate"), c)
      BY DEF SetCfg, SetPc
    <3> HIDE DEF r
    <3>3. Invocation(r) /\ r.n = run[s].n /\ r.k = run[s].k /\ r.cfg = c
      BY <1>1, <3>0, PcChanges, CfgChanges DEF Same
    <3>4. Sound(s, r)
      BY <1>1, <3>2, <3>3 DEF Sound, EditLeft, CopyAgrees
    <3> QED BY <1>1, <2>1, <3>1, <3>4, GoesOn
  <2> QED BY <2>2, <2>3
<1>3. CASE Truncates(s)
  <2> DEFINE r == [run[s] EXCEPT !.pc = "write"]
  <2>1. cfg' \in Broken /\ run' = [run EXCEPT ![s] = r] /\ run[s].pc = "truncate"
    BY <1>3 DEF Truncates, To, At, Broken
  <2>2. Invocation(r) /\ r.n = run[s].n /\ r.k = run[s].k /\ r.cfg = run[s].cfg
    BY <1>1 DEF Invocation
  <2> HIDE DEF r
  <2>3. Sound(s, r)
    BY <1>1, <2>1, <2>2 DEF Sound, EditLeft, CopyAgrees
  <2> QED BY <1>1, <2>1, <2>3, GoesOn
<1>4. CASE Writes(s)
  <2>1. (cfg' = run[s].cfg \/ cfg' \in Broken) /\ Agrees(run[s].cfg)
    BY <1>1, <1>4 DEF Writes, At, Sound, CopyAgrees, Written, Broken
  <2>0. \A c : Agrees(c) => Agrees(c)'
    BY <1>1 DEF Agrees, FreeAlias, FreeGroup, FreeSecret, Scripted
  <2>2. CASE run[s].k = Len(Edits(Op(s)))
    <3>1. run' = [run EXCEPT ![s] = Ended(s, "ok")]
      BY <1>4, <2>2 DEF Writes, End, To
    <3> QED BY <1>1, <2>1, <3>1, EndSound, GoesOn
  <2>3. CASE run[s].k # Len(Edits(Op(s)))
    <3> DEFINE r == [run[s] EXCEPT !.pc = "load", !.cfg = None, !.k = @ + 1]
    <3>1. run' = [run EXCEPT ![s] = r]
      BY <1>4, <2>3 DEF Writes, To
    <3>0. r = SetK(SetCfg(SetPc(run[s], "load"), None), run[s].k + 1)
      BY DEF SetK, SetCfg, SetPc
    <3> HIDE DEF r
    <3>2. Invocation(r) /\ r.n = run[s].n /\ r.k = run[s].k + 1 /\ r.pc = "load"
      BY <1>1, <3>0, PcChanges, CfgChanges, KChanges DEF Same
    <3>3. r.k \in 1 .. Len(Edits(Op(s)))
      BY <1>1, <2>3, <3>2, Current, EditsOf
    <3>4. Sound(s, r)
      BY <3>2, <3>3 DEF Sound, EditLeft, CopyAgrees, Op
    <3> QED BY <1>1, <2>1, <3>1, <3>4, GoesOn
  <2> QED BY <2>2, <2>3
<1> QED BY <1>2, <1>3, <1>4

\* An invocation that only reads the file ends, or goes on with nothing to write.
GoesOnOrEnds(s) ==
  \/ \E out : run' = [run EXCEPT ![s] = Ended(s, out)]
  \/ \E r : Same(r, run[s]) /\ r.pc \notin {"truncate", "write"} /\ run' = [run EXCEPT ![s] = r]

LEMMA Reading ==
  ASSUME ConfigInv, NEW s \in Shells, scn' = scn, cfg' = cfg, GoesOnOrEnds(s)
  PROVE  ConfigInv'
<1>1. CASE \E out : run' = [run EXCEPT ![s] = Ended(s, out)]
  BY <1>1, EndSound, GoesOn
<1>2. CASE \E r : Same(r, run[s]) /\ r.pc \notin {"truncate", "write"} /\ run' = [run EXCEPT ![s] = r]
  <2>1. PICK r : Same(r, run[s]) /\ r.pc \notin {"truncate", "write"} /\ run' = [run EXCEPT ![s] = r]
    BY <1>2
  <2>2. Sound(s, r)
    BY <2>1, StepSound DEF ConfigInv, Same
  <2> QED BY <2>1, <2>2, GoesOn
<1> QED BY <1>1, <1>2 DEF GoesOnOrEnds

\* exec and the MCP tools.
LEMMA ExecSteps ==
  ASSUME ConfigInv, NEW s \in Shells, Finds(s) \/ Finds2(s) \/ Asks(s) \/ Returns(s) \/ Notes(s)
  PROVE  ConfigInv'
<1>1. scn' = scn /\ cfg' = cfg
  BY DEF Finds, Finds2, Asks, Returns, Notes
<1>2. Invocation(run[s])
  BY DEF ConfigInv, Sound
<1>3. CASE Finds(s)
  <2>1. \/ \E out : run' = [run EXCEPT ![s] = Ended(s, out)]
        \/ \E as : run' = [run EXCEPT ![s] = SetCfg(SetAs(SetPc(run[s], "ask"), as), cfg)]
        \/ \E as : run' = [run EXCEPT ![s] = SetAs(SetPc(run[s], "resolve"), as)]
    BY <1>3 DEF Finds, To, End, SetCfg, SetAs, SetPc
  <2>0. \A p, as : Same(SetAs(SetPc(run[s], p), as), run[s]) /\ SetAs(SetPc(run[s], p), as).pc = p
    <3> TAKE p, as
    <3>1. Same(SetPc(run[s], p), run[s]) /\ SetPc(run[s], p).pc = p
      BY <1>2, PcChanges
    <3> QED BY <3>1, AsChanges DEF Same
  <2>2. \A as : LET r == SetCfg(SetAs(SetPc(run[s], "ask"), as), cfg) IN Same(r, run[s]) /\ r.pc = "ask"
    <3> TAKE as
    <3> DEFINE q == SetAs(SetPc(run[s], "ask"), as)
    <3>1. Same(q, run[s]) /\ q.pc = "ask"
      BY <2>0
    <3> HIDE DEF q
    <3>2. Same(SetCfg(q, cfg), run[s]) /\ SetCfg(q, cfg).pc = "ask"
      BY <3>1, CfgChanges DEF Same
    <3> QED BY <3>2 DEF q
  <2>3. \A as : LET r == SetAs(SetPc(run[s], "resolve"), as) IN Same(r, run[s]) /\ r.pc = "resolve"
    BY <2>0
  <2>4. GoesOnOrEnds(s)
    BY <2>1, <2>2, <2>3 DEF GoesOnOrEnds
  <2> QED BY <1>1, <2>4, Reading
<1>4. CASE Finds2(s)
  <2>1. \/ \E out : run' = [run EXCEPT ![s] = Ended(s, out)]
        \/ run' = [run EXCEPT ![s] = SetCfg(SetPc(run[s], "ask"), cfg)]
    BY <1>4 DEF Finds2, To, End, SetCfg, SetPc
  <2>2. LET r == SetCfg(SetPc(run[s], "ask"), cfg) IN Same(r, run[s]) /\ r.pc = "ask"
    BY <1>2, PcChanges, CfgChanges DEF Same
  <2>3. GoesOnOrEnds(s)
    BY <2>1, <2>2 DEF GoesOnOrEnds
  <2> QED BY <1>1, <2>3, Reading
<1>5. CASE Asks(s)
  <2>1. \/ \E out : run' = [run EXCEPT ![s] = Ended(s, out)]
        \/ \E p \in {"end", "note"} : \E res, out : run' = [run EXCEPT ![s] = SetOut(SetRes(SetPc(run[s], p), res), out)]
    BY <1>5 DEF Asks, To, End, SetOut, SetRes, SetPc
  <2>2. \A p, res, out : LET r == SetOut(SetRes(SetPc(run[s], p), res), out) IN Same(r, run[s]) /\ r.pc = p
    BY <1>2, PcChanges, ResChanges, OutChanges DEF Same
  <2>3. GoesOnOrEnds(s)
    BY <2>1, <2>2 DEF GoesOnOrEnds
  <2> QED BY <1>1, <2>3, Reading
<1>6. CASE Returns(s)
  <2>1. GoesOnOrEnds(s)
    BY <1>6 DEF Returns, End, To, GoesOnOrEnds
  <2> QED BY <1>1, <2>1, Reading
<1>7. CASE Notes(s)
  <2>1. \/ \E out : run' = [run EXCEPT ![s] = Ended(s, out)]
        \/ \E as : run' = [run EXCEPT ![s] = SetAs(run[s], as)]
        \/ \E h : run' = [run EXCEPT ![s] = SetTorn(SetOld(SetHealth(SetPc(run[s], "htruncate"), h), FALSE), FALSE)]
    BY <1>7 DEF Notes, To, End, NextAlias, SetAs, SetTorn, SetOld, SetHealth, SetPc
  <2>2. \A as : LET r == SetAs(run[s], as) IN Same(r, run[s]) /\ r.pc = run[s].pc
    BY <1>2, AsChanges
  <2>3. ASSUME NEW h
        PROVE  LET r == SetTorn(SetOld(SetHealth(SetPc(run[s], "htruncate"), h), FALSE), FALSE)
               IN  Same(r, run[s]) /\ r.pc = "htruncate"
    <3> DEFINE q == SetHealth(SetPc(run[s], "htruncate"), h)
    <3>1. Same(q, run[s]) /\ q.pc = "htruncate"
      BY <1>2, PcChanges, HealthChanges DEF Same
    <3> HIDE DEF q
    <3>2. Same(SetOld(q, FALSE), run[s]) /\ SetOld(q, FALSE).pc = "htruncate"
      BY <3>1, OldChanges DEF Same
    <3>3. Same(SetTorn(SetOld(q, FALSE), FALSE), run[s]) /\ SetTorn(SetOld(q, FALSE), FALSE).pc = "htruncate"
      BY <3>2, TornChanges DEF Same
    <3> QED BY <3>3 DEF q
  <2>4. GoesOnOrEnds(s)
    BY <1>7, <2>1, <2>2, <2>3 DEF GoesOnOrEnds, Notes, At
  <2> QED BY <1>1, <2>4, Reading
<1> QED BY <1>3, <1>4, <1>5, <1>6, <1>7

\* list-targets up to its save.
LEMMA ListSteps ==
  ASSUME ConfigInv, NEW s \in Shells,
         ListLoads(s) \/ ListResolves(s) \/ ListAsks(s) \/ ListProbes(s) \/ HTruncates(s)
  PROVE  ConfigInv'
<1>1. scn' = scn /\ cfg' = cfg
  BY DEF ListLoads, ListResolves, ListAsks, ListProbes, HTruncates
<1>2. Invocation(run[s])
  BY DEF ConfigInv, Sound
<1>3. \A h : LET r == SetHealth(SetPc(run[s], "htruncate"), h) IN Same(r, run[s]) /\ r.pc = "htruncate"
  BY <1>2, PcChanges, HealthChanges DEF Same
<1>4. AllDown(s) => \E h : run' = [run EXCEPT ![s] = SetHealth(SetPc(run[s], "htruncate"), h)]
  BY DEF AllDown, To, SetHealth, SetPc
<1>5. CASE ListLoads(s)
  <2> DEFINE h0 == IF health \in Broken THEN NoHealth ELSE health
             as0 == Picked(AliasOrder, {i \in DOMAIN AliasOrder :
                       /\ cfg.tgt[AliasOrder[i]] # None
                       /\ Op(s).refresh \/ h0[AliasOrder[i]].st = "none"})
             r0 == [run[s] EXCEPT !.pc = "resolve", !.health = h0, !.as = as0, !.old = FALSE,
                                  !.torn = (health \in Broken)]
  <2>1. (\E out : run' = [run EXCEPT ![s] = Ended(s, out)]) \/ run' = [run EXCEPT ![s] = r0]
    BY <1>5, Zenon DEF ListLoads, To, End
  <2> DEFINE t == health \in Broken
             q == SetAs(SetHealth(SetPc(run[s], "resolve"), h0), as0)
  <2>2. r0 = SetTorn(SetOld(q, FALSE), t)
    BY DEF SetTorn, SetOld, SetAs, SetHealth, SetPc
  <2> HIDE DEF h0, as0, r0, t
  <2>3. Same(q, run[s]) /\ q.pc = "resolve"
    <3>1. LET r == SetHealth(SetPc(run[s], "resolve"), h0) IN Same(r, run[s]) /\ r.pc = "resolve"
      BY <1>2, PcChanges, HealthChanges DEF Same
    <3> QED BY <3>1, AsChanges DEF Same
  <2> HIDE DEF q
  <2>4. Same(r0, run[s]) /\ r0.pc = "resolve"
    <3>1. Same(SetOld(q, FALSE), run[s]) /\ SetOld(q, FALSE).pc = "resolve"
      BY <2>3, OldChanges DEF Same
    <3> QED BY <2>2, <3>1, TornChanges DEF Same
  <2>5. GoesOnOrEnds(s)
    BY <2>1, <2>4 DEF GoesOnOrEnds
  <2> QED BY <1>1, <2>5, Reading
<1>6. CASE ListResolves(s)
  <2>1. AllDown(s) \/ run' = [run EXCEPT ![s] = SetCfg(SetPc(run[s], "ask"), cfg)]
    BY <1>6 DEF ListResolves, To, SetCfg, SetPc
  <2>2. LET r == SetCfg(SetPc(run[s], "ask"), cfg) IN Same(r, run[s]) /\ r.pc = "ask"
    BY <1>2, PcChanges, CfgChanges DEF Same
  <2>3. GoesOnOrEnds(s)
    BY <1>3, <1>4, <2>1, <2>2 DEF GoesOnOrEnds
  <2> QED BY <1>1, <2>3, Reading
<1>7. CASE ListAsks(s)
  <2>1. AllDown(s) \/ \E res : run' = [run EXCEPT ![s] = SetRes(SetPc(run[s], "probe"), res)]
    BY <1>7 DEF ListAsks, To, SetRes, SetPc
  <2>2. \A res : LET r == SetRes(SetPc(run[s], "probe"), res) IN Same(r, run[s]) /\ r.pc = "probe"
    BY <1>2, PcChanges, ResChanges DEF Same
  <2>3. GoesOnOrEnds(s)
    BY <1>3, <1>4, <2>1, <2>2 DEF GoesOnOrEnds
  <2> QED BY <1>1, <2>3, Reading
<1>8. CASE ListProbes(s)
  <2>1. \E h : run' = [run EXCEPT ![s] = SetHealth(SetPc(run[s], "htruncate"), h)]
    BY <1>8 DEF ListProbes, To, SetHealth, SetPc
  <2>2. GoesOnOrEnds(s)
    BY <1>3, <2>1 DEF GoesOnOrEnds
  <2> QED BY <1>1, <2>2, Reading
<1>9. CASE HTruncates(s)
  <2>1. run' = [run EXCEPT ![s] = SetPc(run[s], "hwrite")]
    BY <1>9 DEF HTruncates, To, SetPc
  <2>2. Same(SetPc(run[s], "hwrite"), run[s]) /\ SetPc(run[s], "hwrite").pc = "hwrite"
    BY <1>2, PcChanges
  <2>3. GoesOnOrEnds(s)
    BY <2>1, <2>2 DEF GoesOnOrEnds
  <2> QED BY <1>1, <2>3, Reading
<1> QED BY <1>5, <1>6, <1>7, <1>8, <1>9

\* A save of health.json makes the others' copies of it old, nothing else.
LEMMA SaveStep ==
  ASSUME ConfigInv, NEW s \in Shells, HWrites(s)
  PROVE  ConfigInv'
<1>1. scn' = scn /\ cfg' = cfg
  BY DEF HWrites
<1>2. \A t \in Shells : Invocation(run[t]) /\ Sound(t, run[t])
  BY DEF ConfigInv, Sound
<1>3. /\ run' = [t \in Shells |-> run'[t]]
      /\ \A t \in Shells : t # s => run'[t] = SetOld(run[t], TRUE)
      /\ run'[s] = Ended(s, "ok") \/ run'[s] = SetHealth(SetPc(SetAs(run[s], Tail(run[s].as)), "note"), None)
  BY DEF HWrites, Outdated, NextAlias, SetOld, SetHealth, SetPc, SetAs
<1>4. ASSUME NEW t \in Shells, t # s PROVE Sound(t, run'[t])
  <2>1. Same(SetOld(run[t], TRUE), run[t]) /\ SetOld(run[t], TRUE).pc = run[t].pc
        /\ SetOld(run[t], TRUE).cfg = run[t].cfg
    BY <1>2, OldChanges
  <2> QED BY <1>2, <1>3, <1>4, <2>1 DEF Same, Sound, EditLeft, CopyAgrees
<1>5. Sound(s, run'[s])
  <2>1. CASE run'[s] = Ended(s, "ok")
    BY <2>1, EndSound
  <2>2. CASE run'[s] = SetHealth(SetPc(SetAs(run[s], Tail(run[s].as)), "note"), None)
    <3> DEFINE r == SetHealth(SetPc(SetAs(run[s], Tail(run[s].as)), "note"), None)
    <3>1. Same(r, run[s]) /\ r.pc = "note"
      BY <1>2, AsChanges, PcChanges, HealthChanges DEF Same
    <3> HIDE DEF r
    <3> QED BY <1>2, <2>2, <3>1, StepSound DEF Same, r
  <2> QED BY <1>3, <2>1, <2>2
<1>6. \A c : Agrees(c) => Agrees(c)'
  BY <1>1 DEF Agrees, FreeAlias, FreeGroup, FreeSecret, Scripted
<1>7. \A t \in Shells : Sound(t, run[t]')
  BY <1>4, <1>5
<1> QED BY <1>1, <1>3, <1>6, <1>7 DEF ConfigInv, Sound, EditLeft, CopyAgrees

\* The first configuration agrees with itself.
LEMMA InitConfig == Init => ConfigInv
<1> SUFFICES ASSUME Init PROVE ConfigInv
  OBVIOUS
<1>1. scn \in Scenarios /\ cfg = scn.cfg /\ scn.cfg \in ConfigType
  BY ClientsAssumption DEF Init, ScenarioType
<1>2. Agrees(cfg)
  BY <1>1 DEF Agrees, Shaped, ConfigType
<1>3. run = [s \in Shells |-> run[s]] /\ \A s \in Shells : run[s] = Idle
  BY DEF Init
<1>4. Invocation(Idle) /\ Idle.pc = "load" /\ Idle.k = 1 /\ Idle.n = 1
  BY DEF Idle, Invocation
<1>5. ASSUME NEW s \in Shells PROVE EditLeft(s, Idle)
  <2> SUFFICES ASSUME 1 <= Len(scn.script[s])
               PROVE  1 \in 1 .. Len(Edits(scn.script[s][1]))
    BY <1>4 DEF EditLeft
  <2>1. scn.script[s] \in Seq(Ops)
    BY <1>1, ClientsAssumption DEF ScenarioType
  <2>2. 1 \in 1 .. Len(scn.script[s])
    BY <2>1
  <2>3. scn.script[s][1] \in Ops
    BY <1>1, <2>2, Operations
  <2> QED BY <2>3, EditsOf
<1> QED BY <1>1, <1>2, <1>3, <1>4, <1>5 DEF ConfigInv, Sound, CopyAgrees

LEMMA StepConfig == ConfigInv /\ [Next]_vars => ConfigInv'
<1> SUFFICES ASSUME ConfigInv, [Next]_vars PROVE ConfigInv'
  OBVIOUS
<1>1. ASSUME UNCHANGED <<scn, cfg, run>> PROVE ConfigInv'
  <2>1. \A c : Agrees(c) => Agrees(c)'
    BY <1>1 DEF Agrees, FreeAlias, FreeGroup, FreeSecret, Scripted
  <2> QED BY <1>1, <2>1 DEF ConfigInv, Sound, EditLeft, CopyAgrees
<1>2. CASE Upgrades \/ UNCHANGED vars
  BY <1>1, <1>2 DEF Upgrades, vars
<1>3. ASSUME NEW s \in Shells, Step(s) PROVE ConfigInv'
  BY <1>3, EditSteps, ExecSteps, ListSteps, SaveStep DEF Step
<1> QED BY <1>2, <1>3 DEF Next

LEMMA ConfigSuffices == ConfigInv => UntouchedKept
BY DEF ConfigInv, Agrees, FreeAlias, FreeGroup, FreeSecret, UntouchedKept

(***************************************************************************)
(* config.json is read, changed, truncated and written without a lock      *)
(* (config.go, saveConfig).                                                *)
(* For any number of shells and any scripts: a target, a group and the     *)
(* relay's secret that no command is about are as they were in every file  *)
(* that can be parsed, in whatever order the commands run into one         *)
(* another.  Two of them that overlap may leave a file that cannot be      *)
(* parsed, and that stays so (Torn, see Written in Clients).               *)
(***************************************************************************)
THEOREM UntouchedAlways == Spec => []UntouchedKept
<1>1. Init => ConfigInv
  BY InitConfig
<1>2. ConfigInv /\ [Next]_vars => ConfigInv'
  BY StepConfig
<1>3. ConfigInv => UntouchedKept
  BY ConfigSuffices
<1> QED BY <1>1, <1>2, <1>3, PTL DEF Spec
---------------------------------------------------------------------------
LEMMA PlacesFinite ==
  ASSUME NEW m \in Nat, NEW keep \in SUBSET (1 .. m)
  PROVE  IsFiniteSet(keep) /\ Cardinality(keep) \in Nat
<1>1. 1 \in Int /\ m \in Int
  OBVIOUS
<1>2. IsFiniteSet(1 .. m)
  BY <1>1, FS_Interval
<1>3. IsFiniteSet(keep)
  BY <1>2, FS_Subset
<1> QED BY <1>3, FS_CardinalityType

\* In a finite set of numbers there is one with just k - 1 smaller ones.
LEMMA Nth ==
  ASSUME NEW m \in Nat, NEW keep \in SUBSET (1 .. m), NEW k \in 1 .. Cardinality(keep)
  PROVE  \E i \in keep : Cardinality({j \in keep : j < i}) = k - 1
<1> DEFINE B(i) == {j \in keep : j < i}
           n == Cardinality(keep)
           f == [i \in keep |-> Cardinality(B(i))]
<1>0. keep \subseteq Int
  OBVIOUS
<1>1. IsFiniteSet(keep) /\ n \in Nat
  BY PlacesFinite
<1>2. ASSUME NEW i \in keep
      PROVE  IsFiniteSet(B(i)) /\ Cardinality(B(i)) \in 0 .. n - 1
  <2>1. IsFiniteSet(keep \ {i}) /\ Cardinality(keep \ {i}) = n - 1
    BY <1>1, FS_RemoveElement
  <2>2. B(i) \in SUBSET (keep \ {i})
    OBVIOUS
  <2>3. IsFiniteSet(B(i)) /\ Cardinality(B(i)) <= n - 1
    BY <2>1, <2>2, FS_Subset
  <2> QED BY <1>1, <2>3, FS_CardinalityType
<1>3. ASSUME NEW i \in keep, NEW j \in keep, i < j
      PROVE  Cardinality(B(i)) < Cardinality(B(j))
  <2>0. i \notin B(i) /\ IsFiniteSet(B(i)) /\ IsFiniteSet(B(j))
    BY <1>0, <1>2
  <2>2. B(i) \cup {i} \in SUBSET B(j)
    <3>1. ASSUME NEW x \in B(i) \cup {i} PROVE x \in keep /\ x < j
      <4>1. i \in Int /\ j \in Int /\ x \in Int /\ x \in keep /\ x <= i
        BY <1>0
      <4> QED BY <1>3, <4>1
    <3> QED BY <3>1
  <2>4. Cardinality(B(i)) \in Nat /\ Cardinality(B(j)) \in Nat
    BY <2>0, FS_CardinalityType
  <2> HIDE DEF B
  <2>1. IsFiniteSet(B(i) \cup {i}) /\ Cardinality(B(i) \cup {i}) = Cardinality(B(i)) + 1
    BY <2>0, FS_AddElement
  <2>3. Cardinality(B(i) \cup {i}) <= Cardinality(B(j))
    BY <2>0, <2>2, FS_Subset
  <2> QED BY <2>4, <2>1, <2>3
<1>4. f \in Injection(keep, 0 .. n - 1)
  <2>1. f \in [keep -> 0 .. n - 1]
    BY <1>2
  <2>2. ASSUME NEW i \in keep, NEW j \in keep, f[i] = f[j] PROVE i = j
    <3>1. i < j \/ j < i \/ i = j
      BY <1>0
    <3> QED BY <1>2, <1>3, <2>2, <3>1
  <2> QED BY <2>1, <2>2 DEF Injection, IsInjective
<1>5. IsFiniteSet(0 .. n - 1) /\ Cardinality(0 .. n - 1) = n
  <2>1. 0 \in Int /\ n - 1 \in Int
    BY <1>1
  <2> QED BY <1>1, <2>1, FS_Interval
<1>6. f \in Surjection(keep, 0 .. n - 1)
  BY <1>4, <1>5, FS_Injection
<1>7. k - 1 \in 0 .. n - 1
  BY <1>1
<1>8. PICK i \in keep : f[i] = k - 1
  BY <1>6, <1>7 DEF Surjection
<1> QED BY <1>8

\* What is picked from a sequence is in it, at a place to be kept.
LEMMA PickedOnes ==
  ASSUME NEW S, NEW q \in Seq(S), NEW keep \in SUBSET DOMAIN q
  PROVE  /\ Picked(q, keep) \in Seq(S)
         /\ \A x \in ToSet(Picked(q, keep)) : \E i \in keep : x = q[i]
<1> DEFINE n == Cardinality(keep)
           At1(k) == CHOOSE i \in keep : Cardinality({j \in keep : j < i}) = k - 1
           p == Picked(q, keep)
<1>1. Len(q) \in Nat /\ keep \in SUBSET (1 .. Len(q))
  OBVIOUS
<1>2. n \in Nat
  BY <1>1, PlacesFinite
<1>3. \A k \in 1 .. n : At1(k) \in keep
  BY <1>1, Nth
<1>4. p = [k \in 1 .. n |-> q[At1(k)]]
  BY DEF Picked
<1> HIDE DEF At1, n, p
<1>5. p \in [1 .. n -> S]
  BY <1>1, <1>3, <1>4
<1>6. p \in Seq(S) /\ DOMAIN p = 1 .. n
  BY <1>2, <1>5
<1>7. \A x \in ToSet(p) : \E i \in keep : x = q[i]
  BY <1>3, <1>4, <1>6 DEF ToSet
<1> QED BY <1>6, <1>7 DEF p

\* In a finite set of numbers there is a greatest one.
LEMMA Greatest ==
  ASSUME NEW m \in Nat, NEW keep \in SUBSET (1 .. m), keep # {}
  PROVE  \E i \in keep : \A j \in keep : j <= i
<1>1. IsFiniteSet(keep) /\ Cardinality(keep) \in Nat \ {0}
  BY PlacesFinite, FS_EmptySet
<1>2. PICK i \in keep : Cardinality({j \in keep : j < i}) = Cardinality(keep) - 1
  <2>1. Cardinality(keep) \in 1 .. Cardinality(keep)
    BY <1>1
  <2> QED BY <2>1, Nth
<1>3. IsFiniteSet(keep \ {i}) /\ Cardinality(keep \ {i}) = Cardinality(keep) - 1
  BY <1>1, FS_RemoveElement
<1>4. {j \in keep : j < i} \in SUBSET (keep \ {i})
  OBVIOUS
<1>5. keep \ {i} = {j \in keep : j < i}
  BY <1>2, <1>3, <1>4, FS_Subset
<1> QED BY <1>5
---------------------------------------------------------------------------
(***************************************************************************)
(* What an invocation holds at each step, for the other four properties:   *)
(* every configuration, on file or in somebody's hands, names members that *)
(* are targets or were removed (Grouped), and gives an alias only daemons  *)
(* it stands for (Stands); every copy of health.json lists what is up for  *)
(* an answer (Answered), and is either out of date or as the last save     *)
(* left it, up to what the invocation has learnt itself (AsSaved, Saving).    *)
(***************************************************************************)
HealthType == [Aliases -> [st : {"none", "up", "down"}, host : Names \cup {None}, ver : 0 .. MaxVer]]
Steps == {"load", "truncate", "write", "resolve", "ask", "probe", "end", "note", "htruncate", "hwrite"}
Outcomes == {"none", "ok", "error", "panic", "answered", "failed", "healthy"}
Configs == ConfigType \cup {None}
Caches == HealthType \cup {None}
Numbers == Nat \ {0}
Lists == Seq(Aliases)
Replies == [Names -> 0 .. MaxVer]
InvocationType ==
  [pc : Steps, n : Numbers, cfg : Configs, health : Caches, k : Nat, as : Lists, res : Replies,
   out : Outcomes, old : BOOLEAN, torn : BOOLEAN]

Removed(a) == \E o \in Scripted : o.op = "remove" /\ o.a = a
Grouped(c) ==
  \A g \in Groups : c.grp[g] # None =>
    \A a \in ToSet(c.grp[g]) \ Dangling(g) : c.tgt[a] # None \/ Removed(a)
Stands(c) == \A a \in Aliases : c.tgt[a] # None => c.tgt[a] \in Owns(a)
Proper(c) == c \in ConfigType /\ Grouped(c) /\ Stands(c)

Answered(h) == \A a \in Aliases : h[a].st = "up" => h[a].host \in Owns(a)
Cache(h) == h \in HealthType /\ Answered(h)

Nothing == [n \in Names |-> 0]
Resolved(r) == Proper(r.cfg) /\ Resolves(r.cfg, r.as)

\* Learnt, of operation o and its invocation r.
LearntOf(o, r, a) ==
  LET c == r.cfg  as == IF o.op = "list" THEN r.as ELSE <<Head(r.as)>>
  IN  IF c = None THEN 0
      ELSE IF a \notin ToSet(as) THEN 0
      ELSE IF ByRelay(as, c, c.tgt[a]) # a \/ r.res[c.tgt[a]] = 0 THEN 0
      ELSE IF Reported(r.res[c.tgt[a]]) # 0 THEN Reported(r.res[c.tgt[a]])
      ELSE r.health[a].ver

AsSaved(r) == r.old \/ r.torn \/ \A a \in Aliases : known[a] # 0 => r.health[a].ver = known[a]
Saving(o, r) ==
  r.old \/ r.torn \/
    \A a \in Aliases : IF LearntOf(o, r, a) # 0 THEN r.health[a].ver = LearntOf(o, r, a)
                       ELSE known[a] # 0 => r.health[a].ver = known[a]

Listed(r) == \A a \in ToSet(r.as) : r.health[a].st # "none" \/ Shares(a)

\* The steps of an operation o.
Stage(o, r) ==
  \/ r.pc \in {"load", "end"} /\ (r.pc = "load" => r.cfg = None /\ r.res = Nothing)
  \/ r.pc \in {"truncate", "write"} /\ o.op # "list" /\ Proper(r.cfg) /\ r.res = Nothing
  \/ r.pc = "resolve" /\ o.op # "list"
  \/ r.pc \in {"ask", "note"} /\ o.op # "list" /\ Resolved(r)
  \/ /\ r.pc \in {"htruncate", "hwrite"} /\ o.op # "list" /\ r.as # <<>> /\ Resolved(r)
     /\ Cache(r.health) /\ Saving(o, r)
  \/ /\ r.pc = "resolve" /\ o.op = "list" /\ r.cfg = None /\ r.res = Nothing
     /\ Cache(r.health) /\ AsSaved(r)
  \/ /\ r.pc \in {"ask", "probe"} /\ o.op = "list" /\ Resolved(r) /\ (r.pc = "ask" => r.res = Nothing)
     /\ Cache(r.health) /\ AsSaved(r)
  \/ /\ r.pc \in {"htruncate", "hwrite"} /\ o.op = "list"
     /\ Cache(r.health) /\ Saving(o, r) /\ Listed(r)

Holds(s, r) ==
  /\ r \in InvocationType /\ r.n <= Len(scn.script[s]) + 1
  /\ r.n <= Len(scn.script[s]) => Stage(scn.script[s][r.n], r)

ClientInv ==
  /\ TypeOK
  /\ cfg \in Broken \/ Proper(cfg)
  /\ health \in Broken \/ Cache(health)
  /\ VersionKept
  /\ run = [s \in Shells |-> run[s]]
  /\ \A s \in Shells : Holds(s, run[s])

LEMMA NewOnes ==
  ASSUME NEW q \in Seq(Aliases), NEW members
  PROVE  NewTo(q, members) \in Seq(Aliases) /\ ToSet(NewTo(q, members)) \subseteq ToSet(q)
<1> DEFINE keep == {i \in DOMAIN q : q[i] \notin ToSet(members)}
<1>1. keep \in SUBSET DOMAIN q
  OBVIOUS
<1>2. NewTo(q, members) = Picked(q, keep)
  BY DEF NewTo
<1> HIDE DEF keep
<1>3. NewTo(q, members) \in Seq(Aliases) /\ \A x \in ToSet(NewTo(q, members)) : \E i \in keep : x = q[i]
  BY <1>1, <1>2, PickedOnes
<1> QED BY <1>1, <1>3 DEF ToSet

LEMMA OrderIs == AliasOrder \in Seq(Aliases) /\ ToSet(AliasOrder) = Aliases
<1> DEFINE n == Cardinality(Aliases)
<1>1. n \in Nat /\ ExistsBijection(1 .. n, Aliases)
  BY ClientsAssumption, FS_CardinalityType
<1>2. PICK f : f \in Bijection(1 .. n, Aliases)
  BY <1>1 DEF ExistsBijection
<1>3. f \in [1 .. n -> Aliases] /\ ToSet(f) = Aliases
  BY <1>2 DEF Bijection, Injection, Surjection, ToSet
<1>4. AliasOrder \in [1 .. n -> Aliases] /\ ToSet(AliasOrder) = Aliases
  BY <1>3 DEF AliasOrder
<1> QED BY <1>1, <1>4

\* Whoever stands for the daemon of an alias is one of them and has it too.
LEMMA ByRelayIs ==
  ASSUME NEW q \in Seq(Aliases), NEW c, NEW a \in ToSet(q)
  PROVE  /\ ByRelay(q, c, c.tgt[a]) \in ToSet(q)
         /\ c.tgt[ByRelay(q, c, c.tgt[a])] = c.tgt[a]
<1> DEFINE d == c.tgt[a]
           keep == {i \in DOMAIN q : c.tgt[q[i]] = d}
<1>0. PICK h \in DOMAIN q : q[h] = a
  BY DEF ToSet
<1>1. Len(q) \in Nat /\ keep \in SUBSET (1 .. Len(q)) /\ keep # {}
  <2>1. h \in keep
    BY <1>0
  <2>2. Len(q) \in Nat
    OBVIOUS
  <2>3. \A i \in DOMAIN q : i \in 1 .. Len(q)
    OBVIOUS
  <2> QED BY <2>1, <2>2, <2>3
<1>2. PICK i \in keep : \A j \in keep : j <= i
  BY <1>1, Greatest
<1>3. \E k \in DOMAIN q : c.tgt[q[k]] = d /\ \A j \in DOMAIN q : c.tgt[q[j]] = d => j <= k
  BY <1>2
<1> DEFINE m == CHOOSE k \in DOMAIN q : c.tgt[q[k]] = d /\ \A j \in DOMAIN q : c.tgt[q[j]] = d => j <= k
<1>4. m \in DOMAIN q /\ c.tgt[q[m]] = d
  BY <1>3
<1>5. ByRelay(q, c, d) = q[m]
  BY DEF ByRelay
<1> QED BY <1>4, <1>5 DEF ToSet

LEMMA OneByRelay ==
  ASSUME NEW a \in Aliases, NEW c
  PROVE  ByRelay(<<a>>, c, c.tgt[a]) = a
<1>1. <<a>> \in Seq(Aliases) /\ ToSet(<<a>>) = {a}
  BY DEF ToSet
<1> QED BY <1>1, ByRelayIs

\* The members of a group that an operation leaves are targets still, or removed.
LEMMA EditedProper ==
  ASSUME scn \in Scenarios, NEW o \in Ops, o \in Scripted, NEW k \in 1 .. Len(Edits(o)),
         o.op \in {"add", "remove", "gcreate", "gadd", "gremove", "gdelete", "relay"},
         NEW c, Proper(c), ~Refuses(o, c)
  PROVE  Proper(Edited(o, Edits(o)[k], c))
<1> DEFINE e == Edits(o)[k]
           d == Edited(o, e, c)
<1>1. \/ o.op # "relay" /\ e = o.op
      \/ o.op = "relay" /\ e = "url" /\ o.url # None
      \/ o.op = "relay" /\ e = "secret" /\ o.secret # None
  BY EditsOf
<1>2. c \in ConfigType /\ Grouped(c) /\ Stands(c)
  BY DEF Proper
<1> HIDE DEF e
<1>3. CASE o.op = "add"
  <2>1. d = [c EXCEPT !.tgt[o.a] = o.n] /\ o.a \in Aliases /\ o.n \in Names
    BY <1>1, <1>3 DEF Edited, Ops
  <2>2. o.n \in Owns(o.a) /\ o.n # None
    BY <1>3, <2>1, ClientsAssumption DEF Owns
  <2> HIDE DEF d
  <2>3. d \in ConfigType /\ d.grp = c.grp /\ d.tgt = [c.tgt EXCEPT ![o.a] = o.n]
    BY <1>2, <2>1 DEF ConfigType
  <2>4. \A a \in Aliases : c.tgt[a] # None => d.tgt[a] # None
    BY <1>2, <2>1, <2>2, <2>3 DEF ConfigType
  <2>5. Grouped(d)
    BY <1>2, <2>3, <2>4 DEF Grouped, ConfigType, ToSet
  <2>6. Stands(d)
    BY <1>2, <2>1, <2>2, <2>3 DEF Stands, ConfigType
  <2> QED BY <2>3, <2>5, <2>6 DEF Proper, d, e
<1>4. CASE o.op = "remove"
  <2>1. d = [c EXCEPT !.tgt[o.a] = None] /\ o.a \in Aliases /\ Removed(o.a)
    BY <1>1, <1>4 DEF Edited, Ops, Removed
  <2> HIDE DEF d
  <2>3. d \in ConfigType /\ d.grp = c.grp /\ d.tgt = [c.tgt EXCEPT ![o.a] = None]
    BY <1>2, <2>1 DEF ConfigType
  <2>4. \A a \in Aliases : c.tgt[a] # None => d.tgt[a] # None \/ Removed(a)
    BY <1>2, <2>1, <2>3 DEF ConfigType
  <2>5. Grouped(d)
    BY <1>2, <2>3, <2>4 DEF Grouped, ConfigType, ToSet
  <2>6. Stands(d)
    BY <1>2, <2>1, <2>3 DEF Stands, ConfigType
  <2> QED BY <2>3, <2>5, <2>6 DEF Proper, d, e
<1>5. CASE o.op \in {"gcreate", "gadd", "gremove", "gdelete"}
  <2>0. o.g \in Groups /\ (o.op # "gdelete" => o.as \in Seq(Aliases))
    BY <1>5 DEF Ops
  <2>1. PICK v \in Seq(Aliases) \cup {None} :
          /\ d = [c EXCEPT !.grp[o.g] = v]
          /\ v # None => \A a \in ToSet(v) \ Dangling(o.g) : c.tgt[a] # None \/ Removed(a)
    <3>1. CASE o.op = "gcreate"
      BY <1>1, <2>0, <3>1 DEF Edited, Refuses, Resolves
    <3>2. CASE o.op = "gdelete"
      BY <1>1, <2>0, <3>2 DEF Edited
    <3>3. CASE o.op \in {"gadd", "gremove"}
      <4> DEFINE q == c.grp[o.g]
      <4>1. q # None /\ q \in Seq(Aliases) /\ \A a \in ToSet(q) \ Dangling(o.g) : c.tgt[a] # None \/ Removed(a)
        BY <1>2, <2>0, <3>3 DEF Refuses, RefusesUnchecked, ConfigType, Grouped
      <4>2. CASE o.op = "gremove"
        <5> DEFINE v == NewTo(q, o.as)
        <5>1. d = [c EXCEPT !.grp[o.g] = v]
          BY <1>1, <4>2 DEF Edited
        <5>2. v \in Seq(Aliases) /\ ToSet(v) \subseteq ToSet(q)
          BY <4>1, NewOnes
        <5> HIDE DEF v, q
        <5> QED BY <4>1, <5>1, <5>2
      <4>3. CASE o.op = "gadd"
        <5> DEFINE w == NewTo(o.as, q)
                   v == q \o w
        <5>1. d = [c EXCEPT !.grp[o.g] = v]
          BY <1>1, <4>3 DEF Edited
        <5>2. w \in Seq(Aliases) /\ ToSet(w) \subseteq ToSet(o.as)
          BY <2>0, <4>3, NewOnes
        <5>3. \A a \in ToSet(o.as) : c.tgt[a] # None
          BY <4>3 DEF Refuses, Resolves
        <5>4. \A x, y \in Seq(Aliases) : x \o y \in Seq(Aliases) /\ ToSet(x \o y) \subseteq ToSet(x) \cup ToSet(y)
          <6> TAKE x, y \in Seq(Aliases)
          <6>1. x \o y \in Seq(Aliases) /\ Len(x \o y) = Len(x) + Len(y)
            OBVIOUS
          <6>2. \A i \in 1 .. Len(x) + Len(y) : (x \o y)[i] = IF i <= Len(x) THEN x[i] ELSE y[i - Len(x)]
            OBVIOUS
          <6>3. ASSUME NEW i \in 1 .. Len(x) + Len(y) PROVE (x \o y)[i] \in ToSet(x) \cup ToSet(y)
            <7>1. CASE i <= Len(x)
              <8>1. i \in DOMAIN x
                BY <7>1
              <8> QED BY <6>2, <7>1, <8>1 DEF ToSet
            <7>2. CASE ~(i <= Len(x))
              <8>1. i - Len(x) \in DOMAIN y
                BY <7>2
              <8> QED BY <6>2, <7>2, <8>1 DEF ToSet
            <7> QED BY <7>1, <7>2
          <6> QED BY <6>1, <6>3 DEF ToSet
        <5> HIDE DEF w, q
        <5>5. v \in Seq(Aliases) /\ ToSet(v) \subseteq ToSet(q) \cup ToSet(w)
          BY <4>1, <5>2, <5>4
        <5> HIDE DEF v
        <5> QED BY <4>1, <5>1, <5>2, <5>3, <5>5
      <4> QED BY <3>3, <4>2, <4>3
    <3> QED BY <1>5, <3>1, <3>2, <3>3
  <2> HIDE DEF d
  <2>3. d \in ConfigType /\ d.tgt = c.tgt /\ d.grp = [c.grp EXCEPT ![o.g] = v]
    BY <1>2, <2>0, <2>1 DEF ConfigType
  <2>4. Grouped(d)
    <3> SUFFICES ASSUME NEW g \in Groups, d.grp[g] # None, NEW a \in ToSet(d.grp[g]) \ Dangling(g)
                 PROVE  d.tgt[a] # None \/ Removed(a)
      BY DEF Grouped
    <3>1. CASE g = o.g
      BY <1>2, <2>1, <2>3, <3>1 DEF ConfigType
    <3>2. CASE g # o.g
      BY <1>2, <2>3, <3>2 DEF ConfigType, Grouped
    <3> QED BY <3>1, <3>2
  <2>5. Stands(d)
    BY <1>2, <2>3 DEF Stands
  <2> QED BY <2>3, <2>4, <2>5 DEF Proper, d, e
<1>6. CASE o.op = "relay"
  <2>1. d \in ConfigType /\ d.tgt = c.tgt /\ d.grp = c.grp
    <3>1. CASE e = "secret"
      <4>1. d = [c EXCEPT !.secret = o.secret] /\ o.secret \in Values \cup {None}
        BY <1>1, <1>6, <3>1 DEF Edited, Ops
      <4> HIDE DEF d
      <4> QED BY <1>2, <4>1 DEF ConfigType
    <3>2. CASE e = "url"
      <4>1. d = [c EXCEPT !.url = o.url] /\ o.url \in Values
        BY <1>1, <1>6, <3>2 DEF Edited, Ops
      <4> HIDE DEF d
      <4> QED BY <1>2, <4>1 DEF ConfigType
    <3> QED BY <1>1, <1>6, <3>1, <3>2
  <2> HIDE DEF d
  <2>2. Grouped(d) /\ Stands(d)
    BY <1>2, <2>1 DEF Grouped, Stands
  <2> QED BY <2>1, <2>2 DEF Proper, d, e
<1> QED BY <1>3, <1>4, <1>5, <1>6

\* All of this is about the scenario alone, and about known.
LEMMA SameScenario ==
  ASSUME scn' = scn
  PROVE  /\ \A c : Proper(c) <=> Proper(c)'
         /\ \A h : Cache(h) <=> Cache(h)'
         /\ \A r : Listed(r) <=> Listed(r)'
<1>1. \A a : (Removed(a) <=> Removed(a)') /\ Owns(a)' = Owns(a)
  BY DEF Removed, Owns, Scripted
<1>2. \A g : Dangling(g)' = Dangling(g)
  BY DEF Dangling
<1>3. \A a : Shares(a) <=> Shares(a)'
  BY <1>1 DEF Shares
<1>4. \A c : Proper(c) <=> Proper(c)'
  BY <1>1, <1>2 DEF Proper, Grouped, Stands
<1>5. \A h : Cache(h) <=> Cache(h)'
  BY <1>1 DEF Cache, Answered
<1>6. \A r : Listed(r) <=> Listed(r)'
  BY <1>3 DEF Listed
<1> QED BY <1>4, <1>5, <1>6

\* An invocation holds the same whoever else works on, as long as nobody
\* saves health.json, and also then if its copy is marked as old, or it has none.
LEMMA HoldsOn ==
  ASSUME scn' = scn, NEW s, NEW r, Holds(s, r), known' = known \/ r.old \/ r.pc \in {"load", "note"}
  PROVE  Holds(s, r)'
<1>1. Resolved(r) => Resolved(r)'
  BY SameScenario DEF Resolved
<1>2. ASSUME known' = known \/ r.old
      PROVE  (AsSaved(r) => AsSaved(r)') /\ \A op : Saving(op, r) => Saving(op, r)'
  BY <1>2 DEF AsSaved, Saving
<1>3. \A op : Stage(op, r) => Stage(op, r)'
  <2>1. CASE known' = known \/ r.old
    BY <1>1, <1>2, <2>1, SameScenario DEF Stage
  <2>2. CASE r.pc \in {"load", "note"}
    BY <1>1, <2>2, SameScenario DEF Stage
  <2> QED BY <2>1, <2>2
<1> QED BY <1>3 DEF Holds

\* One shell goes on; nobody saves health.json.
LEMMA ShellGoesOn ==
  ASSUME ClientInv, NEW s \in Shells, NEW r, Holds(s, r), run' = [run EXCEPT ![s] = r],
         scn' = scn, ver' = ver, known' = known,
         cfg' = cfg \/ cfg' \in Broken \/ Proper(cfg'), health' = health \/ health' \in Broken
  PROVE  ClientInv'
<1>1. run' = [t \in Shells |-> run'[t]]
  BY DEF ClientInv
<1>2. \A t \in Shells : Holds(t, run'[t])
  BY DEF ClientInv
<1>3. \A t, q : Holds(t, q) => Holds(t, q)'
  BY HoldsOn
<1>4. (cfg \in Broken \/ Proper(cfg))'
  BY SameScenario DEF ClientInv
<1>5. (health \in Broken \/ Cache(health))'
  BY SameScenario DEF ClientInv
<1>6. VersionKept'
  BY DEF ClientInv, VersionKept
<1>7. \A t \in Shells : Holds(t, run[t])'
  BY <1>2, <1>3
<1>8. TypeOK'
  <2>1. cfg' \in Broken \/ cfg' \in ConfigType
    BY <1>4 DEF Proper
  <2>2. health' \in Broken \/ health' \in HealthType
    BY <1>5 DEF Cache
  <2>3. \A t \in Shells : run'[t].n <= Len(scn'.script[t]) + 1 /\ run'[t].as \in Seq(Aliases)
    BY <1>2 DEF Holds, InvocationType, Lists
  <2> QED BY <2>1, <2>2, <2>3 DEF ClientInv, TypeOK, HealthType
<1> QED BY <1>1, <1>4, <1>5, <1>6, <1>7, <1>8 DEF ClientInv

\* The operation of a shell and where it stands.
LEMMA Stands1 ==
  ASSUME ClientInv, ConfigInv, NEW s \in Shells, Running(s)
  PROVE  /\ Op(s) \in Ops /\ Op(s) \in Scripted /\ Stage(Op(s), run[s])
         /\ run[s] \in InvocationType
         /\ \A r \in InvocationType : r.n = run[s].n /\ Stage(Op(s), r) => Holds(s, r)
         /\ Len(scn.script[s]) \in Nat /\ run[s].n <= Len(scn.script[s])
<1>1. Holds(s, run[s])
  BY DEF ClientInv
<1>2. scn.script[s] \in Seq(Ops)
  BY ClientsAssumption DEF ScenarioType, ConfigInv
<1>3. run[s].n <= Len(scn.script[s])
  BY DEF Running
<1>4. run[s] \in InvocationType /\ Stage(Op(s), run[s])
  BY <1>1, <1>3 DEF Holds, Op
<1>5. run[s].n \in Nat
  BY <1>4 DEF InvocationType, Numbers
<1>6. \A r \in InvocationType : r.n = run[s].n /\ Stage(Op(s), r) => Holds(s, r)
  BY <1>2, <1>3, <1>5 DEF Holds, Op
<1> QED BY <1>2, <1>3, <1>4, <1>6, Current

LEMMA NextHolds ==
  ASSUME ClientInv, ConfigInv, NEW s \in Shells, Running(s), NEW out \in Outcomes
  PROVE  Holds(s, Ended(s, out))
<1>1. run[s].n \in Nat \ {0} /\ Len(scn.script[s]) \in Nat /\ run[s].n <= Len(scn.script[s])
  BY Stands1 DEF InvocationType, Numbers
<1>2. Nothing \in Replies /\ <<>> \in Lists
  BY ClientsAssumption DEF Nothing, Replies, Lists
<1>3. Idle \in InvocationType /\ Idle.pc = "load" /\ Idle.cfg = None /\ Idle.res = Nothing
  BY <1>2 DEF Idle, Nothing, InvocationType, Steps, Numbers, Configs, Caches, Outcomes
<1> DEFINE m == run[s].n + 1
           r == [Idle EXCEPT !.n = m, !.out = out]
<1>4. m \in Numbers
  BY <1>1 DEF Numbers
<1> HIDE DEF m
<1>5. r \in InvocationType /\ r.n = m /\ r.pc = "load" /\ r.cfg = None /\ r.res = Nothing
  BY <1>3, <1>4 DEF InvocationType
<1>6. \A o : Stage(o, r)
  BY <1>5 DEF Stage
<1>7. m <= Len(scn.script[s]) + 1
  BY <1>1 DEF m
<1>8. Ended(s, out) = r
  BY DEF Ended, m
<1> HIDE DEF r
<1> QED BY <1>5, <1>6, <1>7, <1>8 DEF Holds

\* An invocation that ends.
LEMMA EndsHere ==
  ASSUME ClientInv, ConfigInv, NEW s \in Shells, Running(s), NEW out \in Outcomes, End(s, out),
         scn' = scn, ver' = ver, known' = known,
         cfg' = cfg \/ cfg' \in Broken \/ Proper(cfg'), health' = health \/ health' \in Broken
  PROVE  ClientInv'
BY NextHolds, ShellGoesOn DEF End, To

LEMMA EditHolds ==
  ASSUME ClientInv, ConfigInv, NEW s \in Shells, Loads(s) \/ Truncates(s) \/ Writes(s)
  PROVE  ClientInv'
<1>1. /\ Running(s) /\ scn' = scn /\ ver' = ver /\ known' = known /\ health' = health
  BY DEF Loads, Truncates, Writes, At
<1>2. /\ Op(s) \in Ops /\ Op(s) \in Scripted /\ Stage(Op(s), run[s]) /\ run[s] \in InvocationType
      /\ \A r \in InvocationType : r.n = run[s].n /\ Stage(Op(s), r) => Holds(s, r)
  BY <1>1, Stands1
<1>0. "ok" \in Outcomes /\ "error" \in Outcomes
  BY DEF Outcomes
<1>3. CASE Loads(s)
  <2>1. cfg' = cfg /\ run[s].pc = "load" /\ run[s].res = Nothing
    BY <1>2, <1>3 DEF Loads, At, Stage
  <2>2. CASE End(s, "error")
    BY <1>0, <1>1, <2>1, <2>2, EndsHere
  <2>3. CASE ~End(s, "error")
    <3> DEFINE c == Edited(Op(s), Edits(Op(s))[run[s].k], cfg)
               r == [run[s] EXCEPT !.pc = "truncate", !.cfg = c]
    <3>1. cfg \notin Broken /\ ~Refuses(Op(s), cfg) /\ run' = [run EXCEPT ![s] = r] /\ Op(s).op # "list"
      BY <1>3, <2>3 DEF Loads, Loaded, To
    <3>2. Proper(c)
      <4>1. Proper(cfg) /\ scn \in Scenarios /\ run[s].k \in 1 .. Len(Edits(Op(s)))
        BY <1>1, <3>1, Current DEF ClientInv, ConfigInv
      <4> QED BY <1>2, <1>3, <3>1, <4>1, EditedProper DEF Loads
    <3> HIDE DEF c
    <3>3. c \in Configs /\ "truncate" \in Steps
      BY <3>2 DEF Proper, Configs, Steps
    <3>4. r \in InvocationType
      BY <1>2, <3>3 DEF InvocationType
    <3>5. r.n = run[s].n /\ r.pc = "truncate" /\ r.cfg = c /\ r.res = Nothing
      BY <1>2, <2>1 DEF InvocationType
    <3> HIDE DEF r
    <3>6. Holds(s, r)
      BY <1>2, <3>1, <3>2, <3>4, <3>5 DEF Stage
    <3> QED BY <1>1, <2>1, <3>1, <3>6, ShellGoesOn
  <2> QED BY <2>2, <2>3
<1>4. CASE Truncates(s)
  <2> DEFINE r == [run[s] EXCEPT !.pc = "write"]
  <2>1. cfg' \in Broken /\ run' = [run EXCEPT ![s] = r] /\ run[s].pc = "truncate"
    BY <1>4 DEF Truncates, To, At, Broken
  <2>2. "write" \in Steps
    BY DEF Steps
  <2>3. r \in InvocationType
    BY <1>2, <2>2 DEF InvocationType
  <2>4. r.n = run[s].n /\ r.pc = "write" /\ r.cfg = run[s].cfg /\ r.res = run[s].res
    BY <1>2 DEF InvocationType
  <2> HIDE DEF r
  <2>5. Holds(s, r)
    BY <1>2, <2>1, <2>3, <2>4 DEF Stage
  <2> QED BY <1>1, <2>1, <2>5, ShellGoesOn
<1>5. CASE Writes(s)
  <2>1. (cfg' = run[s].cfg \/ cfg' \in Broken) /\ Proper(run[s].cfg) /\ run[s].res = Nothing
    BY <1>2, <1>5 DEF Writes, At, Stage, Written, Broken
  <2>2. cfg' \in Broken \/ Proper(cfg')
    BY <2>1
  <2>3. CASE End(s, "ok")
    BY <1>0, <1>1, <2>2, <2>3, EndsHere
  <2>4. CASE ~End(s, "ok")
    <3> DEFINE m == run[s].k + 1
               r == [run[s] EXCEPT !.pc = "load", !.cfg = None, !.k = m]
    <3>1. run' = [run EXCEPT ![s] = r]
      BY <1>5, <2>4 DEF Writes, To
    <3>2. m \in Nat /\ "load" \in Steps /\ None \in Configs
      BY <1>2 DEF InvocationType, Steps, Configs
    <3> HIDE DEF m
    <3>3. r \in InvocationType
      BY <1>2, <3>2 DEF InvocationType
    <3>4. r.n = run[s].n /\ r.pc = "load" /\ r.cfg = None /\ r.res = run[s].res
      BY <1>2 DEF InvocationType
    <3> HIDE DEF r
    <3>5. Holds(s, r)
      BY <1>2, <2>1, <3>3, <3>4 DEF Stage
    <3> QED BY <1>1, <2>2, <3>1, <3>5, ShellGoesOn
  <2> QED BY <2>3, <2>4
<1> QED BY <1>3, <1>4, <1>5

LEMMA FindHolds ==
  ASSUME ClientInv, ConfigInv, NEW s \in Shells, Finds(s) \/ Finds2(s) \/ Returns(s)
  PROVE  ClientInv'
<1>1. /\ Running(s) /\ UNCHANGED <<scn, cfg, health, ver, known>>
  BY DEF Finds, Finds2, Returns, At
<1>2. /\ Op(s) \in Ops /\ Stage(Op(s), run[s]) /\ run[s] \in InvocationType
      /\ \A r \in InvocationType : r.n = run[s].n /\ Stage(Op(s), r) => Holds(s, r)
  BY <1>1, Stands1
<1>3. CASE \E out \in Outcomes : End(s, out)
  BY <1>1, <1>3, EndsHere
<1>4. CASE Returns(s)
  <2>1. run[s].out \in Outcomes
    BY <1>2 DEF InvocationType
  <2> QED BY <1>3, <1>4, <2>1 DEF Returns
<1>5. CASE Finds(s) /\ ~ \E out \in Outcomes : End(s, out)
  <2>0. {"error", "panic"} \subseteq Outcomes
    BY DEF Outcomes
  <2>1. cfg \notin Broken /\ Proper(cfg) /\ Op(s).op \in {"exec", "group", "mcp_exec", "mcp_health"}
    BY <1>5, <2>0 DEF Finds, ClientInv
  <2> DEFINE l == Members(s, cfg)
             r1 == [run[s] EXCEPT !.pc = "ask", !.as = l, !.cfg = cfg]
             r2 == [run[s] EXCEPT !.pc = "resolve", !.as = l]
  <2>2. l # None
    BY <1>5, <2>0, <2>1 DEF Finds
  <2>3. l \in Lists
    <3>1. CASE Op(s).op = "group"
      <4>1. Op(s).g \in Groups
        BY <1>2, <3>1 DEF Ops
      <4> QED BY <2>1, <2>2, <3>1, <4>1 DEF Members, Lists, Proper, ConfigType
    <3>2. CASE Op(s).op # "group"
      <4>1. Op(s).a \in Aliases
        BY <1>2, <2>1, <3>2 DEF Ops
      <4> QED BY <3>2, <4>1 DEF Members, Lists
    <3> QED BY <3>1, <3>2
  <2>4. \/ run' = [run EXCEPT ![s] = r1] /\ Resolves(cfg, l)
        \/ run' = [run EXCEPT ![s] = r2]
    BY <1>5, <2>0, <2>1, <2>2 DEF Finds, To, McpTools
  <2>5. cfg \in Configs /\ "ask" \in Steps /\ "resolve" \in Steps
    BY <2>1 DEF Configs, Steps, Proper
  <2> HIDE DEF l
  <2>6. r1 \in InvocationType /\ r2 \in InvocationType
    BY <1>2, <2>3, <2>5 DEF InvocationType
  <2>7. /\ r1.n = run[s].n /\ r1.pc = "ask" /\ r1.cfg = cfg /\ r1.as = l
        /\ r2.n = run[s].n /\ r2.pc = "resolve"
    BY <1>2 DEF InvocationType
  <2> HIDE DEF r1, r2
  <2>8. CASE run' = [run EXCEPT ![s] = r1] /\ Resolves(cfg, l)
    <3>1. Stage(Op(s), r1)
      BY <2>1, <2>7, <2>8 DEF Stage, Resolved
    <3>2. Holds(s, r1)
      BY <1>2, <2>6, <2>7, <3>1
    <3> QED BY <1>1, <2>8, <3>2, ShellGoesOn
  <2>9. CASE run' = [run EXCEPT ![s] = r2]
    <3>1. Stage(Op(s), r2)
      BY <2>1, <2>7 DEF Stage
    <3>2. Holds(s, r2)
      BY <1>2, <2>6, <2>7, <3>1
    <3> QED BY <1>1, <2>9, <3>2, ShellGoesOn
  <2> QED BY <2>4, <2>8, <2>9
<1>6. CASE Finds2(s) /\ ~ \E out \in Outcomes : End(s, out)
  <2> DEFINE r == [run[s] EXCEPT !.pc = "ask", !.cfg = cfg]
  <2>0. "error" \in Outcomes
    BY DEF Outcomes
  <2>1. cfg \notin Broken /\ Proper(cfg) /\ Op(s).op # "list" /\ Resolves(cfg, run[s].as) /\ run' = [run EXCEPT ![s] = r]
    BY <1>6, <2>0 DEF Finds2, ClientInv, To
  <2>2. cfg \in Configs /\ "ask" \in Steps
    BY <2>1 DEF Configs, Steps, Proper
  <2>3. r \in InvocationType
    BY <1>2, <2>2 DEF InvocationType
  <2>4. r.n = run[s].n /\ r.pc = "ask" /\ r.cfg = cfg /\ r.as = run[s].as
    BY <1>2 DEF InvocationType
  <2> HIDE DEF r
  <2>5. Stage(Op(s), r)
    BY <2>1, <2>4 DEF Stage, Resolved
  <2>6. Holds(s, r)
    BY <1>2, <2>3, <2>4, <2>5
  <2> QED BY <1>1, <2>1, <2>6, ShellGoesOn
<1> QED BY <1>3, <1>4, <1>5, <1>6

\* The daemons' answers.
LEMMA AnswersAre ==
  ASSUME ver \in [Names -> 1 .. MaxVer], NEW asked, NEW who
  PROVE  Answers(asked, who) \in Replies
BY ClientsAssumption DEF Answers, Replies

LEMMA AskHolds ==
  ASSUME ClientInv, ConfigInv, NEW s \in Shells, Asks(s)
  PROVE  ClientInv'
<1>1. /\ Running(s) /\ UNCHANGED <<scn, cfg, health, ver, known>>
  BY DEF Asks, At
<1>2. /\ Op(s) \in Ops /\ Stage(Op(s), run[s]) /\ run[s] \in InvocationType
      /\ \A r \in InvocationType : r.n = run[s].n /\ Stage(Op(s), r) => Holds(s, r)
  BY <1>1, Stands1
<1>3. "error" \in Outcomes
  BY DEF Outcomes
<1>4. CASE End(s, "error")
  BY <1>1, <1>3, <1>4, EndsHere
<1>5. CASE ~End(s, "error")
  <2>1. PICK who \in SUBSET Relays(run[s].cfg, run[s].as) :
          LET res == Answers(Relays(run[s].cfg, run[s].as), who)
          IN  To(s, [run[s] EXCEPT !.pc = IF Op(s).op \in McpTools THEN "end" ELSE "note",
                                   !.res = res, !.out = Outcome(s, res)])
    BY <1>5, Zenon DEF Asks
  <2> DEFINE x == Answers(Relays(run[s].cfg, run[s].as), who)
             p == IF Op(s).op \in McpTools THEN "end" ELSE "note"
             y == Outcome(s, x)
             r == [run[s] EXCEPT !.pc = p, !.res = x, !.out = y]
  <2>2. x \in Replies
    BY AnswersAre DEF ClientInv, TypeOK
  <2>3. p \in Steps /\ y \in Outcomes /\ p \in {"end", "note"}
    BY DEF Steps, Outcomes, Outcome
  <2>4. run' = [run EXCEPT ![s] = r]
    BY <2>1 DEF To
  <2>5. Op(s).op # "list" /\ Resolved(run[s])
    BY <1>2 DEF Asks, At, Stage
  <2> HIDE DEF x, p, y
  <2>6. r \in InvocationType
    BY <1>2, <2>2, <2>3 DEF InvocationType
  <2>7. r.n = run[s].n /\ r.pc = p /\ r.cfg = run[s].cfg /\ r.as = run[s].as
    BY <1>2 DEF InvocationType
  <2> HIDE DEF r
  <2>8. Stage(Op(s), r)
    BY <2>3, <2>5, <2>7 DEF Stage, Resolved
  <2>9. Holds(s, r)
    BY <1>2, <2>6, <2>7, <2>8
  <2> QED BY <1>1, <2>4, <2>9, ShellGoesOn
<1> QED BY <1>4, <1>5

\* What is left of a list of targets.
LEMMA TailIs ==
  ASSUME NEW q \in Seq(Aliases), q # <<>>
  PROVE  /\ Tail(q) \in Seq(Aliases) /\ ToSet(Tail(q)) \subseteq ToSet(q)
         /\ Head(q) \in Aliases /\ Head(q) \in ToSet(q)
<1>1. Tail(q) \in Seq(Aliases) /\ Len(q) \in Nat \ {0} /\ Len(Tail(q)) = Len(q) - 1
  OBVIOUS
<1>2. \A i \in 1 .. Len(q) - 1 : Tail(q)[i] = q[i + 1] /\ i + 1 \in DOMAIN q
  BY <1>1
<1>3. \A i \in DOMAIN Tail(q) : i \in 1 .. Len(q) - 1
  BY <1>1
<1>4. Head(q) = q[1] /\ 1 \in DOMAIN q /\ q[1] \in Aliases
  BY <1>1
<1> QED BY <1>1, <1>2, <1>3, <1>4 DEF ToSet

\* A cache with another version of one alias.
WithVersion(h, a, v) == [h EXCEPT ![a].ver = v]
LEMMA Noted ==
  ASSUME NEW h, Cache(h), NEW a \in Aliases, NEW v \in 0 .. MaxVer
  PROVE  /\ Cache(WithVersion(h, a, v))
         /\ WithVersion(h, a, v)[a].ver = v
         /\ \A b \in Aliases : b # a => WithVersion(h, a, v)[b] = h[b]
<1> DEFINE g == WithVersion(h, a, v)
<1>1. h \in HealthType
  BY DEF Cache
<1> DEFINE e == [h[a] EXCEPT !.ver = v]
<1>2. e \in [st : {"none", "up", "down"}, host : Names \cup {None}, ver : 0 .. MaxVer]
      /\ e.st = h[a].st /\ e.host = h[a].host /\ e.ver = v
  BY <1>1 DEF HealthType
<1>3. g = [h EXCEPT ![a] = e]
  BY DEF WithVersion
<1> HIDE DEF e, g
<1>4. g[a] = e /\ \A b \in Aliases : b # a => g[b] = h[b]
  BY <1>1, <1>3 DEF HealthType
<1>5. g \in HealthType
  BY <1>1, <1>2, <1>3 DEF HealthType
<1>6. \A b \in Aliases : g[b].st = "up" => g[b].host \in Owns(b)
  <2> SUFFICES ASSUME NEW b \in Aliases, g[b].st = "up" PROVE g[b].host \in Owns(b)
    OBVIOUS
  <2>1. CASE b = a
    BY <1>2, <1>4, <2>1 DEF Cache, Answered
  <2>2. CASE b # a
    BY <1>4, <2>2 DEF Cache, Answered
  <2> QED BY <2>1, <2>2
<1> QED BY <1>2, <1>4, <1>5, <1>6 DEF Cache, Answered, g

LEMMA NoteHolds ==
  ASSUME ClientInv, ConfigInv, NEW s \in Shells, Notes(s)
  PROVE  ClientInv'
<1>1. /\ Running(s) /\ UNCHANGED <<scn, cfg, health, ver, known>>
  BY DEF Notes, At
<1>2. /\ Op(s) \in Ops /\ Stage(Op(s), run[s]) /\ run[s] \in InvocationType
      /\ \A r \in InvocationType : r.n = run[s].n /\ Stage(Op(s), r) => Holds(s, r)
  BY <1>1, Stands1
<1>3. Op(s).op # "list" /\ Resolved(run[s]) /\ run[s].pc = "note"
  BY <1>2 DEF Notes, At, Stage
<1>4. CASE run[s].as = <<>>
  <2>1. run[s].out \in Outcomes
    BY <1>2 DEF InvocationType
  <2>2. End(s, run[s].out)
    BY <1>4 DEF Notes
  <2> QED BY <1>1, <2>1, <2>2, EndsHere
<1>5. CASE run[s].as # <<>>
  <2> DEFINE a == Head(run[s].as)
             c == run[s].cfg
             v == Reported(run[s].res[c.tgt[a]])
  <2>1. run[s].as \in Seq(Aliases) /\ run[s].res \in Replies
    BY <1>2 DEF InvocationType, Lists
  <2>2. a \in Aliases /\ a \in ToSet(run[s].as) /\ Tail(run[s].as) \in Lists /\ ToSet(Tail(run[s].as)) \subseteq ToSet(run[s].as)
    BY <1>5, <2>1, TailIs DEF Lists
  <2>3. c \in ConfigType /\ c.tgt[a] \in Names
    BY <1>3, <2>2 DEF Resolved, Proper, Resolves, ConfigType
  <2>4. CASE To(s, NextAlias(s))
    <3> DEFINE l == Tail(run[s].as)
               r == [run[s] EXCEPT !.as = l]
    <3>1. run' = [run EXCEPT ![s] = r]
      BY <2>4 DEF To, NextAlias
    <3>2. l \in Lists
      BY <2>2
    <3>3. Resolves(c, l)
      BY <1>3, <2>2 DEF Resolved, Resolves
    <3> HIDE DEF l
    <3>4. r \in InvocationType /\ r.n = run[s].n /\ r.pc = "note" /\ r.cfg = c /\ r.as = l
      BY <1>2, <1>3, <3>2 DEF InvocationType
    <3> HIDE DEF r
    <3>5. Stage(Op(s), r)
      BY <1>3, <3>3, <3>4 DEF Stage, Resolved
    <3>6. Holds(s, r)
      BY <1>2, <3>4, <3>5
    <3> QED BY <1>1, <3>1, <3>6, ShellGoesOn
  <2>5. CASE ~To(s, NextAlias(s))
    <3> DEFINE h == [health EXCEPT ![a].ver = v]
               r == [run[s] EXCEPT !.pc = "htruncate", !.health = h, !.old = FALSE, !.torn = FALSE]
    <3>1. v # 0 /\ health \notin Broken /\ run' = [run EXCEPT ![s] = r]
      BY <1>5, <2>5 DEF Notes, To
    <3>2. Cache(health) /\ \A b \in Aliases : known[b] # 0 => health[b].ver = known[b]
      BY <3>1 DEF ClientInv, VersionKept
    <3>3. v \in 0 .. MaxVer /\ v = Reported(run[s].res[c.tgt[a]]) /\ run[s].res[c.tgt[a]] # 0
      <4>1. run[s].res[c.tgt[a]] \in 0 .. MaxVer
        BY <2>1, <2>3 DEF Replies
      <4> HIDE DEF c, a
      <4>2. \A w \in 0 .. MaxVer : Reported(w) \in 0 .. MaxVer /\ (Reported(w) # 0 => w # 0)
        BY ClientsAssumption DEF Reported, SelfVer
      <4> QED BY <3>1, <4>1, <4>2
    <3>6. Cache(h) /\ h[a].ver = v /\ \A b \in Aliases : b # a => h[b] = health[b]
      <4>1. h = WithVersion(health, a, v)
        BY DEF WithVersion
      <4> HIDE DEF h, v, a
      <4>2. a \in Aliases
        BY <2>2
      <4>3. Cache(health) /\ v \in 0 .. MaxVer
        BY <3>2, <3>3
      <4>4. Cache(WithVersion(health, a, v)) /\ WithVersion(health, a, v)[a].ver = v
            /\ \A b \in Aliases : b # a => WithVersion(health, a, v)[b] = health[b]
        BY <4>2, <4>3, Noted
      <4> QED BY <4>1, <4>4
    <3> HIDE DEF h, v
    <3>8. h \in Caches /\ "htruncate" \in Steps
      BY <3>6 DEF Caches, Steps, Cache
    <3>9. /\ r \in InvocationType /\ r.n = run[s].n /\ r.pc = "htruncate" /\ r.health = h
          /\ r.cfg = c /\ r.as = run[s].as /\ r.res = run[s].res
      BY <1>2, <3>8 DEF InvocationType
    <3> HIDE DEF r
    <3>10. \A b \in Aliases : LearntOf(Op(s), r, b) = IF b = a THEN v ELSE 0
      <4> TAKE b \in Aliases
      <4>1. c # None
        BY <2>3, ClientsAssumption
      <4>2. ToSet(<<Head(r.as)>>) = {a} /\ Head(r.as) = a
        BY <3>9 DEF ToSet
      <4>3. ByRelay(<<a>>, c, c.tgt[a]) = a
        BY <2>2, OneByRelay
      <4>4. CASE b # a
        BY <1>3, <3>9, <4>1, <4>2, <4>4 DEF LearntOf
      <4>5. CASE b = a
        BY <1>3, <3>1, <3>3, <3>9, <4>1, <4>2, <4>3, <4>5, Zenon DEF LearntOf
      <4> QED BY <4>4, <4>5
    <3>11. Saving(Op(s), r)
      <4> SUFFICES ASSUME NEW b \in Aliases
                   PROVE  IF LearntOf(Op(s), r, b) # 0 THEN r.health[b].ver = LearntOf(Op(s), r, b)
                          ELSE known[b] # 0 => r.health[b].ver = known[b]
        BY DEF Saving
      <4>1. CASE b = a
        BY <3>1, <3>6, <3>9, <3>10, <4>1
      <4>2. CASE b # a
        <5>1. LearntOf(Op(s), r, b) = 0 /\ r.health[b] = health[b]
          BY <3>6, <3>9, <3>10, <4>2
        <5> QED BY <3>2, <5>1
      <4> QED BY <4>1, <4>2
    <3>12. Stage(Op(s), r)
      BY <1>3, <1>5, <3>6, <3>9, <3>11 DEF Stage, Resolved
    <3>13. Holds(s, r)
      BY <1>2, <3>9, <3>12
    <3> QED BY <1>1, <3>1, <3>13, ShellGoesOn
  <2> QED BY <2>4, <2>5
<1> QED BY <1>4, <1>5

\* The state a cache holds for an alias.
LEMMA EmptyCache == Cache(NoHealth)
BY ClientsAssumption DEF Cache, Answered, HealthType, NoHealth, Unknown

LEMMA ListLoadHolds ==
  ASSUME ClientInv, ConfigInv, NEW s \in Shells, ListLoads(s)
  PROVE  ClientInv'
<1>1. /\ Running(s) /\ UNCHANGED <<scn, cfg, health, ver, known>>
  BY DEF ListLoads, At
<1>2. /\ Stage(Op(s), run[s]) /\ run[s] \in InvocationType
      /\ \A r \in InvocationType : r.n = run[s].n /\ Stage(Op(s), r) => Holds(s, r)
  BY <1>1, Stands1
<1>3. Op(s).op = "list" /\ run[s].pc = "load" /\ run[s].cfg = None /\ run[s].res = Nothing
  BY <1>2 DEF ListLoads, At, Stage
<1>4. CASE \E out \in Outcomes : End(s, out)
  BY <1>1, <1>4, EndsHere
<1>5. CASE ~ \E out \in Outcomes : End(s, out)
  <2> DEFINE h == IF health \in Broken THEN NoHealth ELSE health
             keep == {i \in DOMAIN AliasOrder : /\ cfg.tgt[AliasOrder[i]] # None
                                                /\ Op(s).refresh \/ h[AliasOrder[i]].st = "none"}
             l == Picked(AliasOrder, keep)
             t == health \in Broken
             r == [run[s] EXCEPT !.pc = "resolve", !.health = h, !.as = l, !.old = FALSE, !.torn = t]
  <2>1. {"error", "ok"} \subseteq Outcomes
    BY DEF Outcomes
  <2>2. run' = [run EXCEPT ![s] = r]
    BY <1>5, <2>1, Zenon DEF ListLoads, To
  <2>3. keep \in SUBSET DOMAIN AliasOrder
    OBVIOUS
  <2>4. Cache(h) /\ (health \notin Broken => \A a \in Aliases : known[a] # 0 => h[a].ver = known[a])
    BY EmptyCache DEF ClientInv, VersionKept
  <2>5. (t <=> health \in Broken) /\ t \in BOOLEAN
    OBVIOUS
  <2> HIDE DEF h, keep, t
  <2>6. l \in Lists
    BY <2>3, OrderIs, PickedOnes DEF Lists
  <2>7. h \in Caches /\ "resolve" \in Steps
    BY <2>4 DEF Caches, Cache, Steps
  <2> HIDE DEF l
  <2>8. /\ r \in InvocationType /\ r.n = run[s].n /\ r.pc = "resolve" /\ r.health = h
        /\ r.cfg = run[s].cfg /\ r.res = run[s].res /\ r.torn = t
    BY <1>2, <2>5, <2>6, <2>7 DEF InvocationType
  <2> HIDE DEF r
  <2>9. AsSaved(r)
    BY <2>4, <2>5, <2>8 DEF AsSaved
  <2>10. Stage(Op(s), r)
    BY <1>3, <2>4, <2>8, <2>9 DEF Stage
  <2>11. Holds(s, r)
    BY <1>2, <2>8, <2>10
  <2> QED BY <1>1, <2>2, <2>11, ShellGoesOn
<1> QED BY <1>4, <1>5

\* A copy of health.json that list-targets is about to save.
Saves(q, h) == [q EXCEPT !.pc = "htruncate", !.health = h]
LEMMA MergedHolds ==
  ASSUME ClientInv, ConfigInv, NEW s \in Shells, Running(s), Op(s).op = "list",
         NEW h, Cache(h), run' = [run EXCEPT ![s] = Saves(run[s], h)],
         UNCHANGED <<scn, cfg, health, ver, known>>,
         run[s].old \/ run[s].torn \/
           \A a \in Aliases : LET v == LearntOf(Op(s), Saves(run[s], h), a)
                              IN  IF v # 0 THEN h[a].ver = v ELSE known[a] # 0 => h[a].ver = known[a],
         \A a \in ToSet(run[s].as) : h[a].st # "none" \/ Shares(a)
  PROVE  ClientInv'
<1> DEFINE r == Saves(run[s], h)
<1>1. run[s] \in InvocationType /\ \A q \in InvocationType : q.n = run[s].n /\ Stage(Op(s), q) => Holds(s, q)
  BY Stands1
<1>2. h \in Caches /\ "htruncate" \in Steps
  BY DEF Caches, Cache, Steps
<1>3. /\ r \in InvocationType /\ r.n = run[s].n /\ r.pc = "htruncate" /\ r.health = h
      /\ r.as = run[s].as /\ r.old = run[s].old /\ r.torn = run[s].torn
  BY <1>1, <1>2 DEF InvocationType, Saves
<1>4. run' = [run EXCEPT ![s] = r]
  OBVIOUS
<1>5. run[s].old \/ run[s].torn \/
        \A a \in Aliases : IF LearntOf(Op(s), r, a) # 0 THEN h[a].ver = LearntOf(Op(s), r, a)
                           ELSE known[a] # 0 => h[a].ver = known[a]
  OBVIOUS
<1> HIDE DEF r
<1>6. Saving(Op(s), r) /\ Listed(r)
  BY <1>3, <1>5 DEF Saving, Listed
<1>7. Stage(Op(s), r)
  BY <1>3, <1>6 DEF Stage
<1>8. Holds(s, r)
  BY <1>1, <1>3, <1>7
<1> QED BY <1>4, <1>8, ShellGoesOn

\* Nobody answers: all are down, and their versions stay.
LEMMA DownHolds ==
  ASSUME ClientInv, ConfigInv, NEW s \in Shells, Running(s), Op(s).op = "list", AllDown(s),
         run[s].pc \in {"resolve", "ask"}, UNCHANGED <<scn, cfg, health, ver, known>>
  PROVE  ClientInv'
<1>1. run[s] \in InvocationType /\ Stage(Op(s), run[s])
  BY Stands1
<1>2. /\ Cache(run[s].health) /\ AsSaved(run[s]) /\ run[s].res = Nothing
      /\ run[s].cfg = None \/ Resolved(run[s])
  BY <1>1 DEF Stage
<1> DEFINE fresh == [a \in ToSet(run[s].as) |-> Down]
           h == Merged(s, fresh)
           r == Saves(run[s], h)
<1>3. run' = [run EXCEPT ![s] = r]
  BY DEF AllDown, To, Saves
<1>4. ASSUME NEW a \in Aliases
      PROVE  /\ h[a].ver = run[s].health[a].ver
             /\ h[a] \in [st : {"none", "up", "down"}, host : Names \cup {None}, ver : 0 .. MaxVer]
             /\ a \in ToSet(run[s].as) => h[a].st = "down"
             /\ a \notin ToSet(run[s].as) => h[a] = run[s].health[a]
  <2>0. run[s].health[a] \in [st : {"none", "up", "down"}, host : Names \cup {None}, ver : 0 .. MaxVer]
    BY <1>2 DEF Cache, HealthType
  <2>1. CASE a \in ToSet(run[s].as)
    <3>1. h[a] = [Down EXCEPT !.ver = run[s].health[a].ver]
      BY <2>1 DEF Merged, Kept, Down
    <3> HIDE DEF h
    <3> QED BY <2>0, <2>1, <3>1 DEF Down
  <2>2. CASE a \notin ToSet(run[s].as)
    <3>1. h[a] = run[s].health[a]
      BY <2>2 DEF Merged
    <3> HIDE DEF h
    <3> QED BY <2>0, <2>2, <3>1
  <2> QED BY <2>1, <2>2
<1>5. h = [a \in Aliases |-> h[a]]
  BY DEF Merged
<1> HIDE DEF h
<1>6. Cache(h)
  <2>1. h \in HealthType
    BY <1>4, <1>5 DEF HealthType
  <2> QED BY <1>2, <1>4, <2>1 DEF Cache, Answered
<1>7. r.cfg = run[s].cfg /\ r.res = Nothing /\ r.as = run[s].as
  BY <1>1, <1>2 DEF InvocationType, Saves
<1>8. \A a \in Aliases : LearntOf(Op(s), r, a) = 0
  <2> TAKE a \in Aliases
  <2> HIDE DEF r
  <2>1. CASE run[s].cfg = None
    BY <1>7, <2>1 DEF LearntOf
  <2>2. CASE run[s].cfg # None /\ a \notin ToSet(run[s].as)
    BY <1>7, <2>2 DEF LearntOf
  <2>3. CASE run[s].cfg # None /\ a \in ToSet(run[s].as)
    <3>1. run[s].cfg.tgt[a] \in Names
      BY <1>2, <2>3 DEF Resolved, Proper, Resolves, ConfigType
    <3>2. r.res[r.cfg.tgt[a]] = 0
      BY <1>7, <3>1 DEF Nothing
    <3> QED BY <1>7, <2>3, <3>2 DEF LearntOf
  <2> QED BY <2>1, <2>2, <2>3
<1>9. run[s].old \/ run[s].torn \/
        \A a \in Aliases : LET v == LearntOf(Op(s), r, a)
                           IN  IF v # 0 THEN h[a].ver = v ELSE known[a] # 0 => h[a].ver = known[a]
  BY <1>2, <1>4, <1>8 DEF AsSaved
<1>10. \A a \in ToSet(run[s].as) : h[a].st # "none" \/ Shares(a)
  <2>1. ToSet(run[s].as) \subseteq Aliases
    BY <1>1 DEF InvocationType, Lists, ToSet
  <2> QED BY <1>4, <2>1
<1> QED BY <1>3, <1>6, <1>9, <1>10, MergedHolds

LEMMA ResolveHolds ==
  ASSUME ClientInv, ConfigInv, NEW s \in Shells, ListResolves(s) \/ ListAsks(s) \/ HTruncates(s)
  PROVE  ClientInv'
<1>1. /\ Running(s) /\ UNCHANGED <<scn, cfg, ver, known>>
      /\ health' = health \/ health' \in Broken
  BY DEF ListResolves, ListAsks, HTruncates, At, Broken
<1>2. /\ Stage(Op(s), run[s]) /\ run[s] \in InvocationType
      /\ \A r \in InvocationType : r.n = run[s].n /\ Stage(Op(s), r) => Holds(s, r)
  BY <1>1, Stands1
<1>3. CASE AllDown(s) /\ (ListResolves(s) \/ ListAsks(s))
  BY <1>1, <1>3, DownHolds DEF ListResolves, ListAsks, At
<1>4. CASE ListResolves(s) /\ ~AllDown(s)
  <2> DEFINE r == [run[s] EXCEPT !.pc = "ask", !.cfg = cfg]
  <2>1. /\ cfg \notin Broken /\ Proper(cfg) /\ Resolves(cfg, run[s].as) /\ run' = [run EXCEPT ![s] = r]
        /\ Op(s).op = "list" /\ run[s].pc = "resolve"
    BY <1>4 DEF ListResolves, ClientInv, To, At
  <2>2. cfg \in Configs /\ "ask" \in Steps
    BY <2>1 DEF Configs, Steps, Proper
  <2>3. /\ r \in InvocationType /\ r.n = run[s].n /\ r.pc = "ask" /\ r.cfg = cfg /\ r.as = run[s].as
        /\ r.res = run[s].res /\ r.health = run[s].health /\ r.old = run[s].old /\ r.torn = run[s].torn
    BY <1>2, <2>2 DEF InvocationType
  <2> HIDE DEF r
  <2>4. run[s].res = Nothing /\ Cache(run[s].health) /\ AsSaved(run[s])
    BY <1>2, <2>1 DEF Stage
  <2>5. AsSaved(r) /\ Resolved(r)
    BY <2>1, <2>3, <2>4 DEF AsSaved, Resolved
  <2>6. Stage(Op(s), r)
    BY <2>1, <2>3, <2>4, <2>5 DEF Stage
  <2>7. Holds(s, r)
    BY <1>2, <2>3, <2>6
  <2> QED BY <1>1, <2>1, <2>7, ShellGoesOn
<1>5. CASE ListAsks(s) /\ ~AllDown(s)
  <2>1. PICK x : /\ run' = [run EXCEPT ![s] = [run[s] EXCEPT !.pc = "probe", !.res = x]]
                 /\ \E who : x = Answers(Relays(run[s].cfg, run[s].as), who)
    BY <1>5 DEF ListAsks, To
  <2> DEFINE r == [run[s] EXCEPT !.pc = "probe", !.res = x]
  <2>2. x \in Replies /\ "probe" \in Steps
    BY <2>1, AnswersAre DEF ClientInv, TypeOK, Steps
  <2>3. /\ r \in InvocationType /\ r.n = run[s].n /\ r.pc = "probe" /\ r.cfg = run[s].cfg /\ r.as = run[s].as
        /\ r.health = run[s].health /\ r.old = run[s].old /\ r.torn = run[s].torn
    BY <1>2, <2>2 DEF InvocationType
  <2>4. run' = [run EXCEPT ![s] = r]
    BY <2>1
  <2> HIDE DEF r
  <2>5. Resolved(run[s]) /\ Cache(run[s].health) /\ AsSaved(run[s]) /\ Op(s).op = "list"
    BY <1>2, <1>5 DEF ListAsks, At, Stage
  <2>6. AsSaved(r) /\ Resolved(r)
    BY <2>3, <2>5 DEF AsSaved, Resolved
  <2>7. Stage(Op(s), r)
    BY <2>3, <2>5, <2>6 DEF Stage
  <2>8. Holds(s, r)
    BY <1>2, <2>3, <2>7
  <2> QED BY <1>1, <2>4, <2>8, ShellGoesOn
<1>6. CASE HTruncates(s)
  <2> DEFINE r == [run[s] EXCEPT !.pc = "hwrite"]
  <2>1. run[s].pc = "htruncate" /\ run' = [run EXCEPT ![s] = r]
    BY <1>6 DEF HTruncates, To, At
  <2>2. "hwrite" \in Steps
    BY DEF Steps
  <2>3. /\ r \in InvocationType /\ r.n = run[s].n /\ r.pc = "hwrite" /\ r.cfg = run[s].cfg /\ r.as = run[s].as
        /\ r.res = run[s].res /\ r.health = run[s].health /\ r.old = run[s].old /\ r.torn = run[s].torn
    BY <1>2, <2>2 DEF InvocationType
  <2> HIDE DEF r
  <2>4. Saving(Op(s), run[s]) /\ Cache(run[s].health)
        /\ (Op(s).op = "list" => Listed(run[s])) /\ (Op(s).op # "list" => run[s].as # <<>> /\ Resolved(run[s]))
    BY <1>2, <2>1 DEF Stage
  <2>5. \A a : LearntOf(Op(s), r, a) = LearntOf(Op(s), run[s], a)
    BY <2>3 DEF LearntOf
  <2>6. Saving(Op(s), r) /\ (Listed(run[s]) => Listed(r)) /\ (Resolved(run[s]) => Resolved(r))
    BY <2>3, <2>4, <2>5 DEF Saving, Listed, Resolved
  <2>7. Stage(Op(s), r)
    BY <2>3, <2>4, <2>6 DEF Stage
  <2>8. Holds(s, r)
    BY <1>2, <2>3, <2>7
  <2> QED BY <1>1, <2>1, <2>8, ShellGoesOn
<1> QED BY <1>3, <1>4, <1>5, <1>6

\* The answers go into the copy, each to the alias that stands for its daemon.
LEMMA ProbeHolds ==
  ASSUME ClientInv, ConfigInv, NEW s \in Shells, ListProbes(s)
  PROVE  ClientInv'
<1>1. /\ Running(s) /\ UNCHANGED <<scn, cfg, health, ver, known>>
  BY DEF ListProbes, At
<1>2. /\ Stage(Op(s), run[s]) /\ run[s] \in InvocationType
  BY <1>1, Stands1
<1>3. /\ Resolved(run[s]) /\ Cache(run[s].health) /\ AsSaved(run[s]) /\ Op(s).op = "list"
  BY <1>2 DEF ListProbes, At, Stage
<1> DEFINE c == run[s].cfg
           q == run[s].as
           res == run[s].res
           Entry(n, who) == IF res[n] = 0 THEN Down
                            ELSE [st |-> "up", host |-> n, ver |-> IF res[n] >= SelfVer \/ n \in who THEN res[n] ELSE 0]
           F(who) == [a \in {ByRelay(q, c, n) : n \in Relays(c, q)} |->
                        Entry(CHOOSE n \in Relays(c, q) : ByRelay(q, c, n) = a, who)]
<1>4. PICK who : To(s, [run[s] EXCEPT !.pc = "htruncate", !.health = Merged(s, F(who))])
  BY Zenon DEF ListProbes
<1> DEFINE fresh == F(who)
           h == Merged(s, fresh)
           D == {ByRelay(q, c, n) : n \in Relays(c, q)}
<1>5. q \in Seq(Aliases) /\ res \in Replies /\ c \in ConfigType /\ Stands(c)
      /\ \A a \in ToSet(q) : a \in Aliases /\ c.tgt[a] # None /\ c.tgt[a] \in Names
  <2>1. q \in Seq(Aliases) /\ res \in Replies
    BY <1>2 DEF InvocationType, Lists
  <2>2. ToSet(q) \subseteq Aliases
    BY <2>1 DEF ToSet
  <2>3. c \in ConfigType /\ Stands(c) /\ Resolves(c, q)
    BY <1>3 DEF Resolved, Proper
  <2> HIDE DEF c, q
  <2> QED BY <2>1, <2>2, <2>3 DEF Resolves, ConfigType
<1> HIDE DEF c, q, res
\* What is new is of aliases that stand for their daemons.
<1>6. ASSUME NEW a \in D
      PROVE  a \in ToSet(q) /\ ByRelay(q, c, c.tgt[a]) = a /\ fresh[a] = Entry(c.tgt[a], who)
  <2> DEFINE m == CHOOSE n \in Relays(c, q) : ByRelay(q, c, n) = a
  <2>1. m \in Relays(c, q) /\ ByRelay(q, c, m) = a
    OBVIOUS
  <2>2. fresh[a] = Entry(m, who)
    BY Zenon
  <2> HIDE DEF m
  <2>3. PICK b \in ToSet(q) : m = c.tgt[b]
    BY <2>1 DEF Relays
  <2>4. a \in ToSet(q) /\ c.tgt[a] = m
    BY <1>5, <2>1, <2>3, ByRelayIs
  <2> QED BY <2>1, <2>2, <2>4
<1>7. ASSUME NEW a \in ToSet(q), a \notin D
      PROVE  Shares(a)
  <2> DEFINE b == ByRelay(q, c, c.tgt[a])
  <2>1. b \in ToSet(q) /\ c.tgt[b] = c.tgt[a]
    BY <1>5, ByRelayIs
  <2>2. b \in D
    BY DEF Relays
  <2> HIDE DEF b
  <2>3. b \in Aliases \ {a} /\ a \in Aliases /\ c.tgt[a] # None
    BY <1>5, <1>7, <2>1, <2>2
  <2>4. c.tgt[a] \in Owns(a) /\ c.tgt[a] \in Owns(b)
    BY <1>5, <2>1, <2>3 DEF Stands
  <2> QED BY <2>3, <2>4 DEF Shares
<1>8. ASSUME NEW a \in Aliases
      PROVE  /\ a \notin D => h[a] = run[s].health[a]
             /\ a \in D => h[a] = Kept(run[s].health[a], Entry(c.tgt[a], who))
  <2>1. DOMAIN fresh = D
    BY Zenon
  <2>2. h[a] = IF a \in D THEN Kept(run[s].health[a], fresh[a]) ELSE run[s].health[a]
    BY <2>1 DEF Merged
  <2> HIDE DEF h, fresh, D
  <2> QED BY <1>6, <2>2
<1>9. h = [a \in Aliases |-> h[a]]
  BY DEF Merged
<1>10. run' = [run EXCEPT ![s] = Saves(run[s], h)]
  BY <1>4 DEF To, Saves
<1>11. /\ Saves(run[s], h).cfg = c /\ Saves(run[s], h).as = q /\ Saves(run[s], h).res = res
       /\ Saves(run[s], h).health = h
  BY <1>2 DEF InvocationType, Saves, c, q, res
<1> HIDE DEF h, fresh, F, D
\* The entry of an alias.
<1>12. ASSUME NEW a \in Aliases, a \in D
       PROVE  /\ h[a].st \in {"up", "down"}
              /\ h[a] \in [st : {"none", "up", "down"}, host : Names \cup {None}, ver : 0 .. MaxVer]
              /\ h[a].st = "up" => h[a].host = c.tgt[a]
              /\ res[c.tgt[a]] = 0 => h[a].ver = run[s].health[a].ver
              /\ Reported(res[c.tgt[a]]) # 0 => h[a].ver = Reported(res[c.tgt[a]])
              /\ h[a].ver = 0 => run[s].health[a].ver = 0
  <2> DEFINE n == c.tgt[a]
  <2>1. n \in Names /\ res[n] \in 0 .. MaxVer
    BY <1>5, <1>6, <1>12 DEF Replies
  <2>2. h[a] = Kept(run[s].health[a], Entry(n, who))
    BY <1>8, <1>12
  <2>3. run[s].health[a].ver \in 0 .. MaxVer
    BY <1>3 DEF Cache, HealthType
  <2> HIDE DEF n
  <2>4. CASE res[n] = 0
    <3>1. h[a] = [Down EXCEPT !.ver = run[s].health[a].ver]
      BY <2>2, <2>4 DEF Kept, Down
    <3> QED BY <2>3, <2>4, <3>1 DEF Down, Reported, SelfVer, n
  <2>5. CASE res[n] # 0
    <3> DEFINE v == IF res[n] >= SelfVer \/ n \in who THEN res[n] ELSE 0
    <3>1. Entry(n, who) = [st |-> "up", host |-> n, ver |-> v]
      BY <2>5
    <3>2. v \in 0 .. MaxVer /\ (Reported(res[n]) # 0 => v = Reported(res[n]) /\ v # 0)
      BY <2>1, ClientsAssumption DEF Reported
    <3> HIDE DEF v
    <3>3. h[a] = [st |-> "up", host |-> n, ver |-> IF v = 0 THEN run[s].health[a].ver ELSE v]
      BY <2>2, <3>1 DEF Kept
    <3>4. h[a].st = "up" /\ h[a].host = n /\ h[a].ver = (IF v = 0 THEN run[s].health[a].ver ELSE v)
      BY <3>3
    <3> QED BY <2>1, <2>3, <2>5, <3>2, <3>3, <3>4 DEF n
  <2> QED BY <2>4, <2>5
<1>13. Cache(h)
  <2>1. \A a \in Aliases : h[a] \in [st : {"none", "up", "down"}, host : Names \cup {None}, ver : 0 .. MaxVer]
    <3> TAKE a \in Aliases
    <3>1. CASE a \in D
      BY <1>12, <3>1
    <3>2. CASE a \notin D
      BY <1>3, <1>8, <3>2 DEF Cache, HealthType
    <3> QED BY <3>1, <3>2
  <2>2. \A a \in Aliases : h[a].st = "up" => h[a].host \in Owns(a)
    <3> SUFFICES ASSUME NEW a \in Aliases, h[a].st = "up" PROVE h[a].host \in Owns(a)
      OBVIOUS
    <3>1. CASE a \in D
      BY <1>5, <1>6, <1>12, <3>1 DEF Stands
    <3>2. CASE a \notin D
      BY <1>3, <1>8, <3>2 DEF Cache, Answered
    <3> QED BY <3>1, <3>2
  <2> QED BY <1>9, <2>1, <2>2 DEF Cache, Answered, HealthType
<1>14. ASSUME NEW a \in Aliases, ~run[s].old, ~run[s].torn
       PROVE  LET v == LearntOf(Op(s), Saves(run[s], h), a)
              IN  IF v # 0 THEN h[a].ver = v ELSE known[a] # 0 => h[a].ver = known[a]
  <2>1. known[a] # 0 => run[s].health[a].ver = known[a]
    BY <1>3, <1>14 DEF AsSaved
  <2>2. c # None
    BY <1>5, ClientsAssumption
  <2> DEFINE v == LearntOf(Op(s), Saves(run[s], h), a)
  <2>3. CASE a \notin D
    <3>1. a \notin ToSet(q) \/ ByRelay(q, c, c.tgt[a]) # a
      BY <2>3 DEF Relays, D
    <3>2. v = 0
      BY <1>3, <1>11, <3>1 DEF LearntOf
    <3> QED BY <1>8, <2>1, <2>3, <3>2
  <2>4. CASE a \in D
    <3>1. v = IF res[c.tgt[a]] = 0 THEN 0
              ELSE IF Reported(res[c.tgt[a]]) # 0 THEN Reported(res[c.tgt[a]]) ELSE h[a].ver
      BY <1>3, <1>6, <1>11, <2>2, <2>4, Zenon DEF LearntOf
    <3>2. CASE v = 0
      BY <1>12, <2>1, <2>4, <3>1, <3>2
    <3>3. CASE v # 0
      BY <1>12, <2>4, <3>1, <3>3
    <3> QED BY <3>2, <3>3
  <2> QED BY <2>3, <2>4
<1>15. \A a \in ToSet(run[s].as) : h[a].st # "none" \/ Shares(a)
  <2> SUFFICES ASSUME NEW a \in ToSet(q) PROVE h[a].st # "none" \/ Shares(a)
    BY DEF q
  <2>1. CASE a \in D
    BY <1>5, <1>12, <2>1
  <2>2. CASE a \notin D
    BY <1>7, <2>2
  <2> QED BY <2>1, <2>2
<1> QED BY <1>1, <1>3, <1>10, <1>13, <1>14, <1>15, MergedHolds

\* What a save leaves: the others' copies are old, and the file is as the
\* invocation has it, which known records unless its copy was old itself.
LEMMA SaveHolds ==
  ASSUME ClientInv, ConfigInv, NEW s \in Shells, HWrites(s)
  PROVE  ClientInv'
<1>1. /\ Running(s) /\ UNCHANGED <<scn, cfg, ver>>
      /\ health' = run[s].health \/ health' \in Broken
  BY DEF HWrites, At, Written, Broken
<1>2. /\ Op(s) \in Ops /\ Stage(Op(s), run[s]) /\ run[s] \in InvocationType
      /\ \A r \in InvocationType : r.n = run[s].n /\ Stage(Op(s), r) => Holds(s, r)
  BY <1>1, Stands1
<1>3. /\ Cache(run[s].health) /\ Saving(Op(s), run[s])
      /\ Op(s).op # "list" => run[s].as # <<>> /\ Resolved(run[s])
  BY <1>2 DEF HWrites, At, Stage
<1>4. known' = [a \in Aliases |-> IF run[s].old \/ run[s].torn THEN 0
                                  ELSE IF Learnt(s, a) # 0 THEN Learnt(s, a) ELSE known[a]]
  BY DEF HWrites
<1>5. \A a : Learnt(s, a) = LearntOf(Op(s), run[s], a)
  BY DEF Learnt, LearntOf
<1>6. \A a \in Aliases : /\ known'[a] \in 0 .. MaxVer
                         /\ known'[a] # 0 /\ health' \notin Broken => health'[a].ver = known'[a]
  <2> TAKE a \in Aliases
  <2>1. run[s].health[a].ver \in 0 .. MaxVer /\ known[a] \in 0 .. MaxVer /\ 0 \in 0 .. MaxVer
    BY <1>3, ClientsAssumption DEF Cache, HealthType, ClientInv, TypeOK
  <2>2. CASE run[s].old \/ run[s].torn
    BY <1>4, <2>1, <2>2
  <2>3. CASE ~run[s].old /\ ~run[s].torn
    <3>1. IF Learnt(s, a) # 0 THEN run[s].health[a].ver = Learnt(s, a)
          ELSE known[a] # 0 => run[s].health[a].ver = known[a]
      BY <1>3, <1>5, <2>3 DEF Saving
    <3>2. known'[a] = IF Learnt(s, a) # 0 THEN Learnt(s, a) ELSE known[a]
      BY <1>4, <2>3
    <3> QED BY <1>1, <2>1, <3>1, <3>2
  <2> QED BY <2>2, <2>3
<1>7. /\ run' = [t \in Shells |-> run'[t]]
      /\ \A t \in Shells \ {s} : run'[t] = [run[t] EXCEPT !.old = TRUE]
      /\ Op(s).op = "list" => run'[s] = Ended(s, "ok")
      /\ Op(s).op # "list" => run'[s] = [NextAlias(s) EXCEPT !.pc = "note", !.health = None]
  BY DEF HWrites, Outdated
<1>8. ASSUME NEW t \in Shells \ {s} PROVE Holds(t, run'[t]) /\ run'[t].old
  <2>1. Holds(t, run[t]) /\ run[t] \in InvocationType
    BY DEF ClientInv, Holds
  <2> DEFINE r == [run[t] EXCEPT !.old = TRUE]
  <2>2. /\ r \in InvocationType /\ r.n = run[t].n /\ r.pc = run[t].pc /\ r.cfg = run[t].cfg /\ r.as = run[t].as
        /\ r.res = run[t].res /\ r.health = run[t].health /\ r.old = TRUE
    BY <2>1 DEF InvocationType
  <2> HIDE DEF r
  <2>3. AsSaved(r) /\ (\A o : Saving(o, r)) /\ (Resolved(run[t]) => Resolved(r)) /\ (Listed(run[t]) => Listed(r))
    BY <2>2 DEF AsSaved, Saving, Resolved, Listed
  <2>4. \A o : Stage(o, run[t]) => Stage(o, r)
    BY <2>2, <2>3 DEF Stage
  <2>5. Holds(t, r)
    BY <2>1, <2>2, <2>4 DEF Holds
  <2> QED BY <1>7, <2>2, <2>5 DEF r
<1>9. ASSUME NEW t \in Shells
      PROVE  Holds(t, run'[t]) /\ (run'[t].old \/ run'[t].pc \in {"load", "note"})
  <2>1. CASE t # s
    BY <1>8, <2>1
  <2>2. CASE t = s /\ Op(s).op = "list"
    <3>1. "ok" \in Outcomes
      BY DEF Outcomes
    <3> DEFINE r == Ended(s, "ok")
    <3>2. Holds(s, r)
      BY <1>1, <3>1, NextHolds
    <3>3. r.pc = "load"
      BY DEF Ended, Idle
    <3> HIDE DEF r
    <3> QED BY <1>7, <2>2, <3>2, <3>3 DEF r
  <2>3. CASE t = s /\ Op(s).op # "list"
    <3> DEFINE l == Tail(run[s].as)
               r == [[run[s] EXCEPT !.as = l] EXCEPT !.pc = "note", !.health = None]
    <3>1. run'[s] = r
      BY <1>7, <2>3 DEF NextAlias
    <3>2. l \in Lists /\ ToSet(l) \subseteq ToSet(run[s].as)
      BY <1>2, <1>3, <2>3, TailIs DEF InvocationType, Lists
    <3>3. Proper(run[s].cfg) /\ Resolves(run[s].cfg, l)
      BY <1>3, <2>3, <3>2 DEF Resolved, Resolves
    <3>4. "note" \in Steps /\ None \in Caches
      BY DEF Steps, Caches
    <3> HIDE DEF l
    <3>5. /\ r \in InvocationType /\ r.n = run[s].n /\ r.pc = "note" /\ r.cfg = run[s].cfg /\ r.as = l
      BY <1>2, <3>2, <3>4 DEF InvocationType
    <3> HIDE DEF r
    <3>6. Stage(Op(s), r)
      BY <2>3, <3>3, <3>5 DEF Stage, Resolved
    <3>7. Holds(s, r)
      BY <1>2, <3>5, <3>6
    <3> QED BY <2>3, <3>1, <3>5, <3>7
  <2> QED BY <2>1, <2>2, <2>3
<1>13. \A t \in Shells : Holds(t, run[t])'
  <2>1. \A t, q : Holds(t, q) /\ (q.old \/ q.pc \in {"load", "note"}) => Holds(t, q)'
    BY <1>1, HoldsOn
  <2> QED BY <1>9, <2>1
<1>10. (cfg \in Broken \/ Proper(cfg))' /\ (health \in Broken \/ Cache(health))'
  BY <1>1, <1>3, SameScenario DEF ClientInv
<1>11. VersionKept'
  BY <1>6 DEF VersionKept
<1>12. TypeOK'
  <2>1. known' \in [Aliases -> 0 .. MaxVer]
    BY <1>4, <1>6
  <2>2. \A t \in Shells : run'[t].n <= Len(scn'.script[t]) + 1 /\ run'[t].as \in Seq(Aliases)
    BY <1>1, <1>9 DEF Holds, InvocationType, Lists
  <2>3. health' \in Broken \/ health' \in HealthType
    BY <1>10 DEF Cache
  <2> QED BY <1>1, <2>1, <2>2, <2>3 DEF ClientInv, TypeOK, HealthType
<1> QED BY <1>7, <1>10, <1>11, <1>12, <1>13 DEF ClientInv

LEMMA InitClient == Init => ClientInv
<1> SUFFICES ASSUME Init PROVE ClientInv
  OBVIOUS
<1>1. /\ scn \in Scenarios /\ scn.cfg \in ConfigType /\ scn.script \in [Shells -> Seq(Ops)]
      /\ cfg = scn.cfg /\ health = NoHealth /\ run = [s \in Shells |-> Idle]
      /\ ver = [n \in Names |-> 1] /\ known = [a \in Aliases |-> 0]
  BY ClientsAssumption DEF Init, ScenarioType
<1>2. Proper(cfg)
  <2>1. Grouped(cfg)
    <3>1. \A g \in Groups : scn.cfg.grp[g] # None => ToSet(scn.cfg.grp[g]) \subseteq Aliases
      BY <1>1 DEF ConfigType, ToSet
    <3> QED BY <1>1, <3>1 DEF Grouped, Dangling
  <2>2. Stands(cfg)
    BY <1>1 DEF Stands, Owns
  <2> QED BY <1>1, <2>1, <2>2 DEF Proper
<1>3. Cache(health)
  BY <1>1, EmptyCache
<1>4. VersionKept
  BY <1>1 DEF VersionKept
<1>5. Nothing \in Replies /\ <<>> \in Lists
  BY ClientsAssumption DEF Nothing, Replies, Lists
<1>6. Idle \in InvocationType /\ Idle.pc = "load" /\ Idle.cfg = None /\ Idle.res = Nothing /\ Idle.n = 1
  BY <1>5 DEF Idle, Nothing, InvocationType, Steps, Numbers, Configs, Caches, Outcomes
<1>7. \A s \in Shells : Holds(s, Idle)
  <2> TAKE s \in Shells
  <2>1. Len(scn.script[s]) \in Nat
    BY <1>1
  <2>2. \A o : Stage(o, Idle)
    BY <1>6 DEF Stage
  <2> QED BY <1>6, <2>1, <2>2 DEF Holds
<1>8. TypeOK
  <2>1. ver \in [Names -> 1 .. MaxVer] /\ known \in [Aliases -> 0 .. MaxVer]
    BY <1>1, ClientsAssumption
  <2>2. \A s \in Shells : run[s].n <= Len(scn.script[s]) + 1 /\ run[s].as \in Seq(Aliases)
    BY <1>1, <1>7 DEF Holds, InvocationType, Lists
  <2> QED BY <1>1, <1>3, <2>1, <2>2 DEF TypeOK, Cache, HealthType
<1> QED BY <1>1, <1>2, <1>3, <1>4, <1>7, <1>8 DEF ClientInv

LEMMA UpgradeHolds ==
  ASSUME ClientInv, Upgrades
  PROVE  ClientInv'
<1>1. UNCHANGED <<scn, cfg, health, run, known>> /\ ver' \in [Names -> 1 .. MaxVer]
  <2>1. PICK n \in Names : ver[n] < MaxVer /\ ver' = [ver EXCEPT ![n] = @ + 1]
    BY DEF Upgrades
  <2>2. ver \in [Names -> 1 .. MaxVer]
    BY DEF ClientInv, TypeOK
  <2> QED BY <2>1, <2>2, ClientsAssumption DEF Upgrades
<1>2. \A t \in Shells : Holds(t, run[t])'
  BY <1>1, HoldsOn DEF ClientInv
<1>3. (cfg \in Broken \/ Proper(cfg))' /\ (health \in Broken \/ Cache(health))'
  BY <1>1, SameScenario DEF ClientInv
<1> QED BY <1>1, <1>2, <1>3 DEF ClientInv, TypeOK, VersionKept

LEMMA StepClient == ClientInv /\ ConfigInv /\ [Next]_vars => ClientInv'
<1> SUFFICES ASSUME ClientInv, ConfigInv, [Next]_vars PROVE ClientInv'
  OBVIOUS
<1>1. CASE UNCHANGED vars
  <2>1. \A t \in Shells : Holds(t, run[t])'
    BY <1>1, HoldsOn DEF ClientInv, vars
  <2>2. (cfg \in Broken \/ Proper(cfg))' /\ (health \in Broken \/ Cache(health))'
    BY <1>1, SameScenario DEF ClientInv, vars
  <2> QED BY <1>1, <2>1, <2>2 DEF ClientInv, TypeOK, VersionKept, vars
<1>2. CASE Upgrades
  BY <1>2, UpgradeHolds
<1>3. ASSUME NEW s \in Shells, Step(s) PROVE ClientInv'
  BY <1>3, EditHolds, FindHolds, AskHolds, NoteHolds, ListLoadHolds, ResolveHolds, ProbeHolds, SaveHolds DEF Step
<1> QED BY <1>1, <1>2, <1>3 DEF Next

LEMMA ClientAlways == Spec => []ClientInv
<1>1. Init => ClientInv /\ ConfigInv
  BY InitClient, InitConfig
<1>2. (ClientInv /\ ConfigInv) /\ [Next]_vars => (ClientInv /\ ConfigInv)'
  BY StepClient, StepConfig
<1> QED BY <1>1, <1>2, PTL DEF Spec

(***************************************************************************)
(* Type correctness of Clients: what is on file, or in an invocation's     *)
(* hands, is a configuration or a cache with all its fields.               *)
(***************************************************************************)
THEOREM ClientTypes == Spec => []TypeOK
<1>1. ClientInv => TypeOK
  BY DEF ClientInv
<1> QED BY <1>1, ClientAlways, PTL

(***************************************************************************)
(* groupCreate and groupAddTargets "validate all targets exist" in a       *)
(* configuration that may be out of date when they write it back.          *)
(* For any number of shells and any scripts: a member of a group that is   *)
(* no target has been removed by remove-target, or was no target in the    *)
(* beginning, whatever else was lost as commands ran into one another.     *)
(***************************************************************************)
THEOREM MembersStayTargets == Spec => []MembersAreTargets
<1>1. ClientInv => MembersAreTargets
  BY DEF ClientInv, Proper, Grouped, Removed, MembersAreTargets
<1> QED BY <1>1, ClientAlways, PTL

(***************************************************************************)
(* listTargetsSmart: "keep the last known version while a node is down or  *)
(* silent", and noteDaemonVersion.                                         *)
(* For any number of shells, scripts, daemons and versions: the version    *)
(* that a save recorded of a daemon stays in health.json until another     *)
(* answer replaces it, as long as no save is based on an outdated copy.    *)
(***************************************************************************)
THEOREM VersionsAreKept == Spec => []VersionKept
<1>1. ClientInv => VersionKept
  BY DEF ClientInv
<1> QED BY <1>1, ClientAlways, PTL

(***************************************************************************)
(* pingTargets: targets that do not answer "are returned with Status down  *)
(* rather than being dropped", and aliasByRelay gives each answer to an    *)
(* alias of the daemon.                                                    *)
(* For any number of shells and any scripts: an alias is listed as up for  *)
(* an answer of a daemon it stands for only, and all that were probed get  *)
(* an entry, also when config.json changes meanwhile; not so for aliases   *)
(* that share a daemon.                                                    *)
(***************************************************************************)
THEOREM ListsAreHonest == Spec => []ListHonest
<1>1. ClientInv => ListHonest
  <2> SUFFICES ASSUME ClientInv PROVE ListHonest
    OBVIOUS
  <2>1. health \notin Broken => \A a \in Aliases : health[a].st = "up" => health[a].host \in Owns(a)
    BY DEF ClientInv, Cache, Answered
  <2>2. ASSUME NEW s \in Shells, At(s, "hwrite"), Op(s).op = "list"
        PROVE  \A a \in ToSet(run[s].as) : run[s].health[a].st # "none" \/ Shares(a)
    <3>1. Holds(s, run[s])
      BY DEF ClientInv
    <3>2. Listed(run[s])
      BY <2>2, <3>1 DEF Holds, At, Running, Op, Stage
    <3> QED BY <3>2 DEF Listed
  <2> QED BY <2>1, <2>2 DEF ListHonest
<1> QED BY <1>1, ClientAlways, PTL
=============================================================================
