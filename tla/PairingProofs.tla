--------------------------- MODULE PairingProofs ---------------------------
(***************************************************************************)
(* Proofs about Pairing, for any listeners, daemons, codes, keys and       *)
(* scenarios: its types, that a listener gets one daemon, that an admitted *)
(* key was valid, and that a code is kept until it is answered.            *)
(*                                                                         *)
(* The second argument follows a listener from place to place: it is in    *)
(* the relay's table, or in the hands of one handlePair, or has been told, *)
(* and never in two of these, also when it is put back after a rejection   *)
(* into a table that others have changed meanwhile.  The third compares    *)
(* the stamps of what a check may find its key in with that of its stat;   *)
(* the fourth follows the code through the file, the offers and the        *)
(* confirmations under way.  They are given where they begin.              *)
(***************************************************************************)
EXTENDS Pairing, FiniteSetTheorems, TLAPS

Offer == [code : Codes, key : Keys \cup {None}]
HandPcs == {"idle", "stat", "gone", "read", "store", "check", "match", "reject"}

LisType == [Listeners -> [st : {"idle", "waiting", "paired", "gone"}, got : Seq(Daemons)]]
AtHand == [pc : HandPcs, code : Codes \cup {None}, key : Keys \cup {None},
           lis : Listeners \cup {None}, stamp : Nat, keys : SUBSET Keys, held : BOOLEAN]
HandType == [Daemons -> AtHand]
Connection == [up : BOOLEAN, cut : BOOLEAN, due : BOOLEAN, sees : Codes \cup {None},
               loop : {"young", "old", "ended"}, out : Seq(Offer), in : Seq(Codes)]
DmType == [Daemons -> Connection]
OnDisk == [code : Codes \cup {None, Half}, key : Keys \cup {None}, old : BOOLEAN]
FileType == [Daemons -> OnDisk]
AccType == [Daemons -> [pc : {"code", "code2", "key", "signal"}, n : Nat \ {0}]]
CliType == [Clis -> [pc : {"read", "truncate", "write", "done"}, keys : SUBSET Keys]]

Types ==
  /\ scn \in Scenarios
  /\ lis \in LisType
  /\ tab \in [Codes -> Listeners \cup {None}]
  /\ hand \in HandType
  /\ cache \in [keys : SUBSET Keys, stamp : Nat]
  /\ kfile \in [keys : (SUBSET Keys) \cup {Half, None}, stamp : Nat]
  /\ cli \in CliType
  /\ dm \in DmType
  /\ file \in FileType
  /\ acc \in AccType
  /\ day \in BOOLEAN
  /\ lost \in [Daemons -> SUBSET Causes]

(***************************************************************************)
(* What handlePair holds while it is at work; stamps only grow; a lost     *)
(* connection carries nothing; only a code that is there gets old.         *)
(***************************************************************************)
Holding == \A d \in Daemons : hand[d].pc # "idle" => hand[d].lis \in Listeners /\ hand[d].code \in Codes
Stamps ==
  /\ kfile.stamp \in 0 .. MaxStamp
  /\ cache.stamp <= kfile.stamp
  /\ \A d \in Daemons : hand[d].stamp <= kfile.stamp
Quiescent == \A d \in Daemons : ~dm[d].up => dm[d].in = <<>> /\ dm[d].out = <<>>
Aged == \A d \in Daemons : file[d].old => file[d].code # None

TypesInv == Types /\ Holding /\ Stamps /\ Quiescent /\ Aged

---------------------------------------------------------------------------
\* What a scenario gives the other modules' state.
LEMMA ScenarioFacts ==
  ASSUME scn \in Scenarios
  PROVE  /\ scn.listen \in [Listeners -> Codes \cup {None}]
         /\ scn.accept \in [Daemons -> Seq([code : Codes, key : Keys \cup {None}])]
         /\ scn.keys \in SUBSET Keys
         /\ scn.cli \in [Clis -> {"add", "remove", "none"} \X Keys]
         /\ scn.before \in SUBSET Daemons
         /\ \A d \in scn.before : scn.accept[d] # <<>>
BY PairingAssumption DEF ScenarioType

\* The constants None and Half are none of the real ones.
LEMMA NoneIsNone == None # Half /\ None \notin Listeners /\ None \notin Codes /\ Half \notin Codes
BY PairingAssumption

LEMMA ElementOf ==
  ASSUME NEW S, NEW q \in Seq(S), NEW i \in 1 .. Len(q)
  PROVE  q[i] \in S
OBVIOUS

LEMMA InOrNot ==
  ASSUME NEW S, NEW k
  PROVE  \E b \in BOOLEAN : b = (k \in S)
<1> DEFINE p == k \in S
<1>1. CASE p
  <2>1. TRUE = p
    BY <1>1, Zenon
  <2> QED BY <2>1, Zenon
<1>2. CASE ~p
  <2>1. FALSE = p
    BY <1>2, SMT
  <2> QED BY <2>1, Zenon
<1> QED BY <1>1, <1>2

\* One daemon's connection, or its files, change.
LEMMA DmUpdate ==
  ASSUME dm \in DmType, Quiescent, NEW d \in Daemons, NEW r \in Connection,
         ~r.up => r.in = <<>> /\ r.out = <<>>, dm' = [dm EXCEPT ![d] = r]
  PROVE  dm' \in DmType /\ Quiescent'
BY DEF DmType, Quiescent

LEMMA FileUpdate ==
  ASSUME file \in FileType, Aged, NEW d \in Daemons, NEW r \in OnDisk,
         r.old => r.code # None, file' = [file EXCEPT ![d] = r]
  PROVE  file' \in FileType /\ Aged'
BY DEF FileType, Aged

LEMMA HandUpdate ==
  ASSUME hand \in HandType, Holding, Stamps, NEW d \in Daemons, NEW r \in AtHand,
         r.pc # "idle" => r.lis \in Listeners /\ r.code \in Codes,
         r.stamp <= kfile.stamp, UNCHANGED <<kfile, cache>>, hand' = [hand EXCEPT ![d] = r]
  PROVE  hand' \in HandType /\ Holding' /\ Stamps'
<1>1. hand' \in HandType /\ Holding'
  BY DEF HandType, Holding
<1>2. Stamps'
  BY DEF HandType, Stamps
<1> QED BY <1>1, <1>2

\* handlePair goes on to its next step, with what it has at hand.
LEMMA NextStep ==
  ASSUME hand \in HandType, Holding, Stamps, NEW d \in Daemons, UNCHANGED <<kfile, cache>>,
         NEW p \in HandPcs, p # "idle" => hand[d].pc # "idle", hand' = [hand EXCEPT ![d].pc = p]
  PROVE  hand' \in HandType /\ Holding' /\ Stamps'
<1> DEFINE r == [hand[d] EXCEPT !.pc = p]
<1>1. hand[d] \in AtHand
  BY DEF HandType
<1>2. r \in AtHand /\ r.pc = p /\ r.lis = hand[d].lis /\ r.code = hand[d].code /\ r.stamp = hand[d].stamp
  BY <1>1 DEF AtHand
<1>3. hand' = [hand EXCEPT ![d] = r]
  BY DEF HandType
<1>4. r.pc # "idle" => r.lis \in Listeners /\ r.code \in Codes
  BY <1>2 DEF Holding
<1>5. r.stamp <= kfile.stamp
  BY <1>2 DEF Stamps
<1> HIDE DEF r
<1> QED BY <1>2, <1>3, <1>4, <1>5, HandUpdate

LEMMA Statted ==
  ASSUME hand \in HandType, kfile.stamp \in Nat, Holding, Stamps, NEW d \in Daemons, Stats(d)
  PROVE  hand' \in HandType /\ Holding' /\ Stamps'
<1> DEFINE p == IF kfile.keys = None THEN "gone" ELSE IF Fresh THEN "check" ELSE "read"
           n == IF kfile.keys = None THEN 0 ELSE kfile.stamp
           r == [hand[d] EXCEPT !.stamp = n, !.pc = p]
<1>1. hand[d] \in AtHand /\ hand[d].pc = "stat" /\ UNCHANGED <<kfile, cache>>
  BY DEF HandType, Stats, relayKeys
<1>2. hand' = [hand EXCEPT ![d] = r]
  BY DEF HandType, Stats
<1>3. p \in HandPcs /\ n \in Nat /\ n <= kfile.stamp
  BY DEF HandPcs
<1> HIDE DEF p, n
<1>4. r \in AtHand /\ r.lis = hand[d].lis /\ r.code = hand[d].code /\ r.stamp = n
  BY <1>1, <1>3 DEF AtHand
<1>5. hand[d].lis \in Listeners /\ hand[d].code \in Codes
  BY <1>1 DEF Holding
<1>6. r.stamp <= kfile.stamp
  BY <1>3, <1>4
<1> HIDE DEF r
<1> QED BY <1>1, <1>2, <1>4, <1>5, <1>6, HandUpdate

LEMMA Stored ==
  ASSUME hand \in HandType, cache \in [keys : SUBSET Keys, stamp : Nat], Holding, Stamps,
         NEW d \in Daemons, Stores(d)
  PROVE  hand' \in HandType /\ Holding' /\ Stamps' /\ cache' \in [keys : SUBSET Keys, stamp : Nat]
<1> DEFINE r == [hand[d] EXCEPT !.pc = "check"]
<1>1. hand[d] \in AtHand /\ hand[d].pc = "store" /\ kfile' = kfile
  BY DEF HandType, Stores
<1>2. hand' = [hand EXCEPT ![d] = r] /\ cache' = [keys |-> hand[d].keys, stamp |-> hand[d].stamp]
  BY DEF HandType, Stores
<1>3. /\ r \in AtHand /\ r.lis = hand[d].lis /\ r.code = hand[d].code /\ r.stamp = hand[d].stamp
      /\ cache' \in [keys : SUBSET Keys, stamp : Nat]
  BY <1>1, <1>2 DEF AtHand, HandPcs
<1>4. hand[d].lis \in Listeners /\ hand[d].code \in Codes
  BY <1>1 DEF Holding
<1>5. hand[d].stamp <= kfile.stamp
  BY DEF Stamps
<1> HIDE DEF r
<1>6. hand' \in HandType /\ Holding'
  BY <1>2, <1>3, <1>4 DEF HandType, Holding
<1>7. \A e \in Daemons : hand'[e].stamp = hand[e].stamp
  BY <1>2, <1>3 DEF HandType
<1>8. Stamps'
  BY <1>1, <1>2, <1>5, <1>7 DEF Stamps
<1> QED BY <1>3, <1>6, <1>8

\* The steps that change a connection keep its type.
LEMMA Received ==
  ASSUME dm \in DmType, Quiescent, NEW d \in Daemons, hand[d].code \in Codes, Matches(d)
  PROVE  dm' \in DmType /\ Quiescent'
<1>1. dm[d] \in Connection
  BY DEF DmType
<1>2. CASE dm[d].up
  <2> DEFINE q == Append(dm[d].in, hand[d].code)
             r == [dm[d] EXCEPT !.in = q]
  <2>1. q \in Seq(Codes)
    BY <1>1 DEF Connection
  <2>2. dm' = [dm EXCEPT ![d] = r]
    BY <1>2 DEF Matches, DmType
  <2> HIDE DEF q
  <2>3. r \in Connection /\ r.up
    BY <1>1, <1>2, <2>1 DEF Connection
  <2> HIDE DEF r
  <2> QED BY <2>2, <2>3, DmUpdate
<1>3. CASE ~dm[d].up
  BY <1>3 DEF Matches, Quiescent
<1> QED BY <1>2, <1>3

LEMMA Sent ==
  ASSUME dm \in DmType, file \in FileType, Quiescent, NEW d \in Daemons, Sends(d)
  PROVE  dm' \in DmType /\ Quiescent'
<1>1. dm[d] \in Connection /\ file[d].key \in Keys \cup {None} /\ dm[d].sees \in Codes
  BY NoneIsNone DEF DmType, FileType, OnDisk, Connection, Sends
<1> DEFINE o == [code |-> dm[d].sees, key |-> file[d].key]
           q == IF dm[d].up THEN Append(dm[d].out, o) ELSE dm[d].out
           r == [dm[d] EXCEPT !.sees = None, !.out = q]
<1>2. o \in Offer
  BY <1>1 DEF Offer
<1>3. q \in Seq(Offer)
  <2> HIDE DEF o
  <2> QED BY <1>1, <1>2 DEF Connection
<1>4. dm' = [dm EXCEPT ![d] = r]
  BY <1>1 DEF Sends, DmType
<1>5. ~dm[d].up => dm[d].in = <<>> /\ q = <<>>
  BY DEF Quiescent
<1> HIDE DEF q
<1>6. r \in Connection /\ r.up = dm[d].up /\ r.in = dm[d].in /\ r.out = q
  BY <1>1, <1>3 DEF Connection
<1> HIDE DEF r
<1> QED BY <1>4, <1>5, <1>6, DmUpdate

LEMMA Consumed ==
  ASSUME dm \in DmType, Quiescent, NEW d \in Daemons, Confirmed(d)
  PROVE  dm' \in DmType /\ Quiescent'
<1>1. dm[d] \in Connection /\ dm[d].up /\ dm[d].in # <<>>
  BY DEF DmType, Confirmed
<1> DEFINE q == Tail(dm[d].in)
           r == [dm[d] EXCEPT !.in = q]
<1>2. q \in Seq(Codes)
  BY <1>1 DEF Connection
<1>3. dm' = [dm EXCEPT ![d] = r]
  BY DEF Confirmed, DmType
<1> HIDE DEF q
<1>4. r \in Connection /\ r.up
  BY <1>1, <1>2 DEF Connection
<1> HIDE DEF r
<1> QED BY <1>3, <1>4, DmUpdate

LEMMA Dropped ==
  ASSUME dm \in DmType, Quiescent, NEW d \in Daemons, Drops(d)
  PROVE  dm' \in DmType /\ Quiescent'
<1>1. dm[d] \in Connection
  BY DEF DmType
<1> DEFINE r == [dm[d] EXCEPT !.up = FALSE, !.cut = TRUE, !.loop = "ended", !.out = <<>>, !.in = <<>>, !.due = FALSE]
<1>2. dm' = [dm EXCEPT ![d] = r]
  BY DEF Drops, DmType
<1>3. r.up = FALSE /\ r.cut = TRUE /\ r.loop = "ended" /\ r.out = <<>> /\ r.in = <<>> /\ r.due = FALSE
      /\ r.sees = dm[d].sees
  BY <1>1 DEF Connection
<1>5. r \in Connection
  <2>1. <<>> \in Seq(Offer) /\ <<>> \in Seq(Codes)
    OBVIOUS
  <2> QED BY <1>1, <2>1 DEF Connection
<1> HIDE DEF r
<1> QED BY <1>2, <1>3, <1>5, DmUpdate

LEMMA Retried ==
  ASSUME dm \in DmType, Quiescent, NEW d \in Daemons, Retries(d) \/ Expires(d)
  PROVE  dm' \in DmType /\ Quiescent'
<1>1. dm[d] \in Connection /\ dm[d].up
  BY DEF DmType, Retries, Expires
<1>2. CASE Retries(d)
  <2> DEFINE r == [dm[d] EXCEPT !.due = TRUE]
  <2>1. r \in Connection /\ r.up
    BY <1>1 DEF Connection
  <2>2. dm' = [dm EXCEPT ![d] = r]
    BY <1>2 DEF Retries, DmType
  <2> HIDE DEF r
  <2> QED BY <2>1, <2>2, DmUpdate
<1>3. CASE Expires(d)
  <2> DEFINE r == [dm[d] EXCEPT !.loop = "ended"]
  <2>1. r \in Connection /\ r.up
    BY <1>1 DEF Connection
  <2>2. dm' = [dm EXCEPT ![d] = r]
    BY <1>3 DEF Expires, DmType
  <2> HIDE DEF r
  <2> QED BY <2>1, <2>2, DmUpdate
<1> QED BY <1>2, <1>3

LEMMA Aging ==
  ASSUME dm \in DmType, file \in FileType, Quiescent, Aged, DayPasses
  PROVE  dm' \in DmType /\ Quiescent' /\ file' \in FileType /\ Aged'
<1>1. ASSUME NEW d \in Daemons
      PROVE  /\ dm'[d] \in Connection
             /\ dm'[d].up = dm[d].up /\ dm'[d].in = dm[d].in /\ dm'[d].out = dm[d].out
  <2> DEFINE l == IF dm[d].loop = "young" THEN "old" ELSE dm[d].loop
  <2>1. dm[d] \in Connection
    BY DEF DmType
  <2>2. l \in {"young", "old", "ended"}
    BY <2>1 DEF Connection
  <2>3. dm'[d] = [dm[d] EXCEPT !.loop = l]
    BY DEF DayPasses
  <2> HIDE DEF l
  <2> QED BY <2>1, <2>2, <2>3 DEF Connection
<1>2. dm' = [d \in Daemons |-> dm'[d]]
  BY DEF DayPasses
<1>3. dm' \in DmType /\ Quiescent'
  BY <1>1, <1>2 DEF DmType, Quiescent
<1>4. file' \in FileType /\ Aged'
  BY DEF DayPasses, FileType, OnDisk, Aged
<1> QED BY <1>3, <1>4

\* Types hold in the beginning.
LEMMA InitTypes == Init => TypesInv
<1> SUFFICES ASSUME Init PROVE TypesInv
  OBVIOUS
<1>1. scn \in Scenarios
  BY DEF Init
<1>2. \A d \in scn.before : scn.accept[d][1] \in Offer
  <2> TAKE d \in scn.before
  <2>1. scn.accept[d] \in Seq(Offer) /\ scn.accept[d] # <<>>
    BY <1>1, ScenarioFacts DEF Offer
  <2> QED BY <2>1
<1>3. file \in FileType
  BY <1>1, <1>2, ScenarioFacts DEF Init, FileType, OnDisk, Offer
<1>4. Types
  <2>1. lis \in LisType
    BY DEF Init, LisType
  <2>2. hand \in HandType
    BY DEF Init, HandType, AtHand, HandPcs
  <2>3. dm \in DmType
    BY DEF Init, DmType, Connection, Offer
  <2>4. acc \in AccType
    BY DEF Init, AccType
  <2>5. cli \in CliType
    BY DEF Init, CliType
  <2>6. cache \in [keys : SUBSET Keys, stamp : Nat] /\ kfile \in [keys : (SUBSET Keys) \cup {Half, None}, stamp : Nat]
    BY <1>1, ScenarioFacts DEF Init
  <2>7. tab \in [Codes -> Listeners \cup {None}] /\ day \in BOOLEAN /\ lost \in [Daemons -> SUBSET Causes]
    BY DEF Init
  <2> QED BY <1>1, <1>3, <2>1, <2>2, <2>3, <2>4, <2>5, <2>6, <2>7 DEF Types
<1>5. Holding /\ Stamps /\ Quiescent /\ Aged
  BY PairingAssumption DEF Init, Holding, Stamps, Quiescent, Aged
<1> QED BY <1>4, <1>5 DEF TypesInv

\* `pair listen` keeps the types.
LEMMA ListenTypes ==
  ASSUME TypesInv, NEW l \in Listeners, Listens(l) \/ Quits(l)
  PROVE  TypesInv'
<1> USE DEF TypesInv, Types, Holding, Stamps, Quiescent, Aged
<1>1. CASE Listens(l)
  <2>1. lis' \in LisType
    BY <1>1 DEF Listens, LisType
  <2>2. tab' \in [Codes -> Listeners \cup {None}]
    BY <1>1, ScenarioFacts DEF Listens
  <2>3. UNCHANGED <<scn, hand, cache, kfile, cli, dm, file, acc, day, lost>>
    BY <1>1 DEF Listens, relayKeys
  <2> QED BY <2>1, <2>2, <2>3
<1>2. CASE Quits(l)
  <2>1. lis' \in LisType
    BY <1>2 DEF Quits, LisType
  <2>2. UNCHANGED <<scn, tab, hand, cache, kfile, cli, dm, file, acc, day, lost>>
    BY <1>2 DEF Quits, relayKeys
  <2> QED BY <2>1, <2>2
<1> QED BY <1>1, <1>2

\* The day's passing keeps the types.
LEMMA DayTypes ==
  ASSUME TypesInv, DayPasses
  PROVE  TypesInv'
<1> USE DEF TypesInv, Types, Holding, Stamps, Quiescent, Aged
<1>1. dm' \in DmType /\ Quiescent' /\ file' \in FileType /\ Aged'
  BY Aging
<1>2. day' \in BOOLEAN
  BY DEF DayPasses
<1>3. UNCHANGED <<scn, lis, tab, hand, cache, kfile, cli, acc, lost>>
  BY DEF DayPasses, relayKeys
<1> QED BY <1>1, <1>2, <1>3

\* The relay's handlePair keeps the types.
LEMMA HandleTypes ==
  ASSUME TypesInv, NEW d \in Daemons, Handles(d)
  PROVE  TypesInv'
<1> USE DEF TypesInv, Types, Holding, Stamps, Quiescent, Aged
<1>1. CASE Takes(d)
  <2> DEFINE m == Head(dm[d].out)
  <2>1. dm[d].out \in Seq(Offer) /\ dm[d].out # <<>>
    BY <1>1 DEF Takes, DmType, Connection
  <2>2. m \in Offer /\ Tail(dm[d].out) \in Seq(Offer)
    BY <2>1
  <2>3. dm' = [dm EXCEPT ![d].out = Tail(@)] /\ dm[d].up
    BY <1>1 DEF Takes
  <2>4. dm' \in DmType /\ Quiescent'
    BY <2>2, <2>3 DEF DmType, Connection
  <2>5. UNCHANGED <<scn, lis, cache, kfile, cli, file, acc, day, lost>>
    BY <1>1 DEF Takes, relayKeys
  <2>6. CASE tab[m.code] = None
    <3>1. UNCHANGED <<tab, hand>>
      BY <1>1, <2>6 DEF Takes
    <3> QED BY <2>4, <2>5, <3>1
  <2>7. CASE tab[m.code] # None
    <3>1. tab' \in [Codes -> Listeners \cup {None}]
      BY <1>1, <2>7, <2>2 DEF Takes, EntryTaken, Offer
    <3>2. PICK pc \in HandPcs, b \in BOOLEAN :
            hand' = [hand EXCEPT ![d] = [@ EXCEPT !.code = m.code, !.key = m.key, !.lis = tab[m.code],
                                                  !.pc = pc, !.held = b]]
      <4>1. PICK b \in BOOLEAN : b = (m.key \in Parsed)
        BY InOrNot
      <4>2. PICK pc \in HandPcs :
              hand' = [hand EXCEPT ![d] = [@ EXCEPT !.code = m.code, !.key = m.key, !.lis = tab[m.code],
                                                    !.pc = pc, !.held = m.key \in Parsed]]
        BY <1>1, <2>7 DEF Takes, HandPcs
      <4> QED BY <4>1, <4>2
    <3>3. hand' \in HandType /\ Holding' /\ Stamps'
      <4>1. m.code \in Codes /\ m.key \in Keys \cup {None} /\ tab[m.code] \in Listeners
        BY <2>2, <2>7 DEF Offer
      <4> DEFINE r == [hand[d] EXCEPT !.code = m.code, !.key = m.key, !.lis = tab[m.code], !.pc = pc, !.held = b]
      <4>2. hand' = [hand EXCEPT ![d] = r]
        BY <3>2
      <4> HIDE DEF m
      <4>3. /\ r \in AtHand
            /\ r.lis \in Listeners /\ r.code \in Codes /\ r.stamp = hand[d].stamp
        <5>1. hand[d] \in AtHand
          BY DEF HandType
        <5> HIDE DEF TypesInv, Types, Holding, Stamps, Quiescent, Aged
        <5> QED BY <4>1, <5>1 DEF AtHand
      <4> HIDE DEF r
      <4>4. hand[d].stamp <= kfile.stamp
        OBVIOUS
      <4> HIDE DEF TypesInv, Types, Holding, Stamps, Quiescent, Aged, r
      <4>5. hand \in HandType /\ Holding /\ Stamps
        BY DEF TypesInv, Types
      <4> QED BY <4>2, <4>3, <4>4, <4>5, <2>5, HandUpdate
    <3> QED BY <2>4, <2>5, <3>1, <3>3
  <2> QED BY <2>6, <2>7
<1>2. CASE Stats(d)
  <2>1. hand' \in HandType /\ Holding' /\ Stamps'
    BY <1>2, Statted
  <2>2. UNCHANGED <<scn, lis, tab, cache, kfile, cli, dm, file, acc, day, lost>>
    BY <1>2 DEF Stats, relayKeys
  <2> QED BY <2>1, <2>2
<1>3. CASE Reads(d)
  <2>1. hand' \in HandType /\ Holding' /\ Stamps'
    <3> DEFINE ks == Parsed
    <3>1. ks \in SUBSET Keys
      BY DEF Parsed
    <3> DEFINE r == [hand[d] EXCEPT !.pc = "store", !.keys = ks]
    <3>2. hand' = [hand EXCEPT ![d] = r] /\ hand[d].pc = "read"
      BY <1>3 DEF Reads, HandType, AtHand
    <3>3. UNCHANGED <<kfile, cache>>
      BY <1>3 DEF Reads, relayKeys
    <3> HIDE DEF ks
    <3>4. /\ r \in AtHand
          /\ r.lis = hand[d].lis /\ r.code = hand[d].code /\ r.stamp = hand[d].stamp
      <4>1. hand[d] \in AtHand
        BY DEF HandType
      <4> HIDE DEF TypesInv, Types, Holding, Stamps, Quiescent, Aged
      <4> QED BY <3>1, <4>1 DEF AtHand, HandPcs
    <3> HIDE DEF r
    <3>5. hand[d].stamp <= kfile.stamp /\ hand[d].lis \in Listeners /\ hand[d].code \in Codes
      BY <3>2
    <3> HIDE DEF TypesInv, Types, Holding, Stamps, Quiescent, Aged, r
    <3>6. hand \in HandType /\ Holding /\ Stamps
      BY DEF TypesInv, Types
    <3> QED BY <3>2, <3>3, <3>4, <3>5, <3>6, HandUpdate
  <2>2. UNCHANGED <<scn, lis, tab, cache, kfile, cli, dm, file, acc, day, lost>>
    BY <1>3 DEF Reads, relayKeys
  <2> QED BY <2>1, <2>2
<1>4. CASE Stores(d)
  <2>1. hand' \in HandType /\ Holding' /\ Stamps' /\ cache' \in [keys : SUBSET Keys, stamp : Nat]
    BY <1>4, Stored
  <2>3. lost' \in [Daemons -> SUBSET Causes]
    BY <1>4 DEF Stores, Causes
  <2>4. UNCHANGED <<scn, lis, tab, kfile, cli, dm, file, acc, day>>
    BY <1>4 DEF Stores
  <2> QED BY <2>1, <2>3, <2>4
<1>5. CASE Checks(d)
  <2>1. hand' \in HandType /\ Holding' /\ Stamps'
    <3>1. /\ UNCHANGED <<kfile, cache>> /\ hand[d].pc = "check"
          /\ hand' = [hand EXCEPT ![d].pc = IF hand[d].key \in cache.keys THEN "match" ELSE "reject"]
      BY <1>5 DEF Checks, relayKeys
    <3>2. (IF hand[d].key \in cache.keys THEN "match" ELSE "reject") \in HandPcs
      BY DEF HandPcs
    <3> HIDE DEF TypesInv, Types, Holding, Stamps, Quiescent, Aged
    <3>3. hand \in HandType /\ Holding /\ Stamps
      BY DEF TypesInv, Types
    <3> QED BY <3>1, <3>2, <3>3, NextStep
  <2>2. UNCHANGED <<scn, lis, tab, cache, kfile, cli, dm, file, acc, day, lost>>
    BY <1>5 DEF Checks, relayKeys
  <2> QED BY <2>1, <2>2
<1>6. CASE Rejects(d)
  <2>1. hand' \in HandType /\ Holding' /\ Stamps'
    <3>1. UNCHANGED <<kfile, cache>> /\ hand' = [hand EXCEPT ![d].pc = "idle"] /\ "idle" \in HandPcs
      BY <1>6 DEF Rejects, Done, HandPcs, relayKeys
    <3> HIDE DEF TypesInv, Types, Holding, Stamps, Quiescent, Aged
    <3>2. hand \in HandType /\ Holding /\ Stamps
      BY DEF TypesInv, Types
    <3> QED BY <3>1, <3>2, NextStep
  <2>2. tab' \in [Codes -> Listeners \cup {None}]
    BY <1>6 DEF Rejects
  <2>3. UNCHANGED <<scn, lis, cache, kfile, cli, dm, file, acc, day, lost>>
    BY <1>6 DEF Rejects, relayKeys
  <2> QED BY <2>1, <2>2, <2>3
<1>7. CASE Matches(d)
  <2>1. hand' \in HandType /\ Holding' /\ Stamps'
    <3>1. UNCHANGED <<kfile, cache>> /\ hand' = [hand EXCEPT ![d].pc = "idle"] /\ "idle" \in HandPcs
      BY <1>7 DEF Matches, Done, HandPcs, relayKeys
    <3> HIDE DEF TypesInv, Types, Holding, Stamps, Quiescent, Aged
    <3>2. hand \in HandType /\ Holding /\ Stamps
      BY DEF TypesInv, Types
    <3> QED BY <3>1, <3>2, NextStep
  <2>2. lis' \in LisType
    BY <1>7 DEF Matches, LisType
  <2>3. dm' \in DmType /\ Quiescent'
    BY <1>7, Received DEF Matches
  <2>4. lost' \in [Daemons -> SUBSET Causes]
    BY <1>7 DEF Matches, Blame, Causes
  <2>5. UNCHANGED <<scn, tab, cache, kfile, cli, file, acc, day>>
    BY <1>7 DEF Matches, relayKeys
  <2> QED BY <2>1, <2>2, <2>3, <2>4, <2>5
<1>8. CASE Clears(d)
  <2>1. /\ cache' = [cache EXCEPT !.keys = {}] /\ hand' = [hand EXCEPT ![d].pc = "check"]
        /\ hand[d].pc = "gone" /\ UNCHANGED kfile
    BY <1>8 DEF Clears
  <2>2. cache' \in [keys : SUBSET Keys, stamp : Nat] /\ cache'.stamp = cache.stamp
    BY <2>1
  <2>3. hand' \in HandType /\ Holding' /\ \A e \in Daemons : hand'[e].stamp = hand[e].stamp
    BY <2>1 DEF HandType, AtHand, HandPcs
  <2>4. Stamps'
    BY <2>1, <2>2, <2>3
  <2>5. lost' \in [Daemons -> SUBSET Causes]
    BY <1>8 DEF Clears, Causes
  <2>6. UNCHANGED <<scn, lis, tab, kfile, cli, dm, file, acc, day>>
    BY <1>8 DEF Clears
  <2> QED BY <2>2, <2>3, <2>4, <2>5, <2>6
<1>9. CASE ReadFails(d)
  <2>1. hand' \in HandType /\ Holding' /\ Stamps'
    <3>1. /\ UNCHANGED <<kfile, cache>> /\ hand[d].pc = "read" /\ "check" \in HandPcs
          /\ hand' = [hand EXCEPT ![d].pc = "check"]
      BY <1>9 DEF ReadFails, HandPcs, relayKeys
    <3> HIDE DEF TypesInv, Types, Holding, Stamps, Quiescent, Aged
    <3>2. hand \in HandType /\ Holding /\ Stamps
      BY DEF TypesInv, Types
    <3> QED BY <3>1, <3>2, NextStep
  <2>2. lost' \in [Daemons -> SUBSET Causes]
    BY <1>9 DEF ReadFails, Blame, Causes
  <2>3. UNCHANGED <<scn, lis, tab, cache, kfile, cli, dm, file, acc, day>>
    BY <1>9 DEF ReadFails, relayKeys
  <2> QED BY <2>1, <2>2, <2>3
<1> QED BY <1>1, <1>2, <1>3, <1>4, <1>5, <1>6, <1>7, <1>8, <1>9 DEF Handles, Reloads

\* The key commands keep the types.
LEMMA CliTypes ==
  ASSUME TypesInv, NEW x \in Clis, CliReads(x) \/ CliWrites(x)
  PROVE  TypesInv'
<1> USE DEF TypesInv, Types, Holding, Stamps, Quiescent, Aged
<1>1. CASE CliReads(x)
  <2>1. cli' \in CliType
    BY <1>1, ScenarioFacts DEF CliReads, Parsed, CliType
  <2>2. UNCHANGED <<scn, lis, tab, hand, cache, kfile, dm, file, acc, day, lost>>
    BY <1>1 DEF CliReads
  <2> QED BY <2>1, <2>2
<1>2. CASE CliWrites(x)
  <2>1. cli' \in CliType
    BY <1>2 DEF CliWrites, CliType
  <2>2. kfile' \in [keys : (SUBSET Keys) \cup {Half, None}, stamp : Nat]
    BY <1>2 DEF CliWrites, CliType
  <2>3. hand' \in HandType /\ Holding'
    <3>1. CASE cli[x].pc = "truncate"
      BY <1>2, <3>1 DEF CliWrites, HandType, AtHand
    <3>2. CASE cli[x].pc = "write"
      <4>1. hand' = [d \in Daemons |-> [hand[d] EXCEPT !.held = @ \/ hand[d].key \in cli[x].keys]]
        BY <1>2, <3>2 DEF CliWrites, Witnessed
      <4> DEFINE h == [d \in Daemons |-> hand[d].held \/ hand[d].key \in cli[x].keys]
      <4>2. \A d \in Daemons : h[d] \in BOOLEAN
        OBVIOUS
      <4>3. hand' = [d \in Daemons |-> [hand[d] EXCEPT !.held = h[d]]]
        BY <4>1
      <4> HIDE DEF h
      <4>4. \A d \in Daemons :
              /\ hand'[d] \in AtHand
              /\ hand'[d].pc = hand[d].pc /\ hand'[d].lis = hand[d].lis /\ hand'[d].code = hand[d].code
        <5> TAKE d \in Daemons
        <5>1. hand'[d] = [hand[d] EXCEPT !.held = h[d]] /\ h[d] \in BOOLEAN
          BY <4>2, <4>3
        <5>2. hand[d] \in AtHand
          BY DEF HandType, AtHand
        <5> QED BY <5>1, <5>2 DEF AtHand
      <4> QED BY <4>3, <4>4 DEF HandType, AtHand
    <3> QED BY <1>2, <3>1, <3>2 DEF CliWrites
  <2>4. Stamps'
    <3>1. kfile'.stamp = kfile.stamp + 1 /\ kfile.stamp < MaxStamp /\ MaxStamp \in Nat
      BY <1>2, PairingAssumption DEF CliWrites
    <3>2. \A d \in Daemons : hand'[d].stamp = hand[d].stamp
      BY <1>2 DEF CliWrites, Witnessed, HandType, AtHand
    <3>3. cache' = cache
      BY <1>2 DEF CliWrites
    <3> QED BY <3>1, <3>2, <3>3 DEF HandType, AtHand
  <2>5. UNCHANGED <<scn, lis, tab, cache, dm, file, acc, day, lost>>
    BY <1>2 DEF CliWrites
  <2> QED BY <2>1, <2>2, <2>3, <2>4, <2>5
<1> QED BY <1>1, <1>2

\* The daemon keeps the types.
LEMMA DaemonTypes ==
  ASSUME TypesInv, NEW d \in Daemons, Works(d) \/ Drops(d) \/ Accepts(d)
  PROVE  TypesInv'
<1> USE DEF TypesInv, Types, Holding, Stamps, Quiescent, Aged
<1>1. CASE Offers(d)
  <2>1. dm' \in DmType /\ Quiescent'
    <3> DEFINE r == [dm[d] EXCEPT !.due = FALSE, !.sees = IF file[d].code \in Codes THEN file[d].code ELSE None]
    <3>1. dm[d] \in Connection
      BY DEF DmType
    <3>2. r \in Connection /\ (~r.up => r.in = <<>> /\ r.out = <<>>)
      BY <1>1, <3>1 DEF Connection, Offers
    <3>3. dm' = [dm EXCEPT ![d] = r]
      BY <1>1, <3>1 DEF Offers, Connection, DmType
    <3> HIDE DEF r
    <3> QED BY <3>2, <3>3, DmUpdate
  <2>2. UNCHANGED <<scn, lis, tab, hand, cache, kfile, cli, file, acc, day, lost>>
    BY <1>1 DEF Offers, relayKeys
  <2> QED BY <2>1, <2>2
<1>2. CASE Sends(d)
  <2>1. dm' \in DmType /\ Quiescent'
    BY <1>2, Sent
  <2>2. file' \in FileType /\ Aged'
    BY <1>2 DEF Sends, AfterSend
  <2>3. UNCHANGED <<scn, lis, tab, hand, cache, kfile, cli, acc, day, lost>>
    BY <1>2 DEF Sends, relayKeys
  <2> QED BY <2>1, <2>2, <2>3
<1>3. CASE Retries(d)
  <2>1. dm' \in DmType /\ Quiescent'
    BY <1>3, Retried
  <2>2. UNCHANGED <<scn, lis, tab, hand, cache, kfile, cli, file, acc, day, lost>>
    BY <1>3 DEF Retries, relayKeys
  <2> QED BY <2>1, <2>2
<1>4. CASE Expires(d)
  <2>1. dm' \in DmType /\ Quiescent'
    BY <1>4, Retried
  <2>2. file' \in FileType /\ Aged'
    <3> DEFINE r == IF file[d].code \in Codes THEN [file[d] EXCEPT !.code = None, !.old = FALSE] ELSE file[d]
    <3>1. file[d] \in OnDisk
      BY DEF FileType
    <3>2. r \in OnDisk /\ (r.old => r.code # None)
      BY <1>4, <3>1 DEF OnDisk, Expires, NoCode
    <3>3. file' = [file EXCEPT ![d] = r]
      BY <1>4, <3>1 DEF Expires, OnDisk, FileType, NoCode
    <3> HIDE DEF r
    <3> QED BY <3>2, <3>3, FileUpdate
  <2>3. lost' \in [Daemons -> SUBSET Causes]
    BY <1>4 DEF Expires, Blame, Causes
  <2>4. UNCHANGED <<scn, lis, tab, hand, cache, kfile, cli, acc, day>>
    BY <1>4 DEF Expires, relayKeys
  <2> QED BY <2>1, <2>2, <2>3, <2>4
<1>5. CASE Confirmed(d)
  <2>1. dm' \in DmType /\ Quiescent'
    BY <1>5, Consumed
  <2>2. file' \in FileType /\ Aged'
    <3> DEFINE r == [file[d] EXCEPT !.code = None, !.old = FALSE, !.key = None]
    <3>1. file[d] \in OnDisk
      BY DEF FileType
    <3>2. r \in OnDisk /\ ~r.old
      BY <3>1 DEF OnDisk
    <3>3. file' = [file EXCEPT ![d] = r]
      BY <1>5, <3>1 DEF Confirmed, NoCode, FileType, OnDisk
    <3> HIDE DEF r
    <3> QED BY <3>2, <3>3, FileUpdate
  <2>3. lost' \in [Daemons -> SUBSET Causes]
    BY <1>5 DEF Confirmed, Blame, Causes
  <2>4. UNCHANGED <<scn, lis, tab, hand, cache, kfile, cli, acc, day>>
    BY <1>5 DEF Confirmed, relayKeys
  <2> QED BY <2>1, <2>2, <2>3, <2>4
<1>6. CASE Redials(d)
  <2>1. dm' \in DmType /\ Quiescent'
    <3> DEFINE r == [dm[d] EXCEPT !.up = TRUE, !.due = TRUE, !.loop = LoopStart(d)]
    <3>1. dm[d] \in Connection
      BY DEF DmType
    <3>2. r \in Connection /\ (~r.up => r.in = <<>> /\ r.out = <<>>)
      BY <1>6, <3>1 DEF Connection, LoopStart, Redials
    <3>3. dm' = [dm EXCEPT ![d] = r]
      BY <1>6, <3>1 DEF Redials, Connection, DmType, LoopStart
    <3> HIDE DEF r
    <3> QED BY <3>2, <3>3, DmUpdate
  <2>2. UNCHANGED <<scn, lis, tab, hand, cache, kfile, cli, file, acc, day, lost>>
    BY <1>6 DEF Redials, relayKeys
  <2> QED BY <2>1, <2>2
<1>7. CASE Drops(d)
  <2>1. dm' \in DmType /\ Quiescent'
    BY <1>7, Dropped
  <2>2. UNCHANGED <<scn, lis, tab, hand, cache, kfile, cli, file, acc, day, lost>>
    BY <1>7 DEF Drops, relayKeys
  <2> QED BY <2>1, <2>2
<1>8. CASE Accepts(d)
  <2> DEFINE w == Wanted(d)
  <2>1. w.code \in Codes /\ w.key \in Keys \cup {None}
    <3>1. scn.accept[d] \in Seq([code : Codes, key : Keys \cup {None}])
      BY ScenarioFacts
    <3>2. acc[d].n \in 1 .. Len(scn.accept[d])
      BY <1>8, <3>1 DEF Accepts, AccType
    <3>3. w \in [code : Codes, key : Keys \cup {None}]
      <4>1. scn.accept[d][acc[d].n] \in [code : Codes, key : Keys \cup {None}]
        BY <3>1, <3>2, ElementOf
      <4> QED BY <4>1 DEF Wanted
    <3> QED BY <3>3
  <2>2. file' \in FileType /\ Aged'
    <3> DEFINE at == acc[d].pc
               r == CASE at = "code" -> [file[d] EXCEPT !.code = Half, !.old = FALSE]
                      [] at = "code2" -> IF file[d].code = None THEN file[d]
                                         ELSE [file[d] EXCEPT !.code = w.code, !.old = FALSE]
                      [] at = "key" -> [file[d] EXCEPT !.key = w.key]
                      [] OTHER -> file[d]
    <3>1. file[d] \in OnDisk /\ at \in {"code", "code2", "key", "signal"}
      BY DEF FileType, AccType
    <3>2. file' = [file EXCEPT ![d] = r]
      BY <1>8 DEF Accepts, FileType
    <3> HIDE DEF w
    <3>3. r \in OnDisk /\ (r.old => r.code # None)
      <4>1. CASE at = "code"
        BY <4>1, <3>1 DEF OnDisk
      <4>2. CASE at = "code2"
        BY <4>2, <3>1, <2>1 DEF OnDisk
      <4>3. CASE at = "key"
        BY <4>3, <3>1, <2>1 DEF OnDisk
      <4>4. CASE at = "signal"
        BY <4>4, <3>1
      <4> QED BY <3>1, <4>1, <4>2, <4>3, <4>4
    <3> HIDE DEF r
    <3> QED BY <3>2, <3>3, FileUpdate
  <2>3. acc' \in AccType
    BY <1>8 DEF Accepts, AccType
  <2>4. dm' \in DmType /\ Quiescent'
    <3> DEFINE r == [dm[d] EXCEPT !.due = IF acc[d].pc = "signal" THEN dm[d].up ELSE @]
    <3>1. dm[d] \in Connection
      BY DEF DmType
    <3>2. r \in Connection /\ (~r.up => r.in = <<>> /\ r.out = <<>>)
      BY <1>8, <3>1 DEF Connection, Accepts
    <3>3. dm' = [dm EXCEPT ![d] = r]
      BY <1>8, <3>1 DEF Accepts, Connection, DmType
    <3> HIDE DEF r
    <3> QED BY <3>2, <3>3, DmUpdate
  <2>5. UNCHANGED <<scn, lis, tab, hand, cache, kfile, cli, day, lost>>
    BY <1>8 DEF Accepts, relayKeys
  <2> QED BY <2>2, <2>3, <2>4, <2>5
<1> QED BY <1>1, <1>2, <1>3, <1>4, <1>5, <1>6, <1>7, <1>8 DEF Works

\* Every step keeps the types.
LEMMA StepTypes == TypesInv /\ [Next]_vars => TypesInv'
<1> SUFFICES ASSUME TypesInv, [Next]_vars PROVE TypesInv'
  OBVIOUS
<1>1. ASSUME NEW l \in Listeners, Listens(l) \/ Quits(l) PROVE TypesInv'
  BY <1>1, ListenTypes
<1>2. ASSUME NEW x \in Clis, CliReads(x) \/ CliWrites(x) PROVE TypesInv'
  BY <1>2, CliTypes
<1>3. ASSUME NEW d \in Daemons, Handles(d) PROVE TypesInv'
  BY <1>3, HandleTypes
<1>4. ASSUME NEW d \in Daemons, Works(d) \/ Drops(d) \/ Accepts(d) PROVE TypesInv'
  BY <1>4, DaemonTypes
<1>5. CASE DayPasses
  BY <1>5, DayTypes
<1>6. CASE UNCHANGED vars
  BY <1>6 DEF vars, TypesInv, Types, Holding, Stamps, Quiescent, Aged
<1> QED BY <1>1, <1>2, <1>3, <1>4, <1>5, <1>6 DEF Next

LEMMA TypesSuffice == TypesInv => TypeOK
<1> SUFFICES ASSUME TypesInv PROVE TypeOK
  OBVIOUS
<1> USE DEF TypesInv, Types
<1>1. \A l \in Listeners : lis[l].st \in {"idle", "waiting", "paired", "gone"} /\ lis[l].got \in Seq(Daemons)
  BY DEF LisType
<1>2. ASSUME NEW d \in Daemons
      PROVE  /\ hand[d].pc \in {"idle", "stat", "gone", "read", "store", "check", "match", "reject"}
             /\ hand[d].pc # "idle" => hand[d].lis \in Listeners /\ hand[d].code \in Codes
             /\ hand[d].stamp \in 0 .. MaxStamp /\ hand[d].keys \subseteq Keys /\ hand[d].held \in BOOLEAN
  <2>1. hand[d] \in AtHand
    BY DEF HandType
  <2>2. hand[d].stamp \in 0 .. MaxStamp
    BY <2>1, PairingAssumption DEF Stamps, AtHand
  <2> QED BY <2>1, <2>2 DEF AtHand, HandPcs, Holding
<1>3. ASSUME NEW d \in Daemons
      PROVE  /\ dm[d].loop \in {"young", "old", "ended"} /\ dm[d].sees \in Codes \cup {None}
             /\ dm[d].in \in Seq(Codes) /\ (~dm[d].up => dm[d].in = <<>> /\ dm[d].out = <<>>)
  BY DEF DmType, Connection, Quiescent
<1>4. ASSUME NEW d \in Daemons
      PROVE  /\ file[d].code \in Codes \cup {None, Half} /\ file[d].key \in Keys \cup {None}
             /\ file[d].old => file[d].code # None
  BY DEF FileType, OnDisk, Aged
<1>5. cache.keys \subseteq Keys /\ cache.stamp <= kfile.stamp
  BY DEF Stamps
<1> QED BY <1>1, <1>2, <1>3, <1>4, <1>5 DEF TypeOK

(***************************************************************************)
(* The types of relay, daemons, files and commands, for any number of      *)
(* them: in particular handlePair never works on a code or listener that   *)
(* is not there, a connection that is lost carries nothing, and the cache  *)
(* of keys is never of a later writing than the file.                      *)
(***************************************************************************)
THEOREM PairTypes == Spec => []TypeOK
<1>1. Init => TypesInv
  BY InitTypes
<1>2. TypesInv /\ [Next]_vars => TypesInv'
  BY StepTypes
<1>3. TypesInv => TypeOK
  BY TypesSuffice
<1> QED BY <1>1, <1>2, <1>3, PTL DEF Spec

---------------------------------------------------------------------------
(***************************************************************************)
(* Where a listener is: in the relay's table under its own code, at hand   *)
(* for one daemon, or told.                                                *)
(***************************************************************************)
Busy(d) == hand[d].pc # "idle"
InTable ==
  \A c \in Codes : tab[c] # None =>
    /\ scn.listen[tab[c]] = c
    /\ lis[tab[c]].st # "idle" /\ lis[tab[c]].got = <<>>
    /\ \A d \in Daemons : Busy(d) => hand[d].lis # tab[c]
InHand ==
  \A d \in Daemons : Busy(d) =>
    /\ scn.listen[hand[d].lis] = hand[d].code
    /\ lis[hand[d].lis].st # "idle" /\ lis[hand[d].lis].got = <<>>
    /\ \A e \in Daemons : Busy(e) /\ hand[e].lis = hand[d].lis => e = d
Told == \A l \in Listeners : (lis[l].st = "idle" => lis[l].got = <<>>) /\ Len(lis[l].got) <= 1

Where == InTable /\ InHand /\ Told
OneInv == TypesInv /\ Where

LEMMA InitOne == Init => OneInv
<1> SUFFICES ASSUME Init PROVE OneInv
  OBVIOUS
<1>1. InTable /\ InHand /\ Told
  BY DEF Init, InTable, InHand, Told, Busy
<1> QED BY <1>1, InitTypes DEF OneInv, Where

\* The types of what these steps touch.
LEMMA Places ==
  ASSUME TypesInv
  PROVE  /\ \A c \in Codes : tab[c] \in Listeners \cup {None}
         /\ tab = [c \in Codes |-> tab[c]]
         /\ \A l \in Listeners : lis[l] \in [st : {"idle", "waiting", "paired", "gone"}, got : Seq(Daemons)]
         /\ lis = [l \in Listeners |-> lis[l]]
         /\ \A d \in Daemons : hand[d] \in AtHand
         /\ hand = [d \in Daemons |-> hand[d]]
         /\ \A d \in Daemons : Busy(d) => hand[d].lis \in Listeners /\ hand[d].code \in Codes
<1> USE DEF TypesInv, Types
<1>1. hand \in [Daemons -> AtHand]
  BY DEF HandType
<1>2. lis \in [Listeners -> [st : {"idle", "waiting", "paired", "gone"}, got : Seq(Daemons)]]
  BY DEF LisType
<1> QED BY <1>1, <1>2 DEF Holding, Busy

\* A step that moves no listener.
LEMMA Elsewhere ==
  ASSUME Where, UNCHANGED <<scn, lis, tab>>,
         \A d \in Daemons : /\ (Busy(d))' = Busy(d)
                            /\ Busy(d) => hand'[d].lis = hand[d].lis /\ hand'[d].code = hand[d].code
  PROVE  Where'
<1>1. InTable'
  BY DEF Where, InTable, Busy
<1>2. InHand'
  BY DEF Where, InHand, Busy
<1>3. Told'
  BY DEF Where, Told
<1> QED BY <1>1, <1>2, <1>3 DEF Where

\* A listener that starts is nowhere yet; one that ends stays where it is.
LEMMA ListenOne ==
  ASSUME TypesInv, Where, NEW l \in Listeners, Listens(l) \/ Quits(l)
  PROVE  Where'
<1>1. CASE Listens(l)
  <2>1. /\ UNCHANGED <<scn, hand>> /\ lis[l].st = "idle"
        /\ scn.listen[l] \in Codes
        /\ lis' = [lis EXCEPT ![l].st = "waiting"]
        /\ tab' = [tab EXCEPT ![scn.listen[l]] = l]
    BY <1>1, ScenarioFacts DEF Listens, TypesInv, Types
  <2>2. /\ lis[l].got = <<>>
        /\ \A c \in Codes : tab[c] # l
        /\ \A d \in Daemons : Busy(d) => hand[d].lis # l
    BY <2>1, NoneIsNone DEF Where, Told, InTable, InHand
  <2>3. /\ lis'[l].st = "waiting" /\ lis'[l].got = <<>>
        /\ \A m \in Listeners : m # l => lis'[m] = lis[m]
    BY <2>1, <2>2, Places
  <2>4. /\ tab'[scn.listen[l]] = l
        /\ \A c \in Codes : c # scn.listen[l] => tab'[c] = tab[c]
    BY <2>1, Places
  <2>5. InTable'
    <3> SUFFICES ASSUME NEW c \in Codes, tab'[c] # None
                 PROVE  /\ scn.listen[tab'[c]] = c
                        /\ lis'[tab'[c]].st # "idle" /\ lis'[tab'[c]].got = <<>>
                        /\ \A d \in Daemons : Busy(d) => hand[d].lis # tab'[c]
      BY <2>1 DEF InTable, Busy
    <3> QED BY <2>2, <2>3, <2>4, Places DEF Where, InTable
  <2>6. InHand'
    BY <2>1, <2>2, <2>3, Places DEF Where, InHand, Busy
  <2>7. Told'
    BY <2>3 DEF Where, Told
  <2> QED BY <2>5, <2>6, <2>7 DEF Where
<1>2. CASE Quits(l)
  <2>1. UNCHANGED <<scn, hand, tab>> /\ lis' = [lis EXCEPT ![l].st = "gone"]
    BY <1>2 DEF Quits
  <2>2. \A m \in Listeners : lis'[m].got = lis[m].got /\ (lis'[m].st = "idle" => lis[m].st = "idle")
    BY <2>1, Places
  <2>3. InTable'
    BY <2>1, <2>2, Places DEF Where, InTable, Busy
  <2>4. InHand'
    BY <2>1, <2>2, Places DEF Where, InHand, Busy
  <2>5. Told'
    BY <2>2 DEF Where, Told
  <2> QED BY <2>3, <2>4, <2>5 DEF Where
<1> QED BY <1>1, <1>2

\* From the table to a handlePair.
LEMMA TakesOne ==
  ASSUME TypesInv, Where, NEW d \in Daemons, Takes(d)
  PROVE  Where'
<1> DEFINE m == Head(dm[d].out)
<1>1. m.code \in Codes /\ UNCHANGED <<scn, lis>> /\ ~Busy(d)
  <2>1. dm[d].out \in Seq(Offer) /\ dm[d].out # <<>>
    BY DEF Takes, TypesInv, Types, DmType, Connection
  <2>2. m \in Offer
    BY <2>1
  <2> QED BY <2>2 DEF Offer, Takes, Busy
<1>2. CASE tab[m.code] = None
  <2>1. UNCHANGED <<tab, hand>>
    BY <1>2 DEF Takes
  <2> QED BY <1>1, <2>1, Elsewhere DEF Busy
<1>3. CASE tab[m.code] # None
  <2>1. tab' = [tab EXCEPT ![m.code] = None]
    BY <1>3 DEF Takes, EntryTaken
  <2>2. /\ hand'[d].lis = tab[m.code] /\ hand'[d].code = m.code
        /\ \A e \in Daemons : e # d => hand'[e] = hand[e]
    <3>1. PICK pc \in HandPcs, b \in BOOLEAN :
            hand' = [hand EXCEPT ![d] = [@ EXCEPT !.code = m.code, !.key = m.key, !.lis = tab[m.code],
                                                  !.pc = pc, !.held = b]]
      <4>1. PICK b \in BOOLEAN : b = (m.key \in Parsed)
        BY InOrNot
      <4>2. PICK pc \in HandPcs :
              hand' = [hand EXCEPT ![d] = [@ EXCEPT !.code = m.code, !.key = m.key, !.lis = tab[m.code],
                                                    !.pc = pc, !.held = m.key \in Parsed]]
        BY <1>3 DEF Takes, HandPcs
      <4> QED BY <4>1, <4>2
    <3>2. hand[d] \in AtHand /\ hand = [e \in Daemons |-> hand[e]]
      BY Places
    <3> DEFINE r == [hand[d] EXCEPT !.code = m.code, !.key = m.key, !.lis = tab[m.code], !.pc = pc, !.held = b]
    <3>3. hand' = [hand EXCEPT ![d] = r]
      BY <3>1
    <3>4. r.lis = tab[m.code] /\ r.code = m.code
      BY <3>2 DEF AtHand
    <3> HIDE DEF r
    <3> QED BY <3>2, <3>3, <3>4
  <2> HIDE DEF m
  <2>3. /\ tab'[m.code] = None
        /\ \A c \in Codes : c # m.code => tab'[c] = tab[c]
    BY <1>1, <2>1, Places
  <2>4. InTable'
    <3> SUFFICES ASSUME NEW c \in Codes, tab'[c] # None
                 PROVE  /\ scn.listen[tab'[c]] = c
                        /\ lis[tab'[c]].st # "idle" /\ lis[tab'[c]].got = <<>>
                        /\ \A e \in Daemons : hand'[e].pc # "idle" => hand'[e].lis # tab'[c]
      BY <1>1 DEF InTable, Busy
    <3>1. c # m.code /\ tab'[c] = tab[c] /\ scn.listen[tab[c]] = c /\ scn.listen[tab[m.code]] = m.code
      BY <1>1, <1>3, <2>3 DEF Where, InTable
    <3>2. tab[c] # tab[m.code]
      BY <3>1
    <3> QED BY <2>2, <3>1, <3>2 DEF Where, InTable, Busy
  <2>5. InHand'
    <3> SUFFICES ASSUME NEW e \in Daemons, hand'[e].pc # "idle"
                 PROVE  /\ scn.listen[hand'[e].lis] = hand'[e].code
                        /\ lis[hand'[e].lis].st # "idle" /\ lis[hand'[e].lis].got = <<>>
                        /\ \A f \in Daemons : hand'[f].pc # "idle" /\ hand'[f].lis = hand'[e].lis => f = e
      BY <1>1 DEF InHand, Busy
    <3>1. CASE e = d
      BY <1>1, <1>3, <2>2, <3>1 DEF Where, InTable, Busy
    <3>2. CASE e # d
      BY <1>1, <1>3, <2>2, <3>2 DEF Where, InTable, InHand, Busy
    <3> QED BY <3>1, <3>2
  <2>6. Told'
    BY <1>1 DEF Where, Told
  <2> QED BY <2>4, <2>5, <2>6 DEF Where
<1> QED BY <1>2, <1>3

\* From a handlePair back to the table, over whatever is there by now.
LEMMA RejectsOne ==
  ASSUME TypesInv, Where, NEW d \in Daemons, Rejects(d)
  PROVE  Where'
<1> DEFINE l == hand[d].lis  c0 == hand[d].code
<1>1. /\ UNCHANGED <<scn, lis>> /\ Busy(d)
      /\ tab' = [tab EXCEPT ![c0] = l] /\ hand' = [hand EXCEPT ![d].pc = "idle"]
  BY DEF Rejects, Done, Busy
<1>2. /\ l \in Listeners /\ c0 \in Codes
      /\ scn.listen[l] = c0 /\ lis[l].st # "idle" /\ lis[l].got = <<>>
      /\ \A e \in Daemons : e # d /\ Busy(e) => hand[e].lis # l
  BY <1>1, Places DEF Where, InHand
<1>3. /\ hand'[d].pc = "idle"
      /\ \A e \in Daemons : e # d => hand'[e] = hand[e]
  BY <1>1, Places
<1> HIDE DEF l, c0
<1>4. /\ tab'[c0] = l
      /\ \A c \in Codes : c # c0 => tab'[c] = tab[c]
  BY <1>1, <1>2, Places
<1>5. InTable'
  <2> SUFFICES ASSUME NEW c \in Codes, tab'[c] # None
               PROVE  /\ scn.listen[tab'[c]] = c
                      /\ lis[tab'[c]].st # "idle" /\ lis[tab'[c]].got = <<>>
                      /\ \A e \in Daemons : hand'[e].pc # "idle" => hand'[e].lis # tab'[c]
    BY <1>1 DEF InTable, Busy
  <2>1. CASE c = c0
    BY <1>2, <1>3, <1>4, <2>1 DEF Busy
  <2>2. CASE c # c0
    BY <1>3, <1>4, <2>2 DEF Where, InTable, Busy
  <2> QED BY <2>1, <2>2
<1>6. InHand'
  BY <1>1, <1>3 DEF Where, InHand, Busy
<1>7. Told'
  BY <1>1 DEF Where, Told
<1> QED BY <1>5, <1>6, <1>7 DEF Where

\* From a handlePair to its daemon: the listener is told, or is gone.
LEMMA MatchesOne ==
  ASSUME TypesInv, Where, NEW d \in Daemons, Matches(d)
  PROVE  Where'
<1> DEFINE l == hand[d].lis
<1>1. UNCHANGED <<scn, tab>> /\ Busy(d) /\ hand' = [hand EXCEPT ![d].pc = "idle"]
  BY DEF Matches, Done, Busy
<1>2. /\ l \in Listeners /\ lis[l].got = <<>>
      /\ \A e \in Daemons : e # d /\ Busy(e) => hand[e].lis # l
      /\ \A c \in Codes : tab[c] # None => tab[c] # l
  BY <1>1, Places DEF Where, InHand, InTable
<1>3. /\ hand'[d].pc = "idle"
      /\ \A e \in Daemons : e # d => hand'[e] = hand[e]
  BY <1>1, Places
<1>4. /\ \A m \in Listeners : m # l => lis'[m] = lis[m]
      /\ lis'[l] = lis[l] \/ (lis'[l].st = "paired" /\ lis'[l].got = Append(lis[l].got, d))
  BY <1>2, Places DEF Matches
<1>5. Len(lis'[l].got) <= 1
  <2>1. CASE lis'[l] = lis[l]
    BY <1>2, <2>1 DEF Where, Told
  <2>2. CASE lis'[l].got = Append(lis[l].got, d)
    <3>1. lis'[l].got = <<d>>
      BY <1>2, <2>2
    <3> QED BY <3>1
  <2> QED BY <1>4, <2>1, <2>2
<1> HIDE DEF l
<1>6. InTable'
  BY <1>1, <1>2, <1>3, <1>4, Places DEF Where, InTable, Busy
<1>7. InHand'
  <2> SUFFICES ASSUME NEW e \in Daemons, hand'[e].pc # "idle"
               PROVE  /\ scn.listen[hand'[e].lis] = hand'[e].code
                      /\ lis'[hand'[e].lis].st # "idle" /\ lis'[hand'[e].lis].got = <<>>
                      /\ \A f \in Daemons : hand'[f].pc # "idle" /\ hand'[f].lis = hand'[e].lis => f = e
    BY <1>1 DEF InHand, Busy
  <2>1. e # d /\ hand'[e] = hand[e] /\ Busy(e) /\ hand[e].lis \in Listeners /\ hand[e].lis # l
    BY <1>2, <1>3, Places DEF Busy
  <2> QED BY <2>1, <1>3, <1>4 DEF Where, InHand, Busy
<1>8. Told'
  <2> SUFFICES ASSUME NEW m \in Listeners
               PROVE  (lis'[m].st = "idle" => lis'[m].got = <<>>) /\ Len(lis'[m].got) <= 1
    BY DEF Told
  <2> QED BY <1>4, <1>5 DEF Where, Told
<1> QED BY <1>6, <1>7, <1>8 DEF Where

\* What handlePair does between taking a listener and having done with it.
LEMMA HandleOne ==
  ASSUME TypesInv, Where, NEW d \in Daemons, Handles(d)
  PROVE  Where'
<1>1. CASE Takes(d)
  BY <1>1, TakesOne
<1>2. CASE Stats(d)
  <2>1. UNCHANGED <<scn, lis, tab>> /\ hand[d].pc = "stat"
    BY <1>2 DEF Stats
  <2>2. \A e \in Daemons : /\ (Busy(e))' = Busy(e)
                           /\ Busy(e) => hand'[e].lis = hand[e].lis /\ hand'[e].code = hand[e].code
    BY <1>2, <2>1, Places DEF Stats, AtHand, Busy
  <2> QED BY <2>1, <2>2, Elsewhere
<1>3. CASE Reads(d)
  <2>1. UNCHANGED <<scn, lis, tab>> /\ hand[d].pc = "read"
    BY <1>3 DEF Reads
  <2>2. \A e \in Daemons : /\ (Busy(e))' = Busy(e)
                           /\ Busy(e) => hand'[e].lis = hand[e].lis /\ hand'[e].code = hand[e].code
    BY <1>3, <2>1, Places DEF Reads, AtHand, Busy
  <2> QED BY <2>1, <2>2, Elsewhere
<1>4. CASE Stores(d)
  <2>1. UNCHANGED <<scn, lis, tab>> /\ hand[d].pc = "store"
    BY <1>4 DEF Stores
  <2>2. \A e \in Daemons : /\ (Busy(e))' = Busy(e)
                           /\ Busy(e) => hand'[e].lis = hand[e].lis /\ hand'[e].code = hand[e].code
    BY <1>4, <2>1, Places DEF Stores, AtHand, Busy
  <2> QED BY <2>1, <2>2, Elsewhere
<1>5. CASE Checks(d)
  <2>1. UNCHANGED <<scn, lis, tab>> /\ hand[d].pc = "check"
    BY <1>5 DEF Checks
  <2>2. \A e \in Daemons : /\ (Busy(e))' = Busy(e)
                           /\ Busy(e) => hand'[e].lis = hand[e].lis /\ hand'[e].code = hand[e].code
    BY <1>5, <2>1, Places DEF Checks, AtHand, Busy
  <2> QED BY <2>1, <2>2, Elsewhere
<1>6. CASE Rejects(d)
  BY <1>6, RejectsOne
<1>7. CASE Matches(d)
  BY <1>7, MatchesOne
<1>8. CASE Clears(d) \/ ReadFails(d)
  <2>1. /\ UNCHANGED <<scn, lis, tab>> /\ hand[d].pc \in {"gone", "read"}
        /\ hand' = [hand EXCEPT ![d].pc = "check"]
    BY <1>8 DEF Clears, ReadFails
  <2>2. \A e \in Daemons : /\ (Busy(e))' = Busy(e)
                           /\ Busy(e) => hand'[e].lis = hand[e].lis /\ hand'[e].code = hand[e].code
    BY <2>1, Places DEF AtHand, Busy
  <2> QED BY <2>1, <2>2, Elsewhere
<1> QED BY <1>1, <1>2, <1>3, <1>4, <1>5, <1>6, <1>7, <1>8 DEF Handles, Reloads

\* Neither a key command nor a daemon moves a listener.
LEMMA OthersOne ==
  ASSUME TypesInv, Where,
         \/ \E x \in Clis : CliReads(x) \/ CliWrites(x)
         \/ \E d \in Daemons : Works(d) \/ Drops(d) \/ Accepts(d)
         \/ DayPasses
         \/ UNCHANGED vars
  PROVE  Where'
<1>1. UNCHANGED <<scn, lis, tab>>
  BY DEF CliReads, CliWrites, Works, Offers, Sends, Retries, Expires, Confirmed, Redials, Drops, Accepts,
         DayPasses, vars
<1>2. \A d \in Daemons : /\ (Busy(d))' = Busy(d)
                         /\ Busy(d) => hand'[d].lis = hand[d].lis /\ hand'[d].code = hand[d].code
  <2>1. CASE hand' = hand
    BY <2>1 DEF Busy
  <2>2. ASSUME NEW x \in Clis, hand' = Witnessed(cli[x].keys)
        PROVE  \A d \in Daemons : /\ hand'[d].pc = hand[d].pc /\ hand'[d].lis = hand[d].lis
                                  /\ hand'[d].code = hand[d].code
    BY <2>2, Places DEF Witnessed, AtHand
  <2>3. hand' = hand \/ \E x \in Clis : hand' = Witnessed(cli[x].keys)
    BY DEF CliReads, CliWrites, Works, Offers, Sends, Retries, Expires, Confirmed, Redials, Drops, Accepts,
           DayPasses, vars
  <2> QED BY <2>1, <2>2, <2>3 DEF Busy
<1> QED BY <1>1, <1>2, Elsewhere

LEMMA StepOne == OneInv /\ [Next]_vars => OneInv'
<1> SUFFICES ASSUME OneInv, [Next]_vars PROVE OneInv'
  OBVIOUS
<1>1. TypesInv /\ Where
  BY DEF OneInv
<1>2. TypesInv'
  BY <1>1, StepTypes
<1>3. ASSUME NEW l \in Listeners, Listens(l) \/ Quits(l) PROVE Where'
  BY <1>1, <1>3, ListenOne
<1>4. ASSUME NEW d \in Daemons, Handles(d) PROVE Where'
  BY <1>1, <1>4, HandleOne
<1>5. ASSUME \/ \E x \in Clis : CliReads(x) \/ CliWrites(x)
             \/ \E d \in Daemons : Works(d) \/ Drops(d) \/ Accepts(d)
             \/ DayPasses
             \/ UNCHANGED vars
      PROVE  Where'
  BY <1>1, <1>5, OthersOne
<1>6. Where'
  BY <1>3, <1>4, <1>5 DEF Next
<1> QED BY <1>2, <1>6 DEF OneInv

LEMMA OneSuffices == OneInv => OneDaemonPerListener
<1> SUFFICES ASSUME OneInv, NEW l \in Listeners
             PROVE  /\ Len(lis[l].got) <= 1
                    /\ Cardinality({d \in Daemons : hand[d].pc # "idle" /\ hand[d].lis = l}) <= 1
  BY DEF OneDaemonPerListener
<1> DEFINE D == {d \in Daemons : hand[d].pc # "idle" /\ hand[d].lis = l}
<1>1. Len(lis[l].got) <= 1
  BY DEF OneInv, Where, Told
<1>2. CASE D = {}
  <2>1. Cardinality(D) = 0
    BY <1>2, FS_EmptySet
  <2> QED BY <1>1, <2>1
<1>3. CASE D # {}
  <2>1. PICK d \in Daemons : D = {d}
    BY <1>3 DEF OneInv, Where, InHand, Busy
  <2>2. Cardinality(D) = 1
    BY <2>1, FS_Singleton
  <2> QED BY <1>1, <2>2
<1> QED BY <1>1, <1>2, <1>3

(***************************************************************************)
(* A pair code serves once (relay.go, handlePair): for any number of       *)
(* listeners and daemons that use the same codes at the same time, a       *)
(* listener is told of one daemon at most and the relay never has it at    *)
(* hand for two, also when a rejection puts it back after other listeners  *)
(* have come and gone under its code, connections are lost, and the key    *)
(* file is rewritten.                                                      *)
(***************************************************************************)
THEOREM OneDaemon == Spec => []OneDaemonPerListener
<1>1. Init => OneInv
  BY InitOne
<1>2. OneInv /\ [Next]_vars => OneInv'
  BY StepOne
<1>3. OneInv => OneDaemonPerListener
  BY OneSuffices
<1> QED BY <1>1, <1>2, <1>3, PTL DEF Spec
---------------------------------------------------------------------------
(***************************************************************************)
(* KeyWasValid.  What the key cache, or a reload that is about to store,   *)
(* holds was in the file at the version of its stamp or a later one, or is *)
(* nothing at all.  A check that has done its stat knows a version that    *)
(* was in the file while it was going on; so a key found in something at   *)
(* least as new was too.  Where a stat finds no file, nothing has been     *)
(* read yet, so that whatever is found later was read since (Bare).        *)
(***************************************************************************)
\* Daemon d's key has been in the file since its check began.
HeldNow ==
  \A d \in Daemons : Busy(d) /\ hand[d].key \in Parsed => hand[d].held

\* What has the file's stamp has the file's keys, or was cleared.
Current ==
  /\ cache.stamp = kfile.stamp => cache.keys \subseteq Parsed
  /\ \A d \in Daemons : hand[d].pc = "store" /\ hand[d].stamp = kfile.stamp => hand[d].keys = Parsed

\* Nothing is read before there is a file.
Bare ==
  /\ kfile.keys = None => cache.keys = {} /\ \A d \in Daemons : hand[d].pc \notin {"read", "store"}
  /\ \A d \in Daemons : hand[d].pc = "gone" => hand[d].stamp = 0

\* Check d has done its stat.
Dated(d) == hand[d].pc \in {"gone", "read", "store", "check"}

\* What is at least as new as d's stat and has d's key had it rightly.
Vouched ==
  \A d \in Daemons : Dated(d) =>
    /\ hand[d].stamp <= cache.stamp /\ hand[d].key \in cache.keys => hand[d].held
    /\ \A e \in Daemons : hand[e].pc = "store" /\ hand[d].stamp <= hand[e].stamp
                          /\ hand[d].key \in hand[e].keys => hand[d].held

\* The look-up is in a cache that is new enough, was set back, or could not
\* be renewed.
Caught == \A d \in Daemons : hand[d].pc = "check" =>
                             hand[d].stamp <= cache.stamp \/ lost[d] \cap {"raced", "unread"} # {}

KeyInv == HeldNow /\ Current /\ Bare /\ Vouched /\ Caught /\ KeyWasValid

\* The cache is empty, nobody is checked.
LEMMA InitKey == Init => KeyInv
<1> SUFFICES ASSUME Init PROVE KeyInv
  OBVIOUS
<1>1. \A d \in Daemons : hand[d].pc = "idle"
  BY DEF Init
<1>2. cache.stamp = 0 /\ cache.keys = {} /\ kfile.stamp = 1
  BY DEF Init
<1> QED BY <1>1, <1>2 DEF KeyInv, HeldNow, Current, Bare, Vouched, Caught, KeyWasValid, Busy, Dated

\* A step that leaves keys and checks alone, and takes no blame back.
LEMMA KeyAside ==
  ASSUME KeyInv, UNCHANGED <<scn, kfile, cache, hand>>, \A d \in Daemons : lost[d] \subseteq lost'[d]
  PROVE  KeyInv'
<1>1. HeldNow' /\ Current' /\ Bare' /\ Vouched'
  BY DEF KeyInv, HeldNow, Current, Bare, Vouched, Parsed, Busy, Dated
<1>2. Caught' /\ KeyWasValid'
  BY DEF KeyInv, Caught, KeyWasValid
<1> QED BY <1>1, <1>2 DEF KeyInv

\* handlePair takes an offer: what the file holds now is held.
LEMMA KeyTakes ==
  ASSUME TypesInv, KeyInv, NEW d \in Daemons, Takes(d)
  PROVE  KeyInv'
<1>1. UNCHANGED <<scn, kfile, cache, lost>> /\ hand[d].pc = "idle"
  BY DEF Takes, relayKeys
<1>2. CASE UNCHANGED hand
  BY <1>1, <1>2, KeyAside
<1>3. CASE ~UNCHANGED hand
  <2>1. /\ hand'[d].pc \in {"match", "reject", "stat"}
        /\ hand'[d].pc = "match" => hand'[d].lis \notin scn.need
        /\ hand'[d].held = (hand'[d].key \in Parsed)
        /\ \A e \in Daemons : e # d => hand'[e] = hand[e]
    <3> DEFINE m == Head(dm[d].out)
               l == tab[m.code]
               now == m.key \in Parsed
               pc == IF l \notin scn.need THEN "match" ELSE IF m.key = None THEN "reject" ELSE "stat"
               r == [hand[d] EXCEPT !.code = m.code, !.key = m.key, !.lis = l, !.pc = pc, !.held = now]
    <3>1. hand' = [hand EXCEPT ![d] = r]
      BY <1>3 DEF Takes
    <3>2. hand[d] \in AtHand /\ hand = [e \in Daemons |-> hand[e]]
      BY Places
    <3>3. pc \in {"match", "reject", "stat"} /\ (pc = "match" => l \notin scn.need)
      OBVIOUS
    <3>4. now = (m.key \in Parsed)
      OBVIOUS
    <3> HIDE DEF m, l, now, pc
    <3>5. r.lis = l /\ r.key = m.key /\ r.pc = pc /\ r.held = now
      BY <3>2 DEF AtHand
    <3> HIDE DEF r
    <3>6. hand'[d] = r /\ \A e \in Daemons : e # d => hand'[e] = hand[e]
      BY <3>1, <3>2
    <3>7. /\ hand'[d].pc \in {"match", "reject", "stat"}
          /\ hand'[d].pc = "match" => hand'[d].lis \notin scn.need
      BY <3>3, <3>5, <3>6
    <3>8. hand'[d].held = (hand'[d].key \in Parsed)
      BY <3>4, <3>5, <3>6
    <3> QED BY <3>6, <3>7, <3>8
  <2>2. HeldNow' /\ Current' /\ Bare'
    BY <1>1, <2>1 DEF KeyInv, HeldNow, Current, Bare, Parsed, Busy
  <2>3. Vouched' /\ Caught'
    BY <1>1, <2>1 DEF KeyInv, Vouched, Caught, Dated
  <2>4. KeyWasValid'
    BY <1>1, <2>1 DEF KeyInv, KeyWasValid
  <2> QED BY <2>2, <2>3, <2>4 DEF KeyInv
<1> QED BY <1>2, <1>3

\* The stat: what is newer than that is current.
LEMMA KeyStats ==
  ASSUME TypesInv, KeyInv, NEW d \in Daemons, Stats(d)
  PROVE  KeyInv'
<1>1. UNCHANGED <<scn, kfile, cache, lost>> /\ hand[d].pc = "stat"
  BY DEF Stats, relayKeys
<1>2. /\ hand'[d].pc = (IF kfile.keys = None THEN "gone"
                        ELSE IF kfile.stamp = cache.stamp THEN "check" ELSE "read")
      /\ hand'[d].stamp = (IF kfile.keys = None THEN 0 ELSE kfile.stamp)
      /\ hand'[d].key = hand[d].key /\ hand'[d].held = hand[d].held
      /\ \A e \in Daemons : e # d => hand'[e] = hand[e]
  BY Places DEF Stats, Fresh, AtHand
<1>3. /\ cache.stamp \in Nat /\ kfile.stamp \in Nat /\ cache.stamp <= kfile.stamp
      /\ \A e \in Daemons : hand[e].stamp \in Nat /\ hand[e].stamp <= kfile.stamp
  BY Places, PairingAssumption DEF TypesInv, Types, Stamps, AtHand
<1>4. HeldNow' /\ Current' /\ Bare'
  BY <1>1, <1>2 DEF KeyInv, HeldNow, Current, Bare, Parsed, Busy
<1>5. hand[d].key \in Parsed => hand[d].held
  BY <1>1 DEF KeyInv, HeldNow, Parsed, Busy
<1>6. Vouched'
  <2>1. ASSUME kfile.stamp <= cache.stamp, hand[d].key \in cache.keys PROVE hand[d].held
    <3>1. cache.stamp = kfile.stamp
      BY <1>3, <2>1
    <3> QED BY <1>5, <2>1, <3>1 DEF KeyInv, Current
  <2>2. ASSUME NEW e \in Daemons, hand[e].pc = "store", kfile.stamp <= hand[e].stamp,
               hand[d].key \in hand[e].keys
        PROVE  hand[d].held
    <3>1. hand[e].stamp = kfile.stamp
      BY <1>3, <2>2
    <3> QED BY <1>5, <2>2, <3>1 DEF KeyInv, Current
  <2>3. CASE kfile.keys = None
    BY <1>1, <1>2, <2>3 DEF KeyInv, Bare, Vouched, Dated
  <2>4. CASE kfile.keys # None
    BY <1>1, <1>2, <2>1, <2>2, <2>4 DEF KeyInv, Vouched, Dated
  <2> QED BY <2>3, <2>4
<1>7. Caught'
  BY <1>1, <1>2, <1>3 DEF KeyInv, Caught
<1>8. KeyWasValid'
  BY <1>1, <1>2 DEF KeyInv, KeyWasValid
<1> QED BY <1>4, <1>6, <1>7, <1>8 DEF KeyInv

\* The read: what the file holds now.
LEMMA KeyReads ==
  ASSUME TypesInv, KeyInv, NEW d \in Daemons, Reads(d)
  PROVE  KeyInv'
<1>1. UNCHANGED <<scn, kfile, cache, lost>> /\ hand[d].pc = "read"
  BY DEF Reads, relayKeys
<1>2. /\ hand'[d].pc = "store" /\ hand'[d].keys = Parsed
      /\ hand'[d].stamp = hand[d].stamp /\ hand'[d].key = hand[d].key /\ hand'[d].held = hand[d].held
      /\ \A e \in Daemons : e # d => hand'[e] = hand[e]
  BY Places DEF Reads, AtHand
<1>3. HeldNow' /\ Current' /\ Bare'
  BY <1>1, <1>2 DEF KeyInv, HeldNow, Current, Bare, Parsed, Busy
<1>4. \A e \in Daemons : Busy(e) /\ hand[e].key \in Parsed => hand[e].held
  BY DEF KeyInv, HeldNow, Parsed
<1>5. Vouched'
  BY <1>1, <1>2, <1>4 DEF KeyInv, Vouched, Dated, Busy
<1>6. Caught' /\ KeyWasValid'
  BY <1>1, <1>2 DEF KeyInv, Caught, KeyWasValid
<1> QED BY <1>3, <1>5, <1>6 DEF KeyInv

\* The store: a slower one is blamed on the checks it comes before.
LEMMA KeyStores ==
  ASSUME TypesInv, KeyInv, NEW d \in Daemons, Stores(d)
  PROVE  KeyInv'
<1>1. UNCHANGED <<scn, kfile>> /\ hand[d].pc = "store"
      /\ cache' = [keys |-> hand[d].keys, stamp |-> hand[d].stamp]
  BY DEF Stores
<1>2. /\ hand'[d].pc = "check" /\ hand'[d].keys = hand[d].keys
      /\ hand'[d].stamp = hand[d].stamp /\ hand'[d].key = hand[d].key /\ hand'[d].held = hand[d].held
      /\ \A e \in Daemons : e # d => hand'[e] = hand[e]
  BY Places DEF Stores, AtHand
<1>3. \A e \in Daemons :
        /\ lost[e] \subseteq lost'[e]
        /\ e # d /\ hand[e].pc = "check" /\ hand[d].stamp < cache.stamp => "raced" \in lost'[e]
  BY DEF Stores
<1>4. cache.stamp \in Nat /\ \A e \in Daemons : hand[e].stamp \in Nat
  BY Places DEF TypesInv, Types, AtHand
<1>5. HeldNow' /\ Current' /\ Bare'
  BY <1>1, <1>2 DEF KeyInv, HeldNow, Current, Bare, Parsed, Busy
<1>6. Vouched'
  BY <1>1, <1>2 DEF KeyInv, Vouched, Dated
<1>7. Caught'
  <2> SUFFICES ASSUME NEW e \in Daemons, hand'[e].pc = "check"
               PROVE  hand'[e].stamp <= hand[d].stamp \/ lost'[e] \cap {"raced", "unread"} # {}
    BY <1>1 DEF Caught
  <2>1. CASE e = d
    BY <1>2, <1>4, <2>1
  <2>2. CASE e # d
    <3>1. hand[e].pc = "check" /\ hand'[e].stamp = hand[e].stamp
      BY <1>2, <2>2
    <3>2. hand[e].stamp <= cache.stamp \/ lost'[e] \cap {"raced", "unread"} # {}
      BY <1>3, <3>1 DEF KeyInv, Caught
    <3> QED BY <1>3, <1>4, <2>2, <3>1, <3>2
  <2> QED BY <2>1, <2>2
<1>8. KeyWasValid'
  BY <1>1, <1>2, <1>3 DEF KeyInv, KeyWasValid
<1> QED BY <1>5, <1>6, <1>7, <1>8 DEF KeyInv

\* No file was there at the stat: the cache, whatever it holds, is cleared.
LEMMA KeyClears ==
  ASSUME TypesInv, KeyInv, NEW d \in Daemons, Clears(d)
  PROVE  KeyInv'
<1>1. UNCHANGED <<scn, kfile>> /\ hand[d].pc = "gone"
  BY DEF Clears
<1>2. cache'.keys = {} /\ cache'.stamp = cache.stamp /\ cache.stamp \in Nat
  BY DEF Clears, TypesInv, Types
<1>3. /\ hand'[d].pc = "check" /\ hand'[d].keys = hand[d].keys /\ hand'[d].lis = hand[d].lis
      /\ hand'[d].stamp = hand[d].stamp /\ hand'[d].key = hand[d].key /\ hand'[d].held = hand[d].held
      /\ \A e \in Daemons : e # d => hand'[e] = hand[e]
  BY Places DEF Clears, AtHand
<1>4. \A e \in Daemons : lost[e] \subseteq lost'[e]
  BY DEF Clears
<1>5. HeldNow' /\ Current' /\ Bare'
  <2>1. HeldNow'
    BY <1>1, <1>3 DEF KeyInv, HeldNow, Parsed, Busy
  <2>2. Current'
    BY <1>1, <1>2, <1>3 DEF KeyInv, Current, Parsed
  <2>3. Bare'
    BY <1>1, <1>2, <1>3 DEF KeyInv, Bare
  <2> QED BY <2>1, <2>2, <2>3
<1>6. Vouched'
  BY <1>1, <1>2, <1>3 DEF KeyInv, Vouched, Dated
<1>7. Caught'
  BY <1>1, <1>2, <1>3, <1>4 DEF KeyInv, Caught, Bare
<1>8. KeyWasValid'
  BY <1>1, <1>3, <1>4 DEF KeyInv, KeyWasValid
<1> QED BY <1>5, <1>6, <1>7, <1>8 DEF KeyInv

\* The read fails, and the check goes on with the blame.
LEMMA KeyReadFails ==
  ASSUME TypesInv, KeyInv, NEW d \in Daemons, ReadFails(d)
  PROVE  KeyInv'
<1>1. UNCHANGED <<scn, kfile, cache>> /\ hand[d].pc = "read"
  BY DEF ReadFails, relayKeys
<1>2. /\ hand'[d].pc = "check" /\ hand'[d].keys = hand[d].keys /\ hand'[d].lis = hand[d].lis
      /\ hand'[d].stamp = hand[d].stamp /\ hand'[d].key = hand[d].key /\ hand'[d].held = hand[d].held
      /\ \A e \in Daemons : e # d => hand'[e] = hand[e]
  BY Places DEF ReadFails, AtHand
<1>3. "unread" \in lost'[d] /\ \A e \in Daemons : lost[e] \subseteq lost'[e]
  BY DEF ReadFails, Blame, TypesInv, Types
<1>4. HeldNow' /\ Current' /\ Bare'
  BY <1>1, <1>2 DEF KeyInv, HeldNow, Current, Bare, Parsed, Busy
<1>5. Vouched'
  BY <1>1, <1>2 DEF KeyInv, Vouched, Dated
<1>6. Caught' /\ KeyWasValid'
  BY <1>1, <1>2, <1>3 DEF KeyInv, Caught, KeyWasValid
<1> QED BY <1>4, <1>5, <1>6 DEF KeyInv

\* The look-up, and the end of a check.
LEMMA KeyChecks ==
  ASSUME TypesInv, KeyInv, NEW d \in Daemons, Checks(d) \/ Rejects(d) \/ Matches(d)
  PROVE  KeyInv'
<1>1. UNCHANGED <<scn, kfile, cache>> /\ hand[d].pc # "idle"
  BY DEF Checks, Rejects, Matches, relayKeys
<1>2. \A e \in Daemons : lost[e] \subseteq lost'[e]
  BY DEF Checks, Rejects, Matches, Blame, TypesInv, Types
<1>3. /\ hand'[d].stamp = hand[d].stamp /\ hand'[d].key = hand[d].key /\ hand'[d].held = hand[d].held
      /\ hand'[d].keys = hand[d].keys /\ hand'[d].lis = hand[d].lis
      /\ hand'[d].pc \in {"match", "reject", "idle"}
      /\ hand'[d].pc = "match" => hand[d].pc = "check" /\ hand[d].key \in cache.keys
      /\ \A e \in Daemons : e # d => hand'[e] = hand[e]
  BY Places DEF Checks, Rejects, Matches, Done, AtHand
<1>4. HeldNow' /\ Current' /\ Bare'
  BY <1>1, <1>3 DEF KeyInv, HeldNow, Current, Bare, Parsed, Busy
<1>5. Vouched' /\ Caught'
  BY <1>1, <1>2, <1>3 DEF KeyInv, Vouched, Caught, Dated
<1>6. KeyWasValid'
  <2> SUFFICES ASSUME NEW e \in Daemons, hand'[e].pc = "match", hand'[e].lis \in scn.need
               PROVE  hand'[e].held \/ lost'[e] \cap {"raced", "unread"} # {}
    BY <1>1 DEF KeyWasValid
  <2>1. CASE e = d
    <3>1. hand[d].stamp <= cache.stamp \/ lost[d] \cap {"raced", "unread"} # {}
      BY <1>3, <2>1 DEF KeyInv, Caught
    <3>2. hand[d].stamp <= cache.stamp => hand[d].held
      BY <1>3, <2>1 DEF KeyInv, Vouched, Dated
    <3> QED BY <1>2, <1>3, <2>1, <3>1, <3>2
  <2>2. CASE e # d
    BY <1>2, <1>3, <2>2 DEF KeyInv, KeyWasValid
  <2> QED BY <2>1, <2>2
<1> QED BY <1>4, <1>5, <1>6 DEF KeyInv

\* A key command: a new version is newer than every stamp, and its keys are
\* held by the checks that go on.
LEMMA KeyWrites ==
  ASSUME TypesInv, KeyInv, NEW x \in Clis, CliWrites(x)
  PROVE  KeyInv'
<1>1. UNCHANGED <<scn, cache, lost>> /\ kfile'.stamp = kfile.stamp + 1
      /\ kfile'.keys \in {Half, cli[x].keys}
  BY DEF CliWrites
<1>2. ASSUME NEW e \in Daemons
      PROVE  /\ hand'[e].pc = hand[e].pc /\ hand'[e].stamp = hand[e].stamp /\ hand'[e].key = hand[e].key
             /\ hand'[e].keys = hand[e].keys /\ hand'[e].lis = hand[e].lis
             /\ hand[e].held => hand'[e].held
             /\ hand'[e].key \in Parsed' => hand'[e].held
  <2>1. CASE kfile'.keys = Half /\ UNCHANGED hand
    BY <2>1 DEF Parsed
  <2>2. CASE kfile'.keys = cli[x].keys /\ hand' = Witnessed(cli[x].keys)
    <3>1. hand'[e] = [hand[e] EXCEPT !.held = @ \/ hand[e].key \in cli[x].keys] /\ hand[e] \in AtHand
      BY <2>2, Places DEF Witnessed
    <3> QED BY <2>2, <3>1 DEF AtHand, Parsed
  <2> QED BY <2>1, <2>2 DEF CliWrites
<1>3. /\ cache.stamp \in Nat /\ kfile.stamp \in Nat /\ cache.stamp <= kfile.stamp
      /\ \A e \in Daemons : hand[e].stamp \in Nat /\ hand[e].stamp <= kfile.stamp
  BY Places, PairingAssumption DEF TypesInv, Types, Stamps, AtHand
<1>4. HeldNow'
  BY <1>2 DEF HeldNow, Busy
<1>5. Current'
  <2>1. cache'.stamp # kfile'.stamp
    BY <1>1, <1>3
  <2>2. \A e \in Daemons : hand'[e].stamp # kfile'.stamp
    BY <1>1, <1>2, <1>3
  <2> QED BY <2>1, <2>2 DEF Current
<1>6. Vouched' /\ Caught'
  BY <1>1, <1>2 DEF KeyInv, Vouched, Caught, Dated
<1>7. KeyWasValid'
  BY <1>1, <1>2 DEF KeyInv, KeyWasValid
<1>8. Bare'
  <2>1. kfile'.keys # None
    BY <1>1, PairingAssumption DEF TypesInv, Types, CliType
  <2> QED BY <1>2, <2>1 DEF KeyInv, Bare
<1> QED BY <1>4, <1>5, <1>6, <1>7, <1>8 DEF KeyInv

LEMMA StepKey == TypesInv /\ KeyInv /\ [Next]_vars => KeyInv'
<1> SUFFICES ASSUME TypesInv, KeyInv, [Next]_vars PROVE KeyInv'
  OBVIOUS
<1>1. ASSUME NEW d \in Daemons, Handles(d) PROVE KeyInv'
  BY <1>1, KeyTakes, KeyStats, KeyClears, KeyReads, KeyReadFails, KeyStores, KeyChecks DEF Handles, Reloads
<1>2. ASSUME NEW x \in Clis, CliWrites(x) PROVE KeyInv'
  BY <1>2, KeyWrites
<1>3. ASSUME \/ \E l \in Listeners : Listens(l) \/ Quits(l)
             \/ \E x \in Clis : CliReads(x)
             \/ \E d \in Daemons : Works(d) \/ Drops(d) \/ Accepts(d)
             \/ DayPasses
             \/ UNCHANGED vars
      PROVE  KeyInv'
  <2> DEFINE Kept == /\ UNCHANGED <<scn, kfile, cache, hand>>
                     /\ \A e \in Daemons : lost[e] \subseteq lost'[e]
  <2>1. ASSUME NEW l \in Listeners, Listens(l) \/ Quits(l) PROVE Kept
    BY <2>1 DEF Listens, Quits, relayKeys
  <2>2. ASSUME NEW x \in Clis, CliReads(x) PROVE Kept
    BY <2>2 DEF CliReads
  <2>3. ASSUME NEW d \in Daemons, Offers(d) \/ Sends(d) \/ Retries(d) \/ Redials(d) \/ Drops(d) \/ Accepts(d)
        PROVE  Kept
    BY <2>3 DEF Offers, Sends, Retries, Redials, Drops, Accepts, relayKeys
  <2>4. ASSUME NEW d \in Daemons, Expires(d) \/ Confirmed(d) PROVE Kept
    <3>1. UNCHANGED <<scn, kfile, cache, hand>> /\ (UNCHANGED lost \/ \E c : Blame(d, c))
      BY <2>4 DEF Expires, Confirmed, relayKeys
    <3>2. \A c : Blame(d, c) => \A e \in Daemons : lost[e] \subseteq lost'[e]
      BY DEF Blame, TypesInv, Types
    <3> QED BY <3>1, <3>2
  <2>5. DayPasses \/ UNCHANGED vars => Kept
    BY DEF DayPasses, vars, relayKeys
  <2>6. Kept
    BY <1>3, <2>1, <2>2, <2>3, <2>4, <2>5 DEF Works
  <2> QED BY <2>6, KeyAside
<1> QED BY <1>1, <1>2, <1>3 DEF Next

(***************************************************************************)
(* pair.go, activationKeyStore: whoever is paired with a listener that     *)
(* requires an activation key had one that was in the key file while the   *)
(* relay was checking it, although stat, read and store are done without   *)
(* a lock around them and add-key and remove-key truncate the file first,  *)
(* or write the first one; for any number of concurrent checks and         *)
(* commands.  The two exceptions are those the code has: a slower reload   *)
(* sets the cache back, or the file cannot be read.                        *)
(***************************************************************************)
THEOREM KeysWereValid == Spec => []KeyWasValid
<1>1. Init => TypesInv /\ KeyInv
  BY InitTypes, InitKey
<1>2. TypesInv /\ KeyInv /\ [Next]_vars => (TypesInv /\ KeyInv)'
  BY StepTypes, StepKey
<1>3. KeyInv => KeyWasValid
  BY DEF KeyInv
<1> QED BY <1>1, <1>2, <1>3, PTL DEF Spec
---------------------------------------------------------------------------
(***************************************************************************)
(* CodeKept.  The code file holds the last code that was written to it, or *)
(* nothing; a confirmation that is on its way to a daemon is of a code     *)
(* whose listener was told, or had gone.                                   *)
(***************************************************************************)
Excuses == {"expired", "deaf", "crossed", "young"}

\* The code of the `pair accept' that is at work, or was the last one.
LastCode(d) == IF acc[d].pc = "code" THEN scn.accept[d][acc[d].n - 1].code ELSE Wanted(d).code
Served(d) == PairedOn(d, LastCode(d)) \/ lost[d] \cap Excuses # {}

Written ==
  \A d \in Daemons :
    /\ acc[d].n <= Len(scn.accept[d]) \/ (acc[d].pc = "code" /\ acc[d].n = Len(scn.accept[d]) + 1)
    /\ acc[d].pc = "code" /\ acc[d].n = 1 => file[d].code = None
    /\ acc[d].pc = "code2" => file[d].code \in {None, Half}
    /\ acc[d].pc # "code2" => file[d].code # Half
    /\ file[d].code \in Codes => file[d].code = LastCode(d)

\* Nothing was left yet.
Nothing(d) == acc[d].pc = "code" /\ acc[d].n = 1

Answered == \A d \in Daemons : file[d].code = None /\ ~Nothing(d) => Served(d)

OnTheWay ==
  \A d \in Daemons : \A i \in 1 .. Len(dm[d].in) :
    PairedOn(d, dm[d].in[i]) \/ lost[d] \cap Excuses # {}

CodeInv == Written /\ Answered /\ OnTheWay

LEMMA InitCode == Init => CodeInv
<1> SUFFICES ASSUME Init PROVE CodeInv
  OBVIOUS
<1>1. scn.accept \in [Daemons -> Seq([code : Codes, key : Keys \cup {None}])]
      /\ \A d \in scn.before : scn.accept[d] # <<>>
  BY ScenarioFacts DEF Init
<1> SUFFICES ASSUME NEW d \in Daemons
             PROVE  /\ acc[d].n <= Len(scn.accept[d]) \/ (acc[d].pc = "code" /\ acc[d].n = Len(scn.accept[d]) + 1)
                    /\ acc[d].pc = "code" /\ acc[d].n = 1 => file[d].code = None
                    /\ acc[d].pc = "code2" => file[d].code \in {None, Half}
                    /\ acc[d].pc # "code2" => file[d].code # Half
                    /\ file[d].code \in Codes => file[d].code = LastCode(d)
                    /\ file[d].code = None => Nothing(d)
                    /\ Len(dm[d].in) = 0
  BY DEF CodeInv, Written, Answered, OnTheWay
<1>2. acc[d].pc = "code" /\ dm[d].in = <<>>
  BY DEF Init
<1>3. CASE d \in scn.before
  <2>1. acc[d].n = 2 /\ file[d].code = scn.accept[d][1].code
    BY <1>3 DEF Init
  <2>2. Len(scn.accept[d]) \in Nat \ {0} /\ scn.accept[d][1].code \in Codes
    <3>1. scn.accept[d] \in Seq([code : Codes, key : Keys \cup {None}]) /\ scn.accept[d] # <<>>
      BY <1>1, <1>3
    <3>2. 1 \in 1 .. Len(scn.accept[d])
      BY <3>1
    <3>3. scn.accept[d][1] \in [code : Codes, key : Keys \cup {None}]
      BY <3>1, <3>2, ElementOf
    <3> QED BY <3>1, <3>2, <3>3
  <2>3. LastCode(d) = scn.accept[d][1].code
    BY <1>2, <2>1 DEF LastCode
  <2> QED BY <1>2, <2>1, <2>2, <2>3, NoneIsNone
<1>4. CASE d \notin scn.before
  <2>1. acc[d].n = 1 /\ file[d].code = None
    BY <1>4 DEF Init
  <2>2. Len(scn.accept[d]) \in Nat
    BY <1>1
  <2> QED BY <1>2, <2>1, <2>2, NoneIsNone, PairingAssumption DEF Nothing
<1> QED BY <1>3, <1>4

\* Nothing a listener was told, and no blame, is taken back.
Onward ==
  /\ UNCHANGED scn
  /\ \A d \in Daemons : lost[d] \subseteq lost'[d]
  /\ \A l \in Listeners, d \in Daemons : GotBy(d, l) => GotBy(d, l)'

LEMMA PairedKept ==
  ASSUME Onward, NEW d \in Daemons, NEW c, PairedOn(d, c) \/ lost[d] \cap Excuses # {}
  PROVE  PairedOn(d, c)' \/ lost'[d] \cap Excuses # {}
BY DEF Onward, PairedOn

\* A step that leaves the files and what was written alone.
LEMMA CodeAside ==
  ASSUME CodeInv, Onward, UNCHANGED acc,
         \A d \in Daemons : file'[d].code = file[d].code,
         \A d \in Daemons : \A i \in 1 .. Len(dm'[d].in) :
           \A c : c = dm'[d].in[i] => PairedOn(d, c)' \/ lost'[d] \cap Excuses # {}
  PROVE  CodeInv'
<1>1. \A d \in Daemons : LastCode(d)' = LastCode(d)
  BY DEF LastCode, Wanted, Onward
<1>2. Written'
  BY <1>1 DEF CodeInv, Written, Onward
<1>3. Answered'
  <2> SUFFICES ASSUME NEW d \in Daemons, file'[d].code = None, ~Nothing(d)' PROVE Served(d)'
    BY DEF Answered
  <2>1. Served(d)
    BY DEF CodeInv, Answered, Nothing
  <2>2. PICK c : c = LastCode(d)
    OBVIOUS
  <2>3. PairedOn(d, c)' \/ lost'[d] \cap Excuses # {}
    BY <2>1, <2>2, PairedKept DEF Served
  <2>4. c = LastCode(d)'
    BY <1>1, <2>2
  <2> QED BY <2>3, <2>4 DEF Served, PairedOn
<1>4. OnTheWay'
  BY DEF OnTheWay
<1> QED BY <1>2, <1>3, <1>4 DEF CodeInv

\* The confirmations on their way stay true.
LEMMA WayKept ==
  ASSUME CodeInv, Onward, NEW d \in Daemons, NEW i \in 1 .. Len(dm[d].in)
  PROVE  \A c : c = dm[d].in[i] => PairedOn(d, c)' \/ lost'[d] \cap Excuses # {}
BY PairedKept DEF CodeInv, OnTheWay

\* pair_done and pair_confirmed: the listener is told, or was gone.
LEMMA CodeMatches ==
  ASSUME OneInv, CodeInv, NEW d \in Daemons, Matches(d)
  PROVE  CodeInv'
<1>0. TypesInv /\ Where
  BY DEF OneInv
<1> PICK l : l = hand[d].lis
  OBVIOUS
<1> DEFINE hears == lis[l].st \in {"waiting", "paired"}
<1>1. /\ l \in Listeners /\ hand[d].code \in Codes /\ scn.listen[l] = hand[d].code
      /\ UNCHANGED <<scn, file, acc>>
  BY <1>0, Places DEF Matches, Where, InHand, Busy
<1>2. /\ lis[l].got \in Seq(Daemons)
      /\ \A m \in Listeners \ {l} : lis'[m].got = lis[m].got
      /\ hears => lis'[l].got = Append(lis[l].got, d)
      /\ ~hears => lis' = lis /\ Blame(d, "deaf")
      /\ hears => UNCHANGED lost
  BY <1>0, <1>1, Places DEF Matches
<1>3. hears \/ ~hears
  OBVIOUS
<1> HIDE DEF hears
<1>4. \A e \in Daemons : lost[e] \subseteq lost'[e]
  BY <1>0, <1>2, <1>3 DEF Blame, TypesInv, Types
<1>5. ASSUME NEW e \in Daemons, GotBy(e, l) PROVE GotBy(e, l)'
  <2>1. PICK i \in DOMAIN lis[l].got : lis[l].got[i] = e
    BY <1>5 DEF GotBy
  <2>2. lis'[l].got = lis[l].got \/ lis'[l].got = Append(lis[l].got, d)
    BY <1>2, <1>3
  <2>3. i \in DOMAIN lis'[l].got /\ lis'[l].got[i] = e
    BY <1>2, <2>1, <2>2, SMTT(30)
  <2> QED BY <2>3 DEF GotBy
<1>6. \A m \in Listeners \ {l} : \A e \in Daemons : GotBy(e, m) => GotBy(e, m)'
  BY <1>2 DEF GotBy
<1>7. Onward
  BY <1>1, <1>4, <1>5, <1>6 DEF Onward
<1>9. ASSUME NEW c, c = hand[d].code PROVE PairedOn(d, c)' \/ lost'[d] \cap Excuses # {}
  <2>1. CASE hears
    <3>1. GotBy(d, l)'
      <4>1. lis'[l].got = Append(lis[l].got, d) /\ lis[l].got \in Seq(Daemons)
        BY <1>2, <2>1
      <4>2. \A q \in Seq(Daemons) : /\ Len(q) + 1 \in DOMAIN Append(q, d)
                                    /\ Append(q, d)[Len(q) + 1] = d
        OBVIOUS
      <4> QED BY <4>1, <4>2 DEF GotBy
    <3>2. scn'.listen[l] = c
      BY <1>1, <1>9
    <3> QED BY <1>1, <3>1, <3>2 DEF PairedOn
  <2>2. CASE ~hears
    <3>1. "deaf" \in lost'[d]
      BY <1>0, <1>2, <2>2 DEF Blame, TypesInv, Types
    <3> QED BY <3>1 DEF Excuses
  <2> QED BY <2>1, <2>2
<1>10. ASSUME NEW e \in Daemons
       PROVE  \/ dm'[e].in = dm[e].in
              \/ e = d /\ dm'[e].in = Append(dm[e].in, hand[d].code) /\ dm[e].in \in Seq(Codes)
  BY <1>0 DEF Matches, TypesInv, Types, DmType, Connection
<1>11. ASSUME NEW e \in Daemons, NEW i \in 1 .. Len(dm'[e].in), NEW c, c = dm'[e].in[i]
       PROVE  PairedOn(e, c)' \/ lost'[e] \cap Excuses # {}
  <2>1. CASE i \in 1 .. Len(dm[e].in) /\ c = dm[e].in[i]
    BY <1>7, <2>1, WayKept
  <2>2. CASE e = d /\ c = hand[d].code
    BY <1>9, <2>2
  <2>3. CASE dm'[e].in = dm[e].in
    BY <1>11, <2>1, <2>3
  <2>4. CASE e = d /\ dm'[e].in = Append(dm[e].in, hand[d].code) /\ dm[e].in \in Seq(Codes)
    <3>1. (i \in 1 .. Len(dm[e].in) /\ c = dm[e].in[i]) \/ c = hand[d].code
      BY <1>1, <1>11, <2>4
    <3> QED BY <2>1, <2>2, <2>4, <3>1
  <2> QED BY <1>10, <2>3, <2>4
<1> QED BY <1>1, <1>7, <1>11, CodeAside

\* Only one daemon's code file changes, with its excuse.
LEMMA CodeFile ==
  ASSUME CodeInv, Onward, NEW d \in Daemons,
         \A e \in Daemons \ {d} : file'[e].code = file[e].code /\ acc'[e] = acc[e],
         \A e \in Daemons : \A i \in 1 .. Len(dm'[e].in) :
           \A c : c = dm'[e].in[i] => PairedOn(e, c)' \/ lost'[e] \cap Excuses # {},
         /\ acc'[d].n <= Len(scn.accept[d]) \/ (acc'[d].pc = "code" /\ acc'[d].n = Len(scn.accept[d]) + 1)
         /\ acc'[d].pc = "code" /\ acc'[d].n = 1 => file'[d].code = None
         /\ acc'[d].pc = "code2" => file'[d].code \in {None, Half}
         /\ acc'[d].pc # "code2" => file'[d].code # Half
         /\ file'[d].code \in Codes => file'[d].code = LastCode(d)',
         file'[d].code = None /\ ~Nothing(d)' => Served(d)'
  PROVE  CodeInv'
<1>1. UNCHANGED scn /\ \A e \in Daemons \ {d} : LastCode(e)' = LastCode(e) /\ Nothing(e)' = Nothing(e)
  BY DEF LastCode, Wanted, Onward, Nothing
<1>2. Written'
  <2> SUFFICES ASSUME NEW e \in Daemons
               PROVE (/\ acc[e].n <= Len(scn.accept[e]) \/ (acc[e].pc = "code" /\ acc[e].n = Len(scn.accept[e]) + 1)
                      /\ acc[e].pc = "code" /\ acc[e].n = 1 => file[e].code = None
                      /\ acc[e].pc = "code2" => file[e].code \in {None, Half}
                      /\ acc[e].pc # "code2" => file[e].code # Half
                      /\ file[e].code \in Codes => file[e].code = LastCode(e))'
    BY DEF Written
  <2>1. CASE e = d
    BY <1>1, <2>1
  <2>2. CASE e # d
    BY <1>1, <2>2 DEF CodeInv, Written
  <2> QED BY <2>1, <2>2
<1>3. Answered'
  <2> SUFFICES ASSUME NEW e \in Daemons, e # d, file'[e].code = None, ~Nothing(e)' PROVE Served(e)'
    BY DEF Answered
  <2>1. Served(e)
    BY <1>1 DEF CodeInv, Answered
  <2>2. PICK c : c = LastCode(e)
    OBVIOUS
  <2>3. PairedOn(e, c)' \/ lost'[e] \cap Excuses # {}
    BY <2>1, <2>2, PairedKept DEF Served
  <2>4. c = LastCode(e)'
    BY <1>1, <2>2
  <2> QED BY <2>3, <2>4 DEF Served, PairedOn
<1>4. OnTheWay'
  BY DEF OnTheWay
<1> QED BY <1>2, <1>3, <1>4 DEF CodeInv

\* What one daemon's files, and the `pair accept' beside it, are.
LEMMA CodeFacts ==
  ASSUME TypesInv, NEW d \in Daemons
  PROVE  /\ file[d] \in OnDisk /\ file = [e \in Daemons |-> file[e]]
         /\ acc[d] \in [pc : {"code", "code2", "key", "signal"}, n : Nat \ {0}]
         /\ acc = [e \in Daemons |-> acc[e]]
         /\ dm[d].in \in Seq(Codes)
         /\ scn.accept[d] \in Seq([code : Codes, key : Keys \cup {None}])
BY ScenarioFacts DEF TypesInv, Types, FileType, AccType, DmType, Connection

\* A daemon goes on, with the confirmations on their way to it or without.
LEMMA InUpdate ==
  ASSUME dm \in DmType, NEW d \in Daemons, NEW r, dm' = [dm EXCEPT ![d] = r],
         r.in = dm[d].in \/ r.in = <<>>
  PROVE  /\ \A e \in Daemons : dm'[e].in = dm[e].in \/ dm'[e].in = <<>>
         /\ r.in = dm[d].in => \A e \in Daemons : dm'[e].in = dm[e].in
BY DEF DmType

\* No listener is moved; a blame may be added.
LEMMA OnwardKeeps ==
  ASSUME TypesInv, UNCHANGED <<scn, lis>>, UNCHANGED lost \/ \E d, c : Blame(d, c)
  PROVE  Onward
<1>1. \A e \in Daemons : lost[e] \subseteq lost'[e]
  BY DEF Blame, TypesInv, Types
<1> QED BY <1>1 DEF Onward, GotBy

\* The day is over: the code goes, and that is the excuse.
LEMMA CodeExpires ==
  ASSUME TypesInv, CodeInv, NEW d \in Daemons, Expires(d)
  PROVE  CodeInv'
<1>1. /\ UNCHANGED <<scn, lis, acc>>
      /\ \A e \in Daemons : dm'[e].in = dm[e].in
      /\ \A e \in Daemons \ {d} : file'[e].code = file[e].code
  BY CodeFacts DEF Expires, NoCode, TypesInv, Types, DmType, Connection, FileType
<1>2. Onward
  BY <1>1, OnwardKeeps DEF Expires
<1>3. \A e \in Daemons : \A i \in 1 .. Len(dm'[e].in) :
        \A c : c = dm'[e].in[i] => PairedOn(e, c)' \/ lost'[e] \cap Excuses # {}
  BY <1>1, <1>2, WayKept
<1>4. CASE file[d].code \in Codes
  <2>1. file'[d].code = None
    BY <1>4, CodeFacts DEF Expires, NoCode, OnDisk
  <2>2. lost'[d] \cap Excuses # {}
    <3>1. \E c \in {"expired", "young"} : Blame(d, c)
      BY <1>4 DEF Expires
    <3> QED BY <3>1 DEF Blame, TypesInv, Types, Excuses
  <2>3. acc'[d].pc # "code2" => file'[d].code # Half
    BY <2>1, NoneIsNone
  <2> QED BY <1>1, <1>2, <1>3, <2>1, <2>2, <2>3, CodeFile, NoneIsNone DEF CodeInv, Written, Served
<1>5. CASE file[d].code \notin Codes
  <2>1. file' = file
    BY <1>5 DEF Expires
  <2> QED BY <1>1, <1>2, <1>3, <2>1, CodeAside
<1> QED BY <1>4, <1>5

\* pair_confirmed: the code that goes was answered, or it is crossed.
LEMMA CodeConfirmed ==
  ASSUME TypesInv, CodeInv, NEW d \in Daemons, Confirmed(d)
  PROVE  CodeInv'
<1>1. /\ UNCHANGED <<scn, lis, acc>>
      /\ dm[d].in \in Seq(Codes) /\ dm[d].in # <<>> /\ dm'[d].in = Tail(dm[d].in)
      /\ \A e \in Daemons \ {d} : dm'[e].in = dm[e].in
      /\ \A e \in Daemons \ {d} : file'[e].code = file[e].code
      /\ file'[d].code = None
  BY CodeFacts DEF Confirmed, NoCode, TypesInv, Types, DmType, Connection, FileType, OnDisk
<1>2. Onward
  BY <1>1, OnwardKeeps DEF Confirmed
<1>3. ASSUME NEW e \in Daemons, NEW i \in 1 .. Len(dm'[e].in), NEW c, c = dm'[e].in[i]
      PROVE  PairedOn(e, c)' \/ lost'[e] \cap Excuses # {}
  <2>1. \E j \in 1 .. Len(dm[e].in) : c = dm[e].in[j]
    <3>1. CASE e = d
      <4>1. \A q \in Seq(Codes) : q # <<>> => \A k \in 1 .. Len(Tail(q)) :
              k + 1 \in 1 .. Len(q) /\ Tail(q)[k] = q[k + 1]
        OBVIOUS
      <4>2. dm[d].in \in Seq(Codes) /\ dm[d].in # <<>>
            /\ i \in 1 .. Len(Tail(dm[d].in)) /\ c = Tail(dm[d].in)[i]
        BY <1>1, <1>3, <3>1
      <4>3. i + 1 \in 1 .. Len(dm[d].in) /\ c = dm[d].in[i + 1]
        BY <4>1, <4>2
      <4> QED BY <3>1, <4>3
    <3>2. CASE e # d
      BY <1>1, <1>3, <3>2
    <3> QED BY <3>1, <3>2
  <2> QED BY <1>2, <2>1, WayKept
<1>4. file'[d].code = None /\ ~Nothing(d)' => Served(d)'
  <2> SUFFICES ASSUME ~Nothing(d) PROVE Served(d)'
    BY <1>1 DEF Nothing
  <2>1. PICK c : c = LastCode(d)
    OBVIOUS
  <2>2. LastCode(d)' = c
    BY <1>1, <2>1 DEF LastCode, Wanted
  <2>3. PairedOn(d, c) \/ lost[d] \cap Excuses # {} \/ "crossed" \in lost'[d]
    <3>1. CASE file[d].code \notin {None, Head(dm[d].in)}
      BY <3>1 DEF Confirmed, Blame, TypesInv, Types
    <3>2. CASE file[d].code = None
      BY <2>1, <3>2 DEF CodeInv, Answered, Served
    <3>3. CASE file[d].code = Head(dm[d].in)
      <4>1. 1 \in 1 .. Len(dm[d].in) /\ Head(dm[d].in) = dm[d].in[1] /\ Head(dm[d].in) \in Codes
        BY <1>1
      <4>2. c = Head(dm[d].in)
        BY <2>1, <3>3, <4>1 DEF CodeInv, Written
      <4> QED BY <4>1, <4>2 DEF CodeInv, OnTheWay
    <3> QED BY <3>1, <3>2, <3>3
  <2>4. PairedOn(d, c)' \/ lost'[d] \cap Excuses # {}
    BY <1>2, <2>3, PairedKept DEF Excuses
  <2> QED BY <2>2, <2>4 DEF Served, PairedOn
<1>5. acc'[d].pc # "code2" => file'[d].code # Half
  BY <1>1, NoneIsNone
<1> QED BY <1>1, <1>2, <1>3, <1>4, <1>5, CodeFile, NoneIsNone DEF CodeInv, Written

\* pair accept writes its own code.
LEMMA CodeAccepts ==
  ASSUME TypesInv, CodeInv, NEW d \in Daemons, Accepts(d)
  PROVE  CodeInv'
<1>1. /\ UNCHANGED <<scn, lis, lost>>
      /\ \A e \in Daemons \ {d} : file'[e].code = file[e].code /\ acc'[e] = acc[e]
      /\ \A e \in Daemons : dm'[e].in = dm[e].in
  <2>1. UNCHANGED <<scn, lis, lost>>
    BY DEF Accepts, relayKeys
  <2>2. \A e \in Daemons : dm'[e].in = dm[e].in
    <3> DEFINE r == [dm[d] EXCEPT !.due = dm[d].up]
    <3>1. dm \in DmType /\ dm[d] \in Connection
      BY DEF TypesInv, Types, DmType
    <3>2. UNCHANGED dm \/ dm' = [dm EXCEPT ![d] = r]
      BY <3>1 DEF Accepts, DmType
    <3>3. r.in = dm[d].in
      BY <3>1 DEF Connection
    <3> HIDE DEF r
    <3> QED BY <3>1, <3>2, <3>3, InUpdate
  <2>3. \E r, a : file' = [file EXCEPT ![d] = r] /\ acc' = [acc EXCEPT ![d] = a]
    BY DEF Accepts
  <2>4. \A e \in Daemons \ {d} : file'[e].code = file[e].code /\ acc'[e] = acc[e]
    BY <2>3, CodeFacts
  <2> QED BY <2>1, <2>2, <2>4
<1>2. Onward
  BY <1>1, OnwardKeeps
<1>3. \A e \in Daemons : \A i \in 1 .. Len(dm'[e].in) :
        \A c : c = dm'[e].in[i] => PairedOn(e, c)' \/ lost'[e] \cap Excuses # {}
  BY <1>1, <1>2, WayKept
<1>4. /\ acc[d].n \in Nat \ {0} /\ acc[d].n <= Len(scn.accept[d])
      /\ scn.accept[d] \in Seq([code : Codes, key : Keys \cup {None}])
  BY CodeFacts DEF Accepts
<1>5. Wanted(d) \in [code : Codes, key : Keys \cup {None}]
  <2>1. acc[d].n \in 1 .. Len(scn.accept[d])
    BY <1>4
  <2> QED BY <1>4, <2>1, ElementOf DEF Wanted
<1>6. acc[d].pc \in {"code", "code2", "key", "signal"}
  BY CodeFacts
<1>7. CASE acc[d].pc = "code"
  <2>1. acc'[d].pc = "code2" /\ acc'[d].n = acc[d].n /\ file'[d].code = Half
    BY <1>7, CodeFacts DEF Accepts, OnDisk
  <2> QED BY <1>1, <1>2, <1>3, <1>4, <2>1, CodeFile, NoneIsNone
<1>8. CASE acc[d].pc = "code2"
  <2>1. /\ acc'[d].pc = "key" /\ acc'[d].n = acc[d].n
        /\ file'[d].code = IF file[d].code = None THEN None ELSE Wanted(d).code
    BY <1>8, CodeFacts DEF Accepts, OnDisk
  <2>2. LastCode(d)' = Wanted(d).code /\ LastCode(d) = Wanted(d).code
    BY <1>1, <1>8, <2>1 DEF LastCode, Wanted
  <2>3. Wanted(d).code \in Codes
    BY <1>5
  <2>4. file'[d].code = None => Served(d)'
    <3> SUFFICES ASSUME file'[d].code = None PROVE Served(d)'
      OBVIOUS
    <3>1. file[d].code = None
      BY <2>1, <2>3, NoneIsNone
    <3>2. Served(d)
      BY <1>8, <3>1 DEF CodeInv, Answered, Nothing
    <3> QED BY <1>1, <2>2, <3>2 DEF Served, PairedOn, GotBy
  <2>5. file'[d].code # Half
    BY <2>1, <2>3, NoneIsNone
  <2>6. file'[d].code \in Codes => file'[d].code = LastCode(d)'
    BY <2>1, <2>2, NoneIsNone
  <2> QED BY <1>1, <1>2, <1>3, <1>4, <2>1, <2>4, <2>5, <2>6, CodeFile
<1>9. CASE acc[d].pc = "key"
  <2>1. acc'[d].pc = "signal" /\ acc'[d].n = acc[d].n /\ file'[d].code = file[d].code
    BY <1>9, CodeFacts DEF Accepts, OnDisk
  <2>2. LastCode(d)' = LastCode(d)
    BY <1>1, <1>9, <2>1 DEF LastCode, Wanted
  <2>3. file'[d].code = None => Served(d)'
    BY <1>1, <1>9, <2>1, <2>2 DEF CodeInv, Answered, Nothing, Served, PairedOn, GotBy
  <2>4. file'[d].code # Half /\ (file'[d].code \in Codes => file'[d].code = LastCode(d)')
    BY <1>9, <2>1, <2>2 DEF CodeInv, Written
  <2> QED BY <1>1, <1>2, <1>3, <1>4, <2>1, <2>3, <2>4, CodeFile
<1>10. CASE acc[d].pc = "signal"
  <2>1. acc'[d].pc = "code" /\ acc'[d].n = acc[d].n + 1 /\ file'[d].code = file[d].code
    BY <1>10, CodeFacts DEF Accepts, OnDisk
  <2>2. LastCode(d)' = LastCode(d)
    <3>1. LastCode(d) = scn.accept[d][acc[d].n].code
      BY <1>10 DEF LastCode, Wanted
    <3>2. LastCode(d)' = scn.accept[d][acc'[d].n - 1].code
      BY <1>1, <2>1 DEF LastCode
    <3>3. acc'[d].n - 1 = acc[d].n
      BY <1>4, <2>1
    <3> QED BY <3>1, <3>2, <3>3
  <2>3. file'[d].code = None => Served(d)'
    BY <1>1, <1>10, <2>1, <2>2 DEF CodeInv, Answered, Nothing, Served, PairedOn, GotBy
  <2>4. file'[d].code # Half /\ (file'[d].code \in Codes => file'[d].code = LastCode(d)')
    BY <1>10, <2>1, <2>2 DEF CodeInv, Written
  <2>5. /\ acc'[d].n # 1
        /\ acc'[d].n <= Len(scn.accept[d]) \/ acc'[d].n = Len(scn.accept[d]) + 1
    <3>1. Len(scn.accept[d]) \in Nat
      BY <1>4
    <3> QED BY <1>4, <2>1, <3>1
  <2> QED BY <1>1, <1>2, <1>3, <2>1, <2>3, <2>4, <2>5, CodeFile
<1> QED BY <1>6, <1>7, <1>8, <1>9, <1>10

\* Handling an offer, making one, retrying, and losing the connection leave
\* the files alone.
LEMMA CodeQuiet ==
  ASSUME TypesInv, NEW d \in Daemons,
         Takes(d) \/ Offers(d) \/ Sends(d) \/ Retries(d) \/ Redials(d) \/ Drops(d)
  PROVE  /\ UNCHANGED <<scn, acc, lis, lost, file>>
         /\ \A e \in Daemons : dm'[e].in = dm[e].in \/ dm'[e].in = <<>>
<1>0. dm \in DmType /\ dm[d] \in Connection
  BY DEF TypesInv, Types, DmType
<1>1. CASE Takes(d)
  <2> DEFINE r == [dm[d] EXCEPT !.out = Tail(dm[d].out)]
  <2>1. UNCHANGED <<scn, acc, lis, lost, file>>
    BY <1>1 DEF Takes, relayKeys
  <2>2. dm' = [dm EXCEPT ![d] = r]
    BY <1>0, <1>1 DEF Takes, Connection, DmType
  <2>3. r.in = dm[d].in
    BY <1>0 DEF Connection
  <2> HIDE DEF r
  <2> QED BY <1>0, <2>1, <2>2, <2>3, InUpdate
<1>2. CASE Offers(d)
  <2> DEFINE r == [dm[d] EXCEPT !.due = FALSE, !.sees = IF file[d].code \in Codes THEN file[d].code ELSE None]
  <2>1. UNCHANGED <<scn, acc, lis, lost, file>>
    BY <1>2 DEF Offers, relayKeys
  <2>2. dm' = [dm EXCEPT ![d] = r]
    BY <1>0, <1>2 DEF Offers, Connection, DmType
  <2>3. r.in = dm[d].in
    BY <1>0 DEF Connection
  <2> HIDE DEF r
  <2> QED BY <1>0, <2>1, <2>2, <2>3, InUpdate
<1>3. CASE Sends(d)
  <2> DEFINE r == [dm[d] EXCEPT !.sees = None, !.out = IF dm[d].up THEN Append(dm[d].out, [code |-> dm[d].sees, key |-> file[d].key])
                                                   ELSE dm[d].out]
  <2>1. UNCHANGED <<scn, acc, lis, lost, file>>
    BY <1>3 DEF Sends, relayKeys, AfterSend
  <2>2. dm' = [dm EXCEPT ![d] = r]
    BY <1>0, <1>3 DEF Sends, Connection, DmType
  <2>3. r.in = dm[d].in
    BY <1>0 DEF Connection
  <2> HIDE DEF r
  <2> QED BY <1>0, <2>1, <2>2, <2>3, InUpdate
<1>4. CASE Retries(d)
  <2> DEFINE r == [dm[d] EXCEPT !.due = TRUE]
  <2>1. UNCHANGED <<scn, acc, lis, lost, file>>
    BY <1>4 DEF Retries, relayKeys
  <2>2. dm' = [dm EXCEPT ![d] = r]
    BY <1>0, <1>4 DEF Retries, Connection, DmType
  <2>3. r.in = dm[d].in
    BY <1>0 DEF Connection
  <2> HIDE DEF r
  <2> QED BY <1>0, <2>1, <2>2, <2>3, InUpdate
<1>5. CASE Redials(d)
  <2> DEFINE r == [dm[d] EXCEPT !.up = TRUE, !.due = TRUE, !.loop = LoopStart(d)]
  <2>1. UNCHANGED <<scn, acc, lis, lost, file>>
    BY <1>5 DEF Redials, relayKeys
  <2>2. dm' = [dm EXCEPT ![d] = r]
    BY <1>0, <1>5 DEF Redials, Connection, DmType
  <2>3. r.in = dm[d].in
    BY <1>0 DEF Connection
  <2> HIDE DEF r
  <2> QED BY <1>0, <2>1, <2>2, <2>3, InUpdate
<1>6. CASE Drops(d)
  <2> DEFINE r == [dm[d] EXCEPT !.up = FALSE, !.cut = TRUE, !.loop = "ended", !.out = <<>>, !.in = <<>>, !.due = FALSE]
  <2>1. UNCHANGED <<scn, acc, lis, lost, file>>
    BY <1>6 DEF Drops, relayKeys
  <2>2. dm' = [dm EXCEPT ![d] = r]
    BY <1>0, <1>6 DEF Drops, Connection, DmType
  <2>3. r.in = <<>>
    BY <1>0 DEF Connection
  <2> HIDE DEF r
  <2> QED BY <1>0, <2>1, <2>2, <2>3, InUpdate
<1> QED BY <1>1, <1>2, <1>3, <1>4, <1>5, <1>6

\* The rest leaves the code files alone.
LEMMA CodeOthers ==
  ASSUME TypesInv, CodeInv,
         \/ \E l \in Listeners : Listens(l) \/ Quits(l)
         \/ \E x \in Clis : CliReads(x) \/ CliWrites(x)
         \/ \E d \in Daemons :
              \/ Takes(d) \/ Reloads(d) \/ Checks(d) \/ Rejects(d)
              \/ Offers(d) \/ Sends(d) \/ Retries(d) \/ Redials(d) \/ Drops(d)
         \/ DayPasses
         \/ UNCHANGED vars
  PROVE  CodeInv'
<1> DEFINE Aside == /\ UNCHANGED <<scn, acc>>
                    /\ \A l \in Listeners : lis'[l].got = lis[l].got
                    /\ \A e \in Daemons : lost[e] \subseteq lost'[e]
                    /\ \A e \in Daemons : file'[e].code = file[e].code
                    /\ \A e \in Daemons : dm'[e].in = dm[e].in \/ dm'[e].in = <<>>
<1>1. ASSUME NEW l \in Listeners, Listens(l) \/ Quits(l) PROVE Aside
  <2>1. UNCHANGED <<scn, acc, lost, file, dm>> /\ \E st : lis' = [lis EXCEPT ![l].st = st]
    BY <1>1 DEF Listens, Quits
  <2>2. \A m \in Listeners : lis'[m].got = lis[m].got
    BY <2>1, Places
  <2> QED BY <2>1, <2>2
<1>2. ASSUME NEW x \in Clis, CliReads(x) \/ CliWrites(x) PROVE Aside
  BY <1>2 DEF CliReads, CliWrites
<1>3. ASSUME NEW d \in Daemons, Reloads(d) \/ Checks(d) \/ Rejects(d)
      PROVE  Aside
  <2>1. UNCHANGED <<scn, acc, lis, file, dm>>
    BY <1>3 DEF Reloads, Stats, Clears, Reads, ReadFails, Stores, Checks, Rejects, relayKeys
  <2>2. \A e \in Daemons : lost[e] \subseteq lost'[e]
    BY <1>3 DEF Reloads, Stats, Clears, Reads, ReadFails, Stores, Checks, Rejects, Blame, TypesInv, Types
  <2> QED BY <2>1, <2>2
<1>4. ASSUME NEW d \in Daemons, Takes(d) \/ Offers(d) \/ Sends(d) \/ Retries(d) \/ Redials(d) \/ Drops(d)
      PROVE  Aside
  BY <1>4, CodeQuiet
<1>5. DayPasses => Aside
  BY DEF DayPasses, TypesInv, Types, DmType, Connection, FileType, OnDisk
<1>6. UNCHANGED vars => Aside
  BY DEF vars
<1>7. Aside
  BY <1>1, <1>2, <1>3, <1>4, <1>5, <1>6
<1>8. Onward
  BY <1>7 DEF Onward, GotBy
<1>9. ASSUME NEW e \in Daemons, NEW i \in 1 .. Len(dm'[e].in), NEW c, c = dm'[e].in[i]
      PROVE  PairedOn(e, c)' \/ lost'[e] \cap Excuses # {}
  <2>1. CASE dm'[e].in = dm[e].in
    BY <1>8, <1>9, <2>1, WayKept
  <2>2. CASE dm'[e].in = <<>>
    <3>1. Len(dm'[e].in) = 0
      BY <2>2
    <3> QED BY <3>1
  <2> QED BY <1>7, <2>1, <2>2
<1> QED BY <1>7, <1>8, <1>9, CodeAside

LEMMA StepCode == OneInv /\ CodeInv /\ [Next]_vars => CodeInv'
<1> SUFFICES ASSUME OneInv, CodeInv, [Next]_vars PROVE CodeInv'
  OBVIOUS
<1>1. TypesInv
  BY DEF OneInv
<1> QED BY <1>1, CodeMatches, CodeExpires, CodeConfirmed, CodeAccepts, CodeOthers DEF Next, Handles, Works

(***************************************************************************)
(* daemon.go: "keep retrying until the relay sends pair_confirmed".  A     *)
(* code left by pair accept is only gone when a listener of that code got  *)
(* the daemon, 24 h have passed, or in one of the three ways named, for    *)
(* any number of daemons, listeners and codes left one after the other,    *)
(* lost connections and half-written files.                                *)
(***************************************************************************)
THEOREM CodesAreKept == Spec => []CodeKept
<1>1. Init => OneInv /\ CodeInv
  BY InitOne, InitCode
<1>2. OneInv /\ CodeInv /\ [Next]_vars => (OneInv /\ CodeInv)'
  BY StepOne, StepCode
<1>3. OneInv /\ CodeInv => CodeKept
  <2> SUFFICES ASSUME OneInv, CodeInv, NEW d \in Daemons, Left(d), file[d].code = None
               PROVE  \/ PairedOn(d, scn.accept[d][acc[d].n - 1].code)
                      \/ lost[d] \cap {"expired", "deaf", "crossed", "young"} # {}
    BY DEF CodeKept
  <2>1. ~Nothing(d) /\ LastCode(d) = scn.accept[d][acc[d].n - 1].code
    BY DEF Left, Nothing, LastCode
  <2> QED BY <2>1 DEF CodeInv, Answered, Served, Excuses
<1> QED BY <1>1, <1>2, <1>3, PTL DEF Spec
=============================================================================
