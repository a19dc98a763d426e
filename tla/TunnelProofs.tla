---------------------------- MODULE TunnelProofs ----------------------------
(***************************************************************************)
(* Proofs about Tunnel, for any number of local connections, pieces and    *)
(* relay connections: type correctness, and that the two streams of a      *)
(* tunnel have no holes (StreamsWhole).                                    *)
(***************************************************************************)
EXTENDS Tunnel, FiniteSetTheorems, TLAPS

(***************************************************************************)
(* What a queue of frames holds for one tunnel: the numbers of its pieces, *)
(* and frames of a kind.  In a tidy queue the pieces come in order and the *)
(* tunnel is opened at most once.                                          *)
(***************************************************************************)
Of(q, k, t) == {i \in DOMAIN q : q[i].k = k /\ q[i].t = t}
Nums(q, t) == {q[i].n : i \in Of(q, "data", t)}
Has(q, k, t) == Of(q, k, t) # {}

Tidy(q, t) ==
  /\ \A i, j \in Of(q, "data", t) : i < j => q[i].n < q[j].n
  /\ \A i, j \in Of(q, "open", t) : i = j

(***************************************************************************)
(* The connections.  What is written on a broken one is lost, and nobody   *)
(* refers to one that has not been made yet.                               *)
(***************************************************************************)
LinkInv ==
  /\ cl.conn \in {0, cl.link}
  /\ cl.up => cl.conn = cl.link
  /\ c2r # <<>> \/ r2c # <<>> => cl.up
  /\ r2d # <<>> \/ d2r # <<>> => dm.up
  /\ ~dm.up => dm.link < MaxLink
  /\ look <= dm.link /\ reg <= dm.link
  /\ \A t \in Tunnels : sess[t].c <= cl.link /\ sess[t].d <= dm.link /\ loc[t].on <= cl.link

(***************************************************************************)
(* The life of a tunnel: it is opened once, first at the client, then at   *)
(* the relay, then at the daemon, and the client sends nothing before it   *)
(* has the daemon's answer.                                                *)
(***************************************************************************)
Opened(t) ==
  /\ loc[t].st = "none" => ~Has(c2r, "open", t)
  /\ loc[t].st = "none" \/ Has(c2r, "open", t) =>
       sess[t] = NoSession /\ ~Has(r2d, "open", t) /\ rem[t].st = "none"
  /\ Has(r2d, "open", t) => rem[t].st = "none"
  /\ Has(r2c, "ok", t) \/ Has(d2r, "ok", t) => rem[t].st \notin {"none", "dialing"}
  /\ loc[t].ans = "ok" \/ loc[t].st \in {"opened", "piping"} =>
       rem[t].st \notin {"none", "dialing"}
  /\ loc[t].sent > 0 =>
       rem[t].st \notin {"none", "dialing"} /\ loc[t].st \notin {"none", "opening", "opened"}
  /\ rem[t].sent > 0 => rem[t].st \notin {"none", "dialing", "opened"}
  /\ rem[t].st # "none" => dm.up \/ "relink" \in why[t]

(***************************************************************************)
(* One direction of a tunnel: A are the pieces in the queue next to the    *)
(* reader, B those in the queue next to the writer.  What was read comes   *)
(* before A, A before B, and all of them were written.                     *)
(***************************************************************************)
Flow(got, A, B, sent) ==
  /\ Increasing(got)
  /\ \A i \in DOMAIN got : 0 < got[i] /\ got[i] <= sent /\ \A n \in A \cup B : got[i] < n
  /\ \A n \in A \cup B : 0 < n /\ n <= sent
  /\ \A a \in A, b \in B : a < b

(***************************************************************************)
(* And nothing is missing, as far as it matters: if the reader still takes *)
(* pieces, none is missing before one in A; if the relay also passes them  *)
(* on, none is missing before one in B; and if the writer's frames still   *)
(* reach the relay, none is missing before the next one.                   *)
(***************************************************************************)
Unbroken(got, A, B, sent, takes, passes, rides) ==
  /\ Whole(got)
  /\ takes => \A n \in A : n - 1 \in A \cup {Len(got)}
  /\ takes /\ passes => \A n \in B : n - 1 \in A \cup B \cup {Len(got)}
  /\ takes /\ passes /\ rides => sent \in A \cup B \cup {Len(got)}

RemoteTakes(t) == rem[t].active \/ rem[t].st \in {"none", "dialing", "opened"}
LocalTakes(t) == loc[t].active \/ loc[t].st \in {"none", "opening", "opened"}
PassesOut(t) == dm.up /\ sess[t].d = dm.link
PassesBack(t) == cl.up /\ sess[t].c = cl.link
RidesOut(t) == cl.up /\ loc[t].on = cl.link

Outward(t) ==
  /\ Flow(rem[t].got, Nums(r2d, t), Nums(c2r, t), loc[t].sent)
  /\ "soon" \notin why[t] =>
       Unbroken(rem[t].got, Nums(r2d, t), Nums(c2r, t), loc[t].sent,
                RemoteTakes(t), PassesOut(t), RidesOut(t))

Back(t) ==
  /\ Flow(loc[t].got, Nums(r2c, t), Nums(d2r, t), rem[t].sent)
  /\ why[t] \cap {"early", "relink"} = {} =>
       Unbroken(loc[t].got, Nums(r2c, t), Nums(d2r, t), rem[t].sent,
                LocalTakes(t), PassesBack(t), TRUE)

Queued(t) == Tidy(c2r, t) /\ Tidy(r2c, t) /\ Tidy(r2d, t) /\ Tidy(d2r, t)

TunnelInv(t) == Queued(t) /\ Opened(t) /\ Outward(t) /\ Back(t)
StreamInv == LinkInv /\ \A t \in Tunnels : TunnelInv(t)

---------------------------------------------------------------------------
(***************************************************************************)
(* Queues                                                                  *)
(***************************************************************************)

\* A frame put into a queue, as one tunnel sees it.
LEMMA AppendFrame ==
  ASSUME NEW K, NEW q \in Seq(Frames(K)), NEW m \in Frames(K), NEW x
  PROVE  /\ Append(q, m) \in Seq(Frames(K))
         /\ Nums(Append(q, m), x) =
              IF m.k = "data" /\ m.t = x THEN Nums(q, x) \cup {m.n} ELSE Nums(q, x)
         /\ \A k : Has(Append(q, m), k, x) <=> Has(q, k, x) \/ (m.k = k /\ m.t = x)
         /\ /\ Tidy(q, x)
            /\ m.k = "data" /\ m.t = x => \A n \in Nums(q, x) : n < m.n
            /\ m.k = "open" /\ m.t = x => ~Has(q, "open", x)
            => Tidy(Append(q, m), x)
<1> DEFINE r == Append(q, m)
           e == Len(q) + 1
<1>1. /\ r \in Seq(Frames(K)) /\ DOMAIN q = 1 .. Len(q) /\ DOMAIN r = 1 .. e
      /\ Len(q) \in Nat /\ \A i \in DOMAIN q : r[i] = q[i] /\ i < e
      /\ r[e] = m
  OBVIOUS
<1>2. \A k : Of(r, k, x) = Of(q, k, x) \cup (IF m.k = k /\ m.t = x THEN {e} ELSE {})
  BY <1>1 DEF Of
<1>3. \A k : \A i \in Of(q, k, x) : i \in DOMAIN q
  BY DEF Of
<1> HIDE DEF r, e
<1>4. Nums(r, x) = IF m.k = "data" /\ m.t = x THEN Nums(q, x) \cup {m.n} ELSE Nums(q, x)
  BY <1>1, <1>2, <1>3 DEF Nums
<1>5. \A k : Has(r, k, x) <=> Has(q, k, x) \/ (m.k = k /\ m.t = x)
  BY <1>2 DEF Has
<1>6. ASSUME Tidy(q, x), m.k = "data" /\ m.t = x => \A n \in Nums(q, x) : n < m.n,
             m.k = "open" /\ m.t = x => ~Has(q, "open", x)
      PROVE  Tidy(r, x)
  <2>1. ASSUME NEW i \in Of(r, "data", x), NEW j \in Of(r, "data", x), i < j
        PROVE  r[i].n < r[j].n
    <3>1. i \in Of(q, "data", x)
      <4>1. j = e \/ (j \in Nat /\ j < e)
        <5>1. j \in Of(q, "data", x) \/ j = e
          BY <1>2, <2>1
        <5> QED
          BY <1>1, <1>3, <5>1
      <4>2. i \in Of(q, "data", x) \/ i = e
        BY <1>2, <2>1
      <4>3. e \in Nat
        BY <1>1 DEF e
      <4> QED
        BY <1>1, <2>1, <4>1, <4>2, <4>3
    <3>2. CASE j \in Of(q, "data", x)
      BY <1>1, <1>3, <1>6, <2>1, <3>1, <3>2 DEF Tidy
    <3>3. CASE j = e /\ m.k = "data" /\ m.t = x
      BY <1>1, <1>3, <1>6, <3>1, <3>3 DEF Nums
    <3> QED
      BY <1>2, <2>1, <3>2, <3>3
  <2>2. \A i, j \in Of(r, "open", x) : i = j
    BY <1>2, <1>6 DEF Has, Tidy
  <2> QED
    BY <2>1, <2>2 DEF Tidy
<1> QED
  BY <1>1, <1>4, <1>5, <1>6 DEF r

\* A frame taken from a queue, as one tunnel sees it.
LEMMA TailFrame ==
  ASSUME NEW K, NEW q \in Seq(Frames(K)), q # <<>>, NEW x, Tidy(q, x)
  PROVE  /\ Tail(q) \in Seq(Frames(K)) /\ Head(q) \in Frames(K)
         /\ IF Head(q).k = "data" /\ Head(q).t = x
            THEN /\ Nums(q, x) = Nums(Tail(q), x) \cup {Head(q).n}
                 /\ \A n \in Nums(Tail(q), x) : Head(q).n < n
            ELSE Nums(q, x) = Nums(Tail(q), x)
         /\ \A k : Has(q, k, x) <=> Has(Tail(q), k, x) \/ (Head(q).k = k /\ Head(q).t = x)
         /\ Head(q).k = "open" /\ Head(q).t = x => ~Has(Tail(q), "open", x)
         /\ Tidy(Tail(q), x)
<1> DEFINE r == Tail(q)
           h == Head(q)
<1>1. /\ r \in Seq(Frames(K)) /\ h \in Frames(K) /\ h = q[1]
      /\ Len(q) \in Nat /\ Len(q) > 0
      /\ DOMAIN q = 1 .. Len(q) /\ DOMAIN r = 1 .. (Len(q) - 1)
      /\ \A i \in DOMAIN r : r[i] = q[i + 1]
  OBVIOUS
<1> HIDE DEF r, h
<1>2. \A k : \A i \in Of(r, k, x) : i \in Nat /\ i >= 1 /\ i + 1 \in Of(q, k, x) /\ r[i] = q[i + 1]
  BY <1>1 DEF Of
<1>3. \A k : \A j \in Of(q, k, x) : IF j = 1 THEN h.k = k /\ h.t = x ELSE j - 1 \in Of(r, k, x) /\ j \in Nat
  BY <1>1 DEF Of
<1>4. \A k : h.k = k /\ h.t = x => 1 \in Of(q, k, x)
  BY <1>1 DEF Of
<1>5. Nums(r, x) \subseteq Nums(q, x)
  BY <1>2 DEF Nums
<1>6. \A n \in Nums(q, x) : n \in Nums(r, x) \/ (n = h.n /\ h.k = "data" /\ h.t = x)
  <2> SUFFICES ASSUME NEW j \in Of(q, "data", x)
               PROVE  q[j].n \in Nums(r, x) \/ (q[j].n = h.n /\ h.k = "data" /\ h.t = x)
    BY DEF Nums
  <2>1. CASE j = 1
    BY <1>1, <1>3, <2>1
  <2>2. CASE j # 1
    <3>1. j - 1 \in Of(r, "data", x) /\ r[j - 1] = q[j]
      BY <1>2, <1>3, <2>2
    <3> QED
      BY <3>1 DEF Nums
  <2> QED
    BY <2>1, <2>2
<1>7. ASSUME h.k = "data", h.t = x
      PROVE  h.n \in Nums(q, x) /\ \A n \in Nums(r, x) : h.n < n
  <2>1. 1 \in Of(q, "data", x)
    BY <1>4, <1>7
  <2>2. ASSUME NEW i \in Of(r, "data", x) PROVE h.n < r[i].n
    BY <1>1, <1>2, <2>1 DEF Tidy
  <2> QED
    BY <1>1, <2>1, <2>2 DEF Nums
<1>8. \A k : Has(q, k, x) <=> Has(r, k, x) \/ (h.k = k /\ h.t = x)
  BY <1>2, <1>3, <1>4 DEF Has
<1>9. h.k = "open" /\ h.t = x => ~Has(r, "open", x)
  <2> SUFFICES ASSUME h.k = "open", h.t = x, NEW i \in Of(r, "open", x) PROVE FALSE
    BY DEF Has
  <2>1. i \in Nat /\ i >= 1 /\ i + 1 \in Of(q, "open", x) /\ 1 \in Of(q, "open", x)
    BY <1>2, <1>4
  <2>2. i + 1 = 1
    BY <2>1 DEF Tidy
  <2> QED
    BY <2>1, <2>2
<1>10. Tidy(r, x)
  <2>1. ASSUME NEW i \in Of(r, "data", x), NEW j \in Of(r, "data", x), i < j
        PROVE  r[i].n < r[j].n
    <3>1. i + 1 < j + 1 /\ r[i] = q[i + 1] /\ r[j] = q[j + 1]
          /\ i + 1 \in Of(q, "data", x) /\ j + 1 \in Of(q, "data", x)
      BY <1>2, <2>1
    <3> QED
      BY <3>1 DEF Tidy
  <2>2. ASSUME NEW i \in Of(r, "open", x), NEW j \in Of(r, "open", x) PROVE i = j
    <3>1. i + 1 \in Of(q, "open", x) /\ j + 1 \in Of(q, "open", x) /\ i \in Nat /\ j \in Nat
      BY <1>2
    <3>2. i + 1 = j + 1
      BY <3>1 DEF Tidy
    <3> QED
      BY <3>1, <3>2
  <2> QED
    BY <2>1, <2>2 DEF Tidy
<1>11. IF h.k = "data" /\ h.t = x
       THEN Nums(q, x) = Nums(r, x) \cup {h.n} /\ \A n \in Nums(r, x) : h.n < n
       ELSE Nums(q, x) = Nums(r, x)
  <2>1. CASE h.k = "data" /\ h.t = x
    BY <1>5, <1>6, <1>7, <2>1
  <2>2. CASE ~(h.k = "data" /\ h.t = x)
    <3>1. \A n \in Nums(q, x) : n \in Nums(r, x)
      BY <1>6, <2>2
    <3>2. Nums(q, x) = Nums(r, x)
      BY <1>5, <3>1
    <3> QED
      BY <2>2, <3>2
  <2> QED
    BY <2>1, <2>2
<1> QED
  BY <1>1, <1>8, <1>9, <1>10, <1>11 DEF r, h

\* A queue without frames.
LEMMA EmptyQueue ==
  ASSUME NEW x
  PROVE  Nums(<<>>, x) = {} /\ (\A k : ~Has(<<>>, k, x)) /\ Tidy(<<>>, x)
<1>1. \A k : Of(<<>>, k, x) = {}
  BY DEF Of
<1> QED
  BY <1>1 DEF Nums, Has, Tidy

\* The relay tells a client that some of its tunnels are closed.
LEMMA ClosesAdded ==
  ASSUME NEW K, "close" \in K, NEW q \in Seq(Frames(K)), NEW order \in Seq(Tunnels), NEW x
  PROVE  LET r == q \o [i \in DOMAIN order |-> Msg("close", order[i], 0)]
         IN  /\ r \in Seq(Frames(K))
             /\ Nums(r, x) = Nums(q, x)
             /\ \A k : k # "close" => (Has(r, k, x) <=> Has(q, k, x))
             /\ Tidy(q, x) => Tidy(r, x)
<1> DEFINE c == [i \in DOMAIN order |-> Msg("close", order[i], 0)]
           r == q \o c
<1>1. /\ Len(order) \in Nat /\ DOMAIN order = 1 .. Len(order)
      /\ \A i \in DOMAIN order : order[i] \in Tunnels
  OBVIOUS
<1>2. \A t \in Tunnels : Msg("close", t, 0) \in Frames(K) /\ Msg("close", t, 0).k = "close"
  BY TunnelAssumption DEF Msg, Frames, Numbers
<1>3. c \in Seq(Frames(K)) /\ Len(c) = Len(order) /\ \A i \in 1 .. Len(order) : c[i].k = "close"
  BY <1>1, <1>2
<1> HIDE DEF c
<1>4. /\ r \in Seq(Frames(K)) /\ DOMAIN q = 1 .. Len(q) /\ DOMAIN r = 1 .. (Len(q) + Len(c))
      /\ Len(q) \in Nat /\ Len(c) \in Nat
      /\ \A i \in 1 .. Len(q) : r[i] = q[i]
      /\ \A i \in (Len(q) + 1) .. (Len(q) + Len(c)) : r[i] = c[i - Len(q)]
  BY <1>3, SMTT(30)
<1> HIDE DEF r
<1>5. \A i \in (Len(q) + 1) .. (Len(q) + Len(c)) : r[i].k = "close"
  BY <1>1, <1>3, <1>4
<1>6. \A k : k # "close" => Of(r, k, x) = Of(q, k, x)
  BY <1>4, <1>5 DEF Of
<1>7. \A k : \A i \in Of(q, k, x) : r[i] = q[i]
  BY <1>4 DEF Of
<1>8. Nums(r, x) = Nums(q, x) /\ \A k : k # "close" => (Has(r, k, x) <=> Has(q, k, x))
  BY <1>6, <1>7 DEF Nums, Has
<1>9. Tidy(q, x) => Tidy(r, x)
  BY <1>6, <1>7 DEF Tidy
<1> QED
  BY <1>4, <1>8, <1>9 DEF r, c

---------------------------------------------------------------------------
(***************************************************************************)
(* Pieces on their way                                                     *)
(***************************************************************************)

\* The pieces in a queue are numbers.
LEMMA NumsType ==
  ASSUME NEW K, NEW q \in Seq(Frames(K)), NEW x
  PROVE  Nums(q, x) \subseteq Numbers
<1>1. \A i \in DOMAIN q : q[i] \in Frames(K)
  OBVIOUS
<1> QED
  BY <1>1 DEF Nums, Of, Frames

\* A direction is as it should be while its queues, its reader and its writer
\* stand still and fewer ways are open.
LEMMA FlowKept ==
  ASSUME NEW got, NEW A, NEW B, NEW sent, Flow(got, A, B, sent),
         NEW takes \in BOOLEAN, NEW passes \in BOOLEAN, NEW rides \in BOOLEAN,
         NEW takes2 \in BOOLEAN, NEW passes2 \in BOOLEAN, NEW rides2 \in BOOLEAN,
         Unbroken(got, A, B, sent, takes, passes, rides),
         takes2 => takes, takes2 /\ passes2 => passes,
         takes2 /\ passes2 /\ rides2 => rides
  PROVE  Unbroken(got, A, B, sent, takes2, passes2, rides2)
  BY DEF Unbroken

\* The writer writes the next piece into its queue.
LEMMA FlowSend ==
  ASSUME NEW got \in Seq(Nat), NEW A \in SUBSET Nat, NEW B \in SUBSET Nat, NEW sent \in Nat,
         Flow(got, A, B, sent)
  PROVE  /\ Flow(got, A, B \cup {sent + 1}, sent + 1)
         /\ Flow(got, A, B, sent + 1)
         /\ \A n \in B : n < sent + 1
         /\ \A takes, passes, rides \in BOOLEAN :
              Unbroken(got, A, B, sent, takes, passes, rides) /\ rides =>
                Unbroken(got, A, B \cup {sent + 1}, sent + 1, takes, passes, rides)
<1>1. \A i \in DOMAIN got : got[i] \in Nat
  OBVIOUS
<1>2. Flow(got, A, B \cup {sent + 1}, sent + 1) /\ Flow(got, A, B, sent + 1)
  BY <1>1 DEF Flow
<1>3. \A n \in B : n < sent + 1
  BY DEF Flow
<1>4. ASSUME NEW takes \in BOOLEAN, NEW passes \in BOOLEAN, NEW rides \in BOOLEAN,
             Unbroken(got, A, B, sent, takes, passes, rides), rides
      PROVE  Unbroken(got, A, B \cup {sent + 1}, sent + 1, takes, passes, rides)
  BY <1>4 DEF Unbroken
<1> QED
  BY <1>2, <1>3, <1>4

\* The relay takes the first piece from the writer's queue and passes it on.
LEMMA FlowPass ==
  ASSUME NEW got \in Seq(Nat), NEW A \in SUBSET Nat, NEW B \in SUBSET Nat, NEW sent \in Nat,
         NEW n \in Nat, \A b \in B : n < b,
         Flow(got, A, B \cup {n}, sent)
  PROVE  /\ Flow(got, A \cup {n}, B, sent)
         /\ Flow(got, A, B, sent)
         /\ \A a \in A : a < n
         /\ \A takes, passes, rides \in BOOLEAN :
              Unbroken(got, A, B \cup {n}, sent, takes, passes, rides) /\ passes =>
                Unbroken(got, A \cup {n}, B, sent, takes, passes, rides)
         /\ \A takes, passes, rides \in BOOLEAN :
              Unbroken(got, A, B \cup {n}, sent, takes, passes, rides) =>
                Unbroken(got, A, B, sent, takes, FALSE, rides)
<1>1. Flow(got, A \cup {n}, B, sent) /\ Flow(got, A, B, sent) /\ \A a \in A : a < n
  BY DEF Flow
<1>2. ASSUME NEW takes \in BOOLEAN, NEW passes \in BOOLEAN, NEW rides \in BOOLEAN,
             Unbroken(got, A, B \cup {n}, sent, takes, passes, rides), passes
      PROVE  Unbroken(got, A \cup {n}, B, sent, takes, passes, rides)
  <2>1. takes => n - 1 \in A \cup {Len(got)}
    <3>1. takes => n - 1 \in A \cup B \cup {n} \cup {Len(got)}
      BY <1>2 DEF Unbroken
    <3>2. n - 1 \notin B \cup {n}
      OBVIOUS
    <3> QED
      BY <3>1, <3>2
  <2> QED
    BY <1>2, <2>1 DEF Unbroken
<1>3. ASSUME NEW takes \in BOOLEAN, NEW passes \in BOOLEAN, NEW rides \in BOOLEAN,
             Unbroken(got, A, B \cup {n}, sent, takes, passes, rides)
      PROVE  Unbroken(got, A, B, sent, takes, FALSE, rides)
  BY <1>3 DEF Unbroken
<1> QED
  BY <1>1, <1>2, <1>3

\* The reader takes the first piece from its queue.
LEMMA FlowRead ==
  ASSUME NEW got \in Seq(Nat), NEW A \in SUBSET Nat, NEW B \in SUBSET Nat, NEW sent \in Nat,
         NEW n \in Nat, \A a \in A : n < a,
         Flow(got, A \cup {n}, B, sent)
  PROVE  /\ Flow(Append(got, n), A, B, sent)
         /\ Flow(got, A, B, sent)
         /\ \A takes, passes, rides \in BOOLEAN :
              Unbroken(got, A \cup {n}, B, sent, takes, passes, rides) /\ takes =>
                Unbroken(Append(got, n), A, B, sent, takes, passes, rides)
         /\ \A takes, passes, rides \in BOOLEAN :
              Unbroken(got, A \cup {n}, B, sent, takes, passes, rides) =>
                Unbroken(got, A, B, sent, FALSE, passes, rides)
<1> DEFINE more == Append(got, n)
<1>1. /\ more \in Seq(Nat) /\ Len(got) \in Nat /\ Len(more) = Len(got) + 1
      /\ DOMAIN got = 1 .. Len(got) /\ DOMAIN more = 1 .. (Len(got) + 1)
      /\ \A i \in DOMAIN got : more[i] = got[i] /\ got[i] \in Nat
      /\ more[Len(got) + 1] = n
  OBVIOUS
<1> HIDE DEF more
<1>2. Flow(more, A, B, sent)
  <2>1. Increasing(more)
    <3> SUFFICES ASSUME NEW i \in DOMAIN more, NEW j \in DOMAIN more, i < j
                 PROVE  more[i] < more[j]
      BY DEF Increasing
    <3>1. i \in DOMAIN got
      BY <1>1
    <3>2. CASE j \in DOMAIN got
      BY <1>1, <3>1, <3>2 DEF Flow, Increasing
    <3>3. CASE j = Len(got) + 1
      BY <1>1, <3>1, <3>3 DEF Flow
    <3> QED
      BY <1>1, <3>2, <3>3
  <2>2. ASSUME NEW i \in DOMAIN more
        PROVE  0 < more[i] /\ more[i] <= sent /\ \A k \in A \cup B : more[i] < k
    <3>1. CASE i \in DOMAIN got
      BY <1>1, <3>1 DEF Flow
    <3>2. CASE i = Len(got) + 1
      BY <1>1, <3>2 DEF Flow
    <3> QED
      BY <1>1, <3>1, <3>2
  <2> QED
    BY <2>1, <2>2 DEF Flow
<1>3. Flow(got, A, B, sent)
  BY DEF Flow
<1>4. ASSUME NEW takes \in BOOLEAN, NEW passes \in BOOLEAN, NEW rides \in BOOLEAN,
             Unbroken(got, A \cup {n}, B, sent, takes, passes, rides), takes
      PROVE  Unbroken(more, A, B, sent, takes, passes, rides)
  <2>1. n = Len(more)
    <3>1. n - 1 \in A \cup {n} \cup {Len(got)}
      BY <1>4 DEF Unbroken
    <3> QED
      BY <1>1, <3>1
  <2>2. Whole(more)
    <3>1. \A i \in DOMAIN got : got[i] = i
      BY <1>4 DEF Unbroken, Whole
    <3>2. \A i \in DOMAIN more : i \in DOMAIN got \/ i = Len(got) + 1
      BY <1>1
    <3>3. \A i \in DOMAIN more : more[i] = i
      BY <1>1, <2>1, <3>1, <3>2
    <3> QED
      BY <3>3 DEF Whole
  <2>3. /\ \A k \in A : k - 1 \in A \cup {n} \cup {Len(got)}
        /\ passes => \A k \in B : k - 1 \in A \cup {n} \cup B \cup {Len(got)}
        /\ passes /\ rides => sent \in A \cup {n} \cup B \cup {Len(got)}
    BY <1>4 DEF Unbroken
  <2>4. Len(got) < n /\ \A k \in A \cup B : k - 1 # Len(got)
    <3>1. \A k \in A \cup B : n < k
      BY DEF Flow
    <3> QED
      BY <1>1, <2>1, <3>1
  <2>5. n <= sent
    BY DEF Flow
  <2> QED
    BY <2>1, <2>2, <2>3, <2>4, <2>5 DEF Unbroken
<1>5. ASSUME NEW takes \in BOOLEAN, NEW passes \in BOOLEAN, NEW rides \in BOOLEAN,
             Unbroken(got, A \cup {n}, B, sent, takes, passes, rides)
      PROVE  Unbroken(got, A, B, sent, FALSE, passes, rides)
  BY <1>5 DEF Unbroken
<1> QED
  BY <1>2, <1>3, <1>4, <1>5 DEF more

\* Where nothing was written there is nothing to miss.
LEMMA FlowNothing ==
  ASSUME NEW got \in Seq(Nat), NEW A \in SUBSET Nat, NEW B \in SUBSET Nat, Flow(got, A, B, 0)
  PROVE  /\ A = {} /\ B = {} /\ Len(got) = 0
         /\ \A takes, passes, rides \in BOOLEAN : Unbroken(got, A, B, 0, takes, passes, rides)
<1>1. A = {} /\ B = {}
  BY DEF Flow
<1>2. DOMAIN got = {}
  <2> SUFFICES ASSUME NEW i \in DOMAIN got PROVE FALSE
    OBVIOUS
  <2>1. got[i] \in Nat /\ 0 < got[i] /\ got[i] <= 0
    BY DEF Flow
  <2> QED
    BY <2>1
<1>3. Len(got) = 0
  BY <1>2
<1> QED
  BY <1>1, <1>2, <1>3 DEF Unbroken, Whole

---------------------------------------------------------------------------
(***************************************************************************)
(* Types                                                                   *)
(***************************************************************************)

\* Frames of the kinds a queue carries.
LEMMA MsgType ==
  ASSUME NEW K, NEW k \in K, NEW t \in Tunnels, NEW n \in Numbers
  PROVE  /\ Msg(k, t, n) \in Frames(K)
         /\ Msg(k, t, n).k = k /\ Msg(k, t, n).t = t /\ Msg(k, t, n).n = n
  BY DEF Msg, Frames

\* Connections are numbered from 1, and so are pieces.
LEMMA NumberTypes ==
  /\ Links \subseteq Nat /\ 0 \notin Links /\ 1 \in Links
  /\ Numbers \subseteq Nat /\ 0 \in Numbers
  /\ MaxData \in Nat /\ MaxLink \in Nat
  BY TunnelAssumption DEF Links, Numbers

\* The order in which the relay tells a client of closed tunnels.
LEMMA OrderType ==
  ASSUME NEW S \in SUBSET Tunnels, NEW order \in SetToSeqs(S)
  PROVE  order \in Seq(Tunnels)
<1>1. IsFiniteSet(S)
  BY FS_Subset, TunnelAssumption
<1>2. Cardinality(S) \in Nat
  BY <1>1, FS_CardinalityType
<1>3. order \in [1 .. Cardinality(S) -> S]
  BY DEF SetToSeqs
<1>4. order \in [1 .. Cardinality(S) -> Tunnels]
  BY <1>3
<1> QED
  BY <1>2, <1>4

\* The client's and the daemon's sides of the tunnels, and the queues.
LocOK ==
  /\ loc \in [Tunnels -> Locals]
  /\ \A t \in Tunnels : /\ loc[t].active => loc[t].st = "piping" /\ loc[t].sock = "open"
                        /\ loc[t].st \in {"opening", "opened"} => loc[t].sock = "open"
RemOK ==
  /\ rem \in [Tunnels -> Remotes]
  /\ \A t \in Tunnels : /\ rem[t].active => rem[t].st = "reading" /\ rem[t].sock = "open"
                        /\ rem[t].st = "opened" => rem[t].sock = "open"
QueuesOK ==
  /\ c2r \in Seq(Frames({"open", "data", "close"}))
  /\ r2d \in Seq(Frames({"open", "data", "close"}))
  /\ r2c \in Seq(Frames({"ok", "err", "data", "close"}))
  /\ d2r \in Seq(Frames({"ok", "err", "data", "close", "register"}))
LinksOK ==
  /\ scn \in Scenarios
  /\ cl \in [link : Links, conn : {0} \cup Links, up : BOOLEAN]
  /\ dm \in [link : Links, up : BOOLEAN]
  /\ reg \in {0} \cup Links /\ look \in {0} \cup Links /\ alive \subseteq Links
SessOK ==
  /\ sess \in [Tunnels -> [c : Links, d : Links] \cup {NoSession}]
  /\ why \in [Tunnels -> SUBSET Causes]

LEMMA TypeParts == TypeOK <=> LocOK /\ RemOK /\ QueuesOK /\ LinksOK /\ SessOK
  BY DEF TypeOK, LocOK, RemOK, QueuesOK, LinksOK, SessOK

\* The states of the two sides of one tunnel.
LocalFits(v) ==
  /\ v \in Locals
  /\ v.active => v.st = "piping" /\ v.sock = "open"
  /\ v.st \in {"opening", "opened"} => v.sock = "open"
RemoteFits(v) ==
  /\ v \in Remotes
  /\ v.active => v.st = "reading" /\ v.sock = "open"
  /\ v.st = "opened" => v.sock = "open"

\* A broken queue is empty; the first frame of a queue is a frame.
LEMMA QueueType ==
  ASSUME NEW S, NEW q \in Seq(S)
  PROVE  /\ <<>> \in Seq(S)
         /\ q # <<>> => Tail(q) \in Seq(S) /\ Head(q) \in S
         /\ \A m \in S : Append(q, m) \in Seq(S) /\ q \o <<m>> \in Seq(S)
  OBVIOUS

\* Every step keeps the types.
LEMMA StepTypes == TypeOK /\ StreamInv /\ [Next]_vars => TypeOK'
<1> SUFFICES ASSUME TypeOK, StreamInv, [Next]_vars PROVE TypeOK'
  OBVIOUS
<1>t. LocOK /\ RemOK /\ QueuesOK /\ LinksOK /\ SessOK
  BY TypeParts
<1>p. LocOK' /\ RemOK' /\ QueuesOK' /\ LinksOK' /\ SessOK' => TypeOK'
  BY DEF TypeOK, LocOK, RemOK, QueuesOK, LinksOK, SessOK
<1>n. Links \subseteq Nat /\ Numbers \subseteq Nat /\ 0 \in Numbers /\ MaxData \in Nat /\ MaxLink \in Nat
  BY NumberTypes
<1>u. /\ UNCHANGED loc => LocOK'
      /\ UNCHANGED rem => RemOK'
      /\ UNCHANGED <<c2r, r2c, r2d, d2r>> => QueuesOK'
      /\ UNCHANGED <<scn, cl, dm, reg, look, alive>> => LinksOK'
      /\ UNCHANGED <<sess, why>> => SessOK'
  BY <1>t DEF LocOK, RemOK, QueuesOK, LinksOK, SessOK
<1>m. \A t \in Tunnels, n \in Numbers :
        /\ \A k \in {"open", "data", "close"} : Msg(k, t, n) \in Frames({"open", "data", "close"})
        /\ \A k \in {"ok", "err", "data", "close"} :
             Msg(k, t, n) \in Frames({"ok", "err", "data", "close"})
        /\ \A k \in {"ok", "err", "data", "close", "register"} :
             Msg(k, t, n) \in Frames({"ok", "err", "data", "close", "register"})
  BY MsgType
\* Writing frames, and reading them.
<1>w. /\ \A m \in Frames({"open", "data", "close"}) : ToRelay(m) => c2r' \in Seq(Frames({"open", "data", "close"}))
      /\ \A m \in Frames({"open", "data", "close"}) : \A d : ToDaemon(d, m) => r2d' \in Seq(Frames({"open", "data", "close"}))
      /\ \A m \in Frames({"ok", "err", "data", "close"}) : \A c :
           ToClient(c, m) => r2c' \in Seq(Frames({"ok", "err", "data", "close"}))
      /\ \A m \in Frames({"ok", "err", "data", "close", "register"}) :
           FromDaemon(<<m>>) => d2r' \in Seq(Frames({"ok", "err", "data", "close", "register"}))
  BY <1>t, QueueType, ZenonT(40) DEF QueuesOK, ToRelay, ToDaemon, ToClient, FromDaemon
<1>h. /\ c2r # <<>> => Tail(c2r) \in Seq(Frames({"open", "data", "close"})) /\ Head(c2r) \in Frames({"open", "data", "close"})
      /\ r2d # <<>> => Tail(r2d) \in Seq(Frames({"open", "data", "close"})) /\ Head(r2d) \in Frames({"open", "data", "close"})
      /\ r2c # <<>> => Tail(r2c) \in Seq(Frames({"ok", "err", "data", "close"})) /\ Head(r2c) \in Frames({"ok", "err", "data", "close"})
      /\ d2r # <<>> => /\ Tail(d2r) \in Seq(Frames({"ok", "err", "data", "close", "register"}))
                       /\ Head(d2r) \in Frames({"ok", "err", "data", "close", "register"})
  BY <1>t, QueueType DEF QueuesOK
<1>e. <<>> \in Seq(Frames({"open", "data", "close"})) /\ <<>> \in Seq(Frames({"ok", "err", "data", "close"}))
      /\ <<>> \in Seq(Frames({"ok", "err", "data", "close", "register"}))
  OBVIOUS
<1>b. /\ \A t, c : c \in Causes /\ Blame(t, c) => why' \in [Tunnels -> SUBSET Causes]
      /\ \A S, c : c \in Causes /\ BlameAll(S, c) => why' \in [Tunnels -> SUBSET Causes]
  BY <1>t DEF SessOK, Blame, BlameAll
<1>c. \A t \in Tunnels : /\ LocalFits(Closed(t)) \/ loc[t].active
                         /\ LocalFits(Unstored(t)) /\ LocalFits(CloseLocal(t))
                         /\ \A a \in {"ok", "err"} : LocalFits(Answer(t, a))
  BY <1>t, ZenonT(40) DEF LocOK, LocalFits, Locals, Closed, Unstored, CloseLocal, Answer
<1>d. \A t \in Tunnels : RemoteFits(CloseRemote(t))
  BY <1>t DEF RemOK, RemoteFits, Remotes, CloseRemote
<1>l. /\ \A t \in Tunnels : \A v : LocalFits(v) /\ loc' = [loc EXCEPT ![t] = v] => LocOK'
      /\ \A t \in Tunnels : \A v : RemoteFits(v) /\ rem' = [rem EXCEPT ![t] = v] => RemOK'
      /\ \A t \in Tunnels : LocalFits(loc[t]) /\ RemoteFits(rem[t])
  BY <1>t DEF LocOK, RemOK, LocalFits, RemoteFits
<1>o. r2d # <<>> /\ Head(r2d).k = "open" => ~rem[Head(r2d).t].active
  <2> SUFFICES ASSUME r2d # <<>>, Head(r2d).k = "open" PROVE ~rem[Head(r2d).t].active
    OBVIOUS
  <2>1. PICK t \in Tunnels : t = Head(r2d).t
    BY <1>h DEF Frames
  <2>2. Has(r2d, "open", t)
    <3>1. 1 \in Of(r2d, "open", t)
      BY <1>t, <2>1 DEF Of, QueuesOK
    <3> QED
      BY <3>1 DEF Has
  <2>3. rem[t].st = "none"
    BY <2>2 DEF StreamInv, TunnelInv, Opened
  <2> QED
    BY <1>t, <2>1, <2>3 DEF RemOK
<1>1. ASSUME NEW t \in Tunnels, LocalOpens(t) PROVE TypeOK'
  <2> DEFINE v == [loc[t] EXCEPT !.st = "opening", !.sock = "open", !.on = cl.conn]
  <2>1. LocalFits(v)
    BY <1>t, <1>l, <1>1 DEF LocalOpens, LocalFits, LinksOK, Locals
  <2>2. loc' = [loc EXCEPT ![t] = v]
    BY <1>1 DEF LocalOpens
  <2>3. QueuesOK'
    BY <1>t, <1>1, <1>m, <1>n, <1>w DEF LocalOpens, QueuesOK, daemon
  <2> QED
    BY <1>1, <1>l, <1>p, <1>u, <2>1, <2>2, <2>3 DEF LocalOpens, relay, daemon
<1>2. ASSUME NEW t \in Tunnels, LocalRefused(t) \/ LocalAnswered(t) \/ LocalGivesUp(t) \/ LocalStores(t)
      PROVE TypeOK'
  <2>1. PICK v : LocalFits(v) /\ loc' = [loc EXCEPT ![t] = v]
    <3>1. CASE LocalRefused(t) \/ LocalGivesUp(t)
      <4>1. LocalFits(Closed(t))
        BY <1>t, <1>c, <3>1 DEF LocalRefused, LocalGivesUp, LocOK
      <4> QED
        BY <3>1, <4>1 DEF LocalRefused, LocalGivesUp
    <3>2. CASE LocalAnswered(t)
      <4> DEFINE w == [loc[t] EXCEPT !.st = "opened"]
      <4>1. LocalFits(Closed(t))
        BY <1>t, <1>c, <3>2 DEF LocalAnswered, LocOK
      <4>3. LocalFits(w)
        <5>1. loc[t].sock = "open" /\ ~loc[t].active /\ loc[t] \in Locals
          BY <1>t, <3>2 DEF LocalAnswered, LocOK
        <5> QED
          BY <5>1 DEF LocalFits, Locals
      <4>2. loc' = [loc EXCEPT ![t] = IF loc[t].ans = "ok" THEN w ELSE Closed(t)]
        BY <3>2 DEF LocalAnswered
      <4> HIDE DEF w
      <4> QED
        BY <4>1, <4>2, <4>3
    <3>3. CASE LocalStores(t)
      <4> DEFINE w == [loc[t] EXCEPT !.st = "piping", !.active = TRUE]
      <4>1. LocalFits(w)
        BY <1>t, <1>l, <3>3 DEF LocalStores, LocOK, LocalFits, Locals
      <4>2. loc' = [loc EXCEPT ![t] = w]
        BY <3>3 DEF LocalStores
      <4> QED
        BY <4>1, <4>2
    <3> QED
      BY <1>2, <3>1, <3>2, <3>3
  <2>2. LocOK'
    BY <1>l, <2>1
  <2>3. SessOK'
    BY <1>t, <1>2, <1>b, <1>u DEF LocalRefused, LocalAnswered, LocalGivesUp, LocalStores, SessOK,
                                  Causes, relay
  <2> QED
    BY <1>2, <1>p, <1>u, <2>2, <2>3 DEF LocalRefused, LocalAnswered, LocalGivesUp, LocalStores,
                                        relay, daemon
<1>3. ASSUME NEW t \in Tunnels, LocalPipes(t) PROVE TypeOK'
  <2>1. loc[t].sent + 1 \in Numbers
    BY <1>t, <1>3, <1>n DEF LocalPipes, LocOK, Locals, Numbers
  <2>2. LocOK'
    <3> DEFINE w == [loc[t] EXCEPT !.sent = @ + 1]
    <3>1. LocalFits(w)
      BY <1>l, <2>1 DEF LocalFits, Locals
    <3>2. loc' = [loc EXCEPT ![t] = w] \/ loc' = [loc EXCEPT ![t] = Unstored(t)]
      BY <1>3 DEF LocalPipes
    <3> HIDE DEF w
    <3> QED
      BY <1>c, <1>l, <3>1, <3>2
  <2>3. QueuesOK'
    BY <1>t, <1>3, <1>m, <1>w, <2>1 DEF LocalPipes, QueuesOK, daemon
  <2> QED
    BY <1>3, <1>p, <1>u, <2>2, <2>3 DEF LocalPipes, relay, daemon
<1>4. ASSUME NEW t \in Tunnels, LocalEnds(t) PROVE TypeOK'
  <2>1. LocOK'
    BY <1>4, <1>c, <1>l DEF LocalEnds
  <2>2. QueuesOK'
    BY <1>t, <1>4, <1>m, <1>n, <1>w DEF LocalEnds, QueuesOK, daemon
  <2> QED
    BY <1>4, <1>p, <1>u, <2>1, <2>2 DEF LocalEnds, relay, daemon
<1>5. CASE ClientReads
  <2> DEFINE m == Head(r2c)
             t == m.t
  <2>0. /\ r2c # <<>> /\ r2c' = Tail(r2c) /\ m \in Frames({"ok", "err", "data", "close"})
        /\ UNCHANGED <<scn, cl, relay, daemon, c2r, d2r>>
    BY <1>5, <1>h DEF ClientReads
  <2>1. t \in Tunnels
    BY <2>0 DEF Frames
  <2>2. m.k \in {"ok", "err", "data", "close"} /\ m.n \in Numbers
    BY <2>0 DEF Frames
  <2>3. LocOK'
    <3>1. CASE m.k \in {"ok", "err"}
      <4>1. loc' = [loc EXCEPT ![t] = Answer(t, m.k)]
        BY <1>5, <3>1 DEF ClientReads, AfterFrame
      <4> QED
        BY <1>c, <1>l, <2>1, <3>1, <4>1
    <3>2. CASE m.k = "data"
      <4>1. LocalFits(LocalGets(t, m.n))
        <5>1. LocalFits(loc[t])
          BY <1>l, <2>1
        <5>2. Append(loc[t].got, m.n) \in Seq(Numbers)
          BY <2>2, <5>1 DEF LocalFits, Locals
        <5> QED
          BY <5>1, <5>2 DEF LocalGets, LocalFits, Locals
      <4>2. \/ loc' = [loc EXCEPT ![t] = LocalGets(t, m.n)]
            \/ loc' = [loc EXCEPT ![t] = CloseLocal(t)]
        BY <1>5, <3>2 DEF ClientReads, AfterFrame
      <4> QED
        BY <1>c, <1>l, <2>1, <4>1, <4>2
    <3>3. CASE m.k = "close"
      BY <1>5, <1>c, <1>l, <2>1, <3>3 DEF ClientReads, AfterFrame
    <3> QED
      BY <2>2, <3>1, <3>2, <3>3
  <2>4. SessOK'
    BY <1>5, <1>t, <1>b, <1>u, <2>0 DEF ClientReads, SessOK, Causes, relay
  <2>5. QueuesOK'
    BY <1>t, <1>h, <2>0 DEF QueuesOK, daemon
  <2> QED
    BY <1>p, <1>u, <2>0, <2>3, <2>4, <2>5 DEF relay, daemon
<1>6. CASE ClientDrops
  <2>1. loc' = [t \in Tunnels |-> Dropped(t)]
    BY <1>6 DEF ClientDrops
  <2>2. \A t \in Tunnels : LocalFits(Dropped(t))
    BY <1>c DEF Dropped
  <2>3. LocOK'
    BY <2>1, <2>2 DEF LocOK, LocalFits
  <2>4. LinksOK'
    BY <1>t, <1>6 DEF ClientDrops, LinksOK, daemon, relay
  <2>5. SessOK'
    BY <1>t, <1>6 DEF ClientDrops, SessOK, Causes, relay
  <2> QED
    BY <1>6, <1>p, <1>u, <2>3, <2>4, <2>5 DEF ClientDrops, relay, daemon
<1>7. CASE ClientRedials \/ ClientLinkBreaks
  <2>1. LinksOK'
    <3>1. CASE ClientRedials
      <4>1. cl.link + 1 \in Links
        BY <1>t, <1>n, <3>1 DEF ClientRedials, LinksOK, Links
      <4> QED
        BY <1>t, <3>1, <4>1 DEF ClientRedials, LinksOK, daemon, relay
    <3>2. CASE ClientLinkBreaks
      BY <1>t, <3>2 DEF ClientLinkBreaks, LinksOK, daemon
    <3> QED
      BY <1>7, <3>1, <3>2
  <2>2. SessOK'
    BY <1>t, <1>7, <1>b, <1>u DEF ClientRedials, ClientLinkBreaks, SessOK, Causes, relay
  <2>3. QueuesOK'
    BY <1>t, <1>7, <1>e, <1>u DEF ClientRedials, ClientLinkBreaks, QueuesOK, daemon
  <2> QED
    BY <1>7, <1>p, <1>u, <2>1, <2>2, <2>3 DEF ClientRedials, ClientLinkBreaks, relay, daemon
<1>8. CASE RelayLooksUp
  <2>1. LinksOK'
    BY <1>t, <1>8 DEF RelayLooksUp, LinksOK, daemon
  <2>2. QueuesOK'
    <3>1. Msg("err", Head(c2r).t, 0) \in Frames({"ok", "err", "data", "close"})
      BY <1>8, <1>h, <1>m, <1>n DEF RelayLooksUp, Takes, Frames
    <3> QED
      BY <1>t, <1>8, <1>h, <1>w, <3>1 DEF RelayLooksUp, Takes, QueuesOK, daemon
  <2> QED
    BY <1>8, <1>p, <1>u, <2>1, <2>2 DEF RelayLooksUp, daemon
<1>9. CASE RelayForwardsOpen
  <2>0. c2r # <<>> /\ Head(c2r).t \in Tunnels /\ look \in Links /\ cl.link \in Links
    BY <1>t, <1>9, <1>h DEF RelayForwardsOpen, Takes, Frames, LinksOK
  <2>1. LinksOK'
    BY <1>t, <1>9 DEF RelayForwardsOpen, LinksOK
  <2>2. SessOK'
    BY <1>t, <1>9, <2>0 DEF RelayForwardsOpen, SessOK
  <2>3. QueuesOK'
    BY <1>t, <1>9, <1>h, <1>m, <1>n, <1>w, <2>0 DEF RelayForwardsOpen, QueuesOK
  <2> QED
    BY <1>9, <1>p, <1>u, <2>1, <2>2, <2>3 DEF RelayForwardsOpen
<1>10. CASE RelayFromClient
  <2>0. c2r # <<>> /\ Head(c2r).t \in Tunnels
    BY <1>10, <1>h DEF RelayFromClient, Takes, Frames
  <2>1. SessOK'
    BY <1>t, <1>10, <2>0 DEF RelayFromClient, SessOK
  <2>2. QueuesOK'
    BY <1>t, <1>10, <1>h, <1>w, <2>0 DEF RelayFromClient, QueuesOK, client
  <2> QED
    BY <1>10, <1>p, <1>u, <2>1, <2>2 DEF RelayFromClient, client
<1>11. CASE RelayFromDaemon
  <2>0. d2r # <<>> /\ Head(d2r).t \in Tunnels /\ Head(d2r) \in Frames({"ok", "err", "data", "close"})
    BY <1>11, <1>h DEF RelayFromDaemon, Frames
  <2>1. SessOK'
    BY <1>t, <1>11, <2>0 DEF RelayFromDaemon, SessOK
  <2>2. QueuesOK'
    BY <1>t, <1>11, <1>h, <1>w, <2>0 DEF RelayFromDaemon, QueuesOK, daemon
  <2> QED
    BY <1>11, <1>p, <1>u, <2>1, <2>2 DEF RelayFromDaemon, daemon
<1>12. CASE RelayRegisters
  <2>1. LinksOK'
    BY <1>t, <1>12 DEF RelayRegisters, LinksOK, daemon, client
  <2>2. QueuesOK'
    BY <1>t, <1>12, <1>h DEF RelayRegisters, QueuesOK, daemon, client
  <2> QED
    BY <1>12, <1>p, <1>u, <2>1, <2>2 DEF RelayRegisters, daemon, client
<1>13. ASSUME NEW l \in Links, RelayUnregisters(l) PROVE TypeOK'
  <2>1. LinksOK'
    BY <1>t, <1>13 DEF RelayUnregisters, LinksOK, daemon
  <2>2. QueuesOK'
    <3> DEFINE S == {t \in Orphaned(l) : sess[t].c = cl.link /\ cl.up}
    <3>1. PICK order \in SetToSeqs(S) :
            r2c' = r2c \o [i \in DOMAIN order |-> Msg("close", order[i], 0)]
      BY <1>13 DEF RelayUnregisters
    <3>s. S \in SUBSET Tunnels
      BY DEF Orphaned
    <3>2. order \in Seq(Tunnels)
      BY <3>s, OrderType
    <3>3. r2c' \in Seq(Frames({"ok", "err", "data", "close"}))
      BY <1>t, <3>1, <3>2, ClosesAdded DEF QueuesOK
    <3> QED
      BY <1>t, <1>13, <3>3 DEF RelayUnregisters, QueuesOK, daemon
  <2>3. SessOK'
    BY <1>t, <1>13 DEF RelayUnregisters, SessOK
  <2> QED
    BY <1>13, <1>p, <1>u, <2>1, <2>2, <2>3 DEF RelayUnregisters, daemon
<1>14. CASE DaemonReads
  <2> DEFINE m == Head(r2d)
             t == m.t
  <2>0. /\ r2d # <<>> /\ r2d' = Tail(r2d) /\ m \in Frames({"open", "data", "close"})
        /\ UNCHANGED <<scn, client, relay, dm, c2r>>
    BY <1>14, <1>h DEF DaemonReads
  <2>1. t \in Tunnels
    BY <2>0 DEF Frames
  <2>2. m.k \in {"open", "data", "close"} /\ m.n \in Numbers
    BY <2>0 DEF Frames
  <2>3. RemOK'
    <3>1. CASE m.k = "open"
      <4>1. RemoteFits(rem[t])
        BY <1>l, <2>1
      <4>2. rem' = [rem EXCEPT ![t] = Dialing(t)]
        BY <1>14, <3>1 DEF DaemonReads
      <4>3. ~rem[t].active
        BY <1>o, <2>0, <3>1
      <4>4. RemoteFits(Dialing(t))
        BY <4>1, <4>3 DEF Dialing, RemoteFits, Remotes
      <4> QED
        BY <1>l, <2>1, <4>2, <4>4
    <3>2. CASE m.k = "close" \/ (m.k = "data" /\ WriteFails(t))
      <4>1. rem' = [rem EXCEPT ![t] = CloseRemote(t)]
        BY <1>14, <3>2 DEF DaemonReads
      <4> QED
        BY <1>d, <1>l, <2>1, <4>1
    <3>3. CASE m.k = "data" /\ ~WriteFails(t)
      <4>1. RemoteFits(RemoteGets(t, m.n))
        <5>1. RemoteFits(rem[t])
          BY <1>l, <2>1
        <5>2. Append(rem[t].got, m.n) \in Seq(Numbers)
          BY <2>2, <5>1 DEF RemoteFits, Remotes
        <5> QED
          BY <5>1, <5>2 DEF RemoteGets, RemoteFits, Remotes
      <4>2. rem' = [rem EXCEPT ![t] = RemoteGets(t, m.n)]
        BY <1>14, <3>3 DEF DaemonReads
      <4> QED
        BY <1>l, <2>1, <4>1, <4>2
    <3> QED
      BY <2>2, <3>1, <3>2, <3>3
  <2>4. SessOK'
    BY <1>14, <1>t, <1>b, <1>u, <2>0 DEF DaemonReads, SessOK, Causes, relay
  <2>5. d2r' \in Seq(Frames({"ok", "err", "data", "close", "register"}))
    BY <1>14, <1>t, <1>m, <1>n, <1>w, <2>1 DEF DaemonReads, QueuesOK
  <2>6. QueuesOK'
    BY <1>t, <1>h, <2>0, <2>5 DEF QueuesOK, client
  <2> QED
    BY <1>p, <1>u, <2>0, <2>3, <2>4, <2>6 DEF relay, client
<1>15. CASE DaemonLinkBreaks \/ DaemonRedials
  <2>1. LinksOK'
    <3>1. CASE DaemonLinkBreaks
      BY <1>t, <3>1 DEF DaemonLinkBreaks, LinksOK, client, relay
    <3>2. CASE DaemonRedials
      <4>1. dm.link + 1 \in Links
        BY <1>t, <1>n, <3>2 DEF DaemonRedials, LinksOK, StreamInv, LinkInv, Links
      <4> QED
        BY <1>t, <3>2, <4>1 DEF DaemonRedials, LinksOK, client, relay
    <3> QED
      BY <1>15, <3>1, <3>2
  <2>2. SessOK'
    BY <1>t, <1>15, <1>b, <1>u DEF DaemonRedials, DaemonLinkBreaks, SessOK, Causes, relay
  <2>3. QueuesOK'
    <3>1. (CHOOSE t \in Tunnels : TRUE) \in Tunnels
      BY TunnelAssumption
    <3>2. Msg("register", CHOOSE t \in Tunnels : TRUE, 0) \in Frames({"ok", "err", "data", "close", "register"})
      BY <1>m, <1>n, <3>1
    <3>3. <<Msg("register", CHOOSE t \in Tunnels : TRUE, 0)>>
            \in Seq(Frames({"ok", "err", "data", "close", "register"}))
      BY <3>2
    <3> QED
      BY <1>t, <1>15, <1>e, <1>u, <3>3 DEF DaemonRedials, DaemonLinkBreaks, QueuesOK, client
  <2> QED
    BY <1>15, <1>p, <1>u, <2>1, <2>2, <2>3 DEF DaemonRedials, DaemonLinkBreaks, relay, client
<1>16. ASSUME NEW t \in Tunnels, DaemonDials(t) \/ DaemonStores(t) \/ RemotePipes(t)
                                   \/ PeerLeaves(t) \/ RemoteEnds(t)
       PROVE  TypeOK'
  <2>1. PICK v : RemoteFits(v) /\ rem' = [rem EXCEPT ![t] = v]
    <3>r. RemoteFits(rem[t])
      BY <1>l
    <3>1. CASE DaemonDials(t)
      <4> DEFINE w == [rem[t] EXCEPT !.st = "opened", !.sock = "open"]
                 z == [rem[t] EXCEPT !.st = "done"]
      <4>1. RemoteFits(w) /\ RemoteFits(z)
        BY <3>r, <3>1 DEF DaemonDials, RemoteFits, Remotes
      <4>2. rem' = [rem EXCEPT ![t] = w] \/ rem' = [rem EXCEPT ![t] = z]
        BY <3>1 DEF DaemonDials
      <4> HIDE DEF w, z
      <4> QED
        BY <4>1, <4>2
    <3>2. CASE DaemonStores(t)
      <4> DEFINE w == [rem[t] EXCEPT !.st = "reading", !.active = TRUE]
      <4>1. RemoteFits(w)
        BY <3>r, <3>2 DEF DaemonStores, RemoteFits, Remotes
      <4>2. rem' = [rem EXCEPT ![t] = w]
        BY <3>2 DEF DaemonStores
      <4> HIDE DEF w
      <4> QED
        BY <4>1, <4>2
    <3>3. CASE RemotePipes(t)
      <4> DEFINE w == [rem[t] EXCEPT !.sent = @ + 1]
      <4>1. rem[t].sent + 1 \in Numbers
        BY <1>n, <3>r, <3>3 DEF RemotePipes, RemoteFits, Remotes, Numbers
      <4>2. RemoteFits(w)
        BY <3>r, <4>1 DEF RemoteFits, Remotes
      <4>3. rem' = [rem EXCEPT ![t] = w]
        BY <3>3 DEF RemotePipes
      <4> HIDE DEF w
      <4> QED
        BY <4>2, <4>3
    <3>4. CASE PeerLeaves(t)
      <4> DEFINE w == [rem[t] EXCEPT !.peer = "gone"]
      <4>1. RemoteFits(w)
        BY <3>r DEF RemoteFits, Remotes
      <4>2. rem' = [rem EXCEPT ![t] = w]
        BY <3>4 DEF PeerLeaves
      <4> HIDE DEF w
      <4> QED
        BY <4>1, <4>2
    <3>5. CASE RemoteEnds(t)
      <4> DEFINE w == [CloseRemote(t) EXCEPT !.st = "done", !.sock = "closed"]
      <4>1. CloseRemote(t).active = FALSE
        BY <3>r DEF CloseRemote, RemoteFits, Remotes
      <4>2. RemoteFits(w)
        BY <1>d, <4>1 DEF RemoteFits, Remotes
      <4>3. rem' = [rem EXCEPT ![t] = w]
        BY <3>5 DEF RemoteEnds
      <4> HIDE DEF w
      <4> QED
        BY <4>2, <4>3
    <3> QED
      BY <1>16, <3>1, <3>2, <3>3, <3>4, <3>5
  <2>2. RemOK'
    BY <1>l, <2>1
  <2>3. d2r' \in Seq(Frames({"ok", "err", "data", "close", "register"}))
    <3>1. rem[t].sent < MaxData => rem[t].sent + 1 \in Numbers
      BY <1>n, <1>t DEF RemOK, Remotes, Numbers
    <3> QED
      BY <1>t, <1>16, <1>m, <1>n, <1>w, <3>1
         DEF QueuesOK, DaemonDials, DaemonStores, RemotePipes, PeerLeaves, RemoteEnds
  <2>4. /\ QueuesOK' /\ UNCHANGED <<scn, client, relay, dm, why>>
    BY <1>t, <1>16, <2>3
       DEF QueuesOK, client, DaemonDials, DaemonStores, RemotePipes, PeerLeaves, RemoteEnds
  <2> QED
    BY <1>p, <1>u, <2>2, <2>4 DEF relay, client
<1>17. CASE UNCHANGED vars
  BY <1>p, <1>u, <1>17 DEF vars
<1> QED
  BY <1>1, <1>2, <1>3, <1>4, <1>5, <1>6, <1>7, <1>8, <1>9, <1>10, <1>11, <1>12,
     <1>13, <1>14, <1>15, <1>16, <1>17 DEF Next, Works, Proceeds

---------------------------------------------------------------------------
(***************************************************************************)
(* Connections                                                             *)
(***************************************************************************)

\* At first everything is connected and nothing is on its way.
LEMMA InitStreams == Init => TypeOK /\ StreamInv
<1> SUFFICES ASSUME Init PROVE TypeOK /\ StreamInv
  OBVIOUS
<1>n. Links \subseteq Nat /\ 1 \in Links /\ 0 \notin Links /\ Numbers \subseteq Nat /\ 0 \in Numbers
  BY NumberTypes
<1>e. <<>> \in Seq(Numbers) /\ \A K : <<>> \in Seq(Frames(K))
  OBVIOUS
<1>1. TypeOK
  BY <1>n, <1>e DEF Init, TypeOK, Locals, Remotes
<1>2. LinkInv
  BY <1>n DEF Init, LinkInv, NoSession
<1>3. ASSUME NEW t \in Tunnels PROVE TunnelInv(t)
  <2>1. /\ Nums(<<>>, t) = {} /\ Tidy(<<>>, t) /\ \A k : ~Has(<<>>, k, t)
    BY EmptyQueue
  <2>2. Flow(<<>>, {}, {}, 0)
    BY DEF Flow, Increasing
  <2>3. \A takes, passes, rides \in BOOLEAN : Unbroken(<<>>, {}, {}, 0, takes, passes, rides)
    BY DEF Unbroken, Whole
  <2>4. Queued(t) /\ Opened(t)
    BY <2>1 DEF Init, Queued, Opened
  <2>5. Outward(t)
    BY <2>1, <2>2, <2>3 DEF Init, Outward, RemoteTakes, PassesOut, RidesOut
  <2>6. Back(t)
    BY <2>1, <2>2, <2>3 DEF Init, Back, LocalTakes, PassesBack
  <2> QED
    BY <2>4, <2>5, <2>6 DEF TunnelInv
<1> QED
  BY <1>1, <1>2, <1>3 DEF StreamInv

\* What a step does to the connections.
LEMMA StepLinks == TypeOK /\ StreamInv /\ [Next]_vars => LinkInv'
<1> SUFFICES ASSUME TypeOK, StreamInv, [Next]_vars PROVE LinkInv'
  OBVIOUS
<1>t. LocOK /\ RemOK /\ QueuesOK /\ LinksOK /\ SessOK
  BY TypeParts
<1>n. \A k \in {0} \cup Links : k \in Nat
  BY NumberTypes
<1>i. LinkInv
  BY DEF StreamInv
<1>l. cl.link \in Nat /\ dm.link \in Nat /\ look \in Nat /\ reg \in Nat
  <2>1. cl.link \in Links /\ dm.link \in Links /\ look \in {0} \cup Links /\ reg \in {0} \cup Links
    BY <1>t DEF LinksOK
  <2> QED
    BY <1>n, <2>1
<1>s. \A t \in Tunnels : sess[t].c \in Nat /\ sess[t].d \in Nat /\ loc[t].on \in Nat
  <2> SUFFICES ASSUME NEW t \in Tunnels PROVE sess[t].c \in Nat /\ sess[t].d \in Nat /\ loc[t].on \in Nat
    OBVIOUS
  <2>1. sess[t] \in [c : Links, d : Links] \/ sess[t] = NoSession
    BY <1>t DEF SessOK
  <2>2. sess[t].c \in {0} \cup Links /\ sess[t].d \in {0} \cup Links
    BY <2>1 DEF NoSession
  <2>3. loc[t].on \in {0} \cup Links
    BY <1>t DEF LocOK, Locals
  <2> QED
    BY <1>n, <2>2, <2>3
\* Steps that leave the connections alone.
<1>k. ASSUME UNCHANGED <<cl, dm, look, reg, sess>>,
             c2r' # <<>> => c2r # <<>> \/ cl.up, r2c' # <<>> => r2c # <<>> \/ cl.up,
             r2d' # <<>> => r2d # <<>> \/ dm.up, d2r' # <<>> => d2r # <<>> \/ dm.up,
             \A t \in Tunnels : loc'[t].on = loc[t].on
      PROVE  LinkInv'
  BY <1>i, <1>k DEF LinkInv
<1>w. /\ \A m : ToRelay(m) => (c2r' # <<>> => c2r # <<>> \/ cl.up)
      /\ \A m, c : ToClient(c, m) => (r2c' # <<>> => r2c # <<>> \/ cl.up)
      /\ \A m, d : ToDaemon(d, m) => (r2d' # <<>> => r2d # <<>> \/ dm.up)
      /\ \A ms : FromDaemon(ms) => (d2r' # <<>> => d2r # <<>> \/ dm.up)
  BY DEF ToRelay, ToClient, ToDaemon, FromDaemon
<1>1. ASSUME NEW t \in Tunnels, LocalOpens(t) PROVE LinkInv'
  <2>1. \A x \in Tunnels : loc'[x].on = IF x = t THEN cl.conn ELSE loc[x].on
    BY <1>t, <1>1 DEF LocalOpens, LocOK, Locals
  <2>2. UNCHANGED <<cl, dm, look, reg, sess, r2c, r2d, d2r>> /\ (c2r' # <<>> => c2r # <<>> \/ cl.up)
    BY <1>1, <1>w DEF LocalOpens, daemon, relay
  <2>3. cl.conn <= cl.link
    BY <1>i, <1>l DEF LinkInv
  <2> QED
    BY <1>i, <2>1, <2>2, <2>3 DEF LinkInv
<1>2. ASSUME NEW t \in Tunnels, LocalRefused(t) \/ LocalAnswered(t) \/ LocalGivesUp(t)
                                  \/ LocalStores(t) \/ LocalPipes(t) \/ LocalEnds(t)
      PROVE  LinkInv'
  <2>1. \A x \in Tunnels : loc'[x].on = loc[x].on
    <3>1. loc[t] \in Locals
      BY <1>t DEF LocOK
    <3>2. Closed(t).on = loc[t].on /\ Unstored(t).on = loc[t].on
      BY <3>1 DEF Locals, Closed, Unstored
    <3>3. loc'[t].on = loc[t].on /\ \A x \in Tunnels \ {t} : loc'[x] = loc[x]
      <4>1. CASE LocalRefused(t) \/ LocalAnswered(t) \/ LocalGivesUp(t)
        BY <1>t, <3>1, <3>2, <4>1, ZenonT(40) DEF LocalRefused, LocalAnswered, LocalGivesUp, LocOK, Locals
      <4>2. CASE LocalStores(t) \/ LocalPipes(t) \/ LocalEnds(t)
        BY <1>t, <3>1, <3>2, <4>2 DEF LocalStores, LocalPipes, LocalEnds, LocOK, Locals
      <4> QED
        BY <1>2, <4>1, <4>2
    <3> QED
      BY <3>3
  <2>2. UNCHANGED <<cl, dm, look, reg, sess, r2c, r2d, d2r>> /\ (c2r' # <<>> => c2r # <<>> \/ cl.up)
    BY <1>2, <1>w DEF LocalRefused, LocalAnswered, LocalGivesUp, LocalStores, LocalPipes, LocalEnds,
                      daemon, relay
  <2> QED
    BY <1>k, <2>1, <2>2
<1>3. CASE ClientReads
  <2>1. \A x \in Tunnels : loc'[x].on = loc[x].on
    <3> DEFINE m == Head(r2c)
               t == m.t
    <3>1. m.k \in {"ok", "err", "data", "close"} /\ t \in Tunnels
      <4>1. r2c # <<>> /\ r2c \in Seq(Frames({"ok", "err", "data", "close"}))
        BY <1>t, <1>3 DEF ClientReads, QueuesOK
      <4>2. m \in Frames({"ok", "err", "data", "close"})
        BY <4>1, QueueType
      <4> QED
        BY <4>2 DEF Frames
    <3>2. PICK v : loc' = [loc EXCEPT ![t] = v] /\ v \in {Answer(t, m.k), LocalGets(t, m.n), CloseLocal(t)}
      BY <1>3, <3>1 DEF ClientReads, AfterFrame
    <3>3. loc[t] \in Locals
      BY <1>t, <3>1 DEF LocOK
    <3>4. v.on = loc[t].on
      BY <3>2, <3>3 DEF Answer, LocalGets, CloseLocal, Locals
    <3> QED
      BY <1>t, <3>1, <3>2, <3>4 DEF LocOK
  <2> QED
    BY <1>3, <1>k, <2>1 DEF ClientReads, daemon, relay
<1>4. CASE ClientDrops
  <2>1. \A x \in Tunnels : loc'[x].on = loc[x].on
    BY <1>t, <1>4 DEF ClientDrops, LocOK, Locals, Dropped, Answer, CloseLocal
  <2> QED
    BY <1>i, <1>t, <1>4, <2>1 DEF ClientDrops, LinkInv, LinksOK, daemon, relay
<1>5. CASE ClientRedials
  <2>1. cl' = [link |-> cl.link + 1, conn |-> cl.link + 1, up |-> TRUE]
        /\ UNCHANGED <<dm, look, reg, sess, loc, c2r, r2c, r2d, d2r>>
    BY <1>5 DEF ClientRedials, daemon, relay
  <2> QED
    BY <1>i, <1>l, <1>s, <2>1 DEF LinkInv
<1>6. CASE ClientLinkBreaks
  <2>1. /\ UNCHANGED <<dm, reg, sess, loc, r2d, d2r>> /\ cl' = [cl EXCEPT !.up = FALSE]
        /\ c2r' = <<>> /\ r2c' = <<>> /\ look' = 0
    BY <1>6 DEF ClientLinkBreaks, daemon
  <2>2. cl'.conn = cl.conn /\ cl'.link = cl.link /\ cl'.up = FALSE
    BY <1>t, <2>1 DEF LinksOK
  <2> QED
    BY <1>i, <1>l, <2>1, <2>2 DEF LinkInv
<1>7. CASE RelayLooksUp
  <2>1. UNCHANGED <<cl, dm, reg, sess, loc, r2d, d2r>> /\ (look' = look \/ look' = reg)
        /\ (c2r' # <<>> => c2r # <<>> \/ cl.up) /\ (r2c' # <<>> => r2c # <<>> \/ cl.up)
    BY <1>7, <1>w DEF RelayLooksUp, Takes, daemon
  <2> QED
    BY <1>i, <2>1 DEF LinkInv
<1>8. CASE RelayForwardsOpen
  <2>1. /\ UNCHANGED <<cl, dm, reg, loc, d2r>> /\ look' = 0
        /\ (c2r' # <<>> => c2r # <<>> \/ cl.up) /\ (r2c' # <<>> => r2c # <<>> \/ cl.up)
        /\ (r2d' # <<>> => r2d # <<>> \/ dm.up)
    BY <1>8, <1>w DEF RelayForwardsOpen, Takes
  <2>2. \A x \in Tunnels : sess'[x] = sess[x] \/ sess'[x] = [c |-> cl.link, d |-> look]
    BY <1>t, <1>8 DEF RelayForwardsOpen, SessOK
  <2>3. \A x \in Tunnels : sess'[x].c <= cl.link /\ sess'[x].d <= dm.link
    BY <1>i, <1>l, <2>2 DEF LinkInv
  <2> QED
    BY <1>i, <1>l, <2>1, <2>3 DEF LinkInv
<1>9. CASE RelayFromClient \/ RelayFromDaemon
  <2>1. /\ UNCHANGED <<cl, dm, reg, loc, look>>
        /\ (c2r' # <<>> => c2r # <<>> \/ cl.up) /\ (r2c' # <<>> => r2c # <<>> \/ cl.up)
        /\ (r2d' # <<>> => r2d # <<>> \/ dm.up) /\ (d2r' # <<>> => d2r # <<>> \/ dm.up)
    BY <1>9, <1>w DEF RelayFromClient, RelayFromDaemon, Takes, client, daemon
  <2>2. \A x \in Tunnels : sess'[x] = sess[x] \/ sess'[x] = NoSession
    BY <1>t, <1>9 DEF RelayFromClient, RelayFromDaemon, SessOK
  <2>3. \A x \in Tunnels : sess'[x].c <= cl.link /\ sess'[x].d <= dm.link
    BY <1>i, <1>l, <2>2 DEF LinkInv, NoSession
  <2> QED
    BY <1>i, <2>1, <2>3 DEF LinkInv
<1>10. CASE RelayRegisters
  <2>1. UNCHANGED <<cl, dm, look, sess, loc, c2r, r2c, r2d>> /\ reg' = dm.link
        /\ (d2r' # <<>> => d2r # <<>>)
    BY <1>10 DEF RelayRegisters, client, daemon
  <2> QED
    BY <1>i, <1>l, <2>1 DEF LinkInv
<1>11. ASSUME NEW l \in Links, RelayUnregisters(l) PROVE LinkInv'
  <2>1. UNCHANGED <<cl, dm, look, loc, c2r, d2r, r2d>> /\ (reg' = reg \/ reg' = 0)
    BY <1>11 DEF RelayUnregisters, daemon
  <2>2. \A x \in Tunnels : sess'[x] = sess[x] \/ sess'[x] = NoSession
    BY <1>11 DEF RelayUnregisters
  <2>3. \A x \in Tunnels : sess'[x].c <= cl.link /\ sess'[x].d <= dm.link
    BY <1>i, <1>l, <2>2 DEF LinkInv, NoSession
  <2>4. r2c' # <<>> => r2c # <<>> \/ cl.up
    <3> DEFINE S == {t \in Orphaned(l) : sess[t].c = cl.link /\ cl.up}
    <3>1. PICK order \in SetToSeqs(S) :
            r2c' = r2c \o [i \in DOMAIN order |-> Msg("close", order[i], 0)]
      BY <1>11 DEF RelayUnregisters
    <3>2. CASE cl.up
      BY <3>2
    <3>3. CASE ~cl.up
      <4>1. S = {}
        BY <3>3
      <4>2. Cardinality(S) = 0
        BY <4>1, FS_EmptySet
      <4>3. DOMAIN order = {}
        BY <3>1, <4>2 DEF SetToSeqs
      <4>4. [i \in DOMAIN order |-> Msg("close", order[i], 0)] = <<>>
        BY <4>3
      <4> QED
        BY <1>t, <3>1, <4>4 DEF QueuesOK
    <3> QED
      BY <3>2, <3>3
  <2> QED
    BY <1>i, <1>l, <2>1, <2>3, <2>4 DEF LinkInv
<1>12. CASE DaemonReads
  <2>1. /\ UNCHANGED <<cl, dm, look, reg, sess, loc, c2r, r2c>>
        /\ (r2d' # <<>> => r2d # <<>> \/ dm.up) /\ (d2r' # <<>> => d2r # <<>> \/ dm.up)
    BY <1>12, <1>w DEF DaemonReads, client, relay
  <2> QED
    BY <1>k, <2>1
<1>13. CASE DaemonLinkBreaks
  BY <1>i, <1>t, <1>l, <1>13 DEF DaemonLinkBreaks, LinkInv, LinksOK, client, relay
<1>14. CASE DaemonRedials
  <2>1. /\ dm' = [link |-> dm.link + 1, up |-> TRUE]
        /\ UNCHANGED <<cl, look, reg, sess, loc, c2r, r2c, r2d>>
    BY <1>14 DEF DaemonRedials, client, relay
  <2> QED
    BY <1>i, <1>l, <1>s, <2>1 DEF LinkInv
<1>15. ASSUME NEW t \in Tunnels, DaemonDials(t) \/ DaemonStores(t) \/ RemotePipes(t)
                                   \/ PeerLeaves(t) \/ RemoteEnds(t)
       PROVE  LinkInv'
  <2>1. UNCHANGED <<cl, dm, look, reg, sess, loc, c2r, r2c, r2d>>
        /\ (d2r' # <<>> => d2r # <<>> \/ dm.up)
    BY <1>15, <1>w DEF DaemonDials, DaemonStores, RemotePipes, PeerLeaves, RemoteEnds, client, relay
  <2> QED
    BY <1>k, <2>1
<1>16. CASE UNCHANGED vars
  BY <1>16, <1>k DEF vars
<1> QED
  BY <1>1, <1>2, <1>3, <1>4, <1>5, <1>6, <1>7, <1>8, <1>9, <1>10, <1>11, <1>12,
     <1>13, <1>14, <1>15, <1>16 DEF Next, Works, Proceeds

---------------------------------------------------------------------------
(***************************************************************************)
(* Tunnels: what a step does to one of them.                               *)
(***************************************************************************)

\* A queue q has become r, and for tunnel x the same pieces are in it; nothing
\* new is said about the opening of x.
Quiet(q, r, x) == Nums(r, x) = Nums(q, x) /\ Tidy(r, x)
Alike(q, r, x) == /\ Has(r, "open", x) <=> Has(q, "open", x)
                  /\ Has(r, "ok", x) => Has(q, "ok", x)
Still(q, r, x) == Quiet(q, r, x) /\ Alike(q, r, x)

LEMMA StillAppend ==
  ASSUME NEW K, NEW q \in Seq(Frames(K)), NEW m \in Frames(K), NEW x, Tidy(q, x),
         m.t # x \/ m.k \notin {"data", "open", "ok"}
  PROVE  Still(q, Append(q, m), x)
<1>1. /\ Nums(Append(q, m), x) = Nums(q, x)
      /\ \A k : Has(Append(q, m), k, x) <=> Has(q, k, x) \/ (m.k = k /\ m.t = x)
      /\ Tidy(Append(q, m), x)
  BY AppendFrame
<1> QED
  BY <1>1 DEF Still, Quiet, Alike

LEMMA StillTail ==
  ASSUME NEW K, NEW q \in Seq(Frames(K)), q # <<>>, NEW x, Tidy(q, x),
         Head(q).t # x \/ Head(q).k \notin {"data", "open"}
  PROVE  Still(q, Tail(q), x)
<1>1. /\ Nums(Tail(q), x) = Nums(q, x)
      /\ \A k : Has(q, k, x) <=> Has(Tail(q), k, x) \/ (Head(q).k = k /\ Head(q).t = x)
      /\ Tidy(Tail(q), x)
  BY TailFrame
<1> QED
  BY <1>1 DEF Still, Quiet, Alike

\* The frames written in a step, and the frame that is read.
LEMMA Written ==
  ASSUME TypeOK, NEW x \in Tunnels, Queued(x)
  PROVE  /\ Still(c2r, c2r, x) /\ Still(r2c, r2c, x) /\ Still(r2d, r2d, x) /\ Still(d2r, d2r, x)
         /\ \A m \in Frames({"open", "data", "close"}) :
              m.t # x \/ m.k = "close" =>
                /\ ToRelay(m) => Still(c2r, c2r', x)
                /\ \A d : ToDaemon(d, m) => Still(r2d, r2d', x)
         /\ \A m \in Frames({"ok", "err", "data", "close"}) : \A c :
              ToClient(c, m) /\ (m.t # x \/ m.k \in {"err", "close"}) => Still(r2c, r2c', x)
         /\ \A m \in Frames({"ok", "err", "data", "close", "register"}) :
              /\ d2r \o <<m>> = Append(d2r, m)
              /\ FromDaemon(<<m>>) /\ (m.t # x \/ m.k \notin {"data", "open", "ok"}) => Still(d2r, d2r', x)
<1>t. QueuesOK
  BY TypeParts
<1>1. /\ Still(c2r, c2r, x) /\ Still(r2c, r2c, x) /\ Still(r2d, r2d, x) /\ Still(d2r, d2r, x)
  BY DEF Queued, Still, Quiet, Alike
<1>2. ASSUME NEW m \in Frames({"open", "data", "close"}), m.t # x \/ m.k = "close"
      PROVE  /\ ToRelay(m) => Still(c2r, c2r', x)
             /\ \A d : ToDaemon(d, m) => Still(r2d, r2d', x)
  <2>1. Still(c2r, Append(c2r, m), x) /\ Still(r2d, Append(r2d, m), x)
    BY <1>t, <1>2, StillAppend DEF QueuesOK, Queued
  <2> QED
    BY <1>1, <2>1 DEF ToRelay, ToDaemon
<1>3. ASSUME NEW m \in Frames({"ok", "err", "data", "close"}), m.t # x \/ m.k \in {"err", "close"}
      PROVE  \A c : ToClient(c, m) => Still(r2c, r2c', x)
  <2>1. Still(r2c, Append(r2c, m), x)
    BY <1>t, <1>3, StillAppend DEF QueuesOK, Queued
  <2> QED
    BY <1>1, <2>1 DEF ToClient
<1>4. \A m \in Frames({"ok", "err", "data", "close", "register"}) : d2r \o <<m>> = Append(d2r, m)
  BY <1>t DEF QueuesOK
<1>5. ASSUME NEW m \in Frames({"ok", "err", "data", "close", "register"}),
             m.t # x \/ m.k \notin {"data", "open", "ok"}
      PROVE  FromDaemon(<<m>>) => Still(d2r, d2r', x)
  <2>1. Still(d2r, Append(d2r, m), x)
    BY <1>t, <1>5, StillAppend DEF QueuesOK, Queued
  <2> QED
    BY <1>1, <1>4, <2>1 DEF FromDaemon
<1> QED
  BY <1>1, <1>2, <1>3, <1>4, <1>5

\* Flags and streams of a tunnel.
LEMMA TunnelTyped ==
  ASSUME TypeOK, NEW x \in Tunnels
  PROVE  /\ RemoteTakes(x) \in BOOLEAN /\ LocalTakes(x) \in BOOLEAN
         /\ PassesOut(x) \in BOOLEAN /\ PassesBack(x) \in BOOLEAN /\ RidesOut(x) \in BOOLEAN
         /\ loc[x].got \in Seq(Nat) /\ rem[x].got \in Seq(Nat)
         /\ loc[x].sent \in Nat /\ rem[x].sent \in Nat
         /\ Nums(c2r, x) \in SUBSET Nat /\ Nums(r2c, x) \in SUBSET Nat
         /\ Nums(r2d, x) \in SUBSET Nat /\ Nums(d2r, x) \in SUBSET Nat
         /\ loc[x] \in Locals /\ rem[x] \in Remotes
         /\ cl.link \in Nat \ {0} /\ dm.link \in Nat \ {0}
<1>t. LocOK /\ RemOK /\ QueuesOK /\ LinksOK
  BY TypeParts
<1>n. Links \subseteq Nat \ {0} /\ Numbers \subseteq Nat
  BY NumberTypes
<1>1. loc[x] \in Locals /\ rem[x] \in Remotes
  BY <1>t DEF LocOK, RemOK
<1>2. /\ loc[x].got \in Seq(Numbers) /\ rem[x].got \in Seq(Numbers)
      /\ loc[x].sent \in Numbers /\ rem[x].sent \in Numbers
      /\ loc[x].active \in BOOLEAN /\ rem[x].active \in BOOLEAN
  BY <1>1 DEF Locals, Remotes
<1>3. ASSUME NEW s \in Seq(Numbers) PROVE s \in Seq(Nat)
  <2>1. \A i \in 1 .. Len(s) : s[i] \in Numbers
    OBVIOUS
  <2>2. \A i \in 1 .. Len(s) : s[i] \in Nat
    BY <1>n, <2>1
  <2> QED
    BY <2>2
<1>4. Nums(c2r, x) \subseteq Numbers /\ Nums(r2c, x) \subseteq Numbers
      /\ Nums(r2d, x) \subseteq Numbers /\ Nums(d2r, x) \subseteq Numbers
  BY <1>t, NumsType DEF QueuesOK
<1>5. cl.up \in BOOLEAN /\ dm.up \in BOOLEAN /\ cl.link \in Links /\ dm.link \in Links
  BY <1>t DEF LinksOK
<1>6. RemoteTakes(x) \in BOOLEAN /\ LocalTakes(x) \in BOOLEAN
  BY <1>2 DEF RemoteTakes, LocalTakes
<1>7. PassesOut(x) \in BOOLEAN /\ PassesBack(x) \in BOOLEAN /\ RidesOut(x) \in BOOLEAN
  BY <1>5 DEF PassesOut, PassesBack, RidesOut
<1> QED
  BY <1>n, <1>1, <1>2, <1>3, <1>4, <1>5, <1>6, <1>7

\* A tunnel whose queues and streams stand still and for which fewer ways are
\* open is as it should be.
LEMMA TunnelKept ==
  ASSUME TypeOK, TypeOK', NEW x \in Tunnels, TunnelInv(x),
         Quiet(c2r, c2r', x), Quiet(r2c, r2c', x), Quiet(r2d, r2d', x), Quiet(d2r, d2r', x),
         Opened(x)',
         loc'[x].got = loc[x].got, loc'[x].sent = loc[x].sent,
         rem'[x].got = rem[x].got, rem'[x].sent = rem[x].sent,
         why[x] \subseteq why'[x],
         RemoteTakes(x)' => RemoteTakes(x), LocalTakes(x)' => LocalTakes(x),
         RemoteTakes(x)' /\ PassesOut(x)' => PassesOut(x),
         RemoteTakes(x)' /\ PassesOut(x)' /\ RidesOut(x)' => RidesOut(x),
         LocalTakes(x)' /\ PassesBack(x)' => PassesBack(x)
  PROVE  TunnelInv(x)'
<1>1. Queued(x)'
  BY DEF Queued, Quiet
<1>4. Outward(x)'
  <2>1. Flow(rem[x].got, Nums(r2d, x), Nums(c2r, x), loc[x].sent)
    BY DEF TunnelInv, Outward
  <2>2. ASSUME "soon" \notin why'[x]
        PROVE  Unbroken(rem[x].got, Nums(r2d, x), Nums(c2r, x), loc[x].sent,
                        RemoteTakes(x)', PassesOut(x)', RidesOut(x)')
    <3>1. Unbroken(rem[x].got, Nums(r2d, x), Nums(c2r, x), loc[x].sent,
                   RemoteTakes(x), PassesOut(x), RidesOut(x))
      BY <2>2 DEF TunnelInv, Outward
    <3> QED
      BY <3>1 DEF Unbroken
  <2> QED
    BY <2>1, <2>2 DEF Outward, Quiet
<1>5. Back(x)'
  <2>1. Flow(loc[x].got, Nums(r2c, x), Nums(d2r, x), rem[x].sent)
    BY DEF TunnelInv, Back
  <2>2. ASSUME why'[x] \cap {"early", "relink"} = {}
        PROVE  Unbroken(loc[x].got, Nums(r2c, x), Nums(d2r, x), rem[x].sent,
                        LocalTakes(x)', PassesBack(x)', TRUE)
    <3>1. Unbroken(loc[x].got, Nums(r2c, x), Nums(d2r, x), rem[x].sent,
                   LocalTakes(x), PassesBack(x), TRUE)
      BY <2>2 DEF TunnelInv, Back
    <3> QED
      BY <3>1 DEF Unbroken
  <2> QED
    BY <2>1, <2>2 DEF Back, Quiet
<1> QED
  BY <1>1, <1>4, <1>5 DEF TunnelInv

\* How far a tunnel is open does not go back.
LEMMA OpenedKept ==
  ASSUME NEW x \in Tunnels, Opened(x),
         Alike(c2r, c2r', x), Alike(r2c, r2c', x), Alike(r2d, r2d', x), Alike(d2r, d2r', x),
         loc'[x].st = loc[x].st, loc'[x].ans \in {loc[x].ans, "err"}, loc'[x].sent = loc[x].sent,
         rem'[x].st = rem[x].st, rem'[x].sent = rem[x].sent,
         sess'[x] \in {sess[x], NoSession}, why[x] \subseteq why'[x],
         dm.up => dm'.up \/ rem[x].st = "none" \/ "relink" \in why'[x]
  PROVE  Opened(x)'
  BY DEF Opened, Alike

\* A step that is about other tunnels.
LEMMA OtherKept ==
  ASSUME TypeOK, TypeOK', NEW x \in Tunnels, TunnelInv(x),
         Still(c2r, c2r', x), Still(r2c, r2c', x), Still(r2d, r2d', x), Still(d2r, d2r', x),
         loc'[x] = loc[x], rem'[x] = rem[x], sess'[x] = sess[x], why[x] \subseteq why'[x],
         UNCHANGED <<cl, dm>>
  PROVE  TunnelInv(x)'
<1>1. Opened(x)'
  BY OpenedKept DEF TunnelInv, Still
<1>2. /\ RemoteTakes(x)' <=> RemoteTakes(x)
      /\ LocalTakes(x)' <=> LocalTakes(x)
      /\ PassesOut(x)' <=> PassesOut(x)
      /\ PassesBack(x)' <=> PassesBack(x)
      /\ RidesOut(x)' <=> RidesOut(x)
  BY DEF RemoteTakes, LocalTakes, PassesOut, PassesBack, RidesOut
<1> QED
  BY <1>1, <1>2, TunnelKept DEF Still

\* handleLocalConnection.
LEMMA LocalSteps ==
  ASSUME TypeOK, TypeOK', StreamInv, NEW x \in Tunnels, NEW t \in Tunnels,
         \/ LocalOpens(t) \/ LocalRefused(t) \/ LocalAnswered(t) \/ LocalGivesUp(t)
         \/ LocalStores(t) \/ LocalPipes(t) \/ LocalEnds(t)
  PROVE  TunnelInv(x)'
<1>t. LocOK /\ RemOK /\ QueuesOK /\ LinksOK /\ SessOK
  BY TypeParts
<1>i. TunnelInv(x) /\ LinkInv /\ Queued(x) /\ Opened(x)
  BY DEF StreamInv, TunnelInv
<1>u. UNCHANGED <<cl, dm, rem, sess, r2c, r2d, d2r>>
  BY DEF LocalOpens, LocalRefused, LocalAnswered, LocalGivesUp, LocalStores, LocalPipes, LocalEnds,
         relay, daemon
<1>w. why[x] \subseteq why'[x]
  BY <1>t DEF LocalOpens, LocalRefused, LocalAnswered, LocalGivesUp, LocalStores, LocalPipes, LocalEnds,
              SessOK, Blame
<1>s. Still(r2c, r2c', x) /\ Still(r2d, r2d', x) /\ Still(d2r, d2r', x)
  BY <1>i, <1>u, Written
<1>x. loc[x] \in Locals /\ loc[t] \in Locals
  BY <1>t DEF LocOK
<1>m. /\ \A k \in {"open", "data", "close"}, n \in Numbers :
           /\ Msg(k, t, n) \in Frames({"open", "data", "close"})
           /\ Msg(k, t, n).k = k /\ Msg(k, t, n).t = t /\ Msg(k, t, n).n = n
      /\ 0 \in Numbers /\ (loc[t].sent < MaxData => loc[t].sent + 1 \in Numbers)
  <2>1. loc[t].sent \in Numbers
    BY <1>x DEF Locals
  <2>2. \A k \in {"open", "data", "close"}, n \in Numbers :
           /\ Msg(k, t, n) \in Frames({"open", "data", "close"})
           /\ Msg(k, t, n).k = k /\ Msg(k, t, n).t = t /\ Msg(k, t, n).n = n
    <3> TAKE k \in {"open", "data", "close"}, n \in Numbers
    <3> QED
      BY DEF Msg, Frames
  <2>3. 0 \in Numbers /\ (loc[t].sent < MaxData => loc[t].sent + 1 \in Numbers)
    BY <2>1, NumberTypes DEF Numbers
  <2> QED
    BY <2>2, <2>3
<1>c. /\ Closed(t).st = "done" /\ Closed(t).on = loc[t].on /\ Closed(t).ans = loc[t].ans
      /\ Closed(t).sent = loc[t].sent /\ Closed(t).got = loc[t].got /\ Closed(t).active = loc[t].active
      /\ Unstored(t).st = "done" /\ Unstored(t).on = loc[t].on /\ Unstored(t).ans = loc[t].ans
      /\ Unstored(t).sent = loc[t].sent /\ Unstored(t).got = loc[t].got /\ Unstored(t).active = FALSE
  BY <1>x DEF Closed, Unstored, Locals
<1>r. /\ RemoteTakes(x)' <=> RemoteTakes(x)
      /\ PassesOut(x)' <=> PassesOut(x)
      /\ PassesBack(x)' <=> PassesBack(x)
  BY <1>u DEF RemoteTakes, PassesOut, PassesBack
\* The frame, if any, is a new one for t.
<1>1. CASE t # x
  <2>1. loc'[x] = loc[x]
    BY <1>t, <1>1 DEF LocalOpens, LocalRefused, LocalAnswered, LocalGivesUp, LocalStores, LocalPipes,
                      LocalEnds, LocOK
  <2>2. Still(c2r, c2r', x)
    BY <1>1, <1>i, <1>m, Written, ZenonT(40)
       DEF LocalOpens, LocalRefused, LocalAnswered, LocalGivesUp, LocalStores, LocalPipes, LocalEnds
  <2> QED
    BY <1>i, <1>s, <1>u, <1>w, <2>1, <2>2, OtherKept
<1>2. CASE t = x /\ LocalOpens(t)
  <2>1. /\ loc[x].st = "none" /\ loc'[x].st = "opening" /\ loc'[x].got = loc[x].got
        /\ loc'[x].sent = loc[x].sent /\ loc'[x].ans = loc[x].ans /\ loc'[x].active = loc[x].active
    BY <1>t, <1>x, <1>2 DEF LocalOpens, LocOK, Locals
  <2>2. sess[x] = NoSession /\ ~Has(r2d, "open", x) /\ rem[x].st = "none" /\ ~Has(c2r, "open", x)
    BY <1>i, <2>1 DEF Opened
  <2>3. Quiet(c2r, c2r', x)
    <3>1. Quiet(c2r, Append(c2r, Msg("open", t, 0)), x)
      BY <1>2, <1>i, <1>m, <1>t, <2>2, AppendFrame DEF Quiet, QueuesOK, Queued
    <3>2. Quiet(c2r, c2r, x)
      BY <1>i DEF Queued, Quiet
    <3> QED
      BY <1>2, <3>1, <3>2 DEF LocalOpens, ToRelay
  <2>4. ~PassesOut(x)
    BY <2>2, TunnelTyped DEF PassesOut, NoSession
  <2>5. Opened(x)'
    BY <1>i, <1>s, <1>u, <1>w, <2>1, <2>2 DEF Opened, Still, Alike
  <2>6. LocalTakes(x)' => LocalTakes(x)
    BY <2>1 DEF LocalTakes
  <2> QED
    BY <1>i, <1>r, <1>s, <1>u, <1>w, <2>1, <2>3, <2>4, <2>5, <2>6, TunnelKept DEF Still
<1>3. ASSUME t = x, loc'[x].on = loc[x].on, loc'[x].sent = loc[x].sent, loc'[x].got = loc[x].got,
             Opened(x)', LocalTakes(x)' => LocalTakes(x), Quiet(c2r, c2r', x)
      PROVE  TunnelInv(x)'
  <2>1. RidesOut(x)' <=> RidesOut(x)
    BY <1>3, <1>u DEF RidesOut
  <2> QED
    BY <1>i, <1>r, <1>s, <1>u, <1>w, <1>3, <2>1, TunnelKept DEF Still
<1>4. CASE t = x /\ (LocalRefused(t) \/ LocalAnswered(t) \/ LocalGivesUp(t) \/ LocalStores(t))
  <2>1. /\ loc'[x].on = loc[x].on /\ loc'[x].sent = loc[x].sent /\ loc'[x].got = loc[x].got
        /\ loc'[x].ans = loc[x].ans
        /\ \/ loc'[x].st = "done" /\ ~loc'[x].active
           \/ loc'[x].st = "opened" /\ loc[x].st = "opening" /\ loc[x].ans = "ok"
           \/ loc'[x].st = "piping" /\ loc[x].st = "opened"
    <3>1. CASE loc'[x] = Closed(x)
      <4>1. ~loc[x].active
        BY <1>4, <1>t DEF LocalRefused, LocalAnswered, LocalGivesUp, LocalStores, LocOK
      <4> QED
        BY <1>4, <1>c, <3>1, <4>1
    <3>2. CASE LocalAnswered(x) /\ loc[x].ans = "ok"
      BY <1>t, <1>x, <1>4, <3>2 DEF LocalAnswered, LocOK, Locals
    <3>3. CASE LocalStores(x)
      BY <1>t, <1>x, <1>4, <3>3 DEF LocalStores, LocOK, Locals
    <3> QED
      BY <1>4, <1>t, <3>1, <3>2, <3>3 DEF LocalRefused, LocalAnswered, LocalGivesUp, LocOK
  <2>2. LocalTakes(x)' => LocalTakes(x)
    BY <2>1 DEF LocalTakes
  <2>3. c2r' = c2r
    BY <1>4 DEF LocalRefused, LocalAnswered, LocalGivesUp, LocalStores
  <2>4. Opened(x)'
    BY <1>i, <1>s, <1>u, <1>w, <2>1, <2>3 DEF Opened, Still, Alike
  <2>5. Quiet(c2r, c2r', x)
    BY <1>i, <2>3 DEF Queued, Quiet
  <2> QED
    BY <1>3, <1>4, <2>1, <2>2, <2>4, <2>5
<1>5. CASE t = x /\ (LocalEnds(t) \/ (LocalPipes(t) /\ ~Rides(t)))
  <2>1. loc'[x] = Unstored(x)
    BY <1>5, <1>t DEF LocalEnds, LocalPipes, LocOK
  <2>2. Still(c2r, c2r', x)
    BY <1>5, <1>i, <1>m, Written DEF LocalEnds, LocalPipes
  <2>3. ~LocalTakes(x)'
    BY <1>5, <1>c, <2>1 DEF LocalTakes
  <2>4. Opened(x)'
    BY <1>5, <1>c, <1>i, <1>s, <1>u, <1>w, <2>1, <2>2 DEF Opened, Still, Alike
  <2> QED
    BY <1>3, <1>5, <1>c, <2>1, <2>2, <2>3, <2>4 DEF Still
<1>6. CASE t = x /\ LocalPipes(t) /\ Rides(t)
  <2>1. /\ loc[x].st = "piping" /\ loc'[x].st = "piping" /\ loc'[x].sent = loc[x].sent + 1
        /\ loc'[x].got = loc[x].got /\ loc'[x].ans = loc[x].ans /\ loc'[x].active = loc[x].active
        /\ loc'[x].on = loc[x].on /\ cl.conn = loc[x].on
        /\ ToRelay(Msg("data", x, loc[x].sent + 1)) /\ loc[x].sent < MaxData
        /\ why' = why
    BY <1>6, <1>t, <1>x DEF LocalPipes, LocOK, Locals, Rides
  <2>2. /\ Flow(rem[x].got, Nums(r2d, x), Nums(c2r, x), loc[x].sent)
        /\ Flow(loc[x].got, Nums(r2c, x), Nums(d2r, x), rem[x].sent)
    BY <1>i DEF TunnelInv, Outward, Back
  <2>3. /\ Flow(rem[x].got, Nums(r2d, x), Nums(c2r, x) \cup {loc[x].sent + 1}, loc[x].sent + 1)
        /\ Flow(rem[x].got, Nums(r2d, x), Nums(c2r, x), loc[x].sent + 1)
        /\ \A n \in Nums(c2r, x) : n < loc[x].sent + 1
        /\ \A takes, passes, rides \in BOOLEAN :
              Unbroken(rem[x].got, Nums(r2d, x), Nums(c2r, x), loc[x].sent, takes, passes, rides) /\ rides =>
                Unbroken(rem[x].got, Nums(r2d, x), Nums(c2r, x) \cup {loc[x].sent + 1}, loc[x].sent + 1,
                         takes, passes, rides)
    <3>1. /\ rem[x].got \in Seq(Nat) /\ Nums(r2d, x) \in SUBSET Nat /\ Nums(c2r, x) \in SUBSET Nat
          /\ loc[x].sent \in Nat
      BY TunnelTyped
    <3> QED
      BY <2>2, <3>1, FlowSend
  <2>4. /\ c2r' = IF cl.up THEN Append(c2r, Msg("data", x, loc[x].sent + 1)) ELSE c2r
        /\ Nums(c2r', x) = IF cl.up THEN Nums(c2r, x) \cup {loc[x].sent + 1} ELSE Nums(c2r, x)
        /\ Tidy(c2r', x) /\ Alike(c2r, c2r', x)
    <3>1. c2r' = IF cl.up THEN Append(c2r, Msg("data", x, loc[x].sent + 1)) ELSE c2r
      BY <2>1 DEF ToRelay
    <3>2. /\ Nums(Append(c2r, Msg("data", x, loc[x].sent + 1)), x) = Nums(c2r, x) \cup {loc[x].sent + 1}
          /\ Tidy(Append(c2r, Msg("data", x, loc[x].sent + 1)), x)
          /\ Alike(c2r, Append(c2r, Msg("data", x, loc[x].sent + 1)), x)
      <4> DEFINE m == Msg("data", x, loc[x].sent + 1)
      <4>1. /\ m \in Frames({"open", "data", "close"}) /\ m.k = "data" /\ m.t = x
            /\ m.n = loc[x].sent + 1
        BY <1>6, <1>m, <2>1
      <4>2. c2r \in Seq(Frames({"open", "data", "close"})) /\ Tidy(c2r, x)
        BY <1>i, <1>t DEF QueuesOK, Queued
      <4> HIDE DEF m
      <4>3. /\ Nums(Append(c2r, m), x) = Nums(c2r, x) \cup {m.n}
            /\ Tidy(Append(c2r, m), x)
            /\ \A k : Has(Append(c2r, m), k, x) <=> Has(c2r, k, x) \/ (m.k = k /\ m.t = x)
        BY <2>3, <4>1, <4>2, AppendFrame
      <4>4. Alike(c2r, Append(c2r, m), x)
        BY <4>1, <4>3 DEF Alike
      <4> QED
        BY <4>1, <4>3, <4>4 DEF m
    <3>3. Tidy(c2r, x) /\ Alike(c2r, c2r, x)
      BY <1>i DEF Queued, Alike
    <3> QED
      BY <3>1, <3>2, <3>3
  <2>5. /\ RidesOut(x)' <=> RidesOut(x)
        /\ LocalTakes(x)' <=> LocalTakes(x)
        /\ cl.up => RidesOut(x)
        /\ RidesOut(x) => cl.up
    BY <1>i, <1>u, <2>1 DEF RidesOut, LocalTakes, LinkInv
  <2>6. Opened(x)'
    BY <1>i, <1>s, <1>u, <2>1, <2>4 DEF Opened, Still, Alike
  <2>7. Queued(x)'
    BY <1>s, <2>4 DEF Queued, Still, Quiet
  <2>b. RemoteTakes(x) \in BOOLEAN /\ PassesOut(x) \in BOOLEAN /\ RidesOut(x) \in BOOLEAN
    BY TunnelTyped
  <2>8. ASSUME "soon" \notin why[x]
        PROVE  Unbroken(rem[x].got, Nums(r2d, x), Nums(c2r', x), loc[x].sent + 1,
                        RemoteTakes(x), PassesOut(x), RidesOut(x))
    <3>1. Unbroken(rem[x].got, Nums(r2d, x), Nums(c2r, x), loc[x].sent,
                   RemoteTakes(x), PassesOut(x), RidesOut(x))
      BY <1>i, <2>8 DEF TunnelInv, Outward
    <3>2. CASE cl.up
      BY <2>3, <2>4, <2>5, <2>b, <3>1, <3>2
    <3>3. CASE ~cl.up
      BY <2>4, <2>5, <3>1, <3>3 DEF Unbroken
    <3> QED
      BY <3>2, <3>3
  <2>9. Outward(x)'
    <3>1. Flow(rem[x].got, Nums(r2d, x), Nums(c2r', x), loc[x].sent + 1)
      BY <2>3, <2>4
    <3> QED
      BY <1>r, <1>u, <2>1, <2>5, <2>8, <3>1 DEF Outward, Unbroken
  <2>10. Back(x)'
    BY <1>i, <1>r, <1>u, <2>1, <2>5 DEF TunnelInv, Back, LocalTakes, PassesBack
  <2> QED
    BY <2>6, <2>7, <2>9, <2>10 DEF TunnelInv
<1> QED
  BY <1>1, <1>2, <1>4, <1>5, <1>6

\* A frame about x is put into, or taken from, a queue.
LEMMA DataAppended ==
  ASSUME NEW K, NEW q \in Seq(Frames(K)), NEW m \in Frames(K), NEW x, Tidy(q, x),
         m.t = x, m.k = "data", \A n \in Nums(q, x) : n < m.n
  PROVE  /\ Nums(Append(q, m), x) = Nums(q, x) \cup {m.n}
         /\ Tidy(Append(q, m), x) /\ Alike(q, Append(q, m), x)
<1>1. /\ Nums(Append(q, m), x) = Nums(q, x) \cup {m.n}
      /\ \A k : Has(Append(q, m), k, x) <=> Has(q, k, x) \/ (m.k = k /\ m.t = x)
      /\ Tidy(Append(q, m), x)
  BY AppendFrame
<1> QED
  BY <1>1 DEF Alike

LEMMA DataTaken ==
  ASSUME NEW K, NEW q \in Seq(Frames(K)), q # <<>>, NEW x, Tidy(q, x),
         Head(q).t = x, Head(q).k = "data"
  PROVE  /\ Nums(q, x) = Nums(Tail(q), x) \cup {Head(q).n}
         /\ \A n \in Nums(Tail(q), x) : Head(q).n < n
         /\ Tidy(Tail(q), x) /\ Alike(q, Tail(q), x)
<1>1. /\ Nums(q, x) = Nums(Tail(q), x) \cup {Head(q).n}
      /\ \A n \in Nums(Tail(q), x) : Head(q).n < n
      /\ \A k : Has(q, k, x) <=> Has(Tail(q), k, x) \/ (Head(q).k = k /\ Head(q).t = x)
      /\ Tidy(Tail(q), x)
  BY TailFrame
<1> QED
  BY <1>1 DEF Alike

\* readLoop of the client.
LEMMA ClientReadsSteps ==
  ASSUME TypeOK, TypeOK', StreamInv, NEW x \in Tunnels, ClientReads
  PROVE  TunnelInv(x)'
<1> DEFINE m == Head(r2c)
<1>t. LocOK /\ RemOK /\ QueuesOK /\ LinksOK /\ SessOK
  BY TypeParts
<1>i. TunnelInv(x) /\ LinkInv /\ Queued(x) /\ Opened(x)
  BY DEF StreamInv, TunnelInv
<1>u. /\ UNCHANGED <<cl, dm, rem, sess, c2r, r2d, d2r>>
      /\ r2c # <<>> /\ r2c' = Tail(r2c)
  BY DEF ClientReads, relay, daemon
<1>w. why[x] \subseteq why'[x]
  BY <1>t DEF ClientReads, SessOK, Blame
<1>s. Still(c2r, c2r', x) /\ Still(r2d, r2d', x) /\ Still(d2r, d2r', x)
  BY <1>i, <1>u, Written
<1>q. r2c \in Seq(Frames({"ok", "err", "data", "close"})) /\ m \in Frames({"ok", "err", "data", "close"})
  BY <1>t, <1>u, QueueType DEF QueuesOK
<1>m. m.k \in {"ok", "err", "data", "close"} /\ m.t \in Tunnels /\ m.n \in Nat
  BY <1>q, NumberTypes DEF Frames
<1>x. loc[x] \in Locals
  BY <1>t DEF LocOK
<1>r. /\ RemoteTakes(x)' <=> RemoteTakes(x)
      /\ PassesOut(x)' <=> PassesOut(x)
      /\ PassesBack(x)' <=> PassesBack(x)
  BY <1>u DEF RemoteTakes, PassesOut, PassesBack
<1>v. /\ m.t # x => loc'[x] = loc[x]
      /\ m.t = x => /\ m.k \in {"ok", "err"} => loc'[x] = Answer(x, m.k)
                    /\ m.k = "data" => loc'[x] \in {LocalGets(x, m.n), CloseLocal(x)}
                    /\ m.k = "close" => loc'[x] = CloseLocal(x)
  <2>1. PICK after \in AfterFrame(m) : loc' = [loc EXCEPT ![m.t] = after]
    BY DEF ClientReads
  <2>2. m.t # x => loc'[x] = loc[x]
    BY <1>m, <1>t, <2>1 DEF LocOK
  <2>3. m.t = x => loc'[x] = after
    BY <1>t, <2>1 DEF LocOK
  <2> QED
    BY <1>m, <2>1, <2>2, <2>3 DEF AfterFrame
<1>h. m.t # x \/ m.k # "data" => Still(r2c, r2c', x)
  <2>1. m.k # "open"
    BY <1>m
  <2>2. m.t # x \/ m.k \notin {"data", "open"} => Still(r2c, Tail(r2c), x)
    BY <1>i, <1>q, <1>u, StillTail DEF Queued
  <2> QED
    BY <1>u, <2>1, <2>2
<1> HIDE DEF m
<1>1. CASE m.t # x
  BY <1>1, <1>h, <1>i, <1>s, <1>u, <1>v, <1>w, OtherKept
<1>2. CASE m.t = x /\ m.k # "data"
  <2>1. /\ loc'[x].on = loc[x].on /\ loc'[x].sent = loc[x].sent /\ loc'[x].got = loc[x].got
        /\ loc'[x].st = loc[x].st /\ (loc'[x].active => loc[x].active)
        /\ loc'[x].ans \in {loc[x].ans, "err"} \/ m.k = "ok"
    BY <1>2, <1>m, <1>v, <1>x DEF Answer, CloseLocal, Locals
  <2>2. m.k = "ok" => Has(r2c, "ok", x)
    <3>1. \A k : m.k = k /\ m.t = x => Has(r2c, k, x)
      BY <1>i, <1>q, <1>u, TailFrame DEF m, Queued
    <3> QED
      BY <1>2, <3>1
  <2>3. Opened(x)'
    BY <1>2, <1>h, <1>i, <1>s, <1>u, <1>w, <2>1, <2>2 DEF Opened, Still, Alike
  <2>4. (LocalTakes(x)' => LocalTakes(x)) /\ (RidesOut(x)' <=> RidesOut(x))
    BY <1>u, <2>1 DEF LocalTakes, RidesOut
  <2> QED
    BY <1>2, <1>h, <1>i, <1>r, <1>s, <1>u, <1>w, <2>1, <2>3, <2>4, TunnelKept DEF Still
<1>3. ASSUME m.t = x, m.k = "data"
      PROVE  /\ Nums(r2c, x) = Nums(r2c', x) \cup {m.n}
             /\ Tidy(r2c', x) /\ Alike(r2c, r2c', x)
             /\ m.n > 0 /\ m.n <= rem[x].sent
             /\ Flow(Append(loc[x].got, m.n), Nums(r2c', x), Nums(d2r, x), rem[x].sent)
             /\ Flow(loc[x].got, Nums(r2c', x), Nums(d2r, x), rem[x].sent)
             /\ \A takes, passes, rides \in BOOLEAN :
                  Unbroken(loc[x].got, Nums(r2c', x) \cup {m.n}, Nums(d2r, x), rem[x].sent, takes, passes, rides)
                    /\ takes =>
                    Unbroken(Append(loc[x].got, m.n), Nums(r2c', x), Nums(d2r, x), rem[x].sent,
                             takes, passes, rides)
             /\ \A takes, passes, rides \in BOOLEAN :
                  Unbroken(loc[x].got, Nums(r2c', x) \cup {m.n}, Nums(d2r, x), rem[x].sent, takes, passes, rides) =>
                    Unbroken(loc[x].got, Nums(r2c', x), Nums(d2r, x), rem[x].sent, FALSE, passes, rides)
  <2>3. /\ Nums(r2c, x) = Nums(r2c', x) \cup {m.n}
        /\ \A n \in Nums(r2c', x) : m.n < n
        /\ Tidy(r2c', x) /\ Alike(r2c, r2c', x)
    BY <1>3, <1>i, <1>q, <1>u, DataTaken DEF m, Queued
  <2>4. Flow(loc[x].got, Nums(r2c', x) \cup {m.n}, Nums(d2r, x), rem[x].sent)
    BY <1>i, <2>3 DEF TunnelInv, Back
  <2>5. /\ Flow(Append(loc[x].got, m.n), Nums(r2c', x), Nums(d2r, x), rem[x].sent)
        /\ Flow(loc[x].got, Nums(r2c', x), Nums(d2r, x), rem[x].sent)
        /\ \A takes, passes, rides \in BOOLEAN :
             Unbroken(loc[x].got, Nums(r2c', x) \cup {m.n}, Nums(d2r, x), rem[x].sent, takes, passes, rides)
               /\ takes =>
               Unbroken(Append(loc[x].got, m.n), Nums(r2c', x), Nums(d2r, x), rem[x].sent,
                        takes, passes, rides)
        /\ \A takes, passes, rides \in BOOLEAN :
             Unbroken(loc[x].got, Nums(r2c', x) \cup {m.n}, Nums(d2r, x), rem[x].sent, takes, passes, rides) =>
               Unbroken(loc[x].got, Nums(r2c', x), Nums(d2r, x), rem[x].sent, FALSE, passes, rides)
    <3>1. /\ loc[x].got \in Seq(Nat) /\ Nums(r2c, x) \in SUBSET Nat /\ Nums(d2r, x) \in SUBSET Nat
          /\ rem[x].sent \in Nat
      BY TunnelTyped
    <3>2. Nums(r2c', x) \in SUBSET Nat
      BY <2>3, <3>1
    <3> QED
      <4> DEFINE got == loc[x].got
                 A == Nums(r2c', x)
                 B == Nums(d2r, x)
                 sent == rem[x].sent
                 n == m.n
      <4>1. /\ got \in Seq(Nat) /\ A \in SUBSET Nat /\ B \in SUBSET Nat /\ sent \in Nat /\ n \in Nat
            /\ (\A a \in A : n < a) /\ Flow(got, A \cup {n}, B, sent)
        BY <1>m, <2>3, <2>4, <3>1, <3>2
      <4> HIDE DEF got, A, B, sent, n
      <4>2. /\ Flow(Append(got, n), A, B, sent)
            /\ Flow(got, A, B, sent)
            /\ \A takes, passes, rides \in BOOLEAN :
                 Unbroken(got, A \cup {n}, B, sent, takes, passes, rides) /\ takes =>
                   Unbroken(Append(got, n), A, B, sent, takes, passes, rides)
            /\ \A takes, passes, rides \in BOOLEAN :
                 Unbroken(got, A \cup {n}, B, sent, takes, passes, rides) =>
                   Unbroken(got, A, B, sent, FALSE, passes, rides)
        BY <4>1, FlowRead
      <4> QED
        BY <4>2 DEF got, A, B, sent, n
  <2>6. m.n > 0 /\ m.n <= rem[x].sent
    BY <2>4 DEF Flow
  <2> QED
    BY <2>3, <2>5, <2>6
<1>4. CASE m.t = x /\ m.k = "data" /\ loc'[x] = LocalGets(x, m.n)
  <2>1. loc'[x] = IF loc[x].active THEN [loc[x] EXCEPT !.got = Append(@, m.n)] ELSE loc[x]
    BY <1>4, <1>t DEF LocalGets, LocOK
  <2>2. /\ loc'[x].on = loc[x].on /\ loc'[x].sent = loc[x].sent /\ loc'[x].st = loc[x].st
        /\ loc'[x].active = loc[x].active /\ loc'[x].ans = loc[x].ans
        /\ loc'[x].got = IF loc[x].active THEN Append(loc[x].got, m.n) ELSE loc[x].got
    BY <1>x, <2>1 DEF Locals
  <2>6. /\ LocalTakes(x)' <=> LocalTakes(x)
        /\ RidesOut(x)' <=> RidesOut(x)
    BY <1>u, <2>2 DEF LocalTakes, RidesOut
  <2>7. Opened(x)'
    BY <1>3, <1>4, <1>i, <1>s, <1>u, <1>w, <2>2 DEF Opened, Still, Alike
  <2>8. Queued(x)'
    BY <1>3, <1>4, <1>s DEF Queued, Still, Quiet
  <2>9. Outward(x)'
    BY <1>i, <1>r, <1>u, <1>w, <2>2, <2>6 DEF TunnelInv, Outward, Unbroken
  <2>b. LocalTakes(x) \in BOOLEAN /\ PassesBack(x) \in BOOLEAN /\ TRUE \in BOOLEAN
    BY TunnelTyped
  <2>10. ASSUME why'[x] \cap {"early", "relink"} = {}
         PROVE  Unbroken(loc'[x].got, Nums(r2c', x), Nums(d2r, x), rem[x].sent,
                         LocalTakes(x), PassesBack(x), TRUE)
    <3>1. Unbroken(loc[x].got, Nums(r2c', x) \cup {m.n}, Nums(d2r, x), rem[x].sent,
                   LocalTakes(x), PassesBack(x), TRUE)
      <4>1. why[x] \cap {"early", "relink"} = {}
        BY <1>w, <2>10
      <4> QED
        BY <1>3, <1>4, <1>i, <4>1 DEF TunnelInv, Back
    <3>2. CASE loc[x].active
      <4>1. LocalTakes(x)
        BY <3>2 DEF LocalTakes
      <4> QED
        BY <1>3, <1>4, <2>2, <2>b, <3>1, <3>2, <4>1
    <3>3. CASE ~loc[x].active
      <4>1. "early" \notin why'[x]
        BY <2>10
      <4>2. ~NotStored(x)
        BY <1>4, <1>t, <4>1 DEF ClientReads, SessOK, Blame, m
      <4>3. m.n > 0 /\ m.n <= rem[x].sent
        BY <1>3, <1>4
      <4>4. rem[x].sent > 0
        BY <1>m, <4>3, TunnelTyped
      <4>5. loc[x].st # "none"
        BY <1>i, <4>4 DEF Opened
      <4>6. ~LocalTakes(x)
        BY <3>3, <4>2, <4>5 DEF LocalTakes, NotStored
      <4>7. Unbroken(loc[x].got, Nums(r2c', x), Nums(d2r, x), rem[x].sent, FALSE, PassesBack(x), TRUE)
        BY <1>3, <1>4, <2>b, <3>1
      <4> QED
        BY <2>2, <3>3, <4>6, <4>7 DEF Unbroken
    <3> QED
      BY <3>2, <3>3
  <2>11. Back(x)'
    <3>1. Flow(loc'[x].got, Nums(r2c', x), Nums(d2r, x), rem[x].sent)
      BY <1>3, <1>4, <2>2
    <3> QED
      BY <1>r, <1>u, <2>6, <2>10, <3>1 DEF Back, Unbroken
  <2> QED
    BY <2>7, <2>8, <2>9, <2>11 DEF TunnelInv
<1>5. CASE m.t = x /\ m.k = "data" /\ loc'[x] = CloseLocal(x) /\ loc[x].active
  <2>1. /\ loc'[x].on = loc[x].on /\ loc'[x].sent = loc[x].sent /\ loc'[x].st = loc[x].st
        /\ ~loc'[x].active /\ loc'[x].ans = loc[x].ans /\ loc'[x].got = loc[x].got
    BY <1>5, <1>x DEF CloseLocal, Locals
  <2>2. LocalTakes(x) /\ LocalTakes(x)' = FALSE /\ (RidesOut(x)' <=> RidesOut(x))
    BY <1>5, <1>t, <1>u, <2>1 DEF LocalTakes, RidesOut, LocOK
  <2>3. Opened(x)'
    BY <1>3, <1>5, <1>i, <1>s, <1>u, <1>w, <2>1 DEF Opened, Still, Alike
  <2>4. Queued(x)'
    BY <1>3, <1>5, <1>s DEF Queued, Still, Quiet
  <2>5. Outward(x)'
    BY <1>i, <1>r, <1>u, <1>w, <2>1, <2>2 DEF TunnelInv, Outward, Unbroken
  <2>b. LocalTakes(x) \in BOOLEAN /\ PassesBack(x) \in BOOLEAN /\ TRUE \in BOOLEAN
    BY TunnelTyped
  <2>6. ASSUME why'[x] \cap {"early", "relink"} = {}
        PROVE  Unbroken(loc[x].got, Nums(r2c', x), Nums(d2r, x), rem[x].sent, FALSE, PassesBack(x), TRUE)
    <3>1. why[x] \cap {"early", "relink"} = {}
      BY <1>w, <2>6
    <3>2. Unbroken(loc[x].got, Nums(r2c', x) \cup {m.n}, Nums(d2r, x), rem[x].sent,
                   LocalTakes(x), PassesBack(x), TRUE)
      BY <1>3, <1>5, <1>i, <3>1 DEF TunnelInv, Back
    <3> QED
      BY <1>3, <1>5, <2>b, <3>2
  <2>7. Back(x)'
    <3>1. Flow(loc'[x].got, Nums(r2c', x), Nums(d2r, x), rem[x].sent)
      BY <1>3, <1>5, <2>1
    <3> QED
      BY <1>r, <1>u, <2>1, <2>2, <2>6, <3>1 DEF Back, Unbroken
  <2> QED
    BY <2>3, <2>4, <2>5, <2>7 DEF TunnelInv
<1>6. m.t = x /\ m.k = "data" /\ ~loc[x].active => loc'[x] = LocalGets(x, m.n)
  BY <1>v DEF LocalGets, CloseLocal
<1> QED
  BY <1>1, <1>2, <1>4, <1>5, <1>6, <1>v

\* dropConn, dialling again, and breaks of the client's connection.
LEMMA ClientLinkSteps ==
  ASSUME TypeOK, TypeOK', StreamInv, NEW x \in Tunnels,
         ClientDrops \/ ClientRedials \/ ClientLinkBreaks
  PROVE  TunnelInv(x)'
<1>t. LocOK /\ RemOK /\ QueuesOK /\ LinksOK /\ SessOK
  BY TypeParts
<1>i. TunnelInv(x) /\ LinkInv /\ Queued(x) /\ Opened(x)
  BY DEF StreamInv, TunnelInv
<1>u. UNCHANGED <<dm, rem, sess, r2d, d2r>>
  BY DEF ClientDrops, ClientRedials, ClientLinkBreaks, relay, daemon
<1>w. why[x] \subseteq why'[x]
  BY <1>t DEF ClientDrops, ClientRedials, ClientLinkBreaks, SessOK, BlameAll
<1>s. Still(c2r, c2r, x) /\ Still(r2c, r2c, x) /\ Still(r2d, r2d', x) /\ Still(d2r, d2r', x)
  BY <1>i, <1>u, Written
<1>x. loc[x] \in Locals
  BY <1>t DEF LocOK
<1>r. /\ RemoteTakes(x)' <=> RemoteTakes(x)
      /\ PassesOut(x)' <=> PassesOut(x)
  BY <1>u DEF RemoteTakes, PassesOut
<1>1. CASE ClientDrops
  <2>1. loc'[x] = Dropped(x) /\ c2r' = c2r /\ r2c' = r2c /\ ~cl.up /\ ~cl'.up
    BY <1>1, <1>t DEF ClientDrops, LinksOK
  <2>2. /\ loc'[x].on = loc[x].on /\ loc'[x].sent = loc[x].sent /\ loc'[x].got = loc[x].got
        /\ loc'[x].st = loc[x].st /\ (loc'[x].active => loc[x].active)
        /\ loc'[x].ans \in {loc[x].ans, "err"}
    BY <1>x, <2>1 DEF Dropped, Answer, CloseLocal, Locals
  <2>3. Opened(x)'
    BY <1>i, <1>s, <1>u, <1>w, <2>1, <2>2, OpenedKept DEF Still
  <2>4. ~PassesBack(x)' /\ ~RidesOut(x)' /\ (LocalTakes(x)' => LocalTakes(x))
    BY <2>1, <2>2 DEF PassesBack, RidesOut, LocalTakes
  <2> QED
    BY <1>i, <1>r, <1>s, <1>u, <1>w, <2>1, <2>2, <2>3, <2>4, TunnelKept DEF Still
<1>2. CASE ClientRedials
  <2>1. loc' = loc /\ c2r' = c2r /\ r2c' = r2c /\ cl'.link = cl.link + 1
    BY <1>2 DEF ClientRedials, relay
  <2>2. sess[x].c <= cl.link /\ loc[x].on <= cl.link /\ sess[x].c \in Nat /\ loc[x].on \in Nat
    <3>1. sess[x].c <= cl.link /\ loc[x].on <= cl.link
      BY <1>i DEF LinkInv
    <3>2. sess[x].c \in {0} \cup Links /\ loc[x].on \in {0} \cup Links
      BY <1>t, <1>x DEF SessOK, Locals, NoSession
    <3> QED
      BY <3>1, <3>2, NumberTypes
  <2>3. Opened(x)'
    BY <1>i, <1>s, <1>u, <1>w, <2>1, OpenedKept DEF Still
  <2>4. ~PassesBack(x)' /\ ~RidesOut(x)'
    <3>1. cl.link \in Nat
      BY TunnelTyped
    <3> QED
      BY <1>u, <2>1, <2>2, <3>1 DEF PassesBack, RidesOut
  <2>5. LocalTakes(x)' <=> LocalTakes(x)
    BY <2>1 DEF LocalTakes
  <2> QED
    BY <1>i, <1>r, <1>s, <1>u, <1>w, <2>1, <2>3, <2>4, <2>5, TunnelKept DEF Still
<1>3. CASE ClientLinkBreaks
  <2>1. loc' = loc /\ c2r' = <<>> /\ r2c' = <<>> /\ ~cl'.up
    BY <1>3, <1>t DEF ClientLinkBreaks, LinksOK
  <2>2. /\ Nums(c2r', x) = {} /\ Nums(r2c', x) = {} /\ Tidy(c2r', x) /\ Tidy(r2c', x)
        /\ \A k : ~Has(c2r', k, x) /\ ~Has(r2c', k, x)
    BY <2>1, EmptyQueue
  <2>3. Opened(x)'
    BY <1>i, <1>s, <1>u, <1>w, <2>1, <2>2 DEF Opened, Still, Alike
  <2>4. ~PassesBack(x)' /\ ~RidesOut(x)'
    BY <2>1 DEF PassesBack, RidesOut
  <2>5. LocalTakes(x)' <=> LocalTakes(x)
    BY <2>1 DEF LocalTakes
  <2>6. Queued(x)'
    BY <1>s, <2>2 DEF Queued, Still, Quiet
  <2>7. Outward(x)'
    <3>1. Flow(rem[x].got, Nums(r2d, x), Nums(c2r, x), loc[x].sent)
      BY <1>i DEF TunnelInv, Outward
    <3>2. Flow(rem[x].got, Nums(r2d, x), {}, loc[x].sent)
      BY <3>1 DEF Flow
    <3>3. "soon" \notin why'[x] =>
            Unbroken(rem[x].got, Nums(r2d, x), {}, loc[x].sent, RemoteTakes(x), PassesOut(x), FALSE)
      BY <1>i, <1>w DEF TunnelInv, Outward, Unbroken
    <3> QED
      BY <1>r, <1>u, <2>1, <2>2, <2>4, <3>2, <3>3 DEF Outward, Unbroken
  <2>8. Back(x)'
    <3>1. Flow(loc[x].got, Nums(r2c, x), Nums(d2r, x), rem[x].sent)
      BY <1>i DEF TunnelInv, Back
    <3>2. Flow(loc[x].got, {}, Nums(d2r, x), rem[x].sent)
      BY <3>1 DEF Flow
    <3>3. why'[x] \cap {"early", "relink"} = {} => Whole(loc[x].got)
      <4> HAVE why'[x] \cap {"early", "relink"} = {}
      <4>1. why[x] \cap {"early", "relink"} = {}
        BY <1>w
      <4> QED
        BY <1>i, <4>1 DEF TunnelInv, Back, Unbroken
    <3> QED
      BY <1>u, <2>1, <2>2, <2>4, <3>2, <3>3 DEF Back, Unbroken
  <2> QED
    BY <2>3, <2>6, <2>7, <2>8 DEF TunnelInv
<1> QED
  BY <1>1, <1>2, <1>3

\* Breaks of the daemon's connection, and dialling again.
LEMMA DaemonLinkSteps ==
  ASSUME TypeOK, TypeOK', StreamInv, NEW x \in Tunnels, DaemonLinkBreaks \/ DaemonRedials
  PROVE  TunnelInv(x)'
<1>t. LocOK /\ RemOK /\ QueuesOK /\ LinksOK /\ SessOK
  BY TypeParts
<1>i. TunnelInv(x) /\ LinkInv /\ Queued(x) /\ Opened(x)
  BY DEF StreamInv, TunnelInv
<1>u. UNCHANGED <<cl, loc, rem, sess, c2r, r2c>>
  BY DEF DaemonLinkBreaks, DaemonRedials, relay, client
<1>w. why[x] \subseteq why'[x]
  BY <1>t DEF DaemonLinkBreaks, DaemonRedials, SessOK, BlameAll
<1>s. Still(c2r, c2r', x) /\ Still(r2c, r2c', x) /\ Still(r2d, r2d, x) /\ Still(d2r, d2r, x)
  BY <1>i, <1>u, Written
<1>r. /\ RemoteTakes(x)' <=> RemoteTakes(x)
      /\ LocalTakes(x)' <=> LocalTakes(x)
      /\ PassesBack(x)' <=> PassesBack(x)
      /\ RidesOut(x)' <=> RidesOut(x)
  BY <1>u DEF RemoteTakes, LocalTakes, PassesBack, RidesOut
<1>1. CASE DaemonLinkBreaks
  <2>1. r2d' = <<>> /\ d2r' = <<>> /\ ~dm'.up
    BY <1>1, <1>t DEF DaemonLinkBreaks, LinksOK
  <2>2. /\ Nums(r2d', x) = {} /\ Nums(d2r', x) = {} /\ Tidy(r2d', x) /\ Tidy(d2r', x)
        /\ \A k : ~Has(r2d', k, x) /\ ~Has(d2r', k, x)
    BY <2>1, EmptyQueue
  <2>3. rem[x].st # "none" => "relink" \in why'[x]
    BY <1>1, <1>t DEF DaemonLinkBreaks, BlameAll, SessOK
  <2>4. Opened(x)'
    BY <1>i, <1>s, <1>u, <1>w, <2>1, <2>2, <2>3 DEF Opened, Still, Alike
  <2>5. ~PassesOut(x)'
    BY <2>1 DEF PassesOut
  <2>6. Queued(x)'
    BY <1>s, <2>2 DEF Queued, Still, Quiet
  <2>7. Outward(x)'
    <3>1. Flow(rem[x].got, Nums(r2d, x), Nums(c2r, x), loc[x].sent)
      BY <1>i DEF TunnelInv, Outward
    <3>2. Flow(rem[x].got, {}, Nums(c2r, x), loc[x].sent)
      BY <3>1 DEF Flow
    <3>3. "soon" \notin why'[x] => Whole(rem[x].got)
      BY <1>i, <1>w DEF TunnelInv, Outward, Unbroken
    <3> QED
      BY <1>u, <2>2, <2>5, <3>2, <3>3 DEF Outward, Unbroken
  <2>8. Back(x)'
    <3>1. Flow(loc[x].got, Nums(r2c, x), Nums(d2r, x), rem[x].sent)
      BY <1>i DEF TunnelInv, Back
    <3>2. Flow(loc[x].got, Nums(r2c, x), {}, rem[x].sent)
      BY <3>1 DEF Flow
    <3>3. CASE rem[x].st = "none"
      <4>1. rem[x].sent = 0
        <5>1. ~(rem[x].sent > 0) /\ rem[x].sent \in Nat
          BY <1>i, <3>3, TunnelTyped DEF Opened
        <5> QED
          BY <5>1
      <4>2. /\ loc[x].got \in Seq(Nat) /\ Nums(r2c, x) \in SUBSET Nat /\ {} \in SUBSET Nat
            /\ Flow(loc[x].got, Nums(r2c, x), {}, 0)
        BY <3>2, <4>1, TunnelTyped
      <4>3. Nums(r2c, x) = {} /\ Len(loc[x].got) = 0
        BY <4>2, FlowNothing
      <4>4. Whole(loc[x].got)
        BY <4>2, <4>3 DEF Whole
      <4> QED
        BY <1>u, <2>2, <3>2, <4>1, <4>3, <4>4 DEF Back, Unbroken
    <3>4. CASE rem[x].st # "none"
      BY <1>u, <2>2, <2>3, <3>2, <3>4 DEF Back
    <3> QED
      BY <3>3, <3>4
  <2> QED
    BY <2>4, <2>6, <2>7, <2>8 DEF TunnelInv
<1>2. CASE DaemonRedials
  <2> DEFINE m == Msg("register", CHOOSE t \in Tunnels : TRUE, 0)
  <2>1. r2d' = r2d /\ d2r' = <<m>> /\ dm'.link = dm.link + 1 /\ dm'.up /\ d2r = <<>>
    BY <1>2, <1>i DEF DaemonRedials, LinkInv
  <2>2. Still(d2r, d2r', x)
    <3>1. m \in Frames({"ok", "err", "data", "close", "register"}) /\ m.k = "register"
      <4>1. (CHOOSE t \in Tunnels : TRUE) \in Tunnels
        BY TunnelAssumption
      <4> QED
        BY <4>1, NumberTypes DEF Msg, Frames
    <3> HIDE DEF m
    <3>2. Still(d2r, Append(d2r, m), x)
      BY <1>i, <1>t, <3>1, StillAppend DEF QueuesOK, Queued
    <3>3. d2r' = Append(d2r, m)
      BY <2>1
    <3> QED
      BY <3>2, <3>3
  <2>3. Opened(x)'
    BY <1>i, <1>s, <1>u, <1>w, <2>1, <2>2, OpenedKept DEF Still
  <2>4. ~PassesOut(x)'
    <3>1. sess[x].d <= dm.link
      BY <1>i DEF LinkInv
    <3>2. sess[x].d \in {0} \cup Links
      BY <1>t DEF SessOK, NoSession
    <3>3. sess[x].d \in Nat /\ dm.link \in Nat
      BY <3>2, NumberTypes, TunnelTyped
    <3> QED
      BY <1>u, <2>1, <3>1, <3>3 DEF PassesOut
  <2> QED
    BY <1>i, <1>r, <1>s, <1>u, <1>w, <2>1, <2>2, <2>3, <2>4, TunnelKept DEF Still
<1> QED
  BY <1>1, <1>2

\* handleTunnelOpen of the relay.
LEMMA RelayOpenSteps ==
  ASSUME TypeOK, TypeOK', StreamInv, NEW x \in Tunnels, RelayLooksUp \/ RelayForwardsOpen
  PROVE  TunnelInv(x)'
<1> DEFINE m == Head(c2r)
<1>t. LocOK /\ RemOK /\ QueuesOK /\ LinksOK /\ SessOK
  BY TypeParts
<1>i. TunnelInv(x) /\ LinkInv /\ Queued(x) /\ Opened(x)
  BY DEF StreamInv, TunnelInv
<1>u. UNCHANGED <<cl, dm, loc, rem, why, d2r>> /\ c2r # <<>> /\ m.k = "open"
  BY DEF RelayLooksUp, RelayForwardsOpen, Takes, daemon
<1>q. c2r \in Seq(Frames({"open", "data", "close"})) /\ m \in Frames({"open", "data", "close"})
      /\ m.t \in Tunnels
  <2>1. c2r \in Seq(Frames({"open", "data", "close"})) /\ m \in Frames({"open", "data", "close"})
    BY <1>t, <1>u, QueueType DEF QueuesOK
  <2> QED
    BY <2>1 DEF Frames
<1>s. Still(c2r, c2r, x) /\ Still(r2d, r2d, x) /\ Still(r2c, r2c, x) /\ Still(d2r, d2r', x)
  BY <1>i, <1>u, Written
<1>e. ASSUME NEW c, ToClient(c, Msg("err", m.t, 0)) PROVE Still(r2c, r2c', x)
  <2>1. Msg("err", m.t, 0) \in Frames({"ok", "err", "data", "close"})
        /\ Msg("err", m.t, 0).k = "err"
    BY <1>q, NumberTypes DEF Msg, Frames
  <2> QED
    BY <1>e, <1>i, <2>1, Written
<1>a. ASSUME m.t # x PROVE Still(c2r, Tail(c2r), x)
  BY <1>a, <1>i, <1>q, <1>u, StillTail DEF Queued
\* The request to open x is taken.
<1>b. ASSUME m.t = x
      PROVE  /\ Nums(Tail(c2r), x) = Nums(c2r, x) /\ Tidy(Tail(c2r), x)
             /\ Has(c2r, "open", x) /\ ~Has(Tail(c2r), "open", x)
             /\ \A k : Has(Tail(c2r), k, x) => Has(c2r, k, x)
             /\ loc[x].st # "none" /\ sess[x] = NoSession
             /\ ~Has(r2d, "open", x) /\ rem[x].st = "none"
  <2>1. /\ IF m.k = "data" /\ m.t = x
           THEN /\ Nums(c2r, x) = Nums(Tail(c2r), x) \cup {m.n}
                /\ \A n \in Nums(Tail(c2r), x) : m.n < n
           ELSE Nums(c2r, x) = Nums(Tail(c2r), x)
        /\ \A k : Has(c2r, k, x) <=> Has(Tail(c2r), k, x) \/ (m.k = k /\ m.t = x)
        /\ m.k = "open" /\ m.t = x => ~Has(Tail(c2r), "open", x)
        /\ Tidy(Tail(c2r), x)
    BY <1>i, <1>q, <1>u, TailFrame DEF Queued
  <2>2. /\ Nums(Tail(c2r), x) = Nums(c2r, x) /\ Tidy(Tail(c2r), x)
        /\ Has(c2r, "open", x) /\ ~Has(Tail(c2r), "open", x)
        /\ \A k : Has(Tail(c2r), k, x) => Has(c2r, k, x)
    BY <1>b, <1>u, <2>1
  <2> QED
    BY <1>i, <2>2 DEF Opened
<1>r. /\ RemoteTakes(x)' <=> RemoteTakes(x)
      /\ LocalTakes(x)' <=> LocalTakes(x)
      /\ RidesOut(x)' <=> RidesOut(x)
      /\ sess'[x] = sess[x] => (PassesOut(x)' <=> PassesOut(x)) /\ (PassesBack(x)' <=> PassesBack(x))
  BY <1>u DEF RemoteTakes, LocalTakes, RidesOut, PassesOut, PassesBack
<1>1. CASE RelayLooksUp
  <2>1. UNCHANGED <<sess, r2d>> /\ (c2r' = c2r \/ c2r' = Tail(c2r)) /\ Still(r2c, r2c', x)
    BY <1>1, <1>e, <1>s DEF RelayLooksUp, daemon
  <2>2. Quiet(c2r, c2r', x) /\ Opened(x)'
    <3>1. CASE m.t # x \/ c2r' = c2r
      <4>1. Still(c2r, c2r', x)
        BY <1>a, <1>s, <2>1, <3>1
      <4>2. Opened(x)'
        BY <1>i, <1>s, <1>u, <2>1, <4>1, OpenedKept DEF Still
      <4> QED
        BY <4>1, <4>2 DEF Still
    <3>2. CASE m.t = x /\ c2r' = Tail(c2r)
      <4>1. Opened(x)'
        BY <1>b, <1>i, <1>s, <1>u, <2>1, <3>2 DEF Opened, Still, Alike
      <4> QED
        BY <1>b, <3>2, <4>1 DEF Quiet
    <3> QED
      BY <2>1, <3>1, <3>2
  <2> QED
    BY <1>i, <1>r, <1>s, <1>u, <2>1, <2>2, TunnelKept DEF Still
<1>2. CASE RelayForwardsOpen /\ m.t # x
  <2>1. sess'[x] = sess[x] /\ c2r' = Tail(c2r)
    BY <1>2, <1>t DEF RelayForwardsOpen, SessOK
  <2>2. Still(r2d, r2d', x)
    <3>1. Msg("open", m.t, 0) \in Frames({"open", "data", "close"}) /\ Msg("open", m.t, 0).t = m.t
      BY <1>q, NumberTypes DEF Msg, Frames
    <3> QED
      BY <1>2, <1>i, <1>s, <3>1, Written DEF RelayForwardsOpen
  <2>3. Still(r2c, r2c', x)
    BY <1>2, <1>e, <1>s DEF RelayForwardsOpen
  <2> QED
    BY <1>2, <1>a, <1>i, <1>s, <1>u, <2>1, <2>2, <2>3, OtherKept
<1>3. CASE RelayForwardsOpen /\ m.t = x
  <2>1. c2r' = Tail(c2r) /\ Still(r2c, r2c', x)
    BY <1>3, <1>e, <1>s DEF RelayForwardsOpen
  <2>2. r2d' = r2d \/ r2d' = Append(r2d, Msg("open", x, 0))
    BY <1>3 DEF RelayForwardsOpen, ToDaemon
  <2>3. Quiet(r2d, r2d', x) /\ \A k : k # "open" => (Has(r2d', k, x) <=> Has(r2d, k, x))
    <3> DEFINE f == Msg("open", x, 0)
    <3>1. f \in Frames({"open", "data", "close"}) /\ f.k = "open" /\ f.t = x
      BY NumberTypes DEF Msg, Frames
    <3> HIDE DEF f
    <3>2. /\ Nums(Append(r2d, f), x) = Nums(r2d, x)
          /\ \A k : Has(Append(r2d, f), k, x) <=> Has(r2d, k, x) \/ (f.k = k /\ f.t = x)
          /\ Tidy(Append(r2d, f), x)
      BY <1>3, <1>b, <1>i, <1>t, <3>1, AppendFrame DEF QueuesOK, Queued
    <3>3. r2d' = r2d \/ r2d' = Append(r2d, f)
      BY <2>2 DEF f
    <3> QED
      BY <1>s, <3>1, <3>2, <3>3 DEF Quiet, Still
  <2>4. Opened(x)'
    BY <1>3, <1>b, <1>i, <1>s, <1>u, <2>1, <2>3 DEF Opened, Still, Alike
  <2>5. loc[x].sent = 0 /\ rem[x].sent = 0
    <3>1. ~(loc[x].sent > 0) /\ ~(rem[x].sent > 0)
      BY <1>3, <1>b, <1>i DEF Opened
    <3> QED
      BY <3>1, TunnelTyped
  <2>6. Queued(x)'
    BY <1>3, <1>b, <1>s, <2>1, <2>3 DEF Queued, Still, Quiet
  <2>7. Outward(x)'
    <3> DEFINE got == rem[x].got
               A == Nums(r2d, x)
               B == Nums(c2r, x)
    <3>1. Flow(got, A, B, 0)
      BY <1>i, <2>5 DEF TunnelInv, Outward
    <3>2. got \in Seq(Nat) /\ A \in SUBSET Nat /\ B \in SUBSET Nat
      BY TunnelTyped
    <3>3. Nums(r2d', x) = A /\ Nums(c2r', x) = B /\ rem'[x].got = got /\ loc'[x].sent = 0
      BY <1>3, <1>b, <1>u, <2>1, <2>3, <2>5 DEF Quiet
    <3> HIDE DEF got, A, B
    <3>4. A = {} /\ B = {} /\ Len(got) = 0
      BY <3>1, <3>2, FlowNothing
    <3>5. Whole(got)
      BY <3>2, <3>4 DEF Whole
    <3> QED
      BY <3>1, <3>3, <3>4, <3>5 DEF Outward, Unbroken
  <2>8. Back(x)'
    <3> DEFINE got == loc[x].got
               A == Nums(r2c, x)
               B == Nums(d2r, x)
    <3>1. Flow(got, A, B, 0)
      BY <1>i, <2>5 DEF TunnelInv, Back
    <3>2. got \in Seq(Nat) /\ A \in SUBSET Nat /\ B \in SUBSET Nat
      BY TunnelTyped
    <3>3. Nums(r2c', x) = A /\ Nums(d2r', x) = B /\ loc'[x].got = got /\ rem'[x].sent = 0
      BY <1>s, <1>u, <2>1, <2>5 DEF Still, Quiet
    <3> HIDE DEF got, A, B
    <3>4. A = {} /\ B = {} /\ Len(got) = 0
      BY <3>1, <3>2, FlowNothing
    <3>5. Whole(got)
      BY <3>2, <3>4 DEF Whole
    <3> QED
      BY <3>1, <3>3, <3>4, <3>5 DEF Back, Unbroken
  <2> QED
    BY <2>4, <2>6, <2>7, <2>8 DEF TunnelInv
<1> QED
  BY <1>1, <1>2, <1>3

\* handleTunnelRelay and handleTunnelClose for a frame of the client.
LEMMA RelayOutSteps ==
  ASSUME TypeOK, TypeOK', StreamInv, NEW x \in Tunnels, RelayFromClient
  PROVE  TunnelInv(x)'
<1> DEFINE m == Head(c2r)
<1>t. LocOK /\ RemOK /\ QueuesOK /\ LinksOK /\ SessOK
  BY TypeParts
<1>i. TunnelInv(x) /\ LinkInv /\ Queued(x) /\ Opened(x)
  BY DEF StreamInv, TunnelInv
<1>u. UNCHANGED <<cl, dm, loc, rem, why, r2c, d2r>> /\ c2r # <<>> /\ c2r' = Tail(c2r)
      /\ m.k \in {"data", "close"}
  BY DEF RelayFromClient, Takes, client
<1>q. c2r \in Seq(Frames({"open", "data", "close"})) /\ m \in Frames({"open", "data", "close"})
      /\ m.t \in Tunnels /\ m.n \in Nat
  <2>1. c2r \in Seq(Frames({"open", "data", "close"})) /\ m \in Frames({"open", "data", "close"})
    BY <1>t, <1>u, QueueType DEF QueuesOK
  <2> QED
    BY <2>1, NumberTypes DEF Frames
<1>s. Still(r2c, r2c', x) /\ Still(d2r, d2r', x) /\ Still(r2d, r2d, x)
  BY <1>i, <1>u, Written
<1>d. r2d' = IF sess[m.t].d = dm.link /\ dm.up THEN Append(r2d, m) ELSE r2d
  <2>1. NoSession.d # dm.link
    BY TunnelTyped DEF NoSession
  <2> QED
    BY <2>1 DEF RelayFromClient, ToDaemon
<1>e. sess'[x] = IF m.t = x /\ m.k = "close" THEN NoSession ELSE sess[x]
  BY <1>q, <1>t, <1>u DEF RelayFromClient, SessOK
<1>r. /\ RemoteTakes(x)' <=> RemoteTakes(x)
      /\ LocalTakes(x)' <=> LocalTakes(x)
      /\ RidesOut(x)' <=> RidesOut(x)
      /\ sess'[x] = sess[x] => (PassesOut(x)' <=> PassesOut(x)) /\ (PassesBack(x)' <=> PassesBack(x))
      /\ sess'[x] = NoSession => ~PassesOut(x)' /\ ~PassesBack(x)'
  <2>1. NoSession.d # dm.link /\ NoSession.c # cl.link
    BY TunnelTyped DEF NoSession
  <2> QED
    BY <1>u, <2>1 DEF RemoteTakes, LocalTakes, RidesOut, PassesOut, PassesBack
<1>a. m.t # x \/ m.k = "close" => Still(c2r, c2r', x) /\ Still(r2d, r2d', x)
  <2> HAVE m.t # x \/ m.k = "close"
  <2>1. Still(c2r, c2r', x)
    BY <1>i, <1>q, <1>u, StillTail DEF Queued
  <2>2. Still(r2d, Append(r2d, m), x)
    BY <1>i, <1>q, <1>t, StillAppend DEF QueuesOK, Queued
  <2> QED
    BY <1>d, <1>s, <2>1, <2>2
<1>1. CASE m.t # x \/ m.k = "close"
  <2>1. Opened(x)'
    BY <1>1, <1>a, <1>e, <1>i, <1>s, <1>u, OpenedKept DEF Still
  <2> QED
    BY <1>1, <1>a, <1>e, <1>i, <1>r, <1>s, <1>u, <2>1, TunnelKept DEF Still
<1>2. CASE m.t = x /\ m.k = "data"
  <2>1. /\ Nums(c2r, x) = Nums(c2r', x) \cup {m.n}
        /\ \A n \in Nums(c2r', x) : m.n < n
        /\ Tidy(c2r', x) /\ Alike(c2r, c2r', x)
    BY <1>2, <1>i, <1>q, <1>u, DataTaken DEF Queued
  <2> DEFINE got == rem[x].got
             A == Nums(r2d, x)
             B == Nums(c2r', x)
             sent == loc[x].sent
             n == m.n
  <2>2. /\ got \in Seq(Nat) /\ A \in SUBSET Nat /\ B \in SUBSET Nat /\ sent \in Nat /\ n \in Nat
        /\ (\A b \in B : n < b) /\ Flow(got, A, B \cup {n}, sent)
    <3>1. /\ got \in Seq(Nat) /\ A \in SUBSET Nat /\ Nums(c2r, x) \in SUBSET Nat /\ sent \in Nat
      BY TunnelTyped
    <3>2. Flow(got, A, B \cup {n}, sent)
      BY <1>i, <2>1 DEF TunnelInv, Outward
    <3> QED
      BY <1>q, <2>1, <3>1, <3>2
  <2>3. "soon" \notin why[x] => Unbroken(got, A, B \cup {n}, sent, RemoteTakes(x), PassesOut(x), RidesOut(x))
    BY <1>i, <2>1 DEF TunnelInv, Outward
  <2> HIDE DEF got, A, B, sent, n
  <2>4. /\ Flow(got, A \cup {n}, B, sent)
        /\ Flow(got, A, B, sent)
        /\ \A a \in A : a < n
        /\ \A takes, passes, rides \in BOOLEAN :
             Unbroken(got, A, B \cup {n}, sent, takes, passes, rides) /\ passes =>
               Unbroken(got, A \cup {n}, B, sent, takes, passes, rides)
        /\ \A takes, passes, rides \in BOOLEAN :
             Unbroken(got, A, B \cup {n}, sent, takes, passes, rides) =>
               Unbroken(got, A, B, sent, takes, FALSE, rides)
    BY <2>2, FlowPass
  <2>5. /\ Nums(r2d', x) = IF PassesOut(x) THEN A \cup {n} ELSE A
        /\ Tidy(r2d', x) /\ Alike(r2d, r2d', x)
    <3>1. /\ Nums(Append(r2d, m), x) = Nums(r2d, x) \cup {m.n}
          /\ Tidy(Append(r2d, m), x) /\ Alike(r2d, Append(r2d, m), x)
      BY <1>2, <1>i, <1>q, <1>t, <2>4, DataAppended, SMTT(30) DEF QueuesOK, Queued, A, n
    <3> QED
      BY <1>2, <1>d, <1>s, <3>1 DEF PassesOut, Still, Quiet, A, n
  <2>6. Opened(x)'
    BY <1>2, <1>e, <1>i, <1>s, <1>u, <2>1, <2>5, OpenedKept DEF Still
  <2>7. Queued(x)'
    BY <1>s, <2>1, <2>5 DEF Queued, Still, Quiet
  <2>8. Back(x)'
    BY <1>2, <1>e, <1>i, <1>r, <1>s, <1>u DEF TunnelInv, Back, Unbroken, Still, Quiet
  <2>b. RemoteTakes(x) \in BOOLEAN /\ PassesOut(x) \in BOOLEAN /\ RidesOut(x) \in BOOLEAN
    BY TunnelTyped
  <2>9. Outward(x)'
    <3>1. CASE PassesOut(x)
      <4>1. "soon" \notin why[x] =>
               Unbroken(got, A \cup {n}, B, sent, RemoteTakes(x), PassesOut(x), RidesOut(x))
        BY <2>3, <2>4, <2>b, <3>1
      <4> QED
        BY <1>2, <1>e, <1>r, <1>u, <2>4, <2>5, <3>1, <4>1 DEF Outward, Unbroken, got, B, sent
    <3>2. CASE ~PassesOut(x)
      <4>1. "soon" \notin why[x] =>
               Unbroken(got, A, B, sent, RemoteTakes(x), FALSE, RidesOut(x))
        BY <2>3, <2>4, <2>b
      <4> QED
        BY <1>2, <1>e, <1>r, <1>u, <2>4, <2>5, <3>2, <4>1 DEF Outward, Unbroken, got, B, sent
    <3> QED
      BY <3>1, <3>2
  <2> QED
    BY <2>6, <2>7, <2>8, <2>9 DEF TunnelInv
<1> QED
  BY <1>1, <1>2, <1>u

\* What the relay does with a frame of the daemon.
LEMMA RelayBackSteps ==
  ASSUME TypeOK, TypeOK', StreamInv, NEW x \in Tunnels, RelayFromDaemon
  PROVE  TunnelInv(x)'
<1> DEFINE m == Head(d2r)
<1>t. LocOK /\ RemOK /\ QueuesOK /\ LinksOK /\ SessOK
  BY TypeParts
<1>i. TunnelInv(x) /\ LinkInv /\ Queued(x) /\ Opened(x)
  BY DEF StreamInv, TunnelInv
<1>u. UNCHANGED <<cl, dm, loc, rem, why, c2r, r2d>> /\ d2r # <<>> /\ d2r' = Tail(d2r)
      /\ m.k # "register"
  BY DEF RelayFromDaemon, daemon
<1>q. d2r \in Seq(Frames({"ok", "err", "data", "close", "register"}))
      /\ m \in Frames({"ok", "err", "data", "close", "register"})
      /\ m \in Frames({"ok", "err", "data", "close"})
      /\ m.t \in Tunnels /\ m.n \in Nat /\ m.k \in {"ok", "err", "data", "close"}
  <2>1. d2r \in Seq(Frames({"ok", "err", "data", "close", "register"}))
        /\ m \in Frames({"ok", "err", "data", "close", "register"})
    BY <1>t, <1>u, QueueType DEF QueuesOK
  <2> QED
    BY <1>u, <2>1, NumberTypes DEF Frames
<1>s. Still(c2r, c2r', x) /\ Still(r2d, r2d', x) /\ Still(r2c, r2c, x)
  BY <1>i, <1>u, Written
<1>d. r2c' = IF sess[m.t].c = cl.link /\ cl.up THEN Append(r2c, m) ELSE r2c
  <2>1. NoSession.c # cl.link
    BY TunnelTyped DEF NoSession
  <2> QED
    BY <2>1 DEF RelayFromDaemon, ToClient
<1>e. sess'[x] \in {sess[x], NoSession} /\ (m.t = x /\ m.k # "close" => sess'[x] = sess[x])
  BY <1>q, <1>t, <1>u DEF RelayFromDaemon, SessOK
<1>r. /\ RemoteTakes(x)' <=> RemoteTakes(x)
      /\ LocalTakes(x)' <=> LocalTakes(x)
      /\ RidesOut(x)' <=> RidesOut(x)
      /\ sess'[x] = sess[x] => (PassesOut(x)' <=> PassesOut(x)) /\ (PassesBack(x)' <=> PassesBack(x))
      /\ sess'[x] = NoSession => ~PassesOut(x)' /\ ~PassesBack(x)'
  <2>1. NoSession.d # dm.link /\ NoSession.c # cl.link
    BY TunnelTyped DEF NoSession
  <2> QED
    BY <1>u, <2>1 DEF RemoteTakes, LocalTakes, RidesOut, PassesOut, PassesBack
<1>f. m.k = "ok" /\ m.t = x => Has(d2r, "ok", x)
  <2>1. \A k : m.k = k /\ m.t = x => Has(d2r, k, x)
    BY <1>i, <1>q, <1>u, TailFrame DEF Queued
  <2> QED
    BY <2>1
<1>1. CASE m.t # x \/ m.k # "data"
  <2>1. Still(d2r, d2r', x)
    BY <1>1, <1>i, <1>q, <1>u, StillTail DEF Queued
  <2>2. /\ Quiet(r2c, r2c', x) /\ (Has(r2c', "open", x) <=> Has(r2c, "open", x))
        /\ Has(r2c', "ok", x) => Has(r2c, "ok", x) \/ Has(d2r, "ok", x)
    <3>1. /\ Nums(Append(r2c, m), x) =
               IF m.k = "data" /\ m.t = x THEN Nums(r2c, x) \cup {m.n} ELSE Nums(r2c, x)
          /\ \A k : Has(Append(r2c, m), k, x) <=> Has(r2c, k, x) \/ (m.k = k /\ m.t = x)
          /\ /\ Tidy(r2c, x)
             /\ m.k = "data" /\ m.t = x => \A n \in Nums(r2c, x) : n < m.n
             /\ m.k = "open" /\ m.t = x => ~Has(r2c, "open", x)
             => Tidy(Append(r2c, m), x)
      BY <1>q, <1>t, AppendFrame DEF QueuesOK
    <3>2. Tidy(r2c, x)
      BY <1>i DEF Queued
    <3> QED
      BY <1>1, <1>d, <1>f, <1>q, <1>s, <3>1, <3>2 DEF Quiet, Still
  <2>3. Opened(x)'
    BY <1>e, <1>i, <1>s, <1>u, <2>1, <2>2 DEF Opened, Still, Alike
  <2> QED
    BY <1>e, <1>i, <1>r, <1>s, <1>u, <2>1, <2>2, <2>3, TunnelKept DEF Still
<1>2. CASE m.t = x /\ m.k = "data"
  <2>1. /\ Nums(d2r, x) = Nums(d2r', x) \cup {m.n}
        /\ \A n \in Nums(d2r', x) : m.n < n
        /\ Tidy(d2r', x) /\ Alike(d2r, d2r', x)
    BY <1>2, <1>i, <1>q, <1>u, DataTaken DEF Queued
  <2> DEFINE got == loc[x].got
             A == Nums(r2c, x)
             B == Nums(d2r', x)
             sent == rem[x].sent
             n == m.n
  <2>2. /\ got \in Seq(Nat) /\ A \in SUBSET Nat /\ B \in SUBSET Nat /\ sent \in Nat /\ n \in Nat
        /\ (\A b \in B : n < b) /\ Flow(got, A, B \cup {n}, sent)
    <3>1. /\ got \in Seq(Nat) /\ A \in SUBSET Nat /\ Nums(d2r, x) \in SUBSET Nat /\ sent \in Nat
      BY TunnelTyped
    <3>2. Flow(got, A, B \cup {n}, sent)
      BY <1>i, <2>1 DEF TunnelInv, Back
    <3> QED
      BY <1>q, <2>1, <3>1, <3>2
  <2>3. why[x] \cap {"early", "relink"} = {} =>
          Unbroken(got, A, B \cup {n}, sent, LocalTakes(x), PassesBack(x), TRUE)
    BY <1>i, <2>1 DEF TunnelInv, Back
  <2> HIDE DEF got, A, B, sent, n
  <2>4. /\ Flow(got, A \cup {n}, B, sent)
        /\ Flow(got, A, B, sent)
        /\ \A a \in A : a < n
        /\ \A takes, passes, rides \in BOOLEAN :
             Unbroken(got, A, B \cup {n}, sent, takes, passes, rides) /\ passes =>
               Unbroken(got, A \cup {n}, B, sent, takes, passes, rides)
        /\ \A takes, passes, rides \in BOOLEAN :
             Unbroken(got, A, B \cup {n}, sent, takes, passes, rides) =>
               Unbroken(got, A, B, sent, takes, FALSE, rides)
    BY <2>2, FlowPass
  <2>5. /\ Nums(r2c', x) = IF PassesBack(x) THEN A \cup {n} ELSE A
        /\ Tidy(r2c', x) /\ Alike(r2c, r2c', x)
    <3>1. /\ Nums(Append(r2c, m), x) = Nums(r2c, x) \cup {m.n}
          /\ Tidy(Append(r2c, m), x) /\ Alike(r2c, Append(r2c, m), x)
      <4>1. r2c \in Seq(Frames({"ok", "err", "data", "close"})) /\ Tidy(r2c, x)
        BY <1>i, <1>t DEF QueuesOK, Queued
      <4>2. m \in Frames({"ok", "err", "data", "close"}) /\ m.t = x /\ m.k = "data"
            /\ \A a \in Nums(r2c, x) : a < m.n
        BY <1>2, <1>q, <2>4 DEF A, n
      <4> HIDE DEF m
      <4> QED
        BY <4>1, <4>2, DataAppended
    <3> QED
      BY <1>2, <1>d, <1>s, <3>1 DEF PassesBack, Still, Quiet, A, n
  <2>6. Opened(x)'
    BY <1>2, <1>e, <1>i, <1>s, <1>u, <2>1, <2>5, OpenedKept DEF Still
  <2>7. Queued(x)'
    BY <1>s, <2>1, <2>5 DEF Queued, Still, Quiet
  <2>8. Outward(x)'
    BY <1>2, <1>e, <1>i, <1>r, <1>s, <1>u DEF TunnelInv, Outward, Unbroken, Still, Quiet
  <2>b. LocalTakes(x) \in BOOLEAN /\ PassesBack(x) \in BOOLEAN /\ TRUE \in BOOLEAN
    BY TunnelTyped
  <2>9. Back(x)'
    <3>1. CASE PassesBack(x)
      <4>1. why[x] \cap {"early", "relink"} = {} =>
               Unbroken(got, A \cup {n}, B, sent, LocalTakes(x), PassesBack(x), TRUE)
        BY <2>3, <2>4, <2>b, <3>1
      <4> QED
        BY <1>2, <1>e, <1>r, <1>u, <2>4, <2>5, <3>1, <4>1 DEF Back, Unbroken, got, B, sent
    <3>2. CASE ~PassesBack(x)
      <4>1. why[x] \cap {"early", "relink"} = {} =>
               Unbroken(got, A, B, sent, LocalTakes(x), FALSE, TRUE)
        BY <2>3, <2>4, <2>b
      <4> QED
        BY <1>2, <1>e, <1>r, <1>u, <2>4, <2>5, <3>2, <4>1 DEF Back, Unbroken, got, B, sent
    <3> QED
      BY <3>1, <3>2
  <2> QED
    BY <2>6, <2>7, <2>8, <2>9 DEF TunnelInv
<1> QED
  BY <1>1, <1>2

\* handleRegister and unregister.
LEMMA RegistrySteps ==
  ASSUME TypeOK, TypeOK', StreamInv, NEW x \in Tunnels,
         RelayRegisters \/ \E l \in Links : RelayUnregisters(l)
  PROVE  TunnelInv(x)'
<1>t. LocOK /\ RemOK /\ QueuesOK /\ LinksOK /\ SessOK
  BY TypeParts
<1>i. TunnelInv(x) /\ LinkInv /\ Queued(x) /\ Opened(x)
  BY DEF StreamInv, TunnelInv
<1>s. Still(c2r, c2r, x) /\ Still(r2d, r2d, x) /\ Still(r2c, r2c, x) /\ Still(d2r, d2r, x)
  BY <1>i, Written
<1>1. CASE RelayRegisters
  <2>1. UNCHANGED <<cl, dm, loc, rem, sess, why, c2r, r2c, r2d>> /\ d2r # <<>> /\ d2r' = Tail(d2r)
        /\ Head(d2r).k = "register"
    BY <1>1 DEF RelayRegisters, client, daemon
  <2>2. Still(d2r, d2r', x)
    BY <1>i, <1>t, <2>1, StillTail DEF QueuesOK, Queued
  <2> QED
    BY <1>i, <1>s, <2>1, <2>2, OtherKept
<1>2. ASSUME NEW l \in Links, RelayUnregisters(l) PROVE TunnelInv(x)'
  <2> DEFINE S == {t \in Orphaned(l) : sess[t].c = cl.link /\ cl.up}
  <2>1. UNCHANGED <<cl, dm, loc, rem, why, c2r, r2d, d2r>> /\ sess'[x] \in {sess[x], NoSession}
    BY <1>2, <1>t DEF RelayUnregisters, daemon
  <2>2. Still(r2c, r2c', x)
    <3>1. PICK order \in SetToSeqs(S) :
            r2c' = r2c \o [i \in DOMAIN order |-> Msg("close", order[i], 0)]
      BY <1>2 DEF RelayUnregisters
    <3>2. S \in SUBSET Tunnels
      BY DEF Orphaned
    <3>3. order \in Seq(Tunnels)
      BY <3>2, OrderType
    <3>4. /\ Nums(r2c', x) = Nums(r2c, x)
          /\ \A k : k # "close" => (Has(r2c', k, x) <=> Has(r2c, k, x))
          /\ Tidy(r2c, x) => Tidy(r2c', x)
      <4>1. r2c \in Seq(Frames({"ok", "err", "data", "close"}))
        BY <1>t DEF QueuesOK
      <4> DEFINE r == r2c \o [i \in DOMAIN order |-> Msg("close", order[i], 0)]
      <4>2. /\ Nums(r, x) = Nums(r2c, x)
            /\ \A k : k # "close" => (Has(r, k, x) <=> Has(r2c, k, x))
            /\ Tidy(r2c, x) => Tidy(r, x)
        BY <3>3, <4>1, ClosesAdded
      <4> HIDE DEF r
      <4>3. r2c' = r
        BY <3>1 DEF r
      <4> QED
        BY <4>2, <4>3
    <3> QED
      BY <1>i, <3>4 DEF Queued, Still, Quiet, Alike
  <2>3. Opened(x)'
    BY <1>i, <1>s, <2>1, <2>2, OpenedKept DEF Still
  <2>4. /\ RemoteTakes(x)' <=> RemoteTakes(x)
        /\ LocalTakes(x)' <=> LocalTakes(x)
        /\ RidesOut(x)' <=> RidesOut(x)
        /\ PassesOut(x)' => PassesOut(x)
        /\ PassesBack(x)' => PassesBack(x)
    <3>1. NoSession.d # dm.link /\ NoSession.c # cl.link
      BY TunnelTyped DEF NoSession
    <3> QED
      BY <2>1, <3>1 DEF RemoteTakes, LocalTakes, RidesOut, PassesOut, PassesBack
  <2> QED
    BY <1>i, <1>s, <2>1, <2>2, <2>3, <2>4, TunnelKept DEF Still
<1> QED
  BY <1>1, <1>2

\* run of the daemon, reading a frame.
LEMMA DaemonReadsSteps ==
  ASSUME TypeOK, TypeOK', StreamInv, NEW x \in Tunnels, DaemonReads
  PROVE  TunnelInv(x)'
<1> DEFINE m == Head(r2d)
<1>t. LocOK /\ RemOK /\ QueuesOK /\ LinksOK /\ SessOK
  BY TypeParts
<1>i. TunnelInv(x) /\ LinkInv /\ Queued(x) /\ Opened(x)
  BY DEF StreamInv, TunnelInv
<1>u. /\ UNCHANGED <<cl, dm, loc, sess, c2r, r2c>>
      /\ r2d # <<>> /\ r2d' = Tail(r2d)
  BY DEF DaemonReads, relay, client
<1>w. why[x] \subseteq why'[x]
  BY <1>t DEF DaemonReads, SessOK, Blame
<1>s. Still(c2r, c2r', x) /\ Still(r2c, r2c', x) /\ Still(d2r, d2r, x)
  BY <1>i, <1>u, Written
<1>q. r2d \in Seq(Frames({"open", "data", "close"})) /\ m \in Frames({"open", "data", "close"})
  BY <1>t, <1>u, QueueType DEF QueuesOK
<1>m. m.k \in {"open", "data", "close"} /\ m.t \in Tunnels /\ m.n \in Nat
  BY <1>q, NumberTypes DEF Frames
<1>x. rem[x] \in Remotes
  BY <1>t DEF RemOK
<1>o. Still(d2r, d2r', x)
  <2>1. Msg("close", m.t, 0) \in Frames({"ok", "err", "data", "close", "register"})
        /\ Msg("close", m.t, 0).k = "close"
    BY <1>m, NumberTypes DEF Msg, Frames
  <2>2. FromDaemon(<<Msg("close", m.t, 0)>>) => Still(d2r, d2r', x)
    BY <1>i, <2>1, Written
  <2> QED
    BY <1>s, <2>2 DEF DaemonReads
<1>r. /\ LocalTakes(x)' <=> LocalTakes(x)
      /\ PassesOut(x)' <=> PassesOut(x)
      /\ PassesBack(x)' <=> PassesBack(x)
      /\ RidesOut(x)' <=> RidesOut(x)
  BY <1>u DEF LocalTakes, PassesOut, PassesBack, RidesOut
<1>v. rem'[x] = IF m.t # x THEN rem[x]
                ELSE CASE m.k = "open" -> Dialing(x)
                       [] m.k = "close" \/ (m.k = "data" /\ WriteFails(x)) -> CloseRemote(x)
                       [] OTHER -> RemoteGets(x, m.n)
  BY <1>t, <1>m DEF DaemonReads, RemOK
<1>h. m.t # x \/ m.k = "close" => Still(r2d, r2d', x)
  BY <1>i, <1>q, <1>u, StillTail DEF Queued
<1>b. /\ m.t = x /\ m.k # "open" /\ "soon" \notin why'[x] => ~NotRegistered(x)
  BY <1>t DEF DaemonReads, SessOK, Blame
<1>1. CASE m.t # x
  BY <1>1, <1>h, <1>i, <1>o, <1>s, <1>u, <1>v, <1>w, OtherKept
<1>2. CASE m.t = x /\ m.k = "open"
  <2>1. /\ Nums(r2d', x) = Nums(r2d, x) /\ Tidy(r2d', x)
        /\ Has(r2d, "open", x) /\ ~Has(r2d', "open", x)
    <3>1. /\ IF m.k = "data" /\ m.t = x
             THEN /\ Nums(r2d, x) = Nums(Tail(r2d), x) \cup {m.n}
                  /\ \A n \in Nums(Tail(r2d), x) : m.n < n
             ELSE Nums(r2d, x) = Nums(Tail(r2d), x)
          /\ \A k : Has(r2d, k, x) <=> Has(Tail(r2d), k, x) \/ (m.k = k /\ m.t = x)
          /\ m.k = "open" /\ m.t = x => ~Has(Tail(r2d), "open", x)
          /\ Tidy(Tail(r2d), x)
      BY <1>i, <1>q, <1>u, TailFrame DEF Queued
    <3> QED
      BY <1>2, <1>u, <3>1
  <2>2. rem'[x] = Dialing(x)
    BY <1>2, <1>v
  <2>3. /\ rem'[x].st = "dialing" /\ rem'[x].sent = rem[x].sent /\ rem'[x].got = rem[x].got
        /\ rem'[x].active = rem[x].active
    BY <1>x, <2>2 DEF Dialing, Remotes
  <2>4. rem[x].st = "none" /\ loc[x].st # "none" /\ ~Has(c2r, "open", x) /\ dm.up
    BY <1>i, <1>u, <2>1 DEF Opened, LinkInv
  <2>5. Opened(x)'
    BY <1>i, <1>o, <1>s, <1>u, <1>w, <2>1, <2>3, <2>4 DEF Opened, Still, Alike
  <2>6. RemoteTakes(x)
    BY <2>4 DEF RemoteTakes
  <2> QED
    BY <1>i, <1>o, <1>r, <1>s, <1>u, <1>w, <2>1, <2>3, <2>5, <2>6, TunnelKept DEF Still, Quiet
<1>3. CASE m.t = x /\ m.k = "close"
  <2>1. rem'[x] = CloseRemote(x)
    BY <1>3, <1>v
  <2>2. /\ rem'[x].st = rem[x].st /\ rem'[x].sent = rem[x].sent /\ rem'[x].got = rem[x].got
        /\ rem'[x].active => rem[x].active
    BY <1>x, <2>1 DEF CloseRemote, Remotes
  <2>3. Opened(x)'
    BY <1>3, <1>h, <1>i, <1>o, <1>s, <1>u, <1>w, <2>2, OpenedKept DEF Still
  <2>4. RemoteTakes(x)' => RemoteTakes(x)
    BY <2>2 DEF RemoteTakes
  <2> QED
    BY <1>3, <1>h, <1>i, <1>o, <1>r, <1>s, <1>u, <1>w, <2>2, <2>3, <2>4, TunnelKept DEF Still
<1>4. CASE m.t = x /\ m.k = "data"
  <2>1. rem'[x] = IF WriteFails(x) THEN CloseRemote(x) ELSE RemoteGets(x, m.n)
    BY <1>4, <1>v
  <2>2. /\ rem'[x].sent = rem[x].sent /\ rem'[x].st = rem[x].st
        /\ rem'[x].active = (rem[x].active /\ ~WriteFails(x))
        /\ rem'[x].got = IF rem[x].active /\ ~WriteFails(x) THEN Append(rem[x].got, m.n) ELSE rem[x].got
    <3>1. CASE WriteFails(x)
      BY <1>x, <2>1, <3>1 DEF CloseRemote, WriteFails, Remotes
    <3>2. CASE ~WriteFails(x)
      BY <1>x, <2>1, <3>2 DEF RemoteGets, Remotes
    <3> QED
      BY <3>1, <3>2
  <2>3. /\ Nums(r2d, x) = Nums(r2d', x) \cup {m.n}
        /\ \A n \in Nums(r2d', x) : m.n < n
        /\ Tidy(r2d', x) /\ Alike(r2d, r2d', x)
    BY <1>4, <1>i, <1>q, <1>u, DataTaken DEF Queued
  <2> DEFINE got == rem[x].got
             A == Nums(r2d', x)
             B == Nums(c2r, x)
             sent == loc[x].sent
             n == m.n
  <2>4. /\ got \in Seq(Nat) /\ A \in SUBSET Nat /\ B \in SUBSET Nat /\ sent \in Nat /\ n \in Nat
        /\ (\A a \in A : n < a) /\ Flow(got, A \cup {n}, B, sent)
    <3>1. /\ got \in Seq(Nat) /\ B \in SUBSET Nat /\ Nums(r2d, x) \in SUBSET Nat /\ sent \in Nat
      BY TunnelTyped
    <3>2. Flow(got, A \cup {n}, B, sent)
      BY <1>i, <2>3 DEF TunnelInv, Outward
    <3> QED
      BY <1>m, <2>3, <3>1, <3>2
  <2>5. "soon" \notin why'[x] =>
          Unbroken(got, A \cup {n}, B, sent, RemoteTakes(x), PassesOut(x), RidesOut(x))
    BY <1>i, <1>w, <2>3 DEF TunnelInv, Outward
  <2>6. Opened(x)'
    BY <1>i, <1>o, <1>s, <1>u, <1>w, <2>2, <2>3, OpenedKept DEF Still
  <2>7. Queued(x)'
    BY <1>o, <1>s, <2>3 DEF Queued, Still, Quiet
  <2>8. Back(x)'
    <3>1. why'[x] \cap {"early", "relink"} = {} => why[x] \cap {"early", "relink"} = {}
      BY <1>w
    <3> QED
      BY <1>i, <1>o, <1>r, <1>s, <1>u, <2>2, <3>1 DEF TunnelInv, Back, Unbroken, Still, Quiet
  <2> HIDE DEF got, A, B, sent, n
  <2>9. /\ Flow(Append(got, n), A, B, sent)
        /\ Flow(got, A, B, sent)
        /\ \A takes, passes, rides \in BOOLEAN :
             Unbroken(got, A \cup {n}, B, sent, takes, passes, rides) /\ takes =>
               Unbroken(Append(got, n), A, B, sent, takes, passes, rides)
        /\ \A takes, passes, rides \in BOOLEAN :
             Unbroken(got, A \cup {n}, B, sent, takes, passes, rides) =>
               Unbroken(got, A, B, sent, FALSE, passes, rides)
    BY <2>4, FlowRead
  <2>b. RemoteTakes(x) \in BOOLEAN /\ PassesOut(x) \in BOOLEAN /\ RidesOut(x) \in BOOLEAN
    BY TunnelTyped
  <2>10. Outward(x)'
    <3>1. CASE rem[x].active /\ ~WriteFails(x)
      <4>1. RemoteTakes(x) /\ RemoteTakes(x)'
        BY <2>2, <3>1 DEF RemoteTakes
      <4>2. "soon" \notin why'[x] =>
              Unbroken(Append(got, n), A, B, sent, RemoteTakes(x), PassesOut(x), RidesOut(x))
        BY <2>5, <2>9, <2>b, <4>1
      <4>3. rem'[x].got = Append(got, n)
        BY <2>2, <3>1 DEF got, n
      <4> QED
        BY <1>r, <1>u, <2>9, <4>1, <4>2, <4>3 DEF Outward, Unbroken, A, B, sent
    <3>2. CASE ~(rem[x].active /\ ~WriteFails(x))
      <4>1. "soon" \notin why'[x] => ~RemoteTakes(x)'
        <5> HAVE "soon" \notin why'[x]
        <5>1. ~NotRegistered(x)
          BY <1>4, <1>b
        <5>2. n > 0 /\ n <= sent
          BY <2>4 DEF Flow
        <5>3. sent > 0
          BY <2>4, <5>2
        <5>4. rem[x].st # "none"
          BY <1>i, <5>3 DEF Opened, sent
        <5>5. ~rem'[x].active
          BY <2>2, <3>2
        <5>6. rem[x].active => rem[x].st = "reading"
          BY <1>t DEF RemOK
        <5> QED
          BY <2>2, <5>1, <5>4, <5>5, <5>6 DEF RemoteTakes, NotRegistered
      <4>2. "soon" \notin why'[x] =>
              Unbroken(got, A, B, sent, FALSE, PassesOut(x), RidesOut(x))
        BY <2>5, <2>9, <2>b
      <4>3. rem'[x].got = got
        BY <2>2, <3>2 DEF got
      <4> QED
        BY <1>r, <1>u, <2>9, <4>1, <4>2, <4>3 DEF Outward, Unbroken, A, B, sent
    <3> QED
      BY <3>1, <3>2
  <2> QED
    BY <2>6, <2>7, <2>8, <2>10 DEF TunnelInv
<1> QED
  BY <1>1, <1>2, <1>3, <1>4, <1>m

\* handleTunnelOpen and tunnelReadLoop of the daemon.
LEMMA RemoteSteps ==
  ASSUME TypeOK, TypeOK', StreamInv, NEW x \in Tunnels, NEW t \in Tunnels,
         DaemonDials(t) \/ DaemonStores(t) \/ RemotePipes(t) \/ PeerLeaves(t) \/ RemoteEnds(t)
  PROVE  TunnelInv(x)'
<1>t. LocOK /\ RemOK /\ QueuesOK /\ LinksOK /\ SessOK
  BY TypeParts
<1>i. TunnelInv(x) /\ LinkInv /\ Queued(x) /\ Opened(x)
  BY DEF StreamInv, TunnelInv
<1>u. UNCHANGED <<cl, dm, loc, sess, why, c2r, r2c, r2d>>
  BY DEF DaemonDials, DaemonStores, RemotePipes, PeerLeaves, RemoteEnds, relay, client
<1>s. Still(c2r, c2r', x) /\ Still(r2c, r2c', x) /\ Still(r2d, r2d', x) /\ Still(d2r, d2r, x)
  BY <1>i, <1>u, Written
<1>x. rem[x] \in Remotes /\ rem[t] \in Remotes
  BY <1>t DEF RemOK
<1>m. /\ \A k \in {"ok", "err", "data", "close"}, n \in Numbers :
           /\ Msg(k, t, n) \in Frames({"ok", "err", "data", "close", "register"})
           /\ Msg(k, t, n).k = k /\ Msg(k, t, n).t = t /\ Msg(k, t, n).n = n
      /\ 0 \in Numbers /\ (rem[t].sent < MaxData => rem[t].sent + 1 \in Numbers)
  <2>1. rem[t].sent \in Numbers
    BY <1>x DEF Remotes
  <2>2. \A k \in {"ok", "err", "data", "close"}, n \in Numbers :
           /\ Msg(k, t, n) \in Frames({"ok", "err", "data", "close", "register"})
           /\ Msg(k, t, n).k = k /\ Msg(k, t, n).t = t /\ Msg(k, t, n).n = n
    BY DEF Msg, Frames
  <2>3. 0 \in Numbers /\ (rem[t].sent < MaxData => rem[t].sent + 1 \in Numbers)
    BY <2>1, NumberTypes DEF Numbers
  <2> QED
    BY <2>2, <2>3
<1>r. /\ LocalTakes(x)' <=> LocalTakes(x)
      /\ PassesOut(x)' <=> PassesOut(x)
      /\ PassesBack(x)' <=> PassesBack(x)
      /\ RidesOut(x)' <=> RidesOut(x)
  BY <1>u DEF LocalTakes, PassesOut, PassesBack, RidesOut
<1>1. CASE t # x
  <2>1. rem'[x] = rem[x]
    BY <1>t, <1>1 DEF DaemonDials, DaemonStores, RemotePipes, PeerLeaves, RemoteEnds, RemOK
  <2>2. Still(d2r, d2r', x)
    <3>1. \A k \in {"ok", "err", "data", "close"}, n \in Numbers :
            FromDaemon(<<Msg(k, t, n)>>) => Still(d2r, d2r', x)
      BY <1>1, <1>i, <1>m, Written
    <3> QED
      BY <1>m, <1>s, <3>1 DEF DaemonDials, DaemonStores, RemotePipes, PeerLeaves, RemoteEnds
  <2> QED
    BY <1>i, <1>s, <1>u, <2>1, <2>2, OtherKept
\* Steps at x that write no piece.
<1>2. ASSUME rem'[x].sent = rem[x].sent, rem'[x].got = rem[x].got, Opened(x)',
             RemoteTakes(x)' => RemoteTakes(x), Quiet(d2r, d2r', x)
      PROVE  TunnelInv(x)'
  BY <1>2, <1>i, <1>r, <1>s, <1>u, TunnelKept DEF Still
<1>3. CASE t = x /\ DaemonDials(t)
  <2>1. /\ rem'[x].sent = rem[x].sent /\ rem'[x].got = rem[x].got /\ rem[x].st = "dialing"
        /\ \/ rem'[x].st = "opened" /\ FromDaemon(<<Msg("ok", x, 0)>>)
           \/ rem'[x].st = "done" /\ FromDaemon(<<Msg("err", x, 0)>>)
    BY <1>3, <1>t, <1>x DEF DaemonDials, RemOK, Remotes
  <2>2. Quiet(d2r, d2r', x) /\ (Has(d2r', "open", x) <=> Has(d2r, "open", x))
    <3>1. PICK k \in {"ok", "err"} : FromDaemon(<<Msg(k, x, 0)>>)
      BY <2>1
    <3> DEFINE f == Msg(k, x, 0)
    <3>2. f \in Frames({"ok", "err", "data", "close", "register"}) /\ f.k = k /\ f.t = x
      BY <1>3, <1>m
    <3>3. f.k # "data" /\ f.k # "open"
      BY <3>1, <3>2
    <3>4. d2r' = IF dm.up THEN Append(d2r, f) ELSE d2r
      BY <1>i, <3>1, <3>2, Written DEF FromDaemon
    <3> HIDE DEF f
    <3>5. /\ Nums(Append(d2r, f), x) = Nums(d2r, x)
          /\ \A j : Has(Append(d2r, f), j, x) <=> Has(d2r, j, x) \/ (f.k = j /\ f.t = x)
          /\ Tidy(Append(d2r, f), x)
      BY <1>i, <1>t, <3>2, <3>3, AppendFrame DEF QueuesOK, Queued
    <3> QED
      BY <1>s, <3>3, <3>4, <3>5 DEF Still, Quiet
  <2>3. Opened(x)'
    BY <1>i, <1>s, <1>u, <2>1, <2>2 DEF Opened, Still, Alike
  <2>4. RemoteTakes(x)
    BY <2>1 DEF RemoteTakes
  <2> QED
    BY <1>2, <2>1, <2>2, <2>3, <2>4
<1>4. CASE t = x /\ (DaemonStores(t) \/ PeerLeaves(t))
  <2>1. /\ rem'[x].sent = rem[x].sent /\ rem'[x].got = rem[x].got /\ d2r' = d2r
        /\ \/ rem'[x].st = "reading" /\ rem[x].st = "opened"
           \/ rem'[x].st = rem[x].st /\ rem'[x].active = rem[x].active
    BY <1>4, <1>t, <1>x DEF DaemonStores, PeerLeaves, RemOK, Remotes
  <2>2. Opened(x)'
    BY <1>i, <1>s, <1>u, <2>1 DEF Opened, Still, Alike
  <2>3. RemoteTakes(x)' => RemoteTakes(x)
    BY <2>1 DEF RemoteTakes
  <2> QED
    BY <1>2, <1>s, <2>1, <2>2, <2>3 DEF Still
<1>5. CASE t = x /\ RemoteEnds(t)
  <2>1. /\ rem'[x].sent = rem[x].sent /\ rem'[x].got = rem[x].got /\ rem'[x].st = "done"
        /\ ~rem'[x].active /\ rem[x].st = "reading"
    BY <1>5, <1>t, <1>x DEF RemoteEnds, CloseRemote, RemOK, Remotes
  <2>2. Still(d2r, d2r', x)
    BY <1>5, <1>i, <1>m, Written DEF RemoteEnds
  <2>3. Opened(x)'
    BY <1>i, <1>s, <1>u, <2>1, <2>2 DEF Opened, Still, Alike
  <2>4. ~RemoteTakes(x)'
    BY <2>1 DEF RemoteTakes
  <2> QED
    BY <1>2, <2>1, <2>2, <2>3, <2>4 DEF Still
<1>6. CASE t = x /\ RemotePipes(t)
  <2>1. /\ rem[x].st = "reading" /\ rem'[x].st = "reading" /\ rem'[x].sent = rem[x].sent + 1
        /\ rem'[x].got = rem[x].got /\ rem'[x].active = rem[x].active
        /\ FromDaemon(<<Msg("data", x, rem[x].sent + 1)>>) /\ rem[x].sent < MaxData
    BY <1>6, <1>t, <1>x DEF RemotePipes, RemOK, Remotes
  <2> DEFINE got == loc[x].got
             A == Nums(r2c, x)
             B == Nums(d2r, x)
             sent == rem[x].sent
             f == Msg("data", x, sent + 1)
  <2>2. /\ got \in Seq(Nat) /\ A \in SUBSET Nat /\ B \in SUBSET Nat /\ sent \in Nat
        /\ Flow(got, A, B, sent)
    BY <1>i, TunnelTyped DEF TunnelInv, Back
  <2>3. why[x] \cap {"early", "relink"} = {} =>
          Unbroken(got, A, B, sent, LocalTakes(x), PassesBack(x), TRUE)
    BY <1>i DEF TunnelInv, Back
  <2>4. /\ f \in Frames({"ok", "err", "data", "close", "register"}) /\ f.k = "data" /\ f.t = x
        /\ f.n = sent + 1
    BY <1>6, <1>m, <2>1
  <2>5. d2r' = IF dm.up THEN Append(d2r, f) ELSE d2r
    BY <1>i, <2>1, <2>4, Written DEF FromDaemon
  <2> HIDE DEF got, A, B, sent, f
  <2>6. /\ Flow(got, A, B \cup {sent + 1}, sent + 1)
        /\ Flow(got, A, B, sent + 1)
        /\ \A n \in B : n < sent + 1
        /\ \A takes, passes, rides \in BOOLEAN :
             Unbroken(got, A, B, sent, takes, passes, rides) /\ rides =>
               Unbroken(got, A, B \cup {sent + 1}, sent + 1, takes, passes, rides)
    BY <2>2, FlowSend
  <2>7. /\ Nums(d2r', x) = IF dm.up THEN B \cup {sent + 1} ELSE B
        /\ Tidy(d2r', x) /\ Alike(d2r, d2r', x)
    <3>1. /\ Nums(Append(d2r, f), x) = Nums(d2r, x) \cup {f.n}
          /\ Tidy(Append(d2r, f), x) /\ Alike(d2r, Append(d2r, f), x)
      <4>1. d2r \in Seq(Frames({"ok", "err", "data", "close", "register"})) /\ Tidy(d2r, x)
        BY <1>i, <1>t DEF QueuesOK, Queued
      <4>2. \A n \in Nums(d2r, x) : n < f.n
        BY <2>4, <2>6 DEF B
      <4> QED
        BY <2>4, <4>1, <4>2, DataAppended, SMTT(30)
    <3> QED
      BY <1>s, <2>4, <2>5, <3>1 DEF Still, Quiet, B
  <2>8. Opened(x)'
    BY <1>i, <1>s, <1>u, <2>1, <2>7 DEF Opened, Still, Alike
  <2>9. Queued(x)'
    BY <1>s, <2>7 DEF Queued, Still, Quiet
  <2>10. RemoteTakes(x)' <=> RemoteTakes(x)
    BY <2>1 DEF RemoteTakes
  <2>11. Outward(x)'
    BY <1>i, <1>r, <1>s, <1>u, <2>1, <2>10 DEF TunnelInv, Outward, Unbroken, Still, Quiet
  <2>b. LocalTakes(x) \in BOOLEAN /\ PassesBack(x) \in BOOLEAN /\ TRUE \in BOOLEAN
    BY TunnelTyped
  <2>12. Back(x)'
    <3>1. CASE dm.up
      <4>1. why[x] \cap {"early", "relink"} = {} =>
              Unbroken(got, A, B \cup {sent + 1}, sent + 1, LocalTakes(x), PassesBack(x), TRUE)
        BY <2>3, <2>6, <2>b
      <4> QED
        BY <1>r, <1>u, <2>1, <2>6, <2>7, <3>1, <4>1 DEF Back, Unbroken, got, A, sent
    <3>2. CASE ~dm.up
      <4>1. "relink" \in why'[x]
        BY <1>i, <1>u, <2>1, <3>2 DEF Opened
      <4>2. Flow(loc'[x].got, Nums(r2c', x), Nums(d2r', x), rem'[x].sent)
        BY <1>u, <2>1, <2>6, <2>7, <3>2 DEF got, A, sent
      <4> QED
        BY <4>1, <4>2 DEF Back
    <3> QED
      BY <3>1, <3>2
  <2> QED
    BY <2>8, <2>9, <2>11, <2>12 DEF TunnelInv
<1> QED
  BY <1>1, <1>3, <1>4, <1>5, <1>6

---------------------------------------------------------------------------
(***************************************************************************)
(* Theorems                                                                *)
(***************************************************************************)

\* Every step keeps every tunnel in order.
LEMMA StepTunnels ==
  ASSUME TypeOK, TypeOK', StreamInv, [Next]_vars, NEW x \in Tunnels
  PROVE  TunnelInv(x)'
<1>1. CASE ClientReads
  BY <1>1, ClientReadsSteps
<1>2. CASE ClientDrops \/ ClientRedials \/ ClientLinkBreaks
  BY <1>2, ClientLinkSteps
<1>3. CASE RelayLooksUp \/ RelayForwardsOpen
  BY <1>3, RelayOpenSteps
<1>4. CASE RelayFromClient
  BY <1>4, RelayOutSteps
<1>5. CASE RelayFromDaemon
  BY <1>5, RelayBackSteps
<1>6. CASE RelayRegisters \/ \E l \in Links : RelayUnregisters(l)
  BY <1>6, RegistrySteps
<1>7. CASE DaemonReads
  BY <1>7, DaemonReadsSteps
<1>8. CASE DaemonRedials \/ DaemonLinkBreaks
  BY <1>8, DaemonLinkSteps
<1>9. ASSUME NEW t \in Tunnels,
             \/ LocalOpens(t) \/ LocalRefused(t) \/ LocalAnswered(t) \/ LocalGivesUp(t)
             \/ LocalStores(t) \/ LocalPipes(t) \/ LocalEnds(t)
      PROVE  TunnelInv(x)'
  BY <1>9, LocalSteps
<1>10. ASSUME NEW t \in Tunnels,
              DaemonDials(t) \/ DaemonStores(t) \/ RemotePipes(t) \/ PeerLeaves(t) \/ RemoteEnds(t)
       PROVE  TunnelInv(x)'
  BY <1>10, RemoteSteps
<1>11. CASE UNCHANGED vars
  <2>1. TunnelInv(x) /\ Queued(x)
    BY DEF StreamInv, TunnelInv
  <2>2. Still(c2r, c2r', x) /\ Still(r2c, r2c', x) /\ Still(r2d, r2d', x) /\ Still(d2r, d2r', x)
    BY <1>11, <2>1, Written DEF vars
  <2> QED
    BY <1>11, <2>1, <2>2, OtherKept DEF vars
<1> QED
  BY <1>1, <1>2, <1>3, <1>4, <1>5, <1>6, <1>7, <1>8, <1>9, <1>10, <1>11 DEF Next, Works, Proceeds

LEMMA StreamsInductive == Spec => [](TypeOK /\ StreamInv)
<1>1. Init => TypeOK /\ StreamInv
  BY InitStreams
<1>2. TypeOK /\ StreamInv /\ [Next]_vars => TypeOK' /\ StreamInv'
  <2> SUFFICES ASSUME TypeOK, StreamInv, [Next]_vars PROVE TypeOK' /\ StreamInv'
    OBVIOUS
  <2>1. TypeOK'
    BY StepTypes
  <2>2. LinkInv'
    BY StepLinks
  <2>3. \A x \in Tunnels : TunnelInv(x)'
    BY <2>1, StepTunnels
  <2> QED
    BY <2>1, <2>2, <2>3 DEF StreamInv
<1> QED
  BY <1>1, <1>2, PTL DEF Spec

\* The records of the client, the relay and the daemon stay what they are,
\* and a socket that is in one of the two maps of active tunnels is open.
THEOREM TunnelTypes == Spec => []TypeOK
  BY StreamsInductive, PTL

\* Neither stream of a tunnel has a hole in it: what either end reads is what
\* the other end wrote, in order, without a piece missing in the middle, for
\* any number of tunnels, pieces, breaks and redials.
THEOREM StreamsAreWhole == Spec => []StreamsWhole
<1>1. StreamInv => StreamsWhole
  BY DEF StreamInv, TunnelInv, Outward, Back, Flow, Unbroken, StreamsWhole
<1> QED
  BY <1>1, StreamsInductive, PTL
=============================================================================
