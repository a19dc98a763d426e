----------------------------- MODULE MCPairing ------------------------------
(* Two daemons, two listeners, one command that changes the keys.            *)
EXTENDS Pairing, TLC

CONSTANTS l1, l2, d1, d2, c1, c2, k1, k2, x1

Try(c, k) == [code |-> c, key |-> k]
Nobody == [l \in Listeners |-> None]
Plain == [listen |-> [Nobody EXCEPT ![l1] = c1], need |-> {}, accept |-> [d \in Daemons |-> <<>>],
          keys |-> {}, cli |-> [x \in Clis |-> <<"none", k1>>],
          bare |-> FALSE, unread |-> FALSE,
          before |-> {}, quits |-> FALSE, drop |-> FALSE, day |-> FALSE]

\* Two daemons with the code of one listener.
Rivals == {[Plain EXCEPT !.accept = (d1 :> <<Try(c1, None)>> @@ d2 :> <<Try(c1, None)>>), !.drop = dr] :
             dr \in BOOLEAN}

\* Two codes are left with one daemon, one after the other.
Changes == {[Plain EXCEPT !.listen = (l1 :> c1 @@ l2 :> c2), !.quits = q, !.drop = ~q,
                          !.accept[d1] = <<Try(c1, None), Try(c2, None)>>] : q \in BOOLEAN}

\* The listener requires a key: one daemon has it, the other one has none or
\* has one that is being added.
Keyed == {[Plain EXCEPT !.need = {l1}, !.keys = {k1}, !.cli[x1] = <<"add", k2>>,
                        !.accept = (d1 :> <<Try(c1, k1)>> @@ d2 :> <<Try(c1, k)>>)] : k \in {None, k2}}

\* Two listeners, each with a daemon; the key of both is being removed.
Removed == {[Plain EXCEPT !.need = {l1, l2}, !.keys = {k1}, !.listen = (l1 :> c1 @@ l2 :> c2),
                          !.cli[x1] = <<"remove", k1>>, !.before = Daemons,
                          !.accept = (d1 :> <<Try(c1, k1)>> @@ d2 :> <<Try(c2, k1)>>)]}

\* The same while the key file cannot always be read.
Unreadable == {[s EXCEPT !.unread = TRUE] : s \in Removed}

\* The same two pairs, and the first key that is ever added.
First == {[s EXCEPT !.keys = {}, !.bare = TRUE, !.cli[x1] = <<"add", k1>>] : s \in Removed}

\* The listener starts again under the same code; the key is first mistyped.
Again == {[Plain EXCEPT !.need = {l1}, !.keys = {k1}, !.listen = (l1 :> c1 @@ l2 :> c1),
                        !.accept[d1] = <<Try(c1, k2), Try(c1, k1)>>, !.drop = TRUE]}

\* A day passes.
Late == {[Plain EXCEPT !.accept[d1] = <<Try(c1, None), Try(c2, None)>>, !.day = TRUE, !.drop = dr] :
             dr \in BOOLEAN}

All == Rivals \cup Changes \cup Keyed \cup Removed \cup Unreadable \cup First \cup Again \cup Late
=============================================================================
