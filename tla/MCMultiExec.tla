---------------------------- MODULE MCMultiExec ----------------------------
(* Small batches of MultiExec for TLC. *)
EXTENDS MultiExec

\* Both callers address both targets; "m2" has no valid token for "b".
BothTargets == [m \in Callers |-> <<"a", "b">>]
TokensButOne == [m \in Callers |-> IF m = "m2" THEN {"a"} ELSE {"a", "b"}]

\* "m2" names one target twice: two aliases for one relay name.
TwiceTheSame == [m \in Callers |-> IF m = "m2" THEN <<"a", "b", "a">> ELSE <<"a", "b">>]
=============================================================================
