---------------------------- MODULE ExecService ----------------------------
(***************************************************************************)
(* What remotecmd promises the caller of `execute', without the relay:     *)
(* a request is made once, it runs at most once and only where its caller  *)
(* is entitled, and it is answered at most once.  "output" is the output   *)
(* of its own run; "refused" means it has not run and never will, so that  *)
(* the caller may safely try again; after "lost" (a timeout, a broken      *)
(* connection) the caller does not know, and the run may still come.       *)
(***************************************************************************)
CONSTANTS
  Requests,
  Workers,
  May        \* [Requests -> SUBSET Workers] where a request may run

VARIABLES
  asked,   \* [Requests -> BOOLEAN]
  ran,     \* [Requests -> SUBSET Workers] the executions of the request
  reply,   \* [Requests -> Replies]
  output   \* [Requests -> SUBSET Workers] the executions whose output it is

svars == <<asked, ran, reply, output>>

Init ==
  /\ asked = [r \in Requests |-> FALSE]
  /\ ran = [r \in Requests |-> {}]
  /\ reply = [r \in Requests |-> "none"]
  /\ output = [r \in Requests |-> {}]

Ask(r) ==
  /\ ~asked[r]
  /\ asked' = [asked EXCEPT ![r] = TRUE]
  /\ UNCHANGED <<ran, reply, output>>

Run(r) ==
  /\ asked[r]
  /\ ran[r] = {}
  /\ reply[r] # "refused"
  /\ \E w \in May[r] : ran' = [ran EXCEPT ![r] = {w}]
  /\ UNCHANGED <<asked, reply, output>>

Reply(r, a) ==
  /\ asked[r]
  /\ reply[r] = "none"
  /\ a = "output" => ran[r] # {}
  /\ a = "refused" => ran[r] = {}
  /\ reply' = [reply EXCEPT ![r] = a]
  /\ output' = [output EXCEPT ![r] = IF a = "output" THEN ran[r] ELSE {}]
  /\ UNCHANGED <<asked, ran>>

Next ==
  \E r \in Requests :
    \/ Ask(r) \/ Run(r)
    \/ \E a \in {"output", "confirmed", "refused", "lost"} : Reply(r, a)

Spec == Init /\ [][Next]_svars
=============================================================================
