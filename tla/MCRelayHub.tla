----------------------------- MODULE MCRelayHub -----------------------------
(* Small deployments of RelayHub for TLC. *)
EXTENDS RelayHub

\* One name, one token, and clients configured for them.
OneName == [d \in Daemons |-> "web1"]
OneToken == [d \in Daemons |-> "tok"]
EveryoneWants == [cl \in Clients |-> "web1"]
HoldsToken == [cl \in Clients |-> "tok"]

\* Daemon "d3" was started with another token, which no client holds.
ThirdDiffers == [d \in Daemons |-> IF d = "d3" THEN "old" ELSE "tok"]
\* "d1" and "d3" serve the exempt name, "d2" another.
NameEach == [d \in Daemons |-> IF d = "d2" THEN "web2" ELSE "web1"]
==============================================================================
