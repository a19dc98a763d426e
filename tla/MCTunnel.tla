------------------------------ MODULE MCTunnel ------------------------------
(* Small instances of Tunnel for TLC. *)
EXTENDS Tunnel

\* Each failure alone, the two ends losing the relay, and all at once.
Some == {{}, {"client link"}, {"daemon link"}, {"timeout", "dial"}, Failures}
=============================================================================
