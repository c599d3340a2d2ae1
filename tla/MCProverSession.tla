-------------------------- MODULE MCProverSession --------------------------
(* Instances of ProverSession for TLC. *)
EXTENDS ProverSession

AllFaults == {"crash", "reject", "disk"}
=============================================================================
