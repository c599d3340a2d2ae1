--------------------------- MODULE ProverService ---------------------------
(***************************************************************************)
(* What prover_process::Communicator promises to the code that verifies an *)
(* equivalence: a log of SMT-LIB texts that only grows, and verdicts that  *)
(* each speak about the whole log written so far.  A session may be given  *)
(* up at any time (a write error, a prover error, the caller returning).   *)
(* ProverSession, the threads-and-pipes model, implements this module.     *)
(***************************************************************************)
EXTENDS Integers, Sequences

VARIABLES
  log,      \* texts accepted by write_str, oldest first
  phase,    \* "ready", "asked" (in check_sat), "modelling" (in get_model), "ended"
  results   \* one [at, verdict] per check_sat that returned a verdict

serviceVars == <<log, phase, results>>

Verdicts == {"sat", "unsat", "unknown"}
Texts == {"smt", "check-sat", "get-model"}

ServiceInit == log = <<>> /\ phase = "ready" /\ results = <<>>

\* A text is accepted; check_sat and get_model then wait for the prover.
Accept(m) ==
  /\ phase = "ready"
  /\ log' = Append(log, m)
  /\ phase' = IF m = "check-sat" THEN "asked"
              ELSE IF m = "get-model" THEN "modelling" ELSE "ready"
  /\ UNCHANGED results

\* The verdict is about every text of the log, not about a prefix of it.
Answer(v) ==
  /\ phase = "asked"
  /\ results' = Append(results, [at |-> Len(log), verdict |-> v])
  /\ phase' = "ready"
  /\ UNCHANGED log

End == phase # "ended" /\ phase' = "ended" /\ UNCHANGED <<log, results>>

ServiceNext == (\E m \in Texts : Accept(m)) \/ (\E v \in Verdicts : Answer(v)) \/ End

ServiceSpec == ServiceInit /\ [][ServiceNext]_serviceVars
=============================================================================
