----------------------------- MODULE Equivalence -----------------------------
(***************************************************************************)
(* Checking one equivalence hop of a proof: verify, verify_parallel and    *)
(* verify_oracle (src/src/gamehops/equivalence/verify_fn.rs) with the      *)
(* parts of EquivalenceContext they call.                                  *)
(*                                                                         *)
(* verify runs one job that checks every requested oracle in one prover    *)
(* session; verify_parallel runs one job per oracle on a rayon pool, each  *)
(* with a session of its own.  A session is the service of ProverService:  *)
(* its log, replayed, is the assertion stack modelled here, and a verdict  *)
(* speaks about that whole stack.                                          *)
(***************************************************************************)
EXTENDS Integers, Sequences, FiniteSets

CONSTANTS
  Exports,       \* names of the left game's exported oracles, in order
  RightExports,  \* names of the right game's exported oracles
  ReqOracle,     \* the --oracle argument, or AllOracles
  AllOracles,
  Parallel,      \* the --parallel argument
  Trees,         \* [oracle -> sequence of [name, deps]], the claims of the proof file
  InvFiles,      \* [oracle -> sequence of invariant files]
  FileNames,     \* the invariant files of the project
  Contradictory, \* those whose assertions cannot be satisfied
  Worlds,        \* pairs of executions of an oracle that start in related states
  Truth,         \* [oracle -> [claim -> worlds where it holds]]
  InvariantNames,\* claim names that begin with "invariant"
  SessionsBreak  \* whether a prover session may break down

\* The oracles to check, and the jobs they are checked in.  The names are
\* distinct, so that a requested name selects at most one export.
OracleSequence ==
  IF ReqOracle = AllOracles THEN Exports
  ELSE IF \E i \in 1 .. Len(Exports) : Exports[i] = ReqOracle THEN <<ReqOracle>>
  ELSE <<>>
IsParallel == Parallel > 1
JobList ==
  IF IsParallel THEN [i \in 1 .. Len(OracleSequence) |-> <<OracleSequence[i]>>]
                ELSE <<OracleSequence>>
Jobs == 1 .. Len(JobList)
Threads == IF IsParallel THEN Parallel + 1 ELSE 1

\* proof_tree_by_oracle_name and invariants_by_oracle_name.
Claims(o) == Trees[o]
Files(o) == IF o \in DOMAIN InvFiles THEN InvFiles[o] ELSE <<>>

ASSUME EquivalenceAssumption ==
  /\ Exports \in Seq(DOMAIN Truth)
  /\ \A i, k \in 1 .. Len(Exports) : Exports[i] = Exports[k] => i = k
  /\ AllOracles \notin DOMAIN Truth
  /\ Parallel \in Nat
  /\ DOMAIN Trees \subseteq DOMAIN Truth
  /\ \A o \in DOMAIN Trees :
       Trees[o] \in Seq([name : DOMAIN Truth[o], deps : SUBSET DOMAIN Truth[o]])
  /\ \A o \in DOMAIN InvFiles : InvFiles[o] \in Seq(FileNames)
  /\ Worlds # {}
  /\ \A o \in DOMAIN Truth : Truth[o] \in [DOMAIN Truth[o] -> SUBSET Worlds]
  /\ SessionsBreak \in BOOLEAN

VARIABLES
  state,     \* [Jobs -> JobStates]
  pos,       \* [Jobs -> index of the oracle in the job's list]
  next,      \* [Jobs -> index of the invariant file or claim]
  stack,     \* [Jobs -> the prover's assertion stack: a sequence of sets of items]
  error,     \* [Jobs -> the error verify_oracle returned]
  reported,  \* jobs whose error was printed
  lemmaBar,  \* [oracles -> position of the oracle's progress bar]
  stepBar,   \* position of the proof step's progress bar
  result,    \* what verify or verify_parallel returned
  failures   \* the count in ParallelEquivalenceError

jobVars == <<state, pos, next, stack, error, reported>>
barVars == <<lemmaBar, stepBar>>
vars == <<jobVars, barVars, result, failures>>

\* A job that hangs is still running, and keeps its thread.
Working == {"open", "files", "claims", "asked"}
Running == Working \cup {"hung"}
JobStates == {"queued", "ok", "failed", "panicked"} \cup Running
Errors == {"none", "UnsatAfterInvariantRead", "InvariantFileReadError",
           "ClaimProofFailed", "ProverProcessError"}
Oracles == {OracleSequence[i] : i \in 1 .. Len(OracleSequence)}

-----------------------------------------------------------------------------
(* What the solver is told and what it can answer. *)

Base == [kind |-> "base"]
Helpers(o) == [kind |-> "helpers", oracle |-> o]
File(o, f) == [kind |-> "file", oracle |-> o, file |-> f]
\* emit_claim_assert: not (randomness mapping, invariant and dependencies => claim).
Refute(o, c) == [kind |-> "refute", oracle |-> o, claim |-> c]

\* variant: "(push 1)" is missing
TellAll(stk, items) == [stk EXCEPT ![Len(stk)] = @ \cup items]
Push(stk, items) == Append(stk, items)
\* variant: "(pop 1)" is missing
KeepLevel(stk) == stk
Pop(stk) == SubSeq(stk, 1, Len(stk) - 1)
\* A text written outside push and pop adds to the innermost level.
Tell(stk, item) == [stk EXCEPT ![Len(stk)] = @ \cup {item}]
Told(stk) == UNION {stk[i] : i \in 1 .. Len(stk)}

\* The worlds a refuted claim leaves: dependencies true, claim false.
Counterexamples(o, c) ==
  {w \in Worlds : (\A d \in c.deps : w \in Truth[o][d]) /\ w \notin Truth[o][c.name]}

Satisfiable(stk) ==
  /\ \A item \in Told(stk) : item.kind = "file" => item.file \notin Contradictory
  /\ \E w \in Worlds : \A item \in Told(stk) :
       item.kind = "refute" => w \in Counterexamples(item.oracle, item.claim)

\* A sound solver; it may give up on any query.
Verdict(stk) == {"unknown"} \cup IF Satisfiable(stk) THEN {"sat"} ELSE {"unsat"}

-----------------------------------------------------------------------------
Init ==
  /\ state = [j \in Jobs |-> "queued"]
  /\ pos = [j \in Jobs |-> 1] /\ next = [j \in Jobs |-> 1]
  /\ stack = [j \in Jobs |-> <<>>]
  /\ error = [j \in Jobs |-> "none"] /\ reported = {}
  /\ lemmaBar = [o \in Oracles |-> 0] /\ stepBar = 0
  /\ result = "none" /\ failures = 0

Oracle(j) == JobList[j][pos[j]]
RunningJobs == {j \in Jobs : state[j] \in Running}
Hung == {j \in Jobs : state[j] = "hung"}

\* verify_oracle returns an error: the session is dropped, and a parallel job
\* prints the error.
Fail(j, e) ==
  /\ state' = [state EXCEPT ![j] = "failed"]
  /\ error' = [error EXCEPT ![j] = e]
  /\ reported' = IF IsParallel THEN reported \cup {j} ELSE reported

Panic(j) ==
  /\ state' = [state EXCEPT ![j] = "panicked"]
  /\ UNCHANGED <<error, reported>>

Goto(j, s) == state' = [state EXCEPT ![j] = s] /\ UNCHANGED <<error, reported>>

-----------------------------------------------------------------------------
\* A thread of the pool takes a job: a session is started and given the base
\* declarations, the proof's parameters and the two games.
Begin(j) ==
  /\ result = "none" /\ state[j] = "queued" /\ Cardinality(RunningJobs) < Threads
  /\ Goto(j, "open")
  /\ stack' = [stack EXCEPT ![j] = <<{Base}>>]
  /\ UNCHANGED <<pos, next, barVars, result, failures>>

\* variant: an oracle with no proof tree has nothing to prove
SkipOracleWithoutTree(j) ==
  /\ state[j] = "open" /\ pos[j] <= Len(JobList[j])
  /\ next' = [next EXCEPT ![j] = 1]
  /\ IF Oracle(j) \in DOMAIN Trees
       THEN Goto(j, "files") /\ stack' = [stack EXCEPT ![j] = Push(@, {Helpers(Oracle(j))})]
                             /\ UNCHANGED pos
       ELSE Goto(j, "open") /\ pos' = [pos EXCEPT ![j] = @ + 1] /\ UNCHANGED stack
  /\ UNCHANGED <<barVars, result, failures>>

\* The next oracle: its claims are looked up, its progress bar starts, and its
\* helpers are declared on a new level.  An oracle with no proof tree, or one
\* the right game does not export, is a panic.
StartOracle(j) ==
  /\ state[j] = "open" /\ pos[j] <= Len(JobList[j])
  /\ IF Oracle(j) \in DOMAIN Trees /\ Oracle(j) \in RightExports
       THEN /\ stack' = [stack EXCEPT ![j] = Push(@, {Helpers(Oracle(j))})]
            /\ next' = [next EXCEPT ![j] = 1]
            /\ lemmaBar' = [lemmaBar EXCEPT ![Oracle(j)] = 0]
            /\ Goto(j, "files")
       ELSE Panic(j) /\ UNCHANGED <<stack, next, lemmaBar>>
  /\ UNCHANGED <<pos, stepBar, result, failures>>

\* variant: only unsat is an error
ReadInvariantNotUnsat(j) ==
  /\ state[j] = "files" /\ next[j] <= Len(Files(Oracle(j)))
  /\ stack' = [stack EXCEPT ![j] = Tell(@, File(Oracle(j), Files(Oracle(j))[next[j]]))]
  /\ \E v \in Verdict(stack'[j]) :
       IF v # "unsat"
         THEN Goto(j, "files") /\ next' = [next EXCEPT ![j] = @ + 1]
         ELSE Fail(j, "UnsatAfterInvariantRead") /\ UNCHANGED next
  /\ UNCHANGED <<pos, barVars, result, failures>>

\* emit_invariant: write one file, and go on only if the solver says sat.
ReadInvariant(j) ==
  /\ state[j] = "files" /\ next[j] <= Len(Files(Oracle(j)))
  /\ stack' = [stack EXCEPT ![j] = Tell(@, File(Oracle(j), Files(Oracle(j))[next[j]]))]
  /\ \E v \in Verdict(stack'[j]) :
       IF v = "sat"
         THEN Goto(j, "files") /\ next' = [next EXCEPT ![j] = @ + 1]
         ELSE Fail(j, "UnsatAfterInvariantRead") /\ UNCHANGED next
  /\ UNCHANGED <<pos, barVars, result, failures>>

InvariantsRead(j) ==
  /\ state[j] = "files" /\ next[j] > Len(Files(Oracle(j)))
  /\ Goto(j, "claims") /\ next' = [next EXCEPT ![j] = 1]
  /\ UNCHANGED <<pos, stack, barVars, result, failures>>

\* The next claim is refuted on a level of its own.  A dependency that is an
\* invariant is a panic (emit_claim_assert calls it unreachable).
AssertClaim(j) ==
  /\ state[j] = "claims" /\ next[j] <= Len(Claims(Oracle(j)))
  /\ LET c == Claims(Oracle(j))[next[j]] IN
     IF c.deps \cap InvariantNames = {}
       THEN /\ stack' = [stack EXCEPT ![j] = Push(@, {Refute(Oracle(j), c)})]
            /\ Goto(j, "asked")
       ELSE Panic(j) /\ UNCHANGED stack
  /\ UNCHANGED <<pos, next, barVars, result, failures>>

\* variant: only sat disproves a claim
ClaimVerdictNotSat(j) ==
  /\ state[j] = "asked"
  /\ \E v \in Verdict(stack[j]) :
       IF v # "sat"
         THEN /\ Goto(j, "claims")
              /\ stack' = [stack EXCEPT ![j] = Pop(@)]
              /\ next' = [next EXCEPT ![j] = @ + 1]
              /\ lemmaBar' = [lemmaBar EXCEPT ![Oracle(j)] = @ + 1]
         ELSE Fail(j, "ClaimProofFailed") /\ UNCHANGED <<stack, next, lemmaBar>>
  /\ UNCHANGED <<pos, stepBar, result, failures>>

\* Only unsat proves a claim.  Anything else ends the job after get_model.
ClaimVerdict(j) ==
  /\ state[j] = "asked"
  /\ \E v \in Verdict(stack[j]) :
       IF v = "unsat"
         THEN /\ Goto(j, "claims")
              /\ stack' = [stack EXCEPT ![j] = Pop(@)]
              /\ next' = [next EXCEPT ![j] = @ + 1]
              /\ lemmaBar' = [lemmaBar EXCEPT ![Oracle(j)] = @ + 1]
         ELSE Fail(j, "ClaimProofFailed") /\ UNCHANGED <<stack, next, lemmaBar>>
  /\ UNCHANGED <<pos, stepBar, result, failures>>

FinishOracle(j) ==
  /\ state[j] = "claims" /\ next[j] > Len(Claims(Oracle(j)))
  /\ stack' = [stack EXCEPT ![j] = Pop(@)]
  /\ stepBar' = stepBar + 1
  /\ pos' = [pos EXCEPT ![j] = @ + 1]
  /\ Goto(j, "open")
  /\ UNCHANGED <<next, lemmaBar, result, failures>>

JobDone(j) ==
  /\ state[j] = "open" /\ pos[j] > Len(JobList[j])
  /\ Goto(j, "ok")
  /\ UNCHANGED <<pos, next, stack, barVars, result, failures>>

\* The session breaks with an error: a write or check_sat returns it, except that
\* the writes of push, pop and invariant files unwrap it.  After the last oracle
\* nothing is written any more.
SessionBreaks(j) ==
  /\ SessionsBreak /\ state[j] \in Working
  /\ pos[j] <= Len(JobList[j]) \/ JobList[j] = <<>>
  /\ \/ Fail(j, "ProverProcessError")
     \/ Panic(j)
     \/ state[j] = "files" /\ Fail(j, "InvariantFileReadError")
  /\ UNCHANGED <<pos, next, stack, barVars, result, failures>>

\* check_sat waits for a verdict that never comes: the solver has died or prints
\* something else, and read_until_pred reads on for ever (SpinRead of ProverSession).
SessionHangs(j) ==
  /\ SessionsBreak
  /\ \/ state[j] = "asked"
     \/ state[j] = "files" /\ next[j] <= Len(Files(Oracle(j)))
  /\ Goto(j, "hung")
  /\ UNCHANGED <<pos, next, stack, barVars, result, failures>>

-----------------------------------------------------------------------------
Failed == {j \in Jobs : state[j] = "failed"}

\* variant: the first failure is returned at once
ReturnFirstFailure ==
  /\ result = "none"
  /\ Failed # {} \/ \A j \in Jobs : state[j] = "ok"
  /\ result' = IF Failed = {} THEN "ok" ELSE "err"
  /\ failures' = IF IsParallel THEN Cardinality(Failed) ELSE 0
  /\ UNCHANGED <<jobVars, barVars>>

\* All jobs are over: verify returns its job's result, verify_parallel counts
\* the failures.
Return ==
  /\ result = "none" /\ \A j \in Jobs : state[j] \in {"ok", "failed"}
  /\ result' = IF Failed = {} THEN "ok" ELSE "err"
  /\ failures' = IF IsParallel THEN Cardinality(Failed) ELSE 0
  /\ UNCHANGED <<jobVars, barVars>>


\* A panic in one job ends the call when the running jobs are over.
Unwind ==
  /\ result = "none" /\ RunningJobs = {} /\ \E j \in Jobs : state[j] = "panicked"
  /\ result' = "panic"
  /\ UNCHANGED <<jobVars, barVars, failures>>

JobStep(j) ==
  \/ Begin(j) \/ StartOracle(j) \/ ReadInvariant(j) \/ InvariantsRead(j)
  \/ AssertClaim(j) \/ ClaimVerdict(j) \/ FinishOracle(j) \/ JobDone(j)

\* Jobs hang, and there is nothing left that the other threads could do.
HangsForEver ==
  /\ result = "none" /\ Hung # {}
  /\ \/ Cardinality(Hung) = Threads
     \/ \A j \in Jobs : state[j] \in {"ok", "failed", "panicked", "hung"}

Over == (result # "none" \/ HangsForEver) /\ UNCHANGED vars

Next ==
  \/ \E j \in Jobs : JobStep(j) \/ SessionBreaks(j) \/ SessionHangs(j)
  \/ Return \/ Unwind \/ Over

\* The threads of the pool run.  A query that gets no verdict ends in SessionBreaks
\* or SessionHangs, which nothing forces to happen: fairness asks for a verdict
\* only while neither has happened, and for nothing of a job that hangs.
Fairness ==
  /\ \A j \in Jobs : WF_vars(JobStep(j))
  /\ WF_vars(Return) /\ WF_vars(Unwind)

Spec == Init /\ [][Next]_vars /\ Fairness
-----------------------------------------------------------------------------
(* Properties. *)

TypeOK ==
  /\ state \in [Jobs -> JobStates]
  /\ pos \in [Jobs -> Nat] /\ next \in [Jobs -> Nat]
  /\ \A j \in Jobs : pos[j] \in 1 .. Len(JobList[j]) + 1
  /\ error \in [Jobs -> Errors] /\ reported \subseteq Jobs
  /\ lemmaBar \in [Oracles -> Nat] /\ stepBar \in Nat
  /\ result \in {"none", "ok", "err", "panic"} /\ failures \in Nat

\* An oracle is verified when no world refutes any of its claims and no file
\* of its invariant is contradictory.
Verified(o) ==
  /\ \A k \in 1 .. Len(Claims(o)) : Counterexamples(o, Claims(o)[k]) = {}
  /\ \A k \in 1 .. Len(Files(o)) : Files(o)[k] \notin Contradictory

\* verify and verify_parallel return Ok only if every requested oracle is
\* verified: no claim is proved by what an earlier claim or a contradictory
\* invariant left on the prover's stack, and no oracle is skipped.
Soundness ==
  result = "ok" =>
    \A o \in Oracles : o \in DOMAIN Trees /\ o \in RightExports /\ Verified(o)

\* A claim is put to the solver in exactly the context the proof file gives
\* it: the base, its own oracle's helpers and all its invariant files, and the
\* claim itself, whatever was checked before in the same session.
ClaimContext ==
  \A j \in Jobs : state[j] = "asked" =>
    LET o == Oracle(j) IN
    Told(stack[j]) = {Base, Helpers(o), Refute(o, Claims(o)[next[j]])}
                       \cup {File(o, Files(o)[k]) : k \in 1 .. Len(Files(o))}

\* The claims of an oracle hold in every world once it is verified, provided
\* the proof file lists each claim after the claims it depends on.
ListedAfterItsDependencies(o) ==
  \A k \in 1 .. Len(Claims(o)) : \A d \in Claims(o)[k].deps :
    \E i \in 1 .. k - 1 : Claims(o)[i].name = d
ClaimsHold(o) == \A k \in 1 .. Len(Claims(o)) : Truth[o][Claims(o)[k].name] = Worlds
OrderedTreesAreSound ==
  result = "ok" =>
    \A o \in Oracles : ListedAfterItsDependencies(o) => ClaimsHold(o)

\* verify_parallel attempts every oracle before it returns, and its error count
\* and the printed errors are those of the oracles that failed.
EveryFailureReported ==
  IsParallel /\ result \in {"ok", "err"} =>
    /\ \A j \in Jobs : state[j] \in {"ok", "failed"}
    /\ reported = Failed /\ failures = Cardinality(reported)


\* The README on what has to be checked by hand: two properties only, neither
\* of them about the claims of the proof file.  Claims may depend on each
\* other in a circle, and on claims that are never checked.
AcceptedClaimsHold == result = "ok" => \A o \in Oracles : ClaimsHold(o)

-----------------------------------------------------------------------------
(* The hop as Project::prove sees it. *)

Passed(o) == \E j \in Jobs : \E i \in 1 .. pos[j] - 1 : JobList[j][i] = o
FailedAt(o) ==
  \E j \in Jobs : state[j] = "failed" /\ pos[j] <= Len(JobList[j]) /\ Oracle(j) = o

Goal == INSTANCE EquivalenceGoal WITH
  Holding <- {o \in Oracles \cap DOMAIN Trees : o \in RightExports /\ Verified(o)},
  status <- [o \in Oracles |->
               IF Passed(o) THEN "proved" ELSE IF FailedAt(o) THEN "failed" ELSE "open"],
  answer <- result

\* Both ways of running the jobs implement EquivalenceGoal.
ImplementsGoal == Goal!GoalSpec
=============================================================================
