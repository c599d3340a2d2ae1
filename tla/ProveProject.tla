---------------------------- MODULE ProveProject ----------------------------
(***************************************************************************)
(* Project::prove (src/src/project/mod.rs): the loop over the proofs of a  *)
(* project and their game hops, with the progress bars of                  *)
(* IndicatifProofUI (src/src/ui/indicatif.rs).                             *)
(*                                                                         *)
(* One thread runs the loop; inside an equivalence the oracles are checked *)
(* by the jobs of Equivalence, which move the bars under a lock.  Here an  *)
(* oracle is only started, passed or failed.                               *)
(***************************************************************************)
EXTENDS Integers, Sequences, FiniteSets

CONSTANTS
  ProofKeys,   \* the names of the project's proofs, sorted
  GameHops,    \* [proof name -> sequence of [kind, left, right, exports, holding]]
  NoReq,       \* an option that is not given
  ReqProofs, ReqSteps, ReqOracles,  \* values of --proof, --proofstep, --oracle
  Parallels    \* values of --parallel

Kinds == {"reduction", "conjecture", "equivalence"}
Proofs == {ProofKeys[k] : k \in 1 .. Len(ProofKeys)}

ASSUME ProjectAssumption ==
  /\ ProofKeys \in Seq(DOMAIN GameHops)
  /\ \A i, k \in 1 .. Len(ProofKeys) : ProofKeys[i] = ProofKeys[k] => i = k
  /\ \A n \in DOMAIN GameHops : Len(GameHops[n]) \in Nat
  /\ \A n \in DOMAIN GameHops : \A k \in 1 .. Len(GameHops[n]) :
       GameHops[n][k].kind \in Kinds /\ IsFiniteSet(GameHops[n][k].exports)
  /\ ReqSteps \subseteq Nat \cup {NoReq} /\ Parallels \subseteq Nat

VARIABLES
  req,         \* the command line: [proof, step, oracle, parallel]
  phase,       \* where the loop is, see Phases
  at, hop,     \* indices of the proof and of the game hop
  running, passed, failed,  \* oracles of the equivalence being checked
  hanging,     \* those running whose prover never answers
  checked,     \* the <<proof index, hop index>> of the equivalences accepted
  result,      \* what the command ended with
  projectBar,  \* position of the project's bar, which is shown for two proofs or more
  proofBars,   \* [proof name -> position]
  stepBars,    \* [<<proof name, hop name>> -> [pos, len]]
  oracleBars   \* the keys <<proof name, hop name, oracle>>

hopVars == <<running, passed, failed, hanging>>
vars == <<req, phase, at, hop, hopVars, checked, result,
          projectBar, proofBars, stepBars, oracleBars>>

Phases == {"main", "proofs", "hops", "hop", "verify", "done"}
Results == {"none", "ok", "err", "assert", "panic", "unreachable"}

Hops(k) == GameHops[ProofKeys[k]]
Hop == Hops(at)[hop]

\* The filters.  --proofstep counts from zero.
ProofRequested(k) == req.proof \in {NoReq, ProofKeys[k]}
StepFromOne(k) == req.step \in {NoReq, k}  \* variant: counted from one
StepRequested(k) == req.step \in {NoReq, k - 1}
RequestedOracles(h) == {o \in h.exports : req.oracle \in {NoReq, o}}
Threads == IF req.parallel > 1 THEN req.parallel + 1 ELSE 1

-----------------------------------------------------------------------------
(* The bars.  A bar is found by name, and a new bar replaces one of its name. *)

\* The name of a hop as Display shows it, and as verify builds it again.
HopName(h) == <<h.left, h.right, IF h.kind = "reduction" THEN "~=" ELSE "==">>
ProofstepName(h) == <<h.left, h.right, "==">>
StepKey == <<ProofKeys[at], HopName(Hop)>>
VerifyKey == <<ProofKeys[at], ProofstepName(Hop)>>

SetBar(f, key, bar) == [k \in DOMAIN f \cup {key} |-> IF k = key THEN bar ELSE f[k]]
NewStepBar == SetBar(stepBars, StepKey, [pos |-> 0, len |-> 1])
ProjectBarMoves ==
  projectBar' = IF Len(ProofKeys) > 1 THEN projectBar + 1 ELSE projectBar
FinishBar(f) == [f EXCEPT ![StepKey].pos = f[StepKey].len]
KeepOracleBars == oracleBars  \* variant: the oracles' bars stay
OtherOracleBars == {k \in oracleBars : <<k[1], k[2]>> # StepKey}

-----------------------------------------------------------------------------
Init ==
  /\ req \in [proof : ReqProofs, step : ReqSteps, oracle : ReqOracles, parallel : Parallels]
  /\ phase = "main" /\ at = 1 /\ hop = 1
  /\ running = {} /\ passed = {} /\ failed = {} /\ hanging = {}
  /\ checked = {} /\ result = "none"
  /\ projectBar = 0 /\ proofBars = <<>> /\ stepBars = <<>> /\ oracleBars = {}

\* main asserts that a proof step is given only together with a proof.
Main ==
  /\ phase = "main"
  /\ IF req.step # NoReq /\ req.proof = NoReq
       THEN phase' = "done" /\ result' = "assert"
       ELSE phase' = "proofs" /\ UNCHANGED result
  /\ UNCHANGED <<req, at, hop, hopVars, checked, projectBar, proofBars, stepBars, oracleBars>>

\* A proof that is not requested is started and finished at once.
SkipProof ==
  /\ phase = "proofs" /\ at <= Len(ProofKeys) /\ ~ProofRequested(at)
  /\ proofBars' = SetBar(proofBars, ProofKeys[at], Len(Hops(at))) /\ ProjectBarMoves
  /\ at' = at + 1
  /\ UNCHANGED <<req, phase, hop, hopVars, checked, result, stepBars, oracleBars>>

StartProof ==
  /\ phase = "proofs" /\ at <= Len(ProofKeys) /\ ProofRequested(at)
  /\ proofBars' = SetBar(proofBars, ProofKeys[at], 0)
  /\ hop' = 1 /\ phase' = "hops"
  /\ UNCHANGED <<req, at, hopVars, checked, result, projectBar, stepBars, oracleBars>>

FinishProof ==
  /\ phase = "hops" /\ hop > Len(Hops(at))
  /\ proofBars' = SetBar(proofBars, ProofKeys[at], Len(Hops(at))) /\ ProjectBarMoves
  /\ at' = at + 1 /\ phase' = "proofs"
  /\ UNCHANGED <<req, hop, hopVars, checked, result, stepBars, oracleBars>>

\* A hop that is not requested is started and finished at once, and counted.
SkipStep ==
  /\ phase = "hops" /\ hop <= Len(Hops(at)) /\ ~StepRequested(hop)
  /\ stepBars' = FinishBar(NewStepBar)
  /\ proofBars' = [proofBars EXCEPT ![ProofKeys[at]] = @ + 1]
  /\ oracleBars' = OtherOracleBars
  /\ hop' = hop + 1
  /\ UNCHANGED <<req, phase, at, hopVars, checked, result, projectBar>>

StartStep ==
  /\ phase = "hops" /\ hop <= Len(Hops(at)) /\ StepRequested(hop)
  /\ stepBars' = NewStepBar
  /\ phase' = "hop"
  /\ UNCHANGED <<req, at, hop, hopVars, checked, result, projectBar, proofBars, oracleBars>>

\* finish_proofstep, and on to the next hop.
FinishStep ==
  /\ proofBars' = [proofBars EXCEPT ![ProofKeys[at]] = @ + 1]
  /\ stepBars' = FinishBar(stepBars)
  /\ oracleBars' = OtherOracleBars
  /\ hop' = hop + 1 /\ phase' = "hops"
  /\ UNCHANGED <<req, at, result, projectBar>>

\* Reductions and conjectures are checked when the project is loaded, if at all.
Reduction ==
  /\ phase = "hop" /\ Hop.kind # "equivalence"
  /\ IF StepKey \in DOMAIN stepBars
       THEN FinishStep
       ELSE /\ phase' = "done" /\ result' = "unreachable"
            /\ UNCHANGED <<req, at, hop, projectBar, proofBars, stepBars, oracleBars>>
  /\ UNCHANGED <<hopVars, checked>>

\* verify looks the bar up under the name it has built, and calls it
\* unreachable that there is none.
StartEquivalence ==
  /\ phase = "hop" /\ Hop.kind = "equivalence"
  /\ IF VerifyKey \in DOMAIN stepBars
       THEN /\ stepBars' = [stepBars EXCEPT
                              ![VerifyKey].len = Cardinality(RequestedOracles(Hop))]
            /\ phase' = "verify" /\ UNCHANGED result
       ELSE phase' = "done" /\ result' = "unreachable" /\ UNCHANGED stepBars
  /\ running' = {} /\ passed' = {} /\ failed' = {} /\ hanging' = {}
  /\ UNCHANGED <<req, at, hop, checked, projectBar, proofBars, oracleBars>>

\* verify_oracle; after a failure verify starts no other oracle, and
\* verify_parallel does.
StartOracle(o) ==
  /\ phase = "verify" /\ o \in RequestedOracles(Hop) \ (running \cup passed \cup failed)
  /\ Cardinality(running) < Threads
  /\ req.parallel > 1 \/ failed = {}
  /\ running' = running \cup {o}
  /\ oracleBars' = oracleBars \cup {<<ProofKeys[at], ProofstepName(Hop), o>>}
  /\ UNCHANGED <<req, phase, at, hop, passed, failed, hanging, checked, result,
                 projectBar, proofBars, stepBars>>

PassOracle(o) ==
  /\ phase = "verify" /\ o \in running \ hanging /\ o \in Hop.holding
  /\ running' = running \ {o} /\ passed' = passed \cup {o}
  /\ stepBars' = [stepBars EXCEPT ![VerifyKey].pos = @ + 1]
  /\ UNCHANGED <<req, phase, at, hop, failed, hanging, checked, result,
                 projectBar, proofBars, oracleBars>>

\* An oracle may fail although it holds, see Equivalence.
FailOracle(o) ==
  /\ phase = "verify" /\ o \in running \ hanging
  /\ running' = running \ {o} /\ failed' = failed \cup {o}
  /\ UNCHANGED <<req, phase, at, hop, passed, hanging, checked, result,
                 projectBar, proofBars, stepBars, oracleBars>>

\* SessionHangs of Equivalence: the oracle keeps its thread for ever.
HangOracle(o) ==
  /\ phase = "verify" /\ o \in running \ hanging
  /\ hanging' = hanging \cup {o}
  /\ UNCHANGED <<req, phase, at, hop, running, passed, failed, checked, result,
                 projectBar, proofBars, stepBars, oracleBars>>

\* variant: the error of verify is dropped
EquivalenceOver ==
  /\ phase = "verify" /\ running = {} /\ passed \cup failed = RequestedOracles(Hop)
  /\ checked' = checked \cup {<<at, hop>>}
  /\ FinishStep
  /\ UNCHANGED hopVars

EquivalenceOk ==
  /\ phase = "verify" /\ passed = RequestedOracles(Hop)
  /\ checked' = checked \cup {<<at, hop>>}
  /\ FinishStep
  /\ UNCHANGED hopVars


\* The first equivalence that fails ends the command.
EquivalenceErr ==
  /\ phase = "verify" /\ running = {} /\ failed # {}
  /\ req.parallel > 1 => passed \cup failed = RequestedOracles(Hop)
  /\ phase' = "done" /\ result' = "err"
  /\ UNCHANGED <<req, at, hop, hopVars, checked, projectBar, proofBars, stepBars, oracleBars>>

\* A panic inside an equivalence ends the process when the other oracles are over,
\* which an oracle that hangs never is.
EquivalencePanics ==
  /\ phase = "verify" /\ hanging = {}
  /\ phase' = "done" /\ result' = "panic"
  /\ UNCHANGED <<req, at, hop, hopVars, checked, projectBar, proofBars, stepBars, oracleBars>>

Finish ==
  /\ phase = "proofs" /\ at > Len(ProofKeys)
  /\ phase' = "done" /\ result' = "ok"
  /\ UNCHANGED <<req, at, hop, hopVars, checked, projectBar, proofBars, stepBars, oracleBars>>

\* Oracles hang, and there is nothing left that the other threads could do.
HangsForEver ==
  /\ phase = "verify" /\ hanging # {}
  /\ \/ Cardinality(hanging) = Threads
     \/ passed \cup failed \cup hanging = RequestedOracles(Hop)

Over == (phase = "done" \/ HangsForEver) /\ UNCHANGED vars

OracleStep ==
  phase = "verify" /\ \E o \in Hop.exports : StartOracle(o) \/ PassOracle(o) \/ FailOracle(o)
OracleHangs == phase = "verify" /\ \E o \in Hop.exports : HangOracle(o)
LoopStep ==
  \/ Main \/ SkipProof \/ StartProof \/ FinishProof \/ SkipStep \/ StartStep
  \/ Reduction \/ StartEquivalence \/ EquivalenceOk \/ EquivalenceErr \/ Finish

Next == LoopStep \/ OracleStep \/ OracleHangs \/ EquivalencePanics \/ Over

\* The command runs, and so do the jobs of an equivalence, except those that hang
\* (EventuallyReturns of Equivalence).
Spec == Init /\ [][Next]_vars /\ WF_vars(LoopStep \/ OracleStep)
-----------------------------------------------------------------------------
(* Properties. *)

\* What the options select.
IsSelected(k, i) ==
  /\ req.proof = NoReq \/ req.proof = ProofKeys[k]
  /\ req.step = NoReq \/ req.step + 1 = i
  /\ Hops(k)[i].kind = "equivalence"
SelectedOracles(h) == IF req.oracle = NoReq THEN h.exports ELSE h.exports \cap {req.oracle}
HopsOf(k) == 1 .. Len(Hops(k))
\* The loop has left this hop behind.
IsBehind(k, i) == k < at \/ (k = at /\ phase # "proofs" /\ i < hop)

TypeOK ==
  /\ phase \in Phases /\ result \in Results
  /\ at \in 1 .. Len(ProofKeys) + 1 /\ hop \in Nat \ {0}
  /\ phase \in {"hops", "hop", "verify"} => at <= Len(ProofKeys)
  /\ phase \in {"hop", "verify"} => hop <= Len(Hops(at))
  /\ projectBar \in Nat /\ DOMAIN proofBars \subseteq Proofs
  /\ proofBars \in [DOMAIN proofBars -> Nat]
  /\ stepBars \in [DOMAIN stepBars -> [pos : Nat, len : Nat]]

\* prove returns Ok only if every oracle that the options select, in every
\* equivalence they select, in every proof they select, holds.
OkMeansVerified ==
  result = "ok" =>
    \A k \in 1 .. Len(ProofKeys) : \A i \in HopsOf(k) :
      IsSelected(k, i) => SelectedOracles(Hops(k)[i]) \subseteq Hops(k)[i].holding

\* Equivalences are accepted in the order of the proofs and hops, none is left
\* out on the way, and after an error, a panic or an assertion none is accepted.
CheckedInOrder ==
  \A k \in 1 .. Len(ProofKeys) : \A i \in HopsOf(k) :
    <<k, i>> \in checked <=> IsSelected(k, i) /\ IsBehind(k, i)

\* The bars never run ahead of the loop: the proof's bar counts the hops left
\* behind, the step's bar the oracles passed, and every oracle's bar belongs to
\* the hop being checked, although hops of one proof may share a name.  The name
\* verify looks a bar up by is the one it was started with (IndicatifProofUI calls
\* anything else unreachable), and after Ok every bar is full, whatever the options
\* left out.
BarsFollowLoop ==
  /\ phase \in {"hops", "hop", "verify"} => proofBars[ProofKeys[at]] = hop - 1
  /\ phase = "verify" => /\ stepBars[StepKey].pos = Cardinality(passed)
                         /\ stepBars[StepKey].len = Cardinality(SelectedOracles(Hop))
  /\ oracleBars # {} =>
       /\ phase \in {"verify", "done"}
       /\ \A b \in oracleBars : <<b[1], b[2]>> = StepKey
  /\ result # "unreachable"
  /\ result = "ok" =>
       /\ DOMAIN proofBars = Proofs
       /\ \A k \in 1 .. Len(ProofKeys) : proofBars[ProofKeys[k]] = Len(Hops(k))
       /\ projectBar = IF Len(ProofKeys) > 1 THEN Len(ProofKeys) ELSE 0
       /\ \A s \in DOMAIN stepBars : stepBars[s].pos = stepBars[s].len

=============================================================================
