------------------------- MODULE ProveProjectProofs -------------------------
(***************************************************************************)
(* Proofs about ProveProject, for every project and every command line.    *)
(***************************************************************************)
EXTENDS ProveProject, FiniteSetTheorems, TLAPS

\* The hops of a proof of the project are counted, and export finitely many oracles.
LEMMA HopTypes ==
  /\ Len(ProofKeys) \in Nat
  /\ \A k \in 1 .. Len(ProofKeys) : Len(Hops(k)) \in Nat
  /\ \A k \in 1 .. Len(ProofKeys) : \A i \in 1 .. Len(Hops(k)) :
       /\ Hops(k)[i].kind \in Kinds
       /\ Cardinality(RequestedOracles(Hops(k)[i])) \in Nat
<1>1. \A k \in 1 .. Len(ProofKeys) : ProofKeys[k] \in DOMAIN GameHops
  BY ProjectAssumption
<1>2. ASSUME NEW k \in 1 .. Len(ProofKeys), NEW i \in 1 .. Len(Hops(k))
      PROVE  Cardinality(RequestedOracles(Hops(k)[i])) \in Nat
  <2>1. IsFiniteSet(Hops(k)[i].exports)
    BY <1>1, ProjectAssumption DEF Hops
  <2> QED
    BY <2>1, FS_Subset, FS_CardinalityType DEF RequestedOracles
<1> QED
  BY <1>1, <1>2, ProjectAssumption DEF Hops

\* A bar set by name keeps the type of the bars.
LEMMA SetBarType ==
  ASSUME NEW T, NEW f, f \in [DOMAIN f -> T], NEW key, NEW bar \in T
  PROVE  /\ SetBar(f, key, bar) \in [DOMAIN SetBar(f, key, bar) -> T]
         /\ DOMAIN SetBar(f, key, bar) = DOMAIN f \cup {key}
BY DEF SetBar

\* A finished bar keeps the type of the bars.
LEMMA FinishBarType ==
  ASSUME NEW f, f \in [DOMAIN f -> [pos : Nat, len : Nat]]
  PROVE  FinishBar(f) \in [DOMAIN FinishBar(f) -> [pos : Nat, len : Nat]]
BY DEF FinishBar

\* A bar that moves on keeps the type of the bars.
LEMMA BarMoves ==
  ASSUME NEW f, f \in [DOMAIN f -> Nat], NEW key
  PROVE  /\ [f EXCEPT ![key] = @ + 1] \in [DOMAIN f -> Nat]
         /\ DOMAIN [f EXCEPT ![key] = @ + 1] = DOMAIN f
<1> DEFINE g == [f EXCEPT ![key] = @ + 1]
<1>1. g = [k \in DOMAIN f |-> IF k = key THEN f[key] + 1 ELSE f[k]]
  OBVIOUS
<1>2. \A k \in DOMAIN f : f[k] \in Nat
  OBVIOUS
<1>3. \A k \in DOMAIN f : g[k] \in Nat
  BY <1>1, <1>2
<1> QED
  BY <1>1, <1>3

\* The same for the position of a hop's bar.
LEMMA StepBarMoves ==
  ASSUME NEW f, f \in [DOMAIN f -> [pos : Nat, len : Nat]], NEW key
  PROVE  [f EXCEPT ![key].pos = @ + 1] \in [DOMAIN f -> [pos : Nat, len : Nat]]
<1> DEFINE g == [f EXCEPT ![key].pos = @ + 1]
<1>1. g = [k \in DOMAIN f |->
             IF k = key THEN [f[key] EXCEPT !.pos = f[key].pos + 1] ELSE f[k]]
  OBVIOUS
<1>2. \A k \in DOMAIN f : f[k] \in [pos : Nat, len : Nat]
  OBVIOUS
<1>3. \A k \in DOMAIN f : g[k] \in [pos : Nat, len : Nat]
  BY <1>1, <1>2
<1> QED
  BY <1>1, <1>3

\* Types are inductive by themselves.
LEMMA TypeStep == ASSUME TypeOK, [Next]_vars PROVE TypeOK'
<1> DEFINE Bar == [pos : Nat, len : Nat]
<1>0. /\ Len(ProofKeys) \in Nat
      /\ at <= Len(ProofKeys) => Len(Hops(at)) \in Nat /\ ProofKeys[at] \in Proofs
  BY HopTypes DEF TypeOK, Proofs
<1>1. CASE Main
  BY <1>0, <1>1 DEF TypeOK, Main, Phases, Results
<1>2. CASE SkipProof
  <2>1. /\ proofBars' \in [DOMAIN proofBars' -> Nat]
        /\ DOMAIN proofBars' = DOMAIN proofBars \cup {ProofKeys[at]}
    <3> DEFINE b == SetBar(proofBars, ProofKeys[at], Len(Hops(at)))
    <3>1. proofBars' = b /\ Len(Hops(at)) \in Nat
      BY <1>0, <1>2 DEF SkipProof
    <3>2. b \in [DOMAIN b -> Nat] /\ DOMAIN b = DOMAIN proofBars \cup {ProofKeys[at]}
      BY <3>1 DEF TypeOK, SetBar
    <3> QED
      BY <3>1, <3>2
  <2> QED
    BY <1>0, <1>2, <2>1 DEF TypeOK, SkipProof, ProjectBarMoves, Phases
<1>3. CASE StartProof
  <2>1. /\ proofBars' \in [DOMAIN proofBars' -> Nat]
        /\ DOMAIN proofBars' = DOMAIN proofBars \cup {ProofKeys[at]}
    <3> DEFINE b == SetBar(proofBars, ProofKeys[at], 0)
    <3>1. proofBars' = b /\ 0 \in Nat
      BY <1>0, <1>3 DEF StartProof
    <3>2. b \in [DOMAIN b -> Nat] /\ DOMAIN b = DOMAIN proofBars \cup {ProofKeys[at]}
      BY <3>1 DEF TypeOK, SetBar
    <3> QED
      BY <3>1, <3>2
  <2> QED
    BY <1>0, <1>3, <2>1 DEF TypeOK, StartProof, Phases
<1>4. CASE FinishProof
  <2>1. /\ proofBars' \in [DOMAIN proofBars' -> Nat]
        /\ DOMAIN proofBars' = DOMAIN proofBars \cup {ProofKeys[at]}
    <3> DEFINE b == SetBar(proofBars, ProofKeys[at], Len(Hops(at)))
    <3>1. proofBars' = b /\ Len(Hops(at)) \in Nat
      BY <1>0, <1>4 DEF FinishProof
    <3>2. b \in [DOMAIN b -> Nat] /\ DOMAIN b = DOMAIN proofBars \cup {ProofKeys[at]}
      BY <3>1 DEF TypeOK, SetBar
    <3> QED
      BY <3>1, <3>2
  <2> QED
    BY <1>0, <1>4, <2>1 DEF TypeOK, FinishProof, ProjectBarMoves, Phases
<1>5. CASE SkipStep
  <2>1. NewStepBar \in [DOMAIN NewStepBar -> Bar]
    BY SetBarType DEF TypeOK, NewStepBar
  <2>2. stepBars' \in [DOMAIN stepBars' -> Bar]
    <3>1. stepBars' = FinishBar(NewStepBar)
      BY <1>5 DEF SkipStep
    <3>2. FinishBar(NewStepBar) \in [DOMAIN FinishBar(NewStepBar) -> Bar]
      BY <2>1, FinishBarType
    <3> QED
      BY <3>1, <3>2
  <2>3. proofBars' \in [DOMAIN proofBars' -> Nat] /\ DOMAIN proofBars' = DOMAIN proofBars
    BY <1>5, BarMoves DEF TypeOK, SkipStep
  <2> QED
    BY <1>0, <1>5, <2>2, <2>3 DEF TypeOK, SkipStep, Phases
<1>6. CASE StartStep
  <2>1. NewStepBar \in [DOMAIN NewStepBar -> Bar]
    BY SetBarType DEF TypeOK, NewStepBar
  <2> QED
    BY <1>0, <1>6, <2>1 DEF TypeOK, StartStep, Phases
<1>7. ASSUME FinishStep, phase \in {"hop", "verify"} PROVE TypeOK'
  <2>1. stepBars' \in [DOMAIN stepBars' -> Bar]
    <3>1. stepBars' = FinishBar(stepBars)
      BY <1>7 DEF FinishStep
    <3>2. FinishBar(stepBars) \in [DOMAIN FinishBar(stepBars) -> Bar]
      BY FinishBarType DEF TypeOK
    <3> QED
      BY <3>1, <3>2
  <2>2. proofBars' \in [DOMAIN proofBars' -> Nat] /\ DOMAIN proofBars' = DOMAIN proofBars
    BY <1>7, BarMoves DEF TypeOK, FinishStep
  <2> QED
    BY <1>0, <1>7, <2>1, <2>2 DEF TypeOK, FinishStep, Phases
<1>8. CASE Reduction
  <2>1. CASE FinishStep
    BY <1>7, <1>8, <2>1 DEF Reduction
  <2>2. CASE /\ phase' = "done" /\ result' = "unreachable"
             /\ UNCHANGED <<req, at, hop, projectBar, proofBars, stepBars, oracleBars>>
    BY <1>0, <2>2 DEF TypeOK, Phases, Results
  <2> QED
    BY <1>8, <2>1, <2>2 DEF Reduction
<1>9. CASE StartEquivalence
  <2>1. Cardinality(RequestedOracles(Hop)) \in Nat
    BY <1>0, <1>9, HopTypes DEF TypeOK, StartEquivalence, Hop
  <2>2. stepBars' \in [DOMAIN stepBars' -> Bar]
    <3>1. \/ stepBars' = stepBars
          \/ stepBars' = [stepBars EXCEPT ![VerifyKey].len = Cardinality(RequestedOracles(Hop))]
      BY <1>9 DEF StartEquivalence
    <3>2. [stepBars EXCEPT ![VerifyKey].len = Cardinality(RequestedOracles(Hop))]
            \in [DOMAIN stepBars -> Bar]
      BY <2>1 DEF TypeOK
    <3> QED
      BY <3>1, <3>2 DEF TypeOK
  <2>3. /\ phase = "hop" /\ UNCHANGED <<at, hop, projectBar, proofBars>>
        /\ \/ phase' = "verify" /\ result' = result
           \/ phase' = "done" /\ result' = "unreachable"
    BY <1>9 DEF StartEquivalence
  <2> QED
    BY <1>0, <2>2, <2>3 DEF TypeOK, Phases, Results
<1>10. CASE EquivalenceOk
  BY <1>7, <1>10 DEF EquivalenceOk
<1>11. CASE EquivalenceErr
  BY <1>0, <1>11 DEF TypeOK, EquivalenceErr, Phases, Results
<1>12. CASE Finish
  BY <1>0, <1>12 DEF TypeOK, Finish, Phases, Results
<1>13. CASE EquivalencePanics
  BY <1>0, <1>13 DEF TypeOK, EquivalencePanics, Phases, Results
<1>14. ASSUME NEW o, StartOracle(o) PROVE TypeOK'
  BY <1>0, <1>14 DEF TypeOK, StartOracle
<1>15. ASSUME NEW o, PassOracle(o) PROVE TypeOK'
  <2>1. [stepBars EXCEPT ![VerifyKey].pos = @ + 1] \in [DOMAIN stepBars -> Bar]
    BY StepBarMoves DEF TypeOK
  <2>2. stepBars' \in [DOMAIN stepBars' -> Bar]
    BY <1>15, <2>1 DEF PassOracle
  <2> QED
    BY <1>0, <1>15, <2>2 DEF TypeOK, PassOracle
<1>16. ASSUME NEW o, FailOracle(o) \/ HangOracle(o) PROVE TypeOK'
  BY <1>0, <1>16 DEF TypeOK, FailOracle, HangOracle
<1>17. CASE UNCHANGED vars
  BY <1>17 DEF TypeOK, vars
<1> QED
  BY <1>1, <1>2, <1>3, <1>4, <1>5, <1>6, <1>8, <1>9, <1>10, <1>11, <1>12, <1>13,
     <1>14, <1>15, <1>16, <1>17 DEF Next, LoopStep, OracleStep, OracleHangs, Over

\* The loop and the bars keep their types in every run.
THEOREM TypeCorrect == Spec => []TypeOK
<1>1. Init => TypeOK
  BY HopTypes DEF Init, TypeOK, Phases, Results
<1>2. TypeOK /\ [Next]_vars => TypeOK'
  BY TypeStep
<1> QED
  BY <1>1, <1>2, PTL DEF Spec

-----------------------------------------------------------------------------
(* The inductive invariant: where the loop is, what the options select there,  *)
(* and what the accepted equivalences have shown.                              *)

Control ==
  /\ req \in [proof : ReqProofs, step : ReqSteps, oracle : ReqOracles, parallel : Parallels]
  /\ phase = "main" => at = 1 /\ hop = 1
  /\ phase \in {"hops", "hop", "verify"} => ProofRequested(at)
  /\ phase \in {"hop", "verify"} => StepRequested(hop)
  /\ phase = "verify" => Hop.kind = "equivalence" /\ passed \subseteq Hop.holding
  /\ result = "ok" => phase = "done" /\ at > Len(ProofKeys)
  /\ result # "none" => phase = "done"

Holds(k, i) == SelectedOracles(Hops(k)[i]) \subseteq Hops(k)[i].holding
CheckedHold == \A k, i : <<k, i>> \in checked => Holds(k, i)

IInv == TypeOK /\ Control /\ CheckedHold /\ CheckedInOrder

\* The filters of the loop select what the options say.
LEMMA Filters ==
  ASSUME Control, NEW k \in 1 .. Len(ProofKeys), NEW i \in HopsOf(k)
  PROVE  /\ IsSelected(k, i) <=> /\ ProofRequested(k) /\ StepRequested(i)
                                 /\ Hops(k)[i].kind = "equivalence"
         /\ SelectedOracles(Hops(k)[i]) = RequestedOracles(Hops(k)[i])
<1>1. i \in Nat
  BY HopTypes DEF HopsOf
<1>2. req.step \in Nat \cup {NoReq}
  BY ProjectAssumption DEF Control
<1>3. StepRequested(i) <=> (req.step = NoReq \/ req.step + 1 = i)
  BY <1>1, <1>2 DEF StepRequested
<1>4. ProofRequested(k) <=> (req.proof = NoReq \/ req.proof = ProofKeys[k])
  BY DEF ProofRequested
<1>5. SelectedOracles(Hops(k)[i]) = RequestedOracles(Hops(k)[i])
  BY DEF SelectedOracles, RequestedOracles
<1> QED
  BY <1>3, <1>4, <1>5 DEF IsSelected

\* A step that accepts nothing and leaves behind only hops that are not selected.
LEMMA NothingSelected ==
  ASSUME CheckedInOrder, CheckedHold, UNCHANGED <<req, checked>>,
         \A k \in 1 .. Len(ProofKeys) : \A i \in HopsOf(k) :
           IsSelected(k, i) => (IsBehind(k, i)' <=> IsBehind(k, i))
  PROVE  CheckedInOrder' /\ CheckedHold'
<1>1. \A k \in 1 .. Len(ProofKeys) : \A i \in HopsOf(k) :
        IsSelected(k, i)' <=> IsSelected(k, i)
  BY DEF IsSelected
<1>2. CheckedInOrder'
  BY <1>1 DEF CheckedInOrder
<1>3. CheckedHold'
  BY DEF CheckedHold, Holds, SelectedOracles
<1> QED
  BY <1>2, <1>3

\* Every step of the loop keeps the invariant.
LEMMA IInvStep == ASSUME IInv, [Next]_vars PROVE IInv'
<1> USE DEF IInv
<1>0. /\ TypeOK' /\ Len(ProofKeys) \in Nat
      /\ \A k \in 1 .. Len(ProofKeys) : Len(Hops(k)) \in Nat
      /\ at \in Nat /\ hop \in Nat
  BY TypeStep, HopTypes DEF TypeOK
<1> DEFINE SameBehind ==
             \A k \in 1 .. Len(ProofKeys) : \A i \in HopsOf(k) :
               IsSelected(k, i) => (IsBehind(k, i)' <=> IsBehind(k, i))
<1>1. CASE Main
  <2>1. Control'
    BY <1>1 DEF Control, Main, ProofRequested, StepRequested
  <2>2. SameBehind
    BY <1>0, <1>1 DEF Main, Control, IsBehind, HopsOf
  <2> QED
    BY <1>0, <1>1, <2>1, <2>2, NothingSelected DEF Main
<1>2. CASE SkipProof
  <2>1. Control'
    BY <1>2 DEF Control, SkipProof
  <2>2. \A i \in HopsOf(at) : ~IsSelected(at, i)
    BY <1>0, <1>2, Filters DEF SkipProof, TypeOK
  <2>3. SameBehind
    BY <1>0, <1>2, <2>2 DEF SkipProof, IsBehind
  <2> QED
    BY <1>0, <1>2, <2>1, <2>3, NothingSelected DEF SkipProof
<1>3. CASE StartProof
  <2>1. Control'
    BY <1>3 DEF Control, StartProof, ProofRequested
  <2>2. SameBehind
    BY <1>0, <1>3 DEF StartProof, IsBehind, HopsOf
  <2> QED
    BY <1>0, <1>3, <2>1, <2>2, NothingSelected DEF StartProof
<1>4. CASE FinishProof
  <2>1. Control'
    BY <1>4 DEF Control, FinishProof
  <2>2. SameBehind
    BY <1>0, <1>4 DEF FinishProof, IsBehind, HopsOf
  <2> QED
    BY <1>0, <1>4, <2>1, <2>2, NothingSelected DEF FinishProof
<1>5. CASE SkipStep
  <2>1. Control'
    BY <1>5 DEF Control, SkipStep, ProofRequested
  <2>2. at \in 1 .. Len(ProofKeys) /\ hop \in HopsOf(at) /\ ~IsSelected(at, hop)
    BY <1>0, <1>5, Filters DEF SkipStep, TypeOK, HopsOf
  <2>3. SameBehind
    BY <1>0, <1>5, <2>2 DEF SkipStep, IsBehind, HopsOf
  <2> QED
    BY <1>0, <1>5, <2>1, <2>3, NothingSelected DEF SkipStep
<1>6. CASE StartStep
  <2>1. Control'
    BY <1>6 DEF Control, StartStep, ProofRequested, StepRequested
  <2>2. SameBehind
    BY <1>6 DEF StartStep, IsBehind
  <2> QED
    BY <1>0, <1>6, <2>1, <2>2, NothingSelected DEF StartStep
<1>7. CASE Reduction
  <2>1. /\ phase = "hop" /\ UNCHANGED <<req, at, checked, passed>>
        /\ \/ phase' = "hops" /\ hop' = hop + 1 /\ result' = result
           \/ phase' = "done" /\ hop' = hop /\ result' = "unreachable"
    BY <1>7 DEF Reduction, FinishStep, hopVars
  <2>2. Control'
    BY <2>1 DEF Control, ProofRequested, Hop
  <2>3. at \in 1 .. Len(ProofKeys) /\ hop \in HopsOf(at) /\ ~IsSelected(at, hop)
    BY <1>0, <1>7, Filters DEF Reduction, TypeOK, HopsOf, Hop
  <2>4. SameBehind
    BY <1>0, <2>1, <2>3 DEF IsBehind, HopsOf
  <2> QED
    BY <1>0, <2>1, <2>2, <2>4, NothingSelected
<1>8. CASE StartEquivalence
  <2>1. /\ phase = "hop" /\ UNCHANGED <<req, at, hop, checked>> /\ passed' = {}
        /\ \/ phase' = "verify" /\ result' = result
           \/ phase' = "done" /\ result' = "unreachable"
        /\ Hop.kind = "equivalence"
    BY <1>8 DEF StartEquivalence
  <2>2. Control'
    BY <2>1 DEF Control, ProofRequested, StepRequested, Hop
  <2>3. SameBehind
    BY <2>1 DEF IsBehind
  <2> QED
    BY <1>0, <2>1, <2>2, <2>3, NothingSelected
<1>9. CASE EquivalenceOk
  <2>1. /\ phase = "verify" /\ phase' = "hops" /\ hop' = hop + 1
        /\ UNCHANGED <<req, at, result, passed>>
        /\ passed = RequestedOracles(Hop) /\ checked' = checked \cup {<<at, hop>>}
    BY <1>9 DEF EquivalenceOk, FinishStep, hopVars
  <2>2. Control'
    BY <2>1 DEF Control, ProofRequested
  <2>3. at \in 1 .. Len(ProofKeys) /\ hop \in HopsOf(at)
    BY <1>0, <2>1 DEF TypeOK, HopsOf
  <2>4. IsSelected(at, hop) /\ SelectedOracles(Hops(at)[hop]) = RequestedOracles(Hops(at)[hop])
    BY <2>1, <2>3, Filters DEF Control, Hop
  <2>5. Holds(at, hop)
    BY <2>1, <2>4 DEF Control, Holds, Hop
  <2>6. \A k, i : <<k, i>> \in checked' <=> (<<k, i>> \in checked \/ (k = at /\ i = hop))
    BY <2>1
  <2>7. CheckedHold'
    BY <2>1, <2>5, <2>6 DEF CheckedHold, Holds, SelectedOracles
  <2>8. \A k \in 1 .. Len(ProofKeys) : \A i \in HopsOf(k) :
          /\ IsBehind(k, i)' <=> (IsBehind(k, i) \/ (k = at /\ i = hop))
          /\ IsSelected(k, i)' <=> IsSelected(k, i)
    BY <1>0, <2>1 DEF IsBehind, HopsOf, IsSelected
  <2>9. CheckedInOrder'
    BY <2>4, <2>6, <2>8 DEF CheckedInOrder
  <2> QED
    BY <1>0, <2>2, <2>7, <2>9
<1>10. CASE EquivalenceErr \/ EquivalencePanics
  <2>1. /\ phase = "verify" /\ phase' = "done" /\ result' \in {"err", "panic"}
        /\ UNCHANGED <<req, at, hop, checked>>
    BY <1>10 DEF EquivalenceErr, EquivalencePanics
  <2>2. Control'
    BY <2>1 DEF Control
  <2>3. SameBehind
    BY <2>1 DEF IsBehind
  <2> QED
    BY <1>0, <2>1, <2>2, <2>3, NothingSelected
<1>11. CASE Finish
  <2>1. Control'
    BY <1>11 DEF Control, Finish
  <2>2. SameBehind
    BY <1>0, <1>11 DEF Finish, IsBehind
  <2> QED
    BY <1>0, <1>11, <2>1, <2>2, NothingSelected DEF Finish
<1>12. ASSUME NEW o, StartOracle(o) \/ PassOracle(o) \/ FailOracle(o) \/ HangOracle(o) PROVE IInv'
  <2>1. /\ phase = "verify" /\ UNCHANGED <<req, phase, at, hop, checked, result>>
        /\ passed' = passed \/ (passed' = passed \cup {o} /\ o \in Hop.holding)
    BY <1>12 DEF StartOracle, PassOracle, FailOracle, HangOracle
  <2>2. Control'
    BY <2>1 DEF Control, ProofRequested, StepRequested, Hop
  <2>3. SameBehind
    BY <2>1 DEF IsBehind
  <2> QED
    BY <1>0, <2>1, <2>2, <2>3, NothingSelected
<1>13. CASE UNCHANGED vars
  <2>1. UNCHANGED <<req, phase, at, hop, checked, result, passed>>
    BY <1>13 DEF vars, hopVars
  <2>2. Control'
    BY <2>1 DEF Control, ProofRequested, StepRequested, Hop
  <2>3. SameBehind
    BY <2>1 DEF IsBehind
  <2> QED
    BY <1>0, <2>1, <2>2, <2>3, NothingSelected
<1> QED
  BY <1>1, <1>2, <1>3, <1>4, <1>5, <1>6, <1>7, <1>8, <1>9, <1>10, <1>11, <1>12, <1>13
  DEF Next, LoopStep, OracleStep, OracleHangs, Over

\* The invariant holds in every run.
LEMMA Invariant == Spec => []IInv
<1>1. Init => IInv
  <2> SUFFICES ASSUME Init PROVE IInv
    OBVIOUS
  <2>1. TypeOK
    BY HopTypes DEF Init, TypeOK, Phases, Results
  <2>2. Control /\ CheckedHold
    BY DEF Init, Control, CheckedHold
  <2>3. CheckedInOrder
    BY HopTypes DEF Init, CheckedInOrder, IsBehind, HopsOf
  <2> QED
    BY <2>1, <2>2, <2>3 DEF IInv
<1>2. IInv /\ [Next]_vars => IInv'
  BY IInvStep
<1> QED
  BY <1>1, <1>2, PTL DEF Spec

\* prove accepts the selected equivalences in order and leaves none out, up to
\* the point where it ends.
THEOREM NoneLeftOut == Spec => []CheckedInOrder
BY Invariant, PTL DEF IInv

\* Ok means that every selected oracle of every selected equivalence holds.
THEOREM ProveIsSound == Spec => []OkMeansVerified
<1>1. IInv => OkMeansVerified
  <2> SUFFICES ASSUME IInv, result = "ok", NEW k \in 1 .. Len(ProofKeys),
                      NEW i \in HopsOf(k), IsSelected(k, i)
               PROVE  Holds(k, i)
    BY DEF OkMeansVerified, Holds
  <2>1. IsBehind(k, i)
    BY HopTypes DEF IInv, TypeOK, Control, IsBehind
  <2>2. <<k, i>> \in checked
    BY <2>1 DEF IInv, CheckedInOrder
  <2> QED
    BY <2>2 DEF IInv, CheckedHold
<1> QED
  BY <1>1, Invariant, PTL

-----------------------------------------------------------------------------
(* The bars.  Every bar of a hop but that of the hop at hand is full, every bar *)
(* of a proof but that of the proof at hand is too, and the oracles' bars are   *)
(* those of the equivalence being checked.                                      *)

InProof == phase \in {"hops", "hop", "verify"}
InHop == phase \in {"hop", "verify"}
\* The command has not been cut short.
IsLive == phase # "done" \/ result = "ok"

ProofBarsInv == IsLive =>
  /\ DOMAIN proofBars = {ProofKeys[k] : k \in 1 .. IF InProof THEN at ELSE at - 1}
  /\ \A k \in 1 .. at - 1 : proofBars[ProofKeys[k]] = Len(Hops(k))
  /\ InProof => proofBars[ProofKeys[at]] = hop - 1
  /\ projectBar = IF Len(ProofKeys) > 1 THEN at - 1 ELSE 0

StepBarsInv ==
  /\ IsLive => \A s \in DOMAIN stepBars :
       stepBars[s].pos = stepBars[s].len \/ (InHop /\ s = StepKey)
  /\ InHop => StepKey \in DOMAIN stepBars
  /\ phase = "hop" => stepBars[StepKey].pos = 0
  /\ phase = "verify" =>
       /\ stepBars[StepKey].pos = Cardinality(passed)
       /\ stepBars[StepKey].len = Cardinality(RequestedOracles(Hop))
       /\ IsFiniteSet(passed) /\ running \cap passed = {}

OracleBarsInv ==
  /\ oracleBars # {} => phase \in {"verify", "done"}
  /\ \A b \in oracleBars : <<b[1], b[2]>> = StepKey

BarsInv == ProofBarsInv /\ StepBarsInv /\ OracleBarsInv /\ result # "unreachable"

\* What the moves of a bar do to it, and to no other.
LEMMA BarAt ==
  ASSUME NEW f, f \in [DOMAIN f -> [pos : Nat, len : Nat]], NEW key \in DOMAIN f, NEW n
  PROVE  /\ LET g == [f EXCEPT ![key].pos = @ + 1]
            IN  /\ DOMAIN g = DOMAIN f /\ \A k \in DOMAIN f \ {key} : g[k] = f[k]
                /\ g[key].pos = f[key].pos + 1 /\ g[key].len = f[key].len
         /\ LET g == [f EXCEPT ![key].len = n]
            IN  /\ DOMAIN g = DOMAIN f /\ \A k \in DOMAIN f \ {key} : g[k] = f[k]
                /\ g[key].pos = f[key].pos /\ g[key].len = n
<1>1. f[key] \in [pos : Nat, len : Nat]
  OBVIOUS
<1> QED
  BY <1>1

\* A finished bar is full, and the others are as they were.
LEMMA FinishBarAt ==
  ASSUME NEW f, f \in [DOMAIN f -> [pos : Nat, len : Nat]], StepKey \in DOMAIN f
  PROVE  /\ DOMAIN FinishBar(f) = DOMAIN f
         /\ FinishBar(f)[StepKey].pos = FinishBar(f)[StepKey].len
         /\ \A k \in DOMAIN f \ {StepKey} : FinishBar(f)[k] = f[k]
<1>1. f[StepKey] \in [pos : Nat, len : Nat]
  OBVIOUS
<1> QED
  BY <1>1 DEF FinishBar

\* The bar of a new hop is the only one that changes.
LEMMA NewBarAt ==
  ASSUME TypeOK
  PROVE  /\ NewStepBar \in [DOMAIN NewStepBar -> [pos : Nat, len : Nat]]
         /\ DOMAIN NewStepBar = DOMAIN stepBars \cup {StepKey}
         /\ NewStepBar[StepKey].pos = 0
         /\ \A k \in DOMAIN stepBars \ {StepKey} : NewStepBar[k] = stepBars[k]
BY SetBarType DEF TypeOK, NewStepBar, SetBar

\* verify builds the name its hop was started with.
LEMMA SameName == Hop.kind = "equivalence" => VerifyKey = StepKey
BY DEF VerifyKey, StepKey, HopName, ProofstepName

\* Every step keeps the bars of the proofs in place.
LEMMA ProofBarsStep ==
  ASSUME IInv, BarsInv, [Next]_vars
  PROVE  ProofBarsInv'
<1>0. /\ Len(ProofKeys) \in Nat /\ at \in 1 .. Len(ProofKeys) + 1 /\ hop \in Nat
      /\ \A i, k \in 1 .. Len(ProofKeys) : ProofKeys[i] = ProofKeys[k] => i = k
      /\ result = "ok" => phase = "done"
  BY HopTypes, ProjectAssumption DEF IInv, TypeOK, Control
<1>1. CASE Main
  BY <1>0, <1>1 DEF Main, BarsInv, ProofBarsInv, InProof, IsLive
<1>2. CASE SkipProof \/ FinishProof
  <2>1. /\ phase # "done" /\ at \in 1 .. Len(ProofKeys) /\ at' = at + 1 /\ phase' = "proofs"
        /\ UNCHANGED result /\ proofBars' = SetBar(proofBars, ProofKeys[at], Len(Hops(at)))
        /\ projectBar' = IF Len(ProofKeys) > 1 THEN projectBar + 1 ELSE projectBar
    BY <1>0, <1>2 DEF SkipProof, FinishProof, ProjectBarMoves, IInv, TypeOK
  <2>2. /\ DOMAIN proofBars' = DOMAIN proofBars \cup {ProofKeys[at]}
        /\ proofBars'[ProofKeys[at]] = Len(Hops(at))
        /\ \A key \in DOMAIN proofBars \ {ProofKeys[at]} : proofBars'[key] = proofBars[key]
    <3> DEFINE b == SetBar(proofBars, ProofKeys[at], Len(Hops(at)))
    <3>1. proofBars' = b
      BY <2>1
    <3>2. /\ DOMAIN b = DOMAIN proofBars \cup {ProofKeys[at]} /\ b[ProofKeys[at]] = Len(Hops(at))
          /\ \A key \in DOMAIN proofBars \ {ProofKeys[at]} : b[key] = proofBars[key]
      BY DEF SetBar
    <3> HIDE DEF b
    <3> QED
      BY <3>1, <3>2
  <2>3. \A k \in 1 .. at - 1 : ProofKeys[k] \in DOMAIN proofBars \ {ProofKeys[at]}
    <3>1. \A k \in 1 .. at - 1 : ProofKeys[k] # ProofKeys[at]
      BY <1>0, <2>1
    <3>2. DOMAIN proofBars = {ProofKeys[k] : k \in 1 .. IF InProof THEN at ELSE at - 1}
      BY <2>1 DEF BarsInv, ProofBarsInv, IsLive
    <3>3. \A k \in 1 .. at - 1 : k \in 1 .. IF InProof THEN at ELSE at - 1
      BY <1>0
    <3> QED
      BY <3>1, <3>2, <3>3
  <2>4. DOMAIN proofBars' = {ProofKeys[k] : k \in 1 .. at' - 1}
    BY <1>0, <2>1, <2>2 DEF BarsInv, ProofBarsInv, IsLive
  <2>5. \A k \in 1 .. at' - 1 : proofBars'[ProofKeys[k]] = Len(Hops(k))
    BY <1>0, <2>1, <2>2, <2>3 DEF BarsInv, ProofBarsInv, IsLive
  <2>6. projectBar' = IF Len(ProofKeys) > 1 THEN at' - 1 ELSE 0
    BY <1>0, <2>1 DEF BarsInv, ProofBarsInv, IsLive
  <2> QED
    BY <2>1, <2>4, <2>5, <2>6 DEF ProofBarsInv, InProof, Hops
<1>3. CASE StartProof
  <2>1. /\ phase = "proofs" /\ at \in 1 .. Len(ProofKeys) /\ at' = at /\ phase' = "hops"
        /\ hop' = 1 /\ UNCHANGED <<result, projectBar>>
        /\ proofBars' = SetBar(proofBars, ProofKeys[at], 0)
    BY <1>0, <1>3 DEF StartProof
  <2>2. /\ DOMAIN proofBars' = DOMAIN proofBars \cup {ProofKeys[at]}
        /\ proofBars'[ProofKeys[at]] = 0
        /\ \A key \in DOMAIN proofBars \ {ProofKeys[at]} : proofBars'[key] = proofBars[key]
    <3> DEFINE b == SetBar(proofBars, ProofKeys[at], 0)
    <3>1. proofBars' = b
      BY <2>1
    <3>2. /\ DOMAIN b = DOMAIN proofBars \cup {ProofKeys[at]} /\ b[ProofKeys[at]] = 0
          /\ \A key \in DOMAIN proofBars \ {ProofKeys[at]} : b[key] = proofBars[key]
      BY DEF SetBar
    <3> HIDE DEF b
    <3> QED
      BY <3>1, <3>2
  <2>3. \A k \in 1 .. at - 1 : ProofKeys[k] \in DOMAIN proofBars \ {ProofKeys[at]}
    <3>1. \A k \in 1 .. at - 1 : ProofKeys[k] # ProofKeys[at]
      BY <1>0, <2>1
    <3>2. DOMAIN proofBars = {ProofKeys[k] : k \in 1 .. IF InProof THEN at ELSE at - 1}
      BY <2>1 DEF BarsInv, ProofBarsInv, IsLive
    <3>3. \A k \in 1 .. at - 1 : k \in 1 .. IF InProof THEN at ELSE at - 1
      BY <1>0
    <3> QED
      BY <3>1, <3>2, <3>3
  <2>4. DOMAIN proofBars' = {ProofKeys[k] : k \in 1 .. at}
    <3>1. DOMAIN proofBars = {ProofKeys[k] : k \in 1 .. at - 1}
      BY <2>1 DEF BarsInv, ProofBarsInv, IsLive, InProof
    <3>2. 1 .. at = (1 .. at - 1) \cup {at}
      BY <2>1
    <3> QED
      BY <2>2, <3>1, <3>2
  <2>5. \A k \in 1 .. at - 1 : proofBars'[ProofKeys[k]] = Len(Hops(k))
    BY <1>0, <2>1, <2>2, <2>3 DEF BarsInv, ProofBarsInv, IsLive
  <2>6. projectBar' = IF Len(ProofKeys) > 1 THEN at' - 1 ELSE 0
    BY <1>0, <2>1 DEF BarsInv, ProofBarsInv, IsLive
  <2> QED
    BY <2>1, <2>2, <2>4, <2>5, <2>6 DEF ProofBarsInv, InProof, Hops
<1>4. ASSUME SkipStep \/ FinishStep, InProof PROVE ProofBarsInv'
  <2>1. /\ at \in 1 .. Len(ProofKeys) /\ at' = at /\ phase' = "hops" /\ hop' = hop + 1
        /\ UNCHANGED <<result, projectBar>> /\ IsLive
        /\ proofBars' = [proofBars EXCEPT ![ProofKeys[at]] = @ + 1]
    BY <1>0, <1>4 DEF SkipStep, FinishStep, InProof, IsLive, IInv, TypeOK
  <2>2. /\ DOMAIN proofBars' = DOMAIN proofBars /\ ProofKeys[at] \in DOMAIN proofBars
        /\ proofBars'[ProofKeys[at]] = hop' - 1
        /\ \A key \in DOMAIN proofBars \ {ProofKeys[at]} : proofBars'[key] = proofBars[key]
    BY <1>0, <1>4, <2>1 DEF BarsInv, ProofBarsInv, IsLive
  <2>3. \A k \in 1 .. at - 1 : ProofKeys[k] \in DOMAIN proofBars \ {ProofKeys[at]}
    BY <1>0, <1>4, <2>1 DEF BarsInv, ProofBarsInv
  <2>4. DOMAIN proofBars' = {ProofKeys[k] : k \in 1 .. at'}
    BY <1>4, <2>1, <2>2 DEF BarsInv, ProofBarsInv
  <2>5. \A k \in 1 .. at' - 1 : proofBars'[ProofKeys[k]] = Len(Hops(k))
    BY <2>1, <2>2, <2>3 DEF BarsInv, ProofBarsInv
  <2>6. projectBar' = IF Len(ProofKeys) > 1 THEN at' - 1 ELSE 0
    BY <2>1 DEF BarsInv, ProofBarsInv
  <2> QED
    BY <2>1, <2>2, <2>4, <2>5, <2>6 DEF ProofBarsInv, InProof, Hops
<1>5. ASSUME UNCHANGED <<at, hop, proofBars, projectBar>>,
             (UNCHANGED <<phase, result>>) \/ (InProof /\ InProof' /\ UNCHANGED result)
               \/ (phase' = "done" /\ result' \in {"err", "panic", "unreachable"})
      PROVE  ProofBarsInv'
  BY <1>0, <1>5 DEF BarsInv, ProofBarsInv, InProof, IsLive, Hops
<1>6. CASE SkipStep
  BY <1>4, <1>6 DEF SkipStep, InProof
<1>7. CASE EquivalenceOk
  BY <1>4, <1>7 DEF EquivalenceOk, InProof
<1>8. CASE Reduction
  <2>1. CASE FinishStep
    BY <1>4, <1>8, <2>1 DEF Reduction, InProof
  <2>2. CASE ~FinishStep
    BY <1>5, <1>8, <2>2 DEF Reduction
  <2> QED
    BY <2>1, <2>2
<1>9. CASE StartStep
  BY <1>5, <1>9 DEF StartStep, InProof
<1>10. CASE StartEquivalence
  BY <1>5, <1>10 DEF StartEquivalence, InProof
<1>11. CASE EquivalenceErr \/ EquivalencePanics
  BY <1>5, <1>11 DEF EquivalenceErr, EquivalencePanics
<1>12. CASE Finish
  BY <1>0, <1>12 DEF Finish, BarsInv, ProofBarsInv, InProof, IsLive, Hops
<1>13. ASSUME NEW o, StartOracle(o) \/ PassOracle(o) \/ FailOracle(o) \/ HangOracle(o) PROVE ProofBarsInv'
  BY <1>5, <1>13 DEF StartOracle, PassOracle, FailOracle, HangOracle
<1>14. CASE UNCHANGED vars
  BY <1>5, <1>14 DEF vars
<1> QED
  BY <1>1, <1>2, <1>3, <1>6, <1>7, <1>8, <1>9, <1>10, <1>11, <1>12, <1>13, <1>14
  DEF Next, LoopStep, OracleStep, OracleHangs, Over

\* Every step keeps the bars of the hops in place.
LEMMA StepBarsStep ==
  ASSUME IInv, BarsInv, [Next]_vars
  PROVE  StepBarsInv' /\ result' # "unreachable"
<1>0. /\ stepBars \in [DOMAIN stepBars -> [pos : Nat, len : Nat]]
      /\ StepBarsInv /\ result # "unreachable"
      /\ result \notin {"none"} => phase = "done"
  BY DEF IInv, TypeOK, BarsInv, Control
<1>1. ASSUME ~InHop, ~InHop', UNCHANGED stepBars, IsLive' => IsLive, result' # "unreachable"
      PROVE  StepBarsInv' /\ result' # "unreachable"
  BY <1>0, <1>1 DEF StepBarsInv, InHop
<1>2. CASE Main \/ SkipProof \/ StartProof \/ FinishProof \/ Finish
  BY <1>0, <1>1, <1>2
  DEF Main, SkipProof, StartProof, FinishProof, Finish, InHop, IsLive
<1>3. CASE SkipStep
  <2>1. /\ phase = "hops" /\ phase' = "hops" /\ UNCHANGED result
        /\ stepBars' = FinishBar(NewStepBar)
    BY <1>3 DEF SkipStep
  <2>2. \A s \in DOMAIN stepBars' : stepBars'[s].pos = stepBars'[s].len
    BY <1>0, <2>1, NewBarAt, FinishBarAt DEF StepBarsInv, IsLive, InHop, IInv
  <2> QED
    BY <1>0, <2>1, <2>2 DEF StepBarsInv, InHop
<1>4. CASE StartStep
  <2>1. /\ phase = "hops" /\ phase' = "hop" /\ UNCHANGED result
        /\ stepBars' = NewStepBar /\ StepKey' = StepKey
    BY <1>4 DEF StartStep, StepKey, Hop
  <2>2. \A s \in DOMAIN stepBars' : stepBars'[s].pos = stepBars'[s].len \/ s = StepKey
    BY <1>0, <2>1, NewBarAt DEF StepBarsInv, IsLive, InHop, IInv
  <2> QED
    BY <1>0, <2>1, <2>2, NewBarAt DEF StepBarsInv, InHop, IInv
<1>5. ASSUME FinishStep, InHop PROVE StepBarsInv' /\ result' # "unreachable"
  <2>1. phase' = "hops" /\ UNCHANGED result /\ stepBars' = FinishBar(stepBars) /\ IsLive
    BY <1>5 DEF FinishStep, InHop, IsLive
  <2>2. \A s \in DOMAIN stepBars' : stepBars'[s].pos = stepBars'[s].len
    BY <1>0, <1>5, <2>1, FinishBarAt DEF StepBarsInv
  <2> QED
    BY <1>0, <2>1, <2>2 DEF StepBarsInv, InHop
<1>6. CASE Reduction
  BY <1>0, <1>5, <1>6 DEF Reduction, InHop, StepBarsInv
<1>7. CASE EquivalenceOk
  BY <1>5, <1>7 DEF EquivalenceOk, InHop
<1>8. CASE StartEquivalence
  <2>1. /\ phase = "hop" /\ VerifyKey = StepKey /\ StepKey \in DOMAIN stepBars
    BY <1>0, <1>8, SameName DEF StartEquivalence, StepBarsInv, InHop
  <2>2. /\ phase' = "verify" /\ UNCHANGED <<req, result, at, hop>> /\ passed' = {} /\ running' = {}
        /\ stepBars' = [stepBars EXCEPT ![StepKey].len = Cardinality(RequestedOracles(Hop))]
        /\ StepKey' = StepKey /\ RequestedOracles(Hop)' = RequestedOracles(Hop)
    BY <1>8, <2>1 DEF StartEquivalence, StepKey, Hop, RequestedOracles
  <2>3. /\ DOMAIN stepBars' = DOMAIN stepBars
        /\ \A s \in DOMAIN stepBars \ {StepKey} : stepBars'[s] = stepBars[s]
        /\ stepBars'[StepKey].pos = 0
        /\ stepBars'[StepKey].len = Cardinality(RequestedOracles(Hop))
    BY <1>0, <2>1, <2>2, BarAt DEF StepBarsInv
  <2>4. Cardinality(passed') = 0 /\ IsFiniteSet(passed') /\ running' \cap passed' = {}
    BY <2>2, FS_EmptySet
  <2>5. \A s \in DOMAIN stepBars' : stepBars'[s].pos = stepBars'[s].len \/ s = StepKey
    BY <1>0, <2>1, <2>3 DEF StepBarsInv, IsLive
  <2> QED
    BY <1>0, <2>1, <2>2, <2>3, <2>4, <2>5 DEF StepBarsInv, InHop
<1>9. CASE EquivalenceErr \/ EquivalencePanics
  BY <1>9 DEF EquivalenceErr, EquivalencePanics, StepBarsInv, IsLive, InHop
<1>10. ASSUME NEW o, StartOracle(o) \/ PassOracle(o) \/ FailOracle(o) \/ HangOracle(o)
       PROVE  StepBarsInv' /\ result' # "unreachable"
  <2>1. /\ phase = "verify" /\ UNCHANGED <<req, phase, at, hop, result>>
        /\ StepKey' = StepKey /\ RequestedOracles(Hop)' = RequestedOracles(Hop)
    BY <1>10 DEF StartOracle, PassOracle, FailOracle, HangOracle, StepKey, Hop, RequestedOracles
  <2>2. VerifyKey = StepKey /\ StepKey \in DOMAIN stepBars
    BY <1>0, <2>1, SameName DEF StepBarsInv, InHop, IInv, Control
  <2>3. CASE PassOracle(o)
    <3>1. /\ o \in running /\ o \notin passed /\ IsFiniteSet(passed)
          /\ passed' = passed \cup {o} /\ running' = running \ {o}
          /\ stepBars' = [stepBars EXCEPT ![StepKey].pos = @ + 1]
      BY <1>0, <2>1, <2>2, <2>3 DEF PassOracle, StepBarsInv
    <3>2. /\ IsFiniteSet(passed') /\ Cardinality(passed') = Cardinality(passed) + 1
          /\ running' \cap passed' = {}
      BY <1>0, <2>1, <3>1, FS_AddElement DEF StepBarsInv
    <3>3. /\ DOMAIN stepBars' = DOMAIN stepBars
          /\ \A s \in DOMAIN stepBars \ {StepKey} : stepBars'[s] = stepBars[s]
          /\ stepBars'[StepKey].pos = stepBars[StepKey].pos + 1
          /\ stepBars'[StepKey].len = stepBars[StepKey].len
      BY <1>0, <2>2, <3>1, BarAt
    <3> QED
      BY <1>0, <2>1, <2>2, <3>2, <3>3 DEF StepBarsInv, InHop, IsLive
  <2>4. CASE StartOracle(o) \/ FailOracle(o) \/ HangOracle(o)
    <3>1. /\ UNCHANGED <<stepBars, passed>> /\ running' \cap passed' = {}
      BY <1>0, <2>1, <2>4 DEF StartOracle, FailOracle, HangOracle, StepBarsInv
    <3> QED
      BY <1>0, <2>1, <3>1 DEF StepBarsInv, InHop, IsLive
  <2> QED
    BY <1>10, <2>3, <2>4
<1>11. CASE UNCHANGED vars
  BY <1>0, <1>11 DEF vars, hopVars, StepBarsInv, InHop, IsLive, StepKey, Hop, RequestedOracles
<1> QED
  BY <1>2, <1>3, <1>4, <1>6, <1>7, <1>8, <1>9, <1>10, <1>11
  DEF Next, LoopStep, OracleStep, OracleHangs, Over

\* Every step keeps the bars of the oracles in place.
LEMMA OracleBarsStep ==
  ASSUME IInv, BarsInv, [Next]_vars
  PROVE  OracleBarsInv'
<1>0. /\ oracleBars # {} => phase \in {"verify", "done"}
      /\ \A b \in oracleBars : <<b[1], b[2]>> = StepKey
      /\ StepKey \in DOMAIN stepBars \/ ~InHop
  BY DEF BarsInv, OracleBarsInv, StepBarsInv
<1>1. ASSUME oracleBars' = {} PROVE OracleBarsInv'
  BY <1>1 DEF OracleBarsInv
<1>2. ASSUME UNCHANGED <<at, hop, oracleBars>>, oracleBars # {} => phase' \in {"verify", "done"}
      PROVE  OracleBarsInv'
  BY <1>0, <1>2 DEF OracleBarsInv, StepKey, Hop
<1>3. ASSUME oracleBars' = OtherOracleBars PROVE OracleBarsInv'
  <2>1. oracleBars' = {}
    BY <1>0, <1>3 DEF OtherOracleBars
  <2> QED
    BY <1>1, <2>1
<1>4. CASE Main \/ SkipProof \/ StartProof \/ FinishProof \/ StartStep \/ Finish
  <2>1. phase \notin {"verify", "done"} /\ UNCHANGED oracleBars
    BY <1>4 DEF Main, SkipProof, StartProof, FinishProof, StartStep, Finish
  <2> QED
    BY <1>0, <1>1, <2>1
<1>5. CASE SkipStep \/ EquivalenceOk \/ Reduction
  BY <1>0, <1>3, <1>5 DEF SkipStep, EquivalenceOk, Reduction, FinishStep, InHop
<1>6. CASE StartEquivalence \/ EquivalenceErr \/ EquivalencePanics
  BY <1>0, <1>2, <1>6 DEF StartEquivalence, EquivalenceErr, EquivalencePanics
<1>7. ASSUME NEW o, StartOracle(o) PROVE OracleBarsInv'
  <2>1. /\ phase = "verify" /\ UNCHANGED <<phase, at, hop>>
        /\ oracleBars' = oracleBars \cup {<<ProofKeys[at], ProofstepName(Hop), o>>}
    BY <1>7 DEF StartOracle
  <2>2. <<ProofKeys[at], ProofstepName(Hop)>> = StepKey
    BY <2>1, SameName DEF IInv, Control, VerifyKey
  <2> QED
    BY <1>0, <2>1, <2>2 DEF OracleBarsInv, StepKey, Hop
<1>8. ASSUME NEW o, PassOracle(o) \/ FailOracle(o) \/ HangOracle(o) PROVE OracleBarsInv'
  BY <1>0, <1>2, <1>8 DEF PassOracle, FailOracle, HangOracle
<1>9. CASE UNCHANGED vars
  BY <1>0, <1>2, <1>9 DEF vars
<1> QED
  BY <1>4, <1>5, <1>6, <1>7, <1>8, <1>9 DEF Next, LoopStep, OracleStep, OracleHangs, Over

\* The bars never run ahead of the loop, no bar is looked up in vain, and after
\* Ok every bar is full (IndicatifProofUI).
THEOREM BarsInStep == Spec => []BarsFollowLoop
<1>1. Init => BarsInv
  BY HopTypes DEF Init, BarsInv, ProofBarsInv, StepBarsInv, OracleBarsInv, InProof, InHop, IsLive
<1>2. IInv /\ BarsInv /\ [Next]_vars => BarsInv'
  BY ProofBarsStep, StepBarsStep, OracleBarsStep DEF BarsInv
<1>3. IInv /\ BarsInv => BarsFollowLoop
  <2> SUFFICES ASSUME IInv, BarsInv PROVE BarsFollowLoop
    OBVIOUS
  <2>1. phase \in {"hops", "hop", "verify"} => proofBars[ProofKeys[at]] = hop - 1
    BY DEF BarsInv, ProofBarsInv, InProof, IsLive
  <2>2. phase = "verify" => /\ stepBars[StepKey].pos = Cardinality(passed)
                            /\ stepBars[StepKey].len = Cardinality(SelectedOracles(Hop))
    BY DEF BarsInv, StepBarsInv, SelectedOracles, RequestedOracles
  <2>3. ASSUME result = "ok"
        PROVE  /\ DOMAIN proofBars = Proofs
               /\ \A k \in 1 .. Len(ProofKeys) : proofBars[ProofKeys[k]] = Len(Hops(k))
               /\ projectBar = IF Len(ProofKeys) > 1 THEN Len(ProofKeys) ELSE 0
               /\ \A s \in DOMAIN stepBars : stepBars[s].pos = stepBars[s].len
    <3>1. phase = "done" /\ at - 1 = Len(ProofKeys)
      BY <2>3, HopTypes DEF IInv, TypeOK, Control
    <3> QED
      BY <2>3, <3>1 DEF BarsInv, ProofBarsInv, StepBarsInv, InProof, InHop, IsLive, Proofs
  <2> QED
    BY <2>1, <2>2, <2>3 DEF BarsInv, OracleBarsInv, BarsFollowLoop
<1> QED
  BY <1>1, <1>2, <1>3, Invariant, PTL DEF Spec

-----------------------------------------------------------------------------
(* The loop neither waits for nothing nor runs for ever. *)

\* The oracles that have been started are requested ones and have a thread as long as
\* they run, those that hang too; the loop is at most one hop behind the last.
Tried == running \cup passed \cup failed
InBounds ==
  /\ phase = "hops" => hop <= Len(Hops(at)) + 1
  /\ phase = "verify" => /\ Tried \subseteq RequestedOracles(Hop)
                         /\ hanging \subseteq running
                         /\ Cardinality(running) <= Threads

\* There is a thread to work on an equivalence.
LEMMA OneThread ==
  ASSUME Control
  PROVE  req.parallel \in Nat /\ Threads \in Nat /\ Threads >= 1
<1>1. req.parallel \in Parallels
  BY DEF Control
<1>2. req.parallel \in Nat
  BY <1>1, ProjectAssumption
<1> QED
  BY <1>2 DEF Threads

\* What an equivalence counts is finite.
LEMMA OraclesFinite ==
  ASSUME TypeOK, InBounds, phase = "verify"
  PROVE  /\ IsFiniteSet(RequestedOracles(Hop)) /\ running \subseteq RequestedOracles(Hop)
         /\ Tried \subseteq RequestedOracles(Hop)
         /\ IsFiniteSet(running) /\ Cardinality(running) \in Nat
<1>1. at \in 1 .. Len(ProofKeys) /\ hop \in 1 .. Len(Hops(at))
  BY HopTypes DEF TypeOK
<1>2. IsFiniteSet(Hop.exports)
  BY <1>1, ProjectAssumption DEF Hop, Hops
<1>3. IsFiniteSet(RequestedOracles(Hop))
  BY <1>2, FS_Subset DEF RequestedOracles
<1>4. running \subseteq RequestedOracles(Hop) /\ Tried \subseteq RequestedOracles(Hop)
  BY DEF InBounds, Tried
<1> QED
  BY <1>3, <1>4, FS_Subset, FS_CardinalityType

LEMMA InBoundsStep == ASSUME TypeOK, Control, InBounds, [Next]_vars PROVE InBounds'
<1>a. Threads \in Nat /\ Threads >= 1
  BY OneThread
<1>0. /\ Len(ProofKeys) \in Nat /\ at \in Nat /\ hop \in Nat
      /\ \A k \in 1 .. Len(ProofKeys) : Len(Hops(k)) \in Nat
  BY HopTypes DEF TypeOK
<1>1. ASSUME phase' \notin {"hops", "verify"} PROVE InBounds'
  BY <1>1 DEF InBounds
<1>2. CASE Main \/ SkipProof \/ FinishProof \/ StartStep \/ EquivalenceErr \/ EquivalencePanics \/ Finish
  <2>1. phase' \notin {"hops", "verify"}
    BY <1>2 DEF Main, SkipProof, FinishProof, StartStep, EquivalenceErr, EquivalencePanics, Finish
  <2> QED
    BY <1>1, <2>1
<1>3. CASE StartProof
  BY <1>0, <1>3 DEF StartProof, InBounds, TypeOK
<1>4. ASSUME phase' = "hops", at' = at, hop' = hop + 1, hop <= Len(Hops(at)), at \in 1 .. Len(ProofKeys)
      PROVE  InBounds'
  BY <1>0, <1>4 DEF InBounds
<1>5. CASE SkipStep
  BY <1>4, <1>5 DEF SkipStep, TypeOK
<1>6. CASE Reduction
  BY <1>1, <1>4, <1>6 DEF Reduction, FinishStep, TypeOK
<1>7. CASE EquivalenceOk
  BY <1>4, <1>7 DEF EquivalenceOk, FinishStep, TypeOK
<1>8. CASE StartEquivalence
  <2>1. /\ running' = {} /\ passed' = {} /\ failed' = {} /\ hanging' = {} /\ UNCHANGED req
        /\ phase' \in {"verify", "done"}
    BY <1>8 DEF StartEquivalence
  <2>2. Cardinality(running') <= Threads' /\ Tried' = {}
    BY <1>a, <2>1, FS_EmptySet DEF Threads, Tried
  <2> QED
    BY <1>1, <2>1, <2>2 DEF InBounds
<1>9. ASSUME NEW o, StartOracle(o) PROVE InBounds'
  <2>1. /\ phase' = "verify" /\ RequestedOracles(Hop)' = RequestedOracles(Hop)
        /\ Tried' = Tried \cup {o} /\ o \in RequestedOracles(Hop)
        /\ phase = "verify" /\ UNCHANGED <<req, hanging>>
        /\ running' = running \cup {o} /\ o \notin running /\ Cardinality(running) < Threads
    BY <1>9 DEF StartOracle, Tried, RequestedOracles, Hop
  <2>2. Cardinality(running') = Cardinality(running) + 1 /\ Cardinality(running) \in Nat
    BY <2>1, OraclesFinite, FS_AddElement
  <2>3. Cardinality(running') <= Threads /\ Threads' = Threads
    BY <1>a, <2>1, <2>2 DEF Threads
  <2> QED
    BY <2>1, <2>3 DEF InBounds
<1>10. ASSUME NEW o, PassOracle(o) \/ FailOracle(o) \/ HangOracle(o) PROVE InBounds'
  <2>1. /\ phase' = "verify" /\ RequestedOracles(Hop)' = RequestedOracles(Hop)
        /\ Tried' \subseteq Tried /\ phase = "verify" /\ UNCHANGED req
        /\ running' \subseteq running /\ (hanging \subseteq running => hanging' \subseteq running')
    BY <1>10 DEF PassOracle, FailOracle, HangOracle, Tried, RequestedOracles, Hop
  <2>2. /\ Cardinality(running') <= Cardinality(running) /\ Threads' = Threads
        /\ Cardinality(running') \in Nat /\ Cardinality(running) \in Nat
    BY <2>1, OraclesFinite, FS_Subset, FS_CardinalityType DEF Threads
  <2> QED
    BY <1>a, <2>1, <2>2 DEF InBounds
<1>11. CASE UNCHANGED vars
  BY <1>11 DEF vars, hopVars, InBounds, Tried, RequestedOracles, Hop, Threads
<1> QED
  BY <1>2, <1>3, <1>5, <1>6, <1>7, <1>8, <1>9, <1>10, <1>11 DEF Next, LoopStep, OracleStep, OracleHangs, Over

LEMMA InBoundsInvariant == Spec => [](TypeOK /\ InBounds)
<1>1. Init => InBounds
  BY DEF Init, InBounds
<1>2. TypeOK /\ Control /\ InBounds /\ [Next]_vars => InBounds'
  BY InBoundsStep
<1>3. IInv => TypeOK /\ Control
  BY DEF IInv
<1> QED
  BY <1>1, <1>2, <1>3, Invariant, PTL DEF Spec

\* What a step of the loop or of an oracle needs, written out since ENABLED is out of
\* the prover's reach.
OracleCanStep ==
  \/ running \ hanging # {}
  \/ \E o \in RequestedOracles(Hop) \ Tried :
       Cardinality(running) < Threads /\ (req.parallel > 1 \/ failed = {})
LoopCanStep ==
  \/ phase = "main"
  \/ phase = "proofs" /\ (at <= Len(ProofKeys) \/ at > Len(ProofKeys))
  \/ phase = "hops" /\ (hop <= Len(Hops(at)) \/ hop > Len(Hops(at)))
  \/ phase = "hop"
  \/ phase = "verify" /\ passed = RequestedOracles(Hop)
  \/ /\ phase = "verify" /\ running = {} /\ failed # {}
     /\ req.parallel > 1 => passed \cup failed = RequestedOracles(Hop)

\* The command never waits for nothing: as long as it has not ended, the loop can go on,
\* or the equivalence it waits for has an oracle at work or one that a thread can start,
\* unless oracles hang there and no other is left or no other thread.
SomethingToDo ==
  phase # "done" => LoopCanStep \/ (phase = "verify" /\ OracleCanStep) \/ HangsForEver

\* Project::prove waits for an equivalence only while one of its oracles can be started
\* or is at work or hangs, for every command line and number of threads.
THEOREM NeverWaitsInVain == Spec => []SomethingToDo
<1>1. ASSUME TypeOK, Control, InBounds PROVE SomethingToDo
  <2>0. /\ Len(ProofKeys) \in Nat /\ at \in Nat /\ hop \in Nat
        /\ \A k \in 1 .. Len(ProofKeys) : Len(Hops(k)) \in Nat
    BY <1>1, HopTypes DEF TypeOK
  <2>1. CASE phase = "hops"
    <3>1. Len(Hops(at)) \in Nat
      BY <1>1, <2>0, <2>1 DEF TypeOK
    <3> QED
      BY <2>0, <2>1, <3>1 DEF SomethingToDo, LoopCanStep
  <2>2. CASE phase = "verify"
    <3>0. /\ Tried \subseteq RequestedOracles(Hop) /\ hanging \subseteq running
          /\ Cardinality(running) <= Threads /\ Cardinality(running) \in Nat
          /\ IsFiniteSet(running)
          /\ req.parallel \in Nat /\ Threads \in Nat /\ Threads >= 1
      BY <1>1, <2>2, OraclesFinite, OneThread DEF InBounds
    <3>1. CASE running \ hanging # {}
      BY <2>2, <3>1 DEF SomethingToDo, OracleCanStep
    <3>2. CASE running = {}
      <4> SUFFICES ASSUME passed # RequestedOracles(Hop),
                          ~(failed # {} /\ (req.parallel > 1 => passed \cup failed = RequestedOracles(Hop)))
                   PROVE  OracleCanStep
        BY <2>2, <3>2 DEF SomethingToDo, LoopCanStep
      <4>1. Tried = passed \cup failed
        BY <3>2 DEF Tried
      <4>2. Tried # RequestedOracles(Hop) /\ (req.parallel > 1 \/ failed = {})
        BY <4>1
      <4>3. PICK o \in RequestedOracles(Hop) : o \notin Tried
        BY <3>0, <4>2
      <4>4. Cardinality(running) < Threads
        BY <3>0, <3>2, FS_EmptySet
      <4> QED
        BY <4>2, <4>3, <4>4 DEF OracleCanStep
    <3>3. CASE running # {} /\ running = hanging
      <4> SUFFICES ASSUME ~HangsForEver PROVE OracleCanStep
        BY <2>2 DEF SomethingToDo
      <4>1. Cardinality(running) # Threads /\ Tried # RequestedOracles(Hop)
        BY <2>2, <3>3 DEF HangsForEver, Tried
      <4>2. Cardinality(running) < Threads /\ Cardinality(running) # 0
        BY <3>0, <3>3, <4>1, FS_EmptySet
      <4>3. req.parallel > 1
        BY <3>0, <4>2 DEF Threads
      <4>4. PICK o \in RequestedOracles(Hop) : o \notin Tried
        BY <3>0, <4>1
      <4> QED
        BY <4>2, <4>3, <4>4 DEF OracleCanStep
    <3> QED
      BY <3>0, <3>1, <3>2, <3>3
  <2>3. CASE phase \notin {"hops", "verify"}
    BY <1>1, <2>0, <2>3 DEF SomethingToDo, LoopCanStep, TypeOK, Phases
  <2> QED
    BY <2>1, <2>2, <2>3
<1>2. IInv => Control
  BY DEF IInv
<1> QED
  BY <1>1, <1>2, Invariant, InBoundsInvariant, PTL

\* How far the loop is from the end of the proof at hand, in steps of the loop, and how
\* far an equivalence is from its end, in steps of its oracles: an oracle starts, and ends
\* or hangs.
HopsAt == IF at <= Len(ProofKeys) THEN Len(Hops(at)) ELSE 0
StepsLeft ==
  IF phase = "main" THEN 3 * HopsAt + 6
  ELSE IF phase = "proofs" THEN 3 * HopsAt + 5
  ELSE IF phase = "hops" THEN 3 * (HopsAt + 1 - hop) + 1
  ELSE IF phase = "hop" THEN 3 * (HopsAt + 1 - hop)
  ELSE IF phase = "verify" THEN 3 * (HopsAt + 1 - hop) - 1
  ELSE 0
AtWork == running \ hanging
OracleStepsLeft == 2 * Cardinality(RequestedOracles(Hop) \ Tried) + Cardinality(AtWork)

\* A step goes on to the next proof, or uses up some of the steps in the one at hand, or
\* some of those in the equivalence at hand.
Progress ==
  \/ at \in 1 .. Len(ProofKeys) /\ at' = at + 1
  \/ at' = at /\ StepsLeft \in Nat /\ StepsLeft' \in Nat /\ StepsLeft' < StepsLeft
  \/ /\ UNCHANGED <<at, hop, phase>> /\ phase = "verify"
     /\ OracleStepsLeft \in Nat /\ OracleStepsLeft' \in Nat
     /\ OracleStepsLeft' < OracleStepsLeft

\* Within the proof at hand.
LEMMA LoopUsesUp ==
  ASSUME TypeOK, InBounds, LoopStep \/ EquivalencePanics
  PROVE  Progress
<1>0. /\ Len(ProofKeys) \in Nat /\ at \in Nat /\ hop \in Nat /\ hop >= 1
      /\ at \in 1 .. Len(ProofKeys) + 1
      /\ \A k \in 1 .. Len(ProofKeys) : Len(Hops(k)) \in Nat
  BY HopTypes DEF TypeOK
<1>1. HopsAt \in Nat /\ (at <= Len(ProofKeys) => HopsAt = Len(Hops(at)))
  BY <1>0 DEF HopsAt
<1>2. at' = at => HopsAt' = HopsAt
  BY DEF HopsAt, Hops
<1>3. /\ phase \in {"hops", "hop", "verify"} => at <= Len(ProofKeys)
      /\ phase \in {"hop", "verify"} => hop <= HopsAt
      /\ phase = "hops" => hop <= HopsAt + 1
  BY <1>0, <1>1 DEF TypeOK, InBounds
<1> DEFINE h == HopsAt
<1>4. h \in Nat
  BY <1>1
<1>5. ASSUME phase # "done", phase \in Phases PROVE StepsLeft \in Nat /\ StepsLeft > 0
  <2> HIDE DEF h
  <2>1. CASE phase = "main"
    <3>1. StepsLeft = 3 * h + 6
      BY <2>1 DEF StepsLeft, h
    <3> QED
      BY <1>4, <3>1
  <2>2. CASE phase = "proofs"
    <3>1. StepsLeft = 3 * h + 5
      BY <2>2 DEF StepsLeft, h
    <3> QED
      BY <1>4, <3>1
  <2>3. CASE phase = "hops"
    <3>1. StepsLeft = 3 * (h + 1 - hop) + 1 /\ hop <= h + 1
      BY <1>3, <2>3 DEF StepsLeft, h
    <3> QED
      BY <1>0, <1>4, <3>1
  <2>4. CASE phase = "hop"
    <3>1. StepsLeft = 3 * (h + 1 - hop) /\ hop <= h
      BY <1>3, <2>4 DEF StepsLeft, h
    <3> QED
      BY <1>0, <1>4, <3>1
  <2>5. CASE phase = "verify"
    <3>1. StepsLeft = 3 * (h + 1 - hop) - 1 /\ hop <= h
      BY <1>3, <2>5 DEF StepsLeft, h
    <3> QED
      BY <1>0, <1>4, <3>1
  <2> QED
    BY <1>5, <2>1, <2>2, <2>3, <2>4, <2>5 DEF Phases
<1>6. ASSUME at' = at, phase # "done", phase' = "done" PROVE Progress
  <2>1. StepsLeft' = 0
    BY <1>6 DEF StepsLeft
  <2> QED
    BY <1>5, <1>6, <2>1 DEF Progress, TypeOK
<1>7. ASSUME at' = at, hop' = hop + 1, phase' = "hops", phase \in {"hops", "hop", "verify"},
             phase = "hops" => hop <= HopsAt
      PROVE  Progress
  <2>1. hop <= h
    BY <1>3, <1>7
  <2>2. StepsLeft' = 3 * (h + 1 - (hop + 1)) + 1
    BY <1>2, <1>7 DEF StepsLeft
  <2>3. StepsLeft \in {3 * (h + 1 - hop) + 1, 3 * (h + 1 - hop), 3 * (h + 1 - hop) - 1}
    BY <1>7 DEF StepsLeft
  <2> HIDE DEF h
  <2> QED
    BY <1>0, <1>4, <1>7, <2>1, <2>2, <2>3 DEF Progress
<1>8. CASE Main
  <2>1. CASE phase' = "proofs"
    <3>1. StepsLeft = 3 * h + 6 /\ StepsLeft' = 3 * h + 5 /\ at' = at
      BY <1>2, <1>8, <2>1 DEF Main, StepsLeft
    <3> HIDE DEF h
    <3> QED
      BY <1>4, <3>1 DEF Progress
  <2> QED
    BY <1>6, <1>8, <2>1 DEF Main
<1>9. CASE SkipProof \/ FinishProof
  BY <1>0, <1>3, <1>9 DEF SkipProof, FinishProof, Progress
<1>10. CASE StartProof
  <2>1. StepsLeft = 3 * h + 5 /\ StepsLeft' = 3 * (h + 1 - 1) + 1 /\ at' = at
    BY <1>2, <1>10 DEF StartProof, StepsLeft
  <2> HIDE DEF h
  <2> QED
    BY <1>4, <2>1 DEF Progress
<1>11. CASE SkipStep
  <2>1. hop <= HopsAt
    BY <1>1, <1>3, <1>11 DEF SkipStep
  <2> QED
    BY <1>7, <1>11, <2>1 DEF SkipStep
<1>12. CASE StartStep
  <2>1. hop <= HopsAt
    BY <1>1, <1>3, <1>12 DEF StartStep
  <2>2. StepsLeft = 3 * (h + 1 - hop) + 1 /\ StepsLeft' = 3 * (h + 1 - hop) /\ at' = at
    BY <1>2, <1>12 DEF StartStep, StepsLeft
  <2> HIDE DEF h
  <2>3. hop <= h
    BY <2>1 DEF h
  <2> QED
    BY <1>0, <1>4, <2>2, <2>3 DEF Progress
<1>13. CASE Reduction
  BY <1>6, <1>7, <1>13 DEF Reduction, FinishStep
<1>14. CASE StartEquivalence
  <2>1. CASE phase' = "verify"
    <3>1. StepsLeft = 3 * (h + 1 - hop) /\ StepsLeft' = 3 * (h + 1 - hop) - 1 /\ at' = at
      BY <1>2, <1>14, <2>1 DEF StartEquivalence, StepsLeft
    <3>2. hop <= h
      BY <1>3, <1>14 DEF StartEquivalence
    <3> HIDE DEF h
    <3> QED
      BY <1>0, <1>4, <3>1, <3>2 DEF Progress
  <2> QED
    BY <1>6, <1>14, <2>1 DEF StartEquivalence
<1>15. CASE EquivalenceOk
  BY <1>7, <1>15 DEF EquivalenceOk, FinishStep
<1>16. CASE EquivalenceErr \/ EquivalencePanics \/ Finish
  BY <1>6, <1>16 DEF EquivalenceErr, EquivalencePanics, Finish
<1> QED
  BY <1>8, <1>9, <1>10, <1>11, <1>12, <1>13, <1>14, <1>15, <1>16 DEF LoopStep

\* Within the equivalence at hand: an oracle that starts leaves those to be tried, one
\* that ends or hangs leaves those at work.
LEMMA OracleUsesUp ==
  ASSUME TypeOK, InBounds, OracleStep \/ OracleHangs
  PROVE  Progress
<1> DEFINE R == RequestedOracles(Hop)
           Untried == R \ Tried
<1>0. phase = "verify" /\ IsFiniteSet(R) /\ running \subseteq R /\ hanging \subseteq running
  BY OraclesFinite DEF OracleStep, OracleHangs, InBounds
<1>1. IsFiniteSet(AtWork) /\ IsFiniteSet(Untried)
  BY <1>0, FS_Subset DEF AtWork
<1>2. Cardinality(AtWork) \in Nat /\ Cardinality(Untried) \in Nat
  BY <1>1, FS_CardinalityType
<1>3. OracleStepsLeft = 2 * Cardinality(Untried) + Cardinality(AtWork)
  BY DEF OracleStepsLeft
<1>4. ASSUME NEW o, StartOracle(o) PROVE Progress
  <2>1. /\ UNCHANGED <<at, hop, phase>> /\ R' = R /\ Tried' = Tried \cup {o}
        /\ o \in Untried /\ o \notin AtWork /\ AtWork' = AtWork \cup {o}
    BY <1>0, <1>4 DEF StartOracle, Tried, AtWork, RequestedOracles, Hop
  <2>2. Cardinality(AtWork') = Cardinality(AtWork) + 1
    BY <1>1, <2>1, FS_AddElement
  <2>3. R' \ Tried' = Untried \ {o}
    BY <2>1
  <2>4. Cardinality(R' \ Tried') = Cardinality(Untried) - 1
    BY <1>1, <2>1, <2>3, FS_RemoveElement
  <2>5. OracleStepsLeft' = 2 * (Cardinality(Untried) - 1) + (Cardinality(AtWork) + 1)
    BY <2>2, <2>4 DEF OracleStepsLeft
  <2>6. Cardinality(Untried) # 0
    BY <1>1, <2>1, FS_EmptySet
  <2> HIDE DEF Untried, R
  <2> QED
    BY <1>0, <1>2, <1>3, <2>1, <2>5, <2>6 DEF Progress
<1>5. ASSUME NEW o, PassOracle(o) \/ FailOracle(o) \/ HangOracle(o) PROVE Progress
  <2>1. /\ UNCHANGED <<at, hop, phase>> /\ R' = R /\ Tried' = Tried
        /\ o \in AtWork /\ AtWork' = AtWork \ {o}
    BY <1>5 DEF PassOracle, FailOracle, HangOracle, Tried, AtWork, RequestedOracles, Hop
  <2>2. Cardinality(AtWork') = Cardinality(AtWork) - 1
    BY <1>1, <2>1, FS_RemoveElement
  <2>3. OracleStepsLeft' = 2 * Cardinality(Untried) + (Cardinality(AtWork) - 1)
    BY <2>1, <2>2 DEF OracleStepsLeft
  <2>4. Cardinality(AtWork) # 0
    BY <1>1, <2>1, FS_EmptySet
  <2> HIDE DEF Untried, R
  <2> QED
    BY <1>0, <1>2, <1>3, <2>1, <2>3, <2>4 DEF Progress
<1> QED
  BY <1>4, <1>5 DEF OracleStep, OracleHangs

\* Every step brings the command nearer to its end, by a number of steps that the project
\* bounds; with NeverWaitsInVain this is what EventuallyEnds rests on.
THEOREM StepsRunOut == Spec => [][Progress]_vars
<1>1. TypeOK /\ InBounds /\ [Next]_vars => [Progress]_vars
  BY LoopUsesUp, OracleUsesUp DEF Next, OracleHangs, Over
<1> QED
  BY <1>1, InBoundsInvariant, PTL DEF Spec

-----------------------------------------------------------------------------
(* What the loop makes of each equivalence is what EquivalenceGoal promises, and *)
(* what the jobs of Equivalence are shown to do there (ImplementsGoal).          *)

\* The equivalence the loop is in, or has ended in.
IsAtHand(k, i) == at = k /\ hop = i /\ (phase = "verify" \/ result \in {"err", "panic"})
Asked(r, k, i) == {o \in Hops(k)[i].exports : r.oracle \in {NoReq, o}}
StatusOf(k, i, o) ==
  IF <<k, i>> \in checked \/ (IsAtHand(k, i) /\ o \in passed) THEN "proved"
  ELSE IF IsAtHand(k, i) /\ o \in failed THEN "failed"
  ELSE "open"
AnswerOf(k, i) ==
  IF <<k, i>> \in checked THEN "ok"
  ELSE IF IsAtHand(k, i) THEN result
  ELSE "none"

\* The goal of the i-th game hop of the k-th proof under the command line r.
Goal(r, k, i) == INSTANCE EquivalenceGoal WITH
  Oracles <- Asked(r, k, i),
  Holding <- Hops(k)[i].holding,
  status <- [o \in Asked(r, k, i) |-> StatusOf(k, i, o)],
  answer <- AnswerOf(k, i)

\* Each oracle that has been started is at work, or has passed, or has failed.
OneFate ==
  phase = "verify" =>
    /\ running \cap passed = {} /\ running \cap failed = {} /\ passed \cap failed = {}

LEMMA OneFateStep == ASSUME OneFate, [Next]_vars PROVE OneFate'
<1>1. ASSUME phase' # "verify" PROVE OneFate'
  BY <1>1 DEF OneFate
<1>2. CASE Main \/ SkipProof \/ StartProof \/ FinishProof \/ SkipStep \/ StartStep \/ Reduction
           \/ EquivalenceOk \/ EquivalenceErr \/ EquivalencePanics \/ Finish
  <2>1. phase' # "verify"
    BY <1>2 DEF Main, SkipProof, StartProof, FinishProof, SkipStep, StartStep, Reduction, FinishStep,
                EquivalenceOk, EquivalenceErr, EquivalencePanics, Finish
  <2> QED
    BY <1>1, <2>1
<1>3. CASE StartEquivalence
  BY <1>3 DEF StartEquivalence, OneFate
<1>4. ASSUME NEW o, StartOracle(o) PROVE OneFate'
  BY <1>4 DEF StartOracle, OneFate
<1>5. ASSUME NEW o, PassOracle(o) PROVE OneFate'
  BY <1>5 DEF PassOracle, OneFate
<1>6. ASSUME NEW o, FailOracle(o) \/ HangOracle(o) PROVE OneFate'
  BY <1>6 DEF FailOracle, HangOracle, OneFate
<1>7. CASE UNCHANGED vars
  BY <1>7 DEF vars, hopVars, OneFate
<1> QED
  BY <1>2, <1>3, <1>4, <1>5, <1>6, <1>7 DEF Next, LoopStep, OracleStep, OracleHangs, Over

\* An equivalence at hand has not been accepted before.
LEMMA AtHandIsOpen ==
  ASSUME IInv, NEW k \in 1 .. Len(ProofKeys), NEW i \in HopsOf(k), IsAtHand(k, i)
  PROVE  <<k, i>> \notin checked
BY HopTypes DEF IInv, CheckedInOrder, IsBehind, IsAtHand, TypeOK, HopsOf

\* A step that does not accept this equivalence, and finds it and leaves it not at hand,
\* changes nothing about it.
LEMMA FarFromHand ==
  ASSUME NEW k, NEW i, <<k, i>> \in checked' <=> <<k, i>> \in checked,
         ~IsAtHand(k, i), ~IsAtHand(k, i)'
  PROVE  AnswerOf(k, i)' = AnswerOf(k, i) /\ \A o : StatusOf(k, i, o)' = StatusOf(k, i, o)
BY DEF AnswerOf, StatusOf

\* One step of the loop, or of an oracle, is a step of the goal or leaves it alone.
LEMMA GoalStep ==
  ASSUME NEW r, r = req, NEW k \in 1 .. Len(ProofKeys), NEW i \in HopsOf(k),
         IInv, InBounds, OneFate, IInv', [Next]_vars
  PROVE  [Goal(r, k, i)!GoalNext]_(Goal(r, k, i)!goalVars)
<1> DEFINE asked == Asked(r, k, i)
           answer == AnswerOf(k, i)
           status == [o \in asked |-> StatusOf(k, i, o)]
           Here == at = k /\ hop = i
<1>0. /\ IsAtHand(k, i) => <<k, i>> \notin checked
      /\ phase # "done" => result = "none"
      /\ phase' # "done" => result' = "none"
  BY AtHandIsOpen DEF IInv, Control
<1>1. ASSUME AnswerOf(k, i)' = AnswerOf(k, i), \A o : StatusOf(k, i, o)' = StatusOf(k, i, o)
      PROVE  UNCHANGED (Goal(r, k, i)!goalVars)
  BY <1>1 DEF Goal!goalVars
<1>2. ASSUME phase \notin {"verify", "done"}, phase' # "verify", result' \notin {"err", "panic"},
             UNCHANGED checked
      PROVE  UNCHANGED (Goal(r, k, i)!goalVars)
  BY <1>0, <1>1, <1>2, FarFromHand DEF IsAtHand
<1>3. CASE Main \/ SkipProof \/ StartProof \/ FinishProof \/ SkipStep \/ StartStep \/ Finish
  <2>1. /\ phase \notin {"verify", "done"} /\ phase' # "verify" /\ UNCHANGED checked
        /\ result' = result \/ result' \in {"assert", "ok"}
    BY <1>3 DEF Main, SkipProof, StartProof, FinishProof, SkipStep, StartStep, Finish
  <2> QED
    BY <1>0, <1>2, <2>1
<1>4. CASE Reduction
  <2>1. /\ phase \notin {"verify", "done"} /\ phase' # "verify" /\ UNCHANGED checked
        /\ result' = result \/ result' = "unreachable"
    BY <1>4 DEF Reduction, FinishStep
  <2> QED
    BY <1>0, <1>2, <2>1
<1>5. CASE StartEquivalence
  <2>1. /\ phase = "hop" /\ UNCHANGED <<at, hop, checked>> /\ passed' = {} /\ failed' = {}
        /\ phase' = "verify" \/ result' = "unreachable"
    BY <1>5 DEF StartEquivalence
  <2>2. AnswerOf(k, i)' = AnswerOf(k, i)
    BY <1>0, <2>1 DEF AnswerOf, IsAtHand
  <2>3. \A o : StatusOf(k, i, o)' = StatusOf(k, i, o)
    BY <1>0, <2>1 DEF StatusOf, IsAtHand
  <2> QED
    BY <1>1, <2>2, <2>3
\* What follows happens in the equivalence at hand.
<1>6. ASSUME phase = "verify", ~Here, UNCHANGED <<at, hop>> \/ phase' = "hops",
             checked' \subseteq checked \cup {<<at, hop>>}, checked \subseteq checked'
      PROVE  UNCHANGED (Goal(r, k, i)!goalVars)
  <2>1. ~IsAtHand(k, i) /\ ~IsAtHand(k, i)'
    BY <1>0, <1>6 DEF IsAtHand
  <2>2. <<k, i>> \in checked' <=> <<k, i>> \in checked
    BY <1>6
  <2> QED
    BY <1>1, <2>1, <2>2, FarFromHand
<1>7. ASSUME phase = "verify", Here
      PROVE  /\ IsAtHand(k, i) /\ <<k, i>> \notin checked /\ answer = "none"
             /\ asked = RequestedOracles(Hop) /\ Hop = Hops(k)[i]
             /\ running \cup passed \cup failed \subseteq asked /\ passed \subseteq Hop.holding
             /\ running \cap passed = {} /\ running \cap failed = {} /\ passed \cap failed = {}
  <2>1. Hop = Hops(k)[i] /\ IsAtHand(k, i)
    BY <1>7 DEF Hop, IsAtHand
  <2>2. asked = RequestedOracles(Hop)
    BY <2>1 DEF Asked, RequestedOracles
  <2>3. answer = "none"
    BY <1>0, <1>7, <2>1 DEF AnswerOf
  <2> QED
    BY <1>0, <1>7, <2>1, <2>2, <2>3 DEF InBounds, Tried, OneFate, IInv, Control
<1>8. CASE EquivalenceOk
  <2>1. /\ phase = "verify" /\ phase' = "hops" /\ passed = RequestedOracles(Hop)
        /\ checked' = checked \cup {<<at, hop>>}
    BY <1>8 DEF EquivalenceOk, FinishStep
  <2>2. CASE ~Here
    BY <1>6, <2>1, <2>2
  <2>3. CASE Here
    <3>1. AnswerOf(k, i)' = "ok" /\ \A o \in asked : StatusOf(k, i, o)' = "proved"
      BY <2>1, <2>3 DEF AnswerOf, StatusOf
    <3>2. \A o \in asked : StatusOf(k, i, o) = "proved"
      BY <1>7, <2>1, <2>3 DEF StatusOf
    <3>3. Goal(r, k, i)!AnswerOk
      BY <1>7, <2>1, <2>3, <3>1, <3>2 DEF Goal!AnswerOk
    <3> QED
      BY <3>3 DEF Goal!GoalNext
  <2> QED
    BY <2>2, <2>3
<1>9. CASE EquivalenceErr \/ EquivalencePanics
  <2>1. /\ phase = "verify" /\ UNCHANGED <<at, hop, passed, failed, checked>>
        /\ \/ EquivalenceErr /\ failed # {} /\ result' = "err"
           \/ result' = "panic"
    BY <1>9 DEF EquivalenceErr, EquivalencePanics, hopVars
  <2>2. CASE ~Here
    BY <1>6, <2>1, <2>2
  <2>3. CASE Here
    <3>1. IsAtHand(k, i)' /\ <<k, i>> \notin checked'
      BY <1>7, <2>1, <2>3 DEF IsAtHand
    <3>2. AnswerOf(k, i)' = result' /\ \A o : StatusOf(k, i, o)' = StatusOf(k, i, o)
      BY <1>7, <2>1, <2>3, <3>1 DEF AnswerOf, StatusOf
    <3>3. CASE result' = "panic"
      <4>1. Goal(r, k, i)!AnswerPanic
        BY <1>7, <2>1, <2>3, <3>2, <3>3 DEF Goal!AnswerPanic
      <4> QED
        BY <4>1 DEF Goal!GoalNext
    <3>4. CASE failed # {} /\ result' = "err"
      <4>1. PICK o \in failed : TRUE
        BY <3>4
      <4>2. o \in asked /\ StatusOf(k, i, o) = "failed"
        BY <1>7, <2>1, <2>3, <4>1 DEF StatusOf
      <4>3. Goal(r, k, i)!AnswerErr
        BY <1>7, <2>1, <2>3, <3>2, <3>4, <4>2 DEF Goal!AnswerErr
      <4> QED
        BY <4>3 DEF Goal!GoalNext
    <3> QED
      BY <2>1, <3>3, <3>4
  <2> QED
    BY <2>2, <2>3
<1>10. ASSUME NEW o, StartOracle(o) \/ PassOracle(o) \/ FailOracle(o) \/ HangOracle(o)
       PROVE  [Goal(r, k, i)!GoalNext]_(Goal(r, k, i)!goalVars)
  <2>1. /\ phase = "verify" /\ UNCHANGED <<phase, at, hop, checked, result>>
        /\ \/ passed' = passed /\ failed' = failed
           \/ o \in running /\ o \in Hop.holding /\ passed' = passed \cup {o} /\ failed' = failed
           \/ o \in running /\ passed' = passed /\ failed' = failed \cup {o}
    BY <1>10 DEF StartOracle, PassOracle, FailOracle, HangOracle
  <2>2. CASE ~Here
    BY <1>6, <2>1, <2>2
  <2>3. CASE Here
    <3>1. IsAtHand(k, i)' /\ <<k, i>> \notin checked'
      BY <1>7, <2>1, <2>3 DEF IsAtHand
    <3>2. AnswerOf(k, i)' = AnswerOf(k, i)
      BY <1>7, <2>1, <2>3, <3>1 DEF AnswerOf
    <3>3. CASE passed' = passed /\ failed' = failed
      BY <1>1, <1>7, <2>1, <2>3, <3>1, <3>2, <3>3 DEF StatusOf
    <3>4. ASSUME o \in running
          PROVE  o \in asked /\ StatusOf(k, i, o) = "open"
      BY <1>7, <2>1, <2>3, <3>4 DEF StatusOf
    <3>5. CASE o \in running /\ o \in Hop.holding /\ passed' = passed \cup {o} /\ failed' = failed
      <4>1. \A p : StatusOf(k, i, p)' = IF p = o THEN "proved" ELSE StatusOf(k, i, p)
        BY <1>7, <2>1, <2>3, <3>1, <3>5 DEF StatusOf
      <4>2. Goal(r, k, i)!Prove(o)
        BY <1>7, <2>1, <2>3, <3>2, <3>4, <3>5, <4>1 DEF Goal!Prove
      <4> QED
        BY <3>4, <3>5, <4>2 DEF Goal!GoalNext
    <3>6. CASE o \in running /\ passed' = passed /\ failed' = failed \cup {o}
      <4>1. \A p : StatusOf(k, i, p)' = IF p = o THEN "failed" ELSE StatusOf(k, i, p)
        BY <1>7, <2>1, <2>3, <3>1, <3>6 DEF StatusOf
      <4>2. Goal(r, k, i)!GiveUp(o)
        BY <1>7, <2>1, <2>3, <3>2, <3>4, <3>6, <4>1 DEF Goal!GiveUp
      <4> QED
        BY <3>4, <3>6, <4>2 DEF Goal!GoalNext
    <3> QED
      BY <2>1, <3>3, <3>5, <3>6
  <2> QED
    BY <2>2, <2>3
<1>11. CASE UNCHANGED vars
  <2>1. UNCHANGED <<phase, at, hop, passed, failed, checked, result>>
    BY <1>11 DEF vars, hopVars
  <2> QED
    BY <1>1, <2>1 DEF AnswerOf, StatusOf, IsAtHand
<1> QED
  BY <1>3, <1>4, <1>5, <1>8, <1>9, <1>10, <1>11 DEF Next, LoopStep, OracleStep, OracleHangs, Over

\* Whatever the command line, the loop treats every equivalence as EquivalenceGoal
\* promises: its oracles are settled one by one, none is called proved that does not hold,
\* it is accepted only when all that were asked for are proved, and the command ends in an
\* error there only if one of them failed.
THEOREM HopsMeetTheirGoals ==
  ASSUME NEW r, NEW k \in 1 .. Len(ProofKeys), NEW i \in HopsOf(k)
  PROVE  Spec /\ req = r => Goal(r, k, i)!GoalSpec
<1>1. Init => Goal(r, k, i)!GoalInit
  BY DEF Init, Goal!GoalInit, StatusOf, AnswerOf, IsAtHand
<1>2. Init => OneFate
  BY DEF Init, OneFate
<1>3. OneFate /\ [Next]_vars => OneFate'
  BY OneFateStep
<1>4. req = r /\ [Next]_vars => (req = r)'
  BY DEF Next, LoopStep, OracleStep, OracleHangs, Main, SkipProof, StartProof, FinishProof, SkipStep, StartStep,
         Reduction, FinishStep, StartEquivalence, EquivalenceOk, EquivalenceErr, EquivalencePanics,
         Finish, StartOracle, PassOracle, FailOracle, HangOracle, Over, vars
<1>5. req = r /\ IInv /\ IInv' /\ InBounds /\ OneFate /\ [Next]_vars
        => [Goal(r, k, i)!GoalNext]_(Goal(r, k, i)!goalVars)
  BY GoalStep
<1> QED
  BY <1>1, <1>2, <1>3, <1>4, <1>5, Invariant, InBoundsInvariant, PTL DEF Spec, Goal!GoalSpec
=============================================================================
