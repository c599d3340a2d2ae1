------------------------- MODULE EquivalenceProofs -------------------------
(***************************************************************************)
(* Proofs about Equivalence, for every project, number of threads and      *)
(* solver: its types, that Ok is returned only for verified oracles, that  *)
(* both ways of checking an equivalence implement EquivalenceGoal, that    *)
(* verify_parallel reports every failure, and that the jobs neither wait   *)
(* for nothing nor run for ever.                                           *)
(***************************************************************************)
EXTENDS Equivalence, FiniteSetTheorems, SequenceTheorems, TLAPS

\* The jobs partition the requested oracles, whichever way they are run: the
\* lists of verify and of verify_parallel hold requested oracles only, and
\* every requested oracle is in one of them.
LEMMA JobLists ==
  /\ Len(JobList) \in Nat
  /\ \A j \in Jobs : /\ Len(JobList[j]) \in Nat
                     /\ \A i \in 1 .. Len(JobList[j]) : JobList[j][i] \in Oracles
  /\ \A o \in Oracles : \E j \in Jobs : \E i \in 1 .. Len(JobList[j]) : JobList[j][i] = o
<1>1. Exports \in Seq(DOMAIN Truth)
  BY EquivalenceAssumption
<1>2. Len(OracleSequence) \in Nat
  BY <1>1 DEF OracleSequence
<1>3. CASE IsParallel
  <2>1. JobList = [i \in 1 .. Len(OracleSequence) |-> <<OracleSequence[i]>>]
    BY <1>3 DEF JobList
  <2>2. Len(JobList) = Len(OracleSequence)
    BY <2>1, <1>2
  <2>3. \A j \in Jobs : JobList[j] = <<OracleSequence[j]>>
    BY <2>1, <2>2 DEF Jobs
  <2>4. \A j \in Jobs : Len(JobList[j]) = 1 /\ JobList[j][1] = OracleSequence[j]
    BY <2>3
  <2> QED
    BY <2>2, <2>4, <1>2 DEF Jobs, Oracles
<1>4. CASE ~IsParallel
  <2>1. JobList = <<OracleSequence>>
    BY <1>4 DEF JobList
  <2>2. Len(JobList) = 1 /\ JobList[1] = OracleSequence
    BY <2>1
  <2> QED
    BY <2>2, <1>2 DEF Jobs, Oracles
<1> QED
  BY <1>3, <1>4

\* The claims and files of an oracle are sequences.
LEMMA ProofFileTypes ==
  /\ \A o \in DOMAIN Trees : Len(Claims(o)) \in Nat
  /\ \A o : Len(Files(o)) \in Nat
BY EquivalenceAssumption DEF Claims, Files

\* The three ways in which a step moves a job keep the job's types.
LEMMA JobMoves ==
  ASSUME TypeOK, NEW j \in Jobs,
         \/ \E s \in JobStates : Goto(j, s)
         \/ \E e \in Errors : Fail(j, e)
         \/ Panic(j)
  PROVE  /\ state' \in [Jobs -> JobStates]
         /\ error' \in [Jobs -> Errors]
         /\ reported' \subseteq Jobs
<1>1. ASSUME NEW s \in JobStates, Goto(j, s)
      PROVE  /\ state' \in [Jobs -> JobStates] /\ error' \in [Jobs -> Errors]
             /\ reported' \subseteq Jobs
  BY <1>1 DEF TypeOK, Goto
<1>2. ASSUME NEW e \in Errors, Fail(j, e)
      PROVE  /\ state' \in [Jobs -> JobStates] /\ error' \in [Jobs -> Errors]
             /\ reported' \subseteq Jobs
  BY <1>2 DEF TypeOK, Fail, JobStates
<1>3. CASE Panic(j)
  BY <1>3 DEF TypeOK, Panic, JobStates
<1> QED
  BY <1>1, <1>2, <1>3

LEMMA FailedIsFinite == Cardinality(Failed) \in Nat
<1>1. IsFiniteSet(Jobs)
  BY JobLists, FS_Interval DEF Jobs
<1> QED
  BY <1>1, FS_Subset, FS_CardinalityType DEF Failed

\* A job in the middle of an oracle has not run past the end of its list.
InList == \A j \in Jobs :
  state[j] \in {"files", "claims", "asked"} => pos[j] <= Len(JobList[j])

\* Only StartOracle takes a job into an oracle, and it looks at the list first.
LEMMA InListStep == ASSUME TypeOK, InList, [Next]_vars PROVE InList'
<1>1. ASSUME NEW j \in Jobs, StartOracle(j) PROVE InList'
  BY <1>1 DEF TypeOK, InList, StartOracle, Goto, Panic
<1>2. ASSUME NEW j \in Jobs, Begin(j) PROVE InList'
  BY <1>2 DEF TypeOK, InList, Begin, Goto
<1>3. ASSUME NEW j \in Jobs, ReadInvariant(j) PROVE InList'
  BY <1>3 DEF TypeOK, InList, ReadInvariant, Goto, Fail
<1>4. ASSUME NEW j \in Jobs, InvariantsRead(j) PROVE InList'
  BY <1>4 DEF TypeOK, InList, InvariantsRead, Goto
<1>5. ASSUME NEW j \in Jobs, AssertClaim(j) PROVE InList'
  BY <1>5 DEF TypeOK, InList, AssertClaim, Goto, Panic
<1>6. ASSUME NEW j \in Jobs, ClaimVerdict(j) PROVE InList'
  BY <1>6 DEF TypeOK, InList, ClaimVerdict, Goto, Fail
<1>7. ASSUME NEW j \in Jobs, FinishOracle(j) PROVE InList'
  BY <1>7 DEF TypeOK, InList, FinishOracle, Goto
<1>8. ASSUME NEW j \in Jobs, JobDone(j) PROVE InList'
  BY <1>8 DEF TypeOK, InList, JobDone, Goto
<1>9. ASSUME NEW j \in Jobs, SessionBreaks(j) PROVE InList'
  BY <1>9 DEF TypeOK, InList, SessionBreaks, Fail, Panic
<1>10. ASSUME NEW j \in Jobs, SessionHangs(j) PROVE InList'
  BY <1>10 DEF TypeOK, InList, SessionHangs, Goto
<1>11. CASE UNCHANGED <<state, pos>>
  BY <1>11 DEF InList
<1> QED
  BY <1>1, <1>2, <1>3, <1>4, <1>5, <1>6, <1>7, <1>8, <1>9, <1>10, <1>11
  DEF Next, JobStep, Over, Return, Unwind, vars, jobVars

\* Types, and that no job runs past its list, together are inductive.
LEMMA TypeInvariant == Spec => [](TypeOK /\ InList)
<1>1. Init => TypeOK /\ InList
  BY JobLists DEF Init, TypeOK, JobStates, Errors, InList
<1>2. TypeOK /\ InList /\ [Next]_vars => (TypeOK /\ InList)'
  <2> SUFFICES ASSUME TypeOK, InList, [Next]_vars PROVE TypeOK'
    BY InListStep
  <2> DEFINE Moved == /\ state' \in [Jobs -> JobStates]
                      /\ error' \in [Jobs -> Errors]
                      /\ reported' \subseteq Jobs
  <2>0. {"open", "files", "claims", "asked", "hung", "ok"} \subseteq JobStates
    BY DEF JobStates, Running, Working
  <2>1. ASSUME NEW j \in Jobs, Begin(j) PROVE TypeOK'
    <3>1. Moved
      BY <2>0, <2>1, JobMoves DEF Begin
    <3> QED
      BY <2>1, <3>1 DEF TypeOK, Begin, barVars
  <2>2. ASSUME NEW j \in Jobs, StartOracle(j) PROVE TypeOK'
    <3>1. Oracle(j) \in Oracles
      BY <2>2, JobLists DEF StartOracle, Oracle, TypeOK
    <3>2. Goto(j, "files") \/ Panic(j)
      BY <2>2 DEF StartOracle
    <3>3. Moved
      BY <2>0, <3>2, JobMoves
    <3>4. next' \in [Jobs -> Nat] /\ lemmaBar' \in [Oracles -> Nat]
      <4>1. next' = next \/ next' = [next EXCEPT ![j] = 1]
        BY <2>2 DEF StartOracle
      <4>2. lemmaBar' = lemmaBar \/ lemmaBar' = [lemmaBar EXCEPT ![Oracle(j)] = 0]
        BY <2>2 DEF StartOracle
      <4>3. [next EXCEPT ![j] = 1] \in [Jobs -> Nat]
        BY DEF TypeOK
      <4>4. [lemmaBar EXCEPT ![Oracle(j)] = 0] \in [Oracles -> Nat]
        BY DEF TypeOK
      <4> QED
        BY <4>1, <4>2, <4>3, <4>4 DEF TypeOK
    <3>5. UNCHANGED <<pos, stepBar, result, failures>>
      BY <2>2 DEF StartOracle
    <3> QED
      BY <3>3, <3>4, <3>5 DEF TypeOK
  <2>3. ASSUME NEW j \in Jobs, ReadInvariant(j) PROVE TypeOK'
    <3>1. Goto(j, "files") \/ Fail(j, "UnsatAfterInvariantRead")
      BY <2>3 DEF ReadInvariant
    <3>2. Moved
      BY <2>0, <3>1, JobMoves DEF Errors
    <3>3. next' = next \/ next' = [next EXCEPT ![j] = @ + 1]
      BY <2>3 DEF ReadInvariant
    <3>4. UNCHANGED <<pos, lemmaBar, stepBar, result, failures>>
      BY <2>3 DEF ReadInvariant, barVars
    <3> QED
      BY <3>2, <3>3, <3>4 DEF TypeOK
  <2>4. ASSUME NEW j \in Jobs, InvariantsRead(j) PROVE TypeOK'
    <3>1. Moved
      BY <2>0, <2>4, JobMoves DEF InvariantsRead
    <3> QED
      BY <2>4, <3>1 DEF TypeOK, InvariantsRead, barVars
  <2>5. ASSUME NEW j \in Jobs, AssertClaim(j) PROVE TypeOK'
    <3>1. Goto(j, "asked") \/ Panic(j)
      BY <2>5 DEF AssertClaim
    <3>2. Moved
      BY <2>0, <3>1, JobMoves
    <3> QED
      BY <2>5, <3>2 DEF TypeOK, AssertClaim, barVars
  <2>6. ASSUME NEW j \in Jobs, ClaimVerdict(j) PROVE TypeOK'
    <3>1. Goto(j, "claims") \/ Fail(j, "ClaimProofFailed")
      BY <2>6 DEF ClaimVerdict
    <3>2. Moved
      BY <2>0, <3>1, JobMoves DEF Errors
    <3>3. next' = next \/ next' = [next EXCEPT ![j] = @ + 1]
      BY <2>6 DEF ClaimVerdict
    <3>4. lemmaBar' = lemmaBar \/ lemmaBar' = [lemmaBar EXCEPT ![Oracle(j)] = @ + 1]
      BY <2>6 DEF ClaimVerdict
    <3>5. UNCHANGED <<pos, stepBar, result, failures>>
      BY <2>6 DEF ClaimVerdict
    <3>6. Oracle(j) \in Oracles
      BY <2>6, JobLists DEF ClaimVerdict, Oracle, TypeOK, InList
    <3>7. [lemmaBar EXCEPT ![Oracle(j)] = @ + 1] \in [Oracles -> Nat]
      BY <3>6 DEF TypeOK
    <3>8. [next EXCEPT ![j] = @ + 1] \in [Jobs -> Nat]
      BY DEF TypeOK
    <3> QED
      BY <3>2, <3>3, <3>4, <3>5, <3>7, <3>8 DEF TypeOK
  <2>7. ASSUME NEW j \in Jobs, FinishOracle(j) PROVE TypeOK'
    <3>1. Moved
      BY <2>0, <2>7, JobMoves DEF FinishOracle
    <3>2. pos[j] <= Len(JobList[j])
      BY <2>7 DEF FinishOracle, InList
    <3>3. pos' \in [Jobs -> Nat] /\ \A i \in Jobs : pos'[i] \in 1 .. Len(JobList[i]) + 1
      BY <2>7, <3>2, JobLists DEF TypeOK, FinishOracle
    <3> QED
      BY <2>7, <3>1, <3>3 DEF TypeOK, FinishOracle
  <2>8. ASSUME NEW j \in Jobs, JobDone(j) PROVE TypeOK'
    <3>1. Moved
      BY <2>0, <2>8, JobMoves DEF JobDone
    <3> QED
      BY <2>8, <3>1 DEF TypeOK, JobDone, barVars
  <2>9. ASSUME NEW j \in Jobs, SessionBreaks(j) PROVE TypeOK'
    <3>1. Moved
      BY <2>9, JobMoves DEF SessionBreaks, Errors
    <3> QED
      BY <2>9, <3>1 DEF TypeOK, SessionBreaks, barVars
  <2>10. ASSUME NEW j \in Jobs, SessionHangs(j) PROVE TypeOK'
    <3>1. Moved
      BY <2>0, <2>10, JobMoves DEF SessionHangs
    <3> QED
      BY <2>10, <3>1 DEF TypeOK, SessionHangs, barVars
  <2>11. CASE Return
    BY <2>11, FailedIsFinite DEF TypeOK, Return, jobVars, barVars
  <2>12. CASE Unwind
    BY <2>12 DEF TypeOK, Unwind, jobVars, barVars
  <2>13. CASE UNCHANGED vars
    BY <2>13 DEF TypeOK, vars, jobVars, barVars
  <2> QED
    BY <2>1, <2>2, <2>3, <2>4, <2>5, <2>6, <2>7, <2>8, <2>9, <2>10, <2>11, <2>12, <2>13
    DEF Next, JobStep, Over
<1> QED
  BY <1>1, <1>2, PTL DEF Spec

\* The progress, the error and the result of every run have their types.
THEOREM TypeCorrect == Spec => []TypeOK
BY TypeInvariant, PTL

-----------------------------------------------------------------------------
(* What the solver's answers mean on the stacks that the jobs build. *)

FilesConsistent(o, n) == \A k \in 1 .. n : Files(o)[k] \notin Contradictory
ClaimsProved(o, n) == \A k \in 1 .. n : Counterexamples(o, Claims(o)[k]) = {}

\* The level of an oracle after n of its invariant files.
Level(o, n) == {Helpers(o)} \cup {File(o, Files(o)[k]) : k \in 1 .. n}

\* What a stack of two levels tells the solver.
LEMMA ToldTwo ==
  ASSUME NEW a, NEW b
  PROVE  Told(<<a, b>>) = a \cup b
BY DEF Told

\* What a stack of three levels tells the solver.
LEMMA ToldThree ==
  ASSUME NEW a, NEW b, NEW c, NEW x \in Told(<<a, b, c>>)
  PROVE  x \in a \/ x \in b \/ x \in c
BY DEF Told

\* And all of it.
LEMMA ToldAll ==
  ASSUME NEW a, NEW b, NEW c
  PROVE  Told(<<a, b, c>>) = a \cup b \cup c
BY DEF Told

\* A sat answer after an invariant file shows that the file is consistent.
LEMMA SatFile ==
  ASSUME NEW o, NEW n \in Nat, FilesConsistent(o, n),
         "sat" \in Verdict(<<{Base}, Level(o, n + 1)>>)
  PROVE  FilesConsistent(o, n + 1)
<1>1. Satisfiable(<<{Base}, Level(o, n + 1)>>)
  BY DEF Verdict
<1>2. File(o, Files(o)[n + 1]) \in Told(<<{Base}, Level(o, n + 1)>>)
  <2>1. File(o, Files(o)[n + 1]) \in Level(o, n + 1)
    BY DEF Level
  <2>2. Told(<<{Base}, Level(o, n + 1)>>) = {Base} \cup Level(o, n + 1)
    BY ToldTwo, Zenon
  <2> QED
    BY <2>1, <2>2
<1>3. File(o, Files(o)[n + 1]).kind = "file"
      /\ File(o, Files(o)[n + 1]).file = Files(o)[n + 1]
  BY DEF File
<1>4. Files(o)[n + 1] \notin Contradictory
  BY <1>1, <1>2, <1>3 DEF Satisfiable
<1> QED
  BY <1>4 DEF FilesConsistent

\* An unsat answer on a level that holds one refuted claim, over consistent
\* files, shows that the claim has no counterexample.
LEMMA UnsatClaim ==
  ASSUME NEW o, NEW n \in Nat, NEW c, FilesConsistent(o, n),
         "unsat" \in Verdict(<<{Base}, Level(o, n), {Refute(o, c)}>>)
  PROVE  Counterexamples(o, c) = {}
<1> DEFINE stk == <<{Base}, Level(o, n), {Refute(o, c)}>>
<1>1. ~Satisfiable(stk)
  BY DEF Verdict
<1>2. \A item \in Told(stk) : item = Base \/ item \in Level(o, n) \/ item = Refute(o, c)
  <2>1. ASSUME NEW item \in Told(stk)
        PROVE  item \in {Base} \/ item \in Level(o, n) \/ item \in {Refute(o, c)}
    BY ToldThree, Zenon
  <2> QED
    BY <2>1
<1>3. \A item \in Told(stk) :
        \/ item = Base \/ item = Helpers(o) \/ item = Refute(o, c)
        \/ \E k \in 1 .. n : item = File(o, Files(o)[k])
  BY <1>2 DEF Level
<1>4. Base.kind = "base" /\ Helpers(o).kind = "helpers"
  BY DEF Base, Helpers
<1>5. Refute(o, c).kind = "refute" /\ Refute(o, c).oracle = o /\ Refute(o, c).claim = c
  BY DEF Refute
<1>6. \A k \in 1 .. n : File(o, Files(o)[k]).kind = "file"
                       /\ File(o, Files(o)[k]).file = Files(o)[k]
  BY DEF File
<1>7. \A item \in Told(stk) : item.kind = "file" => item.file \notin Contradictory
  BY <1>3, <1>4, <1>5, <1>6 DEF FilesConsistent
<1>8. \A item \in Told(stk) : item.kind = "refute" => item = Refute(o, c)
  BY <1>3, <1>4, <1>6
<1>9. \A w \in Worlds : w \notin Counterexamples(o, c)
  BY <1>1, <1>5, <1>7, <1>8 DEF Satisfiable
<1> QED
  BY <1>9 DEF Counterexamples

\* A sequence of one, two or three members is the tuple of its members.
LEMMA ShortTuples ==
  ASSUME NEW S, NEW s \in Seq(S)
  PROVE  /\ Len(s) = 1 => s = <<s[1]>>
         /\ Len(s) = 2 => s = <<s[1], s[2]>>
         /\ Len(s) = 3 => s = <<s[1], s[2], s[3]>>
<1>1. s \in [1 .. Len(s) -> S]
  BY LenProperties
<1>2. ASSUME Len(s) = 1 PROVE s = <<s[1]>>
  <2>1. s \in [1 .. 1 -> S]
    BY <1>1, <1>2
  <2> QED
    BY <2>1
<1>3. ASSUME Len(s) = 2 PROVE s = <<s[1], s[2]>>
  <2>1. s \in [1 .. 2 -> S]
    BY <1>1, <1>3
  <2> QED
    BY <2>1
<1>4. ASSUME Len(s) = 3 PROVE s = <<s[1], s[2], s[3]>>
  <2>1. s \in [1 .. 3 -> S]
    BY <1>1, <1>4
  <2> QED
    BY <2>1
<1> QED
  BY <1>2, <1>3, <1>4

\* Opening a second level.
LEMMA PushOne == ASSUME NEW a, NEW b PROVE Push(<<a>>, b) = <<a, b>>
<1> DEFINE S == {a, b}
           s == Append(<<a>>, b)
<1>1. a \in S /\ b \in S
  OBVIOUS
<1> HIDE DEF S
<1>2. <<a>> \in Seq(S) /\ Len(<<a>>) = 1 /\ <<a>>[1] = a
  BY <1>1
<1>3. s \in Seq(S) /\ Len(s) = 2 /\ s[1] = a /\ s[2] = b
  BY <1>1, <1>2
<1>4. Push(<<a>>, b) = s
  BY DEF Push
<1> HIDE DEF s
<1>5. s = <<s[1], s[2]>>
  BY <1>3, ShortTuples, Zenon
<1> QED
  BY <1>3, <1>4, <1>5, Zenon

\* Opening a third level.
LEMMA PushTwo == ASSUME NEW a, NEW b, NEW c PROVE Push(<<a, b>>, c) = <<a, b, c>>
<1> DEFINE S == {a, b, c}
           s == Append(<<a, b>>, c)
<1>1. a \in S /\ b \in S /\ c \in S
  OBVIOUS
<1> HIDE DEF S
<1>2. /\ <<a, b>> \in Seq(S) /\ Len(<<a, b>>) = 2
      /\ <<a, b>>[1] = a /\ <<a, b>>[2] = b
  BY <1>1
<1>3. s \in Seq(S) /\ Len(s) = 3 /\ s[1] = a /\ s[2] = b /\ s[3] = c
  BY <1>1, <1>2
<1>4. Push(<<a, b>>, c) = s
  BY DEF Push
<1> HIDE DEF s
<1>5. s = <<s[1], s[2], s[3]>>
  BY <1>3, ShortTuples, Zenon
<1> QED
  BY <1>3, <1>4, <1>5, Zenon

\* Closing the second level.
LEMMA PopTwo == ASSUME NEW a, NEW b PROVE Pop(<<a, b>>) = <<a>>
<1> DEFINE S == {a, b}
           s == SubSeq(<<a, b>>, 1, 1)
<1>1. a \in S /\ b \in S
  OBVIOUS
<1> HIDE DEF S
<1>2. <<a, b>> \in Seq(S) /\ Len(<<a, b>>) = 2 /\ <<a, b>>[1] = a
  BY <1>1
<1>3. s \in Seq(S) /\ Len(s) = 1 /\ s[1] = a
  BY <1>2
<1>4. Pop(<<a, b>>) = s
  BY <1>2 DEF Pop
<1> HIDE DEF s
<1>5. s = <<s[1]>>
  BY <1>3, ShortTuples, Zenon
<1> QED
  BY <1>3, <1>4, <1>5, Zenon

\* Closing the third level.
LEMMA PopThree == ASSUME NEW a, NEW b, NEW c PROVE Pop(<<a, b, c>>) = <<a, b>>
<1> DEFINE S == {a, b, c}
           s == SubSeq(<<a, b, c>>, 1, 2)
<1>1. a \in S /\ b \in S /\ c \in S
  OBVIOUS
<1> HIDE DEF S
<1>2. /\ <<a, b, c>> \in Seq(S) /\ Len(<<a, b, c>>) = 3
      /\ <<a, b, c>>[1] = a /\ <<a, b, c>>[2] = b
  BY <1>1
<1>3. s \in Seq(S) /\ Len(s) = 2 /\ s[1] = a /\ s[2] = b
  BY <1>2
<1>4. Pop(<<a, b, c>>) = s
  BY <1>2 DEF Pop
<1> HIDE DEF s
<1>5. s = <<s[1], s[2]>>
  BY <1>3, ShortTuples, Zenon
<1> QED
  BY <1>3, <1>4, <1>5, Zenon

\* Telling the solver something on the second level.
LEMMA TellTwo == ASSUME NEW a, NEW b, NEW c PROVE Tell(<<a, b>>, c) = <<a, b \cup {c}>>
BY DEF Tell

\* The next invariant file joins the level of its oracle.
LEMMA NextLevel ==
  ASSUME NEW o, NEW n \in Nat
  PROVE  Level(o, n) \cup {File(o, Files(o)[n + 1])} = Level(o, n + 1)
BY DEF Level

\* The claims of an ordered tree hold one after the other: a claim without
\* counterexamples holds wherever its dependencies do.
ClaimsTrue(o, n) ==
  ListedAfterItsDependencies(o) => \A k \in 1 .. n : Truth[o][Claims(o)[k].name] = Worlds

LEMMA NextClaimTrue ==
  ASSUME NEW o \in DOMAIN Trees, NEW n \in 1 .. Len(Claims(o)), ClaimsTrue(o, n - 1),
         Counterexamples(o, Claims(o)[n]) = {}
  PROVE  ClaimsTrue(o, n)
<1> DEFINE c == Claims(o)[n]
<1>1. SUFFICES ASSUME ListedAfterItsDependencies(o) PROVE Truth[o][c.name] = Worlds
  BY ProofFileTypes DEF ClaimsTrue
<1>2. \A d \in c.deps : Truth[o][d] = Worlds
  BY <1>1 DEF ListedAfterItsDependencies, ClaimsTrue
<1>3. \A w \in Worlds : w \in Truth[o][c.name]
  BY <1>2 DEF Counterexamples
<1>4. Truth[o][c.name] \subseteq Worlds
  <2>1. c \in [name : DOMAIN Truth[o], deps : SUBSET DOMAIN Truth[o]]
    BY EquivalenceAssumption, ElementOfSeq DEF Claims
  <2>2. Truth[o] \in [DOMAIN Truth[o] -> SUBSET Worlds]
    BY EquivalenceAssumption
  <2> QED
    BY <2>1, <2>2
<1> QED
  BY <1>3, <1>4

-----------------------------------------------------------------------------
(* The inductive invariant: what a job has shown so far and what its prover   *)
(* has been told, by its state s, position p, index n and stack stk.          *)

OracleOk(o) == /\ o \in DOMAIN Trees /\ o \in RightExports /\ Verified(o)
               /\ ClaimsTrue(o, Len(Claims(o)))

ReadingFiles(o, n, stk) ==
  /\ n \in 1 .. Len(Files(o)) + 1
  /\ FilesConsistent(o, n - 1)
  /\ stk = <<{Base}, Level(o, n - 1)>>

BeforeClaim(o, n) ==
  /\ n \in 1 .. Len(Claims(o)) + 1
  /\ FilesConsistent(o, Len(Files(o)))
  /\ ClaimsProved(o, n - 1) /\ ClaimsTrue(o, n - 1)

AtClaims(o, n, stk) ==
  BeforeClaim(o, n) /\ stk = <<{Base}, Level(o, Len(Files(o)))>>

Asked(o, n, stk) ==
  /\ BeforeClaim(o, n) /\ n \in 1 .. Len(Claims(o))
  /\ stk = <<{Base}, Level(o, Len(Files(o))), {Refute(o, Claims(o)[n])}>>

JobFacts(j, s, p, n, stk) ==
  /\ \A i \in 1 .. p - 1 : OracleOk(JobList[j][i])
  /\ s = "ok" => p > Len(JobList[j])
  /\ s = "open" => stk = <<{Base}>>
  /\ s \in {"files", "claims", "asked"} =>
       JobList[j][p] \in DOMAIN Trees /\ JobList[j][p] \in RightExports
  /\ s = "files" => ReadingFiles(JobList[j][p], n, stk)
  /\ s = "claims" => AtClaims(JobList[j][p], n, stk)
  /\ s = "asked" => Asked(JobList[j][p], n, stk)

JobInv(j) == JobFacts(j, state[j], pos[j], next[j], stack[j])
StackShape == stack = [j \in Jobs |-> stack[j]]
OkMeansAllOk == result = "ok" => \A j \in Jobs : state[j] = "ok"

\* A step of job j changes nothing of the others.
OthersUnchanged(j) ==
  \A i \in Jobs \ {j} :
    /\ state'[i] = state[i] /\ pos'[i] = pos[i]
    /\ next'[i] = next[i] /\ stack'[i] = stack[i]

\* The state of a job after Goto, Fail and Panic.
LEMMA Moves ==
  ASSUME TypeOK, NEW j \in Jobs
  PROVE  /\ \A s : Goto(j, s) => /\ state'[j] = s
                                 /\ \A i \in Jobs \ {j} : state'[i] = state[i]
         /\ \A e : Fail(j, e) => /\ state'[j] = "failed"
                                 /\ \A i \in Jobs \ {j} : state'[i] = state[i]
         /\ Panic(j) => /\ state'[j] = "panicked"
                        /\ \A i \in Jobs \ {j} : state'[i] = state[i]
BY DEF TypeOK, Goto, Fail, Panic

\* A job that has ended, or hangs, keeps only the oracles it has passed.
LEMMA Ended ==
  ASSUME NEW j, NEW s, NEW p, NEW n, NEW stk, JobFacts(j, s, p, n, stk)
  PROVE  \A t \in {"failed", "panicked", "hung"} : \A m, z : JobFacts(j, t, p, m, z)
BY DEF JobFacts

\* Taking a job: the session starts with the base declarations.
LEMMA BeginStep ==
  ASSUME TypeOK, StackShape, NEW j \in Jobs, JobInv(j), Begin(j)
  PROVE  JobInv(j)' /\ OthersUnchanged(j) /\ StackShape'
<1>1. /\ state'[j] = "open" /\ \A i \in Jobs \ {j} : state'[i] = state[i]
      /\ pos' = pos /\ next' = next
      /\ stack' = [stack EXCEPT ![j] = <<{Base}>>]
  BY Moves DEF Begin
<1>2. /\ stack'[j] = <<{Base}>> /\ StackShape'
      /\ \A i \in Jobs \ {j} : stack'[i] = stack[i]
  BY <1>1 DEF StackShape
<1> QED
  BY <1>1, <1>2 DEF JobInv, JobFacts, OthersUnchanged

\* Starting an oracle: a second level, with the oracle's helpers only.
LEMMA StartOracleStep ==
  ASSUME TypeOK, StackShape, NEW j \in Jobs, JobInv(j), StartOracle(j)
  PROVE  JobInv(j)' /\ OthersUnchanged(j) /\ StackShape'
<1> DEFINE o == Oracle(j)
<1>1. pos' = pos /\ state[j] = "open" /\ stack[j] = <<{Base}>>
  BY DEF StartOracle, JobInv, JobFacts
<1>2. CASE o \in DOMAIN Trees /\ o \in RightExports
  <2>1. /\ state'[j] = "files" /\ \A i \in Jobs \ {j} : state'[i] = state[i]
        /\ next' = [next EXCEPT ![j] = 1]
        /\ stack' = [stack EXCEPT ![j] = Push(@, {Helpers(o)})]
    BY <1>2, Moves DEF StartOracle
  <2>2. /\ stack'[j] = Push(stack[j], {Helpers(o)}) /\ StackShape'
        /\ \A i \in Jobs \ {j} : stack'[i] = stack[i]
    BY <2>1 DEF StackShape
  <2>3. stack'[j] = <<{Base}, {Helpers(o)}>>
    BY <1>1, <2>2, PushOne, Zenon
  <2>4. next'[j] = 1 /\ \A i \in Jobs \ {j} : next'[i] = next[i]
    BY <2>1 DEF TypeOK
  <2>5. Level(o, 0) = {Helpers(o)} /\ FilesConsistent(o, 0)
    BY DEF Level, FilesConsistent
  <2>6. ReadingFiles(o, 1, stack'[j])
    BY <2>3, <2>5, ProofFileTypes DEF ReadingFiles
  <2>7. JobInv(j)'
    BY <1>1, <1>2, <2>1, <2>4, <2>6 DEF JobInv, JobFacts, Oracle
  <2> QED
    BY <1>1, <2>1, <2>2, <2>4, <2>7 DEF OthersUnchanged
<1>3. CASE ~(o \in DOMAIN Trees /\ o \in RightExports)
  <2>1. /\ state'[j] = "panicked" /\ \A i \in Jobs \ {j} : state'[i] = state[i]
        /\ next' = next /\ stack' = stack
    BY <1>3, Moves DEF StartOracle
  <2>2. JobInv(j)'
    BY <1>1, <2>1, Ended, Zenon DEF JobInv
  <2> QED
    BY <1>1, <2>1, <2>2 DEF OthersUnchanged, StackShape
<1> QED
  BY <1>2, <1>3

\* Reading a file: sat shows that it is consistent, anything else ends the job.
LEMMA ReadInvariantStep ==
  ASSUME TypeOK, StackShape, NEW j \in Jobs, JobInv(j), ReadInvariant(j)
  PROVE  JobInv(j)' /\ OthersUnchanged(j) /\ StackShape'
<1> DEFINE o == Oracle(j)
           n == next[j]
           f == File(o, Files(o)[n])
<1>1. /\ pos' = pos /\ state[j] = "files" /\ ReadingFiles(o, n, stack[j])
      /\ n <= Len(Files(o)) /\ stack' = [stack EXCEPT ![j] = Tell(@, f)]
  BY DEF ReadInvariant, JobInv, JobFacts, Oracle
<1>2. /\ stack'[j] = Tell(stack[j], f) /\ StackShape'
      /\ \A i \in Jobs \ {j} : stack'[i] = stack[i]
  BY <1>1 DEF StackShape
<1>3. n \in 1 .. Len(Files(o)) /\ n - 1 \in Nat /\ Len(Files(o)) \in Nat
  BY <1>1, ProofFileTypes DEF ReadingFiles
<1>4. stack'[j] = <<{Base}, Level(o, n)>>
  <2>1. stack[j] = <<{Base}, Level(o, n - 1)>>
    BY <1>1 DEF ReadingFiles
  <2>2. stack'[j] = <<{Base}, Level(o, n - 1) \cup {f}>>
    <3>1. Tell(<<{Base}, Level(o, n - 1)>>, f) = <<{Base}, Level(o, n - 1) \cup {f}>>
      BY TellTwo, Zenon
    <3>2. stack'[j] = Tell(stack[j], f)
      BY <1>2
    <3> QED
      BY <2>1, <3>1, <3>2
  <2>3. (n - 1) + 1 = n
    BY <1>3
  <2>4. Level(o, n - 1) \cup {File(o, Files(o)[(n - 1) + 1])} = Level(o, (n - 1) + 1)
    BY <1>3, NextLevel, Zenon
  <2>5. Level(o, n - 1) \cup {f} = Level(o, n)
    BY <2>3, <2>4, Zenon
  <2> QED
    BY <2>2, <2>5
<1>5. \/ "sat" \in Verdict(stack'[j]) /\ Goto(j, "files") /\ next' = [next EXCEPT ![j] = @ + 1]
      \/ Fail(j, "UnsatAfterInvariantRead") /\ next' = next
  BY DEF ReadInvariant
<1>6. CASE /\ "sat" \in Verdict(stack'[j]) /\ Goto(j, "files")
           /\ next' = [next EXCEPT ![j] = @ + 1]
  <2>1. FilesConsistent(o, n)
    <3>1. FilesConsistent(o, n - 1)
      BY <1>1 DEF ReadingFiles
    <3>2. "sat" \in Verdict(<<{Base}, Level(o, (n - 1) + 1)>>)
      <4>1. (n - 1) + 1 = n
        BY <1>3
      <4> QED
        BY <4>1, <1>4, <1>6, Zenon
    <3>3. FilesConsistent(o, (n - 1) + 1)
      BY <1>3, <3>1, <3>2, SatFile, Zenon
    <3>4. (n - 1) + 1 = n
      BY <1>3
    <3> QED
      BY <3>3, <3>4, Zenon
  <2>2. next'[j] = n + 1 /\ \A i \in Jobs \ {j} : next'[i] = next[i]
    BY <1>6 DEF TypeOK
  <2>3. state'[j] = "files" /\ \A i \in Jobs \ {j} : state'[i] = state[i]
    BY <1>6, Moves
  <2>4. (n + 1) - 1 = n /\ n + 1 \in 1 .. Len(Files(o)) + 1
    BY <1>3
  <2>5. ReadingFiles(o, n + 1, stack'[j])
    BY <2>1, <2>4, <1>4 DEF ReadingFiles
  <2>6. JobInv(j)'
    BY <1>1, <2>2, <2>3, <2>5 DEF JobInv, JobFacts, Oracle
  <2> QED
    BY <1>1, <1>2, <2>2, <2>3, <2>6 DEF OthersUnchanged
<1>7. CASE Fail(j, "UnsatAfterInvariantRead") /\ next' = next
  <2>1. state'[j] = "failed" /\ \A i \in Jobs \ {j} : state'[i] = state[i]
    BY <1>7, Moves
  <2>2. JobInv(j)'
    BY <1>1, <2>1, Ended, Zenon DEF JobInv
  <2> QED
    BY <1>1, <1>2, <1>7, <2>1, <2>2 DEF OthersUnchanged
<1> QED
  BY <1>5, <1>6, <1>7

\* The files are all read: the claims start on the level they have built.
LEMMA InvariantsReadStep ==
  ASSUME TypeOK, StackShape, NEW j \in Jobs, JobInv(j), InvariantsRead(j)
  PROVE  JobInv(j)' /\ OthersUnchanged(j) /\ StackShape'
<1> DEFINE o == Oracle(j)
<1>1. /\ pos' = pos /\ stack' = stack /\ state[j] = "files"
      /\ ReadingFiles(o, next[j], stack[j]) /\ next[j] > Len(Files(o))
      /\ o \in DOMAIN Trees /\ o \in RightExports
      /\ next' = [next EXCEPT ![j] = 1]
  BY DEF InvariantsRead, JobInv, JobFacts, Oracle
<1>2. state'[j] = "claims" /\ \A i \in Jobs \ {j} : state'[i] = state[i]
  BY Moves DEF InvariantsRead
<1>3. next'[j] = 1 /\ \A i \in Jobs \ {j} : next'[i] = next[i]
  BY <1>1 DEF TypeOK
<1>4. next[j] - 1 = Len(Files(o))
  BY <1>1, ProofFileTypes DEF ReadingFiles
<1>5. ClaimsProved(o, 0) /\ ClaimsTrue(o, 0)
  BY DEF ClaimsProved, ClaimsTrue
<1>6. BeforeClaim(o, 1)
  BY <1>1, <1>4, <1>5, ProofFileTypes DEF BeforeClaim, ReadingFiles
<1>7. AtClaims(o, 1, stack[j])
  BY <1>1, <1>4, <1>6 DEF AtClaims, ReadingFiles
<1>8. JobInv(j)'
  BY <1>1, <1>2, <1>3, <1>7 DEF JobInv, JobFacts, Oracle
<1> QED
  BY <1>1, <1>2, <1>3, <1>8 DEF OthersUnchanged, StackShape

\* A claim is refuted on a third level.
LEMMA AssertClaimStep ==
  ASSUME TypeOK, StackShape, NEW j \in Jobs, JobInv(j), AssertClaim(j)
  PROVE  JobInv(j)' /\ OthersUnchanged(j) /\ StackShape'
<1> DEFINE o == Oracle(j)
           c == Claims(o)[next[j]]
<1>1. /\ pos' = pos /\ next' = next /\ state[j] = "claims"
      /\ AtClaims(o, next[j], stack[j]) /\ next[j] <= Len(Claims(o))
      /\ o \in DOMAIN Trees /\ o \in RightExports
  BY DEF AssertClaim, JobInv, JobFacts, Oracle
<1>2. \/ stack' = [stack EXCEPT ![j] = Push(@, {Refute(o, c)})] /\ Goto(j, "asked")
      \/ Panic(j) /\ stack' = stack
  BY DEF AssertClaim
<1>3. CASE stack' = [stack EXCEPT ![j] = Push(@, {Refute(o, c)})] /\ Goto(j, "asked")
  <2>1. /\ stack'[j] = Push(stack[j], {Refute(o, c)}) /\ StackShape'
        /\ \A i \in Jobs \ {j} : stack'[i] = stack[i]
    BY <1>3 DEF StackShape
  <2>2. stack[j] = <<{Base}, Level(o, Len(Files(o)))>>
    BY <1>1 DEF AtClaims
  <2>3. stack'[j] = <<{Base}, Level(o, Len(Files(o))), {Refute(o, c)}>>
    <3>1. Push(<<{Base}, Level(o, Len(Files(o)))>>, {Refute(o, c)})
            = <<{Base}, Level(o, Len(Files(o))), {Refute(o, c)}>>
      BY PushTwo, Zenon
    <3> QED
      BY <2>1, <2>2, <3>1
  <2>4. state'[j] = "asked" /\ \A i \in Jobs \ {j} : state'[i] = state[i]
    BY <1>3, Moves
  <2>5. Asked(o, next[j], stack'[j])
    BY <1>1, <2>3, ProofFileTypes DEF Asked, AtClaims, BeforeClaim
  <2>6. JobInv(j)'
    BY <1>1, <2>4, <2>5 DEF JobInv, JobFacts, Oracle
  <2> QED
    BY <1>1, <2>1, <2>4, <2>6 DEF OthersUnchanged
<1>4. CASE Panic(j) /\ stack' = stack
  <2>1. state'[j] = "panicked" /\ \A i \in Jobs \ {j} : state'[i] = state[i]
    BY <1>4, Moves
  <2>2. JobInv(j)'
    BY <1>1, <2>1, Ended, Zenon DEF JobInv
  <2> QED
    BY <1>1, <1>4, <2>1, <2>2 DEF OthersUnchanged, StackShape
<1> QED
  BY <1>2, <1>3, <1>4

\* The verdict: unsat proves the claim, anything else ends the job.
LEMMA ClaimVerdictStep ==
  ASSUME TypeOK, StackShape, NEW j \in Jobs, JobInv(j), ClaimVerdict(j)
  PROVE  JobInv(j)' /\ OthersUnchanged(j) /\ StackShape'
<1> DEFINE o == Oracle(j)
           n == next[j]
           c == Claims(o)[n]
<1>1. /\ pos' = pos /\ state[j] = "asked" /\ Asked(o, n, stack[j])
      /\ o \in DOMAIN Trees /\ o \in RightExports
  BY DEF ClaimVerdict, JobInv, JobFacts, Oracle
<1>2. \/ /\ "unsat" \in Verdict(stack[j]) /\ Goto(j, "claims")
         /\ stack' = [stack EXCEPT ![j] = Pop(@)] /\ next' = [next EXCEPT ![j] = @ + 1]
      \/ Fail(j, "ClaimProofFailed") /\ stack' = stack /\ next' = next
  BY DEF ClaimVerdict
<1>3. CASE /\ "unsat" \in Verdict(stack[j]) /\ Goto(j, "claims")
           /\ stack' = [stack EXCEPT ![j] = Pop(@)] /\ next' = [next EXCEPT ![j] = @ + 1]
  <2>1. /\ stack'[j] = Pop(stack[j]) /\ StackShape'
        /\ \A i \in Jobs \ {j} : stack'[i] = stack[i]
    BY <1>3 DEF StackShape
  <2>2. stack[j] = <<{Base}, Level(o, Len(Files(o))), {Refute(o, c)}>>
    BY <1>1 DEF Asked
  <2>3. stack'[j] = <<{Base}, Level(o, Len(Files(o)))>>
    <3>1. Pop(<<{Base}, Level(o, Len(Files(o))), {Refute(o, c)}>>)
            = <<{Base}, Level(o, Len(Files(o)))>>
      BY PopThree, Zenon
    <3> QED
      BY <2>1, <2>2, <3>1
  <2>4. state'[j] = "claims" /\ \A i \in Jobs \ {j} : state'[i] = state[i]
    BY <1>3, Moves
  <2>5. next'[j] = n + 1 /\ \A i \in Jobs \ {j} : next'[i] = next[i]
    BY <1>3 DEF TypeOK
  <2>6. /\ n \in 1 .. Len(Claims(o)) /\ Len(Claims(o)) \in Nat
        /\ Len(Files(o)) \in Nat /\ FilesConsistent(o, Len(Files(o)))
        /\ ClaimsProved(o, n - 1) /\ ClaimsTrue(o, n - 1)
    BY <1>1, ProofFileTypes DEF Asked, BeforeClaim
  <2>7. Counterexamples(o, c) = {}
    BY <1>3, <2>2, <2>6, UnsatClaim, Zenon
  <2>8. ClaimsProved(o, n)
    <3>1. \A k \in 1 .. n : k = n \/ k \in 1 .. n - 1
      BY <2>6
    <3>2. \A k \in 1 .. n - 1 : Counterexamples(o, Claims(o)[k]) = {}
      BY <2>6 DEF ClaimsProved
    <3> QED
      BY <2>7, <3>1, <3>2 DEF ClaimsProved
  <2>9. ClaimsTrue(o, n)
    BY <1>1, <2>6, <2>7, NextClaimTrue, Zenon
  <2>10. (n + 1) - 1 = n /\ n + 1 \in 1 .. Len(Claims(o)) + 1
    BY <2>6
  <2>11. AtClaims(o, n + 1, stack'[j])
    BY <2>3, <2>6, <2>8, <2>9, <2>10 DEF AtClaims, BeforeClaim
  <2>12. JobInv(j)'
    BY <1>1, <2>4, <2>5, <2>11 DEF JobInv, JobFacts, Oracle
  <2> QED
    BY <1>1, <2>1, <2>4, <2>5, <2>12 DEF OthersUnchanged
<1>4. CASE Fail(j, "ClaimProofFailed") /\ stack' = stack /\ next' = next
  <2>1. state'[j] = "failed" /\ \A i \in Jobs \ {j} : state'[i] = state[i]
    BY <1>4, Moves
  <2>2. JobInv(j)'
    BY <1>1, <2>1, Ended, Zenon DEF JobInv
  <2> QED
    BY <1>1, <1>4, <2>1, <2>2 DEF OthersUnchanged, StackShape
<1> QED
  BY <1>2, <1>3, <1>4

\* All claims proved: the oracle is passed and its level is closed.
LEMMA FinishOracleStep ==
  ASSUME TypeOK, StackShape, InList, NEW j \in Jobs, JobInv(j), FinishOracle(j)
  PROVE  JobInv(j)' /\ OthersUnchanged(j) /\ StackShape'
<1> DEFINE o == Oracle(j)
           p == pos[j]
<1>1. /\ state[j] = "claims" /\ AtClaims(o, next[j], stack[j]) /\ next' = next
      /\ next[j] > Len(Claims(o)) /\ o \in DOMAIN Trees /\ o \in RightExports
      /\ pos' = [pos EXCEPT ![j] = @ + 1] /\ stack' = [stack EXCEPT ![j] = Pop(@)]
  BY DEF FinishOracle, JobInv, JobFacts, Oracle
<1>2. state'[j] = "open" /\ \A i \in Jobs \ {j} : state'[i] = state[i]
  BY Moves DEF FinishOracle
<1>3. /\ stack'[j] = Pop(stack[j]) /\ StackShape'
      /\ \A i \in Jobs \ {j} : stack'[i] = stack[i]
  BY <1>1 DEF StackShape
<1>4. stack'[j] = <<{Base}>>
  <2>1. stack[j] = <<{Base}, Level(o, Len(Files(o)))>>
    BY <1>1 DEF AtClaims
  <2>2. Pop(<<{Base}, Level(o, Len(Files(o)))>>) = <<{Base}>>
    BY PopTwo, Zenon
  <2> QED
    BY <1>3, <2>1, <2>2
<1>5. pos'[j] = p + 1 /\ p \in Nat /\ \A i \in Jobs \ {j} : pos'[i] = pos[i]
  BY <1>1 DEF TypeOK
<1>6. OracleOk(o)
  <2>1. Len(Claims(o)) \in Nat /\ Len(Files(o)) \in Nat
    BY <1>1, ProofFileTypes
  <2>2. next[j] - 1 = Len(Claims(o))
    BY <1>1, <2>1 DEF AtClaims, BeforeClaim
  <2>3. ClaimsProved(o, Len(Claims(o))) /\ ClaimsTrue(o, Len(Claims(o)))
    BY <1>1, <2>2 DEF AtClaims, BeforeClaim
  <2>4. FilesConsistent(o, Len(Files(o)))
    BY <1>1 DEF AtClaims, BeforeClaim
  <2>5. Verified(o)
    BY <2>3, <2>4 DEF Verified, ClaimsProved, FilesConsistent
  <2> QED
    BY <1>1, <2>3, <2>5 DEF OracleOk
<1>7. \A i \in 1 .. (p + 1) - 1 : OracleOk(JobList[j][i])
  <2>1. \A i \in 1 .. p - 1 : OracleOk(JobList[j][i])
    BY DEF JobInv, JobFacts
  <2>2. \A i \in 1 .. (p + 1) - 1 : i = p \/ i \in 1 .. p - 1
    BY <1>5
  <2>3. OracleOk(JobList[j][p])
    BY <1>6 DEF Oracle
  <2> QED
    BY <2>1, <2>2, <2>3
<1>8. JobInv(j)'
  BY <1>2, <1>4, <1>5, <1>7 DEF JobInv, JobFacts
<1> QED
  BY <1>1, <1>2, <1>3, <1>5, <1>8 DEF OthersUnchanged

\* No oracle is left: the job ends.
LEMMA JobDoneStep ==
  ASSUME TypeOK, StackShape, NEW j \in Jobs, JobInv(j), JobDone(j)
  PROVE  JobInv(j)' /\ OthersUnchanged(j) /\ StackShape'
<1>1. /\ pos' = pos /\ next' = next /\ stack' = stack /\ pos[j] > Len(JobList[j])
  BY DEF JobDone
<1>2. state'[j] = "ok" /\ \A i \in Jobs \ {j} : state'[i] = state[i]
  BY Moves DEF JobDone
<1>3. JobInv(j)'
  BY <1>1, <1>2 DEF JobInv, JobFacts
<1> QED
  BY <1>1, <1>2, <1>3 DEF OthersUnchanged, StackShape

\* The session breaks, and the job ends, or a query is never answered, and it hangs.
LEMMA SessionBreaksStep ==
  ASSUME TypeOK, StackShape, NEW j \in Jobs, JobInv(j), SessionBreaks(j) \/ SessionHangs(j)
  PROVE  JobInv(j)' /\ OthersUnchanged(j) /\ StackShape'
<1>1. pos' = pos /\ next' = next /\ stack' = stack
  BY DEF SessionBreaks, SessionHangs
<1>2. /\ state'[j] \in {"failed", "panicked", "hung"}
      /\ \A i \in Jobs \ {j} : state'[i] = state[i]
  BY Moves DEF SessionBreaks, SessionHangs
<1>3. JobInv(j)'
  BY <1>1, <1>2, Ended, Zenon DEF JobInv
<1> QED
  BY <1>1, <1>2, <1>3 DEF OthersUnchanged, StackShape

JobInvs == StackShape /\ (\A j \in Jobs : JobInv(j)) /\ OkMeansAllOk

\* At the start no job has shown anything.
LEMMA JobInvsInit == Init => JobInvs
<1> SUFFICES ASSUME Init PROVE JobInvs
  OBVIOUS
<1>1. StackShape
  BY DEF Init, StackShape
<1>2. ASSUME NEW j \in Jobs PROVE JobInv(j)
  BY DEF Init, JobInv, JobFacts
<1>3. OkMeansAllOk
  BY DEF Init, OkMeansAllOk
<1> QED
  BY <1>1, <1>2, <1>3 DEF JobInvs

\* Every step keeps what the jobs have shown.
LEMMA JobInvsStep ==
  ASSUME TypeOK, InList, JobInvs, [Next]_vars
  PROVE  JobInvs'
<1>1. ASSUME NEW j \in Jobs, JobStep(j) \/ SessionBreaks(j) \/ SessionHangs(j) PROVE JobInvs'
  <2>1. StackShape /\ JobInv(j)
    BY DEF JobInvs
  <2>2. JobInv(j)' /\ OthersUnchanged(j) /\ StackShape'
    BY <1>1, <2>1, BeginStep, StartOracleStep, ReadInvariantStep, InvariantsReadStep,
       AssertClaimStep, ClaimVerdictStep, FinishOracleStep, JobDoneStep,
       SessionBreaksStep DEF JobStep
  <2>3. ASSUME NEW i \in Jobs PROVE JobInv(i)'
    <3>1. CASE i = j
      BY <2>2, <3>1
    <3>2. CASE i # j
      <4>1. /\ state'[i] = state[i] /\ pos'[i] = pos[i]
            /\ next'[i] = next[i] /\ stack'[i] = stack[i]
        BY <2>2, <3>2 DEF OthersUnchanged
      <4>2. JobInv(i)
        BY DEF JobInvs
      <4> QED
        BY <4>1, <4>2 DEF JobInv
    <3> QED
      BY <3>1, <3>2
  <2>4. result' = result /\ state[j] # "ok"
    BY <1>1 DEF JobStep, Begin, StartOracle, ReadInvariant, InvariantsRead, AssertClaim,
       ClaimVerdict, FinishOracle, JobDone, SessionBreaks, SessionHangs, Working
  <2>5. OkMeansAllOk'
    BY <2>4 DEF JobInvs, OkMeansAllOk
  <2> QED
    BY <2>2, <2>3, <2>5 DEF JobInvs
<1>2. CASE Return
  <2>1. /\ UNCHANGED <<state, pos, next, stack>> 
        /\ result' = "ok" => Failed = {} /\ \A j \in Jobs : state[j] \in {"ok", "failed"}
    BY <1>2 DEF Return, jobVars
  <2>2. OkMeansAllOk'
    BY <2>1 DEF OkMeansAllOk, Failed
  <2> QED
    BY <2>1, <2>2 DEF JobInvs, StackShape, JobInv
<1>3. CASE Unwind
  <2>1. UNCHANGED <<state, pos, next, stack>> /\ result' = "panic"
    BY <1>3 DEF Unwind, jobVars
  <2> QED
    BY <2>1 DEF JobInvs, StackShape, JobInv, OkMeansAllOk
<1>4. CASE UNCHANGED vars
  BY <1>4 DEF JobInvs, StackShape, JobInv, OkMeansAllOk, vars, jobVars
<1> QED
  BY <1>1, <1>2, <1>3, <1>4 DEF Next, Over

\* What the jobs have shown is an invariant.
LEMMA JobInvariant == Spec => [](TypeOK /\ JobInvs)
<1>1. TypeOK /\ InList /\ JobInvs /\ [Next]_vars => JobInvs'
  BY JobInvsStep
<1> QED
  BY <1>1, TypeInvariant, JobInvsInit, PTL DEF Spec

\* After Ok every requested oracle has been passed by one of the jobs.
LEMMA AllPassed ==
  ASSUME TypeOK, JobInvs, result = "ok"
  PROVE  \A o \in Oracles : OracleOk(o)
<1> SUFFICES ASSUME NEW o \in Oracles PROVE OracleOk(o)
  OBVIOUS
<1>1. PICK j \in Jobs : \E i \in 1 .. Len(JobList[j]) : JobList[j][i] = o
  BY JobLists
<1>2. PICK i \in 1 .. Len(JobList[j]) : JobList[j][i] = o
  BY <1>1
<1>3. /\ pos[j] > Len(JobList[j])
      /\ \A k \in 1 .. pos[j] - 1 : OracleOk(JobList[j][k])
  BY DEF JobInvs, OkMeansAllOk, JobInv, JobFacts
<1>4. i \in 1 .. pos[j] - 1
  BY <1>2, <1>3, JobLists DEF TypeOK
<1> QED
  BY <1>2, <1>3, <1>4

\* verify and verify_parallel are sound: Ok means that every requested oracle
\* is verified, for every project, number of threads and order of the jobs.
THEOREM OkIsSound == Spec => []Soundness
<1>1. TypeOK /\ JobInvs => Soundness
  BY AllPassed DEF Soundness, OracleOk
<1> QED
  BY <1>1, JobInvariant, PTL

\* After Ok the claims of an oracle whose proof file lists each claim after its
\* dependencies hold in every world, by induction along the list.
THEOREM OrderedTreesHold == Spec => []OrderedTreesAreSound
<1>1. TypeOK /\ JobInvs => OrderedTreesAreSound
  BY AllPassed DEF OrderedTreesAreSound, OracleOk, ClaimsTrue, ClaimsHold
<1> QED
  BY <1>1, JobInvariant, PTL

\* Every claim reaches the solver in exactly its own context, however many
\* oracles and claims the same session has seen before.
THEOREM ClaimsInContext == Spec => []ClaimContext
<1>1. ASSUME TypeOK, JobInvs, NEW j \in Jobs, state[j] = "asked"
      PROVE  LET o == Oracle(j) IN
             Told(stack[j]) = {Base, Helpers(o), Refute(o, Claims(o)[next[j]])}
                                \cup {File(o, Files(o)[k]) : k \in 1 .. Len(Files(o))}
  <2> DEFINE o == Oracle(j)
             c == Claims(o)[next[j]]
             l == Level(o, Len(Files(o)))
  <2>1. stack[j] = <<{Base}, l, {Refute(o, c)}>>
    BY <1>1 DEF JobInvs, JobInv, JobFacts, Asked, Oracle
  <2>2. Told(<<{Base}, l, {Refute(o, c)}>>) = {Base} \cup l \cup {Refute(o, c)}
    <3> DEFINE r == {Refute(o, c)}
               b == {Base}
    <3> HIDE DEF r, b, l
    <3>1. Told(<<b, l, r>>) = b \cup l \cup r
      BY ToldAll
    <3> QED
      BY <3>1, Zenon DEF b, r
  <2>3. Told(stack[j]) = {Base} \cup l \cup {Refute(o, c)}
    BY <2>1, <2>2
  <2> QED
    BY <2>3 DEF Level
<1>2. TypeOK /\ JobInvs => ClaimContext
  BY <1>1 DEF ClaimContext
<1> QED
  BY <1>2, JobInvariant, PTL

-----------------------------------------------------------------------------
(* EquivalenceGoal, and the end of the jobs.                                  *)

\* Every requested oracle is in one list only, and there only once.
LEMMA OnePlaceEach ==
  ASSUME NEW j \in Jobs, NEW k \in Jobs,
         NEW i \in 1 .. Len(JobList[j]), NEW l \in 1 .. Len(JobList[k]),
         JobList[j][i] = JobList[k][l]
  PROVE  j = k /\ i = l
<1>1. /\ Len(OracleSequence) \in Nat
      /\ \A a, b \in 1 .. Len(OracleSequence) : OracleSequence[a] = OracleSequence[b] => a = b
  <2>1. CASE OracleSequence = Exports
    BY <2>1, EquivalenceAssumption
  <2>2. CASE OracleSequence = <<ReqOracle>> \/ OracleSequence = <<>>
    BY <2>2
  <2> QED
    BY <2>1, <2>2 DEF OracleSequence
<1>2. CASE IsParallel
  <2>1. JobList = [a \in 1 .. Len(OracleSequence) |-> <<OracleSequence[a]>>]
    BY <1>2 DEF JobList
  <2>2. Len(JobList) = Len(OracleSequence)
    BY <1>1, <2>1
  <2>3. \A a \in Jobs : Len(JobList[a]) = 1 /\ JobList[a][1] = OracleSequence[a]
    BY <2>1, <2>2 DEF Jobs
  <2> QED
    BY <1>1, <2>2, <2>3 DEF Jobs
<1>3. CASE ~IsParallel
  <2>1. JobList = <<OracleSequence>>
    BY <1>3 DEF JobList
  <2>2. Len(JobList) = 1 /\ JobList[1] = OracleSequence
    BY <2>1
  <2> QED
    BY <1>1, <2>2 DEF Jobs
<1> QED
  BY <1>2, <1>3

\* A job has nothing to do only if no oracle is requested.
LEMMA EmptyJob == ASSUME NEW j \in Jobs, JobList[j] = <<>> PROVE Oracles = {}
<1>1. CASE IsParallel
  <2>1. JobList = [a \in 1 .. Len(OracleSequence) |-> <<OracleSequence[a]>>]
    BY <1>1 DEF JobList
  <2>2. Len(OracleSequence) \in Nat
    <3>1. CASE OracleSequence = Exports
      BY <3>1, EquivalenceAssumption
    <3>2. CASE OracleSequence = <<ReqOracle>> \/ OracleSequence = <<>>
      BY <3>2
    <3> QED
      BY <3>1, <3>2 DEF OracleSequence
  <2>3. JobList[j] = <<OracleSequence[j]>>
    BY <2>1, <2>2 DEF Jobs
  <2> QED
    BY <2>3
<1>2. CASE ~IsParallel
  <2>1. JobList = <<OracleSequence>>
    BY <1>2 DEF JobList
  <2>2. OracleSequence = <<>>
    BY <2>1 DEF Jobs
  <2> QED
    BY <2>2 DEF Oracles
<1> QED
  BY <1>1, <1>2

-----------------------------------------------------------------------------
(* What a step of a job does to the others and to what is reported. *)

\* Once the call has returned, nothing runs; what has been printed are the
\* failures, and what is returned is about jobs that are over.
Reports ==
  /\ result # "none" => \A j \in Jobs : state[j] \notin Running
  /\ \A j \in Jobs : state[j] = "failed" => pos[j] <= Len(JobList[j]) \/ JobList[j] = <<>>
  /\ reported = IF IsParallel THEN Failed ELSE {}
  /\ result \in {"ok", "err"} =>
       /\ \A j \in Jobs : state[j] \in {"ok", "failed"}
       /\ IsParallel => failures = Cardinality(Failed)

\* A job that is not over moves on, or fails where its list is not at its end, or panics.
Moved(j) == \E s \in Running \cup {"ok"} : Goto(j, s)
Failing(j) == /\ \E e \in Errors : Fail(j, e)
              /\ UNCHANGED pos
              /\ pos[j] <= Len(JobList[j]) \/ JobList[j] = <<>>
Panicked(j) == Panic(j) /\ UNCHANGED pos

LEMMA JobMoved ==
  ASSUME InList, Reports, NEW j \in Jobs, JobStep(j) \/ SessionBreaks(j) \/ SessionHangs(j)
  PROVE  /\ result = "none" /\ UNCHANGED <<result, failures>>
         /\ state[j] \in Running \cup {"queued"}
         /\ \/ FinishOracle(j)
            \/ Moved(j) /\ UNCHANGED pos
            \/ Failing(j)
            \/ Panicked(j)
<1> USE DEF Running, Working
<1>1. CASE Begin(j)
  BY <1>1 DEF Begin, Moved
<1>2. CASE StartOracle(j)
  BY <1>2 DEF StartOracle, Moved, Panicked, Reports
<1>3. CASE ReadInvariant(j)
  <2>1. state[j] = "files" /\ UNCHANGED <<pos, result, failures>> /\ pos[j] <= Len(JobList[j])
    BY <1>3 DEF ReadInvariant, InList
  <2>2. Goto(j, "files") \/ Fail(j, "UnsatAfterInvariantRead")
    BY <1>3 DEF ReadInvariant
  <2> QED
    BY <2>1, <2>2 DEF Moved, Failing, Reports, Errors
<1>4. CASE InvariantsRead(j)
  BY <1>4 DEF InvariantsRead, Moved, Reports
<1>5. CASE AssertClaim(j)
  <2>1. state[j] = "claims" /\ UNCHANGED <<pos, result, failures>>
    BY <1>5 DEF AssertClaim
  <2>2. Goto(j, "asked") \/ Panic(j)
    BY <1>5 DEF AssertClaim
  <2> QED
    BY <2>1, <2>2 DEF Moved, Panicked, Reports
<1>6. CASE ClaimVerdict(j)
  <2>1. state[j] = "asked" /\ UNCHANGED <<pos, result, failures>> /\ pos[j] <= Len(JobList[j])
    BY <1>6 DEF ClaimVerdict, InList
  <2>2. Goto(j, "claims") \/ Fail(j, "ClaimProofFailed")
    BY <1>6 DEF ClaimVerdict
  <2> QED
    BY <2>1, <2>2 DEF Moved, Failing, Reports, Errors
<1>7. CASE FinishOracle(j)
  BY <1>7 DEF FinishOracle, Reports
<1>8. CASE JobDone(j)
  BY <1>8 DEF JobDone, Moved, Reports
<1>9. CASE SessionBreaks(j)
  BY <1>9 DEF SessionBreaks, Failing, Panicked, Reports, Errors
<1>10. CASE SessionHangs(j)
  BY <1>10 DEF SessionHangs, Moved, Reports
<1> QED
  BY <1>1, <1>2, <1>3, <1>4, <1>5, <1>6, <1>7, <1>8, <1>9, <1>10 DEF JobStep

LEMMA ReportsInit == Init => Reports
<1> SUFFICES ASSUME Init PROVE Reports
  OBVIOUS
<1>1. Failed = {}
  BY DEF Init, Failed
<1> QED
  BY <1>1 DEF Init, Reports

\* Moving on or panicking leaves the failures and the reports as they are.
LEMMA NoFailure ==
  ASSUME TypeOK, NEW j \in Jobs, state[j] # "failed",
         (\E s \in Running \cup {"ok"} : Goto(j, s)) \/ Panic(j)
  PROVE  /\ UNCHANGED reported /\ Failed' = Failed /\ state'[j] # "failed"
         /\ \A i \in Jobs \ {j} : state'[i] = state[i]
<1>1. /\ UNCHANGED reported /\ state'[j] # "failed"
      /\ \A i \in Jobs \ {j} : state'[i] = state[i]
  <2>1. ASSUME NEW s \in Running \cup {"ok"}, Goto(j, s)
        PROVE  /\ UNCHANGED reported /\ state'[j] # "failed"
               /\ \A i \in Jobs \ {j} : state'[i] = state[i]
    BY <2>1, Moves DEF Goto, Running, Working
  <2>2. CASE Panic(j)
    BY <2>2, Moves DEF Panic
  <2> QED
    BY <2>1, <2>2
<1>2. Failed' = Failed
  BY <1>1 DEF Failed
<1> QED
  BY <1>1, <1>2

\* A failure is one more, and is reported by a parallel job.
LEMMA OneFailure ==
  ASSUME TypeOK, NEW j \in Jobs, NEW e, Fail(j, e)
  PROVE  /\ Failed' = Failed \cup {j} /\ state'[j] = "failed"
         /\ \A i \in Jobs \ {j} : state'[i] = state[i]
         /\ reported' = IF IsParallel THEN reported \cup {j} ELSE reported
<1>1. /\ state'[j] = "failed" /\ \A i \in Jobs \ {j} : state'[i] = state[i]
      /\ reported' = IF IsParallel THEN reported \cup {j} ELSE reported
  BY Moves DEF Fail
<1> QED
  BY <1>1 DEF Failed

LEMMA ReportsStep ==
  ASSUME TypeOK, InList, Reports, [Next]_vars
  PROVE  Reports'
<1>1. ASSUME NEW j \in Jobs, JobStep(j) \/ SessionBreaks(j) \/ SessionHangs(j) PROVE Reports'
  <2>1. result = "none" /\ UNCHANGED result /\ state[j] # "failed"
    BY <1>1, JobMoved DEF Running, Working
  <2>2. CASE FinishOracle(j)
    <3>1. Goto(j, "open") /\ pos' = [pos EXCEPT ![j] = @ + 1]
      BY <2>2 DEF FinishOracle
    <3>2. /\ UNCHANGED reported /\ Failed' = Failed /\ state'[j] # "failed"
          /\ \A i \in Jobs \ {j} : state'[i] = state[i]
      BY <2>1, <3>1, NoFailure DEF Running, Working
    <3>3. \A i \in Jobs \ {j} : pos'[i] = pos[i]
      BY <3>1 DEF TypeOK
    <3> QED
      BY <2>1, <3>2, <3>3 DEF Reports
  <2>3. CASE (Moved(j) /\ UNCHANGED pos) \/ Panicked(j)
    <3>1. /\ UNCHANGED <<reported, pos>> /\ Failed' = Failed /\ state'[j] # "failed"
          /\ \A i \in Jobs \ {j} : state'[i] = state[i]
      BY <2>1, <2>3, NoFailure DEF Moved, Panicked
    <3> QED
      BY <2>1, <3>1 DEF Reports
  <2>4. CASE Failing(j)
    <3>1. /\ Failed' = Failed \cup {j} /\ state'[j] = "failed"
          /\ \A i \in Jobs \ {j} : state'[i] = state[i]
          /\ reported' = IF IsParallel THEN reported \cup {j} ELSE reported
      BY <2>4, OneFailure DEF Failing
    <3>2. UNCHANGED pos /\ (pos[j] <= Len(JobList[j]) \/ JobList[j] = <<>>)
      BY <2>4 DEF Failing
    <3> QED
      BY <2>1, <3>1, <3>2 DEF Reports
  <2> QED
    BY <1>1, <2>2, <2>3, <2>4, JobMoved
<1>2. CASE Return
  <2>1. /\ UNCHANGED <<state, pos, reported>> /\ result' \in {"ok", "err"}
        /\ \A j \in Jobs : state[j] \in {"ok", "failed"}
        /\ failures' = IF IsParallel THEN Cardinality(Failed) ELSE 0
    BY <1>2 DEF Return, jobVars
  <2>2. Failed' = Failed
    BY <2>1 DEF Failed
  <2> QED
    BY <2>1, <2>2 DEF Reports, Running, Working
<1>3. CASE Unwind
  <2>1. UNCHANGED <<state, pos, reported>> /\ result' = "panic" /\ RunningJobs = {}
    BY <1>3 DEF Unwind, jobVars
  <2>2. Failed' = Failed
    BY <2>1 DEF Failed
  <2> QED
    BY <2>1, <2>2 DEF Reports, RunningJobs
<1>4. CASE UNCHANGED vars
  BY <1>4 DEF Reports, Failed, vars, jobVars
<1> QED
  BY <1>1, <1>2, <1>3, <1>4 DEF Next, Over

LEMMA ReportsInvariant == Spec => []Reports
<1>1. TypeOK /\ InList /\ Reports /\ [Next]_vars => Reports'
  BY ReportsStep
<1> QED
  BY <1>1, ReportsInit, TypeInvariant, PTL DEF Spec

\* verify_parallel returns only when every job is over, and its error count and
\* the errors printed are those of the jobs that failed, for every number of
\* threads and every order of the jobs (ParallelEquivalenceError).
THEOREM FailuresReported == Spec => []EveryFailureReported
<1>1. Reports => EveryFailureReported
  BY DEF Reports, EveryFailureReported
<1> QED
  BY <1>1, ReportsInvariant, PTL

-----------------------------------------------------------------------------
(* The refinement. *)

GoalStatus(o) == IF Passed(o) THEN "proved" ELSE IF FailedAt(o) THEN "failed" ELSE "open"

\* The oracle a job is at is open while the job runs.
LEMMA CurrentIsOpen ==
  ASSUME TypeOK, NEW j \in Jobs, pos[j] <= Len(JobList[j])
  PROVE  /\ ~Passed(Oracle(j))
         /\ FailedAt(Oracle(j)) <=> state[j] = "failed"
         /\ Oracle(j) \in Oracles
<1>1. pos[j] \in 1 .. Len(JobList[j])
  BY JobLists DEF TypeOK
<1>2. ASSUME NEW k \in Jobs, NEW l \in 1 .. pos[k] - 1, JobList[k][l] = Oracle(j) PROVE FALSE
  <2>1. l \in 1 .. Len(JobList[k])
    BY JobLists DEF TypeOK
  <2>2. k = j /\ l = pos[j]
    BY <1>1, <1>2, <2>1, OnePlaceEach DEF Oracle
  <2> QED
    BY <1>1, <2>2 DEF TypeOK
<1>3. ASSUME NEW k \in Jobs, pos[k] <= Len(JobList[k]), Oracle(k) = Oracle(j) PROVE k = j
  <2>1. pos[k] \in 1 .. Len(JobList[k])
    BY <1>3, JobLists DEF TypeOK
  <2> QED
    BY <1>1, <1>3, <2>1, OnePlaceEach DEF Oracle
<1> QED
  BY <1>1, <1>2, <1>3, JobLists DEF Passed, FailedAt, Oracle

\* A step that changes neither positions nor failures settles nothing.
LEMMA SameStatus ==
  ASSUME UNCHANGED pos, \A i \in Jobs : state'[i] = "failed" <=> state[i] = "failed"
  PROVE  \A o \in Oracles : GoalStatus(o)' = GoalStatus(o)
BY DEF GoalStatus, Passed, FailedAt, Oracle
\* Finishing an oracle makes it proved, and failing at one makes it failed; the others stay.
LEMMA FinishSettles ==
  ASSUME TypeOK, NEW j \in Jobs, pos[j] <= Len(JobList[j]), state[j] # "failed",
         state'[j] # "failed", \A i \in Jobs \ {j} : state'[i] = state[i],
         pos' = [pos EXCEPT ![j] = @ + 1]
  PROVE  /\ \A o \in Oracles : (Passed(o))' <=> Passed(o) \/ o = Oracle(j)
         /\ \A o \in Oracles : (FailedAt(o))' <=> FailedAt(o)
<1>1. /\ pos'[j] = pos[j] + 1 /\ pos[j] \in Nat
      /\ \A i \in Jobs \ {j} : pos'[i] = pos[i]
  BY DEF TypeOK
<1>2. ASSUME NEW o \in Oracles PROVE (Passed(o))' <=> Passed(o) \/ o = Oracle(j)
  <2>1. ASSUME NEW k \in Jobs, NEW i \in 1 .. pos'[k] - 1, JobList[k][i] = o
        PROVE  Passed(o) \/ o = Oracle(j)
    <3>1. CASE k = j /\ i = pos[j]
      BY <2>1, <3>1 DEF Oracle
    <3>2. CASE ~(k = j /\ i = pos[j])
      <4>1. i \in 1 .. pos[k] - 1
        BY <1>1, <3>2 DEF TypeOK
      <4> QED
        BY <2>1, <4>1 DEF Passed
    <3> QED
      BY <3>1, <3>2
  <2>2. ASSUME NEW k \in Jobs, NEW i \in 1 .. pos[k] - 1, JobList[k][i] = o
        PROVE  i \in 1 .. pos'[k] - 1
    BY <1>1 DEF TypeOK
  <2>3. o = Oracle(j) => pos[j] \in 1 .. pos'[j] - 1 /\ JobList[j][pos[j]] = o
    BY <1>1 DEF TypeOK, Oracle
  <2> QED
    BY <2>1, <2>2, <2>3 DEF Passed
<1>3. ASSUME NEW o \in Oracles PROVE (FailedAt(o))' <=> FailedAt(o)
  BY <1>1 DEF FailedAt, Oracle
<1> QED
  BY <1>2, <1>3

LEMMA FailureSettles ==
  ASSUME TypeOK, NEW j \in Jobs, pos[j] <= Len(JobList[j]), UNCHANGED pos,
         state'[j] = "failed", \A i \in Jobs \ {j} : state'[i] = state[i]
  PROVE  /\ \A o \in Oracles : (Passed(o))' <=> Passed(o)
         /\ \A o \in Oracles : (FailedAt(o))' <=> FailedAt(o) \/ o = Oracle(j)
BY DEF Passed, FailedAt, Oracle

\* A verified oracle is one on which the games agree.
Holding == {o \in Oracles \cap DOMAIN Trees : o \in RightExports /\ Verified(o)}

LEMMA GoalStarts == Init => Goal!GoalInit
<1> SUFFICES ASSUME Init PROVE Goal!GoalInit
  OBVIOUS
<1>1. \A o \in Oracles : ~Passed(o) /\ ~FailedAt(o)
  BY DEF Init, Passed, FailedAt
<1>2. result = "none"
  BY DEF Init
<1> QED
  BY <1>1, <1>2 DEF Goal!GoalInit

\* Settling one oracle, as the goal sees it.
LEMMA StatusStep ==
  ASSUME NEW o \in Oracles, NEW to \in {"proved", "failed"}, GoalStatus(o) = "open",
         GoalStatus(o)' = to, \A p \in Oracles \ {o} : GoalStatus(p)' = GoalStatus(p),
         result = "none", result' = "none", to = "proved" => o \in Holding
  PROVE  Goal!GoalNext
<1> DEFINE before == [p \in Oracles |-> GoalStatus(p)]
           after == [p \in Oracles |-> GoalStatus(p)']
<1>1. after = [before EXCEPT ![o] = to] /\ before[o] = "open"
  OBVIOUS
<1>2. CASE to = "proved"
  <2>1. Goal!Prove(o)
    BY <1>1, <1>2 DEF Goal!Prove, Holding, GoalStatus
  <2> QED
    BY <2>1 DEF Goal!GoalNext
<1>3. CASE to = "failed"
  <2>1. Goal!GiveUp(o)
    BY <1>1, <1>3 DEF Goal!GiveUp, GoalStatus
  <2> QED
    BY <2>1 DEF Goal!GoalNext
<1> QED
  BY <1>2, <1>3

\* A step of a job settles the oracle it is at, or nothing.
LEMMA JobRefines ==
  ASSUME TypeOK, InList, Reports, JobInvs', NEW j \in Jobs, JobStep(j) \/ SessionBreaks(j) \/ SessionHangs(j)
  PROVE  Goal!GoalNext \/ UNCHANGED Goal!goalVars
<1>1. /\ result = "none" /\ UNCHANGED result /\ state[j] # "failed"
      /\ \/ FinishOracle(j)
         \/ Moved(j) /\ UNCHANGED pos
         \/ Failing(j)
         \/ Panicked(j)
  BY JobMoved DEF Running, Working
<1>2. CASE FinishOracle(j)
  <2>1. /\ state[j] = "claims" /\ Goto(j, "open") /\ pos' = [pos EXCEPT ![j] = @ + 1]
        /\ pos[j] <= Len(JobList[j])
    BY <1>2 DEF FinishOracle, InList
  <2>2. state'[j] = "open" /\ \A i \in Jobs \ {j} : state'[i] = state[i]
    BY <2>1, Moves
  <2>3. ~Passed(Oracle(j)) /\ ~FailedAt(Oracle(j)) /\ Oracle(j) \in Oracles
    BY <1>1, <2>1, CurrentIsOpen
  <2>4. /\ \A o \in Oracles : (Passed(o))' <=> Passed(o) \/ o = Oracle(j)
        /\ \A o \in Oracles : (FailedAt(o))' <=> FailedAt(o)
    BY <1>1, <2>1, <2>2, FinishSettles
  <2>5. OracleOk(Oracle(j))
    <3>1. pos'[j] - 1 = pos[j] /\ pos[j] \in 1 .. pos[j]
      <4>1. pos'[j] = pos[j] + 1 /\ pos[j] \in Nat
        BY <2>1 DEF TypeOK
      <4>2. pos[j] >= 1
        BY JobLists DEF TypeOK
      <4> QED
        BY <4>1, <4>2
    <3>2. \A i \in 1 .. pos'[j] - 1 : OracleOk(JobList[j][i])
      BY DEF JobInvs, JobInv, JobFacts
    <3> QED
      BY <3>1, <3>2 DEF Oracle
  <2>6. PICK o \in Oracles : o = Oracle(j)
    BY <2>3
  <2>7. GoalStatus(o) = "open" /\ GoalStatus(o)' = "proved"
        /\ \A p \in Oracles \ {o} : GoalStatus(p)' = GoalStatus(p)
    BY <2>3, <2>4, <2>6 DEF GoalStatus
  <2>8. o \in Holding
    BY <2>5, <2>6 DEF Holding, OracleOk
  <2> QED
    BY <1>1, <2>7, <2>8, StatusStep
<1>3. CASE (Moved(j) /\ UNCHANGED pos) \/ Panicked(j)
  <2>1. UNCHANGED pos /\ \A i \in Jobs : state'[i] = "failed" <=> state[i] = "failed"
    BY <1>1, <1>3, NoFailure DEF Moved, Panicked
  <2>2. \A o \in Oracles : GoalStatus(o)' = GoalStatus(o)
    BY <2>1, SameStatus
  <2> QED
    BY <1>1, <2>2 DEF Goal!goalVars, GoalStatus
<1>4. CASE Failing(j)
  <2>1. /\ UNCHANGED pos /\ state'[j] = "failed" /\ \A i \in Jobs \ {j} : state'[i] = state[i]
        /\ pos[j] <= Len(JobList[j]) \/ JobList[j] = <<>>
    BY <1>4, OneFailure DEF Failing
  <2>2. CASE pos[j] <= Len(JobList[j])
    <3>1. ~Passed(Oracle(j)) /\ ~FailedAt(Oracle(j)) /\ Oracle(j) \in Oracles
      BY <1>1, <2>2, CurrentIsOpen
    <3>2. /\ \A o \in Oracles : (Passed(o))' <=> Passed(o)
          /\ \A o \in Oracles : (FailedAt(o))' <=> FailedAt(o) \/ o = Oracle(j)
      BY <2>1, <2>2, FailureSettles
    <3>3. PICK o \in Oracles : o = Oracle(j)
      BY <3>1
    <3>4. GoalStatus(o) = "open" /\ GoalStatus(o)' = "failed"
          /\ \A p \in Oracles \ {o} : GoalStatus(p)' = GoalStatus(p)
      BY <3>1, <3>2, <3>3 DEF GoalStatus
    <3> QED
      BY <1>1, <3>4, StatusStep
  <2>3. CASE JobList[j] = <<>>
    <3>1. Oracles = {}
      BY <2>3, EmptyJob
    <3> QED
      BY <1>1, <3>1 DEF Goal!goalVars
  <2> QED
    BY <2>1, <2>2, <2>3
<1> QED
  BY <1>1, <1>2, <1>3, <1>4

\* The answer fits what has been settled.
LEMMA ReturnRefines ==
  ASSUME TypeOK, JobInvs, Reports, Return
  PROVE  Goal!GoalNext
<1>1. /\ result = "none" /\ UNCHANGED <<state, pos>>
      /\ \A j \in Jobs : state[j] \in {"ok", "failed"}
      /\ result' = IF Failed = {} THEN "ok" ELSE "err"
  BY DEF Return, jobVars
<1>2. \A o \in Oracles : GoalStatus(o)' = GoalStatus(o)
  BY <1>1, SameStatus
<1>3. CASE Failed = {}
  <2>1. ASSUME NEW o \in Oracles PROVE Passed(o)
    <3>1. PICK j \in Jobs : \E i \in 1 .. Len(JobList[j]) : JobList[j][i] = o
      BY JobLists
    <3>2. PICK i \in 1 .. Len(JobList[j]) : JobList[j][i] = o
      BY <3>1
    <3>3. state[j] = "ok"
      BY <1>1, <1>3 DEF Failed
    <3>4. pos[j] > Len(JobList[j])
      BY <3>3 DEF JobInvs, JobInv, JobFacts
    <3>5. i \in 1 .. pos[j] - 1
      BY <3>4, JobLists DEF TypeOK
    <3> QED
      BY <3>2, <3>5 DEF Passed
  <2>2. Goal!AnswerOk
    BY <1>1, <1>2, <1>3, <2>1 DEF Goal!AnswerOk, GoalStatus
  <2> QED
    BY <2>2 DEF Goal!GoalNext
<1>4. CASE Failed # {}
  <2>1. PICK j \in Jobs : state[j] = "failed"
    BY <1>4 DEF Failed
  <2>2. Oracles = {} \/ \E o \in Oracles : GoalStatus(o) = "failed"
    <3>1. CASE pos[j] <= Len(JobList[j])
      BY <2>1, <3>1, CurrentIsOpen DEF GoalStatus
    <3>2. CASE JobList[j] = <<>>
      BY <3>2, EmptyJob
    <3> QED
      BY <2>1, <3>1, <3>2 DEF Reports
  <2>3. Goal!AnswerErr
    BY <1>1, <1>2, <1>4, <2>2 DEF Goal!AnswerErr, GoalStatus
  <2> QED
    BY <2>3 DEF Goal!GoalNext
<1> QED
  BY <1>3, <1>4

LEMMA GoalSteps ==
  TypeOK /\ InList /\ JobInvs /\ JobInvs' /\ Reports /\ [Next]_vars =>
    [Goal!GoalNext]_(Goal!goalVars)
<1> SUFFICES ASSUME TypeOK, InList, JobInvs, JobInvs', Reports, [Next]_vars
             PROVE  Goal!GoalNext \/ UNCHANGED Goal!goalVars
  OBVIOUS
<1>1. ASSUME NEW j \in Jobs, JobStep(j) \/ SessionBreaks(j) \/ SessionHangs(j)
      PROVE  Goal!GoalNext \/ UNCHANGED Goal!goalVars
  BY <1>1, JobRefines
<1>2. CASE Return
  BY <1>2, ReturnRefines
<1>3. CASE Unwind
  <2>1. result = "none" /\ result' = "panic" /\ UNCHANGED <<state, pos>>
    BY <1>3 DEF Unwind, jobVars
  <2>2. \A o \in Oracles : GoalStatus(o)' = GoalStatus(o)
    BY <2>1, SameStatus
  <2>3. Goal!AnswerPanic
    BY <2>1, <2>2 DEF Goal!AnswerPanic, GoalStatus
  <2> QED
    BY <2>3 DEF Goal!GoalNext
<1>4. CASE UNCHANGED vars
  <2>1. UNCHANGED <<result, state, pos>>
    BY <1>4 DEF vars, jobVars
  <2>2. \A o \in Oracles : GoalStatus(o)' = GoalStatus(o)
    BY <2>1, SameStatus
  <2> QED
    BY <2>1, <2>2 DEF Goal!goalVars, GoalStatus
<1> QED
  BY <1>1, <1>2, <1>3, <1>4 DEF Next, Over

\* Both ways of checking an equivalence, in one session or in one session per
\* oracle, settle each oracle on its own and answer accordingly (verify and
\* verify_parallel).
THEOREM Implements == Spec => ImplementsGoal
<1>1. Init => Goal!GoalInit
  BY GoalStarts
<1>2. TypeOK /\ InList /\ JobInvs /\ JobInvs' /\ Reports /\ [Next]_vars =>
        [Goal!GoalNext]_(Goal!goalVars)
  BY GoalSteps
<1> QED
  BY <1>1, <1>2, TypeInvariant, JobInvariant, ReportsInvariant, PTL
     DEF Spec, ImplementsGoal, Goal!GoalSpec

-----------------------------------------------------------------------------
(* Nobody waits, and nothing runs in circles. *)

\* What each step of a job needs.  ENABLED is out of the prover's reach, so the
\* guards are written out; a verdict there always is, since the solver may give up.
JobCanStep(j) ==
  \/ state[j] = "queued" /\ Cardinality(RunningJobs) < Threads
  \/ state[j] = "open" /\ (pos[j] <= Len(JobList[j]) \/ pos[j] > Len(JobList[j]))
  \/ /\ state[j] = "files"
     /\ \/ next[j] <= Len(Files(Oracle(j))) /\ Verdict(Tell(stack[j], File(Oracle(j), Files(Oracle(j))[next[j]]))) # {}
        \/ next[j] > Len(Files(Oracle(j)))
  \/ state[j] = "claims" /\ (next[j] <= Len(Claims(Oracle(j))) \/ next[j] > Len(Claims(Oracle(j))))
  \/ state[j] = "asked" /\ Verdict(stack[j]) # {}
AllReturned == \A j \in Jobs : state[j] \in {"ok", "failed"}
SomePanicked == RunningJobs = {} /\ \E j \in Jobs : state[j] = "panicked"

\* verify and verify_parallel never wait for nothing: until they return, a job can go
\* on or be taken by a free thread, or they return, or pass a panic on, unless jobs
\* hang and no other job is left or no other thread.
NoJobStarves ==
  result = "none" =>
    (\E j \in Jobs : JobCanStep(j)) \/ AllReturned \/ SomePanicked \/ HangsForEver

\* Rayon's pool takes a job with a free thread only.
PoolBound == Cardinality(RunningJobs) <= Threads

LEMMA RunningIsFinite == IsFiniteSet(RunningJobs) /\ Cardinality(RunningJobs) \in Nat
<1>1. IsFiniteSet(Jobs)
  BY JobLists, FS_Interval DEF Jobs
<1> QED
  BY <1>1, FS_Subset, FS_CardinalityType DEF RunningJobs

\* Only Begin takes a thread.
LEMMA PoolStep == ASSUME TypeOK, InList, Reports, PoolBound, [Next]_vars PROVE PoolBound'
<1>0. Threads \in Nat
  BY EquivalenceAssumption DEF Threads, IsParallel
<1>1. ASSUME NEW j \in Jobs, Begin(j) PROVE PoolBound'
  <2>1. state'[j] = "open" /\ \A i \in Jobs \ {j} : state'[i] = state[i]
    BY <1>1, Moves DEF Begin
  <2>2. RunningJobs' = RunningJobs \cup {j} /\ j \notin RunningJobs
    BY <1>1, <2>1 DEF RunningJobs, Begin, Running, Working
  <2>3. Cardinality(RunningJobs)' = Cardinality(RunningJobs) + 1
    BY <2>2, RunningIsFinite, FS_AddElement
  <2> QED
    BY <1>0, <1>1, <2>3, RunningIsFinite DEF PoolBound, Begin
<1>2. ASSUME RunningJobs' \subseteq RunningJobs PROVE PoolBound'
  <2>1. Cardinality(RunningJobs') <= Cardinality(RunningJobs) /\ Cardinality(RunningJobs') \in Nat
    BY <1>2, RunningIsFinite, FS_Subset, FS_CardinalityType
  <2> QED
    BY <1>0, <2>1, RunningIsFinite DEF PoolBound
<1>3. ASSUME NEW j \in Jobs, JobStep(j) \/ SessionBreaks(j) \/ SessionHangs(j), ~Begin(j)
      PROVE  RunningJobs' \subseteq RunningJobs
  <2>1. state[j] \in Running
    BY <1>3 DEF JobStep, StartOracle, ReadInvariant, InvariantsRead, AssertClaim, ClaimVerdict,
       FinishOracle, JobDone, SessionBreaks, SessionHangs, Running, Working
  <2>2. ASSUME NEW i \in Jobs \ {j} PROVE state'[i] = state[i]
    <3>1. FinishOracle(j) => Goto(j, "open")
      BY DEF FinishOracle
    <3> QED
      BY <1>3, <3>1, JobMoved, Moves DEF Moved, Failing, Panicked
  <2> QED
    BY <2>1, <2>2 DEF RunningJobs
<1>4. ASSUME UNCHANGED state PROVE RunningJobs' \subseteq RunningJobs
  BY <1>4 DEF RunningJobs
<1> QED
  BY <1>1, <1>2, <1>3, <1>4 DEF Next, Over, Return, Unwind, vars, jobVars

LEMMA PoolInvariant == Spec => []PoolBound
<1>1. ASSUME Init PROVE PoolBound
  <2>1. RunningJobs = {}
    BY <1>1 DEF Init, RunningJobs, Running, Working
  <2> QED
    BY <2>1, FS_EmptySet, EquivalenceAssumption DEF PoolBound, Threads, IsParallel
<1>2. TypeOK /\ InList /\ Reports /\ PoolBound /\ [Next]_vars => PoolBound'
  BY PoolStep
<1> QED
  BY <1>1, <1>2, TypeInvariant, ReportsInvariant, PTL DEF Spec

\* With nobody at work a thread is free, unless all of them hang.
THEOREM SomebodyWorks == Spec => []NoJobStarves
<1>1. ASSUME TypeOK, JobInvs, PoolBound PROVE NoJobStarves
  <2> SUFFICES ASSUME result = "none", ~AllReturned, ~SomePanicked, ~HangsForEver
               PROVE  \E j \in Jobs : JobCanStep(j)
    BY DEF NoJobStarves
  <2>1. ASSUME NEW j \in Jobs, state[j] \in Working PROVE JobCanStep(j)
    <3>1. \A stk : Verdict(stk) # {}
      BY DEF Verdict
    <3>2. state[j] \in {"open", "files", "claims", "asked"} /\ pos[j] \in Nat /\ next[j] \in Nat
      BY <2>1, <1>1 DEF Working, TypeOK
    <3>3. JobInv(j)
      BY <1>1 DEF JobInvs
    <3>4. state[j] \in {"files", "claims", "asked"} => Oracle(j) \in DOMAIN Trees
      BY <3>3 DEF JobInv, JobFacts, Oracle
    <3>5. Len(JobList[j]) \in Nat /\ Len(Files(Oracle(j))) \in Nat
      BY JobLists, ProofFileTypes
    <3>6. CASE state[j] = "open"
      BY <3>2, <3>5, <3>6 DEF JobCanStep
    <3>7. CASE state[j] = "files"
      BY <3>1, <3>2, <3>5, <3>7 DEF JobCanStep
    <3>8. CASE state[j] = "claims"
      <4>1. Len(Claims(Oracle(j))) \in Nat
        BY <3>4, <3>8, ProofFileTypes
      <4> QED
        BY <4>1, <3>2, <3>8 DEF JobCanStep
    <3>9. CASE state[j] = "asked"
      BY <3>1, <3>9 DEF JobCanStep
    <3> QED
      BY <3>2, <3>6, <3>7, <3>8, <3>9
  <2>2. CASE \E j \in Jobs : state[j] \in Working
    BY <2>1, <2>2
  <2>3. CASE RunningJobs = {}
    <3>1. PICK j \in Jobs : state[j] \notin {"ok", "failed"}
      BY DEF AllReturned
    <3>2. state[j] # "panicked" /\ state[j] \notin Running
      BY <2>3 DEF SomePanicked, RunningJobs
    <3>3. state[j] = "queued"
      BY <3>1, <3>2, <1>1 DEF TypeOK, JobStates
    <3>4. Cardinality(RunningJobs) = 0 /\ Threads \in Nat /\ Threads > 0
      BY <2>3, FS_EmptySet, EquivalenceAssumption DEF Threads, IsParallel
    <3> QED
      BY <3>3, <3>4 DEF JobCanStep
  <2>4. CASE RunningJobs # {} /\ ~\E j \in Jobs : state[j] \in Working
    <3>1. RunningJobs = Hung
      BY <2>4 DEF RunningJobs, Hung, Running
    <3>2. PICK j \in Jobs : state[j] \notin {"ok", "failed", "panicked", "hung"}
      BY <2>4, <3>1 DEF HangsForEver
    <3>3. state[j] = "queued"
      BY <2>4, <3>2, <1>1 DEF TypeOK, JobStates, Running
    <3>4. Cardinality(RunningJobs) # Threads
      BY <2>4, <3>1 DEF HangsForEver
    <3>5. Cardinality(RunningJobs) < Threads
      BY <3>4, <1>1, RunningIsFinite, EquivalenceAssumption DEF PoolBound, Threads, IsParallel
    <3> QED
      BY <3>3, <3>5 DEF JobCanStep
  <2> QED
    BY <2>2, <2>3, <2>4
<1> QED
  BY <1>1, JobInvariant, PoolInvariant, PTL

\* The steps left to a job in state s at index n of its oracle, the p-th of its list:
\* each invariant file takes one, each claim two.
StepsIn(o) == Len(Files(o)) + 2 * Len(Claims(o)) + 3
StepsAt(j, s, p, n) ==
  IF s \in {"ok", "failed", "panicked", "hung"} THEN 0
  ELSE IF p > Len(JobList[j]) \/ JobList[j][p] \notin DOMAIN Trees
    THEN IF s = "queued" THEN 2 ELSE 1
  ELSE IF s = "queued" THEN StepsIn(JobList[j][p]) + 2
  ELSE IF s = "open" THEN StepsIn(JobList[j][p]) + 1
  ELSE IF s = "files" THEN StepsIn(JobList[j][p]) - n
  ELSE IF s = "claims" THEN 2 * (Len(Claims(JobList[j][p])) - n) + 3
  ELSE 2 * (Len(Claims(JobList[j][p])) - n) + 2
StepsLeft(j) == StepsAt(j, state[j], pos[j], next[j])

\* A job goes on to its next oracle or uses up some of its steps in the one it is at.
Advances(j) ==
  \/ pos[j] \in 1 .. Len(JobList[j]) /\ pos'[j] = pos[j] + 1
  \/ pos'[j] = pos[j] /\ StepsLeft(j) \in Nat /\ StepsLeft(j)' \in Nat /\ StepsLeft(j)' < StepsLeft(j)

\* What is left where no oracle is, and in each state of one that has f files and c
\* claims.
LEMMA LeftOutside ==
  ASSUME NEW j \in Jobs, NEW p \in Nat, p > Len(JobList[j]) \/ JobList[j][p] \notin DOMAIN Trees
  PROVE  \A n \in Nat : StepsAt(j, "queued", p, n) = 2 /\ \A s \in Working : StepsAt(j, s, p, n) = 1
BY DEF StepsAt, Working

LeftInside(j, p, f, c) ==
  \A n \in Nat : /\ StepsAt(j, "queued", p, n) = f + 2 * c + 5
                 /\ StepsAt(j, "open", p, n) = f + 2 * c + 4
                 /\ StepsAt(j, "files", p, n) = f + 2 * c + 3 - n
                 /\ StepsAt(j, "claims", p, n) = 2 * (c - n) + 3
                 /\ StepsAt(j, "asked", p, n) = 2 * (c - n) + 2

LEMMA InsideOracle ==
  ASSUME NEW j \in Jobs, NEW p \in Nat, p <= Len(JobList[j]), JobList[j][p] \in DOMAIN Trees
  PROVE  \E f, c \in Nat : /\ f = Len(Files(JobList[j][p])) /\ c = Len(Claims(JobList[j][p]))
                           /\ LeftInside(j, p, f, c)
<1>1. /\ Len(Files(JobList[j][p])) \in Nat /\ Len(Claims(JobList[j][p])) \in Nat
      /\ Len(JobList[j]) \in Nat
  BY ProofFileTypes, JobLists
<1>2. ~(p > Len(JobList[j]) \/ JobList[j][p] \notin DOMAIN Trees)
  BY <1>1
<1>3. LeftInside(j, p, Len(Files(JobList[j][p])), Len(Claims(JobList[j][p])))
  BY <1>1, <1>2 DEF StepsAt, StepsIn, LeftInside
<1> QED
  BY <1>1, <1>3

\* A job at work has a step left, at the least.
LEMMA SomeLeft ==
  ASSUME TypeOK, InList, JobInvs, NEW j \in Jobs, state[j] \in Working
  PROVE  StepsLeft(j) \in Nat /\ StepsLeft(j) > 0
<1> DEFINE o == JobList[j][pos[j]]
<1>1. pos[j] \in Nat /\ next[j] \in Nat /\ Len(JobList[j]) \in Nat
  BY JobLists DEF TypeOK
<1>2. JobFacts(j, state[j], pos[j], next[j], stack[j])
  BY DEF JobInvs, JobInv
<1>3. CASE pos[j] > Len(JobList[j]) \/ o \notin DOMAIN Trees
  BY <1>1, <1>3, LeftOutside DEF StepsLeft
<1>4. CASE ~(pos[j] > Len(JobList[j]) \/ o \notin DOMAIN Trees)
  <2>1. PICK f, c \in Nat : f = Len(Files(o)) /\ c = Len(Claims(o)) /\ LeftInside(j, pos[j], f, c)
    BY <1>1, <1>4, InsideOracle
  <2>2. CASE state[j] = "open"
    <3>1. StepsLeft(j) = f + 2 * c + 4
      BY <1>1, <2>1, <2>2 DEF StepsLeft, LeftInside
    <3> QED
      BY <3>1
  <2>3. CASE state[j] = "files"
    <3>1. next[j] \in 1 .. f + 1
      BY <1>2, <2>1, <2>3 DEF JobFacts, ReadingFiles
    <3>2. StepsLeft(j) = f + 2 * c + 3 - next[j]
      BY <1>1, <2>1, <2>3 DEF StepsLeft, LeftInside
    <3> QED
      BY <3>1, <3>2
  <2>4. CASE state[j] = "claims"
    <3>1. next[j] \in 1 .. c + 1
      BY <1>2, <2>1, <2>4 DEF JobFacts, AtClaims, BeforeClaim
    <3>2. StepsLeft(j) = 2 * (c - next[j]) + 3
      BY <1>1, <2>1, <2>4 DEF StepsLeft, LeftInside
    <3> QED
      BY <3>1, <3>2
  <2>5. CASE state[j] = "asked"
    <3>1. next[j] \in 1 .. c
      BY <1>2, <2>1, <2>5 DEF JobFacts, Asked
    <3>2. StepsLeft(j) = 2 * (c - next[j]) + 2
      BY <1>1, <2>1, <2>5 DEF StepsLeft, LeftInside
    <3> QED
      BY <3>1, <3>2
  <2> QED
    BY <2>2, <2>3, <2>4, <2>5 DEF Working
<1> QED
  BY <1>3, <1>4

\* A job that is over, or hangs, has nothing left.
LEMMA NothingLeftToDo ==
  ASSUME TypeOK, InList, JobInvs, NEW j \in Jobs, state[j] \in Working,
         UNCHANGED pos, state'[j] \in {"ok", "failed", "panicked", "hung"}
  PROVE  Advances(j)
<1>1. StepsLeft(j) \in Nat /\ StepsLeft(j) > 0
  BY SomeLeft
<1>2. StepsLeft(j)' = 0
  BY DEF StepsLeft, StepsAt
<1> QED
  BY <1>1, <1>2 DEF Advances

LEMMA JobStepAdvances ==
  ASSUME TypeOK, InList, JobInvs, NEW j \in Jobs, JobStep(j) \/ SessionBreaks(j) \/ SessionHangs(j)
  PROVE  Advances(j)
<1> DEFINE o == JobList[j][pos[j]]
           n == next[j]
           m == next'[j]
<1>0. /\ pos[j] \in Nat /\ n \in Nat /\ Len(JobList[j]) \in Nat
      /\ pos[j] \in 1 .. Len(JobList[j]) + 1
  BY JobLists DEF TypeOK
<1>a. JobFacts(j, state[j], pos[j], n, stack[j])
  BY DEF JobInvs, JobInv
<1>b. state[j] \in {"files", "claims", "asked"} => pos[j] <= Len(JobList[j]) /\ o \in DOMAIN Trees
  BY <1>a DEF InList, JobFacts
<1>c. /\ \A s : Goto(j, s) => state'[j] = s
      /\ \A e : Fail(j, e) => state'[j] = "failed"
      /\ Panic(j) => state'[j] = "panicked"
  BY Moves
<1>d. ASSUME pos[j] <= Len(JobList[j]), o \in DOMAIN Trees
      PROVE  \E f, c \in Nat : f = Len(Files(o)) /\ c = Len(Claims(o)) /\ LeftInside(j, pos[j], f, c)
  BY <1>0, <1>d, InsideOracle
<1>1. CASE Begin(j)
  <2>1. state[j] = "queued" /\ state'[j] = "open" /\ pos'[j] = pos[j] /\ m = n
    BY <1>1, <1>c DEF Begin
  <2>2. CASE pos[j] > Len(JobList[j]) \/ o \notin DOMAIN Trees
    <3>1. StepsLeft(j) = 2 /\ StepsLeft(j)' = 1
      BY <1>0, <2>1, <2>2, LeftOutside DEF Working, StepsLeft
    <3> QED
      BY <2>1, <3>1 DEF Advances
  <2>3. CASE pos[j] <= Len(JobList[j]) /\ o \in DOMAIN Trees
    <3>1. PICK f, c \in Nat : LeftInside(j, pos[j], f, c)
      BY <1>d, <2>3
    <3>2. StepsLeft(j) = f + 2 * c + 5 /\ StepsLeft(j)' = f + 2 * c + 4
      BY <1>0, <2>1, <3>1 DEF LeftInside, StepsLeft
    <3> QED
      BY <2>1, <3>2 DEF Advances
  <2> QED
    BY <1>0, <2>2, <2>3
<1>2. CASE StartOracle(j)
  <2>1. state[j] = "open" /\ pos[j] <= Len(JobList[j]) /\ UNCHANGED pos
    BY <1>2 DEF StartOracle
  <2>2. CASE o \in DOMAIN Trees /\ o \in RightExports
    <3>1. m = 1 /\ state'[j] = "files"
      BY <1>2, <1>c, <2>1, <2>2 DEF StartOracle, Oracle, TypeOK
    <3>2. PICK f, c \in Nat : LeftInside(j, pos[j], f, c)
      BY <1>d, <2>1, <2>2
    <3>3. StepsLeft(j) = f + 2 * c + 4 /\ StepsLeft(j)' = f + 2 * c + 3 - 1
      BY <1>0, <2>1, <3>1, <3>2 DEF LeftInside, StepsLeft
    <3> QED
      BY <2>1, <3>3 DEF Advances
  <2>3. CASE Panic(j)
    BY <1>c, <2>1, <2>3, NothingLeftToDo DEF Working
  <2> QED
    BY <1>2, <2>2, <2>3 DEF StartOracle, Oracle
<1>3. CASE ReadInvariant(j)
  <2>1. state[j] = "files" /\ UNCHANGED pos /\ n <= Len(Files(o))
    BY <1>3 DEF ReadInvariant, Oracle
  <2>2. CASE Goto(j, "files") /\ next' = [next EXCEPT ![j] = @ + 1]
    <3>1. m = n + 1 /\ state'[j] = "files"
      BY <1>c, <2>2 DEF TypeOK
    <3>2. PICK f, c \in Nat : f = Len(Files(o)) /\ LeftInside(j, pos[j], f, c)
      BY <1>b, <1>d, <2>1
    <3>3. \A k \in Nat : StepsAt(j, "files", pos[j], k) = f + 2 * c + 3 - k
      BY <3>2 DEF LeftInside
    <3>5. /\ n + 1 \in Nat /\ StepsLeft(j) = StepsAt(j, "files", pos[j], n)
          /\ StepsLeft(j)' = StepsAt(j, "files", pos[j], n + 1)
      BY <1>0, <2>1, <3>1 DEF StepsLeft
    <3>6. StepsLeft(j) = f + 2 * c + 3 - n /\ StepsLeft(j)' = f + 2 * c + 3 - (n + 1)
      BY <1>0, <3>3, <3>5
    <3>4. n \in Nat /\ n <= f
      BY <1>0, <2>1, <3>2
    <3> HIDE DEF n
    <3> QED
      BY <2>1, <3>4, <3>6 DEF Advances
  <2>3. CASE Fail(j, "UnsatAfterInvariantRead")
    BY <1>c, <2>1, <2>3, NothingLeftToDo DEF Working
  <2> QED
    BY <1>3, <2>2, <2>3 DEF ReadInvariant
<1>4. CASE InvariantsRead(j)
  <2>1. state[j] = "files" /\ state'[j] = "claims" /\ UNCHANGED pos /\ m = 1
    BY <1>4, <1>c DEF InvariantsRead, TypeOK
  <2>2. PICK f, c \in Nat : f = Len(Files(o)) /\ LeftInside(j, pos[j], f, c)
    BY <1>b, <1>d, <2>1
  <2>3. n \in 1 .. f + 1
    BY <1>a, <2>1, <2>2 DEF JobFacts, ReadingFiles
  <2>4. StepsLeft(j) = f + 2 * c + 3 - n /\ StepsLeft(j)' = 2 * (c - 1) + 3
    BY <1>0, <2>1, <2>2 DEF LeftInside, StepsLeft
  <2> HIDE DEF n
  <2> QED
    BY <2>1, <2>3, <2>4 DEF Advances
<1>5. CASE AssertClaim(j)
  <2>1. state[j] = "claims" /\ UNCHANGED <<pos, next>> /\ n <= Len(Claims(o))
    BY <1>5 DEF AssertClaim, Oracle
  <2>2. CASE Goto(j, "asked")
    <3>1. PICK f, c \in Nat : c = Len(Claims(o)) /\ LeftInside(j, pos[j], f, c)
      BY <1>b, <1>d, <2>1
    <3>2. StepsLeft(j) = 2 * (c - n) + 3 /\ StepsLeft(j)' = 2 * (c - n) + 2
      BY <1>0, <1>c, <2>1, <2>2, <3>1 DEF LeftInside, StepsLeft
    <3>3. n \in Nat /\ n <= c
      BY <1>0, <2>1, <3>1
    <3> HIDE DEF n
    <3> QED
      BY <2>1, <3>2, <3>3 DEF Advances
  <2>3. CASE Panic(j)
    BY <1>c, <2>1, <2>3, NothingLeftToDo DEF Working
  <2> QED
    BY <1>5, <2>2, <2>3 DEF AssertClaim
<1>6. CASE ClaimVerdict(j)
  <2>1. state[j] = "asked" /\ UNCHANGED pos
    BY <1>6 DEF ClaimVerdict
  <2>2. CASE Goto(j, "claims") /\ next' = [next EXCEPT ![j] = @ + 1]
    <3>1. m = n + 1 /\ state'[j] = "claims"
      BY <1>c, <2>2 DEF TypeOK
    <3>2. PICK f, c \in Nat : c = Len(Claims(o)) /\ LeftInside(j, pos[j], f, c)
      BY <1>b, <1>d, <2>1
    <3>3. \A k \in Nat : /\ StepsAt(j, "asked", pos[j], k) = 2 * (c - k) + 2
                         /\ StepsAt(j, "claims", pos[j], k) = 2 * (c - k) + 3
      BY <3>2 DEF LeftInside
    <3>5. /\ n + 1 \in Nat /\ StepsLeft(j) = StepsAt(j, "asked", pos[j], n)
          /\ StepsLeft(j)' = StepsAt(j, "claims", pos[j], n + 1)
      BY <1>0, <2>1, <3>1 DEF StepsLeft
    <3>6. StepsLeft(j) = 2 * (c - n) + 2 /\ StepsLeft(j)' = 2 * (c - (n + 1)) + 3
      BY <1>0, <3>3, <3>5
    <3>4. n \in 1 .. c
      BY <1>a, <2>1, <3>2 DEF JobFacts, Asked
    <3> HIDE DEF n
    <3> QED
      BY <2>1, <3>4, <3>6 DEF Advances
  <2>3. CASE Fail(j, "ClaimProofFailed")
    BY <1>c, <2>1, <2>3, NothingLeftToDo DEF Working
  <2> QED
    BY <1>6, <2>2, <2>3 DEF ClaimVerdict
<1>7. CASE FinishOracle(j)
  <2>1. pos'[j] = pos[j] + 1 /\ state[j] = "claims"
    BY <1>7 DEF FinishOracle, TypeOK
  <2> QED
    BY <1>0, <1>b, <2>1 DEF Advances
<1>8. CASE JobDone(j)
  BY <1>8, <1>c, NothingLeftToDo DEF JobDone, Working
<1>9. CASE SessionBreaks(j)
  <2>1. /\ state[j] \in Working /\ UNCHANGED pos
        /\ Panic(j) \/ Fail(j, "ProverProcessError") \/ Fail(j, "InvariantFileReadError")
    BY <1>9 DEF SessionBreaks
  <2>2. state'[j] \in {"failed", "panicked"}
    BY <2>1, <1>c
  <2> QED
    BY <2>1, <2>2, NothingLeftToDo
<1>10. CASE SessionHangs(j)
  <2>1. state[j] \in Working /\ UNCHANGED pos /\ state'[j] = "hung"
    BY <1>10, <1>c DEF SessionHangs, Working
  <2> QED
    BY <2>1, NothingLeftToDo
<1> QED
  BY <1>1, <1>2, <1>3, <1>4, <1>5, <1>6, <1>7, <1>8, <1>9, <1>10 DEF JobStep

\* The threads share no job: a step of one leaves the jobs of all others alone.
StandsStill(j) == UNCHANGED <<state[j], pos[j], next[j], stack[j], error[j]>>

LEMMA OthersStandStill ==
  ASSUME TypeOK, StackShape, NEW j \in Jobs, JobStep(j) \/ SessionBreaks(j) \/ SessionHangs(j), NEW k \in Jobs \ {j}
  PROVE  StandsStill(k)
<1> DEFINE Only == state'[k] = state[k] /\ error'[k] = error[k]
<1>1. /\ \A s : Goto(j, s) => Only
      /\ \A e : Fail(j, e) => Only
      /\ Panic(j) => Only
  BY DEF TypeOK, Goto, Fail, Panic
<1>2. /\ \A x : [pos EXCEPT ![j] = x][k] = pos[k]
      /\ \A x : [next EXCEPT ![j] = x][k] = next[k]
      /\ \A x : [stack EXCEPT ![j] = x][k] = stack[k]
  BY DEF TypeOK, StackShape
<1> HIDE DEF Only
<1>3. /\ \E x : pos' = pos \/ pos' = [pos EXCEPT ![j] = x]
      /\ \E x : next' = next \/ next' = [next EXCEPT ![j] = x]
      /\ \E x : stack' = stack \/ stack' = [stack EXCEPT ![j] = x]
      /\ Only
  <2>1. CASE Begin(j)
    BY <1>1, <2>1 DEF Begin
  <2>2. CASE StartOracle(j)
    BY <1>1, <2>2 DEF StartOracle
  <2>3. CASE ReadInvariant(j)
    BY <1>1, <2>3 DEF ReadInvariant
  <2>4. CASE InvariantsRead(j)
    BY <1>1, <2>4 DEF InvariantsRead
  <2>5. CASE AssertClaim(j)
    BY <1>1, <2>5 DEF AssertClaim
  <2>6. CASE ClaimVerdict(j)
    BY <1>1, <2>6 DEF ClaimVerdict
  <2>7. CASE FinishOracle(j)
    BY <1>1, <2>7 DEF FinishOracle
  <2>8. CASE JobDone(j)
    BY <1>1, <2>8 DEF JobDone
  <2>9. CASE SessionBreaks(j)
    BY <1>1, <2>9 DEF SessionBreaks
  <2>10. CASE SessionHangs(j)
    BY <1>1, <2>10 DEF SessionHangs
  <2> QED
    BY <2>1, <2>2, <2>3, <2>4, <2>5, <2>6, <2>7, <2>8, <2>9, <2>10 DEF JobStep
<1>4. pos'[k] = pos[k]
  BY <1>2, <1>3
<1>5. next'[k] = next[k]
  BY <1>2, <1>3
<1>6. stack'[k] = stack[k]
  BY <1>2, <1>3
<1> QED
  BY <1>3, <1>4, <1>5, <1>6 DEF Only, StandsStill

\* A step of the program advances one job and leaves all others alone, or it ends the
\* call; after that nothing happens any more.
OneGoesOn ==
  /\ result = "none"
  /\ \/ /\ UNCHANGED <<result, failures>>
        /\ \E j \in Jobs : Advances(j) /\ \A k \in Jobs \ {j} : StandsStill(k)
     \/ result' # "none" /\ UNCHANGED jobVars

\* Every step of a job uses up some of a number of steps that the proof file bounds,
\* whatever the verdicts and failures, so that no checking of an equivalence runs for
\* ever; with SomebodyWorks this is what EventuallyReturns rests on.
THEOREM JobsRunOut == Spec => [][OneGoesOn]_vars
<1>1. ASSUME TypeOK, InList, JobInvs, Reports, [Next]_vars PROVE [OneGoesOn]_vars
  <2>1. ASSUME NEW j \in Jobs, JobStep(j) \/ SessionBreaks(j) \/ SessionHangs(j) PROVE OneGoesOn
    <3>1. Advances(j)
      BY <1>1, <2>1, JobStepAdvances
    <3>2. \A k \in Jobs \ {j} : StandsStill(k)
      BY <1>1, <2>1, OthersStandStill DEF JobInvs
    <3>3. result = "none" /\ UNCHANGED <<result, failures>>
      BY <1>1, <2>1, JobMoved
    <3> QED
      BY <3>1, <3>2, <3>3 DEF OneGoesOn
  <2>2. ASSUME Return \/ Unwind PROVE OneGoesOn
    BY <2>2 DEF Return, Unwind, OneGoesOn
  <2> QED
    BY <1>1, <2>1, <2>2 DEF Next, Over
<1> QED
  BY <1>1, TypeInvariant, JobInvariant, ReportsInvariant, PTL DEF Spec
=============================================================================
