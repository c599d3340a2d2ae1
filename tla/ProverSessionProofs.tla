------------------------ MODULE ProverSessionProofs ------------------------
(***************************************************************************)
(* Proofs about ProverSession, for every pipe and buffer capacity, every   *)
(* number of texts and every choice of faults: the safety invariants, that *)
(* the session implements ProverService, and what its liveness rests on.   *)
(***************************************************************************)
EXTENDS ProverSession, FiniteSetTheorems, SequenceTheorems, TLAPS

\* The queries among the first n texts.
Queries(n) == {i \in 1 .. n : sent[i] = "check-sat"}

-----------------------------------------------------------------------------
(* The inductive invariant, part by part. *)

\* Every stage is behind the one before it.
Stages ==
  /\ received <= written /\ written <= taken /\ taken <= Len(sent) /\ logged <= taken
  /\ wpc \in {"start", "recv", "ok"} => written = taken
  /\ Transcripted => written <= logged
  /\ Transcripted /\ wpc = "writing" => logged = taken
  /\ used <= got /\ got <= flushed /\ flushed <= Len(out)

\* The answers are to the queries received, one to each, in their order.
AnswersInv ==
  /\ Len(answers) = Cardinality(Queries(received))
  /\ \A k \in 1 .. Len(answers) :
       /\ answers[k].at \in 1 .. received
       /\ sent[answers[k].at] = "check-sat"
       /\ Cardinality(Queries(answers[k].at)) = k

\* The first k replies are verdicts.
CleanUpTo(k) == \A j \in 1 .. k : out[2 * j - 1].txt \in Verdicts

\* Replies are two pieces each, and as long as they are verdicts, the k-th is
\* the k-th answer.
OutInv ==
  \E m \in 0 .. Len(out) :
    /\ Len(out) = 2 * m
    /\ CleanUpTo(m) => Len(answers) = m
    /\ \A k \in 1 .. m :
         CleanUpTo(k) => k <= Len(answers) /\ out[2 * k - 1].txt = answers[k].verdict

\* The verdicts returned are the replies dropped from the buffer, and only a
\* query under way has no verdict yet.
ReadInv ==
  /\ Len(verdicts) <= Len(answers)
  /\ \A k \in 1 .. Len(verdicts) : verdicts[k] = answers[k].verdict
  /\ pc # "ended" =>
       /\ used = 2 * Len(verdicts)
       /\ \A k \in 1 .. Len(verdicts) : out[2 * k - 1].txt = verdicts[k]
       /\ Cardinality(Queries(Len(sent))) =
            Len(verdicts) + (IF pc = "checking" THEN 1 ELSE 0)
  /\ pc = "checking" => Len(sent) > 0 /\ sent[Len(sent)] = "check-sat"

\* How the processes end.
EndInv ==
  /\ ~chanOpen => pc \in {"modelling", "ended"}
  /\ wpc = "ok" => ~chanOpen /\ taken = Len(sent)
  /\ prover = "exited" /\ pc # "ended" =>
       flushed = Len(out) /\ received = written /\ WriterFinished
  /\ outcome # "none" => pc = "ended"
  /\ outcome = "model" =>
       /\ prover # "up"
       /\ prover = "exited" => WriterFinished
       /\ prover = "exited" /\ wpc = "ok" => received = Len(sent) /\ used = Len(out)

IInv == TypeOK /\ Stages /\ AnswersInv /\ OutInv /\ ReadInv /\ EndInv

-----------------------------------------------------------------------------
(* Types and stages. *)

\* What the solver prints.
Pieces == [txt : Verdicts \cup {"error", "model"}, end : BOOLEAN]

\* What the solver has produced, with a reply behind it.
LEMMA Printed ==
  ASSUME TypeOK, NEW t \in Verdicts \cup {"error", "model"}
  PROVE  /\ out \o Halves(t) \in Seq(Pieces)
         /\ Len(out \o Halves(t)) = Len(out) + 2
         /\ \A i \in 1 .. Len(out) : (out \o Halves(t))[i] = out[i]
         /\ (out \o Halves(t))[Len(out) + 1].txt = t
<1>1. Halves(t) \in Seq(Pieces) /\ Len(Halves(t)) = 2 /\ Halves(t)[1].txt = t
  BY DEF Halves, Pieces
<1>2. out \in Seq(Pieces) /\ Len(out) \in Nat
  BY DEF TypeOK, Pieces
<1>3. \A i \in 1 .. Len(out) + Len(Halves(t)) :
        (out \o Halves(t))[i] = IF i <= Len(out) THEN out[i] ELSE Halves(t)[i - Len(out)]
  BY <1>1, <1>2, ConcatProperties
<1>4. (out \o Halves(t))[Len(out) + 1] = Halves(t)[1]
  <2>1. Len(out) + 1 \in 1 .. Len(out) + Len(Halves(t)) /\ (Len(out) + 1) - Len(out) = 1
        /\ ~(Len(out) + 1 <= Len(out))
    BY <1>1, <1>2
  <2> QED
    BY <1>3, <2>1
<1>5. \A i \in 1 .. Len(out) : (out \o Halves(t))[i] = out[i]
  <2>1. ASSUME NEW i \in 1 .. Len(out) PROVE (out \o Halves(t))[i] = out[i]
    <3>1. i \in 1 .. Len(out) + Len(Halves(t)) /\ i <= Len(out)
      BY <1>1, <1>2
    <3> QED
      BY <1>3, <3>1
  <2> QED
    BY <2>1
<1>6. out \o Halves(t) \in Seq(Pieces) /\ Len(out \o Halves(t)) = Len(out) + 2
  <2>1. Len(out \o Halves(t)) = Len(out) + Len(Halves(t))
    BY <1>1, <1>2, ConcatProperties
  <2>2. out \o Halves(t) \in Seq(Pieces)
    BY <1>1, <1>2, ConcatProperties
  <2> QED
    BY <1>1, <2>1, <2>2
<1> QED
  BY <1>1, <1>4, <1>5, <1>6

\* What a text adds to the texts sent.
LEMMA Sent ==
  ASSUME TypeOK, sent' = Append(sent, msg)
  PROVE  /\ sent' \in Seq(Texts) /\ Len(sent') = Len(sent) + 1 /\ Len(sent) \in Nat
         /\ \A i \in 1 .. Len(sent) : sent'[i] = sent[i]
         /\ sent'[Len(sent) + 1] = msg
<1>1. sent \in Seq(Texts) /\ msg \in Texts /\ Len(sent) \in Nat
  BY DEF TypeOK
<1> QED
  BY <1>1, AppendProperties

\* What a query adds to the answers.
LEMMA Answered ==
  ASSUME TypeOK, NEW v \in Verdicts,
         answers' = Append(answers, [at |-> received + 1, verdict |-> v])
  PROVE  /\ answers' \in Seq([at : Nat, verdict : Verdicts])
         /\ Len(answers') = Len(answers) + 1 /\ Len(answers) \in Nat
         /\ \A k \in 1 .. Len(answers) : answers'[k] = answers[k]
         /\ answers'[Len(answers) + 1] = [at |-> received + 1, verdict |-> v]
<1> DEFINE A == [at : Nat, verdict : Verdicts]
           new == [at |-> received + 1, verdict |-> v]
<1>1. answers \in Seq(A) /\ new \in A /\ answers' = Append(answers, new) /\ Len(answers) \in Nat
  BY DEF TypeOK
<1> HIDE DEF A, new
<1>2. /\ answers' \in Seq(A) /\ Len(answers') = Len(answers) + 1
      /\ \A k \in 1 .. Len(answers) : answers'[k] = answers[k]
      /\ answers'[Len(answers) + 1] = new
  BY <1>1, AppendProperties
<1> QED
  BY <1>1, <1>2 DEF A, new

\* What a verdict adds to those returned.
LEMMA Returned ==
  ASSUME TypeOK, NEW v \in Verdicts, verdicts' = Append(verdicts, v)
  PROVE  /\ verdicts' \in Seq(Verdicts)
         /\ Len(verdicts') = Len(verdicts) + 1 /\ Len(verdicts) \in Nat
         /\ \A k \in 1 .. Len(verdicts) : verdicts'[k] = verdicts[k]
         /\ verdicts'[Len(verdicts) + 1] = v
<1>1. verdicts \in Seq(Verdicts) /\ Len(verdicts) \in Nat
  BY DEF TypeOK
<1> QED
  BY <1>1, AppendProperties

\* The bytes in the buffer are those read and not yet dropped.
LEMMA BufferIs ==
  ASSUME TypeOK, Stages, NEW upTo \in got + 1 .. flushed
  PROVE  /\ Len(Buffer(upTo)) = upTo - used
         /\ \A i \in 1 .. upTo - used : Buffer(upTo)[i] = out[used + i]
<1>1. out \in Seq(Pieces) /\ Len(out) \in Nat
  BY DEF TypeOK, Pieces
<1>2. used \in Nat /\ upTo \in Nat /\ used + 1 <= upTo /\ upTo <= Len(out)
  BY <1>1 DEF TypeOK, Stages
<1>3. \A i \in used + 1 .. upTo : out[i] \in Pieces
  BY <1>1, <1>2, ElementOfSeq
<1>4. /\ Len(Buffer(upTo)) = (upTo - (used + 1)) + 1
      /\ \A i \in 1 .. (upTo - (used + 1)) + 1 : Buffer(upTo)[i] = out[((used + 1) + i) - 1]
  <2>1. used + 1 \in Int /\ upTo \in Int
    BY <1>2
  <2> QED
    BY <1>2, <1>3, <2>1, SubSeqProperties DEF Buffer
<1>5. \A i \in 1 .. upTo - used :
        i \in 1 .. (upTo - (used + 1)) + 1 /\ ((used + 1) + i) - 1 = used + i
  BY <1>2
<1>6. (upTo - (used + 1)) + 1 = upTo - used
  BY <1>2
<1> QED
  BY <1>4, <1>5, <1>6

LEMMA InitInv == Init => IInv
<1> SUFFICES ASSUME Init PROVE IInv
  OBVIOUS
<1>1. TypeOK /\ Stages
  BY SessionAssumption DEF Init, TypeOK, Stages, ClientStates, WriterStates, Outcomes, Texts
<1>2. Queries(0) = {} /\ Cardinality(Queries(0)) = 0
  BY FS_EmptySet DEF Queries
<1>3. AnswersInv /\ ReadInv
  BY <1>2 DEF Init, AnswersInv, ReadInv
<1>4. OutInv
  BY DEF Init, OutInv
<1>5. EndInv
  BY DEF Init, EndInv
<1> QED
  BY <1>1, <1>3, <1>4, <1>5 DEF IInv

\* A read keeps the types and the stages.
LEMMA ReadTypes ==
  ASSUME TypeOK, Stages, ReadChunk
  PROVE  TypeOK' /\ Stages'
<1>1. PICK upTo \in got + 1 .. flushed :
        /\ got' = upTo
        /\ \/ /\ IsVerdict(Buffer(upTo))
              /\ verdicts' = Append(verdicts, Buffer(upTo)[1].txt)
              /\ used' = used + VerdictLength
              /\ pc' = "idle"
              /\ UNCHANGED <<outcome, chanOpen>>
           \/ /\ used' = upTo
              /\ Finish("prover-error")
              /\ UNCHANGED verdicts
           \/ UNCHANGED <<used, verdicts, pc, outcome, chanOpen>>
  BY DEF ReadChunk
<1>2. UNCHANGED <<msg, sent, writerVars, proverVars>>
  BY DEF ReadChunk
<1>3. IsVerdict(Buffer(upTo)) => upTo - used >= 2 /\ Buffer(upTo)[1].txt \in Verdicts
  BY BufferIs DEF IsVerdict
<1>4. used' \in Nat /\ used' <= got' /\ got' <= flushed /\ got' \in Nat
  <2>1. used \in Nat /\ got \in Nat /\ flushed \in Nat /\ used <= got
    BY DEF TypeOK, Stages
  <2>2. used' \in {used, used + 2, upTo} /\ (used' = used + 2 => used' <= upTo \/ used' = upTo \/ used' = used)
    BY <1>1, <1>3, <2>1 DEF VerdictLength
  <2> QED
    BY <1>1, <2>1, <2>2
<1>5. verdicts' \in Seq(Verdicts)
  <2>1. CASE verdicts' = Append(verdicts, Buffer(upTo)[1].txt) /\ IsVerdict(Buffer(upTo))
    BY <1>3, <2>1, Returned
  <2>2. CASE verdicts' = verdicts
    BY <2>2 DEF TypeOK
  <2> QED
    BY <1>1, <2>1, <2>2
<1>6. pc' \in ClientStates /\ outcome' \in Outcomes /\ chanOpen' \in BOOLEAN
  BY <1>1 DEF Finish, TypeOK, ClientStates, Outcomes
<1> QED
  BY <1>1, <1>2, <1>4, <1>5, <1>6 DEF TypeOK, Stages, writerVars, proverVars

\* The client thread keeps the types and the stages.
LEMMA ClientTypes ==
  ASSUME TypeOK, Stages,
         \/ \E m \in Texts : Call(m)
         \/ Drop \/ ClientStep \/ SpinRead
  PROVE  TypeOK' /\ Stages'
<1> USE DEF TypeOK, Stages, ClientStates, Outcomes, writerVars, proverVars, readVars, clientVars
<1>1. ASSUME NEW m \in Texts, Call(m) PROVE TypeOK' /\ Stages'
  BY <1>1 DEF Call
<1>2. CASE Drop
  BY <1>2 DEF Drop, Finish
<1>3. CASE WriteFindsDeadWriter \/ WriteFindsLiveWriter \/ SendFails
  BY <1>3 DEF WriteFindsDeadWriter, WriteFindsLiveWriter, SendFails
<1>4. CASE Send
  <2>1. sent' \in Seq(Texts) /\ Len(sent') = Len(sent) + 1 /\ Len(sent) \in Nat
    BY <1>4, Sent DEF Send
  <2>2. pc' \in ClientStates /\ chanOpen' \in BOOLEAN
    BY <1>4 DEF Send, KeepsChannel
  <2>3. UNCHANGED <<msg, outcome, verdicts, writerVars, proverVars, readVars>>
    BY <1>4 DEF Send
  <2> QED
    BY <2>1, <2>2, <2>3
<1>5. CASE ReadChunk
  BY <1>5, ReadTypes DEF Stages
<1>6. CASE DrainChunk
  <2>1. UNCHANGED <<clientVars, sent, chanOpen, writerVars, proverVars, used>>
    BY <1>6 DEF DrainChunk
  <2>2. got' \in Nat /\ used <= got' /\ got' <= flushed
    BY <1>6 DEF DrainChunk
  <2> QED
    BY <2>1, <2>2
<1>7. CASE DrainEof
  <2>1. UNCHANGED <<msg, verdicts, sent, writerVars, proverVars, got>> /\ used' = got
    BY <1>7 DEF DrainEof
  <2>2. pc' \in ClientStates /\ outcome' \in Outcomes /\ chanOpen' \in BOOLEAN
    BY <1>7 DEF DrainEof, Finish
  <2> QED
    BY <2>1, <2>2
<1>8. CASE SpinRead
  BY <1>8 DEF SpinRead, vars
<1> QED
  BY <1>1, <1>2, <1>3, <1>4, <1>5, <1>6, <1>7, <1>8 DEF ClientStep

\* The writer thread and the solver keep the types and the stages.
LEMMA OtherTypes ==
  ASSUME TypeOK, Stages, WriterStep \/ WriterLogFails \/ ProverStep \/ ProverCrashes
  PROVE  TypeOK' /\ Stages'
<1> USE DEF TypeOK, Stages, WriterStates, writerVars, proverVars, readVars, clientVars
<1>1. CASE WriterStart
  BY <1>1 DEF WriterStart
<1>2. CASE WriterRecv
  BY <1>2 DEF WriterRecv
<1>3. CASE WriterLog
  BY <1>3 DEF WriterLog
<1>4. CASE WriterLogFails
  BY <1>4 DEF WriterLogFails
<1>5. CASE WriterWrite
  BY <1>5 DEF WriterWrite
<1>6. CASE WriterDone
  BY <1>6 DEF WriterDone
<1>7. CASE ProverReads
  <2>1. /\ received' \in Nat /\ received' <= written
        /\ UNCHANGED <<clientVars, sent, chanOpen, writerVars, prover, flushed, readVars>>
    BY <1>7 DEF ProverReads
  <2>2. \/ UNCHANGED <<out, answers>>
        \/ \E t \in Verdicts \cup {"error", "model"} :
             /\ out' = out \o Halves(t)
             /\ \/ answers' = answers
                \/ t \in Verdicts /\ answers' = Append(answers, [at |-> received + 1, verdict |-> t])
    BY <1>7 DEF ProverReads
  <2>3. out' \in Seq(Pieces) /\ Len(out') >= Len(out)
    <3>1. CASE out' = out
      BY <3>1 DEF Pieces
    <3>2. ASSUME NEW t \in Verdicts \cup {"error", "model"}, out' = out \o Halves(t)
          PROVE  out' \in Seq(Pieces) /\ Len(out') >= Len(out)
      <4>1. Len(out) \in Nat /\ out' \in Seq(Pieces) /\ Len(out') = Len(out) + 2
        BY <3>2, Printed
      <4> QED
        BY <4>1
    <3> QED
      BY <2>2, <3>1, <3>2
  <2>4. answers' \in Seq([at : Nat, verdict : Verdicts])
    BY <2>2, Answered
  <2> QED
    BY <2>1, <2>3, <2>4 DEF Pieces
<1>8. CASE ProverPrints
  BY <1>8 DEF ProverPrints
<1>9. CASE ProverSeesEof
  BY <1>9 DEF ProverSeesEof
<1>10. CASE ProverCrashes
  BY <1>10 DEF ProverCrashes
<1> QED
  BY <1>1, <1>2, <1>3, <1>4, <1>5, <1>6, <1>7, <1>8, <1>9, <1>10 DEF WriterStep, ProverStep

-----------------------------------------------------------------------------
(* Counting queries. *)

LEMMA CountsQueries ==
  ASSUME NEW n \in Nat
  PROVE  IsFiniteSet(Queries(n)) /\ Cardinality(Queries(n)) \in Nat
<1>1. IsFiniteSet(1 .. n)
  BY FS_Interval
<1>2. Queries(n) \subseteq 1 .. n
  BY DEF Queries
<1>3. IsFiniteSet(Queries(n))
  BY <1>1, <1>2, FS_Subset
<1> QED
  BY <1>3, FS_CardinalityType

\* One text more is one query more, if it is one.
LEMMA NextQuery ==
  ASSUME NEW n \in Nat
  PROVE  Cardinality(Queries(n + 1)) =
           Cardinality(Queries(n)) + (IF sent[n + 1] = "check-sat" THEN 1 ELSE 0)
<1>1. IsFiniteSet(Queries(n)) /\ Cardinality(Queries(n)) \in Nat /\ n + 1 \notin Queries(n)
  BY CountsQueries DEF Queries
<1>2. CASE sent[n + 1] = "check-sat"
  <2>1. Queries(n + 1) = Queries(n) \cup {n + 1}
    BY <1>2 DEF Queries
  <2>2. Cardinality(Queries(n) \cup {n + 1}) = Cardinality(Queries(n)) + 1
    BY <1>1, FS_AddElement
  <2> QED
    BY <1>2, <2>1, <2>2
<1>3. CASE sent[n + 1] # "check-sat"
  <2>1. Queries(n + 1) = Queries(n)
    BY <1>3 DEF Queries
  <2> QED
    BY <1>1, <1>3, <2>1
<1> QED
  BY <1>2, <1>3

\* Sending leaves the queries among the earlier texts alone.
LEMMA SendQueries ==
  ASSUME TypeOK, sent' = Append(sent, msg)
  PROVE  /\ \A n \in 0 .. Len(sent) : Queries(n)' = Queries(n)
         /\ Cardinality(Queries(Len(sent)))' =
              Cardinality(Queries(Len(sent))) + (IF msg = "check-sat" THEN 1 ELSE 0)
<1> DEFINE N == Len(sent)
<1>1. /\ N \in Nat /\ Len(sent') = N + 1
      /\ \A i \in 1 .. N : sent'[i] = sent[i]
      /\ sent'[N + 1] = msg
  BY Sent
<1> HIDE DEF N
<1>2. \A n \in 0 .. N : {i \in 1 .. n : sent'[i] = "check-sat"} = {i \in 1 .. n : sent[i] = "check-sat"}
  BY <1>1
<1>3. IsFiniteSet(Queries(N)) /\ Cardinality(Queries(N)) \in Nat /\ N + 1 \notin Queries(N)
  BY <1>1, CountsQueries DEF Queries
<1>4. CASE msg = "check-sat"
  <2>1. {i \in 1 .. N + 1 : sent'[i] = "check-sat"} = Queries(N) \cup {N + 1}
    BY <1>1, <1>4 DEF Queries
  <2>2. Cardinality(Queries(N) \cup {N + 1}) = Cardinality(Queries(N)) + 1
    BY <1>3, FS_AddElement
  <2>3. Cardinality({i \in 1 .. N + 1 : sent'[i] = "check-sat"}) = Cardinality(Queries(N)) + 1
    BY <2>1, <2>2
  <2> QED
    BY <1>1, <1>2, <1>4, <2>3 DEF Queries, N
<1>5. CASE msg # "check-sat"
  <2>1. {i \in 1 .. N + 1 : sent'[i] = "check-sat"} = Queries(N)
    BY <1>1, <1>5 DEF Queries
  <2>2. Cardinality({i \in 1 .. N + 1 : sent'[i] = "check-sat"}) = Cardinality(Queries(N))
    BY <2>1
  <2>3. Cardinality(Queries(N)) + (IF msg = "check-sat" THEN 1 ELSE 0) = Cardinality(Queries(N))
    BY <1>3, <1>5
  <2>4. Cardinality(Queries(Len(sent)))' = Cardinality(Queries(N))
    BY <1>1, <2>2 DEF Queries, N
  <2>5. \A n \in 0 .. Len(sent) : Queries(n)' = Queries(n)
    BY <1>2 DEF Queries, N
  <2> QED
    BY <2>3, <2>4, <2>5 DEF N
<1> QED
  BY <1>4, <1>5

-----------------------------------------------------------------------------
(* What the other parts of the invariant do not mention stays as it is. *)

\* Only Send changes the texts sent, and only ProverReads what the solver has read and printed.
LEMMA SolverFrame ==
  ASSUME [Next]_vars
  PROVE  \/ Send /\ UNCHANGED <<received, out, answers>>
         \/ ProverReads /\ UNCHANGED sent
         \/ UNCHANGED <<sent, received, out, answers>>
<1> USE DEF writerVars, proverVars, readVars, clientVars
<1>1. CASE Send
  BY <1>1 DEF Send
<1>2. CASE ProverReads
  BY <1>2 DEF ProverReads
<1>3. ASSUME NEW m \in Texts, Call(m) PROVE UNCHANGED <<sent, received, out, answers>>
  BY <1>3 DEF Call
<1>4. CASE Drop \/ WriteFindsDeadWriter \/ WriteFindsLiveWriter \/ SendFails
  BY <1>4 DEF Drop, WriteFindsDeadWriter, WriteFindsLiveWriter, SendFails
<1>5. CASE ReadChunk \/ DrainChunk \/ DrainEof
  BY <1>5 DEF ReadChunk, DrainChunk, DrainEof
<1>6. CASE SpinRead \/ Over \/ UNCHANGED vars
  BY <1>6 DEF SpinRead, Over, vars
<1>7. CASE WriterStep \/ WriterLogFails
  BY <1>7 DEF WriterStep, WriterStart, WriterRecv, WriterLog, WriterWrite, WriterDone, WriterLogFails
<1>8. CASE ProverPrints \/ ProverSeesEof \/ ProverCrashes
  BY <1>8 DEF ProverPrints, ProverSeesEof, ProverCrashes
<1> QED
  BY <1>1, <1>2, <1>3, <1>4, <1>5, <1>6, <1>7, <1>8 DEF Next, ClientStep, ProverStep

\* The three steps of the solver on a text, in terms of what it prints.
LEMMA Reads ==
  ASSUME ProverReads
  PROVE  /\ received' = received + 1 /\ received < written
         /\ \/ sent[received + 1] # "check-sat" /\ UNCHANGED <<out, answers>>
            \/ /\ sent[received + 1] # "check-sat" /\ UNCHANGED answers
               /\ \E t \in {"error", "model"} : out' = out \o Halves(t)
            \/ /\ sent[received + 1] = "check-sat"
               /\ \E v \in Verdicts :
                    /\ out' = out \o Halves(v)
                    /\ answers' = Append(answers, [at |-> received + 1, verdict |-> v])
BY DEF ProverReads

-----------------------------------------------------------------------------
(* Each part of the invariant is kept. *)

LEMMA TypesKept == TypeOK /\ Stages /\ [Next]_vars => TypeOK' /\ Stages'
<1> SUFFICES ASSUME TypeOK, Stages, [Next]_vars PROVE TypeOK' /\ Stages'
  OBVIOUS
<1>1. CASE UNCHANGED vars \/ Over
  BY <1>1 DEF Over, vars, TypeOK, Stages, writerVars, proverVars, readVars, clientVars
<1> QED
  BY <1>1, ClientTypes, OtherTypes DEF Next

LEMMA AnswersKept == IInv /\ [Next]_vars => AnswersInv'
<1> SUFFICES ASSUME IInv, [Next]_vars PROVE AnswersInv'
  OBVIOUS
<1> USE DEF IInv
<1>1. received \in Nat /\ Len(sent) \in Nat /\ received <= Len(sent) /\ Len(answers) \in Nat
  BY DEF TypeOK, Stages
<1>2. CASE Send /\ UNCHANGED <<received, out, answers>>
  <2>1. \A n \in 0 .. Len(sent) : Queries(n)' = Queries(n)
    BY <1>2, SendQueries DEF Send
  <2>2. \A i \in 1 .. Len(sent) : sent'[i] = sent[i]
    BY <1>2, Sent DEF Send
  <2>3. Len(answers') = Cardinality(Queries(received))'
    BY <1>1, <1>2, <2>1 DEF AnswersInv
  <2>4. ASSUME NEW k \in 1 .. Len(answers)
        PROVE  /\ answers[k].at \in 1 .. received
               /\ sent'[answers[k].at] = "check-sat"
               /\ Cardinality({i \in 1 .. answers[k].at : sent'[i] = "check-sat"}) = k
    <3>1. answers[k].at \in 1 .. received /\ sent[answers[k].at] = "check-sat"
          /\ Cardinality(Queries(answers[k].at)) = k
      BY DEF AnswersInv
    <3>2. answers[k].at \in 1 .. Len(sent) /\ answers[k].at \in 0 .. Len(sent)
      BY <1>1, <3>1
    <3>3. sent'[answers[k].at] = "check-sat"
      BY <2>2, <3>1, <3>2
    <3>4. {i \in 1 .. answers[k].at : sent'[i] = "check-sat"} = Queries(answers[k].at)
      BY <1>1, <2>2, <3>1, <3>2 DEF Queries
    <3> QED
      BY <3>1, <3>3, <3>4
  <2> QED
    BY <1>2, <2>3, <2>4 DEF AnswersInv, Queries
<1>3. CASE ProverReads /\ UNCHANGED sent
  <2>1. received' = received + 1 /\ received + 1 \in 1 .. Len(sent)
    BY <1>1, <1>3, Reads DEF Stages, TypeOK
  <2>2. Cardinality(Queries(received + 1)) =
          Cardinality(Queries(received)) + (IF sent[received + 1] = "check-sat" THEN 1 ELSE 0)
    BY <1>1, NextQuery
  <2>3. CASE sent[received + 1] # "check-sat" /\ UNCHANGED answers
    <3>1. Cardinality(Queries(received + 1)) = Cardinality(Queries(received))
      BY <1>1, <2>2, <2>3, CountsQueries
    <3>2. 1 .. received \subseteq 1 .. received + 1
      BY <1>1
    <3> QED
      BY <1>3, <2>1, <2>3, <3>1, <3>2 DEF AnswersInv, Queries
  <2>4. ASSUME NEW v \in Verdicts, sent[received + 1] = "check-sat",
               answers' = Append(answers, [at |-> received + 1, verdict |-> v])
        PROVE  AnswersInv'
    <3>1. /\ Len(answers') = Len(answers) + 1
          /\ \A k \in 1 .. Len(answers) : answers'[k] = answers[k]
          /\ answers'[Len(answers) + 1] = [at |-> received + 1, verdict |-> v]
      BY <2>4, Answered
    <3>2. Cardinality(Queries(received + 1)) = Len(answers) + 1
      BY <1>1, <2>2, <2>4 DEF AnswersInv
    <3>3. ASSUME NEW k \in 1 .. Len(answers')
          PROVE  /\ answers'[k].at \in 1 .. received + 1
                 /\ sent[answers'[k].at] = "check-sat"
                 /\ Cardinality(Queries(answers'[k].at)) = k
      <4>1. CASE k \in 1 .. Len(answers)
        BY <1>1, <3>1, <4>1 DEF AnswersInv
      <4>2. CASE k = Len(answers) + 1
        <5>1. answers'[k].at = received + 1
          BY <3>1, <4>2
        <5> QED
          BY <1>1, <2>4, <3>2, <4>2, <5>1
      <4> QED
        BY <1>1, <3>1, <4>1, <4>2
    <3> QED
      BY <1>3, <2>1, <3>1, <3>2, <3>3 DEF AnswersInv, Queries
  <2> QED
    BY <1>3, <2>3, <2>4, Reads
<1>4. CASE UNCHANGED <<sent, received, out, answers>>
  BY <1>4 DEF AnswersInv, Queries
<1> QED
  BY <1>2, <1>3, <1>4, SolverFrame

\* A reply more leaves the earlier replies as they are.
LEMMA Earlier ==
  ASSUME NEW m \in Nat, Len(out) = 2 * m, \A i \in 1 .. Len(out) : out'[i] = out[i]
  PROVE  \A k \in 1 .. m : out'[2 * k - 1] = out[2 * k - 1] /\ (CleanUpTo(k)' <=> CleanUpTo(k))
<1>1. \A j \in 1 .. m : out'[2 * j - 1] = out[2 * j - 1]
  <2>1. \A j \in 1 .. m : 2 * j - 1 \in 1 .. Len(out)
    OBVIOUS
  <2> QED
    BY <2>1
<1>2. \A k \in 1 .. m : \A j \in 1 .. k : j \in 1 .. m
  OBVIOUS
<1> QED
  BY <1>1, <1>2 DEF CleanUpTo

LEMMA OutKept == IInv /\ [Next]_vars => OutInv'
<1> SUFFICES ASSUME IInv, [Next]_vars PROVE OutInv'
  OBVIOUS
<1>1. TypeOK /\ Stages /\ OutInv /\ Len(out) \in Nat /\ Len(answers) \in Nat
  BY DEF IInv, TypeOK
<1>2. CASE UNCHANGED <<out, answers>>
  BY <1>1, <1>2 DEF OutInv, CleanUpTo
<1>3. CASE ProverReads
  <2>1. PICK m \in 0 .. Len(out) :
          /\ Len(out) = 2 * m
          /\ CleanUpTo(m) => Len(answers) = m
          /\ \A k \in 1 .. m :
               CleanUpTo(k) => k <= Len(answers) /\ out[2 * k - 1].txt = answers[k].verdict
    BY <1>1 DEF OutInv
  <2>2. m \in Nat /\ Len(out) + 1 = 2 * (m + 1) - 1 /\ Len(out) + 2 = 2 * (m + 1)
    BY <1>1, <2>1
  <2>3. ASSUME NEW t \in {"error", "model"}, out' = out \o Halves(t), UNCHANGED answers
        PROVE  OutInv'
    <3>1. /\ Len(out') = 2 * (m + 1) /\ out'[2 * (m + 1) - 1].txt = t
          /\ \A i \in 1 .. Len(out) : out'[i] = out[i]
      BY <1>1, <2>2, <2>3, Printed
    <3>2. \A k \in 1 .. m : out'[2 * k - 1] = out[2 * k - 1] /\ (CleanUpTo(k)' <=> CleanUpTo(k))
      BY <2>1, <2>2, <3>1, Earlier
    <3>3. ~CleanUpTo(m + 1)'
      <4>1. m + 1 \in 1 .. m + 1
        BY <2>2
      <4>2. out'[2 * (m + 1) - 1].txt \notin Verdicts
        BY <3>1 DEF Verdicts
      <4> QED
        BY <4>1, <4>2 DEF CleanUpTo
    <3>4. \A k \in 1 .. m + 1 :
            CleanUpTo(k)' => k <= Len(answers') /\ out'[2 * k - 1].txt = answers'[k].verdict
      BY <2>1, <2>2, <2>3, <3>2, <3>3
    <3>5. m + 1 \in 0 .. Len(out')
      BY <2>2, <3>1
    <3> QED
      BY <3>1, <3>3, <3>4, <3>5 DEF OutInv
  <2>4. ASSUME NEW v \in Verdicts, out' = out \o Halves(v),
               answers' = Append(answers, [at |-> received + 1, verdict |-> v])
        PROVE  OutInv'
    <3>1. /\ Len(out') = 2 * (m + 1) /\ out'[2 * (m + 1) - 1].txt = v
          /\ \A i \in 1 .. Len(out) : out'[i] = out[i]
      BY <1>1, <2>2, <2>4, Printed
    <3>2. \A k \in 1 .. m : out'[2 * k - 1] = out[2 * k - 1] /\ (CleanUpTo(k)' <=> CleanUpTo(k))
      BY <2>1, <2>2, <3>1, Earlier
    <3>3. /\ Len(answers') = Len(answers) + 1
          /\ \A k \in 1 .. Len(answers) : answers'[k] = answers[k]
          /\ answers'[Len(answers) + 1].verdict = v
      BY <1>1, <2>4, Answered
    <3>4. CleanUpTo(m + 1)' => CleanUpTo(m)
      <4>1. SUFFICES ASSUME CleanUpTo(m + 1)' PROVE CleanUpTo(m)
        OBVIOUS
      <4>2. \A j \in 1 .. m : j \in 1 .. m + 1
        BY <2>2
      <4> QED
        BY <3>2, <4>1, <4>2 DEF CleanUpTo
    <3>5. CleanUpTo(m + 1)' => Len(answers') = m + 1 /\ answers'[m + 1].verdict = v
      BY <2>1, <3>3, <3>4
    <3>6. \A k \in 1 .. m :
            CleanUpTo(k)' => k <= Len(answers') /\ out'[2 * k - 1].txt = answers'[k].verdict
      <4>1. SUFFICES ASSUME NEW k \in 1 .. m, CleanUpTo(k)'
                     PROVE  k <= Len(answers') /\ out'[2 * k - 1].txt = answers'[k].verdict
        OBVIOUS
      <4>2. k <= Len(answers) /\ out[2 * k - 1].txt = answers[k].verdict
            /\ out'[2 * k - 1] = out[2 * k - 1]
        BY <2>1, <3>2, <4>1
      <4>3. k \in 1 .. Len(answers)
        BY <1>1, <2>2, <4>2
      <4> QED
        BY <1>1, <3>3, <4>2, <4>3
    <3>7. \A k \in 1 .. m + 1 : k \in 1 .. m \/ k = m + 1
      BY <2>2
    <3>8. \A k \in 1 .. m + 1 :
            CleanUpTo(k)' => k <= Len(answers') /\ out'[2 * k - 1].txt = answers'[k].verdict
      <4>1. CleanUpTo(m + 1)' =>
              /\ m + 1 <= Len(answers')
              /\ out'[2 * (m + 1) - 1].txt = answers'[m + 1].verdict
        BY <2>2, <3>1, <3>5
      <4> QED
        BY <3>6, <3>7, <4>1
    <3>9. m + 1 \in 0 .. Len(out')
      BY <2>2, <3>1
    <3> QED
      BY <3>1, <3>5, <3>8, <3>9 DEF OutInv
  <2> QED
    BY <1>2, <1>3, <2>3, <2>4, Reads
<1> QED
  BY <1>2, <1>3, SolverFrame

\* What the solver has answered and printed stays.
LEMMA Grows ==
  ASSUME TypeOK, [Next]_vars
  PROVE  /\ Len(answers) <= Len(answers') /\ Len(answers) \in Nat /\ Len(answers') \in Nat
         /\ \A k \in 1 .. Len(answers) : answers'[k] = answers[k]
         /\ \A i \in 1 .. Len(out) : out'[i] = out[i]
<1>1. Len(answers) \in Nat
  BY DEF TypeOK
<1>2. CASE UNCHANGED <<out, answers>>
  BY <1>1, <1>2
<1>3. CASE ProverReads
  <2>1. CASE UNCHANGED <<out, answers>>
    BY <1>2, <2>1
  <2>2. ASSUME NEW t \in Verdicts \cup {"error", "model"}, out' = out \o Halves(t)
        PROVE  \A i \in 1 .. Len(out) : out'[i] = out[i]
    BY <2>2, Printed
  <2>3. ASSUME NEW v \in Verdicts,
               answers' = Append(answers, [at |-> received + 1, verdict |-> v])
        PROVE  /\ Len(answers) <= Len(answers') /\ Len(answers') \in Nat
               /\ \A k \in 1 .. Len(answers) : answers'[k] = answers[k]
    <3>1. /\ Len(answers') = Len(answers) + 1
          /\ \A k \in 1 .. Len(answers) : answers'[k] = answers[k]
      BY <2>3, Answered
    <3> QED
      BY <1>1, <3>1
  <2>4. CASE UNCHANGED answers /\ \E t \in {"error", "model"} : out' = out \o Halves(t)
    BY <1>1, <2>2, <2>4
  <2>5. CASE \E v \in Verdicts :
               /\ out' = out \o Halves(v)
               /\ answers' = Append(answers, [at |-> received + 1, verdict |-> v])
    BY <1>1, <2>2, <2>3, <2>5
  <2> QED
    BY <1>3, <2>1, <2>4, <2>5, Reads
<1> QED
  BY <1>2, <1>3, SolverFrame

\* Only Send and ReadChunk change what check_sat has been asked and has returned.
LEMMA ClientFrame ==
  ASSUME [Next]_vars
  PROVE  \/ Send
         \/ ReadChunk
         \/ /\ UNCHANGED <<sent, verdicts>>
            /\ \/ pc' = "ended"
               \/ used' = used /\ pc' = pc
               \/ used' = used /\ pc \notin {"checking", "ended"} /\ pc' # "checking"
<1> USE DEF writerVars, proverVars, readVars, clientVars
<1>1. ASSUME NEW m \in Texts, Call(m)
      PROVE  UNCHANGED <<sent, verdicts, used>> /\ pc = "idle" /\ pc' = "writing"
  BY <1>1 DEF Call
<1>2. CASE Drop
  BY <1>2 DEF Drop, Finish
<1>3. CASE WriteFindsDeadWriter \/ WriteFindsLiveWriter \/ SendFails
  BY <1>3 DEF WriteFindsDeadWriter, WriteFindsLiveWriter, SendFails
<1>4. CASE DrainChunk
  BY <1>4 DEF DrainChunk
<1>5. CASE DrainEof
  BY <1>5 DEF DrainEof, Finish
<1>6. CASE SpinRead \/ Over \/ UNCHANGED vars
  BY <1>6 DEF SpinRead, Over, vars
<1>7. CASE WriterStep \/ WriterLogFails
  BY <1>7 DEF WriterStep, WriterStart, WriterRecv, WriterLog, WriterWrite, WriterDone, WriterLogFails
<1>8. CASE ProverStep \/ ProverCrashes
  BY <1>8 DEF ProverStep, ProverReads, ProverPrints, ProverSeesEof, ProverCrashes
<1> QED
  BY <1>1, <1>2, <1>3, <1>4, <1>5, <1>6, <1>7, <1>8 DEF Next, ClientStep

\* A verdict read from the buffer is the answer to the query under way.
LEMMA ReadsAnswer ==
  ASSUME IInv, pc = "checking", NEW upTo \in got + 1 .. flushed, IsVerdict(Buffer(upTo))
  PROVE  LET n == Len(verdicts) + 1 IN
         /\ Buffer(upTo)[1].txt \in Verdicts
         /\ n <= Len(answers)
         /\ Buffer(upTo)[1].txt = answers[n].verdict
         /\ Buffer(upTo)[1].txt = out[2 * n - 1].txt
<1> DEFINE n == Len(verdicts)
<1>1. /\ used = 2 * n /\ n \in Nat /\ Len(out) \in Nat
      /\ \A k \in 1 .. n : out[2 * k - 1].txt = verdicts[k] /\ verdicts[k] \in Verdicts
  BY DEF IInv, ReadInv, TypeOK
<1>2. TypeOK /\ Stages /\ upTo \in Nat /\ upTo <= Len(out)
  BY DEF IInv, TypeOK, Stages
<1>3. upTo - used >= 2 /\ Buffer(upTo)[1] = out[used + 1] /\ out[used + 1].txt \in Verdicts
  <2>1. upTo - used >= 2 /\ Buffer(upTo)[1].txt \in Verdicts
    BY <1>2, BufferIs DEF IsVerdict
  <2>2. 1 \in 1 .. upTo - used
    BY <1>1, <1>2, <2>1
  <2>3. Buffer(upTo)[1] = out[used + 1]
    BY <1>2, <2>2, BufferIs
  <2> QED
    BY <2>1, <2>3
<1>4. PICK m \in 0 .. Len(out) :
        /\ Len(out) = 2 * m
        /\ \A k \in 1 .. m :
             CleanUpTo(k) => k <= Len(answers) /\ out[2 * k - 1].txt = answers[k].verdict
  BY DEF IInv, OutInv
<1> HIDE DEF n
<1>5. n + 1 \in 1 .. m /\ used + 1 = 2 * (n + 1) - 1
  BY <1>1, <1>2, <1>3, <1>4
<1>6. CleanUpTo(n + 1)
  <2>1. \A j \in 1 .. n + 1 : j \in 1 .. n \/ j = n + 1
    BY <1>1
  <2>2. out[2 * (n + 1) - 1].txt \in Verdicts
    BY <1>3, <1>5
  <2> QED
    BY <1>1, <2>1, <2>2 DEF CleanUpTo
<1>7. n + 1 <= Len(answers) /\ out[2 * (n + 1) - 1].txt = answers[n + 1].verdict
  BY <1>4, <1>5, <1>6
<1> QED
  BY <1>3, <1>5, <1>7 DEF n

LEMMA ReadKept == IInv /\ [Next]_vars => ReadInv'
<1> SUFFICES ASSUME IInv, [Next]_vars PROVE ReadInv'
  OBVIOUS
<1>1. TypeOK /\ Stages /\ ReadInv
  BY DEF IInv
<1>2. /\ Len(verdicts) \in Nat /\ Len(out) \in Nat /\ Len(sent) \in Nat /\ used \in Nat
      /\ used <= Len(out) /\ got \in Nat /\ flushed \in Nat
  BY <1>1 DEF TypeOK, Stages
<1>3. /\ Len(answers) <= Len(answers') /\ Len(answers) \in Nat /\ Len(answers') \in Nat
      /\ \A k \in 1 .. Len(answers) : answers'[k] = answers[k]
      /\ \A i \in 1 .. Len(out) : out'[i] = out[i]
  BY <1>1, Grows
<1>4. /\ Len(verdicts) <= Len(answers')
      /\ \A k \in 1 .. Len(verdicts) : verdicts[k] = answers'[k].verdict
  <2>1. \A k \in 1 .. Len(verdicts) : k \in 1 .. Len(answers)
    BY <1>1, <1>2, <1>3 DEF ReadInv
  <2> QED
    BY <1>1, <1>2, <1>3, <2>1 DEF ReadInv
<1>5. pc # "ended" => \A k \in 1 .. Len(verdicts) : out'[2 * k - 1].txt = verdicts[k]
  <2>1. SUFFICES ASSUME pc # "ended", NEW k \in 1 .. Len(verdicts)
                 PROVE  out'[2 * k - 1].txt = verdicts[k]
    OBVIOUS
  <2>2. used = 2 * Len(verdicts) /\ out[2 * k - 1].txt = verdicts[k]
    BY <1>1, <2>1 DEF ReadInv
  <2>3. 2 * k - 1 \in 1 .. Len(out)
    BY <1>2, <2>2
  <2> QED
    BY <1>3, <2>2, <2>3
<1>6. CASE Send
  <2>1. pc = "sending" /\ sent' = Append(sent, msg) /\ UNCHANGED <<verdicts, used>>
        /\ pc' # "ended" /\ (pc' = "checking" <=> msg = "check-sat")
    BY <1>6 DEF Send, readVars
  <2>2. Cardinality(Queries(Len(sent)))' =
          Cardinality(Queries(Len(sent))) + (IF msg = "check-sat" THEN 1 ELSE 0)
    BY <1>1, <2>1, SendQueries
  <2>3. Cardinality(Queries(Len(sent))) = Len(verdicts) /\ used = 2 * Len(verdicts)
    BY <1>1, <1>2, <2>1 DEF ReadInv
  <2>4. Len(sent') = Len(sent) + 1 /\ sent'[Len(sent) + 1] = msg
    BY <1>1, <2>1, Sent
  <2>5. pc' = "checking" => Len(sent') > 0 /\ sent'[Len(sent')] = "check-sat"
    BY <1>2, <2>1, <2>4
  <2>6. Cardinality(Queries(Len(sent)))' =
          Len(verdicts') + (IF pc' = "checking" THEN 1 ELSE 0)
    BY <2>1, <2>2, <2>3
  <2> QED
    BY <1>4, <1>5, <2>1, <2>3, <2>5, <2>6 DEF ReadInv
<1>7. CASE ReadChunk
  <2>1. PICK upTo \in got + 1 .. flushed :
          \/ /\ IsVerdict(Buffer(upTo))
             /\ verdicts' = Append(verdicts, Buffer(upTo)[1].txt)
             /\ used' = used + VerdictLength
             /\ pc' = "idle"
          \/ pc' = "ended" /\ UNCHANGED verdicts
          \/ UNCHANGED <<used, verdicts, pc>>
    BY <1>7 DEF ReadChunk, Finish
  <2>2. pc = "checking" /\ UNCHANGED <<sent, answers, out>>
    BY <1>7 DEF ReadChunk, proverVars
  <2>3. CASE IsVerdict(Buffer(upTo)) /\ verdicts' = Append(verdicts, Buffer(upTo)[1].txt)
             /\ used' = used + VerdictLength /\ pc' = "idle"
    <3> DEFINE v == Buffer(upTo)[1].txt
               n == Len(verdicts)
    <3>1. v \in Verdicts /\ n + 1 <= Len(answers) /\ v = answers[n + 1].verdict
          /\ v = out[2 * (n + 1) - 1].txt
      BY <2>2, <2>3, ReadsAnswer
    <3>2. verdicts' = Append(verdicts, v)
      BY <2>3
    <3> HIDE DEF v
    <3>3. /\ Len(verdicts') = n + 1
          /\ \A k \in 1 .. n : verdicts'[k] = verdicts[k]
          /\ verdicts'[n + 1] = v
      BY <1>1, <3>1, <3>2, Returned
    <3>4. \A k \in 1 .. n + 1 : k \in 1 .. n \/ k = n + 1
      BY <1>2
    <3>5. \A k \in 1 .. n : verdicts[k] = answers[k].verdict /\ out[2 * k - 1].txt = verdicts[k]
      BY <1>1, <2>2 DEF ReadInv
    <3>6. \A k \in 1 .. n + 1 : /\ verdicts'[k] = answers[k].verdict
                                /\ out[2 * k - 1].txt = verdicts'[k]
      BY <3>1, <3>3, <3>4, <3>5
    <3>7. used' = 2 * (n + 1)
      BY <1>1, <1>2, <2>2, <2>3 DEF ReadInv, VerdictLength
    <3>8. Cardinality(Queries(Len(sent))) = n + 1
      BY <1>1, <2>2 DEF ReadInv
    <3>9. Cardinality(Queries(Len(sent)))' = n + 1 + (IF pc' = "checking" THEN 1 ELSE 0)
      BY <1>2, <2>2, <2>3, <3>8 DEF Queries
    <3> HIDE DEF n
    <3> QED
      BY <2>2, <2>3, <3>1, <3>3, <3>6, <3>7, <3>9 DEF ReadInv
  <2>4. CASE pc' = "ended" /\ UNCHANGED verdicts
    BY <1>4, <2>4 DEF ReadInv
  <2>5. CASE UNCHANGED <<used, verdicts, pc>>
    BY <1>1, <2>2, <2>5 DEF ReadInv, Queries
  <2> QED
    BY <2>1, <2>3, <2>4, <2>5
<1>8. CASE /\ UNCHANGED <<sent, verdicts>>
           /\ \/ pc' = "ended"
              \/ used' = used /\ pc' = pc
              \/ used' = used /\ pc \notin {"checking", "ended"} /\ pc' # "checking"
  <2>1. CASE pc' = "ended"
    BY <1>4, <1>8, <2>1 DEF ReadInv
  <2>2. CASE used' = used /\ pc' = pc
    BY <1>1, <1>4, <1>5, <1>8, <2>2 DEF ReadInv, Queries
  <2>3. CASE used' = used /\ pc \notin {"checking", "ended"} /\ pc' # "checking"
    BY <1>1, <1>4, <1>5, <1>8, <2>3 DEF ReadInv, Queries
  <2> QED
    BY <1>8, <2>1, <2>2, <2>3
<1> QED
  BY <1>6, <1>7, <1>8, ClientFrame

LEMMA EndKept == IInv /\ [Next]_vars => EndInv'
<1> SUFFICES ASSUME IInv, [Next]_vars PROVE EndInv'
  OBVIOUS
<1>1. TypeOK /\ Stages /\ EndInv
  BY DEF IInv
<1> USE DEF EndInv, WriterFinished
<1>2. CASE \E m \in Texts : Call(m)
  BY <1>1, <1>2 DEF Call, writerVars, proverVars, readVars
<1>3. CASE Drop
  BY <1>1, <1>3 DEF Drop, Finish, writerVars, proverVars, readVars
<1>4. CASE WriteFindsDeadWriter \/ WriteFindsLiveWriter \/ SendFails
  BY <1>1, <1>4 DEF WriteFindsDeadWriter, WriteFindsLiveWriter, SendFails,
                    writerVars, proverVars, readVars
<1>5. CASE Send
  BY <1>1, <1>5 DEF Send, KeepsChannel, writerVars, proverVars, readVars
<1>6. CASE ReadChunk
  <2>1. /\ pc = "checking" /\ UNCHANGED <<msg, sent, writerVars, proverVars>>
        /\ \/ pc' = "idle" /\ UNCHANGED <<outcome, chanOpen>>
           \/ Finish("prover-error")
           \/ UNCHANGED <<pc, outcome, chanOpen>>
    BY <1>6 DEF ReadChunk
  <2> QED
    BY <1>1, <2>1 DEF Finish, writerVars, proverVars
<1>7. CASE DrainChunk
  <2>1. pc \in {"modelling", "draining"}
        /\ UNCHANGED <<clientVars, sent, chanOpen, writerVars, proverVars, used>>
    BY <1>7 DEF DrainChunk
  <2> QED
    BY <1>1, <2>1 DEF clientVars, writerVars, proverVars
<1>8. CASE DrainEof
  <2>1. /\ pc \in {"modelling", "draining"} /\ prover # "up" /\ got = flushed /\ used' = got
        /\ pc' = "ended" /\ outcome' \in {"model", "write-error"} /\ chanOpen' = FALSE
        /\ UNCHANGED <<verdicts, sent, writerVars, proverVars, got>>
    BY <1>8 DEF DrainEof, AtEof, Finish
  <2>2. prover = "exited" =>
          /\ WriterFinished
          /\ wpc = "ok" => received = Len(sent) /\ used' = Len(out)
    BY <1>1, <2>1 DEF Stages
  <2> QED
    BY <1>1, <2>1, <2>2 DEF writerVars, proverVars
<1>9. CASE SpinRead \/ Over \/ UNCHANGED vars
  BY <1>1, <1>9 DEF SpinRead, Over, vars, clientVars, writerVars, proverVars, readVars
<1>10. CASE WriterStart \/ WriterRecv \/ WriterLog \/ WriterLogFails \/ WriterWrite
  BY <1>1, <1>10 DEF WriterStart, WriterRecv, WriterLog, WriterLogFails, WriterWrite,
                     clientVars, proverVars, readVars
<1>11. CASE WriterDone
  BY <1>1, <1>11 DEF WriterDone, clientVars, proverVars, readVars
<1>12. CASE ProverReads
  <2>1. prover = "up" /\ UNCHANGED <<clientVars, sent, chanOpen, writerVars, prover>>
    BY <1>12 DEF ProverReads
  <2> QED
    BY <1>1, <2>1 DEF clientVars, writerVars
<1>13. CASE ProverPrints
  BY <1>1, <1>13 DEF ProverPrints, clientVars, writerVars, readVars
<1>14. CASE ProverSeesEof
  BY <1>1, <1>14 DEF ProverSeesEof, StdinClosed, clientVars, writerVars, readVars
<1>15. CASE ProverCrashes
  BY <1>1, <1>15 DEF ProverCrashes, clientVars, writerVars, readVars
<1> QED
  BY <1>2, <1>3, <1>4, <1>5, <1>6, <1>7, <1>8, <1>9, <1>10, <1>11, <1>12, <1>13, <1>14, <1>15
     DEF Next, ClientStep, WriterStep, ProverStep

LEMMA Inductive == IInv /\ [Next]_vars => IInv'
<1> SUFFICES ASSUME IInv, [Next]_vars PROVE IInv'
  OBVIOUS
<1>1. TypeOK' /\ Stages'
  BY TypesKept DEF IInv
<1> QED
  BY <1>1, AnswersKept, OutKept, ReadKept, EndKept DEF IInv

\* The invariant behind the theorems below.
LEMMA Invariance == Spec => []IInv
BY InitInv, Inductive, PTL DEF Spec

-----------------------------------------------------------------------------
(* The theorems. *)

\* Every variable of a session keeps its type (process::Communicator).
THEOREM TypeCorrect == Spec => []TypeOK
<1>1. IInv => TypeOK
  BY DEF IInv
<1> QED
  BY <1>1, Invariance, PTL

\* Whatever the solver has been given is in the transcript already: the writer
\* thread flushes the transcript before it writes to stdin (process.rs).
THEOREM TranscriptFirst == Spec => []TranscriptCoversSolver
<1>1. IInv => TranscriptCoversSolver
  BY DEF IInv, Stages, TranscriptCoversSolver
<1> QED
  BY <1>1, Invariance, PTL

\* The k-th verdict of check_sat is the solver's answer to the k-th query,
\* given with every earlier text: the buffer holds nothing of an earlier reply
\* when a query is sent (read_until_pred, check_sat).
THEOREM VerdictsFit == Spec => []VerdictsAnswerTheirQueries
<1>1. IInv => VerdictsAnswerTheirQueries
  <2> SUFFICES ASSUME IInv PROVE VerdictsAnswerTheirQueries
    OBVIOUS
  <2>1. Len(verdicts) <= Len(answers) /\ Len(verdicts) \in Nat /\ Len(answers) \in Nat
        /\ \A k \in 1 .. Len(verdicts) : verdicts[k] = answers[k].verdict
    BY DEF IInv, ReadInv, TypeOK
  <2>2. \A k \in 1 .. Len(answers) :
          sent[answers[k].at] = "check-sat" /\ Cardinality(Queries(answers[k].at)) = k
    BY DEF IInv, AnswersInv
  <2>3. \A k \in 1 .. Len(verdicts) : k \in 1 .. Len(answers)
    BY <2>1
  <2> QED
    BY <2>1, <2>2, <2>3 DEF VerdictsAnswerTheirQueries, Queries
<1> QED
  BY <1>1, Invariance, PTL

\* get_model returns only what the solver has finished printing, after it has
\* worked through every text, unless the session broke down.
THEOREM ModelsAreWhole == Spec => []ModelIsComplete
<1>1. IInv => ModelIsComplete
  BY DEF IInv, EndInv, ModelIsComplete, TypeOK, WriterFinished
<1> QED
  BY <1>1, Invariance, PTL

-----------------------------------------------------------------------------
(* The session implements ProverService. *)

\* The results the service shows.
ResultsOf(vs, ans) == [k \in 1 .. Len(vs) |-> [at |-> ans[k].at, verdict |-> vs[k]]]
Results == ResultsOf(verdicts, answers)
Result == [at : Nat, verdict : Verdicts]

LEMMA ResultsAre ==
  ASSUME NEW vs \in Seq(Verdicts), NEW ans \in Seq(Result), Len(vs) <= Len(ans)
  PROVE  /\ ResultsOf(vs, ans) \in Seq(Result) /\ Len(ResultsOf(vs, ans)) = Len(vs)
         /\ \A k \in 1 .. Len(vs) :
              ResultsOf(vs, ans)[k] = [at |-> ans[k].at, verdict |-> vs[k]]
<1>1. Len(vs) \in Nat /\ Len(ans) \in Nat
  OBVIOUS
<1>2. \A k \in 1 .. Len(vs) : k \in 1 .. Len(ans)
  BY <1>1
<1>3. \A k \in 1 .. Len(vs) : ans[k] \in Result /\ vs[k] \in Verdicts
  BY <1>1, <1>2, ElementOfSeq
<1>4. \A k \in 1 .. Len(vs) : [at |-> ans[k].at, verdict |-> vs[k]] \in Result
  BY <1>3 DEF Result
<1>5. /\ ResultsOf(vs, ans) \in [1 .. Len(vs) -> Result]
      /\ \A k \in 1 .. Len(vs) :
           ResultsOf(vs, ans)[k] = [at |-> ans[k].at, verdict |-> vs[k]]
  BY <1>4 DEF ResultsOf
<1>6. ResultsOf(vs, ans) \in Seq(Result) /\ DOMAIN ResultsOf(vs, ans) = 1 .. Len(vs)
  BY <1>1, <1>5, SeqDef
<1>7. Len(ResultsOf(vs, ans)) = Len(vs)
  BY <1>1, <1>6, LenProperties
<1> QED
  BY <1>5, <1>6, <1>7

\* The answer to the query under way was given with the whole log.
LEMMA AnswerSpeaksOfLog ==
  ASSUME IInv, pc = "checking", Len(verdicts) + 1 <= Len(answers)
  PROVE  answers[Len(verdicts) + 1].at = Len(sent)
<1> DEFINE n == Len(verdicts) + 1
           a == answers[n].at
           L == Len(sent)
<1>1. n \in 1 .. Len(answers) /\ L \in Nat /\ received \in Nat /\ received <= L
  BY DEF IInv, TypeOK, Stages
<1>2. a \in 1 .. received /\ Cardinality(Queries(a)) = n
  BY <1>1 DEF IInv, AnswersInv
<1>3. L > 0 /\ sent[L] = "check-sat" /\ Cardinality(Queries(L)) = n
  BY DEF IInv, ReadInv
<1> HIDE DEF a, L, n
<1>4. CASE a < L
  <2>1. L - 1 \in Nat /\ (L - 1) + 1 = L /\ 1 .. a \subseteq 1 .. L - 1 /\ n \in Nat
    BY <1>1, <1>2, <1>4
  <2>2. Cardinality(Queries(L)) = Cardinality(Queries(L - 1)) + 1
    BY <1>3, <2>1, NextQuery
  <2>3. Queries(a) \in SUBSET Queries(L - 1)
    BY <2>1 DEF Queries
  <2>4. IsFiniteSet(Queries(L - 1)) /\ Cardinality(Queries(L - 1)) \in Nat
    BY <2>1, CountsQueries
  <2>5. Cardinality(Queries(a)) <= Cardinality(Queries(L - 1))
    BY <2>3, <2>4, FS_Subset
  <2> QED
    BY <1>2, <1>3, <2>1, <2>2, <2>4, <2>5
<1>5. CASE a >= L
  BY <1>1, <1>2, <1>5 DEF a, L, n
<1> QED
  BY <1>1, <1>2, <1>4, <1>5

LEMMA ServiceStarts == Init => Service!ServiceInit
<1> SUFFICES ASSUME Init PROVE Service!ServiceInit
  OBVIOUS
<1>1. sent = <<>> /\ ServicePhase = "ready" /\ Len(verdicts) = 0
  BY DEF Init, ServicePhase
<1>2. [k \in 1 .. Len(verdicts) |-> [at |-> answers[k].at, verdict |-> verdicts[k]]] = <<>>
  BY <1>1
<1> QED
  BY <1>1, <1>2 DEF Service!ServiceInit

\* A step that returns no verdict changes no result.
LEMMA ResultsStay ==
  ASSUME TypeOK, ReadInv, [Next]_vars, UNCHANGED verdicts
  PROVE  Results' = Results
<1>1. Len(verdicts) \in Nat /\ Len(verdicts) <= Len(answers) /\ Len(answers) \in Nat
  BY DEF TypeOK, ReadInv
<1>2. \A k \in 1 .. Len(verdicts) : k \in 1 .. Len(answers)
  BY <1>1
<1>3. \A k \in 1 .. Len(verdicts) : answers'[k] = answers[k]
  BY <1>2, Grows
<1> QED
  BY <1>3 DEF Results, ResultsOf

\* The phase of the service changes with Send, with ReadChunk and at the end.
LEMMA ServiceFrame ==
  ASSUME [Next]_vars
  PROVE  \/ Send
         \/ ReadChunk
         \/ UNCHANGED <<sent, verdicts>> /\ pc' = "ended"
         \/ UNCHANGED <<sent, verdicts>> /\ ServicePhase' = ServicePhase
<1> USE DEF writerVars, proverVars, readVars, clientVars, ServicePhase
<1>1. CASE \E m \in Texts : Call(m)
  BY <1>1 DEF Call
<1>2. CASE Drop
  BY <1>2 DEF Drop, Finish
<1>3. CASE WriteFindsDeadWriter \/ WriteFindsLiveWriter \/ SendFails
  BY <1>3 DEF WriteFindsDeadWriter, WriteFindsLiveWriter, SendFails
<1>4. CASE DrainChunk
  BY <1>4 DEF DrainChunk
<1>5. CASE DrainEof
  BY <1>5 DEF DrainEof, Finish
<1>6. CASE SpinRead \/ Over \/ UNCHANGED vars
  BY <1>6 DEF SpinRead, Over, vars
<1>7. CASE WriterStep \/ WriterLogFails
  BY <1>7 DEF WriterStep, WriterStart, WriterRecv, WriterLog, WriterWrite, WriterDone, WriterLogFails
<1>8. CASE ProverStep \/ ProverCrashes
  BY <1>8 DEF ProverStep, ProverReads, ProverPrints, ProverSeesEof, ProverCrashes
<1> QED
  BY <1>1, <1>2, <1>3, <1>4, <1>5, <1>6, <1>7, <1>8 DEF Next, ClientStep

\* Every step of a session is a step of the service, or none.
LEMMA ServiceSteps == IInv /\ IInv' /\ [Next]_vars => [Service!ServiceNext]_(Service!serviceVars)
<1> SUFFICES ASSUME IInv, IInv', [Next]_vars PROVE [Service!ServiceNext]_(Service!serviceVars)
  OBVIOUS
<1> USE DEF ServicePhase
<1>1. TypeOK /\ ReadInv /\ Len(verdicts) \in Nat
  BY DEF IInv, TypeOK
<1>2. UNCHANGED verdicts => Results' = Results
  BY <1>1, ResultsStay
<1>3. CASE Send
  <2>1. /\ pc = "sending" /\ sent' = Append(sent, msg) /\ msg \in Texts /\ UNCHANGED verdicts
        /\ pc' = IF msg = "check-sat" THEN "checking"
                 ELSE IF msg = "get-model" THEN "modelling" ELSE "idle"
    BY <1>1, <1>3 DEF Send, TypeOK
  <2>2. Service!Accept(msg)
    BY <1>2, <2>1 DEF Service!Accept, Results, ResultsOf
  <2> QED
    BY <2>1, <2>2 DEF Service!ServiceNext, Service!Texts, Texts
<1>4. CASE ReadChunk
  <2>1. PICK upTo \in got + 1 .. flushed :
          \/ /\ IsVerdict(Buffer(upTo))
             /\ verdicts' = Append(verdicts, Buffer(upTo)[1].txt)
             /\ pc' = "idle"
          \/ pc' = "ended" /\ UNCHANGED verdicts
          \/ UNCHANGED <<verdicts, pc>>
    BY <1>4 DEF ReadChunk, Finish
  <2>2. pc = "checking" /\ UNCHANGED <<sent, answers, out>>
    BY <1>4 DEF ReadChunk, proverVars
  <2>3. CASE IsVerdict(Buffer(upTo)) /\ verdicts' = Append(verdicts, Buffer(upTo)[1].txt)
             /\ pc' = "idle"
    <3> DEFINE v == Buffer(upTo)[1].txt
               n == Len(verdicts) + 1
               new == [at |-> Len(sent), verdict |-> v]
    <3>1. v \in Verdicts /\ n <= Len(answers) /\ v = answers[n].verdict
      BY <2>2, <2>3, ReadsAnswer
    <3>2. answers[n].at = Len(sent)
      BY <2>2, <3>1, AnswerSpeaksOfLog
    <3>3. verdicts' = Append(verdicts, v)
      BY <2>3
    <3> HIDE DEF v
    <3>4. /\ Len(verdicts') = n
          /\ \A k \in 1 .. n - 1 : verdicts'[k] = verdicts[k]
          /\ verdicts'[n] = v
      BY <1>1, <3>1, <3>3, Returned
    <3>5. /\ Results \in Seq(Result) /\ Len(Results) = n - 1
          /\ \A k \in 1 .. n - 1 :
               Results[k] = [at |-> answers[k].at, verdict |-> verdicts[k]]
      <4>1. /\ verdicts \in Seq(Verdicts) /\ answers \in Seq(Result)
            /\ Len(verdicts) <= Len(answers) /\ n - 1 = Len(verdicts)
        BY <1>1 DEF TypeOK, ReadInv, Result
      <4> QED
        BY <4>1, ResultsAre DEF Results
    <3>6. /\ Results' \in Seq(Result) /\ Len(Results') = n
          /\ \A k \in 1 .. n :
               Results'[k] = [at |-> answers[k].at, verdict |-> verdicts'[k]]
      <4>1. /\ verdicts' \in Seq(Verdicts) /\ answers' \in Seq(Result)
            /\ Len(verdicts') <= Len(answers')
        BY DEF IInv, TypeOK, ReadInv, Result
      <4>2. /\ Results' \in Seq(Result) /\ Len(Results') = Len(verdicts')
            /\ \A k \in 1 .. Len(verdicts') :
                 Results'[k] = [at |-> answers'[k].at, verdict |-> verdicts'[k]]
        BY <4>1, ResultsAre DEF Results
      <4> QED
        BY <2>2, <3>4, <4>2
    <3>7. new \in Result
      BY <1>1, <3>1 DEF Result, IInv, TypeOK
    <3>8. n \in Nat /\ n >= 1 /\ \A k \in 1 .. n : k \in 1 .. n - 1 \/ k = n
      BY <1>1
    <3>9. Results'[n] = new
      BY <3>2, <3>4, <3>6, <3>8
    <3> HIDE DEF new, n
    <3>10. /\ Append(Results, new) \in Seq(Result) /\ Len(Append(Results, new)) = n
           /\ \A k \in 1 .. n - 1 : Append(Results, new)[k] = Results[k]
           /\ Append(Results, new)[n] = new
      <4>1. Len(Results) + 1 = n
        BY <3>5, <3>8
      <4> QED
        BY <3>5, <3>7, <4>1, AppendProperties
    <3>11. \A k \in 1 .. n : Results'[k] = Append(Results, new)[k]
      BY <3>4, <3>5, <3>6, <3>8, <3>9, <3>10
    <3>12. Results' = Append(Results, new)
      BY <3>6, <3>10, <3>11, SeqEqual
    <3>13. PICK w \in Verdicts : w = v
      BY <3>1
    <3>14. Service!Answer(w) /\ w \in Service!Verdicts
      BY <2>2, <2>3, <3>12, <3>13
         DEF Service!Answer, Service!Verdicts, Verdicts, Results, ResultsOf, new
    <3>15. Service!ServiceNext
      BY <3>14 DEF Service!ServiceNext
    <3> QED
      BY <3>15
  <2>4. CASE pc' = "ended" /\ UNCHANGED verdicts
    <3>1. Service!End
      BY <1>2, <2>2, <2>4 DEF Service!End, Results, ResultsOf
    <3> QED
      BY <3>1 DEF Service!ServiceNext
  <2>5. CASE UNCHANGED <<verdicts, pc>>
    BY <1>2, <2>2, <2>5 DEF Service!serviceVars, Results, ResultsOf
  <2> QED
    BY <2>1, <2>3, <2>4, <2>5
<1>5. CASE UNCHANGED <<sent, verdicts>> /\ pc' = "ended"
  <2>1. CASE pc = "ended"
    BY <1>2, <1>5, <2>1 DEF Service!serviceVars, Results, ResultsOf
  <2>2. CASE pc # "ended"
    <3>1. Service!End
      BY <1>2, <1>5, <2>2 DEF Service!End, Results, ResultsOf
    <3> QED
      BY <3>1 DEF Service!ServiceNext
  <2> QED
    BY <2>1, <2>2
<1>6. CASE UNCHANGED <<sent, verdicts>> /\ ServicePhase' = ServicePhase
  BY <1>2, <1>6 DEF Service!serviceVars, Results, ResultsOf
<1> QED
  BY <1>3, <1>4, <1>5, <1>6, ServiceFrame

\* prover_process::Communicator is the synchronous solver its callers take it
\* for: the writer thread, the pipes and the buffer cannot be seen.
THEOREM Implements == Spec => ImplementsService
<1>1. Init => Service!ServiceInit
  BY ServiceStarts
<1>2. IInv /\ IInv' /\ [Next]_vars => [Service!ServiceNext]_(Service!serviceVars)
  BY ServiceSteps
<1> QED
  BY <1>1, <1>2, Invariance, PTL DEF Spec, ImplementsService, Service!ServiceSpec

-----------------------------------------------------------------------------
(* Nobody is stuck. *)

\* Until get_model is called, nothing of a model is asked for or printed.
NoModelYet ==
  pc \notin {"modelling", "ended"} =>
    /\ \A i \in 1 .. Len(sent) : sent[i] # "get-model"
    /\ \A i \in 1 .. Len(out) : out[i].txt # "model"

\* Who reads to the end, or has gone, has left the writer an end to find.
EndInSight ==
  /\ pc = "draining" => wpc = "err"
  /\ pc \in {"modelling", "ended"} => ~chanOpen

\* Every answer is printed in two pieces, and a verdict that has been read in
\* full has been returned.
ReadAndReturned ==
  /\ Len(out) >= 2 * Len(answers)
  /\ pc = "checking" /\ ~ErrorPrinted => got < used + 2

GoOnInv == NoModelYet /\ EndInSight /\ ReadAndReturned

LEMMA InitGoesOn == Init => GoOnInv
BY DEF Init, GoOnInv, NoModelYet, EndInSight, ReadAndReturned

LEMMA NoModelKept == IInv /\ NoModelYet /\ [Next]_vars => NoModelYet'
<1> SUFFICES ASSUME IInv, NoModelYet, [Next]_vars PROVE NoModelYet'
  OBVIOUS
<1>1. TypeOK /\ Len(out) \in Nat /\ Len(sent) \in Nat /\ received \in Nat /\ received <= written
      /\ written \in Nat /\ taken \in Nat /\ written <= taken /\ taken <= Len(sent)
  BY DEF IInv, TypeOK, Stages
<1>2. CASE Send
  <2>1. /\ pc = "sending" /\ out' = out /\ sent' = Append(sent, msg)
        /\ pc' \notin {"modelling", "ended"} => msg # "get-model"
    BY <1>2 DEF Send, proverVars
  <2>2. Len(sent') = Len(sent) + 1 /\ (\A i \in 1 .. Len(sent) : sent'[i] = sent[i])
        /\ sent'[Len(sent) + 1] = msg
    BY <1>1, <2>1, Sent
  <2>3. \A i \in 1 .. Len(sent) + 1 : i \in 1 .. Len(sent) \/ i = Len(sent) + 1
    BY <1>1
  <2> QED
    BY <2>1, <2>2, <2>3 DEF NoModelYet
<1>3. CASE ProverReads
  <2>1. UNCHANGED <<sent, pc>>
    BY <1>3 DEF ProverReads, clientVars
  <2>2. SUFFICES ASSUME pc \notin {"modelling", "ended"}, NEW i \in 1 .. Len(out')
                 PROVE  out'[i].txt # "model"
    BY <2>1 DEF NoModelYet
  <2>3. received + 1 \in 1 .. Len(sent)
    BY <1>1, <1>3, Reads
  <2>4. sent[received + 1] # "get-model"
    BY <2>2, <2>3 DEF NoModelYet
  <2>5. CASE out' = out
    BY <2>2, <2>5 DEF NoModelYet
  <2>6. ASSUME NEW t \in Verdicts \cup {"error"}, out' = out \o Halves(t)
        PROVE  out'[i].txt # "model"
    <3>1. Halves(t) \in Seq(Pieces) /\ Len(Halves(t)) = 2
          /\ Halves(t)[1].txt = t /\ Halves(t)[2].txt = t
      BY DEF Halves, Pieces
    <3>2. out \in Seq(Pieces)
      BY <1>1 DEF TypeOK, Pieces
    <3>3. /\ Len(out') = Len(out) + 2
          /\ out'[i] = IF i <= Len(out) THEN out[i] ELSE Halves(t)[i - Len(out)]
      <4>1. Len(out') = Len(out) + Len(Halves(t))
            /\ \A j \in 1 .. Len(out) + Len(Halves(t)) :
                 out'[j] = IF j <= Len(out) THEN out[j] ELSE Halves(t)[j - Len(out)]
        BY <2>6, <3>1, <3>2, ConcatProperties
      <4> QED
        BY <2>2, <3>1, <4>1
    <3>4. i \in 1 .. Len(out) \/ (~(i <= Len(out)) /\ i - Len(out) \in {1, 2})
      BY <1>1, <2>2, <3>3
    <3>5. t # "model"
      BY DEF Verdicts
    <3>6. CASE i \in 1 .. Len(out)
      BY <1>1, <2>2, <3>3, <3>6 DEF NoModelYet
    <3>7. CASE ~(i <= Len(out)) /\ i - Len(out) \in {1, 2}
      BY <3>1, <3>3, <3>5, <3>7
    <3> QED
      BY <3>4, <3>6, <3>7
  <2>7. \/ out' = out
        \/ \E t \in Verdicts \cup {"error"} : out' = out \o Halves(t)
    BY <1>3, <2>4 DEF ProverReads
  <2> QED
    BY <2>5, <2>6, <2>7
<1>4. CASE UNCHANGED <<sent, out>> /\ (pc' \notin {"modelling", "ended"} => pc \notin {"modelling", "ended"})
  BY <1>4 DEF NoModelYet
<1>5. \/ Send \/ ProverReads
      \/ UNCHANGED <<sent, out>> /\ (pc' \notin {"modelling", "ended"} => pc \notin {"modelling", "ended"})
  <2> USE DEF writerVars, proverVars, readVars, clientVars
  <2>1. ASSUME NEW m \in Texts, Call(m) PROVE UNCHANGED <<sent, out>> /\ pc = "idle"
    BY <2>1 DEF Call
  <2>2. CASE Drop \/ WriteFindsDeadWriter \/ WriteFindsLiveWriter \/ SendFails
    BY <2>2 DEF Drop, WriteFindsDeadWriter, WriteFindsLiveWriter, SendFails
  <2>3. CASE ReadChunk \/ DrainChunk \/ DrainEof
    BY <2>3 DEF ReadChunk, DrainChunk, DrainEof, Finish
  <2>4. CASE SpinRead \/ Over \/ UNCHANGED vars
    BY <2>4 DEF SpinRead, Over, vars
  <2>5. CASE WriterStep \/ WriterLogFails
    BY <2>5 DEF WriterStep, WriterStart, WriterRecv, WriterLog, WriterWrite, WriterDone, WriterLogFails
  <2>6. CASE ProverPrints \/ ProverSeesEof \/ ProverCrashes
    BY <2>6 DEF ProverPrints, ProverSeesEof, ProverCrashes
  <2> QED
    BY <2>1, <2>2, <2>3, <2>4, <2>5, <2>6 DEF Next, ClientStep, ProverStep
<1> QED
  BY <1>2, <1>3, <1>4, <1>5

LEMMA EndStaysInSight == IInv /\ EndInSight /\ [Next]_vars => EndInSight'
<1> SUFFICES ASSUME IInv, EndInSight, [Next]_vars PROVE EndInSight'
  OBVIOUS
<1> USE DEF EndInSight, writerVars, proverVars, readVars, clientVars
<1>1. EndInv /\ TypeOK
  BY DEF IInv
<1>2. ASSUME NEW m \in Texts, Call(m) PROVE EndInSight'
  BY <1>2 DEF Call
<1>3. CASE Drop
  BY <1>3 DEF Drop, Finish
<1>4. CASE WriteFindsDeadWriter \/ WriteFindsLiveWriter
  BY <1>4 DEF WriteFindsDeadWriter, WriteFindsLiveWriter
<1>5. CASE SendFails
  BY <1>1, <1>5 DEF SendFails, WriterFinished, EndInv
<1>6. CASE Send
  <2>1. pc = "sending" /\ UNCHANGED wpc /\ (pc' = "modelling" => chanOpen' = FALSE)
        /\ pc' \notin {"draining", "ended"}
    BY <1>6 DEF Send, KeepsChannel
  <2> QED
    BY <2>1
<1>7. CASE ReadChunk
  <2>1. /\ pc = "checking" /\ UNCHANGED wpc
        /\ \/ pc' \in {"idle", "checking"}
           \/ chanOpen' = FALSE /\ pc' = "ended"
    BY <1>7 DEF ReadChunk, Finish
  <2> QED
    BY <2>1
<1>8. CASE DrainChunk
  BY <1>8 DEF DrainChunk
<1>9. CASE DrainEof
  BY <1>9 DEF DrainEof, Finish
<1>10. CASE SpinRead \/ Over \/ UNCHANGED vars
  BY <1>10 DEF SpinRead, Over, vars
<1>11. CASE WriterStep \/ WriterLogFails
  BY <1>11 DEF WriterStep, WriterStart, WriterRecv, WriterLog, WriterWrite, WriterDone, WriterLogFails
<1>12. CASE ProverStep \/ ProverCrashes
  BY <1>12 DEF ProverStep, ProverReads, ProverPrints, ProverSeesEof, ProverCrashes
<1> QED
  BY <1>2, <1>3, <1>4, <1>5, <1>6, <1>7, <1>8, <1>9, <1>10, <1>11, <1>12 DEF Next, ClientStep

\* Without an error and before any model, all that is printed are verdicts.
LEMMA OnlyVerdicts ==
  ASSUME TypeOK, NoModelYet, ~ErrorPrinted, pc \notin {"modelling", "ended"}
  PROVE  \A i \in 1 .. Len(out) : out[i].txt \in Verdicts
<1>1. SUFFICES ASSUME NEW i \in 1 .. Len(out) PROVE out[i].txt \in Verdicts
  OBVIOUS
<1>2. out \in Seq(Pieces)
  BY DEF TypeOK, Pieces
<1>3. out[i] \in Pieces
  BY <1>1, <1>2, ElementOfSeq
<1> QED
  BY <1>1, <1>3 DEF Pieces, NoModelYet, ErrorPrinted

\* Between two queries all that was printed has been taken out of the buffer.
LEMMA NothingLeft ==
  ASSUME IInv, NoModelYet, ~ErrorPrinted, pc \notin {"modelling", "ended", "checking"}
  PROVE  Len(out) <= used
<1>1. TypeOK /\ Stages /\ AnswersInv /\ OutInv /\ ReadInv
  BY DEF IInv
<1>2. Len(out) \in Nat /\ Len(answers) \in Nat /\ Len(verdicts) \in Nat /\ Len(sent) \in Nat
      /\ received \in Nat /\ received <= Len(sent)
  BY <1>1 DEF TypeOK, Stages
<1>3. PICK m \in 0 .. Len(out) : Len(out) = 2 * m /\ (CleanUpTo(m) => Len(answers) = m)
  BY <1>1 DEF OutInv
<1>4. CleanUpTo(m)
  <2>1. \A j \in 1 .. m : 2 * j - 1 \in 1 .. Len(out)
    BY <1>2, <1>3
  <2> QED
    BY <1>1, <2>1, OnlyVerdicts DEF CleanUpTo
<1>5. Cardinality(Queries(received)) <= Cardinality(Queries(Len(sent)))
  <2>1. Queries(received) \in SUBSET Queries(Len(sent))
    BY <1>2 DEF Queries
  <2>2. IsFiniteSet(Queries(Len(sent)))
    BY <1>2, CountsQueries
  <2> QED
    BY <2>1, <2>2, FS_Subset
<1>6. Len(answers) = Cardinality(Queries(received))
  BY <1>1 DEF AnswersInv
<1>7. used = 2 * Len(verdicts) /\ Cardinality(Queries(Len(sent))) = Len(verdicts)
  BY <1>1, <1>2 DEF ReadInv
<1>8. m <= Len(verdicts) /\ m \in Nat
  BY <1>2, <1>3, <1>4, <1>5, <1>6, <1>7
<1> QED
  BY <1>2, <1>3, <1>7, <1>8

LEMMA ReadAndReturnedKept == IInv /\ GoOnInv /\ [Next]_vars => ReadAndReturned'
<1> SUFFICES ASSUME IInv, GoOnInv, [Next]_vars PROVE ReadAndReturned'
  OBVIOUS
<1>1. TypeOK /\ Stages /\ NoModelYet /\ ReadAndReturned
  BY DEF IInv, GoOnInv
<1>2. Len(out) \in Nat /\ Len(answers) \in Nat /\ got \in Nat /\ used \in Nat
      /\ flushed \in Nat /\ used <= got /\ got <= flushed /\ flushed <= Len(out)
  BY <1>1 DEF TypeOK, Stages
<1>3. Len(out') \in Nat /\ Len(out') >= 2 * Len(answers') /\ Len(out) <= Len(out')
  <2>1. CASE UNCHANGED <<out, answers>>
    BY <1>1, <1>2, <2>1 DEF ReadAndReturned
  <2>2. ASSUME NEW t \in Verdicts \cup {"error", "model"}, out' = out \o Halves(t)
        PROVE  Len(out') = Len(out) + 2
    BY <1>1, <2>2, Printed
  <2>3. ASSUME NEW v \in Verdicts,
               answers' = Append(answers, [at |-> received + 1, verdict |-> v])
        PROVE  Len(answers') = Len(answers) + 1
    BY <1>1, <2>3, Answered
  <2>4. CASE ProverReads
    <3>1. ASSUME NEW t \in {"error", "model"}, out' = out \o Halves(t), UNCHANGED answers
          PROVE  Len(out') \in Nat /\ Len(out') >= 2 * Len(answers') /\ Len(out) <= Len(out')
      BY <1>1, <1>2, <2>2, <3>1 DEF ReadAndReturned
    <3>2. ASSUME NEW v \in Verdicts, out' = out \o Halves(v),
                 answers' = Append(answers, [at |-> received + 1, verdict |-> v])
          PROVE  Len(out') \in Nat /\ Len(out') >= 2 * Len(answers') /\ Len(out) <= Len(out')
      <4>1. Len(out') = Len(out) + 2 /\ Len(answers') = Len(answers) + 1
        BY <2>2, <2>3, <3>2
      <4> QED
        BY <1>1, <1>2, <4>1 DEF ReadAndReturned
    <3> QED
      BY <2>1, <2>4, <3>1, <3>2, Reads
  <2> QED
    BY <2>1, <2>4, SolverFrame
<1>4. ErrorPrinted => ErrorPrinted'
  <2>1. \A i \in 1 .. Len(out) : i \in 1 .. Len(out') /\ out'[i] = out[i]
    BY <1>1, <1>2, <1>3, Grows
  <2> QED
    BY <2>1 DEF ErrorPrinted
<1>5. SUFFICES ASSUME pc' = "checking", ~ErrorPrinted' PROVE got' < used' + 2
  BY <1>3 DEF ReadAndReturned
<1>6. CASE Send
  <2>1. pc = "sending" /\ UNCHANGED <<got, used>>
    BY <1>6 DEF Send, readVars
  <2>2. Len(out) <= used
    BY <1>1, <1>4, <1>5, <2>1, NothingLeft
  <2> QED
    BY <1>2, <2>1, <2>2
<1>7. CASE ReadChunk
  <2>1. pc = "checking"
    BY <1>7 DEF ReadChunk
  <2>2. PICK upTo \in got + 1 .. flushed :
          got' = upTo /\ ~IsVerdict(Buffer(upTo)) /\ used' = used
    BY <1>5, <1>7 DEF ReadChunk, Finish
  <2>3. Len(Buffer(upTo)) = upTo - used
        /\ \A i \in 1 .. upTo - used : Buffer(upTo)[i] = out[used + i]
    BY <1>1, BufferIs
  <2>4. CASE upTo >= used + 2
    <3>1. used + 1 \in 1 .. Len(out) /\ 1 \in 1 .. upTo - used /\ upTo - used >= 2
      BY <1>2, <2>2, <2>4
    <3>2. out[used + 1].txt \in Verdicts
      BY <1>1, <1>4, <1>5, <2>1, <3>1, OnlyVerdicts
    <3> QED
      BY <2>2, <2>3, <3>1, <3>2 DEF IsVerdict
  <2> QED
    BY <1>2, <2>2, <2>4
<1>8. CASE pc = "checking" /\ UNCHANGED <<got, used>>
  BY <1>1, <1>4, <1>5, <1>8 DEF ReadAndReturned
<1>9. Send \/ ReadChunk \/ (pc = "checking" /\ UNCHANGED <<got, used>>)
  <2> USE DEF writerVars, proverVars, readVars, clientVars
  <2>1. ~(\E m \in Texts : Call(m)) /\ ~Drop /\ ~DrainEof
    BY <1>5 DEF Call, Drop, DrainEof, Finish
  <2>2. ~WriteFindsDeadWriter /\ ~WriteFindsLiveWriter /\ ~SendFails
    BY <1>5 DEF WriteFindsDeadWriter, WriteFindsLiveWriter, SendFails
  <2>3. ~DrainChunk
    BY <1>5 DEF DrainChunk
  <2>4. CASE SpinRead \/ Over \/ UNCHANGED vars
    BY <1>5, <2>4 DEF SpinRead, Over, vars
  <2>5. CASE WriterStep \/ WriterLogFails
    BY <1>5, <2>5 DEF WriterStep, WriterStart, WriterRecv, WriterLog, WriterWrite, WriterDone, WriterLogFails
  <2>6. CASE ProverStep \/ ProverCrashes
    BY <1>5, <2>6 DEF ProverStep, ProverReads, ProverPrints, ProverSeesEof, ProverCrashes
  <2> QED
    BY <2>1, <2>2, <2>3, <2>4, <2>5, <2>6 DEF Next, ClientStep
<1> QED
  BY <1>6, <1>7, <1>8, <1>9

LEMMA GoingOn == Spec => []GoOnInv
<1>1. IInv /\ GoOnInv /\ [Next]_vars => GoOnInv'
  BY NoModelKept, EndStaysInSight, ReadAndReturnedKept DEF GoOnInv
<1> QED
  BY <1>1, InitGoesOn, Invariance, PTL DEF Spec

\* A query whose every text has reached the solver has been answered.
LEMMA AllRead ==
  ASSUME IInv, GoOnInv, pc = "checking", received = Len(sent)
  PROVE  Len(out) >= used + 2
<1>1. Len(answers) = Cardinality(Queries(Len(sent)))
  BY DEF IInv, AnswersInv
<1>2. used = 2 * Len(verdicts) /\ Cardinality(Queries(Len(sent))) = Len(verdicts) + 1
  BY DEF IInv, ReadInv
<1>3. Len(verdicts) \in Nat /\ Len(out) \in Nat
  BY DEF IInv, TypeOK
<1> QED
  BY <1>1, <1>2, <1>3 DEF GoOnInv, ReadAndReturned

\* The client, the writer thread and the solver never wait for one another in a
\* circle, however small the pipes are (read_until_pred, read_until_end and the
\* writer thread of process.rs, with a solver that answers in order).
THEOREM NobodyGetsStuck == Spec => []NobodyIsStuck
<1>1. IInv /\ GoOnInv => NobodyIsStuck
  <2> SUFFICES ASSUME IInv, GoOnInv, ~NobodyIsStuck PROVE FALSE
    OBVIOUS
  <2>1. TypeOK /\ Stages /\ EndInv /\ EndInSight /\ ReadAndReturned
    BY DEF IInv, GoOnInv
  <2>2. ~ClientCanStep /\ ~WriterCanStep /\ ~ProverCanStep /\ pc # "idle"
    BY DEF NobodyIsStuck
  <2>3. /\ received \in Nat /\ written \in Nat /\ taken \in Nat /\ Len(sent) \in Nat
        /\ got \in Nat /\ used \in Nat /\ flushed \in Nat /\ Len(out) \in Nat
        /\ received <= written /\ written <= taken /\ taken <= Len(sent)
        /\ used <= got /\ got <= flushed /\ flushed <= Len(out)
        /\ PipeCap \in Nat /\ PipeCap > 0 /\ BufCap \in Nat /\ BufCap >= 2
    BY <2>1, SessionAssumption DEF TypeOK, Stages
  <2>4. ASSUME prover = "up", flushed = Len(out), ~WriterFinished
        PROVE  wpc = "recv" /\ received = Len(sent) /\ chanOpen
    <3>1. received = written
      BY <2>2, <2>3, <2>4 DEF ProverCanStep
    <3>2. wpc = "recv"
      BY <2>1, <2>2, <2>3, <2>4, <3>1
         DEF WriterCanStep, WriterFinished, TypeOK, WriterStates
    <3>3. written = taken /\ taken = Len(sent) /\ chanOpen
      BY <2>1, <2>2, <2>3, <3>2 DEF WriterCanStep, Stages
    <3> QED
      BY <3>1, <3>2, <3>3
  <2>5. CASE pc = "checking"
    <3>1. prover # "crashed" /\ wpc # "err" /\ ~ErrorPrinted
      BY <2>5 DEF NobodyIsStuck
    <3>2. ~WriterFinished /\ prover = "up"
      BY <2>1, <2>5, <3>1 DEF EndInv, WriterFinished, TypeOK
    <3>3. got < used + 2
      BY <2>1, <2>5, <3>1 DEF ReadAndReturned
    <3>4. got = flushed
      BY <2>2, <2>3, <2>5, <3>3 DEF ClientCanStep
    <3>5. flushed = Len(out)
      BY <2>2, <2>3, <3>2, <3>4 DEF ProverCanStep
    <3>6. received = Len(sent)
      BY <2>4, <3>2, <3>5
    <3>7. Len(out) >= used + 2
      BY <2>5, <3>6, AllRead
    <3> QED
      BY <2>3, <3>3, <3>4, <3>5, <3>7
  <2>6. CASE pc \in {"modelling", "draining"}
    <3>1. got = flushed /\ prover = "up"
      BY <2>2, <2>3, <2>6 DEF ClientCanStep, AtEof
    <3>2. flushed = Len(out)
      BY <2>2, <2>3, <3>1 DEF ProverCanStep
    <3>3. ~WriterFinished
      BY <2>2, <3>1, <3>2 DEF ProverCanStep, StdinClosed
    <3>4. chanOpen
      BY <2>4, <3>1, <3>2, <3>3
    <3> QED
      BY <2>1, <2>6, <3>3, <3>4 DEF EndInSight, WriterFinished
  <2>7. CASE pc = "ended"
    <3>1. ~chanOpen
      BY <2>1, <2>7 DEF EndInSight
    <3>2. CASE prover = "up"
      <4>1. flushed = Len(out)
        BY <2>2, <2>3, <2>7, <3>2 DEF ProverCanStep
      <4>2. ~WriterFinished
        BY <2>2, <3>2, <4>1 DEF ProverCanStep, StdinClosed
      <4> QED
        BY <2>4, <3>1, <3>2, <4>1, <4>2
    <3>3. CASE prover # "up"
      <4>1. ~WriterFinished
        BY <2>7, <3>3 DEF NobodyIsStuck
      <4> QED
        BY <2>1, <2>2, <3>1, <3>3, <4>1
           DEF WriterCanStep, WriterFinished, TypeOK, WriterStates
    <3> QED
      BY <3>2, <3>3
  <2>8. CASE pc = "writing"
    BY <2>1, <2>2, <2>8 DEF ClientCanStep, EndInv
  <2>9. CASE pc = "sending"
    BY <2>2, <2>9 DEF ClientCanStep
  <2> QED
    BY <2>1, <2>2, <2>5, <2>6, <2>7, <2>8, <2>9 DEF TypeOK, ClientStates
<1> QED
  BY <1>1, Invariance, GoingOn, PTL

-----------------------------------------------------------------------------
(* Nothing runs in circles. *)

\* What is left to do before the caller's next call, a bound on the steps.
ClientWork ==
  IF pc = "writing" THEN 11 ELSE IF pc = "sending" THEN 10 ELSE IF pc = "ended" THEN 0 ELSE 1
WriterWork ==
  3 * (Len(sent) - taken)
    + (IF wpc = "logging" THEN 3 ELSE IF wpc \in {"start", "writing"} THEN 2
       ELSE IF wpc = "recv" THEN 1 ELSE 0)
SolverWork ==
  5 * (Len(sent) - received) + (Len(out) - flushed) + (Len(out) - got)
    + (IF prover = "up" THEN 1 ELSE 0)
Work == ClientWork + WriterWork + SolverWork

\* The caller's next call, and a read that returns nothing.
NextCall == \E m \in Texts : Call(m)

LEMMA WorkIsNat == IInv => Work \in Nat
<1> SUFFICES ASSUME IInv PROVE Work \in Nat
  OBVIOUS
<1>1. /\ received \in Nat /\ written \in Nat /\ taken \in Nat /\ Len(sent) \in Nat
      /\ got \in Nat /\ flushed \in Nat /\ Len(out) \in Nat
      /\ received <= written /\ written <= taken /\ taken <= Len(sent)
      /\ got <= flushed /\ flushed <= Len(out)
  BY DEF IInv, TypeOK, Stages
<1>2. ClientWork \in Nat
  BY DEF ClientWork
<1>3. WriterWork \in Nat
  BY <1>1 DEF WriterWork
<1>4. SolverWork \in Nat
  BY <1>1 DEF SolverWork
<1> QED
  BY <1>2, <1>3, <1>4 DEF Work

LEMMA UsedUp ==
  ASSUME ClientWork \in Int, WriterWork \in Int, SolverWork \in Int,
         ClientWork' \in Int, WriterWork' \in Int, SolverWork' \in Int,
         ClientWork' <= ClientWork, WriterWork' <= WriterWork, SolverWork' <= SolverWork,
         \/ ClientWork' < ClientWork \/ WriterWork' < WriterWork \/ SolverWork' < SolverWork
  PROVE  Work' < Work
<1>1. \A a, b, c, x, y, z \in Int :
        x <= a /\ y <= b /\ z <= c /\ (x < a \/ y < b \/ z < c) => x + y + z < a + b + c
  OBVIOUS
<1> QED
  BY <1>1 DEF Work

\* Every step but the caller's next call, and the reads that return nothing,
\* uses up some of the work left: with NobodyGetsStuck, a call of write_smt,
\* check_sat or get_model, and what follows the last one, is over after at most
\* Work steps, or the client reads on in vain.
THEOREM WorkIsUsedUp == Spec => [][NextCall \/ (Work \in Nat /\ Work' < Work)]_vars
<1>1. ASSUME IInv, [Next]_vars, ~NextCall, ~UNCHANGED vars
      PROVE  Work' < Work
  <2>1. TypeOK /\ Stages /\ EndInv /\ Work \in Nat
    BY <1>1, WorkIsNat DEF IInv
  <2>2. /\ received \in Nat /\ written \in Nat /\ taken \in Nat /\ Len(sent) \in Nat
        /\ got \in Nat /\ used \in Nat /\ flushed \in Nat /\ Len(out) \in Nat
    BY <2>1 DEF TypeOK
  <2>3. ClientWork \in Int /\ WriterWork \in Int /\ SolverWork \in Int
    BY <2>2 DEF ClientWork, WriterWork, SolverWork
  <2> USE DEF clientVars, writerVars, proverVars, readVars
  <2>4. CASE Drop
    <3>1. ClientWork' < ClientWork /\ ClientWork' \in Int /\ WriterWork' = WriterWork /\ SolverWork' = SolverWork
      BY <2>4 DEF Drop, Finish, ClientWork, WriterWork, SolverWork
    <3> QED
      BY <2>3, <3>1, UsedUp
  <2>5. CASE WriteFindsDeadWriter \/ WriteFindsLiveWriter \/ SendFails
    <3>1. ClientWork' < ClientWork /\ ClientWork' \in Int /\ WriterWork' = WriterWork /\ SolverWork' = SolverWork
      BY <2>5 DEF WriteFindsDeadWriter, WriteFindsLiveWriter, SendFails,
                  ClientWork, WriterWork, SolverWork
    <3> QED
      BY <2>3, <3>1, UsedUp
  <2>6. CASE Send
    <3>1. pc = "sending" /\ pc' \in {"checking", "modelling", "idle"}
          /\ UNCHANGED <<wpc, taken, prover, received, out, flushed, got>>
      BY <2>6 DEF Send
    <3>2. Len(sent') = Len(sent) + 1
      BY <2>1, <2>6, Sent DEF Send
    <3>3. ClientWork = 10 /\ ClientWork' = 1
      BY <3>1 DEF ClientWork
    <3>4. WriterWork' = WriterWork + 3
      BY <2>2, <3>1, <3>2 DEF WriterWork
    <3>5. SolverWork' = SolverWork + 5
      BY <2>2, <3>1, <3>2 DEF SolverWork
    <3> QED
      BY <2>3, <3>3, <3>4, <3>5 DEF Work
  <2>7. CASE ReadChunk
    <3>1. pc = "checking" /\ pc' \in {"checking", "idle", "ended"} /\ got' \in got + 1 .. flushed
          /\ UNCHANGED <<sent, wpc, taken, prover, received, out, flushed>>
      BY <2>7 DEF ReadChunk, Finish
    <3>2. ClientWork = 1 /\ ClientWork' \in {0, 1} /\ WriterWork' = WriterWork
      BY <3>1 DEF ClientWork, WriterWork
    <3>3. SolverWork' < SolverWork /\ SolverWork' \in Int
      BY <2>2, <3>1 DEF SolverWork
    <3> QED
      BY <2>3, <3>2, <3>3, UsedUp
  <2>8. CASE DrainChunk
    <3>1. got' \in got + 1 .. flushed
          /\ UNCHANGED <<pc, sent, wpc, taken, prover, received, out, flushed>>
      BY <2>8 DEF DrainChunk
    <3>2. ClientWork' = ClientWork /\ WriterWork' = WriterWork
      BY <3>1 DEF ClientWork, WriterWork
    <3>3. SolverWork' < SolverWork /\ SolverWork' \in Int
      BY <2>2, <3>1 DEF SolverWork
    <3> QED
      BY <2>3, <3>2, <3>3, UsedUp
  <2>9. CASE DrainEof
    <3>1. ClientWork' < ClientWork /\ ClientWork' \in Int /\ WriterWork' = WriterWork /\ SolverWork' = SolverWork
      BY <2>9 DEF DrainEof, Finish, ClientWork, WriterWork, SolverWork
    <3> QED
      BY <2>3, <3>1, UsedUp
  <2>10. CASE WriterStep \/ WriterLogFails
    <3>1. ClientWork' = ClientWork /\ SolverWork' = SolverWork /\ UNCHANGED sent
      BY <2>10 DEF WriterStep, WriterStart, WriterRecv, WriterLog, WriterWrite, WriterDone,
                   WriterLogFails, ClientWork, SolverWork
    <3>2. \/ wpc = "start" /\ wpc' \in {"recv", "err"} /\ taken' = taken
          \/ wpc = "recv" /\ wpc' \in {"logging", "writing"} /\ taken' = taken + 1
          \/ wpc = "logging" /\ wpc' \in {"writing", "err"} /\ taken' = taken
          \/ wpc = "writing" /\ wpc' \in {"recv", "err"} /\ taken' = taken
          \/ wpc = "recv" /\ wpc' = "ok" /\ taken' = taken
      BY <2>10 DEF WriterStep, WriterStart, WriterRecv, WriterLog, WriterWrite, WriterDone,
                   WriterLogFails
    <3>3. WriterWork' < WriterWork /\ WriterWork' \in Int
      BY <2>2, <3>1, <3>2 DEF WriterWork
    <3> QED
      BY <2>3, <3>1, <3>3, UsedUp
  <2>11. CASE ProverReads
    <3>1. ClientWork' = ClientWork /\ WriterWork' = WriterWork /\ UNCHANGED <<prover, flushed, got, sent>>
      BY <2>11 DEF ProverReads, ClientWork, WriterWork
    <3>2. received' = received + 1
      BY <2>11, Reads
    <3>3. Len(out') = Len(out) \/ Len(out') = Len(out) + 2
      <4>1. ASSUME NEW t \in Verdicts \cup {"error", "model"}, out' = out \o Halves(t)
            PROVE  Len(out') = Len(out) + 2
        BY <2>1, <4>1, Printed
      <4> QED
        BY <2>11, <4>1, Reads
    <3>4. SolverWork' < SolverWork /\ SolverWork' \in Int
      BY <2>2, <3>1, <3>2, <3>3 DEF SolverWork
    <3> QED
      BY <2>3, <3>1, <3>4, UsedUp
  <2>12. CASE ProverPrints \/ ProverSeesEof \/ ProverCrashes
    <3>1. ClientWork' = ClientWork /\ WriterWork' = WriterWork /\ UNCHANGED <<received, out, got, sent>>
      BY <2>12 DEF ProverPrints, ProverSeesEof, ProverCrashes, ClientWork, WriterWork
    <3>2. prover = "up" /\ (\/ prover' # "up" /\ flushed' = flushed
                            \/ prover' = "up" /\ flushed' = flushed + 1)
      BY <2>12 DEF ProverPrints, ProverSeesEof, ProverCrashes
    <3>3. SolverWork' < SolverWork /\ SolverWork' \in Int
      BY <2>2, <3>1, <3>2 DEF SolverWork
    <3> QED
      BY <2>3, <3>1, <3>3, UsedUp
  <2>13. ~SpinRead /\ ~Over
    BY <1>1 DEF SpinRead, Over
  <2> QED
    BY <1>1, <2>4, <2>5, <2>6, <2>7, <2>8, <2>9, <2>10, <2>11, <2>12, <2>13
       DEF Next, ClientStep, ProverStep, NextCall
<1>2. IInv /\ [Next]_vars => [NextCall \/ (Work \in Nat /\ Work' < Work)]_vars
  BY <1>1, WorkIsNat
<1> QED
  BY <1>2, Invariance, PTL DEF Spec

=============================================================================
