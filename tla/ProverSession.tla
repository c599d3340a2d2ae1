--------------------------- MODULE ProverSession ---------------------------
(***************************************************************************)
(* One session with an external SMT solver: process::Communicator          *)
(* (src/src/util/process.rs) under prover_process::Communicator            *)
(* (src/src/util/prover_process.rs).                                       *)
(*                                                                         *)
(* Three sequential processes share it.  The client thread calls           *)
(* write_str, check_sat and get_model.  The writer thread takes texts from *)
(* an unbounded channel, copies each to the transcript and then to the     *)
(* solver's stdin.  The solver reads stdin and prints to stdout; both are  *)
(* bounded pipes.  Every stage is first-in first-out, so a stage is the    *)
(* number of texts (pieces) that have passed it.                           *)
(***************************************************************************)
EXTENDS Integers, Sequences, SequencesExt

CONSTANTS
  MaxTexts,     \* bound on the texts the client writes
  PipeCap,      \* capacity of a pipe, in texts or pieces
  BufCap,       \* size of the read buffer, in pieces (1 << 20 bytes in the code)
  Transcripted, \* whether the session has a transcript
  Faults        \* which faults happen: "crash", "reject", "disk"

ASSUME SessionAssumption ==
  /\ MaxTexts \in Nat
  /\ PipeCap \in Nat \ {0}
  /\ BufCap \in Nat /\ BufCap >= 2  \* a verdict fits
  /\ Transcripted \in BOOLEAN
  /\ Faults \subseteq {"crash", "reject", "disk"}

VARIABLES
  \* the client thread
  pc,        \* where the client is, see ClientStates
  msg,       \* the text being written by write_str
  outcome,   \* how the session ended for its caller
  verdicts,  \* what check_sat returned, oldest first
  \* the channel and the writer thread
  sent,      \* texts ever put into the channel
  chanOpen,  \* whether the client still holds the Sender
  wpc,       \* where the writer thread is, see WriterStates
  taken,     \* texts of sent received by the writer
  logged,    \* texts of sent flushed to the transcript
  written,   \* texts of sent flushed to the solver's stdin
  \* the solver
  prover,    \* "up", "exited" or "crashed"
  received,  \* texts of sent the solver has read
  out,       \* pieces the solver has produced
  flushed,   \* pieces of out written to the stdout pipe
  answers,   \* the solver's answers to check-sat: [at, verdict]
  \* the read side of the client
  got,       \* pieces of out read into buf
  used       \* pieces of out matched and dropped from buf

clientVars == <<pc, msg, outcome, verdicts>>
writerVars == <<wpc, taken, logged, written>>
proverVars == <<prover, received, out, flushed, answers>>
readVars == <<got, used>>
vars == <<clientVars, sent, chanOpen, writerVars, proverVars, readVars>>

ClientStates == {"idle", "writing", "sending", "checking", "modelling", "draining", "ended"}
WriterStates == {"start", "recv", "logging", "writing", "ok", "err"}
Outcomes == {"none", "dropped", "model", "write-error", "prover-error"}
Verdicts == {"sat", "unsat", "unknown"}
Texts == {"smt", "check-sat", "get-model"}

-----------------------------------------------------------------------------
\* The solver prints a reply in two pieces, so that a read may see half of it.
Halves(t) == <<[txt |-> t, end |-> FALSE], [txt |-> t, end |-> TRUE]>>

\* What is in the client's buffer: read, and not yet matched.
Buffer(upTo) == SubSeq(out, used + 1, upTo)

\* check_sat's predicate on the buffer: a whole verdict at the start is a
\* match of its two pieces; an error at the start matches only when the buffer
\* ends with the end of a parenthesised reply, and then takes everything.
IsVerdict(data) == Len(data) >= 2 /\ data[1].txt \in Verdicts
IsError(data) ==
  Len(data) >= 1 /\ data[1].txt = "error" /\ Last(data).txt = "error" /\ Last(data).end

NothingConsumed == 0  \* variant: a match leaves the buffer as it is
VerdictLength == 2

WriterFinished == wpc \in {"ok", "err"}

\* The writer thread owns stdin: its end closes the pipe.
StdinOutlivesError == wpc = "ok"  \* variant: a failed thread hands stdin back
StdinClosed == WriterFinished

AllThatIsThere == got = flushed  \* variant: an empty pipe is taken for its end
AtEof == prover # "up" /\ got = flushed

-----------------------------------------------------------------------------
Init ==
  /\ pc = "idle" /\ msg = "smt" /\ outcome = "none" /\ verdicts = <<>>
  /\ sent = <<>> /\ chanOpen = TRUE
  /\ wpc = "start" /\ taken = 0 /\ logged = 0 /\ written = 0
  /\ prover = "up" /\ received = 0 /\ out = <<>> /\ flushed = 0 /\ answers = <<>>
  /\ got = 0 /\ used = 0

-----------------------------------------------------------------------------
(* The client thread. *)

\* write_smt, check_sat and get_model begin with write_str.  get_model is only
\* called on a verdict other than unsat, before anything else is written.
Call(m) ==
  /\ pc = "idle" /\ Len(sent) < MaxTexts
  /\ m = "get-model" => /\ verdicts # <<>> /\ Last(verdicts) # "unsat"
                        /\ Last(sent) = "check-sat"
  /\ pc' = "writing" /\ msg' = m
  /\ UNCHANGED <<outcome, verdicts, sent, chanOpen, writerVars, proverVars, readVars>>

\* write_str: a writer thread that has ended in an error is joined, and the
\* rest of stdout is copied to stderr before the error is returned.
WriteFindsDeadWriter ==
  /\ pc = "writing" /\ wpc = "err"
  /\ pc' = "draining"
  /\ UNCHANGED <<msg, outcome, verdicts, sent, chanOpen, writerVars, proverVars, readVars>>

WriteFindsLiveWriter ==
  /\ pc = "writing" /\ ~WriterFinished
  /\ pc' = "sending"
  /\ UNCHANGED <<msg, outcome, verdicts, sent, chanOpen, writerVars, proverVars, readVars>>

NeverCloses(m) == TRUE  \* variant: get_model leaves the channel open
\* get_model closes the channel behind its text.
KeepsChannel(m) == m # "get-model"

\* The channel is unbounded: a send never waits.
Send ==
  /\ pc = "sending" /\ ~WriterFinished
  /\ sent' = Append(sent, msg)
  /\ pc' = IF msg = "check-sat" THEN "checking"
           ELSE IF msg = "get-model" THEN "modelling" ELSE "idle"
  /\ chanOpen' = KeepsChannel(msg)
  /\ UNCHANGED <<msg, outcome, verdicts, writerVars, proverVars, readVars>>

\* variant: the result of send is ignored
SendFailsSilently ==
  /\ pc = "sending" /\ WriterFinished
  /\ pc' = IF msg = "check-sat" THEN "checking" ELSE "idle"
  /\ UNCHANGED <<msg, outcome, verdicts, sent, chanOpen, writerVars, proverVars, readVars>>

\* The writer ended after it was looked at: join, then read_until_end.
SendFails ==
  /\ pc = "sending" /\ WriterFinished
  /\ pc' = "draining"
  /\ UNCHANGED <<msg, outcome, verdicts, sent, chanOpen, writerVars, proverVars, readVars>>

\* variant: the Sender outlives the session
FinishKeepingSender(how) == pc' = "ended" /\ outcome' = how /\ UNCHANGED chanOpen

\* The caller has its result and drops the Communicator, its Sender included.
Finish(how) ==
  /\ pc' = "ended" /\ outcome' = how /\ chanOpen' = FALSE

\* read_until_pred: one read of what the pipe holds and the buffer has room for.
ReadChunk ==
  /\ pc = "checking"
  /\ \E upTo \in got + 1 .. flushed :
       LET data == Buffer(upTo) IN
       /\ upTo - used <= BufCap
       /\ got' = upTo
       /\ \/ /\ IsVerdict(data)
             /\ verdicts' = Append(verdicts, data[1].txt)
             /\ used' = used + VerdictLength
             /\ pc' = "idle"
             /\ UNCHANGED <<outcome, chanOpen>>
          \/ /\ IsError(data)
             /\ used' = upTo
             /\ Finish("prover-error")
             /\ UNCHANGED verdicts
          \/ /\ ~IsVerdict(data) /\ ~IsError(data)
             /\ UNCHANGED <<used, verdicts, pc, outcome, chanOpen>>
  /\ UNCHANGED <<msg, sent, writerVars, proverVars>>

\* read returns 0 at end of file, and into a full buffer: the loop goes on.
SpinRead ==
  /\ pc = "checking"
  /\ AtEof \/ got - used = BufCap
  /\ UNCHANGED vars

\* read_until_end: into a string of its own, so the buffer is no limit.
DrainChunk ==
  /\ pc \in {"modelling", "draining"}
  /\ \E upTo \in got + 1 .. flushed : got' = upTo
  /\ UNCHANGED <<clientVars, sent, chanOpen, writerVars, proverVars, used>>

DrainEof ==
  /\ pc \in {"modelling", "draining"} /\ AtEof
  /\ used' = got
  /\ Finish(IF pc = "modelling" THEN "model" ELSE "write-error")
  /\ UNCHANGED <<msg, verdicts, sent, writerVars, proverVars, got>>

\* The caller drops the Communicator between two calls: its Sender goes too.
Drop ==
  /\ pc = "idle"
  /\ Finish("dropped")
  /\ UNCHANGED <<msg, verdicts, sent, writerVars, proverVars, readVars>>

-----------------------------------------------------------------------------
(* The writer thread. *)

\* A newline goes to stdin first; it is not in the transcript.
WriterStart ==
  /\ wpc = "start"
  /\ wpc' = IF prover = "up" THEN "recv" ELSE "err"
  /\ UNCHANGED <<clientVars, sent, chanOpen, taken, logged, written, proverVars, readVars>>

WriterRecv ==
  /\ wpc = "recv" /\ taken < Len(sent)
  /\ taken' = taken + 1
  /\ wpc' = IF Transcripted THEN "logging" ELSE "writing"
  /\ UNCHANGED <<clientVars, sent, chanOpen, logged, written, proverVars, readVars>>

\* variant: the transcript is not flushed
WriterLogUnflushed ==
  /\ wpc = "logging"
  /\ wpc' = "writing"
  /\ UNCHANGED <<clientVars, sent, chanOpen, taken, logged, written, proverVars, readVars>>

WriterLog ==
  /\ wpc = "logging"
  /\ logged' = taken
  /\ wpc' = "writing"
  /\ UNCHANGED <<clientVars, sent, chanOpen, taken, written, proverVars, readVars>>

\* The transcript cannot be written: the thread ends, and stdin closes with it.
WriterLogFails ==
  /\ wpc = "logging" /\ "disk" \in Faults
  /\ wpc' = "err"
  /\ UNCHANGED <<clientVars, sent, chanOpen, taken, logged, written, proverVars, readVars>>

\* variant: stdin is not flushed, so that the last text stays behind
WriterWriteUnflushed ==
  /\ wpc = "writing"
  /\ IF prover = "up"
       THEN /\ written - received < PipeCap
            /\ written' = taken - 1 /\ wpc' = "recv"
       ELSE wpc' = "err" /\ UNCHANGED written
  /\ UNCHANGED <<clientVars, sent, chanOpen, taken, logged, proverVars, readVars>>

WriterWrite ==
  /\ wpc = "writing"
  /\ IF prover = "up"
       THEN /\ written - received < PipeCap
            /\ written' = taken /\ wpc' = "recv"
       ELSE wpc' = "err" /\ UNCHANGED written
  /\ UNCHANGED <<clientVars, sent, chanOpen, taken, logged, proverVars, readVars>>

\* The channel is closed and empty: the loop ends.
WriterDone ==
  /\ wpc = "recv" /\ ~chanOpen /\ taken = Len(sent)
  /\ wpc' = "ok"
  /\ UNCHANGED <<clientVars, sent, chanOpen, taken, logged, written, proverVars, readVars>>

-----------------------------------------------------------------------------
(* The solver: external, known from the arguments it is started with. *)

ProverReads ==
  /\ prover = "up" /\ flushed = Len(out) /\ received < written
  /\ received' = received + 1
  /\ LET text == sent[received + 1] IN
     \/ /\ text = "smt" /\ UNCHANGED <<out, answers>>
     \/ /\ text = "smt" /\ "reject" \in Faults
        /\ out' = out \o Halves("error")
        /\ UNCHANGED answers
     \/ /\ text = "check-sat"
        /\ \E v \in Verdicts :
             /\ out' = out \o Halves(v)
             /\ answers' = Append(answers, [at |-> received + 1, verdict |-> v])
     \/ /\ text = "get-model"
        /\ out' = out \o Halves("model")
        /\ UNCHANGED answers
  /\ UNCHANGED <<clientVars, sent, chanOpen, writerVars, prover, flushed, readVars>>

\* Printing waits for room in the pipe, and fails once its reader is gone.
ProverPrints ==
  /\ prover = "up" /\ flushed < Len(out)
  /\ IF pc = "ended"
       THEN prover' = "exited" /\ UNCHANGED flushed
       ELSE flushed - got < PipeCap /\ flushed' = flushed + 1 /\ UNCHANGED prover
  /\ UNCHANGED <<clientVars, sent, chanOpen, writerVars, received, out, answers, readVars>>

ProverSeesEof ==
  /\ prover = "up" /\ flushed = Len(out) /\ received = written /\ StdinClosed
  /\ prover' = "exited"
  /\ UNCHANGED <<clientVars, sent, chanOpen, writerVars, received, out, flushed, answers, readVars>>

ProverCrashes ==
  /\ prover = "up" /\ "crash" \in Faults
  /\ prover' = "crashed"
  /\ UNCHANGED <<clientVars, sent, chanOpen, writerVars, received, out, flushed, answers, readVars>>

-----------------------------------------------------------------------------
ClientStep ==
  WriteFindsDeadWriter \/ WriteFindsLiveWriter \/ Send \/ SendFails
    \/ ReadChunk \/ DrainChunk \/ DrainEof

WriterStep ==
  WriterStart \/ WriterRecv \/ WriterLog \/ WriterWrite \/ WriterDone

ProverStep == ProverReads \/ ProverPrints \/ ProverSeesEof

\* Nothing happens any more: the session is over and its processes are gone.
Over == pc = "ended" /\ prover # "up" /\ WriterFinished /\ UNCHANGED vars

Next ==
  \/ \E m \in Texts : Call(m)
  \/ Drop \/ ClientStep \/ SpinRead
  \/ WriterStep \/ WriterLogFails
  \/ ProverStep \/ ProverCrashes
  \/ Over

\* The operating system runs every runnable thread and process, and the solver
\* answers every query; when the client makes its next call is up to its caller.
Fairness == WF_vars(ClientStep) /\ WF_vars(WriterStep) /\ WF_vars(ProverStep)

Spec == Init /\ [][Next]_vars /\ Fairness
-----------------------------------------------------------------------------
(* Properties. *)

TypeOK ==
  /\ pc \in ClientStates /\ msg \in Texts /\ outcome \in Outcomes
  /\ verdicts \in Seq(Verdicts)
  /\ sent \in Seq(Texts) /\ chanOpen \in BOOLEAN
  /\ wpc \in WriterStates /\ taken \in Nat /\ logged \in Nat /\ written \in Nat
  /\ prover \in {"up", "exited", "crashed"} /\ received \in Nat
  /\ out \in Seq([txt : Verdicts \cup {"error", "model"}, end : BOOLEAN])
  /\ answers \in Seq([at : Nat, verdict : Verdicts])
  /\ flushed \in Nat /\ got \in Nat /\ used \in Nat

\* Whatever the solver has been given is already in the transcript, so that
\* replaying the transcript of a failed session repeats what the solver saw
\* (the transcript is flushed before stdin is written).
TranscriptCoversSolver == Transcripted => written <= logged

\* The k-th verdict check_sat returns is the answer the solver gave to the k-th
\* query, and every text written before that query had reached the solver when
\* it gave it: no verdict is taken from an earlier reply left in the buffer.
VerdictsAnswerTheirQueries ==
  /\ Len(verdicts) <= Len(answers)
  /\ \A k \in 1 .. Len(verdicts) :
       /\ verdicts[k] = answers[k].verdict
       /\ sent[answers[k].at] = "check-sat"
       /\ Cardinality({i \in 1 .. answers[k].at : sent[i] = "check-sat"}) = k

\* get_model returns only after the solver has worked through everything that
\* was written and printed its whole reply, unless the session broke down.
ModelIsComplete ==
  outcome = "model" /\ prover # "crashed" /\ wpc # "err" =>
    received = Len(sent) /\ used = Len(out)

\* check_sat returns a verdict, unless one of the processes has failed or the
\* solver has printed an error: the read loop has no other way to wait forever,
\* although both pipes are bounded and the client reads stdout only inside
\* check_sat.
ErrorPrinted == \E i \in 1 .. Len(out) : out[i].txt = "error"
CheckSatReturns ==
  pc = "checking" ~> pc = "idle" \/ prover = "crashed" \/ wpc = "err" \/ ErrorPrinted

\* What each process needs to go on: the guards of its steps.
ClientCanStep ==
  \/ pc = "writing" /\ wpc # "ok"
  \/ pc = "sending"
  \/ pc = "checking" /\ got < flushed /\ got - used < BufCap
  \/ pc \in {"modelling", "draining"} /\ (got < flushed \/ AtEof)
WriterCanStep ==
  \/ wpc \in {"start", "logging"}
  \/ wpc = "recv" /\ (taken < Len(sent) \/ ~chanOpen)
  \/ wpc = "writing" /\ (prover = "up" => written - received < PipeCap)
ProverCanStep ==
  /\ prover = "up"
  /\ IF flushed < Len(out) THEN pc = "ended" \/ flushed - got < PipeCap
                           ELSE received < written \/ StdinClosed

\* The three processes never wait for one another in a circle, whatever the
\* pipes hold: one of them can go on, unless it is the caller's turn, check_sat
\* reads on although no verdict can come any more (a process has failed or an
\* error was printed), or the session is over and its processes are gone.
NobodyIsStuck ==
  \/ ClientCanStep \/ WriterCanStep \/ ProverCanStep
  \/ pc = "idle"
  \/ pc = "checking" /\ (prover = "crashed" \/ wpc = "err" \/ ErrorPrinted)
  \/ pc = "ended" /\ prover # "up" /\ WriterFinished

\* The two loops that read the solver's stdout to its end return: get_model's,
\* because closing the channel lets the writer finish and close the solver's
\* stdin, and that of a failed write, because the dead writer has closed it.
ReadToEndReturns == pc \in {"draining", "modelling"} ~> pc = "ended"

\* No solver outlives its session: dropping the Communicator is enough.
NoOrphanSolver == pc = "ended" ~> prover # "up"

-----------------------------------------------------------------------------
(* The session as its callers see it. *)

ServicePhase ==
  IF pc = "checking" THEN "asked" ELSE IF pc \in {"modelling", "ended"} THEN pc ELSE "ready"

Service == INSTANCE ProverService WITH
  log <- sent,
  phase <- ServicePhase,
  results <- [k \in 1 .. Len(verdicts) |->
                [at |-> answers[k].at, verdict |-> verdicts[k]]]

\* The session implements the synchronous service of ProverService: in
\* particular a verdict always speaks about the whole log.
ImplementsService == Service!ServiceSpec
=============================================================================
