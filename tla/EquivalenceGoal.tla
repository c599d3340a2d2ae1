--------------------------- MODULE EquivalenceGoal ---------------------------
(***************************************************************************)
(* What checking an equivalence promises: each requested oracle is settled *)
(* on its own, in any order; an oracle is called proved only if it holds;  *)
(* and the answer is ok only when every requested oracle is proved.        *)
(***************************************************************************)
CONSTANTS
  Oracles,  \* the requested oracles
  Holding   \* those on which the two games agree

VARIABLES
  status,   \* [Oracles -> {"open", "proved", "failed"}]
  answer    \* "none", "ok", "err" or "panic"

goalVars == <<status, answer>>

GoalInit == status = [o \in Oracles |-> "open"] /\ answer = "none"

Prove(o) ==
  /\ answer = "none" /\ status[o] = "open" /\ o \in Holding
  /\ status' = [status EXCEPT ![o] = "proved"]
  /\ UNCHANGED answer

\* A failure settles an oracle whether or not it holds: the solver may give up.
GiveUp(o) ==
  /\ answer = "none" /\ status[o] = "open"
  /\ status' = [status EXCEPT ![o] = "failed"]
  /\ UNCHANGED answer

AnswerOk ==
  /\ answer = "none" /\ \A o \in Oracles : status[o] = "proved"
  /\ answer' = "ok" /\ UNCHANGED status

AnswerErr ==
  /\ answer = "none"
  /\ Oracles = {} \/ \E o \in Oracles : status[o] = "failed"
  /\ answer' = "err" /\ UNCHANGED status

AnswerPanic == answer = "none" /\ answer' = "panic" /\ UNCHANGED status

GoalNext ==
  \/ \E o \in Oracles : Prove(o) \/ GiveUp(o)
  \/ AnswerOk \/ AnswerErr \/ AnswerPanic

GoalSpec == GoalInit /\ [][GoalNext]_goalVars
=============================================================================
