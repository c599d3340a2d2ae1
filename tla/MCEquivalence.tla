--------------------------- MODULE MCEquivalence ---------------------------
(* Instances of Equivalence for TLC. *)
EXTENDS Equivalence

Claim(n, ds) == [name |-> n, deps |-> ds]

Names == {"lemma", "aborts", "output", "invariant"}
ABC == <<"A", "B", "C">>
ABCSet == {"A", "B", "C"}
TwoWorlds == {"w1", "w2"}

\* Three oracles whose claims follow one another as in the example projects.
ThreeTrees ==
  [o \in ABCSet |->
     CASE o = "A" -> <<Claim("lemma", {}), Claim("output", {"lemma"}), Claim("aborts", {})>>
       [] o = "B" -> <<Claim("invariant", {}), Claim("aborts", {}), Claim("output", {"aborts"})>>
       [] OTHER -> <<Claim("aborts", {}), Claim("output", {"aborts"})>>]
ALast == <<"B", "C", "A">>

AllTrue == [o \in ABCSet |-> [n \in Names |-> TwoWorlds]]
\* output fails in one world, although the lemma before it holds.
OutputFails == [AllTrue EXCEPT !["A"]["output"] = {"w1"}]
\* Files of an oracle that is checked before the others.
FirstFiles == [o \in {"B"} |-> <<"f1", "f2">>]

InvariantName == {"invariant"}

\* A circle: each claim is assumed for the other.
CircularTrees ==
  [o \in {"A"} |-> <<Claim("output", {"aborts"}), Claim("aborts", {"output"})>>]
CircularTruth == [o \in {"A"} |-> [n \in Names |-> {"w1"}]]
OnlyA == <<"A">>
OnlyASet == {"A"}

\* E is proved.  The others fail in every way: A has a contradictory invariant
\* file, B assumes an invariant, C has a false claim behind one that follows from
\* it, and the right game lacks D, which has no tree either.
FaultyTrees ==
  [o \in ABCSet \cup {"E"} |->
     CASE o \in {"A", "E"} -> <<Claim("aborts", {})>>
       [] o = "B" -> <<Claim("invariant", {}), Claim("output", {"invariant"})>>
       [] OTHER -> <<Claim("output", {"lemma"}), Claim("lemma", {})>>]
FaultyTruth ==
  [o \in ABCSet \cup {"D", "E"} |->
     [n \in Names |-> IF o = "C" /\ n \in {"lemma", "output"} THEN {"w1"} ELSE TwoWorlds]]
Faulty == <<"A", "B", "C", "D", "E">>
RightSet == {"A", "B", "C", "E"}
NoFiles == <<>>
FaultyFiles == [o \in {"A"} |-> <<"f2">>]
AllFiles == {"f1", "f2"}
Second == {"f2"}
None == {}
=============================================================================
