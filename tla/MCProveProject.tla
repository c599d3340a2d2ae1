--------------------------- MODULE MCProveProject ---------------------------
(* A project for TLC: two proofs, with hops that share a name. *)
EXTENDS ProveProject

GameHop(kind, l, r, es, hs) ==
  [kind |-> kind, left |-> l, right |-> r, exports |-> es, holding |-> hs]

Keys == <<"P", "Q">>
Project ==
  [n \in {"P", "Q"} |->
     IF n = "P"
       THEN <<GameHop("conjecture", "G", "H", {}, {}),
              GameHop("equivalence", "G", "H", {"o1", "o2"}, {"o1", "o2"}),
              GameHop("reduction", "G", "H", {}, {})>>
       ELSE <<GameHop("equivalence", "G", "H", {"o1", "o3"}, {"o1"}),
              GameHop("equivalence", "H", "K", {"o2"}, {"o2"})>>]

OptProofs == {NoReq, "P", "Q", "R"}
OptSteps == {NoReq, 0, 1, 5}
OptOracles == {NoReq, "o1", "o9"}
OneOrTwo == {1, 2}
=============================================================================
