---------------------------- MODULE MCLoadProject ----------------------------
(* Directories for TLC: every subset of a few files, with names used twice,   *)
(* uses that are missing or do not fit, and files that cannot be read.        *)
EXTENDS LoadProject

Pkg(file, name, state) ==
  [file |-> file, name |-> name, packages |-> {}, games |-> {}, fits |-> {}, state |-> state]
Game(file, name, ps, fits) ==
  [file |-> file, name |-> name, packages |-> ps, games |-> {}, fits |-> fits,
   state |-> "good"]
Proof(file, name, gs, fits) ==
  [file |-> file, name |-> name, packages |-> {}, games |-> gs, fits |-> fits,
   state |-> "good"]

\* The first proof assigns a constant that only one of the games Real has; g3
\* needs an oracle that only one of the packages Prf has.
Universe ==
  [kind \in Kinds |->
     CASE kind = "package" ->
            {Pkg("p1", "Prf", "good"), Pkg("p2", "Prf", "good"), Pkg("p3", "Enc", "good"),
             Pkg("p4", "Bad", "malformed")}
       [] kind = "game" ->
            {Game("g1", "Real", {"Prf"}, {{"p1"}, {"p2"}}), Game("g2", "Real", {"Enc"}, {{"p3"}}),
             Game("g3", "Ideal", {"Prf", "Enc"}, {{"p1", "p3"}})}
       [] OTHER ->
            {Proof("r1", "Main", {"Real"}, {{"g1"}}),
             Proof("r2", "Main", {"Real", "Ideal"}, {{"g1", "g3"}, {"g2", "g3"}}),
             Pkg("r3", "Other", "hidden"), Pkg("r4", "Last", "unreadable")}]
=============================================================================
