----------------------------- MODULE MCProofFile -----------------------------
(* Instances of ProofFile for TLC. *)
EXTENDS ProofFile, TLC

\* Real and Ideal are the sides of an assumption and use two boxes; a user of
\* them is reached from Top through one or two instances of Mid.
MCImports ==
  [p \in {"Real", "Ideal", "Box", "Mid", "Top", "Loop"} |->
     CASE p \in {"Real", "Ideal"} -> <<"Get", "Log">>
       [] p = "Mid" -> <<"Eval">> [] p = "Top" -> <<"Go", "Do">>
       [] p = "Loop" -> <<"Go">> [] OTHER -> <<>>]
Apart == [o \in {"Get", "Log", "Eval", "Go", "Do", "Run"} |-> o]

Pkg(name, pkg, ps) == [name |-> name, pkg |-> pkg, params |-> ps]
Edge(f, t, o) == [from |-> f, to |-> t, oracle |-> o]
To(t, o) == [to |-> t, oracle |-> o]
N == [n \in {"n"} |-> "Integer"]

Side(pkg) ==
  [consts |-> N, pkgs |-> <<Pkg("prf", pkg, <<"n">>), Pkg("a", "Box", <<>>), Pkg("b", "Box", <<>>)>>,
   edges |-> <<Edge(1, 2, "Get"), Edge(1, 3, "Log")>>, exports |-> <<To(1, "Eval"), To(1, "Do")>>]
\* go, do: where Top's imports lead; get, log: where those of prf do; par:
\* the parameter of the second Mid; x: the second Mid's target; ys: more exports.
Game(pkg, go, do, par, x, get, log, ys) ==
  [consts |-> N,
   pkgs |-> <<Pkg("top", "Top", <<>>), Pkg("mid1", "Mid", <<"n">>), Pkg("mid2", "Mid", <<par>>),
              Pkg("prf", pkg, <<"n">>), Pkg("a", "Box", <<>>), Pkg("b", "Box", <<>>)>>,
   edges |-> <<Edge(1, go, "Go"), Edge(1, do, "Do"), Edge(2, 4, "Eval"), Edge(3, x, "Eval"),
               Edge(4, get, "Get"), Edge(4, log, "Log")>>,
   exports |-> <<To(1, "Run")>> \o ys]
Circle(pkg) ==
  [consts |-> N, pkgs |-> <<Pkg("loop", "Loop", <<>>), Pkg("prf", pkg, <<"n">>),
                            Pkg("a", "Box", <<>>), Pkg("b", "Box", <<>>)>>,
   edges |-> <<Edge(1, 1, "Go"), Edge(2, 3, "Get"), Edge(2, 4, "Log")>>,
   exports |-> <<To(1, "Run")>>]
\* Nothing is shared.
Flat(pkg) ==
  [consts |-> N,
   pkgs |-> <<Pkg("c", "Box", <<>>), Pkg("d", "Box", <<>>), Pkg("loop", "Loop", <<>>),
              Pkg("e", "Box", <<>>), Pkg("prf", pkg, <<"n">>), Pkg("a", "Box", <<>>), Pkg("b", "Box", <<>>)>>,
   edges |-> <<Edge(3, 4, "Go"), Edge(5, 6, "Get"), Edge(5, 7, "Log")>>,
   exports |-> <<To(1, "Run"), To(2, "Go"), To(3, "Do"), To(5, "Eval")>>]
\* No instance uses the constant.
Free == [consts |-> N, pkgs |-> <<Pkg("a", "Box", <<>>)>>, edges |-> <<>>,
         exports |-> <<To(1, "Run")>>]
\* Top's Go is wired twice.
Twice(pkg) == [Game(pkg, 2, 2, "n", 4, 5, 6, <<>>) EXCEPT !.edges = <<Edge(1, 3, "Go")>> \o @]

\* The games with one side of the assumption.  In the last one the adversary may
\* call an instance of the assumption that the assumption does not export.
GamesWith(pkg) ==
  <<Game(pkg, 2, 2, "n", 4, 5, 6, <<>>), Game(pkg, 2, 3, "n", 4, 5, 6, <<>>),
    Game(pkg, 3, 2, "n", 4, 5, 6, <<>>), Game(pkg, 2, 3, "8", 4, 5, 6, <<>>),
    Game(pkg, 2, 5, "n", 4, 5, 6, <<>>), Game(pkg, 2, 3, "n", 4, 6, 5, <<>>),
    Game(pkg, 2, 3, "n", 5, 5, 6, <<>>), Game(pkg, 2, 3, "n", 4, 5, 1, <<>>),
    Game(pkg, 2, 3, "n", 4, 5, 5, <<>>), Game(pkg, 2, 3, "n", 4, 5, 6, <<To(4, "Eval")>>),
    Game(pkg, 2, 4, "n", 4, 5, 6, <<>>), Circle(pkg), Twice(pkg),
    Game(pkg, 2, 3, "n", 4, 5, 6, <<To(2, "Run")>>), Flat(pkg),
    Game(pkg, 2, 3, "n", 4, 5, 6, <<To(5, "Get")>>)>>
Kinds == 1 .. 16
GameName(pkg, i) == pkg \o ToString(i)
MCGames ==
  [n \in {"Real", "Ideal", "Free"} \cup {GameName(p, i) : p \in {"Real", "Ideal"}, i \in Kinds} |->
     IF n \in {"Real", "Ideal"} THEN Side(n) ELSE IF n = "Free" THEN Free
     ELSE LET g == CHOOSE g \in {"Real", "Ideal"} \X Kinds : GameName(g[1], g[2]) = n
          IN  GamesWith(g[1])[g[2]]]

-----------------------------------------------------------------------------
Const(n, t) == [kind |-> "const", name |-> n, type |-> t]
Arg(n, v) == [name |-> n, value |-> v]
Instances(n, g, bs) == [kind |-> "instance", name |-> n, game |-> g, params |-> bs]
Instance(n, g, ps) == Instances(n, g, <<ps>>)
Assume(n, l, r) == [kind |-> "assumption", name |-> n, left |-> l, right |-> r]
Hop(k, l, r) == [kind |-> k, left |-> l, right |-> r]
Map(a, c, es) == [assumption |-> a, construction |-> c, entries |-> es]
Reduce(l, r, a, m, n) ==
  [kind |-> "reduction", left |-> l, right |-> r, assumption |-> a, map1 |-> m, map2 |-> n]

All == <<<<"prf", "prf">>, <<"a", "a">>, <<"b", "b">>>>
Consts == <<Const("p", "Integer"), Const("q", "Integer"), Const("f", "Fn")>>
Both ==
  <<Instance("R", "Real", <<Arg("n", "p")>>), Instance("I", "Ideal", <<Arg("n", "p")>>)>>
Insts(l, r, v) ==
  Both \o
  <<Instance("L", GameName("Real", l), <<Arg("n", "p")>>),
    Instance("M", GameName("Ideal", r), <<Arg("n", v)>>)>>
Prf == <<Assume("Prf", "R", "I")>>
MapL == Map("R", "L", All)
MapM == Map("I", "M", All)
Plainly == Reduce("L", "M", "Prf", MapL, MapM)
File(l, r, v, hop) == Consts \o Insts(l, r, v) \o Prf \o <<hop>>

\* Any two of the games; the second mapping may come first.
GameTexts ==
  {File(l, r, "p", h) : l \in Kinds, r \in Kinds,
                        h \in {Plainly, Reduce("L", "M", "Prf", MapM, MapL)}}
One == 2
Two == 2
\* One pair of games, and mappings good and bad.
Entries ==
  {All, Tail(All), <<<<"prf", "prf">>, <<"a", "b">>, <<"b", "a">>>>, All \o <<<<"a", "mid1">>>>,
   <<<<"prf", "prf">>, <<"a", "a">>, <<"b", "a">>>>, <<<<"prf", "top">>, <<"a", "a">>, <<"b", "b">>>>,
   All \o <<<<"z", "z">>>>, All \o <<<<"mid1", "mid1">>>>}
MapTexts ==
  {File(One, Two, "p", Reduce(l, r, a, Map(x, c, es), Map(y, d, All))) :
     l \in {"L"}, r \in {"M", "R"}, a \in {"Prf"}, x \in {"R", "I", "L"}, c \in {"L", "M", "I"},
     y \in {"R", "I", "Z"}, d \in {"L", "M"}, es \in Entries}
\* Parameters, declarations and other hops.
Params ==
  {<<Arg("n", v)>> : v \in {"p", "q", "8", "1+1", "f", "z"}} \cup
  {<<>>, <<Arg("n", "p"), Arg("n", "p")>>, <<Arg("z", "p")>>, <<Arg("n", "z"), Arg("n", "1+1")>>}
Blocks == {<<>>} \cup {<<ps>> : ps \in Params} \cup {<<<<Arg("n", "p")>>, ps>> : ps \in Params}
ParamTexts ==
  {Consts \o <<Instances("R", g, bs)>> \o
     <<Hop(k, "R", r)>> : g \in {"Real", "Free", "None"}, bs \in Blocks,
                          k \in {"conjecture", "equivalence"}, r \in {"R", "Z"}} \cup
  {cs \o Insts(One, Two, v) \o as \o <<Plainly, Hop("equivalence", "L", "M"), Plainly>> :
     cs \in {Consts, Consts \o <<Const("p", "Fn")>>}, v \in {"p", "q"},
     as \in {Prf, Prf \o Prf, <<Assume("Prf", "R", "Z")>>, <<Assume("Prf", "I", "R")>>,
             <<Assume("Prf", "R", "R")>> \o Prf}} \cup
  {Consts \o Insts(One, Two, "p") \o <<Instance("L", GameName("Ideal", Two), <<Arg("n", "p")>>)>> \o
     Prf \o <<Plainly>>} \cup
  {Consts \o Both \o <<Instances("L", "Free", bl), Instances("M", "Free", bs)>> \o Prf \o
     <<Hop("equivalence", "L", "M"),
       Reduce("L", "M", "Prf", Map("R", "L", es), Map("I", "M", es))>> :
     bl \in {<<>>, <<<<Arg("n", "p")>>>>}, bs \in {<<>>, <<<<Arg("n", "q")>>>>}, es \in {<<>>, All}}
Unnamed == {File(One, Two, "p", Reduce(l, "M", a, MapL, m)) :
              l \in {"L", "M"}, a \in {"Prf", "None"}, m \in {MapL, MapM}}
MCTexts == Unnamed \cup GameTexts \cup MapTexts \cup ParamTexts
Eight == {"8"}
Sum == {"1+1"}
=============================================================================
