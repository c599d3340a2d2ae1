--------------------------- MODULE MCDeclarations ---------------------------
(***************************************************************************)
(* Proofs of one equivalence between two small games, for Declarations.    *)
(*                                                                         *)
(* The proof has the integers n and k.  A side is made from the name of    *)
(* its package's constant (n or k), that of its game's constant (n or m),  *)
(* and what this is assigned: n, k, or a number, which the game itself may *)
(* assign instead.  The right game may share the left one's package, or be *)
(* the same game, instantiated differently.                                *)
(***************************************************************************)
EXTENDS Declarations

Sig(name, args, ret) == [name |-> name, args |-> args, ret |-> ret]
Oracle(name, args, ret, code) == [name |-> name, args |-> args, ret |-> ret, code |-> code]
Package(name, params, state, imports, oracles) ==
  [name |-> name, params |-> params, state |-> state, imports |-> imports, oracles |-> oracles]

Shapes == {"draw", "store", "keep", "twice", "apply", "call", "called"}
NoCalls == [o \in {} |-> 0]
Entry(inst, pkg, assign) == [inst |-> inst, pkg |-> pkg, assign |-> assign, calls |-> NoCalls]
Drawing(name, c, oracle) ==
  Package(name, <<<<c, Integer>>>>, <<>>, <<>>,
    <<Oracle(oracle, <<>>, Bits(PkgConst(c)),
             <<Sample("y", Bits(PkgConst(c))), Return(Var("y", Bits(PkgConst(c))))>>)>>)

Keeping(name, c) ==
  LET t == Bits(PkgConst(c))
  IN  Package(name, <<<<c, Integer>>>>, <<<<"x", MaybeOf(t)>>, <<"z", TableOf(Integer, t)>>>>, <<>>,
        <<Oracle("O", <<>>, Integer, <<Sample("y", Integer), Return(Var("y", Integer))>>)>>)

\* The packages of a game of some shape, for a package of a name with a constant c
\* that is assigned v, and an argument's name.
Packages(shape, name, c, v, arg) ==
  LET t == Bits(PkgConst(c))
      own == <<<<c, Integer>>>>
      a == Var(arg, t)
  IN  CASE shape = "draw" -> <<Entry("p", Drawing(name, c, "O"), c :> v)>>
        [] shape = "store" ->
             <<Entry("p", Package(name, own, <<<<"x", t>>>>, <<>>,
                 <<Oracle("O", <<<<arg, t>>>>, t, <<Assign("x", a), Return(Var("x", t))>>)>>), c :> v)>>
        [] shape = "keep" -> <<Entry("p", Keeping(name, c), c :> v)>>
        [] shape = "twice" -> <<Entry("p", Keeping(name, c), c :> v),
                                Entry("r", Keeping(name, c), c :> GameConst("h"))>>
        [] shape = "apply" ->
             <<Entry("p", Package(name, Append(own, <<"f", FnFrom(t, t)>>), <<>>, <<>>,
                 <<Oracle("O", <<<<arg, t>>>>, t, <<Return(FnCall(PkgConst("f"), a, t))>>)>>),
                 c :> v @@ "f" :> GameConst("f"))>>
        [] shape \in {"call", "called"} ->
             LET caller(q) == [Entry("p", Package(name, own, <<>>, <<Sig("Get", <<>>, t)>>,
                       <<Oracle("O", <<>>, t, <<Invoke("y", "Get", <<>>, t), Return(Var("y", t))>>)>>), c :> v)
                     EXCEPT !.calls = "Get" :> q]
                 get == Entry("q", Drawing("Q", c, "Get"), c :> v)
             IN  IF shape = "call" THEN <<get, caller(1)>> ELSE <<caller(2), get>>

\* A side of a proof: 7 is assigned in the proof and 8 in the game.
Values == {ProofConst("n"), ProofConst("k"), Literal("7"), Literal("8")}
MCSide(name, game, pkg, a) ==
  LET inGame == a.v = Literal("8")
      consts == (IF inGame THEN <<>> ELSE <<<<a.g, Integer>>>>)
                  \o (IF a.shape = "twice" THEN <<<<"h", Integer>>>> ELSE <<>>)
                  \o (IF a.shape = "apply" THEN <<<<"f", FnFrom(Bits(GameConst(a.g)), Bits(GameConst(a.g)))>>>>
                      ELSE <<>>)
      pkgs == Packages(a.shape, pkg, a.c, IF inGame THEN a.v ELSE GameConst(a.g), a.arg)
  IN  [name |-> name,
       game |-> [name |-> game, consts |-> consts, pkgs |-> pkgs,
                 exports |-> [e \in 1..a.exports |->
                                <<CHOOSE i \in DOMAIN pkgs : pkgs[i].inst = "p", "O">>]],
       assign |-> [x \in ToSet([i \in DOMAIN consts |-> consts[i][1]]) |->
                     CASE x = "f" -> ProofConst("f") [] x = "h" -> ProofConst("k") [] OTHER -> a.v]]

SideChoices(shapes, args, exports) ==
  [shape : shapes, c : {"n", "k"}, g : {"n", "m"}, v : Values, arg : args, exports : exports]

MCProof(l, r, sharing) ==
  [consts |-> <<<<"n", Integer>>, <<"k", Integer>>>>
                \o (IF l.shape = "apply" THEN <<<<"f", FnFrom(Bits(l.v), Bits(l.v))>>>> ELSE <<>>),
   sides |-> <<MCSide("left", "L", "P", l),
               MCSide("right", IF sharing = "game" THEN "L" ELSE "R",
                      IF sharing = "none" THEN "P2" ELSE "P", r)>>]

\* Two sides that export the same, or what is an oracle too few, an oracle twice or
\* an argument of another name away from it.
Paired(l, r, sharing) ==
  /\ \/ l.shape = r.shape
     \/ {l.shape, r.shape} \subseteq {"draw", "call", "called"} /\ sharing = "none"
  /\ sharing = "package" => l.c = r.c
  /\ sharing = "game" => [l EXCEPT !.v = r.v] = r /\ (l.v = Literal("8") <=> r.v = Literal("8"))
  /\ l.shape = "apply" => l.v = r.v /\ l.v.lvl = "proof"
Agreeing ==
  {<<l, r, sharing>> \in SideChoices(Shapes, {"a"}, {1}) \X SideChoices(Shapes, {"a"}, {1}) \X {"none", "package", "game"} :
     Paired(l, r, sharing)}
Disagreeing ==
  {<<l, r, "none">> :
     <<l, r>> \in {p \in SideChoices({"draw", "store"}, {"a"}, 0..2) \X SideChoices({"draw", "store"}, {"a", "b"}, 0..2) :
                    Paired(p[1], p[2], "none") /\ p[1].v = ProofConst("n") /\ p[1].v = p[2].v}}
MCProofs == {MCProof(p[1], p[2], p[3]) : p \in Agreeing \union Disagreeing}
=============================================================================
