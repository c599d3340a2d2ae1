---------------------------- MODULE MCOracleCode ----------------------------
(* Instances of OracleCode for TLC. *)
EXTENDS OracleMeaning

PackageState == {Ident("s"), Ident("T")}
MCParams ==
  Ident("n") :> Integer @@ Ident("s") :> Bool @@ Ident("T") :> Table(Bool, Bool) @@ Ident("a") :> Maybe(Bool)

\* The other package flips its state; it aborts when it is asked for TRUE twice.
MCCallee(other, arg) == [other |-> arg, out |-> IF other /\ arg THEN {} ELSE {other}]
MCOracles == Ident("O") :> [args |-> <<Bool>>, type |-> Bool] @@ Ident("P") :> [args |-> <<Bool>>, type |-> Bool]
MCWires == Ident("O") :> "other"

a == Unwrap(Var(Ident("a")))
x == Var(Ident("x"))
s == Var(Ident("s"))
Entry(i) == Unwrap(Expr("get", Ident("T"), <<i>>))

MCTexts ==
  { Assign(Ident("x"), <<>>, a),
    Assign(Ident("s"), <<>>, Expr("eq", Ident(""), <<x, Entry(s)>>)),
    Assign(Ident("T"), <<a>>, Expr("some", Ident(""), <<Entry(s)>>)),
    Sample(Ident("x"), <<>>, Ident("")), Sample(Ident("T"), <<x>>, Ident("key")),
    Invoke(Ident("x"), <<>>, Ident("O"), <<s>>), Invoke(Ident("x"), <<>>, Ident("O"), <<>>),
    Invoke(Ident("T"), <<s>>, Ident("P"), <<s>>),
    Parse(<<Ident("x"), Ident("_")>>, Expr("tuple", Ident(""), <<a, Expr("not", Ident(""), <<s>>)>>)), Parse(<<Ident("x"), Ident("_")>>, s),
    Return(<<>>), Return(<<x>>) }

MCConditions == {Expr("eq", Ident(""), <<Var(Ident("a")), Expr("none", Ident(""), <<>>)>>)}
MCBounds == {Expr("lit", Ident("1"), <<>>)}
MCReturnTypes == {Bool, Empty}
MCLoopVars == {Ident("i")}

\* The table has an entry for FALSE only.
MCInputs ==
  {[state |-> Ident("s") :> b @@ Ident("T") :> [k \in BOOLEAN |-> IF k THEN {} ELSE {TRUE}],
    args |-> Ident("a") :> m @@ Ident("n") :> 2, other |-> b] : b \in BOOLEAN, m \in {{}, {TRUE}, {FALSE}}}
=============================================================================
