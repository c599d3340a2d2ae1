---------------------------- MODULE OracleSyntax ----------------------------
(***************************************************************************)
(* The code of an oracle (src/src/statement.rs, src/src/expressions.rs).   *)
(*                                                                         *)
(* Trees are built up to a depth, so that what is computed from a tree can *)
(* be a function on a set of trees.                                        *)
(***************************************************************************)
EXTENDS Integers, Sequences, FiniteSets, Functions

CONSTANTS
  Words,        \* the names in a text
  State,        \* the package's state variables
  Instances,    \* the names of package instances
  MaxExprDepth, \* bound: expressions inside one another
  MaxCodeDepth  \* bound: blocks inside one another, after treeify

ASSUME DepthAssumption == MaxExprDepth \in Nat \ {0} /\ MaxCodeDepth \in Nat \ {0}
ASSUME NameAssumption == "unwrap-" \notin Words /\ "" \notin Instances

\* An identifier of the text, and one that unwrapify makes: no text has one with
\* a hyphen.  Sample statements without a name are named by their number.  The
\* last two are the writer's.
Ident(x) == <<x, 0>>
Generated(n) == <<"unwrap-", n>>
Idents == (Words \cup {"", "unwrap-", "<game-state>", "return"}) \X Nat

ASSUME StateAssumption == State \subseteq Idents /\ IsFiniteSet(State)

-----------------------------------------------------------------------------
(* Expressions and statements. *)

Expr(op, name, args) == [op |-> op, name |-> name, args |-> args]
Var(x) == Expr("var", x, <<>>)
Unwrap(e) == Expr("unwrap", Ident(""), <<e>>)

Operations == {"var", "lit", "none", "newtable", "some", "unwrap", "get", "not", "eq", "tuple"}

ExprsTo[n \in Nat] ==
  IF n = 0 THEN {} ELSE [op : Operations, name : Idents, args : Seq(ExprsTo[n - 1])]
Exprs == ExprsTo[MaxExprDepth]

\* to: the identifiers assigned.  idx: the index of a table assignment, or
\* nothing.  args: the other expressions.  then, else: the blocks of a
\* conditional; a loop has the first only.  name: of a sample or of the invoked
\* oracle.  span: where the statement stands in the text.
Unnumbered == -1
Stmt(op, to, idx, args) ==
  [op |-> op, to |-> to, idx |-> idx, args |-> args, then |-> <<>>, else |-> <<>>,
   name |-> Ident(""), id |-> Unnumbered, target |-> "", span |-> 0]
Assign(x, idx, e) == Stmt("assign", <<x>>, idx, <<e>>)
Return(es) == Stmt("return", <<>>, <<>>, es)
Sample(x, idx, name) == [Stmt("sample", <<x>>, idx, <<>>) EXCEPT !.name = name]
Parse(xs, e) == Stmt("parse", xs, <<>>, <<e>>)
Invoke(x, idx, oracle, args) == [Stmt("invoke", <<x>>, idx, args) EXCEPT !.name = oracle]
Abort == Stmt("abort", <<>>, <<>>, <<>>)
IfThenElse(cond, then, else) ==
  [Stmt("ite", <<>>, <<>>, <<cond>>) EXCEPT !.then = then, !.else = else]
For(x, from, to, body) == [Stmt("for", <<x>>, <<>>, <<from, to>>) EXCEPT !.then = body]

Kinds == {"assign", "sample", "invoke", "parse", "return", "abort", "ite", "for"}

\* What the variants of Statement hold.
HasShape(s) ==
  /\ s.idx # <<>> => s.to # <<>>
  /\ s.op \in {"assign", "sample", "invoke"} => Len(s.to) = 1
  /\ s.op \in {"assign", "parse", "ite"} => Len(s.args) = 1
  /\ s.op \notin {"ite", "for"} => s.then = <<>> /\ s.else = <<>>

StmtsTo[n \in Nat] ==
  IF n = 0 THEN {}
  ELSE {s \in [op : Kinds, to : Seq(Idents), idx : Seq(Exprs), args : Seq(Exprs),
               then : Seq(StmtsTo[n - 1]), else : Seq(StmtsTo[n - 1]),
               name : Idents, id : Int, target : Instances \cup {""}, span : Nat] : HasShape(s)}
Code == Seq(StmtsTo[MaxCodeDepth])

\* The expressions of a statement.
ExprsOf(s) == s.idx \o s.args

\* The identifiers that expressions, or those of a statement, read.
Names[exprs \in Seq(Exprs)] ==
  UNION {(IF e.op \in {"var", "get"} THEN {e.name} ELSE {}) \cup Names[e.args] : e \in Range(exprs)}
Reads(s) == Names[ExprsOf(s)] \cup (IF s.idx = <<>> THEN {} ELSE {s.to[1]})

\* The statements of a block, at any depth.
StatementsOf[block \in Code] ==
  UNION {{s} \cup StatementsOf[s.then] \cup StatementsOf[s.else] : s \in Range(block)}

HasKind(block, op) == \E s \in StatementsOf[block] : s.op = op

\* The sample statements, in the order of the text.
SamplesOf[block \in Code] ==
  IF block = <<>> THEN <<>>
  ELSE LET s == Head(block)
       IN  (IF s.op = "sample" THEN <<s>> ELSE SamplesOf[s.then] \o SamplesOf[s.else])
             \o SamplesOf[Tail(block)]
=============================================================================
