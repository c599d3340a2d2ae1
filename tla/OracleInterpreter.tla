-------------------------- MODULE OracleInterpreter --------------------------
(***************************************************************************)
(* What an oracle's code means: an interpreter of it, as the reference for *)
(* the transformations and for the SMT term; and what a term means.        *)
(*                                                                         *)
(* Booleans stand for every type of values.  A Maybe is a set of at most   *)
(* one value, a table a function from indices to Maybes.                   *)
(***************************************************************************)
EXTENDS OracleSyntax, SequencesExt

CONSTANT Callee(_, _) \* what an invoked oracle does: [other, out], out a Maybe

\* The value of an expression, or nothing: unwrapping None aborts.
RECURSIVE Eval(_, _)
Eval(e, vars) ==
  CASE e.op = "var" -> {vars[e.name]}
    [] e.op = "lit" -> {e.name = Ident("true")}
    [] e.op = "none" -> {{}}
    [] e.op = "newtable" -> {[k \in BOOLEAN |-> {}]}
    [] e.op = "some" -> {{x} : x \in Eval(e.args[1], vars)}
    [] e.op = "unwrap" -> UNION Eval(e.args[1], vars)
    [] e.op = "get" -> {vars[e.name][i] : i \in Eval(e.args[1], vars)}
    [] e.op = "not" -> {~x : x \in Eval(e.args[1], vars)}
    [] e.op = "eq" -> {x = y : x \in Eval(e.args[1], vars), y \in Eval(e.args[2], vars)}
    [] e.op = "tuple" -> {<<x, y>> : x \in Eval(e.args[1], vars), y \in Eval(e.args[2], vars)}

RECURSIVE EvalAll(_, _)
EvalAll(es, vars) ==
  IF es = <<>> THEN {<<>>}
  ELSE {<<x>> \o rest : x \in Eval(Head(es), vars), rest \in EvalAll(Tail(es), vars)}

\* The n-th value drawn at a place of the text.
Draw(first, n) == first = (n % 2 = 0)

\* A state of the interpreter: the variables, the rest of the game's state, how
\* often each sample statement was executed, and how the code ended.
Start(vars, other, rand) ==
  [end |-> "next", vars |-> vars, other |-> other, rand |-> rand, value |-> <<>>]

Store(m, s, index, x) ==
  [m EXCEPT !.vars = (s.to[1] :> IF s.idx = <<>> THEN x ELSE [@[s.to[1]] EXCEPT ![index] = x]) @@ @]

RECURSIVE Run(_, _, _), Execute(_, _, _, _)
\* One statement, whose expressions have values.
Execute(s, values, m, draws) ==
  LET index == IF s.idx = <<>> THEN {} ELSE values[1]
      args == SubSeq(values, Len(s.idx) + 1, Len(values))
      Entry(x) == IF s.idx = <<>> THEN x ELSE {x}
  IN  CASE s.op = "assign" -> Store(m, s, index, args[1])
        [] s.op = "sample" ->
             [Store(m, s, index, Entry(Draw(draws[s.span], m.rand[s.span]))) EXCEPT !.rand[s.span] = @ + 1]
        [] s.op = "parse" ->
             [m EXCEPT !.vars = (s.to[1] :> args[1][1]) @@ (s.to[2] :> args[1][2]) @@ @]
        [] s.op = "invoke" /\ args = <<>> -> [m EXCEPT !.end = "stuck"]
        [] s.op = "invoke" /\ args # <<>> ->
             LET answer == Callee(m.other, args[1])
                 after == [m EXCEPT !.other = answer.other]
             IN  IF answer.out = {} THEN [after EXCEPT !.end = "abort"]
                 ELSE Store(after, s, index, Entry(CHOOSE x \in answer.out : TRUE))
        [] s.op = "ite" -> Run(IF args[1] THEN s.then ELSE s.else, m, draws)
        [] s.op = "return" -> [m EXCEPT !.end = "return", !.value = args]
        [] s.op = "abort" -> [m EXCEPT !.end = "abort"]

\* Code runs until it ends, aborts, or is stuck: it reads what was never assigned,
\* or invokes an oracle without the argument that every oracle here has.
Run(code, m, draws) ==
  IF code = <<>> \/ m.end # "next" THEN m
  ELSE LET s == Head(code)
           next == IF ~(Reads(s) \subseteq DOMAIN m.vars) THEN {[m EXCEPT !.end = "stuck"]}
                   ELSE {Execute(s, values, m, draws) : values \in EvalAll(ExprsOf(s), m.vars)}
       IN  IF next = {} THEN [m EXCEPT !.end = "abort"]
           ELSE Run(Tail(code), CHOOSE n \in next : TRUE, draws)

\* What the caller of the oracle sees of it: of an abort, only that it happened.
Seen(end, value, pkg, other, rand) ==
  IF end = "abort" THEN <<"abort">> ELSE <<"return", value, pkg, other, rand>>
SeenOfRun(m) == Seen(m.end, m.value, [x \in State |-> m.vars[x]], m.other, m.rand)

-----------------------------------------------------------------------------
\* The solver's value of a term.  The game state is [pkg, other, rand], what an
\* oracle returns [end, state, value].
RECURSIVE Value(_, _, _)
Value(t, vars, draws) ==
  LET a(i) == Value(t.args[i], vars, draws)
      rest == [i \in 1 .. Len(t.args) - 1 |-> a(i + 1)]
  IN  CASE t.op = "var" -> vars[t.name]
        [] t.op = "lit" -> t.name = Ident("true")
        [] t.op = "none" -> {}
        [] t.op = "newtable" -> [k \in BOOLEAN |-> {}]
        [] t.op = "some" -> {a(1)}
        [] t.op = "get" -> vars[t.name][a(1)]
        [] t.op = "not" -> ~a(1)
        [] t.op = "eq" -> a(1) = a(2)
        [] t.op = "tuple" -> <<a(1), a(2)>>
        [] t.op = "el" -> a(1)[t.num]
        [] t.op = "is-none" -> a(1) = {}
        [] t.op = "maybe-get" -> CHOOSE x \in a(1) : TRUE
        [] t.op = "store" -> [a(1) EXCEPT ![a(2)] = a(3)]
        [] t.op = "state" -> a(1).pkg[t.name]
        [] t.op = "rand" -> Draw(draws[t.name], a(1).rand[t.num])
        [] t.op = "drawn" -> [a(1) EXCEPT !.rand[t.num] = @ + 1]
        [] t.op = "write-back" -> [a(1) EXCEPT !.pkg = [x \in State |-> vars[x]]]
        [] t.op = "call" ->
             LET answer == Callee(a(1).other, rest[1])
             IN  [end |-> IF answer.out = {} THEN "abort" ELSE "return",
                  state |-> [a(1) EXCEPT !.other = answer.other], value |-> answer.out]
        [] t.op = "ret-aborted" -> a(1).end = "abort"
        [] t.op = "ret-state" -> a(1).state
        [] t.op = "ret-value" -> CHOOSE x \in a(1).value : TRUE
        [] t.op = "aborted" -> [end |-> "abort", state |-> a(1), value |-> <<>>]
        [] t.op = "returned" -> [end |-> "return", state |-> a(1), value |-> rest]
        [] t.op = "if" -> IF a(1) THEN a(2) ELSE a(3)
        [] t.op = "let" ->
             Value(Last(t.args), [x \in Range(t.to) |-> a(CHOOSE i \in DOMAIN t.to : t.to[i] = x)] @@ vars, draws)

SeenOfValue(v) == Seen(v.end, v.value, v.state.pkg, v.state.other, v.state.rand)
=============================================================================
