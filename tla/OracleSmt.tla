----------------------------- MODULE OracleSmt -----------------------------
(***************************************************************************)
(* The SMT term of an oracle's code: smt_codeblock_nonsplit of             *)
(* src/src/writers/smt/writer.rs, and what it calls.                       *)
(***************************************************************************)
EXTENDS OracleSyntax, SequencesExt

CONSTANT MaxTermDepth \* bound: terms inside one another

ASSUME TermDepthAssumption == MaxTermDepth \in Nat

GameState == Ident("<game-state>")
Ret == Ident("return")

\* A term is an expression of the language, or an operation of the solver.  name,
\* num, target: what the operation is of.  A let binds the identifiers of .to, at
\* once, in its last argument.
TermOperations ==
  {"panic", "let", "if", "write-back", "aborted", "returned", "store", "is-none", "maybe-get",
   "rand", "drawn", "el", "call", "ret-aborted", "ret-state", "ret-value", "state"}

TermsTo[n \in Nat] ==
  IF n = 0 THEN {}
  ELSE Exprs \cup [op : TermOperations, name : Idents, num : Int, target : Instances \cup {""},
                   to : Seq(Idents), args : Seq(TermsTo[n - 1])]
Terms == TermsTo[MaxTermDepth]

Term(op, args) ==
  [op |-> op, name |-> Ident(""), num |-> 0, target |-> "", to |-> <<>>, args |-> args]
Let(to, values, body) == [Term("let", Append(values, body)) EXCEPT !.to = to]
Ite(cond, then, else) == Term("if", <<cond, then, else>>)
OnRet(op) == Term(op, <<Var(Ret)>>)
Panic == Term("panic", <<>>)

\* What is assigned to "_" is not bound.
LetNamed(to, values, body) ==
  LET kept == SetToSeq({i \in DOMAIN to : to[i] # Ident("_")})
  IN  Let([i \in DOMAIN kept |-> to[kept[i]]], [i \in DOMAIN kept |-> values[kept[i]]], body)

-----------------------------------------------------------------------------
(* The writer. *)

\* smt_write_back_state: the game state with the package's state taken from the
\* local variables.
WriteBack == Term("write-back", <<Var(GameState)>>)
AbortWith(state) == Term("aborted", <<state>>)

WriteReturn(s) == Term("returned", <<WriteBack>> \o s.args)
WriteAbort == Let(<<GameState>>, <<WriteBack>>, AbortWith(Var(GameState)))

Stored(s, e) == IF s.idx = <<>> THEN e ELSE Term("store", <<Var(s.to[1]), s.idx[1], e>>)

WriteAssign(s, body) ==
  LET e == s.args[1]
      new == IF e.op = "unwrap" THEN Term("maybe-get", e.args) ELSE e
      let == Let(s.to, <<Stored(s, new)>>, body)
  IN  IF e.op = "unwrap" THEN Ite(Term("is-none", e.args), AbortWith(Var(GameState)), let) ELSE let

\* The value of the sample, and the state after its counter is advanced.
Rand(s) == [Term("rand", <<Var(GameState)>>) EXCEPT !.name = s.name, !.num = s.id]
Drawn(s) == [Term("drawn", <<Var(GameState)>>) EXCEPT !.num = s.id]

\* variant: the counter of the sample stays
WriteSampleOnly(s, body) == LetNamed(s.to, <<Stored(s, Rand(s))>>, body)
WriteSample(s, body) ==
  LetNamed(s.to, <<Stored(s, Rand(s))>>, Let(<<GameState>>, <<Drawn(s)>>, body))

Component(s, i) == [Term("el", s.args) EXCEPT !.num = i]
\* variant: the first component is skipped
WriteParseRest(s, body) ==
  LetNamed(Tail(s.to), [i \in DOMAIN Tail(s.to) |-> Component(s, i + 1)], body)
WriteParse(s, body) == LetNamed(s.to, [i \in DOMAIN s.to |-> Component(s, i)], body)

\* A failed invocation keeps the state it returned, but hands on that it failed
\* with the state of this package that was current before.
WriteInvoke(s, body) ==
  Stored(s,
    Let(<<Ret>>, <<[Term("call", <<Var(GameState)>> \o s.args) EXCEPT !.target = s.target]>>,
      Ite(OnRet("ret-aborted"),
          Let(<<GameState>>, <<OnRet("ret-state")>>, AbortWith(WriteBack)),
          LetNamed(<<GameState, s.to[1]>>, <<OnRet("ret-state"), OnRet("ret-value")>>, body))))

\* smt_codeblock_nonsplit: from the last statement to the first.
Write[block \in Code] ==
  IF block = <<>> THEN Panic
  ELSE LET s == Head(block)
           body == Write[Tail(block)]
       IN  CASE s.op = "ite" -> Ite(s.args[1], Write[s.then], Write[s.else])
             [] s.op = "return" -> WriteReturn(s)
             [] s.op = "abort" -> WriteAbort
             [] s.op = "assign" -> WriteAssign(s, body)
             [] s.op = "sample" -> WriteSample(s, body)
             [] s.op = "parse" -> WriteParse(s, body)
             [] s.op = "invoke" -> WriteInvoke(s, body)
             [] s.op = "for" -> Panic

\* smt_define_nonsplit_oracle_fn: the state of the package is read once, from
\* the game state the oracle is called with.
StateVariable(x) == [Term("state", <<Var(GameState)>>) EXCEPT !.name = x]
Define(block) ==
  LET state == SetToSeq(State)
  IN  Let(state, [i \in DOMAIN state |-> StateVariable(state[i])], Write[block])

-----------------------------------------------------------------------------
(* The identifiers a term does not bind itself, for which the solver needs     *)
(* constants.                                                                   *)

BoundIn(t, i) == IF i = Len(t.args) THEN Range(t.to) ELSE {}
StateRead(t) == IF t.op = "write-back" THEN State ELSE {}
Free[t \in Terms] ==
  IF t.op \in Operations THEN Names[<<t>>]
  ELSE StateRead(t) \cup UNION {Free[t.args[i]] \ BoundIn(t, i) : i \in DOMAIN t.args}
=============================================================================
