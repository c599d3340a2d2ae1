---------------------------- MODULE OracleMeaning ----------------------------
(***************************************************************************)
(* What is said of an oracle's code by running it: its text, the code that *)
(* transform_game_inst makes of it, and the SMT term.  With them,          *)
(* handle_expression of src/src/parser/package.rs, which types an          *)
(* expression, and the declarative rules it is to agree with.              *)
(***************************************************************************)
EXTENDS OracleCode, OracleInterpreter

\* The last check of handle_expression: any Maybe will do where a Maybe of
\* something yet unknown is expected.
\* variant: every type will do
AcceptsAny(t, expected) == TRUE
Accepts(t, expected) ==
  \A e \in expected : t = e \/ (e = Maybe(Unknown) /\ t.kind = "Maybe")

\* handle_expression: the type of an expression, or nothing if it is refused.
\* expected: the type expected of it, or nothing; known: the names in scope.
RECURSIVE HandleExpression(_, _, _)
HandleExpression(e, expected, known) ==
  LET Sub(i, exp) == HandleExpression(e.args[i], exp, known)
      Inside(kind) == {t.of : t \in {u \in expected : u.kind = kind}}
      Part(i, ofs) == {of[i] : of \in ofs} \ {Unknown}
      ident == {known[x] : x \in {e.name} \cap DOMAIN known}
      got ==
        CASE e.op = "var" -> ident
          [] e.op = "lit" -> {IF e.name \in {Ident("true"), Ident("false")} THEN Bool ELSE Integer}
          [] e.op = "none" -> {Maybe(t) : t \in Part(1, Inside("Maybe"))}
          [] e.op = "some" ->
               {Maybe(t) : t \in IF expected # {} /\ Inside("Maybe") = {} THEN {}
                                 ELSE Sub(1, Part(1, Inside("Maybe")))}
          [] e.op = "unwrap" ->
               {t.of[1] : t \in Sub(1, IF expected = {} THEN {Maybe(Unknown)} ELSE {Maybe(t) : t \in expected})}
          [] e.op = "get" ->
               {Maybe(t.of[2]) : t \in {u \in ident : u.kind = "Table" /\ Sub(1, {u.of[1]}) # {}}}
          [] e.op = "not" -> Sub(1, {Bool})
          [] e.op = "eq" -> {Bool : t \in {u \in Sub(1, {}) : Sub(2, {u}) # {}}}
          [] e.op = "tuple" ->
               IF expected # {} /\ Inside("Tuple") = {} THEN {}
               ELSE {Tuple(s, t) : s \in Sub(1, {of[1] : of \in Inside("Tuple")}),
                                   t \in Sub(2, {of[2] : of \in Inside("Tuple")})}
  IN  {t \in got : Accepts(t, expected)}

CONSTANT Inputs \* [state, args, other]: what an oracle may be called with

Draws == [Range(Places) -> BOOLEAN]

RunOn(block, in, draws) ==
  Run(block, Start(in.state @@ in.args, in.other, [p \in Range(Places) |-> 0]), draws)

\* No transformation changes what an oracle does: as long as it reads no
\* identifier that was never assigned and gives the oracles it invokes their
\* arguments, its code after each of them (numbered,
\* unwrapped, resolved, returnified, treeified) returns the same value and
\* state, draws the same random values at the same places, and aborts in the
\* same cases as the text.
PassesKeepMeaning ==
  phase \in Transformed /\ ~HasKind(source, "for") =>
    \A in \in Inputs, draws \in Draws :
      LET text == RunOn(source, in, draws)
      IN  text.end # "stuck" => SeenOfRun(RunOn(code, in, draws)) = SeenOfRun(text)

EntriesAssigned(op) == \E s \in StatementsOf[source] : s.op = op /\ s.idx # <<>>

\* The term the solver gets is the oracle: it returns the value and the game
\* state (this package's state, the others', the sample counters) that the text
\* computes, and aborts when it does.  Not said of texts that sample or invoke
\* into a table entry, for which the writer's term has no sort, and of texts
\* whose samples share a name on purpose.
TermMeansCode ==
  phase = "written" /\ ~EntriesAssigned("sample") /\ ~EntriesAssigned("invoke")
    /\ Cardinality(Range(samples)) = Len(samples) =>
    \A in \in Inputs, draws \in Draws :
      LET text == RunOn(source, in, draws)
          ids == 0 .. Len(samples) - 1
          state == [pkg |-> in.state, other |-> in.other, rand |-> [i \in ids |-> 0]]
          named == [n \in Range(samples) |-> draws[Places[CHOOSE i \in DOMAIN samples : samples[i] = n]]]
      IN  text.end # "stuck" =>
            SeenOfValue(Value(Define(code), (GameState :> state) @@ in.args, named))
              = SeenOfRun([text EXCEPT !.rand = [i \in ids |-> text.rand[Places[i + 1]]]])

\* The declarative rules of the types: t is a type of e.
RECURSIVE HasType(_, _, _)
HasType(e, t, known) ==
  LET Sub(i, u) == HasType(e.args[i], u, known)
      ident == known[e.name]
      Types == LET base == Range(known) \cup {Bool} IN base \cup {Maybe(u) : u \in base}
  IN  CASE e.op = "var" -> ident = t
        [] e.op = "lit" -> t = IF e.name \in {Ident("true"), Ident("false")} THEN Bool ELSE Integer
        [] e.op = "none" -> t.kind = "Maybe"
        [] e.op = "some" -> t.kind = "Maybe" /\ Sub(1, t.of[1])
        [] e.op = "unwrap" -> Sub(1, Maybe(t))
        [] e.op = "get" -> ident.kind = "Table" /\ Sub(1, ident.of[1]) /\ t = Maybe(ident.of[2])
        [] e.op = "not" -> t = Bool /\ Sub(1, Bool)
        [] e.op = "eq" -> t = Bool /\ \E u \in Types : Sub(1, u) /\ Sub(2, u)
        [] e.op = "tuple" -> t.kind = "Tuple" /\ Sub(1, t.of[1]) /\ Sub(2, t.of[2])

RECURSIVE WellTyped(_, _)
WellTyped(block, known) ==
  \A i \in DOMAIN block :
    LET s == block[i]
        Has(e, t) == HasType(e, t, known)
        entry == IF s.idx = <<>> THEN known[s.to[1]] ELSE known[s.to[1]].of[2]
    IN  /\ s.idx # <<>> => known[s.to[1]].kind = "Table" /\ Has(s.idx[1], known[s.to[1]].of[1])
        /\ CASE s.op = "assign" -> Has(s.args[1], IF s.idx = <<>> THEN entry ELSE Maybe(entry))
              [] s.op = "sample" -> entry = Bool
              [] s.op = "invoke" ->
                   /\ entry = Oracles[s.name].type
                   /\ Len(s.args) = Len(Oracles[s.name].args)
                   /\ \A j \in DOMAIN s.args : Has(s.args[j], Oracles[s.name].args[j])
              [] s.op = "parse" -> Has(s.args[1], Tuple(known[s.to[1]], known[s.to[2]]))
              [] s.op = "return" -> s.args = <<>> \/ Has(s.args[1], returns)
              [] s.op = "ite" -> Has(s.args[1], Bool) /\ WellTyped(s.then, known) /\ WellTyped(s.else, known)
              [] s.op = "abort" -> TRUE

\* A type with nothing in it left to infer.
RECURSIVE Inferred(_)
Inferred(t) == t # Unknown /\ \A i \in DOMAIN t.of : Inferred(t.of[i])

\* The parser infers types on the way (of None and of what is unwrapped) and
\* declares identifiers as they are assigned, in whichever branch comes first:
\* what it accepts is well-typed for the types it has ended with.  Not said of
\* texts with a loop or with an invocation that leaves its arguments out, which
\* the parser accepts and the writer panics on, nor of texts with an identifier of
\* unknown type, as in x <- Unwrap(Unwrap(None)), which the parser accepts, and after
\* it Some(x) == Some(y) for any y.
AcceptedCodeIsWellTyped ==
  LET known == Visible(scope)
  IN  phase = "parsed" /\ Supported(source) /\ (\A x \in DOMAIN known : Inferred(known[x])) =>
        WellTyped(source, known)
=============================================================================
