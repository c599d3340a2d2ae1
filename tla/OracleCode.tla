----------------------------- MODULE OracleCode -----------------------------
(***************************************************************************)
(* The life of one oracle: handle_oracle_def of src/src/parser/package.rs  *)
(* reads and type-checks its code statement by statement, and then         *)
(* transform_game_inst of src/src/transforms/proof_transforms.rs rewrites  *)
(* it step by step until the SMT writer can write it as a term.            *)
(*                                                                         *)
(* The texts that are read are all those made of the given statements, up  *)
(* to a size; each statement is a step of the parser.  What the parser     *)
(* makes of an expression is a parameter.                                  *)
(***************************************************************************)
EXTENDS OracleTransforms, OracleSmt

CONSTANTS
  Texts,         \* the simple statements a text is made of
  Conditions,    \* the conditions of conditionals and assertions
  LoopBounds,    \* the bounds of loops
  LoopVars,      \* the variables of loops
  Params,        \* [name |-> type]: constants, state and arguments
  TypeIn(_, _, _), \* handle_expression: an expression's type or nothing, given
                   \* the types expected of it and the names in scope
  ReturnTypes,   \* what the oracle may return
  MaxStatements, \* bound: statements of a text
  MaxNesting     \* bound: blocks inside one another

ASSUME TextAssumption ==
  /\ Texts \subseteq StmtsTo[1]
  /\ Conditions \cup LoopBounds \subseteq Exprs /\ LoopVars \cup DOMAIN Params \subseteq Idents
  /\ \A o \in DOMAIN Wires : Wires[o] \in Instances
  /\ MaxNesting \in Nat /\ MaxNesting + 3 <= MaxCodeDepth

VARIABLES
  phase,   \* how far the oracle is
  returns, \* the type of its signature
  frames,  \* the open blocks, the innermost last
  scope,   \* the tables of the scope, the innermost last
  size,    \* the statements read
  source,  \* the code as it was parsed
  code,    \* the code after the last transformation
  samples  \* the names of the sample statements, by number

vars == <<phase, returns, frames, scope, size, source, code, samples>>

-----------------------------------------------------------------------------
(* Types and scopes. *)

Type(kind, of) == [kind |-> kind, of |-> of]
Bool == Type("Bool", <<>>)
Integer == Type("Integer", <<>>)
Empty == Type("Empty", <<>>)
Unknown == Type("Unknown", <<>>)
Maybe(t) == Type("Maybe", <<t>>)
Table(i, v) == Type("Table", <<i, v>>)
Tuple(s, t) == Type("Tuple", <<s, t>>)

\* Scope::lookup: the identifiers in scope and their types.
Visible(tables) == FoldLeft(LAMBDA outer, inner : inner @@ outer, <<>>, tables)

\* handle_identifier_in_code_lhs: a new name is declared in the innermost
\* table, another must have the type of what is assigned to it.  The scope that
\* results, or nothing.
Declare(tables, x, t) ==
  IF x \notin DOMAIN Visible(tables) THEN {[tables EXCEPT ![Len(tables)] = (x :> t) @@ @]}
  ELSE IF Visible(tables)[x] = t THEN {tables}
  ELSE {}
DeclareAll(tables, to, types) ==
  FoldLeft(LAMBDA acc, i : UNION {Declare(t, to[i], types[i]) : t \in acc},
           {tables}, [i \in DOMAIN to |-> i])

-----------------------------------------------------------------------------
(* The parser. *)

\* A block that is being read.  op: what it belongs to.  blocks: the blocks of
\* that before it.  atStart: what was in scope when the block began.
Frame(op, to, args, blocks, tables) ==
  [op |-> op, to |-> to, args |-> args, blocks |-> blocks, code |-> <<>>,
   atStart |-> Visible(tables)]

Open == frames[Len(frames)]
TypeNow(e, expected) == TypeIn(e, expected, Visible(scope))

Added(fs, s) == [fs EXCEPT ![Len(fs)].code = Append(@, s)]

Room == phase = "parse" /\ size < MaxStatements
Nestable == Room /\ Len(frames) <= MaxNesting

\* handle_code returns an error or panics: so does the load of the project.
Stop(why) == phase' = why /\ UNCHANGED <<returns, frames, scope, size, source, code, samples>>

\* A statement that assigns to s.to is read.  types: those of what is assigned,
\* nothing if an expression was refused.
AddStatement(s, types) ==
  LET scopes == UNION {DeclareAll(scope, s.to, ts) : ts \in types}
  IN  IF scopes = {} THEN Stop("error")
      ELSE /\ scope' \in scopes
           /\ frames' = Added(frames, [s EXCEPT !.span = size + 1])
           /\ size' = size + 1
           /\ UNCHANGED <<phase, returns, source, code, samples>>

Of(op, indices) == {s \in Texts : s.op = op /\ Len(s.idx) = indices}

ReadAssign ==
  /\ Room
  /\ \E s \in Of("assign", 0) :
       LET known == Visible(scope)
           expected == {known[x] : x \in {s.to[1]} \cap DOMAIN known}
       IN  AddStatement(s, {<<t>> : t \in TypeNow(s.args[1], expected)})

\* The index and the value of a table assignment have the types of the table's.
TableTypes(s) ==
  LET known == Visible(scope)
      tables == {t \in {known[x] : x \in {s.to[1]} \cap DOMAIN known} : t.kind = "Table"}
  IN  {<<Table(i, v.of[1])>> : i \in UNION {TypeNow(s.idx[1], {t.of[1]}) : t \in tables},
                               v \in UNION {TypeNow(s.args[1], {Maybe(t.of[2])}) : t \in tables}}

ReadTableAssign == Room /\ \E s \in Of("assign", 1) : AddStatement(s, TableTypes(s))

ReadSample == Room /\ \E s \in Of("sample", 0) : AddStatement(s, {<<Bool>>})

\* The index is read in the scope that was current when the block began.
ReadTableSample ==
  /\ Room
  /\ \E s \in Of("sample", 1) :
       AddStatement(s, {<<Table(i, Bool)>> : i \in TypeIn(s.idx[1], {}, Open.atStart)})

\* The arguments of an invocation are those of the signature.  They are looked at
\* only if there are some: x <- invoke O() is read whatever O takes.
ResultTypes(s) ==
  LET Typed(sig) ==
        s.args # <<>> => /\ Len(sig.args) = Len(s.args)
                         /\ \A i \in DOMAIN s.args : TypeNow(s.args[i], {sig.args[i]}) # {}
      results == {sig.type : sig \in {u \in {Oracles[o] : o \in {s.name} \cap DOMAIN Oracles} : Typed(u)}}
  IN  {<<t>> : t \in IF s.idx = <<>> THEN results
                      ELSE {Table(i, r) : i \in TypeNow(s.idx[1], {}), r \in results}}

ReadInvoke == Room /\ \E s \in Of("invoke", 0) \cup Of("invoke", 1) : AddStatement(s, ResultTypes(s))

\* What is parsed must be a tuple of enough components, or the parser panics.
ReadParse ==
  /\ Room
  /\ \E s \in Of("parse", 0) :
       LET types == TypeNow(s.args[1], {})
       IN  IF \E t \in types : t.kind # "Tuple" THEN Stop("panic")
           ELSE AddStatement(s, {t.of : t \in types})

\* A return without a value is read whatever the oracle returns.
ReadReturn ==
  /\ Room
  /\ \E s \in Of("return", 0) :
       AddStatement(s, {<<>> : ok \in {i \in {1} : \A e \in Range(s.args) : TypeNow(e, {returns}) # {}}})

ReadAbort == Room /\ AddStatement(Abort, {<<>>})

ReadAssert ==
  /\ Room
  /\ \E c \in Conditions :
       AddStatement(IfThenElse(c, <<>>, <<Abort>>), {<<>> : t \in TypeNow(c, {Bool})})

\* A conditional begins; its branches do not open a scope.
OpenIf ==
  /\ Nestable
  /\ \E c \in Conditions :
       IF TypeNow(c, {Bool}) = {} THEN Stop("error")
       ELSE /\ frames' = Append(frames, Frame("then", <<>>, <<c>>, <<>>, scope))
            /\ size' = size + 1
            /\ UNCHANGED <<phase, returns, scope, source, code, samples>>

OpenElse ==
  /\ phase = "parse" /\ Open.op = "then"
  /\ frames' = [frames EXCEPT ![Len(frames)] = Frame("else", <<>>, @.args, <<@.code>>, scope)]
  /\ UNCHANGED <<phase, returns, scope, size, source, code, samples>>

CloseIf ==
  /\ phase = "parse" /\ Open.op \in {"then", "else"}
  /\ LET blocks == Append(Open.blocks, Open.code)
     IN  frames' = Added(Front(frames), IfThenElse(Open.args[1], blocks[1], IF Len(blocks) = 2 THEN blocks[2] ELSE <<>>))
  /\ UNCHANGED <<phase, returns, scope, size, source, code, samples>>

\* A loop opens a scope for its variable, which must be new.
OpenFor ==
  /\ Nestable
  /\ \E x \in LoopVars, from \in LoopBounds, to \in LoopBounds :
       IF \E e \in {from, to} : TypeNow(e, {Integer}) = {} THEN Stop("error")
       ELSE IF x \in DOMAIN Visible(scope) THEN Stop("panic")
       ELSE /\ scope' = Append(scope, x :> Integer)
            /\ frames' = Append(frames, Frame("for", <<x>>, <<from, to>>, <<>>, scope'))
            /\ size' = size + 1
            /\ UNCHANGED <<phase, returns, source, code, samples>>

CloseFor ==
  /\ phase = "parse" /\ Open.op = "for"
  /\ frames' = Added(Front(frames), For(Open.to[1], Open.args[1], Open.args[2], Open.code))
  /\ scope' = Front(scope)
  /\ UNCHANGED <<phase, returns, size, source, code, samples>>

\* The scope is left; the properties still look at it.
EndOracle ==
  /\ phase = "parse" /\ Len(frames) = 1
  /\ phase' = "parsed" /\ source' = Open.code /\ code' = Open.code /\ frames' = <<>>
  /\ UNCHANGED <<returns, scope, size, samples>>

-----------------------------------------------------------------------------
(* transform_game_inst. *)

Step(from, to, new) ==
  /\ phase = from /\ phase' = to /\ code' = new
  /\ UNCHANGED <<returns, frames, scope, size, source, samples>>

Samplified == Samplify[<<source, [ctr |-> 0, positions |-> <<>>]>>]
SamplifyCode ==
  /\ phase = "parsed" /\ phase' = "samplified"
  /\ code' = Samplified.code /\ samples' = Samplified.counters.positions
  /\ UNCHANGED <<returns, frames, scope, size, source>>

UnwrapifyCode == Step("samplified", "unwrapified", Unwrapify[<<code, 1>>].code)

ResolveCode ==
  LET r == Resolve[code]
  IN  IF phase = "unwrapified" /\ ~r.ok THEN Stop("panic")
      ELSE Step("unwrapified", "resolved", r.code)

ReturnifyCode ==
  LET r == Returnify[<<code, returns = Empty>>]
  IN  IF phase = "resolved" /\ ~r.ok THEN Stop("panic")
      ELSE Step("resolved", "returnified", r.code)

\* Copies make the code deeper.
TreeifyCode ==
  LET new == Treeify[<<code, Len(code)>>]
  IN  new \in Code /\ Step("returnified", "treeified", new)

InitTablesCode == Step("treeified", "ready", InitTables[<<code, {}>>])

\* smt_codeblock_nonsplit.
WriteCode == phase = "ready" /\ Stop(IF Unwritable[code] THEN "panic" ELSE "written")

-----------------------------------------------------------------------------
Init ==
  /\ phase = "parse" /\ returns \in ReturnTypes
  /\ scope = <<Params, <<>>>>
  /\ frames = <<Frame("oracle", <<>>, <<>>, <<>>, scope)>>
  /\ size = 0 /\ source = <<>> /\ code = <<>> /\ samples = <<>>

Next ==
  \/ ReadAssign \/ ReadTableAssign \/ ReadSample \/ ReadTableSample \/ ReadInvoke \/ ReadParse
  \/ ReadReturn \/ ReadAbort \/ ReadAssert
  \/ OpenIf \/ OpenElse \/ CloseIf \/ OpenFor \/ CloseFor \/ EndOracle
  \/ SamplifyCode \/ UnwrapifyCode \/ ResolveCode \/ ReturnifyCode \/ TreeifyCode \/ InitTablesCode
  \/ WriteCode

Spec == Init /\ [][Next]_vars

-----------------------------------------------------------------------------
(* Properties. *)

Transformed == {"samplified", "unwrapified", "resolved", "returnified", "treeified", "ready"}

\* The places of the sample statements of the text, in its order.
Places == [i \in DOMAIN SamplesOf[source] |-> SamplesOf[source][i].span]

\* Two kinds of text that the parser accepts are beyond the writer, which panics
\* on them: those with a loop, and those that invoke an oracle with arguments as
\* if it had none.
Supported(block) == \A s \in StatementsOf[block] : s.op # "for" /\ InFull(s)

\* Nothing else makes the writer panic.  What the parser accepted and returnify
\* let pass has an end on every path, a target for every invocation and no fewer
\* arguments than in the text, a number for every sample and no unwrap inside an
\* expression, so that none of the panics of smt_codeblock_nonsplit and
\* smt_build_invoke is reached.
WriterNeverPanics == phase = "ready" /\ Supported(source) => ~Unwritable[code]

\* The copies of a sample statement that treeify makes share one number, and
\* no two statements of the text do (the comment in transform_game_inst, lines
\* 44 to 49: one counter whichever branch was taken).
OneCounterPerSample ==
  phase \in Transformed =>
    /\ Len(samples) = Len(Places)
    /\ \A s \in StatementsOf[code] : s.op = "sample" => s.id + 1 \in DOMAIN Places /\ Places[s.id + 1] = s.span

\* Which identifiers are assigned on every path so far, and whether the code read
\* none but those.  ended: no path goes on.  What a path that ended assigned does
\* not matter; nothing is assigned to "_".
Flows == [ok : BOOLEAN, ended : BOOLEAN, names : SUBSET Idents]
Join(then, else) ==
  [ok |-> then.ok /\ else.ok, ended |-> then.ended /\ else.ended,
   names |-> IF then.ended THEN else.names
             ELSE IF else.ended THEN then.names ELSE then.names \cap else.names]

Reading(s, a) == [a EXCEPT !.ok = @ /\ Reads(s) \subseteq a.names]
Assigning(s, a) ==
  [a EXCEPT !.ended = s.op \in {"return", "abort"}, !.names = @ \cup (Range(s.to) \ {Ident("_")})]

Flow[in \in Code \X Flows] ==
  LET block == in[1]
      before == in[2]
  IN  IF block = <<>> \/ before.ended THEN before
      ELSE LET s == Head(block)
               read == Reading(s, before)
               after == IF s.op = "ite" THEN Join(Flow[<<s.then, read>>], Flow[<<s.else, read>>])
                        ELSE Assigning(s, read)
           IN  Flow[<<Tail(block), after>>]

AtStart == [ok |-> TRUE, ended |-> FALSE, names |-> DOMAIN Params]

\* If a text reads only what it has assigned, its term has no free identifier
\* but the game state and the oracle's parameters: none of the solver's "unknown
\* constant" errors.
TermIsClosed ==
  phase = "written" /\ Define(code) \in Terms /\ Flow[<<source, AtStart>>].ok =>
    Free[Define(code)] \subseteq {GameState} \cup (DOMAIN Params \ State)
=============================================================================
