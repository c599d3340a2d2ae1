--------------------------- MODULE PackageParser ----------------------------
(***************************************************************************)
(* From the tree of a package file to the package                          *)
(* (src/src/parser/package.rs): which names its blocks declare, in which   *)
(* order, and what every type, expression and statement refers to.         *)
(*                                                                         *)
(* A type, an identifier and an expression are terms.  An error is the     *)
(* term Fail("error"), a panic Fail("panic"); their wording is left out.   *)
(***************************************************************************)
EXTENDS SspGrammar

Term(op, of, args) == [op |-> op, of |-> of, args |-> args]
Fail(how) == Term("fail", <<how>>, <<>>)
Failed(term) == term.op = "fail"
Failures(terms) == SelectSeq(terms, Failed)
\* A term of terms, or the first of them that failed.
Build(op, of, args) == IF Failures(args) = <<>> THEN Term(op, of, args) ELSE Head(Failures(args))

Name(node) == node.text[1]

-----------------------------------------------------------------------------
(* Types, identifiers, scopes. *)

Integer == Term("Integer", <<>>, <<>>)
Boolean == Term("Boolean", <<>>, <<>>)
Empty == Term("Empty", <<>>, <<>>)
Unknown == Term("Unknown", <<>>, <<>>)
MaybeOf(type) == Term("Maybe", <<>>, <<type>>)
TableOf(index, value) == Term("Table", <<>>, <<index, value>>)
\* No type is expected.
Anything == Term("any", <<>>, <<>>)

\* kind: State, Const, OracleArg, Local, CodeLoopVar, ImportsLoopVar.  An imported
\* oracle is declared among the identifiers.
Ident(kind, name, oracle, type, bounds) == Term(kind, <<name, oracle>>, <<type>> \o bounds)
TypeOfIdent(ident) == ident.args[1]
OracleDecl(sig) == Term("Oracle", <<sig.name>>, <<sig.type>> \o [i \in DOMAIN sig.args |-> sig.args[i][2]])

Enter(scope) == Append(scope, <<>>)
Leave(scope) == Front(scope)
Lookup(scope, name) ==
  LET tables == {i \in DOMAIN scope : name \in DOMAIN scope[i]}
  IN  IF tables = {} THEN <<>>
      ELSE <<scope[CHOOSE i \in tables : \A j \in tables : j <= i][name]>>
\* The tower is searched as a whole: nothing is shadowed.
Declared(scope, name) == Lookup(scope, name) # <<>>
Declare(scope, name, decl) == [scope EXCEPT ![Len(scope)] = (name :> decl) @@ @]

\* An identifier that code reads.
HandleRhs(ctx, name) ==
  LET found == Lookup(ctx.scope, name)
  IN  IF found = <<>> \/ found[1].op = "Oracle" THEN Fail("error") ELSE found[1]

HandleCountspec(ctx, node) ==
  CASE node.inside = <<>> -> Term("CountAny", <<>>, <<>>)
    [] node.inside[1].rule = "num" -> Term("CountLiteral", <<Name(node)>>, <<>>)
    [] OTHER -> HandleRhs(ctx, Name(node))

RECURSIVE HandleType(_, _)
HandleType(ctx, type) ==
  LET in == type.inside
      Each(nodes) == [i \in DOMAIN nodes |-> HandleType(ctx, nodes[i])]
  IN  CASE type.rule = "type_empty" -> Empty
        [] type.rule = "type_bool" -> Boolean
        [] type.rule = "type_integer" -> Integer
        [] type.rule = "type_string" -> Term("String", <<>>, <<>>)
        [] type.rule = "type_bits" -> Build("Bits", <<>>, <<HandleCountspec(ctx, in[1])>>)
        [] type.rule = "type_maybe" -> Build("Maybe", <<>>, Each(in))
        [] type.rule = "type_tuple" -> Build("Tuple", <<>>, Each(in))
        [] type.rule = "type_table" -> Build("Table", <<>>, Each(in))
        [] type.rule = "type_fn" ->
             Build("Fn", <<>>, [i \in DOMAIN in[1].inside |-> HandleType(ctx, in[1].inside[i].inside[1])]
                                 \o <<HandleType(ctx, in[2])>>)
        [] type.rule = "type_userdefined" ->
             IF Contains(ctx.types, Name(type)) THEN Term("UserDefined", <<Name(type)>>, <<>>)
             ELSE Fail("error")
        [] type.rule = "type_list" -> Fail("panic")

-----------------------------------------------------------------------------
(* Expressions. *)

RECURSIVE GetType(_)
GetType(expr) ==
  CASE expr.op \in {"Identifier", "EmptyTable"} -> IF Failed(expr.args[1]) THEN expr.args[1] ELSE
         (IF expr.op = "Identifier" THEN TypeOfIdent(expr.args[1]) ELSE expr.args[1])
    [] expr.op = "IntegerLiteral" -> Integer
    [] expr.op \in {"BooleanLiteral", "Not", "Equals", "And", "Or", "Xor"} -> Boolean
    [] expr.op = "TableAccess" -> MaybeOf(TypeOfIdent(expr.args[1]).args[2])
    [] expr.op = "FnCall" -> Last(TypeOfIdent(expr.args[1]).args)
    [] expr.op = "Tuple" -> Build("Tuple", <<>>, [i \in DOMAIN expr.args |-> GetType(expr.args[i])])
    [] expr.op \in {"List", "Set"} ->
         IF expr.args = <<>> THEN Fail("panic") ELSE Build(expr.op, <<>>, <<GetType(expr.args[1])>>)
    [] expr.op = "None" -> MaybeOf(expr.args[1])
    [] expr.op = "Some" -> Build("Maybe", <<>>, <<GetType(expr.args[1])>>)
    [] expr.op = "Unwrap" ->
         LET of == GetType(expr.args[1]) IN IF of.op = "Maybe" THEN of.args[1] ELSE Fail("panic")
    [] expr.op \in {"Add", "Sub", "Mul", "Div"} -> GetType(expr.args[1])
    [] OTHER -> expr

IsMaybe(type) == type.op = "Maybe"
Wanted(want) == want # Anything

\* What is expected of the whole expression, checked at the end.
CheckType(expr, want) ==
  IF Failed(expr) \/ ~Wanted(want) THEN expr
  ELSE LET got == GetType(expr)
       IN  IF Failed(got) THEN got
           ELSE IF want = got \/ (want = MaybeOf(Unknown) /\ IsMaybe(got)) THEN expr
           ELSE Fail("error")

BinaryOp == [expr_sub |-> "Sub", expr_mul |-> "Mul", expr_div |-> "Div"]
LogicalOp == [expr_and |-> "And", expr_or |-> "Or", expr_xor |-> "Xor", expr_not |-> "Not"]

\* What to expect of the inside of Some; anything that is not a Maybe is refused.
InsideMaybe(want) ==
  CASE ~Wanted(want) -> Anything
    [] ~IsMaybe(want) -> Fail("error")
    [] OTHER -> IF want.args[1] = Unknown THEN Anything ELSE want.args[1]

HandleUntypedNone(want) ==
  IF ~Wanted(want) \/ ~IsMaybe(want) \/ want = MaybeOf(Unknown) THEN Fail("error")
  ELSE Term("None", <<>>, want.args)

RECURSIVE HandleExpression(_, _, _)
HandleArithmetic(ctx, in, want) ==
  LET lhs == HandleExpression(ctx, in[1], want)
  IN  IF Wanted(want) /\ want # Integer THEN Fail("error")
      ELSE IF Failed(lhs) THEN lhs
      ELSE IF GetType(lhs) # Integer THEN Fail("error")
      ELSE Build("Add", <<>>, <<lhs, HandleExpression(ctx, in[2], Integer)>>)

\* All the others have the type of the first.
HandleEquals(ctx, in) ==
  LET first == HandleExpression(ctx, in[1], Anything)
      rest == [i \in 1..(Len(in) - 1) |-> HandleExpression(ctx, in[i + 1], GetType(first))]
  IN  IF Failed(first) THEN first
      ELSE IF Failed(GetType(first)) THEN GetType(first)
      ELSE Build("Equals", <<>>, <<first>> \o rest)

HandleTableAccess(ctx, in, want) ==
  LET ident == HandleRhs(ctx, Name(in[1]))
      type == TypeOfIdent(ident)
      index == HandleExpression(ctx, in[2], type.args[1])
  IN  IF Failed(ident) THEN ident
      ELSE IF type.op # "Table" THEN Fail("error")
      ELSE IF Failed(index) THEN index
      ELSE IF Wanted(want) /\ want \notin {MaybeOf(Unknown), MaybeOf(type.args[2])} THEN Fail("error")
      ELSE Term("TableAccess", <<>>, <<ident, index>>)

HandleFnCall(ctx, in, want) ==
  LET ident == HandleRhs(ctx, Name(in[1]))
      type == TypeOfIdent(ident)
      args == IF Len(in) = 1 THEN <<>> ELSE in[2].inside
  IN  IF Failed(ident) THEN ident
      ELSE IF type.op # "Fn" \/ (Wanted(want) /\ want # Last(type.args))
              \/ Len(type.args) # Len(args) + 1
        THEN Fail("error")
      ELSE Build("FnCall", <<>>,
                 <<ident>> \o [i \in DOMAIN args |-> HandleExpression(ctx, args[i], type.args[i])])

\* An oracle's name as an expression is a todo!().
HandleName(ctx, name) ==
  LET found == Lookup(ctx.scope, name)
  IN  IF found = <<>> THEN Fail("error")
      ELSE IF found[1].op = "Oracle" THEN Fail("panic")
      ELSE Term("Identifier", <<>>, found)

HandleTuple(ctx, in, want) ==
  LET fits == Wanted(want) /\ want.op = "Tuple" /\ Len(want.args) = Len(in)
      parts == [i \in DOMAIN in |-> HandleExpression(ctx, in[i], IF fits THEN want.args[i] ELSE Anything)]
      tuple == Build("Tuple", <<>>, parts)
  IN  IF Wanted(want) /\ ~fits /\ ~Failed(tuple)
      THEN (IF Failed(GetType(tuple)) THEN GetType(tuple) ELSE Fail("error"))
      ELSE tuple

\* The parts of an expression, all of the same type.
Each(ctx, in, want) == [i \in DOMAIN in |-> HandleExpression(ctx, in[i], want)]
HandleSome(ctx, in, inside) ==
  IF Failed(inside) THEN Fail("error") ELSE Build("Some", <<>>, Each(ctx, in, inside))

ExpressionOf(ctx, node, in, want) ==
  CASE node.rule = "expr_add" -> HandleArithmetic(ctx, in, want)
    [] node.rule \in DOMAIN BinaryOp -> Build(BinaryOp[node.rule], <<>>, Each(ctx, in, want))
    [] node.rule \in DOMAIN LogicalOp -> Build(LogicalOp[node.rule], <<>>, Each(ctx, in, Boolean))
    [] node.rule = "expr_equals" -> HandleEquals(ctx, in)
    [] node.rule = "expr_not_equals" -> Build("Not", <<>>, <<HandleEquals(ctx, in)>>)
    [] node.rule = "expr_none" -> Build("None", <<>>, <<HandleType(ctx, in[1])>>)
    [] node.rule = "expr_untyped_none" -> HandleUntypedNone(want)
    [] node.rule = "expr_some" -> HandleSome(ctx, in, InsideMaybe(want))
    [] node.rule = "expr_unwrap" ->
         Build("Unwrap", <<>>, Each(ctx, in, MaybeOf(IF Wanted(want) THEN want ELSE Unknown)))
    [] node.rule = "expr_newtable" ->
         Build("EmptyTable", <<>>,
               <<Build("Table", <<>>, <<HandleType(ctx, in[1]), HandleType(ctx, in[2])>>)>>)
    [] node.rule = "table_access" -> HandleTableAccess(ctx, in, want)
    [] node.rule = "fn_call" -> HandleFnCall(ctx, in, want)
    [] node.rule = "identifier" -> HandleName(ctx, Name(node))
    [] node.rule = "literal_boolean" -> Term("BooleanLiteral", node.text, <<>>)
    [] node.rule = "literal_integer" -> Term("IntegerLiteral", node.text, <<>>)
    [] node.rule = "literal_emptyset" -> Term("Set", <<>>, <<>>)
    [] node.rule = "expr_list" -> Build("List", <<>>, Each(ctx, in, Anything))
    [] node.rule = "expr_set" -> Build("Set", <<>>, Each(ctx, in, Anything))
    [] node.rule = "expr_tuple" -> HandleTuple(ctx, in, want)

HandleExpression(ctx, node, want) == CheckType(ExpressionOf(ctx, node, node.inside, want), want)

-----------------------------------------------------------------------------
(* Code.  Handling a statement changes the scope: the context goes from    *)
(* one to the next, with the failure that ended the parse, if one did.     *)

Stmt(op, to, args, blocks, name) ==
  [op |-> op, to |-> to, args |-> args, blocks |-> blocks, name |-> name]

Stopped(ctx) == ctx.failed # <<>>
Stop(ctx, failure) == [ctx EXCEPT !.failed = <<failure>>]
Result(ctx, stmt) == [ctx |-> ctx, code |-> stmt]
\* A statement of these terms, or the first of them that failed.
Finish(ctx, terms, stmt) ==
  IF Stopped(ctx) THEN Result(ctx, <<>>)
  ELSE IF Failures(terms) # <<>> THEN Result(Stop(ctx, Head(Failures(terms))), <<>>)
  ELSE Result(ctx, <<stmt>>)

\* An identifier that code assigns: known, of the same type, or new in the innermost scope.
HandleLhs(ctx, name, oracle, type) ==
  LET found == Lookup(ctx.scope, name)
      new == Ident("Local", name, oracle, type, <<>>)
  IN  IF Stopped(ctx) \/ Failed(type) THEN [ctx |-> ctx, ident |-> type]
      ELSE IF found = <<>> THEN [ctx |-> [ctx EXCEPT !.scope = Declare(@, name, new)], ident |-> new]
      ELSE IF found[1].op = "Oracle" \/ TypeOfIdent(found[1]) # type
      THEN [ctx |-> ctx, ident |-> Fail("error")]
      ELSE [ctx |-> ctx, ident |-> found[1]]

\* The type of an assigned entry: of a table with that index.
EntryOf(index, value) == Build("Table", <<>>, <<GetType(index), value>>)

\* A statement that assigns to an identifier.
Assigned(lhs, terms, op, args, name) ==
  Finish(lhs.ctx, terms \o <<lhs.ident>>, Stmt(op, <<lhs.ident>>, args, <<>>, name))

SampleOf(ctx, in, sig, type) ==
  Assigned(HandleLhs(ctx, Name(in[1]), sig.name, type), <<type>>, "sample", <<type>>,
           IF Len(in) = 3 THEN in[3].text ELSE <<>>)
HandleSample(ctx, before, in, sig) == SampleOf(ctx, in, sig, HandleType(before, in[2]))

\* Index and type are read in the scope the block began with.
TableSampleOf(ctx, in, sig, index, type) ==
  Assigned(HandleLhs(ctx, Name(in[1]), sig.name, IF Failed(type) THEN type ELSE EntryOf(index, type)),
           <<index, type>>, "sample", <<index, type>>, IF Len(in) = 4 THEN in[4].text ELSE <<>>)
HandleTableSample(ctx, before, in, sig) ==
  TableSampleOf(ctx, in, sig, HandleExpression(before, in[2], Anything), HandleType(before, in[3]))

AssignOf(ctx, in, sig, expr) ==
  Assigned(HandleLhs(ctx, Name(in[1]), sig.name, GetType(expr)), <<expr>>, "assign", <<expr>>, <<>>)
HandleAssign(ctx, in, sig) ==
  LET known == Lookup(ctx.scope, Name(in[1]))
      want == IF known = <<>> \/ known[1].op = "Oracle" THEN Anything ELSE TypeOfIdent(known[1])
  IN  AssignOf(ctx, in, sig, HandleExpression(ctx, in[2], want))

TableAssignOf(ctx, in, sig, index, expr) ==
  IF Failed(index) \/ Failed(expr) THEN Finish(ctx, <<index, expr>>, <<>>)
  ELSE Assigned(HandleLhs(ctx, Name(in[1]), sig.name, EntryOf(index, GetType(expr).args[1])),
                <<>>, "assign", <<index, expr>>, <<>>)
HandleTableAssign(ctx, in, sig) ==
  LET known == Lookup(ctx.scope, Name(in[1]))
      type == TypeOfIdent(known[1])
  IN  IF known = <<>> \/ known[1].op = "Oracle" \/ type.op # "Table"
      THEN Result(Stop(ctx, Fail("error")), <<>>)
      ELSE TableAssignOf(ctx, in, sig, HandleExpression(ctx, in[2], type.args[1]),
                         HandleExpression(ctx, in[3], MaybeOf(type.args[2])))

PartsOf(call, rule) == SelectSeq(Tail(call), LAMBDA n : n.rule = rule)
\* decl: the declaration of the oracle, index: of the assigned table, args: instance and arguments.
InvokeOf(ctx, in, call, decl, index, args) ==
  IF Failures(args) # <<>> THEN Finish(ctx, args, <<>>)
  ELSE Assigned(HandleLhs(ctx, Name(in[1]), Name(call[1]),
                          IF index # <<>> THEN EntryOf(index[1], decl.args[1]) ELSE decl.args[1]),
                <<>>, "invoke", index \o args, call[1].text)
\* Without a list of arguments their number is not checked.
InvokeOracle(ctx, in, call, found, index) ==
  LET given == FlattenSeq([i \in DOMAIN PartsOf(call, "fn_call_arglist") |->
                             PartsOf(call, "fn_call_arglist")[i].inside])
      instance == PartsOf(call, "oracle_call_index")
  IN  IF Failures(index) # <<>> \/ found = <<>> \/ found[1].op # "Oracle"
          \/ (given # <<>> /\ Len(given) # Len(Tail(found[1].args)))
      THEN Finish(ctx, index \o <<Fail("error")>>, <<>>)
      ELSE InvokeOf(ctx, in, call, found[1], index,
             [i \in DOMAIN instance |-> HandleExpression(ctx, instance[i].inside[1], Integer)]
               \o [i \in DOMAIN given |-> HandleExpression(ctx, given[i], found[1].args[i + 1])])
HandleInvocation(ctx, in) ==
  LET indexed == in[2].rule = "table_index"
      call == (IF indexed THEN in[3] ELSE in[2]).inside
  IN  InvokeOracle(ctx, in, call, Lookup(ctx.scope, Name(call[1])),
        IF indexed THEN <<HandleExpression(ctx, in[2].inside[1], Anything)>> ELSE <<>>)

\* What is parsed must be a tuple, of at least as many parts as there are names.
ParseInto(done, lhs) ==
  [ctx |-> IF ~Stopped(done.ctx) /\ Failed(lhs.ident) THEN Stop(lhs.ctx, lhs.ident) ELSE lhs.ctx,
   idents |-> Append(done.idents, lhs.ident)]
RECURSIVE ParseNames(_, _, _, _)
ParseNames(done, names, types, sig) ==
  IF names = <<>> THEN done
  ELSE ParseNames(ParseInto(done, HandleLhs(done.ctx, Name(names[1]), sig.name,
                                            IF types = <<>> THEN Fail("panic") ELSE types[1])),
                  Tail(names), IF types = <<>> THEN <<>> ELSE Tail(types), sig)
ParsedInto(done, expr) == Finish(done.ctx, <<>>, Stmt("parse", done.idents, <<expr>>, <<>>, <<>>))
ParseOf(ctx, names, sig, expr, type) ==
  IF Failed(expr) \/ type.op # "Tuple" THEN Finish(ctx, <<expr, Fail("panic")>>, <<>>)
  ELSE ParsedInto(ParseNames([ctx |-> ctx, idents |-> <<>>], names, type.args, sig), expr)
ParseTuple(ctx, in, sig, expr) == ParseOf(ctx, in[1].inside, sig, expr, GetType(expr))
HandleParse(ctx, in, sig) == ParseTuple(ctx, in, sig, HandleExpression(ctx, in[2], Anything))

\* The bounds of a loop and its variable, named twice.
LoopBounds(ctx, in) ==
  <<HandleExpression(ctx, in[2], Integer), Term("ForComp", in[3].text, <<>>),
    Term("ForComp", in[5].text, <<>>), HandleExpression(ctx, in[6], Integer)>>

RECURSIVE HandleStmts(_, _, _, _)
HandleCode(ctx, code, sig) == HandleStmts(Result(ctx, <<>>), ctx, code.inside, sig)

\* Branches do not open a scope, loops do.
IteOf(cond, then, else) ==
  Finish(else.ctx, <<>>, Stmt("ite", <<>>, <<cond>>, <<then.code, else.code>>, <<>>))
IteThen(in, sig, cond, then) ==
  IteOf(cond, then, IF Len(in) = 3 THEN HandleCode(then.ctx, in[3], sig) ELSE Result(then.ctx, <<>>))
IteCond(ctx, in, sig, cond) ==
  IF Failed(cond) THEN Finish(ctx, <<cond>>, <<>>)
  ELSE IteThen(in, sig, cond, HandleCode(ctx, in[2], sig))
HandleIte(ctx, in, sig) == IteCond(ctx, in, sig, HandleExpression(ctx, in[1], Boolean))

\* Two names are a todo!(); a name that is known already is an unwrapped error.
ForOf(bounds, loopvar, body) ==
  Finish(IF Stopped(body.ctx) THEN body.ctx ELSE [body.ctx EXCEPT !.scope = Leave(@)], <<>>,
         Stmt("for", <<loopvar>>, bounds, <<body.code>>, <<>>))
ForVar(ctx, in, sig, bounds, loopvar) ==
  ForOf(bounds, loopvar,
        HandleCode([ctx EXCEPT !.scope = Declare(Enter(@), Name(in[1]), loopvar)], in[7], sig))
ForBounds(ctx, in, sig, bounds) ==
  IF Failures(bounds) # <<>> \/ Name(in[1]) # Name(in[4]) \/ Declared(ctx.scope, Name(in[1]))
  THEN Finish(ctx, bounds \o <<Fail("panic")>>, <<>>)
  ELSE ForVar(ctx, in, sig, bounds, Ident("CodeLoopVar", Name(in[1]), "", Integer, bounds))
HandleFor(ctx, in, sig) == ForBounds(ctx, in, sig, LoopBounds(ctx, in))

ReturnOf(ctx, expr) == Finish(ctx, expr, Stmt("return", <<>>, expr, <<>>, <<>>))
HandleReturn(ctx, in, sig) ==
  ReturnOf(ctx, IF in = <<>> THEN <<>> ELSE <<HandleExpression(ctx, in[1], sig.type)>>)

Aborting == Stmt("abort", <<>>, <<>>, <<>>, <<>>)
AssertOf(ctx, cond) ==
  Finish(ctx, <<cond>>, Stmt("ite", <<>>, <<cond>>, << <<>>, <<Aborting>> >>, <<>>))
HandleAssert(ctx, in) == AssertOf(ctx, HandleExpression(ctx, in[1], Boolean))

\* before: the context of the block, in: the parts of the statement.
HandleStmt(now, before, rule, in, sig) ==
  CASE rule = "sample" -> HandleSample(now, before, in, sig)
    [] rule = "table_sample" -> HandleTableSample(now, before, in, sig)
    [] rule = "assign" -> HandleAssign(now, in, sig)
    [] rule = "table_assign" -> HandleTableAssign(now, in, sig)
    [] rule = "invocation" -> HandleInvocation(now, in)
    [] rule = "parse" -> HandleParse(now, in, sig)
    [] rule = "ite" -> HandleIte(now, in, sig)
    [] rule = "for_" -> HandleFor(now, in, sig)
    [] rule = "return_stmt" -> HandleReturn(now, in, sig)
    [] rule = "assert" -> HandleAssert(now, in)
    [] rule = "abort" -> Finish(now, <<>>, Aborting)

Also(done, one) == Result(one.ctx, done.code \o one.code)
HandleStmts(done, before, stmts, sig) ==
  IF stmts = <<>> \/ Stopped(done.ctx) THEN done
  ELSE HandleStmts(Also(done, HandleStmt(done.ctx, before, stmts[1].rule, stmts[1].inside, sig)),
                   before, Tail(stmts), sig)

-----------------------------------------------------------------------------
(* Declarations. *)

Context(name) ==
  [name |-> name, scope |-> << <<>> >>, types |-> <<>>, params |-> <<>>, state |-> <<>>,
   imports |-> <<>>, oracles |-> <<>>, failed |-> <<>>]

\* Declared, or the error that it is known already.
TryDeclare(ctx, name, decl, failure) ==
  IF Declared(ctx.scope, name) THEN Stop(ctx, Fail(failure))
  ELSE [ctx EXCEPT !.scope = Declare(@, name, decl)]

HandleTypesList(ctx, list) ==
  [ctx EXCEPT !.types = @ \o [i \in DOMAIN list.inside |-> Name(list.inside[i])]]

\* kind: State or Const.  A declaration counts before it is checked.
Counted(ctx, kind, entry) ==
  IF kind = "State" THEN [ctx EXCEPT !.state = Append(@, entry)]
  ELSE [ctx EXCEPT !.params = Append(@, entry)]
DeclareTyped(ctx, kind, name, type) ==
  IF Failed(type) THEN Stop(ctx, type)
  ELSE TryDeclare(Counted(ctx, kind, <<name, type>>), name, Ident(kind, name, "", type, <<>>), "error")
RECURSIVE HandleDeclList(_, _, _)
HandleDeclList(ctx, entries, kind) ==
  IF entries = <<>> \/ Stopped(ctx) THEN ctx
  ELSE HandleDeclList(DeclareTyped(ctx, kind, Name(entries[1].inside[1]),
                                   HandleType(ctx, entries[1].inside[2])),
                      Tail(entries), kind)

\* Names and types of arguments, and the type of the result.
HandleArglist(ctx, list) ==
  [i \in DOMAIN list |-> <<Name(list[i].inside[1]), HandleType(ctx, list[i].inside[2])>>]
HandleSignature(ctx, name, rest, indices) ==
  [name |-> name, indices |-> indices,
   args |-> IF rest[1].inside = <<>> THEN <<>> ELSE HandleArglist(ctx, rest[1].inside[1].inside),
   type |-> IF Len(rest) = 1 THEN Empty ELSE HandleType(ctx, rest[2])]
FailuresOfSig(sig) ==
  Failures(sig.indices \o [i \in DOMAIN sig.args |-> sig.args[i][2]] \o <<sig.type>>)

\* The indices are read in the scope of the loops, which is a copy of the one the
\* block began with; the types in the scope of the package.
HandleImportSig(ctx, in, loops) ==
  LET indexed == in[2].rule = "indices_expr"
      indices == IF indexed THEN in[2].inside ELSE <<>>
  IN  HandleSignature(ctx, Name(in[1]), SubSeq(in, IF indexed THEN 3 ELSE 2, Len(in)),
        [i \in DOMAIN indices |-> HandleExpression([ctx EXCEPT !.scope = loops], indices[i], Integer)])

Import(ctx, sig) ==
  IF FailuresOfSig(sig) # <<>> THEN Stop(ctx, Head(FailuresOfSig(sig)))
  ELSE IF sig.name \in {ctx.imports[i].name : i \in DOMAIN ctx.imports} THEN Stop(ctx, Fail("error"))
  ELSE TryDeclare([ctx EXCEPT !.imports = Append(@, sig)], sig.name, OracleDecl(sig), "panic")

RECURSIVE HandleImports(_, _, _)
HandleImportsFor(ctx, in, loops, bounds) ==
  IF Failures(bounds) # <<>> THEN Stop(ctx, Head(Failures(bounds)))
  ELSE IF Name(in[1]) # Name(in[4]) \/ Declared(loops, Name(in[1])) THEN Stop(ctx, Fail("error"))
  ELSE HandleImports(ctx, in[7].inside,
         Declare(Enter(loops), Name(in[1]), Ident("ImportsLoopVar", Name(in[1]), "", Integer, bounds)))
HandleImport(ctx, entry, loops) ==
  IF entry.rule = "import_oracles_oracle_sig"
  THEN Import(ctx, HandleImportSig(ctx, entry.inside, loops))
  ELSE HandleImportsFor(ctx, entry.inside, loops, LoopBounds(ctx, entry.inside))
HandleImports(ctx, entries, loops) ==
  IF entries = <<>> \/ Stopped(ctx) THEN ctx
  ELSE HandleImports(HandleImport(ctx, entries[1], loops), Tail(entries), loops)

\* The arguments live in a scope of their own, which the code of the oracle shares.
CloseOracle(body, sig) ==
  IF Stopped(body.ctx) THEN body.ctx
  ELSE [body.ctx EXCEPT !.scope = Leave(@), !.oracles = Append(@, [sig |-> sig, code |-> body.code])]
OpenOracle(opened, code, sig) ==
  IF Stopped(opened) THEN opened ELSE CloseOracle(HandleCode(opened, code, sig), sig)
RECURSIVE DeclareArgs(_, _, _)
DeclareArgs(ctx, oracle, args) ==
  IF args = <<>> \/ Stopped(ctx) THEN ctx
  ELSE DeclareArgs(TryDeclare(ctx, args[1][1], Ident("OracleArg", args[1][1], oracle, args[1][2], <<>>),
                              "error"),
                   oracle, Tail(args))
OracleOf(ctx, code, sig) ==
  IF FailuresOfSig(sig) # <<>> THEN Stop(ctx, Head(FailuresOfSig(sig)))
  ELSE OpenOracle(DeclareArgs([ctx EXCEPT !.scope = Enter(@)], sig.name, sig.args), code, sig)
HandleOracleDef(ctx, def) ==
  LET sig == def.inside[1].inside
  IN  OracleOf(ctx, def.inside[2], HandleSignature(ctx, Name(sig[1]), Tail(sig), <<>>))

\* The blocks of params, state and imports open scopes that stay open.
HandleBlock(ctx, open, spec, in) ==
  CASE spec.rule = "types" -> IF in = <<>> THEN ctx ELSE HandleTypesList(ctx, in[1])
    [] spec.rule = "params" -> IF in = <<>> THEN open ELSE HandleDeclList(open, in[1].inside, "Const")
    [] spec.rule = "state" -> IF in = <<>> THEN open ELSE HandleDeclList(open, in[1].inside, "State")
    [] spec.rule = "import_oracles" -> HandleImports(open, in[1].inside, open.scope)
    [] spec.rule = "oracle_def" -> HandleOracleDef(ctx, spec)
RECURSIVE HandlePkgSpec(_, _)
HandlePkgSpec(ctx, specs) ==
  IF specs = <<>> \/ Stopped(ctx) THEN ctx
  ELSE HandlePkgSpec(HandleBlock(ctx, [ctx EXCEPT !.scope = Enter(@)], specs[1], specs[1].inside),
                     Tail(specs))

\* The package of a file, or how reading it failed.
HandlePkg(pkg) == HandlePkgSpec(Context(Name(pkg.inside[1])), pkg.inside[2].inside)
Accepted(ctx) == ~Stopped(ctx)
Package(ctx) ==
  [name |-> ctx.name, types |-> ctx.types, params |-> ctx.params, state |-> ctx.state,
   imports |-> ToSet(ctx.imports), oracles |-> ctx.oracles]
=============================================================================
