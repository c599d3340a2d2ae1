----------------------------- MODULE Formatter ------------------------------
(***************************************************************************)
(* What domino format prints for a tree (src/src/format/mod.rs).  Layout   *)
(* (indentation, line breaks, blank lines) is left out: the output is the  *)
(* sequence of tokens of the text.  What the code reads as_str is the      *)
(* node's text.                                                            *)
(***************************************************************************)
EXTENDS SspGrammar

\* The token that stands for an unreachable!() or for unwrapping None.
Panic == "panic!"
Panics(text) == Contains(text, Panic)

Separated(parts, separator) ==
  FlattenSeq([i \in DOMAIN parts |-> IF i = 1 THEN parts[i] ELSE separator \o parts[i]])
Listed(parts) == Separated(parts, <<",">>)
EndEach(parts) == FlattenSeq([i \in DOMAIN parts |-> parts[i] \o <<",">>])
TextsOf(nodes) == [i \in DOMAIN nodes |-> nodes[i].text]
InParens(text) == <<"(">> \o text \o <<")">>
Braced(text) == <<"{">> \o text \o <<"}">>
OfRule(nodes, rules) == SelectSeq(nodes, LAMBDA n : n.rule \in rules)

-----------------------------------------------------------------------------
(* Types and expressions. *)

RECURSIVE FormatType(_)
FormatTypes(types) == [i \in DOMAIN types |-> FormatType(types[i])]
FormatType(type) ==
  CASE type.rule = "type_tuple" -> InParens(Listed(FormatTypes(type.inside)))
    [] type.rule = "type_table" -> <<"Table">> \o InParens(Listed(FormatTypes(type.inside)))
    [] OTHER -> type.text

Operator ==
  [expr_add |-> "+", expr_sub |-> "-", expr_equals |-> "==", expr_not_equals |-> "!=",
   expr_or |-> "or", expr_xor |-> "xor", expr_and |-> "and", expr_tuple |-> ","]

RECURSIVE FormatExpr(_)
FormatExprs(exprs) == [i \in DOMAIN exprs |-> FormatExpr(exprs[i])]
FormatExpr(expr) ==
  LET in == expr.inside
  IN  CASE expr.rule \in DOMAIN Operator ->
             InParens(Separated(FormatExprs(in), <<Operator[expr.rule]>>))
        [] expr.rule = "expr_not" -> <<"not">> \o FormatExpr(in[1])
        [] expr.rule = "expr_none" -> <<"None", "as">> \o FormatType(in[1])
        [] expr.rule = "expr_untyped_none" -> <<"None">>
        [] expr.rule = "expr_some" -> <<"Some">> \o InParens(FormatExpr(in[1]))
        [] expr.rule = "expr_unwrap" -> <<"Unwrap">> \o InParens(FormatExpr(in[1]))
        [] expr.rule = "expr_newtable" ->
             <<"new", "Table">> \o InParens(Listed(FormatTypes(in)))
        [] expr.rule = "fn_call" ->
             in[1].text
               \o InParens(IF Len(in) = 1 THEN <<>> ELSE Listed(FormatExprs(in[2].inside)))
        [] expr.rule = "table_access" -> in[1].text \o <<"[">> \o FormatExpr(in[2]) \o <<"]">>
        [] expr.rule \in {"literal_boolean", "literal_integer", "identifier"} -> expr.text
        [] OTHER -> <<Panic>>

FormatIndices(node) == <<"[">> \o Listed(FormatExprs(node.inside)) \o <<"]">>

\* Variant: the two comparisons change places.
FormatForSwapped(in) ==
  <<"for">> \o in[1].text \o <<":">> \o FormatExpr(in[2]) \o in[5].text \o in[1].text
    \o in[3].text \o FormatExpr(in[6])

\* The head of a loop, which names its variable twice.
FormatFor(in) ==
  <<"for">> \o in[1].text \o <<":">> \o FormatExpr(in[2]) \o in[3].text \o in[1].text
    \o in[5].text \o FormatExpr(in[6])

-----------------------------------------------------------------------------
(* Code. *)

FormatCall(call) ==
  LET instance == OfRule(call, {"oracle_call_index"})
      args == OfRule(call, {"fn_call_arglist"})
  IN  call[1].text \o FlattenSeq([i \in DOMAIN instance |-> FormatIndices(instance[i])])
        \o InParens(FlattenSeq([i \in DOMAIN args |-> Listed(FormatExprs(args[i].inside))]))
FormatInvocation(in) ==
  LET indexed == in[2].rule = "table_index"
  IN  in[1].text
        \o (IF indexed THEN <<"[", "[">> \o FormatExpr(in[2].inside[1]) \o <<"]", "]">> ELSE <<>>)
        \o <<"<-", "invoke">> \o FormatCall((IF indexed THEN in[3] ELSE in[2]).inside) \o <<";">>

RECURSIVE FormatCode(_)
FormatStmt(rule, in) ==
  CASE rule = "ite" ->
         <<"if">> \o FormatExpr(in[1]) \o Braced(FormatCode(in[2]))
           \o (IF Len(in) = 2 THEN <<>> ELSE <<"else">> \o Braced(FormatCode(in[3])))
    [] rule = "return_stmt" -> <<"return">> \o (IF in = <<>> THEN <<>> ELSE FormatExpr(in[1])) \o <<";">>
    [] rule = "assert" -> <<"assert">> \o FormatExpr(in[1]) \o <<";">>
    [] rule = "abort" -> <<"abort", ";">>
    [] rule = "sample" -> in[1].text \o <<"<-$">> \o in[2].text \o <<";">>
    [] rule = "assign" -> in[1].text \o <<"<-">> \o FormatExpr(in[2]) \o <<";">>
    [] rule = "table_sample" ->
         in[1].text \o <<"[">> \o FormatExpr(in[2]) \o <<"]", "<-$">> \o in[3].text \o <<";">>
    [] rule = "table_assign" ->
         in[1].text \o <<"[">> \o FormatExpr(in[2]) \o <<"]", "<-">> \o FormatExpr(in[3]) \o <<";">>
    [] rule = "invocation" -> FormatInvocation(in)
    [] rule = "parse" ->
         InParens(Listed(TextsOf(in[1].inside))) \o <<"<-", "parse">> \o FormatExpr(in[2]) \o <<";">>
    [] rule = "for_" -> FormatFor(in) \o Braced(FormatCode(in[7]))
FormatCode(code) ==
  FlattenSeq([i \in DOMAIN code.inside |-> FormatStmt(code.inside[i].rule, code.inside[i].inside)])

-----------------------------------------------------------------------------
(* Packages. *)

\* name: type, of the declarations of a list or of the arguments of an oracle.
FormatDecls(list) ==
  [i \in DOMAIN list.inside |->
     list.inside[i].inside[1].text \o <<":">> \o FormatType(list.inside[i].inside[2])]

\* Arguments and result, from what follows the name of an oracle.
FormatSignature(rest) ==
  LET args == IF rest[1].inside = <<>> THEN <<>> ELSE FormatDecls(rest[1].inside[1])
      result == IF Len(rest) = 1 THEN <<>> ELSE FormatType(rest[2])
  IN  InParens(Listed(args)) \o (IF result \in {<<>>, <<"(", ")">>} THEN <<>> ELSE <<"->">> \o result)

FormatOracleDef(def) ==
  LET sig == def.inside[1].inside
  IN  <<"oracle">> \o sig[1].text \o FormatSignature(Tail(sig)) \o Braced(FormatCode(def.inside[2]))

RECURSIVE FormatImportOracles(_)
FormatImport(rule, in) ==
  LET indexed == in[2].rule = "indices_expr"
  IN  IF rule = "import_oracles_for" THEN FormatFor(in) \o Braced(FormatImportOracles(in[7]))
      ELSE in[1].text \o (IF indexed THEN FormatIndices(in[2]) ELSE <<>>)
             \o FormatSignature(SubSeq(in, IF indexed THEN 3 ELSE 2, Len(in))) \o <<",">>
FormatImportOracles(body) ==
  FlattenSeq([i \in DOMAIN body.inside |-> FormatImport(body.inside[i].rule, body.inside[i].inside)])

\* The lists in the blocks of a rule, the contents of all as one block, if there are any blocks.
ListsOf(specs, rule) ==
  LET full == SelectSeq(specs, LAMBDA b : b.rule = rule /\ b.inside # <<>>)
  IN  [i \in DOMAIN full |-> full[i].inside[1]]
FormatBlocks(head, blocks, contents) ==
  IF blocks = <<>> THEN <<>> ELSE head \o Braced(FlattenSeq(contents))

FormatTypesBlocks(blocks, lists) ==
  FormatBlocks(<<"types">>, blocks, [i \in DOMAIN lists |-> EndEach(TextsOf(lists[i].inside))])
FormatDeclBlocks(head, blocks, lists) ==
  FormatBlocks(<<head>>, blocks, [i \in DOMAIN lists |-> EndEach(FormatDecls(lists[i]))])
FormatImportBlocks(blocks, lists) ==
  FormatBlocks(<<"import", "oracles">>, blocks, [i \in DOMAIN lists |-> FormatImportOracles(lists[i])])
FormatOracles(defs) == FlattenSeq([i \in DOMAIN defs |-> FormatOracleDef(defs[i])])

\* Variant: the imports after the oracles that invoke them.
FormatPkgSpecImportsLast(specs) ==
  FormatTypesBlocks(OfRule(specs, {"types"}), ListsOf(specs, "types"))
    \o FormatDeclBlocks("params", OfRule(specs, {"params"}), ListsOf(specs, "params"))
    \o FormatDeclBlocks("state", OfRule(specs, {"state"}), ListsOf(specs, "state"))
    \o FormatOracles(OfRule(specs, {"oracle_def"}))
    \o FormatImportBlocks(OfRule(specs, {"import_oracles"}), ListsOf(specs, "import_oracles"))

FormatPkgSpec(specs) ==
  FormatTypesBlocks(OfRule(specs, {"types"}), ListsOf(specs, "types"))
    \o FormatDeclBlocks("params", OfRule(specs, {"params"}), ListsOf(specs, "params"))
    \o FormatDeclBlocks("state", OfRule(specs, {"state"}), ListsOf(specs, "state"))
    \o FormatImportBlocks(OfRule(specs, {"import_oracles"}), ListsOf(specs, "import_oracles"))
    \o FormatOracles(OfRule(specs, {"oracle_def"}))

FormatPkg(pkg) ==
  <<"package">> \o pkg.inside[1].text \o Braced(FormatPkgSpec(pkg.inside[2].inside))

-----------------------------------------------------------------------------
(* Games. *)

FormatAssignment(assign) ==
  LET in == assign.inside
      indexed == in[1].rule = "compose_assign_modifier_with_index"
      pair == IF indexed THEN Tail(in) ELSE in
  IN  (IF indexed THEN <<"with", "index">> \o FormatIndices(in[1].inside[1]) ELSE <<>>)
        \o pair[1].text \o <<":">> \o pair[2].text \o <<",">>

FormatAssignments(list) == FlattenSeq([i \in DOMAIN list |-> FormatAssignment(list[i])])

\* The code unwraps the list of assignments, which an empty body does not have.
FormatComposeBody(body) ==
  LET in == body.inside
      indexed == Len(in) > 1 /\ in[2].rule = "indices_ident"
      rest == SubSeq(in, IF indexed THEN 3 ELSE 2, Len(in))
  IN  IF rest = <<>> THEN <<Panic>>
      ELSE in[1].text
             \o (IF indexed THEN <<"[">> \o Listed(TextsOf(in[2].inside)) \o <<"]">> ELSE <<>>)
             \o <<":">> \o Braced(FormatAssignments(rest[1].inside))
FormatComposeBodies(bodies) == FlattenSeq([i \in DOMAIN bodies |-> FormatComposeBody(bodies[i])])

FormatParamDefs(defs) ==
  [i \in DOMAIN defs |-> defs[i].inside[1].text \o <<":">> \o FormatExpr(defs[i].inside[2])]
FormatTypesDefs(defs) ==
  [i \in DOMAIN defs |-> FormatType(defs[i].inside[1]) \o <<":">> \o FormatType(defs[i].inside[2])]
FormatInstanceAssigns(specs) ==
  LET params == ListsOf(specs, "params_def")
      types == ListsOf(specs, "types_def")
  IN  FormatBlocks(<<"params">>, OfRule(specs, {"params_def"}),
                   [i \in DOMAIN params |-> EndEach(FormatParamDefs(params[i].inside))])
        \o FormatBlocks(<<"types">>, OfRule(specs, {"types_def"}),
                        [i \in DOMAIN types |-> EndEach(FormatTypesDefs(types[i].inside))])
FormatInstance(in) ==
  LET indexed == in[2].rule = "indices_expr"
      rest == SubSeq(in, IF indexed THEN 3 ELSE 2, Len(in))
  IN  <<"instance">> \o in[1].text \o (IF indexed THEN FormatIndices(in[2]) ELSE <<>>)
        \o <<"=">> \o rest[1].text \o Braced(FormatInstanceAssigns(rest[2].inside))

Composes == {"compose_decl", "compose_decl_multi_inst"}
FormatConst(in) == <<"const">> \o in[1].text \o <<":">> \o FormatType(in[2]) \o <<";">>

\* Constants first, compose blocks last and as one.
RECURSIVE FormatGameSpec(_)
FormatInstances(rule, in) ==
  IF rule = "game_for" THEN FormatFor(in) \o Braced(FormatGameSpec(in[7].inside)) ELSE FormatInstance(in)
FormatGameSpec(specs) ==
  LET consts == OfRule(specs, {"const_decl"})
      instances == OfRule(specs, {"game_for", "instance_decl"})
      composes == OfRule(specs, Composes)
  IN  FlattenSeq([i \in DOMAIN consts |-> FormatConst(consts[i].inside)])
        \o FlattenSeq([i \in DOMAIN instances |-> FormatInstances(instances[i].rule, instances[i].inside)])
        \o FormatBlocks(<<"compose">>, composes,
                        [i \in DOMAIN composes |-> FormatComposeBodies(composes[i].inside)])

FormatGame(game) ==
  <<"composition">> \o game.inside[1].text \o Braced(FormatGameSpec(game.inside[2].inside))
=============================================================================
