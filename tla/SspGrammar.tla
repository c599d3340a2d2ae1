----------------------------- MODULE SspGrammar -----------------------------
(***************************************************************************)
(* The grammar of package and game files (src/src/parser/ssp.pest) as a    *)
(* value, and the parser that pest generates from it: ordered choice,      *)
(* greedy repetition, no way back into a repetition.                       *)
(*                                                                         *)
(* A text is a sequence of tokens; what separates them (blanks, comments)  *)
(* is left out, and a token is a whole word: that pest accepts a keyword   *)
(* at the beginning of a longer word is not modelled.                      *)
(***************************************************************************)
EXTENDS Integers, Sequences, SequencesExt, TLC

-----------------------------------------------------------------------------
(* Expressions of the grammar. *)

T(token) == [kind |-> "token", of |-> token]
N(rule) == [kind |-> "rule", of |-> rule]
Word == [kind |-> "word", of |-> ""]
Digits == [kind |-> "digits", of |-> ""]
All(parts) == [kind |-> "all", of |-> parts]
OneOf(choices) == [kind |-> "choice", of |-> choices]
Star(e) == [kind |-> "star", of |-> e]
Maybe(e) == [kind |-> "maybe", of |-> e]
Plus(e) == All(<<e, Star(e)>>)
Rules(names) == OneOf([i \in DOMAIN names |-> N(names[i])])
Between(open, e, close) == All(<<T(open), e, T(close)>>)
\* One or more, separated by commas, perhaps with one at the end.
Commas(e) == All(<<e, Star(All(<<T(","), e>>))>>)
CommasAndOne(e) == All(<<Commas(e), Maybe(T(","))>>)
Body(e) == Between("{", e, "}")
Binary(op) == Between("(", All(<<N("expression"), T(op), N("expression")>>), ")")
Chain(op) == Between("(", All(<<N("expression"), Plus(All(<<T(op), N("expression")>>))>>), ")")
Call(name) == All(<<T(name), Between("(", N("expression"), ")")>>)
ForHead ==
  All(<<T("for"), N("identifier"), T(":"), N("expression"), N("for_comp"),
        N("identifier"), N("for_comp"), N("expression")>>)

-----------------------------------------------------------------------------
(* The rules. *)

PackageRules ==
  [package |-> All(<<T("package"), N("identifier"), Body(N("package_spec_list"))>>),
   package_spec_list |-> Star(Rules(<<"types", "params", "state", "import_oracles", "oracle_def">>)),
   params |-> All(<<T("params"), OneOf(<<Body(N("decl_list")), Body(All(<<>>))>>)>>),
   state |-> All(<<T("state"), Body(Maybe(N("decl_list")))>>),
   types |-> All(<<T("types"), OneOf(<<Body(N("types_list")), Body(All(<<>>))>>)>>),
   decl_list |-> CommasAndOne(N("decl_spec")),
   types_list |-> CommasAndOne(N("type_userdefined")),
   decl_spec |-> All(<<N("identifier"), T(":"), N("tipe")>>),
   import_oracles |-> All(<<T("import"), T("oracles"), Body(N("import_oracles_body"))>>),
   import_oracles_body |->
     Star(OneOf(<<N("import_oracles_for"), All(<<N("import_oracles_oracle_sig"), T(",")>>)>>)),
   import_oracles_oracle_sig |->
     All(<<N("identifier"), Maybe(N("indices_expr")),
           Between("(", N("oracle_maybe_arglist"), ")"), Maybe(All(<<T("->"), N("tipe")>>))>>),
   import_oracles_for |-> All(<<ForHead, Body(N("import_oracles_body"))>>),
   oracle_def |-> All(<<T("oracle"), N("oracle_sig"), Body(N("code"))>>),
   oracle_sig |->
     All(<<N("identifier"), Between("(", N("oracle_maybe_arglist"), ")"),
           Maybe(All(<<T("->"), N("tipe")>>))>>),
   oracle_maybe_arglist |-> Maybe(N("oracle_arglist")),
   oracle_arglist |-> Commas(N("decl_spec"))]

TypeRules ==
  [tipe |->
     Rules(<<"type_integer", "type_bool", "type_string", "type_bits", "type_maybe", "type_fn",
             "type_tuple", "type_table", "type_list", "type_empty", "type_userdefined">>),
   type_integer |-> T("Integer"), type_bool |-> T("Bool"), type_string |-> T("String"),
   type_bits |-> All(<<T("Bits"), Between("(", N("countspec"), ")")>>),
   type_maybe |-> All(<<T("Maybe"), Between("(", N("tipe"), ")")>>),
   type_fn |-> All(<<T("fn"), N("fn_arglist"), T("->"), N("tipe")>>),
   fn_arglist |-> Commas(N("fn_arg_spec")),
   fn_arg_spec |-> N("tipe"),
   type_tuple |-> Between("(", Commas(N("tipe")), ")"),
   type_empty |-> All(<<T("("), T(")")>>),
   type_list |-> All(<<T("List"), Between("(", N("tipe"), ")")>>),
   type_table |-> All(<<T("Table"), Between("(", All(<<N("tipe"), T(","), N("tipe")>>), ")")>>),
   type_userdefined |-> Word, identifier |-> Word, num |-> Digits,
   countspec |-> OneOf(<<N("identifier"), N("num"), T("*")>>)]

CodeRules ==
  [code |-> Star(Rules(<<"table_sample", "table_assign", "sample", "parse", "invocation", "assign",
                         "return_stmt", "assert", "abort", "ite", "for_">>)),
   ite |-> All(<<T("if"), N("expression"), Body(N("code")), Maybe(All(<<T("else"), Body(N("code"))>>))>>),
   sample |-> All(<<N("identifier"), T("<-$"), N("tipe"), Maybe(N("sample_name")), T(";")>>),
   sample_name |-> All(<<T("sample-name"), N("identifier")>>),
   assign |-> All(<<N("identifier"), T("<-"), N("expression"), T(";")>>),
   invocation |-> All(<<N("identifier"), Maybe(Between("[", N("table_index"), "]")),
                        T("<-"), T("invoke"), N("oracle_call"), T(";")>>),
   parse |-> All(<<N("parse_tuple"), T("<-"), T("parse"), N("expression"), T(";")>>),
   parse_tuple |-> Between("(", All(<<N("identifier"), Plus(All(<<T(","), N("identifier")>>))>>), ")"),
   table_sample |-> All(<<N("identifier"), Between("[", N("expression"), "]"), T("<-$"), N("tipe"),
                          Maybe(N("sample_name")), T(";")>>),
   table_assign |-> All(<<N("identifier"), Between("[", N("expression"), "]"), T("<-"),
                          N("expression"), T(";")>>),
   return_stmt |-> All(<<T("return"), Maybe(N("expression")), T(";")>>),
   assert |-> All(<<T("assert"), N("expression"), T(";")>>),
   abort |-> All(<<T("abort"), T(";")>>),
   for_ |-> All(<<ForHead, Body(N("code"))>>),
   for_comp |-> OneOf(<<T("<="), T("<")>>),
   table_index |-> N("expression"),
   oracle_call |-> All(<<N("identifier"), Maybe(N("oracle_call_index")),
                         Between("(", Maybe(N("fn_call_arglist")), ")")>>),
   oracle_call_index |-> Between("[", N("expression"), "]")]

ExpressionRules ==
  [expression |->
     Rules(<<"expr_list", "expr_set", "expr_none", "expr_untyped_none", "expr_some", "expr_unwrap",
             "expr_add", "expr_sub", "expr_mul", "expr_div", "expr_or", "expr_and", "expr_xor",
             "expr_not", "expr_tuple", "expr_equals", "expr_not_equals", "expr_newtable",
             "fn_call", "table_access", "literal_boolean", "literal_emptyset", "literal_integer",
             "identifier">>),
   expr_equals |-> Chain("=="), expr_not_equals |-> Chain("!="),
   expr_add |-> Binary("+"), expr_sub |-> Binary("-"), expr_mul |-> Binary("*"), expr_div |-> Binary("/"),
   expr_and |-> Chain("and"), expr_or |-> Chain("or"), expr_xor |-> Chain("xor"),
   expr_not |-> All(<<T("not"), N("expression")>>),
   expr_newtable |->
     All(<<T("new"), T("Table"), Between("(", All(<<N("tipe"), T(","), N("tipe")>>), ")")>>),
   fn_call |-> All(<<N("identifier"), Between("(", Maybe(N("fn_call_arglist")), ")")>>),
   fn_call_arglist |-> Commas(N("expression")),
   expr_untyped_none |-> T("None"),
   expr_none |-> All(<<T("None"), T("as"), N("tipe")>>),
   expr_some |-> Call("Some"), expr_unwrap |-> Call("Unwrap"),
   table_access |-> All(<<N("identifier"), Between("[", N("expression"), "]")>>),
   expr_tuple |-> Between("(", Commas(N("expression")), ")"),
   expr_list |-> All(<<T("List"), Between("(", Commas(N("expression")), ")")>>),
   expr_set |-> All(<<T("Set"), Between("(", Commas(N("expression")), ")")>>),
   literal_boolean |-> OneOf(<<T("true"), T("false")>>),
   literal_integer |-> N("num"),
   literal_emptyset |-> All(<<T("emptyset"), T("as"), N("tipe")>>)]

GameRules ==
  [composition |-> All(<<T("composition"), N("identifier"), Body(N("composition_spec_list"))>>),
   composition_spec_list |->
     All(<<Star(N("const_decl")), Star(N("instance_decl")), Star(N("game_for")),
           Star(N("compose_decl")), Star(N("game_for"))>>),
   game_for |-> All(<<ForHead, Body(N("game_for_spec_list"))>>),
   game_for_spec_list |->
     All(<<Star(N("game_for")), Maybe(OneOf(<<Plus(N("instance_decl")), N("compose_decl_multi_inst")>>))>>),
   const_decl |-> All(<<T("const"), N("identifier"), T(":"), N("tipe"), T(";")>>),
   instance_decl |-> All(<<T("instance"), N("identifier"), Maybe(N("indices_expr")), T("="),
                           N("identifier"), Body(Maybe(N("instance_assign_list")))>>),
   instance_assign_list |-> Star(Rules(<<"params_def", "types_def">>)),
   params_def |-> All(<<T("params"), OneOf(<<Body(N("params_def_list")), Body(All(<<>>))>>)>>),
   params_def_list |-> CommasAndOne(N("params_def_spec")),
   params_def_spec |-> All(<<N("identifier"), T(":"), N("expression")>>),
   types_def |-> All(<<T("types"), OneOf(<<Body(N("types_def_list")), Body(All(<<>>))>>)>>),
   types_def_list |-> CommasAndOne(N("types_def_spec")),
   types_def_spec |-> All(<<N("type_userdefined"), T(":"), N("tipe")>>),
   compose_decl |-> All(<<T("compose"), Body(Star(All(<<N("compose_assign_body"), Maybe(T(","))>>)))>>),
   compose_decl_multi_inst |->
     All(<<T("compose"), Body(Star(All(<<N("compose_assign_body_multi_inst"), Maybe(T(","))>>)))>>),
   compose_assign_body |-> All(<<N("identifier"), T(":"), Body(Maybe(N("compose_assign_list")))>>),
   compose_assign_body_multi_inst |->
     All(<<N("identifier"), Maybe(N("indices_ident")), T(":"), Body(Maybe(N("compose_assign_list")))>>),
   compose_assign_list |-> CommasAndOne(N("compose_assign")),
   compose_assign |-> All(<<Maybe(N("compose_assign_modifier_with_index")),
                            N("identifier"), T(":"), N("identifier")>>),
   compose_assign_modifier_with_index |-> All(<<T("with"), T("index"), N("indices_expr")>>),
   indices_ident |-> Between("[", Commas(N("identifier")), "]"),
   indices_expr |-> Between("[", Commas(N("expression")), "]")]

Grammar == PackageRules @@ TypeRules @@ CodeRules @@ ExpressionRules @@ GameRules

\* Rules that leave no node of their own in the tree.
Silent == {"tipe", "expression", "sample_name"}

-----------------------------------------------------------------------------
(* The parser.  A node of a tree has its rule, its text and the nodes      *)
(* inside it.                                                              *)

Punctuation ==
  {"{", "}", "(", ")", "[", "]", ":", ";", ",", "=", "->", "<-", "<-$", "<", "<=", "==", "!=",
   "+", "-", "*", "/", "sample-name"}
Numbers == {"0", "1", "2", "3"}

Node(rule, text, inside) == [rule |-> rule, text |-> text, inside |-> inside]

No == [ok |-> FALSE, to |-> 0, nodes |-> <<>>]
Yes(to, nodes) == [ok |-> TRUE, to |-> to, nodes |-> nodes]

RECURSIVE Match(_, _, _), MatchAll(_, _, _), MatchStar(_, _, _)
\* Whether e matches text from a place on, up to where, and the nodes it yields.
Match(e, text, from) ==
  LET token == IF from <= Len(text) THEN text[from] ELSE ""
  IN  CASE e.kind = "token" -> IF token = e.of THEN Yes(from + 1, <<>>) ELSE No
        [] e.kind = "word" ->
             IF token \in Punctuation \cup Numbers \cup {""} THEN No ELSE Yes(from + 1, <<>>)
        [] e.kind = "digits" -> IF token \in Numbers THEN Yes(from + 1, <<>>) ELSE No
        [] e.kind = "all" -> MatchAll(e.of, text, Yes(from, <<>>))
        [] e.kind = "choice" ->
             IF e.of = <<>> THEN No
             ELSE LET first == Match(Head(e.of), text, from)
                  IN  IF first.ok THEN first ELSE Match(OneOf(Tail(e.of)), text, from)
        [] e.kind = "star" -> MatchStar(e.of, text, Yes(from, <<>>))
        [] e.kind = "maybe" ->
             LET one == Match(e.of, text, from)
             IN  IF one.ok THEN one ELSE Yes(from, <<>>)
        [] e.kind = "rule" ->
             LET inside == Match(Grammar[e.of], text, from)
             IN  IF ~inside.ok \/ e.of \in Silent THEN inside
                 ELSE Yes(inside.to, <<Node(e.of, SubSeq(text, from, inside.to - 1), inside.nodes)>>)

MatchAll(parts, text, before) ==
  IF parts = <<>> THEN before
  ELSE LET first == Match(Head(parts), text, before.to)
       IN  IF first.ok THEN MatchAll(Tail(parts), text, Yes(first.to, before.nodes \o first.nodes))
           ELSE No

MatchStar(e, text, before) ==
  LET one == Match(e, text, before.to)
  IN  IF one.ok THEN MatchStar(e, text, Yes(one.to, before.nodes \o one.nodes)) ELSE before

\* The tree of a file, or nothing.  What follows the closing brace is not read.
ParseFile(rule, text) ==
  LET result == Match(N(rule), text, 1) IN IF result.ok THEN result.nodes ELSE <<>>
=============================================================================
