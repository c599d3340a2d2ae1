--------------------------- MODULE FormattedTexts ---------------------------
(***************************************************************************)
(* What domino format makes of the text of a file, and how the formatted   *)
(* file relates to the one it replaces: as a tree, and as the package that *)
(* the other commands read from it.                                        *)
(***************************************************************************)
EXTENDS Formatter, PackageParser, FormatFiles

\* A text that is not UTF-8.
NotText == <<"binary">>

\* The package that the other commands read, if they accept it.
PackageRead(ctx) == IF Accepted(ctx) THEN <<Package(ctx)>> ELSE <<>>
Printed(kind, tree) == IF kind = "package" THEN FormatPkg(tree) ELSE FormatGame(tree)

-----------------------------------------------------------------------------
(* What formatting may change of a tree. *)

RECURSIVE HasRule(_, _)
HasRule(node, rule) ==
  node.rule = rule \/ \E i \in DOMAIN node.inside : HasRule(node.inside[i], rule)

\* The tree without the texts of inner nodes.
RECURSIVE Skeleton(_)
Skeleton(node) ==
  [rule |-> node.rule, text |-> IF node.inside = <<>> THEN node.text ELSE <<>>,
   inside |-> [i \in DOMAIN node.inside |-> Skeleton(node.inside[i])]]

\* The blocks of these rules as one, with the entries of all.
Merged(blocks, empty) ==
  LET full == SelectSeq(blocks, LAMBDA b : b.inside # <<>>)
      entries_ == FlattenSeq([i \in DOMAIN full |-> full[i].inside[1].inside])
  IN  IF blocks = <<>> THEN <<>>
      ELSE IF full = <<>> THEN <<[rule |-> blocks[1].rule, text |-> empty, inside |-> <<>>]>>
      ELSE <<[rule |-> blocks[1].rule, text |-> <<>>,
              inside |-> <<[full[1].inside[1] EXCEPT !.inside = entries_]>>]>>

\* Blocks grouped and merged, no "-> ()", no name of a sample, the first name of a loop twice.
RECURSIVE Settled(_)
Settled(node) ==
  LET in == [i \in DOMAIN node.inside |-> Settled(node.inside[i])]
      Of(rules) == OfRule(in, rules)
      Group(rule, head) == Merged(Of({rule}), <<head, "{", "}">>)
      inside ==
        CASE node.rule = "sample" -> SubSeq(in, 1, 2)
          [] node.rule = "table_sample" -> SubSeq(in, 1, 3)
          [] node.rule \in {"for_", "game_for", "import_oracles_for"} -> [in EXCEPT ![4] = in[1]]
          [] node.rule \in {"oracle_sig", "import_oracles_oracle_sig"} ->
               SelectSeq(in, LAMBDA n : n.rule # "type_empty")
          [] node.rule = "package_spec_list" ->
               Group("types", "types") \o Group("params", "params") \o Group("state", "state")
                 \o Merged(Of({"import_oracles"}), <<>>) \o Of({"oracle_def"})
          [] node.rule = "instance_assign_list" ->
               Group("params_def", "params") \o Group("types_def", "types")
          [] node.rule \in {"composition_spec_list", "game_for_spec_list"} ->
               LET composes == Of(Composes)
               IN  Of({"const_decl"}) \o Of({"instance_decl", "game_for"})
                     \o (IF composes = <<>> THEN <<>>
                         ELSE LET bodies == FlattenSeq([i \in DOMAIN composes |-> composes[i].inside])
                              IN  <<[rule |-> composes[1].rule, inside |-> bodies,
                                     text |-> IF bodies = <<>> THEN composes[1].text ELSE <<>>]>>)
          [] OTHER -> in
  IN  [node EXCEPT !.inside = inside]

\* Types, parameters, state, imports and oracles, in this order.
InOrder(specs) ==
  LET order == <<"types", "params", "state", "import_oracles", "oracle_def">>
      Place(spec) == CHOOSE i \in DOMAIN order : order[i] = spec.rule
  IN  \A i, j \in DOMAIN specs : i < j => Place(specs[i]) <= Place(specs[j])

\* The code without the names of its samples.
RECURSIVE Unnamed(_)
Unnamed(code) ==
  [i \in DOMAIN code |->
     [code[i] EXCEPT !.name = IF code[i].op = "sample" THEN <<>> ELSE @,
                     !.blocks = [b \in DOMAIN @ |-> Unnamed(@[b])]]]
UnnamedPackage(pkg) ==
  [pkg EXCEPT !.oracles = [i \in DOMAIN @ |-> [@[i] EXCEPT !.code = Unnamed(@)]]]

-----------------------------------------------------------------------------
(* What becomes of the text of a file of some kind. *)

\* Invocations into a table are printed with two pairs of brackets, which the grammar does
\* not have: what such a file settles to is left open.  For a package in the order of the
\* formatter the package itself is kept too.
OutcomeWith(kind, text, trees, printed, packages) ==
  [isText |-> text # NotText, parses |-> trees # <<>>, printed |-> printed, panics |-> Panics(printed),
   trees |-> [i \in DOMAIN trees |-> Skeleton(trees[i])],
   settled |-> IF trees = <<>> \/ HasRule(trees[1], "table_index") THEN <<>>
               ELSE <<Settled(Skeleton(trees[1]))>>,
   packages |-> packages,
   kept |-> IF packages = <<>> \/ HasRule(trees[1], "table_index") \/ ~InOrder(trees[1].inside[2].inside)
            THEN <<>> ELSE <<UnnamedPackage(packages[1])>>]
OutcomeOfTrees(kind, text, trees) ==
  OutcomeWith(kind, text, trees,
    IF trees = <<>> THEN <<>> ELSE Printed(kind, trees[1]),
    IF kind = "package" /\ trees # <<>> THEN PackageRead(HandlePkg(trees[1])) ELSE <<>>)
Outcome(kind, text) ==
  OutcomeOfTrees(kind, text, IF kind = "other" \/ text = NotText THEN <<>> ELSE ParseFile(kind, text))

-----------------------------------------------------------------------------
(* Properties. *)

\* What is expected, unless that is left open.
Keeps(expected, found) == expected # <<>> => found = expected

\* A formatted file parses, and to the same tree as before but for what formatting is meant
\* to change.  Invocations into a table are printed with two pairs of brackets, which the
\* grammar does not have: files with one are left out.
FormattingKeepsTrees ==
  \A file \in Replaced :
    Keeps(OutcomeOf(file, original[file]).settled, OutcomeOf(file, disk[file]).trees)

\* A package that was accepted is accepted after formatting, and is the same package.  What
\* a package means depends on the order of its blocks, which formatting changes: an oracle
\* in front of the state block assigns a local variable, and the state variable of that name
\* after it.  So this is about packages whose blocks are in the order that formatting
\* uses, and about samples without the names they are given, which formatting drops.
FormattingKeepsPackages ==
  \A file \in Replaced :
    Keeps(OutcomeOf(file, original[file]).kept, OutcomeOf(file, disk[file]).packages)
=============================================================================
