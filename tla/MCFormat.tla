------------------------------ MODULE MCFormat ------------------------------
(***************************************************************************)
(* A directory with a package file, a game file and another file.  The     *)
(* package is any sequence of up to three of the blocks below, which       *)
(* between them have every construct of the grammar; the game any of those *)
(* below.                                                                  *)
(***************************************************************************)
EXTENDS FormattedTexts

MCFiles == {"pkg", "game", "other"}
MCKindOf == [pkg |-> "package", game |-> "composition", other |-> "other"]

-----------------------------------------------------------------------------
(* Packages. *)

Oracle(name, args, result, code) ==
  <<"oracle", name, "(">> \o args \o <<")">> \o result \o <<"{">> \o code \o <<"}">>

TypesBlock == <<"types", "{", "K", ",", "}">>
EmptyTypes == <<"types", "{", "}">>
ParamsBlock ==
  <<"params", "{", "n", ":", "Integer", ",", "f", ":", "fn", "Integer", ",", "Bool", "->", "Bool", "}">>
StateBlock ==
  <<"state", "{", "t", ":", "Table", "(", "Integer", ",", "Bits", "(", "2", ")", ")", ",",
    "x", ":", "Integer", ",", "}">>
MoreState ==
  <<"state", "{", "y", ":", "(", "Integer", ",", "Maybe", "(", "K", ")", ")", ",",
    "b", ":", "Bits", "(", "n", ")", "}">>
ImportsBlock ==
  <<"import", "oracles", "{", "Get", "(", "i", ":", "Integer", ")", "->", "Bits", "(", "2", ")", ",",
    "for", "j", ":", "0", "<=", "j", "<", "3", "{", "Put", "[", "j", "]", "(", ")", "->", "(", ")", ",",
    "}", "}">>

\* An oracle in front of the state: its x is its own.
Local ==
  Oracle("Local", <<>>, <<"->", "Bool">>,
    <<"x", "<-", "(", "1", "+", "2", ")", ";",
      "if", "(", "x", "==", "3", "==", "x", ")", "{", "return", "true", ";", "}",
      "else", "{", "abort", ";", "}">>)
Tables ==
  Oracle("Tables", <<"k", ":", "Integer">>, <<"->", "Maybe", "(", "Bits", "(", "2", ")", ")">>,
    <<"t", "[", "k", "]", "<-$", "Bits", "(", "2", ")", "sample-name", "key", ";",
      "t", "[", "x", "]", "<-", "Some", "(", "Unwrap", "(", "t", "[", "k", "]", ")", ")", ";",
      "assert", "not", "(", "t", "[", "k", "]", "!=", "None", "as", "Bits", "(", "2", ")", ")", ";",
      "return", "None", ";">>)
Loops ==
  Oracle("Loops", <<>>, <<"->", "(", ")">>,
    <<"for", "i", ":", "0", "<=", "i", "<", "2", "{",
      "z", "<-", "invoke", "Get", "(", "i", ")", ";",
      "w", "<-", "invoke", "Put", "[", "i", "]", "(", ")", ";", "}",
      "z", "<-$", "Bits", "(", "2", ")", ";", "return", ";">>)
Pairs ==
  Oracle("Pairs", <<>>, <<"->", "Bool">>,
    <<"(", "a", ",", "c", ")", "<-", "parse", "(", "1", ",", "new", "Table", "(", "Bool", ",", "K", ")", ")", ";",
      "a", "<-", "(", "a", "-", "1", ")", ";",
      "return", "f", "(", "a", ",", "(", "true", "and", "(", "false", "xor", "true", ")", ")", ")", ";">>)
\* Printed with two pairs of brackets.
IntoTable ==
  Oracle("IntoTable", <<>>, <<>>, <<"t", "[", "0", "]", "<-", "invoke", "Get", "(", "1", ")", ";">>)
\* Not printed at all.
Product == Oracle("Product", <<>>, <<>>, <<"p", "<-", "(", "2", "*", "3", ")", ";">>)
\* Two names for the variable of a loop.
TwoNames ==
  <<"import", "oracles", "{", "for", "i", ":", "0", "<", "j", "<", "2", "{", "}", "}">>

Blocks ==
  {TypesBlock, EmptyTypes, ParamsBlock, StateBlock, MoreState, ImportsBlock, Local, Tables, Loops,
   Pairs, IntoTable, Product, TwoNames}

PackageOf(blocks) == <<"package", "P", "{">> \o FlattenSeq(blocks) \o <<"}">>
InCanonicalOrder == <<TypesBlock, ParamsBlock, StateBlock, MoreState, ImportsBlock, Tables, Loops, Pairs, Local>>
Packages ==
  {PackageOf(blocks) : blocks \in UNION {[1..n -> Blocks] : n \in 0..2}}
    \cup {PackageOf(InCanonicalOrder), PackageOf(<<StateBlock, Local, ImportsBlock, Tables, ParamsBlock>>),
          PackageOf(<<TypesBlock, ParamsBlock, StateBlock, ImportsBlock, Loops, Pairs>>),
          PackageOf(<<ImportsBlock, Loops, Tables, StateBlock>>),
          PackageOf(<<ImportsBlock, StateBlock, Tables, Loops>>),
          PackageOf(<<ParamsBlock, TypesBlock, Pairs, MoreState>>),
          PackageOf(<<Local>>) \o <<"package", "Q", "{", "}">>, <<"package", "P", "{">>}

-----------------------------------------------------------------------------
(* Games. *)

Instance(name, more) == <<"instance">> \o name \o <<"=", "P", "{">> \o more \o <<"}">>
Compose(bodies) == <<"compose", "{">> \o bodies \o <<"}">>
TypesAndParams ==
  <<"types", "{", "K", ":", "Integer", "}", "params", "{", "n", ":", "n", "}", "params", "{", "m", ":", "1", ",", "}">>
Edges == <<"p", ":", "{", "Get", ":", "q", ",", "Put", ":", "q", "}", ",">>
Adversary == <<"adversary", ":", "{", "Local", ":", "p", "}">>
LoopOver(inside) == <<"for", "i", ":", "1", "<=", "i", "<=", "n", "{">> \o inside \o <<"}">>
GameOf(parts) == <<"composition", "G", "{">> \o FlattenSeq(parts) \o <<"}">>
Const == <<"const", "n", ":", "Integer", ";">>

Games ==
  {GameOf(<<>>),
   GameOf(<<Const, Instance(<<"p">>, TypesAndParams), Instance(<<"q">>, <<>>),
            Compose(Edges \o Adversary)>>),
   GameOf(<<Instance(<<"p">>, <<>>), Compose(Edges), Compose(Adversary)>>),
   GameOf(<<Const, Instance(<<"q">>, <<"params", "{", "}">>),
            LoopOver(Instance(<<"p", "[", "i", "]">>, TypesAndParams)),
            Compose(Adversary),
            LoopOver(Compose(<<"p", "[", "i", "]", ":", "{", "with", "index", "[", "i", "]", "Get", ":", "q", ",", "}">>))>>),
   GameOf(<<Instance(<<"p">>, <<>>), Compose(<<"p", ":", "{", "}">>)>>),
   GameOf(<<Instance(<<"p">>, <<>>), Const>>)}

-----------------------------------------------------------------------------

SomePackage == PackageOf(InCanonicalOrder)
SomeGame == GameOf(<<Instance(<<"p">>, <<>>), Compose(Edges)>>)
Dir(pkg, game, other) == [pkg |-> pkg, game |-> game, other |-> other]
MCDirectories ==
  {Dir(pkg, SomeGame, <<"text">>) : pkg \in Packages}
    \cup {Dir(SomePackage, game, NotText) : game \in Games}
    \cup {Dir(SomePackage, game, <<"text">>) : game \in Games}
\* The outcomes of these texts, and of what is printed for them.  A set that is the value of a
\* variable is evaluated once.
MCTexts == UNION {{<<file, dir[file]>> : file \in MCFiles} : dir \in MCDirectories}
OutcomePairs(texts) == {<<entry, Outcome(MCKindOf[entry[1]], entry[2])>> : entry \in texts}
PrintedTexts(pairs) == {<<pair[1][1], pair[2].printed>> : pair \in {p \in pairs : p[2].parses}}
AsFunction(pairs) ==
  [entry \in {pair[1] : pair \in pairs} |-> (CHOOSE pair \in pairs : pair[1] = entry)[2]]
MCOutcomes ==
  AsFunction(FoldLeft(LAMBDA pairs, round : pairs \cup
                        OutcomePairs(IF round = 1 THEN MCTexts ELSE PrintedTexts(pairs)),
                      {}, <<1, 2>>))
=============================================================================
