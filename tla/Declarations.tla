---------------------------- MODULE Declarations ----------------------------
(***************************************************************************)
(* What an equivalence proof tells the solver before the first claim:      *)
(* EquivalenceContext::emit_base_declarations, emit_proof_paramfuncs,      *)
(* emit_game_definitions, emit_constant_declarations and                   *)
(* emit_return_value_helpers of src/src/gamehops/equivalence/mod.rs, with  *)
(* the patterns of src/src/writers/smt/ they take names and sorts from,    *)
(* for a proof of Proofs: its constants, the two game instances of the     *)
(* equivalence, their games and packages.                                  *)
(*                                                                         *)
(* Names are put together in one place and used in others, and a type      *)
(* becomes a sort in two ways.  Nothing but the solver compares them, and  *)
(* what it refuses is refused at a line of SMT-LIB that no user wrote.     *)
(***************************************************************************)
EXTENDS SmtScript

CONSTANT Proofs

VARIABLES
  proof,     \* what was parsed: [consts, sides], two sides [name, game, assign]
  sides,     \* the game instances, as far as they are instantiated
  types,     \* the types extracted from each
  session,   \* what the solver knows, and what it refused
  pc

vars == <<proof, sides, types, session, pc>>

Left == sides[1]
Right == sides[2]

-----------------------------------------------------------------------------
(* Names and sorts. *)

Ints(decls) == SelectSeq(decls, LAMBDA d : d[2] = Integer)
NonFns(decls) == SelectSeq(decls, LAMBDA d : d[2][1] # "fn")
\* variant: the parameters are no part of the name
EncodedNot(decls, assign) == <<>>
\* encode_params: the constants the parameters are assigned, each by its own name.
Encoded(decls, assign) == [i \in DOMAIN decls |-> assign[decls[i][1]].own]

GameParams(gi) == Encoded(Ints(gi.game.consts), gi.assign)
PkgParams(entry) == Encoded(Ints(entry.pkg.params), entry.assign)

ProofConstsSort == <<"ProofConsts">>
GameConstsSort(game) == <<"GameConsts", game.name>>
PkgConstsSort(pkg) == <<"PackageConsts", pkg.name>>
GameStateSort(gi) == <<"GameState", gi.game.name, GameParams(gi)>>
PkgStateSort(entry) == <<"PackageState", entry.pkg.name, PkgParams(entry)>>
ReturnSort(gi, entry, oracle) ==
  <<"OracleReturn", gi.game.name, GameParams(gi), entry.pkg.name, PkgParams(entry), oracle>>

Make(sort) == <<"mk", sort>>
Field(sort, field) == <<"field", sort, field>>
Get(sort, field, t) == Apply(Field(sort, field), <<t>>)

RandFun(gi, t) == <<"sample-rand", gi.name, SmtSort(t)>>
GameMapping(gi) == <<"gameconsts", gi.name>>
PkgMapping(game, entry) == <<"pkgconsts", game.name, entry.inst>>
OracleFun(gi, entry, oracle) ==
  <<"oracle", gi.game.name, gi.name, entry.pkg.name, entry.inst,
    Encoded(entry.pkg.params, entry.assign), oracle>>

GameState == Local("<game-state>")
GameConsts == Local("<game-consts>")
Result == Local("return")

-----------------------------------------------------------------------------
(* emit_base_declarations and emit_proof_paramfuncs. *)

\* variant: only what was extracted
NoProofLengths == {}
\* types(): what was extracted, and a length for every integer of the proof.
ProofLengths == {Bits(ProofConst(d[1])) : d \in {x \in ToSet(proof.consts) : x[2] = Integer}}
AllTypes == types[1] \union types[2] \union ProofLengths
\* Only lengths that are not nested are looked at.
Lengths == {t[2] : t \in {t \in AllTypes : t[1] = "bits"}}

Unresolved(length) ==
  \/ length.lvl = "pkg" /\ length.up # <<>> /\ length.up[1].lvl = "game" /\ length.up[1].up = <<>>
  \/ length.lvl = "game" /\ length.up = <<>>
Suffix(length) == IF Unresolved(length) THEN length.own ELSE ProofName(length)
\* A number that is assigned to a constant is left to be done.
NoSuffix(length) == ~ Unresolved(length) /\ length.lvl # "literal" /\ AsProofIdentifier(length) = <<>>

BaseDeclarations ==
  SetToSeq({DeclareSort(BitsSort(Suffix(length))) : length \in Lengths})
    \o <<DeclareSort(<<"Maybe">>), DeclareSort(<<"ReturnValue">>), DeclareSort(SampleIdSort)>>

ProofFuns == SelectSeq(proof.consts, LAMBDA d : d[2][1] = "fn")
ProofParamfuncs ==
  [i \in DOMAIN ProofFuns |->
     LET d == ProofFuns[i]
     IN  DeclareFun(<<"func", d[1]>>, <<SmtSort(d[2][2])>>, SmtSort(d[2][3]))]

-----------------------------------------------------------------------------
(* emit_game_definitions: the datatypes. *)

CompositionRandomness(gi) ==
  SetToSeq({DeclareFun(RandFun(gi, p.t), <<SampleIdSort, IntSort>>, SmtSort(p.t)) :
              p \in ToSet(PositionsIn(gi.game))})

Fields(sort, decls) == [i \in DOMAIN decls |-> <<Field(sort, decls[i][1]), SmtSort(decls[i][2])>>]
Record(sort, decls) == DeclareDatatype(sort, Make(sort), Fields(sort, decls))

PkgEntries(gi) == gi.game.pkgs
PackageConstDefinitions ==
  Deduplicated([i \in DOMAIN (PkgEntries(Left) \o PkgEntries(Right)) |->
    LET e == (PkgEntries(Left) \o PkgEntries(Right))[i]
    IN  Record(PkgConstsSort(e.pkg), NonFns(e.pkg.params))])
PackageStateDefinitions ==
  Deduplicated([i \in DOMAIN (PkgEntries(Left) \o PkgEntries(Right)) |->
    LET e == (PkgEntries(Left) \o PkgEntries(Right))[i]
    IN  Record(PkgStateSort(e), e.pkg.state)])

ProofConstDefinition == <<Record(ProofConstsSort, NonFns(proof.consts))>>
GameConstDefinitions ==
  Deduplicated([s \in 1..2 |-> Record(GameConstsSort(sides[s].game), NonFns(sides[s].game.consts))])

\* A game's state has that of each package instance and a counter for each sample.
GameFields(gi) ==
  [i \in DOMAIN gi.game.pkgs |->
     <<Field(GameStateSort(gi), <<"pkgstate", gi.game.pkgs[i].inst>>), PkgStateSort(gi.game.pkgs[i])>>]
  \o [i \in DOMAIN PositionsIn(gi.game) |->
     <<Field(GameStateSort(gi), <<"rand", PositionsIn(gi.game)[i].id>>), IntSort>>]
GameStateDefinitions ==
  Deduplicated([s \in 1..2 |->
    DeclareDatatype(GameStateSort(sides[s]), Make(GameStateSort(sides[s])), GameFields(sides[s]))])

\* The functions from the constants of the proof to those of a game instance, and
\* from there to those of a package instance; the constants of the former are bound
\* by name.
Bound(sort, decls, t) == [i \in DOMAIN decls |-> <<<<"local", decls[i][1]>>, Get(sort, decls[i][1], t)>>]
Assigned(e) == IF e.lvl = "literal" THEN Zero ELSE Local(e.own)
Mapping(name, arg, from, decls, to, toDecls, assign) ==
  DefineFun(name, <<<<<<"local", arg>>, from>>>>, to,
    LetIn(Bound(from, decls, Local(arg)),
          Apply(Make(to), [i \in DOMAIN toDecls |-> Assigned(assign[toDecls[i][1]])])))

GameMappings ==
  [s \in 1..2 |->
    Mapping(GameMapping(sides[s]), "<proof-consts>", ProofConstsSort, NonFns(proof.consts),
            GameConstsSort(sides[s].game), NonFns(sides[s].game.consts), sides[s].assign)]
PkgMappings ==
  Deduplicated(FlattenSeq([s \in 1..2 |->
    LET game == sides[s].game
    IN  [i \in DOMAIN game.pkgs |->
           Mapping(PkgMapping(game, game.pkgs[i]), "<game-consts>", GameConstsSort(game),
                   NonFns(game.consts), PkgConstsSort(game.pkgs[i].pkg),
                   NonFns(game.pkgs[i].pkg.params), game.pkgs[i].assign)]]))

OraclesOf(gi) ==
  FlattenSeq([i \in DOMAIN gi.game.pkgs |->
    [o \in DOMAIN gi.game.pkgs[i].pkg.oracles |->
       [gi |-> gi, entry |-> gi.game.pkgs[i], def |-> gi.game.pkgs[i].pkg.oracles[o]]]])

ReturnFields(c) ==
  LET sort == ReturnSort(c.gi, c.entry, c.def.name)
  IN  <<<<Field(sort, "game-state"), GameStateSort(c.gi)>>,
        <<Field(sort, "return-value-or-abort"), ReturnValueSort(SmtSort(c.def.ret))>>>>
ReturnDefinitions ==
  LET all == OraclesOf(Left) \o OraclesOf(Right)
  IN  Deduplicated([i \in DOMAIN all |->
        LET sort == ReturnSort(all[i].gi, all[i].entry, all[i].def.name)
        IN  DeclareDatatype(sort, Make(sort), ReturnFields(all[i]))])

-----------------------------------------------------------------------------
(* emit_game_definitions: one function for each oracle of each package     *)
(* instance, in the order of the file.  A call [gi, entry, def] says which. *)

RECURSIVE ExprTerm(_)
ExprTerm(e) ==
  CASE e.op = "var" -> Local(e.x)
    [] e.op = "number" -> Zero
    [] e.op = "call" -> Apply(<<"func", ProofName(e.fn)>>, [i \in DOMAIN e.args |-> ExprTerm(e.args[i])])

FunOf(c) == OracleFun(c.gi, c.entry, c.def.name)
ReturnSortOf(c) == ReturnSort(c.gi, c.entry, c.def.name)
StateOf(c, t) == Get(ReturnSortOf(c), "game-state", t)
ValueOf(c, t) == Get(ReturnSortOf(c), "return-value-or-abort", t)
AbortValue(c) == As("mk-abort", ReturnValueSort(OwnSort(c.def.ret)))
Callee(c, oracle) ==
  LET entry == c.gi.game.pkgs[c.entry.calls[oracle]]
  IN  [gi |-> c.gi, entry |-> entry, def |-> entry.pkg.oracles[OracleNamed(entry.pkg, oracle)]]

\* The game state with one field replaced.
Updated(gi, field, value) ==
  Apply(Make(GameStateSort(gi)),
        [i \in DOMAIN GameFields(gi) |->
           LET name == GameFields(gi)[i][1]
           IN  IF name = Field(GameStateSort(gi), field) THEN value ELSE Apply(name, <<GameState>>)])

\* smt_write_back_state: the package's state is in local variables.
WriteBack(c) ==
  Updated(c.gi, <<"pkgstate", c.entry.inst>>,
          Apply(Make(PkgStateSort(c.entry)),
                [i \in DOMAIN c.entry.pkg.state |-> Local(c.entry.pkg.state[i][1])]))
ReturnTerm(c, value) == Apply(Make(ReturnSortOf(c)), <<WriteBack(c), value>>)

Named(x) == <<"local", x>>
SampleTerm(c, k, s, rest) ==
  LET field == <<"rand", <<c.entry.inst, c.def.name, k>>>>
      counter == Get(GameStateSort(c.gi), field, GameState)
  IN  LetIn(<<<<Named(s.x), Apply(RandFun(c.gi, s.t), <<BuiltIn("sample-id", <<>>), counter>>)>>>>,
        LetIn(<<<<Named("<game-state>"), Updated(c.gi, field, BuiltIn("+", <<Zero, counter>>))>>>>, rest))

\* The value is that of the function called, but it is compared with an abort of the
\* type the oracle declares.
InvokeTerm(c, s, rest) ==
  LET callee == Callee(c, s.oracle)
      args == [i \in DOMAIN s.args |-> ExprTerm(s.args[i])]
      state == <<Named("<game-state>"), StateOf(callee, Result)>>
  IN  LetIn(<<<<Named("return"), Apply(FunOf(callee), <<GameState, GameConsts>> \o args)>>>>,
        If(Eq(ValueOf(callee, Result), AbortValue(callee)),
           LetIn(<<state>>, ReturnTerm(c, AbortValue(c))),
           LetIn(<<state, <<Named(s.x), BuiltIn("return-value", <<ValueOf(callee, Result)>>)>>>>, rest)))

StatementTerm(c, k, rest) ==
  LET s == c.def.code[k]
  IN  CASE s.op = "sample" -> SampleTerm(c, k, s, rest)
        [] s.op = "assign" -> LetIn(<<<<Named(s.x), ExprTerm(s.args[1])>>>>, rest)
        [] s.op = "invoke" -> InvokeTerm(c, s, rest)
        [] s.op = "return" -> ReturnTerm(c, BuiltIn("mk-return-value", <<ExprTerm(s.args[1])>>))

CodeTerm(c) ==
  FoldRight(LAMBDA k, rest : StatementTerm(c, k, rest), [k \in DOMAIN c.def.code |-> k], Zero)

OracleDefinition(c) ==
  LET pkg == c.entry.pkg
      state == Get(GameStateSort(c.gi), <<"pkgstate", c.entry.inst>>, GameState)
      consts == Apply(PkgMapping(c.gi.game, c.entry), <<GameConsts>>)
  IN  DefineFun(FunOf(c),
        <<<<Named("<game-state>"), GameStateSort(c.gi)>>, <<Named("<game-consts>"), GameConstsSort(c.gi.game)>>>>
          \o [i \in DOMAIN c.def.args |-> <<Named(c.def.args[i][1]), OwnSort(c.def.args[i][2])>>],
        ReturnSortOf(c),
        LetIn(Bound(PkgStateSort(c.entry), pkg.state, state),
              LetIn(Bound(PkgConstsSort(pkg), NonFns(pkg.params), consts), CodeTerm(c))))

OracleDefinitions ==
  LET all == OraclesOf(Left) \o OraclesOf(Right)
  IN  Deduplicated([i \in DOMAIN all |-> OracleDefinition(all[i])])

-----------------------------------------------------------------------------
(* emit_constant_declarations. *)

OldState(gi) == <<"game-state", gi.name, "old">>
NewState(gi, oracle) == <<"game-state", gi.name, "new", oracle>>
ProofConsts == <<"proof-consts">>
GameConstsOf(gi) == <<"game-consts", gi.name>>
Arg(oracle, x) == <<"arg", oracle, x>>
Returned(gi, oracle) == <<"return", gi.name, oracle>>
ReturnedValue(c) == <<"return-value", c.gi.name, c.entry.inst, c.def.name>>

\* An exported oracle, with the signature the game has for it.
Exported(gi, export) ==
  LET entry == gi.game.pkgs[export.idx]
  IN  [gi |-> gi, entry |-> entry, def |-> entry.pkg.oracles[OracleNamed(entry.pkg, export.sig.name)],
       sig |-> export.sig]
ExportsOf(gi) == [i \in DOMAIN gi.game.exports |-> Exported(gi, gi.game.exports[i])]

DeclareThenAssert(name, sort, value) == <<DeclareConst(name, sort), AssertTerm(Eq(Const(name), value))>>

\* The right game's oracles take the arguments declared for the left game's.
ArgumentDeclarations ==
  FlattenSeq([i \in DOMAIN ExportsOf(Left) |->
    LET sig == ExportsOf(Left)[i].sig
    IN  [j \in DOMAIN sig.args |-> DeclareConst(Arg(sig.name, sig.args[j][1]), OwnSort(sig.args[j][2]))]])

\* build_returns
Returns(gi) ==
  FlattenSeq([i \in DOMAIN ExportsOf(gi) |->
    LET c == ExportsOf(gi)[i]
        oracle == c.sig.name
        args == [j \in DOMAIN c.sig.args |-> Const(Arg(oracle, c.sig.args[j][1]))]
        returned == Const(Returned(gi, oracle))
    IN  DeclareThenAssert(Returned(gi, oracle), ReturnSortOf(c),
                          Apply(FunOf(c), <<Const(OldState(gi)), Const(GameConstsOf(gi))>> \o args))
          \o DeclareThenAssert(ReturnedValue(c), ReturnValueSort(OwnSort(c.sig.ret)), ValueOf(c, returned))
          \o DeclareThenAssert(<<"is-abort", ReturnedValue(c)>>, BoolSort, IsAbort(Const(ReturnedValue(c))))
          \o DeclareThenAssert(NewState(gi, oracle), GameStateSort(gi), StateOf(c, returned))])

\* build_rands
Rands(gi) ==
  FlattenSeq([i \in DOMAIN PositionsIn(gi.game) |->
    LET p == PositionsIn(gi.game)[i]
        counter == <<"randctr", gi.name, p.id>>
    IN  DeclareThenAssert(counter, IntSort, Get(GameStateSort(gi), <<"rand", p.id>>, Const(OldState(gi))))
          \o DeclareThenAssert(<<"randval", gi.name, p.id>>, OwnSort(p.t),
               Apply(RandFun(gi, p.t), <<BuiltIn("sample-id", <<>>), BuiltIn("+", <<Zero, Const(counter)>>)>>))])

IsSample(x) == Eq(BuiltIn("sample-id", <<>>), Local(x))

\* smt_define_randctr_function
RandCtrDefinition(gi) ==
  DefineFun(<<"get-rand-ctr", gi.name>>, <<<<Named("sampleid"), SampleIdSort>>>>, IntSort,
    FoldLeft(LAMBDA body, p :
               If(IsSample("sampleid"), Get(GameStateSort(gi), <<"rand", p.id>>, Const(OldState(gi))), body),
             Zero, PositionsIn(gi.game)))

\* smt_define_randeq_function: of the types both games sample, where the identifiers
\* of two instances are never the same and only a length that is not nested is
\* replaced by the proof's constant.
SameSampled(t, u) ==
  IF t[1] = "bits" /\ u[1] = "bits" THEN BitsSort(ProofName(t[2])) = BitsSort(ProofName(u[2]))
  ELSE t = u /\ \A length \in LengthsIn(t) : length.lvl = "literal"
CommonlySampled ==
  {SmtSort(p.t) : p \in {p \in ToSet(PositionsIn(Left.game)) :
                           \E q \in ToSet(PositionsIn(Right.game)) : SameSampled(p.t, q.t)}}
RandEqDefinition ==
  LET rand(gi, sort, x, ctr) == Apply(<<"sample-rand", gi.name, sort>>, <<Local(x), Local(ctr)>>)
  IN  DefineFun(<<"rand-is-eq">>,
        <<<<Named("sample-id-left"), SampleIdSort>>, <<Named("sample-id-right"), SampleIdSort>>,
          <<Named("sample-ctr-left"), IntSort>>, <<Named("sample-ctr-right"), IntSort>>>>, BoolSort,
        FoldLeft(LAMBDA body, sort :
                   If(BuiltIn("and", <<IsSample("sample-id-left"), IsSample("sample-id-right")>>),
                      Eq(rand(Left, sort, "sample-id-left", "sample-ctr-left"),
                         rand(Right, sort, "sample-id-right", "sample-ctr-right")), body),
                 BuiltIn("and", <<>>), SetToSeq(CommonlySampled)))

ConstantDeclarations ==
  [s \in 1..2 |-> DeclareConst(OldState(sides[s]), GameStateSort(sides[s]))]
    \o <<DeclareConst(ProofConsts, ProofConstsSort)>>
    \o [s \in 1..2 |-> DefineFun(GameConstsOf(sides[s]), <<>>, GameConstsSort(sides[s].game),
                                 Apply(GameMapping(sides[s]), <<Const(ProofConsts)>>))]
    \o ArgumentDeclarations \o Returns(Left) \o Returns(Right) \o Rands(Left) \o Rands(Right)
    \o <<RandCtrDefinition(Left), RandCtrDefinition(Right), RandEqDefinition>>

-----------------------------------------------------------------------------
(* emit_return_value_helpers, for each oracle the left game exports.       *)

ExportNamed(gi, oracle) ==
  CHOOSE i \in DOMAIN ExportsOf(gi) : ExportsOf(gi)[i].sig.name = oracle
OracleSequence == [i \in DOMAIN Left.game.exports |-> Left.game.exports[i].sig.name]
RightLacksOracle == \E oracle \in ToSet(OracleSequence) :
                      \A i \in DOMAIN Right.game.exports : Right.game.exports[i].sig.name # oracle

Relation(name, l, r, body) ==
  DefineFun(<<"relation", name, Left.name, Right.name, l.def.name>>,
    <<<<Named("old-state-left"), GameStateSort(Left)>>, <<Named("old-state-right"), GameStateSort(Right)>>,
      <<Named("return-left"), ReturnSortOf(l)>>, <<Named("return-right"), ReturnSortOf(r)>>>>
      \o [i \in DOMAIN l.def.args |-> <<Named(l.def.args[i][1]), OwnSort(l.def.args[i][2])>>],
    BoolSort, body)

Helpers(oracle) ==
  LET l == ExportsOf(Left)[ExportNamed(Left, oracle)]
      r == ExportsOf(Right)[ExportNamed(Right, oracle)]
      left == Const(ReturnedValue(l))
      right == Const(ReturnedValue(r))
      valueLeft == ValueOf(l, Local("return-left"))
      valueRight == ValueOf(r, Local("return-right"))
      NoAbort(value) == BuiltIn("not", <<IsAbort(value)>>)
  IN  DeclareThenAssert(<<"equal-aborts">>, BoolSort, Eq(IsAbort(left), IsAbort(right)))
        \o DeclareThenAssert(<<"no-aborts">>, BoolSort, BuiltIn("and", <<NoAbort(left), NoAbort(right)>>))
        \o DeclareThenAssert(<<"same-outputs">>, BoolSort, Eq(left, right))
        \o <<Relation("equal-aborts", l, r, Eq(IsAbort(valueLeft), IsAbort(valueRight))),
             Relation("left-no-abort", l, r, NoAbort(valueLeft)),
             Relation("right-no-abort", l, r, NoAbort(valueRight)),
             Relation("no-abort", l, r, BuiltIn("and", <<NoAbort(valueLeft), NoAbort(valueRight)>>)),
             Relation("same-output", l, r, Eq(valueLeft, valueRight))>>

-----------------------------------------------------------------------------
Init ==
  /\ proof \in Proofs
  /\ sides = <<>>
  /\ types = <<>>
  /\ session = EmptySession
  /\ pc = "parse_games"

\* Parsing the games instantiates the packages, parsing the proof the games.
InstantiatePackages ==
  /\ pc = "parse_games"
  /\ sides' = [s \in 1..2 |-> [proof.sides[s] EXCEPT !.game = Composed(@)]]
  /\ pc' = "parse_proof"
  /\ UNCHANGED <<proof, types, session>>

InstantiateGames ==
  /\ pc = "parse_proof"
  /\ IF \E s \in 1..2 : InstantiationPanics(sides[s])
       THEN pc' = "panicked" /\ UNCHANGED sides
       ELSE pc' = "transform" /\ sides' = [s \in 1..2 |-> NewGameInstance(sides[s])]
  /\ UNCHANGED <<proof, types, session>>

\* EquivalenceTransform: what the writers need beside the instances.
ExtractTypes ==
  /\ pc = "transform"
  /\ types' = [s \in 1..2 |-> TypesIn(sides[s].game)]
  /\ pc' = "base"
  /\ UNCHANGED <<proof, sides, session>>

\* A section of the script, which is left out with all that follows when the program
\* panics on the way.
Section(here, panics, script, next) ==
  /\ pc = here
  /\ IF panics
       THEN pc' = "panicked" /\ UNCHANGED session
       ELSE pc' = next /\ session' = WriteAll(session, script)
  /\ UNCHANGED <<proof, sides, types>>

EmitBaseDeclarations ==
  Section("base", \E length \in Lengths : NoSuffix(length), BaseDeclarations, "paramfuncs")

EmitProofParamfuncs == Section("paramfuncs", FALSE, ProofParamfuncs, "games")

\* The types that become sorts by the name of the proof's constant.
ConvertedTypes ==
  UNION {{p.t : p \in ToSet(PositionsIn(sides[s].game))} : s \in 1..2}
    \union UNION {UNION {DeclTypes(sides[s].game.pkgs[i].pkg.state)
                           \union DeclTypes(NonFns(sides[s].game.pkgs[i].pkg.params)) :
                           i \in DOMAIN sides[s].game.pkgs} : s \in 1..2}
    \union UNION {{c.def.ret : c \in ToSet(OraclesOf(sides[s]))} : s \in 1..2}

GameDefinitions ==
  CompositionRandomness(Left) \o CompositionRandomness(Right)
    \o PackageConstDefinitions \o PackageStateDefinitions
    \o ProofConstDefinition \o GameConstDefinitions \o GameStateDefinitions
    \o GameMappings \o PkgMappings
    \o ReturnDefinitions \o OracleDefinitions

EmitGameDefinitions ==
  Section("games", \E t \in ConvertedTypes : NoSmtSort(t), GameDefinitions, "constants")

EmitConstantDeclarations == Section("constants", FALSE, ConstantDeclarations, "helpers")

\* Between a push and a pop for each oracle, where no name is declared yet.
EmitReturnValueHelpers ==
  /\ pc = "helpers"
  /\ IF RightLacksOracle
       THEN pc' = "panicked" /\ UNCHANGED session
       ELSE /\ pc' = "finished"
            /\ session' = [session EXCEPT !.refused =
                 FoldLeft(LAMBDA refused, oracle :
                            refused \o WriteAll([session EXCEPT !.refused = <<>>], Helpers(oracle)).refused,
                          @, OracleSequence)]
  /\ UNCHANGED <<proof, sides, types>>

Done == pc \in {"finished", "panicked"} /\ UNCHANGED vars

Next ==
  \/ InstantiatePackages \/ InstantiateGames \/ ExtractTypes
  \/ EmitBaseDeclarations \/ EmitProofParamfuncs \/ EmitGameDefinitions
  \/ EmitConstantDeclarations \/ EmitReturnValueHelpers
  \/ Done

Spec == Init /\ [][Next]_vars

-----------------------------------------------------------------------------
(* What the files say, before anything is instantiated.                    *)

\* The proof's constant, or the number, that a package's constant is assigned.
ValueIn(side, entry, c) ==
  LET v == entry.assign[c] IN IF v.lvl = "game" THEN side.assign[v.own] ELSE v

RECURSIVE Meant(_, _, _)
Meant(side, entry, t) ==
  IF t[1] = "bits" THEN Bits(ValueIn(side, entry, t[2].own))
  ELSE [i \in DOMAIN t |-> IF i = 1 THEN t[1] ELSE Meant(side, entry, t[i])]

SampledIn(pkg) == {p.t : p \in UNION {{s \in ToSet(pkg.oracles[o].code) : s.op = "sample"} : o \in DOMAIN pkg.oracles}}
\* Types that become a sort by the name of the length, as well as by that of the proof's.
NamedTypes(pkg) == SampledIn(pkg) \union UNION {SigTypes(sig) : sig \in ToSet(pkg.oracles) \union ToSet(pkg.imports)}
UsedTypes(pkg) == NamedTypes(pkg) \union DeclTypes(pkg.state)
ConstsIn(ts) == {length.own : length \in UNION {LengthsIn(t) : t \in ts}}

Sides == ToSet(proof.sides)
LengthsAreConstants ==
  \A side \in Sides : \A e \in ToSet(side.game.pkgs) :
    \A c \in ConstsIn(UsedTypes(e.pkg)) : ValueIn(side, e, c).lvl = "proof"
NamesKept ==
  \A side \in Sides : \A e \in ToSet(side.game.pkgs) :
    \A c \in ConstsIn(NamedTypes(e.pkg)) : ValueIn(side, e, c).own = c
CalleesFirst ==
  \A side \in Sides : \A i \in DOMAIN side.game.pkgs :
    \A o \in DOMAIN side.game.pkgs[i].calls : side.game.pkgs[i].calls[o] < i

\* The oracles a game exports: their name, and what their types mean.
ExportedBy(side) ==
  {LET e == side.game.pkgs[x[1]]
       def == e.pkg.oracles[OracleNamed(e.pkg, x[2])]
   IN  [name |-> x[2], ret |-> Meant(side, e, def.ret),
        args |-> [i \in DOMAIN def.args |-> <<def.args[i][1], Meant(side, e, def.args[i][2])>>]] :
     x \in ToSet(side.game.exports)}
\* No oracle is exported twice, which the parser of games allows; the left game's
\* oracles are also the right game's, and what arguments the right game's have, those
\* of the left game have too.
ExportsAgree ==
  LET left == ExportedBy(proof.sides[1])
      right == ExportedBy(proof.sides[2])
  IN  /\ \A side \in Sides : IsInjective([i \in DOMAIN side.game.exports |-> side.game.exports[i][2]])
      /\ \A l \in left : \E r \in right : r.name = l.name /\ r.ret = l.ret
      /\ \A r \in right :
           \/ r.args = <<>>
           \/ \E l \in left : l.name = r.name /\ ToSet(r.args) \subseteq ToSet(l.args)

-----------------------------------------------------------------------------
(* Properties.                                                             *)

Stopped == pc \in {"finished", "panicked"}
Accepted == pc = "finished" /\ session.refused = <<>>

\* The program writes a script to its end of which the solver refuses nothing exactly
\* when the lengths in use are constants of the proof, those in signatures and samples
\* keep their name from the package to the proof, packages stand behind the ones they
\* call, and the right game has what the left game exports, once.
ScriptWellSorted ==
  Stopped => (Accepted <=> /\ LengthsAreConstants
                           /\ NamesKept
                           /\ CalleesFirst
                           /\ ExportsAgree)

\* The names of what is assigned to a package's constants, which are part of the name
\* of its state, tell what these constants are for the proof.
NamesTell ==
  \A s1, s2 \in Sides : \A e1 \in ToSet(s1.game.pkgs), e2 \in ToSet(s2.game.pkgs) :
    /\ e1.pkg.name = e2.pkg.name
    /\ \A c \in DOMAIN e1.assign : e1.assign[c].own = e2.assign[c].own
    => \A c \in ConstsIn(DeclTypes(e1.pkg.state)) : ValueIn(s1, e1, c) = ValueIn(s2, e2, c)
\* In a script that is accepted each package instance has a state, results and samples
\* of the lengths the proof assigns through its game, whatever other instance was
\* declared before it: no declaration skipped as known was that of another type.
DeclaredAsMeant ==
  Accepted =>
    \A s \in 1..2 : \A i \in DOMAIN sides[s].game.pkgs :
      LET e == proof.sides[s].game.pkgs[i]
          entry == sides[s].game.pkgs[i]
          Sort(t) == SmtSort(Meant(proof.sides[s], e, t))
          Declared(sort, field) == session.funs[Field(sort, field)].ret
      IN  /\ NamesTell => \A d \in ToSet(e.pkg.state) : Declared(PkgStateSort(entry), d[1]) = Sort(d[2])
          /\ \A def \in ToSet(e.pkg.oracles) :
               Declared(ReturnSort(sides[s], entry, def.name), "return-value-or-abort")
                 = ReturnValueSort(Sort(def.ret))
          /\ \A t \in SampledIn(e.pkg) :
               session.funs[<<"sample-rand", sides[s].name, Sort(t)>>].ret = Sort(t)
=============================================================================
