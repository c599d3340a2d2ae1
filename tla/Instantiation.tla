--------------------------- MODULE Instantiation ---------------------------
(***************************************************************************)
(* How the constants of a package become those of a proof: PackageInstance *)
(* ::new puts a package into a game (src/src/packageinstance.rs), and      *)
(* GameInstance::new puts the game into a proof (src/src/proof.rs).  Both  *)
(* leave the names in place and only attach to each identifier what it is  *)
(* assigned, so that an identifier carries the chain of its assignments:   *)
(*                                                                         *)
(*    [lvl |-> "pkg",  own |-> "n",  up |-> <<                             *)
(*    [lvl |-> "game", own |-> "m",  up |-> <<                             *)
(*    [lvl |-> "proof", own |-> "k", up |-> <<>>] >>] >>]                  *)
(*                                                                         *)
(* with an empty .up where nothing is attached (yet).  Only what has to do *)
(* with types is kept of a package: its state, its signatures and, of the  *)
(* code, samples, assignments, invocations and returns.                    *)
(***************************************************************************)
EXTENDS Naturals, Sequences, SequencesExt, FiniteSetsExt

Ident(lvl, own) == [lvl |-> lvl, own |-> own, up |-> <<>>]
PkgConst(own) == Ident("pkg", own)
GameConst(own) == Ident("game", own)
ProofConst(own) == Ident("proof", own)
Literal(number) == Ident("literal", number)

Integer == <<"int">>
Bits(length) == <<"bits", length>>
MaybeOf(t) == <<"maybe", t>>
TableOf(key, value) == <<"table", key, value>>
FnFrom(arg, ret) == <<"fn", arg, ret>>

\* The proof constant an identifier stands for, in a sequence that is empty when
\* the chain ends before the proof.
RECURSIVE AsProofIdentifier(_)
AsProofIdentifier(ident) ==
  IF ident.lvl = "proof" THEN <<ident.own>>
  ELSE IF ident.lvl = "literal" \/ ident.up = <<>> THEN <<>>
  ELSE AsProofIdentifier(ident.up[1])

-----------------------------------------------------------------------------
(* An instantiation: of kind "pkg" or "game", with the expression assigned *)
(* to each constant of that level.                                         *)

RewriteGameIdentifier(inst, ident) ==
  IF ident.lvl = "game" THEN [ident EXCEPT !.up = <<inst.assign[ident.own]>>] ELSE ident

\* When a game is instantiated, it is the game's constant inside a package's
\* constant that is looked up.
RewriteIdent(inst, ident) ==
  IF inst.kind = "pkg"
    THEN IF ident.lvl = "pkg" THEN [ident EXCEPT !.up = <<inst.assign[ident.own]>>] ELSE ident
    ELSE IF ident.lvl = "pkg" /\ ident.up # <<>>
           THEN [ident EXCEPT !.up = <<RewriteGameIdentifier(inst, ident.up[1])>>]
           ELSE RewriteGameIdentifier(inst, ident)

RECURSIVE RewriteType(_, _)
RewriteType(inst, t) ==
  IF t[1] = "bits" THEN Bits(RewriteIdent(inst, t[2]))
  ELSE [i \in DOMAIN t |-> IF i = 1 THEN t[1] ELSE RewriteType(inst, t[i])]

\* base_rewrite_rules: from a constant with nothing attached, of the level that is
\* instantiated, to the same with its assignment.
BaseRules(inst) ==
  {<<Bits(Ident(inst.kind, c)), Bits([Ident(inst.kind, c) EXCEPT !.up = <<inst.assign[c]>>])>> :
     c \in DOMAIN inst.assign}

\* Type::rewrite_type, which the types of identifiers and of invocations go through.
\* When a game is instantiated, no length of a package's constant is found in the
\* rules: these types keep a game's constant that nothing is attached to.
RECURSIVE RewriteByRules(_, _)
RewriteByRules(rules, t) ==
  LET found == {r \in rules : r[1] = t}
  IN  IF found # {} THEN (CHOOSE r \in found : TRUE)[2]
      ELSE IF t[1] = "bits" THEN t
      ELSE [i \in DOMAIN t |-> IF i = 1 THEN t[1] ELSE RewriteByRules(rules, t[i])]

RECURSIVE LengthsIn(_)
LengthsIn(t) ==
  IF t[1] = "bits" THEN {t[2]}
  ELSE UNION {LengthsIn(t[i]) : i \in 2..Len(t)}

\* The assertion in Type::rewrite_type, which knows the constant by its name.
RulesMissing(rules, t) ==
  rules = {} /\ \E length \in LengthsIn(t) : length.lvl = "pkg" /\ length.own = "n"

-----------------------------------------------------------------------------
(* Expressions carry the type of the identifier in them, statements those  *)
(* the parser gave them.                                                   *)

Var(x, t) == [op |-> "var", x |-> x, t |-> t, fn |-> Literal(""), args |-> <<>>]
Number == [op |-> "number", x |-> "", t |-> Integer, fn |-> Literal(""), args |-> <<>>]
FnCall(fn, arg, ret) == [op |-> "call", x |-> "", t |-> ret, fn |-> fn, args |-> <<arg>>]

Sample(x, t) == [op |-> "sample", x |-> x, t |-> t, oracle |-> "", args |-> <<>>]
Assign(x, e) == [op |-> "assign", x |-> x, t |-> e.t, oracle |-> "", args |-> <<e>>]
Invoke(x, oracle, args, t) == [op |-> "invoke", x |-> x, t |-> t, oracle |-> oracle, args |-> args]
Return(e) == [op |-> "return", x |-> "", t |-> e.t, oracle |-> "", args |-> <<e>>]

RECURSIVE RewriteExpression(_, _)
RewriteExpression(inst, e) ==
  [e EXCEPT !.t = RewriteByRules(BaseRules(inst), e.t),
            !.fn = RewriteIdent(inst, e.fn),
            !.args = [i \in DOMAIN e.args |-> RewriteExpression(inst, e.args[i])]]

RewriteStatement(inst, s) ==
  [s EXCEPT !.t = IF s.op = "sample" THEN RewriteType(inst, s.t) ELSE RewriteByRules(BaseRules(inst), s.t),
            !.args = [i \in DOMAIN s.args |-> RewriteExpression(inst, s.args[i])]]

RewriteDeclarations(inst, decls) == [i \in DOMAIN decls |-> <<decls[i][1], RewriteType(inst, decls[i][2])>>]

RewriteOracleSig(inst, sig) ==
  [sig EXCEPT !.args = RewriteDeclarations(inst, sig.args), !.ret = RewriteType(inst, sig.ret)]

RewriteOracleDef(inst, def) ==
  [RewriteOracleSig(inst, def) EXCEPT
     !.code = [i \in DOMAIN def.code |-> RewriteStatement(inst, def.code[i])]]

RewriteOracles(inst, oracles) == [i \in DOMAIN oracles |-> RewriteOracleDef(inst, oracles[i])]

\* PackageInstance::new, for an entry [inst, pkg, assign, calls] of a game.
NewPackageInstance(entry) ==
  LET inst == [kind |-> "pkg", assign |-> entry.assign]
      pkg == entry.pkg
  IN  [entry EXCEPT !.pkg =
         [pkg EXCEPT !.params = RewriteDeclarations(inst, pkg.params),
                     !.state = RewriteDeclarations(inst, pkg.state),
                     !.imports = [i \in DOMAIN pkg.imports |-> RewriteOracleSig(inst, pkg.imports[i])],
                     !.oracles = RewriteOracles(inst, pkg.oracles)]]

\* proof.rs rewrite_pkg_inst: the imports stay as they are.
RewritePkgInst(inst, entry) ==
  [entry EXCEPT !.pkg.params = RewriteDeclarations(inst, entry.pkg.params),
                !.pkg.state = RewriteDeclarations(inst, entry.pkg.state),
                !.pkg.oracles = RewriteOracles(inst, entry.pkg.oracles),
                !.assign = [c \in DOMAIN entry.assign |-> RewriteGameIdentifier(inst, entry.assign[c])]]

OracleNamed(pkg, oracle) == CHOOSE i \in DOMAIN pkg.oracles : pkg.oracles[i].name = oracle
SigIn(game, idx, oracle) ==
  LET def == game.pkgs[idx].pkg.oracles[OracleNamed(game.pkgs[idx].pkg, oracle)]
  IN  [name |-> def.name, args |-> def.args, ret |-> def.ret]

\* The parser of games: edges and exports copy the signatures of the package
\* instances, and a later instantiation of the game leaves both alone.
Composed(game) ==
  LET pkgs == [i \in DOMAIN game.pkgs |-> NewPackageInstance(game.pkgs[i])]
      new == [game EXCEPT !.pkgs = pkgs]
  IN  [name |-> game.name, consts |-> game.consts, pkgs |-> pkgs,
       exports |-> [i \in DOMAIN game.exports |->
                      [idx |-> game.exports[i][1],
                       sig |-> SigIn(new, game.exports[i][1], game.exports[i][2])]],
       edges |-> UNION {{SigIn(new, pkgs[i].calls[o], o) : o \in DOMAIN pkgs[i].calls} : i \in DOMAIN pkgs}]

\* GameInstance::new, for an instance [name, game, assign] of a proof.
NewGameInstance(gi) ==
  LET inst == [kind |-> "game", assign |-> gi.assign]
  IN  [gi EXCEPT !.game.pkgs = [i \in DOMAIN gi.game.pkgs |-> RewritePkgInst(inst, gi.game.pkgs[i])],
                 !.game.consts = RewriteDeclarations(inst, gi.game.consts)]

\* The types that go through Type::rewrite_type when an entry is instantiated.
RECURSIVE IdentTypes(_)
IdentTypes(e) == {e.t} \union UNION {IdentTypes(e.args[i]) : i \in DOMAIN e.args}
CodeTypes(pkg) ==
  UNION {UNION {{s.t} \union UNION {IdentTypes(s.args[i]) : i \in DOMAIN s.args} :
                  s \in ToSet(pkg.oracles[o].code)} : o \in DOMAIN pkg.oracles}
InstantiationPanics(gi) ==
  \E i \in DOMAIN gi.game.pkgs : \E t \in CodeTypes(gi.game.pkgs[i].pkg) :
    RulesMissing(BaseRules([kind |-> "game", assign |-> gi.assign]), t)

-----------------------------------------------------------------------------
(* What the first two transformations collect of a game instance.          *)

SigTypes(sig) == {sig.ret} \union {sig.args[i][2] : i \in DOMAIN sig.args}
DeclTypes(decls) == {decls[i][2] : i \in DOMAIN decls}

\* type_extract
TypesIn(game) ==
  DeclTypes(game.consts)
    \union UNION {SigTypes(sig) : sig \in game.edges}
    \union UNION {SigTypes(game.exports[i].sig) : i \in DOMAIN game.exports}
    \union UNION {LET pkg == game.pkgs[i].pkg
                  IN  DeclTypes(pkg.params) \union DeclTypes(pkg.state) \union CodeTypes(pkg)
                        \union UNION {SigTypes(sig) : sig \in ToSet(pkg.imports) \union ToSet(pkg.oracles)} :
                  i \in DOMAIN game.pkgs}

\* samplify: one position for each sample statement, in the order of the code.
PositionsIn(game) ==
  FlattenSeq([i \in DOMAIN game.pkgs |->
    FlattenSeq([o \in DOMAIN game.pkgs[i].pkg.oracles |->
      LET def == game.pkgs[i].pkg.oracles[o]
          samples == SelectSeq([k \in DOMAIN def.code |-> [k |-> k, s |-> def.code[k]]],
                               LAMBDA c : c.s.op = "sample")
      IN  [k \in DOMAIN samples |->
             [id |-> <<game.pkgs[i].inst, def.name, samples[k].k>>, t |-> samples[k].s.t]]])])
=============================================================================
