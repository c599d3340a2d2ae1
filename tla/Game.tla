-------------------------------- MODULE Game --------------------------------
(***************************************************************************)
(* The life of a game: handle_composition and the handlers it calls        *)
(* (src/src/parser/composition.rs) read constants, package instances,      *)
(* loops and wiring; resolveoracles (src/src/transforms) gives every       *)
(* invocation the instance it goes to; ordered_pkgs (src/src/package.rs)   *)
(* sorts the instances for the constant mappings; and                      *)
(* smt_oracle_function_definitions (src/src/gamehops/equivalence/mod.rs)   *)
(* defines the oracles for the solver.                                     *)
(*                                                                         *)
(* The text is not known in advance: each parser action reads any item     *)
(* the grammar allows next.  An expression is the identifier or literal it *)
(* consists of, an oracle's signature one type.                            *)
(***************************************************************************)
EXTENDS Integers, Sequences, FiniteSets

CONSTANTS
  Packages,      \* [name -> [params, imports, oracles]]
  ConstNames,    \* names of constants
  OracleNames,
  Literals,      \* integer literals
  Compounds,     \* other integer expressions, without identifiers
  InstanceItems, \* instance declarations: [name, index, pkg, params]
  LoopItems,     \* for loops: [var, bound, uses]
  BodyItems,     \* wiring blocks: [source, index, wires]
  Adversary,     \* the source "adversary"
  MaxInstances, MaxWires, MaxDepth  \* bounds on the text

\* params: names of the integer parameters.  imports, oracles: the type of
\* each imported and defined oracle, which may be a parameter's Bits type.
ASSUME GameAssumption ==
  /\ \A p \in DOMAIN Packages : DOMAIN Packages[p] = {"params", "imports", "oracles"}
  /\ InstanceItems \subseteq
       [name : STRING, index : SUBSET STRING, pkg : STRING,
        params : Seq([name : STRING, value : STRING])]
  /\ LoopItems \subseteq [var : STRING, bound : STRING, uses : SUBSET STRING]
  /\ BodyItems \subseteq
       [source : STRING, index : SUBSET STRING,
        wires : Seq([oracle : OracleNames, dest : STRING, index : SUBSET STRING])]
  /\ ConstNames \subseteq STRING
  /\ MaxInstances \in Nat /\ MaxWires \in Nat /\ MaxDepth \in Nat

VARIABLES
  phase,      \* "parse", "resolve", "order", "define" or "done"
  outcome,    \* "ok", or how the phase ended: "error" or "panic"
  stages,     \* sequence: the place in the grammar, for each open loop
  scope,      \* Scope: a sequence of sets of names, innermost last
  instances,  \* sequence of [name, pkg, args]
  table,      \* instances_table: [name -> offset of the last one declared]
  wires,      \* edges and multi_inst_edges: sequence of [from, to, oracle, index]
  exports,    \* exports and multi_inst_exports: sequence of [to, oracle, index]
  callees,    \* sequence: [invoked oracle -> instance name], for each instance
  rank,       \* [offset -> round of ordered_pkgs that added it, or 0]
  round,      \* rounds done
  definitions \* sequence: the functions defined for each instance

textVars == <<stages, scope>>
gameVars == <<instances, table, wires, exports>>
laterVars == <<callees, rank, round, definitions>>
vars == <<phase, outcome, textVars, gameVars, laterVars>>

-----------------------------------------------------------------------------
(* Scope and grammar. *)

Visible == UNION {scope[i] : i \in 1 .. Len(scope)}
\* variant: only the innermost table is searched
LastTable == scope[Len(scope)]
\* Scope::lookup, as declare uses it.
Taken == UNION {scope[i] : i \in 1 .. Len(scope)}

\* composition_spec_list and game_for_spec_list: const* instance* for* compose*
\* for*, and within a loop for* and then either instances or wiring.
Grammar ==
  {<<"consts", "const", "consts">>} \cup
  {<<s, "instance", "instances">> : s \in {"consts", "instances"}} \cup
  {<<s, "for", "fors">> : s \in {"consts", "instances", "fors"}} \cup
  {<<s, "body", "compose">> : s \in {"consts", "instances", "fors", "compose"}} \cup
  {<<s, "for", "lastFors">> : s \in {"compose", "lastFors"}} \cup
  {<<"loop", "for", "loop">>,
   <<"loop", "instance", "loopInstances">>, <<"loopInstances", "instance", "loopInstances">>,
   <<"loop", "body", "loopWires">>, <<"loopWires", "body", "loopWires">>}
Stages == {g[1] : g \in Grammar} \cup {g[3] : g \in Grammar}

Depth == Len(stages)
Following(kind) == {s \in Stages : <<stages[Depth], kind, s>> \in Grammar}
InLoop == Len(scope) > 1

\* An identifier, a literal or a compound expression that handle_expression accepts.
Evaluates(v) == v \in Visible \cup Literals \cup Compounds
Indices(is) == \A v \in is : Evaluates(v)

Stop(o) == outcome' = o /\ UNCHANGED <<phase, scope, gameVars, laterVars>>
Read(kind) ==
  /\ phase = "parse" /\ outcome = "ok"
  /\ \E s \in Following(kind) : stages' = [stages EXCEPT ![Depth] = s]

-----------------------------------------------------------------------------
Init ==
  /\ phase = "parse" /\ outcome = "ok"
  /\ stages = <<"consts">> /\ scope = <<{}>>
  /\ instances = <<>> /\ table = <<>> /\ wires = <<>> /\ exports = <<>>
  /\ callees = <<>> /\ rank = <<>> /\ round = 0 /\ definitions = <<>>

\* A constant; the result of declare is unwrapped.
ReadConst(n) ==
  /\ Read("const")
  /\ IF n \in Taken
       THEN Stop("panic")
       ELSE /\ scope' = [scope EXCEPT ![Len(scope)] = @ \cup {n}]
            /\ UNCHANGED <<phase, outcome, gameVars, laterVars>>

\* handle_for_loop: the bounds are parsed in the outer scope; both names of the
\* variable must be the same (a todo!), and declare is unwrapped.
ReadFor(it) ==
  /\ Depth < MaxDepth
  /\ phase = "parse" /\ outcome = "ok"
  /\ \E s \in Following("for") : stages' = Append([stages EXCEPT ![Depth] = s], "loop")
  /\ IF ~Indices(it.uses) THEN Stop("error")
     ELSE IF it.var # it.bound \/ it.var \in Taken THEN Stop("panic")
     ELSE /\ scope' = Append(scope, {it.var})
          /\ UNCHANGED <<phase, outcome, gameVars, laterVars>>

EndFor ==
  /\ phase = "parse" /\ outcome = "ok" /\ InLoop
  /\ stages' = SubSeq(stages, 1, Depth - 1)
  /\ scope' = SubSeq(scope, 1, Len(scope) - 1)
  /\ UNCHANGED <<phase, outcome, gameVars, laterVars>>

-----------------------------------------------------------------------------
(* Package instances. *)

ParamNames(it) == {it.params[k].name : k \in 1 .. Len(it.params)}
Args(it) ==
  [n \in ParamNames(it) |-> (CHOOSE k \in 1 .. Len(it.params) : it.params[k].name = n)]

\* handle_game_params_def_list and handle_instance_assign_list: every
\* parameter of the package is assigned once, and nothing else is.
ParamsOk(it) ==
  /\ ParamNames(it) = Packages[it.pkg].params
  /\ \A k \in 1 .. Len(it.params) : Evaluates(it.params[k].value)
  /\ \A k, l \in 1 .. Len(it.params) : it.params[k].name = it.params[l].name => k = l
\* The todo! for an integer parameter that is given a compound expression,
\* reached whatever is wrong with the other parameters.
ParamPanics(it) ==
  \E k \in 1 .. Len(it.params) :
    it.params[k].name \in Packages[it.pkg].params /\ it.params[k].value \in Compounds

\* At top level indices are unreachable!; in a loop, without them, the
\* parameters are taken for the package's name and nothing is left to unwrap.
InstancePanics(it) ==
  \/ InLoop <=> it.index = {}
  \/ Indices(it.index) /\ it.pkg \in DOMAIN Packages /\ ParamPanics(it)
InstanceOk(it) ==
  Indices(it.index) /\ it.pkg \in DOMAIN Packages /\ ParamsOk(it)

NewOffset == Len(instances) + 1

\* handle_instance_decl and handle_instance_decl_multi_inst.  An instance with
\* the name of another takes its place in the table, not in the list.
ReadInstance(it) ==
  /\ Len(instances) < MaxInstances
  /\ Read("instance")
  /\ IF InstancePanics(it) THEN Stop("panic")
     ELSE IF ~InstanceOk(it) THEN Stop("error")
     ELSE /\ instances' = Append(instances,
               [name |-> it.name, pkg |-> it.pkg,
                args |-> [n \in ParamNames(it) |-> it.params[Args(it)[n]].value]])
          /\ table' = [n \in DOMAIN table \cup {it.name} |->
               IF n = it.name THEN NewOffset ELSE table[n]]
          /\ UNCHANGED <<phase, outcome, scope, wires, exports, laterVars>>

Pkg(i) == Packages[instances[i].pkg]
Imports(i) == DOMAIN Pkg(i).imports
Offers(i, o) == o \in DOMAIN Pkg(i).oracles
\* instantiate_oracle_signature: parameters are replaced by what is assigned.
Instantiate(i, ty) == IF ty \in Pkg(i).params THEN instances[i].args[ty] ELSE ty
\* variant: signatures are compared as the packages declare them
SameDeclaredType(i, k, o) == Pkg(i).imports[o] = Pkg(k).oracles[o]
\* types_match on the instantiated signatures.
TypesMatch(i, k, o) == Instantiate(i, Pkg(i).imports[o]) = Instantiate(k, Pkg(k).oracles[o])

-----------------------------------------------------------------------------
(* Wiring. *)

\* What an assignment needs of its destination.
DestinationOk(w) ==
  /\ Indices(w.index) /\ w.dest \in DOMAIN table
  /\ Offers(table[w.dest], w.oracle)

ExportsOk(it) == \A k \in 1 .. Len(it.wires) : DestinationOk(it.wires[k])

\* variant: the destination's oracles are not looked at
EdgesUnmatched(it) ==
  /\ it.source \in DOMAIN table
  /\ \A k \in 1 .. Len(it.wires) :
       /\ it.wires[k].oracle \in Imports(table[it.source])
       /\ it.wires[k].dest \in DOMAIN table
\* The assignments of one block: imported, compatible, and none twice.
EdgesOk(it) ==
  /\ it.source \in DOMAIN table
  /\ \A k \in 1 .. Len(it.wires) : LET w == it.wires[k] IN
       /\ w.oracle \in Imports(table[it.source]) /\ DestinationOk(w)
       /\ TypesMatch(table[it.source], table[w.dest], w.oracle)
  /\ \A k, l \in 1 .. Len(it.wires) : it.wires[k].oracle = it.wires[l].oracle => k = l

\* handle_compose_assign_body_list, for one block.  Indices of the source that
\* are not in scope and an empty block are unwrapped.
ReadBody(it) ==
  /\ InLoop \/ it.index = {}
  /\ Len(wires) + Len(exports) + Len(it.wires) <= MaxWires
  /\ Read("body")
  /\ IF ~(it.index \subseteq Visible) \/ it.wires = <<>> THEN Stop("panic")
     ELSE IF it.source = Adversary
       THEN IF ~ExportsOk(it) THEN Stop("error")
            ELSE /\ exports' = exports \o [k \in 1 .. Len(it.wires) |->
                      [to |-> table[it.wires[k].dest], oracle |-> it.wires[k].oracle,
                       index |-> it.wires[k].index]]
                 /\ UNCHANGED <<phase, outcome, scope, instances, table, wires, laterVars>>
     ELSE IF ~EdgesOk(it) THEN Stop("error")
       ELSE /\ wires' = wires \o [k \in 1 .. Len(it.wires) |->
                 [from |-> table[it.source], to |-> table[it.wires[k].dest],
                  oracle |-> it.wires[k].oracle, index |-> it.wires[k].index]]
            /\ UNCHANGED <<phase, outcome, scope, instances, table, exports, laterVars>>

Offsets == 1 .. Len(instances)
\* An Edge is a wire whose destination has no index; the others become
\* MultiInstanceEdges, which nothing after the parser looks at.
IsEdge(k) == wires[k].index = {}
WiresFrom(i) == {k \in 1 .. Len(wires) : wires[k].from = i}
EdgesFrom(i) == {k \in WiresFrom(i) : IsEdge(k)}

\* variant: multi-instance wires count as well
WiredSomehow(i, o) == \E k \in WiresFrom(i) : wires[k].oracle = o
\* The import has an edge.
Wired(i, o) == \E k \in EdgesFrom(i) : wires[k].oracle = o

\* The end of the text: every import needs an edge.
EndOfGame ==
  /\ phase = "parse" /\ outcome = "ok" /\ ~InLoop
  /\ IF \A i \in Offsets : \A o \in Imports(i) : Wired(i, o)
       THEN phase' = "resolve" /\ UNCHANGED outcome
       ELSE outcome' = "error" /\ UNCHANGED phase
  /\ UNCHANGED <<textVars, gameVars, laterVars>>

-----------------------------------------------------------------------------
(* After the parser. *)

Enter(p) == phase' = p /\ UNCHANGED <<outcome, textVars, gameVars>>
Work == UNCHANGED <<phase, outcome, textVars, gameVars>>
Panic == outcome' = "panic" /\ UNCHANGED <<phase, textVars, gameVars, laterVars>>

\* The last edge for an oracle is the one that stays in the table.
LastEdge(i, o) ==
  CHOOSE k \in EdgesFrom(i) : wires[k].oracle = o
    /\ \A l \in EdgesFrom(i) : wires[l].oracle = o => l <= k

InTable(i, o) == \E k \in EdgesFrom(i) : wires[k].oracle = o

\* resolveoracles, for one instance: its invocations, which name imports, get
\* the name of the instance they go to; one that finds none is a panic.
Resolve ==
  /\ phase = "resolve" /\ outcome = "ok" /\ Len(callees) < Len(instances)
  /\ LET i == Len(callees) + 1 IN
     IF \A o \in Imports(i) : InTable(i, o)
       THEN /\ callees' = Append(callees,
                 [o \in Imports(i) |-> instances[wires[LastEdge(i, o)].to].name])
            /\ UNCHANGED <<rank, round, definitions>> /\ Work
       ELSE Panic

Resolved ==
  /\ phase = "resolve" /\ outcome = "ok" /\ Len(callees) = Len(instances)
  /\ Enter("order")
  /\ rank' = [i \in Offsets |-> 0]
  /\ UNCHANGED <<callees, round, definitions>>

\* variant: one callee is enough
ReadyAfterFirst(i) == EdgesFrom(i) = {} \/ \E k \in EdgesFrom(i) : rank[wires[k].to] # 0
\* variant: multi-instance wires hold an instance back
ReadyAfterAll(i) == \A k \in WiresFrom(i) : rank[wires[k].to] # 0
\* ordered_pkgs: a candidate's edges lead to instances of earlier rounds.
Ready(i) == \A k \in EdgesFrom(i) : rank[wires[k].to] # 0
Candidates == {i \in Offsets : rank[i] = 0 /\ Ready(i)}
Unranked == {i \in Offsets : rank[i] = 0}

\* One round of ordered_pkgs.  The list it returns is sorted by round and, within
\* a round, by offset.
OrderRound ==
  /\ phase = "order" /\ outcome = "ok" /\ Unranked # {}
  /\ IF Candidates = {} THEN Panic
     ELSE /\ rank' = [i \in Offsets |-> IF i \in Candidates THEN round + 1 ELSE rank[i]]
          /\ round' = round + 1
          /\ UNCHANGED <<callees, definitions>> /\ Work

Ordered ==
  /\ phase = "order" /\ outcome = "ok" /\ Unranked = {}
  /\ Enter("define") /\ UNCHANGED laterVars

\* pkg_inst_ctx_by_name finds the first instance of a name.
First(name) ==
  CHOOSE i \in Offsets : instances[i].name = name
    /\ \A k \in Offsets : instances[k].name = name => i <= k
Functions(i) == {<<instances[i].name, o>> : o \in DOMAIN Pkg(i).oracles}
Calls(i) == {<<callees[i][o], o>> : o \in Imports(i)}
Defined == UNION {definitions[i] : i \in 1 .. Len(definitions)}
Found(fs) == \A f \in fs : Offers(First(f[1]), f[2])

\* smt_oracle_function_definitions: the oracles of the instances are defined in
\* the order of the text, each name once.  Both the function and those it calls
\* are looked up by the name of the instance, and unwrapped.
Define ==
  /\ phase = "define" /\ outcome = "ok" /\ Len(definitions) < Len(instances)
  /\ LET i == Len(definitions) + 1
         new == Functions(i) \ Defined IN
     IF new # {} => Found(new \cup Calls(i))
       THEN definitions' = Append(definitions, new) /\ UNCHANGED <<callees, rank, round>> /\ Work
       ELSE Panic

AllDefined ==
  /\ phase = "define" /\ outcome = "ok" /\ Len(definitions) = Len(instances)
  /\ Enter("done") /\ UNCHANGED laterVars

Ended == (phase = "done" \/ outcome # "ok") /\ UNCHANGED vars

ReadItem ==
  \/ \E n \in ConstNames : ReadConst(n)
  \/ \E it \in LoopItems : ReadFor(it)
  \/ EndFor
  \/ \E it \in InstanceItems : ReadInstance(it)
  \/ \E it \in BodyItems : ReadBody(it)
Later == Resolve \/ Resolved \/ OrderRound \/ Ordered \/ Define \/ AllDefined
Next == ReadItem \/ EndOfGame \/ Later \/ Ended

Spec == Init /\ [][Next]_vars

-----------------------------------------------------------------------------
(* Properties. *)

Phases == {"parse", "resolve", "order", "define", "done"}
Values ==
  UNION {{it.params[k].value : k \in 1 .. Len(it.params)} : it \in InstanceItems}
Instance ==
  [name : STRING, pkg : DOMAIN Packages,
   args : UNION {[Packages[p].params -> Values] : p \in DOMAIN Packages}]

\* Types, and what the offsets in the game's lists refer to: wires and exports
\* lead from and to instances, the table knows each instance by its own name,
\* and every instance has the arguments of its package.
TypeOK ==
  /\ phase \in Phases /\ outcome \in {"ok", "error", "panic"}
  /\ stages \in Seq(Stages) /\ scope \in Seq(SUBSET STRING)
  /\ Len(scope) \in 1 .. Len(stages)
  /\ instances \in Seq(Instance)
  /\ \A i \in Offsets : DOMAIN instances[i].args = Pkg(i).params
  /\ \A n \in DOMAIN table : table[n] \in Offsets /\ instances[table[n]].name = n
  /\ wires \in Seq([from : Nat, to : Nat, oracle : OracleNames, index : SUBSET STRING])
  /\ \A k \in 1 .. Len(wires) : wires[k].from \in Offsets /\ wires[k].to \in Offsets
  /\ exports \in Seq([to : Nat, oracle : OracleNames, index : SUBSET STRING])
  /\ \A k \in 1 .. Len(exports) : exports[k].to \in Offsets
  /\ Len(callees) \in 0 .. Len(instances) /\ Len(definitions) \in 0 .. Len(instances)
  /\ round \in Nat /\ rank \in [DOMAIN rank -> 0 .. round]
  /\ phase \in {"order", "define", "done"} => DOMAIN rank = Offsets

\* No name is declared twice in nested scopes: an identifier in a loop means
\* the same wherever it stands in it.
NoShadowing ==
  outcome = "ok" => \A i, k \in 1 .. Len(scope) : scope[i] \cap scope[k] # {} => i = k

\* The check at the end of the text is what resolveoracles relies on: no
\* invocation of a game that was parsed is left without an edge.
ResolveSucceeds == ~(phase = "resolve" /\ outcome = "panic")

DistinctNames ==
  \A i, k \in Offsets : instances[i].name = instances[k].name => i = k

\* When the instances of a game have distinct names, every invocation reaches,
\* by name, an instance that defines the oracle with the signature that the
\* caller imports, and its last edge leads there.
CallsReachTheirOracles ==
  DistinctNames =>
    \A i \in 1 .. Len(callees) : \A o \in Imports(i) :
      LET k == First(callees[i][o]) IN
      /\ k = wires[LastEdge(i, o)].to
      /\ Offers(k, o)
      /\ Instantiate(i, Pkg(i).imports[o]) = Instantiate(k, Pkg(k).oracles[o])

\* ... and the lookups behind the definitions never fail.
DefineSucceeds == DistinctNames => ~(phase = "define" /\ outcome = "panic")

\* The list that ordered_pkgs builds has every instance after all those that
\* its edges lead to.
CalleesFirst ==
  \A i \in DOMAIN rank : rank[i] # 0 =>
    \A k \in EdgesFrom(i) : rank[wires[k].to] # 0 /\ rank[wires[k].to] < rank[i]

\* Instances that call one another in a circle.
Circle(is) == is # {} /\ \A i \in is : \E k \in EdgesFrom(i) : wires[k].to \in is
Cyclic == \E is \in SUBSET Offsets : Circle(is)
\* The assert in ordered_pkgs fails for the games with a circle and for no others.
OnlyCirclesPanic ==
  /\ phase = "order" /\ outcome = "panic" => Cyclic
  /\ phase \in {"define", "done"} => ~Cyclic

=============================================================================
