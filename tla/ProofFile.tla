------------------------------ MODULE ProofFile ------------------------------
(***************************************************************************)
(* Reading a proof file: handle_proof (src/src/parser/proof.rs) goes       *)
(* through its constants, game instances, assumptions and game hops, and   *)
(* decides the reductions on the spot (src/src/parser/reduction.rs).       *)
(*                                                                         *)
(* A reduction claims that its two games are one reduction around the two  *)
(* sides of an assumption.  Each mapping names the instances of a game     *)
(* that make up the assumption's side; compare_reduction walks the rest of *)
(* both games together, from the exports down to the mapped instances.     *)
(* Its recursion is the stack todo here.                                   *)
(*                                                                         *)
(* An expression is an identifier, a literal or an opaque compound; a      *)
(* signature is one type.  Errors carry no text.                           *)
(***************************************************************************)
EXTENDS Integers, Sequences, FiniteSets

CONSTANTS
  Games,      \* [name -> [consts, pkgs, edges, exports]], as Game.tla accepts them
  Imports,    \* [package -> sequence of the oracles it imports]
  OracleType, \* [oracle -> type of its signature]
  Literals,   \* integer literals
  Compounds,  \* other integer expressions, without identifiers
  Texts,      \* proof files: sequences of items
  StackLimit  \* the calls of compare_reduction that the stack has room for

Size(g) == Len(Games[g].pkgs)
Hops == {"conjecture", "equivalence", "reduction"}
Mapping == [assumption : STRING, construction : STRING, entries : Seq(STRING \X STRING)]
ItemType ==
  [kind : {"const"}, name : STRING, type : STRING] \cup
  [kind : {"instance"}, name : STRING, game : STRING,
   params : Seq(Seq([name : STRING, value : STRING]))] \cup  \* its params blocks
  [kind : {"assumption"}, name : STRING, left : STRING, right : STRING] \cup
  [kind : {"conjecture", "equivalence"}, left : STRING, right : STRING] \cup
  [kind : {"reduction"}, left : STRING, right : STRING, assumption : STRING,
   map1 : Mapping, map2 : Mapping]
\* proof_spec_list: constants, instances, assumptions, hops.
Place(item) == CASE item.kind = "const" -> 1 [] item.kind = "instance" -> 2
                 [] item.kind = "assumption" -> 3 [] OTHER -> 4

\* consts: [constant -> type].  Every import is wired (ResolveSucceeds in Game), and
\* only imports are (handle_compose_assign_list in Game).
Imported(g, e) ==
  \E i \in 1 .. Len(Imports[Games[g].pkgs[e.from].pkg]) :
    Imports[Games[g].pkgs[e.from].pkg][i] = e.oracle
ASSUME ProofFileAssumption ==
  /\ \A g \in DOMAIN Games :
       /\ Games[g].pkgs \in Seq([name : STRING, pkg : DOMAIN Imports, params : Seq(STRING)])
       /\ Games[g].edges \in Seq([from : 1 .. Size(g), to : 1 .. Size(g), oracle : DOMAIN OracleType])
       /\ Games[g].exports \in Seq([to : 1 .. Size(g), oracle : DOMAIN OracleType])
       /\ \A k \in 1 .. Size(g) : \A i \in 1 .. Len(Imports[Games[g].pkgs[k].pkg]) :
            \E j \in 1 .. Len(Games[g].edges) :
              /\ Games[g].edges[j].from = k
              /\ Games[g].edges[j].oracle = Imports[Games[g].pkgs[k].pkg][i]
       /\ \A j \in 1 .. Len(Games[g].edges) : Imported(g, Games[g].edges[j])
  /\ \A p \in DOMAIN Imports : Imports[p] \in Seq(DOMAIN OracleType)
  /\ Texts \subseteq Seq(ItemType)
  /\ \A t \in Texts : \A i, k \in 1 .. Len(t) : i < k => Place(t[i]) <= Place(t[k])
  /\ StackLimit \in Nat /\ \A g \in DOMAIN Games : Size(g) <= StackLimit

VARIABLES
  text,        \* the file
  pos,         \* the item to read
  consts,      \* [declared constant -> type]
  instances,   \* sequence of [name, game, values]
  table,       \* instances_table: [name -> the last instance of that name]
  assumptions, \* sequence of [name, left, right]
  hops,        \* the accepted hops
  reduction,   \* the reduction being compared, or NoReduction
  export,      \* its next export of the left game
  todo,        \* calls of compare_reduction to make: sequence of [left, right, depth]
  compared,    \* history: the pairs of instances compared
  stop         \* "none", or how reading ended: "ok", "error", "panic", "overflow"

fileVars == <<consts, instances, table, assumptions>>
walkVars == <<reduction, export, todo, compared>>
vars == <<text, pos, fileVars, hops, walkVars, stop>>

NoReduction == [kind |-> "none"]
Items == Len(text)
Item == text[pos]

-----------------------------------------------------------------------------
(* Constants and game instances. *)

IsInteger(v) == v \in Literals \cup Compounds
\* handle_expression with an expected type.
Evaluates(v, type) ==
  IF IsInteger(v) THEN type = "Integer" ELSE v \in DOMAIN consts /\ consts[v] = type

\* handle_proof_params_def_list, for a block b.  It evaluates the integers first;
\* one that is not an identifier or a literal is a todo!.
IntegerParams(b, g) == {i \in 1 .. Len(b) : /\ b[i].name \in DOMAIN Games[g].consts
                                            /\ Games[g].consts[b[i].name] = "Integer"}
ParamsPanic(b, g) ==
  \E i \in IntegerParams(b, g) :
    /\ b[i].value \in Compounds
    /\ \A k \in IntegerParams(b, g) : k < i => Evaluates(b[k].value, "Integer")
ParamsOk(b, g) ==
  /\ {b[i].name : i \in 1 .. Len(b)} = DOMAIN Games[g].consts
  /\ \A i, k \in 1 .. Len(b) : b[i].name = b[k].name => i = k
  /\ \A i \in 1 .. Len(b) : Evaluates(b[i].value, Games[g].consts[b[i].name])
\* An empty block has no list to unwrap.
BlockOutcome(b, g) ==
  IF b = <<>> \/ ParamsPanic(b, g) THEN "panic" ELSE IF ~ParamsOk(b, g) THEN "error" ELSE "ok"

\* Each block is read for itself, and an instance may have none: what is missing
\* is only looked for in a block.  Of several, the first one's values are found.
Given(it, c) == CHOOSE i \in 1 .. Len(it.params[1]) : it.params[1][i].name = c
NewInstance(it) ==
  [name |-> it.name, game |-> it.game,
   values |-> [c \in IF it.params = <<>> THEN {} ELSE DOMAIN Games[it.game].consts |->
                 it.params[1][Given(it, c)].value]]

\* GameInstance::new looks up the constants that the package instances use.
Used(g) ==
  {c \in DOMAIN Games[g].consts :
     \E k \in 1 .. Size(g) : \E p \in 1 .. Len(Games[g].pkgs[k].params) :
       Games[g].pkgs[k].params[p] = c}
Bad(it) == {b \in 1 .. Len(it.params) : BlockOutcome(it.params[b], it.game) # "ok"}
InstanceOutcome(it) ==
  IF it.game \notin DOMAIN Games THEN "error"
  ELSE IF Bad(it) # {}
    THEN BlockOutcome(it.params[CHOOSE b \in Bad(it) : \A k \in Bad(it) : b <= k], it.game)
  ELSE IF ~(Used(it.game) \subseteq DOMAIN NewInstance(it).values) THEN "panic" ELSE "ok"

Known(n) == n \in DOMAIN table

-----------------------------------------------------------------------------
(* Package instances of a game instance i. *)

Pkgs(i) == Games[i.game].pkgs
EdgeSet(i) == {Games[i.game].edges[k] : k \in 1 .. Len(Games[i.game].edges)}
Exports(i) == Games[i.game].exports
ExportSet(i) == {Exports(i)[k] : k \in 1 .. Len(Exports(i))}
Offsets(i, name) == {k \in 1 .. Len(Pkgs(i)) : Pkgs(i)[k].name = name}
\* The first one of that name.
Offset(i, name) == CHOOSE k \in Offsets(i, name) : \A j \in Offsets(i, name) : k <= j

\* A package's parameter, resolved to the proof's constants.
Value(i, k, p) ==
  LET v == Pkgs(i)[k].params[p]
  IN  IF v \in DOMAIN i.values THEN i.values[v] ELSE v
\* package_instances_diff.
Same(i, k, j, l) ==
  /\ Pkgs(i)[k].pkg = Pkgs(j)[l].pkg
  /\ \A p \in 1 .. Len(Pkgs(i)[k].params) : Value(i, k, p) = Value(j, l, p)

-----------------------------------------------------------------------------
(* One mapping: m.assumption and m.construction are game instances, and     *)
(* m.entries pairs package instances of the first with those of the second. *)

\* The text and the code have names in their place; the instances are all read
\* before the hops.
Resolve(m) ==
  [assumption |-> table[m.assumption], construction |-> table[m.construction],
   entries |-> m.entries]

RolesOk(m, a) ==
  /\ Known(m.assumption) /\ Known(m.construction)
  /\ m.assumption \in {a.left, a.right}
  /\ m.construction \notin {a.left, a.right}

EntryOk(m, i) ==
  LET e == m.entries[i]
  IN  /\ \A j \in 1 .. i - 1 : m.entries[j][1] # e[1] /\ m.entries[j][2] # e[2]
      /\ Offsets(m.assumption, e[1]) # {} /\ Offsets(m.construction, e[2]) # {}
      /\ Same(m.assumption, Offset(m.assumption, e[1]), m.construction, Offset(m.construction, e[2]))

\* Pairs of offsets: in the construction and in the assumption.
Pairs(m) ==
  {<<Offset(m.construction, m.entries[i][2]), Offset(m.assumption, m.entries[i][1])>> :
     i \in 1 .. Len(m.entries)}
Covered(m, k) == \E p \in Pairs(m) : p[1] = k

AllMapped(m) ==
  \A k \in 1 .. Len(Pkgs(m.assumption)) :
    \E i \in 1 .. Len(m.entries) : m.entries[i][1] = Pkgs(m.assumption)[k].name

\* variant: calls from outside the mapped part are not looked at
CrossCutTrusted(m) == TRUE
\* Calls from outside the mapped part go to oracles that the assumption exports.
CrossCutOk(m) ==
  \A e \in EdgeSet(m.construction) : ~Covered(m, e.from) =>
    \A p \in Pairs(m) : p[1] = e.to =>
      \E x \in ExportSet(m.assumption) : x.to = p[2] /\ x.oracle = e.oracle

\* variant: the calls of the construction need not be in the assumption
WiresCovered(m) ==
  \A p \in Pairs(m) : \A f \in EdgeSet(m.assumption) : f.from = p[2] =>
    \E q \in Pairs(m) : q[2] = f.to /\
      \E e \in EdgeSet(m.construction) : e.from = p[1] /\ e.to = q[1]
\* Calls within the mapped part are those of the assumption.  types_match
\* compares the types of two signatures, not their names.
WiresOk(m) ==
  \A p \in Pairs(m) :
    /\ \A e \in EdgeSet(m.construction) : e.from = p[1] =>
         \E q \in Pairs(m) : q[1] = e.to /\
           \E f \in EdgeSet(m.assumption) :
             f.from = p[2] /\ f.to = q[2] /\ OracleType[f.oracle] = OracleType[e.oracle]
    /\ \A f \in EdgeSet(m.assumption) : f.from = p[2] =>
         \E q \in Pairs(m) : q[2] = f.to /\
           \E e \in EdgeSet(m.construction) : e.from = p[1] /\ e.to = q[1]

MapRejected(m) ==
  \/ \E i \in 1 .. Len(m.entries) : ~EntryOk(m, i)
  \/ ~AllMapped(m)
  \/ ~CrossCutOk(m)
\* handle_mapspec_assumption, for the assumption a.
MapOutcome(m, a) ==
  IF ~RolesOk(m, a) \/ MapRejected(Resolve(m)) THEN "error"
  ELSE IF ~WiresOk(Resolve(m)) THEN "panic" ELSE "ok"

-----------------------------------------------------------------------------
(* Reading. *)

Init ==
  /\ text \in Texts /\ pos = 1
  /\ consts = <<>> /\ instances = <<>> /\ table = <<>> /\ assumptions = <<>> /\ hops = <<>>
  /\ reduction = NoReduction /\ export = 1 /\ todo = <<>> /\ compared = {}
  /\ stop = "none"

Reading == stop = "none" /\ reduction = NoReduction
Reads(kinds) == Reading /\ pos <= Items /\ Item.kind \in kinds
Stop(o) == stop' = o /\ UNCHANGED <<text, pos, fileVars, hops, walkVars>>

\* The result of declare is unwrapped.
ReadConst ==
  /\ Reads({"const"})
  /\ IF Item.name \in DOMAIN consts
       THEN Stop("panic")
       ELSE /\ consts' = [c \in DOMAIN consts \cup {Item.name} |->
                            IF c = Item.name THEN Item.type ELSE consts[c]]
            /\ pos' = pos + 1
            /\ UNCHANGED <<text, instances, table, assumptions, hops, walkVars, stop>>

\* A name that was declared before is declared again.
ReadInstance ==
  /\ Reads({"instance"})
  /\ IF InstanceOutcome(Item) # "ok" THEN Stop(InstanceOutcome(Item))
     ELSE /\ instances' = Append(instances, NewInstance(Item))
          /\ table' = [n \in DOMAIN table \cup {Item.name} |->
                         IF n = Item.name THEN NewInstance(Item) ELSE table[n]]
          /\ pos' = pos + 1
          /\ UNCHANGED <<text, consts, assumptions, hops, walkVars, stop>>

BothKnown == Known(Item.left) /\ Known(Item.right)

ReadAssumption ==
  /\ Reads({"assumption"})
  /\ IF ~BothKnown THEN Stop("error")
     ELSE /\ assumptions' = Append(assumptions,
                [name |-> Item.name, left |-> Item.left, right |-> Item.right])
          /\ pos' = pos + 1
          /\ UNCHANGED <<text, consts, instances, table, hops, walkVars, stop>>

\* handle_conjecture checks nothing.
ReadOtherHop ==
  /\ Reads({"conjecture", "equivalence"})
  /\ IF Item.kind = "equivalence" /\ ~BothKnown THEN Stop("error")
     ELSE /\ hops' = Append(hops, [kind |-> Item.kind, left |-> Item.left, right |-> Item.right])
          /\ pos' = pos + 1
          /\ UNCHANGED <<text, fileVars, walkVars, stop>>

-----------------------------------------------------------------------------
(* Reductions. *)

\* The first assumption of a name.
AssumptionsNamed(n) == {i \in 1 .. Len(assumptions) : assumptions[i].name = n}
Assumption(n) ==
  assumptions[CHOOSE i \in AssumptionsNamed(n) : \A k \in AssumptionsNamed(n) : i <= k]

\* The two mappings may stand in either order.
Swapped == Item.map1.construction = Item.right
\* variant: the left game's mapping comes first
InOrder == Item.map1.construction = Item.left /\ Item.map2.construction = Item.right
SidesOk ==
  IF Swapped THEN Item.map2.construction = Item.left
  ELSE Item.map1.construction = Item.left /\ Item.map2.construction = Item.right

\* handle_reduction_body, up to the comparison.
BeginReduction ==
  /\ Reads({"reduction"})
  /\ IF AssumptionsNamed(Item.assumption) = {} THEN Stop("error")
     ELSE LET a == Assumption(Item.assumption) IN
       IF MapOutcome(Item.map1, a) # "ok" THEN Stop(MapOutcome(Item.map1, a))
       ELSE IF MapOutcome(Item.map2, a) # "ok" THEN Stop(MapOutcome(Item.map2, a))
       ELSE IF ~SidesOk THEN Stop("error")
       ELSE /\ reduction' = [kind |-> "reduction", assumption |-> Item.assumption,
                             left |-> Resolve(IF Swapped THEN Item.map2 ELSE Item.map1),
                             right |-> Resolve(IF Swapped THEN Item.map1 ELSE Item.map2)]
            /\ export' = 1 /\ todo' = <<>> /\ compared' = {}
            /\ UNCHANGED <<text, pos, fileVars, hops, stop>>

Left == reduction.left.construction
Right == reduction.right.construction
Comparing == stop = "none" /\ reduction # NoReduction

\* The next export of the left game; the right game's is unwrapped.
Counterparts(x) == {i \in 1 .. Len(Exports(Right)) : Exports(Right)[i].oracle = x.oracle}
NextExport ==
  /\ Comparing /\ todo = <<>> /\ export <= Len(Exports(Left))
  /\ LET x == Exports(Left)[export]
         is == Counterparts(x)
     IN  IF is = {} THEN Stop("panic")
         ELSE /\ todo' = <<[left |-> x.to,
                            right |-> Exports(Right)[CHOOSE i \in is : \A k \in is : i <= k].to,
                            depth |-> 1]>>
              /\ export' = export + 1
              /\ UNCHANGED <<text, pos, fileVars, hops, reduction, compared, stop>>

\* An instance is mapped if an entry has its name.
Mapped(m, k) == \E i \in 1 .. Len(m.entries) : m.entries[i][2] = Pkgs(m.construction)[k].name

\* The first edge for an import.
EdgesFor(i, k, o) ==
  {e \in 1 .. Len(Games[i.game].edges) :
     Games[i.game].edges[e].from = k /\ Games[i.game].edges[e].oracle = o}
Callee(i, k, o) ==
  Games[i.game].edges[CHOOSE e \in EdgesFor(i, k, o) : \A d \in EdgesFor(i, k, o) : e <= d].to

Call == todo[1]
\* variant: the right game's mapping is not looked at
LeftMapped == Mapped(reduction.left, Call.left)
BothMapped == Mapped(reduction.left, Call.left) /\ Mapped(reduction.right, Call.right)
\* variant: packages are compared, parameters are not
AgreeOnPackage ==
  /\ Mapped(reduction.left, Call.left) = Mapped(reduction.right, Call.right)
  /\ Pkgs(Left)[Call.left].pkg = Pkgs(Right)[Call.right].pkg
Agree ==
  /\ Mapped(reduction.left, Call.left) = Mapped(reduction.right, Call.right)
  /\ Same(Left, Call.left, Right, Call.right)

\* The calls made for the imports of the instances compared.
ImportedBy(k) == Imports[Pkgs(Left)[k].pkg]
Callees ==
  [i \in 1 .. Len(ImportedBy(Call.left)) |->
     [left |-> Callee(Left, Call.left, ImportedBy(Call.left)[i]),
      right |-> Callee(Right, Call.right, ImportedBy(Call.left)[i]),
      depth |-> Call.depth + 1]]

\* compare_reduction.
Compare ==
  /\ Comparing /\ todo # <<>>
  /\ IF Call.depth > StackLimit THEN Stop("overflow")
     ELSE IF ~BothMapped /\ ~Agree THEN Stop("error")
     ELSE /\ todo' = (IF BothMapped THEN <<>> ELSE Callees) \o Tail(todo)
          /\ compared' = compared \cup {<<Call.left, Call.right>>}
          /\ UNCHANGED <<text, pos, fileVars, hops, reduction, export, stop>>

\* The last checks panic.  Every instance of the assumption being mapped, there
\* are none left to compare.
FinishReduction ==
  /\ Comparing /\ todo = <<>> /\ export > Len(Exports(Left))
  /\ IF reduction.left.assumption.name = reduction.right.assumption.name \/ Left.name = Right.name
       THEN Stop("panic")
     ELSE /\ hops' = Append(hops, [kind |-> "reduction", left |-> reduction.left,
                                   right |-> reduction.right, assumption |-> reduction.assumption,
                                   compared |-> compared])
          /\ reduction' = NoReduction /\ pos' = pos + 1
          /\ UNCHANGED <<text, fileVars, export, todo, compared, stop>>

EndOfFile == Reading /\ pos > Items /\ Stop("ok")
Stopped == stop # "none" /\ UNCHANGED vars

Next ==
  \/ ReadConst \/ ReadInstance \/ ReadAssumption \/ ReadOtherHop
  \/ BeginReduction \/ NextExport \/ Compare \/ FinishReduction
  \/ EndOfFile \/ Stopped

Spec == Init /\ [][Next]_vars

-----------------------------------------------------------------------------
(* Properties. *)

Reductions == {h \in {hops[i] : i \in 1 .. Len(hops)} : h.kind = "reduction"}
Sides(h) == {h.left, h.right}

\* Everything read is in the lists, and a comparison refers to instances there are.
TypeOK ==
  /\ pos \in 1 .. Items + 1
  /\ \A n \in DOMAIN table :
       /\ \E i \in 1 .. Len(instances) : table[n] = instances[i]
       /\ table[n].name = n /\ table[n].game \in DOMAIN Games
       /\ DOMAIN table[n].values \in {{}, DOMAIN Games[table[n].game].consts}
       /\ Used(table[n].game) \subseteq DOMAIN table[n].values
  /\ \A i \in 1 .. Len(assumptions) : Known(assumptions[i].left) /\ Known(assumptions[i].right)
  /\ reduction # NoReduction =>
       /\ Left.game \in DOMAIN Games /\ Right.game \in DOMAIN Games
       /\ export \in 1 .. Len(Exports(Left)) + 1
       /\ \A i \in 1 .. Len(todo) :
            todo[i].left \in 1 .. Len(Pkgs(Left)) /\ todo[i].right \in 1 .. Len(Pkgs(Right))
  /\ stop \in {"none", "ok", "error", "panic", "overflow"}

\* A game with distinct instance names in which every import is wired once, and
\* one in which no instance imports two oracles of one type.
Plain(i) ==
  /\ \A k, j \in 1 .. Len(Pkgs(i)) : Pkgs(i)[k].name = Pkgs(i)[j].name => k = j
  /\ \A e, f \in EdgeSet(i) : e.from = f.from /\ e.oracle = f.oracle => e = f
TypesTellApart(i) ==
  \A e, f \in EdgeSet(i) : e.from = f.from /\ OracleType[e.oracle] = OracleType[f.oracle] => e = f

\* The mapped instances are a copy of the assumption's game m.assumption: one for
\* each, with the same package and parameters, calling each other alike.
IsCopy(m) ==
  /\ \A k \in 1 .. Len(Pkgs(m.assumption)) : \E p \in Pairs(m) : p[2] = k
  /\ \A p, q \in Pairs(m) : p[1] = q[1] <=> p[2] = q[2]
  /\ \A p \in Pairs(m) : Same(m.assumption, p[2], m.construction, p[1])
  /\ \A p \in Pairs(m) : \A e \in EdgeSet(m.construction) : e.from = p[1] =>
       \E f \in EdgeSet(m.assumption) :
         f.from = p[2] /\ f.oracle = e.oracle /\ <<e.to, f.to>> \in Pairs(m)
\* The instances outside the copy call only those of its oracles that the
\* assumption exports.  What the construction exports itself is not looked at.
CallsThroughExports(m) ==
  \A e \in EdgeSet(m.construction) : ~Covered(m, e.from) =>
    \A p \in Pairs(m) : p[1] = e.to =>
      \E x \in ExportSet(m.assumption) : x.to = p[2] /\ x.oracle = e.oracle

\* In an accepted reduction between plain games, whose imports differ in type,
\* either side contains its side of the assumption, and its other instances call
\* that only through oracles the assumption exports (handle_mapspec_assumption).
\* The adversary may call more: the construction's own exports may lead to any
\* instance of the copy.
MappedPartIsAssumption ==
  \A h \in Reductions : \A m \in Sides(h) :
    Plain(m.assumption) /\ Plain(m.construction) /\ TypesTellApart(m.construction)
      => IsCopy(m) /\ CallsThroughExports(m)

\* compared holds the exports' instances, and with two instances outside the
\* mapped parts, which are the same, those that any import leads to: whatever the
\* adversary calls, both games do the same until both enter the assumption.
IsSimulation(l, r, S) ==
  /\ \A x \in ExportSet(l.construction) : \E y \in ExportSet(r.construction) :
       x.oracle = y.oracle /\ <<x.to, y.to>> \in S
  /\ \A p \in S : Mapped(l, p[1]) <=> Mapped(r, p[2])
  /\ \A p \in S : ~Mapped(l, p[1]) =>
       /\ Same(l.construction, p[1], r.construction, p[2])
       /\ \A e \in EdgeSet(l.construction), f \in EdgeSet(r.construction) :
            e.from = p[1] /\ f.from = p[2] /\ e.oracle = f.oracle => <<e.to, f.to>> \in S

\* A game in which every instance is reached in one way, and one pairing of instances.
Tree(i) ==
  /\ \A e, f \in EdgeSet(i) : e.to = f.to => e = f
  /\ \A a, b \in 1 .. Len(Exports(i)) :
       Exports(i)[a].to = Exports(i)[b].to \/ Exports(i)[a].oracle = Exports(i)[b].oracle => a = b
  /\ \A e \in EdgeSet(i), x \in ExportSet(i) : e.to # x.to
OneToOne(S) == \A p, q \in S : p[1] = q[1] <=> p[2] = q[2]

\* An accepted reduction between plain games leads from one side of the assumption
\* to the other, and the parts around them simulate one another; where nothing is
\* shared, an instance stands for one only (handle_reduction_body, compare_reduction).
ReductionPartsAgree ==
  \A h \in Reductions :
    /\ h.left.assumption.name # h.right.assumption.name
    /\ Plain(h.left.construction) /\ Plain(h.right.construction)
         => /\ IsSimulation(h.left, h.right, h.compared)
            /\ Tree(h.left.construction) /\ Tree(h.right.construction) => OneToOne(h.compared)

\* What a reduction is: two distinct games that differ in nothing but the side of
\* the assumption they contain.  f pairs the instances outside of it.  (Nothing
\* is asked of the exports that lead into it.)
Twins(l, r, f) ==
  LET L == l.construction R == r.construction IN
  /\ \A k, j \in DOMAIN f : f[k] = f[j] => k = j
  /\ \A k \in DOMAIN f : Same(L, k, R, f[k])
  /\ \A e \in EdgeSet(L) : e.from \in DOMAIN f =>
       \E d \in EdgeSet(R) :
         /\ d.from = f[e.from] /\ d.oracle = e.oracle
         /\ IF e.to \in DOMAIN f THEN d.to = f[e.to] ELSE Covered(r, d.to)
  /\ \A x \in ExportSet(L) : \E y \in ExportSet(R) :
       y.oracle = x.oracle /\ IF x.to \in DOMAIN f THEN y.to = f[x.to] ELSE Covered(r, y.to)
Outside(m) == {k \in 1 .. Len(Pkgs(m.construction)) : ~Covered(m, k)}
EntriesFit(m) ==
  \A i \in 1 .. Len(m.entries) :
    /\ Offsets(m.assumption, m.entries[i][1]) # {} /\ Offsets(m.construction, m.entries[i][2]) # {}
    /\ \A j \in 1 .. Len(m.entries) :
         (m.entries[i][1] = m.entries[j][1] \/ m.entries[i][2] = m.entries[j][2]) => i = j
IsReduction(it) ==
  /\ it.kind = "reduction" /\ it.left # it.right /\ Known(it.left) /\ Known(it.right)
  /\ \E a \in {assumptions[i] : i \in AssumptionsNamed(it.assumption)} :
       /\ AssumptionsNamed(it.assumption) = {i \in 1 .. Len(assumptions) : assumptions[i] = a}
       /\ {it.left, it.right} \cap {a.left, a.right} = {}
       /\ {it.map1.assumption, it.map2.assumption} = {a.left, a.right} /\ a.left # a.right
  /\ Known(it.map1.construction) /\ Known(it.map2.construction)
  /\ \E m \in {Resolve(it.map1), Resolve(it.map2)}, n \in {Resolve(it.map1), Resolve(it.map2)} :
       /\ m.construction.name = it.left /\ n.construction.name = it.right
       /\ \A s \in {m, n} :
            /\ Plain(s.assumption) /\ Plain(s.construction)
            /\ EntriesFit(s)
            /\ IsCopy(s) /\ CallsThroughExports(s)
       /\ \A x, y \in ExportSet(n.construction) : x.oracle = y.oracle => x = y
       /\ \E f \in [Outside(m) -> Outside(n)] : Twins(m, n, f)

\* k is on a circle of calls of instances that are not mapped.
Circular(m) ==
  \E S \in (SUBSET Outside(m)) \ {{}} :
    \A k \in S : \E e \in EdgeSet(m.construction) : e.from = k /\ e.to \in S

\* A reduction that is one is accepted, unless the games call in circles.
ReductionsAccepted ==
  /\ stop \in {"error", "panic"} /\ pos <= Items => ~IsReduction(Item)
  /\ stop = "overflow" => Circular(reduction.left) /\ Circular(reduction.right)

\* The approach at the head of src/src/gamehops/reduction.rs is to "check that
\* the subgame starting by that root is identical": an instance on one side would
\* stand for one on the other.
SubgamesIdentical ==
  \A h \in Reductions : \A p, q \in h.compared :
    ~Mapped(h.left, p[1]) /\ ~Mapped(h.left, q[1]) => (p[1] = q[1] <=> p[2] = q[2])
=============================================================================
