----------------------------- MODULE GameProofs -----------------------------
(***************************************************************************)
(* Proofs about Game, for every set of packages, every text and every      *)
(* bound on it: the types, the scopes, and that ordered_pkgs puts callees  *)
(* first and panics for circles only.                                      *)
(***************************************************************************)
EXTENDS Game, SequenceTheorems, WellFoundedInduction, TLAPS

Wire == [from : Nat, to : Nat, oracle : OracleNames, index : SUBSET STRING]
ExportType == [to : Nat, oracle : OracleNames, index : SUBSET STRING]
Outcomes == {"ok", "error", "panic"}

\* A wire leads from an instance of the list to one.
LEMMA WireTypes ==
  ASSUME TypeOK
  PROVE  /\ Len(wires) \in Nat /\ Len(instances) \in Nat
         /\ \A i : \A k \in EdgesFrom(i) :
              /\ k \in 1 .. Len(wires) /\ wires[k].from = i
              /\ wires[k].to \in Offsets /\ i \in Offsets
BY DEF TypeOK, EdgesFrom, WiresFrom, Offsets

\* Reading an item moves to a place of the grammar.
LEMMA ReadTypes ==
  ASSUME TypeOK, NEW kind, Read(kind)
  PROVE  /\ stages' \in Seq(Stages) /\ Len(stages') = Len(stages)
         /\ phase = "parse" /\ outcome = "ok"
<1>1. PICK s \in Following(kind) : stages' = [stages EXCEPT ![Depth] = s]
  BY DEF Read
<1>2. s \in Stages /\ Depth \in 1 .. Len(stages)
  BY DEF Following, Depth, TypeOK
<1>3. stages \in Seq(Stages)
  BY DEF TypeOK
<1> QED
  BY <1>1, <1>2, <1>3, ExceptSeq DEF Read

\* A text that is stopped keeps everything but its outcome.
LEMMA StopTypes ==
  ASSUME TypeOK, NEW o \in Outcomes, Stop(o),
         stages' \in Seq(Stages), Len(stages') >= Len(scope)
  PROVE  TypeOK'
<1>1. Len(scope) \in 1 .. Len(stages')
  BY DEF TypeOK
<1> QED
  BY <1>1 DEF TypeOK, Stop, gameVars, laterVars, Outcomes, Offsets, Pkg

\* A constant joins the innermost table.
LEMMA ConstTypes ==
  ASSUME TypeOK, GameAssumption, NEW n \in ConstNames, ReadConst(n)
  PROVE  TypeOK'
<1>1. stages' \in Seq(Stages) /\ Len(stages') = Len(stages)
  BY ReadTypes DEF ReadConst
<1>2. CASE Stop("panic")
  BY <1>1, <1>2, StopTypes DEF Outcomes, TypeOK
<1>3. CASE /\ scope' = [scope EXCEPT ![Len(scope)] = @ \cup {n}]
           /\ UNCHANGED <<phase, outcome, gameVars, laterVars>>
  <2>1. scope \in Seq(SUBSET STRING) /\ Len(scope) \in 1 .. Len(scope)
    BY DEF TypeOK
  <2>2. n \in STRING
    BY DEF GameAssumption
  <2>3. scope[Len(scope)] \cup {n} \in SUBSET STRING
    BY <2>1, <2>2, ElementOfSeq
  <2>4. scope' \in Seq(SUBSET STRING) /\ Len(scope') = Len(scope)
    BY <1>3, <2>1, <2>3, ExceptSeq
  <2> QED
    BY <1>1, <1>3, <2>4 DEF TypeOK, gameVars, laterVars, Offsets, Pkg
<1> QED
  BY <1>2, <1>3 DEF ReadConst

\* A loop opens a table and a place in the grammar.
LEMMA ForTypes ==
  ASSUME TypeOK, GameAssumption, NEW it \in LoopItems, ReadFor(it)
  PROVE  TypeOK'
<1>1. PICK s \in Following("for") : stages' = Append([stages EXCEPT ![Depth] = s], "loop")
  BY DEF ReadFor
<1>2. s \in Stages /\ Depth \in 1 .. Len(stages) /\ stages \in Seq(Stages)
  BY DEF Following, Depth, TypeOK
<1>3. "loop" \in Stages
  <2>1. <<"loop", "for", "loop">> \in Grammar
    BY DEF Grammar
  <2> QED
    BY <2>1 DEF Stages
<1>4. [stages EXCEPT ![Depth] = s] \in Seq(Stages) /\ Len([stages EXCEPT ![Depth] = s]) = Len(stages)
  BY <1>2, ExceptSeq
<1>5. stages' \in Seq(Stages) /\ Len(stages') = Len(stages) + 1
  BY <1>1, <1>3, <1>4, AppendProperties
<1>6. CASE Stop("error") \/ Stop("panic")
  <2>1. Len(stages') >= Len(scope)
    BY <1>5 DEF TypeOK
  <2> QED
    BY <1>5, <1>6, <2>1, StopTypes DEF Outcomes
<1>7. CASE scope' = Append(scope, {it.var}) /\ UNCHANGED <<phase, outcome, gameVars, laterVars>>
  <2>1. {it.var} \in SUBSET STRING
    BY DEF GameAssumption
  <2>2. scope \in Seq(SUBSET STRING)
    BY DEF TypeOK
  <2>3. scope' \in Seq(SUBSET STRING) /\ Len(scope') = Len(scope) + 1
    BY <1>7, <2>1, <2>2, AppendProperties
  <2>4. Len(scope') \in 1 .. Len(stages')
    BY <1>5, <2>3 DEF TypeOK
  <2> QED
    BY <1>5, <1>7, <2>3, <2>4 DEF TypeOK, gameVars, laterVars, Offsets, Pkg
<1> QED
  BY <1>6, <1>7 DEF ReadFor

\* The end of a loop closes them.
LEMMA EndForTypes ==
  ASSUME TypeOK, EndFor
  PROVE  TypeOK'
<1>1. stages' = SubSeq(stages, 1, Len(stages) - 1) /\ scope' = SubSeq(scope, 1, Len(scope) - 1)
  BY DEF EndFor, Depth
<1>2. Len(scope) > 1 /\ Len(scope) \in Nat /\ Len(stages) \in Nat /\ Len(stages) >= Len(scope)
  BY DEF EndFor, InLoop, TypeOK
<1>3. stages' \in Seq(Stages) /\ Len(stages') = Len(stages) - 1
  <2>1. \A i \in 1 .. Len(stages) - 1 : stages[i] \in Stages
    BY DEF TypeOK
  <2> QED
    BY <1>1, <1>2, <2>1, SubSeqProperties
<1>4. scope' \in Seq(SUBSET STRING) /\ Len(scope') = Len(scope) - 1
  <2>1. \A i \in 1 .. Len(scope) - 1 : scope[i] \in SUBSET STRING
    BY DEF TypeOK
  <2> QED
    BY <1>1, <1>2, <2>1, SubSeqProperties
<1>5. Len(scope') \in 1 .. Len(stages')
  BY <1>2, <1>3, <1>4
<1> QED
  BY <1>3, <1>4, <1>5 DEF EndFor, TypeOK, gameVars, laterVars, Offsets, Pkg

\* A sequence that is continued by one of length n.
LEMMA Continued ==
  ASSUME NEW S, NEW s \in Seq(S), NEW n \in Nat, NEW f \in [1 .. n -> S]
  PROVE  /\ s \o f \in Seq(S) /\ Len(s) \in Nat /\ Len(s \o f) = Len(s) + n
         /\ \A k \in 1 .. Len(s) + n :
              \/ k \in 1 .. Len(s) /\ (s \o f)[k] = s[k]
              \/ k - Len(s) \in 1 .. n /\ (s \o f)[k] = f[k - Len(s)]
<1>1. f \in Seq(S) /\ Len(f) = n
  <2>1. f \in Seq(S)
    BY SeqDef
  <2>2. DOMAIN f = 1 .. n /\ DOMAIN f = 1 .. Len(f) /\ Len(f) \in Nat
    BY <2>1, LenProperties
  <2> QED
    BY <2>1, <2>2
<1>2. Len(s) \in Nat
  OBVIOUS
<1> QED
  BY <1>1, <1>2, ConcatProperties

\* What an accepted declaration adds to the list is an instance.
LEMMA NewInstance ==
  ASSUME GameAssumption, NEW it \in InstanceItems, InstanceOk(it)
  PROVE  LET new == [name |-> it.name, pkg |-> it.pkg,
                     args |-> [n \in ParamNames(it) |-> it.params[Args(it)[n]].value]]
         IN  /\ new \in Instance
             /\ DOMAIN new.args = Packages[new.pkg].params
<1> DEFINE args == [n \in ParamNames(it) |-> it.params[Args(it)[n]].value]
<1>1. it.pkg \in DOMAIN Packages /\ ParamNames(it) = Packages[it.pkg].params /\ it.name \in STRING
  BY DEF InstanceOk, ParamsOk, GameAssumption
<1>2. ASSUME NEW n \in ParamNames(it)
      PROVE  args[n] \in Values
  <2>1. PICK k \in 1 .. Len(it.params) : it.params[k].name = n
    BY <1>2 DEF ParamNames
  <2>2. Args(it)[n] \in 1 .. Len(it.params)
    <3>1. Args(it)[n] = (CHOOSE l \in 1 .. Len(it.params) : it.params[l].name = n)
      BY <1>2 DEF Args
    <3> QED
      BY <2>1, <3>1
  <2>3. it.params[Args(it)[n]].value \in {it.params[l].value : l \in 1 .. Len(it.params)}
    BY <2>2
  <2> QED
    BY <1>2, <2>3 DEF Values
<1>3. args \in [Packages[it.pkg].params -> Values]
  BY <1>1, <1>2
<1> HIDE DEF args
<1>4. args \in UNION {[Packages[p].params -> Values] : p \in DOMAIN Packages}
  BY <1>1, <1>3
<1>5. DOMAIN args = Packages[it.pkg].params
  BY <1>3
<1> QED
  BY <1>1, <1>4, <1>5 DEF Instance, args

\* A declaration puts an instance at the end of the list.
LEMMA InstanceTypes ==
  ASSUME TypeOK, GameAssumption, NEW it \in InstanceItems, ReadInstance(it)
  PROVE  TypeOK'
<1>1. stages' \in Seq(Stages) /\ Len(stages') = Len(stages) /\ phase = "parse"
  BY ReadTypes DEF ReadInstance
<1>2. CASE Stop("error") \/ Stop("panic")
  <2>1. Len(stages') >= Len(scope)
    BY <1>1 DEF TypeOK
  <2> QED
    BY <1>1, <1>2, <2>1, StopTypes DEF Outcomes
<1>3. CASE ~ InstancePanics(it) /\ InstanceOk(it)
  <2> DEFINE new == [name |-> it.name, pkg |-> it.pkg,
                     args |-> [n \in ParamNames(it) |-> it.params[Args(it)[n]].value]]
  <2>1. new \in Instance /\ DOMAIN new.args = Packages[new.pkg].params /\ new.name = it.name
    BY <1>3, NewInstance
  <2>2. instances' = Append(instances, new)
    BY <1>3 DEF ReadInstance
  <2>3. table' = [n \in DOMAIN table \cup {it.name} |->
               IF n = it.name THEN NewOffset ELSE table[n]]
    BY <1>3 DEF ReadInstance
  <2>4. UNCHANGED <<phase, outcome, scope, wires, exports, laterVars>>
    BY <1>3 DEF ReadInstance
  <2> HIDE DEF new
  <2>5. instances \in Seq(Instance)
    BY DEF TypeOK
  <2>6. /\ instances' \in Seq(Instance) /\ Len(instances') = Len(instances) + 1
        /\ \A i \in 1 .. Len(instances) : instances'[i] = instances[i]
        /\ instances'[Len(instances) + 1] = new
    BY <2>1, <2>2, <2>5, AppendProperties
  <2>7. Len(instances) \in Nat
    BY <2>5
  <2>8. \A i \in Offsets' : DOMAIN instances'[i].args = Pkg(i)'.params
    <3> SUFFICES ASSUME NEW i \in 1 .. Len(instances) + 1
                 PROVE  DOMAIN instances'[i].args = Packages[instances'[i].pkg].params
      BY <2>6 DEF Offsets, Pkg
    <3>1. CASE i \in 1 .. Len(instances)
      BY <2>6, <3>1 DEF Offsets, Pkg, TypeOK
    <3>2. CASE i = Len(instances) + 1
      BY <2>1, <2>6, <3>2
    <3> QED
      BY <2>7, <3>1, <3>2
  <2>9. \A n \in DOMAIN table' : table'[n] \in Offsets' /\ instances'[table'[n]].name = n
    <3> SUFFICES ASSUME NEW n \in DOMAIN table'
                 PROVE  table'[n] \in Offsets' /\ instances'[table'[n]].name = n
      OBVIOUS
    <3>1. CASE n = it.name
      BY <2>1, <2>3, <2>6, <2>7, <3>1 DEF NewOffset, Offsets
    <3>2. CASE n # it.name
      <4>1. n \in DOMAIN table /\ table'[n] = table[n]
        BY <2>3, <3>2
      <4>2. table[n] \in 1 .. Len(instances) /\ instances[table[n]].name = n
        BY <4>1 DEF TypeOK, Offsets
      <4> QED
        BY <2>6, <2>7, <4>1, <4>2 DEF Offsets
    <3> QED
      BY <3>1, <3>2
  <2>10. Len(scope') \in 1 .. Len(stages')
    BY <1>1, <2>4 DEF TypeOK
  <2>11. \A k \in 1 .. Len(wires') : wires'[k].from \in Offsets' /\ wires'[k].to \in Offsets'
    <3>1. \A k \in 1 .. Len(wires) : wires[k].from \in Offsets /\ wires[k].to \in Offsets
      BY DEF TypeOK
    <3>2. Offsets \subseteq Offsets' /\ wires' = wires
      BY <2>4, <2>6, <2>7 DEF Offsets
    <3> QED
      BY <3>1, <3>2
  <2>12. \A k \in 1 .. Len(exports') : exports'[k].to \in Offsets'
    BY <2>4, <2>6, <2>7 DEF Offsets, TypeOK
  <2>13. Len(callees') \in 0 .. Len(instances') /\ Len(definitions') \in 0 .. Len(instances')
    BY <2>4, <2>6, <2>7 DEF TypeOK, laterVars
  <2>14. phase' = "parse"
    BY <1>1, <2>4
  <2> QED
    BY <1>1, <2>4, <2>6, <2>8, <2>9, <2>10, <2>11, <2>12, <2>13, <2>14 DEF TypeOK, laterVars
<1> QED
  BY <1>2, <1>3 DEF ReadInstance

\* The wires of an accepted block lead from and to instances.
LEMMA BlockWires ==
  ASSUME TypeOK, GameAssumption, NEW it \in BodyItems, EdgesOk(it), NEW k \in 1 .. Len(it.wires)
  PROVE  /\ table[it.source] \in Offsets /\ table[it.wires[k].dest] \in Offsets
         /\ [from |-> table[it.source], to |-> table[it.wires[k].dest],
             oracle |-> it.wires[k].oracle, index |-> it.wires[k].index] \in Wire
<1>1. \A n \in DOMAIN table : table[n] \in Offsets /\ table[n] \in Nat
  BY DEF TypeOK, Offsets
<1>2. it.source \in DOMAIN table /\ it.wires[k].dest \in DOMAIN table
  BY DEF EdgesOk, DestinationOk
<1>3. it.wires[k].oracle \in OracleNames /\ it.wires[k].index \in SUBSET STRING
  <2>1. it.wires \in Seq([oracle : OracleNames, dest : STRING, index : SUBSET STRING])
    BY DEF GameAssumption
  <2>2. it.wires[k] \in [oracle : OracleNames, dest : STRING, index : SUBSET STRING]
    BY <2>1, ElementOfSeq
  <2> QED
    BY <2>2
<1> QED
  BY <1>1, <1>2, <1>3 DEF Wire

\* The wires of a block follow those there are.
LEMMA BlockAdded ==
  ASSUME TypeOK, GameAssumption, NEW it \in BodyItems, NEW new \in [1 .. Len(it.wires) -> Wire]
  PROVE  /\ wires \o new \in Seq(Wire) /\ Len(wires) \in Nat
         /\ Len(wires \o new) = Len(wires) + Len(it.wires)
         /\ \A k \in 1 .. Len(wires) + Len(it.wires) :
              \/ k \in 1 .. Len(wires) /\ (wires \o new)[k] = wires[k]
              \/ k - Len(wires) \in 1 .. Len(it.wires) /\ (wires \o new)[k] = new[k - Len(wires)]
<1> DEFINE n == Len(it.wires)
<1>1. n \in Nat
  BY DEF GameAssumption
<1>2. wires \in Seq(Wire)
  BY DEF TypeOK, Wire
<1>3. new \in [1 .. n -> Wire]
  OBVIOUS
<1> HIDE DEF n
<1>4. /\ wires \o new \in Seq(Wire) /\ Len(wires) \in Nat
      /\ Len(wires \o new) = Len(wires) + n
      /\ \A k \in 1 .. Len(wires) + n :
           \/ k \in 1 .. Len(wires) /\ (wires \o new)[k] = wires[k]
           \/ k - Len(wires) \in 1 .. n /\ (wires \o new)[k] = new[k - Len(wires)]
  BY <1>1, <1>2, <1>3, Continued
<1> QED
  BY <1>4 DEF n

\* A wiring block adds wires between instances of the table.
LEMMA BodyTypes ==
  ASSUME TypeOK, GameAssumption, NEW it \in BodyItems, ReadBody(it)
  PROVE  TypeOK'
<1>1. stages' \in Seq(Stages) /\ Len(stages') = Len(stages) /\ phase = "parse"
  BY ReadTypes DEF ReadBody
<1>2. CASE Stop("error") \/ Stop("panic")
  <2>1. Len(stages') >= Len(scope)
    BY <1>1 DEF TypeOK
  <2> QED
    BY <1>1, <1>2, <2>1, StopTypes DEF Outcomes
<1>3. \A n \in DOMAIN table : table[n] \in Offsets /\ table[n] \in Nat
  BY DEF TypeOK, Offsets
<1>4. /\ Len(it.wires) \in Nat
      /\ \A k \in 1 .. Len(it.wires) :
           it.wires[k].oracle \in OracleNames /\ it.wires[k].index \in SUBSET STRING
  <2>1. it.wires \in Seq([oracle : OracleNames, dest : STRING, index : SUBSET STRING])
    BY DEF GameAssumption
  <2>2. \A k \in 1 .. Len(it.wires) :
          it.wires[k] \in [oracle : OracleNames, dest : STRING, index : SUBSET STRING]
    BY <2>1, ElementOfSeq
  <2> QED
    BY <2>1, <2>2
<1>5. ASSUME ExportsOk(it),
             exports' = exports \o [k \in 1 .. Len(it.wires) |->
                      [to |-> table[it.wires[k].dest], oracle |-> it.wires[k].oracle,
                       index |-> it.wires[k].index]],
             UNCHANGED <<phase, outcome, scope, instances, table, wires, laterVars>>
      PROVE  TypeOK'
  <2> DEFINE new == [k \in 1 .. Len(it.wires) |->
                      [to |-> table[it.wires[k].dest], oracle |-> it.wires[k].oracle,
                       index |-> it.wires[k].index]]
  <2>1. \A k \in 1 .. Len(it.wires) : new[k] \in ExportType /\ new[k].to \in Offsets
    BY <1>3, <1>4, <1>5 DEF ExportsOk, DestinationOk, ExportType
  <2>2. new \in [1 .. Len(it.wires) -> ExportType]
    BY <2>1
  <2>3. exports \in Seq(ExportType)
    BY DEF TypeOK, ExportType
  <2> HIDE DEF new
  <2> DEFINE n == Len(it.wires)
  <2>8. n \in Nat /\ new \in [1 .. n -> ExportType]
    BY <1>4, <2>2
  <2> HIDE DEF n
  <2>9. /\ exports \o new \in Seq(ExportType) /\ Len(exports) \in Nat
        /\ Len(exports \o new) = Len(exports) + n
        /\ \A k \in 1 .. Len(exports) + n :
              \/ k \in 1 .. Len(exports) /\ (exports \o new)[k] = exports[k]
              \/ k - Len(exports) \in 1 .. n /\ (exports \o new)[k] = new[k - Len(exports)]
    BY <2>3, <2>8, Continued
  <2>4. /\ exports \o new \in Seq(ExportType) /\ Len(exports) \in Nat
        /\ Len(exports \o new) = Len(exports) + Len(it.wires)
        /\ \A k \in 1 .. Len(exports) + Len(it.wires) :
              \/ k \in 1 .. Len(exports) /\ (exports \o new)[k] = exports[k]
              \/ /\ k - Len(exports) \in 1 .. Len(it.wires)
                 /\ (exports \o new)[k] = new[k - Len(exports)]
    BY <2>9 DEF n
  <2>5. exports' = exports \o new
    BY <1>5 DEF new
  <2>6. \A k \in 1 .. Len(exports) : exports[k].to \in Offsets
    BY DEF TypeOK
  <2>7. \A k \in 1 .. Len(exports') : exports'[k].to \in Offsets
    BY <2>1, <2>4, <2>5, <2>6
  <2> QED
    BY <1>1, <1>5, <2>4, <2>5, <2>7 DEF TypeOK, laterVars, Offsets, Pkg, ExportType
<1>6. ASSUME EdgesOk(it),
             wires' = wires \o [k \in 1 .. Len(it.wires) |->
                 [from |-> table[it.source], to |-> table[it.wires[k].dest],
                  oracle |-> it.wires[k].oracle, index |-> it.wires[k].index]],
             UNCHANGED <<phase, outcome, scope, instances, table, exports, laterVars>>
      PROVE  TypeOK'
  <2> DEFINE new == [k \in 1 .. Len(it.wires) |->
                 [from |-> table[it.source], to |-> table[it.wires[k].dest],
                  oracle |-> it.wires[k].oracle, index |-> it.wires[k].index]]
  <2>1. \A k \in 1 .. Len(it.wires) :
          new[k] \in Wire /\ new[k].from \in Offsets /\ new[k].to \in Offsets
    BY <1>6, BlockWires
  <2>2. new \in [1 .. Len(it.wires) -> Wire]
    BY <2>1
  <2>3. wires \in Seq(Wire)
    BY DEF TypeOK, Wire
  <2> HIDE DEF new
  <2>4. /\ wires \o new \in Seq(Wire) /\ Len(wires) \in Nat
        /\ Len(wires \o new) = Len(wires) + Len(it.wires)
        /\ \A k \in 1 .. Len(wires) + Len(it.wires) :
              \/ k \in 1 .. Len(wires) /\ (wires \o new)[k] = wires[k]
              \/ /\ k - Len(wires) \in 1 .. Len(it.wires)
                 /\ (wires \o new)[k] = new[k - Len(wires)]
    BY <2>2, BlockAdded
  <2>5. wires' = wires \o new
    BY <1>6 DEF new
  <2>6. \A k \in 1 .. Len(wires) : wires[k].from \in Offsets /\ wires[k].to \in Offsets
    BY DEF TypeOK
  <2>7. \A k \in 1 .. Len(wires') : wires'[k].from \in Offsets /\ wires'[k].to \in Offsets
    BY <2>1, <2>4, <2>5, <2>6
  <2> QED
    BY <1>1, <1>6, <2>4, <2>5, <2>7 DEF TypeOK, laterVars, Offsets, Pkg, Wire
<1> QED
  BY <1>2, <1>5, <1>6 DEF ReadBody

\* The end of the text changes the phase or the outcome.
LEMMA EndOfGameTypes ==
  ASSUME TypeOK, EndOfGame
  PROVE  TypeOK'
BY DEF EndOfGame, TypeOK, textVars, gameVars, laterVars, Phases, Offsets, Pkg

\* A panic changes the outcome.
LEMMA PanicTypes ==
  ASSUME TypeOK, Panic
  PROVE  TypeOK'
BY DEF Panic, TypeOK, textVars, gameVars, laterVars, Offsets, Pkg

\* What follows the parser does not touch the game; what it adds has its types.
LEMMA LaterTypes ==
  ASSUME TypeOK, Later
  PROVE  TypeOK'
<1> USE DEF Work, Enter, textVars, gameVars, laterVars, Phases
<1>1. Len(instances) \in Nat /\ Len(callees) \in Nat /\ Len(definitions) \in Nat /\ round \in Nat
  BY DEF TypeOK
<1>2. CASE Resolve
  <2>1. CASE Panic
    BY <2>1, PanicTypes
  <2>2. ASSUME NEW new, callees' = Append(callees, new),
               UNCHANGED <<rank, round, definitions>>, Work
        PROVE  TypeOK'
    <3>1. Len(callees') = Len(callees) + 1
      BY <1>1, <2>2
    <3> QED
      BY <1>1, <1>2, <2>2, <3>1 DEF Resolve, TypeOK, Offsets, Pkg
  <2> QED
    BY <1>2, <2>1, <2>2 DEF Resolve
<1>3. CASE Resolved
  BY <1>1, <1>3 DEF Resolved, TypeOK, Offsets, Pkg
<1>4. CASE OrderRound
  <2>1. CASE Panic
    BY <2>1, PanicTypes
  <2>2. CASE Candidates # {}
    <3>1. rank' \in [DOMAIN rank' -> 0 .. round'] /\ DOMAIN rank' = Offsets /\ round' \in Nat
      BY <1>1, <1>4, <2>2 DEF OrderRound, TypeOK
    <3> QED
      BY <1>4, <2>2, <3>1 DEF OrderRound, TypeOK, Offsets, Pkg
  <2> QED
    BY <1>4, <2>1, <2>2 DEF OrderRound
<1>5. CASE Ordered
  BY <1>5 DEF Ordered, TypeOK, Offsets, Pkg
<1>6. CASE Define
  <2>1. CASE Panic
    BY <2>1, PanicTypes
  <2>2. ASSUME NEW new, definitions' = Append(definitions, new),
               UNCHANGED <<callees, rank, round>>, Work
        PROVE  TypeOK'
    <3>1. Len(definitions') = Len(definitions) + 1
      BY <1>1, <2>2
    <3> QED
      BY <1>1, <1>6, <2>2, <3>1 DEF Define, TypeOK, Offsets, Pkg
  <2> QED
    BY <1>6, <2>1, <2>2 DEF Define
<1>7. CASE AllDefined
  BY <1>7 DEF AllDefined, TypeOK, Offsets, Pkg
<1> QED
  BY <1>2, <1>3, <1>4, <1>5, <1>6, <1>7 DEF Later

\* The empty text.
LEMMA InitTypes ==
  ASSUME Init
  PROVE  TypeOK
<1>1. "consts" \in Stages
  <2>1. <<"consts", "const", "consts">> \in Grammar
    BY DEF Grammar
  <2> QED
    BY <2>1 DEF Stages
<1> QED
  BY <1>1 DEF Init, TypeOK, Phases, Offsets

\* Every step keeps the types.
LEMMA StepTypes ==
  ASSUME TypeOK, GameAssumption, [Next]_vars
  PROVE  TypeOK'
<1>1. CASE ReadItem
  BY <1>1, ConstTypes, ForTypes, EndForTypes, InstanceTypes, BodyTypes DEF ReadItem
<1>2. CASE UNCHANGED vars
  BY <1>2 DEF vars, textVars, gameVars, laterVars, TypeOK, Offsets, Pkg
<1> QED
  BY <1>1, <1>2, EndOfGameTypes, LaterTypes DEF Next, Ended

\* The offsets in the game's lists always refer to what is there.
THEOREM TypeCorrect == Spec => []TypeOK
<1>1. Init => TypeOK
  BY InitTypes
<1>2. TypeOK /\ [Next]_vars => TypeOK'
  BY StepTypes, GameAssumption
<1> QED
  BY <1>1, <1>2, PTL DEF Spec

-----------------------------------------------------------------------------
(* Scopes. *)

\* A name that is declared was in no table, so that no two tables share one.
LEMMA ScopeStep ==
  ASSUME TypeOK, NoShadowing, [Next]_vars
  PROVE  NoShadowing'
<1> USE DEF Stop, textVars, gameVars, laterVars
<1>1. scope \in Seq(SUBSET STRING) /\ Len(scope) \in Nat \ {0}
  BY DEF TypeOK
<1>2. ASSUME UNCHANGED scope, outcome' = "ok" => outcome = "ok"
      PROVE  NoShadowing'
  BY <1>2 DEF NoShadowing
<1>3. ASSUME NEW n, ReadConst(n)
      PROVE  NoShadowing'
  <2>1. CASE Stop("panic")
    BY <2>1 DEF NoShadowing
  <2>2. CASE n \notin Taken /\ scope' = [scope EXCEPT ![Len(scope)] = @ \cup {n}]
    <3>1. /\ Len(scope') = Len(scope)
          /\ \A i \in 1 .. Len(scope) :
               scope'[i] = IF i = Len(scope) THEN scope[i] \cup {n} ELSE scope[i]
      <4> DEFINE S == SUBSET (STRING \cup {n})
                 e == scope[Len(scope)] \cup {n}
      <4>1. scope \in Seq(S) /\ Len(scope) \in 1 .. Len(scope)
        BY <1>1, SeqMonotonic
      <4>2. e \in S
        BY <4>1, ElementOfSeq
      <4>3. scope' = [scope EXCEPT ![Len(scope)] = e]
        BY <2>2
      <4> HIDE DEF S, e
      <4>4. /\ Len(scope') = Len(scope)
            /\ \A i \in 1 .. Len(scope) : scope'[i] = IF i = Len(scope) THEN e ELSE scope[i]
        BY <4>1, <4>2, <4>3, ExceptSeq
      <4> QED
        BY <4>4 DEF e
    <3>2. \A i \in 1 .. Len(scope) : n \notin scope[i]
      BY <2>2 DEF Taken
    <3>3. \A i, k \in 1 .. Len(scope) : scope[i] \cap scope[k] # {} => i = k
      BY <1>3 DEF NoShadowing, ReadConst, Read
    <3>4. ASSUME NEW i \in 1 .. Len(scope), NEW k \in 1 .. Len(scope), scope'[i] \cap scope'[k] # {}
          PROVE  i = k
      <4>1. PICK x : x \in scope'[i] /\ x \in scope'[k]
        BY <3>4
      <4>2. CASE x = n
        BY <3>1, <3>2, <4>1, <4>2
      <4>3. CASE x # n
        BY <3>1, <3>3, <4>1, <4>3
      <4> QED
        BY <4>2, <4>3
    <3> QED
      BY <3>1, <3>4 DEF NoShadowing
  <2> QED
    BY <1>3, <2>1, <2>2 DEF ReadConst
<1>4. ASSUME NEW it, ReadFor(it)
      PROVE  NoShadowing'
  <2>1. CASE Stop("panic") \/ Stop("error")
    BY <2>1 DEF NoShadowing
  <2>2. CASE it.var \notin Taken /\ scope' = Append(scope, {it.var})
    <3>1. /\ Len(scope') = Len(scope) + 1
          /\ \A i \in 1 .. Len(scope) : scope'[i] = scope[i]
          /\ scope'[Len(scope) + 1] = {it.var}
      BY <1>1, <2>2
    <3>2. \A i \in 1 .. Len(scope) : it.var \notin scope[i]
      BY <2>2 DEF Taken
    <3>3. \A i, k \in 1 .. Len(scope) : scope[i] \cap scope[k] # {} => i = k
      BY <1>4 DEF NoShadowing, ReadFor
    <3> QED
      BY <1>1, <3>1, <3>2, <3>3 DEF NoShadowing
  <2> QED
    BY <1>4, <2>1, <2>2 DEF ReadFor
<1>5. CASE EndFor
  <2>1. Len(scope') = Len(scope) - 1 /\ \A i \in 1 .. Len(scope) - 1 : scope'[i] = scope[i]
    BY <1>1, <1>5 DEF EndFor, InLoop
  <2>2. outcome = "ok" /\ \A i, k \in 1 .. Len(scope) : scope[i] \cap scope[k] # {} => i = k
    BY <1>5 DEF NoShadowing, EndFor
  <2>3. ASSUME NEW i \in 1 .. Len(scope'), NEW k \in 1 .. Len(scope'),
               scope'[i] \cap scope'[k] # {}
        PROVE  i = k
    <3>1. i \in 1 .. Len(scope) - 1 /\ k \in 1 .. Len(scope) - 1
      BY <2>1, <2>3
    <3>2. i \in 1 .. Len(scope) /\ k \in 1 .. Len(scope)
      BY <1>1, <3>1
    <3>3. scope[i] \cap scope[k] # {}
      BY <2>1, <2>3, <3>1, Zenon
    <3> QED
      BY <2>2, <3>2, <3>3, Zenon
  <2> QED
    BY <2>3 DEF NoShadowing
<1>6. ASSUME NEW it, ReadInstance(it)
      PROVE  UNCHANGED scope /\ (outcome' = "ok" => outcome = "ok")
  BY <1>6 DEF ReadInstance, Read
<1>7. ASSUME NEW it, ReadBody(it)
      PROVE  UNCHANGED scope /\ (outcome' = "ok" => outcome = "ok")
  BY <1>7 DEF ReadBody, Read
<1>8. CASE EndOfGame
  BY <1>2, <1>8 DEF EndOfGame
<1>9. CASE Later
  BY <1>2, <1>9 DEF Later, Resolve, Resolved, OrderRound, Ordered, Define, AllDefined,
                    Enter, Work, Panic
<1>10. CASE UNCHANGED vars
  BY <1>2, <1>10 DEF vars
<1> QED
  BY <1>2, <1>3, <1>4, <1>5, <1>6, <1>7, <1>8, <1>9, <1>10 DEF Next, ReadItem, Ended

\* No name is declared twice in nested scopes, whatever is declared and nested.
THEOREM ScopesDisjoint == Spec => []NoShadowing
<1>1. Init => NoShadowing
  BY DEF Init, NoShadowing
<1>2. TypeOK /\ NoShadowing /\ [Next]_vars => NoShadowing'
  BY ScopeStep
<1> QED
  BY <1>1, <1>2, TypeCorrect, PTL DEF Spec

-----------------------------------------------------------------------------
(* The order of the instances. *)

AllWired == \A i \in Offsets : \A o \in Imports(i) : Wired(i, o)
CirclesUnranked ==
  \A is \in SUBSET Offsets : Circle(is) => \A i \in is \cap DOMAIN rank : rank[i] = 0

\* What carries ordered_pkgs and the steps before it: the game is complete when
\* its text has ended; the instances of a circle are never candidates.
OrderInv ==
  /\ phase \in {"parse", "resolve"} => DOMAIN rank = {}
  /\ phase # "parse" => AllWired
  /\ ResolveSucceeds
  /\ CalleesFirst
  /\ CirclesUnranked
  /\ phase \in {"define", "done"} => Unranked = {}
  /\ OnlyCirclesPanic

\* The parser touches neither the order nor the phase.
LEMMA ReadsKeepOrder ==
  ASSUME OrderInv, ReadItem
  PROVE  OrderInv'
<1>1. phase = "parse" /\ phase' = "parse" /\ rank' = rank
  BY DEF ReadItem, ReadConst, ReadFor, EndFor, ReadInstance, ReadBody, Read, Stop,
         gameVars, laterVars
<1>2. DOMAIN rank' = {}
  BY <1>1 DEF OrderInv
<1> QED
  BY <1>1, <1>2 DEF OrderInv, ResolveSucceeds, CalleesFirst, CirclesUnranked, OnlyCirclesPanic

\* The text ends when every import has an edge.
LEMMA EndKeepsOrder ==
  ASSUME OrderInv, EndOfGame
  PROVE  OrderInv'
<1>1. /\ phase = "parse" /\ phase' \in {"parse", "resolve"} /\ UNCHANGED <<instances, wires, rank>>
      /\ phase' # "parse" => AllWired /\ outcome' = "ok"
  BY DEF EndOfGame, gameVars, laterVars, AllWired
<1>2. AllWired => AllWired'
  BY <1>1 DEF AllWired, Offsets, Imports, Pkg, Wired, EdgesFrom, WiresFrom, IsEdge
<1>3. DOMAIN rank' = {}
  BY <1>1 DEF OrderInv
<1> QED
  BY <1>1, <1>2, <1>3 DEF OrderInv, ResolveSucceeds, CalleesFirst, CirclesUnranked, OnlyCirclesPanic

\* When no instance is a candidate, those that are left are a circle.
LEMMA StuckMeansCircle ==
  ASSUME TypeOK, phase = "order", Candidates = {}, Unranked # {}
  PROVE  Cyclic
<1>1. Unranked \in SUBSET Offsets
  BY DEF Unranked
<1>2. ASSUME NEW i \in Unranked
      PROVE  \E k \in EdgesFrom(i) : wires[k].to \in Unranked
  <2>1. i \in Offsets /\ ~Ready(i)
    BY <1>2 DEF Unranked, Candidates
  <2>2. PICK k \in EdgesFrom(i) : rank[wires[k].to] = 0
    BY <2>1 DEF Ready
  <2>3. wires[k].to \in Offsets
    BY <2>2, WireTypes
  <2> QED
    BY <2>2, <2>3 DEF Unranked
<1> QED
  BY <1>1, <1>2 DEF Cyclic, Circle

\* A round ranks instances whose callees have their ranks.
LEMMA RoundKeepsOrder ==
  ASSUME TypeOK, OrderInv, OrderRound, Candidates # {}
  PROVE  OrderInv'
<1>1. /\ phase = "order" /\ UNCHANGED <<phase, outcome, instances, wires>> /\ outcome = "ok"
      /\ rank' = [i \in Offsets |-> IF i \in Candidates THEN round + 1 ELSE rank[i]]
  BY DEF OrderRound, Work, gameVars
<1>2. DOMAIN rank = Offsets /\ round \in Nat /\ \A i \in Offsets : rank[i] \in 0 .. round
  BY <1>1 DEF TypeOK
<1>3. Offsets' = Offsets /\ \A i : EdgesFrom(i)' = EdgesFrom(i)
  BY <1>1 DEF Offsets, EdgesFrom, WiresFrom, IsEdge
<1>4. AllWired'
  BY <1>1, <1>3 DEF OrderInv, AllWired, Offsets, Imports, Pkg, Wired
<1>5. CalleesFirst'
  <2> SUFFICES ASSUME NEW i \in Offsets, rank'[i] # 0, NEW k \in EdgesFrom(i)
               PROVE  rank'[wires[k].to] # 0 /\ rank'[wires[k].to] < rank'[i]
    BY <1>1, <1>3 DEF CalleesFirst
  <2> DEFINE t == wires[k].to
  <2>1. t \in Offsets
    BY WireTypes
  <2>2. rank[t] # 0 /\ rank[t] \in 0 .. round /\ (rank[i] = 0 \/ rank[t] < rank[i])
    BY <1>1, <1>2, <2>1 DEF OrderInv, CalleesFirst, Candidates, Ready
  <2>3. t \notin Candidates /\ rank'[t] = rank[t]
    BY <1>1, <2>1, <2>2 DEF Candidates
  <2>4. rank'[i] = IF i \in Candidates THEN round + 1 ELSE rank[i]
    BY <1>1
  <2>5. i \in Candidates => rank[i] = 0
    BY DEF Candidates
  <2> QED
    BY <1>2, <2>2, <2>3, <2>4, <2>5
<1>6. ASSUME NEW is \in SUBSET Offsets, Circle(is), NEW i \in is
      PROVE  rank'[i] = 0
  <2>1. PICK k \in EdgesFrom(i) : wires[k].to \in is
    BY <1>6 DEF Circle
  <2>2. rank[i] = 0 /\ rank[wires[k].to] = 0
    BY <1>2, <1>6, <2>1 DEF OrderInv, CirclesUnranked
  <2>3. i \notin Candidates
    BY <2>1, <2>2 DEF Candidates, Ready
  <2> QED
    BY <1>1, <1>6, <2>2, <2>3
<1>7. \A is : Circle(is)' <=> Circle(is)
  BY <1>1, <1>3 DEF Circle
<1>8. CirclesUnranked'
  BY <1>3, <1>6, <1>7 DEF CirclesUnranked
<1> QED
  BY <1>1, <1>4, <1>5, <1>8 DEF OrderInv, ResolveSucceeds, OnlyCirclesPanic

\* The other steps after the parser.
LEMMA LaterKeepsOrder ==
  ASSUME TypeOK, OrderInv, Later
  PROVE  OrderInv'
<1> USE DEF Work, Enter, Panic, gameVars, laterVars
<1>1. UNCHANGED <<instances, wires>>
  BY DEF Later, Resolve, Resolved, OrderRound, Ordered, Define, AllDefined
<1>2. /\ Offsets' = Offsets /\ \A i : EdgesFrom(i)' = EdgesFrom(i)
      /\ \A is : Circle(is)' <=> Circle(is)
      /\ AllWired' = AllWired /\ (Cyclic' <=> Cyclic)
  <2>1. Offsets' = Offsets /\ \A i : EdgesFrom(i)' = EdgesFrom(i)
    BY <1>1 DEF Offsets, EdgesFrom, WiresFrom, IsEdge
  <2>2. \A is : Circle(is)' <=> Circle(is)
    BY <1>1, <2>1 DEF Circle
  <2> QED
    BY <1>1, <2>1, <2>2 DEF AllWired, Imports, Pkg, Wired, Cyclic
<1>3. ASSUME UNCHANGED rank
      PROVE  CalleesFirst' /\ Unranked' = Unranked /\ CirclesUnranked'
  BY <1>1, <1>2, <1>3 DEF OrderInv, CalleesFirst, CirclesUnranked, Unranked
<1>4. CASE Resolve
  <2> DEFINE i == Len(callees) + 1
  <2>1. i \in Offsets
    BY <1>4 DEF Resolve, Offsets, TypeOK
  <2>2. \A o \in Imports(i) : InTable(i, o)
    BY <1>4, <2>1 DEF Resolve, OrderInv, AllWired, Wired, InTable
  <2>3. UNCHANGED <<phase, outcome, rank>>
    BY <1>4, <2>2 DEF Resolve
  <2> QED
    BY <1>2, <1>3, <1>4, <2>3 DEF Resolve, OrderInv, ResolveSucceeds, OnlyCirclesPanic
<1>5. CASE Resolved
  <2>1. CalleesFirst' /\ CirclesUnranked'
    BY <1>2, <1>5 DEF Resolved, CalleesFirst, CirclesUnranked
  <2> QED
    BY <1>2, <1>5, <2>1 DEF Resolved, OrderInv, ResolveSucceeds, OnlyCirclesPanic
<1>6. CASE OrderRound
  <2>1. CASE Candidates # {}
    BY <1>6, <2>1, RoundKeepsOrder
  <2>2. CASE Candidates = {}
    BY <1>2, <1>3, <1>6, <2>2, StuckMeansCircle
       DEF OrderRound, OrderInv, ResolveSucceeds, OnlyCirclesPanic
  <2> QED
    BY <2>1, <2>2
<1>7. CASE Ordered
  <2>1. DOMAIN rank = Offsets
    BY <1>7 DEF Ordered, TypeOK
  <2>2. ~Cyclic
    BY <1>7, <2>1 DEF Ordered, OrderInv, CirclesUnranked, Cyclic, Circle, Unranked
  <2> QED
    BY <1>2, <1>3, <1>7, <2>2 DEF Ordered, OrderInv, ResolveSucceeds, OnlyCirclesPanic
<1>8. CASE Define \/ AllDefined
  BY <1>2, <1>3, <1>8 DEF Define, AllDefined, OrderInv, ResolveSucceeds, OnlyCirclesPanic
<1> QED
  BY <1>4, <1>5, <1>6, <1>7, <1>8 DEF Later

\* OrderInv is inductive.
LEMMA OrderStep ==
  ASSUME TypeOK, OrderInv, [Next]_vars
  PROVE  OrderInv'
<1>1. CASE UNCHANGED vars
  <2>1. UNCHANGED <<phase, outcome, instances, wires, rank>>
    BY <1>1 DEF vars, textVars, gameVars, laterVars
  <2>2. Offsets' = Offsets /\ \A i : EdgesFrom(i)' = EdgesFrom(i)
    BY <2>1 DEF Offsets, EdgesFrom, WiresFrom, IsEdge
  <2>3. \A is : Circle(is)' <=> Circle(is)
    BY <2>1, <2>2 DEF Circle
  <2>4. AllWired' = AllWired /\ (Cyclic' <=> Cyclic) /\ Unranked' = Unranked
    BY <2>1, <2>2, <2>3 DEF AllWired, Imports, Pkg, Wired, Cyclic, Unranked
  <2>5. CalleesFirst' /\ CirclesUnranked'
    BY <2>1, <2>2, <2>3 DEF OrderInv, CalleesFirst, CirclesUnranked
  <2> QED
    BY <2>1, <2>4, <2>5 DEF OrderInv, ResolveSucceeds, OnlyCirclesPanic
<1> QED
  BY <1>1, ReadsKeepOrder, EndKeepsOrder, LaterKeepsOrder DEF Next, Ended

\* The invariant holds throughout.
LEMMA OrderInvariant == Spec => []OrderInv
<1>1. Init => OrderInv
  BY DEF Init, OrderInv, ResolveSucceeds, CalleesFirst, CirclesUnranked, OnlyCirclesPanic
<1>2. TypeOK /\ OrderInv /\ [Next]_vars => OrderInv'
  BY OrderStep
<1> QED
  BY <1>1, <1>2, TypeCorrect, PTL DEF Spec

\* The parser's check of the imports is enough for resolveoracles.
THEOREM NoImportIsLost == Spec => []ResolveSucceeds
<1>1. OrderInv => ResolveSucceeds
  BY DEF OrderInv
<1> QED
  BY <1>1, OrderInvariant, PTL

\* ordered_pkgs puts an instance after those that it calls.
THEOREM OrderIsTopological == Spec => []CalleesFirst
<1>1. OrderInv => CalleesFirst
  BY DEF OrderInv
<1> QED
  BY <1>1, OrderInvariant, PTL

\* ... and its assert fails for the games with a circle and for no others.
THEOREM AssertMeansCircle == Spec => []OnlyCirclesPanic
<1>1. OrderInv => OnlyCirclesPanic
  BY DEF OrderInv
<1> QED
  BY <1>1, OrderInvariant, PTL

-----------------------------------------------------------------------------
(* Calls. *)

\* A nonempty set of numbers up to n has a greatest one.
LEMMA Greatest ==
  ASSUME NEW n \in Nat, NEW S \in SUBSET (1 .. n), S # {}
  PROVE  \E x \in S : \A y \in S : y <= x
<1> DEFINE R == {p \in Nat \X Nat : p[1] < p[2]}
           T == {n - x : x \in S}
<1>1. IsWellFoundedOn(R, Nat)
  BY NatLessThanWellFounded DEF OpToRel
<1>2. T \subseteq Nat /\ T # {}
  <2>1. \A x \in S : x \in Int /\ n - x \in Nat
    OBVIOUS
  <2> QED
    BY <2>1
<1>3. \A a, b \in Nat : a < b => <<a, b>> \in R
  OBVIOUS
<1> HIDE DEF R, T
<1>4. PICK t \in T : \A u \in T : ~(<<u, t>> \in R)
  BY <1>1, <1>2, WFMin
<1>5. ASSUME NEW u \in T
      PROVE  t <= u
  <2>1. t \in Nat /\ u \in Nat
    BY <1>2
  <2>2. ~(u < t)
    BY <1>3, <1>4, <2>1
  <2> QED
    BY <2>1, <2>2
<1>6. PICK x \in S : t = n - x
  BY DEF T
<1>7. ASSUME NEW y \in S
      PROVE  y <= x
  <2>1. n - x <= n - y
    BY <1>5, <1>6 DEF T
  <2>2. x \in Int /\ y \in Int
    OBVIOUS
  <2> QED
    BY <2>1, <2>2
<1> QED
  BY <1>7

\* Every wire of the game was matched: the oracle is imported where the wire
\* starts and defined, with the same signature, where it leads.
WireMatches(k) ==
  /\ wires[k].oracle \in Imports(wires[k].from)
  /\ Offers(wires[k].to, wires[k].oracle)
  /\ TypesMatch(wires[k].from, wires[k].to, wires[k].oracle)
Callees(i) == [o \in Imports(i) |-> instances[wires[LastEdge(i, o)].to].name]
CallInv ==
  /\ \A k \in 1 .. Len(wires) : WireMatches(k)
  /\ \A i \in 1 .. Len(callees) : callees[i] = Callees(i)
  /\ phase = "parse" => callees = <<>>

\* What is said of an instance depends on its declaration alone.
LEMMA InstancesStay ==
  ASSUME NEW i, instances'[i] = instances[i], NEW k, instances'[k] = instances[k]
  PROVE  /\ Imports(i)' = Imports(i) /\ \A o : Offers(k, o)' = Offers(k, o)
         /\ \A o : TypesMatch(i, k, o)' = TypesMatch(i, k, o)
BY DEF Imports, Pkg, Offers, TypesMatch, Instantiate

\* A step that leaves the instances, the wires and the callees as they are.
LEMMA CallsStay ==
  ASSUME CallInv, UNCHANGED <<instances, wires, callees>>, phase' = "parse" => phase = "parse"
  PROVE  CallInv'
<1>1. \A k : WireMatches(k)' = WireMatches(k)
  BY DEF WireMatches, Imports, Pkg, Offers, TypesMatch, Instantiate
<1>2. \A i, o : LastEdge(i, o)' = LastEdge(i, o)
  BY DEF LastEdge, EdgesFrom, WiresFrom, IsEdge
<1>3. \A i : Callees(i)' = Callees(i)
  BY <1>2 DEF Callees, Imports, Pkg
<1> QED
  BY <1>1, <1>3 DEF CallInv

\* The parser: new instances change nothing for the wires there are, and a new
\* wire was matched.
LEMMA ReadsKeepCalls ==
  ASSUME TypeOK, GameAssumption, CallInv, ReadItem
  PROVE  CallInv'
<1> USE DEF Stop, Read, gameVars, laterVars
<1>1. callees = <<>> /\ callees' = <<>> /\ phase = "parse" /\ phase' = "parse"
  BY DEF CallInv, ReadItem, ReadConst, ReadFor, EndFor, ReadInstance, ReadBody
<1>2. ASSUME UNCHANGED <<instances, wires>>
      PROVE  CallInv'
  BY <1>1, <1>2, CallsStay DEF CallInv
<1>3. ASSUME NEW it, ReadInstance(it), ~UNCHANGED <<instances, wires>>
      PROVE  CallInv'
  <2>1. PICK new : instances' = Append(instances, new) /\ wires' = wires
    BY <1>3 DEF ReadInstance
  <2>2. Len(instances) \in Nat /\ \A i \in Offsets : instances'[i] = instances[i]
    BY <2>1 DEF TypeOK, Offsets
  <2>3. \A k \in 1 .. Len(wires) : WireMatches(k)'
    <3> SUFFICES ASSUME NEW k \in 1 .. Len(wires)
                 PROVE  WireMatches(k)'
      OBVIOUS
    <3>1. wires[k].from \in Offsets /\ wires[k].to \in Offsets
      BY DEF TypeOK
    <3>2. WireMatches(k)
      BY DEF CallInv
    <3> QED
      BY <2>1, <2>2, <3>1, <3>2, InstancesStay DEF WireMatches
  <2> QED
    BY <1>1, <2>1, <2>3 DEF CallInv
<1>4. ASSUME NEW it \in BodyItems, ReadBody(it), ~UNCHANGED <<instances, wires>>
      PROVE  CallInv'
  <2> DEFINE new == [k \in 1 .. Len(it.wires) |->
                 [from |-> table[it.source], to |-> table[it.wires[k].dest],
                  oracle |-> it.wires[k].oracle, index |-> it.wires[k].index]]
  <2>1. EdgesOk(it) /\ wires' = wires \o new /\ UNCHANGED instances
    BY <1>4 DEF ReadBody
  <2>2. Len(it.wires) \in Nat
    BY DEF GameAssumption
  <2>3. wires \in Seq(Wire)
    BY DEF TypeOK, Wire
  <2>4. \A k \in 1 .. Len(it.wires) : new[k] \in Wire
    BY <1>4, <2>1, BlockWires DEF EdgesOk
  <2>5. new \in [1 .. Len(it.wires) -> Wire]
    BY <2>4
  <2> HIDE DEF new
  <2>6. /\ Len(wires) \in Nat /\ Len(wires') = Len(wires) + Len(it.wires)
        /\ \A k \in 1 .. Len(wires) + Len(it.wires) :
              \/ k \in 1 .. Len(wires) /\ wires'[k] = wires[k]
              \/ k - Len(wires) \in 1 .. Len(it.wires) /\ wires'[k] = new[k - Len(wires)]
    <3>1. /\ wires \o new \in Seq(Wire)
          /\ Len(wires) \in Nat /\ Len(wires \o new) = Len(wires) + Len(it.wires)
          /\ \A k \in 1 .. Len(wires) + Len(it.wires) :
                \/ k \in 1 .. Len(wires) /\ (wires \o new)[k] = wires[k]
                \/ /\ k - Len(wires) \in 1 .. Len(it.wires)
                   /\ (wires \o new)[k] = new[k - Len(wires)]
      BY <2>5, BlockAdded
    <3>2. wires' = wires \o new
      BY <2>1
    <3> QED
      BY <3>1, <3>2
  <2>7. ASSUME NEW k \in 1 .. Len(wires')
        PROVE  WireMatches(k)'
    <3>1. CASE k \in 1 .. Len(wires) /\ wires'[k] = wires[k]
      <4>1. WireMatches(k)
        BY <3>1 DEF CallInv
      <4> QED
        BY <2>1, <3>1, <4>1 DEF WireMatches, Imports, Pkg, Offers, TypesMatch, Instantiate
    <3>2. CASE k - Len(wires) \in 1 .. Len(it.wires) /\ wires'[k] = new[k - Len(wires)]
      <4> DEFINE w == it.wires[k - Len(wires)]
      <4>1. /\ w.oracle \in Imports(table[it.source]) /\ Offers(table[w.dest], w.oracle)
            /\ TypesMatch(table[it.source], table[w.dest], w.oracle)
        BY <2>1, <3>2 DEF EdgesOk, DestinationOk
      <4>2. wires'[k] = [from |-> table[it.source], to |-> table[w.dest],
                         oracle |-> w.oracle, index |-> w.index]
        BY <3>2 DEF new
      <4>3. /\ wires'[k].from = table[it.source] /\ wires'[k].to = table[w.dest]
            /\ wires'[k].oracle = w.oracle /\ instances' = instances
        BY <2>1, <4>2
      <4> HIDE DEF w
      <4> QED
        BY <4>1, <4>3 DEF WireMatches, Imports, Pkg, Offers, TypesMatch, Instantiate
    <3> QED
      BY <2>6, <3>1, <3>2
  <2> QED
    BY <1>1, <2>7 DEF CallInv
<1>5. CASE UNCHANGED <<instances, wires>>
  BY <1>2, <1>5
<1> QED
  BY <1>3, <1>4, <1>5 DEF ReadItem, ReadConst, ReadFor, EndFor

\* resolveoracles adds the callees of the next instance.
LEMMA CallStep ==
  ASSUME TypeOK, GameAssumption, CallInv, [Next]_vars
  PROVE  CallInv'
<1> USE DEF Work, Enter, Panic, textVars, gameVars, laterVars
<1>1. CASE Resolve /\ ~Panic
  <2> DEFINE i == Len(callees) + 1
  <2>1. callees' = Append(callees, Callees(i)) /\ UNCHANGED <<phase, instances, wires>>
    BY <1>1 DEF Resolve, Callees
  <2>2. Len(callees) \in Nat
    BY DEF TypeOK
  <2>3. /\ Len(callees') = Len(callees) + 1 /\ callees'[i] = Callees(i)
        /\ \A k \in 1 .. Len(callees) : callees'[k] = callees[k]
    BY <2>1, <2>2
  <2>4. /\ \A k : WireMatches(k)' = WireMatches(k)
        /\ \A k : Callees(k)' = Callees(k)
    <3>1. \A k : WireMatches(k)' = WireMatches(k)
      BY <2>1 DEF WireMatches, Imports, Pkg, Offers, TypesMatch, Instantiate
    <3>2. \A k, o : LastEdge(k, o)' = LastEdge(k, o)
      BY <2>1 DEF LastEdge, EdgesFrom, WiresFrom, IsEdge
    <3> QED
      BY <2>1, <3>1, <3>2 DEF Callees, Imports, Pkg
  <2>5. phase' # "parse"
    BY <1>1, <2>1 DEF Resolve
  <2> HIDE DEF i
  <2>6. \A k \in 1 .. Len(callees') : k \in 1 .. Len(callees) \/ k = i
    BY <2>2, <2>3 DEF i
  <2> QED
    BY <2>1, <2>3, <2>4, <2>5, <2>6 DEF CallInv
<1>2. CASE Panic
  BY <1>2, CallsStay
<1>3. CASE Resolved \/ OrderRound \/ Ordered \/ Define \/ AllDefined \/ EndOfGame \/ UNCHANGED vars
  <2>1. UNCHANGED <<instances, wires, callees>> /\ (phase' = "parse" => phase = "parse")
    BY <1>3 DEF Resolved, OrderRound, Ordered, Define, AllDefined, EndOfGame, vars
  <2> QED
    BY <2>1, CallsStay
<1> QED
  BY <1>1, <1>2, <1>3, ReadsKeepCalls DEF Next, Later, Ended

\* An import with an edge has a last one.
LEMMA LastEdgeIsEdge ==
  ASSUME TypeOK, NEW i, NEW o, Wired(i, o)
  PROVE  LastEdge(i, o) \in EdgesFrom(i) /\ wires[LastEdge(i, o)].oracle = o
<1> DEFINE S == {k \in EdgesFrom(i) : wires[k].oracle = o}
<1>1. S \in SUBSET (1 .. Len(wires)) /\ Len(wires) \in Nat
  BY WireTypes
<1>2. S # {}
  BY DEF Wired
<1>3. \E x \in S : \A y \in S : y <= x
  BY <1>1, <1>2, Greatest
<1>4. \E k \in EdgesFrom(i) : wires[k].oracle = o
         /\ \A l \in EdgesFrom(i) : wires[l].oracle = o => l <= k
  BY <1>3
<1> QED
  BY <1>4 DEF LastEdge

\* Distinct names find the instance they belong to.
LEMMA FirstOfName ==
  ASSUME TypeOK, DistinctNames, NEW k \in Offsets
  PROVE  First(instances[k].name) = k
<1>1. \A i \in Offsets : instances[i].name = instances[k].name <=> i = k
  BY DEF DistinctNames
<1>2. k <= k
  BY DEF Offsets, TypeOK
<1> QED
  BY <1>1, <1>2 DEF First

\* Where the calls of a resolved instance lead.
LEMMA CallsReach ==
  ASSUME TypeOK, OrderInv, CallInv
  PROVE  CallsReachTheirOracles
<1> SUFFICES ASSUME DistinctNames, NEW i \in 1 .. Len(callees), NEW o \in Imports(i)
             PROVE  LET k == First(callees[i][o]) IN
                    /\ k = wires[LastEdge(i, o)].to
                    /\ Offers(k, o)
                    /\ Instantiate(i, Pkg(i).imports[o]) = Instantiate(k, Pkg(k).oracles[o])
  BY DEF CallsReachTheirOracles
<1> DEFINE e == LastEdge(i, o)
<1>1. phase # "parse" /\ i \in Offsets
  BY DEF CallInv, Offsets, TypeOK
<1>2. Wired(i, o)
  BY <1>1 DEF OrderInv, AllWired
<1>3. e \in EdgesFrom(i) /\ wires[e].oracle = o
  BY <1>2, LastEdgeIsEdge
<1>4. e \in 1 .. Len(wires) /\ wires[e].from = i /\ wires[e].to \in Offsets
  BY <1>3, WireTypes
<1>5. WireMatches(e)
  BY <1>4 DEF CallInv
<1>6. callees[i][o] = instances[wires[e].to].name
  BY DEF CallInv, Callees
<1>7. First(callees[i][o]) = wires[e].to
  BY <1>4, <1>6, FirstOfName
<1> HIDE DEF e
<1>8. Offers(wires[e].to, o) /\ TypesMatch(i, wires[e].to, o)
  BY <1>3, <1>4, <1>5 DEF WireMatches
<1> QED
  BY <1>7, <1>8 DEF TypesMatch, e

\* The invariant holds throughout.
LEMMA CallInvariant == Spec => []CallInv
<1>1. Init => CallInv
  BY DEF Init, CallInv
<1>2. TypeOK /\ CallInv /\ [Next]_vars => CallInv'
  BY CallStep, GameAssumption
<1> QED
  BY <1>1, <1>2, TypeCorrect, PTL DEF Spec

\* Every invocation reaches an instance that defines the oracle with the
\* signature its caller imports, if the names of the instances are distinct.
THEOREM CallsAreResolved == Spec => []CallsReachTheirOracles
<1>1. TypeOK /\ OrderInv /\ CallInv => CallsReachTheirOracles
  BY CallsReach
<1> QED
  BY <1>1, TypeCorrect, OrderInvariant, CallInvariant, PTL

\* When the oracles are defined, every instance has its callees.
DefineInv ==
  /\ phase \in {"order", "define", "done"} => Len(callees) = Len(instances)
  /\ DefineSucceeds

\* A step of smt_oracle_function_definitions finds what it looks up.
LEMMA LookupsSucceed ==
  ASSUME TypeOK, CallsReachTheirOracles, DefineInv, DistinctNames, Define
  PROVE  outcome' = "ok"
<1> DEFINE i == Len(definitions) + 1
           new == Functions(i) \ Defined
<1>1. i \in Offsets /\ i \in 1 .. Len(callees)
  BY DEF Define, DefineInv, Offsets, TypeOK
<1>2. \A f \in new : Offers(First(f[1]), f[2])
  <2>1. First(instances[i].name) = i
    BY <1>1, FirstOfName
  <2>2. \A o \in DOMAIN Pkg(i).oracles : Offers(i, o)
    BY DEF Offers
  <2> QED
    BY <2>1, <2>2 DEF Functions
<1>3. \A f \in Calls(i) : Offers(First(f[1]), f[2])
  BY <1>1 DEF Calls, CallsReachTheirOracles
<1>4. Found(new \cup Calls(i))
  BY <1>2, <1>3 DEF Found
<1> QED
  BY <1>4 DEF Define, Work

\* DefineInv is inductive, given where the calls lead.
LEMMA DefineStep ==
  ASSUME TypeOK, CallsReachTheirOracles, DefineInv, [Next]_vars
  PROVE  DefineInv'
<1> USE DEF Work, Enter, Panic, textVars, gameVars, laterVars
<1>1. CASE Define
  <2>1. UNCHANGED <<phase, instances, callees>>
    BY <1>1 DEF Define
  <2>2. DistinctNames' = DistinctNames
    BY <2>1 DEF DistinctNames, Offsets
  <2> QED
    BY <1>1, <2>1, <2>2, LookupsSucceed DEF DefineInv, DefineSucceeds
<1>2. CASE ReadItem
  <2>1. phase' = "parse"
    BY <1>2 DEF ReadItem, ReadConst, ReadFor, EndFor, ReadInstance, ReadBody, Read, Stop
  <2> QED
    BY <2>1 DEF DefineInv, DefineSucceeds
<1>3. CASE UNCHANGED vars
  BY <1>3 DEF vars, DefineInv, DefineSucceeds, DistinctNames, Offsets
<1>4. CASE EndOfGame \/ Resolve
  BY <1>4 DEF EndOfGame, Resolve, DefineInv, DefineSucceeds
<1>5. CASE Resolved \/ Ordered \/ OrderRound \/ AllDefined
  BY <1>5 DEF Resolved, Ordered, OrderRound, AllDefined, DefineInv, DefineSucceeds
<1> QED
  BY <1>1, <1>2, <1>3, <1>4, <1>5 DEF Next, Later, Ended

\* The lookups by name behind the definitions never fail, if the names of the
\* instances are distinct.
THEOREM LookupsNeverFail == Spec => []DefineSucceeds
<1>1. Init => DefineInv
  BY DEF Init, DefineInv, DefineSucceeds
<1>2. TypeOK /\ CallsReachTheirOracles /\ DefineInv /\ [Next]_vars => DefineInv'
  BY DefineStep
<1>3. DefineInv => DefineSucceeds
  BY DEF DefineInv
<1> QED
  BY <1>1, <1>2, <1>3, TypeCorrect, CallsAreResolved, PTL DEF Spec
=============================================================================
