--------------------------- MODULE ProofFileProofs ---------------------------
(***************************************************************************)
(* Proofs about ProofFile, for all games, packages and proof files: the    *)
(* types, that the mapped part of an accepted reduction is a copy of its   *)
(* side of the assumption, that the parts around it simulate one another,  *)
(* and that a reduction that is one is accepted.                           *)
(***************************************************************************)
EXTENDS ProofFile, SequenceTheorems, FiniteSetTheorems, WellFoundedInduction, TLAPS

\* An instance has values for all constants of its game, or for none if none is used.
GivenSets(g) == {D \in {{}, DOMAIN Games[g].consts} : Used(g) \subseteq D}
InstanceType ==
  UNION {[name : STRING, game : {g}, values : UNION {[D -> STRING] : D \in GivenSets(g)}] :
           g \in DOMAIN Games}
SideType ==
  [assumption : InstanceType, construction : InstanceType, entries : Seq(STRING \X STRING)]
AssumptionType == [name : STRING, left : STRING, right : STRING]
HopType ==
  [kind : {"conjecture", "equivalence"}, left : STRING, right : STRING] \cup
  [kind : {"reduction"}, left : SideType, right : SideType, assumption : STRING,
   compared : SUBSET (Nat \X Nat)]
ReductionType == [kind : {"reduction"}, assumption : STRING, left : SideType, right : SideType]
CallType(l, r) ==
  [left : 1 .. Len(Pkgs(l.construction)), right : 1 .. Len(Pkgs(r.construction)), depth : Nat]

\* A nonempty set of numbers up to n has a least one, which CHOOSE finds.
LEMMA Least ==
  ASSUME NEW n \in Nat, NEW S \in SUBSET (1 .. n), S # {}
  PROVE  (CHOOSE x \in S : \A y \in S : x <= y) \in S
<1> DEFINE R == {p \in Nat \X Nat : p[1] < p[2]}
<1>1. IsWellFoundedOn(R, Nat)
  BY NatLessThanWellFounded DEF OpToRel
<1>2. S \subseteq Nat
  OBVIOUS
<1>3. \A a, b \in Nat : a < b => <<a, b>> \in R
  OBVIOUS
<1> HIDE DEF R
<1>4. PICK x \in S : \A y \in S : ~(<<y, x>> \in R)
  BY <1>1, <1>2, WFMin
<1>5. ASSUME NEW y \in S
      PROVE  x <= y
  <2>1. x \in Nat /\ y \in Nat
    BY <1>2
  <2>2. ~(y < x)
    BY <1>3, <1>4, <2>1
  <2> QED
    BY <2>1, <2>2
<1>6. \E z \in S : \A y \in S : z <= y
  BY <1>5
<1> QED
  BY <1>6, Zenon

-----------------------------------------------------------------------------
(* One game. *)

\* The lists of the game of an instance.
LEMMA InstanceLists ==
  ASSUME NEW i \in InstanceType
  PROVE  /\ i.game \in DOMAIN Games /\ i.name \in STRING
         /\ DOMAIN i.values \in GivenSets(i.game)
         /\ Len(Pkgs(i)) \in Nat /\ Len(Games[i.game].edges) \in Nat /\ Len(Exports(i)) \in Nat
         /\ \A k \in 1 .. Len(Pkgs(i)) : Pkgs(i)[k].pkg \in DOMAIN Imports
         /\ \A k \in 1 .. Len(Games[i.game].edges) :
              /\ Games[i.game].edges[k].from \in 1 .. Len(Pkgs(i))
              /\ Games[i.game].edges[k].to \in 1 .. Len(Pkgs(i))
         /\ \A k \in 1 .. Len(Exports(i)) : Exports(i)[k].to \in 1 .. Len(Pkgs(i))
<1>1. /\ i.game \in DOMAIN Games /\ i.name \in STRING
      /\ DOMAIN i.values \in GivenSets(i.game)
  BY DEF InstanceType
<1> DEFINE g == i.game
<1>2. /\ Games[g].pkgs \in Seq([name : STRING, pkg : DOMAIN Imports, params : Seq(STRING)])
      /\ Games[g].edges \in Seq([from : 1 .. Size(g), to : 1 .. Size(g), oracle : DOMAIN OracleType])
      /\ Games[g].exports \in Seq([to : 1 .. Size(g), oracle : DOMAIN OracleType])
  BY <1>1, ProofFileAssumption
<1> HIDE DEF g
<1>3. \A k \in 1 .. Len(Games[g].pkgs) : Games[g].pkgs[k].pkg \in DOMAIN Imports
  <2>1. \A k \in 1 .. Len(Games[g].pkgs) :
          Games[g].pkgs[k] \in [name : STRING, pkg : DOMAIN Imports, params : Seq(STRING)]
    BY <1>2, ElementOfSeq
  <2> QED
    BY <2>1
<1>4. \A k \in 1 .. Len(Games[g].edges) :
        Games[g].edges[k].from \in 1 .. Size(g) /\ Games[g].edges[k].to \in 1 .. Size(g)
  <2>1. \A k \in 1 .. Len(Games[g].edges) : Games[g].edges[k] \in
          [from : 1 .. Size(g), to : 1 .. Size(g), oracle : DOMAIN OracleType]
    BY <1>2, ElementOfSeq
  <2> QED
    BY <2>1
<1>5. \A k \in 1 .. Len(Games[g].exports) : Games[g].exports[k].to \in 1 .. Size(g)
  <2>1. \A k \in 1 .. Len(Games[g].exports) :
          Games[g].exports[k] \in [to : 1 .. Size(g), oracle : DOMAIN OracleType]
    BY <1>2, ElementOfSeq
  <2> QED
    BY <2>1
<1>6. Len(Games[g].pkgs) \in Nat /\ Len(Games[g].edges) \in Nat /\ Len(Games[g].exports) \in Nat
  BY <1>2, LenProperties
<1> QED
  BY <1>1, <1>3, <1>4, <1>5, <1>6 DEF g, Pkgs, Exports, Size

\* Where the import o of the package of instance k leads.
LEMMA CalleeIsEdge ==
  ASSUME NEW i \in InstanceType, NEW k \in 1 .. Len(Pkgs(i)),
         NEW n \in 1 .. Len(Imports[Pkgs(i)[k].pkg])
  PROVE  LET o == Imports[Pkgs(i)[k].pkg][n] IN
         /\ Callee(i, k, o) \in 1 .. Len(Pkgs(i))
         /\ \E e \in EdgeSet(i) : e.from = k /\ e.oracle = o /\ e.to = Callee(i, k, o)
<1> DEFINE o == Imports[Pkgs(i)[k].pkg][n]
           S == EdgesFor(i, k, o)
           c == CHOOSE e \in S : \A d \in S : e <= d
<1>1. i.game \in DOMAIN Games
  BY InstanceLists
<1>2. \A h \in 1 .. Size(i.game) : \A a \in 1 .. Len(Imports[Games[i.game].pkgs[h].pkg]) :
        \E j \in 1 .. Len(Games[i.game].edges) :
          /\ Games[i.game].edges[j].from = h
          /\ Games[i.game].edges[j].oracle = Imports[Games[i.game].pkgs[h].pkg][a]
  BY <1>1, ProofFileAssumption
<1>3. S # {}
  <2>1. k \in 1 .. Size(i.game) /\ n \in 1 .. Len(Imports[Games[i.game].pkgs[k].pkg])
    BY DEF Pkgs, Size
  <2>2. PICK j \in 1 .. Len(Games[i.game].edges) :
          /\ Games[i.game].edges[j].from = k
          /\ Games[i.game].edges[j].oracle = Imports[Games[i.game].pkgs[k].pkg][n]
    BY <1>2, <2>1
  <2> QED
    BY <2>2 DEF EdgesFor, Pkgs
<1>4. S \in SUBSET (1 .. Len(Games[i.game].edges)) /\ Len(Games[i.game].edges) \in Nat
  BY InstanceLists DEF EdgesFor
<1> HIDE DEF S
<1>5. c \in S
  BY <1>3, <1>4, Least
<1> HIDE DEF c
<1>6. /\ c \in 1 .. Len(Games[i.game].edges)
      /\ Games[i.game].edges[c].from = k /\ Games[i.game].edges[c].oracle = o
  BY <1>5 DEF S, EdgesFor
<1>7. Callee(i, k, o) = Games[i.game].edges[c].to
  BY DEF Callee, c, S
<1>8. Games[i.game].edges[c] \in EdgeSet(i)
  BY <1>6 DEF EdgeSet
<1> HIDE DEF o
<1>9. Callee(i, k, o) \in 1 .. Len(Pkgs(i))
  BY <1>6, <1>7, InstanceLists
<1> QED
  BY <1>6, <1>7, <1>8, <1>9 DEF o

\* An edge serves an import.
LEMMA EdgeIsImport ==
  ASSUME NEW i \in InstanceType, NEW e \in EdgeSet(i)
  PROVE  /\ e.from \in 1 .. Len(Pkgs(i))
         /\ \E n \in 1 .. Len(Imports[Pkgs(i)[e.from].pkg]) : Imports[Pkgs(i)[e.from].pkg][n] = e.oracle
<1>1. PICK k \in 1 .. Len(Games[i.game].edges) : e = Games[i.game].edges[k]
  BY DEF EdgeSet
<1>2. e.from \in 1 .. Len(Pkgs(i))
  BY <1>1, InstanceLists
<1>3. \A j \in 1 .. Len(Games[i.game].edges) : Imported(i.game, Games[i.game].edges[j])
  BY InstanceLists, ProofFileAssumption
<1>4. Imported(i.game, e)
  BY <1>1, <1>3
<1> QED
  BY <1>2, <1>4 DEF Imported, Pkgs

\* With distinct names, a name finds its instance.
LEMMA OffsetOfName ==
  ASSUME NEW i \in InstanceType, Plain(i), NEW name, Offsets(i, name) # {}
  PROVE  /\ Offset(i, name) \in 1 .. Len(Pkgs(i)) /\ Pkgs(i)[Offset(i, name)].name = name
         /\ \A k \in 1 .. Len(Pkgs(i)) : Pkgs(i)[k].name = name => k = Offset(i, name)
<1>1. PICK k \in 1 .. Len(Pkgs(i)) : Pkgs(i)[k].name = name
  BY DEF Offsets
<1>2. \A j \in Offsets(i, name) : j = k
  BY <1>1 DEF Offsets, Plain
<1>3. k \in Offsets(i, name) /\ k <= k
  BY <1>1 DEF Offsets
<1>4. Offset(i, name) = k
  BY <1>2, <1>3 DEF Offset
<1> QED
  BY <1>1, <1>2, <1>4 DEF Offsets

-----------------------------------------------------------------------------
(* Mappings. *)

\* What handle_mapspec_assumption accepts.
MapAccepted(m) == ~MapRejected(m) /\ WiresOk(m)

\* The instances that an entry pairs.
LEMMA EntryOffsets ==
  ASSUME NEW m \in SideType, Plain(m.assumption), Plain(m.construction), MapAccepted(m),
         NEW n \in 1 .. Len(m.entries)
  PROVE  LET a == Offset(m.assumption, m.entries[n][1])
             c == Offset(m.construction, m.entries[n][2])
         IN  /\ <<c, a>> \in Pairs(m)
             /\ a \in 1 .. Len(Pkgs(m.assumption)) /\ c \in 1 .. Len(Pkgs(m.construction))
             /\ Pkgs(m.assumption)[a].name = m.entries[n][1]
             /\ Pkgs(m.construction)[c].name = m.entries[n][2]
             /\ Same(m.assumption, a, m.construction, c)
<1>1. EntryOk(m, n)
  BY DEF MapAccepted, MapRejected
<1>2. m.assumption \in InstanceType /\ m.construction \in InstanceType
  BY DEF SideType
<1>3. Offsets(m.assumption, m.entries[n][1]) # {} /\ Offsets(m.construction, m.entries[n][2]) # {}
  BY <1>1 DEF EntryOk
<1>4. Same(m.assumption, Offset(m.assumption, m.entries[n][1]),
           m.construction, Offset(m.construction, m.entries[n][2]))
  BY <1>1 DEF EntryOk
<1>5. <<Offset(m.construction, m.entries[n][2]), Offset(m.assumption, m.entries[n][1])>> \in Pairs(m)
  BY DEF Pairs
<1> QED
  BY <1>2, <1>3, <1>4, <1>5, OffsetOfName

\* A pair comes from an entry.
LEMMA PairIsEntry ==
  ASSUME NEW m \in SideType, NEW p \in Pairs(m)
  PROVE  \E n \in 1 .. Len(m.entries) :
           /\ p = <<Offset(m.construction, m.entries[n][2]), Offset(m.assumption, m.entries[n][1])>>
           /\ p[1] = Offset(m.construction, m.entries[n][2])
           /\ p[2] = Offset(m.assumption, m.entries[n][1])
BY DEF Pairs

\* An instance is in one pair only.
LEMMA PairsAreDistinct ==
  ASSUME NEW m \in SideType, Plain(m.assumption), Plain(m.construction), MapAccepted(m),
         NEW p \in Pairs(m), NEW q \in Pairs(m)
  PROVE  p[1] = q[1] <=> p[2] = q[2]
<1>1. PICK i \in 1 .. Len(m.entries) :
        /\ p[1] = Offset(m.construction, m.entries[i][2])
        /\ p[2] = Offset(m.assumption, m.entries[i][1])
  BY PairIsEntry
<1>2. PICK j \in 1 .. Len(m.entries) :
        /\ q[1] = Offset(m.construction, m.entries[j][2])
        /\ q[2] = Offset(m.assumption, m.entries[j][1])
  BY PairIsEntry
<1>3. /\ Pkgs(m.assumption)[p[2]].name = m.entries[i][1]
      /\ Pkgs(m.construction)[p[1]].name = m.entries[i][2]
      /\ Pkgs(m.assumption)[q[2]].name = m.entries[j][1]
      /\ Pkgs(m.construction)[q[1]].name = m.entries[j][2]
  BY <1>1, <1>2, EntryOffsets
<1>4. EntryOk(m, i) /\ EntryOk(m, j)
  BY DEF MapAccepted, MapRejected
<1>5. ASSUME m.entries[i][1] = m.entries[j][1] \/ m.entries[i][2] = m.entries[j][2]
      PROVE  i = j
  <2>1. ~(j \in 1 .. i - 1) /\ ~(i \in 1 .. j - 1)
    BY <1>4, <1>5 DEF EntryOk
  <2>2. i \in 1 .. Len(m.entries) /\ j \in 1 .. Len(m.entries) /\ Len(m.entries) \in Nat
    BY DEF SideType
  <2> QED
    BY <2>1, <2>2
<1>6. CASE p[1] = q[1]
  BY <1>1, <1>2, <1>3, <1>5, <1>6
<1>7. CASE p[2] = q[2]
  BY <1>1, <1>2, <1>3, <1>5, <1>7
<1> QED
  BY <1>6, <1>7

\* The calls of a mapped instance are those of its counterpart.
LEMMA MappedCalls ==
  ASSUME NEW m \in SideType, Plain(m.assumption), Plain(m.construction),
         TypesTellApart(m.construction), MapAccepted(m),
         NEW p \in Pairs(m), NEW e \in EdgeSet(m.construction), e.from = p[1]
  PROVE  \E f \in EdgeSet(m.assumption) :
           f.from = p[2] /\ f.oracle = e.oracle /\ <<e.to, f.to>> \in Pairs(m)
<1>1. m.assumption \in InstanceType /\ m.construction \in InstanceType
  BY DEF SideType
<1>2. PICK q \in Pairs(m), f \in EdgeSet(m.assumption) :
        q[1] = e.to /\ f.from = p[2] /\ f.to = q[2] /\ OracleType[f.oracle] = OracleType[e.oracle]
  BY DEF MapAccepted, WiresOk
<1>3. <<e.to, f.to>> \in Pairs(m)
  <2>1. PICK n \in 1 .. Len(m.entries) :
          /\ q = <<Offset(m.construction, m.entries[n][2]), Offset(m.assumption, m.entries[n][1])>>
          /\ q[1] = Offset(m.construction, m.entries[n][2])
          /\ q[2] = Offset(m.assumption, m.entries[n][1])
    BY PairIsEntry
  <2> QED
    BY <1>2, <2>1
<1>4. PICK i \in 1 .. Len(m.entries) :
        /\ p[1] = Offset(m.construction, m.entries[i][2])
        /\ p[2] = Offset(m.assumption, m.entries[i][1])
  BY PairIsEntry
<1>5. /\ p[1] \in 1 .. Len(Pkgs(m.construction)) /\ p[2] \in 1 .. Len(Pkgs(m.assumption))
      /\ Same(m.assumption, p[2], m.construction, p[1])
  BY <1>4, EntryOffsets
<1>6. Pkgs(m.assumption)[p[2]].pkg = Pkgs(m.construction)[p[1]].pkg
  BY <1>5 DEF Same
<1>7. PICK n \in 1 .. Len(Imports[Pkgs(m.construction)[p[1]].pkg]) :
        Imports[Pkgs(m.construction)[p[1]].pkg][n] = f.oracle
  BY <1>1, <1>2, <1>6, EdgeIsImport
<1>8. PICK d \in EdgeSet(m.construction) : d.from = p[1] /\ d.oracle = f.oracle
  <2> DEFINE c == m.construction
  <2>1. c \in InstanceType /\ p[1] \in 1 .. Len(Pkgs(c))
    BY <1>1, <1>5
  <2>2. n \in 1 .. Len(Imports[Pkgs(c)[p[1]].pkg])
    BY <1>7
  <2> HIDE DEF c
  <2>3. \E d \in EdgeSet(c) : d.from = p[1] /\ d.oracle = Imports[Pkgs(c)[p[1]].pkg][n]
    BY <2>1, <2>2, CalleeIsEdge
  <2> QED
    BY <1>7, <2>3 DEF c
<1>9. d = e
  BY <1>2, <1>8 DEF TypesTellApart
<1> QED
  BY <1>2, <1>3, <1>8, <1>9

\* What an accepted mapping maps is a copy of the assumption's game.
LEMMA AcceptedMeansCopy ==
  ASSUME NEW m \in SideType, Plain(m.assumption), Plain(m.construction),
         TypesTellApart(m.construction), MapAccepted(m)
  PROVE  IsCopy(m) /\ CallsThroughExports(m)
<1>1. m.assumption \in InstanceType /\ m.construction \in InstanceType
  BY DEF SideType
<1>2. ASSUME NEW k \in 1 .. Len(Pkgs(m.assumption))
      PROVE  \E p \in Pairs(m) : p[2] = k
  <2>1. PICK i \in 1 .. Len(m.entries) : m.entries[i][1] = Pkgs(m.assumption)[k].name
    BY DEF MapAccepted, MapRejected, AllMapped
  <2> DEFINE a == Offset(m.assumption, m.entries[i][1])
             c == Offset(m.construction, m.entries[i][2])
  <2>2. /\ <<c, a>> \in Pairs(m) /\ a \in 1 .. Len(Pkgs(m.assumption))
        /\ Pkgs(m.assumption)[a].name = m.entries[i][1]
    BY EntryOffsets
  <2>3. a = k
    BY <2>1, <2>2 DEF Plain
  <2> QED
    BY <2>2, <2>3
<1>3. ASSUME NEW p \in Pairs(m)
      PROVE  Same(m.assumption, p[2], m.construction, p[1])
  <2>1. PICK i \in 1 .. Len(m.entries) :
          /\ p[1] = Offset(m.construction, m.entries[i][2])
          /\ p[2] = Offset(m.assumption, m.entries[i][1])
    BY PairIsEntry
  <2> QED
    BY <2>1, EntryOffsets
<1>4. CallsThroughExports(m)
  BY DEF MapAccepted, MapRejected, CrossCutOk, CallsThroughExports
<1> QED
  BY <1>2, <1>3, <1>4, PairsAreDistinct, MappedCalls DEF IsCopy

-----------------------------------------------------------------------------
(* Types. *)

\* The items and the lists, and where a comparison stands.
FileInv ==
  /\ text \in Texts /\ pos \in 1 .. Len(text) + 1
  /\ instances \in Seq(InstanceType)
  /\ \A n \in DOMAIN table :
       table[n].name = n /\ \E i \in 1 .. Len(instances) : table[n] = instances[i]
  /\ assumptions \in Seq(AssumptionType)
  /\ \A i \in 1 .. Len(assumptions) : Known(assumptions[i].left) /\ Known(assumptions[i].right)
  /\ hops \in Seq(HopType)
  /\ stop \in {"none", "ok", "error", "panic", "overflow"}
CompareInv ==
  reduction # NoReduction =>
    /\ reduction \in ReductionType
    /\ export \in 1 .. Len(Exports(Left)) + 1
    /\ todo \in Seq(CallType(reduction.left, reduction.right))
    /\ compared \in SUBSET (Nat \X Nat)

\* What an item of a kind has.
LEMMA ItemShape ==
  ASSUME FileInv, pos <= Items
  PROVE  /\ pos \in 1 .. Items /\ Items \in Nat
         /\ Item.kind = "instance" =>
              Item.name \in STRING /\ Item.params \in Seq(Seq([name : STRING, value : STRING]))
         /\ Item.kind = "assumption" =>
              Item.name \in STRING /\ Item.left \in STRING /\ Item.right \in STRING
         /\ Item.kind \in {"conjecture", "equivalence"} => Item.left \in STRING /\ Item.right \in STRING
         /\ Item.kind = "reduction" =>
              Item.assumption \in STRING /\ Item.map1 \in Mapping /\ Item.map2 \in Mapping
<1>1. text \in Seq(ItemType)
  BY ProofFileAssumption DEF FileInv
<1>2. pos \in 1 .. Items /\ Items \in Nat
  BY <1>1 DEF FileInv, Items
<1>3. Item \in ItemType
  BY <1>1, <1>2, ElementOfSeq DEF Item, Items
<1> QED
  BY <1>2, <1>3 DEF ItemType

\* A name of the table has an instance, the latest declared.
LEMMA KnownInstance ==
  ASSUME FileInv, NEW n, Known(n)
  PROVE  table[n] \in InstanceType /\ table[n].name = n
<1>1. PICK i \in 1 .. Len(instances) : table[n] = instances[i]
  BY DEF FileInv, Known
<1>2. instances[i] \in InstanceType
  BY ElementOfSeq DEF FileInv
<1> QED
  BY <1>1, <1>2 DEF FileInv, Known

\* A declaration is accepted, refused, or panics; if it is accepted, every block of
\* it gives each constant a value.
LEMMA OutcomeOfInstance ==
  ASSUME NEW it
  PROVE  InstanceOutcome(it) \in {"ok", "error", "panic"}
BY DEF InstanceOutcome, BlockOutcome

LEMMA BlocksGive ==
  ASSUME NEW it, InstanceOutcome(it) = "ok", Len(it.params) \in Nat
  PROVE  /\ it.game \in DOMAIN Games /\ Used(it.game) \subseteq DOMAIN NewInstance(it).values
         /\ \A b \in 1 .. Len(it.params) : ParamsOk(it.params[b], it.game)
<1>1. it.game \in DOMAIN Games
  BY DEF InstanceOutcome
<1>2. ASSUME Bad(it) # {} PROVE FALSE
  <2> DEFINE first == CHOOSE d \in Bad(it) : \A k \in Bad(it) : d <= k
  <2>1. \A d \in Bad(it) : BlockOutcome(it.params[d], it.game) # "ok"
    BY DEF Bad
  <2>2. Bad(it) \subseteq 1 .. Len(it.params)
    BY DEF Bad
  <2>3. first \in Bad(it)
    BY <1>2, <2>2, Least
  <2>4. BlockOutcome(it.params[first], it.game) = "ok"
    BY <1>1, <1>2 DEF InstanceOutcome
  <2> QED
    BY <2>1, <2>3, <2>4
<1>3. \A b \in 1 .. Len(it.params) : BlockOutcome(it.params[b], it.game) = "ok"
  BY <1>2 DEF Bad
<1>4. Used(it.game) \subseteq DOMAIN NewInstance(it).values
  BY <1>1, <1>2 DEF InstanceOutcome
<1> QED
  BY <1>1, <1>3, <1>4 DEF BlockOutcome

\* An accepted declaration adds an instance.
LEMMA NewInstanceType ==
  ASSUME FileInv, pos <= Items, Item.kind = "instance", InstanceOutcome(Item) = "ok"
  PROVE  NewInstance(Item) \in InstanceType /\ NewInstance(Item).name = Item.name
<1>1. Item.name \in STRING /\ Item.params \in Seq(Seq([name : STRING, value : STRING]))
  BY ItemShape
<1>2. /\ Item.game \in DOMAIN Games
      /\ Used(Item.game) \subseteq DOMAIN NewInstance(Item).values
      /\ \A b \in 1 .. Len(Item.params) : ParamsOk(Item.params[b], Item.game)
  BY <1>1, BlocksGive, LenProperties
<1> DEFINE C == IF Item.params = <<>> THEN {} ELSE DOMAIN Games[Item.game].consts
           block == Item.params[1]
           values == [c \in C |-> block[Given(Item, c)].value]
<1>3. ASSUME NEW c \in C
      PROVE  values[c] \in STRING
  <2>1. Item.params # <<>> /\ c \in DOMAIN Games[Item.game].consts
    BY <1>3
  <2>2. 1 \in 1 .. Len(Item.params)
    BY <1>1, <2>1
  <2>3. ParamsOk(block, Item.game)
    BY <1>2, <2>2
  <2>4. block \in Seq([name : STRING, value : STRING])
    BY <1>1, <2>2, ElementOfSeq
  <2>5. c \in {block[i].name : i \in 1 .. Len(block)}
    BY <2>1, <2>3 DEF ParamsOk
  <2>6. Given(Item, c) \in 1 .. Len(block)
    BY <2>5 DEF Given
  <2>7. block[Given(Item, c)] \in [name : STRING, value : STRING]
    BY <2>4, <2>6, ElementOfSeq
  <2> QED
    BY <1>3, <2>7
<1>4. values \in [C -> STRING]
  BY <1>3
<1>5. NewInstance(Item) = [name |-> Item.name, game |-> Item.game, values |-> values]
  BY DEF NewInstance
<1>6. Used(Item.game) \subseteq C
  BY <1>2, <1>5
<1>7. C \in GivenSets(Item.game)
  BY <1>6 DEF GivenSets
<1> HIDE DEF values, C
<1>8. NewInstance(Item) \in
        [name : STRING, game : {Item.game}, values : UNION {[D -> STRING] : D \in GivenSets(Item.game)}]
  BY <1>1, <1>4, <1>5, <1>7
<1> QED
  BY <1>2, <1>5, <1>8 DEF InstanceType

\* Stopping changes no list.
LEMMA StopTypes ==
  ASSUME FileInv, CompareInv, NEW o \in {"none", "ok", "error", "panic", "overflow"}, Stop(o)
  PROVE  FileInv' /\ CompareInv'
BY DEF FileInv, CompareInv, Stop, fileVars, walkVars, Known, Left, Exports, Pkgs, CallType

\* A declaration.
LEMMA DeclareTypes ==
  ASSUME FileInv, CompareInv, ReadConst \/ ReadInstance \/ ReadAssumption
  PROVE  FileInv' /\ CompareInv'
<1>1. reduction = NoReduction /\ pos <= Items
  BY DEF ReadConst, ReadInstance, ReadAssumption, Reads, Reading
<1>2. pos \in 1 .. Items /\ Items \in Nat
  BY <1>1, ItemShape
<1>3. CASE Stop("error") \/ Stop("panic")
  BY <1>3, StopTypes
<1>4. CASE ReadConst /\ ~Stop("panic")
  BY <1>1, <1>2, <1>4 DEF ReadConst, FileInv, CompareInv, walkVars, Known, Items
<1>5. CASE ReadInstance /\ ~Stop("error") /\ ~Stop("panic")
  <2>0. InstanceOutcome(Item) \in {"ok", "error", "panic"}
    BY OutcomeOfInstance
  <2>1. /\ Item.kind = "instance" /\ InstanceOutcome(Item) = "ok"
        /\ instances' = Append(instances, NewInstance(Item))
        /\ table' = [n \in DOMAIN table \cup {Item.name} |->
                       IF n = Item.name THEN NewInstance(Item) ELSE table[n]]
        /\ pos' = pos + 1
        /\ UNCHANGED <<text, consts, assumptions, hops, walkVars, stop>>
    BY <1>5, <2>0 DEF ReadInstance, Reads
  <2> DEFINE new == NewInstance(Item)
  <2>2. new \in InstanceType /\ new.name = Item.name
    BY <1>1, <2>1, NewInstanceType
  <2> HIDE DEF new
  <2>3. instances' = Append(instances, new) /\ instances \in Seq(InstanceType)
    BY <2>1 DEF new, FileInv
  <2>4. /\ instances' \in Seq(InstanceType) /\ Len(instances') = Len(instances) + 1
        /\ Len(instances) \in Nat
        /\ \A i \in 1 .. Len(instances) : instances'[i] = instances[i]
        /\ instances'[Len(instances) + 1] = new
    BY <2>2, <2>3, AppendProperties, LenProperties
  <2>5. ASSUME NEW n \in DOMAIN table'
        PROVE  table'[n].name = n /\ \E i \in 1 .. Len(instances') : table'[n] = instances'[i]
    <3>1. CASE n = Item.name
      <4>1. table'[n] = new
        BY <2>1, <3>1 DEF new
      <4> QED
        BY <2>2, <2>4, <3>1, <4>1
    <3>2. CASE n # Item.name
      <4>1. n \in DOMAIN table /\ table'[n] = table[n]
        BY <2>1, <3>2
      <4>2. PICK i \in 1 .. Len(instances) : table[n] = instances[i]
        BY <4>1 DEF FileInv
      <4>3. table[n].name = n
        BY <4>1 DEF FileInv
      <4>4. i \in 1 .. Len(instances') /\ table'[n] = instances'[i]
        BY <2>4, <4>1, <4>2
      <4> QED
        BY <4>1, <4>3, <4>4
    <3> QED
      BY <3>1, <3>2
  <2>6. DOMAIN table \subseteq DOMAIN table'
    BY <2>1
  <2>7. \A i \in 1 .. Len(assumptions') :
          assumptions'[i].left \in DOMAIN table' /\ assumptions'[i].right \in DOMAIN table'
    BY <2>1, <2>6 DEF FileInv, Known
  <2>8. text' \in Texts /\ pos' \in 1 .. Len(text') + 1
    BY <1>2, <2>1 DEF FileInv, Items
  <2>9. assumptions' \in Seq(AssumptionType) /\ hops' \in Seq(HopType)
        /\ stop' \in {"none", "ok", "error", "panic", "overflow"} /\ reduction' = NoReduction
    BY <1>1, <2>1 DEF FileInv, walkVars
  <2> QED
    BY <2>4, <2>5, <2>7, <2>8, <2>9 DEF FileInv, CompareInv, Known
<1>6. CASE ReadAssumption /\ ~Stop("error")
  <2> DEFINE a == [name |-> Item.name, left |-> Item.left, right |-> Item.right]
  <2>1. /\ Known(Item.left) /\ Known(Item.right) /\ Item.kind = "assumption"
        /\ assumptions' = Append(assumptions, a) /\ pos' = pos + 1
        /\ UNCHANGED <<text, consts, instances, table, hops, walkVars, stop>>
    BY <1>6 DEF ReadAssumption, Reads, BothKnown
  <2>2. a \in AssumptionType
    BY <1>1, <2>1, ItemShape DEF AssumptionType
  <2>3. Known(a.left) /\ Known(a.right)
    BY <2>1
  <2> HIDE DEF a
  <2>4. assumptions \in Seq(AssumptionType)
    BY DEF FileInv
  <2>5. /\ assumptions' \in Seq(AssumptionType) /\ Len(assumptions') = Len(assumptions) + 1
        /\ Len(assumptions) \in Nat
        /\ \A i \in 1 .. Len(assumptions) : assumptions'[i] = assumptions[i]
        /\ assumptions'[Len(assumptions) + 1] = a
    BY <2>1, <2>2, <2>4, AppendProperties, LenProperties
  <2>6. \A n : Known(n)' = Known(n)
    BY <2>1 DEF Known
  <2>7. \A i \in 1 .. Len(assumptions') : Known(assumptions'[i].left) /\ Known(assumptions'[i].right)
    <3> SUFFICES ASSUME NEW i \in 1 .. Len(assumptions) + 1
                 PROVE  Known(assumptions'[i].left) /\ Known(assumptions'[i].right)
      BY <2>5
    <3>1. CASE i \in 1 .. Len(assumptions)
      BY <2>5, <3>1 DEF FileInv
    <3>2. CASE i = Len(assumptions) + 1
      BY <2>3, <2>5, <3>2
    <3> QED
      BY <2>5, <3>1, <3>2
  <2> QED
    BY <1>1, <1>2, <2>1, <2>5, <2>6, <2>7 DEF FileInv, CompareInv, walkVars, Items
<1> QED
  BY <1>3, <1>4, <1>5, <1>6

\* A hop is appended.
LEMMA HopTypes ==
  ASSUME FileInv, pos <= Items, NEW h \in HopType, hops' = Append(hops, h),
         pos' = pos + 1, UNCHANGED <<text, fileVars, stop>>
  PROVE  FileInv'
<1>1. pos \in 1 .. Items /\ Items \in Nat
  BY ItemShape
<1>2. hops' \in Seq(HopType)
  BY AppendProperties DEF FileInv
<1> QED
  BY <1>1, <1>2 DEF FileInv, fileVars, Items, Known

\* A hop that is not a reduction.
LEMMA OtherHopTypes ==
  ASSUME FileInv, CompareInv, ReadOtherHop
  PROVE  FileInv' /\ CompareInv'
<1>1. reduction = NoReduction /\ pos <= Items /\ Item.kind \in {"conjecture", "equivalence"}
  BY DEF ReadOtherHop, Reads, Reading
<1>2. CASE Stop("error")
  BY <1>2, StopTypes
<1>3. CASE ~Stop("error")
  <2> DEFINE h == [kind |-> Item.kind, left |-> Item.left, right |-> Item.right]
  <2>1. hops' = Append(hops, h) /\ pos' = pos + 1 /\ UNCHANGED <<text, fileVars, walkVars, stop>>
    BY <1>3 DEF ReadOtherHop
  <2>2. h \in HopType
    BY <1>1, ItemShape DEF HopType
  <2> HIDE DEF h
  <2>3. FileInv'
    BY <1>1, <2>1, <2>2, HopTypes
  <2> QED
    BY <1>1, <2>1, <2>3 DEF CompareInv, walkVars
<1> QED
  BY <1>2, <1>3

\* The sides of an accepted mapping.
LEMMA ResolvedSide ==
  ASSUME FileInv, NEW m \in Mapping, NEW a, MapOutcome(m, a) = "ok"
  PROVE  /\ Resolve(m) \in SideType /\ MapAccepted(Resolve(m))
         /\ Resolve(m).construction = table[m.construction]
<1>1. RolesOk(m, a) /\ ~MapRejected(Resolve(m)) /\ WiresOk(Resolve(m))
  BY DEF MapOutcome
<1>2. table[m.assumption] \in InstanceType /\ table[m.construction] \in InstanceType
  BY <1>1, KnownInstance DEF RolesOk
<1>3. m.entries \in Seq(STRING \X STRING)
  BY DEF Mapping
<1> QED
  BY <1>1, <1>2, <1>3 DEF Resolve, SideType, MapAccepted

\* The comparison begins with two accepted mappings.
LEMMA BeginTypes ==
  ASSUME FileInv, CompareInv, BeginReduction
  PROVE  /\ FileInv' /\ CompareInv' /\ UNCHANGED hops
         /\ \/ Stop("error") \/ Stop("panic")
            \/ /\ reduction' # NoReduction /\ export' = 1 /\ todo' = <<>> /\ compared' = {}
               /\ MapAccepted(reduction'.left) /\ MapAccepted(reduction'.right)
<1>1. reduction = NoReduction /\ pos <= Items /\ Item.kind = "reduction"
  BY DEF BeginReduction, Reads, Reading
<1> DEFINE a == Assumption(Item.assumption)
<1>2. \A m : MapOutcome(m, a) \in {"ok", "error", "panic"}
  BY DEF MapOutcome
<1>3. CASE Stop("error") \/ Stop("panic")
  BY <1>3, StopTypes DEF Stop
<1>4. CASE ~Stop("error") /\ ~Stop("panic")
  <2>1. MapOutcome(Item.map1, a) = "ok" /\ MapOutcome(Item.map2, a) = "ok"
    BY <1>2, <1>4 DEF BeginReduction
  <2> DEFINE one == Resolve(Item.map1)
             two == Resolve(Item.map2)
  <2>2. /\ Item.assumption \in STRING
        /\ one \in SideType /\ two \in SideType /\ MapAccepted(one) /\ MapAccepted(two)
    BY <1>1, <2>1, ItemShape, ResolvedSide
  <2>3. PICK l \in {one, two}, r \in {one, two} :
          /\ reduction' = [kind |-> "reduction", assumption |-> Item.assumption, left |-> l, right |-> r]
          /\ export' = 1 /\ todo' = <<>> /\ compared' = {}
          /\ UNCHANGED <<text, pos, fileVars, hops, stop>>
    BY <1>4, <2>1 DEF BeginReduction
  <2> HIDE DEF a, one, two
  <2>4. l \in SideType /\ r \in SideType /\ MapAccepted(l) /\ MapAccepted(r)
    BY <2>2
  <2>5. reduction' \in ReductionType /\ reduction' # NoReduction
        /\ reduction'.left = l /\ reduction'.right = r
    BY <2>2, <2>3, <2>4 DEF ReductionType, NoReduction
  <2>6. Len(Exports(l.construction)) \in Nat
    BY <2>4, InstanceLists DEF SideType
  <2>7. CompareInv'
    BY <2>3, <2>5, <2>6 DEF CompareInv, Left, Exports
  <2>8. FileInv'
    BY <2>3 DEF FileInv, fileVars, Known
  <2> QED
    BY <2>3, <2>4, <2>5, <2>7, <2>8
<1> QED
  BY <1>3, <1>4

\* The sides that are compared.
LEMMA ComparedSides ==
  ASSUME CompareInv, reduction # NoReduction
  PROVE  /\ reduction.left \in SideType /\ reduction.right \in SideType
         /\ Left \in InstanceType /\ Right \in InstanceType
         /\ Left = reduction.left.construction /\ Right = reduction.right.construction
         /\ Len(Exports(Left)) \in Nat /\ Len(Exports(Right)) \in Nat
         /\ export \in 1 .. Len(Exports(Left)) + 1
         /\ todo \in Seq(CallType(reduction.left, reduction.right)) /\ Len(todo) \in Nat
         /\ \A i \in 1 .. Len(todo) :
              /\ todo[i].left \in 1 .. Len(Pkgs(Left)) /\ todo[i].right \in 1 .. Len(Pkgs(Right))
              /\ todo[i].depth \in Nat
<1>1. /\ reduction \in ReductionType /\ export \in 1 .. Len(Exports(Left)) + 1
      /\ todo \in Seq(CallType(reduction.left, reduction.right))
  BY DEF CompareInv
<1>2. reduction.left \in SideType /\ reduction.right \in SideType
  BY <1>1 DEF ReductionType
<1>3. Left \in InstanceType /\ Right \in InstanceType
  BY <1>2 DEF SideType, Left, Right
<1>4. \A i \in 1 .. Len(todo) : todo[i] \in CallType(reduction.left, reduction.right)
  BY <1>1, ElementOfSeq
<1>5. Len(todo) \in Nat
  BY <1>1, LenProperties
<1>6. Len(Exports(Left)) \in Nat /\ Len(Exports(Right)) \in Nat
  BY <1>3, InstanceLists
<1> QED
  BY <1>1, <1>2, <1>3, <1>4, <1>5, <1>6 DEF CallType, Left, Right

\* A comparison that goes on changes no list of the file.
LEMMA WalkKeepsFile ==
  ASSUME FileInv, UNCHANGED <<text, pos, fileVars, hops, stop>>
  PROVE  FileInv'
BY DEF FileInv, fileVars, Known

\* An export and its counterpart are to be compared.
LEMMA NextExportTypes ==
  ASSUME FileInv, CompareInv, NextExport, ~Stop("panic")
  PROVE  /\ FileInv' /\ CompareInv' /\ UNCHANGED <<hops, reduction, compared>>
         /\ export' = export + 1 /\ Len(todo') = 1 /\ todo'[1].depth = 1
         /\ \E y \in ExportSet(Right) :
              /\ y.oracle = Exports(Left)[export].oracle
              /\ todo'[1].left = Exports(Left)[export].to /\ todo'[1].right = y.to
<1>1. reduction # NoReduction /\ export <= Len(Exports(Left))
  BY DEF NextExport, Comparing
<1> DEFINE x == Exports(Left)[export]
           is == Counterparts(x)
           c == CHOOSE i \in is : \A k \in is : i <= k
           call == [left |-> x.to, right |-> Exports(Right)[c].to, depth |-> 1]
<1>2. /\ is # {} /\ todo' = <<call>> /\ export' = export + 1
      /\ UNCHANGED <<text, pos, fileVars, hops, reduction, compared, stop>>
  BY DEF NextExport
<1>3. is \in SUBSET (1 .. Len(Exports(Right))) /\ Len(Exports(Right)) \in Nat
  BY <1>1, ComparedSides DEF Counterparts
<1> HIDE DEF is
<1>4. c \in is
  BY <1>2, <1>3, Least
<1> HIDE DEF c
<1>5. c \in 1 .. Len(Exports(Right)) /\ Exports(Right)[c].oracle = x.oracle
  BY <1>4 DEF is, Counterparts
<1>6. export \in 1 .. Len(Exports(Left)) /\ Len(Exports(Left)) \in Nat
  BY <1>1, ComparedSides
<1>7. /\ call.left \in 1 .. Len(Pkgs(Left)) /\ call.right \in 1 .. Len(Pkgs(Right))
      /\ call.depth = 1
  BY <1>1, <1>5, <1>6, ComparedSides, InstanceLists
<1>8. call \in CallType(reduction.left, reduction.right)
  BY <1>7 DEF CallType, Left, Right
<1> HIDE DEF call
<1>9. /\ todo' \in Seq(CallType(reduction.left, reduction.right)) /\ Len(todo') = 1
      /\ todo'[1] = call
  BY <1>2, <1>8
<1>10. CompareInv'
  BY <1>1, <1>2, <1>6, <1>9 DEF CompareInv, Left
<1>11. FileInv'
  BY <1>2, WalkKeepsFile
<1>12. Exports(Right)[c] \in ExportSet(Right)
  BY <1>5 DEF ExportSet
<1> QED
  BY <1>2, <1>5, <1>7, <1>9, <1>10, <1>11, <1>12 DEF call

\* The calls for the imports of two instances that agree.
LEMMA CalleesTypes ==
  ASSUME CompareInv, reduction # NoReduction, todo # <<>>, Agree
  PROVE  /\ Len(ImportedBy(Call.left)) \in Nat
         /\ Callees \in Seq(CallType(reduction.left, reduction.right))
         /\ Len(Callees) = Len(ImportedBy(Call.left))
         /\ \A i \in 1 .. Len(Callees) :
              /\ Callees[i].left = Callee(Left, Call.left, ImportedBy(Call.left)[i])
              /\ Callees[i].right = Callee(Right, Call.right, ImportedBy(Call.left)[i])
              /\ Callees[i].depth = Call.depth + 1
<1>1. /\ Left \in InstanceType /\ Right \in InstanceType /\ Len(todo) \in Nat
      /\ \A i \in 1 .. Len(todo) :
           /\ todo[i].left \in 1 .. Len(Pkgs(Left)) /\ todo[i].right \in 1 .. Len(Pkgs(Right))
           /\ todo[i].depth \in Nat
  BY ComparedSides
<1>2. 1 \in 1 .. Len(todo)
  <2>1. todo \in Seq(CallType(reduction.left, reduction.right))
    BY ComparedSides
  <2> QED
    BY <1>1, <2>1
<1>3. /\ Call.left \in 1 .. Len(Pkgs(Left)) /\ Call.right \in 1 .. Len(Pkgs(Right))
      /\ Call.depth \in Nat
  BY <1>1, <1>2 DEF Call
<1>4. Pkgs(Left)[Call.left].pkg \in DOMAIN Imports
      /\ Pkgs(Left)[Call.left].pkg = Pkgs(Right)[Call.right].pkg
  BY <1>1, <1>3, InstanceLists DEF Agree, Same
<1> DEFINE imported == ImportedBy(Call.left)
           n == Len(imported)
<1>5. n \in Nat
  <2>1. imported \in Seq(DOMAIN OracleType)
    BY <1>4, ProofFileAssumption DEF ImportedBy
  <2> QED
    BY <2>1, LenProperties
<1>6. ASSUME NEW i \in 1 .. n
      PROVE  /\ Callee(Left, Call.left, imported[i]) \in 1 .. Len(Pkgs(Left))
             /\ Callee(Right, Call.right, imported[i]) \in 1 .. Len(Pkgs(Right))
  <2>1. i \in 1 .. Len(Imports[Pkgs(Left)[Call.left].pkg])
        /\ imported = Imports[Pkgs(Left)[Call.left].pkg]
    BY DEF ImportedBy
  <2>2. i \in 1 .. Len(Imports[Pkgs(Right)[Call.right].pkg])
        /\ imported = Imports[Pkgs(Right)[Call.right].pkg]
    BY <1>4, <2>1
  <2>3. Callee(Left, Call.left, imported[i]) \in 1 .. Len(Pkgs(Left))
    BY <1>1, <1>3, <2>1, CalleeIsEdge
  <2>4. Callee(Right, Call.right, imported[i]) \in 1 .. Len(Pkgs(Right))
    BY <1>1, <1>3, <2>2, CalleeIsEdge
  <2> QED
    BY <2>3, <2>4
<1> DEFINE next(i) == [left |-> Callee(Left, Call.left, imported[i]),
                       right |-> Callee(Right, Call.right, imported[i]),
                       depth |-> Call.depth + 1]
<1>7. \A i \in 1 .. n : next(i) \in CallType(reduction.left, reduction.right)
  BY <1>3, <1>6 DEF CallType, Left, Right
<1>8. Callees = [i \in 1 .. n |-> next(i)]
  BY DEF Callees
<1>9. \A i \in 1 .. n : /\ next(i).left = Callee(Left, Call.left, imported[i])
                       /\ next(i).right = Callee(Right, Call.right, imported[i])
                       /\ next(i).depth = Call.depth + 1
  OBVIOUS
<1> HIDE DEF n, next
<1>10. Callees \in Seq(CallType(reduction.left, reduction.right)) /\ Len(Callees) = n
  BY <1>5, <1>7, <1>8, IsASeq
<1>11. \A i \in 1 .. n : Callees[i] = next(i)
  BY <1>8
<1> QED
  BY <1>5, <1>9, <1>10, <1>11 DEF n

\* The pairs of instances to compare.
Pending == {<<todo[i].left, todo[i].right>> : i \in 1 .. Len(todo)}

\* The call c is the one for the import j.
CallFor(c, j) ==
  /\ c.left = Callee(Left, Call.left, ImportedBy(Call.left)[j])
  /\ c.right = Callee(Right, Call.right, ImportedBy(Call.left)[j])
  /\ c.depth = Call.depth + 1

\* One comparison that succeeds.
LEMMA CompareTypes ==
  ASSUME FileInv, CompareInv, Compare, ~Stop("overflow"), ~Stop("error")
  PROVE  /\ FileInv' /\ CompareInv' /\ UNCHANGED <<hops, reduction, export>>
         /\ <<Call.left, Call.right>> \in Pending
         /\ compared' = compared \cup {<<Call.left, Call.right>>}
         /\ Pending \subseteq compared' \cup Pending'
         /\ BothMapped \/ Agree
         /\ ~BothMapped =>
              \A i \in 1 .. Len(ImportedBy(Call.left)) :
                <<Callee(Left, Call.left, ImportedBy(Call.left)[i]),
                  Callee(Right, Call.right, ImportedBy(Call.left)[i])>> \in Pending'
         /\ \A i \in 1 .. Len(todo') :
              \/ \E j \in 1 .. Len(todo) : todo'[i] = todo[j]
              \/ ~BothMapped /\ \E j \in 1 .. Len(ImportedBy(Call.left)) : CallFor(todo'[i], j)
<1> DEFINE T == CallType(reduction.left, reduction.right)
           new == IF BothMapped THEN <<>> ELSE Callees
<1>1. /\ reduction # NoReduction /\ todo # <<>> /\ (BothMapped \/ Agree)
      /\ todo' = new \o Tail(todo)
      /\ compared' = compared \cup {<<Call.left, Call.right>>}
      /\ UNCHANGED <<text, pos, fileVars, hops, reduction, export, stop>>
  BY DEF Compare, Comparing
<1>2. todo \in Seq(T) /\ Len(todo) \in Nat
  BY <1>1, ComparedSides
<1>3. /\ Tail(todo) \in Seq(T) /\ Len(Tail(todo)) = Len(todo) - 1 /\ Len(todo) >= 1
      /\ \A i \in 1 .. Len(todo) - 1 : Tail(todo)[i] = todo[i + 1]
  BY <1>1, <1>2, HeadTailProperties
<1>4. new \in Seq(T) /\ Len(new) \in Nat
  <2>1. CASE BothMapped
    BY <2>1
  <2>2. CASE ~BothMapped
    BY <1>1, <2>2, CalleesTypes
  <2> QED
    BY <2>1, <2>2
<1> HIDE DEF new, T
<1>5. /\ todo' \in Seq(T) /\ Len(todo') = Len(new) + (Len(todo) - 1)
      /\ \A i \in 1 .. Len(new) : todo'[i] = new[i]
      /\ \A i \in Len(new) + 1 .. Len(new) + (Len(todo) - 1) : todo'[i] = Tail(todo)[i - Len(new)]
  BY <1>1, <1>3, <1>4, ConcatProperties
<1>6. \A i \in 2 .. Len(todo) : Len(new) + i - 1 \in 1 .. Len(todo') /\ todo'[Len(new) + i - 1] = todo[i]
  <2> SUFFICES ASSUME NEW i \in 2 .. Len(todo)
               PROVE  Len(new) + i - 1 \in 1 .. Len(todo') /\ todo'[Len(new) + i - 1] = todo[i]
    OBVIOUS
  <2>1. /\ Len(new) + i - 1 \in Len(new) + 1 .. Len(new) + (Len(todo) - 1)
        /\ Len(new) + i - 1 \in 1 .. Len(new) + (Len(todo) - 1)
        /\ (Len(new) + i - 1) - Len(new) = i - 1 /\ i - 1 \in 1 .. Len(todo) - 1 /\ (i - 1) + 1 = i
    BY <1>2, <1>4
  <2> QED
    BY <1>3, <1>5, <2>1
<1>7. Pending \subseteq compared' \cup Pending'
  <2> SUFFICES ASSUME NEW i \in 1 .. Len(todo)
               PROVE  <<todo[i].left, todo[i].right>> \in compared' \cup Pending'
    BY DEF Pending
  <2>1. CASE i = 1
    BY <1>1, <2>1 DEF Call
  <2>2. CASE i # 1
    <3>1. i \in 2 .. Len(todo)
      BY <1>2, <2>2
    <3> QED
      BY <1>6, <3>1 DEF Pending
  <2> QED
    BY <2>1, <2>2
<1>8. 1 \in 1 .. Len(todo) /\ <<Call.left, Call.right>> \in Pending
  BY <1>2, <1>3 DEF Pending, Call
<1>9. ASSUME ~BothMapped, NEW i \in 1 .. Len(ImportedBy(Call.left))
      PROVE  <<Callee(Left, Call.left, ImportedBy(Call.left)[i]),
               Callee(Right, Call.right, ImportedBy(Call.left)[i])>> \in Pending'
  <2>1. /\ Len(new) = Len(ImportedBy(Call.left))
        /\ new[i].left = Callee(Left, Call.left, ImportedBy(Call.left)[i])
        /\ new[i].right = Callee(Right, Call.right, ImportedBy(Call.left)[i])
    BY <1>1, <1>9, CalleesTypes DEF new
  <2>2. i \in 1 .. Len(todo') /\ todo'[i] = new[i]
    BY <1>2, <1>3, <1>4, <1>5, <2>1
  <2> QED
    BY <2>1, <2>2 DEF Pending
<1>10. compared' \in SUBSET (Nat \X Nat)
  <2>1. Call.left \in Nat /\ Call.right \in Nat
    BY <1>1, <1>8, ComparedSides DEF Call
  <2> QED
    BY <1>1, <2>1 DEF CompareInv
<1>11. CompareInv'
  BY <1>1, <1>5, <1>10 DEF CompareInv, T, Left
<1>12. FileInv'
  BY <1>1, WalkKeepsFile
<1>13. ASSUME NEW i \in 1 .. Len(todo')
       PROVE  \/ \E j \in 1 .. Len(todo) : todo'[i] = todo[j]
              \/ ~BothMapped /\ \E j \in 1 .. Len(ImportedBy(Call.left)) : CallFor(todo'[i], j)
  <2>1. CASE i <= Len(new)
    <3>1. i \in 1 .. Len(new) /\ todo'[i] = new[i] /\ ~BothMapped
      BY <1>4, <1>5, <2>1 DEF new
    <3>2. i \in 1 .. Len(ImportedBy(Call.left)) /\ CallFor(todo'[i], i)
      BY <1>1, <3>1, CalleesTypes DEF new, CallFor
    <3> QED
      BY <3>1, <3>2
  <2>2. CASE ~(i <= Len(new))
    <3>1. /\ i \in Len(new) + 1 .. Len(new) + (Len(todo) - 1)
          /\ i - Len(new) \in 1 .. Len(todo) - 1 /\ (i - Len(new)) + 1 \in 1 .. Len(todo)
      BY <1>2, <1>4, <1>5, <2>2
    <3>2. todo'[i] = todo[(i - Len(new)) + 1]
      BY <1>3, <1>5, <3>1
    <3> QED
      BY <3>1, <3>2
  <2> QED
    BY <2>1, <2>2
<1> QED
  BY <1>1, <1>7, <1>8, <1>9, <1>11, <1>12, <1>13

\* A reduction is accepted.
LEMMA FinishTypes ==
  ASSUME FileInv, CompareInv, pos <= Items, FinishReduction, ~Stop("panic")
  PROVE  LET h == [kind |-> "reduction", left |-> reduction.left, right |-> reduction.right,
                   assumption |-> reduction.assumption, compared |-> compared]
         IN  /\ FileInv' /\ CompareInv' /\ reduction' = NoReduction
             /\ h \in HopType /\ hops' = Append(hops, h)
             /\ reduction # NoReduction /\ todo = <<>> /\ export > Len(Exports(Left))
             /\ reduction.left.assumption.name # reduction.right.assumption.name
<1> DEFINE h == [kind |-> "reduction", left |-> reduction.left, right |-> reduction.right,
                 assumption |-> reduction.assumption, compared |-> compared]
<1>1. /\ reduction # NoReduction /\ todo = <<>> /\ export > Len(Exports(Left))
      /\ reduction.left.assumption.name # reduction.right.assumption.name
      /\ hops' = Append(hops, h) /\ reduction' = NoReduction /\ pos' = pos + 1
      /\ UNCHANGED <<text, fileVars, stop>>
  BY DEF FinishReduction, Comparing
<1>2. h \in HopType
  BY <1>1 DEF CompareInv, ReductionType, HopType
<1> HIDE DEF h
<1>3. FileInv'
  BY <1>1, <1>2, HopTypes
<1>4. CompareInv'
  BY <1>1 DEF CompareInv
<1> QED
  BY <1>1, <1>2, <1>3, <1>4 DEF h

\* While a reduction is compared, its item is in the file.
ItemInv == reduction # NoReduction => pos <= Items

\* FileInv and CompareInv are inductive.
TypeInv == FileInv /\ CompareInv /\ ItemInv

LEMMA TypeStep ==
  ASSUME TypeInv, [Next]_vars
  PROVE  TypeInv'
<1> USE DEF TypeInv
<1>1. CASE \E o \in {"ok", "error", "panic", "overflow"} : Stop(o)
  BY <1>1, StopTypes DEF ItemInv, Stop, walkVars, Items
<1>2. CASE UNCHANGED vars
  BY <1>2 DEF vars, fileVars, walkVars, FileInv, CompareInv, ItemInv, Known, Left, Exports, Pkgs,
              CallType, Items
<1>3. CASE ReadConst \/ ReadInstance \/ ReadAssumption
  <2>1. FileInv' /\ CompareInv'
    BY <1>3, DeclareTypes
  <2>2. reduction' = NoReduction
    BY <1>3 DEF ReadConst, ReadInstance, ReadAssumption, Reads, Reading, Stop, walkVars
  <2> QED
    BY <2>1, <2>2 DEF ItemInv
<1>4. CASE ReadOtherHop
  <2>1. FileInv' /\ CompareInv'
    BY <1>4, OtherHopTypes
  <2>2. reduction' = NoReduction
    BY <1>4 DEF ReadOtherHop, Reads, Reading, Stop, walkVars
  <2> QED
    BY <2>1, <2>2 DEF ItemInv
<1>5. CASE BeginReduction /\ ~(\E o \in {"ok", "error", "panic", "overflow"} : Stop(o))
  <2>1. FileInv' /\ CompareInv'
    BY <1>5, BeginTypes
  <2>2. pos <= Items
    BY <1>5 DEF BeginReduction, Reads
  <2>3. UNCHANGED <<text, pos>>
    <3>1. \A m, a : MapOutcome(m, a) \in {"ok", "error", "panic"}
      BY DEF MapOutcome
    <3> QED
      BY <1>5, <3>1 DEF BeginReduction
  <2> QED
    BY <2>1, <2>2, <2>3 DEF ItemInv, Items
<1>6. CASE NextExport /\ ~Stop("panic")
  <2>1. FileInv' /\ CompareInv'
    BY <1>6, NextExportTypes
  <2>2. UNCHANGED <<text, pos, reduction>>
    BY <1>6 DEF NextExport
  <2> QED
    BY <2>1, <2>2 DEF ItemInv, Items
<1>7. CASE Compare /\ ~Stop("overflow") /\ ~Stop("error")
  <2>1. FileInv' /\ CompareInv'
    BY <1>7, CompareTypes
  <2>2. UNCHANGED <<text, pos, reduction>>
    BY <1>7 DEF Compare
  <2> QED
    BY <2>1, <2>2 DEF ItemInv, Items
<1>8. CASE FinishReduction /\ ~Stop("panic")
  <2>1. pos <= Items
    BY <1>8 DEF FinishReduction, Comparing, ItemInv
  <2>2. FileInv' /\ CompareInv' /\ reduction' = NoReduction
    BY <1>8, <2>1, FinishTypes
  <2> QED
    BY <2>2 DEF ItemInv
<1>9. CASE EndOfFile \/ Stopped
  BY <1>1, <1>2, <1>9 DEF EndOfFile, Stopped
<1> QED
  BY <1>1, <1>2, <1>3, <1>4, <1>5, <1>6, <1>7, <1>8, <1>9 DEF Next

LEMMA TypeInvariant == Spec => []TypeInv
<1>1. Init => TypeInv
  <2> SUFFICES ASSUME Init
               PROVE  TypeInv
    OBVIOUS
  <2>1. text \in Seq(ItemType)
    BY ProofFileAssumption DEF Init
  <2>2. Len(text) \in Nat
    BY <2>1
  <2> QED
    BY <2>2 DEF Init, TypeInv, FileInv, CompareInv, ItemInv
<1> QED
  BY <1>1, TypeStep, PTL DEF Spec

\* Everything read is in the lists, and a comparison refers to instances there
\* are (handle_proof, compare_reduction).
THEOREM TypeCorrect == Spec => []TypeOK
<1>1. ASSUME TypeInv
      PROVE  TypeOK
  <2> USE <1>1 DEF TypeInv
  <2>1. ASSUME NEW n \in DOMAIN table
        PROVE  /\ \E i \in 1 .. Len(instances) : table[n] = instances[i]
               /\ table[n].name = n /\ table[n].game \in DOMAIN Games
               /\ DOMAIN table[n].values \in {{}, DOMAIN Games[table[n].game].consts}
               /\ Used(table[n].game) \subseteq DOMAIN table[n].values
    <3>1. table[n] \in InstanceType /\ table[n].name = n
      BY KnownInstance DEF Known
    <3> QED
      BY <3>1, InstanceLists DEF FileInv, GivenSets
  <2>2. ASSUME reduction # NoReduction
        PROVE  /\ Left.game \in DOMAIN Games /\ Right.game \in DOMAIN Games
               /\ export \in 1 .. Len(Exports(Left)) + 1
               /\ \A i \in 1 .. Len(todo) :
                    todo[i].left \in 1 .. Len(Pkgs(Left)) /\ todo[i].right \in 1 .. Len(Pkgs(Right))
    BY <2>2, ComparedSides, InstanceLists
  <2> QED
    BY <2>1, <2>2 DEF FileInv, TypeOK, Items
<1> QED
  BY <1>1, TypeInvariant, PTL

-----------------------------------------------------------------------------
(* Mapped parts. *)

\* The mappings of the reduction under way and of those accepted passed the checks.
MapInv ==
  /\ reduction # NoReduction => MapAccepted(reduction.left) /\ MapAccepted(reduction.right)
  /\ \A i \in 1 .. Len(hops) : hops[i].kind = "reduction" =>
       MapAccepted(hops[i].left) /\ MapAccepted(hops[i].right)

\* A property of all hops is one of those there are and of the one appended.
LEMMA HopsAppended ==
  ASSUME FileInv, NEW h \in HopType, hops' = Append(hops, h)
  PROVE  /\ Len(hops) \in Nat /\ Len(hops') = Len(hops) + 1 /\ hops'[Len(hops) + 1] = h
         /\ \A i \in 1 .. Len(hops') : i # Len(hops) + 1 => i \in 1 .. Len(hops) /\ hops'[i] = hops[i]
<1>1. hops \in Seq(HopType)
  BY DEF FileInv
<1>2. /\ Len(hops) \in Nat /\ Len(hops') = Len(hops) + 1 /\ hops'[Len(hops) + 1] = h
      /\ \A i \in 1 .. Len(hops) : hops'[i] = hops[i]
  BY <1>1, AppendProperties, LenProperties
<1> QED
  BY <1>2

\* What a step does to the reduction and to the hops.
LEMMA StepCases ==
  ASSUME TypeInv, [Next]_vars
  PROVE  \/ UNCHANGED <<hops, reduction, export, todo, compared>>
         \/ ReadOtherHop /\ ~Stop("error")
         \/ BeginReduction /\ ~Stop("error") /\ ~Stop("panic")
         \/ NextExport /\ ~Stop("panic")
         \/ Compare /\ ~Stop("overflow") /\ ~Stop("error")
         \/ FinishReduction /\ ~Stop("panic")
BY DEF Next, vars, walkVars, ReadConst, ReadInstance, ReadAssumption, EndOfFile, Stopped, Stop

LEMMA MapStep ==
  ASSUME TypeInv, MapInv, [Next]_vars
  PROVE  MapInv'
<1> USE DEF TypeInv
<1>1. CASE UNCHANGED <<hops, reduction, export, todo, compared>>
  BY <1>1 DEF MapInv
<1>2. CASE ReadOtherHop /\ ~Stop("error")
  <2> DEFINE h == [kind |-> Item.kind, left |-> Item.left, right |-> Item.right]
  <2>1. /\ pos <= Items /\ Item.kind \in {"conjecture", "equivalence"}
        /\ hops' = Append(hops, h) /\ reduction = NoReduction /\ UNCHANGED reduction
    BY <1>2 DEF ReadOtherHop, Reads, Reading, walkVars
  <2>2. h \in HopType /\ h.kind # "reduction"
    BY <2>1, ItemShape DEF HopType
  <2> HIDE DEF h
  <2>3. /\ Len(hops) \in Nat /\ Len(hops') = Len(hops) + 1 /\ hops'[Len(hops) + 1] = h
        /\ \A i \in 1 .. Len(hops') : i # Len(hops) + 1 => i \in 1 .. Len(hops) /\ hops'[i] = hops[i]
    BY <2>1, <2>2, HopsAppended
  <2> QED
    BY <2>1, <2>2, <2>3 DEF MapInv
<1>3. CASE BeginReduction /\ ~Stop("error") /\ ~Stop("panic")
  BY <1>3, BeginTypes DEF MapInv
<1>4. CASE (NextExport /\ ~Stop("panic")) \/ (Compare /\ ~Stop("overflow") /\ ~Stop("error"))
  <2>1. UNCHANGED <<hops, reduction>>
    BY <1>4, NextExportTypes, CompareTypes
  <2> QED
    BY <2>1 DEF MapInv
<1>5. CASE FinishReduction /\ ~Stop("panic")
  <2> DEFINE h == [kind |-> "reduction", left |-> reduction.left, right |-> reduction.right,
                   assumption |-> reduction.assumption, compared |-> compared]
  <2>1. pos <= Items
    BY <1>5 DEF FinishReduction, Comparing, ItemInv
  <2>2. /\ h \in HopType /\ hops' = Append(hops, h) /\ reduction' = NoReduction
        /\ reduction # NoReduction
    BY <1>5, <2>1, FinishTypes
  <2>3. MapAccepted(h.left) /\ MapAccepted(h.right)
    BY <2>2 DEF MapInv
  <2> HIDE DEF h
  <2>4. /\ Len(hops) \in Nat /\ Len(hops') = Len(hops) + 1 /\ hops'[Len(hops) + 1] = h
        /\ \A i \in 1 .. Len(hops') : i # Len(hops) + 1 => i \in 1 .. Len(hops) /\ hops'[i] = hops[i]
    BY <2>2, HopsAppended
  <2> QED
    BY <2>2, <2>3, <2>4 DEF MapInv
<1> QED
  BY <1>1, <1>2, <1>3, <1>4, <1>5, StepCases

\* In an accepted reduction between plain games, whose imports differ in type,
\* either side contains its side of the assumption, and its other instances call
\* that only through oracles the assumption exports (handle_mapspec_assumption).
\* Of the construction's own exports nothing is said: the code lets them lead to
\* any instance of the copy.
THEOREM AcceptedReductionsContainAssumption == Spec => []MappedPartIsAssumption
<1>1. Init => MapInv
  BY DEF Init, MapInv
<1>2. ASSUME TypeInv, MapInv
      PROVE  MappedPartIsAssumption
  <2> SUFFICES ASSUME NEW i \in 1 .. Len(hops), hops[i].kind = "reduction",
                      NEW m \in Sides(hops[i]),
                      Plain(m.assumption), Plain(m.construction), TypesTellApart(m.construction)
               PROVE  IsCopy(m) /\ CallsThroughExports(m)
    BY DEF MappedPartIsAssumption, Reductions
  <2>1. hops[i] \in HopType
    BY <1>2, ElementOfSeq DEF TypeInv, FileInv
  <2>2. hops[i].left \in SideType /\ hops[i].right \in SideType
    BY <2>1 DEF HopType
  <2>3. m \in SideType /\ MapAccepted(m)
    BY <1>2, <2>2 DEF MapInv, Sides
  <2> QED
    BY <2>3, AcceptedMeansCopy
<1> QED
  BY <1>1, <1>2, MapStep, TypeInvariant, PTL DEF Spec

-----------------------------------------------------------------------------
(* The parts around them. *)

\* From the pairs C all calls lead to pairs of S.
Leads(l, r, C, S) ==
  /\ \A p \in C : Mapped(l, p[1]) <=> Mapped(r, p[2])
  /\ \A p \in C : ~Mapped(l, p[1]) =>
       /\ Same(l.construction, p[1], r.construction, p[2])
       /\ \A e \in EdgeSet(l.construction), f \in EdgeSet(r.construction) :
            e.from = p[1] /\ f.from = p[2] /\ e.oracle = f.oracle => <<e.to, f.to>> \in S
\* The first n exports are in S.
Exported(l, r, n, S) ==
  \A k \in 1 .. n : \E y \in ExportSet(r) :
    Exports(l)[k].oracle = y.oracle /\ <<Exports(l)[k].to, y.to>> \in S

\* What is compared leads to what is compared or to be compared.
WalkInv ==
  reduction # NoReduction /\ Plain(Left) /\ Plain(Right) =>
    /\ Exported(Left, Right, export - 1, compared \cup Pending)
    /\ Leads(reduction.left, reduction.right, compared, compared \cup Pending)

\* More pairs do no harm.
LEMMA LeadsMore ==
  ASSUME NEW l, NEW r, NEW C, NEW S, NEW T, S \subseteq T, Leads(l, r, C, S)
  PROVE  Leads(l, r, C, T)
BY DEF Leads

\* The first edges for an import are all there are.
LEMMA CalleeIsTarget ==
  ASSUME NEW i \in InstanceType, Plain(i), NEW e \in EdgeSet(i),
         NEW n \in 1 .. Len(Imports[Pkgs(i)[e.from].pkg]),
         Imports[Pkgs(i)[e.from].pkg][n] = e.oracle
  PROVE  Callee(i, e.from, e.oracle) = e.to
<1>1. e.from \in 1 .. Len(Pkgs(i))
  BY EdgeIsImport
<1>2. PICK d \in EdgeSet(i) :
        d.from = e.from /\ d.oracle = e.oracle /\ d.to = Callee(i, e.from, e.oracle)
  BY <1>1, CalleeIsEdge
<1> QED
  BY <1>2 DEF Plain

\* A comparison that succeeds closes its pair.
LEMMA CompareCloses ==
  ASSUME TypeInv, WalkInv, Compare, ~Stop("overflow"), ~Stop("error")
  PROVE  WalkInv'
<1> SUFFICES ASSUME Plain(Left), Plain(Right)
             PROVE  /\ Exported(Left, Right, export - 1, compared' \cup Pending')
                    /\ Leads(reduction.left, reduction.right, compared', compared' \cup Pending')
  <2>1. UNCHANGED <<reduction, export>>
    BY CompareTypes DEF TypeInv
  <2> QED
    BY <2>1 DEF WalkInv, Left, Right
<1> DEFINE l == reduction.left
           r == reduction.right
           p == <<Call.left, Call.right>>
           T == compared' \cup Pending'
<1>1. /\ p \in Pending /\ compared' = compared \cup {p} /\ Pending \subseteq T
      /\ BothMapped \/ Agree
      /\ reduction # NoReduction
      /\ ~BothMapped =>
           \A i \in 1 .. Len(ImportedBy(Call.left)) :
             <<Callee(Left, Call.left, ImportedBy(Call.left)[i]),
               Callee(Right, Call.right, ImportedBy(Call.left)[i])>> \in Pending'
  BY CompareTypes DEF TypeInv, Compare, Comparing
<1>2. Left \in InstanceType /\ Right \in InstanceType
  BY <1>1, ComparedSides DEF TypeInv
<1>3. compared \cup Pending \subseteq T
  BY <1>1
<1>4. Exported(Left, Right, export - 1, T)
  BY <1>1, <1>3 DEF WalkInv, Exported
<1>5. Leads(l, r, compared, T)
  <2>1. Leads(l, r, compared, compared \cup Pending)
    BY <1>1 DEF WalkInv
  <2> HIDE DEF l, r, T
  <2> QED
    BY <1>3, <2>1, LeadsMore
<1>6. Mapped(l, Call.left) <=> Mapped(r, Call.right)
  BY <1>1 DEF BothMapped, Agree
<1>7. ASSUME ~Mapped(l, Call.left)
      PROVE  /\ Same(Left, Call.left, Right, Call.right)
             /\ \A e \in EdgeSet(Left), f \in EdgeSet(Right) :
                  e.from = Call.left /\ f.from = Call.right /\ e.oracle = f.oracle => <<e.to, f.to>> \in T
  <2>1. ~BothMapped /\ Same(Left, Call.left, Right, Call.right)
    BY <1>1, <1>7 DEF BothMapped, Agree
  <2>2. Pkgs(Left)[Call.left].pkg = Pkgs(Right)[Call.right].pkg
    BY <2>1 DEF Same
  <2>3. ASSUME NEW e \in EdgeSet(Left), NEW f \in EdgeSet(Right),
               e.from = Call.left, f.from = Call.right, e.oracle = f.oracle
        PROVE  <<e.to, f.to>> \in T
    <3>1. PICK n \in 1 .. Len(Imports[Pkgs(Left)[e.from].pkg]) :
            Imports[Pkgs(Left)[e.from].pkg][n] = e.oracle
      BY <1>2, EdgeIsImport
    <3>2. n \in 1 .. Len(ImportedBy(Call.left)) /\ ImportedBy(Call.left)[n] = e.oracle
      BY <2>3, <3>1 DEF ImportedBy
    <3>3. Callee(Left, Call.left, e.oracle) = e.to
      BY <1>2, <2>3, <3>1, CalleeIsTarget
    <3>4. n \in 1 .. Len(Imports[Pkgs(Right)[f.from].pkg])
          /\ Imports[Pkgs(Right)[f.from].pkg][n] = f.oracle
      BY <2>2, <2>3, <3>1
    <3>5. Callee(Right, Call.right, e.oracle) = f.to
      BY <1>2, <2>3, <3>4, CalleeIsTarget
    <3> QED
      BY <1>1, <2>1, <3>2, <3>3, <3>5
  <2> QED
    BY <2>1, <2>3
<1>8. p[1] = Call.left /\ p[2] = Call.right
  OBVIOUS
<1>9. l.construction = Left /\ r.construction = Right
  BY DEF Left, Right
<1> HIDE DEF T, p, l, r
<1>10. Leads(l, r, {p}, T)
  BY <1>6, <1>7, <1>8, <1>9 DEF Leads
<1>11. Leads(l, r, compared', T)
  BY <1>1, <1>5, <1>10 DEF Leads
<1> QED
  BY <1>4, <1>11 DEF T, l, r

LEMMA WalkStep ==
  ASSUME TypeInv, WalkInv, [Next]_vars
  PROVE  WalkInv'
<1>1. CASE UNCHANGED <<hops, reduction, export, todo, compared>>
  BY <1>1 DEF WalkInv, Left, Right, Pending
<1>2. CASE ReadOtherHop /\ ~Stop("error")
  BY <1>2 DEF WalkInv, ReadOtherHop, Reads, Reading, walkVars
<1>3. CASE BeginReduction /\ ~Stop("error") /\ ~Stop("panic")
  <2>1. export' = 1 /\ todo' = <<>> /\ compared' = {}
    BY <1>3, BeginTypes DEF TypeInv
  <2> QED
    BY <2>1 DEF WalkInv, Exported, Leads
<1>4. CASE NextExport /\ ~Stop("panic")
  <2>1. reduction # NoReduction /\ todo = <<>>
    BY <1>4 DEF NextExport, Comparing
  <2>2. PICK y \in ExportSet(Right) :
          /\ UNCHANGED <<reduction, compared>> /\ export' = export + 1 /\ Len(todo') = 1
          /\ y.oracle = Exports(Left)[export].oracle
          /\ todo'[1].left = Exports(Left)[export].to /\ todo'[1].right = y.to
    BY <1>4, NextExportTypes DEF TypeInv
  <2> SUFFICES ASSUME Plain(Left), Plain(Right)
               PROVE  /\ Exported(Left, Right, export' - 1, compared' \cup Pending')
                      /\ Leads(reduction.left, reduction.right, compared', compared' \cup Pending')
    BY <2>2 DEF WalkInv, Left, Right
  <2>3. export \in Nat /\ export' - 1 = export
    BY <2>1, <2>2, ComparedSides DEF TypeInv
  <2>4. Pending = {} /\ <<Exports(Left)[export].to, y.to>> \in Pending'
    <3>1. Len(todo) = 0
      BY <2>1
    <3>2. 1 \in 1 .. Len(todo')
      BY <2>2
    <3> QED
      BY <2>2, <3>1, <3>2 DEF Pending
  <2>5. /\ Exported(Left, Right, export - 1, compared)
        /\ Leads(reduction.left, reduction.right, compared, compared)
    BY <2>1, <2>4 DEF WalkInv
  <2>6. Leads(reduction.left, reduction.right, compared', compared' \cup Pending')
    BY <2>2, <2>5, LeadsMore
  <2>7. ASSUME NEW k \in 1 .. export
        PROVE  \E z \in ExportSet(Right) :
                 /\ Exports(Left)[k].oracle = z.oracle
                 /\ <<Exports(Left)[k].to, z.to>> \in compared' \cup Pending'
    <3>1. CASE k = export
      BY <2>2, <2>4, <3>1
    <3>2. CASE k # export
      <4>1. k \in 1 .. export - 1
        BY <2>3, <3>2
      <4> QED
        BY <2>2, <2>5, <4>1 DEF Exported
    <3> QED
      BY <3>1, <3>2
  <2> QED
    BY <2>3, <2>6, <2>7 DEF Exported
<1>5. CASE Compare /\ ~Stop("overflow") /\ ~Stop("error")
  BY <1>5, CompareCloses
<1>6. CASE FinishReduction /\ ~Stop("panic")
  BY <1>6 DEF FinishReduction, WalkInv
<1> QED
  BY <1>1, <1>2, <1>3, <1>4, <1>5, <1>6, StepCases

-----------------------------------------------------------------------------
(* Games in which nothing is shared. *)

\* p comes from one of the first n exports, or from the calls of a pair of C.
Origin(l, r, n, C, p) ==
  \/ \E a \in 1 .. n, y \in ExportSet(r) :
       Exports(l)[a].oracle = y.oracle /\ p = <<Exports(l)[a].to, y.to>>
  \/ \E q \in C, e \in EdgeSet(l), f \in EdgeSet(r) :
       e.from = q[1] /\ f.from = q[2] /\ e.oracle = f.oracle /\ p = <<e.to, f.to>>
\* In trees, an instance that was reached was reached in one way.
TreeInv ==
  reduction # NoReduction /\ Plain(Left) /\ Plain(Right) /\ Tree(Left) /\ Tree(Right) =>
    /\ \A p \in compared \cup Pending : Origin(Left, Right, export - 1, compared, p)
    /\ OneToOne(compared \cup Pending)

\* Two pairs with an origin have both instances in common or neither.
LEMMA OriginsPairOff ==
  ASSUME NEW l \in InstanceType, NEW r \in InstanceType, Plain(l), Plain(r), Tree(l), Tree(r),
         NEW n \in Nat, n <= Len(Exports(l)), NEW C, OneToOne(C),
         NEW p, Origin(l, r, n, C, p), NEW q, Origin(l, r, n, C, q)
  PROVE  p[1] = q[1] <=> p[2] = q[2]
<1>1. \A x, y \in ExportSet(r) : x.oracle = y.oracle \/ x.to = y.to => x = y
  BY DEF Tree, ExportSet
<1>2. Len(Exports(l)) \in Nat /\ \A a \in 1 .. n : a \in 1 .. Len(Exports(l)) /\ Exports(l)[a] \in ExportSet(l)
  <2>1. Len(Exports(l)) \in Nat
    BY InstanceLists
  <2> QED
    BY <2>1 DEF ExportSet
<1> DEFINE ByExport(s, a, y) ==
             Exports(l)[a].oracle = y.oracle /\ s[1] = Exports(l)[a].to /\ s[2] = y.to
           ByCall(s, c, e, f) ==
             /\ e.from = c[1] /\ f.from = c[2] /\ e.oracle = f.oracle
             /\ s[1] = e.to /\ s[2] = f.to
<1>3. ASSUME NEW s, Origin(l, r, n, C, s)
      PROVE  \/ \E a \in 1 .. n, y \in ExportSet(r) : ByExport(s, a, y)
             \/ \E c \in C, e \in EdgeSet(l), f \in EdgeSet(r) : ByCall(s, c, e, f)
  BY <1>3 DEF Origin
<1>4. CASE (\E a \in 1 .. n, y \in ExportSet(r) : ByExport(p, a, y))
           /\ (\E a \in 1 .. n, y \in ExportSet(r) : ByExport(q, a, y))
  <2>1. PICK a \in 1 .. n, y \in ExportSet(r), b \in 1 .. n, z \in ExportSet(r) :
          ByExport(p, a, y) /\ ByExport(q, b, z)
    BY <1>4
  <2>2. Exports(l)[a].to = Exports(l)[b].to \/ Exports(l)[a].oracle = Exports(l)[b].oracle => a = b
    BY <1>2 DEF Tree
  <2> QED
    BY <1>1, <2>1, <2>2
<1>5. CASE (\E c \in C, e \in EdgeSet(l), f \in EdgeSet(r) : ByCall(p, c, e, f))
           /\ (\E c \in C, e \in EdgeSet(l), f \in EdgeSet(r) : ByCall(q, c, e, f))
  <2>1. PICK c \in C, e \in EdgeSet(l), f \in EdgeSet(r) : ByCall(p, c, e, f)
    BY <1>5
  <2>2. PICK d \in C, g \in EdgeSet(l), h \in EdgeSet(r) : ByCall(q, d, g, h)
    BY <1>5
  <2>3. c[1] = d[1] <=> c[2] = d[2]
    BY DEF OneToOne
  <2>4. e.to = g.to => e = g
    BY DEF Tree
  <2>5. f.to = h.to => f = h
    BY DEF Tree
  <2>6. e = g => f = h
    BY <2>1, <2>2, <2>3 DEF Plain
  <2>7. f = h => e = g
    BY <2>1, <2>2, <2>3 DEF Plain
  <2> QED
    BY <2>1, <2>2, <2>4, <2>5, <2>6, <2>7
<1>6. ASSUME NEW s, NEW t, \E a \in 1 .. n, y \in ExportSet(r) : ByExport(s, a, y),
             \E c \in C, e \in EdgeSet(l), f \in EdgeSet(r) : ByCall(t, c, e, f)
      PROVE  s[1] # t[1] /\ s[2] # t[2]
  BY <1>2, <1>6 DEF Tree
<1> HIDE DEF ByExport, ByCall
<1> QED
  BY <1>3, <1>4, <1>5, <1>6

\* An origin stays one.
LEMMA OriginStays ==
  ASSUME NEW l, NEW r, NEW n \in Nat, NEW m \in Nat, n <= m, NEW C, NEW D, C \subseteq D,
         NEW p, Origin(l, r, n, C, p)
  PROVE  Origin(l, r, m, D, p)
<1>1. 1 .. n \subseteq 1 .. m
  OBVIOUS
<1> QED
  BY <1>1 DEF Origin

\* A new call originates in the pair compared.
LEMMA CallOrigin ==
  ASSUME TypeInv, Compare, ~Stop("overflow"), ~Stop("error"), ~BothMapped,
         NEW c, NEW j \in 1 .. Len(ImportedBy(Call.left)), CallFor(c, j), NEW n, NEW C,
         <<Call.left, Call.right>> \in C
  PROVE  Origin(Left, Right, n, C, <<c.left, c.right>>)
<1> DEFINE k == Call.left
           h == Call.right
           o == ImportedBy(Call.left)[j]
<1>1. reduction # NoReduction /\ todo # <<>>
  BY DEF Compare, Comparing
<1>2. Left \in InstanceType /\ Right \in InstanceType
  BY <1>1, ComparedSides DEF TypeInv
<1>3. k \in 1 .. Len(Pkgs(Left)) /\ h \in 1 .. Len(Pkgs(Right))
  <2>1. todo \in Seq(CallType(reduction.left, reduction.right)) /\ Len(todo) \in Nat
    BY <1>1, ComparedSides DEF TypeInv
  <2>2. 1 \in 1 .. Len(todo)
    BY <1>1, <2>1
  <2> QED
    BY <1>1, <2>2, ComparedSides DEF TypeInv, Call
<1>4. Pkgs(Left)[k].pkg = Pkgs(Right)[h].pkg
  BY CompareTypes DEF TypeInv, Agree, Same
<1>5. j \in 1 .. Len(Imports[Pkgs(Left)[k].pkg]) /\ o = Imports[Pkgs(Left)[k].pkg][j]
  BY DEF ImportedBy
<1>6. j \in 1 .. Len(Imports[Pkgs(Right)[h].pkg]) /\ o = Imports[Pkgs(Right)[h].pkg][j]
  BY <1>4, <1>5
<1>7. c.left = Callee(Left, k, o) /\ c.right = Callee(Right, h, o)
  BY DEF CallFor
<1>8. <<k, h>> \in C
  OBVIOUS
<1> HIDE DEF k, h, o
<1>9. PICK e \in EdgeSet(Left) : e.from = k /\ e.oracle = o /\ e.to = Callee(Left, k, o)
  BY <1>2, <1>3, <1>5, CalleeIsEdge
<1>10. PICK f \in EdgeSet(Right) : f.from = h /\ f.oracle = o /\ f.to = Callee(Right, h, o)
  BY <1>2, <1>3, <1>6, CalleeIsEdge
<1> DEFINE q == <<k, h>>
<1>11. q \in C /\ e.from = q[1] /\ f.from = q[2] /\ e.oracle = f.oracle
       /\ <<c.left, c.right>> = <<e.to, f.to>>
  BY <1>7, <1>8, <1>9, <1>10
<1> HIDE DEF q
<1> QED
  BY <1>11 DEF Origin

LEMMA TreeStep ==
  ASSUME TypeInv, TreeInv, [Next]_vars
  PROVE  TreeInv'
<1>1. CASE UNCHANGED <<hops, reduction, export, todo, compared>>
  BY <1>1 DEF TreeInv, Left, Right, Pending
<1>2. CASE ReadOtherHop /\ ~Stop("error")
  BY <1>2 DEF TreeInv, ReadOtherHop, Reads, Reading, walkVars
<1>3. CASE BeginReduction /\ ~Stop("error") /\ ~Stop("panic")
  <2>1. todo' = <<>> /\ compared' = {}
    BY <1>3, BeginTypes DEF TypeInv
  <2>2. compared' \cup Pending' = {}
    BY <2>1 DEF Pending
  <2> QED
    BY <2>2 DEF TreeInv, OneToOne
<1>4. CASE (NextExport /\ ~Stop("panic")) \/ (Compare /\ ~Stop("overflow") /\ ~Stop("error"))
  <2>1. reduction # NoReduction /\ UNCHANGED <<reduction, Left, Right>>
    BY <1>4, NextExportTypes, CompareTypes DEF TypeInv, NextExport, Compare, Comparing, Left, Right
  <2> SUFFICES ASSUME Plain(Left), Plain(Right), Tree(Left), Tree(Right)
               PROVE  /\ \A p \in compared' \cup Pending' : Origin(Left, Right, export' - 1, compared', p)
                      /\ OneToOne(compared' \cup Pending')
    BY <2>1 DEF TreeInv
  <2>2. /\ \A p \in compared \cup Pending : Origin(Left, Right, export - 1, compared, p)
        /\ OneToOne(compared \cup Pending)
    BY <2>1 DEF TreeInv
  <2>3. /\ Left \in InstanceType /\ Right \in InstanceType /\ Len(Exports(Left)) \in Nat
        /\ export \in 1 .. Len(Exports(Left)) + 1
    BY <2>1, ComparedSides DEF TypeInv
  <2>4. /\ export' \in 1 .. Len(Exports(Left)) + 1 /\ export <= export'
        /\ compared \subseteq compared' /\ compared' \subseteq compared \cup Pending
        /\ \A p \in Pending' : p \in Pending \/ Origin(Left, Right, export' - 1, compared', p)
    <3>1. CASE NextExport /\ ~Stop("panic")
      <4>1. PICK y \in ExportSet(Right) :
              /\ UNCHANGED compared /\ export' = export + 1 /\ Len(todo') = 1
              /\ y.oracle = Exports(Left)[export].oracle
              /\ todo'[1].left = Exports(Left)[export].to /\ todo'[1].right = y.to
        BY <3>1, NextExportTypes DEF TypeInv
      <4>2. export <= Len(Exports(Left))
        BY <3>1 DEF NextExport
      <4>3. \A p \in Pending' : p = <<Exports(Left)[export].to, y.to>>
        BY <4>1 DEF Pending
      <4>4. export \in 1 .. export' - 1
        BY <2>3, <4>1
      <4> QED
        BY <2>3, <4>1, <4>2, <4>3, <4>4 DEF Origin
    <3>2. CASE Compare /\ ~Stop("overflow") /\ ~Stop("error")
      <4>1. /\ UNCHANGED export /\ <<Call.left, Call.right>> \in Pending
            /\ compared' = compared \cup {<<Call.left, Call.right>>}
            /\ \A i \in 1 .. Len(todo') :
                 \/ \E j \in 1 .. Len(todo) : todo'[i] = todo[j]
                 \/ ~BothMapped /\ \E j \in 1 .. Len(ImportedBy(Call.left)) : CallFor(todo'[i], j)
        BY <3>2, CompareTypes DEF TypeInv
      <4>2. <<Call.left, Call.right>> \in compared'
        BY <4>1
      <4>3. ASSUME NEW i \in 1 .. Len(todo')
            PROVE  \/ <<todo'[i].left, todo'[i].right>> \in Pending
                   \/ Origin(Left, Right, export' - 1, compared', <<todo'[i].left, todo'[i].right>>)
        <5>1. CASE \E j \in 1 .. Len(todo) : todo'[i] = todo[j]
          BY <5>1 DEF Pending
        <5>2. CASE ~BothMapped /\ \E j \in 1 .. Len(ImportedBy(Call.left)) : CallFor(todo'[i], j)
          BY <3>2, <4>2, <5>2, CallOrigin
        <5> QED
          BY <4>1, <5>1, <5>2
      <4>4. \A p \in Pending' : p \in Pending \/ Origin(Left, Right, export' - 1, compared', p)
        BY <4>3 DEF Pending
      <4>5. compared \subseteq compared' /\ compared' \subseteq compared \cup Pending
        BY <4>1
      <4>6. export' \in 1 .. Len(Exports(Left)) + 1 /\ export <= export'
        BY <2>3, <4>1
      <4> QED
        BY <4>4, <4>5, <4>6
    <3> QED
      BY <1>4, <3>1, <3>2, Zenon
  <2>5. export - 1 \in Nat /\ export' - 1 \in Nat /\ export - 1 <= export' - 1
        /\ export' - 1 <= Len(Exports(Left))
    <3> DEFINE N == Len(Exports(Left))
    <3>1. export \in 1 .. N + 1 /\ export' \in 1 .. N + 1 /\ export <= export' /\ N \in Nat
      BY <2>3, <2>4
    <3> HIDE DEF N
    <3>2. \A a, b \in 1 .. N + 1 : a <= b => a - 1 \in Nat /\ b - 1 \in Nat /\ a - 1 <= b - 1 /\ b - 1 <= N
      BY <3>1
    <3> QED
      BY <3>1, <3>2 DEF N
  <2>6. ASSUME NEW p \in compared' \cup Pending'
        PROVE  Origin(Left, Right, export' - 1, compared', p)
    BY <2>2, <2>4, <2>5, OriginStays
  <2>7. OneToOne(compared')
    BY <2>2, <2>4 DEF OneToOne
  <2>8. \A p, q \in compared' \cup Pending' : p[1] = q[1] <=> p[2] = q[2]
    BY <2>3, <2>5, <2>6, <2>7, OriginsPairOff
  <2> QED
    BY <2>6, <2>8 DEF OneToOne
<1>5. CASE FinishReduction /\ ~Stop("panic")
  BY <1>5 DEF FinishReduction, TreeInv
<1> QED
  BY <1>1, <1>2, <1>3, <1>4, <1>5, StepCases

-----------------------------------------------------------------------------
(* What a comparison leaves behind. *)

\* The hops' games agree around the assumption.
PartsAgree(l, r, S) ==
  Plain(l.construction) /\ Plain(r.construction)
    => /\ IsSimulation(l, r, S)
       /\ Tree(l.construction) /\ Tree(r.construction) => OneToOne(S)
HopInv ==
  \A i \in 1 .. Len(hops) : hops[i].kind = "reduction" =>
    /\ hops[i].left.assumption.name # hops[i].right.assumption.name
    /\ PartsAgree(hops[i].left, hops[i].right, hops[i].compared)

\* When nothing is left to compare, what was compared is a simulation.
LEMMA FinishedIsSimulation ==
  ASSUME TypeInv, WalkInv, TreeInv, reduction # NoReduction, todo = <<>>,
         export > Len(Exports(Left)), Plain(Left), Plain(Right)
  PROVE  /\ IsSimulation(reduction.left, reduction.right, compared)
         /\ Tree(Left) /\ Tree(Right) => OneToOne(compared)
<1>1. Pending = {}
  <2>1. Len(todo) = 0
    OBVIOUS
  <2> QED
    BY <2>1 DEF Pending
<1>2. export - 1 = Len(Exports(Left)) /\ Left = reduction.left.construction
      /\ Right = reduction.right.construction
  BY ComparedSides DEF TypeInv
<1>3. /\ Exported(Left, Right, Len(Exports(Left)), compared)
      /\ Leads(reduction.left, reduction.right, compared, compared)
  BY <1>1, <1>2 DEF WalkInv
<1>4. \A x \in ExportSet(Left) : \E y \in ExportSet(Right) :
        x.oracle = y.oracle /\ <<x.to, y.to>> \in compared
  <2> SUFFICES ASSUME NEW k \in 1 .. Len(Exports(Left))
               PROVE  \E y \in ExportSet(Right) :
                        Exports(Left)[k].oracle = y.oracle /\ <<Exports(Left)[k].to, y.to>> \in compared
    BY DEF ExportSet
  <2> QED
    BY <1>3 DEF Exported
<1>5. Tree(Left) /\ Tree(Right) => OneToOne(compared)
  BY <1>1 DEF TreeInv
<1> QED
  BY <1>2, <1>3, <1>4, <1>5 DEF IsSimulation, Leads

LEMMA HopStep ==
  ASSUME TypeInv, WalkInv, TreeInv, HopInv, [Next]_vars
  PROVE  HopInv'
<1>1. CASE UNCHANGED hops
  BY <1>1 DEF HopInv
<1>2. CASE ReadOtherHop /\ ~Stop("error")
  <2> DEFINE h == [kind |-> Item.kind, left |-> Item.left, right |-> Item.right]
  <2>1. /\ pos <= Items /\ Item.kind \in {"conjecture", "equivalence"}
        /\ hops' = Append(hops, h)
    BY <1>2 DEF ReadOtherHop, Reads, Reading
  <2>2. h \in HopType /\ h.kind # "reduction"
    BY <2>1, ItemShape DEF HopType, TypeInv
  <2> HIDE DEF h
  <2>3. /\ Len(hops) \in Nat /\ Len(hops') = Len(hops) + 1 /\ hops'[Len(hops) + 1] = h
        /\ \A i \in 1 .. Len(hops') : i # Len(hops) + 1 => i \in 1 .. Len(hops) /\ hops'[i] = hops[i]
    BY <2>1, <2>2, HopsAppended DEF TypeInv
  <2> QED
    BY <2>2, <2>3 DEF HopInv
<1>3. CASE \/ BeginReduction /\ ~Stop("error") /\ ~Stop("panic")
           \/ NextExport /\ ~Stop("panic")
           \/ Compare /\ ~Stop("overflow") /\ ~Stop("error")
  <2>1. UNCHANGED hops
    BY <1>3, BeginTypes, NextExportTypes, CompareTypes DEF TypeInv
  <2> QED
    BY <2>1 DEF HopInv
<1>4. CASE FinishReduction /\ ~Stop("panic")
  <2> DEFINE h == [kind |-> "reduction", left |-> reduction.left, right |-> reduction.right,
                   assumption |-> reduction.assumption, compared |-> compared]
  <2>1. pos <= Items
    BY <1>4 DEF FinishReduction, Comparing, ItemInv, TypeInv
  <2>2. /\ h \in HopType /\ hops' = Append(hops, h)
        /\ reduction # NoReduction /\ todo = <<>> /\ export > Len(Exports(Left))
        /\ h.left.assumption.name # h.right.assumption.name
    BY <1>4, <2>1, FinishTypes DEF TypeInv
  <2>3. PartsAgree(h.left, h.right, h.compared)
    BY <2>2, FinishedIsSimulation DEF Left, Right, PartsAgree
  <2> HIDE DEF h
  <2>4. /\ Len(hops) \in Nat /\ Len(hops') = Len(hops) + 1 /\ hops'[Len(hops) + 1] = h
        /\ \A i \in 1 .. Len(hops') : i # Len(hops) + 1 => i \in 1 .. Len(hops) /\ hops'[i] = hops[i]
    BY <2>2, HopsAppended DEF TypeInv
  <2> QED
    BY <2>2, <2>3, <2>4 DEF HopInv
<1> QED
  BY <1>1, <1>2, <1>3, <1>4, StepCases

\* An accepted reduction between plain games leads from one side of the assumption
\* to the other, and the parts around them simulate one another; where nothing is
\* shared, an instance stands for one only (handle_reduction_body, compare_reduction).
THEOREM AcceptedReductionsSimulate == Spec => []ReductionPartsAgree
<1>1. Init => WalkInv /\ TreeInv /\ HopInv
  BY DEF Init, WalkInv, TreeInv, HopInv
<1>2. HopInv => ReductionPartsAgree
  <2> SUFFICES ASSUME HopInv, NEW i \in 1 .. Len(hops), hops[i].kind = "reduction"
               PROVE  /\ hops[i].left.assumption.name # hops[i].right.assumption.name
                      /\ PartsAgree(hops[i].left, hops[i].right, hops[i].compared)
    BY DEF ReductionPartsAgree, Reductions, PartsAgree
  <2> QED
    BY DEF HopInv
<1> QED
  BY <1>1, <1>2, WalkStep, TreeStep, HopStep, TypeInvariant, PTL DEF Spec

-----------------------------------------------------------------------------
(* Reductions that are one. *)

\* The instances that an entry names, where there are such.
LEMMA EntryNames ==
  ASSUME NEW m \in SideType, Plain(m.assumption), Plain(m.construction), EntriesFit(m),
         NEW n \in 1 .. Len(m.entries)
  PROVE  LET a == Offset(m.assumption, m.entries[n][1])
             c == Offset(m.construction, m.entries[n][2])
         IN  /\ <<c, a>> \in Pairs(m)
             /\ a \in 1 .. Len(Pkgs(m.assumption)) /\ c \in 1 .. Len(Pkgs(m.construction))
             /\ Pkgs(m.assumption)[a].name = m.entries[n][1]
             /\ Pkgs(m.construction)[c].name = m.entries[n][2]
<1>1. m.assumption \in InstanceType /\ m.construction \in InstanceType
  BY DEF SideType
<1>2. Offsets(m.assumption, m.entries[n][1]) # {} /\ Offsets(m.construction, m.entries[n][2]) # {}
  BY DEF EntriesFit
<1>3. <<Offset(m.construction, m.entries[n][2]), Offset(m.assumption, m.entries[n][1])>> \in Pairs(m)
  BY DEF Pairs
<1> QED
  BY <1>1, <1>2, <1>3, OffsetOfName

\* What the comparison takes for mapped is what the checks of the mapping do.
LEMMA MappedIsCovered ==
  ASSUME NEW m \in SideType, Plain(m.assumption), Plain(m.construction), EntriesFit(m),
         NEW k \in 1 .. Len(Pkgs(m.construction))
  PROVE  Mapped(m, k) <=> Covered(m, k)
<1>1. ASSUME Mapped(m, k)
      PROVE  Covered(m, k)
  <2>1. PICK n \in 1 .. Len(m.entries) : m.entries[n][2] = Pkgs(m.construction)[k].name
    BY <1>1 DEF Mapped
  <2> DEFINE a == Offset(m.assumption, m.entries[n][1])
             c == Offset(m.construction, m.entries[n][2])
  <2>2. <<c, a>> \in Pairs(m) /\ c \in 1 .. Len(Pkgs(m.construction))
        /\ Pkgs(m.construction)[c].name = m.entries[n][2]
    BY EntryNames
  <2>3. c = k
    BY <2>1, <2>2 DEF Plain
  <2> HIDE DEF a, c
  <2> QED
    BY <2>2, <2>3 DEF Covered
<1>2. ASSUME Covered(m, k)
      PROVE  Mapped(m, k)
  <2>1. PICK p \in Pairs(m) : p[1] = k
    BY <1>2 DEF Covered
  <2>2. PICK n \in 1 .. Len(m.entries) : p[1] = Offset(m.construction, m.entries[n][2])
    BY PairIsEntry
  <2>3. Pkgs(m.construction)[k].name = m.entries[n][2]
    BY <2>1, <2>2, EntryNames
  <2> QED
    BY <2>3 DEF Mapped
<1> QED
  BY <1>1, <1>2

\* The calls of a copy are all calls of its original.
LEMMA CopyCallsAll ==
  ASSUME NEW m \in SideType, Plain(m.assumption), Plain(m.construction), EntriesFit(m), IsCopy(m),
         NEW p \in Pairs(m), NEW f \in EdgeSet(m.assumption), f.from = p[2]
  PROVE  \E q \in Pairs(m) : q[2] = f.to /\
           \E e \in EdgeSet(m.construction) : e.from = p[1] /\ e.to = q[1]
<1> DEFINE c == m.construction
<1>1. m.assumption \in InstanceType /\ c \in InstanceType
  BY DEF SideType
<1>2. p[1] \in 1 .. Len(Pkgs(c))
  <2>1. PICK n \in 1 .. Len(m.entries) : p[1] = Offset(c, m.entries[n][2])
    BY PairIsEntry
  <2> QED
    BY <2>1, EntryNames
<1>3. Pkgs(m.assumption)[f.from].pkg = Pkgs(c)[p[1]].pkg
  BY DEF IsCopy, Same
<1>4. PICK n \in 1 .. Len(Imports[Pkgs(c)[p[1]].pkg]) : Imports[Pkgs(c)[p[1]].pkg][n] = f.oracle
  BY <1>1, <1>3, EdgeIsImport
<1>5. PICK e \in EdgeSet(c) : e.from = p[1] /\ e.oracle = f.oracle
  <2> HIDE DEF c
  <2>1. \E e \in EdgeSet(c) : e.from = p[1] /\ e.oracle = Imports[Pkgs(c)[p[1]].pkg][n]
    BY <1>1, <1>2, CalleeIsEdge
  <2> QED
    BY <1>4, <2>1
<1>6. PICK g \in EdgeSet(m.assumption) :
        g.from = p[2] /\ g.oracle = e.oracle /\ <<e.to, g.to>> \in Pairs(m)
  BY <1>5 DEF IsCopy
<1>7. g = f
  BY <1>5, <1>6 DEF Plain
<1> DEFINE q == <<e.to, g.to>>
<1>8. q \in Pairs(m) /\ q[1] = e.to /\ q[2] = f.to
  BY <1>6, <1>7
<1> HIDE DEF q
<1> QED
  BY <1>5, <1>8

\* A mapping of a copy that is entered by the assumption's exports is accepted.
LEMMA CopyIsAccepted ==
  ASSUME NEW m \in SideType, Plain(m.assumption), Plain(m.construction), EntriesFit(m),
         IsCopy(m), CallsThroughExports(m)
  PROVE  MapAccepted(m)
<1>1. ASSUME NEW n \in 1 .. Len(m.entries)
      PROVE  EntryOk(m, n)
  <2>1. /\ Offsets(m.assumption, m.entries[n][1]) # {}
        /\ Offsets(m.construction, m.entries[n][2]) # {}
        /\ \A j \in 1 .. Len(m.entries) :
             m.entries[n][1] = m.entries[j][1] \/ m.entries[n][2] = m.entries[j][2] => n = j
    BY DEF EntriesFit
  <2>2. n \in Nat /\ Len(m.entries) \in Nat
    BY DEF SideType
  <2>3. \A j \in 1 .. n - 1 : m.entries[j][1] # m.entries[n][1] /\ m.entries[j][2] # m.entries[n][2]
    <3> SUFFICES ASSUME NEW j \in 1 .. n - 1
                 PROVE  m.entries[j][1] # m.entries[n][1] /\ m.entries[j][2] # m.entries[n][2]
      OBVIOUS
    <3>1. j \in 1 .. Len(m.entries) /\ n # j
      BY <2>2
    <3> QED
      BY <2>1, <3>1
  <2> DEFINE p == <<Offset(m.construction, m.entries[n][2]), Offset(m.assumption, m.entries[n][1])>>
  <2>4. Same(m.assumption, p[2], m.construction, p[1])
    <3>1. p \in Pairs(m)
      BY EntryNames
    <3> HIDE DEF p
    <3> QED
      BY <3>1 DEF IsCopy
  <2>5. p[1] = Offset(m.construction, m.entries[n][2]) /\ p[2] = Offset(m.assumption, m.entries[n][1])
    OBVIOUS
  <2> HIDE DEF p
  <2> QED
    BY <2>1, <2>3, <2>4, <2>5 DEF EntryOk
<1>2. AllMapped(m)
  <2> SUFFICES ASSUME NEW k \in 1 .. Len(Pkgs(m.assumption))
               PROVE  \E i \in 1 .. Len(m.entries) : m.entries[i][1] = Pkgs(m.assumption)[k].name
    BY DEF AllMapped
  <2>1. PICK p \in Pairs(m) : p[2] = k
    BY DEF IsCopy
  <2>2. PICK n \in 1 .. Len(m.entries) : p[2] = Offset(m.assumption, m.entries[n][1])
    BY PairIsEntry
  <2>3. Pkgs(m.assumption)[k].name = m.entries[n][1]
    BY <2>1, <2>2, EntryNames
  <2> QED
    BY <2>3
<1>3. CrossCutOk(m)
  BY DEF CrossCutOk, CallsThroughExports
<1>4. WiresOk(m)
  <2>1. ASSUME NEW p \in Pairs(m), NEW e \in EdgeSet(m.construction), e.from = p[1]
        PROVE  \E q \in Pairs(m) : q[1] = e.to /\
                 \E f \in EdgeSet(m.assumption) :
                   f.from = p[2] /\ f.to = q[2] /\ OracleType[f.oracle] = OracleType[e.oracle]
    <3>1. PICK f \in EdgeSet(m.assumption) :
            f.from = p[2] /\ f.oracle = e.oracle /\ <<e.to, f.to>> \in Pairs(m)
      BY <2>1 DEF IsCopy
    <3> DEFINE q == <<e.to, f.to>>
    <3>2. q \in Pairs(m) /\ q[1] = e.to /\ q[2] = f.to
      BY <3>1
    <3> HIDE DEF q
    <3> QED
      BY <3>1, <3>2
  <2> QED
    BY <2>1, CopyCallsAll DEF WiresOk
<1> QED
  BY <1>1, <1>2, <1>3, <1>4 DEF MapAccepted, MapRejected

\* l and r are sides of two games that f makes twins.
Reduces(l, r, f) ==
  /\ l \in SideType /\ r \in SideType
  /\ l.assumption.name # r.assumption.name /\ l.construction.name # r.construction.name
  /\ \A s \in {l, r} : /\ Plain(s.assumption) /\ Plain(s.construction) /\ EntriesFit(s)
                       /\ MapAccepted(s)
  /\ \A x, y \in ExportSet(r.construction) : x.oracle = y.oracle => x = y
  /\ f \in [Outside(l) -> Outside(r)] /\ Twins(l, r, f)
\* Two instances that have to be compared: twins, or both in the assumption.
Fits(l, r, f, i, j) == IF i \in DOMAIN f THEN j = f[i] ELSE Covered(r, j)

\* The assumption of a reduction that is one is the only one of its name.
LEMMA AssumptionOfReduction ==
  ASSUME FileInv, IsReduction(Item)
  PROVE  LET a == Assumption(Item.assumption) IN
         /\ AssumptionsNamed(Item.assumption) # {}
         /\ Known(a.left) /\ Known(a.right)
         /\ {Item.left, Item.right} \cap {a.left, a.right} = {}
         /\ {Item.map1.assumption, Item.map2.assumption} = {a.left, a.right} /\ a.left # a.right
<1> DEFINE S == AssumptionsNamed(Item.assumption)
           c == CHOOSE i \in S : \A k \in S : i <= k
<1>1. PICK a \in {assumptions[i] : i \in S} :
        /\ S = {i \in 1 .. Len(assumptions) : assumptions[i] = a}
        /\ {Item.left, Item.right} \cap {a.left, a.right} = {}
        /\ {Item.map1.assumption, Item.map2.assumption} = {a.left, a.right} /\ a.left # a.right
  BY DEF IsReduction
<1>2. S # {} /\ S \in SUBSET (1 .. Len(assumptions)) /\ Len(assumptions) \in Nat
  BY <1>1 DEF AssumptionsNamed, FileInv
<1> HIDE DEF S
<1>3. c \in S
  BY <1>2, Least
<1>4. Assumption(Item.assumption) = assumptions[c]
  BY DEF Assumption, c, S
<1> HIDE DEF c
<1>5. assumptions[c] = a /\ c \in 1 .. Len(assumptions)
  BY <1>1, <1>3
<1>6. Known(a.left) /\ Known(a.right)
  BY <1>5 DEF FileInv
<1> QED
  BY <1>1, <1>2, <1>4, <1>5, <1>6 DEF S

\* A reduction that is one passes the checks before the comparison.
LEMMA ReductionIsTaken ==
  ASSUME FileInv, pos <= Items, IsReduction(Item)
  PROVE  /\ AssumptionsNamed(Item.assumption) # {}
         /\ MapOutcome(Item.map1, Assumption(Item.assumption)) = "ok"
         /\ MapOutcome(Item.map2, Assumption(Item.assumption)) = "ok"
         /\ SidesOk
         /\ \E f : Reduces(Resolve(IF Swapped THEN Item.map2 ELSE Item.map1),
                           Resolve(IF Swapped THEN Item.map1 ELSE Item.map2), f)
<1> DEFINE one == Resolve(Item.map1)
           two == Resolve(Item.map2)
           a == Assumption(Item.assumption)
<1>1. /\ Item.map1 \in Mapping /\ Item.map2 \in Mapping /\ Item.left # Item.right
      /\ Known(Item.map1.construction) /\ Known(Item.map2.construction)
  BY ItemShape DEF IsReduction
<1>2. /\ Known(a.left) /\ Known(a.right) /\ AssumptionsNamed(Item.assumption) # {}
      /\ {Item.left, Item.right} \cap {a.left, a.right} = {}
      /\ {Item.map1.assumption, Item.map2.assumption} = {a.left, a.right} /\ a.left # a.right
  BY AssumptionOfReduction
<1>3. PICK m \in {one, two}, n \in {one, two} :
        /\ m.construction.name = Item.left /\ n.construction.name = Item.right
        /\ \A s \in {m, n} :
             /\ Plain(s.assumption) /\ Plain(s.construction)
             /\ EntriesFit(s)
             /\ IsCopy(s) /\ CallsThroughExports(s)
        /\ \A x, y \in ExportSet(n.construction) : x.oracle = y.oracle => x = y
        /\ \E f \in [Outside(m) -> Outside(n)] : Twins(m, n, f)
  BY DEF IsReduction
<1>4. /\ one.construction = table[Item.map1.construction]
      /\ two.construction = table[Item.map2.construction]
      /\ one.assumption = table[Item.map1.assumption]
      /\ two.assumption = table[Item.map2.assumption]
      /\ one.entries = Item.map1.entries /\ two.entries = Item.map2.entries
  BY DEF Resolve
<1> HIDE DEF a
<1>5. Known(Item.map1.assumption) /\ Known(Item.map2.assumption)
      /\ Item.map1.assumption # Item.map2.assumption
  BY <1>2
<1>6. /\ one.construction \in InstanceType /\ one.construction.name = Item.map1.construction
      /\ two.construction \in InstanceType /\ two.construction.name = Item.map2.construction
      /\ one.assumption \in InstanceType /\ one.assumption.name = Item.map1.assumption
      /\ two.assumption \in InstanceType /\ two.assumption.name = Item.map2.assumption
  BY <1>1, <1>4, <1>5, KnownInstance
<1>7. one \in SideType /\ two \in SideType
  <2>1. Item.map1.entries \in Seq(STRING \X STRING) /\ Item.map2.entries \in Seq(STRING \X STRING)
    BY <1>1 DEF Mapping
  <2> QED
    BY <1>4, <1>6, <2>1 DEF SideType, Resolve
<1> HIDE DEF one, two
<1>8. \/ m = one /\ n = two /\ Item.map1.construction = Item.left /\ Item.map2.construction = Item.right
      \/ m = two /\ n = one /\ Item.map1.construction = Item.right /\ Item.map2.construction = Item.left
  BY <1>1, <1>3, <1>6
<1>9. /\ SidesOk
      /\ m = Resolve(IF Swapped THEN Item.map2 ELSE Item.map1)
      /\ n = Resolve(IF Swapped THEN Item.map1 ELSE Item.map2)
  BY <1>1, <1>8 DEF SidesOk, Swapped, one, two
<1>10. MapAccepted(m) /\ MapAccepted(n)
  BY <1>3, <1>7, <1>8, CopyIsAccepted
<1>11. RolesOk(Item.map1, a) /\ RolesOk(Item.map2, a)
  BY <1>1, <1>2, <1>5, <1>8 DEF RolesOk
<1>12. MapOutcome(Item.map1, a) = "ok" /\ MapOutcome(Item.map2, a) = "ok"
  BY <1>8, <1>10, <1>11 DEF MapOutcome, MapAccepted, one, two
<1>13. PICK f \in [Outside(m) -> Outside(n)] : Twins(m, n, f)
  BY <1>3
<1>14. m.assumption.name # n.assumption.name /\ m.construction.name # n.construction.name
  BY <1>1, <1>3, <1>5, <1>6, <1>8
<1>15. Reduces(m, n, f)
  BY <1>3, <1>7, <1>8, <1>10, <1>13, <1>14 DEF Reduces
<1> QED
  BY <1>2, <1>9, <1>12, <1>15 DEF a

\* A reduction being compared that is one: all pairs to compare fit.  It was not
\* given up.
FitInv ==
  /\ reduction # NoReduction /\ IsReduction(Item) =>
       \E f : /\ Reduces(reduction.left, reduction.right, f)
              /\ \A i \in 1 .. Len(todo) :
                   Fits(reduction.left, reduction.right, f, todo[i].left, todo[i].right)
  /\ stop \in {"error", "panic"} /\ pos <= Items => ~IsReduction(Item)

\* The two games export alike.
LEMMA ExportsFit ==
  ASSUME NEW l, NEW r, NEW f, Reduces(l, r, f), NEW x \in ExportSet(l.construction)
  PROVE  /\ \E y \in ExportSet(r.construction) : y.oracle = x.oracle
         /\ \A y \in ExportSet(r.construction) : y.oracle = x.oracle => Fits(l, r, f, x.to, y.to)
<1>1. PICK y \in ExportSet(r.construction) :
        y.oracle = x.oracle /\ IF x.to \in DOMAIN f THEN y.to = f[x.to] ELSE Covered(r, y.to)
  BY DEF Reduces, Twins
<1>2. \A z \in ExportSet(r.construction) : z.oracle = x.oracle => z = y
  BY <1>1 DEF Reduces
<1> QED
  BY <1>1, <1>2 DEF Fits

\* Twins agree, and so do two instances of the assumption.
LEMMA FittingAgree ==
  ASSUME NEW l, NEW r, NEW f, Reduces(l, r, f),
         NEW i \in 1 .. Len(Pkgs(l.construction)), NEW j \in 1 .. Len(Pkgs(r.construction)),
         Fits(l, r, f, i, j)
  PROVE  /\ Mapped(l, i) <=> i \notin DOMAIN f
         /\ Mapped(r, j) <=> i \notin DOMAIN f
         /\ i \in DOMAIN f => j = f[i] /\ Same(l.construction, i, r.construction, j)
<1>1. /\ l \in SideType /\ Plain(l.assumption) /\ Plain(l.construction) /\ EntriesFit(l)
      /\ r \in SideType /\ Plain(r.assumption) /\ Plain(r.construction) /\ EntriesFit(r)
      /\ f \in [Outside(l) -> Outside(r)] /\ Twins(l, r, f)
  BY DEF Reduces
<1>2. (Mapped(l, i) <=> Covered(l, i)) /\ (Mapped(r, j) <=> Covered(r, j))
  BY <1>1, MappedIsCovered
<1>3. DOMAIN f = Outside(l) /\ (Covered(l, i) <=> i \notin Outside(l))
  BY <1>1 DEF Outside
<1>4. CASE i \in DOMAIN f
  <2>1. j = f[i] /\ f[i] \in Outside(r) /\ Same(l.construction, i, r.construction, f[i])
    BY <1>1, <1>4 DEF Fits, Twins
  <2>2. ~Covered(r, j)
    BY <2>1 DEF Outside
  <2> QED
    BY <1>2, <1>3, <1>4, <2>1, <2>2
<1>5. CASE i \notin DOMAIN f
  BY <1>2, <1>3, <1>5 DEF Fits
<1> QED
  BY <1>4, <1>5

\* The calls of twins fit.
LEMMA CalleesFit ==
  ASSUME NEW l, NEW r, NEW f, Reduces(l, r, f),
         NEW i \in DOMAIN f, NEW j \in 1 .. Len(Pkgs(r.construction)), j = f[i],
         NEW n \in 1 .. Len(Imports[Pkgs(l.construction)[i].pkg])
  PROVE  LET o == Imports[Pkgs(l.construction)[i].pkg][n]
         IN  Fits(l, r, f, Callee(l.construction, i, o), Callee(r.construction, j, o))
<1> DEFINE L == l.construction
           R == r.construction
           o == Imports[Pkgs(L)[i].pkg][n]
<1>1. /\ L \in InstanceType /\ R \in InstanceType /\ Plain(R)
      /\ i \in 1 .. Len(Pkgs(L)) /\ j \in 1 .. Len(Pkgs(R)) /\ Twins(l, r, f)
  BY DEF Reduces, SideType, Outside
<1>2. n \in 1 .. Len(Imports[Pkgs(L)[i].pkg])
  OBVIOUS
<1>3. Pkgs(L)[i].pkg = Pkgs(R)[j].pkg
  BY <1>1 DEF Twins, Same
<1> HIDE DEF L, R
<1>4. n \in 1 .. Len(Imports[Pkgs(R)[j].pkg]) /\ Imports[Pkgs(R)[j].pkg][n] = o
  BY <1>2, <1>3
<1>5. PICK e \in EdgeSet(L) : e.from = i /\ e.oracle = o /\ e.to = Callee(L, i, o)
  BY <1>1, <1>2, CalleeIsEdge
<1>6. PICK c \in EdgeSet(R) : c.from = j /\ c.oracle = o /\ c.to = Callee(R, j, o)
  <2> DEFINE u == Imports[Pkgs(R)[j].pkg][n]
  <2>1. \E c \in EdgeSet(R) : c.from = j /\ c.oracle = u /\ c.to = Callee(R, j, u)
    BY <1>1, <1>4, CalleeIsEdge
  <2>2. u = o
    BY <1>4
  <2> HIDE DEF u, o
  <2> QED
    BY <2>1, <2>2
<1>7. PICK d \in EdgeSet(R) :
        /\ d.from = f[e.from] /\ d.oracle = e.oracle
        /\ IF e.to \in DOMAIN f THEN d.to = f[e.to] ELSE Covered(r, d.to)
  BY <1>1, <1>5 DEF Twins, L, R
<1>8. d = c
  BY <1>1, <1>5, <1>6, <1>7 DEF Plain
<1> QED
  BY <1>5, <1>6, <1>7, <1>8 DEF Fits, L, R

\* What is compared next fits.
LEMMA CompareFits ==
  ASSUME TypeInv, FitInv, IsReduction(Item), Compare, ~Stop("overflow")
  PROVE  /\ ~Stop("error")
         /\ \E f : /\ Reduces(reduction.left, reduction.right, f)
                   /\ \A i \in 1 .. Len(todo') :
                        Fits(reduction.left, reduction.right, f, todo'[i].left, todo'[i].right)
<1> DEFINE l == reduction.left
           r == reduction.right
<1>1. reduction # NoReduction /\ todo # <<>>
  BY DEF Compare, Comparing
<1>2. PICK f : /\ Reduces(l, r, f)
               /\ \A i \in 1 .. Len(todo) : Fits(l, r, f, todo[i].left, todo[i].right)
  BY <1>1 DEF FitInv
<1>3. /\ Left = l.construction /\ Right = r.construction
      /\ 1 \in 1 .. Len(todo)
      /\ \A i \in 1 .. Len(todo) :
           todo[i].left \in 1 .. Len(Pkgs(Left)) /\ todo[i].right \in 1 .. Len(Pkgs(Right))
  <2>1. todo \in Seq(CallType(reduction.left, reduction.right)) /\ Len(todo) \in Nat
    BY <1>1, ComparedSides DEF TypeInv
  <2>2. 1 \in 1 .. Len(todo)
    BY <1>1, <2>1
  <2> QED
    BY <1>1, <2>2, ComparedSides DEF TypeInv
<1>4. /\ Call.left \in 1 .. Len(Pkgs(l.construction)) /\ Call.right \in 1 .. Len(Pkgs(r.construction))
      /\ Fits(l, r, f, Call.left, Call.right)
  BY <1>2, <1>3 DEF Call
<1> HIDE DEF l, r
<1>5. /\ Mapped(l, Call.left) <=> Call.left \notin DOMAIN f
      /\ Mapped(r, Call.right) <=> Call.left \notin DOMAIN f
      /\ Call.left \in DOMAIN f =>
           Call.right = f[Call.left] /\ Same(l.construction, Call.left, r.construction, Call.right)
  BY <1>2, <1>4, FittingAgree
<1>6. BothMapped \/ Agree
  <2>1. CASE Call.left \in DOMAIN f
    <3>1. Mapped(l, Call.left) = FALSE /\ Mapped(r, Call.right) = FALSE
      BY <1>5, <2>1 DEF Mapped
    <3> QED
      BY <1>3, <1>5, <2>1, <3>1 DEF Agree, l, r
  <2>2. CASE Call.left \notin DOMAIN f
    BY <1>5, <2>2 DEF BothMapped, l, r
  <2> QED
    BY <2>1, <2>2
<1>7. stop = "none" /\ (Stop("error") => stop' = "error")
  BY DEF Compare, Comparing, Stop
<1>8. ~Stop("error")
  BY <1>6, <1>7 DEF Compare
<1>9. ASSUME NEW i \in 1 .. Len(todo')
      PROVE  Fits(l, r, f, todo'[i].left, todo'[i].right)
  <2>1. CASE \E j \in 1 .. Len(todo) : todo'[i] = todo[j]
    BY <1>2, <2>1 DEF l, r
  <2>2. CASE ~BothMapped /\ \E j \in 1 .. Len(ImportedBy(Call.left)) : CallFor(todo'[i], j)
    <3>1. PICK j \in 1 .. Len(ImportedBy(Call.left)) : CallFor(todo'[i], j)
      BY <2>2
    <3>2. Call.left \in DOMAIN f
      BY <1>5, <2>2 DEF BothMapped, l, r
    <3>3. j \in 1 .. Len(Imports[Pkgs(l.construction)[Call.left].pkg])
          /\ ImportedBy(Call.left)[j] = Imports[Pkgs(l.construction)[Call.left].pkg][j]
      BY <1>3 DEF ImportedBy
    <3>4. Call.right = f[Call.left]
      BY <1>5, <3>2
    <3> DEFINE k == Call.left
               h == Call.right
               o == Imports[Pkgs(l.construction)[k].pkg][j]
    <3>5. /\ k \in DOMAIN f /\ h = f[k] /\ h \in 1 .. Len(Pkgs(r.construction))
          /\ j \in 1 .. Len(Imports[Pkgs(l.construction)[k].pkg])
      BY <1>4, <3>2, <3>3, <3>4
    <3>6. /\ todo'[i].left = Callee(l.construction, k, o)
          /\ todo'[i].right = Callee(r.construction, h, o)
      BY <1>3, <3>1, <3>3 DEF CallFor
    <3> HIDE DEF k, h
    <3>7. Fits(l, r, f, Callee(l.construction, k, o), Callee(r.construction, h, o))
      BY <1>2, <3>5, CalleesFit
    <3> QED
      BY <3>6, <3>7
  <2>3. \/ \E j \in 1 .. Len(todo) : todo'[i] = todo[j]
        \/ ~BothMapped /\ \E j \in 1 .. Len(ImportedBy(Call.left)) : CallFor(todo'[i], j)
    BY <1>8, CompareTypes DEF TypeInv
  <2> QED
    BY <2>1, <2>2, <2>3
<1> QED
  BY <1>2, <1>8, <1>9 DEF l, r

\* IsReduction looks at the file and what has been read of it.
LEMMA ReductionIsFixed ==
  ASSUME UNCHANGED <<text, pos, fileVars>>
  PROVE  IsReduction(Item)' = IsReduction(Item) /\ Items' = Items
BY DEF IsReduction, Item, Items, fileVars, Known, Resolve, AssumptionsNamed

LEMMA FitStep ==
  ASSUME TypeInv, FitInv, [Next]_vars
  PROVE  FitInv'
<1>1. CASE UNCHANGED vars
  <2>1. UNCHANGED <<text, pos, fileVars>> /\ UNCHANGED <<reduction, todo, stop>>
    BY <1>1 DEF vars, walkVars
  <2> QED
    BY <2>1, ReductionIsFixed DEF FitInv
<1>2. CASE ReadConst \/ ReadInstance \/ ReadAssumption \/ ReadOtherHop
  <2>1. reduction = NoReduction /\ reduction' = NoReduction /\ stop = "none" /\ Item.kind # "reduction"
    BY <1>2 DEF ReadConst, ReadInstance, ReadAssumption, ReadOtherHop, Reads, Reading, Stop, walkVars
  <2>2. CASE UNCHANGED stop
    BY <2>1, <2>2 DEF FitInv
  <2>3. CASE ~UNCHANGED stop
    <3>1. UNCHANGED <<text, pos, fileVars>>
      BY <1>2, <2>3 DEF ReadConst, ReadInstance, ReadAssumption, ReadOtherHop, Stop
    <3>2. ~IsReduction(Item)
      BY <2>1 DEF IsReduction
    <3> QED
      BY <2>1, <3>1, <3>2, ReductionIsFixed DEF FitInv
  <2> QED
    BY <2>2, <2>3
<1>3. CASE BeginReduction
  <2>1. stop = "none" /\ reduction = NoReduction /\ pos <= Items
        /\ UNCHANGED <<text, pos, fileVars>>
    BY <1>3 DEF BeginReduction, Reads, Reading, Stop
  <2>2. CASE ~IsReduction(Item)
    BY <2>1, <2>2, ReductionIsFixed DEF FitInv
  <2>3. CASE IsReduction(Item)
    <3> DEFINE one == Resolve(IF Swapped THEN Item.map2 ELSE Item.map1)
               two == Resolve(IF Swapped THEN Item.map1 ELSE Item.map2)
    <3>1. /\ AssumptionsNamed(Item.assumption) # {} /\ SidesOk
          /\ MapOutcome(Item.map1, Assumption(Item.assumption)) = "ok"
          /\ MapOutcome(Item.map2, Assumption(Item.assumption)) = "ok"
          /\ \E f : Reduces(one, two, f)
      BY <2>1, <2>3, ReductionIsTaken DEF TypeInv
    <3> HIDE DEF one, two
    <3>2. /\ reduction' = [kind |-> "reduction", assumption |-> Item.assumption,
                           left |-> one, right |-> two]
          /\ todo' = <<>> /\ UNCHANGED stop
      BY <1>3, <3>1 DEF BeginReduction, one, two
    <3>3. reduction'.left = one /\ reduction'.right = two /\ Len(todo') = 0
      BY <3>2
    <3> QED
      BY <2>1, <3>1, <3>2, <3>3 DEF FitInv
  <2> QED
    BY <2>2, <2>3
<1>4. CASE NextExport
  <2>1. /\ stop = "none" /\ reduction # NoReduction /\ todo = <<>>
        /\ export <= Len(Exports(Left)) /\ UNCHANGED <<text, pos, fileVars, reduction>>
    BY <1>4 DEF NextExport, Comparing, Stop, walkVars
  <2>2. CASE ~IsReduction(Item)
    BY <2>1, <2>2, ReductionIsFixed DEF FitInv
  <2>3. CASE IsReduction(Item)
    <3> DEFINE x == Exports(Left)[export]
    <3>1. PICK f : Reduces(reduction.left, reduction.right, f)
      BY <2>1, <2>3 DEF FitInv
    <3>2. /\ Left = reduction.left.construction /\ Right = reduction.right.construction
          /\ x \in ExportSet(Left)
      BY <2>1, ComparedSides DEF TypeInv, ExportSet
    <3> HIDE DEF x
    <3>3. /\ \E y \in ExportSet(Right) : y.oracle = x.oracle
          /\ \A y \in ExportSet(Right) :
               y.oracle = x.oracle => Fits(reduction.left, reduction.right, f, x.to, y.to)
      BY <3>1, <3>2, ExportsFit
    <3>4. Counterparts(x) # {}
      BY <3>3 DEF Counterparts, ExportSet
    <3>5. UNCHANGED stop /\ ~Stop("panic")
      BY <1>4, <2>1, <3>4 DEF NextExport, Stop, x
    <3>6. PICK y \in ExportSet(Right) :
            /\ y.oracle = x.oracle /\ Len(todo') = 1
            /\ todo'[1].left = x.to /\ todo'[1].right = y.to
      BY <1>4, <3>5, NextExportTypes DEF TypeInv, x
    <3>7. \A i \in 1 .. Len(todo') :
            Fits(reduction.left, reduction.right, f, todo'[i].left, todo'[i].right)
      BY <3>3, <3>6
    <3> QED
      BY <2>1, <3>1, <3>5, <3>7 DEF FitInv
  <2> QED
    BY <2>2, <2>3
<1>5. CASE Compare
  <2>1. /\ stop = "none" /\ reduction # NoReduction
        /\ UNCHANGED <<text, pos, fileVars, reduction>>
    BY <1>5 DEF Compare, Comparing, Stop, walkVars
  <2>2. CASE ~IsReduction(Item)
    BY <2>1, <2>2, ReductionIsFixed DEF FitInv
  <2>3. CASE Stop("overflow")
    BY <2>1, <2>3, ReductionIsFixed DEF FitInv, Stop, walkVars
  <2>4. CASE IsReduction(Item) /\ ~Stop("overflow")
    <3>1. /\ ~Stop("error")
          /\ \E f : /\ Reduces(reduction.left, reduction.right, f)
                    /\ \A i \in 1 .. Len(todo') :
                         Fits(reduction.left, reduction.right, f, todo'[i].left, todo'[i].right)
      BY <1>5, <2>4, CompareFits
    <3>2. UNCHANGED stop
      BY <1>5, <2>4, <3>1 DEF Compare
    <3> QED
      BY <2>1, <3>1, <3>2 DEF FitInv
  <2> QED
    BY <2>2, <2>3, <2>4
<1>6. CASE FinishReduction
  <2>1. stop = "none" /\ reduction # NoReduction
    BY <1>6 DEF FinishReduction, Comparing
  <2>2. CASE IsReduction(Item)
    <3>1. PICK f : Reduces(reduction.left, reduction.right, f)
      BY <2>1, <2>2 DEF FitInv
    <3>2. reduction.left.assumption.name # reduction.right.assumption.name /\ Left.name # Right.name
      BY <3>1 DEF Reduces, Left, Right
    <3>3. reduction' = NoReduction /\ UNCHANGED stop
      BY <1>6, <3>2 DEF FinishReduction
    <3> QED
      BY <2>1, <3>3 DEF FitInv
  <2>3. CASE ~IsReduction(Item)
    <3>1. CASE Stop("panic")
      BY <2>3, <3>1, ReductionIsFixed DEF FitInv, Stop
    <3>2. CASE ~Stop("panic")
      BY <1>6, <2>1, <3>2 DEF FinishReduction, FitInv
    <3> QED
      BY <3>1, <3>2
  <2> QED
    BY <2>2, <2>3
<1>7. CASE EndOfFile
  BY <1>7 DEF EndOfFile, Reading, Stop, walkVars, FitInv
<1> QED
  BY <1>1, <1>2, <1>3, <1>4, <1>5, <1>6, <1>7 DEF Next, Stopped

-----------------------------------------------------------------------------
(* The depth of a comparison. *)

\* d instances, each calling the next, the last one k; all but it are not mapped.
Path(m, k, d) ==
  \E c \in [1 .. d -> 1 .. Len(Pkgs(m.construction))] :
    /\ c[d] = k
    /\ \A j \in 1 .. d - 1 : /\ c[j] \in Outside(m)
                             /\ \E e \in EdgeSet(m.construction) : e.from = c[j] /\ e.to = c[j + 1]

\* A comparison is as deep as the calls that lead to it; one that overflows the
\* stack has met a circle in either game.
DepthInv ==
  /\ reduction # NoReduction =>
       \A i \in 1 .. Len(todo) :
         /\ todo[i].depth \in Nat \ {0}
         /\ Path(reduction.left, todo[i].left, todo[i].depth)
         /\ Path(reduction.right, todo[i].right, todo[i].depth)
  /\ stop = "overflow" => Circular(reduction.left) /\ Circular(reduction.right)

\* A path longer than the game has instances goes in a circle.
LEMMA LongPathIsCircular ==
  ASSUME NEW m \in SideType, NEW k, NEW d \in Nat, d > Len(Pkgs(m.construction)), Path(m, k, d)
  PROVE  Circular(m)
<1> DEFINE n == Len(Pkgs(m.construction))
<1>1. n \in Nat
  BY InstanceLists DEF SideType
<1>2. PICK c \in [1 .. d -> 1 .. n] :
        \A j \in 1 .. d - 1 : /\ c[j] \in Outside(m)
                              /\ \E e \in EdgeSet(m.construction) : e.from = c[j] /\ e.to = c[j + 1]
  BY DEF Path
<1>3. d > n
  OBVIOUS
<1> HIDE DEF n
<1>4. PICK a \in 1 .. d, b \in 1 .. d : a < b /\ c[a] = c[b]
  <2>1. IsFiniteSet(1 .. d) /\ Cardinality(1 .. d) = d
    BY <1>1, <1>3, FS_Interval
  <2>2. IsFiniteSet(1 .. n) /\ Cardinality(1 .. n) = n
    BY <1>1, FS_Interval
  <2>3. Cardinality(1 .. n) < Cardinality(1 .. d)
    BY <1>1, <1>3, <2>1, <2>2
  <2>4. \E x, y \in 1 .. d : x # y /\ c[x] = c[y]
    <3> DEFINE D == 1 .. d
               T == 1 .. n
    <3>1. IsFiniteSet(D) /\ IsFiniteSet(T) /\ Cardinality(T) < Cardinality(D) /\ c \in [D -> T]
      BY <1>2, <2>1, <2>2, <2>3
    <3> HIDE DEF D, T
    <3>2. \E x, y \in D : x # y /\ c[x] = c[y]
      BY <3>1, FS_PigeonHole
    <3> QED
      BY <3>2 DEF D
  <2>5. PICK x \in 1 .. d, y \in 1 .. d : x # y /\ c[x] = c[y]
    BY <2>4
  <2>6. x < y \/ y < x
    BY <2>5
  <2> QED
    BY <2>5, <2>6
<1> DEFINE S == {c[j] : j \in a .. b - 1}
<1>5. a \in a .. b - 1 /\ c[a] \in S
  BY <1>4
<1>6. ASSUME NEW j \in a .. b - 1
      PROVE  /\ c[j] \in Outside(m)
             /\ \E e \in EdgeSet(m.construction) : e.from = c[j] /\ e.to \in S
  <2>1. j \in 1 .. d - 1 /\ (j + 1 \in a .. b - 1 \/ j + 1 = b)
    BY <1>4
  <2>2. PICK e \in EdgeSet(m.construction) : e.from = c[j] /\ e.to = c[j + 1]
    BY <1>2, <2>1
  <2>3. c[j + 1] \in S
    <3>1. CASE j + 1 = b
      BY <1>4, <1>5, <3>1
    <3>2. CASE j + 1 \in a .. b - 1
      BY <3>2
    <3> QED
      BY <2>1, <3>1, <3>2
  <2> QED
    BY <1>2, <2>1, <2>2, <2>3
<1>7. S \in (SUBSET Outside(m)) \ {{}}
  <2>1. \A x \in S : x \in Outside(m)
    BY <1>6
  <2> HIDE DEF S
  <2>2. S # {} /\ S \subseteq Outside(m)
    BY <1>5, <2>1
  <2> QED
    BY <2>2
<1>8. \A x \in S : \E e \in EdgeSet(m.construction) : e.from = x /\ e.to \in S
  BY <1>6
<1> HIDE DEF S
<1> QED
  BY <1>7, <1>8 DEF Circular

\* A call makes a path longer.
LEMMA LongerPath ==
  ASSUME NEW m \in SideType, NEW k \in Outside(m), NEW d \in Nat \ {0}, Path(m, k, d),
         NEW e \in EdgeSet(m.construction), e.from = k
  PROVE  Path(m, e.to, d + 1)
<1> DEFINE n == Len(Pkgs(m.construction))
<1>1. PICK c \in [1 .. d -> 1 .. n] :
        /\ c[d] = k
        /\ \A j \in 1 .. d - 1 : /\ c[j] \in Outside(m)
                                 /\ \E g \in EdgeSet(m.construction) : g.from = c[j] /\ g.to = c[j + 1]
  BY DEF Path
<1>2. e.to \in 1 .. n
  <2>1. m.construction \in InstanceType
    BY DEF SideType
  <2> QED
    BY <2>1, InstanceLists DEF EdgeSet
<1> DEFINE h == [j \in 1 .. d + 1 |-> IF j = d + 1 THEN e.to ELSE c[j]]
<1> HIDE DEF n
<1>3. h \in [1 .. d + 1 -> 1 .. n] /\ h[d + 1] = e.to /\ \A j \in 1 .. d : h[j] = c[j]
  BY <1>1, <1>2
<1> HIDE DEF h
<1>4. ASSUME NEW j \in 1 .. (d + 1) - 1
      PROVE  /\ h[j] \in Outside(m)
             /\ \E g \in EdgeSet(m.construction) : g.from = h[j] /\ g.to = h[j + 1]
  <2>1. CASE j = d
    BY <1>1, <1>3, <2>1
  <2>2. CASE j # d
    <3>1. j \in 1 .. d - 1 /\ j \in 1 .. d /\ j + 1 \in 1 .. d
      BY <2>2
    <3> QED
      BY <1>1, <1>3, <3>1
  <2> QED
    BY <2>1, <2>2
<1> QED
  BY <1>3, <1>4 DEF Path, n

\* What no entry names is not mapped.
LEMMA UnmappedIsOutside ==
  ASSUME NEW m \in SideType, MapAccepted(m), NEW k \in 1 .. Len(Pkgs(m.construction)), ~Mapped(m, k)
  PROVE  k \in Outside(m)
<1> SUFFICES ASSUME NEW p \in Pairs(m), p[1] = k
             PROVE  FALSE
  BY DEF Outside, Covered
<1> DEFINE c == m.construction
<1>1. PICK n \in 1 .. Len(m.entries) : p[1] = Offset(c, m.entries[n][2])
  BY PairIsEntry
<1>2. Offsets(c, m.entries[n][2]) # {}
  BY DEF MapAccepted, MapRejected, EntryOk
<1>3. Offsets(c, m.entries[n][2]) \in SUBSET (1 .. Len(Pkgs(c))) /\ Len(Pkgs(c)) \in Nat
  BY InstanceLists DEF Offsets, SideType
<1>4. Offset(c, m.entries[n][2]) \in Offsets(c, m.entries[n][2])
  <2> DEFINE S == Offsets(c, m.entries[n][2])
  <2>1. Offset(c, m.entries[n][2]) = CHOOSE x \in S : \A y \in S : x <= y
    BY DEF Offset
  <2>2. S # {} /\ S \in SUBSET (1 .. Len(Pkgs(c))) /\ Len(Pkgs(c)) \in Nat
    BY <1>2, <1>3
  <2> HIDE DEF S, c
  <2>3. (CHOOSE x \in S : \A y \in S : x <= y) \in S
    BY <2>2, Least
  <2> QED
    BY <2>1, <2>3 DEF S
<1> QED
  BY <1>1, <1>4 DEF Offsets, Mapped

\* The paths of the calls that a comparison leads to.
LEMMA CalleePath ==
  ASSUME NEW m \in SideType, MapAccepted(m), NEW k \in 1 .. Len(Pkgs(m.construction)), ~Mapped(m, k),
         NEW d \in Nat \ {0}, Path(m, k, d), NEW j \in 1 .. Len(Imports[Pkgs(m.construction)[k].pkg])
  PROVE  Path(m, Callee(m.construction, k, Imports[Pkgs(m.construction)[k].pkg][j]), d + 1)
<1> DEFINE c == m.construction
           o == Imports[Pkgs(c)[k].pkg][j]
<1>1. c \in InstanceType
  BY DEF SideType
<1>2. k \in 1 .. Len(Pkgs(c)) /\ j \in 1 .. Len(Imports[Pkgs(c)[k].pkg])
  OBVIOUS
<1> HIDE DEF c
<1>3. \E e \in EdgeSet(c) : e.from = k /\ e.oracle = o /\ e.to = Callee(c, k, o)
  BY <1>1, <1>2, CalleeIsEdge
<1>4. k \in Outside(m)
  BY UnmappedIsOutside
<1> HIDE DEF o
<1>5. Path(m, Callee(c, k, o), d + 1)
  BY <1>3, <1>4, LongerPath DEF c
<1> QED
  BY <1>5 DEF c, o

\* An export is called from nowhere.
LEMMA ExportPath ==
  ASSUME NEW m \in SideType, NEW k \in 1 .. Len(Pkgs(m.construction))
  PROVE  Path(m, k, 1)
<1> DEFINE n == Len(Pkgs(m.construction))
           c == [j \in 1 .. 1 |-> k]
<1>1. c \in [1 .. 1 -> 1 .. n] /\ c[1] = k
  OBVIOUS
<1>2. \A j \in 1 .. 1 - 1 : FALSE
  OBVIOUS
<1> HIDE DEF c
<1> QED
  BY <1>1, <1>2 DEF Path

\* The paths to what is compared next.
LEMMA ComparePaths ==
  ASSUME TypeInv, MapInv, DepthInv, Compare, ~Stop("overflow"), ~Stop("error"),
         NEW i \in 1 .. Len(todo')
  PROVE  /\ todo'[i].depth \in Nat \ {0}
         /\ Path(reduction.left, todo'[i].left, todo'[i].depth)
         /\ Path(reduction.right, todo'[i].right, todo'[i].depth)
<1> DEFINE l == reduction.left
           r == reduction.right
<1>1. reduction # NoReduction /\ todo # <<>>
  BY DEF Compare, Comparing
<1>2. /\ l \in SideType /\ r \in SideType /\ MapAccepted(l) /\ MapAccepted(r)
      /\ Left = l.construction /\ Right = r.construction
  BY <1>1, ComparedSides DEF TypeInv, MapInv
<1>3. 1 \in 1 .. Len(todo)
  <2>1. todo \in Seq(CallType(reduction.left, reduction.right)) /\ Len(todo) \in Nat
    BY <1>1, ComparedSides DEF TypeInv
  <2> QED
    BY <1>1, <2>1
<1>4. \A j \in 1 .. Len(todo) :
        /\ todo[j].left \in 1 .. Len(Pkgs(l.construction))
        /\ todo[j].right \in 1 .. Len(Pkgs(r.construction))
        /\ todo[j].depth \in Nat \ {0}
        /\ Path(l, todo[j].left, todo[j].depth) /\ Path(r, todo[j].right, todo[j].depth)
  BY <1>1, <1>2, ComparedSides DEF TypeInv, DepthInv
<1> HIDE DEF l, r
<1>5. CASE \E j \in 1 .. Len(todo) : todo'[i] = todo[j]
  BY <1>4, <1>5 DEF l, r
<1>6. CASE ~BothMapped /\ \E j \in 1 .. Len(ImportedBy(Call.left)) : CallFor(todo'[i], j)
  <2> DEFINE k == Call.left
             h == Call.right
             d == Call.depth
  <2>1. /\ k \in 1 .. Len(Pkgs(l.construction)) /\ h \in 1 .. Len(Pkgs(r.construction))
        /\ d \in Nat \ {0} /\ Path(l, k, d) /\ Path(r, h, d)
    BY <1>3, <1>4 DEF Call
  <2>2. Agree
    BY <1>6, CompareTypes DEF TypeInv
  <2>3. ~Mapped(l, k) /\ ~Mapped(r, h)
    BY <1>6, <2>2 DEF Agree, BothMapped, l, r
  <2>4. Pkgs(l.construction)[k].pkg = Pkgs(r.construction)[h].pkg
    BY <1>2, <2>2 DEF Agree, Same
  <2>5. PICK j \in 1 .. Len(ImportedBy(Call.left)) : CallFor(todo'[i], j)
    BY <1>6
  <2> DEFINE o == ImportedBy(Call.left)[j]
  <2>6. /\ j \in 1 .. Len(Imports[Pkgs(l.construction)[k].pkg])
        /\ o = Imports[Pkgs(l.construction)[k].pkg][j]
    BY <1>2 DEF ImportedBy
  <2>7. /\ j \in 1 .. Len(Imports[Pkgs(r.construction)[h].pkg])
        /\ o = Imports[Pkgs(r.construction)[h].pkg][j]
    BY <2>4, <2>6
  <2>8. /\ todo'[i].left = Callee(l.construction, k, o)
        /\ todo'[i].right = Callee(r.construction, h, o)
        /\ todo'[i].depth = d + 1
    BY <1>2, <2>5 DEF CallFor
  <2> HIDE DEF k, h, d, o
  <2>9. Path(l, Callee(l.construction, k, Imports[Pkgs(l.construction)[k].pkg][j]), d + 1)
    BY <1>2, <2>1, <2>3, <2>6, CalleePath
  <2>10. Path(r, Callee(r.construction, h, Imports[Pkgs(r.construction)[h].pkg][j]), d + 1)
    BY <1>2, <2>1, <2>3, <2>7, CalleePath
  <2>11. d + 1 \in Nat \ {0}
    BY <2>1
  <2> QED
    BY <2>6, <2>7, <2>8, <2>9, <2>10, <2>11 DEF l, r
<1> QED
  BY <1>5, <1>6, CompareTypes DEF TypeInv

LEMMA DepthStep ==
  ASSUME TypeInv, MapInv, DepthInv, [Next]_vars
  PROVE  DepthInv'
<1>1. CASE UNCHANGED <<reduction, todo, stop>>
  BY <1>1 DEF DepthInv
<1>2. CASE reduction = NoReduction /\ reduction' = NoReduction /\ stop' # "overflow"
  BY <1>2 DEF DepthInv
<1>3. CASE BeginReduction
  <2>1. CASE Stop("error") \/ Stop("panic")
    BY <1>3, <2>1 DEF DepthInv, BeginReduction, Reads, Reading, Stop, walkVars
  <2>2. CASE ~(Stop("error") \/ Stop("panic"))
    <3>1. todo' = <<>>
      BY <1>3, <2>2, BeginTypes DEF TypeInv
    <3>2. UNCHANGED stop /\ stop = "none"
      <4>1. \A m, a : MapOutcome(m, a) \in {"ok", "error", "panic"}
        BY DEF MapOutcome
      <4>2. MapOutcome(Item.map1, Assumption(Item.assumption)) = "ok"
            /\ MapOutcome(Item.map2, Assumption(Item.assumption)) = "ok"
        BY <1>3, <2>2, <4>1 DEF BeginReduction
      <4> QED
        BY <1>3, <2>2, <4>2 DEF BeginReduction, Reads, Reading
    <3>3. Len(todo') = 0
      BY <3>1
    <3> QED
      BY <3>2, <3>3 DEF DepthInv
  <2> QED
    BY <2>1, <2>2
<1>4. CASE NextExport
  <2>1. stop = "none" /\ reduction # NoReduction
    BY <1>4 DEF NextExport, Comparing
  <2>2. CASE Stop("panic")
    BY <2>1, <2>2 DEF DepthInv, Stop, walkVars
  <2>3. CASE ~Stop("panic")
    <3>1. UNCHANGED <<stop, reduction>> /\ Len(todo') = 1 /\ todo'[1].depth = 1 /\ CompareInv'
      BY <1>4, <2>3, NextExportTypes DEF TypeInv, NextExport
    <3> DEFINE l == reduction.left
               r == reduction.right
    <3>2. l \in SideType /\ r \in SideType
      BY <2>1, ComparedSides DEF TypeInv
    <3>3. /\ todo'[1].left \in 1 .. Len(Pkgs(l.construction))
          /\ todo'[1].right \in 1 .. Len(Pkgs(r.construction))
      <4>1. todo' \in Seq(CallType(l, r))
        BY <2>1, <3>1 DEF CompareInv
      <4>2. todo'[1] \in CallType(l, r)
        BY <3>1, <4>1, ElementOfSeq
      <4> QED
        BY <4>2 DEF CallType
    <3> HIDE DEF l, r
    <3>4. Path(l, todo'[1].left, 1) /\ Path(r, todo'[1].right, 1)
      BY <3>2, <3>3, ExportPath
    <3>5. \A i \in 1 .. Len(todo') : i = 1
      BY <3>1
    <3> QED
      BY <2>1, <3>1, <3>4, <3>5 DEF DepthInv, l, r
  <2> QED
    BY <2>2, <2>3
<1>5. CASE Compare
  <2>1. stop = "none" /\ reduction # NoReduction /\ todo # <<>>
    BY <1>5 DEF Compare, Comparing
  <2>2. CASE Stop("error")
    BY <2>1, <2>2 DEF DepthInv, Stop, walkVars
  <2>3. CASE Stop("overflow")
    <3> DEFINE l == reduction.left
               r == reduction.right
               d == Call.depth
    <3>1. d > StackLimit
      BY <1>5, <2>1, <2>3 DEF Compare, Stop
    <3>2. l \in SideType /\ r \in SideType
      BY <2>1, ComparedSides DEF TypeInv
    <3>3. 1 \in 1 .. Len(todo)
      <4>1. todo \in Seq(CallType(reduction.left, reduction.right)) /\ Len(todo) \in Nat
        BY <2>1, ComparedSides DEF TypeInv
      <4> QED
        BY <2>1, <4>1
    <3>4. d \in Nat /\ Path(l, Call.left, d) /\ Path(r, Call.right, d)
      BY <2>1, <3>3 DEF DepthInv, Call
    <3>5. /\ Len(Pkgs(l.construction)) \in Nat /\ Len(Pkgs(l.construction)) <= StackLimit
          /\ Len(Pkgs(r.construction)) \in Nat /\ Len(Pkgs(r.construction)) <= StackLimit
          /\ StackLimit \in Nat
      <4>1. \A i \in InstanceType : Len(Pkgs(i)) \in Nat /\ Len(Pkgs(i)) <= StackLimit
        BY InstanceLists, ProofFileAssumption DEF Pkgs, Size
      <4> QED
        BY <3>2, <4>1, ProofFileAssumption DEF SideType
    <3> HIDE DEF l, r, d
    <3>6. d > Len(Pkgs(l.construction)) /\ d > Len(Pkgs(r.construction))
      BY <3>1, <3>4, <3>5
    <3>7. Circular(l) /\ Circular(r)
      BY <3>2, <3>4, <3>6, LongPathIsCircular
    <3> QED
      BY <2>3, <3>7 DEF DepthInv, Stop, walkVars, l, r
  <2>4. CASE ~Stop("overflow") /\ ~Stop("error")
    <3>1. UNCHANGED <<stop, reduction>>
      BY <1>5, <2>4 DEF Compare
    <3> QED
      BY <1>5, <2>1, <2>4, <3>1, ComparePaths DEF DepthInv
  <2> QED
    BY <2>2, <2>3, <2>4
<1>6. CASE FinishReduction
  <2>1. stop = "none" /\ reduction # NoReduction
    BY <1>6 DEF FinishReduction, Comparing
  <2>2. CASE Stop("panic")
    BY <2>1, <2>2 DEF DepthInv, Stop, walkVars
  <2>3. CASE ~Stop("panic")
    BY <1>6, <2>1, <2>3 DEF DepthInv, FinishReduction
  <2> QED
    BY <2>2, <2>3
<1>7. ASSUME ReadConst \/ ReadInstance \/ ReadAssumption \/ ReadOtherHop \/ EndOfFile
      PROVE  reduction = NoReduction /\ reduction' = NoReduction /\ stop' # "overflow"
  BY <1>7, OutcomeOfInstance
     DEF ReadConst, ReadInstance, ReadAssumption, ReadOtherHop, EndOfFile, Reads, Reading, Stop,
         walkVars
<1>8. CASE UNCHANGED vars
  BY <1>1, <1>8 DEF vars, walkVars
<1> QED
  BY <1>2, <1>3, <1>4, <1>5, <1>6, <1>7, <1>8 DEF Next, Stopped

\* A reduction that is one, between games that export every oracle once, is
\* accepted, unless the comparison runs out of stack; then the unmapped instances
\* of either game call in a circle (handle_reduction_body, compare_reduction).
THEOREM ProperReductionsAreAccepted == Spec => []ReductionsAccepted
<1>1. Init => FitInv /\ DepthInv
  BY DEF Init, FitInv, DepthInv
<1>2. FitInv /\ DepthInv => ReductionsAccepted
  BY DEF FitInv, DepthInv, ReductionsAccepted
<1>3. Init => MapInv
  BY DEF Init, MapInv
<1> QED
  BY <1>1, <1>2, <1>3, FitStep, DepthStep, MapStep, TypeInvariant, PTL DEF Spec
=============================================================================
