------------------------- MODULE LoadProjectProofs -------------------------
(***************************************************************************)
(* Proofs about LoadProject, for every set of files in every directory:    *)
(* whether a project loads depends on the order in which WalkDir lists its *)
(* files only where games share a name, and then on which of them is last; *)
(* and every package file found is loaded.                                 *)
(***************************************************************************)
EXTENDS LoadProject, FiniteSetTheorems, TLAPS

\* The files of a kind have been listed, each once.
Listed(kind) ==
  /\ Len(found[kind]) \in Nat
  /\ \A i \in 1 .. Len(found[kind]) : found[kind][i] \in Found(kind)
  /\ \A f \in Found(kind) : \E i \in 1 .. Len(found[kind]) : found[kind][i] = f
  /\ \A i, j \in 1 .. Len(found[kind]) : found[kind][i] = found[kind][j] => i = j
  /\ \A f \in Found(kind) : f.state # "unreadable"

\* A file can be read with the packages and games that are found last.
Fits(f) == Accepts(f, Latest("package"), Latest("game"))

\* The i-th of the first n files of a kind is the last of its name.
IsLatest(kind, i, n) == \A j \in i + 1 .. n : found[kind][j].name # found[kind][i].name

\* The project has the last of the first n files of a kind for each name, and
\* none of these files is at fault.
HasLatest(kind, n) ==
  /\ DOMAIN project[kind] = {found[kind][i].name : i \in 1 .. n}
  /\ project[kind] = [name \in DOMAIN project[kind] |-> project[kind][name]]
  /\ \A i \in 1 .. n :
       IsLatest(kind, i, n) => project[kind][found[kind][i].name] = found[kind][i]
  /\ \A name \in DOMAIN project[kind] :
       \E i \in 1 .. n : found[kind][i].name = name /\ IsLatest(kind, i, n)
LoadedTo(kind, n) ==
  /\ HasLatest(kind, n)
  /\ \A i \in 1 .. n :
       /\ found[kind][i].state # "malformed"
       /\ kind # "package" => Fits(found[kind][i])

\* The first n packages have names of their own and are in the project.
PackagesTo(n) ==
  /\ \A i \in 1 .. n : project["package"][found["package"][i].name] = found["package"][i]
  /\ \A i, j \in 1 .. n : found["package"][i].name = found["package"][j].name => i = j

\* All files of a kind are loaded.
AllLoaded(kind) ==
  LoadedTo(kind, Len(found[kind])) /\ (kind = "package" => PackagesTo(Len(found[kind])))

\* The files found cannot be loaded, in this order or in any.
Loadable == IsLoadable(Latest("package"), Latest("game"))
Unloadable ==
  ~Loadable /\ (DistinctNames("game") => ~IsLoadable(Named("package"), Named("game")))

Frame ==
  /\ DOMAIN project = Kinds
  /\ \A kind \in Kinds : files[kind] \subseteq AllFiles[kind]
  /\ result # "none" <=> phase = "done"
  /\ phase \in Kinds \/ result = "ok" => \A kind \in Kinds : Listed(kind)
  /\ phase \in Kinds => next \in 1 .. Len(found[phase]) + 1

Progress ==
  /\ phase = "find" => next = 1 /\ \A kind \in Kinds : project[kind] = <<>>
  /\ phase = "package" =>
       /\ LoadedTo("package", next - 1) /\ PackagesTo(next - 1)
       /\ project["game"] = <<>> /\ project["proof"] = <<>>
  /\ phase = "game" =>
       AllLoaded("package") /\ LoadedTo("game", next - 1) /\ project["proof"] = <<>>
  /\ phase = "proof" => AllLoaded("package") /\ AllLoaded("game") /\ LoadedTo("proof", next - 1)
  /\ result = "ok" => \A kind \in Kinds : AllLoaded(kind)
  /\ result \notin {"none", "ok"} => Unloadable

LoadInv == Frame /\ Progress

\* A list of a finite set with no member twice has every member.
LEMMA ListsAll ==
  ASSUME NEW S, IsFiniteSet(S), NEW list \in SetToSeqs(S)
  PROVE  /\ Len(list) \in Nat
         /\ \A i \in 1 .. Len(list) : list[i] \in S
         /\ \A x \in S : \E i \in 1 .. Len(list) : list[i] = x
         /\ \A i, j \in 1 .. Len(list) : list[i] = list[j] => i = j
<1> DEFINE n == Cardinality(S)
<1>1. n \in Nat
  BY FS_CardinalityType
<1>2. list \in [1 .. n -> S] /\ \A i, j \in 1 .. n : i # j => list[i] # list[j]
  BY DEF SetToSeqs
<1> HIDE DEF n
<1>3. Len(list) = n
  BY <1>1, <1>2
<1>4. list \in Injection(1 .. n, S)
  BY <1>2 DEF Injection, IsInjective
<1>5. Cardinality(1 .. n) = Cardinality(S)
  BY <1>1, FS_Interval DEF n
<1>6. list \in Surjection(1 .. n, S)
  BY <1>4, <1>5, FS_Injection
<1> QED
  BY <1>1, <1>2, <1>3, <1>6 DEF Surjection

\* What Insert does to the names and the files of a map.
LEMMA Inserted ==
  ASSUME NEW map, NEW f
  PROVE  /\ DOMAIN Insert(map, f) = DOMAIN map \cup {f.name}
         /\ Insert(map, f)[f.name] = f
         /\ \A n \in DOMAIN map \ {f.name} : Insert(map, f)[n] = map[n]
BY DEF Insert

\* A project that has the last files of a kind has what LatestOf says.
LEMMA HasLatestOf ==
  ASSUME NEW kind, NEW n \in Nat, HasLatest(kind, n)
  PROVE  project[kind] = LatestOf(kind, n)
<1> DEFINE IsLast(k, name) ==
             found[kind][k].name = name /\ \A j \in k + 1 .. n : found[kind][j].name # name
<1>1. ASSUME NEW name \in DOMAIN project[kind]
      PROVE  project[kind][name] = found[kind][CHOOSE k \in 1 .. n : IsLast(k, name)]
  <2>1. PICK i \in 1 .. n : found[kind][i].name = name /\ IsLatest(kind, i, n)
    BY DEF HasLatest
  <2>2. IsLast(i, name) /\ project[kind][name] = found[kind][i]
    BY <2>1 DEF HasLatest, IsLatest
  <2>3. ASSUME NEW k \in 1 .. n, IsLast(k, name) PROVE k = i
    <3>1. ~(k < i) /\ ~(i < k)
      BY <2>2, <2>3
    <3> QED
      BY <3>1
  <2> HIDE DEF IsLast
  <2>4. (CHOOSE k \in 1 .. n : IsLast(k, name)) = i
    BY <2>2, <2>3, Zenon
  <2> QED
    BY <2>2, <2>4
<1>2. LatestOf(kind, n) = [name \in DOMAIN project[kind] |->
                           found[kind][CHOOSE k \in 1 .. n : IsLast(k, name)]]
  BY DEF LatestOf, HasLatest
<1> HIDE DEF IsLast
<1> QED
  BY <1>1, <1>2 DEF HasLatest

\* An empty map has the last of no files.
LEMMA NoneLoaded ==
  ASSUME NEW kind, project[kind] = <<>>
  PROVE  LoadedTo(kind, 0)
<1>1. 1 .. 0 = {} /\ DOMAIN project[kind] = {}
  OBVIOUS
<1>2. {found[kind][i].name : i \in 1 .. 0} = {}
  BY <1>1
<1>3. project[kind] = [name \in DOMAIN project[kind] |-> project[kind][name]]
  OBVIOUS
<1> QED
  BY <1>1, <1>2, <1>3 DEF LoadedTo, HasLatest

LEMMA LoadInit == Init => LoadInv
<1> SUFFICES ASSUME Init PROVE LoadInv
  OBVIOUS
<1>1. /\ project = [kind \in Kinds |-> <<>>] /\ result = "none" /\ phase = "find" /\ next = 1
      /\ \A kind \in Kinds : files[kind] \subseteq AllFiles[kind]
  BY DEF Init
<1>2. \A kind \in Kinds : project[kind] = <<>>
  BY <1>1
<1> QED
  BY <1>1, <1>2 DEF LoadInv, Frame, Progress, Kinds

LEMMA FindStep == ASSUME LoadInv, Find PROVE LoadInv'
<1>1. /\ phase = "find" /\ next = 1 /\ result = "none" /\ DOMAIN project = Kinds
      /\ \A kind \in Kinds : project[kind] = <<>>
      /\ UNCHANGED <<files, next, project>>
  BY DEF Find, LoadInv, Frame, Progress, Fail
<1>2. \A kind \in Kinds : IsFiniteSet(Found(kind))
  <2>1. ASSUME NEW kind \in Kinds PROVE IsFiniteSet(Found(kind))
    <3>1. IsFiniteSet(AllFiles[kind]) /\ Found(kind) \subseteq AllFiles[kind]
      BY FilesAssumption DEF LoadInv, Frame, Found
    <3> QED
      BY <3>1, FS_Subset
  <2> QED
    BY <2>1
<1>3. \A kind \in Kinds : Found(kind)' = Found(kind)
  BY <1>1 DEF Found
<1>4. PICK ps \in SetToSeqs(Found("package")), gs \in SetToSeqs(Found("game")),
           rs \in SetToSeqs(Found("proof")) :
        found' = [kind \in Kinds |-> IF kind = "package" THEN ps
                                    ELSE IF kind = "game" THEN gs ELSE rs]
  BY DEF Find
<1>5. CASE \E kind \in Kinds : \E f \in Found(kind) : f.state = "unreadable"
  <2>1. Unloadable'
    BY <1>3, <1>5 DEF Unloadable, Loadable, IsLoadable
  <2>2. phase' = "done" /\ result' = "io"
    BY <1>5 DEF Find, Fail
  <2> QED
    BY <1>1, <2>1, <2>2 DEF LoadInv, Frame, Progress, Kinds
<1>6. CASE \A kind \in Kinds : \A f \in Found(kind) : f.state # "unreadable"
  <2>1. phase' = "package" /\ result' = "none"
    BY <1>1, <1>6 DEF Find
  <2>2. ASSUME NEW kind \in Kinds PROVE Listed(kind)'
    <3>1. found'[kind] \in SetToSeqs(Found(kind))
      BY <1>4 DEF Kinds
    <3>2. /\ Len(found'[kind]) \in Nat
          /\ \A i \in 1 .. Len(found'[kind]) : found'[kind][i] \in Found(kind)
          /\ \A x \in Found(kind) : \E i \in 1 .. Len(found'[kind]) : found'[kind][i] = x
          /\ \A i, j \in 1 .. Len(found'[kind]) : found'[kind][i] = found'[kind][j] => i = j
      BY <1>2, <3>1, ListsAll
    <3> QED
      BY <1>3, <1>6, <3>2 DEF Listed
  <2>3. LoadedTo("package", 0)' /\ PackagesTo(0)'
    <3>1. project'["package"] = <<>>
      BY <1>1 DEF Kinds
    <3>2. 1 .. 0 = {} /\ DOMAIN project'["package"] = {}
      BY <3>1
    <3>3. {found'["package"][i].name : i \in 1 .. 0} = {}
      BY <3>2
    <3>4. project'["package"] = [name \in DOMAIN project'["package"] |-> project'["package"][name]]
      BY <3>1
    <3> QED
      BY <3>2, <3>3, <3>4 DEF LoadedTo, HasLatest, PackagesTo
  <2>4. "package" \in Kinds /\ next' - 1 = 0 /\ next' \in 1 .. Len(found'["package"]) + 1
    BY <1>1, <2>2 DEF Kinds, Listed
  <2> QED
    BY <1>1, <2>1, <2>2, <2>3, <2>4 DEF LoadInv, Frame, Progress, Kinds
<1> QED
  BY <1>5, <1>6

\* What the files found say does not change after they are found.
LEMMA SameFiles ==
  ASSUME UNCHANGED <<files, found>>
  PROVE  /\ \A kind, n : LatestOf(kind, n)' = LatestOf(kind, n)
         /\ \A kind : Latest(kind)' = Latest(kind) /\ Found(kind)' = Found(kind)
         /\ \A g : Fits(g)' <=> Fits(g)
         /\ Loadable' <=> Loadable
         /\ Unloadable' <=> Unloadable
<1>1. files' = files /\ found' = found
  OBVIOUS
<1>2. ASSUME NEW kind, NEW n PROVE LatestOf(kind, n)' = LatestOf(kind, n)
  BY <1>1 DEF LatestOf
<1>3. \A kind : Latest(kind)' = Latest(kind)
  BY <1>1, <1>2 DEF Latest
<1>4. \A kind : Found(kind)' = Found(kind)
  BY <1>1 DEF Found
<1>5. \A g : Fits(g)' <=> Fits(g)
  BY <1>3 DEF Fits, Accepts
<1>6. Loadable' <=> Loadable
  BY <1>3, <1>4 DEF Loadable, IsLoadable, DistinctNames, Accepts
<1>7. \A kind : Named(kind)' = Named(kind)
  BY <1>1 DEF Named, Found
<1>8. /\ DistinctNames("game")' <=> DistinctNames("game")
      /\ IsLoadable(Named("package"), Named("game"))' <=>
           IsLoadable(Named("package"), Named("game"))
  BY <1>4, <1>7 DEF IsLoadable, DistinctNames, Accepts
<1>9. Unloadable' <=> Unloadable
  BY <1>6, <1>8 DEF Unloadable
<1> QED
  BY <1>2, <1>3, <1>4, <1>5, <1>6, <1>9

\* Where files have names of their own, the latest of a name is the only one.
LEMMA LatestIsNamed ==
  ASSUME NEW kind, Listed(kind), DistinctNames(kind)
  PROVE  Latest(kind) = Named(kind)
<1>1. PICK n \in Nat : n = Len(found[kind])
  BY DEF Listed
<1> DEFINE IsLast(k, name) ==
             found[kind][k].name = name /\ \A j \in k + 1 .. n : found[kind][j].name # name
           names == {found[kind][i].name : i \in 1 .. n}
<1>2. names = {f.name : f \in Found(kind)}
  BY <1>1 DEF Listed
<1>3. ASSUME NEW name \in names
      PROVE  found[kind][CHOOSE k \in 1 .. n : IsLast(k, name)] =
               CHOOSE f \in Found(kind) : f.name = name
  <2>1. PICK i \in 1 .. n : found[kind][i].name = name
    OBVIOUS
  <2>2. ASSUME NEW k \in 1 .. n, found[kind][k].name = name PROVE k = i
    BY <1>1, <2>1, <2>2 DEF Listed, DistinctNames
  <2>3. IsLast(i, name)
    <3>1. ASSUME NEW j \in i + 1 .. n, found[kind][j].name = name PROVE FALSE
      <4>1. j \in 1 .. n /\ j # i
        OBVIOUS
      <4> QED
        BY <2>2, <3>1, <4>1
    <3> QED
      BY <2>1, <3>1
  <2>4. ASSUME NEW k \in 1 .. n, IsLast(k, name) PROVE k = i
    BY <2>2, <2>4
  <2>5. found[kind][i] \in Found(kind)
    BY <1>1 DEF Listed
  <2>6. ASSUME NEW f \in Found(kind), f.name = name PROVE f = found[kind][i]
    BY <2>1, <2>5, <2>6 DEF DistinctNames
  <2> HIDE DEF IsLast
  <2>7. (CHOOSE k \in 1 .. n : IsLast(k, name)) = i
    BY <2>3, <2>4, Zenon
  <2>8. (CHOOSE f \in Found(kind) : f.name = name) = found[kind][i]
    BY <2>1, <2>5, <2>6, Zenon
  <2> QED
    BY <2>7, <2>8
<1>4. Latest(kind) = [name \in names |-> found[kind][CHOOSE k \in 1 .. n : IsLast(k, name)]]
  BY <1>1 DEF Latest, LatestOf
<1> HIDE DEF IsLast, names
<1>5. Latest(kind) = [name \in names |-> CHOOSE f \in Found(kind) : f.name = name]
  BY <1>3, <1>4
<1> QED
  BY <1>2, <1>5 DEF Named

\* What cannot be loaded in this order cannot be loaded in any, if names differ.
LEMMA NotLoadable ==
  ASSUME \A kind \in Kinds : Listed(kind)
  PROVE  /\ ~Loadable => Unloadable
         /\ Loadable /\ DistinctNames("game") => IsLoadable(Named("package"), Named("game"))
<1>1. DistinctNames("package") => Latest("package") = Named("package")
  BY LatestIsNamed DEF Kinds
<1>2. DistinctNames("game") => Latest("game") = Named("game")
  BY LatestIsNamed DEF Kinds
<1> QED
  BY <1>1, <1>2 DEF Unloadable, Loadable, IsLoadable

\* A file the loader stops at makes the project unloadable.
LEMMA FailStep ==
  ASSUME LoadInv, phase \in Kinds, NEW e, e \notin {"none", "ok"}, Fail(e),
         ~Loadable, UNCHANGED <<files, found>>
  PROVE  LoadInv'
<1>1. phase' = "done" /\ result' = e /\ UNCHANGED <<project, files>>
  BY DEF Fail
<1>2. Unloadable'
  BY SameFiles, NotLoadable DEF LoadInv, Frame
<1>3. DOMAIN project = Kinds /\ \A kind \in Kinds : files[kind] \subseteq AllFiles[kind]
  BY DEF LoadInv, Frame
<1> QED
  BY <1>1, <1>2, <1>3 DEF LoadInv, Frame, Progress, Kinds

\* The n-th file of a kind joins the project.
LEMMA JoinStep ==
  ASSUME DOMAIN project = Kinds, NEW kind \in Kinds, NEW n \in Nat, n >= 1,
         project' = [project EXCEPT ![kind] = Insert(@, found[kind][n])],
         UNCHANGED <<files, found>>, LoadedTo(kind, n - 1),
         found[kind][n].state # "malformed",
         kind # "package" => Fits(found[kind][n])
  PROVE  /\ LoadedTo(kind, n)'
         /\ project'[kind] = Insert(project[kind], found[kind][n])
         /\ \A k \in Kinds \ {kind} : project'[k] = project[k]
         /\ DOMAIN project' = Kinds
<1> DEFINE f == found[kind][n]
           old == project[kind]
<1>1. /\ project'[kind] = Insert(old, f)
      /\ \A k \in Kinds \ {kind} : project'[k] = project[k]
      /\ DOMAIN project' = Kinds
  OBVIOUS
<1>2. /\ DOMAIN Insert(old, f) = DOMAIN old \cup {f.name}
      /\ Insert(old, f)[f.name] = f
      /\ \A m \in DOMAIN old \ {f.name} : Insert(old, f)[m] = old[m]
  BY Inserted, Zenon
<1>3. \A i \in 1 .. n : i \in 1 .. n - 1 \/ i = n
  OBVIOUS
<1>4. n \in 1 .. n /\ \A i \in 1 .. n - 1 : i \in 1 .. n
  OBVIOUS
<1>5. DOMAIN project'[kind] = {found[kind][i].name : i \in 1 .. n}
  BY <1>1, <1>2, <1>3, <1>4 DEF LoadedTo, HasLatest
<1>6. project'[kind] = [name \in DOMAIN project'[kind] |-> project'[kind][name]]
  BY <1>1 DEF Insert
<1>7. IsLatest(kind, n, n)
  BY DEF IsLatest
<1>8. ASSUME NEW i \in 1 .. n - 1
      PROVE  IsLatest(kind, i, n) <=> IsLatest(kind, i, n - 1) /\ f.name # found[kind][i].name
  <2>1. \A j \in i + 1 .. n : j \in i + 1 .. n - 1 \/ j = n
    OBVIOUS
  <2>2. n \in i + 1 .. n /\ \A j \in i + 1 .. n - 1 : j \in i + 1 .. n
    OBVIOUS
  <2> QED
    BY <2>1, <2>2 DEF IsLatest
<1>9. ASSUME NEW i \in 1 .. n, IsLatest(kind, i, n)
      PROVE  project'[kind][found[kind][i].name] = found[kind][i]
  <2>1. CASE i = n
    BY <1>1, <1>2, <2>1
  <2>2. CASE i \in 1 .. n - 1
    <3>1. IsLatest(kind, i, n - 1) /\ f.name # found[kind][i].name
      BY <1>8, <1>9, <2>2
    <3>2. found[kind][i].name \in DOMAIN old \ {f.name} /\ old[found[kind][i].name] = found[kind][i]
      BY <2>2, <3>1 DEF LoadedTo, HasLatest
    <3> QED
      BY <1>1, <1>2, <3>2
  <2> QED
    BY <1>3, <2>1, <2>2
<1>10. ASSUME NEW name \in DOMAIN project'[kind]
       PROVE  \E i \in 1 .. n : found[kind][i].name = name /\ IsLatest(kind, i, n)
  <2>1. CASE name = f.name
    BY <1>4, <1>7, <2>1
  <2>2. CASE name # f.name
    <3>1. name \in DOMAIN old
      BY <1>1, <1>2, <2>2
    <3>2. PICK i \in 1 .. n - 1 : found[kind][i].name = name /\ IsLatest(kind, i, n - 1)
      BY <3>1 DEF LoadedTo, HasLatest
    <3> QED
      BY <1>4, <1>8, <2>2, <3>2
  <2> QED
    BY <2>1, <2>2
<1>11. HasLatest(kind, n)'
  BY <1>5, <1>6, <1>9, <1>10 DEF HasLatest, IsLatest
<1>12. \A i \in 1 .. n : /\ found[kind][i].state # "malformed"
                         /\ kind # "package" => Fits(found[kind][i])
  BY <1>3 DEF LoadedTo
<1>13. \A g : Fits(g)' <=> Fits(g)
  BY SameFiles
<1>14. LoadedTo(kind, n)'
  BY <1>11, <1>12, <1>13 DEF LoadedTo
<1> QED
  BY <1>1, <1>14

\* What nothing but a step of a kind changes stays loaded.
LEMMA StaysLoaded ==
  ASSUME NEW kind, NEW n, UNCHANGED <<files, found>>, project'[kind] = project[kind],
         LoadedTo(kind, n)
  PROVE  LoadedTo(kind, n)'
<1>1. \A g : Fits(g)' <=> Fits(g)
  BY SameFiles
<1>2. HasLatest(kind, n)'
  BY DEF LoadedTo, HasLatest, IsLatest
<1> QED
  BY <1>1, <1>2 DEF LoadedTo

\* The file in hand is one that was found.
LEMMA InHand ==
  ASSUME LoadInv, phase \in Kinds, next <= Len(found[phase])
  PROVE  /\ found[phase][next] \in Found(phase) /\ found[phase][next] \in AllFiles[phase]
         /\ next \in 1 .. Len(found[phase]) /\ next \in Nat /\ next >= 1
         /\ next + 1 \in 1 .. Len(found[phase]) + 1 /\ (next + 1) - 1 = next
<1>1. Listed(phase) /\ next \in 1 .. Len(found[phase]) + 1
      /\ files[phase] \subseteq AllFiles[phase]
  BY DEF LoadInv, Frame
<1>2. Len(found[phase]) \in Nat
  BY <1>1 DEF Listed
<1>3. next \in 1 .. Len(found[phase])
  BY <1>1, <1>2
<1>4. found[phase][next] \in Found(phase)
  BY <1>1, <1>3 DEF Listed
<1>5. found[phase][next] \in AllFiles[phase]
  BY <1>1, <1>4 DEF Found
<1> QED
  BY <1>2, <1>3, <1>4, <1>5

LEMMA PackageStep == ASSUME LoadInv, LoadPackage PROVE LoadInv'
<1> DEFINE f == found["package"][next]
<1>1. /\ phase = "package" /\ phase \in Kinds /\ next <= Len(found["package"])
      /\ UNCHANGED <<files, found>>
  BY DEF LoadPackage, Kinds
<1>2. /\ f \in Found("package") /\ f.packages = {} /\ f.games = {}
      /\ next \in 1 .. Len(found["package"]) /\ next \in Nat /\ next >= 1
      /\ next + 1 \in 1 .. Len(found["package"]) + 1 /\ (next + 1) - 1 = next
  BY <1>1, InHand, FilesAssumption
<1>3. LoadedTo("package", next - 1) /\ PackagesTo(next - 1) /\ DOMAIN project = Kinds
      /\ project["game"] = <<>> /\ project["proof"] = <<>>
      /\ result = "none" /\ \A kind \in Kinds : Listed(kind)
  BY <1>1 DEF LoadInv, Frame, Progress
<1>4. CASE f.state = "malformed"
  <2>1. ~Loadable
    BY <1>1, <1>2, <1>4 DEF Loadable, IsLoadable
  <2>2. Fail("parse")
    BY <1>4 DEF LoadPackage
  <2> QED
    BY <1>1, <2>1, <2>2, FailStep
<1>5. CASE f.state # "malformed" /\ RedefinesPackage(f)
  <2>1. PICK i \in 1 .. next - 1 : f.name = found["package"][i].name
    BY <1>3, <1>5 DEF RedefinesPackage, LoadedTo, HasLatest
  <2>2. i \in 1 .. Len(found["package"]) /\ i # next
    BY <1>2
  <2>3. found["package"][i] \in Found("package") /\ found["package"][i] # f
    BY <1>2, <1>3, <2>2 DEF Listed, Kinds
  <2>4. ~Loadable
    BY <1>2, <2>1, <2>3 DEF Loadable, IsLoadable, DistinctNames
  <2>5. Fail("redefined")
    BY <1>5 DEF LoadPackage
  <2> QED
    BY <1>1, <2>4, <2>5, FailStep
<1>6. CASE f.state # "malformed" /\ ~RedefinesPackage(f)
  <2>1. /\ project' = [project EXCEPT !["package"] = Insert(@, f)]
        /\ next' = next + 1 /\ UNCHANGED <<phase, result>>
    BY <1>6 DEF LoadPackage
  <2>2. PICK n \in Nat : n = next
    BY <1>2
  <2>3. /\ LoadedTo("package", n)' /\ DOMAIN project' = Kinds
        /\ project'["package"] = Insert(project["package"], f)
        /\ \A k \in Kinds \ {"package"} : project'[k] = project[k]
    BY <1>1, <1>2, <1>3, <1>6, <2>1, <2>2, JoinStep
  <2>4. PackagesTo(n)'
    <3> DEFINE old == project["package"]
    <3>1. \A i \in 1 .. n : i \in 1 .. n - 1 \/ i = n
      BY <1>2, <2>2
    <3>2. \A i \in 1 .. n - 1 : /\ found["package"][i].name \in DOMAIN old
                                /\ found["package"][i].name # f.name
      BY <1>3, <1>6, <2>2 DEF RedefinesPackage, LoadedTo, HasLatest
    <3>3. Insert(old, f)[f.name] = f
      BY Inserted
    <3>4. \A m \in DOMAIN old \ {f.name} : Insert(old, f)[m] = old[m]
      BY Inserted
    <3>5. \A i \in 1 .. n : project'["package"][found["package"][i].name] = found["package"][i]
      BY <1>3, <2>2, <2>3, <3>1, <3>2, <3>3, <3>4 DEF PackagesTo
    <3>6. \A i, j \in 1 .. n : found["package"][i].name = found["package"][j].name => i = j
      BY <1>3, <2>2, <3>1, <3>2 DEF PackagesTo
    <3> QED
      BY <1>1, <3>5, <3>6 DEF PackagesTo
  <2>5. LoadedTo("package", next - 1)' /\ PackagesTo(next - 1)'
    <3>1. n = (next - 1)'
      BY <1>2, <2>1, <2>2
    <3> QED
      BY <2>3, <2>4, <3>1 DEF LoadedTo, HasLatest, IsLatest, PackagesTo
  <2>6. Progress'
    BY <1>1, <1>3, <2>1, <2>3, <2>5 DEF Progress, Kinds
  <2>7. \A kind \in Kinds : Listed(kind)'
    BY <1>1, <1>3 DEF Listed, Found
  <2>8. Frame'
    BY <1>1, <1>2, <2>1, <2>3, <2>7 DEF LoadInv, Frame
  <2> QED
    BY <2>6, <2>8 DEF LoadInv
<1> QED
  BY <1>4, <1>5, <1>6

LEMMA StaysAllLoaded ==
  ASSUME NEW kind, UNCHANGED <<files, found>>, project'[kind] = project[kind], AllLoaded(kind)
  PROVE  AllLoaded(kind)'
<1>1. PICK n : n = Len(found[kind])
  OBVIOUS
<1>2. LoadedTo(kind, n)'
  BY <1>1, StaysLoaded DEF AllLoaded
<1>3. LoadedTo(kind, Len(found[kind]))'
  BY <1>1, <1>2 DEF LoadedTo
<1>4. kind = "package" => PackagesTo(Len(found["package"]))'
  BY DEF AllLoaded, PackagesTo
<1> QED
  BY <1>3, <1>4 DEF AllLoaded

\* Once a kind is loaded, the project has the last file for each name.
LEMMA KindLoaded ==
  ASSUME NEW kind, Listed(kind), AllLoaded(kind)
  PROVE  project[kind] = Latest(kind)
<1>1. PICK n \in Nat : n = Len(found[kind])
  BY DEF Listed
<1>2. HasLatest(kind, n)
  BY <1>1 DEF AllLoaded, LoadedTo
<1> QED
  BY <1>1, <1>2, HasLatestOf DEF Latest

\* A game or proof file is read with the packages and games found last.
LEMMA ResolvesIfFits ==
  ASSUME LoadInv, phase \in {"game", "proof"}, NEW f \in AllFiles[phase]
  PROVE  Resolves(f) <=> Fits(f)
<1>1. \A kind \in Kinds : Listed(kind)
  BY DEF LoadInv, Frame, Kinds
<1>2. project["package"] = Latest("package")
  BY <1>1, KindLoaded DEF LoadInv, Progress, Kinds
<1>3. CASE phase = "game"
  <2>1. f.games = {}
    BY <1>3, FilesAssumption
  <2> QED
    BY <1>2, <2>1 DEF Resolves, Fits, Accepts
<1>4. CASE phase = "proof"
  <2>1. project["game"] = Latest("game")
    BY <1>1, <1>4, KindLoaded DEF LoadInv, Progress, Kinds
  <2> QED
    BY <1>2, <2>1 DEF Resolves, Fits
<1> QED
  BY <1>3, <1>4

LEMMA FileStep ==
  ASSUME LoadInv, NEW kind \in {"game", "proof"}, LoadFile(kind)
  PROVE  LoadInv'
<1> DEFINE f == found[kind][next]
<1>1. /\ phase = kind /\ phase \in Kinds /\ next <= Len(found[kind])
      /\ UNCHANGED <<files, found>> /\ phase \in {"game", "proof"}
  BY DEF LoadFile, Kinds
<1>2. /\ f \in Found(kind) /\ f \in AllFiles[kind]
      /\ next \in 1 .. Len(found[kind]) /\ next \in Nat /\ next >= 1
      /\ next + 1 \in 1 .. Len(found[kind]) + 1 /\ (next + 1) - 1 = next
  BY <1>1, InHand
<1>3. DOMAIN project = Kinds /\ result = "none" /\ \A k \in Kinds : Listed(k)
      /\ AllLoaded("package") /\ LoadedTo(kind, next - 1)
  BY <1>1 DEF LoadInv, Frame, Progress
<1>4. Resolves(f) <=> Fits(f)
  BY <1>1, <1>2, ResolvesIfFits
<1>5. CASE f.state = "malformed" \/ ~Resolves(f)
  <2>1. ~Loadable
    BY <1>1, <1>2, <1>4, <1>5 DEF Loadable, IsLoadable, Fits
  <2>2. Fail("parse")
    BY <1>5 DEF LoadFile
  <2> QED
    BY <1>1, <2>1, <2>2, FailStep
<1>6. CASE ~(f.state = "malformed" \/ ~Resolves(f))
  <2>1. /\ project' = [project EXCEPT ![kind] = Insert(@, f)]
        /\ next' = next + 1 /\ UNCHANGED <<phase, result>>
    BY <1>6 DEF LoadFile
  <2>2. PICK n \in Nat : n = next
    BY <1>2
  <2>3. /\ LoadedTo(kind, n)' /\ DOMAIN project' = Kinds
        /\ \A k \in Kinds \ {kind} : project'[k] = project[k]
    BY <1>1, <1>2, <1>3, <1>4, <1>6, <2>1, <2>2, JoinStep
  <2>4. LoadedTo(kind, next - 1)'
    <3>1. n = (next - 1)'
      BY <1>2, <2>1, <2>2
    <3> QED
      BY <2>3, <3>1 DEF LoadedTo, HasLatest, IsLatest
  <2>5. \A k \in Kinds \ {kind} : AllLoaded(k) => AllLoaded(k)'
    BY <1>1, <2>3, StaysAllLoaded
  <2>6. ASSUME kind = "game" PROVE Progress'
    <3>1. project["proof"] = <<>>
      BY <1>1, <2>6 DEF LoadInv, Progress
    <3>2. phase' = "game" /\ LoadedTo("game", next - 1)' /\ AllLoaded("package")'
      BY <1>1, <1>3, <2>1, <2>4, <2>5, <2>6 DEF Kinds
    <3>3. project'["proof"] = <<>>
      BY <2>3, <2>6, <3>1 DEF Kinds
    <3> QED
      BY <1>3, <2>1, <3>2, <3>3 DEF Progress
  <2>7. ASSUME kind = "proof" PROVE Progress'
    <3>1. AllLoaded("game")
      BY <1>1, <2>7 DEF LoadInv, Progress
    <3>2. /\ phase' = "proof" /\ LoadedTo("proof", next - 1)'
          /\ AllLoaded("package")' /\ AllLoaded("game")'
      BY <1>1, <1>3, <2>1, <2>4, <2>5, <2>7, <3>1 DEF Kinds
    <3> QED
      BY <1>3, <2>1, <3>2 DEF Progress
  <2>8. \A k \in Kinds : Listed(k)'
    <3>1. ASSUME NEW k \in Kinds PROVE Listed(k)'
      BY <1>1, <1>3, <3>1 DEF Listed, Found
    <3> QED
      BY <3>1
  <2>9. Frame'
    BY <1>1, <1>2, <1>3, <2>1, <2>3, <2>8 DEF LoadInv, Frame
  <2> QED
    BY <2>6, <2>7, <2>9 DEF LoadInv
<1> QED
  BY <1>5, <1>6

LEMMA AdvanceStep == ASSUME LoadInv, Advance PROVE LoadInv'
<1>1. /\ phase \in Kinds /\ next > Len(found[phase]) /\ next' = 1 /\ result = "none"
      /\ phase' = NextKind(phase) /\ UNCHANGED <<files, found, project>>
      /\ result' = IF phase' = "done" THEN "ok" ELSE result
  BY DEF Advance, LoadInv, Frame, Kinds
<1>2. \A kind \in Kinds : Listed(kind) /\ Listed(kind)' /\ Len(found[kind]) \in Nat
  BY <1>1 DEF LoadInv, Frame, Listed, Found
<1>3. next - 1 = Len(found[phase])
  BY <1>1, <1>2 DEF LoadInv, Frame
<1>4. AllLoaded(phase)
  BY <1>1, <1>3 DEF LoadInv, Progress, AllLoaded, Kinds
<1>5. \A kind \in Kinds : AllLoaded(kind) => AllLoaded(kind)'
  BY <1>1, StaysAllLoaded
<1>6. phase' = IF phase = "package" THEN "game" ELSE IF phase = "game" THEN "proof" ELSE "done"
  BY <1>1 DEF NextKind
<1>7. next' - 1 = 0
  BY <1>1
<1>8. \A kind \in Kinds : project[kind] = <<>> => LoadedTo(kind, 0)'
  BY <1>1 DEF LoadedTo, HasLatest
<1>9. Frame'
  BY <1>1, <1>2, <1>6 DEF LoadInv, Frame, Kinds
<1>10. CASE phase = "package"
  <2>1. project["game"] = <<>> /\ project["proof"] = <<>>
    BY <1>10 DEF LoadInv, Progress
  <2>2. LoadedTo("game", next - 1)'
    BY <1>1, <1>7, <1>8, <2>1 DEF LoadedTo, HasLatest, IsLatest, Kinds
  <2> QED
    BY <1>1, <1>4, <1>5, <1>6, <1>9, <1>10, <2>1, <2>2 DEF LoadInv, Progress, Kinds
<1>11. CASE phase = "game"
  <2>1. AllLoaded("package") /\ project["proof"] = <<>>
    BY <1>11 DEF LoadInv, Progress
  <2>2. LoadedTo("proof", next - 1)'
    BY <1>1, <1>7, <1>8, <2>1 DEF LoadedTo, HasLatest, IsLatest, Kinds
  <2> QED
    BY <1>1, <1>4, <1>5, <1>6, <1>9, <1>11, <2>1, <2>2 DEF LoadInv, Progress, Kinds
<1>12. CASE phase = "proof"
  <2>1. AllLoaded("package") /\ AllLoaded("game")
    BY <1>12 DEF LoadInv, Progress
  <2> QED
    BY <1>1, <1>4, <1>5, <1>6, <1>9, <1>12, <2>1 DEF LoadInv, Progress, Kinds
<1> QED
  BY <1>1, <1>10, <1>11, <1>12 DEF Kinds

LEMMA LoadStep == LoadInv /\ [Next]_vars => LoadInv'
<1> SUFFICES ASSUME LoadInv, [Next]_vars PROVE LoadInv'
  OBVIOUS
<1>1. CASE UNCHANGED vars
  <2>1. UNCHANGED <<files, found, phase, next, project, result>>
    BY <1>1 DEF vars
  <2>2. \A kind \in Kinds : (Listed(kind) => Listed(kind)') /\ (AllLoaded(kind) => AllLoaded(kind)')
    BY <2>1, StaysAllLoaded DEF Listed, Found
  <2>3. Frame'
    BY <2>1, <2>2 DEF LoadInv, Frame
  <2>4. Unloadable' <=> Unloadable
    BY <2>1, SameFiles
  <2>5. \A kind \in Kinds : LoadedTo(kind, next - 1) => LoadedTo(kind, next - 1)'
    <3>1. \A g : Fits(g)' <=> Fits(g)
      BY <2>1, SameFiles
    <3> QED
      BY <2>1, <3>1 DEF LoadedTo, HasLatest, IsLatest
  <2>6. PackagesTo(next - 1) => PackagesTo(next - 1)'
    BY <2>1 DEF PackagesTo
  <2>7. Progress'
    BY <2>1, <2>2, <2>4, <2>5, <2>6 DEF LoadInv, Progress, Kinds
  <2> QED
    BY <2>3, <2>7 DEF LoadInv
<1> QED
  BY <1>1, FindStep, PackageStep, FileStep, AdvanceStep DEF Next, Done

LEMMA LoadInvariant == Spec => []LoadInv
BY LoadInit, LoadStep, PTL DEF Spec

\* Files::load and Project::load succeed exactly if no two packages share a
\* name, every file is good, and every game or proof can be read with the
\* packages found and, for each name of a game, the game of that name found last.
\* Where games have names of their own, the order of the files decides nothing.
THEOREM LastGamesDecide == Spec => []OnlyTheLastGameMatters
<1>1. ASSUME LoadInv, result = "ok" PROVE Loadable /\ \A kind \in Kinds : Listed(kind)
  <2>1. \A kind \in Kinds : Listed(kind) /\ AllLoaded(kind)
    BY <1>1 DEF LoadInv, Frame, Progress
  <2>2. ASSUME NEW kind \in Kinds, NEW f \in Found(kind)
        PROVE  f.state = "good" /\ (kind # "package" => Fits(f))
    <3>1. PICK i \in 1 .. Len(found[kind]) : found[kind][i] = f
      BY <2>1 DEF Listed
    <3>2. f.state # "malformed" /\ (kind # "package" => Fits(f))
      BY <2>1, <3>1 DEF AllLoaded, LoadedTo
    <3>3. f.state \in States /\ f.state \notin {"hidden", "unreadable"}
      <4>1. f \in AllFiles[kind] /\ f.state # "hidden"
        BY <1>1 DEF LoadInv, Frame, Found
      <4>2. f.state # "unreadable"
        BY <2>1 DEF Listed
      <4> QED
        BY <4>1, <4>2, FilesAssumption
    <3> QED
      BY <3>2, <3>3 DEF States
  <2>3. ASSUME NEW f \in Found("package"), NEW g \in Found("package"), f.name = g.name
        PROVE  f = g
    <3>1. Listed("package") /\ PackagesTo(Len(found["package"]))
      BY <2>1 DEF AllLoaded, Kinds
    <3>2. PICK i, j \in 1 .. Len(found["package"]) :
            found["package"][i] = f /\ found["package"][j] = g
      BY <3>1 DEF Listed
    <3> QED
      BY <2>3, <3>1, <3>2 DEF PackagesTo
  <2> QED
    BY <2>1, <2>2, <2>3 DEF Loadable, IsLoadable, DistinctNames, Fits
<1>2. ASSUME LoadInv PROVE OnlyTheLastGameMatters
  <2>1. CASE result = "ok"
    BY <1>1, <1>2, <2>1, NotLoadable DEF OnlyTheLastGameMatters, Loadable
  <2>2. CASE result \notin {"none", "ok"}
    <3>1. Unloadable
      BY <1>2, <2>2 DEF LoadInv, Progress
    <3> QED
      BY <2>2, <3>1 DEF OnlyTheLastGameMatters, Unloadable, Loadable
  <2> QED
    BY <2>1, <2>2 DEF OnlyTheLastGameMatters
<1> QED
  BY <1>2, LoadInvariant, PTL

\* Every package file found is in a loaded project: Files::packages refuses a
\* second package of a name instead of replacing the first.
THEOREM PackagesLoaded == Spec => []EveryPackageLoaded
<1>1. ASSUME LoadInv, result = "ok"
      PROVE  {project["package"][n] : n \in DOMAIN project["package"]} = Found("package")
  <2>1. /\ Listed("package") /\ PackagesTo(Len(found["package"]))
        /\ LoadedTo("package", Len(found["package"]))
    BY <1>1 DEF LoadInv, Frame, Progress, AllLoaded, Kinds
  <2>2. ASSUME NEW n \in DOMAIN project["package"] PROVE project["package"][n] \in Found("package")
    <3>1. PICK i \in 1 .. Len(found["package"]) : n = found["package"][i].name
      BY <2>1 DEF LoadedTo, HasLatest
    <3> QED
      BY <2>1, <3>1 DEF PackagesTo, Listed
  <2>3. ASSUME NEW f \in Found("package")
        PROVE  \E n \in DOMAIN project["package"] : project["package"][n] = f
    <3>1. PICK i \in 1 .. Len(found["package"]) : found["package"][i] = f
      BY <2>1 DEF Listed
    <3>2. f.name \in DOMAIN project["package"] /\ project["package"][f.name] = f
      BY <2>1, <3>1 DEF LoadedTo, HasLatest, PackagesTo
    <3> QED
      BY <3>2
  <2> QED
    BY <2>2, <2>3
<1>2. LoadInv => EveryPackageLoaded
  BY <1>1 DEF EveryPackageLoaded
<1> QED
  BY <1>2, LoadInvariant, PTL
=============================================================================
