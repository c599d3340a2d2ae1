----------------------------- MODULE LoadProject -----------------------------
(***************************************************************************)
(* Loading a project: Files::load and Project::load                        *)
(* (src/src/project/mod.rs) with load::games and load::proofs              *)
(* (src/src/project/load.rs).                                              *)
(*                                                                         *)
(* The files of packages, games and proofs are found in the order of       *)
(* WalkDir, which is the file system's.  A file is a record of the name it *)
(* defines, the packages and games it names, the sets of files it can be   *)
(* read with as those packages and games, and what reading it does.        *)
(***************************************************************************)
EXTENDS Integers, Sequences, FiniteSets, SequencesExt

CONSTANTS
  AllFiles  \* [Kinds -> set of [file, name, packages, games, fits, state]]

Kinds == {"package", "game", "proof"}
States == {"good",        \* parses, given files it fits
           "malformed",   \* does not
           "unreadable",  \* cannot be read, or is not UTF-8
           "hidden"}      \* lies where WalkDir returns an error

ASSUME FilesAssumption ==
  /\ DOMAIN AllFiles = Kinds
  /\ \A kind \in Kinds : \A f \in AllFiles[kind] : f.state \in States
  /\ \A kind \in Kinds : IsFiniteSet(AllFiles[kind])
  /\ \A f \in AllFiles["package"] : f.packages = {}  \* imports name no package
  /\ \A f \in AllFiles["package"] \cup AllFiles["game"] : f.games = {}

VARIABLES
  files,      \* [Kinds -> the files in the directory of that kind]
  found,      \* [Kinds -> sequence of the files found]
  phase,      \* "find", a kind, or "done"
  next,       \* index of the next file of that kind
  project,    \* [Kinds -> [name -> file]]
  result      \* "none", "ok", or the kind of error

vars == <<files, found, phase, next, project, result>>

\* variant: the first file of a name stays
InsertNew(map, f) == [n \in DOMAIN map \cup {f.name} |-> IF n \in DOMAIN map THEN map[n] ELSE f]
\* HashMap::insert: a name known already gets the new file.
Insert(map, f) == [n \in DOMAIN map \cup {f.name} |-> IF n = f.name THEN f ELSE map[n]]

-----------------------------------------------------------------------------
Init ==
  /\ files \in [Kinds -> UNION {SUBSET AllFiles[kind] : kind \in Kinds}]
  /\ \A kind \in Kinds : files[kind] \subseteq AllFiles[kind]
  /\ found = [kind \in Kinds |-> <<>>] /\ phase = "find" /\ next = 1
  /\ project = [kind \in Kinds |-> <<>>] /\ result = "none"

Fail(e) == phase' = "done" /\ result' = e /\ UNCHANGED <<next, project>>
Found(kind) == {f \in files[kind] : f.state # "hidden"}

\* Files::load reads every .ssp file below the three directories, a directory
\* that does not exist having none.  Entries that WalkDir cannot enter are
\* skipped; a file that cannot be read is an error.
Find ==
  /\ phase = "find"
  /\ \E ps \in SetToSeqs(Found("package")), gs \in SetToSeqs(Found("game")),
        rs \in SetToSeqs(Found("proof")) :
       found' = [kind \in Kinds |-> IF kind = "package" THEN ps
                                   ELSE IF kind = "game" THEN gs ELSE rs]
  /\ UNCHANGED files
  /\ IF \E kind \in Kinds : \E f \in Found(kind) : f.state = "unreadable"
       THEN Fail("io")
       ELSE phase' = "package" /\ UNCHANGED <<next, project, result>>

\* variant: packages are overwritten like games
KnownPackage(f) == FALSE
\* Files::packages remembers the names it has seen.
RedefinesPackage(f) == f.name \in DOMAIN project["package"]

LoadPackage ==
  /\ phase = "package" /\ next <= Len(found["package"])
  /\ LET f == found["package"][next] IN
     IF f.state = "malformed" THEN Fail("parse")
     ELSE IF RedefinesPackage(f) THEN Fail("redefined")
     ELSE /\ project' = [project EXCEPT !["package"] = Insert(@, f)]
          /\ next' = next + 1 /\ UNCHANGED <<phase, result>>
  /\ UNCHANGED <<files, found>>

\* handle_composition and handle_proof look up by name what the file uses, and
\* check the instances it declares against what they get: that there is such a
\* package or game, its constants and their types, the oracles it needs.
Accepts(f, ps, gs) ==
  /\ f.packages \subseteq DOMAIN ps /\ f.games \subseteq DOMAIN gs
  /\ {ps[n].file : n \in f.packages} \cup {gs[n].file : n \in f.games} \in f.fits
Resolves(f) == Accepts(f, project["package"], project["game"])

\* A game or proof takes the place of an earlier one of its name.
LoadFile(kind) ==
  /\ phase = kind /\ next <= Len(found[kind])
  /\ LET f == found[kind][next] IN
     IF f.state = "malformed" \/ ~Resolves(f) THEN Fail("parse")
     ELSE /\ project' = [project EXCEPT ![kind] = Insert(@, f)]
          /\ next' = next + 1 /\ UNCHANGED <<phase, result>>
  /\ UNCHANGED <<files, found>>

NextKind(kind) ==
  IF kind = "package" THEN "game" ELSE IF kind = "game" THEN "proof" ELSE "done"

Advance ==
  /\ phase \in Kinds /\ next > Len(found[phase])
  /\ phase' = NextKind(phase) /\ next' = 1
  /\ result' = IF phase' = "done" THEN "ok" ELSE result
  /\ UNCHANGED <<files, found, project>>

Done == phase = "done" /\ UNCHANGED vars

Next == Find \/ LoadPackage \/ LoadFile("game") \/ LoadFile("proof") \/ Advance \/ Done

Spec == Init /\ [][Next]_vars
-----------------------------------------------------------------------------
(* Properties. *)

\* The last of the first n files of a kind, for each name among them.
LatestOf(kind, n) ==
  [name \in {found[kind][i].name : i \in 1 .. n} |->
     found[kind][CHOOSE i \in 1 .. n :
       found[kind][i].name = name /\ \A j \in i + 1 .. n : found[kind][j].name # name]]
Latest(kind) == LatestOf(kind, Len(found[kind]))

\* What loading needs of the files found, given the packages and games that
\* names stand for, said without an order.
DistinctNames(kind) == \A f, g \in Found(kind) : f.name = g.name => f = g
IsLoadable(ps, gs) ==
  /\ \A kind \in Kinds : \A f \in Found(kind) :
       f.state = "good" /\ (kind # "package" => Accepts(f, ps, gs))
  /\ DistinctNames("package")

\* Where files have names of their own, the file of each name.
Named(kind) ==
  [name \in {f.name : f \in Found(kind)} |-> CHOOSE f \in Found(kind) : f.name = name]

\* Each file is resolved against those loaded before it; yet whether the project
\* loads is decided by what was found and, of several games with one name, by
\* which comes last, the only one a proof is checked against.  So the order in
\* which the file system lists two games of one name can decide; where games
\* have names of their own no order does.
OnlyTheLastGameMatters ==
  result # "none" =>
    /\ result = "ok" <=> IsLoadable(Latest("package"), Latest("game"))
    /\ DistinctNames("game") =>
         (result = "ok" <=> IsLoadable(Named("package"), Named("game")))

\* Every package file found is in the project: none takes another's place.
EveryPackageLoaded ==
  result = "ok" => {project["package"][n] : n \in DOMAIN project["package"]} = Found("package")
=============================================================================
