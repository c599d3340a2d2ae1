------------------------- MODULE FormatFilesProofs -------------------------
(***************************************************************************)
(* Proofs that domino format leaves no file half written and prints none   *)
(* more than twice, for every directory and everything that parsing and    *)
(* printing may make of a text.                                            *)
(***************************************************************************)
EXTENDS FormatFiles, TLAPS

\* What is printed for a text, for what the file held at first, and for that again.
PrintedFor(file, text) == OutcomeOf(file, text).printed
Once(file) == PrintedFor(file, original[file])
Twice(file) == PrintedFor(file, Once(file))

-----------------------------------------------------------------------------
(* The inductive invariant: a file still to come has been printed once at     *)
(* most, the file in hand is not to come again before it is replaced, and a   *)
(* temporary file with a text holds what is printed for the file in hand.     *)

PrintedAtMostOnce(file) == disk[file] \in {original[file], Once(file)}
PrintedAtMostTwice(file) ==
  \/ PrintedAtMostOnce(file)
  \/ disk[file] = Twice(file) /\ OutcomeOf(file, Once(file)).parses

WholeFiles == \A file \in Files : PrintedAtMostTwice(file)
InOrder ==
  /\ \A file \in Files : file \in entries \cup again \cup at => PrintedAtMostOnce(file)
  /\ at \cap (entries \cup again) = {}
WholeTemp ==
  temp \notin {<<>>, << <<>> >>} =>
    \E file \in Files : /\ at = {file} /\ OutcomeOf(file, disk[file]).parses
                        /\ temp = <<PrintedFor(file, disk[file])>>
Whole == DOMAIN disk = Files /\ original \in Directories /\ WholeFiles /\ InOrder /\ WholeTemp

LEMMA WholeInit == Init => Whole
BY OutcomesAssumption
DEF Init, Whole, WholeFiles, WholeTemp, InOrder, PrintedAtMostOnce, PrintedAtMostTwice

\* A step that writes no file and has no more files to come than before.
LEMMA NothingWritten ==
  ASSUME Whole, UNCHANGED <<original, disk>>,
         entries' \subseteq entries, again' \subseteq again,
         at' = {} \/ at' = at \/ at' \subseteq (entries \cup again) \ (entries' \cup again'),
         WholeTemp'
  PROVE  Whole'
<1>1. \A file \in Files : /\ PrintedAtMostOnce(file)' <=> PrintedAtMostOnce(file)
                          /\ PrintedAtMostTwice(file)' <=> PrintedAtMostTwice(file)
  BY DEF PrintedAtMostOnce, PrintedAtMostTwice, Once, Twice
<1>2. InOrder'
  BY <1>1 DEF Whole, InOrder
<1> QED
  BY <1>1, <1>2 DEF Whole, WholeFiles

\* EndWith drops the temporary file and leaves the others.
LEMMA EndsWhole == ASSUME Whole, NEW how, EndWith(how) PROVE Whole'
<1>1. WholeTemp'
  BY DEF EndWith, WholeTemp
<1> QED
  BY <1>1, NothingWritten DEF EndWith

\* A file that is replaced had been printed once at most, and only one that was not
\* printed at all is listed again.
LEMMA PersistStep ==
  ASSUME Whole, NEW file \in Files, Persist(file)
  PROVE  Whole'
<1>1. /\ at = {file} /\ at' = {} /\ temp \notin {<<>>, << <<>> >>} /\ temp' = <<>>
      /\ UNCHANGED <<original, entries>>
      /\ disk' = [disk EXCEPT ![file] = temp[1]]
  BY DEF Persist
<1>2. OutcomeOf(file, disk[file]).parses /\ temp = <<PrintedFor(file, disk[file])>>
  <2>1. PICK f \in Files : /\ at = {f} /\ OutcomeOf(f, disk[f]).parses
                           /\ temp = <<PrintedFor(f, disk[f])>>
    BY <1>1 DEF Whole, WholeTemp
  <2>2. f = file
    BY <1>1, <2>1
  <2> QED
    BY <2>1, <2>2
<1>3. disk'[file] = PrintedFor(file, disk[file]) /\ DOMAIN disk' = Files
      /\ \A f \in Files \ {file} : disk'[f] = disk[f]
  BY <1>1, <1>2 DEF Whole
<1>4. \A f \in Files : Once(f)' = Once(f) /\ Twice(f)' = Twice(f)
  BY <1>1 DEF Once, Twice
<1>5. \A f \in Files \ {file} : /\ PrintedAtMostOnce(f)' <=> PrintedAtMostOnce(f)
                                /\ PrintedAtMostTwice(f)' <=> PrintedAtMostTwice(f)
  BY <1>1, <1>3, <1>4 DEF PrintedAtMostOnce, PrintedAtMostTwice
<1>6. PrintedAtMostOnce(file)
  BY <1>1 DEF Whole, InOrder
<1>7. CASE disk[file] = original[file]
  <2>1. PrintedAtMostOnce(file)'
    BY <1>1, <1>3, <1>4, <1>7 DEF PrintedAtMostOnce, Once
  <2>2. again' \subseteq again \cup {file}
    BY DEF Persist
  <2>3. InOrder' /\ WholeFiles'
    BY <1>1, <1>5, <2>1, <2>2 DEF Whole, InOrder, WholeFiles, PrintedAtMostTwice
  <2> QED
    BY <1>1, <1>3, <2>3 DEF Whole, WholeTemp
<1>8. CASE disk[file] # original[file]
  <2>1. disk[file] = Once(file)
    BY <1>6, <1>8 DEF PrintedAtMostOnce
  <2>2. PrintedAtMostTwice(file)'
    BY <1>2, <1>3, <1>4, <2>1 DEF PrintedAtMostTwice, Twice
  <2>3. again' = again
    BY <1>8 DEF Persist
  <2>4. file \notin entries \cup again
    BY <1>1 DEF Whole, InOrder
  <2>5. InOrder' /\ WholeFiles'
    BY <1>1, <1>5, <2>2, <2>3, <2>4 DEF Whole, InOrder, WholeFiles
  <2> QED
    BY <1>1, <1>3, <2>5 DEF Whole, WholeTemp
<1> QED
  BY <1>7, <1>8

LEMMA WholeStep == ASSUME Whole, [Next]_vars PROVE Whole'
<1>1. ASSUME NEW file \in Files, Open(file) PROVE Whole'
  <2>1. CASE EndWith("failed")
    BY <2>1, EndsWhole
  <2>2. CASE /\ at = {} /\ file \in entries \cup again
             /\ at' = {file} /\ temp' = << <<>> >>
             /\ entries' = entries \ {file} /\ again' = again \ {file}
             /\ UNCHANGED <<original, disk>>
    <3>1. WholeTemp'
      BY <2>2 DEF WholeTemp
    <3> QED
      BY <2>2, <3>1, NothingWritten
  <2> QED
    BY <1>1, <2>1, <2>2 DEF Open
<1>2. ASSUME NEW file \in Files, Skip(file) PROVE Whole'
  <2>1. WholeTemp'
    BY <1>2 DEF Skip, WholeTemp
  <2> QED
    BY <1>2, <2>1, NothingWritten DEF Skip
<1>3. ASSUME NEW file \in Files, Format(file) PROVE Whole'
  <2>1. at = {file} /\ PrintToTemp(file, OutcomeOf(file, disk[file]))
    BY <1>3 DEF Format
  <2>2. CASE EndWith("failed") \/ EndWith("panicked")
    BY <2>2, EndsWhole
  <2>3. CASE /\ OutcomeOf(file, disk[file]).parses
             /\ temp' = <<OutcomeOf(file, disk[file]).printed>>
             /\ UNCHANGED <<original, disk, entries, again, at>>
    <3>1. WholeTemp'
      BY <2>1, <2>3 DEF WholeTemp, PrintedFor
    <3> QED
      BY <2>3, <3>1, NothingWritten
  <2> QED
    BY <2>1, <2>2, <2>3 DEF PrintToTemp
<1>4. ASSUME NEW file \in Files, Persist(file) PROVE Whole'
  BY <1>4, PersistStep
<1>5. CASE Finished
  BY <1>5, EndsWhole DEF Finished
<1>6. CASE UNCHANGED <<original, disk, entries, again, at, temp>>
  <2>1. WholeTemp'
    BY <1>6 DEF Whole, WholeTemp
  <2> QED
    BY <1>6, <2>1, NothingWritten
<1> QED
  BY <1>1, <1>2, <1>3, <1>4, <1>5, <1>6 DEF Next, Kill, vars

LEMMA WholeInvariant == Spec => []Whole
<1>1. Init => Whole
  BY WholeInit
<1>2. Whole /\ [Next]_vars => Whole'
  BY WholeStep
<1> QED
  BY <1>1, <1>2, PTL DEF Spec

-----------------------------------------------------------------------------
(* The theorems. *)

\* Killed, failed or panicked at any point, and whichever files the directory lists
\* twice: every file holds the whole of a text, namely what it held, or what is printed
\* for that, or for this (format_file prints to a temporary file and renames it).
NothingHalfWritten == \A file \in Files : PrintedAtMostTwice(file)

\* No file is left half printed, for any printer: nothing is asked of format_file's
\* outcomes but that they are functions of the text.
THEOREM WholeTexts == Spec => []NothingHalfWritten
<1>1. Whole => NothingHalfWritten
  BY DEF Whole, WholeFiles, NothingHalfWritten
<1> QED
  BY <1>1, WholeInvariant, PTL

\* A text that was printed, where it is printed once more, stays.
PrintingSettles ==
  \A dir \in Directories, file \in Files :
    LET once == PrintedFor(file, dir[file]) IN
    OutcomeOf(file, once).parses => PrintedFor(file, once) = once

\* Where the printer settles, a file that was listed twice is printed as if it had been
\* listed once.
THEOREM StayWhole ==
  ASSUME PrintingSettles
  PROVE  Spec => []FilesStayWhole
<1>1. ASSUME Whole PROVE FilesStayWhole
  <2>1. ASSUME NEW file \in Files, disk[file] # original[file]
        PROVE  disk[file] = PrintedFor(file, original[file])
    <3>1. PrintedAtMostTwice(file) /\ original \in Directories
      BY <1>1 DEF Whole, WholeFiles
    <3>2. CASE PrintedAtMostOnce(file)
      BY <2>1, <3>2 DEF PrintedAtMostOnce, Once
    <3>3. CASE disk[file] = Twice(file) /\ OutcomeOf(file, Once(file)).parses
      BY <3>1, <3>3 DEF PrintingSettles, Once, Twice
    <3> QED
      BY <3>1, <3>2, <3>3 DEF PrintedAtMostTwice
  <2> QED
    BY <2>1 DEF FilesStayWhole, Replaced, PrintedFor
<1> QED
  BY <1>1, WholeInvariant, PTL
=============================================================================
