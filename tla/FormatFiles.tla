---------------------------- MODULE FormatFiles -----------------------------
(***************************************************************************)
(* domino format on a directory (format_file in src/src/format/mod.rs):    *)
(* each file is read, parsed, printed to a temporary file beside it, and   *)
(* replaced by that file.  The process may be killed between any two       *)
(* steps, and an entry that was replaced may be listed by the directory    *)
(* once more.  What parsing and printing make of a text is a parameter:    *)
(* FormattedTexts says what it is.                                         *)
(***************************************************************************)
EXTENDS Integers, Sequences

CONSTANTS
  Files,       \* the files of the directory
  KindOf,      \* what the name of a file says it is: package, composition or other
  Directories, \* the directories to start from: functions from Files to texts
  Outcomes     \* [<<file, text>> -> what becomes of the text:
               \*    [isText, parses, printed, panics] at least]

\* TLC evaluates a definition without parameters once.
OutcomeTable == Outcomes
OutcomeOf(file, text) == OutcomeTable[<<file, text>>]

\* The texts that a file may hold: those of the directories, and what is printed for them.
ASSUME OutcomesAssumption ==
  /\ KindOf \in [Files -> {"package", "composition", "other"}]
  /\ \A dir \in Directories : DOMAIN dir = Files
  /\ \A dir \in Directories, file \in Files : <<file, dir[file]>> \in DOMAIN OutcomeTable

VARIABLES
  original, \* what the files held at first
  disk,     \* what they hold
  entries,  \* the files the directory still has to list
  again,    \* replaced files that may be listed once more
  at,       \* the file in hand, if any
  temp,     \* the temporary file, if there is one: nothing written yet, or its text
  status

vars == <<original, disk, entries, again, at, temp, status>>

Init ==
  /\ original \in Directories
  /\ disk = original
  /\ entries = Files
  /\ again = {}
  /\ at = {}
  /\ temp = <<>>
  /\ status = "running"

-----------------------------------------------------------------------------

\* The rest of the directory is left alone after an error, which also removes the temporary file.
EndWith(how) == /\ status' = how
                /\ temp' = <<>>
                /\ at' = {}
                /\ UNCHANGED <<original, disk, entries, again>>

\* A file is read; one that is not text ends the walk.
Open(file) ==
  /\ status = "running" /\ at = {} /\ file \in entries \cup again
  /\ IF ~OutcomeOf(file, disk[file]).isText THEN EndWith("failed")
     ELSE /\ at' = {file}
          /\ temp' = << <<>> >>
          /\ entries' = entries \ {file}
          /\ again' = again \ {file}
          /\ UNCHANGED <<original, disk, status>>

\* Neither a package nor a game: the temporary file is dropped.
Skip(file) ==
  /\ status = "running" /\ at = {file} /\ KindOf[file] = "other"
  /\ at' = {}
  /\ temp' = <<>>
  /\ UNCHANGED <<original, disk, entries, again, status>>

\* Variant: the file itself is printed to, from its beginning.
PrintInPlace(file, outcome) ==
  /\ outcome.parses
  /\ temp' = <<outcome.printed>>
  /\ disk' = [disk EXCEPT ![file] = SubSeq(outcome.printed, 1, 2)]
  /\ UNCHANGED <<original, entries, again, at, status>>

PrintToTemp(file, outcome) ==
  IF ~outcome.parses THEN EndWith("failed")
  ELSE IF outcome.panics THEN EndWith("panicked")
  ELSE /\ temp' = <<outcome.printed>>
       /\ UNCHANGED <<original, disk, entries, again, at, status>>

\* The file is parsed and printed into the temporary file.
Format(file) ==
  /\ status = "running" /\ at = {file} /\ KindOf[file] # "other" /\ temp = << <<>> >>
  /\ PrintToTemp(file, OutcomeOf(file, disk[file]))

\* The temporary file takes the file's place.
Persist(file) ==
  /\ status = "running" /\ at = {file} /\ temp \notin {<<>>, << <<>> >>}
  /\ disk' = [disk EXCEPT ![file] = temp[1]]
  /\ again' \in {again, IF disk[file] = original[file] THEN again \cup {file} ELSE again}
  /\ at' = {}
  /\ temp' = <<>>
  /\ UNCHANGED <<original, entries, status>>

Finished == /\ status = "running" /\ at = {} /\ entries = {}
            /\ EndWith("done")

Kill == /\ status = "running"
        /\ status' = "killed"
        /\ UNCHANGED <<original, disk, entries, again, at, temp>>

Next ==
  \/ \E file \in Files : Open(file) \/ Skip(file) \/ Format(file) \/ Persist(file)
  \/ Finished
  \/ Kill

Spec == Init /\ [][Next]_vars

-----------------------------------------------------------------------------
(* Properties. *)

Replaced == {file \in Files : disk[file] # original[file]}

\* Whatever fails, panics or is killed, and however often a file is listed: each file is what
\* it was, or all of what is printed for what it was.
FilesStayWhole ==
  \A file \in Replaced : disk[file] = OutcomeOf(file, original[file]).printed
=============================================================================
