---------------------------- MODULE FileMigration ----------------------------
(***************************************************************************)
(* What an SSTable transfer promises, whatever runs it: the destination's  *)
(* database receives the source's files whole, each of them once, in the   *)
(* order the source lists them; the migration is declared ended after the  *)
(* last one; and a process that exits leaves what was moved as it was.     *)
(***************************************************************************)
EXTENDS Naturals, Sequences

CONSTANTS
  NumFiles,        \* number of files to move
  FileData,        \* [0 .. NumFiles - 1 -> contents of the file]
  MayStop          \* whether the destination may exit before the end

VARIABLES
  moved,   \* contents of the files the database has received, in order
  ended,   \* the migration has been declared ended
  up       \* the destination is running

migVars == <<moved, ended, up>>

MigInit == moved = <<>> /\ ended = FALSE /\ up = TRUE

MoveFile ==
  /\ up
  /\ Len(moved) < NumFiles
  /\ moved' = Append(moved, FileData[Len(moved)])
  /\ UNCHANGED <<ended, up>>

End ==
  /\ up
  /\ Len(moved) = NumFiles
  /\ ended' = TRUE
  /\ UNCHANGED <<moved, up>>

Stop ==
  /\ MayStop
  /\ up' = FALSE
  /\ UNCHANGED <<moved, ended>>

MigNext == MoveFile \/ End \/ Stop

MigSafety == MigInit /\ [][MigNext]_migVars

\* Every file is moved and the end is declared, unless the destination stops.
Migration == MigSafety /\ WF_migVars(MoveFile \/ End)

==============================================================================
