----------------------------- MODULE SnapshotLog -----------------------------
(***************************************************************************)
(* The append-only files of the local store (crates/bitbygit-store/src/    *)
(* lib.rs: write_snapshot, read_snapshot_optional).  Each write appends    *)
(* one line holding a whole snapshot; a reader takes the last line that    *)
(* decodes.                                                                *)
(*                                                                         *)
(* A line is the snapshot it decodes to, or Broken.  A file is its         *)
(* terminated lines and whether an unterminated one follows them: what is  *)
(* left of a line cut short by a crash or by a full disk, however short.   *)
(* Nothing ends that rest, so that the next line is written onto it.       *)
(***************************************************************************)
EXTENDS Naturals, Sequences

CONSTANTS
  Broken,     \* a terminated line that does not decode to a snapshot
  Unreadable  \* the result of reading a file without any usable content

EmptyFile == [lines |-> <<>>, torn |-> FALSE]

WholeLines(file) == {i \in DOMAIN file.lines : file.lines[i] # Broken}

\* Faulty variant, for trying the properties.
OldestSnapshot(file, default) ==
  IF WholeLines(file) # {}
  THEN file.lines[CHOOSE i \in WholeLines(file) : \A j \in WholeLines(file) : i <= j]
  ELSE IF file = EmptyFile THEN default ELSE Unreadable

\* A file without one decodable snapshot is taken for a file of the older format,
\* without frames; of that only the empty content parses.
ReadSnapshot(file, default) ==
  IF WholeLines(file) # {}
  THEN file.lines[CHOOSE i \in WholeLines(file) : \A j \in WholeLines(file) : j <= i]
  ELSE IF file = EmptyFile THEN default ELSE Unreadable

AppendLine(file, snapshot) ==
  [lines |-> Append(file.lines, IF file.torn THEN Broken ELSE snapshot), torn |-> FALSE]

\* What a write may leave: the whole line if it is acknowledged, and anything from
\* nothing to the whole line if it fails or the process dies in it.
WriteSnapshot(file, snapshot, acknowledged) ==
  IF acknowledged THEN {AppendLine(file, snapshot)}
  ELSE {file, [file EXCEPT !.torn = TRUE], AppendLine(file, snapshot)}

=============================================================================
