------------------------------ MODULE FileSet ------------------------------
(***************************************************************************)
(* webserver/fileset.c writes a set of files and an index of their names,  *)
(* sizes and checksums, from which webserver/client.c (init_fileset) loads *)
(* what it will ask the server for.  The generator can end anywhere, in    *)
(* the middle of a line too: it is killed, or one of the writes that       *)
(* rio_write makes fails (unix_error).  It can then be run again.          *)
(***************************************************************************)
EXTENDS Integers, Sequences

CONSTANTS
  MaxFiles, MaxRuns,   \* bounds on nr_files and on runs of the generator
  Sizes                \* of a file, in calls of write

VARIABLES
  gen,        \* the generator: "idle", or the place in its loop
  nr_files, file_nr, file_sz,   \* its variables: nr_files, i, file_sz
  run,        \* how often it has been started: a run's bytes are its own
  disk,       \* of every file: the run that wrote it, and how much of it
  header,     \* the index: its first line (0: not there),
  lines,      \* and one line for each file, of which the end may be cut off
  loaded      \* the lines the client's fileset was read from

vars == <<gen, nr_files, file_nr, file_sz, run, disk, header, lines, loaded>>
gen_vars == <<nr_files, file_nr, file_sz, run>>
index == <<header, lines>>

Files == 1 .. MaxFiles
Absent == [run |-> 0, len |-> 0]

Init ==
  /\ gen = "idle"
  /\ nr_files = 0 /\ file_nr = 0 /\ file_sz = 0 /\ run = 0
  /\ disk = [f \in Files |-> Absent]
  /\ header = 0 /\ lines = <<>>
  /\ loaded = <<>>

-----------------------------------------------------------------------------
(* main: the index is opened with O_TRUNC.                                 *)
without_trunc == lines
truncated == <<>>
Start ==
  /\ gen = "idle" /\ run < MaxRuns
  /\ gen' = "count"
  /\ nr_files' \in Files
  /\ run' = run + 1
  /\ file_nr' = 1
  /\ header' = 0 /\ lines' = truncated
  /\ UNCHANGED <<file_sz, disk, loaded>>

(* The first of its digits stand for a smaller number.                     *)
BeginCount ==
  /\ gen = "count"
  /\ header' \in 1 .. nr_files
  /\ UNCHANGED <<gen, gen_vars, disk, lines, loaded>>

WriteCount ==
  /\ gen = "count"
  /\ gen' = "open"
  /\ header' = nr_files
  /\ UNCHANGED <<gen_vars, disk, lines, loaded>>

OpenFile ==
  /\ gen = "open" /\ file_nr <= nr_files
  /\ gen' = "write"
  /\ file_sz' \in Sizes
  /\ disk' = [disk EXCEPT ![file_nr] = [run |-> run, len |-> 0]]
  /\ UNCHANGED <<nr_files, file_nr, run, index, loaded>>

remaining == file_sz - disk[file_nr].len
WriteBuffer ==
  /\ gen = "write" /\ remaining > 0
  /\ disk' = [disk EXCEPT ![file_nr].len = @ + 1]
  /\ UNCHANGED <<gen, gen_vars, index, loaded>>

written == [run |-> run, len |-> file_sz]
BeginLine ==
  /\ gen = "write" /\ remaining = 0
  /\ gen' = "line"
  /\ lines' = Append(lines, [file |-> written, cut |-> TRUE])
  /\ UNCHANGED <<gen_vars, disk, header, loaded>>

WriteLine ==
  /\ gen = "line"
  /\ gen' = "open"
  /\ lines' = [lines EXCEPT ![file_nr].cut = FALSE]
  /\ file_nr' = file_nr + 1
  /\ UNCHANGED <<nr_files, file_sz, run, disk, header, loaded>>

Finish ==
  /\ gen = "open" /\ file_nr > nr_files
  /\ gen' = "idle"
  /\ UNCHANGED <<gen_vars, disk, index, loaded>>

Killed ==
  /\ gen # "idle"
  /\ gen' = "idle"
  /\ UNCHANGED <<gen_vars, disk, index, loaded>>

-----------------------------------------------------------------------------
(* init_fileset, between two runs of the generator.  Its assertions end a  *)
(* client that finds no count, or another number of lines.  sscanf's       *)
(* result is not looked at: what a client has of a line that is cut can be *)
(* any name, length and checksum.                                          *)
LoadFileset ==
  /\ gen = "idle"
  /\ header > 0 /\ Len(lines) = header
  /\ loaded' = lines
  /\ UNCHANGED <<gen, gen_vars, disk, index>>

LoadFails ==
  /\ gen = "idle"
  /\ header = 0 \/ Len(lines) # header
  /\ loaded' = <<>>
  /\ UNCHANGED <<gen, gen_vars, disk, index>>

Next ==
  \/ Start \/ BeginCount \/ WriteCount \/ OpenFile \/ WriteBuffer
  \/ BeginLine \/ WriteLine \/ Finish \/ Killed
  \/ LoadFileset \/ LoadFails
Spec == Init /\ [][Next]_vars
-----------------------------------------------------------------------------
(* Wherever runs of the generator were cut off, an index that a client     *)
(* accepted describes the files on disk as long as it is there, but for a  *)
(* last line of which the end is missing: a line is begun when its file is *)
(* whole, and a new run takes the old lines away before it touches a file. *)
LoadedMatchesDisk ==
  gen = "idle" /\ loaded = lines =>
    \A f \in 1 .. Len(loaded) :
      IF loaded[f].cut THEN f = Len(loaded) ELSE disk[f] = loaded[f].file
=============================================================================
