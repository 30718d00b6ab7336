----------------------------- MODULE MCPrograms -----------------------------
(***************************************************************************)
(* The sequential programs and libraries beside the final labs, for TLC:   *)
(* the sorted points and the word counter of warmup/, Rio and the file set *)
(* of webserver/, the earlier thread libraries.  They share nothing: every *)
(* behaviour is one of the part it begins with, the rest stays as it was.  *)
(***************************************************************************)
EXTENDS SortedPoints

CONSTANTS
  Letters, Space, NewLine, MaxText, PageSize, MaxBehind,   \* WordCount
  MAX_HASH_SIZE,
  MaxInput, RIO_BUFSIZE, MaxLen,                     \* Rio
  MaxFiles, MaxRuns, Sizes,                          \* FileSet
  MaxThreads                                         \* LabTwo, BakThread

ASSUME ProgramsAssumption ==
  /\ MaxText \in Nat /\ MaxBehind \in Nat
  /\ PageSize \in Nat \ {0} /\ MAX_HASH_SIZE \in Nat \ {0}
  /\ MaxInput \in Nat /\ RIO_BUFSIZE \in Nat \ {0}
  /\ MaxFiles \in Nat /\ Sizes \subseteq Nat
  /\ MaxThreads \in Nat \ {0}

VARIABLES
  part,
  text, behind, pos, table, blocks, printed,
  input, left, stream, closed, mode, nbytes, rio_buf, usrbuf, reads,
  gen, nr_files, file_nr, file_sz, run, disk, header, lines, loaded,
  thread_index, setcontext_called, on, at, next, enabled, saved, main_block

MCCoords == -1 .. 1
Ascii(c) == IF c = "a" THEN 97 ELSE 98

points_vars == <<list, ret>>
word_vars == <<text, behind, pos, table, blocks, printed>>
rio_vars == <<input, left, stream, closed, mode, nbytes, rio_buf, usrbuf, reads>>
file_vars == <<gen, nr_files, file_nr, file_sz, run, disk, header, lines, loaded>>
lab_vars == <<thread_index, setcontext_called, on, at, next>>
bak_vars == <<enabled, saved, main_block>>   \* and of RegThread
program_vars ==
  <<part, outcome, points_vars, word_vars, rio_vars, file_vars, lab_vars, bak_vars>>

Words == INSTANCE WordCount
RobustIO == INSTANCE Rio
Generator == INSTANCE FileSet
Lab == INSTANCE BakThread     \* and LabTwo, which it extends
Reg == INSTANCE RegThread

ProgramsInit ==
  /\ part \in {"points", "words", "rio", "fileset", "lab2", "bak", "reg"}
  /\ Init /\ Generator!Init /\ Lab!BakInit /\ Reg!RegInit
  /\ RobustIO!Init /\ (part # "rio" => input = <<>> /\ mode = "lines")
  /\ Words!Init /\ (part # "words" => text = <<>> /\ behind = <<>>)

ProgramsNext ==
  \/ /\ part = "points" /\ Next
     /\ UNCHANGED <<part, word_vars, rio_vars, file_vars, lab_vars, bak_vars>>
  \/ /\ part = "words" /\ Words!Next
     /\ UNCHANGED <<part, points_vars, rio_vars, file_vars, lab_vars, bak_vars>>
  \/ /\ part = "rio" /\ RobustIO!Next
     /\ UNCHANGED <<part, points_vars, word_vars, file_vars, lab_vars, bak_vars>>
  \/ /\ part = "fileset" /\ Generator!Next
     /\ UNCHANGED <<part, outcome, points_vars, word_vars, rio_vars, lab_vars,
                    bak_vars>>
  \/ /\ part = "lab2" /\ Lab!Next
     /\ UNCHANGED <<part, points_vars, word_vars, rio_vars, file_vars, bak_vars>>
  \/ /\ part = "bak" /\ Lab!BakNext
     /\ UNCHANGED <<part, points_vars, word_vars, rio_vars, file_vars, main_block>>
  \/ /\ part = "reg" /\ Reg!RegNext
     /\ UNCHANGED <<part, points_vars, word_vars, rio_vars, file_vars, enabled,
                    saved>>

ProgramsSpec == ProgramsInit /\ [][ProgramsNext]_program_vars
-----------------------------------------------------------------------------
(* wc_output prints every word of the text, as it lies in memory, with its *)
(* number of occurrences.                                                  *)
CountsMatch == Words!CountsMatch

(* wc_destroy gives back all that wc_init allocated (test_wc.c).           *)
NothingLeft == Words!NothingLeft

(* rio_write, rio_readlineb and rio_read keep every byte, in order.        *)
InOrder == RobustIO!InOrder

(* rio_readlineb returns the lines that were written, rio_read n bytes.    *)
AsWritten == RobustIO!AsWritten

(* An index init_fileset accepts describes the files fileset.c wrote, but  *)
(* for a last line that was cut.                                           *)
LoadedMatchesDisk == Generator!LoadedMatchesDisk

(* find_running finds the caller; and setcontext_called and the saved      *)
(* context of a thread agree, where the library has the flag.              *)
Contexts == Lab!RunningIsCaller /\ (part # "reg" => Lab!Contexts)

(* bak_thread.c resumes a thread with the mask it was switched out with.   *)
MaskRestored == Lab!MaskRestored

(* A thread that can go on is in the table: thread_reg_change.c.           *)
NoneLeftBehind == part = "reg" => Reg!NoneLeftBehind

(* The lab 2 libraries implement the scheduler of thread.h.                *)
ImplementsScheduler == Lab!ImplementsScheduler
=============================================================================
