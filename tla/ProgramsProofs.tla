--------------------------- MODULE ProgramsProofs ---------------------------
(***************************************************************************)
(* The programs and libraries of MCPrograms, for every value of their      *)
(* constants: each one's invariant holds of its own steps, and the steps   *)
(* of the others leave its variables alone.                                *)
(***************************************************************************)
EXTENDS MCPrograms, PointsProofs, SequenceTheorems

Libs == INSTANCE LabProofs

-----------------------------------------------------------------------------
(* The file set.                                                           *)
Written == [run : Nat, len : Nat]
Line == [file : Written, cut : BOOLEAN]

FileSetTypeOK ==
  /\ gen \in {"idle", "count", "open", "write", "line"}
  /\ nr_files \in Nat /\ nr_files <= MaxFiles
  /\ file_nr \in Nat /\ file_sz \in Nat /\ run \in Nat
  /\ disk \in [Generator!Files -> Written]
  /\ lines \in Seq(Line)

(* At every moment, also while the generator writes: a line, or what there *)
(* is of the last one, stands for a whole file.  The file being written    *)
(* has no line yet.                                                        *)
IndexMatches ==
  /\ Len(lines) <= MaxFiles
  /\ \A f \in 1 .. Len(lines) : /\ disk[f] = lines[f].file
                                /\ lines[f].cut => f = Len(lines)

(* A generator that goes on has no cut line behind it.                     *)
WriteProgress ==
  /\ gen \in {"count", "open", "write"} =>
       /\ file_nr = Len(lines) + 1
       /\ \A f \in 1 .. Len(lines) : ~lines[f].cut
  /\ gen = "line" => file_nr = Len(lines) /\ file_nr # 0
  /\ gen = "write" => /\ file_nr <= nr_files
                      /\ disk[file_nr].run = run /\ disk[file_nr].len <= file_sz

FilesInv == FileSetTypeOK /\ IndexMatches /\ WriteProgress

LEMMA FilesInit == ASSUME MaxFiles \in Nat, Generator!Init PROVE FilesInv
BY DEF Generator!Init, FilesInv, FileSetTypeOK, IndexMatches, WriteProgress,
       Generator!Absent, Written, Line, Generator!Files

LEMMA FilesStep ==
  ASSUME MaxFiles \in Nat, Sizes \subseteq Nat, FilesInv, [Generator!Next]_(Generator!vars)
  PROVE  FilesInv'
<1>a. FileSetTypeOK /\ IndexMatches /\ WriteProgress
  BY DEF FilesInv
<1>1. CASE Generator!Start
  BY <1>a, <1>1 DEF Generator!Start, Generator!truncated, Generator!index,
                    Generator!Files, FilesInv, FileSetTypeOK, IndexMatches, WriteProgress
<1>2. CASE Generator!BeginCount \/ Generator!WriteCount
  BY <1>a, <1>2 DEF Generator!BeginCount, Generator!WriteCount, Generator!gen_vars, FilesInv, FileSetTypeOK,
                    IndexMatches, WriteProgress
<1>3. CASE Generator!OpenFile
  <2>1. /\ file_nr \in Generator!Files /\ file_nr = Len(lines) + 1
        /\ \A f \in 1 .. Len(lines) : ~lines[f].cut
        /\ disk' = [disk EXCEPT ![file_nr] = [run |-> run, len |-> 0]]
        /\ gen' = "write" /\ file_sz' \in Nat
        /\ file_nr <= nr_files
        /\ UNCHANGED <<nr_files, file_nr, run, lines>>
    BY <1>a, <1>3 DEF Generator!OpenFile, Generator!index, Generator!Files, FileSetTypeOK,
                      WriteProgress
  <2>2. disk'[file_nr] = [run |-> run, len |-> 0] /\ disk' \in [Generator!Files -> Written]
    BY <1>a, <2>1 DEF FileSetTypeOK, Written
  <2>3. IndexMatches'
    BY <1>a, <2>1 DEF FileSetTypeOK, IndexMatches, Generator!Files
  <2>4. WriteProgress'
    BY <2>1, <2>2 DEF WriteProgress
  <2> QED
    BY <1>a, <2>1, <2>2, <2>3, <2>4 DEF FilesInv, FileSetTypeOK
<1>4. CASE Generator!WriteBuffer
  <2>1. /\ file_nr \in Generator!Files /\ file_nr = Len(lines) + 1 /\ file_nr <= nr_files
        /\ disk[file_nr] \in Written
        /\ disk[file_nr].run = run /\ disk[file_nr].len < file_sz
        /\ disk' = [disk EXCEPT ![file_nr].len = @ + 1]
        /\ UNCHANGED <<gen, nr_files, file_nr, file_sz, run, lines>>
    BY <1>a, <1>4 DEF Generator!WriteBuffer, Generator!remaining, Generator!index,
                      Generator!gen_vars, Generator!Files, FileSetTypeOK, WriteProgress,
                      Written
  <2>2. /\ disk'[file_nr].run = run /\ disk'[file_nr].len = disk[file_nr].len + 1
        /\ disk' \in [Generator!Files -> Written]
        /\ \A f \in Generator!Files \ {file_nr} : disk'[f] = disk[f]
    BY <1>a, <2>1 DEF FileSetTypeOK, Written
  <2>3. IndexMatches'
    BY <1>a, <2>1, <2>2 DEF FileSetTypeOK, IndexMatches, Generator!Files
  <2>4. WriteProgress'
    BY <1>a, <2>1, <2>2 DEF WriteProgress, FileSetTypeOK, Written
  <2> QED
    BY <1>a, <2>1, <2>2, <2>3, <2>4 DEF FilesInv, FileSetTypeOK
<1>5. CASE Generator!BeginLine
  <2>1. /\ file_nr \in Generator!Files /\ file_nr = Len(lines) + 1
        /\ disk[file_nr] = Generator!written
        /\ \A f \in 1 .. Len(lines) : ~lines[f].cut
        /\ lines' = Append(lines, [file |-> Generator!written, cut |-> TRUE])
        /\ gen' = "line" /\ UNCHANGED <<nr_files, file_nr, file_sz, run, disk>>
    BY <1>a, <1>5 DEF Generator!BeginLine, Generator!remaining, Generator!Files,
                      Generator!gen_vars, Generator!written, FileSetTypeOK,
                      WriteProgress, Written
  <2>2. PICK l : l = [file |-> Generator!written, cut |-> TRUE]
    OBVIOUS
  <2>3. l \in Line /\ l.file = disk[file_nr] /\ l.cut
    BY <1>a, <2>1, <2>2 DEF FileSetTypeOK, Line
  <2>4. /\ lines' \in Seq(Line) /\ Len(lines') = Len(lines) + 1
        /\ lines'[file_nr] = l /\ \A f \in 1 .. Len(lines) : lines'[f] = lines[f]
    <3> HIDE DEF Line
    <3> QED
      BY <1>a, <2>1, <2>2, <2>3 DEF FileSetTypeOK
  <2>5. IndexMatches'
    BY <1>a, <2>1, <2>3, <2>4 DEF FileSetTypeOK, IndexMatches, Generator!Files
  <2> QED
    BY <1>a, <2>1, <2>4, <2>5 DEF FilesInv, FileSetTypeOK, WriteProgress
<1>9. CASE Generator!WriteLine
  <2>1. /\ file_nr = Len(lines) /\ file_nr \in 1 .. Len(lines)
        /\ lines' = [lines EXCEPT ![file_nr].cut = FALSE]
        /\ gen' = "open" /\ file_nr' = file_nr + 1
        /\ UNCHANGED <<nr_files, file_sz, run, disk>>
    BY <1>a, <1>9 DEF Generator!WriteLine, FileSetTypeOK, WriteProgress
  <2>2. PICK l : l = [lines[file_nr] EXCEPT !.cut = FALSE]
    OBVIOUS
  <2>3. lines[file_nr] \in Line
    BY <1>a, <2>1 DEF FileSetTypeOK
  <2>4. l \in Line /\ l.file = lines[file_nr].file /\ ~l.cut
    BY <2>2, <2>3 DEF Line
  <2>5. /\ lines' \in Seq(Line) /\ Len(lines') = Len(lines)
        /\ \A f \in 1 .. Len(lines) : lines'[f] = IF f = file_nr THEN l ELSE lines[f]
    <3> HIDE DEF Line
    <3> QED
      BY <1>a, <2>1, <2>2, <2>4 DEF FileSetTypeOK
  <2>6. IndexMatches' /\ \A f \in 1 .. Len(lines') : ~lines'[f].cut
    BY <1>a, <2>1, <2>4, <2>5 DEF FileSetTypeOK, IndexMatches
  <2> QED
    BY <1>a, <2>1, <2>5, <2>6 DEF FilesInv, FileSetTypeOK, WriteProgress
<1>6. CASE Generator!Finish \/ Generator!Killed
  BY <1>a, <1>6 DEF Generator!Finish, Generator!Killed, Generator!gen_vars,
                    Generator!index, FilesInv, FileSetTypeOK, IndexMatches, WriteProgress
<1>7. CASE Generator!LoadFileset \/ Generator!LoadFails
  BY <1>a, <1>7 DEF Generator!LoadFileset, Generator!LoadFails, Generator!gen_vars,
                    Generator!index, FilesInv, FileSetTypeOK, IndexMatches, WriteProgress
<1>8. CASE UNCHANGED Generator!vars
  BY <1>a, <1>8 DEF Generator!vars, FilesInv, FileSetTypeOK, IndexMatches, WriteProgress
<1> QED
  BY <1>1, <1>2, <1>3, <1>4, <1>5, <1>6, <1>7, <1>8, <1>9 DEF Generator!Next

LEMMA FilesInvHolds == ProgramsSpec => []FilesInv
<1>1. ProgramsInit => FilesInv
  BY FilesInit, ProgramsAssumption DEF ProgramsInit
<1>2. FilesInv /\ [ProgramsNext]_program_vars => FilesInv'
  <2> SUFFICES ASSUME FilesInv, [ProgramsNext]_program_vars PROVE FilesInv'
    OBVIOUS
  <2>1. [Generator!Next]_(Generator!vars)
    BY DEF ProgramsNext, program_vars, Generator!vars, file_vars
  <2> QED
    BY <2>1, FilesStep, ProgramsAssumption
<1> QED
  BY <1>1, <1>2, PTL DEF ProgramsSpec

(* Wherever the generator is cut off, in a line too, and however often it  *)
(* is run again, the index a client has loaded describes the files, as     *)
(* long as it is the one on disk, and but for a last line without its end: *)
(* for any number of files, sizes and runs.                                *)
THEOREM LoadedIndexMatches == ProgramsSpec => []LoadedMatchesDisk
<1>1. FilesInv => LoadedMatchesDisk
  BY DEF FilesInv, IndexMatches, LoadedMatchesDisk, Generator!LoadedMatchesDisk
<1> QED
  BY <1>1, FilesInvHolds, PTL
-----------------------------------------------------------------------------
(* The thread libraries share a table, of which each has its own           *)
(* invariant; beside another part they are as thread_init left them.       *)
Untouched ==
  /\ thread_index = [t \in Libs!Tid |-> IF t = 0 THEN "running" ELSE "NULL"]
  /\ setcontext_called = [t \in Libs!Tid |-> FALSE]
  /\ on = 0
  /\ at = [t \in Libs!Tid |-> IF t = 0 THEN "user" ELSE "none"]
Unmasked == enabled = TRUE /\ saved = [t \in Libs!Tid |-> Libs!Unsaved]

LibraryInv ==
  CASE part = "lab2" -> Libs!Inv /\ Unmasked
    [] part = "bak" -> Libs!Inv /\ Libs!MaskInv
    [] part = "reg" -> Libs!RegInv /\ Unmasked
    [] OTHER -> Untouched /\ Unmasked

LEMMA LibraryInit == ASSUME ProgramsInit PROVE LibraryInv /\ Libs!Sched!Init
<1>1. Libs!BakInit /\ Libs!RegInit
  BY DEF ProgramsInit, Lab!BakInit, Libs!BakInit, Lab!Init, Libs!Init, Reg!RegInit,
         Libs!RegInit, Reg!Init, Lab!Tid, Libs!Tid, Reg!Tid, Lab!NoTid, Libs!NoTid,
         Reg!NoTid, Lab!Unsaved, Libs!Unsaved
<1>2. Libs!Init /\ Untouched /\ Unmasked
  BY <1>1 DEF Libs!BakInit, Libs!Init, Untouched, Unmasked
<1>3. Libs!Inv /\ Libs!MaskInv /\ Libs!RegInv /\ Libs!Sched!Init
  BY <1>1, <1>2, Libs!InitInv, Libs!InitMask, Libs!RegInitInv, ProgramsAssumption
<1> QED
  BY <1>2, <1>3 DEF LibraryInv
(* Both names of each library stand for the same steps.                    *)
LEMMA LabSame ==
  ASSUME Lab!Next PROVE Libs!Next
BY DEF Lab!Next, Libs!Next, Lab!Tid, Libs!Tid, Lab!NoTid, Libs!NoTid,
       Lab!Running, Libs!Running, Lab!Stop, Libs!Stop, Lab!EnterStub,
       Libs!EnterStub, Lab!tid_generator, Libs!tid_generator, Lab!find_running,
       Libs!find_running, Lab!find_ready, Libs!find_ready, Lab!NoneReady,
       Libs!NoneReady, Lab!free_killed, Libs!free_killed, Lab!Lowest,
       Libs!Lowest, Lab!flag_cleared, Libs!flag_cleared, Lab!Create,
       Libs!Create, Lab!Choose, Libs!Choose, Lab!YieldAny, Libs!YieldAny,
       Lab!YieldTid, Libs!YieldTid, Lab!requeued, Libs!requeued,
       Lab!YieldSwitch, Libs!YieldSwitch, Lab!YieldReturn, Libs!YieldReturn,
       Lab!YieldFault, Libs!YieldFault, Lab!ThreadExit, Libs!ThreadExit,
       Lab!StubExit, Libs!StubExit, Lab!Kill, Libs!Kill, Lab!Unimplemented,
       Libs!Unimplemented, Lab!Ended, Libs!Ended, Lab!vars, Libs!vars

LEMMA BakSame ==
  ASSUME Lab!BakNext PROVE Libs!BakNext
BY DEF Lab!BakNext, Libs!BakNext, Lab!BakStub, Libs!BakStub, Lab!BakCreate,
       Libs!BakCreate, Lab!BakCreateReturn, Libs!BakCreateReturn,
       Lab!BakCreateFault, Libs!BakCreateFault, Lab!Mask, Libs!Mask,
       Lab!BakYield, Libs!BakYield, Lab!Preempt, Libs!Preempt, Lab!BakSwitch,
       Libs!BakSwitch, Lab!prev_interrupt_state, Libs!prev_interrupt_state,
       Lab!BakReturn, Libs!BakReturn, Lab!BakExit, Libs!BakExit,
       Lab!BakStubExit, Libs!BakStubExit, Lab!BakKill, Libs!BakKill,
       Lab!BakUnimplemented, Libs!BakUnimplemented, Lab!InterruptsSet,
       Libs!InterruptsSet, Lab!BakEnded, Libs!BakEnded, Lab!bak_vars,
       Libs!bak_vars, Lab!Unsaved, Libs!Unsaved, Lab!Tid, Libs!Tid, Lab!NoTid,
       Libs!NoTid, Lab!Running, Libs!Running, Lab!Stop, Libs!Stop,
       Lab!EnterStub, Libs!EnterStub, Lab!tid_generator, Libs!tid_generator,
       Lab!find_running, Libs!find_running, Lab!find_ready, Libs!find_ready,
       Lab!NoneReady, Libs!NoneReady, Lab!free_killed, Libs!free_killed,
       Lab!Lowest, Libs!Lowest, Lab!flag_cleared, Libs!flag_cleared,
       Lab!Create, Libs!Create, Lab!Choose, Libs!Choose, Lab!YieldAny,
       Libs!YieldAny, Lab!YieldTid, Libs!YieldTid, Lab!requeued, Libs!requeued,
       Lab!YieldSwitch, Libs!YieldSwitch, Lab!YieldReturn, Libs!YieldReturn,
       Lab!YieldFault, Libs!YieldFault, Lab!ThreadExit, Libs!ThreadExit,
       Lab!StubExit, Libs!StubExit, Lab!Kill, Libs!Kill, Lab!Unimplemented,
       Libs!Unimplemented, Lab!Ended, Libs!Ended, Lab!vars, Libs!vars

LEMMA RegSame ==
  ASSUME Reg!RegNext PROVE Libs!RegNext
BY DEF Reg!RegNext, Libs!RegNext, Reg!RegStub, Libs!RegStub, Reg!RegCreate,
       Libs!RegCreate, Reg!marked_ready, Libs!marked_ready, Reg!RegSwitch,
       Libs!RegSwitch, Reg!RegYieldAny, Libs!RegYieldAny, Reg!RegYieldTid,
       Libs!RegYieldTid, Reg!Gone, Libs!Gone, Reg!FreeFault, Libs!FreeFault,
       Reg!RegExit, Libs!RegExit, Reg!RegExitFault, Libs!RegExitFault,
       Reg!RegStubExit, Libs!RegStubExit, Reg!RegKill, Libs!RegKill,
       Reg!RegUnimplemented, Libs!RegUnimplemented, Reg!RegEnded,
       Libs!RegEnded, Reg!reg_vars, Libs!reg_vars, Reg!Tid, Libs!Tid,
       Reg!NoTid, Libs!NoTid, Reg!Running, Libs!Running, Reg!Stop, Libs!Stop,
       Reg!EnterStub, Libs!EnterStub, Reg!tid_generator, Libs!tid_generator,
       Reg!find_running, Libs!find_running, Reg!find_ready, Libs!find_ready,
       Reg!NoneReady, Libs!NoneReady, Reg!free_killed, Libs!free_killed,
       Reg!Lowest, Libs!Lowest, Reg!flag_cleared, Libs!flag_cleared,
       Reg!Create, Libs!Create, Reg!Choose, Libs!Choose, Reg!YieldAny,
       Libs!YieldAny, Reg!YieldTid, Libs!YieldTid, Reg!requeued, Libs!requeued,
       Reg!YieldSwitch, Libs!YieldSwitch, Reg!YieldReturn, Libs!YieldReturn,
       Reg!YieldFault, Libs!YieldFault, Reg!ThreadExit, Libs!ThreadExit,
       Reg!StubExit, Libs!StubExit, Reg!Kill, Libs!Kill, Reg!Unimplemented,
       Libs!Unimplemented, Reg!Ended, Libs!Ended, Reg!vars, Libs!vars

LEMMA LibraryStep ==
  ASSUME LibraryInv, [ProgramsNext]_program_vars
  PROVE  LibraryInv' /\ [Libs!Sched!Next]_(Libs!Sched!vars)
<1>1. CASE part = "lab2"
  <2>1. part' = part /\ [Libs!Next]_(Libs!vars) /\ UNCHANGED <<enabled, saved>>
    BY <1>1, LabSame DEF ProgramsNext, program_vars, bak_vars, lab_vars, Libs!vars
  <2> QED
    BY <1>1, <2>1, Libs!LabStep DEF LibraryInv, Unmasked
<1>2. CASE part = "bak"
  <2>1. part' = part /\ [Libs!BakNext]_(Libs!bak_vars)
    BY <1>2, BakSame DEF ProgramsNext, program_vars, bak_vars, lab_vars,
                         Libs!bak_vars, Libs!vars
  <2> QED
    BY <1>2, <2>1, Libs!BakStep, Libs!MaskStep DEF LibraryInv
<1>3. CASE part = "reg"
  <2>1. part' = part /\ [Libs!RegNext]_(Libs!reg_vars) /\ UNCHANGED <<enabled, saved>>
    BY <1>3, RegSame DEF ProgramsNext, program_vars, bak_vars, lab_vars,
                         Libs!reg_vars, Libs!vars
  <2> QED
    BY <1>3, <2>1, Libs!RegStep DEF LibraryInv, Unmasked
<1>4. CASE part \notin {"lab2", "bak", "reg"}
  <2>1. UNCHANGED <<part, thread_index, setcontext_called, on, at, enabled, saved>>
    BY <1>4 DEF ProgramsNext, program_vars, bak_vars, lab_vars
  <2> QED
    BY <1>4, <2>1 DEF LibraryInv, Untouched, Unmasked, Libs!Sched!vars,
                      Libs!SchedulerState
<1> QED
  BY <1>1, <1>2, <1>3, <1>4

LEMMA LibraryInvHolds == ProgramsSpec => []LibraryInv
<1>1. ProgramsInit => LibraryInv
  BY LibraryInit
<1>2. LibraryInv /\ [ProgramsNext]_program_vars => LibraryInv'
  BY LibraryStep
<1> QED
  BY <1>1, <1>2, PTL DEF ProgramsSpec

LEMMA LibraryInvImplies ==
  ASSUME LibraryInv PROVE Contexts /\ MaskRestored /\ NoneLeftBehind
<1>a. 0 \in Libs!Tid
  BY ProgramsAssumption DEF Libs!Tid
<1>1. Lab!RunningIsCaller
  BY <1>a, Libs!InvImplies DEF LibraryInv, Untouched, Libs!RegInv, Libs!RegTypeOK,
         Libs!RunningIsCaller, Lab!RunningIsCaller, Lab!Tid, Libs!Tid
<1>2. part # "reg" => Lab!Contexts
  BY <1>a, Libs!InvImplies DEF LibraryInv, Untouched, Libs!Contexts, Lab!Contexts, Lab!Tid,
         Libs!Tid
<1>3. Lab!MaskRestored
  <2>1. CASE part = "bak"
    BY <2>1 DEF LibraryInv, Libs!MaskInv, Libs!Code, Lab!MaskRestored
  <2>2. CASE part # "bak"
    <3>1. on \in Libs!Tid /\ Unmasked
      BY <1>a, <2>2 DEF LibraryInv, Untouched, Libs!Inv, Libs!LabTypeOK, Libs!RegInv,
                        Libs!RegTypeOK
    <3>2. saved[on].wants = TRUE
      BY <3>1 DEF Unmasked, Libs!Unsaved
    <3> QED
      BY <3>1, <3>2 DEF Unmasked, Lab!MaskRestored
  <2> QED
    BY <2>1, <2>2
<1>4. NoneLeftBehind
  BY DEF LibraryInv, Libs!RegInv, NoneLeftBehind, Reg!NoneLeftBehind, Reg!Tid, Libs!Tid
<1> QED
  BY <1>1, <1>2, <1>3, <1>4 DEF Contexts, MaskRestored

(* Whatever a program calls, and wherever the timer comes in, a context is *)
(* resumed where it was saved and find_running finds the caller.           *)
THEOREM LibraryContexts == ProgramsSpec => []Contexts
BY LibraryInvHolds, LibraryInvImplies, PTL

(* A thread of bak_thread.c goes on with the mask it was switched out with.*)
THEOREM LibraryMask == ProgramsSpec => []MaskRestored
BY LibraryInvHolds, LibraryInvImplies, PTL

(* No thread of thread_reg_change.c that can go on is lost to the table.   *)
THEOREM LibraryNoneLeftBehind == ProgramsSpec => []NoneLeftBehind
BY LibraryInvHolds, LibraryInvImplies, PTL

(* All three libraries implement the scheduler of thread.h.                *)
THEOREM LibrariesImplementScheduler == ProgramsSpec => ImplementsScheduler
<1>1. ProgramsInit => Lab!Sched!Init
  BY LibraryInit DEF Libs!Sched!Init, Lab!Sched!Init, Libs!SchedulerState,
         Lab!SchedulerState, Libs!Tid, Lab!Tid
<1>2. LibraryInv /\ [ProgramsNext]_program_vars => [Lab!Sched!Next]_(Lab!Sched!vars)
  <2>1. /\ Libs!Tid = Lab!Tid /\ Libs!SchedulerState = Lab!SchedulerState
        /\ Libs!SchedulerState' = Lab!SchedulerState'
    BY DEF Libs!SchedulerState, Lab!SchedulerState, Libs!Tid, Lab!Tid
  <2>2. [Libs!Sched!Next]_(Libs!Sched!vars) => [Lab!Sched!Next]_(Lab!Sched!vars)
    BY <2>1 DEF Libs!Sched!Next, Lab!Sched!Next, Libs!Sched!vars, Lab!Sched!vars,
           Libs!Sched!Spawn, Lab!Sched!Spawn, Libs!Sched!Remove, Lab!Sched!Remove,
           Libs!Sched!Dispatch, Lab!Sched!Dispatch, Libs!Sched!Wake, Lab!Sched!Wake
  <2> QED
    BY <2>2, LibraryStep
<1> QED
  BY <1>1, <1>2, LibraryInvHolds, PTL
     DEF ProgramsSpec, ImplementsScheduler, Lab!ImplementsScheduler, Lab!Sched!Spec
-----------------------------------------------------------------------------
(* What FlattenSeq makes of the first k sequences.                         *)
LEMMA Flatten ==
  ASSUME NEW V, NEW r \in Seq(Seq(V))
  PROVE  \E flat \in [0 .. Len(r) -> Seq(V)] :
           /\ flat[0] = <<>> /\ RobustIO!FlattenSeq(r) = flat[Len(r)]
           /\ \A k \in 1 .. Len(r) : flat[k] = flat[k - 1] \o r[k]
<1> DEFINE n == Len(r)
           W == Seq(V)
           Eq(m, f) == \A i \in 1 .. m : f[i] = IF i = 1 THEN r[i] ELSE f[i - 1] \o r[i]
           S == {m \in 0 .. n : \E f \in [1 .. m -> W] : Eq(m, f)}
<1>1. n \in Nat /\ <<>> \in W /\ \A i \in 1 .. n : r[i] \in W
  OBVIOUS
<1>2. \A u, v \in W : u \o v \in W /\ <<>> \o v = v
  OBVIOUS
<1> HIDE DEF W
<1>3. 0 \in S
  <2> DEFINE f == [i \in 1 .. 0 |-> <<>>]
  <2>1. f \in [1 .. 0 -> W] /\ Eq(0, f)
    BY <1>1
  <2> HIDE DEF f, Eq
  <2>2. 0 \in 0 .. n /\ \E h \in [1 .. 0 -> W] : Eq(0, h)
    <3>1. 0 \in 0 .. n
      BY <1>1
    <3>2. \E h \in [1 .. 0 -> W] : Eq(0, h)
      BY <2>1
    <3> QED
      BY <3>1, <3>2
  <2> QED
    BY <2>2
<1>4. ASSUME NEW m \in 1 .. n, m - 1 \in S PROVE m \in S
  <2>1. PICK old \in [1 .. m - 1 -> W] : Eq(m - 1, old)
    BY <1>4
  <2> DEFINE f == [i \in 1 .. m |-> IF i < m THEN old[i]
                                   ELSE IF m = 1 THEN r[m] ELSE old[m - 1] \o r[m]]
  <2>2. f \in [1 .. m -> W]
    BY <1>1, <1>2
  <2>3. \A i \in 1 .. m : i < m => f[i] = old[i]
    OBVIOUS
  <2>4. f[m] = IF m = 1 THEN r[m] ELSE f[m - 1] \o r[m]
    BY <1>1
  <2> HIDE DEF f
  <2>5. Eq(m, f)
    <3> SUFFICES ASSUME NEW i \in 1 .. m
                 PROVE  f[i] = IF i = 1 THEN r[i] ELSE f[i - 1] \o r[i]
      OBVIOUS
    <3>1. CASE i = m
      BY <2>4, <3>1
    <3>2. CASE i < m
      <4>1. i \in 1 .. m - 1 /\ f[i] = old[i] /\ (i # 1 => f[i - 1] = old[i - 1])
        BY <2>3, <3>2
      <4> QED
        BY <2>1, <4>1
    <3> QED
      BY <3>1, <3>2
  <2> HIDE DEF Eq
  <2> QED
    BY <1>1, <2>2, <2>5
<1>5. PICK f \in [1 .. n -> W] : Eq(n, f)
  <2>1. n \in S
    <3> HIDE DEF S
    <3>1. \A k \in 0 .. n : k \in S
      BY <1>1, <1>3, <1>4, Induction
    <3> QED
      BY <1>1, <3>1
  <2> QED
    BY <2>1
<1> DEFINE Is(g) == g = [i \in 1 .. n |-> IF i = 1 THEN r[i] ELSE g[i - 1] \o r[i]]
           flatten == CHOOSE g : Is(g)
<1>6. Is(f)
  BY <1>5
<1>7. Is(flatten)
  BY <1>6
<1>8. RobustIO!FlattenSeq(r) = IF n = 0 THEN r ELSE flatten[n]
  BY DEF RobustIO!FlattenSeq
<1> HIDE DEF flatten
<1>9. \A i \in 1 .. n : flatten[i] = IF i = 1 THEN r[i] ELSE flatten[i - 1] \o r[i]
  BY <1>7
<1> HIDE DEF Is, Eq
<1> DEFINE T == {k \in 0 .. n : k = 0 \/ flatten[k] \in W}
<1>10. ASSUME NEW k \in 1 .. n, k - 1 \in T PROVE k \in T
  BY <1>1, <1>2, <1>9, <1>10
<1>11. \A k \in 0 .. n : k \in T
  <2>1. 0 \in T
    BY <1>1
  <2> HIDE DEF T
  <2> QED
    BY <1>1, <1>10, <2>1, Induction
<1> DEFINE flat == [k \in 0 .. n |-> IF k = 0 THEN <<>> ELSE flatten[k]]
<1>12. flat \in [0 .. n -> W]
  BY <1>1, <1>11
<1>13. flat[0] = <<>> /\ RobustIO!FlattenSeq(r) = flat[n]
  BY <1>1, <1>8
<1>14. ASSUME NEW k \in 1 .. n PROVE flat[k] = flat[k - 1] \o r[k]
  <2>1. flat[k] = flatten[k] /\ flat[k - 1] = IF k = 1 THEN <<>> ELSE flatten[k - 1]
    BY <1>1
  <2> HIDE DEF flat
  <2>2. flatten[k] = IF k = 1 THEN r[k] ELSE flatten[k - 1] \o r[k]
    BY <1>9
  <2>3. r[k] \in W /\ <<>> \o r[k] = r[k]
    BY <1>1, <1>2
  <2> QED
    BY <2>1, <2>2, <2>3
<1> HIDE DEF flat
<1> QED
  BY <1>12, <1>13, <1>14 DEF W

LEMMA FlattenAppend ==
  ASSUME NEW V, NEW r \in Seq(Seq(V)), NEW x \in Seq(V)
  PROVE  /\ RobustIO!FlattenSeq(r) \in Seq(V)
         /\ RobustIO!FlattenSeq(Append(r, x)) = RobustIO!FlattenSeq(r) \o x
<1>0. PICK n \in Nat : n = Len(r)
  OBVIOUS
<1> DEFINE rx == Append(r, x)
           Folds(s, m, f) == /\ f[0] = <<>> /\ RobustIO!FlattenSeq(s) = f[m]
                             /\ \A k \in 1 .. m : f[k] = f[k - 1] \o s[k]
<1>1. /\ rx \in Seq(Seq(V)) /\ Len(rx) = n + 1 /\ rx[n + 1] = x
      /\ \A k \in 1 .. n : rx[k] = r[k]
  BY <1>0
<1> HIDE DEF rx
<1>2. PICK f \in [0 .. n -> Seq(V)] : Folds(r, n, f)
  <2>1. \E f \in [0 .. Len(r) -> Seq(V)] : Folds(r, Len(r), f)
    BY Flatten
  <2> QED
    BY <1>0, <2>1
<1>3. PICK g \in [0 .. n + 1 -> Seq(V)] : Folds(rx, n + 1, g)
  <2>1. \E g \in [0 .. Len(rx) -> Seq(V)] : Folds(rx, Len(rx), g)
    BY <1>1, Flatten
  <2> HIDE DEF Folds
  <2> QED
    BY <1>1, <2>1
<1>4. f[0] = <<>> /\ g[0] = <<>> /\ g[n + 1] = g[n] \o x
  <2>1. \A k \in 1 .. n + 1 : g[k] = g[k - 1] \o rx[k]
    BY <1>3
  <2>2. PICK m \in 1 .. n + 1 : m = n + 1
    OBVIOUS
  <2>3. g[m] = g[m - 1] \o rx[m]
    BY <2>1, Zenon
  <2>4. m - 1 = n
    BY <2>2
  <2> QED
    BY <1>1, <1>2, <1>3, <2>2, <2>3, <2>4
<1> DEFINE S == {k \in 0 .. n : f[k] = g[k]}
<1>5. 0 \in S
  BY <1>1, <1>4
<1>6. ASSUME NEW k \in 1 .. n, k - 1 \in S PROVE k \in S
  <2>1. f[k] = f[k - 1] \o r[k]
    BY <1>2
  <2>2. g[k] = g[k - 1] \o rx[k]
    <3>1. k \in 1 .. n + 1
      BY <1>1
    <3>2. \A i \in 1 .. n + 1 : g[i] = g[i - 1] \o rx[i]
      BY <1>3
    <3> QED
      BY <3>1, <3>2
  <2>3. f[k - 1] = g[k - 1] /\ r[k] = rx[k] /\ k \in 0 .. n
    BY <1>1, <1>6
  <2> QED
    BY <2>1, <2>2, <2>3
<1>7. n \in S
  <2> HIDE DEF S
  <2>1. \A k \in 0 .. n : k \in S
    BY <1>5, <1>6, Induction
  <2>2. n \in 0 .. n
    OBVIOUS
  <2> QED
    BY <2>1, <2>2
<1>8. RobustIO!FlattenSeq(r) = f[n] /\ f[n] \in Seq(V)
  BY <1>1, <1>2
<1>9. RobustIO!FlattenSeq(rx) = g[n + 1]
  BY <1>1, <1>3
<1>10. f[n] = g[n]
  BY <1>7
<1> HIDE DEF Folds, S
<1> QED
  BY <1>4, <1>8, <1>9, <1>10 DEF rx

-----------------------------------------------------------------------------
(* Which lines rio_readlineb makes of a sequence of bytes.                 *)
Bytes == Letters \cup {NewLine}
Lines(s) == RobustIO!FoldLeft(RobustIO!grow, <<>>, s)
Complete(line) == line[Len(line)] = NewLine \/ Len(line) = MaxLen

LEMMA Grows ==
  ASSUME NEW ls \in Seq(Seq(Bytes)), NEW c \in Bytes
  PROVE  /\ RobustIO!grow(ls, c) \in Seq(Seq(Bytes))
         /\ ls = <<>> \/ Complete(ls[Len(ls)]) => RobustIO!grow(ls, c) = Append(ls, <<c>>)
         /\ ls # <<>> /\ ~Complete(ls[Len(ls)])
              => RobustIO!grow(ls, c)
                   = SubSeq(ls, 1, Len(ls) - 1) \o <<Append(ls[Len(ls)], c)>>
<1>1. <<c>> \in Seq(Bytes)
  OBVIOUS
<1>2. ls # <<>> => /\ ls[Len(ls)] \in Seq(Bytes)
                   /\ SubSeq(ls, 1, Len(ls) - 1) \in Seq(Seq(Bytes))
                   /\ Append(ls[Len(ls)], c) \in Seq(Bytes)
  OBVIOUS
<1>3. RobustIO!grow(ls, c) =
        IF ls = <<>> \/ Complete(ls[Len(ls)]) THEN Append(ls, <<c>>)
        ELSE SubSeq(ls, 1, Len(ls) - 1) \o <<Append(ls[Len(ls)], c)>>
  BY DEF RobustIO!grow, RobustIO!Last, RobustIO!Front, Complete
<1> HIDE DEF Bytes
<1>4. /\ Append(ls, <<c>>) \in Seq(Seq(Bytes))
      /\ ls # <<>> => SubSeq(ls, 1, Len(ls) - 1) \o <<Append(ls[Len(ls)], c)>>
                        \in Seq(Seq(Bytes))
  BY <1>1, <1>2
<1> QED
  BY <1>3, <1>4

LEMMA GrowFold ==
  ASSUME NEW n \in Nat, NEW seq \in [1 .. n -> Bytes]
  PROVE  \E made \in [0 .. n -> Seq(Seq(Bytes))] :
           /\ made[0] = <<>> /\ Lines(seq) = made[n]
           /\ \A k \in 1 .. n : made[k] = RobustIO!grow(made[k - 1], seq[k])
<1> DEFINE V == Seq(Seq(Bytes))
           g == [ve \in V \X Bytes |-> RobustIO!grow(ve[1], ve[2])]
<1>1. \A v \in V, p \in Bytes :
        RobustIO!grow(v, p) \in V /\ g[<<v, p>>] = RobustIO!grow(v, p)
  BY Grows
<1>2. <<>> \in V
  OBVIOUS
<1> HIDE DEF V
<1>a. g \in [V \X Bytes -> V]
  BY <1>1
<1> HIDE DEF g
<1>3. PICK it \in [SUBSET (1 .. n) -> V] : FoldsTo(it, n, <<>>, g, seq)
  BY <1>2, <1>a, FoldExists
<1> DEFINE Eq(iter) == iter = [s \in SUBSET (1 .. n) |->
                                 IF s = {} THEN <<>>
                                 ELSE RobustIO!grow(iter[s \ {Max(s)}], seq[Max(s)])]
           fold == CHOOSE iter : Eq(iter)
<1>4. Eq(it)
  <2>1. \A s \in SUBSET (1 .. n) :
          s # {} => it[s \ {Max(s)}] \in V /\ seq[Max(s)] \in Bytes
    BY MaxIn
  <2> QED
    BY <1>1, <1>3, <2>1 DEF FoldsTo
<1>5. Lines(seq) = fold[1 .. n]
  BY DEF Lines, RobustIO!FoldLeft, RobustIO!MapThenFoldSet, RobustIO!Max, Max
<1>6. Eq(fold)
  BY <1>4
<1> HIDE DEF fold
<1>7. /\ fold[{}] = <<>>
      /\ \A s \in SUBSET (1 .. n) :
           s # {} => fold[s] = RobustIO!grow(fold[s \ {Max(s)}], seq[Max(s)])
  BY <1>6
<1> HIDE DEF Eq
<1>8. ASSUME NEW k \in 1 .. n
      PROVE  fold[1 .. k] = RobustIO!grow(fold[1 .. k - 1], seq[k])
  BY <1>7, PrefixIs
<1> DEFINE S == {k \in 0 .. n : fold[1 .. k] \in V}
<1>9. 0 \in S
  <2>1. 1 .. 0 = {}
    OBVIOUS
  <2> QED
    BY <1>2, <1>7, <2>1
<1>10. ASSUME NEW k \in 1 .. n, k - 1 \in S PROVE k \in S
  <2>1. fold[1 .. k - 1] \in V /\ seq[k] \in Bytes /\ k \in 0 .. n
    BY <1>10
  <2>2. fold[1 .. k] = RobustIO!grow(fold[1 .. k - 1], seq[k])
    BY <1>8
  <2>3. fold[1 .. k] \in V
    BY <1>1, <2>1, <2>2
  <2> QED
    BY <2>1, <2>3
<1>11. \A k \in 0 .. n : fold[1 .. k] \in V
  <2>1. \A k \in 0 .. n : k \in S
    <3> HIDE DEF S
    <3> QED
      BY <1>9, <1>10, Induction
  <2> QED
    BY <2>1
<1> DEFINE made == [k \in 0 .. n |-> fold[1 .. k]]
<1>12. made \in [0 .. n -> V] /\ \A k \in 0 .. n : made[k] = fold[1 .. k]
  BY <1>11
<1>13. /\ made[0] = <<>> /\ made[n] = fold[1 .. n]
       /\ \A k \in 1 .. n : made[k] = RobustIO!grow(made[k - 1], seq[k])
  <2> HIDE DEF made
  <2>1. 1 .. 0 = {} /\ n \in 0 .. n /\ 0 \in 0 .. n
    OBVIOUS
  <2>2. made[0] = <<>> /\ made[n] = fold[1 .. n]
    BY <1>7, <1>12, <2>1
  <2>3. ASSUME NEW k \in 1 .. n
        PROVE  made[k] = RobustIO!grow(made[k - 1], seq[k])
    <3>1. k \in 0 .. n /\ k - 1 \in 0 .. n
      OBVIOUS
    <3>2. made[k] = fold[1 .. k] /\ made[k - 1] = fold[1 .. k - 1]
      BY <1>12, <3>1
    <3> QED
      BY <1>8, <3>2
  <2> QED
    BY <2>2, <2>3
<1> QED
  BY <1>5, <1>12, <1>13 DEF V

LEMMA LinesAppend ==
  ASSUME NEW s \in Seq(Bytes), NEW c \in Bytes
  PROVE  /\ Lines(s) \in Seq(Seq(Bytes))
         /\ Lines(Append(s, c)) = RobustIO!grow(Lines(s), c)
<1>0. PICK n \in Nat : n = Len(s)
  OBVIOUS
<1> DEFINE t == Append(s, c)
           Folds(q, m, f) ==
             /\ f[0] = <<>> /\ Lines(q) = f[m]
             /\ \A k \in 1 .. m : f[k] = RobustIO!grow(f[k - 1], q[k])
<1>1. /\ s \in [1 .. n -> Bytes] /\ t \in [1 .. n + 1 -> Bytes]
      /\ t[n + 1] = c /\ \A k \in 1 .. n : t[k] = s[k]
  <2>1. t \in Seq(Bytes) /\ Len(t) = n + 1 /\ Len(s) = n
    BY <1>0, AppendProperties
  <2>2. t[n + 1] = c /\ \A k \in 1 .. n : t[k] = s[k]
    BY <1>0, AppendProperties
  <2>3. s \in [1 .. n -> Bytes]
    BY <2>1, LenProperties
  <2> HIDE DEF t
  <2>4. t \in [1 .. n + 1 -> Bytes]
    BY <2>1, LenProperties
  <2> QED
    BY <2>2, <2>3, <2>4
<1> HIDE DEF t
<1>2. PICK f \in [0 .. n -> Seq(Seq(Bytes))] : Folds(s, n, f)
  BY <1>1, GrowFold
<1>3. PICK g \in [0 .. n + 1 -> Seq(Seq(Bytes))] : Folds(t, n + 1, g)
  <2>1. n + 1 \in Nat
    OBVIOUS
  <2> QED
    BY <1>1, <2>1, GrowFold
<1>4. f[0] = <<>> /\ g[0] = <<>> /\ g[n + 1] = RobustIO!grow(g[n], c)
  <2>1. \A k \in 1 .. n + 1 : g[k] = RobustIO!grow(g[k - 1], t[k])
    BY <1>3
  <2>2. PICK m \in 1 .. n + 1 : m = n + 1
    OBVIOUS
  <2>3. g[m] = RobustIO!grow(g[m - 1], t[m])
    BY <2>1, Zenon
  <2>4. m - 1 = n
    BY <2>2
  <2> QED
    BY <1>1, <1>2, <1>3, <2>2, <2>3, <2>4
<1> DEFINE S == {k \in 0 .. n : f[k] = g[k]}
<1>5. 0 \in S
  BY <1>1, <1>4
<1>6. ASSUME NEW k \in 1 .. n, k - 1 \in S PROVE k \in S
  <2>1. f[k] = RobustIO!grow(f[k - 1], s[k])
    BY <1>2
  <2>2. g[k] = RobustIO!grow(g[k - 1], t[k])
    <3>1. k \in 1 .. n + 1
      BY <1>1
    <3>2. \A i \in 1 .. n + 1 : g[i] = RobustIO!grow(g[i - 1], t[i])
      BY <1>3
    <3> QED
      BY <3>1, <3>2
  <2>3. f[k - 1] = g[k - 1] /\ s[k] = t[k] /\ k \in 0 .. n
    BY <1>1, <1>6
  <2> QED
    BY <2>1, <2>2, <2>3
<1>7. n \in S
  <2> HIDE DEF S
  <2>1. \A k \in 0 .. n : k \in S
    BY <1>5, <1>6, Induction
  <2>2. n \in 0 .. n
    OBVIOUS
  <2> QED
    BY <2>1, <2>2
<1>8. Lines(s) = f[n] /\ f[n] \in Seq(Seq(Bytes))
  BY <1>1, <1>2
<1>9. Lines(t) = g[n + 1]
  BY <1>1, <1>3
<1>10. f[n] = g[n]
  BY <1>7
<1> HIDE DEF Folds, S
<1> QED
  BY <1>4, <1>8, <1>9, <1>10 DEF t

LEMMA NoLines == Lines(<<>>) = <<>> /\ RobustIO!FlattenSeq(<<>>) = <<>>
<1>1. <<>> \in [1 .. 0 -> Bytes]
  OBVIOUS
<1>2. Lines(<<>>) = <<>>
  <2>1. PICK made \in [0 .. 0 -> Seq(Seq(Bytes))] : made[0] = <<>> /\ Lines(<<>>) = made[0]
    BY <1>1, GrowFold
  <2> QED
    BY <2>1
<1>3. RobustIO!FlattenSeq(<<>>) = <<>>
  BY DEF RobustIO!FlattenSeq
<1> QED
  BY <1>2, <1>3

-----------------------------------------------------------------------------
(* What the lines that have been returned are of all the lines.            *)
Begins(ls) ==
  /\ Len(reads) <= Len(ls) /\ \A i \in 1 .. Len(reads) : ls[i] = reads[i]
  /\ Len(ls) = Len(reads) => reads = <<>> \/ Complete(reads[Len(reads)])

LEMMA BeginsGrows ==
  ASSUME reads \in Seq(Seq(Bytes)), NEW ls \in Seq(Seq(Bytes)), Begins(ls),
         NEW c \in Bytes
  PROVE  Begins(RobustIO!grow(ls, c))
<1> DEFINE m == RobustIO!grow(ls, c)
<1>0. /\ Len(ls) \in Nat /\ Len(reads) \in Nat /\ Len(reads) <= Len(ls)
      /\ \A i \in 1 .. Len(reads) : ls[i] = reads[i]
  BY DEF Begins
<1>1. ASSUME ls = <<>> \/ Complete(ls[Len(ls)]) PROVE Begins(m)
  <2>1. m = Append(ls, <<c>>)
    BY <1>1, Grows
  <2>2. <<c>> \in Seq(Bytes)
    OBVIOUS
  <2> HIDE DEF m, Bytes
  <2>3. Len(m) = Len(ls) + 1 /\ \A i \in 1 .. Len(ls) : m[i] = ls[i]
    BY <2>1, <2>2, AppendProperties
  <2>4. Len(reads) <= Len(m) /\ Len(m) # Len(reads)
    BY <1>0, <2>3
  <2>5. \A i \in 1 .. Len(reads) : i \in 1 .. Len(ls)
    BY <1>0
  <2> QED
    BY <1>0, <2>3, <2>4, <2>5 DEF Begins
<1>2. ASSUME ls # <<>>, ~Complete(ls[Len(ls)]) PROVE Begins(m)
  <2>1. m = SubSeq(ls, 1, Len(ls) - 1) \o <<Append(ls[Len(ls)], c)>>
    BY <1>2, Grows
  <2>2. Len(ls) # Len(reads)
    BY <1>2 DEF Begins
  <2>3. SubSeq(ls, 1, Len(ls) - 1) \in Seq(Seq(Bytes)) /\ Append(ls[Len(ls)], c) \in Seq(Bytes)
    BY <1>2
  <2> HIDE DEF m, Bytes
  <2>4. Len(m) = Len(ls) /\ \A i \in 1 .. Len(ls) - 1 : m[i] = ls[i]
    BY <1>2, <2>1, <2>3
  <2>5. \A i \in 1 .. Len(reads) : i \in 1 .. Len(ls) - 1
    BY <1>0, <2>2
  <2> QED
    BY <1>0, <2>2, <2>4, <2>5 DEF Begins
<1> QED
  BY <1>1, <1>2

LEMMA BeginsAll ==
  ASSUME reads \in Seq(Seq(Bytes)), NEW s \in Seq(Bytes), NEW d \in Seq(Bytes),
         Begins(Lines(s))
  PROVE  Begins(Lines(s \o d))
<1>0. PICK n \in Nat : n = Len(d)
  OBVIOUS
<1> DEFINE t(k) == s \o SubSeq(d, 1, k)
           S == {k \in 0 .. n : Begins(Lines(t(k)))}
<1> HIDE DEF Bytes
<1>1. t(0) = s
  <2>1. SubSeq(d, 1, 0) = <<>>
    BY SubSeqEmpty
  <2> QED
    BY <2>1, ConcatEmptySeq
<1>2. ASSUME NEW k \in 1 .. n
      PROVE  t(k - 1) \in Seq(Bytes) /\ d[k] \in Bytes /\ t(k) = Append(t(k - 1), d[k])
  <2>1. SubSeq(d, 1, k - 1) \in Seq(Bytes) /\ d[k] \in Bytes
    BY <1>0
  <2>2. SubSeq(d, 1, k) = SubSeq(d, 1, k - 1) \o <<d[k]>>
    <3>1. 1 \in 1 .. Len(d) /\ k \in 1 .. Len(d)
      BY <1>0
    <3> QED
      BY <3>1, SubSeqRecursiveSecond
  <2>3. <<d[k]>> \in Seq(Bytes)
    BY <2>1
  <2>4. t(k) = t(k - 1) \o <<d[k]>>
    <3>1. PICK p \in Seq(Bytes), e \in Seq(Bytes) : p = SubSeq(d, 1, k - 1) /\ e = <<d[k]>>
      BY <2>1, <2>3
    <3>2. (s \o p) \o e = s \o (p \o e)
      BY ConcatAssociative
    <3> QED
      BY <2>2, <3>1, <3>2
  <2>5. t(k - 1) \in Seq(Bytes)
    BY <2>1, ConcatProperties
  <2> HIDE DEF t
  <2>6. Append(t(k - 1), d[k]) = t(k - 1) \o <<d[k]>>
    BY <2>1, <2>5, AppendIsConcat
  <2>7. t(k) = Append(t(k - 1), d[k])
    BY <2>4, <2>6
  <2> QED
    BY <2>1, <2>5, <2>7
<1>3. 0 \in S
  <2> HIDE DEF t
  <2>1. Begins(Lines(t(0)))
    BY <1>1
  <2> QED
    BY <2>1
<1>4. ASSUME NEW k \in 1 .. n, k - 1 \in S PROVE k \in S
  <2>1. t(k - 1) \in Seq(Bytes) /\ d[k] \in Bytes /\ t(k) = Append(t(k - 1), d[k])
    BY <1>2
  <2>2. Begins(Lines(t(k - 1)))
    BY <1>4
  <2> HIDE DEF t
  <2>3. Lines(t(k)) = RobustIO!grow(Lines(t(k - 1)), d[k])
    BY <2>1, LinesAppend
  <2>4. Lines(t(k - 1)) \in Seq(Seq(Bytes))
    BY <2>1, LinesAppend
  <2>5. Begins(Lines(t(k)))
    BY <2>1, <2>2, <2>3, <2>4, BeginsGrows
  <2> QED
    BY <2>5
<1>5. n \in S
  <2> HIDE DEF S
  <2>1. \A k \in 0 .. n : k \in S
    BY <1>3, <1>4, Induction
  <2>2. n \in 0 .. n
    OBVIOUS
  <2> QED
    BY <2>1, <2>2
<1>6. t(n) = s \o d
  BY <1>0, SubSeqFull
<1> QED
  BY <1>5, <1>6

-----------------------------------------------------------------------------
(* What a connection holds while rio reads it by lines or by bytes.        *)
RioTypeOK ==
  /\ input \in Seq(Bytes) /\ left \in Seq(Bytes) /\ stream \in Seq(Bytes)
  /\ rio_buf \in Seq(Bytes) /\ usrbuf \in Seq(Bytes) /\ reads \in Seq(Seq(Bytes))
  /\ nbytes \in Nat /\ mode \in {"lines", "bytes"}

Got == RobustIO!FlattenSeq(reads) \o usrbuf

LinesInv ==
  /\ Lines(Got) = IF usrbuf = <<>> THEN reads ELSE Append(reads, usrbuf)
  /\ usrbuf # <<>> => ~Complete(usrbuf)
  /\ usrbuf = <<>> /\ reads # <<>> =>
       \/ Complete(reads[Len(reads)])
       \/ closed /\ stream = <<>> /\ rio_buf = <<>>

BytesInv ==
  /\ rio_buf = <<>> /\ Len(usrbuf) <= nbytes
  /\ reads # <<>> =>
       /\ usrbuf = <<>> /\ outcome # "live" /\ Len(reads) = 1
       /\ Len(reads[1]) <= nbytes
       /\ Len(reads[1]) = nbytes \/ (closed /\ stream = <<>>)

OverrunInv ==
  outcome = "overrun" =>
    mode = "lines" /\ reads # <<>> /\ Len(reads[Len(reads)]) = MaxLen

RioInv ==
  /\ RioTypeOK /\ RobustIO!InOrder /\ OverrunInv
  /\ mode = "lines" => LinesInv
  /\ mode = "bytes" => BytesInv

LEMMA MinOfTwo ==
  ASSUME NEW a \in Int, NEW b \in Int
  PROVE  RobustIO!Min({a, b}) = IF a <= b THEN a ELSE b
<1>1. \E x \in {a, b} : \A y \in {a, b} : x <= y
  OBVIOUS
<1> DEFINE x == RobustIO!Min({a, b})
<1>2. x \in {a, b} /\ \A y \in {a, b} : x <= y
  BY <1>1 DEF RobustIO!Min
<1> HIDE DEF x
<1>3. x = IF a <= b THEN a ELSE b
  BY <1>2
<1> QED
  BY <1>3 DEF x

(* A sequence cut in two.                                                  *)
LEMMA Cut ==
  ASSUME NEW V, NEW s \in Seq(V), NEW k \in 0 .. Len(s)
  PROVE  /\ RobustIO!UpTo(s, k) \in Seq(V) /\ RobustIO!From(s, k) \in Seq(V)
         /\ s = RobustIO!UpTo(s, k) \o RobustIO!From(s, k)
         /\ Len(RobustIO!UpTo(s, k)) = k
<1>1. 1 \in 1 .. Len(s) + 1 /\ k \in 1 - 1 .. Len(s) /\ Len(s) \in k .. Len(s)
  OBVIOUS
<1>2. SubSeq(s, 1, k) \o SubSeq(s, k + 1, Len(s)) = SubSeq(s, 1, Len(s))
  BY <1>1, ConcatAdjacentSubSeq
<1>3. SubSeq(s, 1, k) \in Seq(V) /\ Len(SubSeq(s, 1, k)) = k
  BY SubSeqProperties
<1>4. SubSeq(s, k + 1, Len(s)) \in Seq(V)
  BY SubSeqProperties
<1> QED
  BY <1>2, <1>3, <1>4, SubSeqFull DEF RobustIO!UpTo, RobustIO!From

(* What comes back is a prefix of what was sent.                           *)
LEMMA SentIs ==
  ASSUME RioTypeOK, RobustIO!InOrder
  PROVE  /\ Got \in Seq(Bytes) /\ RobustIO!FlattenSeq(reads) \in Seq(Bytes)
         /\ RobustIO!Sent = Got \o (rio_buf \o stream)
         /\ rio_buf \o stream \in Seq(Bytes)
<1> HIDE DEF Bytes
<1>1. RobustIO!FlattenSeq(reads) \in Seq(Bytes)
  <2>1. <<>> \in Seq(Bytes)
    OBVIOUS
  <2> QED
    BY <2>1, FlattenAppend DEF RioTypeOK
<1>2. Got \in Seq(Bytes) /\ rio_buf \o stream \in Seq(Bytes)
  BY <1>1, ConcatProperties DEF Got, RioTypeOK
<1>3. PICK x \in Seq(Bytes) : x = Got \o (rio_buf \o stream)
  BY <1>2, ConcatProperties
<1>4. input = x \o left
  <2>1. input = ((Got \o rio_buf) \o stream) \o left
    BY DEF RobustIO!InOrder, Got
  <2>2. (Got \o rio_buf) \o stream = Got \o (rio_buf \o stream)
    <3>1. rio_buf \in Seq(Bytes) /\ stream \in Seq(Bytes)
      BY DEF RioTypeOK
    <3> HIDE DEF Got
    <3>2. \A a, b, c \in Seq(Bytes) : (a \o b) \o c = a \o (b \o c)
      BY ConcatAssociative
    <3> QED
      BY <1>2, <3>1, <3>2, Zenon
  <2> QED
    BY <1>3, <2>1, <2>2
<1>5. RobustIO!Sent = x
  <2>1. left \in Seq(Bytes) /\ Len(input) = Len(x) + Len(left)
    BY <1>4, ConcatProperties DEF RioTypeOK
  <2>2. Len(input) - Len(left) = Len(x)
    BY <2>1
  <2>3. SubSeq(x \o left, 1, Len(x)) = x
    <3>1. CASE x = <<>>
      BY <3>1, SubSeqEmpty
    <3>2. CASE x # <<>>
      <4>1. 1 \in 1 .. Len(x) /\ Len(x) \in 1 .. Len(x)
        BY <3>2
      <4>2. SubSeq(x \o left, 1, Len(x)) = SubSeq(x, 1, Len(x))
        BY <2>1, <4>1, SubSeqOfConcat1
      <4> QED
        BY <4>2, SubSeqFull
    <3> QED
      BY <3>1, <3>2
  <2> QED
    BY <1>4, <2>2, <2>3 DEF RobustIO!Sent, RobustIO!UpTo
<1> QED
  BY <1>1, <1>2, <1>3, <1>5

(* Then the calls returned the lines, or the bytes, that were sent.        *)
LEMMA RioAsWritten == ASSUME RioInv PROVE AsWritten
<1> USE DEF RioInv
<1>1. ASSUME mode = "lines"
      PROVE  RobustIO!IsPrefix(reads, RobustIO!FoldLeft(RobustIO!grow, <<>>, RobustIO!Sent))
  <2>1. /\ Got \in Seq(Bytes) /\ rio_buf \o stream \in Seq(Bytes)
        /\ RobustIO!Sent = Got \o (rio_buf \o stream)
    BY SentIs
  <2>2. reads \in Seq(Seq(Bytes)) /\ usrbuf \in Seq(Bytes)
    BY DEF RioTypeOK
  <2>3. PICK ls \in Seq(Seq(Bytes)) : ls = Lines(RobustIO!Sent)
    <3>1. RobustIO!Sent \in Seq(Bytes)
      BY <2>1, ConcatProperties
    <3>2. NewLine \in Bytes
      BY DEF Bytes
    <3> QED
      BY <3>1, <3>2, LinesAppend
  <2> HIDE DEF Bytes
  <2>4. Len(reads) <= Len(ls) /\ \A i \in 1 .. Len(reads) : ls[i] = reads[i]
    <3>1. CASE usrbuf = <<>> /\ reads # <<>> /\ rio_buf = <<>> /\ stream = <<>>
      <4>1. Got \o (rio_buf \o stream) = Got
        BY <2>1, <3>1, ConcatEmptySeq
      <4>2. ls = reads
        BY <1>1, <2>1, <2>3, <3>1, <4>1 DEF LinesInv
      <4> QED
        BY <2>2, <4>2
    <3>2. CASE ~(usrbuf = <<>> /\ reads # <<>> /\ rio_buf = <<>> /\ stream = <<>>)
      <4>1. Begins(Lines(Got))
        <5>1. CASE usrbuf = <<>>
          <6>1. Lines(Got) = reads
            BY <1>1, <5>1 DEF LinesInv
          <6>2. reads = <<>> \/ Complete(reads[Len(reads)])
            BY <1>1, <3>2, <5>1 DEF LinesInv
          <6> QED
            BY <2>2, <6>1, <6>2 DEF Begins
        <5>2. CASE usrbuf # <<>>
          <6>1. Lines(Got) = Append(reads, usrbuf)
            BY <1>1, <5>2 DEF LinesInv
          <6>2. /\ Len(Append(reads, usrbuf)) = Len(reads) + 1 /\ Len(reads) \in Nat
                /\ \A i \in 1 .. Len(reads) : Append(reads, usrbuf)[i] = reads[i]
            BY <2>2, AppendProperties
          <6> QED
            BY <6>1, <6>2 DEF Begins
        <5> QED
          BY <5>1, <5>2
      <4>2. Begins(Lines(Got \o (rio_buf \o stream)))
        BY <2>1, <2>2, <4>1, BeginsAll
      <4> QED
        BY <2>1, <2>3, <4>2 DEF Begins
    <3> QED
      BY <3>1, <3>2
  <2>5. SubSeq(reads, 1, Len(reads)) = SubSeq(ls, 1, Len(reads))
    <3>1. /\ SubSeq(reads, 1, Len(reads)) = reads
          /\ SubSeq(ls, 1, Len(reads)) \in Seq(Seq(Bytes))
          /\ Len(SubSeq(ls, 1, Len(reads))) = Len(reads)
          /\ \A i \in 1 .. Len(reads) : SubSeq(ls, 1, Len(reads))[i] = ls[i]
      BY <2>2, <2>4
    <3> QED
      BY <2>2, <2>4, <3>1, SeqEqual
  <2> QED
    BY <2>3, <2>4, <2>5 DEF RobustIO!IsPrefix, Lines
<1>2. ASSUME mode = "bytes", reads # <<>>
      PROVE  reads = <<RobustIO!UpTo(RobustIO!Sent,
                                     RobustIO!Min({nbytes, Len(RobustIO!Sent)}))>>
  <2>1. PICK w \in Seq(Bytes) : reads = <<w>>
    BY <1>2 DEF RioTypeOK, BytesInv
  <2>2. /\ usrbuf = <<>> /\ rio_buf = <<>> /\ Len(w) <= nbytes
        /\ Len(w) = nbytes \/ stream = <<>>
    BY <1>2, <2>1 DEF BytesInv
  <2>3. /\ Len(w) \in Nat /\ nbytes \in Nat /\ stream \in Seq(Bytes)
        /\ <<>> \in Seq(Seq(Bytes)) /\ <<>> \in Seq(Bytes)
    BY DEF RioTypeOK
  <2> HIDE DEF Bytes
  <2>4. RobustIO!FlattenSeq(reads) = w
    <3>1. Append(<<>>, w) = <<w>>
      OBVIOUS
    <3>2. RobustIO!FlattenSeq(Append(<<>>, w)) = RobustIO!FlattenSeq(<<>>) \o w
      BY <2>3, FlattenAppend
    <3> QED
      BY <2>1, <3>1, <3>2, NoLines, ConcatEmptySeq
  <2>5. RobustIO!Sent = w \o stream
    <3>1. RobustIO!Sent = (w \o <<>>) \o (<<>> \o stream)
      BY <2>2, <2>4, SentIs DEF Got
    <3> QED
      BY <2>3, <3>1, ConcatEmptySeq
  <2>6. Len(w \o stream) = Len(w) + Len(stream) /\ Len(stream) \in Nat
    BY <2>3, ConcatProperties
  <2>7. RobustIO!Min({nbytes, Len(w \o stream)}) = Len(w)
    <3>1. RobustIO!Min({nbytes, Len(w \o stream)})
            = IF nbytes <= Len(w \o stream) THEN nbytes ELSE Len(w \o stream)
      BY <2>3, <2>6, MinOfTwo
    <3>2. stream = <<>> => Len(stream) = 0
      OBVIOUS
    <3> QED
      BY <2>2, <2>3, <2>6, <3>1, <3>2
  <2>8. SubSeq(w \o stream, 1, Len(w)) = w
    <3>1. CASE w = <<>>
      BY <3>1, SubSeqEmpty
    <3>2. CASE w # <<>>
      <4>1. 1 \in 1 .. Len(w) /\ Len(w) \in 1 .. Len(w)
        BY <3>2
      <4>2. SubSeq(w \o stream, 1, Len(w)) = SubSeq(w, 1, Len(w))
        BY <2>3, <4>1, SubSeqOfConcat1
      <4> QED
        BY <4>2, SubSeqFull
    <3> QED
      BY <3>1, <3>2
  <2> QED
    BY <2>1, <2>5, <2>7, <2>8 DEF RobustIO!UpTo
<1>3. outcome = "overrun" => Len(RobustIO!Last(reads)) = MaxLen
  BY DEF OverrunInv, RobustIO!Last
<1> QED
  BY <1>1, <1>2, <1>3 DEF AsWritten, RobustIO!AsWritten

-----------------------------------------------------------------------------
(* Concatenation of sequences of bytes.                                    *)
LEMMA Concat ==
  /\ \A a, b \in Seq(Bytes) : a \o b \in Seq(Bytes) /\ Len(a \o b) = Len(a) + Len(b)
  /\ \A a, b, c \in Seq(Bytes) : (a \o b) \o c = a \o (b \o c)
  /\ <<>> \in Seq(Bytes) /\ \A a \in Seq(Bytes) : a \o <<>> = a /\ <<>> \o a = a
  /\ \A a \in Seq(Bytes), e \in Bytes :
       <<e>> \in Seq(Bytes) /\ Append(a, e) = a \o <<e>> /\ Append(a, e) \in Seq(Bytes)
<1> HIDE DEF Bytes
<1>1. \A a, b \in Seq(Bytes) : a \o b \in Seq(Bytes) /\ Len(a \o b) = Len(a) + Len(b)
  BY ConcatProperties
<1>2. \A a, b, c \in Seq(Bytes) : (a \o b) \o c = a \o (b \o c)
  BY ConcatAssociative
<1>3. <<>> \in Seq(Bytes) /\ \A a \in Seq(Bytes) : a \o <<>> = a /\ <<>> \o a = a
  BY ConcatEmptySeq
<1>4. \A a \in Seq(Bytes), e \in Bytes : 
       <<e>> \in Seq(Bytes) /\ Append(a, e) = a \o <<e>> /\ Append(a, e) \in Seq(Bytes)
  BY AppendIsConcat, AppendProperties
<1> QED
  BY <1>1, <1>2, <1>3, <1>4

Flat == RobustIO!FlattenSeq(reads)

LEMMA FlatSeq ==
  ASSUME RioTypeOK
  PROVE  /\ Flat \in Seq(Bytes)
         /\ \A x \in Seq(Bytes) : /\ Append(reads, x) \in Seq(Seq(Bytes))
                                  /\ RobustIO!FlattenSeq(Append(reads, x)) = Flat \o x
<1>1. reads \in Seq(Seq(Bytes)) /\ \A x \in Seq(Bytes) : Append(reads, x) \in Seq(Seq(Bytes))
  BY DEF RioTypeOK
<1>2. <<>> \in Seq(Bytes)
  OBVIOUS
<1> HIDE DEF Bytes
<1> QED
  BY <1>1, <1>2, FlattenAppend DEF Flat

LEMMA RioWrite ==
  ASSUME RioInv, RobustIO!Write PROVE RioInv'
<1> USE DEF RioInv
<1>1. PICK k \in 1 .. Len(left) : /\ stream' = stream \o RobustIO!UpTo(left, k)
                                  /\ left' = RobustIO!From(left, k)
  BY DEF RobustIO!Write
<1>2. /\ ~closed /\ UNCHANGED <<input, mode, nbytes, closed, rio_buf, usrbuf, reads, outcome>>
  BY DEF RobustIO!Write, RobustIO!fixed, RobustIO!reader_vars
<1>3. PICK p \in Seq(Bytes), q \in Seq(Bytes) :
        left = p \o q /\ stream' = stream \o p /\ left' = q
  <2>1. k \in 0 .. Len(left) /\ left \in Seq(Bytes)
    BY DEF RioTypeOK
  <2> HIDE DEF Bytes
  <2> QED
    BY <1>1, <2>1, Cut
<1>4. RioTypeOK'
  BY <1>2, <1>3, Concat DEF RioTypeOK
<1>5. RobustIO!InOrder'
  <2>1. PICK g \in Seq(Bytes) : g = (Flat \o usrbuf) \o rio_buf
    BY Concat, FlatSeq DEF RioTypeOK
  <2>2. (g \o stream) \o (p \o q) = (g \o (stream \o p)) \o q
    <3>1. stream \in Seq(Bytes)
      BY DEF RioTypeOK
    <3> HIDE DEF Bytes
    <3>2. g \o stream \in Seq(Bytes)
      BY <3>1, Concat
    <3>3. (g \o stream) \o (p \o q) = ((g \o stream) \o p) \o q
      BY <3>2, Concat
    <3>4. (g \o stream) \o p = g \o (stream \o p)
      BY <3>1, Concat
    <3> QED
      BY <3>3, <3>4
  <2>3. (g \o stream) \o left = input
    BY <2>1 DEF RobustIO!InOrder, Flat
  <2>4. RobustIO!InOrder' <=> (g \o stream') \o left' = input
    BY <1>2, <2>1 DEF RobustIO!InOrder, Flat
  <2>5. (g \o stream) \o (p \o q) = input
    BY <1>3, <2>3
  <2>6. (g \o stream') \o left' = (g \o (stream \o p)) \o q
    BY <1>3
  <2>7. (g \o stream') \o left' = input
    BY <2>2, <2>5, <2>6
  <2> QED
    BY <2>4, <2>7
<1>6. (mode = "lines" => LinesInv)'
  <2>1. Got' = Got
    BY <1>2 DEF Got
  <2> QED
    BY <1>2, <2>1 DEF LinesInv
<1>7. (mode = "bytes" => BytesInv)'
  BY <1>2 DEF BytesInv
<1>8. OverrunInv'
  BY <1>2 DEF OverrunInv
<1> QED
  BY <1>4, <1>5, <1>6, <1>7, <1>8

LEMMA RioClose ==
  ASSUME RioInv, RobustIO!Close PROVE RioInv'
BY DEF RioInv, RobustIO!Close, RobustIO!fixed, RobustIO!reader_vars, RioTypeOK,
       RobustIO!InOrder, OverrunInv, LinesInv, BytesInv, Got

LEMMA RioRefill ==
  ASSUME RioInv, RobustIO!Refill PROVE RioInv'
<1> USE DEF RioInv
<1>1. /\ mode = "lines" /\ rio_buf = <<>> /\ stream # <<>>
      /\ UNCHANGED <<input, mode, nbytes, left, closed, usrbuf, reads, outcome>>
  BY DEF RobustIO!Refill, RobustIO!Reading, RobustIO!needs_refill, RobustIO!fixed
<1>2. PICK p \in Seq(Bytes), q \in Seq(Bytes) :
        stream = p \o q /\ rio_buf' = p /\ stream' = q
  <2>1. PICK k \in 1 .. RobustIO!Min({RIO_BUFSIZE, Len(stream)}) :
          rio_buf' = RobustIO!UpTo(stream, k) /\ stream' = RobustIO!From(stream, k)
    BY DEF RobustIO!Refill
  <2>2. stream \in Seq(Bytes) /\ k \in 0 .. Len(stream)
    <3>1. stream \in Seq(Bytes) /\ Len(stream) \in Int /\ RIO_BUFSIZE \in Int
      BY ProgramsAssumption DEF RioTypeOK
    <3>2. RobustIO!Min({RIO_BUFSIZE, Len(stream)}) <= Len(stream)
          /\ RobustIO!Min({RIO_BUFSIZE, Len(stream)}) \in Int
      BY <3>1, MinOfTwo
    <3> QED
      BY <3>1, <3>2
  <2> HIDE DEF Bytes
  <2> QED
    BY <2>1, <2>2, Cut
<1>3. RioTypeOK'
  BY <1>1, <1>2 DEF RioTypeOK
<1>4. RobustIO!InOrder'
  <2>1. PICK g \in Seq(Bytes) : g = Flat \o usrbuf
    BY Concat, FlatSeq DEF RioTypeOK
  <2>2. (g \o <<>>) \o (p \o q) = (g \o p) \o q
    BY Concat
  <2> QED
    BY <1>1, <1>2, <2>1, <2>2 DEF RobustIO!InOrder, Flat
<1>5. LinesInv'
  <2>1. LinesInv /\ ~(closed /\ stream = <<>> /\ rio_buf = <<>>)
    BY <1>1
  <2> QED
    BY <1>1, <2>1 DEF LinesInv, Got
<1>6. OverrunInv'
  BY <1>1 DEF OverrunInv
<1> QED
  BY <1>1, <1>3, <1>4, <1>5, <1>6

LEMMA RioLineEof ==
  ASSUME RioInv, RobustIO!LineEof PROVE RioInv'
<1> USE DEF RioInv
<1>1. /\ mode = "lines" /\ rio_buf = <<>> /\ stream = <<>> /\ closed /\ outcome = "live"
      /\ UNCHANGED <<input, mode, nbytes, left, stream, closed, rio_buf>>
  BY DEF RobustIO!LineEof, RobustIO!Reading, RobustIO!AtEof, RobustIO!fixed
<1>2. CASE usrbuf = <<>>
  <2>1. UNCHANGED <<usrbuf, reads>> /\ outcome' = "eof"
    BY <1>2 DEF RobustIO!LineEof
  <2> QED
    BY <1>1, <2>1 DEF RioTypeOK, RobustIO!InOrder, OverrunInv, LinesInv, Got
<1>3. CASE usrbuf # <<>>
  <2>1. reads' = Append(reads, usrbuf) /\ usrbuf' = <<>> /\ outcome' = outcome
    BY <1>3 DEF RobustIO!LineEof, RobustIO!Return
  <2>2. /\ usrbuf \in Seq(Bytes) /\ Flat \in Seq(Bytes) /\ <<>> \in Seq(Bytes)
        /\ Append(reads, usrbuf) \in Seq(Seq(Bytes)) /\ Flat' = Flat \o usrbuf
    BY <2>1, Concat, FlatSeq DEF RioTypeOK, Flat
  <2>3. Got' = Got
    BY <2>1, <2>2, Concat DEF Got, Flat
  <2>4. RioTypeOK'
    BY <1>1, <2>1, <2>2 DEF RioTypeOK
  <2>5. RobustIO!InOrder'
    BY <1>1, <2>3 DEF RobustIO!InOrder, Got
  <2>6. LinesInv'
    BY <1>1, <1>3, <2>1, <2>3 DEF LinesInv
  <2>7. OverrunInv'
    BY <1>1, <2>1 DEF OverrunInv
  <2> QED
    BY <1>1, <2>4, <2>5, <2>6, <2>7
<1> QED
  BY <1>2, <1>3

LEMMA RioTakeByte ==
  ASSUME RioInv, RobustIO!TakeByte PROVE RioInv'
<1> USE DEF RioInv
<1>1. /\ mode = "lines" /\ rio_buf # <<>> /\ outcome = "live"
      /\ UNCHANGED <<input, mode, nbytes, left, stream, closed>>
      /\ rio_buf' = Tail(rio_buf)
  BY DEF RobustIO!TakeByte, RobustIO!Reading, RobustIO!needs_refill, RobustIO!fixed
<1>2. PICK c \in Bytes, b \in Seq(Bytes) :
        c = Head(rio_buf) /\ rio_buf' = b /\ rio_buf = <<c>> \o b
  <2>1. rio_buf \in Seq(Bytes)
    BY DEF RioTypeOK
  <2> HIDE DEF Bytes
  <2>2. Head(rio_buf) \in Bytes /\ Tail(rio_buf) \in Seq(Bytes)
    BY <1>1, <2>1, HeadTailProperties
  <2>3. 1 \in 1 .. Len(rio_buf) /\ Len(rio_buf) \in 1 .. Len(rio_buf) /\ 1 + 1 = 2
        /\ Head(rio_buf) = rio_buf[1]
    BY <1>1, <2>1
  <2>4. SubSeq(rio_buf, 1, Len(rio_buf))
          = <<rio_buf[1]>> \o SubSeq(rio_buf, 1 + 1, Len(rio_buf))
    BY <2>1, <2>3, SubSeqRecursiveFirst
  <2>5. /\ SubSeq(rio_buf, 1, Len(rio_buf)) = rio_buf
        /\ SubSeq(rio_buf, 2, Len(rio_buf)) = Tail(rio_buf)
    BY <1>1, <2>1, SubSeqFull, TailIsSubSeq
  <2>6. rio_buf = <<Head(rio_buf)>> \o Tail(rio_buf)
    BY <2>3, <2>4, <2>5
  <2> QED
    BY <1>1, <2>2, <2>6
<1>3. PICK line \in Seq(Bytes) : /\ line = Append(usrbuf, c) /\ line = usrbuf \o <<c>>
                                 /\ line # <<>> /\ line[Len(line)] = c
  <2>1. usrbuf \in Seq(Bytes)
    BY DEF RioTypeOK
  <2> HIDE DEF Bytes
  <2>2. /\ Append(usrbuf, c) \in Seq(Bytes) /\ Append(usrbuf, c) = usrbuf \o <<c>>
        /\ Append(usrbuf, c) # <<>> /\ Len(Append(usrbuf, c)) = Len(usrbuf) + 1
        /\ Append(usrbuf, c)[Len(usrbuf) + 1] = c
    BY <2>1, AppendIsConcat, AppendProperties
  <2> QED
    BY <2>2
<1>4. /\ IF Complete(line) THEN reads' = Append(reads, line) /\ usrbuf' = <<>>
         ELSE usrbuf' = line /\ reads' = reads
      /\ IF Len(line) = MaxLen THEN outcome' \in {"live", "overrun"}
         ELSE outcome' = outcome
  BY <1>2, <1>3 DEF RobustIO!TakeByte, RobustIO!Return, RobustIO!ends_line, Complete
<1> HIDE DEF Bytes
<1>5. /\ Flat \in Seq(Bytes) /\ usrbuf \in Seq(Bytes) /\ <<c>> \in Seq(Bytes)
      /\ Append(reads, line) \in Seq(Seq(Bytes)) /\ reads \in Seq(Seq(Bytes))
      /\ RobustIO!FlattenSeq(Append(reads, line)) = Flat \o line
      /\ Got = Flat \o usrbuf /\ Got \in Seq(Bytes)
  BY Concat, FlatSeq DEF RioTypeOK, Got, Flat
<1>6. Got' = Append(Got, c) /\ Got' = Got \o <<c>>
  <2>1. Got' = Flat \o line
    <3>1. CASE Complete(line)
      <4>1. Got' = (Flat \o line) \o <<>>
        BY <1>4, <1>5, <3>1 DEF Got
      <4>2. Flat \o line \in Seq(Bytes)
        BY <1>5, Concat
      <4> QED
        BY <4>1, <4>2, Concat
    <3>2. CASE ~Complete(line)
      BY <1>4, <3>2 DEF Got, Flat
    <3> QED
      BY <3>1, <3>2
  <2>2. Flat \o (usrbuf \o <<c>>) = (Flat \o usrbuf) \o <<c>>
    BY <1>5, Concat
  <2> QED
    BY <1>3, <1>5, <2>1, <2>2, Concat
<1>7. RioTypeOK'
  BY <1>1, <1>2, <1>3, <1>4, <1>5, Concat DEF RioTypeOK
<1>8. RobustIO!InOrder'
  <2>1. (Got \o rio_buf) \o stream \o left = input
    BY DEF RobustIO!InOrder, Got
  <2>2. Got \o (<<c>> \o b) = (Got \o <<c>>) \o b
    <3>1. PICK g \in Seq(Bytes), e \in Seq(Bytes) : g = Got /\ e = <<c>>
      BY <1>5
    <3>2. g \o (e \o b) = (g \o e) \o b
      BY Concat
    <3> QED
      BY <3>1, <3>2
  <2> HIDE DEF RioInv
  <2>3. RobustIO!InOrder' <=> (Got' \o rio_buf') \o stream' \o left' = input'
    BY DEF RobustIO!InOrder, Got
  <2> QED
    BY <1>1, <1>2, <1>6, <2>1, <2>2, <2>3
<1>9. LinesInv'
  <2>1. ~(closed /\ stream = <<>> /\ rio_buf = <<>>)
    BY <1>1
  <2>2. Lines(Got') = RobustIO!grow(Lines(Got), c)
    BY <1>5, <1>6, LinesAppend
  <2>3. Lines(Got') = Append(reads, line)
    <3>1. CASE usrbuf = <<>>
      <4>1. Lines(Got) = reads /\ (reads = <<>> \/ Complete(reads[Len(reads)]))
        BY <1>1, <2>1, <3>1 DEF LinesInv
      <4>2. RobustIO!grow(reads, c) = Append(reads, <<c>>)
        BY <1>5, <4>1, Grows
      <4>3. line = <<c>>
        BY <1>3, <1>5, <3>1, Concat
      <4> QED
        BY <2>2, <4>1, <4>2, <4>3
    <3>2. CASE usrbuf # <<>>
      <4>1. PICK ls \in Seq(Seq(Bytes)) : ls = Append(reads, usrbuf)
        BY <1>5, FlatSeq
      <4>2. /\ Lines(Got) = ls /\ ls # <<>> /\ ls[Len(ls)] = usrbuf /\ ~Complete(usrbuf)
            /\ SubSeq(ls, 1, Len(ls) - 1) = reads
        <5>1. Lines(Got) = ls /\ ~Complete(usrbuf)
          BY <1>1, <3>2, <4>1 DEF LinesInv
        <5>2. ls # <<>> /\ ls[Len(ls)] = usrbuf
          BY <1>5, <4>1, AppendProperties
        <5>3. SubSeq(ls, 1, Len(ls) - 1) = reads
          BY <1>5, <4>1
        <5> QED
          BY <5>1, <5>2, <5>3
      <4>3. RobustIO!grow(ls, c) = reads \o <<Append(usrbuf, c)>>
        BY <4>2, Grows
      <4>4. reads \o <<line>> = Append(reads, line)
        BY <1>5, AppendIsConcat
      <4> QED
        BY <1>3, <2>2, <4>2, <4>3, <4>4
    <3> QED
      BY <3>1, <3>2
  <2>4. CASE Complete(line)
    <3>1. reads' = Append(reads, line) /\ usrbuf' = <<>>
      BY <1>4, <2>4
    <3>2. reads'[Len(reads')] = line
      BY <1>5, <3>1, AppendProperties
    <3> QED
      BY <2>3, <2>4, <3>1, <3>2 DEF LinesInv
  <2>5. CASE ~Complete(line)
    <3>1. usrbuf' = line /\ reads' = reads
      BY <1>4, <2>5
    <3> QED
      BY <1>3, <2>3, <2>5, <3>1 DEF LinesInv
  <2> QED
    BY <2>4, <2>5
<1>10. OverrunInv'
  <2>1. CASE Len(line) = MaxLen
    <3>1. reads' = Append(reads, line)
      BY <1>4, <2>1 DEF Complete
    <3>2. reads' # <<>> /\ reads'[Len(reads')] = line
      BY <1>5, <3>1, AppendProperties
    <3> QED
      BY <1>1, <2>1, <3>2 DEF OverrunInv
  <2>2. CASE Len(line) # MaxLen
    BY <1>1, <1>4, <2>2 DEF OverrunInv
  <2> QED
    BY <2>1, <2>2
<1> QED
  BY <1>1, <1>7, <1>8, <1>9, <1>10

LEMMA RioReadBytes ==
  ASSUME RioInv, RobustIO!ReadBytes PROVE RioInv'
<1> USE DEF RioInv
<1>1. /\ mode = "bytes" /\ outcome = "live" /\ nbytes - Len(usrbuf) > 0
      /\ UNCHANGED <<input, mode, nbytes, left, closed, rio_buf, reads, outcome>>
  BY DEF RobustIO!ReadBytes, RobustIO!Reading, RobustIO!nleft, RobustIO!fixed
<1>2. PICK p \in Seq(Bytes), q \in Seq(Bytes) :
        /\ stream = p \o q /\ usrbuf' = usrbuf \o p /\ stream' = q
        /\ Len(p) <= nbytes - Len(usrbuf)
  <2>1. PICK k \in 1 .. RobustIO!Min({nbytes - Len(usrbuf), Len(stream)}) :
          /\ usrbuf' = usrbuf \o RobustIO!UpTo(stream, k)
          /\ stream' = RobustIO!From(stream, k)
    BY DEF RobustIO!ReadBytes, RobustIO!nleft
  <2>2. /\ stream \in Seq(Bytes) /\ k \in 0 .. Len(stream)
        /\ k <= nbytes - Len(usrbuf)
    <3>1. stream \in Seq(Bytes) /\ Len(stream) \in Int /\ nbytes - Len(usrbuf) \in Int
      BY DEF RioTypeOK
    <3> DEFINE m == RobustIO!Min({nbytes - Len(usrbuf), Len(stream)})
    <3>2. m = IF nbytes - Len(usrbuf) <= Len(stream) THEN nbytes - Len(usrbuf)
              ELSE Len(stream)
      BY <3>1, MinOfTwo
    <3>3. k \in 1 .. m
      BY <2>1
    <3> HIDE DEF m
    <3> QED
      BY <3>1, <3>2, <3>3
  <2> HIDE DEF Bytes
  <2> QED
    BY <2>1, <2>2, Cut
<1> HIDE DEF Bytes
<1>3. RioTypeOK'
  BY <1>1, <1>2, Concat DEF RioTypeOK
<1>4. reads = <<>> /\ rio_buf = <<>> /\ rio_buf' = <<>>
  BY <1>1 DEF BytesInv
<1>5. RobustIO!InOrder'
  <2>1. /\ Flat \in Seq(Bytes) /\ usrbuf \in Seq(Bytes) /\ stream \in Seq(Bytes)
        /\ Flat \o usrbuf \in Seq(Bytes)
    BY Concat, FlatSeq DEF RioTypeOK
  <2>2. PICK g \in Seq(Bytes) : g = Flat \o usrbuf
    BY <2>1
  <2>3. (g \o <<>>) \o (p \o q) = ((g \o p) \o <<>>) \o q
    <3>1. g \o p \in Seq(Bytes)
      BY Concat
    <3>2. g \o <<>> = g /\ (g \o p) \o <<>> = g \o p
      BY <3>1, Concat
    <3>3. g \o (p \o q) = (g \o p) \o q
      BY Concat
    <3> QED
      BY <3>2, <3>3
  <2>4. Flat \o (usrbuf \o p) = g \o p
    BY <2>1, <2>2, Concat
  <2>5. ((g \o <<>>) \o stream) \o left = input
    BY <1>4, <2>2 DEF RobustIO!InOrder, Flat
  <2>6. RobustIO!InOrder' <=> (((g \o p) \o <<>>) \o q) \o left = input
    BY <1>1, <1>2, <1>4, <2>4 DEF RobustIO!InOrder, Flat
  <2> QED
    BY <1>2, <2>3, <2>5, <2>6
<1>6. BytesInv'
  <2>1. Len(usrbuf \o p) = Len(usrbuf) + Len(p) /\ Len(usrbuf) \in Nat /\ Len(p) \in Nat
    BY Concat DEF RioTypeOK
  <2>2. Len(usrbuf') <= nbytes /\ nbytes' = nbytes
    BY <1>1, <1>2, <2>1 DEF RioTypeOK
  <2> QED
    BY <1>1, <1>4, <2>2 DEF BytesInv
<1>7. OverrunInv'
  BY <1>1 DEF OverrunInv
<1> QED
  BY <1>1, <1>3, <1>5, <1>6, <1>7

LEMMA RioReadDone ==
  ASSUME RioInv, RobustIO!ReadDone PROVE RioInv'
<1> USE DEF RioInv
<1>1. /\ mode = "bytes" /\ outcome = "live" /\ outcome' = "eof"
      /\ nbytes - Len(usrbuf) <= 0 \/ (stream = <<>> /\ closed)
      /\ UNCHANGED <<input, mode, nbytes, left, stream, closed, rio_buf>>
      /\ reads' = Append(reads, usrbuf) /\ usrbuf' = <<>>
  BY DEF RobustIO!ReadDone, RobustIO!Reading, RobustIO!nleft, RobustIO!fixed,
         RobustIO!AtEof, RobustIO!Return
<1>2. /\ usrbuf \in Seq(Bytes) /\ Flat \in Seq(Bytes) /\ <<>> \in Seq(Bytes)
      /\ Append(reads, usrbuf) \in Seq(Seq(Bytes)) /\ Flat' = Flat \o usrbuf
  BY <1>1, Concat, FlatSeq DEF RioTypeOK, Flat
<1>3. Got' = Got
  BY <1>1, <1>2, Concat DEF Got, Flat
<1>4. RioTypeOK'
  BY <1>1, <1>2 DEF RioTypeOK
<1>5. RobustIO!InOrder'
  BY <1>1, <1>3 DEF RobustIO!InOrder, Got
<1>6. BytesInv'
  <2>1. reads = <<>> /\ rio_buf = <<>> /\ Len(usrbuf) <= nbytes
        /\ Len(usrbuf) \in Nat /\ nbytes \in Nat
    BY <1>1 DEF BytesInv, RioTypeOK
  <2>2. reads' = <<usrbuf>> /\ Len(reads') = 1 /\ reads'[1] = usrbuf /\ Len(usrbuf') = 0
    <3>1. reads' = Append(<<>>, usrbuf) /\ usrbuf' = <<>>
      BY <1>1, <2>1
    <3>2. Append(<<>>, usrbuf) = <<usrbuf>>
      OBVIOUS
    <3>3. Len(<<usrbuf>>) = 1 /\ <<usrbuf>>[1] = usrbuf /\ Len(<<>>) = 0
      OBVIOUS
    <3> QED
      BY <3>1, <3>2, <3>3
  <2>3. Len(usrbuf) = nbytes \/ (closed /\ stream = <<>>)
    BY <1>1, <2>1
  <2> QED
    BY <1>1, <2>1, <2>2, <2>3 DEF BytesInv
<1>7. OverrunInv'
  BY <1>1 DEF OverrunInv
<1> QED
  BY <1>1, <1>4, <1>5, <1>6, <1>7

LEMMA RioStart == ASSUME RobustIO!Init PROVE RioInv
<1>1. /\ left = input /\ stream = <<>> /\ closed = FALSE /\ mode \in {"lines", "bytes"}
      /\ nbytes \in Nat /\ rio_buf = <<>> /\ usrbuf = <<>> /\ reads = <<>>
      /\ outcome = "live"
  BY ProgramsAssumption DEF RobustIO!Init
<1>2. input \in Seq(Bytes)
  BY ProgramsAssumption DEF RobustIO!Init, RobustIO!SeqOf, Bytes
<1> HIDE DEF Bytes
<1>3. RioTypeOK
  BY <1>1, <1>2, Concat DEF RioTypeOK
<1>4. Got = <<>>
  BY <1>1, NoLines, Concat DEF Got
<1>5. RobustIO!InOrder
  <2>1. ((<<>> \o <<>>) \o <<>>) \o input = input
    BY <1>2, Concat
  <2> QED
    BY <1>1, <1>4, <2>1 DEF RobustIO!InOrder, Got
<1>6. LinesInv
  BY <1>1, <1>4, NoLines DEF LinesInv
<1>7. BytesInv
  BY <1>1 DEF BytesInv
<1> QED
  BY <1>1, <1>3, <1>5, <1>6, <1>7 DEF RioInv, OverrunInv

LEMMA RioStep ==
  ASSUME RioInv, RobustIO!Next \/ UNCHANGED <<rio_vars, outcome>> PROVE RioInv'
<1>1. ASSUME UNCHANGED rio_vars, outcome' # "live", outcome' # "overrun" PROVE RioInv'
  <2>1. RioTypeOK' /\ RobustIO!InOrder' /\ (mode = "lines" => LinesInv)'
    BY <1>1 DEF rio_vars, RioInv, RioTypeOK, RobustIO!InOrder, LinesInv, Got
  <2>2. (mode = "bytes" => BytesInv)' /\ OverrunInv'
    BY <1>1 DEF rio_vars, RioInv, BytesInv, OverrunInv
  <2> QED
    BY <2>1, <2>2 DEF RioInv
<1>2. ASSUME UNCHANGED <<rio_vars, outcome>> PROVE RioInv'
  BY <1>2 DEF rio_vars, RioInv, RioTypeOK, RobustIO!InOrder, LinesInv, BytesInv,
              OverrunInv, Got
<1>3. CASE RobustIO!ReadFails
  BY <1>1, <1>3 DEF RobustIO!ReadFails, RobustIO!fixed, rio_vars
<1>4. CASE RobustIO!Ended
  BY <1>2, <1>4 DEF RobustIO!Ended, RobustIO!vars, rio_vars
<1> QED
  BY <1>2, <1>3, <1>4, RioWrite, RioClose, RioRefill, RioTakeByte, RioLineEof,
     RioReadBytes, RioReadDone DEF RobustIO!Next

(* Only a line overruns its buffer, and only wc_destroy ends with "done".  *)
LEMMA OtherOutcomes ==
  ASSUME ProgramsNext
  PROVE  /\ part # "rio" => outcome' = outcome \/ outcome' # "overrun"
         /\ part # "words" => outcome' = outcome \/ outcome' # "done"
<1>1. CASE Next
  BY <1>1 DEF Next, sp_add_point, sp_remove_first, sp_remove_last, sp_remove_by_index,
              sp_delete_duplicates, sp_destroy, Unlink, AddFault, DeleteFault, Fault,
              Ended, vars
<1>2. CASE part = "words" /\ Words!Next
  BY <1>2 DEF Words!Next, Words!mapped, Words!Skip, Words!Word, Words!LastWord, Words!WordFault,
              Words!wc_output, Words!FreeElement, Words!FreeTable, Words!Ended,
              Words!vars
<1>3. CASE Lab!Next
  BY <1>3 DEF Lab!Next, Lab!EnterStub, Lab!Create, Lab!YieldAny, Lab!YieldTid,
              Lab!YieldSwitch, Lab!YieldReturn, Lab!YieldFault, Lab!ThreadExit,
              Lab!StubExit, Lab!Kill, Lab!Unimplemented, Lab!Ended, Lab!Stop, Lab!vars,
              Lab!Choose
<1>4. CASE Lab!BakNext
  BY <1>4 DEF Lab!BakNext, Lab!BakStub, Lab!BakCreate, Lab!BakCreateReturn,
              Lab!BakCreateFault, Lab!BakYield, Lab!Preempt, Lab!BakSwitch,
              Lab!BakReturn, Lab!BakExit, Lab!BakStubExit, Lab!BakKill,
              Lab!BakUnimplemented, Lab!InterruptsSet, Lab!BakEnded, Lab!bak_vars,
              Lab!EnterStub, Lab!Create, Lab!YieldAny, Lab!YieldTid, Lab!YieldSwitch,
              Lab!YieldReturn, Lab!YieldFault, Lab!ThreadExit, Lab!StubExit, Lab!Kill,
              Lab!Unimplemented, Lab!Stop, Lab!vars, Lab!Choose
<1>5. CASE Reg!RegNext
  BY <1>5 DEF Reg!RegNext, Reg!RegStub, Reg!RegCreate, Reg!RegSwitch, Reg!RegYieldAny,
              Reg!RegYieldTid, Reg!FreeFault, Reg!RegExit, Reg!RegExitFault,
              Reg!RegStubExit, Reg!RegKill, Reg!RegUnimplemented, Reg!RegEnded,
              Reg!reg_vars, Reg!EnterStub, Reg!Create, Reg!YieldAny, Reg!YieldTid,
              Reg!YieldSwitch, Reg!StubExit, Reg!Unimplemented, Reg!Stop, Reg!vars
<1>6. CASE part = "rio" /\ RobustIO!Next
  BY <1>6 DEF RobustIO!Next, RobustIO!Write, RobustIO!Close, RobustIO!Refill,
              RobustIO!TakeByte, RobustIO!LineEof, RobustIO!ReadBytes, RobustIO!ReadDone,
              RobustIO!ReadFails, RobustIO!Ended, RobustIO!reader_vars, RobustIO!vars
<1> QED
  BY <1>1, <1>2, <1>3, <1>4, <1>5, <1>6 DEF ProgramsNext

ConnectionInv ==
  RioInv /\ (part # "rio" => mode = "lines" /\ outcome # "overrun")

LEMMA ConnectionInvHolds == ProgramsSpec => []ConnectionInv
<1>1. ProgramsInit => ConnectionInv
  BY RioStart DEF ProgramsInit, ConnectionInv, RobustIO!Init
<1>2. ConnectionInv /\ [ProgramsNext]_program_vars => ConnectionInv'
  <2> SUFFICES ASSUME ConnectionInv, [ProgramsNext]_program_vars PROVE ConnectionInv'
    OBVIOUS
  <2>1. CASE UNCHANGED program_vars
    <3>1. UNCHANGED <<rio_vars, outcome>> /\ part' = part /\ mode' = mode
      BY <2>1 DEF program_vars, rio_vars
    <3> QED
      BY <3>1, RioStep DEF ConnectionInv
  <2>2. CASE part = "rio" /\ ProgramsNext
    <3>1. RobustIO!Next /\ part' = part
      BY <2>2 DEF ProgramsNext
    <3> QED
      BY <2>2, <3>1, RioStep DEF ConnectionInv
  <2>3. CASE part # "rio" /\ ProgramsNext
    <3>1. UNCHANGED rio_vars /\ part' = part /\ mode = "lines" /\ mode' = "lines"
      BY <2>3 DEF ProgramsNext, ConnectionInv, rio_vars
    <3>2. outcome' # "overrun"
      BY <2>3, OtherOutcomes DEF ConnectionInv
    <3>3. RioTypeOK' /\ RobustIO!InOrder' /\ LinesInv' /\ OverrunInv'
      BY <3>1, <3>2 DEF ConnectionInv, RioInv, rio_vars, RioTypeOK, RobustIO!InOrder,
                        LinesInv, OverrunInv, Got
    <3> QED
      BY <3>1, <3>2, <3>3 DEF ConnectionInv, RioInv
  <2> QED
    BY <2>1, <2>2, <2>3
<1> QED
  BY <1>1, <1>2, PTL DEF ProgramsSpec

(* However the stream is cut into writes, reads and refills, every byte    *)
(* that rio_write was given is in one place, in order: for inputs and      *)
(* buffers of any size.                                                    *)
THEOREM BytesInOrder == ProgramsSpec => []InOrder
<1>1. ConnectionInv => InOrder
  BY DEF ConnectionInv, RioInv, InOrder
<1> QED
  BY <1>1, ConnectionInvHolds, PTL

(* rio_readlineb returned the lines, and rio_read the bytes, of what was   *)
(* sent, and only a line of MaxLen bytes overran its buffer.               *)
THEOREM LinesAsWritten == ProgramsSpec => []AsWritten
<1>1. ConnectionInv => AsWritten
  BY RioAsWritten DEF ConnectionInv
<1> QED
  BY <1>1, ConnectionInvHolds, PTL
-----------------------------------------------------------------------------
(* The chains of the word counter: no word has two elements in a chain.    *)
Chars == Letters \cup {Space}
Entry == [word : Seq(Chars), count : Nat \ {0}]

Chain(s) ==
  s \in Seq(Entry) /\ \A j, k \in 1 .. Len(s) : s[j].word = s[k].word => j = k

Tally(s, w) ==
  IF \E k \in 1 .. Len(s) : s[k].word = w
  THEN s[CHOOSE k \in 1 .. Len(s) : s[k].word = w].count
  ELSE 0

LEMMA EntryIs ==
  ASSUME NEW s \in Seq(Entry), NEW k \in 1 .. Len(s)
  PROVE  /\ s[k] \in Entry /\ s[k] = [word |-> s[k].word, count |-> s[k].count]
         /\ s[k].word \in Seq(Chars) /\ s[k].count \in Nat \ {0}
<1>1. s[k] \in Entry
  <2> HIDE DEF Entry
  <2> QED
    OBVIOUS
<1>2. \A e \in Entry : /\ e = [word |-> e.word, count |-> e.count]
                       /\ e.word \in Seq(Chars) /\ e.count \in Nat \ {0}
  BY DEF Entry
<1> QED
  BY <1>1, <1>2

LEMMA TallyIs ==
  ASSUME NEW s, Chain(s), NEW w
  PROVE  /\ Tally(s, w) \in Nat
         /\ \A k \in 1 .. Len(s) : s[k].word = w => Tally(s, w) = s[k].count
         /\ (\A k \in 1 .. Len(s) : s[k].word # w) => Tally(s, w) = 0
         /\ Tally(s, w) = 0 => \A k \in 1 .. Len(s) : s[k].word # w
<1>1. \A k \in 1 .. Len(s) : s[k].count \in Nat \ {0}
  BY EntryIs DEF Chain
<1>2. ASSUME NEW k \in 1 .. Len(s), s[k].word = w PROVE Tally(s, w) = s[k].count
  <2>1. (CHOOSE i \in 1 .. Len(s) : s[i].word = w) = k
    BY <1>2 DEF Chain
  <2> QED
    BY <1>2, <2>1 DEF Tally
<1>3. (\A k \in 1 .. Len(s) : s[k].word # w) => Tally(s, w) = 0
  BY DEF Tally
<1> QED
  BY <1>1, <1>2, <1>3

LEMMA TallyAt ==
  ASSUME NEW s, Chain(s), NEW k \in 1 .. Len(s)
  PROVE  Tally(s, s[k].word) = s[k].count
BY TallyIs

LEMMA TallyNew ==
  ASSUME NEW s, Chain(s), NEW w \in Seq(Chars), \A k \in 1 .. Len(s) : s[k].word # w,
         NEW e, e = [word |-> w, count |-> 1]
  PROVE  /\ Chain(Append(s, e))
         /\ \A v : Tally(Append(s, e), v) = IF v = w THEN 1 ELSE Tally(s, v)
<1>1. PICK n \in Nat : n = Len(s)
  BY DEF Chain
<1> DEFINE t == Append(s, e)
<1>2. e \in Entry /\ e.word = w /\ e.count = 1
  BY DEF Entry
<1>3. s \in Seq(Entry)
  BY DEF Chain
<1>4. /\ t \in Seq(Entry) /\ Len(t) = n + 1 /\ t[n + 1] = e
      /\ \A k \in 1 .. n : t[k] = s[k]
  <2> HIDE DEF Entry
  <2> QED
    BY <1>1, <1>2, <1>3
<1> HIDE DEF t
<1>5. Chain(t)
  <2>1. \A j, k \in 1 .. n + 1 : t[j].word = t[k].word => j = k
    <3> SUFFICES ASSUME NEW j \in 1 .. n + 1, NEW k \in 1 .. n + 1, t[j].word = t[k].word
                 PROVE  j = k
      OBVIOUS
    <3>1. /\ j \in 1 .. n \/ j = n + 1
          /\ k \in 1 .. n \/ k = n + 1
      OBVIOUS
    <3>2. CASE j \in 1 .. n /\ k \in 1 .. n
      BY <1>1, <1>4, <3>2 DEF Chain
    <3> QED
      BY <1>1, <1>2, <1>4, <3>1, <3>2
  <2> QED
    BY <1>4, <2>1 DEF Chain
<1>6. ASSUME NEW v PROVE Tally(t, v) = IF v = w THEN 1 ELSE Tally(s, v)
  <2>1. CASE v = w
    <3>1. PICK m \in 1 .. Len(t) : m = n + 1
      BY <1>4
    <3> QED
      BY <1>2, <1>4, <1>5, <2>1, <3>1, TallyIs
  <2>2. CASE v # w /\ \E k \in 1 .. n : s[k].word = v
    <3>1. PICK k \in 1 .. n : s[k].word = v
      BY <2>2
    <3>2. k \in 1 .. Len(s) /\ k \in 1 .. Len(t) /\ t[k] = s[k]
      BY <1>1, <1>4
    <3>3. Tally(t, v) = t[k].count /\ Tally(s, v) = s[k].count
      BY <1>5, <3>1, <3>2, TallyIs
    <3> QED
      BY <2>2, <3>2, <3>3
  <2>3. CASE v # w /\ \A k \in 1 .. n : s[k].word # v
    <3>1. \A k \in 1 .. n + 1 : t[k].word # v
      BY <1>2, <1>4, <2>3
    <3> QED
      BY <1>1, <1>4, <1>5, <2>3, <3>1, TallyIs
  <2> QED
    BY <2>1, <2>2, <2>3
<1> QED
  BY <1>5, <1>6 DEF t

Recounted(s, i) == [s EXCEPT ![i] = [word |-> s[i].word, count |-> s[i].count + 1]]

LEMMA TallyAgain ==
  ASSUME NEW s, Chain(s), NEW i \in 1 .. Len(s)
  PROVE  /\ Chain(Recounted(s, i)) /\ Len(Recounted(s, i)) = Len(s)
         /\ \A v : Tally(Recounted(s, i), v) =
                     IF v = s[i].word THEN Tally(s, v) + 1 ELSE Tally(s, v)
<1> DEFINE e == [word |-> s[i].word, count |-> s[i].count + 1]
<1>0. PICK t : t = Recounted(s, i)
  OBVIOUS
<1>b. t = [s EXCEPT ![i] = e]
  BY <1>0 DEF Recounted
<1>1. s \in Seq(Entry)
  BY DEF Chain
<1>2. /\ Len(t) = Len(s) /\ t \in Seq(Entry)
      /\ \A k \in 1 .. Len(s) :
           t[k].word = s[k].word /\ t[k].count = IF k = i THEN s[k].count + 1 ELSE s[k].count
  <2>1. e \in Entry /\ e.word = s[i].word /\ e.count = s[i].count + 1
    <3>1. s[i].word \in Seq(Chars) /\ s[i].count + 1 \in Nat \ {0}
      <4>1. PICK c \in Nat \ {0} : c = s[i].count
        BY <1>1, EntryIs
      <4>2. c + 1 \in Nat \ {0}
        OBVIOUS
      <4>3. s[i].word \in Seq(Chars)
        BY <1>1, EntryIs
      <4> QED
        BY <4>1, <4>2, <4>3
    <3> QED
      BY <3>1 DEF Entry
  <2> HIDE DEF e
  <2>3. t \in Seq(Entry) /\ Len(t) = Len(s)
    <3> HIDE DEF Entry
    <3> QED
      BY <1>1, <1>b, <2>1
  <2>4. \A k \in 1 .. Len(s) : t[k] = IF k = i THEN e ELSE s[k]
    BY <1>1, <1>b
  <2> QED
    BY <2>1, <2>3, <2>4
<1>3. Chain(t)
  BY <1>2 DEF Chain
<1>a. \A k \in 1 .. Len(t) : Tally(t, t[k].word) = t[k].count
  BY <1>3, TallyAt, Zenon
<1>4. ASSUME NEW v
      PROVE  Tally(t, v) = IF v = s[i].word THEN Tally(s, v) + 1 ELSE Tally(s, v)
  <2> HIDE DEF Entry
  <2>1. CASE v = s[i].word
    <3>1. Tally(s, v) = s[i].count
      BY <2>1, TallyIs
    <3>2. i \in 1 .. Len(t) /\ t[i].word = v
      BY <1>2, <2>1
    <3>3. Tally(t, v) = t[i].count
      BY <1>a, <3>2
    <3> QED
      BY <1>2, <2>1, <3>1, <3>3
  <2>2. CASE v # s[i].word /\ \E k \in 1 .. Len(s) : s[k].word = v
    <3>1. PICK k \in 1 .. Len(s) : s[k].word = v
      BY <2>2
    <3>2. Tally(s, v) = s[k].count
      BY <3>1, TallyIs
    <3>3. k \in 1 .. Len(t) /\ t[k].word = v
      BY <1>2, <3>1
    <3>4. Tally(t, v) = t[k].count
      BY <1>a, <3>3
    <3> QED
      BY <1>2, <2>2, <3>1, <3>2, <3>4
  <2>3. CASE \A k \in 1 .. Len(s) : s[k].word # v
    <3>1. \A k \in 1 .. Len(t) : t[k].word # v
      BY <1>2, <2>3
    <3>2. Tally(t, v) = 0 /\ Tally(s, v) = 0 /\ v # s[i].word
      BY <1>3, <2>3, <3>1, TallyIs, Zenon
    <3> QED
      BY <3>2
  <2> QED
    BY <2>1, <2>2, <2>3
<1> QED
  BY <1>0, <1>2, <1>3, <1>4
-----------------------------------------------------------------------------
(* hash reduces at every character, so that its value is a bucket.         *)
Hashed(h, c) == (h * 31 + Ascii(c)) % MAX_HASH_SIZE

LEMMA HashStep ==
  ASSUME NEW h \in Words!Buckets, NEW c
  PROVE  Hashed(h, c) \in Words!Buckets
<1>1. MAX_HASH_SIZE \in Nat \ {0} /\ h \in Int
  BY ProgramsAssumption DEF Words!Buckets
<1>2. h * 31 + Ascii(c) \in Int
  BY <1>1 DEF Ascii
<1>3. \A i \in Int, n \in Nat \ {0} : i % n \in 0 .. n - 1
  OBVIOUS
<1> QED
  BY <1>1, <1>2, <1>3, Zenon DEF Words!Buckets, Hashed

LEMMA HashIsBucket ==
  ASSUME NEW word \in Seq(Chars)
  PROVE  Words!hash(word) \in Words!Buckets
<1>0. PICK n \in Nat : n = Len(word)
  OBVIOUS
<1> DEFINE V == Words!Buckets
           g == [ve \in V \X Chars |-> Hashed(ve[1], ve[2])]
<1>1. \A v \in V, c \in Chars : Hashed(v, c) \in V /\ g[<<v, c>>] = Hashed(v, c)
  BY HashStep
<1>2. 0 \in V /\ word \in [1 .. n -> Chars]
  BY <1>0, ProgramsAssumption DEF Words!Buckets
<1> DEFINE Eq(iter) == iter = [s \in SUBSET (1 .. n) |->
                                 IF s = {} THEN 0 ELSE Hashed(iter[s \ {Max(s)}], word[Max(s)])]
           fold == CHOOSE iter : Eq(iter)
<1>3. Words!hash(word) = fold[1 .. n]
  <2>1. DOMAIN word = 1 .. n
    BY <1>2
  <2> QED
    BY <2>1 DEF Words!hash, Words!FoldLeft, Words!MapThenFoldSet, Words!Max, Max, Hashed
<1> HIDE DEF V
<1>a. g \in [V \X Chars -> V]
  BY <1>1
<1> HIDE DEF g
<1>4. PICK it \in [SUBSET (1 .. n) -> V] : FoldsTo(it, n, 0, g, word)
  BY <1>2, <1>a, FoldExists
<1>5. Eq(it)
  <2>1. \A s \in SUBSET (1 .. n) :
          s # {} => it[s \ {Max(s)}] \in V /\ word[Max(s)] \in Chars
    BY <1>2, MaxIn
  <2> QED
    BY <1>1, <1>4, <2>1 DEF FoldsTo
<1>6. Eq(fold)
  BY <1>5
<1> HIDE DEF fold
<1>7. /\ fold[{}] = 0
      /\ \A s \in SUBSET (1 .. n) :
           s # {} => fold[s] = Hashed(fold[s \ {Max(s)}], word[Max(s)])
  BY <1>6
<1> HIDE DEF Eq
<1> DEFINE S == {k \in 0 .. n : fold[1 .. k] \in V}
<1>8. 0 \in S
  <2>1. 1 .. 0 = {}
    OBVIOUS
  <2> QED
    BY <1>2, <1>7, <2>1
<1>9. ASSUME NEW k \in 1 .. n, k - 1 \in S PROVE k \in S
  <2>a. /\ 1 .. k \in SUBSET (1 .. n) /\ 1 .. k # {}
        /\ Max(1 .. k) = k /\ (1 .. k) \ {k} = 1 .. k - 1
    BY PrefixIs
  <2>b. fold[1 .. k] = Hashed(fold[(1 .. k) \ {Max(1 .. k)}], word[Max(1 .. k)])
    BY <1>7, <2>a, Zenon
  <2>1. fold[1 .. k] = Hashed(fold[1 .. k - 1], word[k])
    BY <2>a, <2>b, Zenon
  <2>2. fold[1 .. k - 1] \in V /\ word[k] \in Chars /\ k \in 0 .. n
    BY <1>2, <1>9
  <2> QED
    BY <1>1, <2>1, <2>2
<1>10. n \in S
  <2> HIDE DEF S
  <2>1. \A k \in 0 .. n : k \in S
    BY <1>8, <1>9, Induction
  <2> QED
    BY <2>1
<1> QED
  BY <1>3, <1>10 DEF V
-----------------------------------------------------------------------------
(* The words that begin before an index, with and without a space behind.  *)
TextOK ==
  /\ text \in Seq(Chars) /\ behind \in Seq(Chars) /\ pos \in 1 .. Words!Size + 1
  /\ pos = 1 \/ pos = Words!Size + 1 \/ text[pos - 1] = Space

Begun(p) == {j \in Words!Starts : j < p}
Closed(w, p) == {j \in Begun(p) : Words!SpacesFrom(j) # {} /\ Words!WordAt(j) = w}
Open(w, p) == {j \in Begun(p) : Words!SpacesFrom(j) = {} /\ Words!WordAt(j) = w}

LEMMA LeastIs ==
  ASSUME NEW S \in SUBSET Nat, NEW m \in S, \A k \in S : m <= k
  PROVE  Words!Min(S) = m
<1>1. Words!Min(S) \in S /\ \A k \in S : Words!Min(S) <= k
  BY DEF Words!Min
<1>2. Words!Min(S) \in Nat /\ m \in Nat /\ Words!Min(S) <= m /\ m <= Words!Min(S)
  BY <1>1
<1> QED
  BY <1>2

LEMMA Skipped ==
  ASSUME TextOK, pos <= Words!Size, text[pos] = Space
  PROVE  /\ Begun(pos + 1) = Begun(pos) /\ pos + 1 \in 1 .. Words!Size + 1
BY DEF TextOK, Begun, Words!Starts, Words!Size

LEMMA WordBegins ==
  ASSUME TextOK, pos <= Words!Size, text[pos] # Space
  PROVE  /\ pos \in Words!Starts /\ pos \in 1 .. Words!Size
         /\ \A j \in Begun(pos) : Words!SpacesFrom(j) # {}
<1>1. pos \in 1 .. Words!Size /\ Words!Size \in Nat
  BY DEF TextOK, Words!Size
<1>2. pos = 1 \/ text[pos - 1] = Space
  BY <1>1 DEF TextOK
<1>3. pos \in Words!Starts
  BY <1>1, <1>2 DEF Words!Starts
<1>4. ASSUME NEW j \in Begun(pos) PROVE Words!SpacesFrom(j) # {}
  <2>1. j \in 1 .. pos - 1 /\ pos # 1
    BY <1>1 DEF Begun, Words!Starts
  <2>2. pos - 1 \in Words!SpacesFrom(j)
    BY <1>1, <1>2, <2>1 DEF Words!SpacesFrom
  <2> QED
    BY <2>2
<1> QED
  BY <1>1, <1>3, <1>4

LEMMA WordEnds ==
  ASSUME TextOK, pos <= Words!Size, text[pos] # Space, Words!SpacesFrom(pos) # {},
         NEW end, end = Words!Min(Words!SpacesFrom(pos))
  PROVE  /\ end \in pos + 1 .. Words!Size /\ text[end] = Space
         /\ Words!WordAt(pos) = SubSeq(text, pos, end - 1)
         /\ SubSeq(text, pos, end - 1) \in Seq(Chars)
         /\ Begun(end + 1) = Begun(pos) \cup {pos}
<1>1. /\ pos \in Words!Starts /\ pos \in 1 .. Words!Size /\ Words!Size \in Nat
      /\ text \in Seq(Chars) /\ Words!Size = Len(text)
  BY WordBegins DEF TextOK, Words!Size
<1>2. PICK m \in Words!SpacesFrom(pos) : \A k \in Words!SpacesFrom(pos) : m <= k
  <2>1. Words!SpacesFrom(pos) \in SUBSET Nat
    BY <1>1 DEF Words!SpacesFrom
  <2> QED
    BY <2>1, LeastNat
<1>3. end = m
  <2>1. Words!SpacesFrom(pos) \in SUBSET Nat
    BY <1>1 DEF Words!SpacesFrom
  <2> QED
    BY <1>2, <2>1, LeastIs
<1>4. end \in pos + 1 .. Words!Size /\ text[end] = Space
  BY <1>1, <1>3 DEF Words!SpacesFrom
<1>5. \A j \in pos .. end - 1 : text[j] # Space
  BY <1>1, <1>2, <1>3, <1>4 DEF Words!SpacesFrom
<1>6. Words!WordAt(pos) = SubSeq(text, pos, end - 1)
  BY DEF Words!WordAt
<1>7. SubSeq(text, pos, end - 1) \in Seq(Chars)
  <2> HIDE DEF Chars
  <2> QED
    BY <1>1, <1>4
<1>8. Begun(end + 1) = Begun(pos) \cup {pos}
  <2>1. ASSUME NEW j \in Words!Starts, j < end + 1 PROVE j < pos \/ j = pos
    <3>1. j \in 1 .. Words!Size /\ text[j] # Space /\ (j = 1 \/ text[j - 1] = Space)
      BY DEF Words!Starts
    <3>2. j # end
      BY <1>4, <3>1
    <3>3. j - 1 \notin pos .. end - 1 \/ j = 1
      BY <1>5, <3>1
    <3> QED
      BY <1>1, <1>4, <2>1, <3>1, <3>2, <3>3
  <2>2. \A j \in Words!Starts : j < pos \/ j = pos => j < end + 1
    BY <1>1, <1>4 DEF Words!Starts
  <2> QED
    BY <1>1, <2>1, <2>2 DEF Begun
<1> QED
  BY <1>4, <1>6, <1>7, <1>8

LEMMA WordStaysOpen ==
  ASSUME TextOK, pos <= Words!Size, text[pos] # Space, Words!SpacesFrom(pos) = {}
  PROVE  /\ Words!WordAt(pos) = SubSeq(text, pos, Words!Size) \o behind
         /\ SubSeq(text, pos, Words!Size) \o behind \in Seq(Chars)
         /\ Begun(Words!Size + 1) = Begun(pos) \cup {pos}
<1>1. /\ pos \in Words!Starts /\ pos \in 1 .. Words!Size /\ Words!Size \in Nat
      /\ text \in Seq(Chars) /\ Words!Size = Len(text)
  BY WordBegins DEF TextOK, Words!Size
<1>2. Words!WordAt(pos) = SubSeq(text, pos, Words!Size) \o behind
  BY DEF Words!WordAt
<1>3. SubSeq(text, pos, Words!Size) \o behind \in Seq(Chars)
  <2> HIDE DEF Chars
  <2>1. SubSeq(text, pos, Words!Size) \in Seq(Chars) /\ behind \in Seq(Chars)
    BY <1>1 DEF TextOK
  <2> QED
    BY <2>1
<1>4. Begun(Words!Size + 1) = Begun(pos) \cup {pos}
  <2>1. \A j \in pos .. Words!Size : text[j] # Space
    BY DEF Words!SpacesFrom
  <2>2. ASSUME NEW j \in Words!Starts PROVE j < pos \/ j = pos
    <3>1. j \in 1 .. Words!Size /\ text[j] # Space /\ (j = 1 \/ text[j - 1] = Space)
      BY DEF Words!Starts
    <3>2. j - 1 \notin pos .. Words!Size \/ j = 1
      BY <2>1, <3>1
    <3> QED
      BY <1>1, <3>1, <3>2
  <2>3. \A j \in Words!Starts : j < Words!Size + 1
    BY <1>1 DEF Words!Starts
  <2> QED
    BY <1>1, <2>2, <2>3 DEF Begun
<1> QED
  BY <1>2, <1>3, <1>4

LEMMA BegunFinite ==
  ASSUME TextOK, NEW w, NEW p
  PROVE  /\ IsFiniteSet(Closed(w, p)) /\ Cardinality(Closed(w, p)) \in Nat
         /\ IsFiniteSet(Open(w, p)) /\ Cardinality(Open(w, p)) \in Nat
<1>1. IsFiniteSet(1 .. Words!Size)
  BY FS_Interval DEF TextOK, Words!Size
<1>2. Closed(w, p) \in SUBSET (1 .. Words!Size) /\ Open(w, p) \in SUBSET (1 .. Words!Size)
  BY DEF Closed, Open, Begun, Words!Starts
<1> QED
  BY <1>1, <1>2, FS_Subset, FS_CardinalityType

(* One word more has begun, and it is at pos.                              *)
LEMMA OneMoreClosed ==
  ASSUME TextOK, Words!SpacesFrom(pos) # {}, NEW p, Begun(p) = Begun(pos) \cup {pos}, NEW w
  PROVE  /\ Open(w, p) = Open(w, pos)
         /\ Cardinality(Closed(w, p)) = IF w = Words!WordAt(pos)
                                        THEN Cardinality(Closed(w, pos)) + 1
                                        ELSE Cardinality(Closed(w, pos))
<1>1. Open(w, p) = Open(w, pos)
  BY DEF Open
<1>2. Closed(w, p) = IF w = Words!WordAt(pos) THEN Closed(w, pos) \cup {pos}
                     ELSE Closed(w, pos)
  BY DEF Closed
<1>3. pos \notin Closed(w, pos)
  BY DEF Closed, Begun, TextOK, Words!Size
<1> QED
  BY <1>1, <1>2, <1>3, BegunFinite, FS_AddElement

LEMMA OneMoreOpen ==
  ASSUME TextOK, Words!SpacesFrom(pos) = {}, NEW p, Begun(p) = Begun(pos) \cup {pos}, NEW w
  PROVE  /\ Closed(w, p) = Closed(w, pos)
         /\ Cardinality(Open(w, p)) = IF w = Words!WordAt(pos)
                                      THEN Cardinality(Open(w, pos)) + 1
                                      ELSE Cardinality(Open(w, pos))
<1>1. Closed(w, p) = Closed(w, pos)
  BY DEF Closed
<1>2. Open(w, p) = IF w = Words!WordAt(pos) THEN Open(w, pos) \cup {pos} ELSE Open(w, pos)
  BY DEF Open
<1>3. pos \notin Open(w, pos)
  BY DEF Open, Begun, TextOK, Words!Size
<1> QED
  BY <1>1, <1>2, <1>3, BegunFinite, FS_AddElement
-----------------------------------------------------------------------------
(* What counting a word in a chain does to the table.                      *)
Chains(t) == t \in [Words!Buckets -> Seq(Entry)] /\ \A h \in Words!Buckets : Chain(t[h])

LEMMA Counted ==
  ASSUME Chains(table), NEW g \in Words!Buckets, NEW w \in Seq(Chars), Words!Count(g, w)
  PROVE  /\ Chains(table')
         /\ \A h \in Words!Buckets : \A v :
              Tally(table'[h], v) = IF h = g /\ v = w THEN Tally(table[h], v) + 1
                                    ELSE Tally(table[h], v)
         /\ \E d \in {0, 1} :
              /\ blocks' = blocks + (2 * d)
              /\ \A h \in Words!Buckets :
                   Len(table'[h]) = IF h = g THEN Len(table[h]) + d ELSE Len(table[h])
<1>1. table \in [Words!Buckets -> Seq(Entry)] /\ Chain(table[g])
  BY DEF Chains
<1>2. CASE Words!same_word(g, w) # {}
  <2> DEFINE i == Words!Min(Words!same_word(g, w))
             t == [table[g] EXCEPT ![i].count = @ + 1]
  <2>1. i \in 1 .. Len(table[g]) /\ table[g][i].word = w
    <3>1. Words!same_word(g, w) \in SUBSET Nat
      BY DEF Words!same_word
    <3>2. PICK m \in Words!same_word(g, w) : \A k \in Words!same_word(g, w) : m <= k
      BY <1>2, <3>1, LeastNat
    <3>3. i = m
      BY <3>1, <3>2, LeastIs
    <3> QED
      BY <3>3 DEF Words!same_word
  <2>2. table' = [table EXCEPT ![g] = t] /\ blocks' = blocks + 0
    BY <1>2 DEF Words!Count, Words!duplicate_freed
  <2> DEFINE e == [word |-> table[g][i].word, count |-> table[g][i].count + 1]
  <2>a. t = [table[g] EXCEPT ![i] = e]
    <3>1. [table[g][i] EXCEPT !.count = @ + 1] = e
      <4>1. PICK r : r = table[g][i]
        OBVIOUS
      <4>2. r = [word |-> r.word, count |-> r.count]
        BY <1>1, <2>1, <4>1, EntryIs DEF Chain
      <4>3. [r EXCEPT !.count = @ + 1] = [word |-> r.word, count |-> r.count + 1]
        BY <4>2
      <4> QED
        BY <4>1, <4>3
    <3>2. t = [table[g] EXCEPT ![i] = [table[g][i] EXCEPT !.count = @ + 1]]
      OBVIOUS
    <3> QED
      BY <3>1, <3>2
  <2>3. /\ Chain(t) /\ Len(t) = Len(table[g])
        /\ \A v : Tally(t, v) = IF v = w THEN Tally(table[g], v) + 1 ELSE Tally(table[g], v)
    <3>1. t = Recounted(table[g], i)
      BY <2>a DEF Recounted
    <3> HIDE DEF i, t, e
    <3>2. /\ Chain(Recounted(table[g], i)) /\ Len(Recounted(table[g], i)) = Len(table[g])
          /\ \A v : Tally(Recounted(table[g], i), v) =
                      IF v = table[g][i].word THEN Tally(table[g], v) + 1
                      ELSE Tally(table[g], v)
      BY <1>1, <2>1, TallyAgain
    <3> QED
      BY <2>1, <3>1, <3>2
  <2> HIDE DEF i, t, e
  <2>4. \A h \in Words!Buckets : table'[h] = IF h = g THEN t ELSE table[h]
    BY <1>1, <2>2
  <2>5. t \in Seq(Entry)
    BY <2>3 DEF Chain
  <2>6. Chains(table')
    <3> HIDE DEF Entry
    <3>1. table' \in [Words!Buckets -> Seq(Entry)]
      BY <1>1, <2>2, <2>5
    <3> QED
      BY <2>3, <2>4, <3>1 DEF Chains
  <2>7. \A h \in Words!Buckets : \A v :
          Tally(table'[h], v) = IF h = g /\ v = w THEN Tally(table[h], v) + 1
                                ELSE Tally(table[h], v)
    BY <2>3, <2>4
  <2>8. blocks' = blocks + (2 * 0) /\ \A h \in Words!Buckets :
          Len(table'[h]) = IF h = g THEN Len(table[h]) + 0 ELSE Len(table[h])
    <3>1. Len(table[g]) \in Nat
      BY <1>1
    <3> QED
      BY <2>2, <2>3, <2>4, <3>1
  <2> QED
    BY <2>6, <2>7, <2>8
<1>3. CASE Words!same_word(g, w) = {}
  <2> DEFINE e == [word |-> w, count |-> 1]
             t == Append(table[g], e)
  <2>1. \A k \in 1 .. Len(table[g]) : table[g][k].word # w
    BY <1>3 DEF Words!same_word
  <2>2. table' = [table EXCEPT ![g] = t] /\ blocks' = blocks + 2
    BY <1>3 DEF Words!Count
  <2>3. Chain(t) /\ \A v : Tally(t, v) = IF v = w THEN 1 ELSE Tally(table[g], v)
    BY <1>1, <2>1, TallyNew
  <2>4. Len(t) = Len(table[g]) + 1 /\ Tally(table[g], w) = 0
    <3> HIDE DEF Entry, e
    <3>1. Len(t) = Len(table[g]) + 1
      BY <1>1
    <3>2. Tally(table[g], w) = 0
      BY <1>1, <2>1, TallyIs
    <3> QED
      BY <3>1, <3>2
  <2> HIDE DEF t
  <2>5. \A h \in Words!Buckets : table'[h] = IF h = g THEN t ELSE table[h]
    BY <1>1, <2>2
  <2>6. t \in Seq(Entry)
    BY <2>3 DEF Chain
  <2>7. Chains(table')
    <3> HIDE DEF Entry
    <3>1. table' \in [Words!Buckets -> Seq(Entry)]
      BY <1>1, <2>2, <2>6
    <3> QED
      BY <2>3, <2>5, <3>1 DEF Chains
  <2>8. \A h \in Words!Buckets : \A v :
          Tally(table'[h], v) = IF h = g /\ v = w THEN Tally(table[h], v) + 1
                                ELSE Tally(table[h], v)
    BY <2>3, <2>4, <2>5
  <2>9. blocks' = blocks + (2 * 1) /\ \A h \in Words!Buckets :
          Len(table'[h]) = IF h = g THEN Len(table[h]) + 1 ELSE Len(table[h])
    BY <2>2, <2>4, <2>5
  <2> QED
    BY <2>7, <2>8, <2>9
<1> QED
  BY <1>2, <1>3
-----------------------------------------------------------------------------
(* A chain has the words of its bucket, each with its number of            *)
(* occurrences so far; an unfinished last word may be in any bucket.       *)
TallyInv(b) ==
  \A h \in Words!Buckets : \A w \in Seq(Chars) :
    Tally(table[h], w) = (IF h = Words!hash(w) THEN Cardinality(Closed(w, pos)) ELSE 0)
                         + (IF h = b THEN Cardinality(Open(w, pos)) ELSE 0)

Tallied == Chains(table) /\ \E b \in Words!Buckets : TallyInv(b)

LEMMA SameText ==
  ASSUME text' = text, behind' = behind
  PROVE  /\ \A w : Closed(w, pos)' = Closed(w, pos') /\ Open(w, pos)' = Open(w, pos')
         /\ Words!Size' = Words!Size /\ Words!Starts' = Words!Starts
BY DEF Closed, Open, Begun, Words!Starts, Words!Size, Words!SpacesFrom, Words!WordAt

LEMMA TalliedWord ==
  ASSUME TextOK, Tallied, Words!Word
  PROVE  TextOK' /\ Tallied'
<1> DEFINE end == Words!Min(Words!SpacesFrom(pos))
           word == SubSeq(text, pos, end - 1)
<1>1. /\ pos <= Words!Size /\ text[pos] # Space /\ Words!SpacesFrom(pos) # {}
      /\ Words!Count(Words!hash(word), word) /\ pos' = end + 1 /\ text' = text /\ behind' = behind
  BY DEF Words!Word, Words!mapped, Words!Scanning, Words!resume
<1> HIDE DEF end
<1>2. /\ end \in pos + 1 .. Words!Size /\ text[end] = Space /\ word = Words!WordAt(pos)
      /\ word \in Seq(Chars) /\ Begun(end + 1) = Begun(pos) \cup {pos}
  BY <1>1, WordEnds DEF end
<1> HIDE DEF word
<1>3. TextOK'
  <2>1. Words!Size \in Nat /\ pos \in Nat /\ Words!Size' = Words!Size
    BY <1>1, SameText DEF TextOK, Words!Size
  <2> HIDE DEF Chars
  <2>2. pos' \in 1 .. Words!Size' + 1 /\ text'[pos' - 1] = Space
    BY <1>1, <1>2, <2>1
  <2> QED
    BY <1>1, <2>2 DEF TextOK
<1>4. Words!hash(word) \in Words!Buckets /\ Chains(table)
  BY <1>2, HashIsBucket DEF Tallied
<1>5. PICK b \in Words!Buckets : TallyInv(b)
  BY DEF Tallied
<1>6. ASSUME NEW h \in Words!Buckets, NEW w \in Seq(Chars)
      PROVE  Tally(table'[h], w)
               = (IF h = Words!hash(w) THEN Cardinality(Closed(w, pos')) ELSE 0)
                 + (IF h = b THEN Cardinality(Open(w, pos')) ELSE 0)
  <2>1. Tally(table'[h], w) = IF h = Words!hash(word) /\ w = word
                              THEN Tally(table[h], w) + 1 ELSE Tally(table[h], w)
    BY <1>1, <1>2, <1>4, Counted
  <2>2. /\ Open(w, pos') = Open(w, pos)
        /\ Cardinality(Closed(w, pos')) = IF w = word
                                          THEN Cardinality(Closed(w, pos)) + 1
                                          ELSE Cardinality(Closed(w, pos))
    BY <1>1, <1>2, OneMoreClosed
  <2>3. Cardinality(Closed(w, pos)) \in Nat /\ Cardinality(Open(w, pos)) \in Nat
    BY BegunFinite
  <2>4. Tally(table[h], w) = (IF h = Words!hash(w) THEN Cardinality(Closed(w, pos)) ELSE 0)
                             + (IF h = b THEN Cardinality(Open(w, pos)) ELSE 0)
    BY <1>5 DEF TallyInv
  <2> QED
    BY <2>1, <2>2, <2>3, <2>4
<1>7. TallyInv(b)'
  BY <1>1, <1>6, SameText DEF TallyInv
<1>8. Chains(table')
  BY <1>1, <1>2, <1>4, Counted
<1> QED
  BY <1>3, <1>7, <1>8 DEF Tallied, Chains

LEMMA TalliedLast ==
  ASSUME TextOK, Tallied, Words!LastWord
  PROVE  TextOK' /\ Tallied'
<1> DEFINE word == SubSeq(text, pos, Words!Size) \o behind
<1>1. PICK b \in Words!Buckets :
        /\ pos <= Words!Size /\ text[pos] # Space /\ Words!SpacesFrom(pos) = {}
        /\ Words!Count(b, word) /\ pos' = Words!Size + 1 /\ text' = text /\ behind' = behind
  BY DEF Words!LastWord, Words!mapped, Words!Scanning
<1>2. /\ word = Words!WordAt(pos) /\ word \in Seq(Chars)
      /\ Begun(Words!Size + 1) = Begun(pos) \cup {pos}
  BY <1>1, WordStaysOpen
<1> HIDE DEF word
<1>3. TextOK'
  <2>1. Words!Size \in Nat /\ Words!Size' = Words!Size
    BY <1>1, SameText DEF TextOK, Words!Size
  <2> HIDE DEF Chars
  <2> QED
    BY <1>1, <2>1 DEF TextOK
<1>4. Chains(table)
  BY DEF Tallied
<1>5. PICK c \in Words!Buckets : TallyInv(c)
  BY DEF Tallied
<1>6. ASSUME NEW h \in Words!Buckets, NEW w \in Seq(Chars)
      PROVE  Tally(table'[h], w)
               = (IF h = Words!hash(w) THEN Cardinality(Closed(w, pos')) ELSE 0)
                 + (IF h = b THEN Cardinality(Open(w, pos')) ELSE 0)
  <2>1. Tally(table'[h], w) = IF h = b /\ w = word
                              THEN Tally(table[h], w) + 1 ELSE Tally(table[h], w)
    BY <1>1, <1>2, <1>4, Counted
  <2>2. /\ Closed(w, pos') = Closed(w, pos)
        /\ Cardinality(Open(w, pos')) = IF w = word
                                        THEN Cardinality(Open(w, pos)) + 1
                                        ELSE Cardinality(Open(w, pos))
    BY <1>1, <1>2, OneMoreOpen
  <2>3. Cardinality(Closed(w, pos)) \in Nat
    BY BegunFinite
  <2>4. Cardinality(Open(w, pos)) = 0
    <3>1. Open(w, pos) = {}
      BY <1>1, WordBegins DEF Open
    <3> QED
      BY <3>1, FS_EmptySet
  <2>5. Tally(table[h], w) = (IF h = Words!hash(w) THEN Cardinality(Closed(w, pos)) ELSE 0)
                             + (IF h = c THEN Cardinality(Open(w, pos)) ELSE 0)
    BY <1>5 DEF TallyInv
  <2> QED
    BY <2>1, <2>2, <2>3, <2>4, <2>5
<1>7. TallyInv(b)'
  BY <1>1, <1>6, SameText DEF TallyInv
<1>8. Chains(table')
  BY <1>1, <1>2, <1>4, Counted
<1> QED
  BY <1>3, <1>7, <1>8 DEF Tallied, Chains

LEMMA TalliedSkip ==
  ASSUME TextOK, Words!Skip
  PROVE  TextOK' /\ (Tallied => Tallied')
<1>1. /\ pos <= Words!Size /\ text[pos] = Space /\ pos' = pos + 1 /\ text' = text /\ behind' = behind
      /\ table' = table
  BY DEF Words!Skip, Words!mapped, Words!Scanning
<1>2. Begun(pos + 1) = Begun(pos) /\ pos + 1 \in 1 .. Words!Size + 1
  BY <1>1, Skipped
<1>3. \A w : Closed(w, pos') = Closed(w, pos) /\ Open(w, pos') = Open(w, pos)
  BY <1>1, <1>2 DEF Closed, Open
<1>4. TextOK'
  <2> HIDE DEF Chars
  <2>1. Words!Size' = Words!Size /\ (pos + 1) - 1 = pos
    BY <1>1, SameText DEF TextOK
  <2> QED
    BY <1>1, <1>2, <2>1 DEF TextOK
<1>5. ASSUME NEW b \in Words!Buckets, TallyInv(b) PROVE TallyInv(b)'
  BY <1>1, <1>3, <1>5, SameText DEF TallyInv
<1> QED
  BY <1>1, <1>4, <1>5 DEF Tallied, Chains
-----------------------------------------------------------------------------
(* Two blocks for every element, and one for the table: the sums over the  *)
(* first buckets say so without an order of the additions.                 *)
Allocated ==
  \E sum \in [0 .. MAX_HASH_SIZE -> Int] :
    /\ sum[0] = 0 /\ blocks = 1 + (2 * sum[MAX_HASH_SIZE])
    /\ \A h \in Words!Buckets : sum[h + 1] = sum[h] + Len(table[h])

LEMMA AllocatedChange ==
  ASSUME Allocated, table \in [Words!Buckets -> Seq(Entry)], NEW g \in Words!Buckets,
         NEW d \in Int, blocks' = blocks + (2 * d),
         \A h \in Words!Buckets :
           Len(table'[h]) = IF h = g THEN Len(table[h]) + d ELSE Len(table[h])
  PROVE  Allocated'
<1>1. PICK sum \in [0 .. MAX_HASH_SIZE -> Int] :
        /\ sum[0] = 0 /\ blocks = 1 + (2 * sum[MAX_HASH_SIZE])
        /\ \A h \in Words!Buckets : sum[h + 1] = sum[h] + Len(table[h])
  BY DEF Allocated
<1> DEFINE new == [k \in 0 .. MAX_HASH_SIZE |-> IF k > g THEN sum[k] + d ELSE sum[k]]
<1>2. /\ MAX_HASH_SIZE \in Nat /\ g \in 0 .. MAX_HASH_SIZE - 1
      /\ \A h \in Words!Buckets : h \in 0 .. MAX_HASH_SIZE - 1 /\ Len(table[h]) \in Nat
  BY ProgramsAssumption DEF Words!Buckets
<1>3. new \in [0 .. MAX_HASH_SIZE -> Int]
  BY <1>1
<1>4. new[0] = 0 /\ new[MAX_HASH_SIZE] = sum[MAX_HASH_SIZE] + d
  BY <1>1, <1>2
<1>5. ASSUME NEW h \in Words!Buckets PROVE new[h + 1] = new[h] + Len(table'[h])
  <2>1. /\ new[h + 1] = IF h + 1 > g THEN sum[h + 1] + d ELSE sum[h + 1]
        /\ new[h] = IF h > g THEN sum[h] + d ELSE sum[h]
        /\ sum[h] \in Int /\ sum[h + 1] = sum[h] + Len(table[h])
    <3>1. h \in 0 .. MAX_HASH_SIZE /\ h + 1 \in 0 .. MAX_HASH_SIZE
      BY <1>2
    <3>2. sum[h + 1] = sum[h] + Len(table[h])
      BY <1>1
    <3> QED
      BY <3>1, <3>2
  <2> HIDE DEF new
  <2> QED
    BY <1>2, <2>1
<1>6. blocks' = 1 + (2 * new[MAX_HASH_SIZE])
  <2>1. sum[MAX_HASH_SIZE] \in Int
    BY <1>2
  <2> HIDE DEF new
  <2> QED
    BY <1>1, <1>4, <2>1
<1> HIDE DEF new
<1> QED
  BY <1>3, <1>4, <1>5, <1>6 DEF Allocated

LEMMA NoneAllocated ==
  ASSUME Allocated, \A h \in Words!Buckets : table[h] = <<>>
  PROVE  blocks = 1
<1>1. PICK sum \in [0 .. MAX_HASH_SIZE -> Int] :
        /\ sum[0] = 0 /\ blocks = 1 + (2 * sum[MAX_HASH_SIZE])
        /\ \A h \in Words!Buckets : sum[h + 1] = sum[h] + Len(table[h])
  BY DEF Allocated
<1> DEFINE S == {k \in 0 .. MAX_HASH_SIZE : sum[k] = 0}
<1>2. MAX_HASH_SIZE \in Nat /\ 0 \in S
  BY <1>1, ProgramsAssumption
<1>3. ASSUME NEW k \in 1 .. MAX_HASH_SIZE, k - 1 \in S PROVE k \in S
  <2>1. k - 1 \in Words!Buckets /\ (k - 1) + 1 = k /\ sum[k - 1] = 0
    BY <1>2, <1>3 DEF Words!Buckets
  <2>2. sum[k] = sum[k - 1] + Len(table[k - 1]) /\ Len(table[k - 1]) = 0
    <3>1. PICK j \in Words!Buckets : j = k - 1
      BY <2>1
    <3>2. sum[j + 1] = sum[j] + Len(table[j]) /\ Len(table[j]) = 0
      BY <1>1
    <3> QED
      BY <2>1, <3>1, <3>2
  <2> QED
    BY <2>1, <2>2
<1>4. sum[MAX_HASH_SIZE] = 0
  <2> HIDE DEF S
  <2>1. \A k \in 0 .. MAX_HASH_SIZE : k \in S
    BY <1>2, <1>3, Induction
  <2>2. MAX_HASH_SIZE \in S
    BY <1>2, <2>1
  <2> QED
    BY <2>2 DEF S
<1> QED
  BY <1>1, <1>4
-----------------------------------------------------------------------------
(* Where FlattenSeq puts the elements of a sequence of sequences.          *)
Placed(p, r, n, base) ==
  /\ \A k \in 1 .. n : \A i \in 1 .. Len(r[k]) :
       base[k - 1] + i \in 1 .. Len(p) /\ p[base[k - 1] + i] = r[k][i]
  /\ \A j \in 1 .. Len(p) : \E k \in 1 .. n : \E i \in 1 .. Len(r[k]) : j = base[k - 1] + i
  /\ \A k, l \in 1 .. n : k < l =>
       \A i \in 1 .. Len(r[k]) : \A j \in 1 .. Len(r[l]) :
         base[k - 1] + i # base[l - 1] + j

LEMMA FlattenPlaces ==
  ASSUME NEW V, NEW r \in Seq(Seq(V)), NEW n \in Nat, n = Len(r),
         NEW p, p = Words!FlattenSeq(r)
  PROVE  p \in Seq(V) /\ \E base \in [0 .. n -> Nat] : Placed(p, r, n, base)
<1>1. PICK flat \in [0 .. n -> Seq(V)] :
        /\ flat[0] = <<>> /\ p = flat[n]
        /\ \A k \in 1 .. n : flat[k] = flat[k - 1] \o r[k]
  <2>1. Words!FlattenSeq(r) = RobustIO!FlattenSeq(r)
    BY DEF Words!FlattenSeq, RobustIO!FlattenSeq
  <2>2. \E flat \in [0 .. Len(r) -> Seq(V)] :
          /\ flat[0] = <<>> /\ RobustIO!FlattenSeq(r) = flat[Len(r)]
          /\ \A k \in 1 .. Len(r) : flat[k] = flat[k - 1] \o r[k]
    BY Flatten
  <2>3. \E flat \in [0 .. n -> Seq(V)] :
          /\ flat[0] = <<>> /\ p = flat[n]
          /\ \A k \in 1 .. n : flat[k] = flat[k - 1] \o r[k]
    BY <2>1, <2>2, Zenon
  <2> QED
    BY <2>3
<1> DEFINE off == [k \in 0 .. n |-> Len(flat[k])]
<1>2. off \in [0 .. n -> Nat] /\ \A k \in 0 .. n : off[k] = Len(flat[k]) /\ flat[k] \in Seq(V)
  OBVIOUS
<1> HIDE DEF off
<1>3. \A k \in 1 .. n : r[k] \in Seq(V) /\ Len(r[k]) \in Nat
  OBVIOUS
<1> DEFINE In(m) == \A k \in 1 .. m : \A i \in 1 .. Len(r[k]) :
                      off[k - 1] + i \in 1 .. off[m] /\ flat[m][off[k - 1] + i] = r[k][i]
           Onto(m) == \A j \in 1 .. off[m] :
                        \E k \in 1 .. m : \E i \in 1 .. Len(r[k]) : j = off[k - 1] + i
           S == {m \in 0 .. n : In(m) /\ Onto(m)}
<1>4. 0 \in S
  <2>1. off[0] = 0
    BY <1>1, <1>2
  <2> QED
    BY <2>1
<1>5. ASSUME NEW m \in 1 .. n, m - 1 \in S PROVE m \in S
  <2>0. m - 1 \in 0 .. n /\ m \in 0 .. n
    OBVIOUS
  <2>1. PICK u \in Seq(V), v \in Seq(V) :
          u = flat[m - 1] /\ v = r[m] /\ flat[m] = u \o v
    BY <1>1, <1>2, <1>3, <2>0
  <2>2. PICK c \in Nat, d \in Nat : c = Len(u) /\ d = Len(v)
    OBVIOUS
  <2>3. /\ Len(u \o v) = c + d
        /\ \A i \in 1 .. c + d : (u \o v)[i] = IF i <= c THEN u[i] ELSE v[i - c]
    BY <2>2, Joined
  <2>a. off[m - 1] = c /\ d = Len(r[m])
    BY <1>2, <2>0, <2>1, <2>2
  <2>4. /\ off[m] = c + d
        /\ \A i \in 1 .. c : flat[m][i] = flat[m - 1][i]
        /\ \A i \in 1 .. d : flat[m][c + i] = r[m][i]
    <3>1. off[m] = c + d
      BY <1>2, <2>0, <2>1, <2>3
    <3>2. ASSUME NEW i \in 1 .. c PROVE flat[m][i] = flat[m - 1][i]
      <4>1. i \in 1 .. c + d /\ i <= c
        OBVIOUS
      <4> QED
        BY <2>1, <2>3, <4>1
    <3>3. ASSUME NEW i \in 1 .. d PROVE flat[m][c + i] = r[m][i]
      <4>1. c + i \in 1 .. c + d /\ ~(c + i <= c) /\ (c + i) - c = i
        OBVIOUS
      <4> QED
        BY <2>1, <2>3, <4>1
    <3> QED
      BY <3>1, <3>2, <3>3
  <2>5. In(m - 1) /\ Onto(m - 1)
    BY <1>5
  <2>6. In(m)
    <3> SUFFICES ASSUME NEW k \in 1 .. m, NEW i \in 1 .. Len(r[k])
                 PROVE  off[k - 1] + i \in 1 .. off[m]
                        /\ flat[m][off[k - 1] + i] = r[k][i]
      OBVIOUS
    <3>1. CASE k = m
      BY <2>a, <2>4, <3>1
    <3>2. CASE k # m
      <4>1. k \in 1 .. m - 1
        BY <3>2
      <4>2. off[k - 1] + i \in 1 .. c /\ flat[m - 1][off[k - 1] + i] = r[k][i]
        BY <2>a, <2>5, <4>1
      <4> QED
        BY <2>4, <4>2
    <3> QED
      BY <3>1, <3>2
  <2>7. Onto(m)
    <3> SUFFICES ASSUME NEW j \in 1 .. off[m]
                 PROVE  \E k \in 1 .. m : \E i \in 1 .. Len(r[k]) : j = off[k - 1] + i
      OBVIOUS
    <3>1. CASE j <= c
      <4>1. j \in 1 .. off[m - 1]
        BY <2>a, <2>4, <3>1
      <4>2. PICK k \in 1 .. m - 1 : \E i \in 1 .. Len(r[k]) : j = off[k - 1] + i
        BY <2>5, <4>1
      <4>3. k \in 1 .. m
        OBVIOUS
      <4> QED
        BY <4>2, <4>3
    <3>2. CASE j > c
      <4>1. j - c \in 1 .. Len(r[m]) /\ j = off[m - 1] + (j - c) /\ m \in 1 .. m
        BY <2>a, <2>4, <3>2
      <4> QED
        BY <4>1
    <3> QED
      BY <2>4, <3>1, <3>2
  <2> HIDE DEF In, Onto
  <2> QED
    BY <2>0, <2>6, <2>7
<1>6. \A m \in 0 .. n : In(m) /\ Onto(m)
  <2>1. \A m \in 0 .. n : m \in S
    <3> HIDE DEF S
    <3> QED
      BY <1>4, <1>5, Induction
  <2> QED
    BY <2>1
<1>7. p \in Seq(V) /\ off[n] = Len(p) /\ n \in 0 .. n
  BY <1>1, <1>2
<1>a. In(n) /\ Onto(n)
  BY <1>6, <1>7
<1>8. \A k \in 1 .. n : \A i \in 1 .. Len(r[k]) :
        off[k - 1] + i \in 1 .. Len(p) /\ p[off[k - 1] + i] = r[k][i]
  <2>1. p = flat[n] /\ off[n] = Len(p)
    BY <1>1, <1>7
  <2>2. \A k \in 1 .. n : \A i \in 1 .. Len(r[k]) :
          off[k - 1] + i \in 1 .. off[n] /\ flat[n][off[k - 1] + i] = r[k][i]
    BY <1>a
  <2> HIDE DEF In, Onto, S
  <2> QED
    BY <2>1, <2>2, Zenon
<1>9. \A j \in 1 .. Len(p) : \E k \in 1 .. n : \E i \in 1 .. Len(r[k]) : j = off[k - 1] + i
  BY <1>7, <1>a, Zenon
<1>10. ASSUME NEW k \in 1 .. n, NEW l \in 1 .. n, k < l,
              NEW i \in 1 .. Len(r[k]), NEW j \in 1 .. Len(r[l])
       PROVE  off[k - 1] + i # off[l - 1] + j
  <2>1. l - 1 \in 0 .. n /\ k \in 1 .. l - 1 /\ off[l - 1] \in Nat
    BY <1>2, <1>10
  <2>2. off[k - 1] + i \in 1 .. off[l - 1]
    BY <1>6, <2>1
  <2> QED
    BY <1>3, <2>1, <2>2
<1>11. \A k, l \in 1 .. n : k < l =>
         \A i \in 1 .. Len(r[k]) : \A j \in 1 .. Len(r[l]) :
           off[k - 1] + i # off[l - 1] + j
  BY <1>10, Zenon
<1> HIDE DEF In, Onto, S
<1>12. Placed(p, r, n, off)
  BY <1>8, <1>9, <1>11, Zenon DEF Placed
<1> QED
  BY <1>2, <1>7, <1>12

-----------------------------------------------------------------------------
(* The counts of the elements at some places of the output.                *)
Summed(p, S) == Words!MapThenSumSet(LAMBDA k : p[k].count, S)

LEMMA SummedIs ==
  ASSUME NEW p, NEW x, NEW y, p[x].count \in Int, p[y].count \in Int
  PROVE  Summed(p, {x, y}) = IF x = y THEN p[x].count ELSE p[x].count + p[y].count
<1> DEFINE S == {x, y}
           first(s) == CHOOSE z \in s : TRUE
           Eq(iter) == iter = [s \in SUBSET S |->
                                 IF s = {} THEN 0
                                 ELSE p[first(s)].count + iter[s \ {first(s)}]]
           fold == CHOOSE iter : Eq(iter)
           it == [s \in SUBSET S |->
                    IF s = {} THEN 0
                    ELSE IF s = {x} THEN p[x].count
                    ELSE IF s = {y} THEN p[y].count ELSE p[x].count + p[y].count]
<1>1. Summed(p, S) = fold[S]
  BY DEF Summed, Words!MapThenSumSet, Words!MapThenFoldSet
<1>2. /\ it[{}] = 0 /\ it[{x}] = p[x].count /\ it[{y}] = p[y].count
      /\ x # y => it[S] = p[x].count + p[y].count
  OBVIOUS
<1>3. DOMAIN it = SUBSET S /\ it = [s \in SUBSET S |-> it[s]]
  OBVIOUS
<1> HIDE DEF it
<1>0. PICK cx \in Int, cy \in Int : cx = p[x].count /\ cy = p[y].count
  OBVIOUS
<1>4. ASSUME NEW s \in SUBSET S, s # {}
      PROVE  it[s] = p[first(s)].count + it[s \ {first(s)}]
  <2>1. first(s) \in s
    BY <1>4
  <2> HIDE DEF first
  <2>2. CASE s = {x}
    <3>1. first(s) = x /\ s \ {first(s)} = {}
      BY <2>1, <2>2
    <3>2. it[s] = cx /\ it[s \ {first(s)}] = 0 /\ p[first(s)].count = cx
      BY <1>0, <1>2, <2>2, <3>1, Zenon
    <3> QED
      BY <3>2
  <2>3. CASE s = {y}
    <3>1. first(s) = y /\ s \ {first(s)} = {}
      BY <2>1, <2>3
    <3>2. it[s] = cy /\ it[s \ {first(s)}] = 0 /\ p[first(s)].count = cy
      BY <1>0, <1>2, <2>3, <3>1, Zenon
    <3> QED
      BY <3>2
  <2>4. CASE s = S /\ x # y
    <3>1. \/ first(s) = x /\ s \ {first(s)} = {y}
          \/ first(s) = y /\ s \ {first(s)} = {x}
      BY <2>1, <2>4
    <3>2. it[s] = cx + cy
      BY <1>0, <1>2, <2>4, Zenon
    <3>3. \/ p[first(s)].count = cx /\ it[s \ {first(s)}] = cy
          \/ p[first(s)].count = cy /\ it[s \ {first(s)}] = cx
      BY <1>0, <1>2, <3>1, Zenon
    <3> QED
      BY <3>2, <3>3
  <2> QED
    BY <1>4, <2>2, <2>3, <2>4
<1>5. Eq(it)
  <2> HIDE DEF first, S
  <2>1. [s \in SUBSET S |-> it[s]] = [s \in SUBSET S |->
           IF s = {} THEN 0 ELSE p[first(s)].count + it[s \ {first(s)}]]
    BY <1>2, <1>4
  <2> QED
    BY <1>3, <2>1
<1>6. Eq(fold)
  BY <1>5
<1> HIDE DEF fold
<1>7. /\ fold[{}] = 0
      /\ \A s \in SUBSET S : s # {} => fold[s] = p[first(s)].count + fold[s \ {first(s)}]
  BY <1>6
<1>8. ASSUME NEW z \in S PROVE fold[{z}] = p[z].count
  <2>1. first({z}) = z /\ {z} \ {z} = {} /\ {z} \in SUBSET S /\ {z} # {}
    OBVIOUS
  <2>2. p[z].count \in Int
    OBVIOUS
  <2> HIDE DEF first, Eq, S
  <2>3. fold[{z}] = p[z].count + fold[{}]
    BY <1>7, <2>1
  <2> QED
    BY <1>7, <2>2, <2>3
<1>9. CASE x = y
  <2>1. S = {x}
    BY <1>9
  <2>2. fold[{x}] = p[x].count
    BY <1>8
  <2> QED
    BY <1>1, <1>9, <2>1, <2>2
<1>10. CASE x # y
  <2>1. first(S) \in S
    OBVIOUS
  <2>2. fold[S] = p[first(S)].count + fold[S \ {first(S)}]
    <3>1. S \in SUBSET S /\ S # {}
      OBVIOUS
    <3> HIDE DEF first, S, Eq
    <3> QED
      BY <1>7, <3>1
  <2>3. fold[{x}] = p[x].count /\ fold[{y}] = p[y].count
    BY <1>8
  <2> HIDE DEF first, Eq
  <2>4. \/ first(S) = x /\ S \ {first(S)} = {y}
        \/ first(S) = y /\ S \ {first(S)} = {x}
    BY <1>10, <2>1
  <2>5. fold[S] = p[x].count + p[y].count
    <3>1. \/ p[first(S)].count = cx /\ fold[S \ {first(S)}] = cy
          \/ p[first(S)].count = cy /\ fold[S \ {first(S)}] = cx
      BY <1>0, <2>3, <2>4, Zenon
    <3>2. fold[S] = cx + cy
      BY <2>2, <3>1
    <3> QED
      BY <1>0, <3>2
  <2> QED
    BY <1>1, <1>10, <2>5
<1> QED
  BY <1>9, <1>10
-----------------------------------------------------------------------------
(* What wc_output prints when all of the text has been counted.            *)
LEMMA WordTyped ==
  ASSUME TextOK, NEW i \in Words!Starts
  PROVE  Words!WordAt(i) \in Seq(Chars)
<1> DEFINE S == Words!SpacesFrom(i)
<1>1. /\ text \in Seq(Chars) /\ behind \in Seq(Chars)
      /\ Words!Size = Len(text) /\ Words!Size \in Nat /\ i \in 1 .. Words!Size
  BY DEF TextOK, Words!Size, Words!Starts
<1>2. S \in SUBSET (i .. Words!Size) /\ S \in SUBSET Nat
  BY <1>1 DEF Words!SpacesFrom
<1> HIDE DEF S
<1>3. CASE S = {}
  <2>1. Words!WordAt(i) = SubSeq(text, i, Words!Size) \o behind
    BY <1>3 DEF Words!WordAt, S
  <2> HIDE DEF Chars
  <2>2. SubSeq(text, i, Words!Size) \in Seq(Chars)
    BY <1>1
  <2> QED
    BY <1>1, <2>1, <2>2
<1>4. CASE S # {}
  <2>1. PICK m \in S : \A k \in S : m <= k
    BY <1>2, <1>4, LeastNat
  <2>2. Words!Min(S) = m
    BY <1>2, <2>1, LeastIs
  <2>3. Words!WordAt(i) = SubSeq(text, i, m - 1)
    BY <1>4, <2>2 DEF Words!WordAt, S
  <2>4. m - 1 \in i - 1 .. Len(text)
    BY <1>1, <1>2
  <2> HIDE DEF Chars
  <2> QED
    BY <1>1, <2>3, <2>4
<1> QED
  BY <1>3, <1>4

LEMMA AllBegun ==
  ASSUME TextOK, pos = Words!Size + 1, NEW w
  PROVE  /\ Cardinality({j \in Words!Starts : Words!WordAt(j) = w})
              = Cardinality(Closed(w, pos)) + Cardinality(Open(w, pos))
         /\ Words!Last(text) = Space => Open(w, pos) = {}
<1>1. Begun(pos) = Words!Starts
  BY DEF Begun, Words!Starts, Words!Size, TextOK
<1>2. /\ {j \in Words!Starts : Words!WordAt(j) = w} = Closed(w, pos) \cup Open(w, pos)
      /\ Closed(w, pos) \cap Open(w, pos) = {}
  BY <1>1 DEF Closed, Open
<1>3. Cardinality(Closed(w, pos) \cup Open(w, pos))
        = Cardinality(Closed(w, pos)) + Cardinality(Open(w, pos))
  <2>1. PICK c \in Nat, o \in Nat :
          c = Cardinality(Closed(w, pos)) /\ o = Cardinality(Open(w, pos))
    BY BegunFinite
  <2>2. Cardinality(Closed(w, pos) \cup Open(w, pos)) = (c + o) - Cardinality({})
    <3>1. IsFiniteSet(Closed(w, pos)) /\ IsFiniteSet(Open(w, pos))
      BY BegunFinite
    <3>2. PICK A, B : A = Closed(w, pos) /\ B = Open(w, pos)
      OBVIOUS
    <3>3. Cardinality(A \cup B) = Cardinality(A) + Cardinality(B) - Cardinality(A \cap B)
      BY <3>1, <3>2, FS_Union
    <3>4. A \cap B = {} /\ Cardinality(A) = c /\ Cardinality(B) = o
      <4>1. A \cap B = {}
        BY <1>2, <3>2, Zenon
      <4>2. Cardinality(A) = c
        BY <2>1, <3>2, Zenon
      <4>3. Cardinality(B) = o
        BY <2>1, <3>2, Zenon
      <4> QED
        BY <4>1, <4>2, <4>3
    <3>5. Cardinality(A \cup B) = (c + o) - Cardinality({})
      <4>1. PICK n \in Nat : n = Cardinality(A \cap B) /\ n = Cardinality({})
        <5>1. Cardinality(A \cap B) = Cardinality({})
          BY <3>4, Zenon
        <5> QED
          BY <5>1, FS_EmptySet
      <4>2. n = 0
        BY <4>1, FS_EmptySet
      <4> QED
        BY <3>3, <3>4, <4>1, <4>2
    <3> QED
      BY <3>2, <3>5
  <2> QED
    BY <2>1, <2>2, FS_EmptySet
<1>4. ASSUME Words!Last(text) = Space, NEW j \in Open(w, pos) PROVE FALSE
  <2>1. j \in 1 .. Words!Size /\ Words!SpacesFrom(j) = {} /\ Words!Size \in Nat
    BY DEF Open, Begun, Words!Starts, Words!Size, TextOK
  <2>2. text[Words!Size] = Space
    BY <1>4 DEF Words!Last, Words!Size
  <2>3. Words!Size \in Words!SpacesFrom(j)
    BY <2>1, <2>2 DEF Words!SpacesFrom
  <2> QED
    BY <2>1, <2>3
<1> QED
  BY <1>2, <1>3, <1>4

Of(p, w) == {k \in 1 .. Len(p) : p[k].word = w}

Matches(p) ==
  /\ \A i \in Words!Starts :
       /\ Summed(p, Of(p, Words!WordAt(i)))
            = Cardinality({j \in Words!Starts : Words!WordAt(j) = Words!WordAt(i)})
       /\ Words!Last(text) = Space => Cardinality(Of(p, Words!WordAt(i))) = 1
  /\ \A k \in 1 .. Len(p) : \E j \in Words!Starts : Words!WordAt(j) = p[k].word

Output == Words!FlattenSeq([h \in 1 .. MAX_HASH_SIZE |-> table[h - 1]])

(* o[h] + i is the place in p of the i-th element of chain h.              *)
At(p, o) ==
  /\ \A h \in Words!Buckets : \A i \in 1 .. Len(table[h]) :
       o[h] + i \in 1 .. Len(p) /\ p[o[h] + i] = table[h][i]
  /\ \A k \in 1 .. Len(p) :
       \E h \in Words!Buckets : \E i \in 1 .. Len(table[h]) : k = o[h] + i
  /\ \A g, h \in Words!Buckets : g # h =>
       \A i \in 1 .. Len(table[g]) : \A j \in 1 .. Len(table[h]) : o[g] + i # o[h] + j

LEMMA OutputPlaces ==
  ASSUME table \in [Words!Buckets -> Seq(Entry)]
  PROVE  /\ Output \in Seq(Entry)
         /\ \E home \in [Words!Buckets -> Nat] : At(Output, home)
<1>1. PICK n \in Nat \ {0} : n = MAX_HASH_SIZE
  BY ProgramsAssumption
<1> DEFINE r == [h \in 1 .. n |-> table[h - 1]]
<1>2. Words!Buckets = 0 .. n - 1
  BY <1>1 DEF Words!Buckets
<1> HIDE DEF Entry
<1>3. r \in Seq(Seq(Entry)) /\ Len(r) = n /\ \A h \in 1 .. n : r[h] = table[h - 1]
  <2>1. \A h \in 1 .. n : table[h - 1] \in Seq(Entry)
    BY <1>2
  <2> QED
    BY <2>1
<1>4. Output = Words!FlattenSeq(r)
  BY <1>1 DEF Output
<1> HIDE DEF r
<1>5. PICK base \in [0 .. n -> Nat] : Placed(Output, r, n, base)
  BY <1>3, <1>4, FlattenPlaces
<1>6. Output \in Seq(Entry)
  BY <1>3, <1>4, FlattenPlaces
<1> DEFINE o == [h \in 0 .. n - 1 |-> base[h]]
<1>7. o \in [Words!Buckets -> Nat] /\ \A h \in 0 .. n - 1 : o[h] = base[h]
  BY <1>2
<1> HIDE DEF o
<1>8. ASSUME NEW h \in Words!Buckets
      PROVE  h + 1 \in 1 .. n /\ (h + 1) - 1 = h /\ r[h + 1] = table[h] /\ o[h] = base[h]
  <2>1. h \in 0 .. n - 1
    BY <1>2
  <2>2. h + 1 \in 1 .. n /\ (h + 1) - 1 = h
    BY <2>1
  <2> QED
    BY <1>3, <1>7, <2>1, <2>2
<1>9. ASSUME NEW h \in Words!Buckets, NEW i \in 1 .. Len(table[h])
      PROVE  o[h] + i \in 1 .. Len(Output) /\ Output[o[h] + i] = table[h][i]
  <2>1. PICK k \in 1 .. n : k = h + 1 /\ k - 1 = h /\ r[k] = table[h]
    BY <1>8
  <2>2. base[k - 1] + i \in 1 .. Len(Output) /\ Output[base[k - 1] + i] = r[k][i]
    BY <1>5, <2>1 DEF Placed
  <2> QED
    BY <1>8, <2>1, <2>2
<1>10. ASSUME NEW j \in 1 .. Len(Output)
       PROVE  \E h \in Words!Buckets : \E i \in 1 .. Len(table[h]) : j = o[h] + i
  <2>1. PICK k \in 1 .. n : \E i \in 1 .. Len(r[k]) : j = base[k - 1] + i
    BY <1>5 DEF Placed
  <2>2. PICK h \in Words!Buckets : h = k - 1
    BY <1>2
  <2>3. r[k] = table[h] /\ o[h] = base[k - 1]
    BY <1>3, <1>8, <2>2
  <2> QED
    BY <2>1, <2>2, <2>3
<1>11. ASSUME NEW g \in Words!Buckets, NEW h \in Words!Buckets, g < h,
              NEW i \in 1 .. Len(table[g]), NEW j \in 1 .. Len(table[h])
       PROVE  o[g] + i # o[h] + j
  <2>1. PICK k \in 1 .. n : k = g + 1 /\ k - 1 = g /\ r[k] = table[g]
    BY <1>8
  <2>2. PICK l \in 1 .. n : l = h + 1 /\ l - 1 = h /\ r[l] = table[h]
    BY <1>8
  <2>3. k < l
    BY <1>2, <1>11, <2>1, <2>2
  <2>4. base[k - 1] + i # base[l - 1] + j
    <3>1. \A i_ \in 1 .. Len(r[k]) : \A j_ \in 1 .. Len(r[l]) :
            base[k - 1] + i_ # base[l - 1] + j_
      BY <1>5, <2>3 DEF Placed
    <3> QED
      BY <2>1, <2>2, <3>1
  <2> QED
    BY <1>8, <2>1, <2>2, <2>4
<1>12. \A g, h \in Words!Buckets : g # h =>
         \A i \in 1 .. Len(table[g]) : \A j \in 1 .. Len(table[h]) : o[g] + i # o[h] + j
  <2> SUFFICES ASSUME NEW g \in Words!Buckets, NEW h \in Words!Buckets, g # h,
                      NEW i \in 1 .. Len(table[g]), NEW j \in 1 .. Len(table[h])
               PROVE  o[g] + i # o[h] + j
    OBVIOUS
  <2>1. g < h \/ h < g
    BY <1>2
  <2> QED
    BY <1>11, <2>1
<1>13. At(Output, o)
  BY <1>9, <1>10, <1>12 DEF At
<1> QED
  BY <1>6, <1>7, <1>13

LEMMA OutputMatches ==
  ASSUME TextOK, Tallied, pos = Words!Size + 1
  PROVE  Matches(Output)
<1>1. PICK p : p = Output
  OBVIOUS
<1>2. Chains(table) /\ table \in [Words!Buckets -> Seq(Entry)]
  BY DEF Tallied, Chains
<1>3. PICK b \in Words!Buckets : TallyInv(b)
  BY DEF Tallied
<1>4. PICK o \in [Words!Buckets -> Nat] : At(p, o)
  <2>1. \E home \in [Words!Buckets -> Nat] : At(Output, home)
    BY <1>2, OutputPlaces
  <2> QED
    BY <1>1, <2>1
<1> DEFINE T(h, w) == Tally(table[h], w)
           c(w) == Cardinality(Closed(w, pos))
           d(w) == Cardinality(Open(w, pos))
<1>5. \A w \in Seq(Chars) : /\ Words!hash(w) \in Words!Buckets
                            /\ c(w) \in Nat /\ d(w) \in Nat
  BY HashIsBucket, BegunFinite
<1>6. \A h \in Words!Buckets, w \in Seq(Chars) :
        T(h, w) = (IF h = Words!hash(w) THEN c(w) ELSE 0) + (IF h = b THEN d(w) ELSE 0)
  BY <1>3 DEF TallyInv
<1> HIDE DEF c, d
(* Every place of a word is that of its element in some chain.             *)
<1>7. ASSUME NEW w \in Seq(Chars), NEW k \in Of(p, w)
      PROVE  \E h \in Words!Buckets : \E i \in 1 .. Len(table[h]) :
               k = o[h] + i /\ table[h][i].word = w /\ T(h, w) # 0
  <2>1. k \in 1 .. Len(p) /\ p[k].word = w
    BY <1>7 DEF Of
  <2>2. PICK h \in Words!Buckets : \E i \in 1 .. Len(table[h]) : k = o[h] + i
    BY <1>4, <2>1 DEF At
  <2>3. PICK i \in 1 .. Len(table[h]) : k = o[h] + i
    BY <2>2
  <2>4. table[h][i].word = w
    BY <1>4, <2>1, <2>3 DEF At
  <2>5. Chain(table[h])
    BY <1>2 DEF Chains
  <2>6. T(h, w) # 0
    BY <2>4, <2>5, TallyIs
  <2> QED
    BY <2>3, <2>4, <2>6
(* A chain that counts a word has it in one place.                         *)
<1>8. ASSUME NEW w \in Seq(Chars), NEW h \in Words!Buckets, T(h, w) # 0
      PROVE  \E i \in 1 .. Len(table[h]) :
               /\ o[h] + i \in Of(p, w) /\ p[o[h] + i].count = T(h, w) /\ T(h, w) \in Nat
               /\ \A j \in 1 .. Len(table[h]) : table[h][j].word = w => j = i
  <2>1. Chain(table[h])
    BY <1>2 DEF Chains
  <2>2. PICK i \in 1 .. Len(table[h]) : table[h][i].word = w
    BY <1>8, <2>1, TallyIs
  <2>3. T(h, w) = table[h][i].count /\ T(h, w) \in Nat
    BY <2>1, <2>2, TallyIs
  <2>4. o[h] + i \in 1 .. Len(p) /\ p[o[h] + i] = table[h][i]
    BY <1>4 DEF At
  <2>5. \A j \in 1 .. Len(table[h]) : table[h][j].word = w => j = i
    BY <2>1, <2>2 DEF Chain
  <2>6. o[h] + i \in Of(p, w)
    BY <2>2, <2>4 DEF Of
  <2> QED
    BY <2>3, <2>4, <2>5, <2>6
<1> HIDE DEF T
<1>9. ASSUME NEW w \in Seq(Chars), NEW h \in Words!Buckets, T(h, w) # 0,
             \A g \in Words!Buckets : g # h => T(g, w) = 0
      PROVE  Summed(p, Of(p, w)) = T(h, w) /\ Cardinality(Of(p, w)) = 1
  <2>1. PICK i \in 1 .. Len(table[h]) :
          /\ o[h] + i \in Of(p, w) /\ p[o[h] + i].count = T(h, w) /\ T(h, w) \in Nat
          /\ \A j \in 1 .. Len(table[h]) : table[h][j].word = w => j = i
    BY <1>8, <1>9
  <2>2. PICK x : x = o[h] + i
    OBVIOUS
  <2>3. Of(p, w) = {x}
    <3>1. ASSUME NEW k \in Of(p, w) PROVE k = x
      <4>1. PICK g \in Words!Buckets : \E j \in 1 .. Len(table[g]) :
              k = o[g] + j /\ table[g][j].word = w /\ T(g, w) # 0
        BY <1>7
      <4> QED
        BY <1>9, <2>1, <2>2, <4>1
    <3> QED
      BY <2>1, <2>2, <3>1
  <2>4. Summed(p, {x, x}) = p[x].count
    <3>1. p[x].count \in Int
      BY <2>1, <2>2
    <3> QED
      BY <3>1, SummedIs
  <2>5. {x, x} = {x} /\ Cardinality({x}) = 1
    BY FS_Singleton
  <2> QED
    BY <2>1, <2>2, <2>3, <2>4, <2>5
<1>10. ASSUME NEW w \in Seq(Chars), NEW g \in Words!Buckets, NEW h \in Words!Buckets,
              g # h, T(g, w) # 0, T(h, w) # 0,
              \A f \in Words!Buckets : f # g /\ f # h => T(f, w) = 0
       PROVE  Summed(p, Of(p, w)) = T(g, w) + T(h, w)
  <2>1. PICK i \in 1 .. Len(table[g]) :
          /\ o[g] + i \in Of(p, w) /\ p[o[g] + i].count = T(g, w) /\ T(g, w) \in Nat
          /\ \A j \in 1 .. Len(table[g]) : table[g][j].word = w => j = i
    BY <1>8, <1>10
  <2>2. PICK j \in 1 .. Len(table[h]) :
          /\ o[h] + j \in Of(p, w) /\ p[o[h] + j].count = T(h, w) /\ T(h, w) \in Nat
          /\ \A l \in 1 .. Len(table[h]) : table[h][l].word = w => l = j
    BY <1>8, <1>10
  <2>3. PICK x, y : x = o[g] + i /\ y = o[h] + j
    OBVIOUS
  <2>4. Of(p, w) = {x, y}
    <3>1. ASSUME NEW k \in Of(p, w) PROVE k = x \/ k = y
      <4>1. PICK f \in Words!Buckets : \E l \in 1 .. Len(table[f]) :
              k = o[f] + l /\ table[f][l].word = w /\ T(f, w) # 0
        BY <1>7
      <4>2. f = g \/ f = h
        BY <1>10, <4>1
      <4> QED
        BY <2>1, <2>2, <2>3, <4>1, <4>2
    <3> QED
      BY <2>1, <2>2, <2>3, <3>1
  <2>5. x # y
    <3>1. \A i_ \in 1 .. Len(table[g]) : \A j_ \in 1 .. Len(table[h]) :
            o[g] + i_ # o[h] + j_
      BY <1>4, <1>10 DEF At
    <3> QED
      BY <2>3, <3>1
  <2>6. p[x].count = T(g, w) /\ p[y].count = T(h, w) /\ T(g, w) \in Nat /\ T(h, w) \in Nat
    BY <2>1, <2>2, <2>3
  <2>7. Summed(p, {x, y}) = p[x].count + p[y].count
    <3>1. p[x].count \in Int /\ p[y].count \in Int
      BY <2>6
    <3> QED
      BY <2>5, <3>1, SummedIs
  <2> QED
    BY <2>4, <2>6, <2>7
<1>11. ASSUME NEW w \in Seq(Chars), c(w) + d(w) # 0
       PROVE  /\ Summed(p, Of(p, w)) = c(w) + d(w)
              /\ d(w) = 0 => Cardinality(Of(p, w)) = 1
  <2>1. PICK a \in Words!Buckets : a = Words!hash(w)
    BY <1>5
  <2>2. c(w) \in Nat /\ d(w) \in Nat
    BY <1>5
  <2>3. \A h \in Words!Buckets :
          T(h, w) = (IF h = a THEN c(w) ELSE 0) + (IF h = b THEN d(w) ELSE 0)
    BY <1>6, <2>1
  <2>4. CASE a = b \/ d(w) = 0
    <3>1. T(a, w) = c(w) + d(w) /\ \A h \in Words!Buckets : h # a => T(h, w) = 0
      BY <2>2, <2>3, <2>4
    <3> QED
      BY <1>9, <1>11, <3>1
  <2>5. CASE a # b /\ c(w) = 0
    <3>1. T(b, w) = c(w) + d(w) /\ \A h \in Words!Buckets : h # b => T(h, w) = 0
      BY <2>2, <2>3, <2>5
    <3> QED
      BY <1>9, <1>11, <3>1
  <2>6. CASE a # b /\ c(w) # 0 /\ d(w) # 0
    <3>1. T(a, w) = c(w) /\ T(b, w) = d(w)
      BY <2>2, <2>3, <2>6
    <3>2. \A h \in Words!Buckets : h # a /\ h # b => T(h, w) = 0
      BY <2>2, <2>3
    <3>3. Summed(p, Of(p, w)) = T(a, w) + T(b, w)
      BY <1>10, <2>6, <3>1, <3>2
    <3> QED
      BY <2>6, <3>1, <3>3
  <2> QED
    BY <2>4, <2>5, <2>6
<1>12. ASSUME NEW i \in Words!Starts
       PROVE  /\ Summed(p, Of(p, Words!WordAt(i)))
                   = Cardinality({j \in Words!Starts : Words!WordAt(j) = Words!WordAt(i)})
              /\ Words!Last(text) = Space => Cardinality(Of(p, Words!WordAt(i))) = 1
  <2>1. PICK w \in Seq(Chars) : w = Words!WordAt(i)
    BY WordTyped
  <2>2. /\ Cardinality({j \in Words!Starts : Words!WordAt(j) = w}) = c(w) + d(w)
        /\ Words!Last(text) = Space => d(w) = 0
    BY AllBegun, FS_EmptySet DEF c, d
  <2>3. c(w) + d(w) # 0
    <3>1. i \in {j \in Words!Starts : Words!WordAt(j) = w}
      BY <2>1
    <3>2. {j \in Words!Starts : Words!WordAt(j) = w} \in SUBSET (1 .. Words!Size)
      BY DEF Words!Starts
    <3>3. IsFiniteSet(1 .. Words!Size)
      BY FS_Interval DEF TextOK, Words!Size
    <3>4. IsFiniteSet({j \in Words!Starts : Words!WordAt(j) = w})
      BY <3>2, <3>3, FS_Subset
    <3>5. Cardinality({j \in Words!Starts : Words!WordAt(j) = w}) # 0
      BY <3>1, <3>4, FS_EmptySet
    <3> QED
      BY <2>2, <3>5
  <2> QED
    BY <1>11, <2>1, <2>2, <2>3
<1>13. ASSUME NEW k \in 1 .. Len(p)
       PROVE  \E j \in Words!Starts : Words!WordAt(j) = p[k].word
  <2>1. PICK h \in Words!Buckets : \E i \in 1 .. Len(table[h]) : k = o[h] + i
    BY <1>4 DEF At
  <2>2. PICK i \in 1 .. Len(table[h]) : k = o[h] + i
    BY <2>1
  <2>3. p[k] = table[h][i] /\ table[h] \in Seq(Entry)
    BY <1>2, <1>4, <2>2 DEF At
  <2>4. PICK w \in Seq(Chars) : w = p[k].word
    BY <2>3, EntryIs
  <2>5. k \in Of(p, w)
    BY <2>4 DEF Of
  <2>6. PICK g \in Words!Buckets : T(g, w) # 0
    BY <1>7, <2>5
  <2>7. c(w) # 0 \/ d(w) # 0
    BY <1>5, <1>6, <2>6
  <2>8. Closed(w, pos) # {} \/ Open(w, pos) # {}
    BY <2>7, FS_EmptySet DEF c, d
  <2> QED
    BY <2>4, <2>8 DEF Closed, Open, Begun
<1> QED
  BY <1>1, <1>12, <1>13, Zenon DEF Matches
-----------------------------------------------------------------------------
(* The invariant of the word count: what the chains hold before wc_output  *)
(* has printed, what it printed, and the blocks wc_destroy gives back.     *)
WordsInv ==
  /\ TextOK
  /\ table \in [Words!Buckets -> Seq(Entry)]
  /\ printed = <<>> => Tallied
  /\ printed # <<>> => pos > Words!Size
  /\ \A p \in Words!Range(printed) : Matches(p)
  /\ outcome = "done" => blocks = 0
  /\ outcome # "done" => Allocated

LEMMA SameMatches ==
  ASSUME text' = text, behind' = behind, NEW p
  PROVE  Matches(p)' <=> Matches(p)
<1>1. /\ Words!Starts' = Words!Starts /\ Words!Last(text)' = Words!Last(text)
      /\ \A i : Words!WordAt(i)' = Words!WordAt(i)
  BY DEF Words!Starts, Words!Size, Words!WordAt, Words!SpacesFrom, Words!Last
<1> QED
  BY <1>1 DEF Matches

LEMMA WordsStart == ASSUME Words!Init PROVE WordsInv /\ outcome = "live"
<1>1. PICK m \in 0 .. MaxText : text \in [1 .. m -> Chars]
  BY DEF Words!Init, Words!SeqOf, Chars
<1>2. /\ text \in Seq(Chars) /\ behind \in Seq(Chars)
      /\ Words!Size = Len(text) /\ Words!Size \in Nat
  <2>1. CASE Words!Size % PageSize = 0
    <3>1. PICK k \in 0 .. MaxBehind : behind \in [1 .. k -> Letters]
      BY <2>1 DEF Words!Init, Words!SeqOf
    <3> QED
      BY <1>1, <3>1, ProgramsAssumption DEF Words!Size, Chars
  <2>2. CASE Words!Size % PageSize # 0
    <3>1. behind = <<>>
      BY <2>2 DEF Words!Init
    <3> QED
      BY <1>1, <3>1, ProgramsAssumption DEF Words!Size
  <2> QED
    BY <2>1, <2>2
<1>3. TextOK /\ pos = 1
  BY <1>2 DEF TextOK, Words!Init
<1>4. \A h \in Words!Buckets : table[h] = <<>>
  BY DEF Words!Init
<1>5. table \in [Words!Buckets -> Seq(Entry)]
  BY DEF Words!Init
<1>6. Chains(table) /\ \A h \in Words!Buckets, w \in Seq(Chars) : Tally(table[h], w) = 0
  <2>1. Chain(<<>>)
    BY DEF Chain
  <2>2. \A w : Tally(<<>>, w) = 0
    BY <2>1, TallyIs
  <2> QED
    BY <1>4, <1>5, <2>1, <2>2 DEF Chains
<1>7. \A w : Cardinality(Closed(w, pos)) = 0 /\ Cardinality(Open(w, pos)) = 0
  <2>1. Begun(1) = {}
    BY <1>2 DEF Begun, Words!Starts
  <2>2. \A w : Closed(w, 1) = {} /\ Open(w, 1) = {}
    BY <2>1 DEF Closed, Open
  <2> QED
    BY <1>3, <2>2, FS_EmptySet
<1>8. 0 \in Words!Buckets
  BY ProgramsAssumption DEF Words!Buckets
<1>9. TallyInv(0)
  BY <1>6, <1>7 DEF TallyInv
<1>10. Allocated
  <2> DEFINE sum == [h \in 0 .. MAX_HASH_SIZE |-> 0]
  <2>1. sum \in [0 .. MAX_HASH_SIZE -> Int] /\ sum[0] = 0 /\ sum[MAX_HASH_SIZE] = 0
    BY ProgramsAssumption
  <2>2. \A h \in Words!Buckets : sum[h + 1] = sum[h] + Len(table[h])
    BY <1>4, ProgramsAssumption DEF Words!Buckets
  <2>3. blocks = 1 + (2 * sum[MAX_HASH_SIZE])
    BY <2>1 DEF Words!Init
  <2> QED
    BY <2>1, <2>2, <2>3 DEF Allocated
<1>11. printed = <<>> /\ outcome = "live" /\ Words!Range(printed) = {}
  BY DEF Words!Init, Words!Range
<1> QED
  BY <1>3, <1>5, <1>6, <1>8, <1>9, <1>10, <1>11 DEF WordsInv, Tallied

(* Whatever leaves the program alone keeps the invariant.                  *)
LEMMA WordsSame ==
  ASSUME WordsInv, UNCHANGED word_vars, outcome' = "done" <=> outcome = "done"
  PROVE  WordsInv'
<1>1. text' = text /\ behind' = behind /\ pos' = pos /\ table' = table /\ blocks' = blocks /\ printed' = printed
  BY DEF word_vars
<1>2. TextOK' /\ Words!Buckets' = Words!Buckets /\ Words!Size' = Words!Size
  BY <1>1 DEF WordsInv, TextOK, Words!Size, Words!Buckets
<1>3. Tallied => Tallied'
  <2> SUFFICES ASSUME NEW b \in Words!Buckets, TallyInv(b), Chains(table)
               PROVE  TallyInv(b)' /\ Chains(table)'
    BY <1>2 DEF Tallied
  <2>1. \A w : Closed(w, pos)' = Closed(w, pos) /\ Open(w, pos)' = Open(w, pos)
    BY <1>1, SameText
  <2> QED
    BY <1>1, <1>2, <2>1 DEF TallyInv, Chains
<1>4. \A p \in Words!Range(printed)' : Matches(p)'
  BY <1>1, SameMatches DEF WordsInv, Words!Range
<1>5. Allocated' = Allocated
  BY <1>1, <1>2 DEF Allocated
<1> QED
  BY <1>1, <1>2, <1>3, <1>4, <1>5 DEF WordsInv

LEMMA WordsStep == ASSUME WordsInv, Words!Next PROVE WordsInv'
<1>1. /\ text' = text /\ behind' = behind
      /\ Words!Buckets' = Words!Buckets /\ Words!Size' = Words!Size
  BY DEF Words!Next, Words!mapped, Words!Skip, Words!Word, Words!LastWord, Words!WordFault, Words!Size,
         Words!wc_output, Words!FreeElement, Words!FreeTable, Words!Ended, Words!vars
<1>2. pos \in Nat /\ pos <= Words!Size + 1 /\ Words!Size \in Nat
  BY DEF WordsInv, TextOK, Words!Size
<1>3. ASSUME Words!Scanning PROVE printed = <<>> /\ Tallied /\ outcome = "live" /\ Allocated
  BY <1>2, <1>3 DEF Words!Scanning, WordsInv
<1>4. ASSUME printed' = printed PROVE \A p \in Words!Range(printed)' : Matches(p)'
  BY <1>1, <1>4, SameMatches DEF WordsInv, Words!Range
<1>5. ASSUME table' = table, blocks' = blocks PROVE Allocated' = Allocated
  BY <1>1, <1>5 DEF Allocated
<1>6. CASE Words!Skip
  <2>1. /\ table' = table /\ blocks' = blocks /\ printed' = printed /\ outcome' = outcome
        /\ Words!Scanning
    BY <1>6 DEF Words!Skip
  <2>2. TextOK' /\ Tallied'
    BY <1>3, <1>6, <2>1, TalliedSkip DEF WordsInv
  <2> QED
    BY <1>1, <1>3, <1>4, <1>5, <2>1, <2>2 DEF WordsInv
<1>7. ASSUME Words!Scanning, TextOK', Tallied', printed' = printed, outcome' = outcome,
             NEW g \in Words!Buckets, NEW w \in Seq(Chars), Words!Count(g, w)
      PROVE  WordsInv'
  <2>1. Allocated'
    <3>1. Chains(table)
      BY <1>3, <1>7 DEF Tallied
    <3>2. PICK d \in {0, 1} :
            /\ blocks' = blocks + (2 * d)
            /\ \A h \in Words!Buckets :
                 Len(table'[h]) = IF h = g THEN Len(table[h]) + d ELSE Len(table[h])
      BY <1>7, <3>1, Counted
    <3> QED
      BY <1>3, <1>7, <3>1, <3>2, AllocatedChange DEF Chains
  <2>2. table' \in [Words!Buckets -> Seq(Entry)]
    BY <1>1, <1>7 DEF Tallied, Chains
  <2> QED
    BY <1>1, <1>3, <1>4, <1>7, <2>1, <2>2 DEF WordsInv
<1>8. CASE Words!Word
  <2>1. /\ Words!Scanning /\ text[pos] # Space /\ Words!SpacesFrom(pos) # {}
        /\ printed' = printed /\ outcome' = outcome
    BY <1>8 DEF Words!Word
  <2>2. PICK end : end = Words!Min(Words!SpacesFrom(pos))
    OBVIOUS
  <2>3. PICK w : w = SubSeq(text, pos, end - 1)
    OBVIOUS
  <2>4. Words!Count(Words!hash(w), w)
    BY <1>8, <2>2, <2>3 DEF Words!Word
  <2>5. w \in Seq(Chars)
    BY <2>1, <2>2, <2>3, WordEnds DEF WordsInv, Words!Scanning
  <2>6. Words!hash(w) \in Words!Buckets
    BY <2>5, HashIsBucket
  <2>7. TextOK' /\ Tallied'
    BY <1>3, <1>8, <2>1, TalliedWord DEF WordsInv
  <2> QED
    BY <1>7, <2>1, <2>4, <2>5, <2>6, <2>7
<1>9. CASE Words!LastWord
  <2>1. /\ Words!Scanning /\ text[pos] # Space /\ Words!SpacesFrom(pos) = {}
        /\ printed' = printed /\ outcome' = outcome
    BY <1>9 DEF Words!LastWord
  <2>2. PICK w : w = SubSeq(text, pos, Words!Size) \o behind
    OBVIOUS
  <2>3. PICK g \in Words!Buckets : Words!Count(g, w)
    BY <1>9, <2>2 DEF Words!LastWord
  <2>4. w \in Seq(Chars)
    BY <2>1, <2>2, WordStaysOpen DEF WordsInv, Words!Scanning
  <2>5. TextOK' /\ Tallied'
    BY <1>3, <1>9, <2>1, TalliedLast DEF WordsInv
  <2> QED
    BY <1>7, <2>1, <2>3, <2>4, <2>5
<1>10. CASE Words!WordFault
  <2>1. UNCHANGED word_vars /\ outcome' = "fault" /\ outcome = "live"
    BY <1>10 DEF Words!WordFault, Words!mapped, Words!Scanning, word_vars
  <2> QED
    BY <2>1, WordsSame
<1>11. CASE Words!wc_output
  <2>1. /\ printed' = <<Output>> /\ printed = <<>> /\ pos > Words!Size
        /\ pos' = pos /\ table' = table /\ blocks' = blocks /\ outcome' = outcome
        /\ outcome = "live"
    BY <1>11 DEF Words!wc_output, Words!Whole, Output
  <2>2. Matches(Output)
    BY <1>2, <2>1, OutputMatches DEF WordsInv
  <2>3. PICK p : p = Output
    OBVIOUS
  <2>4. Words!Range(printed)' = {p} /\ printed' # <<>>
    BY <2>1, <2>3 DEF Words!Range
  <2>5. Matches(p)'
    BY <1>1, <2>2, <2>3, SameMatches
  <2>6. TextOK'
    BY <1>1, <2>1 DEF WordsInv, TextOK
  <2> QED
    BY <1>1, <1>5, <2>1, <2>4, <2>5, <2>6 DEF WordsInv
<1>12. CASE Words!FreeElement
  <2>0. PICK d \in Int : d = 0 - 1
    OBVIOUS
  <2>1. PICK g \in Words!Buckets :
          table[g] # <<>> /\ table' = [table EXCEPT ![g] = Tail(@)]
    BY <1>12 DEF Words!FreeElement
  <2>2. /\ blocks' = blocks - 2 /\ pos' = pos /\ printed' = printed /\ outcome' = outcome
        /\ outcome = "live" /\ printed # <<>>
    BY <1>12 DEF Words!FreeElement, Words!Whole
  <2>3. /\ table \in [Words!Buckets -> Seq(Entry)] /\ Allocated
    BY <2>2 DEF WordsInv
  <2>4. Tail(table[g]) \in Seq(Entry) /\ Len(Tail(table[g])) = Len(table[g]) - 1
    <3>1. PICK s \in Seq(Entry) : s = table[g]
      BY <2>3
    <3> HIDE DEF Entry
    <3>2. Tail(s) \in Seq(Entry) /\ Len(Tail(s)) = Len(s) - 1
      BY <2>1, <3>1
    <3> QED
      BY <3>1, <3>2
  <2>5. /\ table' \in [Words!Buckets -> Seq(Entry)]
        /\ \A h \in Words!Buckets :
             Len(table'[h]) = IF h = g THEN Len(table[h]) + d ELSE Len(table[h])
    <3>1. /\ table' \in [Words!Buckets -> Seq(Entry)] /\ table'[g] = Tail(table[g])
          /\ \A h \in Words!Buckets : h # g => table'[h] = table[h]
      BY <2>1, <2>3, <2>4, Zenon
    <3>2. Len(table[g]) - 1 = Len(table[g]) + d
      BY <2>0, <2>3
    <3> QED
      BY <2>4, <3>1, <3>2
  <2>6. blocks' = blocks + (2 * d)
    <3>1. blocks \in Int
      BY <2>3, ProgramsAssumption DEF Allocated
    <3> QED
      BY <2>0, <2>2, <3>1
  <2>7. Allocated'
    BY <2>3, <2>5, <2>6, AllocatedChange
  <2>8. TextOK'
    BY <1>1, <2>2 DEF WordsInv, TextOK
  <2> QED
    BY <1>1, <1>4, <2>2, <2>5, <2>7, <2>8 DEF WordsInv
<1>13. CASE Words!FreeTable
  <2>1. /\ table' = table /\ pos' = pos /\ printed' = printed /\ outcome' = "done"
        /\ outcome = "live" /\ printed # <<>> /\ blocks' = blocks - 1
        /\ \A h \in Words!Buckets : table[h] = <<>>
    BY <1>13 DEF Words!FreeTable, Words!Whole
  <2>2. blocks = 1
    BY <2>1, NoneAllocated DEF WordsInv
  <2>3. blocks' = 0
    BY <2>1, <2>2
  <2>4. TextOK'
    BY <1>1, <2>1 DEF WordsInv, TextOK
  <2> QED
    BY <1>1, <1>4, <2>1, <2>3, <2>4 DEF WordsInv
<1>14. CASE Words!Ended
  BY <1>14, WordsSame DEF Words!Ended, Words!vars, Words!mapped, word_vars
<1> QED
  BY <1>6, <1>8, <1>9, <1>10, <1>11, <1>12, <1>13, <1>14 DEF Words!Next

WordCountInv == WordsInv /\ (part # "words" => outcome # "done")

LEMMA WordCountInvHolds == ProgramsSpec => []WordCountInv
<1>1. ProgramsInit => WordCountInv
  BY WordsStart DEF ProgramsInit, WordCountInv
<1>2. WordCountInv /\ [ProgramsNext]_program_vars => WordCountInv'
  <2> SUFFICES ASSUME WordCountInv, [ProgramsNext]_program_vars PROVE WordCountInv'
    OBVIOUS
  <2>1. CASE UNCHANGED program_vars
    <3>1. UNCHANGED word_vars /\ outcome' = outcome /\ part' = part
      BY <2>1 DEF program_vars
    <3> QED
      BY <3>1, WordsSame DEF WordCountInv
  <2>2. CASE part = "words" /\ ProgramsNext
    <3>1. Words!Next /\ part' = part
      BY <2>2 DEF ProgramsNext
    <3> QED
      BY <2>2, <3>1, WordsStep DEF WordCountInv
  <2>3. CASE part # "words" /\ ProgramsNext
    <3>1. UNCHANGED word_vars /\ part' = part
      BY <2>3 DEF ProgramsNext
    <3>2. outcome # "done" /\ outcome' # "done"
      BY <2>3, OtherOutcomes DEF WordCountInv
    <3> QED
      BY <3>1, <3>2, WordsSame DEF WordCountInv
  <2> QED
    BY <2>1, <2>2, <2>3
<1> QED
  BY <1>1, <1>2, PTL DEF ProgramsSpec

LEMMA SameCardinalityOfWords == ASSUME NEW S PROVE Words!Cardinality(S) = Cardinality(S)
BY DEF Words!Cardinality, Cardinality, Words!IsFiniteSet, IsFiniteSet

(* wc_output prints the words of the text, the last one as it goes on in   *)
(* memory, each with the number of its occurrences, whatever buckets they  *)
(* collide in: for texts of any length, pages and tables of any size.      *)
THEOREM WordsCounted == ProgramsSpec => []CountsMatch
<1>1. WordCountInv => CountsMatch
  <2> SUFFICES ASSUME WordCountInv, NEW p \in Words!Range(printed)
               PROVE  /\ \A i \in Words!Starts :
                           /\ Summed(p, Of(p, Words!WordAt(i)))
                                = Words!Cardinality({j \in Words!Starts :
                                                       Words!WordAt(j) = Words!WordAt(i)})
                           /\ Words!Last(text) = Space
                                => Words!Cardinality(Of(p, Words!WordAt(i))) = 1
                      /\ \A e \in Words!Range(p) : \E j \in Words!Starts :
                           Words!WordAt(j) = e.word
    BY DEF CountsMatch, Words!CountsMatch, Summed, Of
  <2>1. Matches(p)
    BY DEF WordCountInv, WordsInv
  <2> QED
    <3>1. \A i \in Words!Starts :
            /\ Summed(p, Of(p, Words!WordAt(i)))
                 = Words!Cardinality({j \in Words!Starts :
                                        Words!WordAt(j) = Words!WordAt(i)})
            /\ Words!Last(text) = Space
                 => Words!Cardinality(Of(p, Words!WordAt(i))) = 1
      BY <2>1, SameCardinalityOfWords DEF Matches
    <3>2. \A e \in Words!Range(p) : \E j \in Words!Starts : Words!WordAt(j) = e.word
      BY <2>1 DEF Matches, Words!Range
    <3> QED
      BY <3>1, <3>2
<1> QED
  BY <1>1, WordCountInvHolds, PTL

(* What wc_init and its searches allocated, wc_destroy has freed when the  *)
(* program ends, each block once.                                          *)
THEOREM WordsGivenBack == ProgramsSpec => []NothingLeft
<1>1. WordCountInv => NothingLeft
  BY DEF WordCountInv, WordsInv, NothingLeft, Words!NothingLeft
<1> QED
  BY <1>1, WordCountInvHolds, PTL
=============================================================================
