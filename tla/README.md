# TLA+ models of the ECE 344 labs

This directory holds TLA+ specifications of the programs of this repository: the
preemptive user-level thread library (`threads/`, labs 2 and 3), the thread-pool web
server with its clients (`webserver/`, lab 4), the warm-up exercises (`warmup/`, lab 1)
and the thread libraries that came before the final one. TLC checks the specifications
on small instances; TLAPS proves theorems about the thread library, its locks and
condition variables, the assertions of its tests, the libraries before it, the server's
pool and its answers, robust I/O, the file sets and the list of points, for every size
of the tables, every program above the library, every number of clients and every length
of the lists and streams.

    tlc -workers 2 -config threads_preemptive.cfg MCThreads.tla
    tlc -workers 2 -config web.cfg MCWeb.tla
    tlapm ThreadsProofs.tla
    tlapm MonitorProofs.tla
    tlapm TestProofs.tla
    tlapm ServerProofs.tla
    tlapm WebProofs.tla
    tlapm LabProofs.tla
    tlapm PointsProofs.tla
    tlapm ProgramsProofs.tla

`PROJECT.json` is the index: every run with its module and configuration, every
definition with the lines of C it translates, for every property a plausible bug
(a mutant) that breaks it, the hazards of the code, the findings, the theorems.


## 1. Inventory

### The system's parts

| Part | Source | State | Operations | Module |
|---|---|---|---|---|
| Thread table and scheduler | `threads/thread.c` 1-343 | `thread_index` (a slot per thread: NULL, running, ready, sleep, killed), `curr_running`, `setcontext_called`, each thread's stack and saved context | `thread_create`, `thread_yield`, `thread_exit`, `thread_kill`, `thread_id` | `Threads` |
| Wait queues | `threads/thread.c` 345-493 | a list of thread ids per queue | `wait_queue_create/destroy`, `thread_sleep`, `thread_wakeup` | `Threads` |
| Timer interrupts | `threads/interrupt.c` | the signal mask of the running thread and of each saved context | `interrupts_set/on/off`, `interrupt_handler` | `Threads` |
| Locks, condition variables | `threads/thread.c` 496-643 | `lockstatus`, `locked_tid`, a wait queue each | `lock_*`, `cv_*` | `Monitor` |
| Request queue, worker pool | `webserver/server_thread.c`, `server.c` | a ring `wait_array` of `max_requests` slots, `start_ptr`, `end_ptr`, `waiting_requests`, a mutex, `produce_cv`, `consume_cv` | `server_init`, `server_request`, `request_stub`, the accept loop | `Server` |
| Request handling | `webserver/request.c` | per request: the connection, the file name, the place in `do_server_request` | `request_init`, `request_readfile`, `request_sendfile`, `request_error`, `request_destroy` | `Web` |
| Clients | `webserver/client.c`, `client_simple.c` | requests still to make, the file asked for | connect, send, read and assert, close | `Web` |
| Robust I/O | `webserver/common.c` | `rio_cnt`, `rio_bufptr`, the line being read | `rio_read`, `rio_write`, `rio_readlineb` | `Rio` |
| File set | `webserver/fileset.c`, `client.c` 143-182 | the files and `fileset_dir.idx` on disk | generate, be killed, generate again, load | `FileSet` |
| Sorted list of points | `warmup/sorted_points.c`, `point.c` | a linked list behind a header node | `sp_add_point`, `sp_remove_*`, `sp_delete_duplicates`, `sp_destroy` | `SortedPoints` |
| Word count | `warmup/wc.c`, `test_wc.c` | a hash table of chains | `wc_init`, `wc_output`, `wc_destroy` | `WordCount` |
| Lab 2 library | `os-165/threads/thread.c` | the slots' statuses and flags; no current thread but the one that says running | `thread_create`, `yield`, `exit`, `kill` | `LabTwo` |
| Earlier versions | `threads/bak_thread.c`, `thread_reg_change.c` | the same, with the timer; with patched contexts | the same | `BakThread`, `RegThread` |
| Test programs | `threads/test_thread.c` and the `main`s that call it | `done`, `nr_sleeping`, `potato`, `testval1..3`, each thread's place | the tests of wakeup, locks, condition variables and preemption | `TestThread` |
| Demonstrations | `threads/show_*.c` | | | none |
| Other | `warmup/fact.c`, `words.c`, ..., `threads/thread_past.c`, `marker/` | | | none |

How they interact. The thread calls share the table, `curr_running` and the mask,
and every one of them but a few lines runs with SIGALRM blocked; the timer's
handler calls `thread_yield(THREAD_ANY)` between any two instructions where it is
not. A switch is a `getcontext` that returns twice on the same stack, told apart by
a flag in the thread's slot, while the thread that runs in between may free, reuse
or rewrite any slot but its own. Locks and condition variables are clients of the
wait queues; a thread inside a lock call can be switched out by its own
`thread_sleep`, by nothing else. In the server, the main thread and the workers
meet only in the ring, under one mutex; a client and the thread that serves it meet in
a connection: the kernel's backlog until `accept`, then a descriptor whose number is
used again as soon as it is closed. The clients take what they ask for, and the checksums
they compare the answers with, from the index the file-set generator wrote.

### What is hard

* A preemption between any two unmasked instructions: in the program, in the tail of
  `thread_create` (190-191) and the head of `thread_kill` (293-306), which run unmasked,
  and in the whole of `thread_id` (114-125), which tests a slot and then follows it.
* State read before a switch and used after it: `ready_thread` and `want_tid` are
  chosen before `free_killed`; nodes name slots that may have been freed or reused.
* One flag per slot and one mask per stack: who resets them, with whose value.
* Threads that die in the middle: killed while switched out, asleep, or inside a
  lock; exited threads that stay in the table until someone yields.
* Lost wakeups: `cv_wait` between its release and its sleep; `pthread_cond_signal`
  sent only on the edges empty -> not empty and full -> not full.
* Starvation: a lock that is not handed over, a scan of the table for the next thread.
* Everyone asleep: a `thread_sleep` that finds no ready thread returns at once.
* Clients that close early. A write to them is a SIGPIPE, or an error that
  `unix_error` ends the whole server with. A read finds the end of the file, which
  `request_read_headers` does not look for: unless the junk in its buffer reads as an
  empty line it loops for ever and holds its worker. `consume_cv` gets one signal
  for several puts, so a request behind it in the ring can then wait for ever
  beside a worker that sleeps.
* Partial reads and writes, at any byte; a generator that ends between any two of its
  calls of write, in the middle of a line too, and is run again over the files of the
  run before.
* A scan without a bound: the last word of a text that fills its pages goes on into
  whatever is mapped behind it.
* A thread of the lab libraries that is killed while it is switched out, and whose
  slot, flag and stack the next one takes over.

### What makes each part correct

* Scheduler: one thread runs and it owns its slot; contexts resume where they were
  saved; a call returns with its caller's mask; no ready thread is passed over;
  the processor only goes to ready threads.
* Wait queues: sleepers and nodes agree, one node for each.
* Locks and condition variables: mutual exclusion, atomic wait, no sleeper on a
  free lock, Mesa semantics; a wanted lock is taken again.
* Request queue: every connection is in one place, in FIFO order, served once;
  one signal per edge never loses a wakeup; all are served.
* Answers: a client reads a prefix of the answer to its own request, whoever used
  the descriptor before; clients that wait are all answered, and with what they assert.
* Streams: no byte lost, repeated or moved; the lines that come out are those that went in.
* File set: an index that a client accepts describes the files that are on the disk,
  but for a last line that was cut off.
* Points: the list stays sorted under the full order, and is the bag it should be.
* Words: each is counted once, as often as it occurs, and all memory is given back.
* Tests: their own assertions, with the timer at any point; no wait is too short; each ends.
* Earlier libraries: saved contexts and flags agree, one thread says running and it is
  the one that runs, a thread goes on with the mask it was switched out with, no
  thread that could go on is lost from the table.


## 2. Modules

    Scheduler (abstract)    Mesa (abstract)     RequestQueue (abstract)    PointBag (abstract)
         ^                       ^                       ^                       ^
         | implements            | implements            | implements            | implements
      Threads <---extends---- Monitor                 Server <--extends-- Web  SortedPoints
         ^                       ^                       ^                 ^
      ThreadsProofs <------- MonitorProofs          ServerProofs <---- WebProofs  PointsProofs
      MCThreads               MCMonitor              MCServer              MCWeb

    Monitor <---extends---- TestThread <-- MCTestThread
                                 ^
    MonitorProofs <--extends- TestProofs

    Scheduler <--implements-- LabTwo <--extends-- BakThread, RegThread
    Rio, FileSet, WordCount
    MCPrograms: SortedPoints, WordCount, Rio, FileSet, LabTwo, BakThread, RegThread
    LabProofs extends BakThread and RegThread
    ProgramsProofs extends MCPrograms and PointsProofs, instantiates LabProofs

### Threads

`Threads.tla` is `thread.c` up to line 493 with `interrupt.c`. A slot's pointer and
status are one value of `thread_index`; `queue[q]` is the list of a wait queue's
nodes. `stack[t]` is what thread t keeps across a switch: `at` says where its
context is saved or where it runs (the entry of `thread_stub`, the program's own
code, the three unmasked windows, the `getcontext` of `thread_yield` or of
`thread_sleep`), `back` where the call in progress returns to,
`interrupts_status` the mask that it restores, `arg` the local variable the
unmasked windows use, and `wants` (a history variable) the mask the thread's own
code last asked for. `next` is the local variable `ready_thread` or `want_tid`
between its choice and the switch.

One step is what runs without a point at which another thread can come in. A
call that never leaves SIGALRM blocked sections and never switches is one step
(`Create` up to line 190, `Wakeup`, `WaitQueueCreate`, ...). A switching call is
three: `YieldAny`, `YieldTid`, `Preempt` or `Sleep` up to the `getcontext`;
`YieldSwitch` or `SleepSwitch` for its first return, up to `setcontext`; and
`YieldReturn` or `SleepReturn` for its second. Both returns run the same code in C
up to the test of the flag; for `thread_yield` that code includes `free_killed`, so
both actions free the exited threads. `thread_create` and `thread_kill` have a
second step for the part on the other side of their window. `thread_id` does its work
with the mask of its caller: `ThreadIdCheck` is its NULL test of some slot, up to the first
that says running, and `ThreadIdRead` or `ThreadIdFault` what it finds behind the pointer
after that. As it changes nothing, its other slots need no steps: a preemption between
two of them is one of the program's own code. The test of a status is one step. `Preempt` is
SIGALRM: the handler's `thread_yield(THREAD_ANY)`, wherever the mask allows it.
Calls that fail (`THREAD_INVALID`, `THREAD_NONE`, `THREAD_NOMORE`) change nothing
and are stutters.

What C leaves undefined or aborts is an `outcome` that ends the process: a NULL
slot dereferenced, the static control block of thread 0 passed to `free`, a
failed assertion, a jump to a context whose call has returned. The program above
the library is any sequence of calls; the constants say which (thread_yield to
sleepers? thread_kill of thread 0? interrupts on around thread_create?).
`Disciplined` names the programs that keep clear of everything the library does
not check: among the rest, if there is a timer, they call `thread_id`, `thread_create` and
`thread_kill` with interrupts off.

### Monitor

`Monitor.tla` is lines 496-643, on top of the actions of Threads: a lock call is a
sequence of thread-library steps (`SetInterrupts`, `SleepIn`, `WakeupIn`) and of
steps of its own, so a behaviour of Monitor is one of Threads. `call[t]` is the
position of thread t inside `lock_acquire` or `cv_wait`: the while test, the
assignments, the last `interrupts_set`; `cv_wait`'s release and its sleep. The
masks these calls set are real (`entry_mask`, the `interrupts_status` restored by
`Leave`): with the entry mask left out (a mutant) the timer does come in between
and mutual exclusion fails. A `thread_id` with interrupts off changes nothing and has no
step there. `holds[t]` is the history variable that the
properties are about. The program may relock what it holds, die inside a lock or
release another's lock only as `Misuses` says.

### TestThread

`TestThread.tla` extends Monitor with a program: where Monitor allows any client, the
threads here run a test of `test_thread.c`. `local[t]` is thread t's place in it, `num` and loop
counter; a step is one call, which is an action of Monitor or Threads with its arguments
fixed, or one access to a variable that the threads share, so that the timer can come in
between any two. The main thread calls `thread_create` and `thread_kill` with interrupts
on, as the tests do, and so takes part in their windows. Time is one bit for each thread:
`spun[t]`, whether somebody has spun for 5 ms since t began to wait; a thread that
comes back without it is one that prints "You must be busy looping" (`busy`). The
critical section's values (`num`, its square, its remainder) are abstracted to who wrote them.

### Server

`Server.tla` is `server_thread.c` with the accept loop of `server.c`. Every thread
has a `pc`; a step is the code between two pthread calls, while the mutex is held or
not. The pthread calls are modelled from their use: a mutex, wait sets, `Signal`
that takes any one waiter, `Spurious` wakeups. `pthread_create` may fail for the
workers in `MayFail`, since its result is ignored; serving a request may end the
process (`Exit`: `unix_error` calls `exit`). With `nr_threads` 0 the main thread
serves each connection itself.

### Web

`Web.tla` extends Server: where Server serves a connection in one step, a thread of
Web goes through `do_server_request`, and the clients are there. `stage[t]` is the place
of thread t in it: the first line (`ReadRequest`), the headers (`ReadHeader`; `spin`
is the loop that never ends), the file (`ReadFile`), each write (`SendHead`,
`SendBody`, `SendError`), `Close`. `name[t]` is its `data->file_name`. A
connection is in the `backlog` from `Connect` to `AcceptClient`, and then at the descriptor
`fd` with `peer[fd]`; `sent[c]` holds the lines the server has not read yet, and
`answer[c]` the parts it has written, each with the file it is of. `accept` is
allowed any free descriptor that is the same every time, since which one it is
changes nothing. A client is of one of five manners: `get` is client.c, `simple` is
client_simple.c, `post` asks with a method the server does not know, `silent` and `partial` close early, having
sent nothing or an unfinished request. `Satisfied` is the assertions of the two
`client_print`s. The process that ends (`BrokenPipe`) closes all its connections,
and the clients then read the end of the file.

### Rio, FileSet, WordCount

`Rio.tla` puts `rio_write` at one end of a stream and `rio_readlineb` or `rio_read` at
the other: one step is one system call, which moves as many bytes as it pleases,
or one byte of `rio_readb`'s buffer. A line that fills its buffer is ended one byte
behind it (common.c:163), with any effect: `overrun`.

`FileSet.tla` is the generator and the loading of its index. A file is the run that
wrote it and how many calls of write it has had; a line of the index, and its first one,
the count, are begun and completed, since `rio_write` loops over partial writes
(common.c:86-104). `Killed` ends a run anywhere, as does a write that fails.
A line that was begun and not completed is `cut`: what a client reads of it can be any
name, length and checksum, as `init_fileset` does not look at what `sscanf` returns.

`WordCount.tla` is `wc_init` word by word over every short text, with a small table, so
that words collide; `blocks` counts what `malloc` gave. `LastWord` and `WordFault`
are a last word without a space behind it: the scan of wc.c:61 has no bound. If the text
does not fill its pages, zeros follow it and end the word, as a string, though not the
scan, so that its bucket is any. If it does, `behind` is what the scan takes in from
what is mapped behind it, any letters.

### LabTwo, BakThread, RegThread

`LabTwo.tla` is the cooperative library of lab 2: the two returns of `getcontext`
are two steps as in Threads, and `find_running` and `find_ready` take the lowest slot.
`BakThread.tla` adds the interrupt mask and the timer to its actions, and the
`thread_exit` of bak_thread.c that, for want of braces (bak_thread.c:248), always returns an
error with interrupts off. `RegThread.tla` is the version that patches the saved
registers, so that a switch is one step; its `thread_exit` frees the stack it runs on
and goes on (`RegExit` if the memory stays as it was, `RegExitFault` if not). Slot 0 can be
used again once the main thread has left it (`RegStubExit`).

`MCPrograms.tla` runs these and SortedPoints from one initial state each: the variable
`part` says which, and the others' variables stay as they are. They share nothing,
and each alone is small.

### SortedPoints

`SortedPoints.tla` is the list as a sequence. `place` is the two loops of
`sp_add_point`: to the first node not closer to the origin, and past the equally close
ones that come before the new point by x and then y. Taking out by index, first
and last is `Unlink`; `sp_delete_duplicates` folds the list with `keep`. The two
calls that follow NULL pointers end the run (`AddFault`: malloc failed;
`DeleteFault`: a list of exactly one point). Coordinates are integers, where the
comparison of `sqrt`s in `point_compare` and the comparison of squares agree.


## 3. Runs

Passing runs; each property has a mutant in `PROJECT.json` that breaks it there.

| Run | Instance | What it shows |
|---|---|---|
| `threads_preemptive` | 4 slots, 2 queues, timer, a disciplined program | `ThreadIdIsCaller`, `QueuesHoldSleepers`, `NoFault`, and Threads implements Scheduler |
| `threads_any_program` | 3 slots, 1 queue, every call in every state the constants can name | `TypeOK`, `ContextFlag`, `RunningAllocated`, `MaskPreserved` hold for all programs up to the fault that ends them |
| `monitor` | 3 threads, a lock, a condition variable, fairness | `AcquireFindsReady`, `WantedLockTaken`, and Monitor implements Mesa; `NotPassedOver` (each switch brings the scan closer to every ready thread) and `NoStarvation`, since no thread is named to `thread_yield` |
| `monitor_nested` | 3 threads, 2 locks, a condition variable, a plain queue; programs that relock and die inside locks | `MonitorTypeOK`, `MutualExclusion`, `HolderOwns`, `WaitersHaveOwner`, `WaitIsAtomic` |
| `tests` | the six timed tests, 3 threads beside the main one, 2 loops, timer, fairness | `AssertionsHold`, `NoneTooFast`, `TestsEnd` |
| `server` | 0, 1 or 3 workers, 0, 1 or 2 slots, 4 descriptors, failing `pthread_create`, spurious wakeups, exits | `TypeOK`, `Accounted`, `WorkerAwake`, `ProducerWaitsOnFull`, and Server implements RequestQueue |
| `web` | three clients in three mixes (a file, an empty file, a missing one, POST, one that closes early), no pool or 2 workers of which one may fail, a ring of two | `OwnAnswer`, `FullAnswer`; `Answered` |
| `programs` | points: lists of up to 4 of the 9 around the origin; words: every text of up to 6 characters, pages of 3, up to one letter behind; Rio: every input of up to 4 bytes; file sets: 2 files, 3 runs; three libraries on 4 slots | `Sorted` and SortedPoints implements PointBag; `CountsMatch`, `NothingLeft`; `InOrder`, `AsWritten`; `LoadedMatchesDisk`; `Contexts`, `MaskRestored`, `NoneLeftBehind`, and the libraries of lab 2 implement Scheduler |

Runs that TLC must find violated: what a comment of `thread.h` says, and the code
does not do, for a program that breaks only the one rule in question.

| Run | Promise | What happens |
|---|---|---|
| `threads_create_unmasked` | thread.h:41, `thread_create` returns the identifier | preempted between lines 190 and 191; the new thread runs and exits, another yield frees its slot, line 191 follows NULL |
| `threads_id_unmasked` | thread.h:37, `thread_id` returns the identifier of the running thread | preempted between lines 119 and 121; the thread of the slot exits, another yield frees it, line 121 follows NULL |
| `threads_yield_exited` | thread.h:59, THREAD_INVALID for an invalid thread | an exited thread's slot is not NULL; `free_killed` (inside the call) frees it, line 248 follows NULL |
| `threads_kill_sleeper` | thread.h:79, any available thread can be killed | the victim's node stays in its queue; the next `thread_wakeup` follows a NULL slot |

Other behaviour of the same kind was met while modelling and is in the models as
faults or guarded by the constants, without a run of its own: `thread_kill`
between its checks and its effect (`kill_null`), `free(&dummy)` after thread 0 exits
or is killed (`free_main`), a sleeping thread resumed by `thread_yield(tid)` and
queued twice (`"sleep" \in YieldTo`), `wait_queue_destroy` with waiters, a lone
thread that can never reuse the slots of exited ones (thread.h:67, as
`free_killed` is only reached past a ready thread), the window of `thread_create` in
`test_lock` and the cv tests, whose threads can end while the main thread stays
preempted in it (`CreateFails`; the other tests' threads cannot end alone), `lock_release` by
a thread that does not hold the lock (thread.h:131 asks for the check; `"release_other"`), `lock_destroy` of a locked
lock (thread.h:124), `cv_wait` that returns unsignalled when no thread is ready
(thread.h:142), a server with `max_requests` 0 and workers, which serves nothing
(server.c:41 accepts 0, line 42 says "arguments should be > 0"), `sp_add_point`
without memory (sorted_points.h:17) and `sp_delete_duplicates` of one point,
the scan of wc.c:61, which leaves the last page, so that a word is printed that the
text does not hold (wc.h:12 says "The length of this array is size"; `behind`), the line end one byte behind the buffer
(common.c:163), a last line of the index that is cut off and yet accepted (client.c:177), the loop of request.c:64 on a client that has closed, which can
keep a request waiting beside a sleeping worker, a client that ends the server by
closing early (SIGPIPE, or `unix_error`), the `thread_exit` of bak_thread.c and the
freed stack of thread_reg_change.c.

### Bounds, and why they are enough

* Threads. A switch involves a caller, a chosen thread, and at most one thread that
  is freed, skipped or woken meanwhile: three slots show every pair of steps, the
  fourth makes the order of the scan and of a queue matter (a scan that starts at 0
  starves the third of three threads already). Slots are reused in every run, so no history
  is cut off. `MaxNodes` bounds a queue only where a thread can have two nodes;
  disciplined programs never reach it.
* Monitor. Three threads: a holder, a waiter, and one that signals or takes the
  lock in between. Two locks make wrong-lock mix-ups visible.
* Tests. Three threads and two loops: in the cv tests the turn goes round and comes
  back to a thread that waits again; a queue of three shows whether a wakeup takes its
  first node. `NLOCKLOOPS` only repeats a loop of `test_lock_thread` that is there already.
  Thread 1 stands for the threads above 4, which yield between two moves of the potato.
* Server. Three workers and two slots: the ring wraps, is full and empty, more
  workers than slots sleep, and a signalled worker can be overtaken. Four
  descriptors fill the ring, a worker and the main thread's hands at once.
* Web. Three clients and two slots: a second request is put into a ring that is not empty,
  and so without a signal, and taken from one that is not full; with three the
  main thread meets a full ring. Three descriptors, so that numbers are used again while others are
  open. Two workers: two requests in progress at once, and one that spins beside
  one that works. `Times` is 1: a client that asks twice repeats `Connect`, which the mix
  of clients already reaches in every state of the server.
* Points. Four points: the first, a middle, the last and their ties; the nine points
  around the origin have three distances, one shared by four points.
* Words. Six characters: three words of one letter, or two that differ and one again; two
  buckets make two words share a chain. Texts of 3 and of 6 fill their pages, and one letter
  behind them makes another word of the last.
* Rio. A buffer of two bytes and lines of three: a line spans refills, a refill spans lines,
  and a line is exactly, or longer than, what its buffer holds.
* File sets. Two files of one or two writes: killed within a file, between files, within a
  line and before the index is complete; three runs over each other's files.
* Libraries. Four slots: caller, chosen thread, one that is freed, one more that
  the scan from slot 0 meets before or after them.

`CHECK_DEADLOCK` is on everywhere but in `web`, where a server whose clients are done
waits in `accept`. In Threads and Monitor the running thread can always do something;
`Ended` lets a process that has ended stutter. Spurious wakeups are in `server` only.

### Fairness

* Monitor: weak fairness of the library's own steps (the processor runs on).
  Strong fairness of `Preempt`: the handler re-arms the timer at every tick, and a
  SIGALRM that arrives while it is blocked stays pending, so it is delivered when
  the mask next allows it. Strong fairness of unmasking: a program that masks
  interrupts for ever has left the timer, and with it preemption, out. Strong fairness
  of release, for each thread: one that holds a lock and keeps getting the
  processor releases it. None is assumed for acquiring.
* Tests: the same of the library and of `Preempt`, and that a thread that keeps getting
  the processor goes on with its program (strong, one for each thread): a tick is long.
* Web: weak fairness of the main thread's and of each worker's own steps, and of each
  client, which is a process of its own. No fairness of the mutex or of the choice of
  a waiter is assumed: pthreads guarantees neither. `Answered` is about clients none
  of whom closes early (the two others are the spin and the process that ends), a ring with
  a slot, and one worker that starts, or none asked for.
* Threads alone, Server, and the modules of `programs`: none, only safety is checked.


## 4. Proofs

### ThreadsProofs

`MaxThreads`, `Queues` and all the program constants are arbitrary, under
`ThreadsAssumption` alone unless a hypothesis is named.

| Theorem | Statement | Hypothesis |
|---|---|---|
| `TypeCorrect` | Spec => []TypeOK | |
| `ContextFlagHolds` | Spec => []ContextFlag | |
| `RunningAllocatedHolds` | Spec => []RunningAllocated | |
| `MaskPreservedHolds` | Spec => []MaskPreserved | |
| `RoundRobin` | Spec => NotPassedOver | `Undirected` (no thread is named to `thread_yield`) |
| `QueuesHoldSleepersHolds` | Spec => []QueuesHoldSleepers | `Disciplined` |
| `NoFaultHolds` | Spec => []NoFault | `Disciplined` |
| `ThreadIdHolds` | Spec => []ThreadIdIsCaller | `Disciplined` |
| `ThreadsImplementScheduler` | Spec => ImplementsScheduler | `Disciplined` |

The hypotheses are about the program, not the library, and each is needed: the
violation runs break one rule each.

The argument. None of the properties is inductive. `Inv` says what a thread that
is not running looks like (`ParkedOK`: its slot, the place its context was saved and
its flag agree), what every stack promises (`FrameOK`: the mask a suspended call
restores is the one its thread asked for, and it returns to a place where program
code runs), and what holds of the caller before its own switch (`CallerOK`: the
thread it chose is there). These need each other: the running thread becomes a
parked one at a switch, a parked one becomes the caller at the other end. There is a
lemma for each of the ways a step touches this (suspending, switching,
resuming, a call that stays), and `StepInv` has one case per action.

`RoundRobin` adds `NextIsFirstReady`: between the choice and the switch, the chosen
thread is the first ready one of the scan, since no step in between makes another
thread ready. `DInv` is `NoFault` with two more parts. `Calm`: nodes and
sleepers match, the caller's slot says running and the thread it has chosen is ready.
`Undisturbed`: no call is preempted in its window, so that what
thread_kill checked is still true when it acts. `NoFault` follows because every fault's guard
contradicts one of them. `Calm` alone needs less of a program (`CalmStep`): one that is `Gentle`, which
may create and kill with interrupts on, keeps it as long as a victim of thread_kill is still there when its
window is over (`VictimStays`). TestProofs rests on that. The refinement maps a thread that is about to switch to
"running" and one that has exited to "none", so that the three steps of a yield
are a stutter, a `Dispatch` and a stutter.

### MonitorProofs

The numbers of threads, locks, condition variables and other queues are arbitrary.
`MonitorAssumption` says that a lock and a condition variable each have a queue
of their own and that interrupts can be masked. Every theorem has the hypothesis `Disciplined`,
of the program towards the thread library; the last column says what else it needs.

| Theorem | Statement | Hypothesis |
|---|---|---|
| `MonitorImplementsThreads` | MonitorSpec => Spec | |
| `MonitorTypeCorrect` | MonitorSpec => []MonitorTypeOK | |
| `WaitIsAtomicHolds` | MonitorSpec => []WaitIsAtomic | |
| `WaitersHaveOwnerHolds` | MonitorSpec => []WaitersHaveOwner | |
| `HolderOwnsHolds` | MonitorSpec => []HolderOwns | `Careful`: no lock is released or destroyed that another thread holds |
| `MutualExclusionHolds` | MonitorSpec => []MutualExclusion | `Careful` |
| `MonitorImplementsMesa` | MonitorSpec => ImplementsMesa | `Orderly`: besides, no thread dies inside a lock |
| `AcquireFindsReadyHolds` | MonitorSpec => []AcquireFindsReady | `OneLock`: one lock, no plain queues, no misuse |

The argument. The while test of `lock_acquire` and its assignment are two steps,
and so are the release and the sleep of `cv_wait`; nothing in the fields of the
lock says that no other thread comes in between. What does is `CallOK`: a thread
inside a call has asked for interrupts off, so `Inv` of ThreadsProofs (the mask
is the one asked for, wherever the thread has been in between) rules the timer
out, it leaves the processor only by its own `thread_sleep`, and therefore only the
running thread is past its test, and finds the lock as its test left it.
`MInv` is that with the types; it is inductive together with `Inv` and `DInv`,
since every step of Monitor is one of Threads (`Simulates`). `WaitersHaveOwner`
follows because a lock is freed only by the call that empties its queue, and
`thread_sleep` on it is only reached past a test that found it locked.
`HInv` (`HolderOwns`, and only existing locks are held) is inductive for `Careful`
programs; `MutualExclusion` is a consequence, as a lock records one owner. That
threads die while they hold locks, and their identifiers are used again, does no
harm to either. The refinement needs the converse too (`OInv`: the owner a lock
records does hold it), since `cv_signal` trusts the identifier: with the
identifier of a dead holder a new thread signals from outside. The two steps of
`cv_wait` are a stutter and a `Wait`, the lock being given up, for the abstract
monitor, only when the thread has joined the waiters; when no thread is ready
`thread_sleep` returns at once, and it is a mere `Release`.

The while loop of `lock_acquire` runs with interrupts off: if `thread_sleep` finds no ready
thread it returns at once, and the loop would turn for ever. `SInv` says that a taken
lock has an owner on record, that a thread about to wait (in `lock_acquire`, or past the release of
`cv_wait`) holds nothing, and so that a thread with the lock is ready or running: it can be
asleep only in one of those two places. With `OInv` (the owner on record does hold the
lock) some other thread holds the lock the caller waits for, and that one is ready. With a
second lock or a plain queue a holder can be asleep, and the program can hang.

### TestProofs

The numbers of threads, of slots and of turns (`NTHREADS`, `MaxThreads`, `LOOPS`) and the set of
tests are arbitrary. The hypothesis is `TestProgram`, which says what the tests call: no thread is
named to `thread_yield`, only ready threads are killed, only threads other than the main one call
`thread_exit`, only empty queues are destroyed, no lock is misused; and, since a potato is passed to
another thread, more than one thread where `test_preemptive` is among the tests.

| Theorem | Statement |
|---|---|
| `AssertionsHoldHolds` | TestSpec => []AssertionsHold |
| `NoneTooFastHolds` | TestSpec => []NoneTooFast |
| `TestsEndWell` | TestSpec => []EndsWell: a test ends by exit or, those of locks and condition variables, in the fault of `thread_create` |
| `TestsExclude` | TestSpec => []MutualExclusion |

The argument. The theorems of MonitorProofs do not apply as they are: under the timer `Disciplined`
wants a program to create and kill with interrupts off, and the tests do both with interrupts on.
What makes it safe for them is that only the main thread creates and kills, and what the others do
meanwhile; so the places of the test's threads and the state of the library are shown together. Each
step of a test is one of Monitor's or the end of the process (`TestSimulates`), so `Inv`, `MInv`,
`HInv` and `Calm` hold of the tests if the victim of a `thread_kill` stays, and that is part of
`TestInv`, with these groups:

* `PlacesOK` types the places; `MainOK` says that the main thread never waits, so that a thread that
  goes to sleep always finds one to switch to, that only it is in the windows of `thread_create` and
  `thread_kill`, and that the thread it is about to name is still there: in the tests of wakeup no
  thread exits before the main one wakes it, in `test_preemptive` none exits at all. In the other
  tests the new thread can be gone by line 191 (`CreateFails`), which is why `TestsEndWell` makes an
  exception of them.
* `WorkersOK` counts: those at work and those done are the ones created, each of the former with a
  slot. That the main thread finds all done when it stops rests on it, and that the main thread can
  create the next one.
* `CallFits` and `HoldFits` relate a thread's line to its mask, to the call of Monitor it is in and
  to the lock it holds. `ValsOK`, that what was written under the lock stays as it was, follows with
  `HolderOwns`; nobody else is between the two calls.
* `CvOK` and `SleepersOK` are about too short waits. A thread that is in no wait queue any more was
  woken by a thread that has spun since the wait began; for the condition variables because each
  thread spins between `lock_acquire` and the notification, in the tests of wakeup because the main
  thread spins between counting the sleepers and waking them. There the queue is as long as the
  count (`nr_sleeping`, and those taken off it), and as the sleepers are distinct workers
  (`SleepersFit`), a worker outside the queue leaves room for no more than the others in it
  (`Pigeons`): once NTHREADS are counted all sleep, and the spin comes after that.
* `PotatoOK`: one thread is between the compare-and-swap and the unlock, and but while it moves the
  potato exactly one is hot.

A lemma for each group covers the steps of the main thread, one those of the others and one those of
the library, which leave every test variable alone (`Quiet`: besides, no thread comes, goes or
sleeps but by its own call).

### LabProofs

For any number of slots: `MaxThreads` is a positive natural, the one hypothesis. The program is
arbitrary.

| Theorem | Statement |
|---|---|
| `LabContexts` | LabTwo: Spec => []Contexts |
| `LabRunning` | LabTwo: Spec => []RunningIsCaller |
| `LabImplementsScheduler` | LabTwo: Spec => ImplementsScheduler |
| `BakContexts` | BakThread: BakSpec => []Contexts |
| `BakMaskRestored` | BakThread: BakSpec => []MaskRestored |
| `BakImplementsScheduler` | BakThread: BakSpec => ImplementsScheduler |
| `RegNoneLeftBehind` | RegThread: RegSpec => []NoneLeftBehind |
| `RegRunning` | RegThread: RegSpec => []RunningIsCaller |
| `RegImplementsScheduler` | RegThread: RegSpec => ImplementsScheduler |

The argument. As in ThreadsProofs, what a parked thread looks like (`ParkedOK`: a ready slot
has its flag set just when its context was saved in `thread_yield`) and what the caller has
chosen (`CallerOK`: the slot is still there, ready or killed) need each other; that there is one
running slot, and that it is the caller's, follows, and is what `find_running` relies on. For
BakThread, `MaskInv` adds that who is inside a call runs masked, and that a thread goes on with the
mask its context was saved with; the timer's yield is one from the program's own code. In
RegThread no slot is ever marked killed, and table and stacks agree at once (`Inv`).

### PointsProofs

Any finite or infinite set of integer coordinates, any length: `PointsAssumption` only types
the constants.

| Theorem | Statement |
|---|---|
| `SortedHolds` | Spec => []Sorted |
| `PointsImplementBag` | Spec => ImplementsBag |

The argument. `Sorted` is inductive with the type of the list, stated for all pairs of places
(`Ascending`) rather than for neighbours. `Place` is the loop of `sp_add_point`: where the new point goes,
nothing before it comes after it and everything behind it does, which rests on the order being
transitive (`Distance`, `Order`). `sp_delete_duplicates` is a fold over the list, and what it computes
is an induction over the list: the prover cannot apply the library's induction theorems, whose
parameter is a predicate, but takes an induction whose parameter is a set. `Induction` is that,
derived from the well-foundedness of strict inclusion on finite sets (`LeastNat`); `FoldExists` gives
the intermediate results of a fold, `KeepFold` those of this one, and `KeepStep` that each of them
is ascending and holds the points seen so far once each. For the refinement, `CopiesArePlaces` makes the bag of a list
a count of places, `BagInserted` and `TakeKeeps` say what inserting and unlinking do to it, and
`DedupKeeps` that one copy of each point stays.

### ProgramsProofs

What the run `programs` checks is stated of all the small programs together. One
hypothesis, `ProgramsAssumption`: `RIO_BUFSIZE`, `PageSize`, `MAX_HASH_SIZE` and `MaxThreads` are positive, `MaxInput`,
`MaxText`, `MaxBehind`, `MaxFiles` and the `Sizes` naturals.

| Theorem | Statement |
|---|---|
| `LoadedIndexMatches` | ProgramsSpec => []LoadedMatchesDisk |
| `LibraryContexts` | ProgramsSpec => []Contexts |
| `LibraryMask` | ProgramsSpec => []MaskRestored |
| `LibraryNoneLeftBehind` | ProgramsSpec => []NoneLeftBehind |
| `LibrariesImplementScheduler` | ProgramsSpec => ImplementsScheduler |
| `BytesInOrder` | ProgramsSpec => []InOrder |
| `LinesAsWritten` | ProgramsSpec => []AsWritten |
| `WordsCounted` | ProgramsSpec => []CountsMatch |
| `WordsGivenBack` | ProgramsSpec => []NothingLeft |

The argument. The first five put the invariants of the parts together: a part's invariant holds of
its own steps, and the steps of the others leave its variables alone (the three libraries share
a table, so `LibraryInv` says which one it belongs to). Those of the libraries are LabProofs; that of the file
set, that a line of the index stands for a whole file and only the last can be cut (`IndexMatches`), holds at every
moment, also while the generator writes and after it is killed, because the index is truncated
before the first file is and a file's line comes after its last buffer. `WriteProgress` is what that
rests on: the file being written is the one after the last line. The next two are about a connection.
`InOrder` is inductive by itself: what was returned, what is in the buffer, what is on its way
and what is still to be written is the input. `AsWritten` is not: `LinesInv` adds that the lines of
all bytes taken so far are the reads that returned, and the unfinished one, and that a read returned
a line without its end only when the stream had ended; `BytesInv` that a read of bytes stops short
only then, too; `OverrunInv` that a process that was stopped had filled a line. `FlattenAppend` and
`LinesAppend` (by the `Induction` of PointsProofs) say how a byte or a read changes the bytes and the
lines; `BeginsAll` that what is still to come only extends the lines there are, so that the reads are
a beginning of the lines of the whole input.

The last two are about the word count. Until `wc_output` has printed, `Tallied` holds: no word is
twice in a chain, and what a chain has counted of a word (`Tally`) is the number of times the word has
begun before `pos` (`Closed`), if the chain is that of its hash, and else nothing. Only a last word without
a space behind it (`Open`) may be in any chain, so that such a word may be printed twice, its two counts adding up. The words are those
that lie in memory (`WordAt`), of which the last is not one of the text's where letters lie behind it.
`TalliedWord` and `TalliedLast` are the two steps, from what `Count` does to the chains (`Counted`) and what a word
adds to the words begun (`WordEnds`, `WordStaysOpen`); `HashIsBucket` is an induction over the word.
`OutputPlaces` says where the concatenation of the chains has each element, so that `OutputMatches` reads the
counts off it. `Allocated` counts the blocks, two for each element and one for the table, by the sums over
the first chains: taking an element out changes them by one from its chain on.

### ServerProofs

`Fds`, `ThreadArgs` and `RequestArgs` (any naturals), the workers that may fail,
spurious wakeups and exits are arbitrary; `ServerAssumption` is the only hypothesis.

| Theorem | Statement |
|---|---|
| `ServerTypeCorrect` | Spec => []TypeOK |
| `ProducerWaitsOnFullHolds` | Spec => []ProducerWaitsOnFull |
| `WorkerAwakeHolds` | Spec => []WorkerAwake |
| `AccountedHolds` | Spec => []Accounted |
| `ServerImplementsQueue` | Spec => ImplementsQueue |

The argument. `SafeInv` adds to the first three what the mutex is for (`PlacesOK`): who is
between a lock and its unlock holds it, who is in a wait set waits, and what a thread's
last test found still holds when it puts or takes. `WorkerAwake` is inductive with
that: a worker goes to sleep only on an empty ring, and the put that ends the
emptiness wakes one of those that sleep, if all do. `HeldInv` says where connections are: what a
thread has in its hands at each place (`HandsOK`), that `end_ptr` is `start_ptr` and the count, modulo the size
(`RingOK`), and that no connection is in two places and no open one in none (`OnceEach`). `PutAppends`
and `TakeRemoves` are the ring's arithmetic: what the slots hold, read from `start_ptr` on,
grows at its end and shrinks at its head. The refinement maps the ring to that
sequence; every step is a put, a take, an arrival, a close or a stutter of it.

### WebProofs

The number of clients, their manners and files, and all constants of Server are arbitrary.
`WebAssumption` types them; `Fatal` says of Server that requests may end the process, as
those of Web do.

| Theorem | Statement | Hypothesis |
|---|---|---|
| `WebImplementsServer` | WebSpec => Spec | `Fatal` |
| `OwnAnswerHolds` | WebSpec => []OwnAnswer | `Fatal` |
| `FullAnswerHolds` | WebSpec => []FullAnswer | `Fatal` |

The argument. The steps of a request are stutters of Server but for its last, one
`Serve`, or one `Exit` (`WebSimulates`), so all of ServerProofs holds in Web. That a
thread answers the client it read from rests on it: the descriptor is open until
the thread closes it and in nobody else's hands (`HeldInv`), and no two open
descriptors lead to the same client (`OneConnection`, `AllConnected`). `InProgress` is what the
answer is at each stage, `Unread` that a connection nobody has begun to read still
carries its whole request, `Told` that an answer is complete when the
server's end of the connection is closed. `FullAnswer` follows at `Finish`.


## 5. Only model-checked

* Liveness (`NoStarvation`, `WantedLockTaken`, `TestsEnd`, `Answered`): TLAPS cannot reason with
  ENABLED, and so not with fairness.


## 6. Not modelled

* The allocator, and so `THREAD_NOMEMORY`, malloc failing inside the library, and
  a handler that runs `free` inside an interrupted `malloc`.
* Stacks and registers: a context is the place in the code it was saved at.
* `interrupt_handler`'s printing and timing, `interrupts_quiet`, `spin`.
* Reads of memory below the level of a word: the status behind a slot's pointer
  (`thread_index[i]->status`) is read in one step.
* `thread_id` in the earlier libraries, which scans the table with interrupts on as well
  (bak_thread.c:91-102). Nothing is claimed of them about faults.
* Read errors in a request (`unix_error`, common.c:207) and in `accept` (server.c): they end the
  server as `BrokenPipe` and `Exit` do. The five writes of `request_error` are one part.
* Two threads inside `malloc`ed wait-queue nodes: lists are sequences.
* The text of requests and answers, file types, the artificial work of `request_readfile`,
  the options and timing of the clients, which are one thread each.
* The random distributions of common.c: sizes and choices are nondeterministic.
* Coordinates that are not integers, or so large that comparing `sqrt`s rounds.
* `fact.c`, `words.c`, `hello.c`, `hi.c` and `show_*.c`: they print constants, their
  arguments or a context, and keep no state.
* `thread_past.c`: an abandoned attempt that no Makefile links. `thread_yield(THREAD_ANY)`
  drops its caller from every queue, `thread_yield(tid)` changes the running thread
  without a switch; there is no behaviour to hold it to.
* `test_basic`, which runs without the timer and from one thread, and the calls with which
  `test_wakeup` begins: they are single calls, whose effect is checked in Threads.
* `THREAD_NOMORE` in the tests: NTHREADS is less than the number of slots.
* `marker/webserver/` and `marker/os-165/webserver/`: copies of the server modelled.


## 7. Plan

Done: the thread library, the monitors, the pool, the requests and clients, Rio, the file
set, the warm-up programs, the earlier libraries, the test programs; proofs for the thread
libraries, the monitors, the tests, the pool, the answers, the streams, the file sets, the points and the words.
Left: `WaitQueue`, the linked list of `push_ele` and `pop_ele` with nodes and
pointers, refining the sequence that Threads uses.
