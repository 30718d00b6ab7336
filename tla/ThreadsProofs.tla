--------------------------- MODULE ThreadsProofs ---------------------------
EXTENDS Threads, TLAPS

Suspended == {"yield", "sleep"}
Interruptible == {"user", "id_chk", "create_ret", "kill_chk"}

(* thread t's stack: where a suspended call returns to and with which      *)
(* mask, and the argument of an interrupted call.                          *)
FrameOK(t) ==
  /\ stack[t].at \in Suspended =>
       /\ stack[t].back \in Interruptible
       /\ stack[t].interrupts_status = stack[t].wants
  /\ stack[t].at \notin Suspended => stack[t].back = "none"
  /\ stack[t].at = "stub" => stack[t].wants = TRUE
  /\ "id_chk" \in {stack[t].at, stack[t].back} => stack[t].arg \in Tid
  /\ "create_ret" \in {stack[t].at, stack[t].back} => stack[t].arg \in Tid
  /\ "kill_chk" \in {stack[t].at, stack[t].back} => stack[t].arg \in Tid \ {t}

(* A thread that is switched out: its slot, its stack and its flag agree.  *)
ParkedOK(t) ==
  /\ thread_index[t] # "running"
  /\ thread_index[t] \in {"NULL", "killed"} <=> stack[t].at = "none"
  /\ stack[t].at \in {"none", "stub"} \cup Suspended
  /\ stack[t].at = "stub" => ~setcontext_called[t]
  /\ stack[t].at \in Suspended => setcontext_called[t]

(* The running thread, before and after its own switch.                    *)
CallerOK ==
  /\ here.at # "none"
  /\ thread_index[curr_running] \notin {"NULL", "killed"}
  /\ here.at \notin Suspended => ~setcontext_called[curr_running]
  /\ here.at \in Suspended /\ ~setcontext_called[curr_running] =>
       /\ next \in Tid
       /\ thread_index[next] # "NULL"
       /\ here.at = "sleep" =>
            thread_index[curr_running] = "sleep" /\ thread_index[next] = "ready"
  /\ here.at \in Interruptible => enabled = here.wants

Inv ==
  /\ TypeOK
  /\ outcome = "live" =>
       /\ CallerOK
       /\ \A t \in Tid : FrameOK(t)
       /\ \A t \in Tid \ {curr_running} : ParkedOK(t)

LEMMA FreshFrame == \A a \in At : Fresh(a) \in Frame
  BY DEF Fresh, Frame, At, NoTid

LEMMA InitInv == Init => Inv
<1> SUFFICES ASSUME Init PROVE Inv
  OBVIOUS
<1>1. 0 \in Tid /\ curr_running = 0 /\ outcome = "live"
  BY ThreadsAssumption DEF Init, Tid
<1>2. stack \in [Tid -> Frame]
  BY FreshFrame DEF Init, At
<1>3. TypeOK
  BY <1>1, <1>2 DEF Init, TypeOK, Status, Outcome
<1>4. CallerOK
  BY <1>1 DEF Init, CallerOK, here, Fresh, Suspended, Interruptible
<1>5. \A t \in Tid : FrameOK(t)
  BY <1>1 DEF Init, FrameOK, Fresh, Suspended
<1>6. \A t \in Tid \ {curr_running} : ParkedOK(t)
  BY <1>1 DEF Init, ParkedOK, Fresh, Suspended
<1> QED
  BY <1>3, <1>4, <1>5, <1>6 DEF Inv
(* Suspending the caller: the first half of thread_yield, thread_sleep and *)
(* of the interrupt handler.                                               *)
LEMMA SuspendInv ==
  ASSUME Inv, outcome = "live", here.at \in Interruptible,
         NEW at \in Suspended, NEW t \in Tid, NEW s \in {"running", "ready", "sleep"},
         thread_index[t] # "NULL",
         at = "sleep" => s = "sleep" /\ thread_index[t] = "ready" /\ t # curr_running,
         Suspend(at, here.at, here.wants, t),
         thread_index' = [thread_index EXCEPT ![curr_running] = s],
         queue' \in [Queues -> Seq(Tid)],
         UNCHANGED <<curr_running, setcontext_called, made, outcome>>
  PROVE  Inv'
<1>1. TypeOK /\ CallerOK /\ FrameOK(curr_running)
  BY DEF Inv, TypeOK
<1>2. stack' = [stack EXCEPT ![curr_running] =
        [@ EXCEPT !.at = at, !.back = here.at, !.interrupts_status = here.wants]]
  BY DEF Suspend
<1>3. /\ stack'[curr_running].at = at
      /\ stack'[curr_running].back = here.at
      /\ stack'[curr_running].interrupts_status = here.wants
      /\ stack'[curr_running].wants = here.wants
      /\ stack'[curr_running].arg = here.arg
  BY <1>1, <1>2 DEF TypeOK, Frame, here
<1>4. \A u \in Tid \ {curr_running} :
        stack'[u] = stack[u] /\ thread_index'[u] = thread_index[u]
  BY <1>1, <1>2 DEF TypeOK
<1>5. thread_index'[curr_running] = s /\ next' = t /\ enabled' = FALSE
  BY <1>1 DEF TypeOK, Suspend
<1>6. TypeOK'
  <2>1. here.at \in At /\ at \in At /\ here.wants \in BOOLEAN
    BY <1>1 DEF TypeOK, here, Frame, At, Suspended
  <2>2. stack' \in [Tid -> Frame]
    BY <1>1, <1>2, <2>1 DEF TypeOK, Frame
  <2> QED
    BY <1>1, <1>5, <2>2 DEF TypeOK, Status
<1>7. CallerOK'
  BY <1>1, <1>3, <1>4, <1>5 DEF CallerOK, here, Suspended, Interruptible, TypeOK
<1>8. FrameOK(curr_running)'
  BY <1>1, <1>3 DEF FrameOK, here, Suspended, Interruptible
<1>9. \A u \in Tid : FrameOK(u)'
  BY <1>4, <1>8 DEF FrameOK, Inv
<1>10. \A u \in Tid \ {curr_running} : ParkedOK(u)'
  BY <1>4 DEF ParkedOK, Inv
<1> QED
  BY <1>6, <1>7, <1>9, <1>10 DEF Inv

(* Giving the processor to next, in thread_yield and thread_sleep.         *)
LEMMA SwitchInv ==
  ASSUME Inv, outcome = "live", here.at \in Suspended,
         ~setcontext_called[curr_running],
         NEW tab \in [Tid -> Status],
         \A t \in Tid : tab[t] \in {"NULL", "killed"} <=> thread_index[t] \in {"NULL", "killed"},
         tab[curr_running] # "running",
         \A t \in Tid \ {curr_running} : tab[t] # "running",
         thread_index[next] # "killed",
         thread_index' = [tab EXCEPT ![next] = "running"],
         setcontext_called' = [setcontext_called EXCEPT ![curr_running] = TRUE],
         Switch(next),
         UNCHANGED <<queue, made, stack, outcome>>
  PROVE  Inv'
<1>1. TypeOK /\ CallerOK /\ \A t \in Tid : FrameOK(t)
  BY DEF Inv
<1>2. /\ next \in Tid
      /\ thread_index[next] \notin {"NULL", "killed"}
      /\ thread_index[curr_running] \notin {"NULL", "killed"}
  BY <1>1 DEF CallerOK
<1>3. /\ curr_running' = next /\ enabled' = FALSE /\ next' = NoTid
      /\ curr_running \in Tid
      /\ setcontext_called'[curr_running] = TRUE
      /\ thread_index'[next] = "running"
  BY <1>1, <1>2 DEF Switch, TypeOK
<1>4. \A t \in Tid \ {next} : thread_index'[t] = tab[t]
  BY <1>2
<1>5. \A t \in Tid \ {curr_running} :
        setcontext_called'[t] = setcontext_called[t] /\ ParkedOK(t)
  BY <1>1 DEF Inv, TypeOK
<1>6. TypeOK'
  BY <1>1, <1>2, <1>3 DEF TypeOK, Status
<1>7. CallerOK'
  <2>1. stack[next].at \in {"stub"} \cup Suspended
    BY <1>1, <1>2, <1>5 DEF ParkedOK, here
  <2>2. stack[next].at \in Suspended => setcontext_called'[next]
    BY <1>2, <1>3, <1>5 DEF ParkedOK
  <2>3. stack[next].at = "stub" => ~setcontext_called'[next]
    BY <1>2, <1>3, <1>5 DEF ParkedOK, here, Suspended
  <2> QED
    BY <1>3, <2>1, <2>2, <2>3 DEF CallerOK, here, Suspended, Interruptible
<1>8. \A t \in Tid : FrameOK(t)'
  BY <1>1 DEF FrameOK
<1>9. ASSUME NEW t \in Tid \ {next} PROVE ParkedOK(t)'
  <2>1. CASE t = curr_running
    BY <2>1, <1>2, <1>3, <1>4 DEF ParkedOK, here, Suspended
  <2>2. CASE t # curr_running
    BY <2>2, <1>2, <1>4, <1>5 DEF ParkedOK
  <2> QED
    BY <2>1, <2>2
<1> QED
  BY <1>3, <1>6, <1>7, <1>8, <1>9 DEF Inv

(* The second return of getcontext, in thread_yield and thread_sleep.      *)
LEMMA ResumeInv ==
  ASSUME Inv, outcome = "live", here.at \in Suspended,
         setcontext_called[curr_running],
         thread_index' \in [Tid -> Status],
         \A t \in Tid : \/ thread_index'[t] = thread_index[t]
                        \/ /\ thread_index[t] = "killed"
                           /\ thread_index'[t] = "NULL",
         Resume
  PROVE  Inv'
<1>1. TypeOK /\ CallerOK /\ FrameOK(curr_running)
  BY DEF Inv, TypeOK
<1>2. stack' = [stack EXCEPT ![curr_running] =
        [@ EXCEPT !.at = here.back, !.back = "none", !.interrupts_status = FALSE]]
  BY DEF Resume
<1>3. /\ stack'[curr_running].at = here.back
      /\ stack'[curr_running].back = "none"
      /\ stack'[curr_running].wants = here.wants
      /\ stack'[curr_running].arg = here.arg
  BY <1>1, <1>2 DEF TypeOK, Frame, here
<1>4. \A u \in Tid \ {curr_running} :
        /\ stack'[u] = stack[u]
        /\ setcontext_called'[u] = setcontext_called[u]
  BY <1>1, <1>2 DEF TypeOK, Resume, flag_cleared
<1>5. /\ curr_running' = curr_running /\ outcome' = outcome
      /\ enabled' = here.wants /\ here.back \in Interruptible
      /\ setcontext_called'[curr_running] = FALSE
  BY <1>1 DEF Resume, flag_cleared, saved_mask, TypeOK, FrameOK, here
<1>6. TypeOK'
  <2>1. stack' \in [Tid -> Frame]
    <3>1. here.back \in At /\ "none" \in At
      BY <1>5 DEF At, Interruptible
    <3> QED
      BY <1>1, <1>2, <3>1 DEF TypeOK, Frame
  <2>2. here.wants \in BOOLEAN
    BY <1>1 DEF TypeOK, here, Frame
  <2> QED
    BY <1>1, <1>5, <2>1, <2>2 DEF TypeOK, Resume, flag_cleared
<1>7. CallerOK'
  BY <1>1, <1>3, <1>5 DEF CallerOK, here, Suspended, Interruptible, TypeOK
<1>8. FrameOK(curr_running)'
  BY <1>1, <1>3, <1>5 DEF FrameOK, here, Suspended, Interruptible
<1>9. \A u \in Tid : FrameOK(u)'
  BY <1>4, <1>5, <1>8 DEF FrameOK, Inv
<1>10. \A u \in Tid \ {curr_running} : ParkedOK(u)'
  BY <1>4 DEF ParkedOK, Inv
<1> QED
  BY <1>5, <1>6, <1>7, <1>9, <1>10 DEF Inv

(* A call that returns without a switch: it touches the caller's frame,    *)
(* the wait queues, and the status of threads it wakes.                    *)
LEMMA CallInv ==
  ASSUME Inv, outcome = "live", here.at \notin Suspended,
         NEW f \in Frame,
         f.at \in Interruptible, f.back = "none", enabled' = f.wants,
         f.at \in {"id_chk", "create_ret"} => f.arg \in Tid,
         f.at = "kill_chk" => f.arg \in Tid \ {curr_running},
         stack' = [stack EXCEPT ![curr_running] = f],
         thread_index' \in [Tid -> Status],
         \A t \in Tid : \/ thread_index'[t] = thread_index[t]
                        \/ /\ thread_index[t] \notin {"NULL", "killed"}
                           /\ thread_index'[t] = "ready",
         queue' \in [Queues -> Seq(Tid)], made' \subseteq Queues,
         UNCHANGED <<curr_running, setcontext_called, next, outcome>>
  PROVE  Inv'
<1>1. TypeOK /\ CallerOK /\ curr_running \in Tid
  BY DEF Inv, TypeOK
<1>2. /\ stack'[curr_running] = f
      /\ \A t \in Tid \ {curr_running} : stack'[t] = stack[t]
  BY <1>1 DEF TypeOK
<1>3. TypeOK'
  <2>1. stack' \in [Tid -> Frame] /\ f.wants \in BOOLEAN
    BY <1>1 DEF TypeOK, Frame
  <2> QED
    BY <1>1, <2>1 DEF TypeOK
<1>4. CallerOK'
  BY <1>1, <1>2 DEF CallerOK, here, Suspended, Interruptible
<1>5. \A t \in Tid : FrameOK(t)'
  BY <1>1, <1>2 DEF FrameOK, Inv, Suspended, Interruptible
<1>6. \A t \in Tid \ {curr_running} : ParkedOK(t)'
  BY <1>2 DEF ParkedOK, Inv
<1> QED
  BY <1>3, <1>4, <1>5, <1>6 DEF Inv

LEMMA YieldStartInv ==
  ASSUME Inv, outcome = "live", here.at \in Interruptible, NEW t \in Tid,
         thread_index[t] # "NULL", YieldStart(here.at, t, here.wants)
  PROVE  Inv'
<1>1. /\ thread_index \in [Tid -> Status] /\ curr_running \in Tid
      /\ queue \in [Queues -> Seq(Tid)]
  BY DEF Inv, TypeOK
<1>2. /\ Suspend("yield", here.at, here.wants, t)
      /\ UNCHANGED <<thread_index, queue, curr_running, setcontext_called, made, outcome>>
  BY DEF YieldStart
<1>3. thread_index[curr_running] \in {"running", "ready", "sleep"}
  BY <1>1 DEF Inv, CallerOK, Status
<1>4. thread_index' = [thread_index EXCEPT ![curr_running] = thread_index[curr_running]]
  BY <1>1, <1>2
<1> QED
  BY <1>1, <1>2, <1>3, <1>4, SuspendInv DEF Suspended

(* One step changes no more than the caller's own frame.                   *)
LEMMA StepInv == Inv /\ Next => Inv'
<1> SUFFICES ASSUME Inv, Next PROVE Inv'
  OBVIOUS
<1>a. /\ TypeOK
      /\ outcome = "live" =>
           /\ CallerOK
           /\ \A t \in Tid : FrameOK(t)
           /\ \A t \in Tid \ {curr_running} : ParkedOK(t)
  BY DEF Inv
<1>b. /\ outcome \in Outcome /\ curr_running \in Tid
      /\ thread_index \in [Tid -> Status] /\ stack \in [Tid -> Frame]
      /\ setcontext_called \in [Tid -> BOOLEAN] /\ queue \in [Queues -> Seq(Tid)]
      /\ made \subseteq Queues /\ enabled \in BOOLEAN
      /\ next \in Tid \cup {NoTid}
  BY <1>a DEF TypeOK
<1>c. outcome = "live" => FrameOK(curr_running) /\ here \in Frame
  BY <1>a, <1>b DEF here
<1>1. CASE Stub
  <2>1. /\ outcome = "live" /\ here.at = "stub" /\ enabled' = TRUE
        /\ UNCHANGED <<thread_index, curr_running, setcontext_called, queue,
                       made, next, outcome>>
    BY <1>1 DEF Stub, Running
  <2> DEFINE f == [here EXCEPT !.at = "user"]
  <2>2. f \in Frame /\ f.at = "user" /\ f.back = here.back /\ f.wants = here.wants
    BY <1>c, <2>1 DEF Frame, At
  <2>4. here.back = "none" /\ here.wants = TRUE
    BY <1>c, <2>1 DEF FrameOK, here, Suspended
  <2>3. stack' = [stack EXCEPT ![curr_running] = f]
    BY <1>1 DEF Stub, here
  <2> HIDE DEF f
  <2> QED
    BY <1>b, <2>1, <2>2, <2>3, <2>4, CallInv DEF Suspended, Interruptible
<1>2. CASE Create
  <2>1. PICK n \in Tid :
          /\ thread_index[n] = "NULL"
          /\ thread_index' = [thread_index EXCEPT ![n] = "ready"]
          /\ setcontext_called' = [setcontext_called EXCEPT ![n] = FALSE]
          /\ stack' = [stack EXCEPT ![n] = Fresh("stub"),
                                    ![curr_running] =
                         [@ EXCEPT !.at = "create_ret", !.arg = n]]
    BY <1>2 DEF Create, tid_generator, flag_cleared
  <2>2. /\ outcome = "live" /\ here.at = "user"
        /\ UNCHANGED <<curr_running, queue, made, enabled, next, outcome>>
    BY <1>2 DEF Create, Running
  <2>3. n # curr_running
    BY <1>a, <2>1, <2>2 DEF CallerOK
  <2>4. /\ stack'[n] = Fresh("stub")
        /\ stack'[curr_running] = [here EXCEPT !.at = "create_ret", !.arg = n]
        /\ \A t \in Tid \ {n, curr_running} : stack'[t] = stack[t]
    BY <1>b, <2>1, <2>3 DEF here
  <2>5. /\ stack'[curr_running].at = "create_ret"
        /\ stack'[curr_running].arg = n
        /\ stack'[curr_running].back = here.back
        /\ stack'[curr_running].wants = here.wants
    BY <1>b, <2>4 DEF here, Frame
  <2>6. /\ stack'[n].at = "stub" /\ stack'[n].wants = TRUE
        /\ stack'[n].back = "none"
    BY <2>4 DEF Fresh
  <2>7. TypeOK'
    <3>1. Fresh("stub") \in Frame /\ "create_ret" \in At
      BY FreshFrame DEF At
    <3>2. [here EXCEPT !.at = "create_ret", !.arg = n] \in Frame
      BY <1>b, <3>1 DEF here, Frame
    <3>3. stack' \in [Tid -> Frame]
      BY <1>b, <2>1, <2>4, <3>1, <3>2
    <3> QED
      BY <1>b, <2>1, <2>2, <3>3 DEF TypeOK, Status
  <2>8. CallerOK'
    BY <1>a, <1>b, <2>1, <2>2, <2>3, <2>5 DEF CallerOK, here, Suspended, Interruptible
  <2>9. \A t \in Tid : FrameOK(t)'
    <3>1. FrameOK(n)' /\ FrameOK(curr_running)'
      BY <1>a, <1>b, <2>2, <2>3, <2>5, <2>6 DEF FrameOK, Suspended, here
    <3>2. ASSUME NEW t \in Tid \ {n, curr_running} PROVE FrameOK(t)'
      BY <1>a, <2>2, <2>4 DEF FrameOK
    <3> QED
      BY <2>2, <3>1, <3>2
  <2>10. \A t \in Tid \ {curr_running} : ParkedOK(t)'
    <3>1. ParkedOK(n)'
      BY <1>b, <2>1, <2>6 DEF ParkedOK, Suspended
    <3> QED
      BY <1>a, <1>b, <2>1, <2>2, <2>4, <3>1 DEF ParkedOK
  <2> QED
    BY <2>2, <2>7, <2>8, <2>9, <2>10 DEF Inv
<1>3. CASE CreateReturn
  <2>1. /\ outcome = "live" /\ here.at = "create_ret"
        /\ UNCHANGED <<thread_index, curr_running, setcontext_called, queue,
                       made, enabled, next, outcome>>
    BY <1>3 DEF CreateReturn, Running
  <2> DEFINE f == [here EXCEPT !.at = "user", !.arg = NoTid]
  <2>2. f \in Frame /\ f.at = "user" /\ f.back = here.back /\ f.wants = here.wants
    BY <1>c, <2>1 DEF Frame, At
  <2>3. stack' = [stack EXCEPT ![curr_running] = f]
    BY <1>3 DEF CreateReturn, here
  <2>4. here.back = "none" /\ here.wants = enabled
    BY <1>a, <1>c, <2>1 DEF FrameOK, CallerOK, here, Suspended, Interruptible
  <2> HIDE DEF f
  <2> QED
    BY <1>b, <2>1, <2>2, <2>3, <2>4, CallInv DEF Suspended, Interruptible
<1>4. CASE YieldAny
  <2>1. PICK t \in Tid : find_ready(t) /\ YieldStart("user", t, enabled)
    BY <1>4 DEF YieldAny
  <2>2. /\ outcome = "live" /\ here.at = "user" /\ enabled = here.wants
        /\ thread_index[t] = "ready"
    BY <1>4, <1>a, <2>1 DEF YieldAny, Running, CallerOK, Interruptible, find_ready
  <2> QED
    BY <1>a, <2>1, <2>2, YieldStartInv DEF Interruptible
<1>5. CASE YieldTid
  <2>1. PICK t \in Tid : thread_index[t] \in YieldTo /\ YieldStart("user", t, enabled)
    BY <1>5 DEF YieldTid
  <2>2. /\ outcome = "live" /\ here.at = "user" /\ enabled = here.wants
        /\ thread_index[t] # "NULL"
    BY <1>5, <1>a, <2>1, ThreadsAssumption DEF YieldTid, Running, CallerOK, Interruptible
  <2> QED
    BY <1>a, <2>1, <2>2, YieldStartInv DEF Interruptible
<1>6. CASE Preempt
  <2>1. PICK t \in Tid : find_ready(t) /\ YieldStart(here.at, t, TRUE)
    BY <1>6 DEF Preempt
  <2>2. /\ outcome = "live" /\ here.at \in Interruptible /\ enabled = here.wants
        /\ thread_index[t] = "ready" /\ enabled = TRUE
    BY <1>6, <1>a, <2>1 DEF Preempt, CallerOK, Interruptible, find_ready
  <2> QED
    BY <1>a, <2>1, <2>2, YieldStartInv
<1>7. CASE YieldSwitch
  <2>1. /\ outcome = "live" /\ here.at = "yield"
        /\ ~setcontext_called[curr_running] /\ thread_index[next] # "killed"
        /\ setcontext_called' = [setcontext_called EXCEPT ![curr_running] = TRUE]
        /\ thread_index' = [requeued EXCEPT ![next] = "running"]
        /\ Switch(next)
        /\ UNCHANGED <<queue, made, stack, outcome>>
    BY <1>7 DEF YieldSwitch, Running
  <2>2. thread_index[curr_running] \notin {"NULL", "killed"}
    BY <1>a, <2>1 DEF CallerOK
  <2>3. /\ requeued \in [Tid -> Status]
        /\ requeued[curr_running] = "ready"
        /\ \A t \in Tid \ {curr_running} :
             requeued[t] = IF thread_index[t] = "killed" THEN "NULL" ELSE thread_index[t]
    BY <1>b DEF requeued, free_killed, Status
  <2>4. \A t \in Tid \ {curr_running} : requeued[t] # "running"
    BY <1>a, <2>1, <2>3 DEF ParkedOK
  <2>5. \A t \in Tid :
          requeued[t] \in {"NULL", "killed"} <=> thread_index[t] \in {"NULL", "killed"}
    BY <2>2, <2>3
  <2> QED
    BY <2>1, <2>3, <2>4, <2>5, SwitchInv DEF Suspended
<1>8. CASE YieldReturn
  <2>1. /\ outcome = "live" /\ here.at = "yield"
        /\ setcontext_called[curr_running]
        /\ thread_index' = free_killed /\ Resume
    BY <1>8 DEF YieldReturn, Running
  <2>2. thread_index' \in [Tid -> Status]
    BY <1>b, <2>1 DEF free_killed, Status
  <2>3. \A t \in Tid : \/ thread_index'[t] = thread_index[t]
                        \/ /\ thread_index[t] = "killed"
                           /\ thread_index'[t] = "NULL"
    BY <2>1 DEF free_killed
  <2> QED
    BY <2>1, <2>2, <2>3, ResumeInv DEF Suspended
<1>9. CASE ThreadExit
  <2>1. PICK t \in Tid \ {curr_running} :
          /\ thread_index[t] = "ready"
          /\ thread_index' = [thread_index EXCEPT ![curr_running] = "killed",
                                                  ![t] = "running"]
          /\ Switch(t)
    BY <1>9 DEF ThreadExit, find_ready
  <2>2. /\ outcome = "live" /\ here.at = "user"
        /\ stack' = [stack EXCEPT ![curr_running] = Fresh("none")]
        /\ curr_running' = t /\ next' = NoTid /\ enabled' = FALSE
        /\ UNCHANGED <<setcontext_called, queue, made, outcome>>
    BY <1>9, <2>1 DEF ThreadExit, Running, Switch
  <2>3. /\ thread_index'[t] = "running" /\ thread_index'[curr_running] = "killed"
        /\ \A u \in Tid \ {t, curr_running} : thread_index'[u] = thread_index[u]
        /\ \A u \in Tid \ {curr_running} : stack'[u] = stack[u]
        /\ stack'[curr_running] = Fresh("none")
    BY <1>b, <2>1, <2>2
  <2>4. TypeOK'
    <3>1. Fresh("none") \in Frame
      BY FreshFrame DEF At
    <3> QED
      BY <1>b, <2>1, <2>2, <3>1 DEF TypeOK, Status
  <2>5. CallerOK'
    <3>1. ParkedOK(t)
      BY <1>a, <2>1, <2>2
    <3> QED
      BY <2>1, <2>2, <2>3, <3>1 DEF CallerOK, ParkedOK, here, Suspended, Interruptible
  <2>6. \A u \in Tid : FrameOK(u)'
    <3>1. ASSUME NEW u \in Tid, u = curr_running PROVE FrameOK(u)'
      BY <2>3, <3>1 DEF FrameOK, Fresh, Suspended
    <3>2. ASSUME NEW u \in Tid \ {curr_running} PROVE FrameOK(u)'
      BY <1>a, <2>2, <2>3 DEF FrameOK
    <3> QED
      BY <3>1, <3>2
  <2>7. \A u \in Tid \ {t} : ParkedOK(u)'
    BY <1>a, <2>2, <2>3 DEF ParkedOK, Fresh, Suspended
  <2> QED
    BY <2>2, <2>4, <2>5, <2>6, <2>7 DEF Inv
<1>10. CASE KillCheck
  <2>1. PICK t \in Tid :
          /\ t # curr_running
          /\ stack' = [stack EXCEPT ![curr_running] =
                        [@ EXCEPT !.at = "kill_chk", !.arg = t]]
    BY <1>10 DEF KillCheck, killable
  <2>2. /\ outcome = "live" /\ here.at = "user"
        /\ UNCHANGED <<thread_index, curr_running, setcontext_called, queue,
                       made, enabled, next, outcome>>
    BY <1>10 DEF KillCheck, Running
  <2> DEFINE f == [here EXCEPT !.at = "kill_chk", !.arg = t]
  <2>3. /\ f \in Frame /\ f.at = "kill_chk" /\ f.arg = t
        /\ f.back = here.back /\ f.wants = here.wants
    BY <1>c, <2>1, <2>2 DEF Frame, At
  <2>5. here.back = "none" /\ here.wants = enabled
    BY <1>a, <1>c, <2>2 DEF FrameOK, CallerOK, here, Suspended, Interruptible
  <2>4. stack' = [stack EXCEPT ![curr_running] = f]
    BY <2>1 DEF here
  <2> HIDE DEF f
  <2> QED
    BY <1>b, <2>1, <2>2, <2>3, <2>4, <2>5, CallInv DEF Suspended, Interruptible
<1>11. CASE Kill
  <2>0. outcome = "live" /\ here.at = "kill_chk" /\ here.arg \in Tid \ {curr_running}
    BY <1>11, <1>c DEF Kill, Running, FrameOK, here
  <2> PICK k \in Tid \ {curr_running} : k = here.arg
    BY <2>0
  <2>1. /\ outcome = "live" /\ here.at = "kill_chk"
        /\ thread_index' = [thread_index EXCEPT ![k] = "NULL"]
        /\ stack' = [stack EXCEPT ![k] = Fresh("none"),
                                  ![curr_running] =
                       [@ EXCEPT !.at = "user", !.arg = NoTid]]
        /\ UNCHANGED <<curr_running, setcontext_called, queue, made, enabled,
                       next, outcome>>
    BY <1>11 DEF Kill, Running
  <2>3. /\ stack'[k] = Fresh("none")
        /\ stack'[curr_running] = [here EXCEPT !.at = "user", !.arg = NoTid]
        /\ \A t \in Tid \ {k, curr_running} : stack'[t] = stack[t]
    BY <1>b, <2>1 DEF here
  <2>4. /\ stack'[curr_running].at = "user"
        /\ stack'[curr_running].back = "none"
        /\ stack'[curr_running].wants = here.wants
    BY <1>a, <1>b, <2>1, <2>3 DEF here, Frame, FrameOK, Suspended
  <2>5. stack'[k].at = "none" /\ stack'[k].back = "none"
    BY <2>3 DEF Fresh
  <2>6. TypeOK'
    <3>1. Fresh("none") \in Frame /\ "user" \in At
      BY FreshFrame DEF At
    <3>2. [here EXCEPT !.at = "user", !.arg = NoTid] \in Frame
      BY <1>b, <3>1 DEF here, Frame
    <3>3. stack' \in [Tid -> Frame]
      BY <1>b, <2>1, <2>3, <3>1, <3>2
    <3> QED
      BY <1>b, <2>1, <3>3 DEF TypeOK, Status
  <2>7. CallerOK'
    BY <1>a, <1>b, <2>1, <2>4 DEF CallerOK, here, Suspended, Interruptible
  <2>8. \A t \in Tid : FrameOK(t)'
    <3>1. FrameOK(k)' /\ FrameOK(curr_running)'
      BY <2>1, <2>4, <2>5 DEF FrameOK, Suspended, here
    <3>2. ASSUME NEW t \in Tid \ {k, curr_running} PROVE FrameOK(t)'
      BY <1>a, <2>1, <2>3 DEF FrameOK
    <3> QED
      BY <2>1, <3>1, <3>2
  <2>9. \A t \in Tid \ {curr_running} : ParkedOK(t)'
    <3>1. ParkedOK(k)'
      BY <1>b, <2>1, <2>5 DEF ParkedOK, Suspended
    <3>2. ASSUME NEW t \in Tid \ {k, curr_running} PROVE ParkedOK(t)'
      BY <1>a, <1>b, <2>1, <2>3 DEF ParkedOK
    <3> QED
      BY <3>1, <3>2
  <2> QED
    BY <2>1, <2>6, <2>7, <2>8, <2>9 DEF Inv
<1>12. CASE WaitQueueCreate \/ WaitQueueDestroy
  <2>1. /\ outcome = "live" /\ here.at = "user"
        /\ UNCHANGED <<thread_index, curr_running, setcontext_called, enabled,
                       next, stack, outcome>>
    BY <1>12 DEF WaitQueueCreate, WaitQueueDestroy, Running
  <2>2. queue' \in [Queues -> Seq(Tid)] /\ made' \subseteq Queues
    <3>1. CASE WaitQueueCreate
      BY <1>b, <3>1 DEF WaitQueueCreate
    <3>2. CASE WaitQueueDestroy
      <4>1. PICK q \in made :
              made' = made \ {q} /\ queue' = [queue EXCEPT ![q] = <<>>]
        BY <3>2 DEF WaitQueueDestroy
      <4>2. <<>> \in Seq(Tid)
        OBVIOUS
      <4> QED
        BY <1>b, <4>1, <4>2
    <3> QED
      BY <1>12, <3>1, <3>2
  <2>3. here \in Frame /\ here.back = "none" /\ here.wants = enabled
    BY <1>a, <1>b, <2>1 DEF FrameOK, CallerOK, here, Suspended, Interruptible
  <2>4. stack' = [stack EXCEPT ![curr_running] = here]
    BY <1>b, <2>1 DEF here
  <2> QED
    BY <1>b, <2>1, <2>2, <2>3, <2>4, CallInv DEF Suspended, Interruptible
<1>13. CASE Sleep
  <2>1. PICK q \in made : SleepOn(q, "user")
    BY <1>13 DEF Sleep
  <2>2. PICK t \in Tid \ {curr_running} :
          thread_index[t] = "ready" /\ Suspend("sleep", "user", enabled, t)
    BY <2>1 DEF SleepOn, find_ready
  <2>3. /\ outcome = "live" /\ here.at = "user"
        /\ thread_index' = [thread_index EXCEPT ![curr_running] = "sleep"]
        /\ queue' = [queue EXCEPT ![q] = Append(@, curr_running)]
        /\ UNCHANGED <<curr_running, setcontext_called, made, outcome>>
    BY <1>13, <2>1 DEF Sleep, Running, SleepOn, push_ele
  <2>4. queue' \in [Queues -> Seq(Tid)]
    BY <1>b, <2>3
  <2>5. enabled = here.wants
    BY <1>a, <2>3 DEF CallerOK, Interruptible
  <2> QED
    BY <2>2, <2>3, <2>4, <2>5, SuspendInv DEF Suspended, Interruptible
<1>14. CASE SleepSwitch
  <2>1. /\ outcome = "live" /\ here.at = "sleep"
        /\ ~setcontext_called[curr_running]
        /\ setcontext_called' = [setcontext_called EXCEPT ![curr_running] = TRUE]
        /\ thread_index' = [thread_index EXCEPT ![next] = "running"]
        /\ Switch(next)
        /\ UNCHANGED <<queue, made, stack, outcome>>
    BY <1>14 DEF SleepSwitch, Running
  <2>2. thread_index[curr_running] = "sleep" /\ thread_index[next] = "ready"
    BY <1>a, <2>1 DEF CallerOK, Suspended
  <2>3. \A t \in Tid \ {curr_running} : thread_index[t] # "running"
    BY <1>a, <2>1 DEF ParkedOK
  <2> QED
    BY <1>b, <2>1, <2>2, <2>3, SwitchInv DEF Suspended
<1>15. CASE SleepReturn
  <2>1. /\ outcome = "live" /\ here.at = "sleep"
        /\ setcontext_called[curr_running]
        /\ thread_index' = thread_index /\ Resume
    BY <1>15 DEF SleepReturn, Running
  <2>2. \A t \in Tid : \/ thread_index'[t] = thread_index[t]
                        \/ /\ thread_index[t] = "killed"
                           /\ thread_index'[t] = "NULL"
    BY <2>1
  <2> QED
    BY <1>b, <2>1, <2>2, ResumeInv DEF Suspended
<1>16. CASE Wakeup
  <2>1. PICK q \in made, all \in BOOLEAN : WakeOn(q, all)
    BY <1>16 DEF Wakeup
  <2>2. /\ outcome = "live" /\ here.at = "user"
        /\ UNCHANGED <<curr_running, setcontext_called, made, enabled, next,
                       stack, outcome>>
    BY <1>16, <2>1 DEF Wakeup, WakeOn, Running
  <2>3. /\ thread_index' \in [Tid -> Status]
        /\ \A t \in Tid : \/ thread_index'[t] = thread_index[t]
                          \/ /\ thread_index[t] \notin {"NULL", "killed"}
                             /\ thread_index'[t] = "ready"
    BY <1>b, <2>1 DEF WakeOn, Status
  <2>4. queue' \in [Queues -> Seq(Tid)]
    <3>1. q \in Queues /\ queue[q] \in Seq(Tid) /\ queue[q] # <<>>
      BY <1>b, <2>1 DEF WakeOn
    <3>2. left(q, all) \in Seq(Tid)
      BY <3>1 DEF left
    <3> QED
      BY <1>b, <2>1, <3>2 DEF WakeOn
  <2>5. here \in Frame /\ here.back = "none" /\ here.wants = enabled
    BY <1>a, <1>b, <2>2 DEF FrameOK, CallerOK, here, Suspended, Interruptible
  <2>6. stack' = [stack EXCEPT ![curr_running] = here]
    BY <1>b, <2>2 DEF here
  <2> QED
    BY <1>b, <2>2, <2>3, <2>4, <2>5, <2>6, CallInv DEF Suspended, Interruptible
<1>17. CASE InterruptsSet
  <2>1. /\ outcome = "live" /\ here.at = "user" /\ enabled' = ~enabled
        /\ UNCHANGED <<thread_index, curr_running, setcontext_called, queue,
                       made, next, outcome>>
    BY <1>17 DEF InterruptsSet, Running
  <2> DEFINE f == [here EXCEPT !.wants = ~enabled]
  <2>2. f \in Frame /\ f.at = "user" /\ f.back = here.back /\ f.wants = ~enabled
    BY <1>b, <1>c, <2>1 DEF Frame
  <2>4. here.back = "none"
    BY <1>c, <2>1 DEF FrameOK, here, Suspended
  <2>3. stack' = [stack EXCEPT ![curr_running] = f]
    BY <1>17 DEF InterruptsSet, here
  <2> HIDE DEF f
  <2> QED
    BY <1>b, <2>1, <2>2, <2>3, <2>4, CallInv DEF Suspended, Interruptible
<1>18. CASE Fault \/ StubExit
  <2>1. \E how \in Outcome \ {"live"} : Stop(how)
    BY <1>18 DEF Fault, ThreadIdFault, CreateFault, KillFault, YieldFreesMain, YieldFault,
       SleepFault, WakeupFault, ExitFault, StubExit, Outcome
  <2> QED
    BY <1>a, <2>1 DEF Stop, Inv, TypeOK
<1>19. CASE Ended
  BY <1>a, <1>19 DEF Ended, vars, Inv, TypeOK
<1>20. CASE ThreadIdCheck
  <2>1. PICK i \in Tid : stack' = [stack EXCEPT ![curr_running] =
                                    [@ EXCEPT !.at = "id_chk", !.arg = i]]
    BY <1>20 DEF ThreadIdCheck
  <2>2. /\ outcome = "live" /\ here.at = "user"
        /\ UNCHANGED <<thread_index, curr_running, setcontext_called, queue,
                       made, enabled, next, outcome>>
    BY <1>20 DEF ThreadIdCheck, Running
  <2> DEFINE f == [here EXCEPT !.at = "id_chk", !.arg = i]
  <2>3. /\ f \in Frame /\ f.at = "id_chk" /\ f.arg = i
        /\ f.back = here.back /\ f.wants = here.wants
    BY <1>c, <2>1, <2>2 DEF Frame, At
  <2>4. here.back = "none" /\ here.wants = enabled
    BY <1>a, <1>c, <2>2 DEF FrameOK, CallerOK, here, Suspended, Interruptible
  <2>5. stack' = [stack EXCEPT ![curr_running] = f]
    BY <2>1 DEF here
  <2> HIDE DEF f
  <2> QED
    BY <1>b, <2>2, <2>3, <2>4, <2>5, CallInv DEF Suspended, Interruptible
<1>21. CASE ThreadIdRead
  <2>1. /\ outcome = "live" /\ here.at = "id_chk"
        /\ UNCHANGED <<thread_index, curr_running, setcontext_called, queue,
                       made, enabled, next, outcome>>
    BY <1>21 DEF ThreadIdRead, Running
  <2> DEFINE f == [here EXCEPT !.at = "user", !.arg = NoTid]
  <2>2. f \in Frame /\ f.at = "user" /\ f.back = here.back /\ f.wants = here.wants
    BY <1>c, <2>1 DEF Frame, At
  <2>3. stack' = [stack EXCEPT ![curr_running] = f]
    BY <1>21 DEF ThreadIdRead, here
  <2>4. here.back = "none" /\ here.wants = enabled
    BY <1>a, <1>c, <2>1 DEF FrameOK, CallerOK, here, Suspended, Interruptible
  <2> HIDE DEF f
  <2> QED
    BY <1>b, <2>1, <2>2, <2>3, <2>4, CallInv DEF Suspended, Interruptible
<1> QED
  BY <1>1, <1>2, <1>3, <1>4, <1>5, <1>6, <1>7, <1>8, <1>9, <1>10, <1>11, <1>12,
     <1>13, <1>14, <1>15, <1>16, <1>17, <1>18, <1>19, <1>20, <1>21
     DEF Next, Program, Library

THEOREM InvHolds == Spec => []Inv
<1>1. Inv /\ UNCHANGED vars => Inv'
  BY DEF Inv, TypeOK, CallerOK, FrameOK, ParkedOK, here, vars
<1> QED
  BY <1>1, InitInv, StepInv, PTL DEF Spec

-----------------------------------------------------------------------------
(* Every variable keeps its type, whatever the program calls.              *)
THEOREM TypeCorrect == Spec => []TypeOK
<1>1. Inv => TypeOK
  BY DEF Inv
<1> QED
  BY <1>1, InvHolds, PTL

(* A switched-out thread's getcontext returns a second time exactly when   *)
(* it is given the processor, whatever the program calls.                  *)
THEOREM ContextFlagHolds == Spec => []ContextFlag
<1>1. Inv => ContextFlag
  BY DEF Inv, ContextFlag, CallerOK, ParkedOK, Suspended
<1> QED
  BY <1>1, InvHolds, PTL

(* The running thread's slot and stack are never freed, whatever the       *)
(* program calls.                                                          *)
THEOREM RunningAllocatedHolds == Spec => []RunningAllocated
<1>1. Inv => RunningAllocated
  BY DEF Inv, RunningAllocated, CallerOK, ParkedOK
<1> QED
  BY <1>1, InvHolds, PTL

(* Program code runs with the interrupt mask its thread asked for,         *)
(* whatever the program calls.                                             *)
THEOREM MaskPreservedHolds == Spec => []MaskPreserved
<1>1. Inv => MaskPreserved
  BY DEF Inv, MaskPreserved, CallerOK, Interruptible
<1> QED
  BY <1>1, InvHolds, PTL

-----------------------------------------------------------------------------
(* Round robin, for programs that only yield to THREAD_ANY.                *)

Undirected == YieldTo \subseteq {"any"}

(* What the caller will switch to is the thread find_ready chose.          *)
NextIsFirstReady ==
  outcome = "live" /\ here.at \in Suspended /\ ~setcontext_called[curr_running]
    => next \in Tid /\ find_ready(next)

LEMMA NextStep == Undirected /\ Inv /\ NextIsFirstReady /\ [Next]_vars => NextIsFirstReady'
<1> SUFFICES ASSUME Undirected, Inv, NextIsFirstReady, [Next]_vars,
                    outcome' = "live", here'.at \in Suspended,
                    ~setcontext_called'[curr_running']
             PROVE  next' \in Tid /\ find_ready(next)'
  BY DEF NextIsFirstReady
<1>1. TypeOK
  BY DEF Inv
<1>2. ASSUME NEW t \in Tid, NEW back \in At, NEW mask \in BOOLEAN,
             find_ready(t), YieldStart(back, t, mask)
      PROVE  next' \in Tid /\ find_ready(next)'
  BY <1>2 DEF YieldStart, Suspend, find_ready, scan
<1>3. CASE YieldAny \/ Preempt
  <2>1. "user" \in At /\ here.at \in At /\ enabled \in BOOLEAN
    BY <1>1 DEF At, TypeOK, here, Frame
  <2> QED
    BY <1>2, <1>3, <2>1 DEF YieldAny, Preempt
<1>4. CASE Sleep
  <2>1. PICK q \in made, t \in Tid \ {curr_running} :
          /\ find_ready(t) /\ next' = t
          /\ thread_index' = [thread_index EXCEPT ![curr_running] = "sleep"]
          /\ curr_running' = curr_running
    BY <1>4 DEF Sleep, SleepOn, Suspend
  <2>2. \A u \in Tid : thread_index'[u] = "ready" => thread_index[u] = "ready"
    BY <1>1, <2>1 DEF TypeOK
  <2>3. thread_index'[t] = "ready"
    BY <1>1, <2>1 DEF TypeOK, find_ready
  <2> QED
    BY <2>1, <2>2, <2>3 DEF find_ready, scan
<1>5. CASE YieldTid
  BY <1>5, ThreadsAssumption, <1>1 DEF YieldTid, Undirected, TypeOK, Status
<1>6. CASE YieldSwitch \/ SleepSwitch \/ ThreadExit
  <2>1. Inv'
    BY StepInv, <1>6 DEF Next, Library, Program
  <2>2. CASE YieldSwitch \/ SleepSwitch
    <3>1. /\ curr_running' = next /\ stack' = stack
          /\ setcontext_called' = [setcontext_called EXCEPT ![curr_running] = TRUE]
          /\ outcome = "live" /\ here.at \in Suspended
          /\ ~setcontext_called[curr_running]
      BY <2>2 DEF YieldSwitch, SleepSwitch, Switch, Running, Suspended
    <3>2. CASE next = curr_running
      BY <1>1, <3>1, <3>2 DEF TypeOK
    <3>3. CASE next # curr_running
      <4>1. next \in Tid /\ ParkedOK(next)
        BY <3>1, <3>3 DEF Inv, CallerOK
      <4> QED
        BY <1>1, <3>1, <3>3, <4>1 DEF ParkedOK, here, TypeOK
    <3> QED
      BY <3>2, <3>3
  <2>3. CASE ThreadExit
    <3>1. PICK t \in Tid \ {curr_running} : curr_running' = t
      BY <2>3 DEF ThreadExit, Switch
    <3>2. /\ stack' = [stack EXCEPT ![curr_running] = Fresh("none")]
          /\ setcontext_called' = setcontext_called /\ outcome = "live"
      BY <2>3 DEF ThreadExit, Running
    <3>3. ParkedOK(t)
      BY <3>1, <3>2 DEF Inv
    <3> QED
      BY <1>1, <3>1, <3>2, <3>3 DEF ParkedOK, here, TypeOK
  <2> QED
    BY <1>6, <2>2, <2>3
<1>7. CASE \/ Stub \/ ThreadIdCheck \/ ThreadIdRead \/ Create \/ CreateReturn
           \/ KillCheck \/ Kill \/ InterruptsSet
  <2>1. here'.at \notin Suspended
    <3>1. CASE \/ Stub \/ ThreadIdCheck \/ ThreadIdRead \/ CreateReturn
               \/ KillCheck \/ InterruptsSet
      BY <1>1, <3>1 DEF Stub, ThreadIdCheck, ThreadIdRead, CreateReturn, KillCheck,
         InterruptsSet, Running, here, TypeOK, Frame, Suspended
    <3>2. CASE Create
      <4>1. PICK n \in Tid :
              stack' = [stack EXCEPT ![n] = Fresh("stub"),
                                     ![curr_running] =
                         [@ EXCEPT !.at = "create_ret", !.arg = n]]
        BY <3>2 DEF Create
      <4>2. curr_running' = curr_running
        BY <3>2 DEF Create
      <4> QED
        BY <1>1, <4>1, <4>2 DEF here, TypeOK, Frame, Suspended, Fresh
    <3>3. CASE Kill
      <4>1. /\ stack' = [stack EXCEPT ![here.arg] = Fresh("none"),
                                      ![curr_running] =
                           [@ EXCEPT !.at = "user", !.arg = NoTid]]
            /\ curr_running' = curr_running
        BY <3>3 DEF Kill
      <4> QED
        BY <1>1, <4>1 DEF here, TypeOK, Frame, Suspended, Fresh
    <3> QED
      BY <1>7, <3>1, <3>2, <3>3
  <2> QED
    BY <2>1
<1>8. CASE WaitQueueCreate \/ WaitQueueDestroy \/ Wakeup
  BY <1>8 DEF WaitQueueCreate, WaitQueueDestroy, Wakeup, WakeOn, Running, here, Suspended
<1>9. CASE YieldReturn \/ SleepReturn
  <2>1. FrameOK(curr_running) /\ Resume
    BY <1>1, <1>9 DEF Inv, TypeOK, YieldReturn, SleepReturn, Running
  <2>2. here.at \in Suspended
    BY <1>9 DEF YieldReturn, SleepReturn, Running, Suspended
  <2> QED
    BY <1>1, <2>1, <2>2 DEF Resume, FrameOK, here, TypeOK, Frame, Suspended,
       Interruptible
<1>10. CASE Fault \/ StubExit
  BY <1>10 DEF Fault, ThreadIdFault, CreateFault, KillFault, YieldFreesMain, YieldFault,
     SleepFault, WakeupFault, ExitFault, StubExit, Stop
<1>11. CASE Ended \/ UNCHANGED vars
  BY <1>11 DEF Ended, vars, NextIsFirstReady, here, find_ready, scan
<1> QED
  BY <1>3, <1>4, <1>5, <1>6, <1>7, <1>8, <1>9, <1>10, <1>11
     DEF Next, Program, Library

LEMMA CloserStep ==
  ASSUME NEW c \in Tid, NEW n \in Tid, NEW t \in Tid, n # c, t # c, t # n,
         MaxThreads \in Nat,
         curr_running = c, curr_running' = n, scan(n) <= scan(t)
  PROVE  scan(t)' < scan(t)
  BY DEF scan, Tid

LEMMA NotPassedOverStep ==
  ASSUME Inv, NextIsFirstReady, Next, NEW t \in Tid,
         curr_running' # curr_running, t # curr_running,
         thread_index[t] = "ready", thread_index'[t] = "ready"
  PROVE  scan(t)' < scan(t)
<1>1. TypeOK /\ MaxThreads \in Nat
  BY ThreadsAssumption DEF Inv
<1>2. YieldSwitch \/ SleepSwitch \/ ThreadExit
  BY DEF Next, Program, Library, Fault, Ended, Stub, ThreadIdCheck, ThreadIdRead,
     Create, CreateReturn,
     KillCheck, Kill, InterruptsSet, WaitQueueCreate, WaitQueueDestroy, Wakeup, WakeOn,
     YieldReturn, SleepReturn, Resume, YieldAny, YieldTid, Preempt, YieldStart,
     Sleep, SleepOn, ThreadIdFault, CreateFault, KillFault, YieldFreesMain, YieldFault,
     SleepFault, WakeupFault, ExitFault, StubExit, Stop, vars
<1>3. \E n \in Tid : /\ curr_running' = n /\ find_ready(n)
                     /\ thread_index'[n] = "running"
  <2>1. CASE YieldSwitch \/ SleepSwitch
    <3>1. /\ outcome = "live" /\ here.at \in Suspended
          /\ ~setcontext_called[curr_running] /\ curr_running' = next
      BY <2>1 DEF YieldSwitch, SleepSwitch, Switch, Running, Suspended
    <3>2. next \in Tid /\ find_ready(next)
      BY <3>1 DEF NextIsFirstReady
    <3>3. thread_index'[next] = "running"
      BY <1>1, <2>1, <3>2 DEF YieldSwitch, SleepSwitch, requeued, free_killed, TypeOK
    <3> QED
      BY <3>1, <3>2, <3>3
  <2>2. CASE ThreadExit
    BY <1>1, <2>2 DEF ThreadExit, Switch, TypeOK
  <2> QED
    BY <1>2, <2>1, <2>2
<1>4. PICK n \in Tid : /\ curr_running' = n /\ find_ready(n)
                       /\ thread_index'[n] = "running"
  BY <1>3
<1>5. scan(n) <= scan(t) /\ t # n
  BY <1>4 DEF find_ready
<1> QED
  BY <1>1, <1>4, <1>5, CloserStep DEF TypeOK

(* Round robin: with undirected yields only, no switch passes over a ready *)
(* thread, for every size of the table.                                    *)
THEOREM RoundRobin ==
  ASSUME Undirected
  PROVE  Spec => NotPassedOver
<1>1. Init => NextIsFirstReady
  <2>1. 0 \in Tid
    BY ThreadsAssumption DEF Tid
  <2> QED
    BY <2>1 DEF Init, NextIsFirstReady, here, Fresh, Suspended
<1>2. Inv /\ NextIsFirstReady /\ [Next]_vars =>
        [\A t \in Tid :
           curr_running' # curr_running /\ t # curr_running
             /\ thread_index[t] = "ready" /\ thread_index'[t] = "ready"
           => scan(t)' < scan(t)]_vars
  BY NotPassedOverStep
<1> QED
  BY <1>1, <1>2, InvHolds, NextStep, PTL DEF Spec, NotPassedOver

-----------------------------------------------------------------------------
CallerRuns ==
  thread_index[curr_running] =
    IF here.at = "sleep" /\ ~setcontext_called[curr_running] THEN "sleep"
    ELSE "running"

(* What a call in progress found when it chose still holds.                *)
NextReady ==
  here.at \in Suspended /\ ~setcontext_called[curr_running] =>
    thread_index[next] = "ready"

Calm ==
  /\ QueuesHoldSleepers
  /\ outcome = "live" =>
       /\ CallerRuns
       /\ NextReady
       /\ thread_index[0] # "killed"

(* A program that meets all of Disciplined but for the masks may call with *)
(* interrupts on.  It stays Calm if a thread_kill still finds its victim.  *)
Gentle ==
  /\ YieldTo \subseteq {"any", "ready"}
  /\ KillOf \subseteq {"ready", "killed"}
  /\ ExitBy \subseteq {"other"}
  /\ DestroyOf \subseteq {"empty"}

VictimStays ==
  outcome = "live" /\ here.at = "kill_chk" =>
    here.arg # 0 /\ thread_index[here.arg] \in {"ready", "killed"}

(* With the masks no call is interrupted, so its checks still hold.        *)
Undisturbed ==
  /\ here.at \in {"id_chk", "create_ret", "kill_chk"} =>
       ~(Preemptive /\ enabled) /\ thread_index[here.arg] # "NULL"
  /\ VictimStays
  /\ \A t \in Tid : stack[t].at \in Suspended => stack[t].back = "user"

DInv == NoFault /\ Calm /\ (outcome = "live" => Undisturbed)

(* Steps that leave the wait queues and the sleepers as they are.          *)
LEMMA QueuesKept ==
  ASSUME QueuesHoldSleepers, outcome = "live", queue' = queue,
         \A t \in Tid : thread_index'[t] = "sleep" <=> thread_index[t] = "sleep",
         queue \in [Queues -> Seq(Tid)],
         \A q \in made : queue[q] # <<>> => q \in made'
  PROVE  QueuesHoldSleepers'
<1>1. \A q \in Queues : \A i \in 1 .. Len(queue[q]) : queue[q][i] \in Tid
  OBVIOUS
<1>2. ASSUME NEW t \in Tid, thread_index'[t] = "sleep"
      PROVE  \E q \in made' : \E i \in 1 .. Len(queue[q]) : queue[q][i] = t
  <2>1. PICK q \in made : \E i \in 1 .. Len(queue[q]) : queue[q][i] = t
    BY <1>2 DEF QueuesHoldSleepers
  <2>2. queue[q] # <<>>
    BY <2>1
  <2> QED
    BY <2>1, <2>2
<1> QED
  BY <1>1, <1>2 DEF QueuesHoldSleepers

LEMMA QueuesPush ==
  ASSUME QueuesHoldSleepers, outcome = "live", TypeOK, NEW q \in made,
         thread_index[curr_running] # "sleep",
         thread_index' = [thread_index EXCEPT ![curr_running] = "sleep"],
         queue' = [queue EXCEPT ![q] = Append(@, curr_running)],
         made' = made
  PROVE  QueuesHoldSleepers'
<1> DEFINE n == Len(queue[q])
           c == curr_running
<1>1. /\ q \in Queues /\ queue[q] \in Seq(Tid) /\ n \in Nat /\ c \in Tid
      /\ queue'[q] = Append(queue[q], c)
      /\ Len(queue'[q]) = n + 1 /\ queue'[q][n + 1] = c
      /\ \A i \in 1 .. n : queue'[q][i] = queue[q][i]
      /\ \A p \in Queues \ {q} : queue'[p] = queue[p]
  BY DEF TypeOK
<1>2. \A p \in Queues : Len(queue[p]) \in Nat
  BY DEF TypeOK
<1>3. \A p \in Queues : \A i \in 1 .. Len(queue[p]) :
        /\ queue[p][i] \in Tid /\ queue[p][i] # c
        /\ thread_index[queue[p][i]] = "sleep"
  BY DEF QueuesHoldSleepers, TypeOK
<1>4. /\ thread_index'[c] = "sleep"
      /\ \A t \in Tid \ {c} : thread_index'[t] = thread_index[t]
  BY <1>1 DEF TypeOK
<1>5. \A p \in Queues : \A i \in 1 .. Len(queue'[p]) :
        \/ i \in 1 .. Len(queue[p]) /\ queue'[p][i] = queue[p][i]
        \/ p = q /\ i = n + 1 /\ queue'[p][i] = c
  BY <1>1, <1>2
<1> HIDE DEF n, c
<1>6. \A p \in Queues : \A i \in 1 .. Len(queue'[p]) :
        thread_index'[queue'[p][i]] = "sleep"
  BY <1>3, <1>4, <1>5
<1>7. ASSUME NEW t \in Tid, thread_index'[t] = "sleep"
      PROVE  \E p \in made' : \E i \in 1 .. Len(queue'[p]) : queue'[p][i] = t
  <2>1. CASE t = c
    BY <1>1, <2>1
  <2>2. CASE t # c
    <3>0. thread_index[t] = "sleep"
      BY <1>4, <1>7, <2>2
    <3>1. PICK p \in made : \E i \in 1 .. Len(queue[p]) : queue[p][i] = t
      BY <3>0 DEF QueuesHoldSleepers
    <3>1i. PICK i \in 1 .. Len(queue[p]) : queue[p][i] = t
      BY <3>1
    <3>2. i \in 1 .. Len(queue'[p]) /\ queue'[p][i] = t
      BY <1>1, <3>1, <3>1i DEF TypeOK, n
    <3> QED
      BY <3>1, <3>2
  <2> QED
    BY <2>1, <2>2
<1>8. ASSUME NEW p \in Queues, NEW r \in Queues,
             NEW i \in 1 .. Len(queue'[p]), NEW j \in 1 .. Len(queue'[r]),
             queue'[p][i] = queue'[r][j]
      PROVE  p = r /\ i = j
  BY <1>3, <1>5, <1>8 DEF QueuesHoldSleepers
<1> QED
  BY <1>6, <1>7, <1>8 DEF QueuesHoldSleepers

LEMMA QueuesPop ==
  ASSUME QueuesHoldSleepers, outcome = "live", TypeOK, NEW q \in made,
         NEW all \in BOOLEAN, WakeOn(q, all), made' = made
  PROVE  QueuesHoldSleepers'
<1>1. /\ q \in Queues /\ queue[q] \in Seq(Tid) /\ queue[q] # <<>>
      /\ queue' = [queue EXCEPT ![q] = left(q, all)]
      /\ \A p \in Queues \ {q} : queue'[p] = queue[p]
      /\ queue'[q] = left(q, all)
  BY DEF TypeOK, WakeOn
<1>2. thread_index' = [t \in Tid |-> IF t \in popped(q, all) THEN "ready"
                                     ELSE thread_index[t]]
  BY DEF WakeOn
<1>3. \A p \in Queues : \A i \in 1 .. Len(queue[p]) :
        queue[p][i] \in Tid /\ thread_index[queue[p][i]] = "sleep"
  BY DEF QueuesHoldSleepers, TypeOK
<1>4. \A p, r \in Queues :
        \A i \in 1 .. Len(queue[p]), j \in 1 .. Len(queue[r]) :
          queue[p][i] = queue[r][j] => p = r /\ i = j
  BY DEF QueuesHoldSleepers
<1>5. CASE all
  <2>1. queue'[q] = <<>>
    BY <1>1, <1>5 DEF left
  <2>2. popped(q, all) = {queue[q][i] : i \in 1 .. Len(queue[q])}
    BY <1>1, <1>5 DEF popped, Range
  <2>3. \A p \in Queues \ {q} : \A i \in 1 .. Len(queue[p]) :
          queue[p][i] \notin popped(q, all)
    BY <1>1, <1>4, <2>2
  <2>4. \A p \in Queues : \A i \in 1 .. Len(queue'[p]) :
          p # q /\ thread_index'[queue'[p][i]] = "sleep"
    BY <1>1, <1>2, <1>3, <2>1, <2>3
  <2>5. ASSUME NEW t \in Tid, thread_index'[t] = "sleep"
        PROVE  \E p \in made' : \E i \in 1 .. Len(queue'[p]) : queue'[p][i] = t
    <3>1. thread_index[t] = "sleep" /\ t \notin popped(q, all)
      BY <1>2, <2>5
    <3>2. PICK p \in made : \E i \in 1 .. Len(queue[p]) : queue[p][i] = t
      BY <3>1 DEF QueuesHoldSleepers
    <3>2i. PICK i \in 1 .. Len(queue[p]) : queue[p][i] = t
      BY <3>2
    <3>3. p # q
      BY <2>2, <3>1, <3>2, <3>2i
    <3> QED
      BY <1>1, <3>2, <3>2i, <3>3 DEF TypeOK
  <2>6. \A p, r \in Queues :
          \A i \in 1 .. Len(queue'[p]), j \in 1 .. Len(queue'[r]) :
            queue'[p][i] = queue'[r][j] => p = r /\ i = j
    BY <1>1, <1>4, <2>1
  <2> QED
    BY <2>4, <2>5, <2>6 DEF QueuesHoldSleepers
<1>6. CASE ~all
  <2> DEFINE n == Len(queue[q])
  <2>0. queue'[q] = Tail(queue[q]) /\ popped(q, all) = {queue[q][1]}
    BY <1>1, <1>6 DEF left, popped
  <2>1. /\ n \in Nat \ {0}
        /\ queue'[q] = Tail(queue[q]) /\ Len(queue'[q]) = n - 1
        /\ \A i \in 1 .. n - 1 : queue'[q][i] = queue[q][i + 1]
        /\ popped(q, all) = {queue[q][1]}
    <3>1. n \in Nat \ {0}
      BY <1>1
    <3>2. Len(Tail(queue[q])) = n - 1
      BY <1>1
    <3>3. \A i \in 1 .. n - 1 : Tail(queue[q])[i] = queue[q][i + 1]
      BY <1>1
    <3> QED
      BY <2>0, <3>1, <3>2, <3>3
  <2> HIDE DEF n
  <2>2. \A p \in Queues : \A i \in 1 .. Len(queue'[p]) :
          \E j \in 1 .. Len(queue[p]) :
            /\ queue'[p][i] = queue[p][j]
            /\ j = IF p = q THEN i + 1 ELSE i
            /\ p = q => j # 1
    BY <1>1, <2>1 DEF n
  <2>3. 1 \in 1 .. Len(queue[q])
    BY <2>1 DEF n
  <2>4. \A p \in Queues : \A i \in 1 .. Len(queue'[p]) :
          thread_index'[queue'[p][i]] = "sleep"
    BY <1>1, <1>2, <1>3, <1>4, <2>1, <2>2, <2>3
  <2>5. ASSUME NEW t \in Tid, thread_index'[t] = "sleep"
        PROVE  \E p \in made' : \E i \in 1 .. Len(queue'[p]) : queue'[p][i] = t
    <3>1. thread_index[t] = "sleep" /\ t # queue[q][1]
      BY <1>2, <2>1, <2>5
    <3>2. PICK p \in made : \E i \in 1 .. Len(queue[p]) : queue[p][i] = t
      BY <3>1 DEF QueuesHoldSleepers
    <3>2i. PICK i \in 1 .. Len(queue[p]) : queue[p][i] = t
      BY <3>2
    <3>3. CASE p # q
      BY <1>1, <3>2, <3>2i, <3>3 DEF TypeOK
    <3>4. CASE p = q
      <4>1. i # 1 /\ i \in 1 .. n
        BY <3>1, <3>2i, <3>4 DEF n
      <4>2. i - 1 \in 1 .. n - 1 /\ queue'[q][i - 1] = t
        BY <2>1, <3>2i, <3>4, <4>1
      <4> QED
        BY <2>1, <3>4, <4>2
    <3> QED
      BY <3>3, <3>4
  <2>6. ASSUME NEW p \in Queues, NEW r \in Queues,
               NEW i \in 1 .. Len(queue'[p]), NEW j \in 1 .. Len(queue'[r]),
               queue'[p][i] = queue'[r][j]
        PROVE  p = r /\ i = j
    <3>1. PICK k \in 1 .. Len(queue[p]) :
            queue'[p][i] = queue[p][k] /\ k = IF p = q THEN i + 1 ELSE i
      BY <2>2
    <3>2. PICK l \in 1 .. Len(queue[r]) :
            queue'[r][j] = queue[r][l] /\ l = IF r = q THEN j + 1 ELSE j
      BY <2>2
    <3>3. queue[p][k] = queue[r][l]
      BY <2>6, <3>1, <3>2
    <3>4. p = r /\ k = l
      BY <1>4, <3>3
    <3> QED
      BY <3>1, <3>2, <3>4
  <2> QED
    BY <2>4, <2>5, <2>6 DEF QueuesHoldSleepers
<1> QED
  BY <1>5, <1>6

LEMMA DisciplineInit == Init => DInv
<1> SUFFICES ASSUME Init PROVE DInv
  OBVIOUS
<1>1. 0 \in Tid /\ curr_running = 0 /\ outcome = "live"
  BY ThreadsAssumption DEF Init, Tid
<1>2. NoFault /\ QueuesHoldSleepers
  BY <1>1 DEF Init, NoFault, QueuesHoldSleepers
<1>3. CallerRuns /\ NextReady /\ Undisturbed /\ thread_index[0] # "killed"
  BY <1>1 DEF Init, CallerRuns, NextReady, Undisturbed, VictimStays, here, Fresh, Suspended
<1> QED
  BY <1>2, <1>3 DEF DInv, Calm

(* A call that returns without a switch, as in CallInv.                    *)
LEMMA CalmCall ==
  ASSUME Inv, Calm, outcome = "live", here.at \notin Suspended,
         NEW f \in Frame, f.at \in Interruptible,
         stack' = [stack EXCEPT ![curr_running] = f],
         thread_index' \in [Tid -> Status],
         \A t \in Tid : \/ thread_index'[t] = thread_index[t]
                        \/ thread_index[t] = "sleep" /\ thread_index'[t] = "ready",
         QueuesHoldSleepers',
         UNCHANGED <<curr_running, setcontext_called, next, outcome>>
  PROVE  Calm'
<1>1. /\ TypeOK /\ CallerRuns /\ thread_index[0] # "killed"
      /\ curr_running \in Tid /\ 0 \in Tid
  BY ThreadsAssumption DEF Inv, Calm, TypeOK, Tid
<1>2. stack'[curr_running] = f
  BY <1>1 DEF TypeOK
<1>3. CallerRuns'
  BY <1>1, <1>2 DEF CallerRuns, here, Suspended, Interruptible
<1>4. here'.at \notin Suspended /\ thread_index'[0] # "killed"
  BY <1>1, <1>2 DEF here, Suspended, Interruptible
<1> QED
  BY <1>3, <1>4 DEF Calm, NextReady

LEMMA CalmSuspend ==
  ASSUME Inv, Calm, outcome = "live", here.at \in Interruptible,
         NEW at \in Suspended, NEW back, NEW t \in Tid, NEW mask,
         thread_index[t] = "ready", t # curr_running,
         Suspend(at, back, mask, t),
         thread_index' = [thread_index EXCEPT ![curr_running] =
                            IF at = "sleep" THEN "sleep" ELSE "running"],
         QueuesHoldSleepers',
         UNCHANGED <<curr_running, setcontext_called, outcome>>
  PROVE  Calm'
<1>1. /\ TypeOK /\ CallerRuns /\ thread_index[0] # "killed" /\ CallerOK
      /\ curr_running \in Tid /\ 0 \in Tid
  BY ThreadsAssumption DEF Inv, Calm, TypeOK, Tid
<1>2. /\ stack'[curr_running] =
           [here EXCEPT !.at = at, !.back = back, !.interrupts_status = mask]
      /\ next' = t
  BY <1>1 DEF TypeOK, Suspend, here
<1>3. here'.at = at
  BY <1>1, <1>2 DEF here, TypeOK, Frame
<1>4. ~setcontext_called[curr_running]
  BY <1>1 DEF CallerOK, Suspended, Interruptible
<1>5. CallerRuns'
  BY <1>1, <1>3, <1>4 DEF CallerRuns, Suspended, TypeOK
<1>6. thread_index'[0] # "killed" /\ thread_index'[next'] = "ready"
  BY <1>1, <1>2 DEF TypeOK
<1> QED
  BY <1>5, <1>6 DEF Calm, NextReady

(* The caller gives the processor to a ready thread n, which was parked.   *)
LEMMA CalmSwitch ==
  ASSUME Inv, Calm, outcome = "live", NEW n \in Tid, n # curr_running,
         ParkedOK(n), thread_index[n] = "ready", curr_running' = n,
         thread_index' \in [Tid -> Status],
         thread_index'[n] = "running", thread_index'[0] # "killed",
         QueuesHoldSleepers',
         \A t \in Tid \ {curr_running} : stack'[t] = stack[t],
         setcontext_called'[n] = setcontext_called[n]
  PROVE  Calm'
<1>1. /\ here' = stack[n] /\ here'.at \in {"stub"} \cup Suspended
      /\ here'.at \in Suspended => setcontext_called'[curr_running']
  BY DEF here, ParkedOK
<1>2. CallerRuns'
  BY <1>1 DEF CallerRuns, Suspended
<1>3. ~(here'.at \in Suspended /\ ~setcontext_called'[curr_running'])
  BY <1>1
<1> QED
  BY <1>2, <1>3 DEF Calm, NextReady

LEMMA CalmStep ==
  ASSUME Gentle, Inv, Calm, VictimStays, Next
  PROVE  Calm'
<1>a. /\ TypeOK
      /\ outcome = "live" =>
           /\ CallerOK /\ CallerRuns /\ NextReady /\ thread_index[0] # "killed"
           /\ FrameOK(curr_running)
           /\ \A t \in Tid \ {curr_running} : ParkedOK(t)
  BY DEF Inv, Calm, TypeOK
<1>b. /\ curr_running \in Tid /\ 0 \in Tid
      /\ thread_index \in [Tid -> Status] /\ stack \in [Tid -> Frame]
      /\ setcontext_called \in [Tid -> BOOLEAN] /\ queue \in [Queues -> Seq(Tid)]
      /\ made \subseteq Queues /\ here \in Frame /\ enabled \in BOOLEAN
  BY <1>a, ThreadsAssumption DEF TypeOK, Tid, here
<1>c. ASSUME outcome = "live", queue' = queue,
             \A t \in Tid : thread_index'[t] = "sleep" <=> thread_index[t] = "sleep",
             made' = made
      PROVE  QueuesHoldSleepers'
  BY <1>b, <1>c, QueuesKept DEF Calm
<1>1. CASE Stub
  <2>1. /\ outcome = "live" /\ here.at = "stub"
        /\ UNCHANGED <<thread_index, curr_running, setcontext_called, queue,
                       made, next, outcome>>
    BY <1>1 DEF Stub, Running
  <2> DEFINE f == [here EXCEPT !.at = "user"]
  <2>2. f \in Frame /\ f.at = "user"
    BY <1>b DEF Frame, At
  <2>3. stack' = [stack EXCEPT ![curr_running] = f]
    BY <1>1 DEF Stub, here
  <2> HIDE DEF f
  <2> QED
    BY <1>b, <1>c, <2>1, <2>2, <2>3, CalmCall DEF Suspended, Interruptible
<1>2. CASE Create
  <2>1. PICK n \in Tid :
          /\ thread_index[n] = "NULL"
          /\ thread_index' = [thread_index EXCEPT ![n] = "ready"]
          /\ setcontext_called' = [setcontext_called EXCEPT ![n] = FALSE]
          /\ stack' = [stack EXCEPT ![n] = Fresh("stub"),
                                    ![curr_running] =
                         [@ EXCEPT !.at = "create_ret", !.arg = n]]
    BY <1>2 DEF Create, tid_generator, flag_cleared
  <2>2. /\ outcome = "live" /\ here.at = "user"
        /\ UNCHANGED <<curr_running, queue, made, enabled, next, outcome>>
    BY <1>2 DEF Create, Running
  <2>3. n # curr_running /\ thread_index[curr_running] = "running"
    BY <1>a, <2>1, <2>2 DEF CallerRuns
  <2>4. /\ stack'[n] = Fresh("stub")
        /\ stack'[curr_running] = [here EXCEPT !.at = "create_ret", !.arg = n]
        /\ \A t \in Tid \ {n, curr_running} : stack'[t] = stack[t]
    BY <1>b, <2>1, <2>3 DEF here
  <2>5. here'.at = "create_ret" /\ here'.arg = n /\ stack'[n].at = "stub"
    BY <1>b, <2>2, <2>4 DEF here, Frame, Fresh
  <2>6. QueuesHoldSleepers'
    <3>1. \A t \in Tid : thread_index'[t] = "sleep" <=> thread_index[t] = "sleep"
      BY <1>b, <2>1
    <3> QED
      BY <1>c, <2>2, <3>1
  <2>7. CallerRuns'
    BY <1>b, <2>1, <2>2, <2>3, <2>5 DEF CallerRuns
  <2>8. thread_index'[0] # "killed"
    BY <1>a, <1>b, <2>1, <2>2
  <2> QED
    BY <2>2, <2>5, <2>6, <2>7, <2>8 DEF Calm, NextReady, Suspended
<1>3. CASE CreateReturn
  <2>1. /\ outcome = "live" /\ here.at = "create_ret"
        /\ UNCHANGED <<thread_index, curr_running, setcontext_called, queue,
                       made, enabled, next, outcome>>
    BY <1>3 DEF CreateReturn, Running
  <2> DEFINE f == [here EXCEPT !.at = "user", !.arg = NoTid]
  <2>2. f \in Frame /\ f.at = "user"
    BY <1>b DEF Frame, At
  <2>3. stack' = [stack EXCEPT ![curr_running] = f]
    BY <1>3 DEF CreateReturn, here
  <2> HIDE DEF f
  <2> QED
    BY <1>b, <1>c, <2>1, <2>2, <2>3, CalmCall DEF Suspended, Interruptible
<1>4. CASE YieldAny \/ YieldTid
  <2>1. /\ outcome = "live" /\ here.at = "user"
        /\ thread_index[curr_running] = "running"
    BY <1>4, <1>a DEF YieldAny, YieldTid, Running, CallerRuns
  <2>2. PICK t \in Tid : thread_index[t] = "ready" /\ YieldStart("user", t, enabled)
    BY <1>4, <1>b DEF YieldAny, YieldTid, find_ready, Gentle, Status
  <2>3. /\ Suspend("yield", "user", enabled, t)
        /\ UNCHANGED <<thread_index, curr_running, setcontext_called, queue,
                       made, outcome>>
    BY <2>2 DEF YieldStart
  <2>4. thread_index' = [thread_index EXCEPT ![curr_running] = "running"]
    BY <1>b, <2>1, <2>3
  <2>5. QueuesHoldSleepers'
    BY <1>c, <2>1, <2>3
  <2> QED
    BY <2>1, <2>2, <2>3, <2>4, <2>5, CalmSuspend DEF Suspended, Interruptible
<1>5. CASE Preempt
  <2>1. /\ outcome = "live" /\ here.at \in Interruptible
        /\ thread_index[curr_running] = "running"
    BY <1>5, <1>a DEF Preempt, CallerRuns, Interruptible
  <2>2. PICK t \in Tid : thread_index[t] = "ready" /\ YieldStart(here.at, t, TRUE)
    BY <1>5 DEF Preempt, find_ready
  <2>3. /\ Suspend("yield", here.at, TRUE, t)
        /\ UNCHANGED <<thread_index, curr_running, setcontext_called, queue,
                       made, outcome>>
    BY <2>2 DEF YieldStart
  <2>4. thread_index' = [thread_index EXCEPT ![curr_running] = "running"]
    BY <1>b, <2>1, <2>3
  <2>5. QueuesHoldSleepers'
    BY <1>c, <2>1, <2>3
  <2> QED
    BY <2>1, <2>2, <2>3, <2>4, <2>5, CalmSuspend DEF Suspended
<1>6. CASE YieldSwitch
  <2>1. /\ outcome = "live" /\ here.at = "yield"
        /\ ~setcontext_called[curr_running]
        /\ setcontext_called' = [setcontext_called EXCEPT ![curr_running] = TRUE]
        /\ thread_index' = [requeued EXCEPT ![next] = "running"]
        /\ curr_running' = next /\ enabled' = FALSE
        /\ UNCHANGED <<queue, made, stack, outcome>>
    BY <1>6 DEF YieldSwitch, Running, Switch
  <2>2. /\ next \in Tid /\ thread_index[next] = "ready"
        /\ thread_index[curr_running] = "running"
    BY <1>a, <2>1 DEF CallerOK, NextReady, CallerRuns, Suspended
  <2>3. /\ requeued \in [Tid -> Status]
        /\ requeued[curr_running] = "ready"
        /\ \A t \in Tid \ {curr_running} :
             requeued[t] = IF thread_index[t] = "killed" THEN "NULL" ELSE thread_index[t]
    BY <1>b DEF requeued, free_killed, Status
  <2>4. /\ thread_index' \in [Tid -> Status] /\ thread_index'[next] = "running"
        /\ \A t \in Tid \ {next} : thread_index'[t] = requeued[t]
    BY <2>1, <2>2, <2>3 DEF Status
  <2>5. thread_index'[0] # "killed"
    BY <1>b, <2>3, <2>4
  <2>6. \A t \in Tid : thread_index'[t] = "sleep" <=> thread_index[t] = "sleep"
    BY <2>2, <2>3, <2>4
  <2>7. ParkedOK(next) /\ next # curr_running
    BY <1>a, <2>1, <2>2
  <2>9. setcontext_called'[next] = setcontext_called[next]
    BY <1>b, <2>1, <2>2, <2>7
  <2>10. QueuesHoldSleepers'
    BY <1>c, <2>1, <2>6
  <2> QED
    BY <2>1, <2>2, <2>4, <2>5, <2>7, <2>9, <2>10, CalmSwitch
<1>7. CASE SleepSwitch
  <2>1. /\ outcome = "live" /\ here.at = "sleep"
        /\ ~setcontext_called[curr_running]
        /\ setcontext_called' = [setcontext_called EXCEPT ![curr_running] = TRUE]
        /\ thread_index' = [thread_index EXCEPT ![next] = "running"]
        /\ curr_running' = next /\ enabled' = FALSE
        /\ UNCHANGED <<queue, made, stack, outcome>>
    BY <1>7 DEF SleepSwitch, Running, Switch
  <2>2. /\ next \in Tid /\ thread_index[next] = "ready"
        /\ thread_index[curr_running] = "sleep"
    BY <1>a, <2>1 DEF CallerOK, NextReady, CallerRuns, Suspended
  <2>4. /\ thread_index' \in [Tid -> Status] /\ thread_index'[next] = "running"
        /\ \A t \in Tid \ {next} : thread_index'[t] = thread_index[t]
    BY <1>b, <2>1, <2>2 DEF Status
  <2>5. thread_index'[0] # "killed"
    BY <1>a, <1>b, <2>1, <2>4
  <2>6. \A t \in Tid : thread_index'[t] = "sleep" <=> thread_index[t] = "sleep"
    BY <2>2, <2>4
  <2>7. ParkedOK(next) /\ next # curr_running
    BY <1>a, <2>1, <2>2
  <2>9. setcontext_called'[next] = setcontext_called[next]
    BY <1>b, <2>1, <2>2, <2>7
  <2>10. QueuesHoldSleepers'
    BY <1>c, <2>1, <2>6
  <2> QED
    BY <2>1, <2>2, <2>4, <2>5, <2>7, <2>9, <2>10, CalmSwitch
<1>8. CASE YieldReturn \/ SleepReturn
  <2>1. /\ outcome = "live" /\ here.at \in Suspended /\ Resume
        /\ setcontext_called[curr_running]
        /\ thread_index' = free_killed \/ thread_index' = thread_index
    BY <1>8 DEF YieldReturn, SleepReturn, Running, Suspended
  <2>2. /\ curr_running' = curr_running /\ outcome' = outcome
        /\ queue' = queue /\ made' = made
    BY <2>1 DEF Resume
  <2>3. thread_index[curr_running] = "running" /\ here.back \in Interruptible
    BY <1>a, <1>b, <2>1 DEF CallerRuns, FrameOK, here
  <2>4. here'.at \notin Suspended
    BY <1>b, <2>1, <2>2, <2>3 DEF Resume, here, Frame, Suspended, Interruptible
  <2>5. /\ \A t \in Tid : thread_index'[t] = "sleep" <=> thread_index[t] = "sleep"
        /\ thread_index'[curr_running] = "running" /\ thread_index'[0] # "killed"
    BY <1>a, <1>b, <2>1, <2>3 DEF free_killed
  <2>6. QueuesHoldSleepers'
    BY <1>c, <2>1, <2>2, <2>5
  <2>7. CallerRuns'
    BY <2>2, <2>4, <2>5 DEF CallerRuns, Suspended
  <2> QED
    BY <2>1, <2>2, <2>4, <2>5, <2>6, <2>7 DEF Calm, NextReady
<1>9. CASE ThreadExit
  <2>1. PICK t \in Tid \ {curr_running} :
          /\ thread_index[t] = "ready"
          /\ thread_index' = [thread_index EXCEPT ![curr_running] = "killed",
                                                  ![t] = "running"]
          /\ Switch(t)
    BY <1>9 DEF ThreadExit, find_ready
  <2>2. /\ outcome = "live" /\ here.at = "user" /\ curr_running # 0
        /\ stack' = [stack EXCEPT ![curr_running] = Fresh("none")]
        /\ UNCHANGED <<setcontext_called, queue, made, outcome>>
    BY <1>9 DEF ThreadExit, Running, exiting, Gentle
  <2>3. /\ thread_index' \in [Tid -> Status]
        /\ thread_index'[t] = "running" /\ thread_index'[curr_running] = "killed"
        /\ \A u \in Tid \ {t, curr_running} : thread_index'[u] = thread_index[u]
        /\ \A u \in Tid \ {curr_running} : stack'[u] = stack[u]
        /\ stack'[curr_running].at \notin Suspended
    BY <1>b, <2>1, <2>2 DEF Status, Fresh, Suspended
  <2>4. thread_index[curr_running] = "running"
    BY <1>a, <2>2 DEF CallerRuns
  <2>5. \A u \in Tid : thread_index'[u] = "sleep" <=> thread_index[u] = "sleep"
    BY <2>1, <2>3, <2>4
  <2>6. thread_index'[0] # "killed"
    BY <1>a, <1>b, <2>2, <2>3
  <2>7. QueuesHoldSleepers'
    BY <1>c, <2>2, <2>5
  <2> QED
    BY <1>a, <2>1, <2>2, <2>3, <2>6, <2>7, CalmSwitch DEF Switch
<1>10. CASE KillCheck
  <2>1. PICK t \in Tid :
          /\ t # curr_running /\ t # 0 /\ thread_index[t] \in {"ready", "killed"}
          /\ stack' = [stack EXCEPT ![curr_running] =
                        [@ EXCEPT !.at = "kill_chk", !.arg = t]]
    BY <1>10 DEF KillCheck, killable, Gentle
  <2>2. /\ outcome = "live" /\ here.at = "user"
        /\ UNCHANGED <<thread_index, curr_running, setcontext_called, queue,
                       made, enabled, next, outcome>>
    BY <1>10 DEF KillCheck, Running
  <2> DEFINE f == [here EXCEPT !.at = "kill_chk", !.arg = t]
  <2>3. f \in Frame /\ f.at = "kill_chk" /\ f.arg = t
    BY <1>b, <2>1 DEF Frame, At
  <2>4. stack' = [stack EXCEPT ![curr_running] = f]
    BY <2>1 DEF here
  <2> HIDE DEF f
  <2> QED
    BY <1>b, <1>c, <2>1, <2>2, <2>3, <2>4, CalmCall DEF Suspended, Interruptible
<1>11. CASE Kill
  <2>0. /\ outcome = "live" /\ here.at = "kill_chk"
        /\ here.arg \in Tid \ {curr_running}
        /\ thread_index[here.arg] \in {"ready", "killed"}
    BY <1>11, <1>a DEF Kill, Running, FrameOK, here, VictimStays
  <2> PICK k \in Tid \ {curr_running} : k = here.arg
    BY <2>0
  <2>1. /\ thread_index' = [thread_index EXCEPT ![k] = "NULL"]
        /\ stack' = [stack EXCEPT ![k] = Fresh("none"),
                                  ![curr_running] =
                       [@ EXCEPT !.at = "user", !.arg = NoTid]]
        /\ UNCHANGED <<curr_running, setcontext_called, queue, made, enabled,
                       next, outcome>>
    BY <1>11 DEF Kill
  <2>2. /\ stack'[k] = Fresh("none")
        /\ stack'[curr_running] = [here EXCEPT !.at = "user", !.arg = NoTid]
        /\ \A t \in Tid \ {k, curr_running} : stack'[t] = stack[t]
    BY <1>b, <2>1 DEF here
  <2>3. here'.at = "user" /\ stack'[k].at = "none"
    BY <1>b, <2>1, <2>2 DEF here, Frame, Fresh
  <2>4. /\ thread_index'[k] = "NULL"
        /\ \A t \in Tid \ {k} : thread_index'[t] = thread_index[t]
    BY <1>b, <2>1
  <2>5. QueuesHoldSleepers'
    <3>1. \A t \in Tid : thread_index'[t] = "sleep" <=> thread_index[t] = "sleep"
      BY <2>0, <2>4
    <3> QED
      BY <1>c, <2>0, <2>1, <3>1
  <2>6. CallerRuns'
    BY <1>a, <1>b, <2>0, <2>1, <2>3, <2>4 DEF CallerRuns
  <2>7. thread_index'[0] # "killed"
    BY <1>a, <1>b, <2>0, <2>4
  <2> QED
    BY <2>0, <2>1, <2>3, <2>5, <2>6, <2>7 DEF Calm, NextReady, Suspended
<1>12. CASE WaitQueueCreate \/ WaitQueueDestroy
  <2>1. /\ outcome = "live" /\ here.at = "user" /\ queue' = queue
        /\ UNCHANGED <<thread_index, curr_running, setcontext_called, enabled,
                       next, stack, outcome>>
        /\ \A q \in made : queue[q] # <<>> => q \in made'
    <3>1. CASE WaitQueueCreate
      BY <3>1 DEF WaitQueueCreate, Running
    <3>2. CASE WaitQueueDestroy
      <4>1. PICK q \in made :
              /\ queue[q] = <<>> /\ made' = made \ {q}
              /\ queue' = [queue EXCEPT ![q] = <<>>]
        BY <3>2 DEF WaitQueueDestroy, Gentle
      <4>2. queue' = queue
        BY <1>b, <4>1
      <4> QED
        BY <3>2, <4>1, <4>2 DEF WaitQueueDestroy, Running
    <3> QED
      BY <1>12, <3>1, <3>2
  <2>2. QueuesHoldSleepers'
    BY <1>b, <2>1, QueuesKept DEF Calm
  <2>3. stack' = [stack EXCEPT ![curr_running] = here]
    BY <1>b, <2>1 DEF here
  <2> QED
    BY <1>b, <2>1, <2>2, <2>3, CalmCall DEF Suspended, Interruptible
<1>13. CASE Sleep
  <2>1. PICK q \in made : SleepOn(q, "user")
    BY <1>13 DEF Sleep
  <2>2. PICK t \in Tid \ {curr_running} :
          thread_index[t] = "ready" /\ Suspend("sleep", "user", enabled, t)
    BY <2>1 DEF SleepOn, find_ready
  <2>3. /\ outcome = "live" /\ here.at = "user"
        /\ thread_index' = [thread_index EXCEPT ![curr_running] = "sleep"]
        /\ queue' = [queue EXCEPT ![q] = Append(@, curr_running)]
        /\ UNCHANGED <<curr_running, setcontext_called, made, outcome>>
    BY <1>13, <2>1 DEF Sleep, Running, SleepOn, push_ele
  <2>4. thread_index[curr_running] = "running"
    BY <1>a, <2>3 DEF CallerRuns
  <2>5. QueuesHoldSleepers'
    BY <1>a, <2>3, <2>4, QueuesPush DEF Calm
  <2> QED
    BY <2>2, <2>3, <2>5, CalmSuspend DEF Suspended, Interruptible
<1>14. CASE Wakeup
  <2>1. PICK q \in made, all \in BOOLEAN : WakeOn(q, all)
    BY <1>14 DEF Wakeup
  <2>2. /\ outcome = "live" /\ here.at = "user"
        /\ UNCHANGED <<curr_running, setcontext_called, made, enabled, next,
                       stack, outcome>>
    BY <1>14, <2>1 DEF Wakeup, WakeOn, Running
  <2>3. QueuesHoldSleepers'
    BY <1>a, <2>1, <2>2, QueuesPop DEF Calm
  <2>4. \A t \in popped(q, all) : thread_index[t] = "sleep"
    <3>1. q \in Queues /\ queue[q] \in Seq(Tid) /\ queue[q] # <<>>
      BY <1>b, <2>1 DEF WakeOn
    <3>2. \A t \in popped(q, all) : \E i \in 1 .. Len(queue[q]) : t = queue[q][i]
      <4>1. 1 \in 1 .. Len(queue[q]) /\ Head(queue[q]) = queue[q][1]
        BY <3>1
      <4>2. DOMAIN queue[q] = 1 .. Len(queue[q])
        BY <3>1
      <4> QED
        BY <4>1, <4>2 DEF popped, Range
    <3> QED
      BY <2>2, <3>1, <3>2 DEF Calm, QueuesHoldSleepers
  <2>5. /\ thread_index' \in [Tid -> Status]
        /\ \A t \in Tid : \/ thread_index'[t] = thread_index[t]
                          \/ thread_index[t] = "sleep" /\ thread_index'[t] = "ready"
    BY <1>b, <2>1, <2>4 DEF WakeOn, Status
  <2>6. stack' = [stack EXCEPT ![curr_running] = here]
    BY <1>b, <2>2 DEF here
  <2> QED
    BY <1>b, <2>2, <2>3, <2>5, <2>6, CalmCall DEF Suspended, Interruptible
<1>15. CASE InterruptsSet
  <2>1. /\ outcome = "live" /\ here.at = "user"
        /\ UNCHANGED <<thread_index, curr_running, setcontext_called, queue,
                       made, next, outcome>>
    BY <1>15 DEF InterruptsSet, Running
  <2> DEFINE f == [here EXCEPT !.wants = ~enabled]
  <2>2. f \in Frame /\ f.at = "user"
    BY <1>b, <2>1 DEF Frame
  <2>3. stack' = [stack EXCEPT ![curr_running] = f]
    BY <1>15 DEF InterruptsSet, here
  <2> HIDE DEF f
  <2> QED
    BY <1>b, <1>c, <2>1, <2>2, <2>3, CalmCall DEF Suspended, Interruptible
<1>16. CASE StubExit
  BY <1>16 DEF StubExit, Stop, Calm, QueuesHoldSleepers
<1>17. CASE Fault
  <2>1. outcome' # "live"
    BY <1>17 DEF Fault, ThreadIdFault, CreateFault, KillFault, YieldFreesMain, YieldFault, SleepFault,
                 WakeupFault, ExitFault, Stop
  <2> QED
    BY <2>1 DEF Calm, QueuesHoldSleepers
<1>18. CASE Ended
  BY <1>18 DEF Ended, vars, Calm, QueuesHoldSleepers
<1>19. CASE ThreadIdCheck \/ ThreadIdRead
  <2>1. PICK f \in Frame : /\ f.at \in Interruptible
                           /\ stack' = [stack EXCEPT ![curr_running] = f]
    <3>1. \A i \in Tid : /\ [here EXCEPT !.at = "id_chk", !.arg = i] \in Frame
                         /\ [here EXCEPT !.at = "id_chk", !.arg = i].at = "id_chk"
      BY <1>b DEF Frame, At
    <3>2. /\ [here EXCEPT !.at = "user", !.arg = NoTid] \in Frame
          /\ [here EXCEPT !.at = "user", !.arg = NoTid].at = "user"
      BY <1>b DEF Frame, At
    <3> QED
      BY <1>19, <3>1, <3>2 DEF ThreadIdCheck, ThreadIdRead, Interruptible, here
  <2>2. /\ outcome = "live" /\ here.at \in Interruptible
        /\ UNCHANGED <<thread_index, curr_running, setcontext_called, queue,
                       made, enabled, next, outcome>>
    BY <1>19 DEF ThreadIdCheck, ThreadIdRead, Running, Interruptible
  <2> QED
    BY <1>b, <1>c, <2>1, <2>2, CalmCall DEF Suspended, Interruptible
<1> QED
  BY <1>1, <1>2, <1>3, <1>4, <1>5, <1>6, <1>7, <1>8, <1>9, <1>10, <1>11, <1>12,
     <1>13, <1>14, <1>15, <1>16, <1>17, <1>18, <1>19 DEF Next, Program, Library

(* What a disciplined program adds: none of its calls is interrupted.      *)
LEMMA UndisturbedStep ==
  ASSUME Disciplined, Inv, DInv, Next, outcome' = "live"
  PROVE  Undisturbed'
<1>a. /\ TypeOK /\ outcome = "live" /\ CallerOK /\ CallerRuns
      /\ NextReady /\ Undisturbed /\ curr_running \in Tid /\ here \in Frame
      /\ thread_index \in [Tid -> Status] /\ stack \in [Tid -> Frame]
      /\ \A t \in Tid \ {curr_running} : ParkedOK(t)
  <2>1. outcome = "live"
    BY DEF Next, Program, Preempt, Library, Fault, Ended, ThreadIdCheck, ThreadIdRead,
         Create, YieldAny, YieldTid,
         ThreadExit, StubExit, KillCheck, WaitQueueCreate, WaitQueueDestroy, Sleep,
         Wakeup, InterruptsSet, Stub, CreateReturn, Kill, YieldSwitch, YieldReturn,
         SleepSwitch, SleepReturn, ThreadIdFault, CreateFault, KillFault, YieldFreesMain, YieldFault,
         SleepFault, WakeupFault, ExitFault, Running, vars
  <2> QED
    BY <2>1 DEF Inv, DInv, Calm, TypeOK, here
<1>b. ASSUME NEW f, f.at \notin {"id_chk", "create_ret", "kill_chk"},
             f.at \in Suspended => f.back = "user",
             stack' = [stack EXCEPT ![curr_running] = f], curr_running' = curr_running
      PROVE  Undisturbed'
  <2>1. stack'[curr_running] = f /\ here' = f
    BY <1>a, <1>b DEF here
  <2>2. \A t \in Tid \ {curr_running} : stack'[t] = stack[t]
    BY <1>a, <1>b
  <2> QED
    BY <1>a, <1>b, <2>1, <2>2 DEF Undisturbed, VictimStays
<1>1. CASE Stub \/ ThreadIdRead \/ CreateReturn \/ InterruptsSet
  <2>1. PICK f : /\ f.at = "user"
                 /\ stack' = [stack EXCEPT ![curr_running] = f]
    <3>1. \A w \in BOOLEAN : [here EXCEPT !.wants = w].at = here.at
      BY <1>a DEF Frame
    <3>2. [here EXCEPT !.at = "user"].at = "user"
      BY <1>a DEF Frame
    <3>3. [here EXCEPT !.at = "user", !.arg = NoTid].at = "user"
      BY <1>a DEF Frame
    <3> QED
      BY <1>1, <3>1, <3>2, <3>3
         DEF Stub, ThreadIdRead, CreateReturn, InterruptsSet, Running, here
  <2> QED
    BY <1>1, <1>b, <2>1 DEF Stub, ThreadIdRead, CreateReturn, InterruptsSet, Suspended
<1>2. CASE YieldAny \/ YieldTid \/ Preempt \/ Sleep
  <2>1. PICK at \in Suspended, t \in Tid, mask \in {enabled, TRUE} :
           Suspend(at, "user", mask, t)
    BY <1>a, <1>2 DEF YieldAny, YieldTid, Preempt, Sleep, SleepOn, YieldStart, Suspended,
                      Undisturbed
  <2>2. PICK f : f = [here EXCEPT !.at = at, !.back = "user", !.interrupts_status = mask]
    OBVIOUS
  <2>3. f.at = at /\ f.back = "user"
    BY <1>a, <2>2 DEF Frame
  <2>4. stack' = [stack EXCEPT ![curr_running] = f] /\ curr_running' = curr_running
    BY <1>2, <2>1, <2>2 DEF Suspend, here, YieldAny, YieldTid, Preempt, Sleep, SleepOn,
                            YieldStart
  <2> QED
    BY <1>b, <2>3, <2>4 DEF Suspended
<1>3. CASE YieldReturn \/ SleepReturn
  <2>1. here.back = "user" /\ Resume
    BY <1>a, <1>3 DEF YieldReturn, SleepReturn, Running, Undisturbed, Suspended, here
  <2>2. PICK f : f = [here EXCEPT !.at = "user", !.back = "none",
                                  !.interrupts_status = FALSE]
    OBVIOUS
  <2>3. f.at = "user"
    BY <1>a, <2>2 DEF Frame
  <2>4. stack' = [stack EXCEPT ![curr_running] = f] /\ curr_running' = curr_running
    BY <2>1, <2>2 DEF Resume, here
  <2> QED
    BY <1>b, <2>3, <2>4 DEF Suspended
<1>4. CASE YieldSwitch \/ SleepSwitch
  <2>1. /\ here.at \in Suspended /\ ~setcontext_called[curr_running]
        /\ curr_running' = next /\ stack' = stack
    BY <1>4 DEF YieldSwitch, SleepSwitch, Running, Switch, Suspended
  <2>2. next \in Tid /\ next # curr_running
    BY <1>a, <2>1 DEF CallerOK, NextReady, CallerRuns
  <2>3. here'.at \in {"stub"} \cup Suspended
    <3>1. ParkedOK(next) /\ thread_index[next] = "ready" /\ here' = stack[next]
      BY <1>a, <2>1, <2>2 DEF NextReady, here
    <3> QED
      BY <3>1 DEF ParkedOK
  <2> QED
    BY <1>a, <2>1, <2>3 DEF Undisturbed, VictimStays, Suspended
<1>5. CASE ThreadExit
  <2>1. PICK t \in Tid \ {curr_running} : thread_index[t] = "ready" /\ curr_running' = t
    BY <1>5 DEF ThreadExit, find_ready, Switch
  <2>2. stack' = [stack EXCEPT ![curr_running] = Fresh("none")]
    BY <1>5 DEF ThreadExit
  <2>3. /\ stack'[curr_running].at = "none"
        /\ \A u \in Tid \ {curr_running} : stack'[u] = stack[u]
    BY <1>a, <2>2 DEF Fresh
  <2>4. here'.at \in {"stub"} \cup Suspended
    BY <1>a, <2>1, <2>3 DEF ParkedOK, here
  <2> QED
    BY <1>a, <2>3, <2>4 DEF Undisturbed, VictimStays, Suspended
<1>6. CASE Create
  <2>1. PICK n \in Tid :
          /\ thread_index[n] = "NULL"
          /\ thread_index' = [thread_index EXCEPT ![n] = "ready"]
          /\ stack' = [stack EXCEPT ![n] = Fresh("stub"),
                                    ![curr_running] =
                         [@ EXCEPT !.at = "create_ret", !.arg = n]]
    BY <1>6 DEF Create, tid_generator
  <2>2. /\ here.at = "user" /\ ~(Preemptive /\ enabled')
        /\ curr_running' = curr_running /\ n # curr_running
    BY <1>a, <1>6, <2>1 DEF Create, Running, MayCall, Disciplined, CallerRuns
  <2>3. /\ stack'[n] = Fresh("stub")
        /\ stack'[curr_running] = [here EXCEPT !.at = "create_ret", !.arg = n]
        /\ \A t \in Tid \ {n, curr_running} : stack'[t] = stack[t]
    BY <1>a, <2>1, <2>2 DEF here
  <2>4. here'.at = "create_ret" /\ here'.arg = n /\ stack'[n].at = "stub"
    BY <1>a, <2>2, <2>3 DEF here, Frame, Fresh
  <2>5. ASSUME NEW t \in Tid, stack'[t].at \in Suspended
        PROVE  stack'[t].back = "user"
    <3>1. t \in Tid \ {n, curr_running}
      BY <2>2, <2>4, <2>5 DEF here, Suspended
    <3> QED
      BY <1>a, <2>3, <2>5, <3>1 DEF Undisturbed, VictimStays
  <2> QED
    BY <1>a, <2>1, <2>2, <2>4, <2>5 DEF Undisturbed, VictimStays
<1>7. CASE KillCheck
  <2>1. PICK t \in Tid :
          /\ t # 0 /\ thread_index[t] \in {"ready", "killed"}
          /\ stack' = [stack EXCEPT ![curr_running] =
                        [@ EXCEPT !.at = "kill_chk", !.arg = t]]
    BY <1>7 DEF KillCheck, killable, Disciplined
  <2>2. /\ here.at = "user" /\ ~(Preemptive /\ enabled')
        /\ UNCHANGED <<thread_index, curr_running>>
    BY <1>7 DEF KillCheck, Running, MayCall, Disciplined
  <2>3. here'.at = "kill_chk" /\ here'.arg = t
    BY <1>a, <2>1, <2>2 DEF here, Frame
  <2>4. \A u \in Tid \ {curr_running} : stack'[u] = stack[u]
    BY <1>a, <2>1
  <2> QED
    BY <1>a, <2>1, <2>2, <2>3, <2>4 DEF Undisturbed, VictimStays, Suspended, here
<1>8. CASE Kill
  <2> PICK k : k = here.arg
    OBVIOUS
  <2>1. /\ stack' = [stack EXCEPT ![k] = Fresh("none"),
                                  ![curr_running] =
                       [@ EXCEPT !.at = "user", !.arg = NoTid]]
        /\ curr_running' = curr_running /\ k \in Tid \ {curr_running}
    BY <1>a, <1>8 DEF Kill, Running, Inv, FrameOK, here
  <2>2. /\ stack'[k] = Fresh("none")
        /\ stack'[curr_running] = [here EXCEPT !.at = "user", !.arg = NoTid]
        /\ \A t \in Tid \ {k, curr_running} : stack'[t] = stack[t]
    BY <1>a, <2>1 DEF here
  <2>3. here'.at = "user" /\ stack'[k].at = "none"
    BY <1>a, <2>1, <2>2 DEF here, Frame, Fresh
  <2>4. ASSUME NEW t \in Tid, stack'[t].at \in Suspended
        PROVE  stack'[t].back = "user"
    <3>1. t \in Tid \ {k, curr_running}
      BY <2>1, <2>3, <2>4 DEF here, Suspended
    <3> QED
      BY <1>a, <2>2, <2>4, <3>1 DEF Undisturbed, VictimStays
  <2> QED
    BY <2>3, <2>4 DEF Undisturbed, VictimStays
<1>9. CASE WaitQueueCreate \/ WaitQueueDestroy \/ Wakeup
  <2>1. here.at = "user" /\ stack' = stack /\ curr_running' = curr_running
    BY <1>9 DEF WaitQueueCreate, WaitQueueDestroy, Wakeup, WakeOn, Running
  <2> QED
    BY <1>a, <2>1 DEF Undisturbed, VictimStays, here
<1>10. CASE StubExit \/ Fault \/ Ended
  BY <1>a, <1>10 DEF StubExit, Fault, ThreadIdFault, CreateFault, KillFault, YieldFreesMain, YieldFault,
                     SleepFault, WakeupFault, ExitFault, Stop, Ended, vars
<1>11. CASE ThreadIdCheck
  <2>1. PICK i \in Tid :
          /\ thread_index[i] # "NULL"
          /\ stack' = [stack EXCEPT ![curr_running] =
                        [@ EXCEPT !.at = "id_chk", !.arg = i]]
    BY <1>11 DEF ThreadIdCheck
  <2>2. /\ here.at = "user" /\ ~(Preemptive /\ enabled')
        /\ UNCHANGED <<thread_index, curr_running>>
    BY <1>11 DEF ThreadIdCheck, Running, MayCall, Disciplined
  <2>3. here'.at = "id_chk" /\ here'.arg = i
    BY <1>a, <2>1, <2>2 DEF here, Frame
  <2>4. \A u \in Tid \ {curr_running} : stack'[u] = stack[u]
    BY <1>a, <2>1
  <2> QED
    BY <1>a, <2>1, <2>2, <2>3, <2>4 DEF Undisturbed, VictimStays, Suspended, here
<1> QED
  BY <1>1, <1>2, <1>3, <1>4, <1>5, <1>6, <1>7, <1>8, <1>9, <1>10, <1>11
     DEF Next, Program, Library

LEMMA NoFaultStep ==
  ASSUME Inv, DInv, Next
  PROVE  NoFault'
<1>a. /\ outcome = "live" => CallerRuns /\ NextReady /\ Undisturbed
                               /\ thread_index[0] # "killed"
      /\ made \subseteq Queues /\ queue \in [Queues -> Seq(Tid)]
      /\ curr_running \in Tid /\ NoFault
  BY DEF Inv, TypeOK, DInv, Calm
<1>1. CASE ~Fault
  BY <1>a, <1>1 DEF NoFault, Next, Program, Preempt, Library, Ended, vars,
     ThreadIdCheck, ThreadIdRead, Create,
     YieldAny, YieldTid, YieldStart, ThreadExit, StubExit, KillCheck, WaitQueueCreate,
     WaitQueueDestroy, Sleep, SleepOn, Wakeup, WakeOn, InterruptsSet, Stub, CreateReturn,
     Kill, YieldSwitch, YieldReturn, SleepSwitch, SleepReturn, Resume, Stop
<1>2. CASE Fault
  <2>1. ~ThreadIdFault /\ ~CreateFault
    BY <1>a DEF ThreadIdFault, CreateFault, Running, Undisturbed
  <2>2. ~KillFault
    BY <1>a DEF KillFault, Running, Undisturbed, VictimStays
  <2>3. ~YieldFreesMain
    BY <1>a DEF YieldFreesMain, Running
  <2>4. ~YieldFault
    BY <1>a DEF YieldFault, Running, NextReady, Suspended
  <2>5. ~SleepFault /\ ~ExitFault
    BY <1>a DEF SleepFault, ExitFault, find_ready, Running, CallerRuns
  <2>6. ~WakeupFault
    <3>1. ASSUME outcome = "live", NEW q \in made, NEW all \in BOOLEAN,
                 queue[q] # <<>>, NEW t \in popped(q, all)
          PROVE  thread_index[t] = "sleep"
      <4>1. q \in Queues /\ queue[q] \in Seq(Tid)
        BY <1>a
      <4>2. 1 \in 1 .. Len(queue[q]) /\ Head(queue[q]) = queue[q][1]
        BY <3>1, <4>1
      <4>3. DOMAIN queue[q] = 1 .. Len(queue[q])
        BY <4>1
      <4>4. \E i \in 1 .. Len(queue[q]) : t = queue[q][i]
        BY <3>1, <4>2, <4>3 DEF popped, Range
      <4> QED
        BY <3>1, <4>1, <4>4 DEF DInv, Calm, QueuesHoldSleepers
    <3> QED
      BY <3>1 DEF WakeupFault, Running
  <2> QED
    BY <1>2, <2>1, <2>2, <2>3, <2>4, <2>5, <2>6 DEF Fault
<1> QED
  BY <1>1, <1>2

LEMMA DisciplineStep ==
  ASSUME Disciplined, Inv, DInv, Next
  PROVE  DInv'
<1>1. Gentle /\ Calm /\ VictimStays
  BY DEF Disciplined, Gentle, DInv, Undisturbed, VictimStays
<1> QED
  BY <1>1, CalmStep, UndisturbedStep, NoFaultStep DEF DInv

LEMMA DisciplineHolds ==
  ASSUME Disciplined
  PROVE  Spec => [](Inv /\ DInv)
<1>1. Init => Inv /\ DInv
  BY InitInv, DisciplineInit
<1>2. Inv /\ DInv /\ [Next]_vars => (Inv /\ DInv)'
  <2>1. Inv /\ DInv /\ Next => (Inv /\ DInv)'
    BY StepInv, DisciplineStep
  <2>2. Inv /\ UNCHANGED vars => Inv'
    BY DEF Inv, TypeOK, CallerOK, FrameOK, ParkedOK, here, vars
  <2>3. DInv /\ UNCHANGED vars => DInv'
    BY DEF DInv, Calm, NoFault, QueuesHoldSleepers, CallerRuns, NextReady, Undisturbed,
           VictimStays, here, vars
  <2> QED
    BY <2>1, <2>2, <2>3
<1> QED
  BY <1>1, <1>2, PTL DEF Spec

(* Every sleeper of a disciplined program is in exactly one node of one    *)
(* wait queue, and every node holds a sleeper, for any number of threads   *)
(* and queues.                                                             *)
THEOREM QueuesHoldSleepersHolds ==
  ASSUME Disciplined
  PROVE  Spec => []QueuesHoldSleepers
<1>1. DInv => QueuesHoldSleepers
  BY DEF DInv, Calm
<1> QED
  BY <1>1, DisciplineHolds, PTL

(* A disciplined program never makes the library touch a NULL slot, a dead *)
(* thread or a static block, or fail an assertion.                         *)
THEOREM NoFaultHolds ==
  ASSUME Disciplined
  PROVE  Spec => []NoFault
<1>1. DInv => NoFault
  BY DEF DInv
<1> QED
  BY <1>1, DisciplineHolds, PTL

(* thread_id() names the caller in every disciplined program.              *)
THEOREM ThreadIdHolds ==
  ASSUME Disciplined
  PROVE  Spec => []ThreadIdIsCaller
<1>1. Inv /\ DInv => ThreadIdIsCaller
  BY DEF Inv, TypeOK, DInv, Calm, CallerRuns, ParkedOK, ThreadIdIsCaller
<1> QED
  BY <1>1, DisciplineHolds, PTL

-----------------------------------------------------------------------------
(* Threads implements Scheduler.                                           *)

LEMMA SeenState ==
  SchedulerState =
    [t \in Tid |-> IF t = curr_running THEN "running" ELSE Seen(thread_index[t])]
  BY DEF SchedulerState

LEMMA SeenStatePrime ==
  SchedulerState' =
    [t \in Tid |-> IF t = curr_running' THEN "running" ELSE Seen(thread_index'[t])]
  BY DEF SchedulerState

(* Steps in which the abstract scheduler stands still.                     *)
LEMMA SchedStutter ==
  ASSUME curr_running' = curr_running,
         \A t \in Tid \ {curr_running} : Seen(thread_index'[t]) = Seen(thread_index[t])
  PROVE  UNCHANGED Sched!vars
<1>1. SchedulerState' = SchedulerState
  BY SeenState, SeenStatePrime
<1> QED
  BY <1>1 DEF Sched!vars

LEMMA SchedDispatch ==
  ASSUME NEW n \in Tid, n # curr_running, curr_running \in Tid,
         curr_running' = n, thread_index[n] = "ready",
         \A t \in Tid \ {n, curr_running} : Seen(thread_index'[t]) = Seen(thread_index[t])
  PROVE  Sched!Next
<1> DEFINE becomes == Seen(thread_index'[curr_running])
<1>1. becomes \in {"ready", "blocked", "none"}
  BY DEF Seen
<1>2. SchedulerState[n] = "ready"
  BY SeenState DEF Seen
<1>3. SchedulerState' = [SchedulerState EXCEPT ![curr_running] = becomes, ![n] = "running"]
  BY SeenState, SeenStatePrime
<1>4. Sched!Dispatch(n, becomes)
  BY <1>1, <1>2, <1>3 DEF Sched!Dispatch
<1> QED
  BY <1>1, <1>4 DEF Sched!Next

LEMMA SchedStep ==
  ASSUME Disciplined, Inv, DInv, Next
  PROVE  Sched!Next \/ UNCHANGED Sched!vars
<1>a. /\ TypeOK
      /\ outcome = "live" => CallerOK /\ CallerRuns /\ NextReady /\ FrameOK(curr_running)
  BY DEF Inv, DInv, Calm, TypeOK
<1>b. /\ curr_running \in Tid /\ thread_index \in [Tid -> Status]
      /\ made \subseteq Queues /\ queue \in [Queues -> Seq(Tid)]
  BY <1>a DEF TypeOK
<1>1. CASE Create
  <2>1. PICK n \in Tid :
          /\ thread_index[n] = "NULL"
          /\ thread_index' = [thread_index EXCEPT ![n] = "ready"]
    BY <1>1 DEF Create, tid_generator
  <2>2. curr_running' = curr_running /\ n # curr_running
    BY <1>1, <1>a, <2>1 DEF Create, Running, CallerRuns
  <2>3. SchedulerState[n] = "none"
    BY <2>1, <2>2, SeenState DEF Seen
  <2>4. SchedulerState' = [SchedulerState EXCEPT ![n] = "ready"]
    BY <1>b, <2>1, <2>2, SeenState, SeenStatePrime DEF Seen
  <2>5. Sched!Spawn(n)
    BY <2>2, <2>3, <2>4 DEF Sched!Spawn
  <2> QED
    BY <2>5 DEF Sched!Next
<1>2. CASE YieldSwitch
  <2>1. /\ outcome = "live" /\ here.at = "yield"
        /\ ~setcontext_called[curr_running]
        /\ thread_index' = [requeued EXCEPT ![next] = "running"]
        /\ curr_running' = next
    BY <1>2 DEF YieldSwitch, Running, Switch
  <2>2. next \in Tid /\ thread_index[next] = "ready" /\ next # curr_running
    BY <1>a, <2>1 DEF CallerOK, CallerRuns, NextReady, Suspended
  <2>3. \A t \in Tid \ {next, curr_running} :
          Seen(thread_index'[t]) = Seen(thread_index[t])
    BY <1>b, <2>1, <2>2 DEF requeued, free_killed, Seen
  <2> QED
    BY <1>b, <2>1, <2>2, <2>3, SchedDispatch
<1>3. CASE SleepSwitch
  <2>1. /\ outcome = "live" /\ here.at = "sleep"
        /\ ~setcontext_called[curr_running]
        /\ thread_index' = [thread_index EXCEPT ![next] = "running"]
        /\ curr_running' = next
    BY <1>3 DEF SleepSwitch, Running, Switch
  <2>2. next \in Tid /\ thread_index[next] = "ready" /\ next # curr_running
    BY <1>a, <2>1 DEF CallerOK, CallerRuns, NextReady, Suspended
  <2>3. \A t \in Tid \ {next, curr_running} :
          Seen(thread_index'[t]) = Seen(thread_index[t])
    BY <1>b, <2>1, <2>2
  <2> QED
    BY <1>b, <2>1, <2>2, <2>3, SchedDispatch
<1>4. CASE ThreadExit
  <2>1. PICK t \in Tid \ {curr_running} :
          /\ thread_index[t] = "ready" /\ curr_running' = t
          /\ thread_index' = [thread_index EXCEPT ![curr_running] = "killed",
                                                  ![t] = "running"]
    BY <1>4 DEF ThreadExit, find_ready, Switch
  <2>2. \A u \in Tid \ {t, curr_running} :
          Seen(thread_index'[u]) = Seen(thread_index[u])
    BY <1>b, <2>1
  <2> QED
    BY <1>b, <2>1, <2>2, SchedDispatch
<1>5. CASE Wakeup
  <2>1. PICK q \in made, all \in BOOLEAN : WakeOn(q, all)
    BY <1>5 DEF Wakeup
  <2>2. outcome = "live" /\ here.at = "user" /\ curr_running' = curr_running
    BY <1>5, <2>1 DEF Wakeup, WakeOn, Running
  <2>3. \A t \in popped(q, all) : t \in Tid /\ thread_index[t] = "sleep"
    <3>1. q \in Queues /\ queue[q] \in Seq(Tid) /\ queue[q] # <<>>
      BY <1>b, <2>1 DEF WakeOn
    <3>2. 1 \in 1 .. Len(queue[q]) /\ Head(queue[q]) = queue[q][1]
      BY <3>1
    <3>3. DOMAIN queue[q] = 1 .. Len(queue[q])
      BY <3>1
    <3>4. \A t \in popped(q, all) : \E i \in 1 .. Len(queue[q]) : t = queue[q][i]
      BY <3>2, <3>3 DEF popped, Range
    <3> QED
      BY <2>2, <3>1, <3>4 DEF DInv, Calm, QueuesHoldSleepers
  <2> DEFINE S == popped(q, all)
  <2>4. curr_running \notin S
    BY <1>a, <2>2, <2>3 DEF CallerRuns
  <2>5. S \in SUBSET Tid /\ \A t \in S : SchedulerState[t] = "blocked"
    BY <2>3, <2>4, SeenState DEF Seen
  <2>6. SchedulerState' = [t \in Tid |-> IF t \in S THEN "ready" ELSE SchedulerState[t]]
    BY <2>1, <2>2, <2>4, SeenState, SeenStatePrime DEF WakeOn, Seen
  <2>7. Sched!Wake(S)
    BY <2>2, <2>5, <2>6 DEF Sched!Wake
  <2> QED
    BY <2>5, <2>7 DEF Sched!Next
<1>6. CASE Kill
  <2>1. /\ outcome = "live" /\ here.at = "kill_chk"
        /\ here.arg \in Tid \ {curr_running} /\ curr_running' = curr_running
        /\ thread_index' = [thread_index EXCEPT ![here.arg] = "NULL"]
    BY <1>6, <1>a DEF Kill, Running, FrameOK, here
  <2> PICK k \in Tid \ {curr_running} : k = here.arg
    BY <2>1
  <2>2. thread_index' = [thread_index EXCEPT ![k] = "NULL"]
    BY <2>1
  <2>3. CASE Seen(thread_index[k]) = "none"
    BY <1>b, <2>1, <2>2, <2>3, SchedStutter DEF Seen
  <2>4. CASE Seen(thread_index[k]) # "none"
    <3>1. SchedulerState[k] # "none"
      BY <2>4, SeenState
    <3>2. SchedulerState' = [SchedulerState EXCEPT ![k] = "none"]
      BY <1>b, <2>1, <2>2, SeenState, SeenStatePrime DEF Seen
    <3>3. Sched!Remove(k)
      BY <2>1, <3>1, <3>2 DEF Sched!Remove
    <3> QED
      BY <3>3 DEF Sched!Next
  <2> QED
    BY <2>3, <2>4
<1>7. CASE \/ Stub \/ ThreadIdCheck \/ ThreadIdRead \/ CreateReturn
           \/ KillCheck \/ InterruptsSet
           \/ WaitQueueCreate \/ WaitQueueDestroy \/ YieldAny \/ YieldTid
           \/ Preempt \/ StubExit \/ Fault \/ Ended \/ SleepReturn
  <2>1. curr_running' = curr_running /\ thread_index' = thread_index
    BY <1>7 DEF Stub, ThreadIdCheck, ThreadIdRead, CreateReturn, KillCheck,
       InterruptsSet, WaitQueueCreate, WaitQueueDestroy, YieldAny, YieldTid, Preempt, YieldStart, StubExit,
       Fault, ThreadIdFault, CreateFault, KillFault, YieldFreesMain, YieldFault, SleepFault,
       WakeupFault, ExitFault, Stop, Ended, vars, SleepReturn, Resume
  <2> QED
    BY <2>1, SchedStutter
<1>8. CASE Sleep
  <2>1. /\ curr_running' = curr_running
        /\ thread_index' = [thread_index EXCEPT ![curr_running] = "sleep"]
    BY <1>8 DEF Sleep, SleepOn
  <2> QED
    BY <1>b, <2>1, SchedStutter
<1>9. CASE YieldReturn
  <2>1. curr_running' = curr_running /\ thread_index' = free_killed
    BY <1>9 DEF YieldReturn, Resume
  <2> QED
    BY <1>b, <2>1, SchedStutter DEF free_killed, Seen
<1> QED
  BY <1>1, <1>2, <1>3, <1>4, <1>5, <1>6, <1>7, <1>8, <1>9 DEF Next, Program, Library

(* For any number of threads, a disciplined program's threads behave as    *)
(* the abstract scheduler's: switches, wakeups, exits and kills all map to *)
(* its steps, everything else to stuttering.                               *)
THEOREM ThreadsImplementScheduler ==
  ASSUME Disciplined
  PROVE  Spec => ImplementsScheduler
<1>1. Init => Sched!Init
  <2>1. 0 \in Tid
    BY ThreadsAssumption DEF Tid
  <2> QED
    BY <2>1, SeenState DEF Init, Sched!Init, Seen
<1>2. Inv /\ DInv /\ [Next]_vars => [Sched!Next]_(Sched!vars)
  <2>1. UNCHANGED vars => UNCHANGED Sched!vars
    BY DEF vars, Sched!vars, SchedulerState
  <2> QED
    BY <2>1, SchedStep
<1> QED
  BY <1>1, <1>2, DisciplineHolds, PTL DEF Spec, ImplementsScheduler, Sched!Spec
=============================================================================
