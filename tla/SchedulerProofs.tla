--------------------------- MODULE SchedulerProofs ---------------------------
(***************************************************************************)
(* Proofs about Scheduler, for every number of tasks, priorities, event    *)
(* bits and every clock range.                                             *)
(*                                                                         *)
(* The inductive invariant Inv has four parts.  TypeOK and the first of    *)
(* them, SwitchTargetsReady, are inductive together: the set-up calls need *)
(* an inactive run, in which no task is current, and handlers only turn    *)
(* BLOCKED tasks into READY ones.  WaitInv (no lost wake-up, every BLOCKED *)
(* task can wake) needs that the calling task is READY.  DispatchDue       *)
(* strengthens HighestPriorityRuns to states in which a handler or a       *)
(* PendSV dispatch is under way: the CPU is owed to nobody, or PendSV is   *)
(* pending, or a handler is about to pend it.                              *)
(*                                                                         *)
(* On top of Inv, RunInv ties the count of completed tasks to the table,   *)
(* for the end of a run.  Deadlines need no further invariant: OneTickOn   *)
(* is the arithmetic of the wrapping clock, and each step is looked at for *)
(* what it does to a deadline and to the ticks that are left of it.        *)
(***************************************************************************)
EXTENDS Scheduler, TLAPS, FiniteSetTheorems, WellFoundedInduction

\* Every non-empty set of naturals has a least element.
LEMMA LeastNatural ==
    ASSUME NEW S \in SUBSET Nat, S # {}
    PROVE  \E x \in S : \A y \in S : x <= y
<1>1. PICK x \in S : \A y \in S : <<y, x>> \notin OpToRel(<, Nat)
    BY WFMin, NatLessThanWellFounded, Zenon
<1>2. \A y \in S : ~ (y < x)
    BY <1>1 DEF OpToRel
<1> QED
    BY <1>2

\* A natural-valued function on a non-empty set has a least value.
LEMMA LeastValue ==
    ASSUME NEW S, S # {}, NEW f \in [S -> Nat]
    PROVE  \E x \in S : \A y \in S : f[x] <= f[y]
<1>1. \E m \in {f[x] : x \in S} : \A n \in {f[x] : x \in S} : m <= n
    BY LeastNatural, ZenonT(60)
<1> QED
    BY <1>1

\* scheduler_select_next_ready(): SCHEDULER_NO_TASK exactly when no task is READY,
\* otherwise a READY task that no READY task outranks.
LEMMA SelectNextReadyChooses ==
    ASSUME NEW st \in [Task -> {"UNUSED", "READY", "BLOCKED", "DONE"}],
           NEW pr \in [Task -> Priority], NEW after \in Task
    PROVE  LET next == SelectNextReady(st, pr, after)
           IN IF Ready(st) = {} THEN next = NoTask
              ELSE /\ next \in Task
                   /\ next # NoTask
                   /\ st[next] = "READY"
                   /\ \A j \in Ready(st) : pr[next] <= pr[j]
<1> DEFINE best == {i \in Ready(st) : \A j \in Ready(st) : pr[i] <= pr[j]}
           first(i) == \A j \in best : ScanOffset(after, i) <= ScanOffset(after, j)
           next == SelectNextReady(st, pr, after)
<1>1. CASE Ready(st) = {}
    BY <1>1 DEF SelectNextReady
<1>2. CASE Ready(st) # {}
    <2>1. \E i \in Ready(st) : \A j \in Ready(st) : pr[i] <= pr[j]
        <3> DEFINE f == [i \in Ready(st) |-> pr[i]]
        <3>1. f \in [Ready(st) -> Nat]
            BY DEF Ready, Priority
        <3>2. \E i \in Ready(st) : \A j \in Ready(st) : f[i] <= f[j]
            <4> HIDE DEF f
            <4> QED  BY <1>2, <3>1, LeastValue
        <3> QED  BY <3>2
    <2>2. \E i \in best : first(i)
        <3> DEFINE g == [i \in best |-> ScanOffset(after, i)]
        <3>1. g \in [best -> Nat]
            BY SchedulerAssumption DEF ScanOffset, Ready, Task
        <3>2. \E i \in best : \A j \in best : g[i] <= g[j]
            <4>1. best # {}
                BY <2>1
            <4> HIDE DEF g, best
            <4> QED  BY <4>1, <3>1, LeastValue
        <3> QED  BY <3>2
    <2>3. next = CHOOSE i \in best : first(i)
        BY <1>2 DEF SelectNextReady
    <2>4. next \in best
        <3> HIDE DEF best, first
        <3> QED  BY <2>2, <2>3
    <2> QED
        BY <1>2, <2>4, SchedulerAssumption DEF Ready, Task, NoTask
<1> QED
    BY <1>1, <1>2

TaskState == {"UNUSED", "READY", "BLOCKED", "DONE"}

\* The end of scheduler_svc_dispatch() leaves a READY task of the best priority
\* current, or no task and PendSV clear.
LEMMA RescheduleStep ==
    ASSUME TypeOK, current \in Task, NEW st \in [Task -> TaskState], NEW done,
           Reschedule(st, done)
    PROVE  /\ current' \in Task \cup {NoTask}
           /\ active' \in BOOLEAN /\ runResult' \in BOOLEAN /\ preempt' \in BOOLEAN
           /\ pendsv' \in BOOLEAN
           /\ host' \in {"loop", host}
           /\ IF current' = NoTask THEN pendsv' = FALSE
              ELSE /\ UNCHANGED <<runVars, pendsv, host>>
                   /\ st[current'] = "READY"
                   /\ \A j \in Ready(st) : priority[current'] <= priority[j]
<1> DEFINE next == SelectNextReady(st, priority, current)
<1>0. /\ priority \in [Task -> Priority]
      /\ <<active, runResult, preempt, pendsv>> \in BOOLEAN \X BOOLEAN \X BOOLEAN \X BOOLEAN
    BY DEF TypeOK
<1>1. CASE next # NoTask
    <2>1. /\ next \in Task
          /\ st[next] = "READY"
          /\ \A j \in Ready(st) : priority[next] <= priority[j]
        BY <1>0, <1>1, SelectNextReadyChooses DEF TaskState
    <2>2. current' = next /\ UNCHANGED <<runVars, pendsv, host>>
        BY <1>1 DEF Reschedule
    <2> HIDE DEF next
    <2> QED
        BY <1>0, <1>1, <2>1, <2>2 DEF runVars
<1>2. CASE next = NoTask
    BY <1>0, <1>2 DEF Reschedule, Abort, runVars
<1> QED
    BY <1>1, <1>2

\* Deadlines stay on the wrapping clock.
LEMMA ClockAddType ==
    ASSUME NEW t \in Clock, NEW n \in 0..(2 * HalfRange - 1)
    PROVE  ClockAdd(t, n) \in Clock
    BY SchedulerAssumption DEF ClockAdd, Clock

\* The constants lie in the ranges of the variables they initialise.
LEMMA ConstantTypes ==
    /\ \A i \in Task : i # NoTask
    /\ 0 \in Clock /\ 0 \in Nat
    /\ {} \in Mask /\ One \in Mask
    /\ Default \in Priority
    BY SchedulerAssumption DEF Task, NoTask, Clock, Mask, One, Bit

\* scheduler_init() and static storage have the right types.
LEMMA TypeOKInit == Init => TypeOK
    BY ConstantTypes, ZenonT(60) DEF Init, TypeOK

\* A call that returns at once keeps the types.
LEMMA ReturnNowType ==
    ASSUME TypeOK, current \in Task, NEW result \in Mask, ReturnNow(result),
           pending' \in Mask,
           UNCHANGED <<setupVars, countVars, runEvents, now, eventReg, irq, sel, fault>>
    PROVE  TypeOK'
    BY ConstantTypes, ZenonT(60)
       DEF TypeOK, ReturnNow, runVars, setupVars, countVars

\* A call that blocks its task keeps the types.
LEMMA BlockType ==
    ASSUME TypeOK, current \in Task, NEW e \in Mask, NEW t \in Clock, NEW a \in BOOLEAN,
           wait' = [wait EXCEPT ![current] = e],
           deadline' = [deadline EXCEPT ![current] = t],
           deadlineActive' = [deadlineActive EXCEPT ![current] = a],
           r0' = [r0 EXCEPT ![current] = e],
           state' = [state EXCEPT ![current] = "BLOCKED"],
           Reschedule(state', completed),
           remaining' \in [Task -> Nat],
           UNCHANGED <<pending, setupVars, countVars, runEvents, now, eventReg, irq,
                       sel, fault>>
    PROVE  TypeOK'
<1>1. state' \in [Task -> TaskState]
    BY DEF TypeOK, TaskState
<1>2. /\ current' \in Task \cup {NoTask}
      /\ active' \in BOOLEAN /\ runResult' \in BOOLEAN /\ preempt' \in BOOLEAN
      /\ pendsv' \in BOOLEAN
      /\ host' \in {"loop", host}
    BY <1>1, RescheduleStep
<1> QED
    BY <1>1, <1>2, Zenon DEF TypeOK, TaskState, setupVars, countVars

\* Every step keeps the types.
LEMMA TypeOKStep ==
    ASSUME TypeOK, [Next]_vars
    PROVE  TypeOK'
<1> USE DEF TypeOK, vars, taskVars, setupVars, runVars, countVars, eventVars
<1>1. CASE SchedulerInit
    BY <1>1, ConstantTypes DEF SchedulerInit
<1>2. ASSUME NEW i \in Task, NEW p \in Priority, TaskPrioritySet(i, p)
      PROVE  TypeOK'
    BY <1>2 DEF TaskPrioritySet
<1>3. ASSUME NEW i \in Task, TaskStackBind(i)
      PROVE  TypeOK'
    BY ConstantTypes, <1>3 DEF TaskStackBind
<1>4. ASSUME NEW i \in Task, TaskPrepare(i)
      PROVE  TypeOK'
    BY ConstantTypes, <1>4 DEF TaskPrepare
<1>5. ASSUME NEW m \in BOOLEAN, StartMode(m)
      PROVE  TypeOK'
    <2>1. Cardinality(Ready(state)) \in Nat
        <3>1. IsFiniteSet(Task)
            BY FS_Interval, SchedulerAssumption DEF Task
        <3> QED
            BY <3>1, FS_Subset, FS_CardinalityType DEF Ready
    <2> QED
        BY <1>5, <2>1 DEF StartMode, Mask
<1>6. CASE Svc0
    <2>1. LET next == SelectNextReady(state, priority, TaskCount - 1)
          IN next \in Task \cup {NoTask}
        <3>1. TaskCount - 1 \in Task
            BY SchedulerAssumption DEF Task
        <3> QED
            BY <3>1, SelectNextReadyChooses
    <2> QED
        BY <1>6, <2>1 DEF Svc0, Abort
<1>7. CASE HostClassify
    BY <1>7 DEF HostClassify, Abort
<1>8. CASE Wfe \/ WfeSpurious \/ HostReturn
    BY <1>8, ZenonT(60) DEF Wfe, WfeSpurious, HostReturn
<1>9. CASE SvcYield
    BY <1>9, RescheduleStep DEF SvcYield, TaskRuns, TaskState
<1>10. CASE SvcExit
    <2>1. current \in Task /\ state' \in [Task -> TaskState]
        BY <1>10 DEF SvcExit, TaskRuns, TaskState
    <2>2. Reschedule(state', completed')
        BY <1>10 DEF SvcExit
    <2>3. completed + 1 \in Nat
        OBVIOUS
    <2> QED
        BY <1>10, <2>1, <2>2, <2>3, ConstantTypes, RescheduleStep, Zenon
           DEF SvcExit, TaskState
<1>11. ASSUME NEW e \in Mask, SvcWaitEvents(e)
       PROVE  TypeOK'
    <2>1. current \in Task /\ pending \cap e \in Mask /\ pending \ e \in Mask
        BY <1>11 DEF SvcWaitEvents, TaskRuns, Mask
    <2>2. CASE pending \cap e # {}
        BY <1>11, <2>1, <2>2, ReturnNowType DEF SvcWaitEvents, Mask
    <2>3. CASE pending \cap e = {}
        BY <1>11, <2>1, <2>3, ConstantTypes, BlockType DEF SvcWaitEvents
    <2> QED
        BY <2>2, <2>3
<1>12. ASSUME NEW e \in Mask, NEW d \in Timeouts, SvcTimedBlock(e, d)
       PROVE  TypeOK'
    <2>1. d \in Nat /\ ClockAdd(now, d) \in Clock
        BY ClockAddType, SchedulerAssumption DEF MaxTimeout
    <2>2. current \in Task /\ pending \cap e \in Mask /\ pending \ e \in Mask
        BY <1>12 DEF SvcTimedBlock, TaskRuns, Mask
    <2>3. CASE pending \cap e # {}
        BY <1>12, <2>2, <2>3, ReturnNowType DEF SvcTimedBlock, Mask
    <2>4. CASE pending \cap e = {} /\ d = 0
        BY <1>12, <2>2, <2>4, ReturnNowType, ConstantTypes DEF SvcTimedBlock
    <2>5. CASE pending \cap e = {} /\ d # 0
        <3>1. remaining' \in [Task -> Nat]
            BY <1>12, <2>1, <2>5 DEF SvcTimedBlock
        <3>2. /\ wait' = [wait EXCEPT ![current] = e]
              /\ deadline' = [deadline EXCEPT ![current] = ClockAdd(now, d)]
              /\ deadlineActive' = [deadlineActive EXCEPT ![current] = TRUE]
              /\ r0' = [r0 EXCEPT ![current] = e]
              /\ state' = [state EXCEPT ![current] = "BLOCKED"]
              /\ Reschedule(state', completed)
              /\ UNCHANGED <<pending, setupVars, countVars, runEvents, now, eventReg,
                             irq, sel, fault>>
            BY <1>12, <2>5 DEF SvcTimedBlock
        <3> QED
            BY <2>1, <2>2, <3>1, <3>2, BlockType, Zenon
    <2> QED
        BY <2>3, <2>4, <2>5
<1>13. CASE SvcFault \/ PendSVFault
    BY <1>13 DEF SvcFault, PendSVFault, Abort
<1>14. CASE PendSVSelect
    <2>1. CASE current = NoTask
        BY <1>14, <2>1 DEF PendSVSelect
    <2>2. CASE current # NoTask
        <3>1. LET next == SelectNextReady(state, priority, current)
              IN next \in Task \cup {NoTask}
            BY <2>2, SelectNextReadyChooses
        <3> QED
            BY <1>14, <2>2, <3>1 DEF PendSVSelect, Abort
    <2> QED
        BY <2>1, <2>2
<1>15. CASE PendSVSwitch
    BY <1>15 DEF PendSVSwitch
<1>16. ASSUME NEW e \in Mask, SignalPublish(e)
       PROVE  TypeOK'
    BY ConstantTypes, <1>16, ZenonT(60) DEF SignalPublish, Mask
<1>17. CASE SignalFinish
    BY <1>17 DEF SignalFinish
<1>18. CASE Tick
    <2>1. ClockAdd(now, 1) \in Clock
        BY ClockAddType, SchedulerAssumption
    <2> QED
        BY ConstantTypes, <1>18, <2>1 DEF Tick
<1>19. CASE UNCHANGED vars
    BY <1>19
<1> QED
    BY <1>1, <1>2, <1>3, <1>4, <1>5, <1>6, <1>7, <1>8, <1>9, <1>10, <1>11, <1>12,
       <1>13, <1>14, <1>15, <1>16, <1>17, <1>18, <1>19
       DEF Next, SetUp, HostLoop, TaskStep, PendSV, Handler

\* Every variable of scheduler.c keeps to its range, for all values of the constants.
THEOREM SchedulerTypeOK == Spec => []TypeOK
    BY TypeOKInit, TypeOKStep, PTL DEF Spec

-----------------------------------------------------------------------------

\* A reschedule leaves a READY task current, or nobody with PendSV clear.
LEMMA RescheduleSwitch ==
    ASSUME TypeOK, SwitchTargetsReady, current \in Task, sel = NoTask, sel' = NoTask,
           state' \in [Task -> TaskState], NEW done, Reschedule(state', done)
    PROVE  SwitchTargetsReady'
<1>1. current # NoTask
    BY ConstantTypes
<1> QED
    BY <1>1, RescheduleStep DEF SwitchTargetsReady, runVars

\* Every step keeps the switch targets READY.
LEMMA SwitchStep ==
    ASSUME TypeOK, SwitchTargetsReady, [Next]_vars
    PROVE  SwitchTargetsReady'
<1> USE DEF TypeOK, SwitchTargetsReady,
        vars, taskVars, setupVars, runVars, countVars, eventVars
<1>0. NoTask \notin Task
    BY ConstantTypes
<1>1. CASE SchedulerInit
    BY <1>1, <1>0 DEF SchedulerInit, HostIdle
<1>2. ASSUME NEW i \in Task, NEW p \in Priority, TaskPrioritySet(i, p)
      PROVE  SwitchTargetsReady'
    BY <1>2 DEF TaskPrioritySet
<1>3. ASSUME NEW i \in Task, TaskStackBind(i) \/ TaskPrepare(i)
      PROVE  SwitchTargetsReady'
    BY <1>3 DEF TaskStackBind, TaskPrepare, HostIdle
<1>4. ASSUME NEW m \in BOOLEAN, StartMode(m)
      PROVE  SwitchTargetsReady'
    BY <1>4 DEF StartMode, HostIdle
<1>5. CASE Svc0
    <2> DEFINE next == SelectNextReady(state, priority, TaskCount - 1)
    <2>1. next # NoTask => next \in Task /\ state[next] = "READY"
        <3>1. TaskCount - 1 \in Task
            BY SchedulerAssumption DEF Task
        <3> QED
            BY <3>1, SelectNextReadyChooses
    <2>2. /\ sel = NoTask /\ sel' = NoTask /\ ~pendsv /\ state' = state
          /\ \/ Abort
             \/ /\ active /\ next # NoTask /\ current' = next /\ host' = "tasks"
                /\ UNCHANGED <<active, pendsv>>
        BY <1>5 DEF Svc0, ThreadMode
    <2> HIDE DEF next
    <2> QED
        BY <2>1, <2>2 DEF Abort
<1>6. CASE HostClassify
    BY <1>6 DEF HostClassify, ThreadMode, Abort
<1>7. CASE Wfe \/ WfeSpurious \/ HostReturn
    BY <1>7 DEF Wfe, WfeSpurious, HostReturn, ThreadMode
<1>8. CASE SvcYield
    <2>1. current \in Task /\ sel = NoTask /\ sel' = NoTask /\ state' = state
        BY <1>8 DEF SvcYield, TaskRuns, ThreadMode
    <2>2. Reschedule(state, completed)
        BY <1>8 DEF SvcYield
    <2> QED
        BY <2>1, <2>2, RescheduleSwitch DEF TaskState
<1>9. CASE SvcExit
    <2>1. /\ current \in Task /\ sel = NoTask /\ sel' = NoTask
          /\ state' \in [Task -> TaskState]
        BY <1>9 DEF SvcExit, TaskRuns, ThreadMode, TaskState
    <2>2. Reschedule(state', completed')
        BY <1>9 DEF SvcExit
    <2> QED
        BY <2>1, <2>2, RescheduleSwitch
<1>10. ASSUME NEW e \in Mask, SvcWaitEvents(e)
       PROVE  SwitchTargetsReady'
    <2>1. /\ current \in Task /\ sel = NoTask /\ sel' = NoTask
          /\ state' \in [Task -> TaskState]
        BY <1>10 DEF SvcWaitEvents, ReturnNow, TaskRuns, ThreadMode, TaskState
    <2>2. Reschedule(state', completed) \/ UNCHANGED <<state, current, runVars, pendsv, host>>
        BY <1>10 DEF SvcWaitEvents, ReturnNow
    <2> QED
        BY <2>1, <2>2, RescheduleSwitch
<1>11. ASSUME NEW e \in Mask, NEW d \in Timeouts, SvcTimedBlock(e, d)
       PROVE  SwitchTargetsReady'
    <2>1. /\ current \in Task /\ sel = NoTask /\ sel' = NoTask
          /\ state' \in [Task -> TaskState]
        BY <1>11 DEF SvcTimedBlock, ReturnNow, TaskRuns, ThreadMode, TaskState
    <2>2. Reschedule(state', completed) \/ UNCHANGED <<state, current, runVars, pendsv, host>>
        BY <1>11 DEF SvcTimedBlock, ReturnNow
    <2> QED
        BY <2>1, <2>2, RescheduleSwitch
<1>12. CASE SvcFault
    BY <1>12 DEF SvcFault, Abort, TaskRuns, ThreadMode
<1>13. CASE PendSVFault
    BY <1>13 DEF PendSVFault, Abort
<1>14. CASE PendSVSelect
    <2>1. CASE current = NoTask
        BY <1>14, <2>1 DEF PendSVSelect
    <2>2. CASE current # NoTask
        <3> DEFINE next == SelectNextReady(state, priority, current)
        <3>1. next # NoTask => next \in Task /\ state[next] = "READY"
            BY <2>2, SelectNextReadyChooses
        <3>2. /\ state' = state /\ sel = NoTask
              /\ \/ Abort /\ UNCHANGED sel
                 \/ /\ preempt /\ next # NoTask /\ sel' = next /\ pendsv' = FALSE
                    /\ UNCHANGED <<current, active, preempt, host>>
            BY <1>14, <2>2 DEF PendSVSelect
        <3> HIDE DEF next
        <3> QED
            BY <2>2, <3>1, <3>2 DEF Abort
    <2> QED
        BY <2>1, <2>2
<1>15. CASE PendSVSwitch
    BY <1>15 DEF PendSVSwitch
<1>16. ASSUME NEW e \in Mask, SignalPublish(e)
       PROVE  SwitchTargetsReady'
    <2>1. \A i \in Task : state[i] = "READY" => state'[i] = "READY"
        BY <1>16 DEF SignalPublish
    <2>2. UNCHANGED <<current, active, host, sel, preempt, pendsv>>
        BY <1>16 DEF SignalPublish
    <2> QED
        BY <2>1, <2>2
<1>17. CASE SignalFinish
    BY <1>17 DEF SignalFinish
<1>18. CASE Tick
    <2>1. \A i \in Task : state[i] = "READY" => state'[i] = "READY"
        BY <1>18 DEF Tick
    <2>2. /\ UNCHANGED <<current, active, host, sel, preempt>>
          /\ pendsv' => pendsv \/ (preempt /\ current # NoTask)
        BY <1>18 DEF Tick
    <2> QED
        BY <2>1, <2>2
<1>19. CASE UNCHANGED vars
    BY <1>19
<1> QED
    BY <1>1, <1>2, <1>3, <1>4, <1>5, <1>6, <1>7, <1>8, <1>9, <1>10, <1>11,
       <1>12, <1>13, <1>14, <1>15, <1>16, <1>17, <1>18, <1>19
       DEF Next, SetUp, HostLoop, TaskStep, PendSV, Handler

-----------------------------------------------------------------------------

\* What holds of the wait masks: the two properties of blocking.
WaitInv == NoLostWakeUp /\ BlockedCanWake

\* Every step keeps both, whatever the order of wait, signal and timeout.
LEMMA WaitStep ==
    ASSUME TypeOK, SwitchTargetsReady, WaitInv, [Next]_vars
    PROVE  WaitInv'
<1> USE DEF WaitInv, NoLostWakeUp, BlockedCanWake
<1>0. /\ state \in [Task -> TaskState]
      /\ wait \in [Task -> Mask]
      /\ deadlineActive \in [Task -> BOOLEAN]
      /\ pending \in Mask
    BY DEF TypeOK, TaskState
<1>1. CASE SchedulerInit
    BY <1>1 DEF SchedulerInit
<1>2. ASSUME NEW i \in Task, TaskStackBind(i) \/ TaskPrepare(i)
      PROVE  WaitInv'
    BY <1>0, <1>2 DEF TaskStackBind, TaskPrepare, eventVars
<1>3. CASE SvcExit
    BY <1>0, <1>3 DEF SvcExit, TaskRuns, eventVars
<1>4. ASSUME NEW e \in Mask \ {{}}, SvcWaitEvents(e)
      PROVE  WaitInv'
    <2>1. current \in Task /\ state[current] = "READY"
        BY <1>4 DEF SvcWaitEvents, TaskRuns, SwitchTargetsReady, TypeOK
    <2>2. CASE pending \cap e # {}
        BY <1>0, <1>4, <2>1, <2>2 DEF SvcWaitEvents, ReturnNow
    <2>3. CASE pending \cap e = {}
        BY <1>0, <1>4, <2>1, <2>3 DEF SvcWaitEvents
    <2> QED
        BY <2>2, <2>3
<1>5. ASSUME NEW e \in Mask, NEW d \in Timeouts, SvcTimedBlock(e, d)
      PROVE  WaitInv'
    <2>1. current \in Task /\ state[current] = "READY"
        BY <1>5 DEF SvcTimedBlock, TaskRuns, SwitchTargetsReady, TypeOK
    <2>2. CASE pending \cap e # {}
        BY <1>0, <1>5, <2>1, <2>2 DEF SvcTimedBlock, ReturnNow
    <2>3. CASE pending \cap e = {} /\ d = 0
        BY <1>0, <1>5, <2>1, <2>3 DEF SvcTimedBlock, ReturnNow
    <2>4. CASE pending \cap e = {} /\ d # 0
        BY <1>0, <1>5, <2>1, <2>4 DEF SvcTimedBlock
    <2> QED
        BY <2>2, <2>3, <2>4
<1>6. ASSUME NEW e \in Mask \ {{}}, SignalPublish(e)
      PROVE  WaitInv'
    <2> DEFINE all == pending \cup e
               matched == [i \in Task |->
                             IF state[i] = "BLOCKED" THEN wait[i] \cap all ELSE {}]
               Wakes(i) == matched[i] # {}
    <2>1. /\ wait' = [i \in Task |-> IF Wakes(i) THEN {} ELSE wait[i]]
          /\ deadlineActive' = [i \in Task |-> IF Wakes(i) THEN FALSE ELSE deadlineActive[i]]
          /\ state' = [i \in Task |-> IF Wakes(i) THEN "READY" ELSE state[i]]
          /\ pending' \subseteq all
        BY <1>6 DEF SignalPublish
    <2> QED
        BY <1>0, <2>1
<1>7. CASE Tick
    <2>1. /\ wait' = [i \in Task |-> IF i \in Expired(now') THEN {} ELSE wait[i]]
          /\ state' = [i \in Task |-> IF i \in Expired(now') THEN "READY" ELSE state[i]]
          /\ deadlineActive' = [i \in Task |-> deadlineActive[i] /\ i \notin Expired(now')]
          /\ pending' = pending
        BY <1>7 DEF Tick, eventVars
    <2> QED
        BY <1>0, <2>1
<1>8. CASE UNCHANGED <<state, wait, deadlineActive, pending>>
    BY <1>8
<1> QED
    <2> USE DEF vars, taskVars, eventVars
    <2>1. CASE \E i \in Task, p \in Priority : TaskPrioritySet(i, p)
        BY <1>8, <2>1 DEF TaskPrioritySet
    <2>2. CASE \E m \in BOOLEAN : StartMode(m)
        BY <1>8, <2>2 DEF StartMode
    <2>3. CASE HostLoop \/ WfeSpurious
        BY <1>8, <2>3 DEF HostLoop, Svc0, HostClassify, Wfe, WfeSpurious, HostReturn
    <2>4. CASE SvcYield \/ SvcFault
        BY <1>8, <2>4 DEF SvcYield, SvcFault
    <2>5. CASE PendSV \/ PendSVFault \/ SignalFinish
        BY <1>8, <2>5 DEF PendSV, PendSVSelect, PendSVSwitch, PendSVFault, SignalFinish
    <2>6. CASE UNCHANGED vars
        BY <1>8, <2>6
    <2> QED
        BY <1>1, <1>2, <1>3, <1>4, <1>5, <1>6, <1>7, <2>1, <2>2, <2>3, <2>4, <2>5, <2>6
           DEF Next, SetUp, TaskStep, Handler

-----------------------------------------------------------------------------

\* In preemptive mode a better READY task than the one that runs, or is about to
\* run, exists only while another dispatch is certain.
DispatchDue ==
    preempt /\ current # NoTask =>
        \/ pendsv
        \/ irq = "woke"
        \/ LET runner == IF sel = NoTask THEN current ELSE sel
           IN \A i \in Ready(state) : priority[runner] <= priority[i]

\* Every step keeps a dispatch due as long as it is needed.
LEMMA DispatchStep ==
    ASSUME TypeOK, SwitchTargetsReady, DispatchDue, [Next]_vars
    PROVE  DispatchDue'
<1> USE DEF DispatchDue
<1>0. /\ state \in [Task -> TaskState]
      /\ priority \in [Task -> Priority]
      /\ current \in Task \cup {NoTask} /\ sel \in Task \cup {NoTask}
      /\ NoTask \notin Task
    BY ConstantTypes DEF TypeOK, TaskState
<1>1. ASSUME current' = NoTask
      PROVE  DispatchDue'
    BY <1>1
<1>2. ASSUME HostIdle, UNCHANGED current
      PROVE  DispatchDue'
    BY <1>2 DEF HostIdle, SwitchTargetsReady
<1>3. ASSUME TaskRuns, state' \in [Task -> TaskState], NEW done, Reschedule(state', done),
             UNCHANGED <<priority, sel>>
      PROVE  DispatchDue'
    <2>1. sel = NoTask /\ current \in Task
        BY <1>0, <1>3 DEF TaskRuns, ThreadMode
    <2>2. current' = NoTask \/ \A j \in Ready(state') : priority[current'] <= priority[j]
        BY <1>3, <2>1, RescheduleStep
    <2> QED
        BY <1>3, <2>1, <2>2
<1>4. ASSUME UNCHANGED <<preempt, current, pendsv, irq, sel, state, priority>>
      PROVE  DispatchDue'
    BY <1>4 DEF Ready
<1>5. CASE SetUp
    <2>1. CASE SchedulerInit \/ \E m \in BOOLEAN : StartMode(m)
        BY <1>1, <2>1 DEF SchedulerInit, StartMode
    <2>2. CASE \E i \in Task : TaskStackBind(i) \/ TaskPrepare(i)
        BY <1>2, <2>2 DEF TaskStackBind, TaskPrepare
    <2>3. CASE \E i \in Task, p \in Priority : TaskPrioritySet(i, p)
        BY <1>2, <2>3 DEF TaskPrioritySet
    <2> QED
        BY <1>5, <2>1, <2>2, <2>3 DEF SetUp
<1>6. CASE Svc0
    <2> DEFINE next == SelectNextReady(state, priority, TaskCount - 1)
    <2>1. next # NoTask => \A j \in Ready(state) : priority[next] <= priority[j]
        <3>1. TaskCount - 1 \in Task
            BY SchedulerAssumption DEF Task
        <3> QED
            BY <1>0, <3>1, SelectNextReadyChooses DEF TaskState
    <2>2. /\ UNCHANGED <<sel, state, priority>> /\ sel = NoTask
          /\ current' = NoTask \/ (next # NoTask /\ current' = next)
        BY <1>6 DEF Svc0, Abort, ThreadMode, taskVars, setupVars
    <2> HIDE DEF next
    <2> QED
        BY <2>1, <2>2 DEF Ready
<1>7. CASE HostClassify \/ Wfe \/ WfeSpurious \/ HostReturn
    <2>1. current' = NoTask
        BY <1>0, <1>7 DEF HostClassify, Abort, Wfe, WfeSpurious, HostReturn,
                          SwitchTargetsReady
    <2> QED
        BY <1>1, <2>1
<1>8. CASE SvcYield
    BY <1>0, <1>3, <1>8 DEF SvcYield, taskVars, setupVars
<1>9. CASE SvcExit
    BY <1>0, <1>3, <1>9 DEF SvcExit, TaskState, setupVars
<1>10. CASE \E e \in Mask : SvcWaitEvents(e)
    <2>1. PICK e \in Mask : SvcWaitEvents(e)
        BY <1>10
    <2>2. CASE pending \cap e # {}
        <3>1. UNCHANGED <<preempt, current, pendsv, irq, sel, state, priority>>
            BY <2>1, <2>2 DEF SvcWaitEvents, ReturnNow, runVars, setupVars
        <3> QED
            BY <1>4, <3>1
    <2>3. CASE pending \cap e = {}
        <3>1. /\ TaskRuns
              /\ state' \in [Task -> TaskState]
              /\ Reschedule(state', completed)
              /\ UNCHANGED <<priority, sel>>
            BY <1>0, <2>1, <2>3 DEF SvcWaitEvents, setupVars, TaskState
        <3> QED
            BY <1>3, <3>1
    <2> QED
        BY <2>2, <2>3
<1>11. CASE \E e \in Mask, d \in Timeouts : SvcTimedBlock(e, d)
    <2>1. PICK e \in Mask, d \in Timeouts : SvcTimedBlock(e, d)
        BY <1>11
    <2>2. CASE pending \cap e # {} \/ d = 0
        <3>1. UNCHANGED <<preempt, current, pendsv, irq, sel, state, priority>>
            BY <2>1, <2>2 DEF SvcTimedBlock, ReturnNow, runVars, setupVars
        <3> QED
            BY <1>4, <3>1
    <2>3. CASE pending \cap e = {} /\ d # 0
        <3>1. /\ TaskRuns
              /\ state' \in [Task -> TaskState]
              /\ Reschedule(state', completed)
              /\ UNCHANGED <<priority, sel>>
            BY <1>0, <2>1, <2>3 DEF SvcTimedBlock, setupVars, TaskState
        <3> QED
            BY <1>3, <3>1
    <2> QED
        BY <2>2, <2>3
<1>12. CASE SvcFault \/ PendSVFault
    BY <1>1, <1>12 DEF SvcFault, PendSVFault, Abort
<1>13. CASE PendSVSelect
    <2>1. CASE current = NoTask
        BY <1>1, <1>13, <2>1 DEF PendSVSelect
    <2>2. CASE current # NoTask
        <3> DEFINE next == SelectNextReady(state, priority, current)
        <3>1. next # NoTask => \A j \in Ready(state) : priority[next] <= priority[j]
            BY <1>0, <2>2, SelectNextReadyChooses DEF TaskState
        <3>2. /\ UNCHANGED <<state, priority>>
              /\ current' = NoTask \/ (next # NoTask /\ sel' = next)
            BY <1>13, <2>2 DEF PendSVSelect, Abort, taskVars, setupVars
        <3> HIDE DEF next
        <3> QED
            BY <1>1, <3>1, <3>2 DEF Ready
    <2> QED
        BY <2>1, <2>2
<1>14. CASE PendSVSwitch
    BY <1>14 DEF PendSVSwitch, taskVars, setupVars, runVars, SwitchTargetsReady, Ready
<1>15. CASE \E e \in Mask : SignalPublish(e)
    <2>1. PICK e \in Mask : SignalPublish(e)
        BY <1>15
    <2>2. CASE irq' = "woke"
        BY <2>2
    <2>3. CASE irq' # "woke"
        <3>1. state' = state
            BY <1>0, <2>1, <2>3 DEF SignalPublish
        <3> QED
            BY <2>1, <3>1 DEF SignalPublish, setupVars, runVars
    <2> QED
        BY <2>2, <2>3
<1>16. CASE SignalFinish
    BY <1>16 DEF SignalFinish, taskVars, setupVars, runVars
<1>17. CASE Tick
    BY <1>17 DEF Tick, runVars, SwitchTargetsReady
<1>18. CASE UNCHANGED vars
    BY <1>4, <1>18 DEF vars, taskVars, setupVars, runVars
<1> QED
    BY <1>5, <1>6, <1>7, <1>8, <1>9, <1>10, <1>11, <1>12, <1>13, <1>14, <1>15, <1>16,
       <1>17, <1>18
       DEF Next, HostLoop, TaskStep, PendSV, Handler

-----------------------------------------------------------------------------

\* The inductive invariant.
Inv == TypeOK /\ SwitchTargetsReady /\ WaitInv /\ DispatchDue

\* It holds initially,
LEMMA InvInit == Init => Inv
<1> SUFFICES ASSUME Init PROVE SwitchTargetsReady /\ WaitInv /\ DispatchDue
    BY TypeOKInit DEF Inv
<1> QED
    BY DEF Init, SwitchTargetsReady, WaitInv, NoLostWakeUp, BlockedCanWake, DispatchDue

\* every step keeps it,
LEMMA InvStep == Inv /\ [Next]_vars => Inv'
    BY TypeOKStep, SwitchStep, WaitStep, DispatchStep DEF Inv

\* and so it always holds.
LEMMA SchedulerInv == Spec => []Inv
    BY InvInit, InvStep, PTL DEF Spec

\* Every SVC and PendSV dispatch of scheduler.c switches to a READY task of the
\* active run, whatever handlers intervene.
THEOREM SchedulerSwitchTargetsReady == Spec => []SwitchTargetsReady
    BY SchedulerInv, PTL DEF Inv

\* A wait and a signal never miss each other: no task is BLOCKED on an event that
\* is latched in scheduler_pending_events.
THEOREM SchedulerNoLostWakeUp == Spec => []NoLostWakeUp
    BY SchedulerInv, PTL DEF Inv, WaitInv

\* A BLOCKED task can be woken by an event or a deadline; no other task carries
\* a wait mask or a deadline.
THEOREM SchedulerBlockedCanWake == Spec => []BlockedCanWake
    BY SchedulerInv, PTL DEF Inv, WaitInv

\* Preemptive mode: when thread code executes, no READY task outranks the current
\* one, although wake-ups happen inside handlers and inside PendSV dispatches.
THEOREM SchedulerHighestPriorityRuns == Spec => []HighestPriorityRuns
<1>1. Inv => HighestPriorityRuns
    BY DEF Inv, DispatchDue, HighestPriorityRuns, ThreadMode
<1> QED
    BY <1>1, SchedulerInv, PTL

\* The two facts about wake-ups together: whoever is BLOCKED can be woken, and by
\* nothing that has happened already.
THEOREM SchedulerWakeUpsHold == Spec => []WakeUpsHold
<1>1. NoLostWakeUp /\ BlockedCanWake => WakeUpsHold
    BY DEF WakeUpsHold
<1> QED
    BY <1>1, SchedulerNoLostWakeUp, SchedulerBlockedCanWake, PTL

\* The three facts about switches together: every dispatch of scheduler.c goes to a
\* READY task of the run, and in preemptive mode to one of the highest priority.
THEOREM SchedulerSwitchesHold == Spec => []SwitchesHold
<1>1. TypeOK /\ SwitchTargetsReady /\ HighestPriorityRuns => SwitchesHold
    BY DEF SwitchesHold
<1> QED
    BY <1>1, SchedulerTypeOK, SchedulerSwitchTargetsReady, SchedulerHighestPriorityRuns, PTL

\* A latched bit leaves scheduler_pending_events only into the result of a wait
\* of a task that is READY, or by scheduler_init().
LEMMA EventsStep ==
    ASSUME Inv, [Next]_vars, NEW b \in pending \ pending'
    PROVE  \/ \E i \in Task : b \in r0'[i] /\ state'[i] = "READY"
           \/ \A i \in Task : state'[i] = "UNUSED"
<1>0. /\ r0 \in [Task -> Mask] /\ state \in [Task -> TaskState]
      /\ wait \in [Task -> Mask]
      /\ pending \in Mask
    BY DEF Inv, TypeOK, TaskState
<1>1. CASE SchedulerInit
    BY <1>1 DEF SchedulerInit
<1>2. ASSUME NEW e \in Mask, NEW d, SvcWaitEvents(e) \/ SvcTimedBlock(e, d)
      PROVE  \E i \in Task : b \in r0'[i] /\ state'[i] = "READY"
    <2>1. current \in Task /\ state[current] = "READY"
        BY <1>2 DEF SvcWaitEvents, SvcTimedBlock, TaskRuns, Inv, TypeOK, SwitchTargetsReady
    <2>2. /\ r0' = [r0 EXCEPT ![current] = pending \cap e]
          /\ pending' = pending \ (pending \cap e)
          /\ state' = state
        BY <1>2 DEF SvcWaitEvents, SvcTimedBlock, ReturnNow
    <2> QED
        BY <1>0, <2>1, <2>2
<1>3. CASE \E e \in Mask : SignalPublish(e)
    <2>1. PICK e \in Mask : SignalPublish(e)
        BY <1>3
    <2> DEFINE all == pending \cup e
               matched == [i \in Task |->
                             IF state[i] = "BLOCKED" THEN wait[i] \cap all ELSE {}]
    <2>2. /\ r0' = [i \in Task |-> IF matched[i] # {} THEN matched[i] ELSE r0[i]]
          /\ state' = [i \in Task |-> IF matched[i] # {} THEN "READY" ELSE state[i]]
          /\ pending' = {x \in all : \A i \in Task : x \notin matched[i]}
        BY <2>1 DEF SignalPublish
    <2>3. PICK i \in Task : b \in matched[i]
        BY <2>2
    <2> QED
        BY <2>2, <2>3
<1>4. ASSUME pending' = pending
      PROVE  FALSE
    BY <1>4
<1> QED
    <2> USE DEF vars, eventVars
    <2>1. CASE \E i \in Task, p \in Priority : TaskPrioritySet(i, p)
        BY <1>4, <2>1 DEF TaskPrioritySet
    <2>2. CASE \E i \in Task : TaskStackBind(i) \/ TaskPrepare(i)
        BY <1>4, <2>2 DEF TaskStackBind, TaskPrepare
    <2>3. CASE \E m \in BOOLEAN : StartMode(m)
        BY <1>4, <2>3 DEF StartMode
    <2>4. CASE HostLoop \/ WfeSpurious
        BY <1>4, <2>4 DEF HostLoop, Svc0, HostClassify, Wfe, WfeSpurious, HostReturn
    <2>5. CASE SvcYield \/ SvcExit \/ SvcFault
        BY <1>4, <2>5 DEF SvcYield, SvcExit, SvcFault
    <2>6. CASE PendSV \/ PendSVFault \/ SignalFinish \/ Tick
        BY <1>4, <2>6 DEF PendSV, PendSVSelect, PendSVSwitch, PendSVFault, SignalFinish, Tick
    <2>7. CASE UNCHANGED vars
        BY <1>4, <2>7
    <2> QED
        BY <1>1, <1>2, <1>3, <2>1, <2>2, <2>3, <2>4, <2>5, <2>6, <2>7
           DEF Next, SetUp, TaskStep, Handler

\* scheduler_event_signal() and the waits never drop a latched event.
THEOREM SchedulerEventsNotDropped == Spec => EventsNotDropped
<1>1. Inv /\ [Next]_vars =>
        [ \A b \in pending \ pending' :
            \/ \E i \in Task : b \in r0'[i] /\ state'[i] = "READY"
            \/ \A i \in Task : state'[i] = "UNUSED" ]_vars
    BY EventsStep
<1> QED
    BY <1>1, SchedulerInv, PTL DEF Spec, EventsNotDropped

-----------------------------------------------------------------------------
(* The end of a run *)

Alive(st) == {i \in Task : st[i] \in {"READY", "BLOCKED"}}

\* A run that has not faulted counts its tasks right; one that is over has left no
\* BLOCKED task behind; the host loop finds a task alive as long as the run is active.
RunInv ==
    /\ ~fault => IF active THEN completed + Cardinality(Alive(state)) = target
                 ELSE Blocked(state) = {}
    /\ NoFalseAbort
    /\ host = "svc0" => active /\ current = NoTask /\ Ready(state) # {}
    /\ host = "wfe" => active
    /\ host \in {"loop", "wfe"} /\ active => Alive(state) # {}

\* The tasks alive are finitely many, those that are READY or BLOCKED.
LEMMA AliveFacts ==
    ASSUME NEW st
    PROVE  /\ IsFiniteSet(Alive(st)) /\ Cardinality(Alive(st)) \in Nat
           /\ Alive(st) = Ready(st) \cup Blocked(st)
           /\ Alive(st) = {} <=> Cardinality(Alive(st)) = 0
<1>1. IsFiniteSet(Task)
    BY SchedulerAssumption, FS_Interval DEF Task
<1>2. Alive(st) \subseteq Task
    BY DEF Alive
<1>3. IsFiniteSet(Alive(st))
    BY <1>1, <1>2, FS_Subset
<1>4. Alive(st) = Ready(st) \cup Blocked(st)
    BY DEF Alive, Ready, Blocked
<1> QED
    BY <1>3, <1>4, FS_CardinalityType, FS_EmptySet

\* The end of scheduler_svc_dispatch(): a run that has not faulted ends exactly when no
\* task is alive, and then successfully.
LEMMA RescheduleRun ==
    ASSUME TypeOK, current \in Task, active, host = "tasks",
           NEW st \in [Task -> TaskState], NEW done \in Nat, Reschedule(st, done),
           ~fault => done + Cardinality(Alive(st)) = target
    PROVE  /\ host' \in {"tasks", "loop"}
           /\ host' = "loop" /\ active' => Alive(st) # {}
           /\ ~active' => host' = "loop"
           /\ ~active' /\ ~fault => Blocked(st) = {} /\ runResult'
<1> DEFINE next == SelectNextReady(st, priority, current)
<1>1. priority \in [Task -> Priority] /\ target \in Nat
    BY DEF TypeOK
<1>2. next = NoTask <=> Ready(st) = {}
    BY <1>1, SelectNextReadyChooses DEF TaskState
<1>3. CASE next # NoTask
    BY <1>3 DEF Reschedule, runVars
<1>4. CASE next = NoTask /\ done = target
    <2>1. ~fault => Cardinality(Alive(st)) = 0
        BY <1>1, <1>4, AliveFacts
    <2>2. ~fault => Blocked(st) = {}
        BY <2>1, AliveFacts
    <2>3. host' = "loop" /\ active' = FALSE /\ runResult' = TRUE
        BY <1>4 DEF Reschedule
    <2> QED
        BY <2>2, <2>3
<1>5. CASE next = NoTask /\ done # target /\ Blocked(st) = {}
    <2>1. Cardinality(Alive(st)) = 0
        BY <1>2, <1>5, AliveFacts
    <2>2. fault
        BY <1>1, <1>5, <2>1
    <2>3. host' = "loop" /\ active' = FALSE
        BY <1>5 DEF Reschedule, Abort
    <2> QED
        BY <2>2, <2>3
<1>6. CASE next = NoTask /\ done # target /\ Blocked(st) # {}
    <2>1. host' = "loop" /\ active' = active
        BY <1>6 DEF Reschedule, runVars
    <2> QED
        BY <1>6, <2>1, AliveFacts
<1> QED
    BY <1>3, <1>4, <1>5, <1>6

\* A call that goes on to the reschedule, or returns at once, keeps the run's account.
LEMMA ServiceRun ==
    ASSUME TypeOK, SwitchTargetsReady, RunInv, TaskRuns, state' \in [Task -> TaskState],
           NEW done \in Nat, completed' = done, target' = target, fault' = fault,
           done + Cardinality(Alive(state')) = completed + Cardinality(Alive(state)),
           \/ Reschedule(state', done)
           \/ UNCHANGED <<state, current, runVars, host>>
    PROVE  RunInv'
<1>1. current \in Task /\ active /\ host = "tasks"
    BY DEF TaskRuns, SwitchTargetsReady, TypeOK
<1>2. /\ ~fault => done + Cardinality(Alive(state')) = target
      /\ active' \in BOOLEAN
    <2>1. CASE Reschedule(state', done)
        BY <1>1, <2>1, RescheduleStep DEF RunInv
    <2>2. CASE UNCHANGED <<state, current, runVars, host>>
        BY <1>1, <2>2 DEF RunInv, runVars, TypeOK
    <2> QED
        BY <2>1, <2>2
<1>3. CASE Reschedule(state', done)
    <2>1. /\ host' \in {"tasks", "loop"}
          /\ host' = "loop" /\ active' => Alive(state') # {}
          /\ ~active' => host' = "loop"
          /\ ~active' /\ ~fault => Blocked(state') = {} /\ runResult'
        BY <1>1, <1>2, <1>3, RescheduleRun
    <2> QED
        BY <1>2, <2>1 DEF RunInv, NoFalseAbort
<1>4. CASE UNCHANGED <<state, current, runVars, host>>
    BY <1>1, <1>2, <1>4 DEF RunInv, NoFalseAbort, runVars
<1> QED
    BY <1>3, <1>4

\* Handlers that wake tasks leave the same tasks alive.
LEMMA WakeRun ==
    ASSUME TypeOK, RunInv, NEW W,
           state' = [i \in Task |-> IF i \in W THEN "READY" ELSE state[i]],
           \A i \in Task : i \in W => state[i] = "BLOCKED",
           UNCHANGED <<completed, target, fault, active, runResult, host, current>>
    PROVE  RunInv'
<1>1. Alive(state') = Alive(state)
    BY DEF Alive
<1>2. Ready(state) \subseteq Ready(state')
    BY DEF Ready
<1>3. Blocked(state') \subseteq Blocked(state)
    BY DEF Blocked
<1> QED
    BY <1>1, <1>2, <1>3 DEF RunInv, NoFalseAbort

\* Every step keeps the account of the run.
LEMMA RunStep ==
    ASSUME Inv, RunInv, [Next]_vars
    PROVE  RunInv'
<1>0. /\ TypeOK /\ SwitchTargetsReady
      /\ state \in [Task -> TaskState] /\ completed \in Nat /\ target \in Nat
    BY DEF Inv, TypeOK, TaskState
<1> USE DEF vars, taskVars, setupVars, runVars, countVars, eventVars
<1>1. CASE SchedulerInit
    BY <1>1 DEF SchedulerInit, HostIdle, RunInv, NoFalseAbort, Blocked
<1>2. ASSUME NEW i \in Task, TaskStackBind(i) \/ TaskPrepare(i)
      PROVE  RunInv'
    <2>1. Blocked(state') \subseteq Blocked(state)
        BY <1>0, <1>2 DEF TaskStackBind, TaskPrepare, Blocked
    <2> QED
        BY <1>2, <2>1 DEF TaskStackBind, TaskPrepare, HostIdle, RunInv, NoFalseAbort
<1>3. ASSUME NEW i \in Task, NEW p \in Priority, TaskPrioritySet(i, p)
      PROVE  RunInv'
    BY <1>3 DEF TaskPrioritySet, RunInv, NoFalseAbort
<1>4. ASSUME NEW m \in BOOLEAN, StartMode(m)
      PROVE  RunInv'
    <2>1. /\ completed' = 0 /\ target' = Cardinality(Ready(state)) /\ active' = TRUE
          /\ host' = "svc0" /\ current' = NoTask /\ state' = state /\ fault' = fault
          /\ Ready(state) # {} /\ ~active
        BY <1>4 DEF StartMode, HostIdle
    <2>2. ~fault => Alive(state) = Ready(state)
        BY <2>1, AliveFacts DEF RunInv
    <2>3. ~fault => 0 + Cardinality(Alive(state)) = Cardinality(Ready(state))
        BY <2>2, AliveFacts
    <2> QED
        BY <2>1, <2>3 DEF RunInv, NoFalseAbort
<1>5. CASE Svc0
    <2> DEFINE next == SelectNextReady(state, priority, TaskCount - 1)
    <2>1. active /\ current = NoTask /\ Ready(state) # {}
        BY <1>5 DEF Svc0, RunInv
    <2>2. next # NoTask
        <3>1. TaskCount - 1 \in Task /\ priority \in [Task -> Priority]
            BY <1>0, SchedulerAssumption DEF Task, TypeOK
        <3> QED
            BY <1>0, <2>1, <3>1, SelectNextReadyChooses DEF TaskState
    <2>3. host' = "tasks" /\ UNCHANGED <<active, runResult, state, completed, target, fault>>
        BY <1>5, <2>1, <2>2 DEF Svc0
    <2> QED
        BY <2>1, <2>3 DEF RunInv, NoFalseAbort
<1>6. CASE HostClassify
    <2>1. active /\ host = "loop" /\ current = NoTask /\ Alive(state) # {}
        BY <1>0, <1>6 DEF HostClassify, SwitchTargetsReady, RunInv
    <2>2. /\ UNCHANGED <<active, runResult, state, completed, target, fault, current>>
          /\ \/ host' = "svc0" /\ Ready(state) # {}
             \/ host' = "wfe"
        BY <1>6, <2>1, AliveFacts DEF HostClassify
    <2> QED
        BY <2>1, <2>2 DEF RunInv, NoFalseAbort
<1>7. CASE Wfe \/ WfeSpurious
    BY <1>7 DEF Wfe, WfeSpurious, RunInv, NoFalseAbort
<1>8. CASE HostReturn
    BY <1>8 DEF HostReturn, RunInv, NoFalseAbort
<1>9. CASE SvcYield
    <2>1. /\ TaskRuns /\ Reschedule(state', completed) /\ state' = state
          /\ UNCHANGED <<completed, target, fault>>
        BY <1>9 DEF SvcYield
    <2> QED
        BY <1>0, <2>1, ServiceRun
<1>10. CASE SvcExit
    <2>1. /\ TaskRuns /\ current \in Task /\ state[current] = "READY"
          /\ state' = [state EXCEPT ![current] = "DONE"]
          /\ completed' = completed + 1 /\ Reschedule(state', completed')
          /\ target' = target /\ fault' = fault
        BY <1>0, <1>10 DEF SvcExit, TaskRuns, SwitchTargetsReady, TypeOK
    <2>2. current \in Alive(state) /\ Alive(state') = Alive(state) \ {current}
        BY <1>0, <2>1 DEF Alive
    <2>3. Cardinality(Alive(state')) = Cardinality(Alive(state)) - 1
        BY <2>2, AliveFacts, FS_RemoveElement
    <2>4. completed + 1 \in Nat /\ state' \in [Task -> TaskState]
        BY <1>0, <2>1 DEF TaskState
    <2>5. (completed + 1) + Cardinality(Alive(state'))
              = completed + Cardinality(Alive(state))
        BY <1>0, <2>3, AliveFacts
    <2> QED
        BY <1>0, <2>1, <2>4, <2>5, ServiceRun
<1>11. ASSUME NEW e \in Mask, NEW d, SvcWaitEvents(e) \/ SvcTimedBlock(e, d)
       PROVE  RunInv'
    <2>1. /\ TaskRuns /\ current \in Task /\ state[current] = "READY"
          /\ UNCHANGED <<completed, target, fault>>
          /\ \/ Reschedule(state', completed) /\ state' = [state EXCEPT ![current] = "BLOCKED"]
             \/ UNCHANGED <<state, current, runVars, host>>
        BY <1>0, <1>11 DEF SvcWaitEvents, SvcTimedBlock, ReturnNow, TaskRuns,
                           SwitchTargetsReady, TypeOK
    <2>2. Alive(state') = Alive(state) /\ state' \in [Task -> TaskState]
        BY <1>0, <2>1 DEF Alive, TaskState
    <2> QED
        BY <1>0, <2>1, <2>2, ServiceRun
<1>12. CASE SvcFault \/ PendSVFault
    BY <1>12 DEF SvcFault, PendSVFault, Abort, RunInv, NoFalseAbort
<1>13. CASE PendSVSelect
    <2> DEFINE next == SelectNextReady(state, priority, current)
    <2>1. current # NoTask => /\ next # NoTask /\ active /\ preempt
                              /\ current \in Task
        <3>1. ASSUME current # NoTask PROVE next # NoTask
            <4>1. current \in Ready(state) /\ current \in Task
                  /\ priority \in [Task -> Priority]
                BY <1>0, <3>1 DEF SwitchTargetsReady, TypeOK, Ready
            <4> QED
                BY <1>0, <4>1, SelectNextReadyChooses DEF TaskState
        <3> QED
            BY <1>0, <1>13, <3>1 DEF PendSVSelect, SwitchTargetsReady, TypeOK
    <2>2. UNCHANGED <<state, current, active, runResult, host, completed, target, fault>>
        BY <1>13, <2>1 DEF PendSVSelect
    <2> QED
        BY <2>2 DEF RunInv, NoFalseAbort
<1>14. CASE PendSVSwitch
    <2>1. host = "tasks"
        BY <1>0, <1>14 DEF PendSVSwitch, SwitchTargetsReady
    <2> QED
        BY <1>14, <2>1 DEF PendSVSwitch, RunInv, NoFalseAbort
<1>15. ASSUME NEW e \in Mask, SignalPublish(e)
       PROVE  RunInv'
    <2> DEFINE all == pending \cup e
               matched == [i \in Task |->
                             IF state[i] = "BLOCKED" THEN wait[i] \cap all ELSE {}]
               woken == {i \in Task : matched[i] # {}}
    <2>1. /\ state' = [i \in Task |-> IF i \in woken THEN "READY" ELSE state[i]]
          /\ UNCHANGED <<completed, target, fault, active, runResult, host, current>>
        BY <1>15 DEF SignalPublish
    <2>2. \A i \in Task : i \in woken => state[i] = "BLOCKED"
        OBVIOUS
    <2> HIDE DEF woken
    <2> QED
        BY <1>0, <2>1, <2>2, WakeRun
<1>16. CASE SignalFinish
    BY <1>16 DEF SignalFinish, RunInv, NoFalseAbort
<1>17. CASE Tick
    <2>1. /\ state' = [i \in Task |-> IF i \in Expired(now') THEN "READY" ELSE state[i]]
          /\ UNCHANGED <<completed, target, fault, active, runResult, host, current>>
        BY <1>17 DEF Tick
    <2>2. \A i \in Task : i \in Expired(now') => state[i] = "BLOCKED"
        BY DEF Expired
    <2> QED
        BY <1>0, <2>1, <2>2, WakeRun
<1>18. CASE UNCHANGED vars
    BY <1>18 DEF RunInv, NoFalseAbort
<1> QED
    BY <1>1, <1>2, <1>3, <1>4, <1>5, <1>6, <1>7, <1>8, <1>9, <1>10, <1>11, <1>12, <1>13,
       <1>14, <1>15, <1>16, <1>17, <1>18
       DEF Next, SetUp, HostLoop, TaskStep, PendSV, Handler

LEMMA SchedulerRunInv == Spec => []RunInv
<1>1. Init => RunInv
    BY DEF Init, RunInv, NoFalseAbort, Blocked
<1>2. Inv /\ RunInv /\ [Next]_vars => RunInv'
    BY RunStep
<1> QED
    BY <1>1, <1>2, SchedulerInv, PTL DEF Spec

\* scheduler_start_mode() ends a run exactly when every task that was started has
\* completed: the count is right and, unless a task faulted, the result is success.
THEOREM SchedulerRunEnds == Spec => []RunEnds
<1>1. RunInv => RunEnds
    BY DEF RunInv, RunEnds, RunAccounting, Alive
<1> QED
    BY <1>1, SchedulerRunInv, PTL

-----------------------------------------------------------------------------
(* Deadlines on the wrapping clock *)

\* One tick on, a deadline r ticks ahead is reached exactly when r is 1, and is
\* otherwise r - 1 ticks ahead: neither sum nor comparison is misled by the wrap.
LEMMA OneTickOn ==
    ASSUME NEW t \in Clock, NEW r \in 1..MaxTimeout
    PROVE  /\ TimeReached(ClockAdd(t, 1), ClockAdd(t, r)) <=> r = 1
           /\ r # 1 => /\ ClockAdd(t, r) = ClockAdd(ClockAdd(t, 1), r - 1)
                       /\ r - 1 \in 1..MaxTimeout
<1>1. /\ HalfRange \in Nat \ {0} /\ t \in 0..(2 * HalfRange - 1)
      /\ r \in 1..(HalfRange - 1)
    BY SchedulerAssumption DEF Clock, MaxTimeout
<1>2. CASE r = 1
    BY <1>1, <1>2 DEF TimeReached, ClockAdd
<1>3. CASE r # 1
    <2>1. r - 1 \in 1..MaxTimeout
        BY <1>1, <1>3 DEF MaxTimeout
    <2>2. ~TimeReached(ClockAdd(t, 1), ClockAdd(t, r))
        BY <1>1, <1>3 DEF TimeReached, ClockAdd
    <2>3. ClockAdd(t, r) = ClockAdd(ClockAdd(t, 1), r - 1)
        BY <1>1, <1>3 DEF ClockAdd
    <2> QED
        BY <1>3, <2>1, <2>2, <2>3
<1> QED
    BY <1>2, <1>3

\* Only a BLOCKED task carries a deadline, and without a fault only in a run.
LEMMA DeadlineInRun ==
    ASSUME Inv, RunInv, NEW i \in Task, deadlineActive[i]
    PROVE  /\ state[i] = "BLOCKED"
           /\ active \/ fault
<1>1. state[i] = "BLOCKED"
    BY DEF Inv, WaitInv, BlockedCanWake
<1>2. Blocked(state) # {}
    BY <1>1 DEF Blocked
<1> QED
    BY <1>1, <1>2 DEF RunInv

\* What scheduler_tick() does to a deadline: it fires on its last tick and comes
\* one tick nearer on every other.
LEMMA TickDeadlines ==
    ASSUME Inv, RunInv, DeadlineExact, Tick
    PROVE  /\ DeadlineExact'
           /\ active /\ ~fault =>
                \A i \in Task : state[i] = "BLOCKED" /\ deadlineActive[i] =>
                    (state'[i] = "READY" <=> remaining[i] = 1)
<1>0. /\ TypeOK /\ now \in Clock /\ fault \in BOOLEAN /\ fault' = fault
      /\ now' = ClockAdd(now, 1)
    BY DEF Inv, TypeOK, Tick
<1>1. ASSUME NEW i \in Task, deadlineActive[i], ~fault
      PROVE  /\ i \in Expired(ClockAdd(now, 1)) <=> remaining[i] = 1
             /\ remaining[i] \in 1..MaxTimeout
             /\ deadline[i] = ClockAdd(now, remaining[i])
    <2>1. state[i] = "BLOCKED" /\ active
        BY <1>1, DeadlineInRun
    <2>2. remaining[i] \in 1..MaxTimeout /\ deadline[i] = ClockAdd(now, remaining[i])
        BY <1>1 DEF DeadlineExact
    <2>3. TimeReached(ClockAdd(now, 1), deadline[i]) <=> remaining[i] = 1
        BY <1>0, <2>2, OneTickOn
    <2> QED
        BY <1>1, <2>1, <2>2, <2>3 DEF Expired
<1>2. ASSUME ~fault, NEW i \in Task, deadlineActive'[i]
      PROVE  remaining'[i] \in 1..MaxTimeout /\ deadline'[i] = ClockAdd(now', remaining'[i])
    <2>1. deadlineActive[i] /\ i \notin Expired(ClockAdd(now, 1))
        BY <1>2 DEF Tick
    <2>2. /\ remaining[i] \in 1..MaxTimeout /\ remaining[i] # 1
          /\ deadline[i] = ClockAdd(now, remaining[i])
        BY <1>1, <1>2, <2>1
    <2>3. deadline'[i] = deadline[i]
        BY <2>1 DEF Tick
    <2>4. remaining'[i] = remaining[i] - 1
        BY <2>1, <2>2 DEF Tick
    <2> QED
        BY <1>0, <2>2, <2>3, <2>4, OneTickOn
<1>3. ASSUME active, ~fault, NEW i \in Task, state[i] = "BLOCKED", deadlineActive[i]
      PROVE  state'[i] = "READY" <=> remaining[i] = 1
    <2>1. state'[i] = IF i \in Expired(ClockAdd(now, 1)) THEN "READY" ELSE state[i]
        BY DEF Tick
    <2> QED
        BY <1>1, <1>3, <2>1
<1> QED
    BY <1>0, <1>2, <1>3 DEF DeadlineExact

\* A call that drops the caller's deadline, or sets it `timeout` ticks ahead, and
\* leaves the other tasks' and the clock alone.
LEMMA CallDeadlines ==
    ASSUME TypeOK, DeadlineExact, current \in Task, now' = now, fault' = fault,
           NEW r,
           \/ /\ remaining' = remaining
              /\ deadlineActive' = [deadlineActive EXCEPT ![current] = FALSE]
              /\ deadline' = [deadline EXCEPT ![current] = 0]
           \/ /\ r \in 1..MaxTimeout
              /\ remaining' = [remaining EXCEPT ![current] = r]
              /\ deadlineActive' = [deadlineActive EXCEPT ![current] = TRUE]
              /\ deadline' = [deadline EXCEPT ![current] = ClockAdd(now, r)]
    PROVE  DeadlineExact'
<1> SUFFICES ASSUME ~fault, NEW i \in Task, deadlineActive'[i]
             PROVE  remaining'[i] \in 1..MaxTimeout
                    /\ deadline'[i] = ClockAdd(now, remaining'[i])
    BY DEF DeadlineExact
<1>1. CASE i = current
    BY <1>1 DEF TypeOK
<1>2. CASE i # current
    <2>1. /\ deadlineActive[i] /\ deadline'[i] = deadline[i]
          /\ remaining'[i] = remaining[i]
        BY <1>2 DEF TypeOK
    <2> QED
        BY <2>1 DEF DeadlineExact
<1> QED
    BY <1>1, <1>2

\* Deadlines stay exact in every step, and a tick wakes exactly the tasks whose
\* timeout it completes.
LEMMA DeadlineStep ==
    ASSUME Inv, RunInv, DeadlineExact, [Next]_vars
    PROVE  /\ DeadlineExact'
           /\ now' # now /\ active /\ ~fault =>
                \A i \in Task : state[i] = "BLOCKED" /\ deadlineActive[i] =>
                    (state'[i] = "READY" <=> remaining[i] = 1)
<1>0. TypeOK /\ SwitchTargetsReady
    BY DEF Inv
<1> SUFFICES ASSUME ~Tick
             PROVE  DeadlineExact' /\ now' = now
    BY TickDeadlines
<1> USE DEF vars, taskVars, setupVars, runVars, countVars, eventVars
<1>1. CASE SchedulerInit
    BY <1>1 DEF SchedulerInit, DeadlineExact
<1>2. ASSUME NEW i \in Task, TaskStackBind(i) \/ TaskPrepare(i)
      PROVE  DeadlineExact' /\ now' = now
    <2>1. /\ deadlineActive' = [deadlineActive EXCEPT ![i] = FALSE]
          /\ now' = now /\ fault' = fault
          /\ \A j \in Task \ {i} : deadline'[j] = deadline[j] /\ remaining'[j] = remaining[j]
        BY <1>0, <1>2 DEF TaskStackBind, TaskPrepare, TypeOK
    <2>2. \A j \in Task : deadlineActive'[j] => j # i /\ deadlineActive[j]
        BY <1>0, <2>1 DEF TypeOK
    <2> QED
        BY <2>1, <2>2 DEF DeadlineExact
<1>3. ASSUME \/ \E i \in Task, p \in Priority : TaskPrioritySet(i, p)
             \/ \E m \in BOOLEAN : StartMode(m)
             \/ HostLoop \/ WfeSpurious \/ PendSV \/ SignalFinish \/ UNCHANGED vars
      PROVE  DeadlineExact' /\ now' = now
    <2>1. /\ UNCHANGED <<deadline, deadlineActive, remaining, now, fault>>
        BY <1>3 DEF TaskPrioritySet, StartMode, HostLoop, Svc0, HostClassify, Wfe,
                    HostReturn, WfeSpurious, PendSV, PendSVSelect, PendSVSwitch, SignalFinish
    <2> QED
        BY <2>1 DEF DeadlineExact
<1>4. CASE SvcYield
    BY <1>4 DEF SvcYield, DeadlineExact
<1>5. CASE SvcExit
    <2>1. /\ current \in Task /\ now' = now /\ fault' = fault /\ remaining' = remaining
          /\ deadlineActive' = [deadlineActive EXCEPT ![current] = FALSE]
          /\ deadline' = [deadline EXCEPT ![current] = 0]
        BY <1>0, <1>5 DEF SvcExit, TaskRuns, TypeOK
    <2> QED
        BY <1>0, <2>1, CallDeadlines
<1>6. ASSUME NEW e \in Mask, SvcWaitEvents(e)
      PROVE  DeadlineExact' /\ now' = now
    <2>1. /\ current \in Task /\ now' = now /\ fault' = fault /\ remaining' = remaining
          /\ deadlineActive' = [deadlineActive EXCEPT ![current] = FALSE]
          /\ deadline' = [deadline EXCEPT ![current] = 0]
        BY <1>0, <1>6 DEF SvcWaitEvents, ReturnNow, TaskRuns, TypeOK
    <2> QED
        BY <1>0, <2>1, CallDeadlines
<1>7. ASSUME NEW e \in Mask, NEW d \in Timeouts, SvcTimedBlock(e, d)
      PROVE  DeadlineExact' /\ now' = now
    <2>1. current \in Task /\ now' = now /\ fault' = fault
        BY <1>0, <1>7 DEF SvcTimedBlock, TaskRuns, TypeOK
    <2>2. \/ /\ remaining' = remaining
             /\ deadlineActive' = [deadlineActive EXCEPT ![current] = FALSE]
             /\ deadline' = [deadline EXCEPT ![current] = 0]
          \/ /\ d # 0
             /\ remaining' = [remaining EXCEPT ![current] = d]
             /\ deadlineActive' = [deadlineActive EXCEPT ![current] = TRUE]
             /\ deadline' = [deadline EXCEPT ![current] = ClockAdd(now, d)]
        BY <1>7 DEF SvcTimedBlock, ReturnNow
    <2>3. d # 0 => d \in 1..MaxTimeout
        BY SchedulerAssumption DEF MaxTimeout
    <2> QED
        BY <1>0, <2>1, <2>2, <2>3, CallDeadlines
<1>8. CASE SvcFault \/ PendSVFault
    BY <1>8 DEF SvcFault, PendSVFault, DeadlineExact
<1>9. ASSUME NEW e \in Mask, SignalPublish(e)
      PROVE  DeadlineExact' /\ now' = now
    <2> DEFINE all == pending \cup e
               matched == [i \in Task |->
                             IF state[i] = "BLOCKED" THEN wait[i] \cap all ELSE {}]
               woken == {i \in Task : matched[i] # {}}
    <2>1. /\ deadlineActive' = [i \in Task |-> IF i \in woken THEN FALSE ELSE deadlineActive[i]]
          /\ deadline' = [i \in Task |-> IF i \in woken THEN 0 ELSE deadline[i]]
          /\ remaining' = [i \in Task |-> IF i \in woken THEN 0 ELSE remaining[i]]
          /\ now' = now /\ fault' = fault
        BY <1>9 DEF SignalPublish
    <2> HIDE DEF woken
    <2> QED
        BY <2>1 DEF DeadlineExact
<1> QED
    BY <1>1, <1>2, <1>3, <1>4, <1>5, <1>6, <1>7, <1>8, <1>9
       DEF Next, SetUp, TaskStep, Handler

\* A timeout fires in the tick that completes it and in no other, also when the
\* clock wraps in between.
THEOREM SchedulerDeadlinesHold == Spec => DeadlinesHold
<1>1. Init => DeadlineExact
    BY DEF Init, DeadlineExact
<1>2. Inv /\ RunInv /\ DeadlineExact /\ [Next]_vars => DeadlineExact'
    BY DeadlineStep
<1>3. Inv /\ RunInv /\ DeadlineExact /\ [Next]_vars
        => [ /\ DeadlineExact'
             /\ now' # now /\ active /\ ~fault =>
                    \A i \in Task : state[i] = "BLOCKED" /\ deadlineActive[i] =>
                        (state'[i] = "READY" <=> remaining[i] = 1) ]_vars
    BY DeadlineStep
<1> QED
    BY <1>1, <1>2, <1>3, SchedulerInv, SchedulerRunInv, PTL DEF Spec, DeadlinesHold
=============================================================================
