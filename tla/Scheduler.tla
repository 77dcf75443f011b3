------------------------------ MODULE Scheduler ------------------------------
(***************************************************************************)
(* The task scheduler of src/src/kernel/scheduler.c: fixed priority with   *)
(* round-robin ties, cooperative or preemptive, event masks, deadlines and *)
(* a host thread that parks in WFE when no task is READY.                  *)
(*                                                                         *)
(* What runs concurrently, and how the steps are cut:                      *)
(*   - SVC_Handler and SysTick_Handler have the highest priority, so each  *)
(*     SVC dispatch and each scheduler_tick() is one action;               *)
(*   - a USB or USART1 handler calls scheduler_event_signal().  SysTick    *)
(*     can preempt it after it restored PRIMASK, so the call is two        *)
(*     actions, SignalPublish (the masked section) and SignalFinish        *)
(*     (PENDSVSET and SEV);                                                *)
(*   - PendSV has the lowest priority.  Any handler can preempt it between *)
(*     the choice of the next task and the switch to it;                   *)
(*   - the host loop of scheduler_start_mode() runs only when no task      *)
(*     does.  Each of its masked sections is one action.                   *)
(* Left out: stacks and frames except for the r0 word through which a call *)
(* returns, wake_events (a copy of r0), and the telemetry counters.        *)
(***************************************************************************)
EXTENDS Naturals, FiniteSets

CONSTANTS
    TaskCount,     \* SCHEDULER_TASK_COUNT
    EventBits,     \* number of event bits in use (32 in the code)
    Lowest,        \* SCHEDULER_PRIORITY_LOWEST
    Default,       \* SCHEDULER_PRIORITY_DEFAULT
    HalfRange,     \* half the range of the clock (2^31 in the code)
    Timeouts       \* the timeouts that tasks ask for

Task == 0..(TaskCount - 1)
NoTask == TaskCount                       \* SCHEDULER_NO_TASK
Bit == 0..(EventBits - 1)
Mask == SUBSET Bit
One == {0}                                \* the word 1u, read as a mask
Priority == 0..Lowest
Clock == 0..(2 * HalfRange - 1)           \* uint32_t milliseconds
MaxTimeout == HalfRange - 1               \* SCHEDULER_MAX_TIMEOUT_MS

ASSUME SchedulerAssumption ==
    /\ TaskCount \in Nat \ {0}
    /\ EventBits \in Nat \ {0}
    /\ Lowest \in Nat
    /\ Default \in Priority
    /\ HalfRange \in Nat \ {0}
    /\ Timeouts \subseteq 0..MaxTimeout

VARIABLES
    state,          \* scheduler_tasks[i].state
    priority,       \* scheduler_tasks[i].priority
    wait,           \* scheduler_tasks[i].wait_events
    deadline,       \* scheduler_tasks[i].deadline_ms
    deadlineActive, \* scheduler_tasks[i].deadline_active
    r0,             \* saved_sp[8] of task i: what its call asks, then returns
    bound,          \* scheduler_tasks[i].stack_low is not NULL
    current,        \* scheduler_current_index
    active,         \* scheduler_active
    completed,      \* scheduler_completed_count
    target,         \* scheduler_target_count
    runResult,      \* scheduler_run_result
    preempt,        \* scheduler_preempt_enabled
    pending,        \* scheduler_pending_events
    now,            \* scheduler_now_ms
    pendsv,         \* the PendSV exception is pending
    eventReg,       \* the core's event register (SEV sets it, WFE clears it)
    host,           \* where the thread that called scheduler_start() is
    irq,            \* a USB/USART1 handler between PRIMASK restore and SEV
    sel,            \* the task a preempted PendSV dispatch has chosen
    remaining,      \* history: ticks left of the timeout task i asked for
    fault,          \* history: a task faulted since scheduler_init()
    runEvents       \* history: event bits signalled since scheduler_start()

taskVars == <<state, wait, deadline, deadlineActive, r0, remaining>>
setupVars == <<priority, bound>>
runVars == <<active, runResult, preempt>>
countVars == <<completed, target>>
eventVars == <<pending, runEvents>>
vars == <<taskVars, setupVars, current, runVars, countVars, eventVars, now,
          pendsv, eventReg, host, irq, sel, fault>>

-----------------------------------------------------------------------------
(* Selection and time *)

Ready(st) == {i \in Task : st[i] = "READY"}
Blocked(st) == {i \in Task : st[i] = "BLOCKED"}

\* Faulty variant: every scan starts at task 0.
ScanOffsetFixed(after, i) == i

\* How many places after `after` the scan of the task table meets task i.
ScanOffset(after, i) == IF i > after THEN i - after ELSE i + TaskCount - after

\* The smallest priority number wins; of equals, the first one in the scan.
SelectNextReady(st, pr, after) ==
    LET best == {i \in Ready(st) : \A j \in Ready(st) : pr[i] <= pr[j]}
    IN IF Ready(st) = {} THEN NoTask
       ELSE CHOOSE i \in best :
                \A j \in best : ScanOffset(after, i) <= ScanOffset(after, j)

\* Faulty variant: an unsigned comparison.
TimeReachedUnsigned(t, d) == t >= d
\* (int32_t)(now - deadline) >= 0 on the wrapping clock.
TimeReached(t, d) ==
    IF t >= d THEN t - d < HalfRange ELSE t + 2 * HalfRange - d < HalfRange

ClockAdd(t, n) ==
    IF t + n < 2 * HalfRange THEN t + n ELSE t + n - 2 * HalfRange

-----------------------------------------------------------------------------
(* Who can execute *)

\* No handler is active or pending, so thread code executes.
ThreadMode == irq = "none" /\ sel = NoTask /\ ~pendsv
TaskRuns == ThreadMode /\ host = "tasks" /\ current # NoTask

Abort ==
    /\ preempt' = FALSE
    /\ pendsv' = FALSE
    /\ active' = FALSE
    /\ current' = NoTask
    /\ runResult' = FALSE

-----------------------------------------------------------------------------
(* The set-up calls, made by the host while no run is active *)

HostIdle == host = "idle" /\ irq = "none" /\ ~active

SchedulerInit ==
    /\ HostIdle
    /\ current' = NoTask
    /\ active' = FALSE
    /\ completed' = 0
    /\ target' = 0
    /\ runResult' = FALSE
    /\ preempt' = FALSE
    /\ pending' = {}
    /\ state' = [i \in Task |-> "UNUSED"]
    /\ priority' = [i \in Task |-> Default]
    /\ bound' = [i \in Task |-> FALSE]
    /\ wait' = [i \in Task |-> {}]
    /\ deadline' = [i \in Task |-> 0]
    /\ deadlineActive' = [i \in Task |-> FALSE]
    /\ r0' = [i \in Task |-> {}]
    /\ remaining' = [i \in Task |-> 0]
    /\ fault' = FALSE
    /\ UNCHANGED <<runEvents, now, pendsv, eventReg, host, irq, sel>>

TaskPrioritySet(i, p) ==
    /\ HostIdle
    /\ priority' = [priority EXCEPT ![i] = p]
    /\ UNCHANGED <<taskVars, bound, current, runVars, countVars, eventVars, now,
                   pendsv, eventReg, host, irq, sel, fault>>

TaskStackBind(i) ==
    /\ HostIdle
    /\ state[i] = "UNUSED"
    /\ bound' = [bound EXCEPT ![i] = TRUE]
    /\ wait' = [wait EXCEPT ![i] = {}]
    /\ deadline' = [deadline EXCEPT ![i] = 0]
    /\ deadlineActive' = [deadlineActive EXCEPT ![i] = FALSE]
    /\ UNCHANGED <<state, r0, remaining, priority, current, runVars, countVars,
                   eventVars, now, pendsv, eventReg, host, irq, sel, fault>>

TaskPrepare(i) ==
    /\ HostIdle
    /\ bound[i]
    /\ r0' = [r0 EXCEPT ![i] = {}]
    /\ remaining' = [remaining EXCEPT ![i] = 0]
    /\ state' = [state EXCEPT ![i] = "READY"]
    /\ wait' = [wait EXCEPT ![i] = {}]
    /\ deadline' = [deadline EXCEPT ![i] = 0]
    /\ deadlineActive' = [deadlineActive EXCEPT ![i] = FALSE]
    /\ UNCHANGED <<setupVars, current, runVars, countVars,
                   eventVars, now, pendsv, eventReg, host, irq, sel, fault>>

\* Faulty variant: the completed count is not reset.
StartModeKeepsCount(preemptive) ==
    /\ HostIdle
    /\ Ready(state) # {}
    /\ current' = NoTask
    /\ target' = Cardinality(Ready(state))
    /\ runResult' = FALSE
    /\ preempt' = preemptive
    /\ active' = TRUE
    /\ host' = "svc0"
    /\ runEvents' = {}
    /\ UNCHANGED <<taskVars, setupVars, completed, pending, now, pendsv, eventReg,
                   irq, sel, fault>>

StartMode(preemptive) ==
    /\ HostIdle
    /\ Ready(state) # {}
    /\ current' = NoTask
    /\ completed' = 0
    /\ target' = Cardinality(Ready(state))
    /\ runResult' = FALSE
    /\ preempt' = preemptive
    /\ active' = TRUE
    /\ host' = "svc0"
    /\ runEvents' = {}
    /\ UNCHANGED <<taskVars, setupVars, pending, now, pendsv, eventReg, irq, sel,
                   fault>>

-----------------------------------------------------------------------------
(* The host loop of scheduler_start_mode() *)

\* svc #0: scheduler_svc_dispatch() entered from the host.
Svc0 ==
    /\ ThreadMode
    /\ host = "svc0"
    /\ LET next == SelectNextReady(state, priority, TaskCount - 1)
       IN IF ~active \/ current # NoTask \/ next = NoTask
          THEN Abort /\ host' = "loop"
          ELSE /\ current' = next
               /\ host' = "tasks"
               /\ UNCHANGED <<runVars, pendsv>>
    /\ UNCHANGED <<taskVars, setupVars, countVars, eventVars, now, eventReg, irq,
                   sel, fault>>

\* One pass of the while loop: READY, BLOCKED or terminal, with IRQs masked.
HostClassify ==
    /\ ThreadMode
    /\ host = "loop"
    /\ active
    /\ IF current # NoTask
       THEN Abort /\ UNCHANGED host
       ELSE IF Ready(state) # {}
       THEN host' = "svc0" /\ UNCHANGED <<current, runVars, pendsv>>
       ELSE IF Blocked(state) # {}
       THEN host' = "wfe" /\ UNCHANGED <<current, runVars, pendsv>>
       ELSE Abort /\ UNCHANGED host
    /\ UNCHANGED <<taskVars, setupVars, countVars, eventVars, now, eventReg, irq,
                   sel, fault>>

\* WFE returns at once when the event register is set, and clears it.
Wfe ==
    /\ ThreadMode
    /\ host = "wfe"
    /\ eventReg
    /\ eventReg' = FALSE
    /\ host' = "loop"
    /\ UNCHANGED <<taskVars, setupVars, current, runVars, countVars, eventVars,
                   now, pendsv, irq, sel, fault>>

\* The architecture lets WFE return for other reasons too; nothing relies on it.
WfeSpurious ==
    /\ ThreadMode
    /\ host = "wfe"
    /\ host' = "loop"
    /\ UNCHANGED <<taskVars, setupVars, current, runVars, countVars, eventVars,
                   now, pendsv, eventReg, irq, sel, fault>>

\* The loop ends; scheduler_start_mode() returns to its caller.
HostReturn ==
    /\ ThreadMode
    /\ host = "loop"
    /\ ~active
    /\ preempt' = FALSE
    /\ host' = "idle"
    /\ UNCHANGED <<taskVars, setupVars, current, active, runResult, countVars,
                   eventVars, now, pendsv, eventReg, irq, sel, fault>>

-----------------------------------------------------------------------------
(* SVCs of the running task *)

\* The end of scheduler_svc_dispatch(): st and done are the new task states
\* and the new completed count.
Reschedule(st, done) ==
    LET next == SelectNextReady(st, priority, current)
    IN IF next # NoTask
       THEN current' = next /\ UNCHANGED <<runVars, pendsv, host>>
       ELSE /\ host' = "loop"
            /\ IF done = target
               THEN /\ pendsv' = FALSE
                    /\ current' = NoTask
                    /\ preempt' = FALSE
                    /\ active' = FALSE
                    /\ runResult' = TRUE
               ELSE IF Blocked(st) = {}
               THEN Abort
               ELSE /\ pendsv' = FALSE
                    /\ current' = NoTask
                    /\ UNCHANGED runVars

SvcYield ==
    /\ TaskRuns
    /\ Reschedule(state, completed)
    /\ UNCHANGED <<taskVars, setupVars, countVars, eventVars, now, eventReg, irq,
                   sel, fault>>

SvcExit ==
    /\ TaskRuns
    /\ state' = [state EXCEPT ![current] = "DONE"]
    /\ wait' = [wait EXCEPT ![current] = {}]
    /\ deadline' = [deadline EXCEPT ![current] = 0]
    /\ deadlineActive' = [deadlineActive EXCEPT ![current] = FALSE]
    /\ completed' = completed + 1
    /\ Reschedule(state', completed')
    /\ UNCHANGED <<r0, remaining, setupVars, target, eventVars, now, eventReg, irq,
                   sel, fault>>

\* Faulty variant: the result is not stored in the frame.
ReturnNowSilent(result) ==
    /\ wait' = [wait EXCEPT ![current] = {}]
    /\ deadline' = [deadline EXCEPT ![current] = 0]
    /\ deadlineActive' = [deadlineActive EXCEPT ![current] = FALSE]
    /\ UNCHANGED <<r0, state, remaining, current, runVars, pendsv, host>>

\* The call returns `result` at once, without a switch.
ReturnNow(result) ==
    /\ wait' = [wait EXCEPT ![current] = {}]
    /\ deadline' = [deadline EXCEPT ![current] = 0]
    /\ deadlineActive' = [deadlineActive EXCEPT ![current] = FALSE]
    /\ r0' = [r0 EXCEPT ![current] = result]
    /\ UNCHANGED <<state, remaining, current, runVars, pendsv, host>>

\* Faulty variant: blocks without looking at the pending events.
SvcWaitEventsBlind(events) ==
    /\ TaskRuns
    /\ wait' = [wait EXCEPT ![current] = events]
    /\ deadline' = [deadline EXCEPT ![current] = 0]
    /\ deadlineActive' = [deadlineActive EXCEPT ![current] = FALSE]
    /\ r0' = [r0 EXCEPT ![current] = events]
    /\ state' = [state EXCEPT ![current] = "BLOCKED"]
    /\ Reschedule(state', completed)
    /\ UNCHANGED <<pending, remaining, setupVars, countVars, runEvents, now,
                   eventReg, irq, sel, fault>>

\* scheduler_wait_events(events), events # 0.
SvcWaitEvents(events) ==
    /\ TaskRuns
    /\ LET matched == pending \cap events
       IN \/ /\ matched # {}
             /\ pending' = pending \ matched
             /\ ReturnNow(matched)
          \/ /\ matched = {}
             /\ wait' = [wait EXCEPT ![current] = events]
             /\ deadline' = [deadline EXCEPT ![current] = 0]
             /\ deadlineActive' = [deadlineActive EXCEPT ![current] = FALSE]
             /\ r0' = [r0 EXCEPT ![current] = events]
             /\ state' = [state EXCEPT ![current] = "BLOCKED"]
             /\ Reschedule(state', completed)
             /\ UNCHANGED <<pending, remaining>>
    /\ UNCHANGED <<setupVars, countVars, runEvents, now, eventReg, irq, sel, fault>>

\* scheduler_wait_events_timeout(events, timeout), or scheduler_sleep_ms(timeout)
\* when events = {}.
SvcTimedBlock(events, timeout) ==
    /\ TaskRuns
    /\ LET matched == pending \cap events
       IN \/ /\ matched # {}
             /\ pending' = pending \ matched
             /\ ReturnNow(matched)
          \/ /\ matched = {}
             /\ timeout = 0
             /\ ReturnNow(IF events = {} THEN One ELSE {})
             /\ UNCHANGED pending
          \/ /\ matched = {}
             /\ timeout # 0
             /\ wait' = [wait EXCEPT ![current] = events]
             /\ deadline' = [deadline EXCEPT ![current] = ClockAdd(now, timeout)]
             /\ deadlineActive' = [deadlineActive EXCEPT ![current] = TRUE]
             /\ r0' = [r0 EXCEPT ![current] = events]
             /\ state' = [state EXCEPT ![current] = "BLOCKED"]
             /\ remaining' = [remaining EXCEPT ![current] = timeout]
             /\ Reschedule(state', completed)
             /\ UNCHANGED pending
    /\ UNCHANGED <<setupVars, countVars, runEvents, now, eventReg, irq, sel, fault>>

\* An SVC from a frame outside the task's stack, or with an unknown number.
SvcFault ==
    /\ TaskRuns
    /\ Abort
    /\ host' = "loop"
    /\ fault' = TRUE
    /\ UNCHANGED <<taskVars, setupVars, countVars, eventVars, now, eventReg, irq,
                   sel>>

-----------------------------------------------------------------------------
(* PendSV: preemption *)

\* Entry of scheduler_pendsv_dispatch() up to the choice of the next task.  From
\* the host (MSP) the handler returns at once.
PendSVSelect ==
    /\ irq = "none"
    /\ sel = NoTask
    /\ pendsv
    /\ IF current = NoTask
       THEN pendsv' = FALSE /\ UNCHANGED <<sel, current, runVars, host>>
       ELSE LET next == SelectNextReady(state, priority, current)
            IN IF ~active \/ ~preempt \/ next = NoTask
               THEN Abort /\ host' = "loop" /\ UNCHANGED sel
               ELSE /\ pendsv' = FALSE
                    /\ sel' = next
                    /\ UNCHANGED <<current, runVars, host>>
    /\ UNCHANGED <<taskVars, setupVars, countVars, eventVars, now, eventReg, irq,
                   fault>>

PendSVSwitch ==
    /\ irq = "none"
    /\ sel # NoTask
    /\ current' = sel
    /\ sel' = NoTask
    /\ UNCHANGED <<taskVars, setupVars, runVars, countVars, eventVars, now, pendsv,
                   eventReg, host, irq, fault>>

\* The preempted task's frame lies outside its stack.
PendSVFault ==
    /\ irq = "none"
    /\ sel = NoTask
    /\ pendsv
    /\ current # NoTask
    /\ Abort
    /\ host' = "loop"
    /\ fault' = TRUE
    /\ UNCHANGED <<taskVars, setupVars, countVars, eventVars, now, eventReg, irq,
                   sel>>

-----------------------------------------------------------------------------
(* Interrupt handlers *)

\* scheduler_event_signal(events), events # 0, up to scheduler_irq_restore().
SignalPublish(events) ==
    /\ irq = "none"
    /\ active
    /\ LET all == pending \cup events
           matched == [i \in Task |->
                         IF state[i] = "BLOCKED" THEN wait[i] \cap all ELSE {}]
           woken == {i \in Task : matched[i] # {}}
           Woken(f, g) == [i \in Task |-> IF i \in woken THEN g[i] ELSE f[i]]
       IN /\ wait' = Woken(wait, [i \in Task |-> {}])
          /\ deadline' = Woken(deadline, [i \in Task |-> 0])
          /\ deadlineActive' = Woken(deadlineActive, [i \in Task |-> FALSE])
          /\ r0' = Woken(r0, matched)
          /\ remaining' = Woken(remaining, [i \in Task |-> 0])
          /\ state' = Woken(state, [i \in Task |-> "READY"])
          /\ pending' = {b \in all : \A i \in Task : b \notin matched[i]}
          /\ irq' = IF woken # {} THEN "woke" ELSE "quiet"
    /\ runEvents' = runEvents \cup events
    /\ UNCHANGED <<setupVars, current, runVars, countVars, now, pendsv,
                   eventReg, host, sel, fault>>

\* Faulty variants: no PENDSVSET, and no SEV.
SignalFinishNoPendSV ==
    /\ irq # "none"
    /\ eventReg' = TRUE
    /\ irq' = "none"
    /\ UNCHANGED <<taskVars, setupVars, current, runVars, countVars, eventVars, now,
                   pendsv, host, sel, fault>>

SignalFinishNoSev ==
    /\ irq # "none"
    /\ pendsv' = (pendsv \/ (irq = "woke" /\ preempt /\ current # NoTask))
    /\ irq' = "none"
    /\ UNCHANGED <<taskVars, setupVars, current, runVars, countVars, eventVars, now,
                   eventReg, host, sel, fault>>

\* The rest of scheduler_event_signal(), and the return from the handler.
SignalFinish ==
    /\ irq # "none"
    /\ pendsv' = (pendsv \/ (irq = "woke" /\ preempt /\ current # NoTask))
    /\ eventReg' = TRUE
    /\ irq' = "none"
    /\ UNCHANGED <<taskVars, setupVars, current, runVars, countVars, eventVars, now,
                   host, sel, fault>>

\* The tasks that scheduler_tick(t) wakes.
Expired(t) ==
    {i \in Task : /\ active
                  /\ state[i] = "BLOCKED"
                  /\ deadlineActive[i]
                  /\ TimeReached(t, deadline[i])}

\* SysTick_Handler: scheduler_tick(++kernel_ticks).
Tick ==
    LET t == ClockAdd(now, 1)
        expired == Expired(t)
    IN /\ now' = t
       /\ state' = [i \in Task |-> IF i \in expired THEN "READY" ELSE state[i]]
       /\ wait' = [i \in Task |-> IF i \in expired THEN {} ELSE wait[i]]
       /\ deadline' = [i \in Task |-> IF i \in expired THEN 0 ELSE deadline[i]]
       /\ deadlineActive' =
              [i \in Task |-> deadlineActive[i] /\ i \notin expired]
       /\ r0' = [i \in Task |-> IF i \notin expired THEN r0[i]
                                ELSE IF wait[i] = {} THEN One ELSE {}]
       /\ remaining' =
              [i \in Task |-> IF i \in expired \/ remaining[i] = 0 THEN 0
                              ELSE remaining[i] - 1]
       /\ pendsv' = (pendsv \/ (active /\ preempt /\ current # NoTask))
       /\ eventReg' = (eventReg \/ expired # {})
       /\ UNCHANGED <<setupVars, current, runVars, countVars, eventVars, host, irq,
                      sel, fault>>

-----------------------------------------------------------------------------

\* Static storage at reset, and scheduler_init(); the clock may have any value.
Init ==
    /\ state = [i \in Task |-> "UNUSED"]
    /\ priority = [i \in Task |-> Default]
    /\ wait = [i \in Task |-> {}]
    /\ deadline = [i \in Task |-> 0]
    /\ deadlineActive = [i \in Task |-> FALSE]
    /\ r0 = [i \in Task |-> {}]
    /\ bound = [i \in Task |-> FALSE]
    /\ current = NoTask
    /\ active = FALSE
    /\ completed = 0
    /\ target = 0
    /\ runResult = FALSE
    /\ preempt = FALSE
    /\ pending = {}
    /\ now \in Clock
    /\ pendsv = FALSE
    /\ eventReg = FALSE
    /\ host = "idle"
    /\ irq = "none"
    /\ sel = NoTask
    /\ remaining = [i \in Task |-> 0]
    /\ fault = FALSE
    /\ runEvents = {}

SetUp ==
    \/ SchedulerInit
    \/ \E i \in Task : TaskStackBind(i) \/ TaskPrepare(i)
    \/ \E i \in Task, p \in Priority : TaskPrioritySet(i, p)
    \/ \E m \in BOOLEAN : StartMode(m)

HostLoop == Svc0 \/ HostClassify \/ Wfe \/ HostReturn

TaskStep ==
    \/ SvcYield
    \/ SvcExit
    \/ \E e \in Mask \ {{}} : SvcWaitEvents(e)
    \/ \E e \in Mask, d \in Timeouts : SvcTimedBlock(e, d)
    \/ SvcFault

PendSV == PendSVSelect \/ PendSVSwitch

Handler ==
    \/ \E e \in Mask \ {{}} : SignalPublish(e)
    \/ SignalFinish
    \/ Tick

Next ==
    SetUp \/ HostLoop \/ WfeSpurious \/ TaskStep \/ PendSV \/ PendSVFault \/ Handler

Spec == Init /\ [][Next]_vars

\* SysTick is periodic and a handler that started finishes.  Interrupts arrive at
\* a bounded rate, so the code below them, PendSV and the host loop, gets cycles
\* again and again (hence SF: a handler disables it while it runs).  Nothing is
\* assumed of the tasks: they may spin for ever.
Fairness ==
    /\ WF_vars(Tick)
    /\ WF_vars(SignalFinish)
    /\ SF_vars(PendSV)
    /\ SF_vars(HostLoop)

FairSpec == Spec /\ Fairness

-----------------------------------------------------------------------------
(* Properties *)

\* Every variable of scheduler.c keeps to its range.
TypeOK ==
    /\ state \in [Task -> {"UNUSED", "READY", "BLOCKED", "DONE"}]
    /\ priority \in [Task -> Priority]
    /\ wait \in [Task -> Mask]
    /\ deadline \in [Task -> Clock]
    /\ deadlineActive \in [Task -> BOOLEAN]
    /\ r0 \in [Task -> Mask]
    /\ bound \in [Task -> BOOLEAN]
    /\ current \in Task \cup {NoTask}
    /\ active \in BOOLEAN
    /\ completed \in Nat
    /\ target \in Nat
    /\ runResult \in BOOLEAN
    /\ preempt \in BOOLEAN
    /\ pending \in Mask
    /\ now \in Clock
    /\ pendsv \in BOOLEAN
    /\ eventReg \in BOOLEAN
    /\ host \in {"idle", "svc0", "tasks", "loop", "wfe"}
    /\ irq \in {"none", "quiet", "woke"}
    /\ sel \in Task \cup {NoTask}
    /\ remaining \in [Task -> Nat]
    /\ fault \in BOOLEAN
    /\ runEvents \in Mask

\* A context switch never lands on a task that cannot run: whatever handlers
\* intervene, the task that executes, and the one a half-finished PendSV dispatch
\* is about to switch to, are READY members of an active run, and PendSV is never
\* left pending towards the host.
SwitchTargetsReady ==
    /\ current # NoTask => active /\ host = "tasks" /\ state[current] = "READY"
    /\ sel # NoTask => preempt /\ current # NoTask /\ state[sel] = "READY"
    /\ pendsv => preempt /\ current # NoTask

\* No lost wake-up: a task is never BLOCKED on an event that is already latched
\* in scheduler_pending_events, in whichever order wait and signal happened.
NoLostWakeUp ==
    \A i \in Task : state[i] = "BLOCKED" => wait[i] \cap pending = {}

\* A BLOCKED task always has something to wake it, an event or a deadline, and a
\* task that is not BLOCKED carries no wait or deadline left over from before.
BlockedCanWake ==
    \A i \in Task :
        IF state[i] = "BLOCKED" THEN wait[i] # {} \/ deadlineActive[i]
        ELSE wait[i] = {} /\ ~deadlineActive[i]

\* Between scheduler_init() and the next fault, the deadline of a BLOCKED task is
\* always exactly `remaining` ticks ahead on the wrapping clock: the timeout
\* fires neither early nor late, also across the wrap.
DeadlineExact ==
    ~fault => \A i \in Task : deadlineActive[i] =>
        /\ remaining[i] \in 1..MaxTimeout
        /\ deadline[i] = ClockAdd(now, remaining[i])

\* The completed count plus the tasks still alive is the number started, so the
\* `completed == target` test that ends a run is true exactly when it should be.
RunAccounting ==
    active /\ ~fault =>
        completed + Cardinality({i \in Task : state[i] \in {"READY", "BLOCKED"}})
            = target

\* The host never gives up a run while tasks could still wake: unless a task
\* faulted, a run that ended has run_result 1.
NoFalseAbort == host = "loop" /\ ~active /\ ~fault => runResult

\* In preemptive mode, whenever thread code executes, no READY task has a higher
\* priority than the one executing: a wake-up during a handler, or in the middle
\* of a PendSV dispatch, always leads to another dispatch.
HighestPriorityRuns ==
    preempt /\ ThreadMode /\ current # NoTask =>
        \A i \in Ready(state) : priority[current] <= priority[i]

\* A latched event bit disappears only into the result of a wait that asked for
\* it, or when scheduler_init() starts over.
EventsNotDropped ==
    [][ \A b \in pending \ pending' :
            \/ \E i \in Task : b \in r0'[i] /\ state'[i] = "READY"
            \/ \A i \in Task : state'[i] = "UNUSED" ]_vars

\* A task that becomes READY while the host is parked, or about to park, is run:
\* the SEV that follows every wake-up is never missed by the WFE.
IdleWakesUp ==
    (host = "wfe" /\ Ready(state) # {}) ~> (current # NoTask \/ ~active)

\* In preemptive mode a READY task that no task outranks gets the CPU, even if
\* the others never yield: round-robin among equals at every tick.
PreemptiveShare ==
    \A i \in Task :
        (preempt /\ state[i] = "READY" /\ \A j \in Task : priority[i] <= priority[j])
            ~> (current = i \/ ~active)

\* What scheduler.c says of latched events: they wait for a future wait in this
\* scheduler run, so every latched bit was signalled since the run started.
LatchedInThisRun == active /\ ~fault => pending \subseteq runEvents

\* Wake-ups, together: a BLOCKED task has something to wake it, and it is not there
\* already.
WakeUpsHold == NoLostWakeUp /\ BlockedCanWake

\* Switches, together: to READY tasks of an active run only, and in preemptive mode
\* away from a task that a READY one outranks.
SwitchesHold == TypeOK /\ SwitchTargetsReady /\ HighestPriorityRuns

\* scheduler_sleep_ms() and timeouts: while a task is BLOCKED its deadline is exactly
\* as far ahead as its timeout has left to run, and a tick wakes it when the whole
\* timeout has elapsed, neither before nor after.
DeadlinesHold ==
    [][ /\ DeadlineExact'
        /\ now' # now /\ active /\ ~fault =>
               \A i \in Task : state[i] = "BLOCKED" /\ deadlineActive[i] =>
                   (state'[i] = "READY" <=> remaining[i] = 1) ]_vars

\* The end of a run, together: completed tasks are counted right and the host gives
\* up no run that could go on.
RunEnds == RunAccounting /\ NoFalseAbort
==============================================================================
