-------------------------- MODULE ProductionTasks --------------------------
(* The production runtime of kernel.c: the boot sequence of kernel_main, the   *)
(* console task and the heartbeat task under the cooperative scheduler, the    *)
(* USART1 receive ring with the text console behind it, the management ring    *)
(* with the RPC service behind it, the one command that blocks its task        *)
(* (schedtimed), and the independent watchdog that both tasks reload.          *)
(* Interrupts (USART1, USB, SysTick) may come between any two steps of a task. *)
(*                                                                             *)
(* Time is counted in ticks of BOOT_DESKTOP_UI_POLL_MS, a shorter timeout being *)
(* rounded up to one.  A task that can run takes at least one step between two *)
(* ticks (a byte of the console, or a piece of management input, with the      *)
(* blocking answer it causes is one step); `stepped' says that it did.         *)
EXTENDS Integers, Sequences, FiniteSets, SequencesExt

CONSTANTS
    Bytes,          \* bytes the serial host may send
    Methods,        \* registry: method name (a sequence of letters) -> descriptor
    RingCapacity,   \* USART1_RX_RING_CAPACITY
    UsbCapacity,    \* USB_MANAGEMENT_RX_RING_CAPACITY, in pieces of input
    LineCapacity,   \* COMMAND_SERVICE_LINE_CAPACITY
    MaxArgs,        \* COMMAND_SERVICE_MAX_ARGS
    PollTicks,      \* BOOT_DESKTOP_UI_POLL_MS
    BeatTicks,      \* PRODUCTION_HEARTBEAT_PERIOD_MS
    ShortTicks,     \* SCHED_TIMED_SLEEP_MS and SCHED_TIMED_TIMEOUT_MS
    LongTicks,      \* SCHED_TIMED_EVENT_TIMEOUT_MS
    WatchdogTicks,  \* PRODUCTION_IWDG_RELOAD at PRODUCTION_IWDG_PRESCALER
    MayFail,        \* the boot stages that may fail, "bridge" and "core" (a CPU fault)
    TxOutcomes,     \* results usart1_write_byte may have
    MaxBytes,       \* bound: serial bytes sent; negative: the host never stops
    MaxUsb          \* bound: USB packets; negative: the host never stops

ASSUME SizesAssumption ==
    /\ {RingCapacity, UsbCapacity, LineCapacity, MaxArgs, PollTicks, BeatTicks,
        ShortTicks, LongTicks, WatchdogTicks} \subseteq Nat \ {0}
    /\ TxOutcomes \in SUBSET BOOLEAN
    /\ {MaxBytes, MaxUsb} \subseteq Int

VARIABLES
    mode,     \* where the processor is: boot, run, closed, dark or fault
    stage,    \* the stage of kernel_main that runs next
    dog,      \* the watchdog: counting, ticks left, production_watchdog_active
    tasks,    \* the scheduler's view of the two production tasks
    current,  \* the task on the processor, or the host that waits with WFE
    pc,       \* where each task is in its loop
    timed,    \* the call of schedtimed that is next, 0 outside of it
    pending,  \* scheduler_pending_events
    ring,     \* the bytes of the USART1 ring, oldest first
    line,     \* uart_command_state.data up to its length
    usb,      \* pieces of input (a request, or bytes short of one) in the USB ring
    sent,     \* serial bytes and USB packets sent so far (bounds)
    wire,     \* history: bytes the ring accepted since reset
    ran,      \* history: what the console did with each line since reset
    stepped,  \* history: a runnable task took a step since the last tick
    handled   \* history: bytes and pieces the console took since the last reload

ioVars == <<ring, line, usb, wire, ran>>
vars == <<mode, stage, dog, tasks, current, pc, timed, pending, ring, line, usb, sent,
          wire, ran, stepped, handled>>

Tasks == {"console", "heartbeat"}
Priority == [console |-> 128, heartbeat |-> 255]
RxEvents == {"uart", "usb"}
Stages == <<"clock", "uart", "selftest", "usb", "display", "scheduler",
            "management", "prepare", "iwdg">>

-----------------------------------------------------------------------------
(* The text console: console_feed_char and command_service_parse_line.         *)

Newline == "nl"
Backspace == "bs"
Separator == "sp"
Err == <<"ERR">>

(* command_service_parse_line: the words of a line between separators.         *)
Words(text) ==
    FoldLeft(LAMBDA acc, c :
                 IF c = Separator THEN [acc EXCEPT !.open = FALSE]
                 ELSE IF acc.open
                 THEN [acc EXCEPT !.words[Len(acc.words)] = Append(@, c)]
                 ELSE [open |-> TRUE, words |-> Append(acc.words, <<c>>)],
             [open |-> FALSE, words |-> <<>>], text).words

(* What console_execute_state does with a line: the method it runs, or "ERR".  *)
Outcome(text) ==
    LET words == Words(text)
        argc == Len(words) - 1
    IN  IF /\ words # <<>>
           /\ argc <= MaxArgs
           /\ words[1] \in DOMAIN Methods
           /\ argc \in Methods[words[1]].min .. Methods[words[1]].max
        THEN words[1] ELSE Err

Trips(outcome) == outcome # Err /\ Methods[outcome].class = "DESTRUCTIVE"
Blocks(outcome) == outcome # Err /\ Methods[outcome].blocks

(* console_feed_char: the line after a byte, and what was executed.            *)
Feed(text, c) ==
    CASE c = Newline ->
             [line |-> <<>>, ran |-> IF text = <<>> THEN <<>> ELSE <<Outcome(text)>>]
      [] c = Backspace ->
             [line |-> SubSeq(text, 1, Len(text) - 1), ran |-> <<>>]
      [] Len(text) < LineCapacity - 1 /\ c \notin {Newline, Backspace} ->
             [line |-> Append(text, c), ran |-> <<>>]
      [] OTHER -> [line |-> <<>>, ran |-> <<Err>>]

-----------------------------------------------------------------------------
(* The scheduler as the two tasks use it; module Scheduler has the whole of it.*)

Ready(ts) == {t \in Tasks : ts[t].state = "ready"}

(* The ready task with the smallest priority number; the host when none is.    *)
Select(ts) ==
    IF Ready(ts) = {} THEN "host"
    ELSE CHOOSE t \in Ready(ts) : \A u \in Ready(ts) : Priority[t] <= Priority[u]

(* Faulty variant: the heartbeat runs although the console does not yield. *)
MayRunPreempted(t) == mode = "run" /\ tasks[t].state = "ready"

(* scheduler_start is the cooperative start: a task keeps the processor until  *)
(* it blocks or returns.                                                       *)
MayRun(t) == mode = "run" /\ current = t

(* A task made ready, with what its call returns.                              *)
WakeAs(result) == [state |-> "ready", wait |-> {}, left |-> 0, got |-> result]

(* Faulty variant: an event without a waiter is lost. *)
SignalUnlatched(e) ==
    LET woken == {t \in Tasks : tasks[t].state = "blocked" /\ e \in tasks[t].wait}
    IN  /\ tasks' = [t \in Tasks |-> IF t \in woken
                       THEN WakeAs({e})
                       ELSE tasks[t]]
        /\ pending' = pending

(* scheduler_event_signal: wakes a blocked task that waits for the event, and  *)
(* latches the event when there is none.  Before scheduler_start it is lost.   *)
Signal(e) ==
    LET woken == {t \in Tasks : tasks[t].state = "blocked" /\ e \in tasks[t].wait}
    IN  IF mode # "run" THEN UNCHANGED <<tasks, pending>>
        ELSE /\ tasks' = [t \in Tasks |-> IF t \in woken
                            THEN WakeAs({e})
                            ELSE tasks[t]]
             /\ pending' = IF woken = {} THEN pending \cup {e} ELSE pending

(* scheduler_tick: a blocked task whose deadline is reached becomes ready;     *)
(* a sleep ends with 1, a wait that timed out with no event.                   *)
Result(t) == IF t.wait = {} THEN {"slept"} ELSE {}
Expire(ts) ==
    [t \in Tasks |->
        IF ts[t].state # "blocked" THEN ts[t]
        ELSE IF ts[t].left = 1 THEN WakeAs(Result(ts[t]))
        ELSE [ts[t] EXCEPT !.left = @ - 1]]

(* The SVC that blocks the running task and lets the scheduler choose.         *)
Block(t, events, ticks) ==
    LET ts == [tasks EXCEPT ![t] = [state |-> "blocked", wait |-> events,
                                    left |-> ticks, got |-> {}]]
    IN  tasks' = ts /\ current' = Select(ts)

(* scheduler_wait_events_timeout of the console: latched events are consumed   *)
(* and return at once and to the same task; without one a zero timeout returns *)
(* no event and any other blocks.                                              *)
WaitEvents(events, ticks) ==
    /\ pending' = pending \ events
    /\ IF pending \cap events # {} \/ ticks = 0
       THEN /\ tasks' = [tasks EXCEPT !["console"].got = pending \cap events]
            /\ UNCHANGED current
       ELSE Block("console", events, ticks)

(* A task function that returns.  When both have, scheduler_start returns and  *)
(* kernel_main fails closed.                                                   *)
Exit(t) ==
    LET ts == [tasks EXCEPT ![t].state = "done"]
    IN  /\ tasks' = ts
        /\ current' = Select(ts)
        /\ mode' = IF \A u \in Tasks : ts[u].state = "done" THEN "closed" ELSE mode

-----------------------------------------------------------------------------
(* Boot: kernel_main up to scheduler_start.                                    *)

NewTask == [state |-> "ready", wait |-> {}, left |-> 0, got |-> {}]
DogOff == [on |-> FALSE, left |-> WatchdogTicks, active |-> FALSE]

Init ==
    /\ mode = "boot" /\ stage = 1
    /\ dog = DogOff
    /\ tasks = [t \in Tasks |-> NewTask]
    /\ current = "host"
    /\ pc = [console |-> "start", heartbeat |-> "start"] /\ timed = 0
    /\ pending = {} /\ ring = <<>> /\ line = <<>> /\ usb = 0
    /\ wire = <<>> /\ ran = <<>> /\ stepped = FALSE /\ handled = 0
    /\ sent = [uart |-> 0, usb |-> 0]

(* A stage that succeeds, or one whose failure kernel_main carries on from.    *)
BootStage ==
    /\ mode = "boot" /\ Stages[stage] # "iwdg"
    /\ stage' = stage + 1
    /\ UNCHANGED <<mode, dog, tasks, current, pc, timed, pending, ioVars, sent,
                   stepped, handled>>

(* A clock that does not start stops the boot with the LED on; the other       *)
(* stages except the display fail closed.                                      *)
BootFails ==
    /\ mode = "boot" /\ Stages[stage] \in MayFail \ {"display", "uart", "iwdg"}
    /\ mode' = IF Stages[stage] = "clock" THEN "dark" ELSE "closed"
    /\ UNCHANGED <<stage, dog, tasks, current, pc, timed, pending, ioVars, sent,
                   stepped, handled>>

(* iwdg_start: the LSI may not get ready (nothing started), the update flags   *)
(* may stay set (the watchdog already counts), or it succeeds; then the        *)
(* scheduler starts with the console task.                                     *)
StartWatchdog ==
    /\ mode = "boot" /\ Stages[stage] = "iwdg"
    /\ \/ /\ mode' = "run" /\ current' = Select(tasks)
          /\ dog' = [on |-> TRUE, left |-> WatchdogTicks, active |-> TRUE]
       \/ /\ "iwdg" \in MayFail
          /\ mode' = "closed" /\ UNCHANGED current
          /\ \E counting \in BOOLEAN : dog' = [dog EXCEPT !.on = counting]
    /\ UNCHANGED <<stage, tasks, pc, timed, pending, ioVars, sent, stepped, handled>>

-----------------------------------------------------------------------------
(* The console task.                                                           *)

Reloaded == [dog EXCEPT !.left = IF dog.active THEN WatchdogTicks ELSE @]
Stepped == stepped' = TRUE

(* One more byte or piece; counted no further than the watchdog's period.      *)
Handles == handled' = IF handled < WatchdogTicks THEN handled + 1 ELSE handled

(* console_execute_request, for the command a byte or a piece completes, if    *)
(* any: wdogtrip parks the task once its announcement was written, schedtimed  *)
(* goes on in ConsoleTimed, every other method is over when its answer is.     *)
Executes(commands, written) ==
    IF commands # <<>> /\ Trips(commands[1]) /\ dog.active /\ written
    THEN pc' = [pc EXCEPT !["console"] = "parked"] /\ UNCHANGED timed
    ELSE /\ timed' = IF commands # <<>> /\ Blocks(commands[1]) THEN 1 ELSE timed
         /\ UNCHANGED pc

ConsoleStart ==
    /\ MayRun("console") /\ pc["console"] = "start"
    /\ \/ pc' = [pc EXCEPT !["console"] = "drain"] /\ UNCHANGED <<tasks, current, mode>>
       \/ "bridge" \in MayFail /\ Exit("console") /\ UNCHANGED pc
    /\ Stepped
    /\ UNCHANGED <<stage, dog, timed, pending, ioVars, sent, handled>>

(* console_drain_uart_rx: one byte and the command it completes.               *)
ConsoleByte ==
    /\ MayRun("console") /\ pc["console"] = "drain" /\ timed = 0 /\ ring # <<>>
    /\ ring' = Tail(ring)
    /\ \E fed \in {Feed(line, Head(ring))}, written \in TxOutcomes :
         /\ line' = fed.line
         /\ ran' = IF MaxBytes < 0 THEN ran ELSE ran \o fed.ran
         /\ Executes(fed.ran, written)
    /\ Stepped /\ Handles
    /\ UNCHANGED <<mode, stage, dog, tasks, current, pending, usb, sent, wire>>

ConsoleDrained ==
    /\ MayRun("console") /\ pc["console"] = "drain" /\ timed = 0 /\ ring = <<>>
    /\ pc' = [pc EXCEPT !["console"] = "usb"]
    /\ Stepped
    /\ UNCHANGED <<mode, stage, dog, tasks, current, timed, pending, ioVars, sent, handled>>

(* The loop of usb_management_runtime_service: one piece of input, which may   *)
(* complete a request; modules UsbManagement and BinaryRpc have the rest.      *)
ConsoleRequest ==
    /\ MayRun("console") /\ pc["console"] = "usb" /\ timed = 0 /\ usb > 0
    /\ usb' = usb - 1
    /\ \E commands \in {<<>>, <<Err>>} \cup {<<m>> : m \in DOMAIN Methods},
         written \in TxOutcomes : Executes(commands, written)
    /\ Stepped /\ Handles
    /\ UNCHANGED <<mode, stage, dog, tasks, current, pending, ring, line, sent, wire, ran>>

(* console_scheduler_timed_test: a sleep, then for the event of the transport  *)
(* that brought the command a look, a wait, a look and a longer wait.  It      *)
(* discards what it finds latched.                                             *)
Source == IF pc["console"] = "drain" THEN "uart" ELSE "usb"
ConsoleTimed ==
    /\ MayRun("console") /\ timed > 0
    /\ timed' = (timed + 1) % 7
    /\ \/ timed = 1 /\ Block("console", {}, ShortTicks) /\ UNCHANGED pending
       \/ timed \in {2, 4} /\ WaitEvents({Source}, 0)
       \/ timed = 3 /\ WaitEvents({Source}, ShortTicks)
       \/ timed = 5 /\ WaitEvents({Source}, LongTicks)
       \/ timed = 6 /\ UNCHANGED <<tasks, current, pending>>
    /\ Stepped
    /\ UNCHANGED <<mode, stage, dog, pc, ioVars, sent, handled>>

(* The management ring is empty: production_watchdog_reload and                *)
(* boot_desktop_ui_service; module DesktopUi has the rest.                     *)
ConsoleServices ==
    /\ MayRun("console") /\ pc["console"] = "usb" /\ timed = 0 /\ usb = 0
    /\ dog' = Reloaded /\ handled' = 0
    /\ pc' = [pc EXCEPT !["console"] = "wait"]
    /\ Stepped
    /\ UNCHANGED <<mode, stage, tasks, current, timed, pending, ioVars, sent>>

ConsoleWait ==
    /\ MayRun("console") /\ pc["console"] = "wait"
    /\ pc' = [pc EXCEPT !["console"] = "woken"]
    /\ WaitEvents(RxEvents, PollTicks)
    /\ Stepped
    /\ UNCHANGED <<mode, stage, dog, timed, ioVars, sent, handled>>

ConsoleWoken ==
    /\ MayRun("console") /\ pc["console"] = "woken"
    /\ IF tasks["console"].got \subseteq RxEvents
       THEN pc' = [pc EXCEPT !["console"] = "drain"] /\ UNCHANGED <<tasks, current, mode>>
       ELSE Exit("console") /\ UNCHANGED pc
    /\ Stepped
    /\ UNCHANGED <<stage, dog, timed, pending, ioVars, sent, handled>>

-----------------------------------------------------------------------------
(* The heartbeat task: sleep, toggle the LED, reload.                          *)

HeartbeatSleep ==
    /\ MayRun("heartbeat") /\ pc["heartbeat"] \in {"start", "sleep"}
    /\ pc' = [pc EXCEPT !["heartbeat"] = "beat"]
    /\ Block("heartbeat", {}, BeatTicks)
    /\ Stepped
    /\ UNCHANGED <<mode, stage, dog, timed, pending, ioVars, sent, handled>>

(* Faulty variant: the LED is toggled, the watchdog not reloaded. *)
HeartbeatNoReload ==
    /\ MayRun("heartbeat") /\ pc["heartbeat"] = "beat"
    /\ IF tasks["heartbeat"].got = {"slept"}
       THEN /\ pc' = [pc EXCEPT !["heartbeat"] = "sleep"]
            /\ UNCHANGED <<tasks, current, mode>>
       ELSE Exit("heartbeat") /\ UNCHANGED pc
    /\ Stepped
    /\ UNCHANGED <<stage, dog, timed, pending, ioVars, sent, handled>>

HeartbeatBeat ==
    /\ MayRun("heartbeat") /\ pc["heartbeat"] = "beat"
    /\ IF tasks["heartbeat"].got = {"slept"}
       THEN /\ pc' = [pc EXCEPT !["heartbeat"] = "sleep"]
            /\ dog' = Reloaded /\ handled' = 0
            /\ UNCHANGED <<tasks, current, mode>>
       ELSE Exit("heartbeat") /\ UNCHANGED <<pc, dog, handled>>
    /\ Stepped
    /\ UNCHANGED <<stage, timed, pending, ioVars, sent>>

(* The host leaves WFE when an interrupt made a task ready.                    *)
HostDispatch ==
    /\ mode = "run" /\ current = "host" /\ Ready(tasks) # {}
    /\ current' = Select(tasks)
    /\ UNCHANGED <<mode, stage, dog, tasks, pc, timed, pending, ioVars, sent, stepped, handled>>

-----------------------------------------------------------------------------
(* Interrupts, time and faults.                                                *)

InterruptsOn == mode \in {"boot", "run", "closed"}
Count(bound, n) == IF bound < 0 THEN 0 ELSE n + 1

(* Faulty variant: a full ring drops its oldest byte. *)
StoredOverwriting(b) ==
    IF Len(ring) < RingCapacity THEN Append(ring, b) ELSE Append(Tail(ring), b)

(* usart1_irq_service: a byte is published when the ring has room, dropped     *)
(* otherwise; only a published byte is signalled.                              *)
Stored(b) == IF Len(ring) < RingCapacity THEN Append(ring, b) ELSE ring
UartInterrupt(b) ==
    /\ InterruptsOn /\ (mode = "boot" => stage > 2)
    /\ sent.uart < MaxBytes \/ MaxBytes < 0
    /\ sent' = [sent EXCEPT !.uart = Count(MaxBytes, @)]
    /\ ring' = Stored(b)
    /\ IF ring' # ring
       THEN wire' = (IF MaxBytes < 0 THEN wire ELSE Append(wire, b)) /\ Signal("uart")
       ELSE UNCHANGED <<wire, tasks, pending>>
    /\ UNCHANGED <<mode, stage, dog, current, pc, timed, line, usb, ran, stepped, handled>>

(* usb_management_handle_out: stores what fits of a packet, and notifies when  *)
(* some of it did.                                                             *)
UsbInterrupt ==
    /\ InterruptsOn /\ (mode = "boot" => stage > 4)
    /\ sent.usb < MaxUsb \/ MaxUsb < 0
    /\ sent' = [sent EXCEPT !.usb = Count(MaxUsb, @)]
    /\ \E accepted \in 0 .. (UsbCapacity - usb) :
         /\ usb' = usb + accepted
         /\ IF accepted > 0 THEN Signal("usb") ELSE UNCHANGED <<tasks, pending>>
    /\ UNCHANGED <<mode, stage, dog, current, pc, timed, ring, line, wire, ran, stepped,
                   handled>>

(* usb_management_reset_rings, in a bus reset or a change of configuration.    *)
UsbReset ==
    /\ InterruptsOn
    /\ usb' = 0
    /\ UNCHANGED <<mode, stage, dog, tasks, current, pc, timed, pending, ring, line, sent,
                   wire, ran, stepped, handled>>

Runnable ==
    \/ mode = "run" /\ current # "host" /\ pc[current] # "parked"
    \/ mode = "run" /\ current = "host" /\ Ready(tasks) # {}
    \/ mode = "boot"

(* SysTick and the watchdog's own clock; the last tick of the watchdog resets. *)
Tick ==
    /\ Runnable => stepped
    /\ dog.on => dog.left > 0
    /\ dog' = IF dog.on THEN [dog EXCEPT !.left = @ - 1] ELSE dog
    /\ tasks' = IF mode = "run" THEN Expire(tasks) ELSE tasks
    /\ stepped' = FALSE
    /\ UNCHANGED <<mode, stage, current, pc, timed, pending, ioVars, sent, handled>>

(* The fault handlers: interrupts off, the record kept, the LED blinks; no     *)
(* task runs any more, and the two histories of what they did end.             *)
Fault ==
    /\ mode = "run" /\ "core" \in MayFail
    /\ mode' = "fault"
    /\ stepped' = FALSE /\ handled' = 0
    /\ UNCHANGED <<stage, dog, tasks, current, pc, timed, pending, ioVars, sent>>

WatchdogReset ==
    /\ dog.on /\ dog.left = 0
    /\ mode' = "boot" /\ stage' = 1
    /\ dog' = DogOff
    /\ tasks' = [t \in Tasks |-> NewTask]
    /\ current' = "host"
    /\ pc' = [console |-> "start", heartbeat |-> "start"] /\ timed' = 0
    /\ pending' = {} /\ ring' = <<>> /\ line' = <<>> /\ usb' = 0
    /\ wire' = <<>> /\ ran' = <<>> /\ stepped' = FALSE /\ handled' = 0
    /\ UNCHANGED sent

Boot == BootStage \/ BootFails \/ StartWatchdog
Console == ConsoleStart \/ ConsoleByte \/ ConsoleDrained \/ ConsoleRequest
               \/ ConsoleTimed \/ ConsoleServices \/ ConsoleWait \/ ConsoleWoken
Heartbeat == HeartbeatSleep \/ HeartbeatBeat
Environment == (\E b \in Bytes : UartInterrupt(b)) \/ UsbInterrupt \/ UsbReset \/ Fault

Next == Boot \/ Console \/ Heartbeat \/ HostDispatch \/ Tick \/ WatchdogReset \/ Environment

Spec == Init /\ [][Next]_vars

(* The processor runs what is ready, the clocks tick, an expired watchdog      *)
(* resets.  Nothing is assumed of the host or of faults.                       *)
LiveSpec == Spec /\ WF_vars(Boot) /\ WF_vars(Console) /\ WF_vars(Heartbeat)
                 /\ WF_vars(HostDispatch) /\ WF_vars(Tick) /\ WF_vars(WatchdogReset)

-----------------------------------------------------------------------------
(* Properties.                                                                 *)

TypeOK ==
    /\ mode \in {"boot", "run", "closed", "dark", "fault"}
    /\ stage \in DOMAIN Stages
    /\ dog \in [on : BOOLEAN, left : 0 .. WatchdogTicks, active : BOOLEAN]
    /\ tasks \in [Tasks -> [state : {"ready", "blocked", "done"}, wait : SUBSET RxEvents,
                            left : 0 .. (PollTicks + BeatTicks + ShortTicks + LongTicks),
                            got : SUBSET (RxEvents \cup {"slept"})]]
    /\ current \in Tasks \cup {"host"}
    /\ pc["console"] \in {"start", "drain", "usb", "wait", "woken", "parked"}
    /\ pc["heartbeat"] \in {"start", "sleep", "beat"}
    /\ timed \in 0 .. 6
    /\ handled \in 0 .. WatchdogTicks
    /\ usb \in 0 .. UsbCapacity
    /\ pending \subseteq RxEvents
    /\ ring \in Seq(Bytes) /\ Len(ring) <= RingCapacity
    /\ line \in Seq(Bytes) /\ Len(line) < LineCapacity

(* No lost wake-up: outside of schedtimed, the console task is never asleep    *)
(* while a serial byte or management input waits, whatever interrupt fell      *)
(* between its last look at a ring and its wait (drain, then wait on latched   *)
(* events), and whatever schedtimed, which sleeps over input and discards the  *)
(* events of its own transport, did before in the same round of the loop.      *)
NoSleepOnInput ==
    mode = "run" /\ tasks["console"].state = "blocked" /\ timed = 0
        => ring = <<>> /\ usb = 0

(* What a whole line means: its bytes with the deletions applied, however      *)
(* long it is, and the command they spell, if any.                             *)
Edit(text, c) ==
    IF c = Backspace THEN SubSeq(text, 1, Len(text) - 1) ELSE Append(text, c)
Edited(bytes) ==
    LET edited[i \in 0 .. Len(bytes)] ==
            IF i = 0 THEN <<>> ELSE Edit(edited[i - 1], bytes[i])
    IN  edited[Len(bytes)]
Command(bytes) ==
    IF Edited(bytes) = <<>> THEN <<>> ELSE <<Outcome(Edited(bytes))>>
TooLong(bytes) ==
    \E n \in 1 .. Len(bytes) : Len(Edited(SubSeq(bytes, 1, n))) >= LineCapacity

(* What the console has read, taken apart at the newlines: the line that the   *)
(* newline at i ends, or that is still open when i is past the last byte.      *)
LineEnds(bytes) == {i \in DOMAIN bytes : bytes[i] = Newline}
LineOf(bytes, i) ==
    SubSeq(bytes, 1 + Max({0} \cup {j \in LineEnds(bytes) : j < i}), i - 1)
LinesFit(bytes) ==
    \A i \in LineEnds(bytes) \cup {Len(bytes) + 1} : ~TooLong(LineOf(bytes, i))
Meaning(bytes) ==
    LET meant[i \in 0 .. Len(bytes)] ==
            IF i = 0 THEN <<>>
            ELSE IF i \in LineEnds(bytes) THEN meant[i - 1] \o Command(LineOf(bytes, i))
            ELSE meant[i - 1]
    IN  meant[Len(bytes)]
Consumed == SubSeq(wire, 1, Len(wire) - Len(ring))

(* The console runs, in order and once each, exactly the commands whose bytes  *)
(* the ring accepted, however interrupts and the drain interleave: a full ring *)
(* drops the newest byte and never one it already accepted.  For lines that    *)
(* fit the buffer.                                                             *)
RunsWhatArrived == LinesFit(Consumed) => ran = Meaning(Consumed)

(* A line that overflows the buffer is rejected as a whole and the next line   *)
(* is read from its start (SHELL_RPC_FOUNDATION_ACCEPTANCE_PLAN.md: "line      *)
(* overflow is rejected and parser recovers for the next valid command").      *)
OverlongRejected ==
    \A k \in DOMAIN ran : ran[k] # Err =>
        \E i \in LineEnds(Consumed) :
            ~TooLong(LineOf(Consumed, i)) /\ ran[k] = Outcome(Edited(LineOf(Consumed, i)))

(* Once the watchdog counts, a dead end of the firmware: production_fail_closed,*)
(* a fault handler, the parked wdogtrip loop.                                  *)
DeadEnd == dog.on /\ (mode \in {"closed", "fault"} \/ pc["console"] = "parked")

(* The console had more input to handle than the period of the watchdog leaves *)
(* room for: the heartbeat reloads within its period and the calls of a round  *)
(* of the console loop (a schedtimed among them, which lets it run), each of   *)
(* them a tick at most, so that every further tick is a byte or a piece.       *)
RoundSteps == 11
Flooded == handled + BeatTicks + RoundSteps >= WatchdogTicks

(* "Continued healthy production Thread/PSP progress keeps the watchdog alive" *)
(* (IWDG_LIVENESS_FOUNDATION_PLAN.md): it resets a dead end, or a console that *)
(* input kept in its two drain loops, whose length nothing bounds; never a     *)
(* system whose console ends its loops and whose heartbeat sleeps and wakes,   *)
(* whichever of the two reload points comes next and wherever schedtimed       *)
(* blocks.                                                                     *)
ResetsOnlyDeadEnds == [][WatchdogReset => DeadEnd \/ Flooded]_vars

(* A production task returns only when the application bridge could not be     *)
(* initialised: no wait ever yields a result that its task takes for a fault.  *)
TasksStay ==
    /\ tasks["heartbeat"].state # "done"
    /\ "bridge" \notin MayFail => tasks["console"].state # "done"

(* Every dead end is left by a reset: nothing that still runs then (the         *)
(* heartbeat task, an interrupt) reloads the watchdog.                         *)
DeadEndsReset == DeadEnd ~> mode = "boot"

(* The console task, together: types, no sleep over input that waits, and no   *)
(* production task that returns for another reason than a failed bridge.       *)
ConsoleStaysAwake == TypeOK /\ NoSleepOnInput /\ TasksStay
=============================================================================
