------------------------ MODULE ProductionTasksProofs ------------------------
(***************************************************************************)
(* Proofs about ProductionTasks, for every size of the ring and the line,  *)
(* all periods, every registry of methods, every set of stages that may    *)
(* fail, and a host that sends and resets all it likes.                    *)
(*                                                                         *)
(* The console looks at the serial ring, then at the USB ring, then waits. *)
(* InputInv says what an interrupt after a look leaves behind: once the    *)
(* look is past, input that waits has its event latched, and the wait      *)
(* takes the event instead of blocking.  TaskInv is what the scheduler     *)
(* adds: a blocked task sleeps at its own wait, with its own events, or in *)
(* schedtimed, where it may wait for no other event than that of its own   *)
(* transport; and a task that is ready again got a result it does not take *)
(* for a fault.                                                            *)
(*                                                                         *)
(* What the console does with the bytes of the ring is in the second part. *)
(* The ring holds the end of the wire (EndsWith), and what the console has *)
(* done follows what it has read of it (Follows): a byte either extends    *)
(* the open line by one edit or, at a newline, adds what the line means    *)
(* (EditedStep, LineStep, MeaningStep).                                    *)
(*                                                                         *)
(* The third part is about the watchdog.  Needs counts, for each place     *)
(* where the two tasks can be, the ticks that may pass until the heartbeat *)
(* reloads: the rest of its sleep, the steps of the console until it gives *)
(* the processor away, and a tick before each step, if the last one is not *)
(* spent; only the bytes and pieces that the console takes are not in it,  *)
(* since nothing bounds them.  PeriodInv says that the watchdog has these  *)
(* ticks left and has spent one at most on each byte and piece, so that it *)
(* ends in a system that runs only when there were too many of them.       *)
(***************************************************************************)
EXTENDS ProductionTasks, SequenceTheorems, WellFoundedInduction, TLAPS

Task == [state : {"ready", "blocked", "done"}, wait : SUBSET RxEvents,
         left : 0 .. (PollTicks + BeatTicks + ShortTicks + LongTicks), got : SUBSET (RxEvents \cup {"slept"})]

\* TypeOK, and the range that it leaves out.
Types ==
    /\ TypeOK
    /\ pc \in [Tasks -> {"start", "drain", "usb", "wait", "woken", "parked", "sleep", "beat"}]

TaskInv ==
    /\ mode = "boot" => timed = 0 /\ \A t \in Tasks : tasks[t] = NewTask /\ pc[t] = "start"
    /\ (mode = "run" /\ current # "host") => tasks[current].state = "ready"
    /\ \A t \in Tasks : tasks[t].state = "blocked" => tasks[t].left > 0
    /\ timed # 0 => pc["console"] \in {"drain", "usb"}
    /\ tasks["console"].state = "blocked" /\ timed = 0 =>
            tasks["console"].wait = RxEvents /\ pc["console"] = "woken"
    /\ tasks["console"].state = "blocked" /\ timed # 0 =>
            timed \in {2, 4, 6} /\ tasks["console"].wait \subseteq {Source}
    /\ tasks["console"].state = "done" => "bridge" \in MayFail
    /\ tasks["heartbeat"].state = "blocked" =>
            tasks["heartbeat"].wait = {} /\ pc["heartbeat"] = "beat"
    /\ tasks["heartbeat"].state # "done"
    /\ (tasks["console"].state = "ready" /\ pc["console"] = "woken") =>
            tasks["console"].got \subseteq RxEvents
    /\ (tasks["heartbeat"].state = "ready" /\ pc["heartbeat"] = "beat") =>
            tasks["heartbeat"].got = {"slept"}

\* What has come in since the console looked is latched.
InputInv ==
    mode = "run" =>
        /\ tasks["console"].state = "blocked" /\ timed = 0 =>
                pending = {} /\ ring = <<>> /\ usb = 0
        /\ pc["console"] \in {"usb", "wait"} /\ ring # <<>> => "uart" \in pending
        /\ pc["console"] = "wait" /\ usb # 0 => "usb" \in pending

AwakeInv == Types /\ TaskInv /\ InputInv

-----------------------------------------------------------------------------
(* The scheduler's part *)

LEMMA SelectReady ==
    ASSUME NEW ts \in [Tasks -> Task]
    PROVE  /\ Select(ts) \in Tasks \cup {"host"}
           /\ Select(ts) # "host" => ts[Select(ts)].state = "ready"
<1>1. CASE Ready(ts) = {}
    BY <1>1 DEF Select
<1>2. CASE Ready(ts) # {}
  <2>1. Ready(ts) \subseteq Tasks
      BY DEF Ready
  <2>2. \E t \in Ready(ts) : \A u \in Ready(ts) : Priority[t] <= Priority[u]
    <3>1. Priority["console"] = 128 /\ Priority["heartbeat"] = 255
        BY DEF Priority
    <3>2. CASE "console" \in Ready(ts)
        BY <2>1, <3>1, <3>2 DEF Tasks
    <3>3. CASE "console" \notin Ready(ts)
        BY <1>2, <2>1, <3>1, <3>3 DEF Tasks
    <3> QED
        BY <3>2, <3>3
  <2>3. Select(ts) \in Ready(ts)
      BY <1>2, <2>2 DEF Select
  <2> QED
      BY <2>1, <2>3 DEF Ready
<1> QED
    BY <1>1, <1>2

LEMMA WakeAsType ==
    ASSUME NEW r \in SUBSET (RxEvents \cup {"slept"})
    PROVE  /\ WakeAs(r) \in Task
           /\ WakeAs(r).state = "ready" /\ WakeAs(r).got = r
BY SizesAssumption DEF WakeAs, Task

\* Neither an interrupt nor a tick blocks a task; what they wake gets the right result.
Woken(ts) ==
    /\ ts \in [Tasks -> Task]
    /\ \A t \in Tasks :
          \/ ts[t] = tasks[t]
          \/ /\ tasks[t].state = "blocked"
             /\ \/ /\ ts[t].state = "ready"
                   /\ t = "console" /\ timed = 0 => ts[t].got \subseteq RxEvents
                   /\ t = "heartbeat" => ts[t].got = {"slept"}
                \/ /\ ts[t].state = "blocked" /\ ts[t].wait = tasks[t].wait
                   /\ ts[t].left > 0

LEMMA WokenKeeps ==
    ASSUME Types, TaskInv, mode' = mode, mode = "run", Woken(tasks'),
           UNCHANGED <<pc, current, timed>>
    PROVE  TaskInv'
<1> DEFINE ts == tasks'
<1>1. \A t \in Tasks : ts[t].state = tasks[t].state \/ tasks[t].state = "blocked"
    BY DEF Woken
<1>2. \A t \in Tasks : ts[t].state = "ready" /\ tasks[t].state = "blocked" =>
            /\ t = "console" /\ timed = 0 => ts[t].got \subseteq RxEvents
            /\ t = "heartbeat" => ts[t].got = {"slept"}
    BY DEF Woken
<1>3. \A t \in Tasks : ts[t].state = "blocked" =>
            tasks[t].state = "blocked" /\ ts[t].wait = tasks[t].wait /\ ts[t].left > 0
    BY DEF Woken, TaskInv
<1>4. \A t \in Tasks : ts[t].state # "blocked" /\ tasks[t].state # "blocked" => ts[t] = tasks[t]
    BY DEF Woken
<1>5. \A t \in Tasks : ts[t].state = "done" => tasks[t].state = "done"
    BY DEF Woken
<1>6. "console" \in Tasks /\ "heartbeat" \in Tasks
    BY DEF Tasks
<1>7. \A t \in Tasks : tasks[t].state = "ready" => ts[t] = tasks[t]
    BY DEF Woken
<1>8. (mode = "run" /\ current # "host") => ts[current].state = "ready"
    BY <1>7 DEF TaskInv, Types, TypeOK
<1>9. Source' = Source
    BY DEF Source
<1> QED
    BY <1>2, <1>3, <1>4, <1>5, <1>6, <1>8, <1>9 DEF TaskInv

LEMMA SignalWakes ==
    ASSUME Types, TaskInv, mode = "run", NEW e \in RxEvents, Signal(e)
    PROVE  /\ Woken(tasks')
           /\ tasks["console"].state = "blocked" /\ timed = 0 =>
                tasks'["console"].state = "ready" /\ pending' = pending
           /\ tasks["console"].state # "blocked" =>
                tasks'["console"] = tasks["console"] /\ pending' = pending \cup {e}
           /\ pending \subseteq pending' /\ pending' \subseteq RxEvents
           /\ timed # 0 /\ e # Source => e \in pending'
<1> DEFINE woken == {t \in Tasks : tasks[t].state = "blocked" /\ e \in tasks[t].wait}
<1>1. /\ tasks' = [t \in Tasks |-> IF t \in woken THEN WakeAs({e}) ELSE tasks[t]]
      /\ pending' = IF woken = {} THEN pending \cup {e} ELSE pending
    BY DEF Signal
<1>2. {e} \in SUBSET (RxEvents \cup {"slept"}) /\ {e} \subseteq RxEvents
    OBVIOUS
<1>3. WakeAs({e}) \in Task /\ WakeAs({e}).state = "ready" /\ WakeAs({e}).got = {e}
    BY <1>2, WakeAsType
<1>4. /\ tasks["heartbeat"].state = "blocked" => tasks["heartbeat"].wait = {}
      /\ tasks["console"].state = "blocked" /\ timed = 0 => tasks["console"].wait = RxEvents
      /\ tasks["console"].state = "blocked" /\ timed # 0 =>
            tasks["console"].wait \subseteq {Source}
    BY DEF TaskInv
<1>5. /\ "heartbeat" \notin woken
      /\ "console" \in woken => tasks["console"].state = "blocked"
      /\ tasks["console"].state = "blocked" /\ timed = 0 => "console" \in woken
      /\ timed # 0 /\ e # Source => "console" \notin woken
    BY <1>4 DEF Tasks
<1>6. woken \subseteq {"console"}
    BY <1>5 DEF Tasks
<1>7. tasks \in [Tasks -> Task]
    BY DEF Types, TypeOK, Task
<1> HIDE DEF woken
<1>8. tasks' \in [Tasks -> Task]
    BY <1>1, <1>3, <1>7
<1>9. Woken(tasks')
  <2> SUFFICES ASSUME NEW t \in Tasks, tasks'[t] # tasks[t]
               PROVE  /\ tasks[t].state = "blocked" /\ tasks'[t].state = "ready"
                      /\ t = "console" /\ tasks'[t].got \subseteq RxEvents
      BY <1>8 DEF Woken
  <2>1. t \in woken /\ tasks'[t] = WakeAs({e})
      BY <1>1
  <2> QED
      BY <1>2, <1>3, <1>5, <1>6, <2>1
<1>10. pending \subseteq RxEvents
    BY DEF Types, TypeOK
<1> QED
    BY <1>1, <1>3, <1>5, <1>6, <1>9, <1>10 DEF Tasks

LEMMA ExpireWakes ==
    ASSUME Types, TaskInv
    PROVE  Woken(Expire(tasks))
<1> DEFINE ts == Expire(tasks)
<1>0. tasks \in [Tasks -> Task]
    BY DEF Types, TypeOK, Task
<1>1. ts = [t \in Tasks |->
            IF tasks[t].state # "blocked" THEN tasks[t]
            ELSE IF tasks[t].left = 1 THEN WakeAs(Result(tasks[t]))
            ELSE [tasks[t] EXCEPT !.left = @ - 1]]
    BY DEF Expire
<1> HIDE DEF ts
<1>2. ASSUME NEW t \in Tasks, tasks[t].state = "blocked"
      PROVE  /\ ts[t] \in Task
             /\ \/ /\ ts[t].state = "ready"
                   /\ t = "console" /\ timed = 0 => ts[t].got \subseteq RxEvents
                   /\ t = "heartbeat" => ts[t].got = {"slept"}
                \/ /\ ts[t].state = "blocked" /\ ts[t].wait = tasks[t].wait
                   /\ ts[t].left > 0
  <2>1. /\ t = "console" /\ timed = 0 => tasks[t].wait = RxEvents
        /\ t = "heartbeat" => tasks[t].wait = {}
        /\ tasks[t].left > 0
      BY <1>2 DEF TaskInv
  <2>2. Result(tasks[t]) \in SUBSET (RxEvents \cup {"slept"})
      BY DEF Result
  <2>3. /\ t = "console" /\ timed = 0 => Result(tasks[t]) = {}
        /\ t = "heartbeat" => Result(tasks[t]) = {"slept"}
      BY <2>1 DEF Result, RxEvents
  <2>4. CASE tasks[t].left = 1
    <3>1. ts[t] = WakeAs(Result(tasks[t]))
        BY <1>1, <1>2, <2>4
    <3> QED
        BY <2>2, <2>3, <3>1, WakeAsType
  <2>5. CASE tasks[t].left # 1
    <3>1. ts[t] = [tasks[t] EXCEPT !.left = @ - 1]
        BY <1>1, <1>2, <2>5
    <3>2. tasks[t] \in Task /\ tasks[t].left \in 0 .. (PollTicks + BeatTicks + ShortTicks + LongTicks)
        BY <1>0 DEF Task
    <3>3. tasks[t].left - 1 \in 0 .. (PollTicks + BeatTicks + ShortTicks + LongTicks) /\ tasks[t].left - 1 > 0
        BY <2>1, <2>5, <3>2, SizesAssumption
    <3>4. /\ ts[t] \in Task
          /\ ts[t].state = tasks[t].state /\ ts[t].wait = tasks[t].wait
          /\ ts[t].left = tasks[t].left - 1
        BY <3>1, <3>2, <3>3 DEF Task
    <3> QED
        BY <1>2, <3>3, <3>4
  <2> QED
      BY <2>4, <2>5
<1>3. ts \in [Tasks -> Task]
    BY <1>0, <1>1, <1>2
<1> QED
    BY <1>1, <1>2, <1>3 DEF Woken, ts

LEMMA BlockShape ==
    ASSUME Types, NEW t \in Tasks, NEW e \in SUBSET RxEvents,
           NEW n \in {PollTicks, BeatTicks, ShortTicks, LongTicks}, Block(t, e, n)
    PROVE  /\ tasks' \in [Tasks -> Task]
           /\ tasks'[t] = [state |-> "blocked", wait |-> e, left |-> n, got |-> {}]
           /\ \A u \in Tasks \ {t} : tasks'[u] = tasks[u]
           /\ current' \in Tasks \cup {"host"}
           /\ current' # "host" => tasks'[current'].state = "ready"
<1> DEFINE b == [state |-> "blocked", wait |-> e, left |-> n, got |-> {}]
<1>0. tasks \in [Tasks -> Task]
    BY DEF Types, TypeOK, Task
<1>1. tasks' = [tasks EXCEPT ![t] = b] /\ current' = Select(tasks')
    BY DEF Block
<1>2. n \in 0 .. (PollTicks + BeatTicks + ShortTicks + LongTicks)
    BY SizesAssumption
<1>3. b \in Task
    BY <1>2 DEF Task
<1> HIDE DEF b
<1>4. /\ tasks' \in [Tasks -> Task] /\ tasks'[t] = b
      /\ \A u \in Tasks \ {t} : tasks'[u] = tasks[u]
    BY <1>0, <1>1, <1>3
<1>5. /\ current' \in Tasks \cup {"host"}
      /\ current' # "host" => tasks'[current'].state = "ready"
    BY <1>1, <1>4, SelectReady
<1> QED
    BY <1>4, <1>5 DEF b

LEMMA ExitShape ==
    ASSUME Types, NEW t \in Tasks, Exit(t)
    PROVE  /\ tasks' \in [Tasks -> Task]
           /\ tasks'[t].state = "done"
           /\ \A u \in Tasks \ {t} : tasks'[u] = tasks[u]
           /\ current' \in Tasks \cup {"host"}
           /\ current' # "host" => tasks'[current'].state = "ready"
           /\ mode' \in {mode, "closed"}
<1>0. tasks \in [Tasks -> Task]
    BY DEF Types, TypeOK, Task
<1>1. tasks' = [tasks EXCEPT ![t].state = "done"] /\ current' = Select(tasks')
    BY DEF Exit
<1>2. [tasks[t] EXCEPT !.state = "done"] \in Task
    BY <1>0 DEF Task
<1>3. /\ tasks' \in [Tasks -> Task]
      /\ tasks'[t] = [tasks[t] EXCEPT !.state = "done"]
      /\ \A u \in Tasks \ {t} : tasks'[u] = tasks[u]
    BY <1>0, <1>1, <1>2
<1>4. tasks'[t].state = "done"
    BY <1>0, <1>3 DEF Task
<1>5. /\ current' \in Tasks \cup {"host"}
      /\ current' # "host" => tasks'[current'].state = "ready"
    BY <1>1, <1>3, SelectReady
<1>6. mode' \in {mode, "closed"}
    BY DEF Exit
<1> QED
    BY <1>3, <1>4, <1>5, <1>6

-----------------------------------------------------------------------------
(* Types *)

\* console_feed_char() never lets the line grow over its buffer.
LEMMA LineFits ==
    ASSUME NEW text \in Seq(Bytes), Len(text) < LineCapacity, NEW c \in Bytes
    PROVE  Feed(text, c).line \in Seq(Bytes) /\ Len(Feed(text, c).line) < LineCapacity
<1>0. LineCapacity \in Nat \ {0} /\ Len(text) \in Nat
    BY SizesAssumption
<1>1. <<>> \in Seq(Bytes) /\ Len(<<>>) < LineCapacity
    BY <1>0, EmptySeq
<1>2. CASE c = Newline
  <2>1. Feed(text, c) = [line |-> <<>>, ran |-> IF text = <<>> THEN <<>> ELSE <<Outcome(text)>>]
      BY <1>2 DEF Feed, Newline, Backspace
  <2>2. Feed(text, c).line = <<>>
      BY <2>1
  <2> QED
      BY <1>1, <2>2
<1>3. CASE c = Backspace
  <2>1. c # Newline
      BY <1>3 DEF Newline, Backspace
  <2>2. Feed(text, c).line = SubSeq(text, 1, Len(text) - 1)
      BY <1>3, <2>1 DEF Feed, Backspace, Newline
  <2>3. SubSeq(text, 1, Len(text) - 1) \in Seq(Bytes)
      BY <1>0
  <2>4. Len(SubSeq(text, 1, Len(text) - 1)) = IF Len(text) = 0 THEN 0 ELSE Len(text) - 1
      BY <1>0
  <2> QED
      BY <1>0, <2>2, <2>3, <2>4
<1>4. CASE c \notin {Newline, Backspace} /\ Len(text) < LineCapacity - 1
  <2>1. Feed(text, c).line = Append(text, c)
      BY <1>4 DEF Feed
  <2>2. Append(text, c) \in Seq(Bytes) /\ Len(Append(text, c)) = Len(text) + 1
      OBVIOUS
  <2> QED
      BY <1>0, <1>4, <2>1, <2>2
<1>5. CASE c \notin {Newline, Backspace} /\ ~(Len(text) < LineCapacity - 1)
  <2>1. c # Newline /\ c # Backspace
      BY <1>5
  <2>2. Feed(text, c).line = <<>>
      BY <1>5, <2>1, Zenon DEF Feed
  <2> QED
      BY <1>1, <2>2
<1> QED
    BY <1>2, <1>3, <1>4, <1>5

\* What the steps of the two tasks leave alone, and how they change the rest.
TaskTypes ==
    /\ tasks' \in [Tasks -> Task]
    /\ current' \in Tasks \cup {"host"}
    /\ mode' \in {"run", "closed"}
    /\ pc' \in [Tasks -> {"start", "drain", "usb", "wait", "woken", "parked", "sleep", "beat"}]
    /\ pc'["console"] \in {"start", "drain", "usb", "wait", "woken", "parked"}
    /\ pc'["heartbeat"] \in {"start", "sleep", "beat"}

LEMMA TypesFrom ==
    ASSUME Types, TaskTypes, stage' = stage,
           dog' \in [on : BOOLEAN, left : 0 .. WatchdogTicks, active : BOOLEAN],
           pending' \subseteq RxEvents, usb' \in 0 .. UsbCapacity,
           timed' \in 0 .. 6, handled' \in 0 .. WatchdogTicks,
           ring' \in Seq(Bytes), Len(ring') <= RingCapacity,
           line' \in Seq(Bytes), Len(line') < LineCapacity
    PROVE  Types'
<1>1. tasks' \in [Tasks -> [state : {"ready", "blocked", "done"}, wait : SUBSET RxEvents,
             left : 0 .. (PollTicks + BeatTicks + ShortTicks + LongTicks), got : SUBSET (RxEvents \cup {"slept"})]]
    BY DEF TaskTypes, Task
<1>2. stage' \in DOMAIN Stages
    BY DEF Types, TypeOK
<1> QED
    BY <1>1, <1>2 DEF Types, TypeOK, TaskTypes

LEMMA ReloadedType ==
    ASSUME Types
    PROVE  Reloaded \in [on : BOOLEAN, left : 0 .. WatchdogTicks, active : BOOLEAN]
<1>1. dog \in [on : BOOLEAN, left : 0 .. WatchdogTicks, active : BOOLEAN]
    BY DEF Types, TypeOK
<1>2. WatchdogTicks \in 0 .. WatchdogTicks
    BY SizesAssumption
<1> QED
    BY <1>1, <1>2 DEF Reloaded

-----------------------------------------------------------------------------
(* Boot *)

LEMMA StageNumbers ==
    /\ DOMAIN Stages = 1 .. 9
    /\ Stages[9] = "iwdg"
BY DEF Stages

LEMMA InitAwake ==
    Init => AwakeInv
<1> SUFFICES ASSUME Init PROVE AwakeInv
    OBVIOUS
<1>1. NewTask \in Task
    BY SizesAssumption DEF NewTask, Task
<1>2. tasks \in [Tasks -> Task] /\ \A t \in Tasks : tasks[t] = NewTask
    BY <1>1 DEF Init
<1>3. pc["console"] = "start" /\ pc["heartbeat"] = "start"
    BY DEF Init
<1>4. /\ pc \in [Tasks -> {"start", "drain", "usb", "wait", "woken", "parked", "sleep", "beat"}]
      /\ \A t \in Tasks : pc[t] = "start"
    BY DEF Init, Tasks
<1>5. dog \in [on : BOOLEAN, left : 0 .. WatchdogTicks, active : BOOLEAN]
    BY SizesAssumption DEF Init, DogOff
<1>6. <<>> \in Seq(Bytes) /\ Len(<<>>) = 0 /\ 0 <= RingCapacity /\ 0 < LineCapacity
    BY SizesAssumption, EmptySeq
<1>7. mode = "boot" /\ stage \in DOMAIN Stages /\ current = "host" /\ pending = {}
      /\ ring = <<>> /\ line = <<>> /\ usb = 0 /\ timed = 0 /\ handled = 0
    BY StageNumbers DEF Init
<1>8. Types
    BY SizesAssumption, <1>2, <1>3, <1>4, <1>5, <1>6, <1>7 DEF Types, TypeOK, Task
<1>9. \A t \in Tasks : tasks[t].state = "ready"
    BY <1>2 DEF NewTask
<1>10. "console" \in Tasks /\ "heartbeat" \in Tasks
    BY DEF Tasks
<1>11. TaskInv
    BY <1>2, <1>3, <1>4, <1>7, <1>9, <1>10 DEF TaskInv
<1>12. InputInv
    BY <1>7 DEF InputInv
<1> QED
    BY <1>8, <1>11, <1>12 DEF AwakeInv

\* A boot step keeps the tasks as scheduler_task_create() left them.
LEMMA BootAwake ==
    ASSUME AwakeInv, Boot
    PROVE  AwakeInv'
<1>1. CASE BootStage
  <2>1. stage \in 1 .. 9 /\ stage # 9
      BY <1>1, StageNumbers DEF BootStage, AwakeInv, Types, TypeOK
  <2>2. stage' \in DOMAIN Stages
      BY <1>1, <2>1, StageNumbers DEF BootStage
  <2>3. Types'
      BY <1>1, <2>2 DEF BootStage, AwakeInv, Types, TypeOK, ioVars
  <2>4. TaskInv' /\ InputInv'
      BY <1>1 DEF BootStage, AwakeInv, TaskInv, InputInv, ioVars
  <2> QED
      BY <2>3, <2>4 DEF AwakeInv
<1>2. CASE BootFails
  <2>1. mode' \in {"dark", "closed"}
      BY <1>2 DEF BootFails
  <2>2. Types'
      BY <1>2, <2>1 DEF BootFails, AwakeInv, Types, TypeOK, ioVars
  <2>3. TaskInv' /\ InputInv'
      BY <1>2, <2>1 DEF BootFails, AwakeInv, TaskInv, InputInv, ioVars
  <2> QED
      BY <2>2, <2>3 DEF AwakeInv
<1>3. CASE StartWatchdog
  <2>1. tasks \in [Tasks -> Task]
      BY DEF AwakeInv, Types, TypeOK, Task
  <2>2. /\ mode' \in {"run", "closed"}
        /\ current' \in Tasks \cup {"host"}
        /\ (mode' = "run" /\ current' # "host") => tasks[current'].state = "ready"
      BY <1>3, <2>1, SelectReady DEF StartWatchdog, AwakeInv, Types, TypeOK
  <2>3. dog' \in [on : BOOLEAN, left : 0 .. WatchdogTicks, active : BOOLEAN]
    <3>1. dog \in [on : BOOLEAN, left : 0 .. WatchdogTicks, active : BOOLEAN]
        BY DEF AwakeInv, Types, TypeOK
    <3>2. WatchdogTicks \in 0 .. WatchdogTicks
        BY SizesAssumption
    <3>3. \/ dog' = [on |-> TRUE, left |-> WatchdogTicks, active |-> TRUE]
          \/ \E counting \in BOOLEAN : dog' = [dog EXCEPT !.on = counting]
        BY <1>3 DEF StartWatchdog
    <3>4. CASE dog' = [on |-> TRUE, left |-> WatchdogTicks, active |-> TRUE]
        BY <3>2, <3>4
    <3>5. ASSUME NEW counting \in BOOLEAN, dog' = [dog EXCEPT !.on = counting]
          PROVE  dog' \in [on : BOOLEAN, left : 0 .. WatchdogTicks, active : BOOLEAN]
        BY <3>1, <3>5
    <3> QED
        BY <3>3, <3>4, <3>5
  <2>4. UNCHANGED <<stage, tasks, pc, timed, pending, ring, line, usb, handled>>
      BY <1>3 DEF StartWatchdog, ioVars
  <2>5. Types'
      BY <2>2, <2>3, <2>4 DEF AwakeInv, Types, TypeOK
  <2>6. /\ tasks["console"] = NewTask /\ tasks["heartbeat"] = NewTask
        /\ pc["console"] = "start" /\ pc["heartbeat"] = "start" /\ timed = 0
      BY <1>3 DEF StartWatchdog, AwakeInv, TaskInv, Tasks
  <2>7. tasks["console"].state = "ready" /\ tasks["heartbeat"].state = "ready"
      BY <2>6 DEF NewTask
  <2>8. TaskInv'
      BY <2>2, <2>4, <2>6, <2>7 DEF TaskInv, Tasks
  <2>9. InputInv'
      BY <2>4, <2>6, <2>7 DEF InputInv
  <2> QED
      BY <2>5, <2>8, <2>9 DEF AwakeInv
<1> QED
    BY <1>1, <1>2, <1>3 DEF Boot

LEMMA ResetAwake ==
    ASSUME WatchdogReset
    PROVE  AwakeInv'
<1>1. NewTask \in Task
    BY SizesAssumption DEF NewTask, Task
<1>2. tasks' \in [Tasks -> Task] /\ \A t \in Tasks : tasks'[t] = NewTask
    BY <1>1 DEF WatchdogReset
<1>3. pc'["console"] = "start" /\ pc'["heartbeat"] = "start"
    BY DEF WatchdogReset
<1>4. /\ pc' \in [Tasks -> {"start", "drain", "usb", "wait", "woken", "parked", "sleep", "beat"}]
      /\ \A t \in Tasks : pc'[t] = "start"
    BY DEF WatchdogReset, Tasks
<1>5. dog' \in [on : BOOLEAN, left : 0 .. WatchdogTicks, active : BOOLEAN]
    BY SizesAssumption DEF WatchdogReset, DogOff
<1>6. <<>> \in Seq(Bytes) /\ Len(<<>>) = 0 /\ 0 <= RingCapacity /\ 0 < LineCapacity
    BY SizesAssumption, EmptySeq
<1>7. mode' = "boot" /\ stage' \in DOMAIN Stages /\ current' = "host" /\ pending' = {}
      /\ ring' = <<>> /\ line' = <<>> /\ usb' = 0 /\ timed' = 0 /\ handled' = 0
    BY StageNumbers DEF WatchdogReset
<1>8. Types'
    BY SizesAssumption, <1>2, <1>3, <1>4, <1>5, <1>6, <1>7 DEF Types, TypeOK, Task
<1>9. \A t \in Tasks : tasks'[t].state = "ready"
    BY <1>2 DEF NewTask
<1>10. "console" \in Tasks /\ "heartbeat" \in Tasks
    BY DEF Tasks
<1>11. TaskInv'
    BY <1>2, <1>3, <1>4, <1>7, <1>9, <1>10 DEF TaskInv
<1>12. InputInv'
    BY <1>7 DEF InputInv
<1> QED
    BY <1>8, <1>11, <1>12 DEF AwakeInv

-----------------------------------------------------------------------------
(* The two tasks *)

\* What the console counts stays in its range.
LEMMA HandlesType ==
    ASSUME Types, Handles
    PROVE  handled' \in 0 .. WatchdogTicks
BY SizesAssumption DEF Types, TypeOK, Handles

\* A command parks the task or starts schedtimed, never both.
LEMMA ExecutesShape ==
    ASSUME AwakeInv, timed = 0, NEW commands, NEW written, Executes(commands, written)
    PROVE  /\ \E p \in {pc["console"], "parked"} :
                pc' = [pc EXCEPT !["console"] = p] /\ (timed' # 0 => p = pc["console"])
           /\ timed' \in 0 .. 6
<1>1. pc = [pc EXCEPT !["console"] = pc["console"]]
    BY DEF AwakeInv, Types
<1> QED
    BY <1>1 DEF Executes

\* The task on the processor is ready: nothing else marks it while it runs.
LEMMA Running ==
    ASSUME AwakeInv, NEW t \in Tasks, MayRun(t)
    PROVE  /\ mode = "run" /\ current = t /\ tasks[t].state = "ready"
           /\ tasks \in [Tasks -> Task] /\ current \in Tasks \cup {"host"}
           /\ dog \in [on : BOOLEAN, left : 0 .. WatchdogTicks, active : BOOLEAN]
<1>1. mode = "run" /\ current = t /\ t # "host"
    BY DEF MayRun, Tasks
<1> QED
    BY <1>1 DEF AwakeInv, Types, TypeOK, TaskInv, Task

\* A step of the console task that neither blocks nor returns.
LEMMA ConsoleMoves ==
    ASSUME AwakeInv, MayRun("console"), UNCHANGED <<mode, tasks, current>>,
           NEW p \in {"drain", "usb", "wait", "parked"},
           pc' = [pc EXCEPT !["console"] = p], timed' # 0 => p \in {"drain", "usb"}
    PROVE  TaskTypes /\ TaskInv' /\ tasks'["console"].state # "blocked"
<1>0. "console" \in Tasks /\ "heartbeat" \in Tasks /\ "console" # "heartbeat"
    BY DEF Tasks
<1>1. /\ mode = "run" /\ current = "console" /\ tasks["console"].state = "ready"
      /\ tasks \in [Tasks -> Task] /\ current \in Tasks \cup {"host"}
    BY <1>0, Running
<1>2. /\ pc' \in [Tasks -> {"start", "drain", "usb", "wait", "woken", "parked", "sleep", "beat"}]
      /\ pc'["console"] = p /\ pc'["heartbeat"] = pc["heartbeat"]
    BY <1>0 DEF AwakeInv, Types
<1>3. TaskTypes
    BY <1>1, <1>2 DEF TaskTypes, AwakeInv, Types, TypeOK
<1>4. p # "woken" /\ p # "start"
    OBVIOUS
<1>5. TaskInv'
    BY <1>1, <1>2, <1>4 DEF TaskInv, AwakeInv
<1> QED
    BY <1>1, <1>3, <1>5

\* A console task that returns: only its caller knows why.
LEMMA ConsoleExits ==
    ASSUME AwakeInv, MayRun("console"), Exit("console"), pc' = pc, timed' = timed,
           pc["console"] \in {"start", "woken"}, "bridge" \in MayFail
    PROVE  TaskTypes /\ TaskInv' /\ tasks'["console"].state # "blocked"
<1>0. "console" \in Tasks /\ "heartbeat" \in Tasks \ {"console"}
    BY DEF Tasks
<1>1. mode = "run"
    BY DEF MayRun
<1>2. /\ tasks' \in [Tasks -> Task] /\ tasks'["console"].state = "done"
      /\ tasks'["heartbeat"] = tasks["heartbeat"]
      /\ current' \in Tasks \cup {"host"}
      /\ current' # "host" => tasks'[current'].state = "ready"
      /\ mode' \in {mode, "closed"}
    BY <1>0, ExitShape DEF AwakeInv
<1>3. TaskTypes
    BY <1>1, <1>2 DEF TaskTypes, AwakeInv, Types, TypeOK
<1>4. TaskInv'
  <2>1. \A t \in Tasks : tasks'[t].state = "blocked" => tasks'[t].left > 0
      BY <1>0, <1>2 DEF TaskInv, AwakeInv, Tasks
  <2>2. mode' # "boot"
      BY <1>1, <1>2
  <2> QED
      BY <1>2, <2>1, <2>2 DEF TaskInv, AwakeInv
<1> QED
    BY <1>2, <1>3, <1>4

\* boot_application_console_task(): the scheduler's part of every step.
LEMMA ConsoleStartAwake ==
    ASSUME AwakeInv, ConsoleStart
    PROVE  AwakeInv'
<1>0. MayRun("console") /\ pc["console"] = "start"
      /\ UNCHANGED <<stage, dog, timed, pending, ring, line, usb, handled>>
    BY DEF ConsoleStart, ioVars
<1>1. TaskTypes /\ TaskInv' /\ tasks'["console"].state # "blocked"
      /\ pc'["console"] \in {"start", "drain"}
  <2>1. CASE pc' = [pc EXCEPT !["console"] = "drain"] /\ UNCHANGED <<tasks, current, mode>>
    <3>1. pc'["console"] = "drain"
        BY <2>1 DEF AwakeInv, Types, Tasks
    <3> QED
        BY <1>0, <2>1, <3>1, ConsoleMoves
  <2>2. CASE "bridge" \in MayFail /\ Exit("console") /\ pc' = pc
      BY <1>0, <2>2, ConsoleExits
  <2> QED
      BY <2>1, <2>2 DEF ConsoleStart
<1>2. Types'
    BY <1>0, <1>1, TypesFrom DEF AwakeInv, Types, TypeOK
<1>3. InputInv'
    BY <1>1 DEF InputInv
<1> QED
    BY <1>1, <1>2, <1>3 DEF AwakeInv

LEMMA ConsoleByteAwake ==
    ASSUME AwakeInv, ConsoleByte
    PROVE  AwakeInv'
<1>0. /\ MayRun("console") /\ pc["console"] = "drain" /\ timed = 0
      /\ ring # <<>> /\ ring' = Tail(ring) /\ Handles
      /\ UNCHANGED <<mode, stage, dog, tasks, current, pending, usb>>
    BY DEF ConsoleByte
<1>1. /\ ring \in Seq(Bytes) /\ Len(ring) <= RingCapacity
      /\ line \in Seq(Bytes) /\ Len(line) < LineCapacity
    BY DEF AwakeInv, Types, TypeOK
<1>2. Head(ring) \in Bytes /\ ring' \in Seq(Bytes) /\ Len(ring') = Len(ring) - 1
    BY <1>0, <1>1
<1>3. Len(ring') <= RingCapacity
    BY <1>1, <1>2, SizesAssumption
<1>4. line' = Feed(line, Head(ring)).line
    BY DEF ConsoleByte
<1>5. line' \in Seq(Bytes) /\ Len(line') < LineCapacity
    BY <1>1, <1>2, <1>4, LineFits
<1>6. /\ \E p \in {"drain", "parked"} :
            pc' = [pc EXCEPT !["console"] = p] /\ (timed' # 0 => p = "drain")
      /\ timed' \in 0 .. 6
  <2>1. PICK written : Executes(Feed(line, Head(ring)).ran, written)
      BY DEF ConsoleByte
  <2> QED
      BY <1>0, <2>1, ExecutesShape
<1>7. PICK p \in {"drain", "parked"} :
        pc' = [pc EXCEPT !["console"] = p] /\ (timed' # 0 => p = "drain")
    BY <1>6
<1>8. TaskTypes /\ TaskInv' /\ tasks'["console"].state # "blocked"
    BY <1>0, <1>7, ConsoleMoves
<1>9. pc'["console"] \notin {"usb", "wait"}
    BY <1>7 DEF AwakeInv, Types, Tasks
<1>10. handled' \in 0 .. WatchdogTicks
    BY <1>0, HandlesType DEF AwakeInv
<1>11. Types'
    BY <1>0, <1>2, <1>3, <1>5, <1>6, <1>8, <1>10, TypesFrom DEF AwakeInv, Types, TypeOK
<1>12. InputInv'
    BY <1>8, <1>9 DEF InputInv
<1> QED
    BY <1>8, <1>11, <1>12 DEF AwakeInv

LEMMA ConsoleDrainedAwake ==
    ASSUME AwakeInv, ConsoleDrained
    PROVE  AwakeInv'
<1>0. /\ MayRun("console") /\ ring = <<>>
      /\ pc' = [pc EXCEPT !["console"] = "usb"]
      /\ UNCHANGED <<mode, stage, dog, tasks, current, timed, pending, ring, line, usb, handled>>
    BY DEF ConsoleDrained, ioVars
<1>1. TaskTypes /\ TaskInv' /\ tasks'["console"].state # "blocked"
    BY <1>0, ConsoleMoves
<1>2. pc'["console"] = "usb"
    BY <1>0 DEF AwakeInv, Types, Tasks
<1>3. Types'
    BY <1>0, <1>1, TypesFrom DEF AwakeInv, Types, TypeOK
<1>4. InputInv'
    BY <1>0, <1>1, <1>2 DEF InputInv
<1> QED
    BY <1>1, <1>3, <1>4 DEF AwakeInv

LEMMA ConsoleRequestAwake ==
    ASSUME AwakeInv, ConsoleRequest
    PROVE  AwakeInv'
<1>0. /\ MayRun("console") /\ pc["console"] = "usb" /\ timed = 0
      /\ usb > 0 /\ usb' = usb - 1 /\ Handles
      /\ UNCHANGED <<mode, stage, dog, tasks, current, pending, ring, line>>
    BY DEF ConsoleRequest
<1>1. usb' \in 0 .. UsbCapacity
    BY <1>0, SizesAssumption DEF AwakeInv, Types, TypeOK
<1>2. /\ \E p \in {"usb", "parked"} :
            pc' = [pc EXCEPT !["console"] = p] /\ (timed' # 0 => p = "usb")
      /\ timed' \in 0 .. 6
  <2>1. PICK commands, written : Executes(commands, written)
      BY DEF ConsoleRequest
  <2> QED
      BY <1>0, <2>1, ExecutesShape
<1>3. PICK p \in {"usb", "parked"} :
        pc' = [pc EXCEPT !["console"] = p] /\ (timed' # 0 => p = "usb")
    BY <1>2
<1>4. TaskTypes /\ TaskInv' /\ tasks'["console"].state # "blocked"
    BY <1>0, <1>3, ConsoleMoves
<1>5. pc'["console"] # "wait"
    BY <1>3 DEF AwakeInv, Types, Tasks
<1>6. handled' \in 0 .. WatchdogTicks
    BY <1>0, HandlesType DEF AwakeInv
<1>7. Types'
    BY <1>0, <1>1, <1>2, <1>4, <1>6, TypesFrom DEF AwakeInv, Types, TypeOK
<1>8. mode = "run"
    BY <1>0 DEF MayRun
<1>9. ring # <<>> => "uart" \in pending
    BY <1>0, <1>8 DEF AwakeInv, InputInv
<1>10. InputInv'
    BY <1>0, <1>4, <1>5, <1>9 DEF InputInv
<1> QED
    BY <1>4, <1>7, <1>10 DEF AwakeInv

LEMMA ConsoleServicesAwake ==
    ASSUME AwakeInv, ConsoleServices
    PROVE  AwakeInv'
<1>0. /\ MayRun("console") /\ pc["console"] = "usb" /\ timed = 0 /\ usb = 0
      /\ dog' = Reloaded /\ handled' = 0
      /\ pc' = [pc EXCEPT !["console"] = "wait"]
      /\ UNCHANGED <<mode, stage, tasks, current, timed, pending, ring, line, usb>>
    BY DEF ConsoleServices, ioVars
<1>1. TaskTypes /\ TaskInv' /\ tasks'["console"].state # "blocked"
    BY <1>0, ConsoleMoves
<1>2. pc'["console"] = "wait"
    BY <1>0 DEF AwakeInv, Types, Tasks
<1>3. dog' \in [on : BOOLEAN, left : 0 .. WatchdogTicks, active : BOOLEAN]
    BY <1>0, ReloadedType DEF AwakeInv
<1>4. handled' \in 0 .. WatchdogTicks
    BY <1>0, SizesAssumption
<1>5. Types'
    BY <1>0, <1>1, <1>3, <1>4, TypesFrom DEF AwakeInv, Types, TypeOK
<1>6. mode = "run"
    BY <1>0 DEF MayRun
<1>7. ring # <<>> => "uart" \in pending
    BY <1>0, <1>6 DEF AwakeInv, InputInv
<1>8. InputInv'
    BY <1>0, <1>1, <1>2, <1>7 DEF InputInv
<1> QED
    BY <1>1, <1>5, <1>8 DEF AwakeInv

\* A wait either returns at once, with events it asked for, or blocks on them.
LEMMA WaitShape ==
    ASSUME AwakeInv, MayRun("console"), NEW events \in SUBSET RxEvents,
           NEW ticks \in {0, PollTicks, ShortTicks, LongTicks}, WaitEvents(events, ticks)
    PROVE  /\ tasks' \in [Tasks -> Task]
           /\ tasks'["heartbeat"] = tasks["heartbeat"]
           /\ current' \in Tasks \cup {"host"}
           /\ current' # "host" => tasks'[current'].state = "ready"
           /\ pending' = pending \ events
           /\ \/ /\ tasks'["console"].state = "ready"
                 /\ tasks'["console"].got \subseteq events
                 /\ current' = "console"
              \/ /\ tasks'["console"].state = "blocked"
                 /\ tasks'["console"].wait = events
                 /\ tasks'["console"].left = ticks /\ ticks > 0
                 /\ pending \cap events = {} /\ current' = Select(tasks')
<1>1. "console" \in Tasks /\ "heartbeat" \in Tasks \ {"console"}
    BY DEF Tasks
<1>2. /\ mode = "run" /\ current = "console" /\ tasks["console"].state = "ready"
      /\ tasks \in [Tasks -> Task] /\ current \in Tasks \cup {"host"}
    BY <1>1, Running
<1>3. pending' = pending \ events
    BY DEF WaitEvents
<1>4. CASE pending \cap events # {} \/ ticks = 0
  <2>1. /\ current' = current
        /\ tasks' = [tasks EXCEPT !["console"].got = pending \cap events]
      BY <1>4 DEF WaitEvents
  <2>2. [tasks["console"] EXCEPT !.got = pending \cap events] \in Task
      BY <1>1, <1>2 DEF Task
  <2>3. /\ tasks' \in [Tasks -> Task]
        /\ tasks'["console"] = [tasks["console"] EXCEPT !.got = pending \cap events]
        /\ tasks'["heartbeat"] = tasks["heartbeat"]
      BY <1>1, <1>2, <2>1, <2>2
  <2>4. tasks'["console"].state = "ready" /\ tasks'["console"].got \subseteq events
      BY <1>1, <1>2, <2>3 DEF Task
  <2> QED
      BY <1>2, <1>3, <2>1, <2>3, <2>4
<1>5. CASE pending \cap events = {} /\ ticks # 0
  <2>1. Block("console", events, ticks) /\ ticks \in {PollTicks, BeatTicks, ShortTicks, LongTicks}
      BY <1>5 DEF WaitEvents
  <2>2. /\ tasks' \in [Tasks -> Task]
        /\ tasks'["console"] = [state |-> "blocked", wait |-> events,
                                left |-> ticks, got |-> {}]
        /\ tasks'["heartbeat"] = tasks["heartbeat"]
        /\ current' \in Tasks \cup {"host"}
        /\ current' # "host" => tasks'[current'].state = "ready"
      BY <1>1, <2>1, BlockShape DEF AwakeInv
  <2>3. ticks > 0 /\ current' = Select(tasks')
      BY <1>5, <2>1, SizesAssumption DEF Block
  <2> QED
      BY <1>3, <1>5, <2>2, <2>3
<1> QED
    BY <1>4, <1>5

\* The wait takes what is latched; it blocks only when nothing is, and then no
\* input waits either.
LEMMA ConsoleWaitAwake ==
    ASSUME AwakeInv, ConsoleWait
    PROVE  AwakeInv'
<1>0. /\ MayRun("console") /\ pc["console"] = "wait"
      /\ pc' = [pc EXCEPT !["console"] = "woken"]
      /\ WaitEvents(RxEvents, PollTicks)
      /\ UNCHANGED <<mode, stage, dog, timed, ring, line, usb, handled>>
    BY DEF ConsoleWait, ioVars
<1>1. "console" \in Tasks /\ "heartbeat" \in Tasks \ {"console"}
    BY DEF Tasks
<1>2. mode = "run" /\ timed = 0
    BY <1>0 DEF MayRun, AwakeInv, TaskInv
<1>3. /\ pc' \in [Tasks -> {"start", "drain", "usb", "wait", "woken", "parked", "sleep", "beat"}]
      /\ pc'["console"] = "woken" /\ pc'["heartbeat"] = pc["heartbeat"]
    BY <1>0, <1>1 DEF AwakeInv, Types
<1>4. pending \subseteq RxEvents
    BY DEF AwakeInv, Types, TypeOK
<1>5. /\ tasks' \in [Tasks -> Task]
      /\ tasks'["heartbeat"] = tasks["heartbeat"]
      /\ current' \in Tasks \cup {"host"}
      /\ current' # "host" => tasks'[current'].state = "ready"
      /\ pending' = pending \ RxEvents
      /\ \/ /\ tasks'["console"].state = "ready"
            /\ tasks'["console"].got \subseteq RxEvents
         \/ /\ tasks'["console"].state = "blocked"
            /\ tasks'["console"].wait = RxEvents
            /\ tasks'["console"].left > 0
            /\ pending \cap RxEvents = {}
    BY <1>0, WaitShape
<1>6. TaskTypes
    BY <1>0, <1>2, <1>3, <1>5 DEF TaskTypes, AwakeInv, Types, TypeOK
<1>7. pending' \subseteq RxEvents
    BY <1>4, <1>5
<1>8. Types'
    BY <1>0, <1>6, <1>7, TypesFrom DEF AwakeInv, Types, TypeOK
<1>9. \A t \in Tasks : tasks'[t].state = "blocked" => tasks'[t].left > 0
    BY <1>5 DEF TaskInv, AwakeInv, Tasks
<1>10. TaskInv'
    BY <1>0, <1>2, <1>3, <1>5, <1>9 DEF TaskInv, AwakeInv
<1>11. tasks'["console"].state = "blocked" => pending = {} /\ ring = <<>> /\ usb = 0
    BY <1>0, <1>2, <1>4, <1>5 DEF AwakeInv, InputInv
<1>12. InputInv'
    BY <1>0, <1>3, <1>5, <1>11 DEF InputInv
<1> QED
    BY <1>8, <1>10, <1>12 DEF AwakeInv

\* schedtimed blocks over input and discards the events of its own transport,
\* which the console has yet to look at when it returns; the other transport's
\* events stay latched.
LEMMA ConsoleTimedAwake ==
    ASSUME AwakeInv, ConsoleTimed
    PROVE  AwakeInv'
<1>0. /\ MayRun("console") /\ timed > 0 /\ timed' = (timed + 1) % 7
      /\ UNCHANGED <<mode, stage, dog, pc, ring, line, usb, handled>>
    BY DEF ConsoleTimed, ioVars
<1>1. "console" \in Tasks /\ "heartbeat" \in Tasks \ {"console"}
    BY DEF Tasks
<1>2. /\ mode = "run" /\ current = "console" /\ tasks["console"].state = "ready"
      /\ tasks \in [Tasks -> Task] /\ current \in Tasks \cup {"host"}
    BY <1>0, <1>1, Running
<1>3. timed \in 1 .. 6 /\ pc["console"] \in {"drain", "usb"}
    BY <1>0 DEF AwakeInv, Types, TypeOK, TaskInv
<1>4. timed' = IF timed = 6 THEN 0 ELSE timed + 1
    BY <1>0, <1>3
<1>5. {Source} \in SUBSET RxEvents /\ Source' = Source /\ pending \subseteq RxEvents
    BY <1>0 DEF Source, RxEvents, AwakeInv, Types, TypeOK
<1> DEFINE Shape ==
        /\ tasks' \in [Tasks -> Task]
        /\ tasks'["heartbeat"] = tasks["heartbeat"]
        /\ current' \in Tasks \cup {"host"}
        /\ current' # "host" => tasks'[current'].state = "ready"
        /\ pending' \subseteq RxEvents /\ pending \subseteq pending' \cup {Source}
        /\ \/ tasks'["console"].state = "ready"
           \/ /\ tasks'["console"].state = "blocked"
              /\ tasks'["console"].wait \subseteq {Source}
              /\ tasks'["console"].left > 0
              /\ timed' \in {2, 4, 6}
<1>6. ASSUME timed = 1 PROVE Shape
  <2>1. Block("console", {}, ShortTicks) /\ pending' = pending
      BY <1>6 DEF ConsoleTimed
  <2>2. ShortTicks \in {PollTicks, BeatTicks, ShortTicks, LongTicks} /\ ShortTicks > 0
        /\ {} \in SUBSET RxEvents
      BY SizesAssumption
  <2>3. /\ tasks' \in [Tasks -> Task]
        /\ tasks'["console"] = [state |-> "blocked", wait |-> {},
                                left |-> ShortTicks, got |-> {}]
        /\ tasks'["heartbeat"] = tasks["heartbeat"]
        /\ current' \in Tasks \cup {"host"}
        /\ current' # "host" => tasks'[current'].state = "ready"
      BY <1>1, <2>1, <2>2, BlockShape DEF AwakeInv
  <2> QED
      BY <1>4, <1>5, <1>6, <2>1, <2>2, <2>3
<1>7. ASSUME NEW ticks \in {0, PollTicks, ShortTicks, LongTicks},
             WaitEvents({Source}, ticks), ticks > 0 => timed \in {3, 5}, timed # 6
      PROVE  Shape
  <2>1. /\ tasks' \in [Tasks -> Task]
        /\ tasks'["heartbeat"] = tasks["heartbeat"]
        /\ current' \in Tasks \cup {"host"}
        /\ current' # "host" => tasks'[current'].state = "ready"
        /\ pending' = pending \ {Source}
        /\ \/ tasks'["console"].state = "ready"
           \/ /\ tasks'["console"].state = "blocked"
              /\ tasks'["console"].wait = {Source}
              /\ tasks'["console"].left = ticks /\ ticks > 0
      BY <1>0, <1>5, <1>7, WaitShape
  <2>2. ticks > 0 => timed' \in {2, 4, 6}
      BY <1>4, <1>7
  <2> QED
      BY <1>5, <2>1, <2>2
<1>8. ASSUME timed \in {2, 4} PROVE Shape
  <2>1. WaitEvents({Source}, 0)
      BY <1>8 DEF ConsoleTimed
  <2> HIDE DEF Shape
  <2> QED
      BY <1>7, <1>8, <2>1
<1>9. ASSUME timed = 3 PROVE Shape
  <2>1. WaitEvents({Source}, ShortTicks)
      BY <1>9 DEF ConsoleTimed
  <2> HIDE DEF Shape
  <2> QED
      BY <1>7, <1>9, <2>1
<1>10. ASSUME timed = 5 PROVE Shape
  <2>1. WaitEvents({Source}, LongTicks)
      BY <1>10 DEF ConsoleTimed
  <2> HIDE DEF Shape
  <2> QED
      BY <1>7, <1>10, <2>1
<1>11. ASSUME timed = 6 PROVE Shape
  <2>1. UNCHANGED <<tasks, current, pending>>
      BY <1>11 DEF ConsoleTimed
  <2> QED
      BY <1>2, <1>5, <2>1
<1>12. Shape
  <2> HIDE DEF Shape
  <2> QED
      BY <1>3, <1>6, <1>8, <1>9, <1>10, <1>11
<1>13. TaskTypes
    BY <1>0, <1>2, <1>3, <1>12 DEF TaskTypes, AwakeInv, Types, TypeOK
<1>14. timed' \in 0 .. 6
    BY <1>3, <1>4
<1>15. Types'
    BY <1>0, <1>12, <1>13, <1>14, TypesFrom DEF AwakeInv, Types, TypeOK
<1>16. \A t \in Tasks : tasks'[t].state = "blocked" => tasks'[t].left > 0
    BY <1>12 DEF TaskInv, AwakeInv, Tasks
<1>17. TaskInv'
    BY <1>0, <1>2, <1>3, <1>5, <1>12, <1>16 DEF TaskInv, AwakeInv
<1>18. pc["console"] = "usb" => Source = "usb"
    BY DEF Source
<1>19. InputInv'
    BY <1>0, <1>2, <1>3, <1>12, <1>18 DEF AwakeInv, InputInv
<1> QED
    BY <1>15, <1>17, <1>19 DEF AwakeInv

\* The console never takes the result of its wait for a fault.
LEMMA ConsoleWokenAwake ==
    ASSUME AwakeInv, ConsoleWoken
    PROVE  AwakeInv'
<1>0. /\ MayRun("console") /\ pc["console"] = "woken"
      /\ UNCHANGED <<stage, dog, timed, pending, ring, line, usb, handled>>
    BY DEF ConsoleWoken, ioVars
<1>1. tasks["console"].state = "ready"
    BY <1>0, Running DEF Tasks
<1>2. tasks["console"].got \subseteq RxEvents
    BY <1>0, <1>1 DEF AwakeInv, TaskInv
<1>3. pc' = [pc EXCEPT !["console"] = "drain"] /\ UNCHANGED <<tasks, current, mode>>
    BY <1>2 DEF ConsoleWoken
<1>4. TaskTypes /\ TaskInv' /\ tasks'["console"].state # "blocked"
    BY <1>0, <1>3, ConsoleMoves
<1>5. pc'["console"] = "drain"
    BY <1>3 DEF AwakeInv, Types, Tasks
<1>6. Types'
    BY <1>0, <1>4, TypesFrom DEF AwakeInv, Types, TypeOK
<1>7. InputInv'
    BY <1>4, <1>5 DEF InputInv
<1> QED
    BY <1>4, <1>6, <1>7 DEF AwakeInv

LEMMA ConsoleAwake ==
    ASSUME AwakeInv, Console
    PROVE  AwakeInv'
BY ConsoleStartAwake, ConsoleByteAwake, ConsoleDrainedAwake, ConsoleRequestAwake,
   ConsoleTimedAwake, ConsoleServicesAwake, ConsoleWaitAwake, ConsoleWokenAwake DEF Console

LEMMA HeartbeatAwake ==
    ASSUME AwakeInv, Heartbeat
    PROVE  AwakeInv'
<1>1. "heartbeat" \in Tasks /\ "console" \in Tasks \ {"heartbeat"}
    BY DEF Tasks
<1>2. CASE HeartbeatSleep
  <2>0. /\ MayRun("heartbeat") /\ pc' = [pc EXCEPT !["heartbeat"] = "beat"]
        /\ Block("heartbeat", {}, BeatTicks)
        /\ UNCHANGED <<mode, stage, dog, timed, pending, ring, line, usb, handled>>
      BY <1>2 DEF HeartbeatSleep, ioVars
  <2>1. mode = "run" /\ tasks["heartbeat"].state = "ready" /\ BeatTicks > 0
      BY <1>1, <2>0, Running, SizesAssumption
  <2>2. /\ pc' \in [Tasks -> {"start", "drain", "usb", "wait", "woken", "parked", "sleep", "beat"}]
        /\ pc'["heartbeat"] = "beat" /\ pc'["console"] = pc["console"]
      BY <1>1, <2>0 DEF AwakeInv, Types
  <2>3. /\ tasks' \in [Tasks -> Task]
        /\ tasks'["heartbeat"] = [state |-> "blocked", wait |-> {},
                                  left |-> BeatTicks, got |-> {}]
        /\ tasks'["console"] = tasks["console"]
        /\ current' \in Tasks \cup {"host"}
        /\ current' # "host" => tasks'[current'].state = "ready"
      BY <1>1, <2>0, BlockShape DEF AwakeInv
  <2>4. TaskTypes
      BY <2>0, <2>1, <2>2, <2>3 DEF TaskTypes, AwakeInv, Types, TypeOK
  <2>5. Types'
      BY <2>0, <2>4, TypesFrom DEF AwakeInv, Types, TypeOK
  <2>6. \A t \in Tasks : tasks'[t].state = "blocked" => tasks'[t].left > 0
      BY <2>1, <2>3 DEF TaskInv, AwakeInv, Tasks
  <2>7. TaskInv'
      BY <2>0, <2>1, <2>2, <2>3, <2>6 DEF TaskInv, AwakeInv, Source
  <2>8. InputInv'
      BY <2>0, <2>1, <2>2, <2>3 DEF InputInv, AwakeInv
  <2> QED
      BY <2>5, <2>7, <2>8 DEF AwakeInv
<1>3. CASE HeartbeatBeat
  <2>0. /\ MayRun("heartbeat") /\ pc["heartbeat"] = "beat"
        /\ UNCHANGED <<stage, timed, pending, ring, line, usb>>
      BY <1>3 DEF HeartbeatBeat, ioVars
  <2>1. mode = "run" /\ current = "heartbeat" /\ tasks["heartbeat"].state = "ready"
        /\ tasks \in [Tasks -> Task] /\ current \in Tasks \cup {"host"}
      BY <1>1, <2>0, Running
  <2>2. tasks["heartbeat"].got = {"slept"}
      BY <2>0, <2>1 DEF AwakeInv, TaskInv
  <2>3. /\ pc' = [pc EXCEPT !["heartbeat"] = "sleep"] /\ dog' = Reloaded /\ handled' = 0
        /\ UNCHANGED <<tasks, current, mode>>
      BY <1>3, <2>2 DEF HeartbeatBeat
  <2>4. /\ pc' \in [Tasks -> {"start", "drain", "usb", "wait", "woken", "parked", "sleep", "beat"}]
        /\ pc'["heartbeat"] = "sleep" /\ pc'["console"] = pc["console"]
      BY <1>1, <2>3 DEF AwakeInv, Types
  <2>5. TaskTypes
      BY <2>1, <2>3, <2>4 DEF TaskTypes, AwakeInv, Types, TypeOK
  <2>6. dog' \in [on : BOOLEAN, left : 0 .. WatchdogTicks, active : BOOLEAN]
      BY <2>3, ReloadedType DEF AwakeInv
  <2>7. Types'
    <3>1. handled' \in 0 .. WatchdogTicks
        BY <2>3, SizesAssumption
    <3> QED
        BY <2>0, <2>5, <2>6, <3>1, TypesFrom DEF AwakeInv, Types, TypeOK
  <2>8. TaskInv'
      BY <2>0, <2>1, <2>3, <2>4 DEF TaskInv, AwakeInv, Source
  <2>9. InputInv'
      BY <2>0, <2>3, <2>4 DEF InputInv, AwakeInv
  <2> QED
      BY <2>7, <2>8, <2>9 DEF AwakeInv
<1> QED
    BY <1>2, <1>3 DEF Heartbeat

-----------------------------------------------------------------------------
(* Dispatch, interrupts, time and faults *)

LEMMA DispatchAwake ==
    ASSUME AwakeInv, HostDispatch
    PROVE  AwakeInv'
<1>0. mode = "run" /\ current' = Select(tasks)
      /\ UNCHANGED <<mode, stage, dog, tasks, pc, timed, pending, ring, line, usb, handled>>
    BY DEF HostDispatch, ioVars
<1>1. tasks \in [Tasks -> Task]
    BY DEF AwakeInv, Types, TypeOK, Task
<1>2. /\ current' \in Tasks \cup {"host"}
      /\ current' # "host" => tasks[current'].state = "ready"
    BY <1>0, <1>1, SelectReady
<1>3. Types'
    BY <1>0, <1>2 DEF AwakeInv, Types, TypeOK
<1>4. TaskInv' /\ InputInv'
    BY <1>0, <1>2 DEF AwakeInv, TaskInv, InputInv, Source
<1> QED
    BY <1>3, <1>4 DEF AwakeInv

\* An interrupt that changes nothing but the input, or signals its event.
LEMMA InterruptTasks ==
    ASSUME AwakeInv, NEW e \in RxEvents, Signal(e), UNCHANGED <<mode, current, pc, timed>>
    PROVE  /\ tasks' \in [Tasks -> Task] /\ pending' \subseteq RxEvents /\ TaskInv'
           /\ mode = "run" =>
                /\ timed = 0 => tasks'["console"].state # "blocked"
                /\ pending \subseteq pending'
                /\ pc["console"] = "wait" => e \in pending'
                /\ pc["console"] = "usb" /\ e = "uart" => e \in pending'
<1>1. CASE mode # "run"
  <2>1. UNCHANGED <<tasks, pending>>
      BY <1>1 DEF Signal
  <2> QED
      BY <1>1, <2>1 DEF AwakeInv, Types, TypeOK, Task, TaskInv, Source
<1>2. CASE mode = "run"
  <2>1. /\ Woken(tasks')
        /\ tasks["console"].state = "blocked" /\ timed = 0 =>
                tasks'["console"].state = "ready" /\ pending' = pending
        /\ tasks["console"].state # "blocked" =>
                tasks'["console"] = tasks["console"] /\ pending' = pending \cup {e}
        /\ pending \subseteq pending' /\ pending' \subseteq RxEvents
        /\ timed # 0 /\ e # Source => e \in pending'
      BY <1>2, SignalWakes DEF AwakeInv
  <2>2. TaskInv'
      BY <1>2, <2>1, WokenKeeps DEF AwakeInv
  <2>3. /\ pc["console"] = "wait" => timed = 0
        /\ pc["console"] \in {"usb", "wait"} /\ timed = 0 => tasks["console"].state # "blocked"
      BY DEF AwakeInv, TaskInv
  <2>4. timed = 0 => tasks'["console"].state # "blocked"
      BY <2>1
  <2>5. pc["console"] \in {"usb", "wait"} /\ timed = 0 => e \in pending'
      BY <2>1, <2>3
  <2>6. pc["console"] = "usb" /\ e = "uart" => e # Source
      BY DEF Source
  <2>7. pc["console"] = "usb" /\ e = "uart" => e \in pending'
      BY <2>1, <2>5, <2>6
  <2> QED
      BY <2>1, <2>2, <2>3, <2>4, <2>5, <2>7 DEF Woken
<1> QED
    BY <1>1, <1>2

LEMMA UartAwake ==
    ASSUME AwakeInv, NEW b \in Bytes, UartInterrupt(b)
    PROVE  AwakeInv'
<1>0. ring' = Stored(b)
      /\ UNCHANGED <<mode, stage, dog, current, pc, timed, line, usb, handled>>
    BY DEF UartInterrupt
<1>1. ring \in Seq(Bytes) /\ Len(ring) <= RingCapacity /\ RingCapacity \in Nat
    BY SizesAssumption DEF AwakeInv, Types, TypeOK
<1>2. ring' \in Seq(Bytes) /\ Len(ring') <= RingCapacity
  <2>1. CASE Len(ring) < RingCapacity
    <3>1. ring' = Append(ring, b)
        BY <1>0, <2>1 DEF Stored
    <3>2. ring' \in Seq(Bytes) /\ Len(ring') = Len(ring) + 1
        BY <1>1, <3>1
    <3> QED
        BY <1>1, <2>1, <3>2
  <2>2. CASE ~(Len(ring) < RingCapacity)
      BY <1>0, <1>1, <2>2 DEF Stored
  <2> QED
      BY <2>1, <2>2
<1>3. CASE ring' = ring
  <2>1. UNCHANGED <<tasks, pending>>
      BY <1>3 DEF UartInterrupt
  <2>2. Types'
      BY <1>0, <1>3, <2>1 DEF AwakeInv, Types, TypeOK
  <2>3. TaskInv' /\ InputInv'
      BY <1>0, <1>3, <2>1 DEF AwakeInv, TaskInv, InputInv, Source
  <2> QED
      BY <2>2, <2>3 DEF AwakeInv
<1>4. CASE ring' # ring
  <2>1. Signal("uart") /\ "uart" \in RxEvents
      BY <1>4 DEF UartInterrupt, RxEvents
  <2>2. /\ tasks' \in [Tasks -> Task] /\ pending' \subseteq RxEvents /\ TaskInv'
        /\ mode = "run" =>
                /\ timed = 0 => tasks'["console"].state # "blocked"
                /\ pending \subseteq pending'
                /\ pc["console"] = "wait" => "uart" \in pending'
                /\ pc["console"] = "usb" => "uart" \in pending'
      BY <1>0, <2>1, InterruptTasks
  <2>3. Types'
      BY <1>0, <1>2, <2>2 DEF AwakeInv, Types, TypeOK, Task
  <2>4. InputInv'
      BY <1>0, <2>2 DEF AwakeInv, InputInv
  <2> QED
      BY <2>2, <2>3, <2>4 DEF AwakeInv
<1> QED
    BY <1>3, <1>4

LEMMA UsbAwake ==
    ASSUME AwakeInv, UsbInterrupt
    PROVE  AwakeInv'
<1>0. UNCHANGED <<mode, stage, dog, current, pc, timed, ring, line, handled>>
    BY DEF UsbInterrupt
<1>1. PICK accepted \in 0 .. (UsbCapacity - usb) :
            /\ usb' = usb + accepted
            /\ IF accepted > 0 THEN Signal("usb") ELSE UNCHANGED <<tasks, pending>>
    BY DEF UsbInterrupt
<1>2. usb \in 0 .. UsbCapacity /\ UsbCapacity \in Nat
    BY SizesAssumption DEF AwakeInv, Types, TypeOK
<1>3. usb' \in 0 .. UsbCapacity
    BY <1>1, <1>2
<1>4. CASE accepted > 0
  <2>1. Signal("usb") /\ "usb" \in RxEvents
      BY <1>1, <1>4 DEF RxEvents
  <2>2. /\ tasks' \in [Tasks -> Task] /\ pending' \subseteq RxEvents /\ TaskInv'
        /\ mode = "run" =>
                /\ timed = 0 => tasks'["console"].state # "blocked"
                /\ pending \subseteq pending'
                /\ pc["console"] = "wait" => "usb" \in pending'
      BY <1>0, <2>1, InterruptTasks
  <2>3. Types'
      BY <1>0, <1>3, <2>2 DEF AwakeInv, Types, TypeOK, Task
  <2>4. InputInv'
      BY <1>0, <2>2 DEF AwakeInv, InputInv
  <2> QED
      BY <2>2, <2>3, <2>4 DEF AwakeInv
<1>5. CASE ~(accepted > 0)
  <2>1. UNCHANGED <<tasks, pending, usb>>
      BY <1>1, <1>2, <1>5
  <2>2. Types'
      BY <1>0, <2>1 DEF AwakeInv, Types, TypeOK
  <2>3. TaskInv' /\ InputInv'
      BY <1>0, <2>1 DEF AwakeInv, TaskInv, InputInv, Source
  <2> QED
      BY <2>2, <2>3 DEF AwakeInv
<1> QED
    BY <1>4, <1>5

LEMMA UsbResetAwake ==
    ASSUME AwakeInv, UsbReset
    PROVE  AwakeInv'
<1>0. usb' = 0
      /\ UNCHANGED <<mode, stage, dog, tasks, current, pc, timed, pending, ring, line, handled>>
    BY DEF UsbReset
<1>1. usb' \in 0 .. UsbCapacity
    BY <1>0, SizesAssumption
<1>2. Types'
    BY <1>0, <1>1 DEF AwakeInv, Types, TypeOK
<1>3. TaskInv' /\ InputInv'
    BY <1>0 DEF AwakeInv, TaskInv, InputInv, Source
<1> QED
    BY <1>2, <1>3 DEF AwakeInv

LEMMA TickAwake ==
    ASSUME AwakeInv, Tick
    PROVE  AwakeInv'
<1>0. /\ dog.on => dog.left > 0
      /\ dog' = IF dog.on THEN [dog EXCEPT !.left = @ - 1] ELSE dog
      /\ tasks' = IF mode = "run" THEN Expire(tasks) ELSE tasks
      /\ UNCHANGED <<mode, stage, current, pc, timed, pending, ring, line, usb, handled>>
    BY DEF Tick, ioVars
<1>1. dog' \in [on : BOOLEAN, left : 0 .. WatchdogTicks, active : BOOLEAN]
  <2>1. dog \in [on : BOOLEAN, left : 0 .. WatchdogTicks, active : BOOLEAN]
        /\ WatchdogTicks \in Nat
      BY SizesAssumption DEF AwakeInv, Types, TypeOK
  <2>2. CASE dog.on
    <3>1. dog.left - 1 \in 0 .. WatchdogTicks
        BY <1>0, <2>1, <2>2
    <3> QED
        BY <1>0, <2>1, <2>2, <3>1
  <2>3. CASE ~dog.on
      BY <1>0, <2>1, <2>3
  <2> QED
      BY <2>2, <2>3
<1>2. CASE mode = "run"
  <2>1. Woken(tasks')
      BY <1>0, <1>2, ExpireWakes DEF AwakeInv
  <2>2. TaskInv'
      BY <1>0, <1>2, <2>1, WokenKeeps DEF AwakeInv
  <2>3. Types'
      BY <1>0, <1>1, <2>1 DEF Woken, AwakeInv, Types, TypeOK, Task
  <2>4. tasks'["console"].state = "blocked" => tasks["console"].state = "blocked"
      BY <2>1 DEF Woken, Tasks
  <2>5. InputInv'
      BY <1>0, <2>4 DEF AwakeInv, InputInv
  <2> QED
      BY <2>2, <2>3, <2>5 DEF AwakeInv
<1>3. CASE mode # "run"
  <2>1. tasks' = tasks
      BY <1>0, <1>3
  <2>2. Types'
      BY <1>0, <1>1, <2>1 DEF AwakeInv, Types, TypeOK
  <2>3. TaskInv' /\ InputInv'
      BY <1>0, <2>1 DEF AwakeInv, TaskInv, InputInv, Source
  <2> QED
      BY <2>2, <2>3 DEF AwakeInv
<1> QED
    BY <1>2, <1>3

LEMMA FaultAwake ==
    ASSUME AwakeInv, Fault
    PROVE  AwakeInv'
<1>0. mode' = "fault" /\ handled' = 0
      /\ UNCHANGED <<stage, dog, tasks, current, pc, timed, pending, ring, line, usb>>
    BY DEF Fault, ioVars
<1>1. handled' \in 0 .. WatchdogTicks
    BY <1>0, SizesAssumption
<1>2. Types'
    BY <1>0, <1>1 DEF AwakeInv, Types, TypeOK
<1>3. TaskInv' /\ InputInv'
    BY <1>0 DEF AwakeInv, TaskInv, InputInv, Source
<1> QED
    BY <1>2, <1>3 DEF AwakeInv

-----------------------------------------------------------------------------
(* The console stays awake *)

LEMMA AwakeStep ==
    AwakeInv /\ [Next]_vars => AwakeInv'
<1> SUFFICES ASSUME AwakeInv, [Next]_vars PROVE AwakeInv'
    OBVIOUS
<1>1. CASE Next
    BY <1>1, BootAwake, ConsoleAwake, HeartbeatAwake, DispatchAwake, TickAwake, ResetAwake,
       UartAwake, UsbAwake, UsbResetAwake, FaultAwake DEF Next, Environment
<1>2. CASE UNCHANGED vars
  <2>1. UNCHANGED <<mode, stage, dog, tasks, current, pc, timed, pending, ring, line, usb, handled>>
      BY <1>2 DEF vars
  <2> QED
      BY <2>1 DEF AwakeInv, Types, TypeOK, TaskInv, InputInv, Source
<1> QED
    BY <1>1, <1>2

\* Outside of schedtimed the console task never sleeps over input that waits,
\* whichever interrupt came between its last look at a ring and its wait and
\* wherever schedtimed blocked or discarded an event before, and no production
\* task returns except a console task whose bridge was not initialised: for every
\* size of the ring and the line, all periods, every set of stages that may
\* fail, and a host that never stops sending.
THEOREM ConsoleAlwaysStaysAwake == Spec => []ConsoleStaysAwake
<1>1. AwakeInv => ConsoleStaysAwake
    BY DEF AwakeInv, Types, TaskInv, InputInv, ConsoleStaysAwake, NoSleepOnInput, TasksStay
<1> QED
    BY <1>1, InitAwake, AwakeStep, PTL DEF Spec

-----------------------------------------------------------------------------
(* Loops *)

\* Induction over the naturals, from the least number outside a set.
LEMMA NaturalInduction ==
    ASSUME NEW S, 0 \in S, \A n \in Nat : n \in S => n + 1 \in S
    PROVE  Nat \subseteq S
<1> SUFFICES ASSUME Nat \ S # {} PROVE FALSE
    OBVIOUS
<1> DEFINE T == Nat \ S
<1>1. PICK x \in T : \A y \in T : <<y, x>> \notin OpToRel(<, Nat)
    BY WFMin, NatLessThanWellFounded, Zenon
<1>2. \A y \in T : ~ (y < x)
    BY <1>1 DEF OpToRel
<1>3. x # 0 /\ x - 1 \in Nat /\ x - 1 \notin S
    OBVIOUS
<1> QED
    BY <1>2, <1>3

\* g holds the values of a loop that starts with a: one value per iteration, each
\* made of the one before by next.
Iterates(A, a, n, next, g) ==
    /\ g \in [0 .. n -> A]
    /\ g[0] = a
    /\ \A i \in 1 .. n : g[i] = next[i][g[i - 1]]

LEMMA Iteration ==
    ASSUME NEW A, NEW a \in A, NEW n \in Nat, NEW next \in [1 .. n -> [A -> A]]
    PROVE  \E g : Iterates(A, a, n, next, g)
<1> DEFINE S == {k \in Nat : k <= n => \E g : Iterates(A, a, k, next, g)}
<1>1. 0 \in S
  <2>1. Iterates(A, a, 0, next, [i \in 0 .. 0 |-> a])
      BY DEF Iterates
  <2> QED
      BY <2>1
<1>2. ASSUME NEW k \in Nat, k \in S PROVE k + 1 \in S
  <2> SUFFICES ASSUME k + 1 <= n
               PROVE  \E g : Iterates(A, a, k + 1, next, g)
      OBVIOUS
  <2>1. PICK g : Iterates(A, a, k, next, g)
      BY <1>2
  <2> DEFINE e == next[k + 1][g[k]]
             h == [i \in 0 .. k + 1 |-> IF i = k + 1 THEN e ELSE g[i]]
  <2>2. g \in [0 .. k -> A] /\ g[0] = a /\ \A i \in 1 .. k : g[i] = next[i][g[i - 1]]
      BY <2>1 DEF Iterates
  <2>3. e \in A
      BY <2>2
  <2>4. h \in [0 .. k + 1 -> A] /\ h[0] = a
      BY <2>2, <2>3
  <2>5. ASSUME NEW i \in 1 .. k + 1 PROVE h[i] = next[i][h[i - 1]]
    <3>1. h[i - 1] = g[i - 1] /\ i - 1 \in 0 .. k
        OBVIOUS
    <3>2. CASE i = k + 1
      <4>1. h[i - 1] = g[k] /\ h[i] = e
          BY <3>1, <3>2
      <4> QED
          BY <4>1, <3>2
    <3>3. CASE i # k + 1
        BY <3>1, <3>3, <2>2
    <3> QED
        BY <3>2, <3>3
  <2> HIDE DEF h
  <2>6. Iterates(A, a, k + 1, next, h)
      BY <2>4, <2>5 DEF Iterates
  <2> QED
      BY <2>6
<1> HIDE DEF S
<1>3. Nat \subseteq S
    BY <1>1, <1>2, NaturalInduction
<1> QED
    BY <1>3 DEF S

\* The values of a loop do not depend on iterations that are still to come.
LEMMA SameIteration ==
    ASSUME NEW A, NEW a, NEW n \in Nat, NEW m \in Nat, n <= m,
           NEW next, NEW more, \A i \in 1 .. n : more[i] = next[i],
           NEW g, Iterates(A, a, n, next, g), NEW h, Iterates(A, a, m, more, h)
    PROVE  h[n] = g[n]
<1> DEFINE S == {k \in Nat : k <= n => h[k] = g[k]}
<1>1. 0 \in S
    BY DEF Iterates
<1>2. ASSUME NEW k \in Nat, k \in S PROVE k + 1 \in S
  <2> SUFFICES ASSUME k + 1 <= n PROVE h[k + 1] = g[k + 1]
      OBVIOUS
  <2> DEFINE i == k + 1
  <2>1. i \in 1 .. n /\ i \in 1 .. m /\ i - 1 = k /\ h[k] = g[k]
      BY <1>2
  <2> HIDE DEF i
  <2>2. g[i] = next[i][g[k]] /\ h[i] = more[i][h[k]]
      BY <2>1 DEF Iterates
  <2>3. h[i] = g[i]
      BY <2>1, <2>2
  <2> QED
      BY <2>3 DEF i
<1> HIDE DEF S
<1>3. Nat \subseteq S
    BY <1>1, <1>2, NaturalInduction
<1> QED
    BY <1>3 DEF S

-----------------------------------------------------------------------------
(* What a line means *)

LEMMA EditType ==
    ASSUME NEW text \in Seq(Bytes), NEW c \in Bytes
    PROVE  Edit(text, c) \in Seq(Bytes)
BY DEF Edit

\* One byte of a line edits what the bytes before it have left.
EditSteps(bytes) ==
    [i \in 1 .. Len(bytes) |-> [text \in Seq(Bytes) |-> Edit(text, bytes[i])]]

LEMMA EditStepsType ==
    ASSUME NEW bytes \in Seq(Bytes)
    PROVE  /\ Len(bytes) \in Nat /\ <<>> \in Seq(Bytes)
           /\ EditSteps(bytes) \in [1 .. Len(bytes) -> [Seq(Bytes) -> Seq(Bytes)]]
           /\ \A i \in 1 .. Len(bytes), text \in Seq(Bytes) :
                 EditSteps(bytes)[i][text] = Edit(text, bytes[i])
<1>1. Len(bytes) \in Nat /\ <<>> \in Seq(Bytes)
    OBVIOUS
<1>2. \A i \in 1 .. Len(bytes) : bytes[i] \in Bytes
    OBVIOUS
<1>3. \A i \in 1 .. Len(bytes), text \in Seq(Bytes) : Edit(text, bytes[i]) \in Seq(Bytes)
    BY <1>2, EditType
<1>4. \A i \in 1 .. Len(bytes) :
          [text \in Seq(Bytes) |-> Edit(text, bytes[i])] \in [Seq(Bytes) -> Seq(Bytes)]
    BY <1>3
<1> QED
    BY <1>1, <1>4 DEF EditSteps

LEMMA EditedLoop ==
    ASSUME NEW bytes \in Seq(Bytes)
    PROVE  \E g : /\ Iterates(Seq(Bytes), <<>>, Len(bytes), EditSteps(bytes), g)
                  /\ Edited(bytes) = g[Len(bytes)]
<1> DEFINE n == Len(bytes)
           next == EditSteps(bytes)
           A == Seq(Bytes)
           a == <<>>
<1>1. /\ n \in Nat /\ a \in A /\ next \in [1 .. n -> [A -> A]]
      /\ \A i \in 1 .. n, text \in A : next[i][text] = Edit(text, bytes[i])
    BY EditStepsType
<1>2. PICK g : Iterates(A, a, n, next, g)
  <2> HIDE DEF n, next, A, a
  <2> QED
      BY <1>1, Iteration
<1>3. /\ g \in [0 .. n -> A] /\ g[0] = <<>>
      /\ \A i \in 1 .. n : g[i] = next[i][g[i - 1]]
    BY <1>2 DEF Iterates
<1>4. \A i \in 1 .. n : g[i] = Edit(g[i - 1], bytes[i])
  <2> TAKE i \in 1 .. n
  <2> HIDE DEF next, A
  <2>1. g[i - 1] \in A
      BY <1>1, <1>3
  <2> QED
      BY <1>1, <1>3, <2>1
<1> DEFINE F == CHOOSE f : f = [i \in 0 .. Len(bytes) |->
                  IF i = 0 THEN <<>> ELSE Edit(f[i - 1], bytes[i])]
<1>5. g = [i \in 0 .. Len(bytes) |->
              IF i = 0 THEN <<>> ELSE Edit(g[i - 1], bytes[i])]
    BY <1>1, <1>3, <1>4
<1>6. F = [i \in 0 .. Len(bytes) |->
              IF i = 0 THEN <<>> ELSE Edit(F[i - 1], bytes[i])]
    BY <1>5
<1>7. Edited(bytes) = F[Len(bytes)]
    BY DEF Edited
<1> HIDE DEF F
<1> DEFINE S == {k \in Nat : k <= n => F[k] = g[k]}
<1>8. 0 \in S
    BY <1>1, <1>3, <1>6
<1>9. ASSUME NEW k \in Nat, k \in S PROVE k + 1 \in S
  <2> SUFFICES ASSUME k + 1 <= n PROVE F[k + 1] = g[k + 1]
      OBVIOUS
  <2> DEFINE i == k + 1
  <2>1. i \in 1 .. n /\ i \in 0 .. Len(bytes) /\ i # 0 /\ i - 1 = k /\ F[k] = g[k]
      BY <1>1, <1>9
  <2> HIDE DEF i
  <2>2. F[i] = Edit(F[k], bytes[i])
      BY <1>6, <2>1
  <2>3. g[i] = Edit(g[k], bytes[i])
      BY <1>4, <2>1
  <2>4. F[i] = g[i]
      BY <2>1, <2>2, <2>3
  <2> QED
      BY <2>4 DEF i
<1> HIDE DEF S
<1>10. n \in S
    BY <1>1, <1>8, <1>9, NaturalInduction
<1>11. F[n] = g[n]
    BY <1>10, <1>1 DEF S
<1> QED
    BY <1>2, <1>7, <1>11

LEMMA Appended ==
    ASSUME NEW bytes \in Seq(Bytes), NEW c \in Bytes
    PROVE  /\ Append(bytes, c) \in Seq(Bytes)
           /\ Len(bytes) \in Nat /\ Len(Append(bytes, c)) = Len(bytes) + 1
           /\ \A i \in 1 .. Len(bytes) : Append(bytes, c)[i] = bytes[i]
           /\ Append(bytes, c)[Len(bytes) + 1] = c
    OBVIOUS

\* A line is edited byte by byte, as console_feed_char() does.
LEMMA EditedStep ==
    /\ Edited(<<>>) = <<>>
    /\ \A bytes \in Seq(Bytes) : Edited(bytes) \in Seq(Bytes)
    /\ \A bytes \in Seq(Bytes), c \in Bytes :
          Edited(Append(bytes, c)) = Edit(Edited(bytes), c)
<1>1. Edited(<<>>) = <<>>
  <2>1. <<>> \in Seq(Bytes) /\ Len(<<>>) = 0
      OBVIOUS
  <2> QED
      BY <2>1, EditedLoop DEF Iterates
<1>2. ASSUME NEW bytes \in Seq(Bytes) PROVE Edited(bytes) \in Seq(Bytes)
  <2>1. Len(bytes) \in 0 .. Len(bytes)
      OBVIOUS
  <2> QED
      BY <2>1, EditedLoop DEF Iterates
<1>3. ASSUME NEW bytes \in Seq(Bytes), NEW c \in Bytes
      PROVE  Edited(Append(bytes, c)) = Edit(Edited(bytes), c)
  <2> DEFINE all == Append(bytes, c)
             n == Len(bytes)
             m == Len(all)
             A == Seq(Bytes)
             a == <<>>
             next == EditSteps(bytes)
             more == EditSteps(all)
  <2>1. /\ all \in Seq(Bytes) /\ n \in Nat /\ m = n + 1 /\ all[m] = c
        /\ \A i \in 1 .. n : all[i] = bytes[i]
      BY Appended
  <2>2. a \in A /\ next \in [1 .. n -> [A -> A]]
      BY EditStepsType
  <2>3. /\ more \in [1 .. m -> [A -> A]]
        /\ \A i \in 1 .. m, text \in A : more[i][text] = Edit(text, all[i])
    <3> HIDE DEF all
    <3> QED
        BY <2>1, EditStepsType
  <2>4. PICK g : Iterates(A, a, n, next, g) /\ Edited(bytes) = g[n]
      BY EditedLoop
  <2>5. PICK h : Iterates(A, a, m, more, h) /\ Edited(all) = h[m]
    <3> HIDE DEF all
    <3> QED
        BY <2>1, EditedLoop
  <2>6. \A i \in 1 .. n : more[i] = next[i]
    <3> TAKE i \in 1 .. n
    <3>1. i \in 1 .. m /\ all[i] = bytes[i]
        BY <2>1
    <3> HIDE DEF all, m
    <3> QED
        BY <3>1 DEF m, EditSteps
  <2> HIDE DEF all, n, m, A, a, next, more
  <2>7. h[n] = g[n]
    <3>1. n \in Nat /\ m \in Nat /\ n <= m
        BY <2>1
    <3>2. Iterates(A, a, n, next, g)
        BY <2>4
    <3>3. Iterates(A, a, m, more, h)
        BY <2>5
    <3> QED
        BY <2>6, <3>1, <3>2, <3>3, SameIteration
  <2>8. m \in 1 .. m /\ m - 1 = n /\ n \in 0 .. n
      BY <2>1
  <2>9. h[m] = more[m][h[n]]
      BY <2>5, <2>8 DEF Iterates
  <2>10. g[n] \in A
      BY <2>4, <2>8 DEF Iterates
  <2>11. h[m] = Edit(g[n], c)
      BY <2>1, <2>3, <2>7, <2>8, <2>9, <2>10
  <2> QED
      BY <2>4, <2>5, <2>11 DEF all
<1> QED
    BY <1>1, <1>2, <1>3

\* A prefix of a longer sequence, and the part of it between two places.
LEMMA Parts ==
    ASSUME NEW bytes \in Seq(Bytes), NEW c \in Bytes,
           NEW a \in 1 .. Len(bytes) + 1, NEW b \in Nat, b <= Len(bytes)
    PROVE  /\ SubSeq(Append(bytes, c), a, b) = SubSeq(bytes, a, b)
           /\ SubSeq(bytes, a, b) \in Seq(Bytes)
           /\ SubSeq(Append(bytes, c), a, Len(bytes) + 1)
                  = Append(SubSeq(bytes, a, Len(bytes)), c)
<1> DEFINE all == Append(bytes, c)
           n == Len(bytes)
<1>1. /\ all \in Seq(Bytes) /\ n \in Nat /\ Len(all) = n + 1 /\ all[n + 1] = c
      /\ \A i \in 1 .. n : all[i] = bytes[i]
    BY Appended
<1>2. ASSUME NEW e \in Nat, e <= n
      PROVE  /\ SubSeq(bytes, a, e) \in Seq(Bytes)
             /\ Len(SubSeq(bytes, a, e)) = (IF a <= e THEN e - a + 1 ELSE 0)
             /\ \A i \in 1 .. e - a + 1 : SubSeq(bytes, a, e)[i] = bytes[a + i - 1]
    BY <1>1, <1>2
<1>3. ASSUME NEW e \in Nat, e <= n + 1
      PROVE  /\ SubSeq(all, a, e) \in Seq(Bytes)
             /\ Len(SubSeq(all, a, e)) = (IF a <= e THEN e - a + 1 ELSE 0)
             /\ \A i \in 1 .. e - a + 1 : SubSeq(all, a, e)[i] = all[a + i - 1]
  <2> HIDE DEF all
  <2> QED
      BY <1>1, <1>3
<1> DEFINE s == SubSeq(bytes, a, b)
           t == SubSeq(all, a, b)
           u == Append(SubSeq(bytes, a, n), c)
           v == SubSeq(all, a, n + 1)
<1>4. s \in Seq(Bytes) /\ t \in Seq(Bytes) /\ Len(s) = Len(t)
      /\ \A i \in 1 .. Len(s) : s[i] = t[i]
  <2> HIDE DEF all
  <2> QED
      BY <1>1, <1>2, <1>3
<1>5. u \in Seq(Bytes) /\ v \in Seq(Bytes) /\ Len(u) = Len(v)
      /\ \A i \in 1 .. Len(u) : u[i] = v[i]
  <2> HIDE DEF all
  <2> DEFINE w == SubSeq(bytes, a, n)
  <2>1. w \in Seq(Bytes) /\ Len(w) = n - a + 1
        /\ \A i \in 1 .. n - a + 1 : w[i] = bytes[a + i - 1]
      BY <1>1, <1>2
  <2>2. v \in Seq(Bytes) /\ Len(v) = n - a + 2
        /\ \A i \in 1 .. n - a + 2 : v[i] = all[a + i - 1]
      BY <1>1, <1>3
  <2> HIDE DEF w, v
  <2>3. u = Append(w, c)
      BY DEF w
  <2>4. u \in Seq(Bytes) /\ Len(u) = n - a + 2 /\ u[n - a + 2] = c
        /\ \A i \in 1 .. n - a + 1 : u[i] = w[i]
    <3>1. /\ Len(w) \in Nat /\ Append(w, c) \in Seq(Bytes)
          /\ Len(Append(w, c)) = Len(w) + 1 /\ Append(w, c)[Len(w) + 1] = c
          /\ \A i \in 1 .. Len(w) : Append(w, c)[i] = w[i]
        BY <2>1, Appended
    <3>2. Len(w) + 1 = n - a + 2 /\ Len(w) = n - a + 1
        BY <1>1, <2>1
    <3> HIDE DEF u
    <3> QED
        BY <2>3, <3>1, <3>2
  <2> HIDE DEF u
  <2>5. ASSUME NEW i \in 1 .. n - a + 2 PROVE u[i] = v[i]
    <3>1. v[i] = all[a + i - 1]
        BY <2>2
    <3>2. CASE i = n - a + 2
      <4>1. a + i - 1 = n + 1
          BY <1>1, <3>2
      <4> QED
          BY <1>1, <2>4, <3>1, <3>2, <4>1
    <3>3. CASE i # n - a + 2
      <4>1. i \in 1 .. n - a + 1 /\ a + i - 1 \in 1 .. n
          BY <1>1, <3>3
      <4> QED
          BY <1>1, <2>1, <2>4, <3>1, <4>1
    <3> QED
        BY <3>2, <3>3
  <2> QED
      BY <2>2, <2>4, <2>5
<1> HIDE DEF s, t, u, v
<1>6. s = t /\ u = v
    BY <1>4, <1>5, SeqEqual
<1> QED
    BY <1>4, <1>6 DEF s, t, u, v

LEMMA LargestOf ==
    ASSUME NEW i \in Nat, NEW T \in SUBSET (0 .. i), T # {}
    PROVE  Max(T) \in T /\ \A y \in T : y <= Max(T)
<1> DEFINE Largest == \E x \in T : \A y \in T : y <= x
           S == {k \in Nat : Largest \/ \A y \in T : y + k <= i}
<1>1. 0 \in S
    OBVIOUS
<1>2. ASSUME NEW k \in Nat, k \in S PROVE k + 1 \in S
  <2> SUFFICES ASSUME ~ Largest PROVE \A y \in T : y + (k + 1) <= i
      OBVIOUS
  <2>1. \A y \in T : y + k <= i
      BY <1>2
  <2> SUFFICES ASSUME NEW y \in T PROVE y + k # i
      BY <2>1
  <2> SUFFICES ASSUME y + k = i PROVE FALSE
      OBVIOUS
  <2>2. \A z \in T : z <= y
      BY <2>1
  <2> QED
      BY <2>2
<1> HIDE DEF S
<1>3. i + 1 \in S
    BY <1>1, <1>2, NaturalInduction
<1>4. Largest
  <2>1. Largest \/ \A y \in T : y + (i + 1) <= i
      BY <1>3 DEF S
  <2>2. PICK y : y \in T
      OBVIOUS
  <2>3. ~ (y + (i + 1) <= i)
      BY <2>2
  <2> HIDE DEF Largest
  <2> QED
      BY <2>1, <2>2, <2>3
<1>5. \E x \in T : \A y \in T : x >= y
    BY <1>4
<1>6. Max(T) \in T /\ \A y \in T : Max(T) >= y
    BY <1>5 DEF Max
<1> QED
    BY <1>6

\* Where the line starts that is cut at i.
Ends(bytes, i) == {0} \cup {j \in LineEnds(bytes) : j < i}

LEMMA LineFrom ==
    ASSUME NEW bytes \in Seq(Bytes), NEW i \in 1 .. Len(bytes) + 1
    PROVE  /\ Max(Ends(bytes, i)) \in 0 .. i - 1
           /\ Max(Ends(bytes, i)) \in Ends(bytes, i)
           /\ \A j \in Ends(bytes, i) : j <= Max(Ends(bytes, i))
           /\ LineOf(bytes, i) = SubSeq(bytes, 1 + Max(Ends(bytes, i)), i - 1)
           /\ LineOf(bytes, i) \in Seq(Bytes)
<1> DEFINE T == Ends(bytes, i)
<1>1. LineEnds(bytes) \subseteq 1 .. Len(bytes) /\ Len(bytes) \in Nat
    BY DEF LineEnds
<1>2. T \in SUBSET (0 .. i - 1) /\ T # {} /\ i - 1 \in Nat /\ i - 1 <= Len(bytes)
    BY <1>1 DEF Ends
<1> HIDE DEF T
<1>3. Max(T) \in T /\ \A j \in T : j <= Max(T)
    BY <1>2, LargestOf
<1>4. LineOf(bytes, i) = SubSeq(bytes, 1 + Max(T), i - 1)
    BY DEF LineOf, T, Ends
<1>5. 1 + Max(T) \in 1 .. Len(bytes) + 1 /\ Max(T) \in 0 .. i - 1
  <2>1. Max(T) \in 0 .. i - 1
      BY <1>2, <1>3
  <2> QED
      BY <1>1, <1>2, <2>1
<1>6. SubSeq(bytes, 1 + Max(T), i - 1) \in Seq(Bytes)
    BY <1>1, <1>2, <1>5
<1> QED
    BY <1>3, <1>4, <1>5, <1>6 DEF T

LEMMA EndsAppend ==
    ASSUME NEW bytes \in Seq(Bytes), NEW c \in Bytes
    PROVE  LineEnds(Append(bytes, c))
               = IF c = Newline THEN LineEnds(bytes) \cup {Len(bytes) + 1}
                                ELSE LineEnds(bytes)
<1> DEFINE all == Append(bytes, c)
           n == Len(bytes)
<1>1. /\ DOMAIN bytes = 1 .. n /\ n \in Nat /\ all[n + 1] = c
      /\ \A i \in 1 .. n : all[i] = bytes[i]
    BY Appended
<1>2. DOMAIN all = 1 .. n + 1
    BY Appended
<1> HIDE DEF all
<1>3. 1 .. n + 1 = (1 .. n) \cup {n + 1} /\ n + 1 \notin 1 .. n
    BY <1>1
<1>4. LineEnds(all) = {i \in (1 .. n) \cup {n + 1} : all[i] = Newline}
    BY <1>2, <1>3 DEF LineEnds
<1>5. LineEnds(bytes) = {i \in 1 .. n : bytes[i] = Newline}
    BY <1>1 DEF LineEnds
<1>6. LineEnds(all) = IF c = Newline THEN LineEnds(bytes) \cup {n + 1} ELSE LineEnds(bytes)
    BY <1>1, <1>3, <1>4, <1>5
<1> QED
    BY <1>6 DEF all

\* A byte that is read changes no line that is complete, and the open one grows by
\* it or, at a newline, begins anew.
LEMMA LineStep ==
    ASSUME NEW bytes \in Seq(Bytes), NEW c \in Bytes
    PROVE  /\ \A i \in 1 .. Len(bytes) + 1 : LineOf(Append(bytes, c), i) = LineOf(bytes, i)
           /\ LineOf(Append(bytes, c), Len(bytes) + 2)
                 = IF c = Newline THEN <<>> ELSE Append(LineOf(bytes, Len(bytes) + 1), c)
<1> DEFINE all == Append(bytes, c)
           n == Len(bytes)
<1>1. all \in Seq(Bytes) /\ n \in Nat /\ Len(all) = n + 1
    BY Appended
<1>2. LineEnds(all) = IF c = Newline THEN LineEnds(bytes) \cup {n + 1} ELSE LineEnds(bytes)
    BY EndsAppend
<1>3. LineEnds(bytes) \subseteq 1 .. n
    BY DEF LineEnds
<1>4. ASSUME NEW i \in 1 .. n + 1 PROVE LineOf(all, i) = LineOf(bytes, i)
  <2> HIDE DEF all
  <2>1. Ends(all, i) = Ends(bytes, i)
    <3>1. ~ (n + 1 < i)
        BY <1>1
    <3> QED
        BY <1>2, <3>1 DEF Ends
  <2> DEFINE a == 1 + Max(Ends(bytes, i))
             b == i - 1
  <2>2. LineOf(all, i) = SubSeq(all, a, b)
      BY <1>1, <2>1, LineFrom
  <2>3. LineOf(bytes, i) = SubSeq(bytes, a, b) /\ a \in 1 .. n + 1 /\ b \in Nat /\ b <= n
      BY <1>1, LineFrom
  <2> HIDE DEF a, b, n
  <2>4. SubSeq(all, a, b) = SubSeq(bytes, a, b)
      BY <2>3, Parts DEF all, n
  <2> QED
      BY <2>2, <2>3, <2>4
<1>5. LineOf(all, n + 2) = IF c = Newline THEN <<>> ELSE Append(LineOf(bytes, n + 1), c)
  <2> DEFINE m == n + 2
  <2>1. m \in 1 .. Len(all) + 1 /\ m - 1 = n + 1 /\ n + 1 \in 1 .. n + 1 /\ (n + 1) - 1 = n
      BY <1>1
  <2> HIDE DEF all, m
  <2>2. LineOf(all, m) = SubSeq(all, 1 + Max(Ends(all, m)), n + 1)
        /\ Max(Ends(all, m)) \in 0 .. n + 1
        /\ \A j \in Ends(all, m) : j <= Max(Ends(all, m))
    <3>1. /\ Max(Ends(all, m)) \in 0 .. m - 1
          /\ \A j \in Ends(all, m) : j <= Max(Ends(all, m))
          /\ LineOf(all, m) = SubSeq(all, 1 + Max(Ends(all, m)), m - 1)
      <4>1. all \in Seq(Bytes) /\ m \in 1 .. Len(all) + 1
          BY <1>1, <2>1
      <4> QED
          BY <4>1, LineFrom
    <3> QED
        BY <2>1, <3>1
  <2>3. CASE c = Newline
    <3>1. n + 1 \in Ends(all, m)
        BY <1>1, <1>2, <2>3 DEF Ends, m
    <3>2. Max(Ends(all, m)) = n + 1
        BY <1>1, <2>2, <3>1
    <3>3. SubSeq(all, n + 2, n + 1) = <<>>
        BY <1>1
    <3>4. LineOf(all, m) = SubSeq(all, n + 2, n + 1)
        BY <1>1, <2>2, <3>2
    <3> QED
        BY <2>3, <3>3, <3>4 DEF m
  <2>4. CASE c # Newline
    <3>1. \A j \in LineEnds(bytes) : j < m /\ j < n + 1
        BY <1>1, <1>3 DEF m
    <3>2. Ends(all, m) = Ends(bytes, n + 1)
        BY <1>2, <2>4, <3>1 DEF Ends
    <3> DEFINE a == 1 + Max(Ends(bytes, n + 1))
               e == n + 1
    <3>3. LineOf(bytes, n + 1) = SubSeq(bytes, a, n) /\ a \in 1 .. n + 1
      <4>1. e \in 1 .. Len(bytes) + 1 /\ e - 1 = n
          BY <1>1
      <4> HIDE DEF e, n
      <4>2. /\ LineOf(bytes, e) = SubSeq(bytes, 1 + Max(Ends(bytes, e)), e - 1)
            /\ Max(Ends(bytes, e)) \in 0 .. e - 1
          BY <4>1, LineFrom
      <4>3. /\ LineOf(bytes, e) = SubSeq(bytes, 1 + Max(Ends(bytes, e)), n)
            /\ Max(Ends(bytes, e)) \in 0 .. n
          BY <4>1, <4>2
      <4>4. 1 + Max(Ends(bytes, e)) \in 1 .. n + 1
          BY <1>1, <4>3
      <4> QED
          BY <4>3, <4>4 DEF e
    <3>4. LineOf(all, m) = SubSeq(all, a, n + 1)
        BY <2>2, <3>2
    <3> HIDE DEF a
    <3>5. SubSeq(all, a, n + 1) = Append(SubSeq(bytes, a, n), c)
        BY <1>1, <3>3, Parts DEF all
    <3> QED
        BY <2>4, <3>3, <3>4, <3>5 DEF m
  <2> QED
      BY <2>3, <2>4
<1> QED
    BY <1>1, <1>4, <1>5

-----------------------------------------------------------------------------
(* What the console has done *)

Outcomes == DOMAIN Methods \cup {Err}

LEMMA CommandType ==
    ASSUME NEW bytes \in Seq(Bytes)
    PROVE  Command(bytes) \in Seq(Outcomes)
<1>1. Outcome(Edited(bytes)) \in Outcomes
    BY DEF Outcome, Outcomes
<1> QED
    BY <1>1 DEF Command

\* A newline adds what its line means.
Meant(bytes, i, done) ==
    IF i \in LineEnds(bytes) THEN done \o Command(LineOf(bytes, i)) ELSE done

MeaningSteps(bytes) ==
    [i \in 1 .. Len(bytes) |-> [done \in Seq(Outcomes) |-> Meant(bytes, i, done)]]

LEMMA MeaningStepsType ==
    ASSUME NEW bytes \in Seq(Bytes)
    PROVE  /\ Len(bytes) \in Nat /\ <<>> \in Seq(Outcomes)
           /\ MeaningSteps(bytes) \in [1 .. Len(bytes) -> [Seq(Outcomes) -> Seq(Outcomes)]]
           /\ \A i \in 1 .. Len(bytes), done \in Seq(Outcomes) :
                 MeaningSteps(bytes)[i][done] = Meant(bytes, i, done)
<1>1. Len(bytes) \in Nat /\ <<>> \in Seq(Outcomes)
    OBVIOUS
<1>2. \A i \in 1 .. Len(bytes) : i \in 1 .. Len(bytes) + 1
    BY <1>1
<1>3. \A i \in 1 .. Len(bytes) : Command(LineOf(bytes, i)) \in Seq(Outcomes)
    BY <1>2, LineFrom, CommandType
<1>4. \A i \in 1 .. Len(bytes), done \in Seq(Outcomes) :
          Meant(bytes, i, done) \in Seq(Outcomes)
    BY <1>3 DEF Meant
<1>5. \A i \in 1 .. Len(bytes) :
          [done \in Seq(Outcomes) |-> Meant(bytes, i, done)] \in [Seq(Outcomes) -> Seq(Outcomes)]
    BY <1>4
<1> QED
    BY <1>1, <1>5 DEF MeaningSteps

LEMMA MeaningLoop ==
    ASSUME NEW bytes \in Seq(Bytes)
    PROVE  \E g : /\ Iterates(Seq(Outcomes), <<>>, Len(bytes), MeaningSteps(bytes), g)
                  /\ Meaning(bytes) = g[Len(bytes)]
<1> DEFINE n == Len(bytes)
           next == MeaningSteps(bytes)
           A == Seq(Outcomes)
           a == <<>>
<1>1. /\ n \in Nat /\ a \in A /\ next \in [1 .. n -> [A -> A]]
      /\ \A i \in 1 .. n, done \in A : next[i][done] = Meant(bytes, i, done)
    BY MeaningStepsType
<1>2. PICK g : Iterates(A, a, n, next, g)
  <2> HIDE DEF n, next, A, a
  <2> QED
      BY <1>1, Iteration
<1>3. /\ g \in [0 .. n -> A] /\ g[0] = <<>>
      /\ \A i \in 1 .. n : g[i] = next[i][g[i - 1]]
    BY <1>2 DEF Iterates
<1>4. \A i \in 1 .. n : g[i] = Meant(bytes, i, g[i - 1])
  <2> TAKE i \in 1 .. n
  <2> HIDE DEF next, A
  <2>1. g[i - 1] \in A
      BY <1>1, <1>3
  <2> QED
      BY <1>1, <1>3, <2>1
<1> DEFINE F == CHOOSE f : f = [i \in 0 .. Len(bytes) |->
                  IF i = 0 THEN <<>>
                  ELSE IF i \in LineEnds(bytes) THEN f[i - 1] \o Command(LineOf(bytes, i))
                  ELSE f[i - 1]]
<1>5. g = [i \in 0 .. Len(bytes) |->
              IF i = 0 THEN <<>>
              ELSE IF i \in LineEnds(bytes) THEN g[i - 1] \o Command(LineOf(bytes, i))
              ELSE g[i - 1]]
  <2>1. \A i \in 1 .. n : g[i] = IF i \in LineEnds(bytes)
                                 THEN g[i - 1] \o Command(LineOf(bytes, i)) ELSE g[i - 1]
      BY <1>4 DEF Meant
  <2>2. \A i \in 0 .. n : i # 0 => i \in 1 .. n
      BY <1>1
  <2>3. \A i \in 0 .. n :
            g[i] = IF i = 0 THEN <<>>
                   ELSE IF i \in LineEnds(bytes) THEN g[i - 1] \o Command(LineOf(bytes, i))
                   ELSE g[i - 1]
      BY <1>3, <2>1, <2>2
  <2>4. g = [i \in 0 .. n |-> g[i]]
      BY <1>3
  <2> QED
      BY <2>3, <2>4
<1>6. F = [i \in 0 .. Len(bytes) |->
              IF i = 0 THEN <<>>
              ELSE IF i \in LineEnds(bytes) THEN F[i - 1] \o Command(LineOf(bytes, i))
              ELSE F[i - 1]]
    BY <1>5
<1>7. Meaning(bytes) = F[Len(bytes)]
    BY DEF Meaning
<1> HIDE DEF F
<1> DEFINE S == {k \in Nat : k <= n => F[k] = g[k]}
<1>8. 0 \in S
    BY <1>1, <1>3, <1>6
<1>9. ASSUME NEW k \in Nat, k \in S PROVE k + 1 \in S
  <2> SUFFICES ASSUME k + 1 <= n PROVE F[k + 1] = g[k + 1]
      OBVIOUS
  <2> DEFINE i == k + 1
  <2>1. i \in 1 .. n /\ i \in 0 .. Len(bytes) /\ i # 0 /\ i - 1 = k /\ F[k] = g[k]
      BY <1>1, <1>9
  <2> HIDE DEF i
  <2>2. F[i] = Meant(bytes, i, F[k])
      BY <1>6, <2>1 DEF Meant
  <2>3. g[i] = Meant(bytes, i, g[k])
      BY <1>4, <2>1
  <2>4. F[i] = g[i]
      BY <2>1, <2>2, <2>3
  <2> QED
      BY <2>4 DEF i
<1> HIDE DEF S
<1>10. n \in S
    BY <1>1, <1>8, <1>9, NaturalInduction
<1>11. F[n] = g[n]
    BY <1>10, <1>1 DEF S
<1> QED
    BY <1>2, <1>7, <1>11

\* What the bytes mean changes with a newline only, by what the line means that was
\* open.
LEMMA MeaningStep ==
    /\ Meaning(<<>>) = <<>>
    /\ \A bytes \in Seq(Bytes) : Meaning(bytes) \in Seq(Outcomes)
    /\ \A bytes \in Seq(Bytes), c \in Bytes :
          Meaning(Append(bytes, c))
              = IF c = Newline
                THEN Meaning(bytes) \o Command(LineOf(bytes, Len(bytes) + 1))
                ELSE Meaning(bytes)
<1>1. Meaning(<<>>) = <<>>
  <2>1. <<>> \in Seq(Bytes) /\ Len(<<>>) = 0
      OBVIOUS
  <2> QED
      BY <2>1, MeaningLoop DEF Iterates
<1>2. ASSUME NEW bytes \in Seq(Bytes), NEW c \in Bytes
      PROVE  Meaning(Append(bytes, c))
                 = IF c = Newline
                   THEN Meaning(bytes) \o Command(LineOf(bytes, Len(bytes) + 1))
                   ELSE Meaning(bytes)
  <2> DEFINE all == Append(bytes, c)
             n == Len(bytes)
             m == Len(all)
             A == Seq(Outcomes)
             a == <<>>
             next == MeaningSteps(bytes)
             more == MeaningSteps(all)
  <2>1. /\ all \in Seq(Bytes) /\ n \in Nat /\ m = n + 1
      BY Appended
  <2>2. /\ \A i \in 1 .. n + 1 : LineOf(all, i) = LineOf(bytes, i)
        /\ LineEnds(all) = IF c = Newline THEN LineEnds(bytes) \cup {n + 1} ELSE LineEnds(bytes)
        /\ LineEnds(bytes) \subseteq 1 .. n
      BY LineStep, EndsAppend DEF LineEnds
  <2>3. \A i \in 1 .. m, done \in A : more[i][done] = Meant(all, i, done)
    <3> HIDE DEF all
    <3> QED
        BY <2>1, MeaningStepsType
  <2>4. PICK g : Iterates(A, a, n, next, g) /\ Meaning(bytes) = g[n]
      BY MeaningLoop
  <2>5. PICK h : Iterates(A, a, m, more, h) /\ Meaning(all) = h[m]
    <3> HIDE DEF all
    <3> QED
        BY <2>1, MeaningLoop
  <2>6. \A i \in 1 .. n : more[i] = next[i]
    <3> TAKE i \in 1 .. n
    <3>1. i \in 1 .. m /\ i \in 1 .. n + 1 /\ i # n + 1
        BY <2>1
    <3>2. LineOf(all, i) = LineOf(bytes, i) /\ (i \in LineEnds(all) <=> i \in LineEnds(bytes))
        BY <2>2, <3>1
    <3> HIDE DEF all, m
    <3>3. \A done : Meant(all, i, done) = Meant(bytes, i, done)
        BY <3>2 DEF Meant
    <3> QED
        BY <3>1, <3>3 DEF m, MeaningSteps
  <2>7. Meant(all, m, g[n]) = IF c = Newline THEN g[n] \o Command(LineOf(bytes, n + 1))
                                             ELSE g[n]
    <3> HIDE DEF all
    <3>1. m \in 1 .. n + 1 /\ m \notin 1 .. n
        BY <2>1
    <3>2. m \in LineEnds(all) <=> c = Newline
        BY <2>1, <2>2, <3>1
    <3>3. LineOf(all, m) = LineOf(bytes, n + 1)
        BY <2>1, <2>2, <3>1
    <3> QED
        BY <3>2, <3>3 DEF Meant
  <2> HIDE DEF all, n, m, A, a, next, more
  <2>8. h[n] = g[n]
    <3>1. n \in Nat /\ m \in Nat /\ n <= m
        BY <2>1
    <3>2. Iterates(A, a, n, next, g)
        BY <2>4
    <3>3. Iterates(A, a, m, more, h)
        BY <2>5
    <3> QED
        BY <2>6, <3>1, <3>2, <3>3, SameIteration
  <2>9. m \in 1 .. m /\ m - 1 = n /\ n \in 0 .. n
      BY <2>1
  <2>10. h[m] = more[m][h[n]] /\ g[n] \in A
      BY <2>4, <2>5, <2>9 DEF Iterates
  <2>11. h[m] = Meant(all, m, g[n])
      BY <2>3, <2>8, <2>9, <2>10
  <2> QED
      BY <2>4, <2>5, <2>7, <2>11 DEF all, n
<1>3. ASSUME NEW bytes \in Seq(Bytes) PROVE Meaning(bytes) \in Seq(Outcomes)
  <2>1. Len(bytes) \in 0 .. Len(bytes)
      OBVIOUS
  <2> QED
      BY <2>1, MeaningLoop DEF Iterates
<1> QED
    BY <1>1, <1>2, <1>3

LEMMA LongerIsTooLong ==
    ASSUME NEW bytes \in Seq(Bytes), NEW c \in Bytes, ~ TooLong(Append(bytes, c))
    PROVE  /\ ~ TooLong(bytes)
           /\ Len(Edited(Append(bytes, c))) < LineCapacity
<1> DEFINE all == Append(bytes, c)
           n == Len(bytes)
<1>1. all \in Seq(Bytes) /\ n \in Nat /\ Len(all) = n + 1 /\ 1 \in 1 .. n + 1
    BY Appended
<1>2. \A k \in 1 .. n : SubSeq(all, 1, k) = SubSeq(bytes, 1, k)
  <2> TAKE k \in 1 .. n
  <2>1. k \in Nat /\ k <= Len(bytes) /\ 1 \in 1 .. Len(bytes) + 1
      BY <1>1
  <2> QED
      BY <2>1, Parts
<1>3. SubSeq(all, 1, n + 1) = all
    BY <1>1
<1> HIDE DEF all
<1>4. \A k \in 1 .. n + 1 : ~ (Len(Edited(SubSeq(all, 1, k))) >= LineCapacity)
    BY <1>1 DEF TooLong, all
<1>5. ~ TooLong(bytes)
  <2> SUFFICES ASSUME NEW k \in 1 .. n, Len(Edited(SubSeq(bytes, 1, k))) >= LineCapacity
               PROVE  FALSE
      BY DEF TooLong
  <2>1. k \in 1 .. n + 1
      BY <1>1
  <2> QED
      BY <1>2, <1>4, <2>1
<1>6. n + 1 \in 1 .. n + 1
    BY <1>1
<1>7. ~ (Len(Edited(all)) >= LineCapacity)
    BY <1>3, <1>4, <1>6
<1>8. Len(Edited(all)) \in Nat /\ LineCapacity \in Nat
  <2>1. Edited(all) \in Seq(Bytes)
      BY <1>1, EditedStep
  <2> QED
      BY <2>1, SizesAssumption
<1> QED
    BY <1>5, <1>7, <1>8 DEF all

\* When all lines fit with the next byte, they fit without it, and the buffer has
\* room for it.
LEMMA LinesFitStep ==
    ASSUME NEW bytes \in Seq(Bytes), NEW c \in Bytes, LinesFit(Append(bytes, c))
    PROVE  /\ LinesFit(bytes)
           /\ c # Newline =>
                 Len(Edited(Append(LineOf(bytes, Len(bytes) + 1), c))) < LineCapacity
<1> DEFINE all == Append(bytes, c)
           n == Len(bytes)
           m == n + 2
           open == LineOf(bytes, n + 1)
<1>1. all \in Seq(Bytes) /\ n \in Nat /\ Len(all) + 1 = m
    BY Appended
<1>2. /\ \A i \in 1 .. n + 1 : LineOf(all, i) = LineOf(bytes, i)
      /\ LineOf(all, m) = IF c = Newline THEN <<>> ELSE Append(open, c)
      /\ LineEnds(all) = IF c = Newline THEN LineEnds(bytes) \cup {n + 1} ELSE LineEnds(bytes)
      /\ LineEnds(bytes) \subseteq 1 .. n
    BY LineStep, EndsAppend DEF LineEnds
<1>3. open \in Seq(Bytes)
  <2>1. n + 1 \in 1 .. Len(bytes) + 1
      BY <1>1
  <2> QED
      BY <2>1, LineFrom
<1>4. \A i \in LineEnds(all) \cup {m} : ~ TooLong(LineOf(all, i))
    BY <1>1 DEF LinesFit
<1> HIDE DEF all, open, m
<1>5. c # Newline => ~ TooLong(open) /\ Len(Edited(Append(open, c))) < LineCapacity
  <2> SUFFICES ASSUME c # Newline
               PROVE  ~ TooLong(open) /\ Len(Edited(Append(open, c))) < LineCapacity
      OBVIOUS
  <2>1. ~ TooLong(Append(open, c))
      BY <1>2, <1>4
  <2> QED
      BY <1>3, <2>1, LongerIsTooLong
<1>6. ASSUME NEW i \in LineEnds(bytes) PROVE ~ TooLong(LineOf(bytes, i))
  <2>1. i \in LineEnds(all) /\ i \in 1 .. n + 1
      BY <1>1, <1>2
  <2> QED
      BY <1>2, <1>4, <2>1
<1>7. ~ TooLong(open)
  <2>1. CASE c = Newline
    <3>1. n + 1 \in LineEnds(all) /\ n + 1 \in 1 .. n + 1
        BY <1>1, <1>2, <2>1
    <3>2. LineOf(all, n + 1) = open
        BY <1>2, <3>1 DEF open
    <3> QED
        BY <1>4, <3>1, <3>2
  <2> QED
      BY <1>5, <2>1
<1>8. LinesFit(bytes)
    BY <1>6, <1>7 DEF LinesFit, open
<1> QED
    BY <1>5, <1>8 DEF open

\* console_feed_char() edits the line as long as the line fits, and executes what it
\* has at a newline.
LEMMA FeedEdits ==
    ASSUME NEW text \in Seq(Bytes), NEW c \in Bytes
    PROVE  /\ c = Newline => /\ Feed(text, c).line = <<>>
                             /\ Feed(text, c).ran = IF text = <<>> THEN <<>>
                                                                   ELSE <<Outcome(text)>>
           /\ (c # Newline /\ Len(Edit(text, c)) < LineCapacity)
                 => Feed(text, c).line = Edit(text, c) /\ Feed(text, c).ran = <<>>
<1>0. LineCapacity \in Nat \ {0} /\ Len(text) \in Nat
    BY SizesAssumption
<1>1. CASE c = Newline
  <2>1. Feed(text, c) = [line |-> <<>>, ran |-> IF text = <<>> THEN <<>> ELSE <<Outcome(text)>>]
      BY <1>1 DEF Feed, Newline, Backspace
  <2> QED
      BY <1>1, <2>1
<1>2. CASE c = Backspace
  <2>1. c # Newline
      BY <1>2 DEF Newline, Backspace
  <2>2. Feed(text, c) = [line |-> SubSeq(text, 1, Len(text) - 1), ran |-> <<>>]
      BY <1>2, <2>1 DEF Feed, Backspace, Newline
  <2>3. Edit(text, c) = SubSeq(text, 1, Len(text) - 1)
      BY <1>2 DEF Edit
  <2> QED
      BY <2>1, <2>2, <2>3
<1>3. CASE c \notin {Newline, Backspace}
  <2> SUFFICES ASSUME Len(Edit(text, c)) < LineCapacity
               PROVE  Feed(text, c).line = Edit(text, c) /\ Feed(text, c).ran = <<>>
      BY <1>3
  <2>1. Edit(text, c) = Append(text, c)
      BY <1>3 DEF Edit
  <2>2. Len(text) < LineCapacity - 1
      BY <1>0, <2>1
  <2>3. Feed(text, c) = [line |-> Append(text, c), ran |-> <<>>]
      BY <1>3, <2>2 DEF Feed
  <2> QED
      BY <2>1, <2>3
<1> QED
    BY <1>1, <1>2, <1>3

-----------------------------------------------------------------------------
(* The ring as a part of the wire *)

\* The bytes of w that are no longer in the ring r.
Read(w, r) == SubSeq(w, 1, Len(w) - Len(r))

EndsWith(r, w) ==
    /\ r \in Seq(Bytes) /\ w \in Seq(Bytes)
    /\ Len(r) <= Len(w)
    /\ \A k \in 1 .. Len(r) : r[k] = w[Len(w) - Len(r) + k]

LEMMA ReadType ==
    ASSUME NEW r, NEW w, EndsWith(r, w)
    PROVE  /\ Read(w, r) \in Seq(Bytes) /\ Len(Read(w, r)) = Len(w) - Len(r)
           /\ Len(r) \in Nat /\ Len(w) \in Nat
           /\ \A i \in 1 .. Len(w) - Len(r) : Read(w, r)[i] = w[i]
<1>1. r \in Seq(Bytes) /\ w \in Seq(Bytes) /\ Len(r) <= Len(w)
    BY DEF EndsWith
<1> DEFINE e == Len(w) - Len(r)
<1>2. e \in Nat /\ e <= Len(w) /\ Len(r) \in Nat /\ Len(w) \in Nat
    BY <1>1
<1> HIDE DEF e
<1>3. /\ SubSeq(w, 1, e) \in Seq(Bytes) /\ Len(SubSeq(w, 1, e)) = e
      /\ \A i \in 1 .. e : SubSeq(w, 1, e)[i] = w[i]
    BY <1>1, <1>2
<1> QED
    BY <1>2, <1>3 DEF Read, e

\* A byte that the interrupt stores is read later.
LEMMA Stores ==
    ASSUME NEW r, NEW w, EndsWith(r, w), NEW c \in Bytes
    PROVE  EndsWith(Append(r, c), Append(w, c)) /\ Read(Append(w, c), Append(r, c)) = Read(w, r)
<1> DEFINE v == Append(w, c)
           s == Append(r, c)
<1>1. r \in Seq(Bytes) /\ w \in Seq(Bytes) /\ Len(r) <= Len(w)
      /\ Len(r) \in Nat /\ Len(w) \in Nat
    BY DEF EndsWith
<1>2. /\ v \in Seq(Bytes) /\ Len(v) = Len(w) + 1 /\ v[Len(w) + 1] = c
      /\ \A i \in 1 .. Len(w) : v[i] = w[i]
    BY <1>1, Appended
<1>3. /\ s \in Seq(Bytes) /\ Len(s) = Len(r) + 1 /\ s[Len(r) + 1] = c
      /\ \A i \in 1 .. Len(r) : s[i] = r[i]
    BY <1>1, Appended
<1>4. Read(v, s) = Read(w, r)
  <2> DEFINE e == Len(w) - Len(r)
  <2>1. e \in Nat /\ e <= Len(w) /\ 1 \in 1 .. Len(w) + 1
      BY <1>1
  <2>2. Len(v) - Len(s) = e
      BY <1>1, <1>2, <1>3
  <2> HIDE DEF e
  <2>3. SubSeq(v, 1, e) = SubSeq(w, 1, e)
      BY <1>1, <2>1, Parts
  <2> HIDE DEF v, s
  <2> QED
      BY <2>2, <2>3 DEF Read, e
<1> HIDE DEF v, s
<1>5. ASSUME NEW k \in 1 .. Len(s) PROVE s[k] = v[Len(v) - Len(s) + k]
  <2>1. CASE k = Len(r) + 1
    <3>1. Len(v) - Len(s) + k = Len(w) + 1
        BY <1>1, <1>2, <1>3, <2>1
    <3> QED
        BY <1>2, <1>3, <2>1, <3>1
  <2>2. CASE k # Len(r) + 1
    <3>1. k \in 1 .. Len(r) /\ Len(v) - Len(s) + k = Len(w) - Len(r) + k
          /\ Len(w) - Len(r) + k \in 1 .. Len(w)
        BY <1>1, <1>2, <1>3, <2>2
    <3>2. r[k] = w[Len(w) - Len(r) + k]
        BY <3>1 DEF EndsWith
    <3> QED
        BY <1>2, <1>3, <3>1, <3>2
  <2> QED
      BY <2>1, <2>2
<1>6. EndsWith(s, v)
    BY <1>1, <1>2, <1>3, <1>5 DEF EndsWith
<1> QED
    BY <1>4, <1>6 DEF v, s

\* The byte the console takes is the next one of the wire.
LEMMA Takes ==
    ASSUME NEW r, NEW w, EndsWith(r, w), r # <<>>
    PROVE  /\ EndsWith(Tail(r), w) /\ Head(r) \in Bytes
           /\ Read(w, Tail(r)) = Append(Read(w, r), Head(r))
<1> DEFINE q == Tail(r)
           c == Head(r)
<1>1. r \in Seq(Bytes) /\ w \in Seq(Bytes) /\ Len(r) <= Len(w)
      /\ Len(r) \in Nat /\ Len(w) \in Nat
    BY DEF EndsWith
<1>2. /\ Len(r) > 0 /\ q \in Seq(Bytes) /\ Len(q) = Len(r) - 1 /\ c \in Bytes /\ c = r[1]
      /\ \A k \in 1 .. Len(r) - 1 : q[k] = r[k + 1]
    BY <1>1
<1> HIDE DEF q, c
<1>3. ASSUME NEW k \in 1 .. Len(q) PROVE q[k] = w[Len(w) - Len(q) + k]
  <2> DEFINE j == k + 1
  <2>1. j \in 1 .. Len(r) /\ k \in 1 .. Len(r) - 1 /\ Len(w) - Len(r) + j = Len(w) - Len(q) + k
      BY <1>1, <1>2
  <2>2. q[k] = r[j]
      BY <1>2, <2>1
  <2> HIDE DEF j
  <2>3. r[j] = w[Len(w) - Len(r) + j]
      BY <2>1 DEF EndsWith
  <2> QED
      BY <2>1, <2>2, <2>3
<1>4. EndsWith(q, w)
    BY <1>1, <1>2, <1>3 DEF EndsWith
<1> DEFINE s == Read(w, r)
           t == Read(w, q)
           e == Len(w) - Len(r)
           u == Append(s, c)
<1>5. e \in Nat /\ Len(w) - Len(q) = e + 1 /\ e + 1 \in 1 .. e + 1
    BY <1>1, <1>2
<1>6. s \in Seq(Bytes) /\ Len(s) = e /\ \A i \in 1 .. e : s[i] = w[i]
    BY ReadType
<1>7. t \in Seq(Bytes) /\ Len(t) = e + 1 /\ \A i \in 1 .. e + 1 : t[i] = w[i]
    BY <1>4, <1>5, ReadType
<1>8. w[e + 1] = c
  <2>1. 1 \in 1 .. Len(r)
      BY <1>1, <1>2
  <2>2. r[1] = w[Len(w) - Len(r) + 1]
      BY <2>1 DEF EndsWith
  <2> QED
      BY <1>2, <2>2
<1> HIDE DEF s, t, e
<1>9. u \in Seq(Bytes) /\ Len(u) = e + 1 /\ u[e + 1] = c /\ \A i \in 1 .. e : u[i] = s[i]
    BY <1>2, <1>6, Appended
<1> HIDE DEF u
<1>10. \A i \in 1 .. e + 1 : u[i] = t[i]
    BY <1>5, <1>6, <1>7, <1>8, <1>9
<1>11. u = t
    BY <1>7, <1>9, <1>10, SeqEqual
<1> QED
    BY <1>2, <1>4, <1>11 DEF q, c, s, t, u

-----------------------------------------------------------------------------
(* The commands of the wire *)

\* What the console has done is what the bytes mean that it has read, and its buffer
\* is the line that is open.
Follows(bytes, done, text) ==
    LinesFit(bytes) => done = Meaning(bytes) /\ text = Edited(LineOf(bytes, Len(bytes) + 1))

ReadInv ==
    IF MaxBytes < 0 THEN wire = <<>> /\ ran = <<>>
    ELSE EndsWith(ring, wire) /\ Follows(Read(wire, ring), ran, line)

\* One byte of the console: console_feed_char() on what it has read so far.
LEMMA FollowsStep ==
    ASSUME NEW bytes \in Seq(Bytes), NEW c \in Bytes, NEW done, NEW text \in Seq(Bytes),
           Follows(bytes, done, text)
    PROVE  Follows(Append(bytes, c), done \o Feed(text, c).ran, Feed(text, c).line)
<1> DEFINE all == Append(bytes, c)
           n == Len(bytes)
           m == n + 2
           open == LineOf(bytes, n + 1)
<1> SUFFICES ASSUME LinesFit(all)
             PROVE  /\ done \o Feed(text, c).ran = Meaning(all)
                    /\ Feed(text, c).line = Edited(LineOf(all, Len(all) + 1))
    BY DEF Follows
<1>1. n \in Nat /\ Len(all) + 1 = m
    BY Appended
<1>2. /\ LinesFit(bytes)
      /\ c # Newline => Len(Edited(Append(open, c))) < LineCapacity
    BY LinesFitStep
<1>3. done = Meaning(bytes) /\ text = Edited(open) /\ done \in Seq(Outcomes)
    BY <1>2, MeaningStep DEF Follows
<1>4. open \in Seq(Bytes)
  <2>1. n + 1 \in 1 .. Len(bytes) + 1
      BY <1>1
  <2> QED
      BY <2>1, LineFrom
<1>5. LineOf(all, m) = IF c = Newline THEN <<>> ELSE Append(open, c)
    BY LineStep
<1>6. Meaning(all) = IF c = Newline THEN done \o Command(open) ELSE done
    BY <1>3, MeaningStep
<1> HIDE DEF all, open, m
<1>7. CASE c = Newline
  <2>1. Feed(text, c).line = <<>>
        /\ Feed(text, c).ran = IF text = <<>> THEN <<>> ELSE <<Outcome(text)>>
      BY <1>7, FeedEdits
  <2>2. Feed(text, c).ran = Command(open)
      BY <1>3, <2>1 DEF Command
  <2>3. Edited(<<>>) = <<>>
      BY EditedStep
  <2> QED
      BY <1>1, <1>5, <1>6, <1>7, <2>1, <2>2, <2>3
<1>8. CASE c # Newline
  <2>1. Edited(Append(open, c)) = Edit(text, c)
      BY <1>3, <1>4, EditedStep
  <2>2. Feed(text, c).line = Edit(text, c) /\ Feed(text, c).ran = <<>>
      BY <1>2, <1>8, <2>1, FeedEdits
  <2>3. done \o <<>> = done
      BY <1>3
  <2> QED
      BY <1>1, <1>5, <1>6, <1>8, <2>1, <2>2, <2>3
<1> QED
    BY <1>7, <1>8

\* Nothing read, nothing done.
LEMMA FollowsNothing ==
    /\ EndsWith(<<>>, <<>>)
    /\ Follows(Read(<<>>, <<>>), <<>>, <<>>)
<1>1. <<>> \in Seq(Bytes) /\ Len(<<>>) = 0
    OBVIOUS
<1>2. EndsWith(<<>>, <<>>)
    BY <1>1 DEF EndsWith
<1>3. Read(<<>>, <<>>) = <<>>
    BY <1>1 DEF Read
<1>4. LineOf(<<>>, 1) = <<>>
  <2> DEFINE a == Max(Ends(<<>>, 1))
  <2>1. a \in 0 .. 0 /\ LineOf(<<>>, 1) = SubSeq(<<>>, 1 + a, 0)
    <3> DEFINE none == <<>>
               i == 1
    <3>1. none \in Seq(Bytes) /\ i \in 1 .. Len(none) + 1 /\ i - 1 = 0
        OBVIOUS
    <3> HIDE DEF none, i
    <3>2. Max(Ends(none, i)) \in 0 .. i - 1
          /\ LineOf(none, i) = SubSeq(none, 1 + Max(Ends(none, i)), i - 1)
        BY <3>1, LineFrom
    <3> QED
        BY <3>1, <3>2 DEF none, i
  <2> HIDE DEF a
  <2>2. a = 0
      BY <2>1
  <2> QED
      BY <2>1, <2>2
<1>5. Len(<<>>) + 1 = 1
    OBVIOUS
<1> QED
    BY <1>2, <1>3, <1>4, <1>5, MeaningStep, EditedStep DEF Follows

LEMMA ConsoleByteReads ==
    ASSUME AwakeInv, ReadInv, ConsoleByte
    PROVE  ReadInv'
<1>1. /\ ring # <<>> /\ ring' = Tail(ring) /\ wire' = wire
      /\ line' = Feed(line, Head(ring)).line
      /\ ran' = IF MaxBytes < 0 THEN ran ELSE ran \o Feed(line, Head(ring)).ran
    BY DEF ConsoleByte
<1>2. CASE MaxBytes < 0
    BY <1>1, <1>2 DEF ReadInv
<1>3. CASE ~ (MaxBytes < 0)
  <2>1. EndsWith(ring, wire) /\ Follows(Read(wire, ring), ran, line) /\ line \in Seq(Bytes)
      BY <1>3 DEF ReadInv, AwakeInv, Types, TypeOK
  <2>2. /\ EndsWith(Tail(ring), wire) /\ Head(ring) \in Bytes
        /\ Read(wire, Tail(ring)) = Append(Read(wire, ring), Head(ring))
      BY <1>1, <2>1, Takes
  <2>3. Read(wire, ring) \in Seq(Bytes)
      BY <2>1, ReadType
  <2>4. Follows(Append(Read(wire, ring), Head(ring)), ran \o Feed(line, Head(ring)).ran,
                Feed(line, Head(ring)).line)
      BY <2>1, <2>2, <2>3, FollowsStep
  <2>5. Follows(Read(wire', ring'), ran', line') /\ EndsWith(ring', wire')
      BY <1>1, <1>3, <2>2, <2>4
  <2> QED
      BY <1>3, <2>5 DEF ReadInv
<1> QED
    BY <1>2, <1>3

\* A full ring drops the byte that comes, and the wire does not know it.
LEMMA UartReads ==
    ASSUME ReadInv, NEW b \in Bytes, UartInterrupt(b)
    PROVE  ReadInv'
<1>1. /\ ring' = (IF Len(ring) < RingCapacity THEN Append(ring, b) ELSE ring)
      /\ wire' = (IF ring' # ring /\ ~ (MaxBytes < 0) THEN Append(wire, b) ELSE wire)
      /\ UNCHANGED <<line, ran>>
    BY DEF UartInterrupt, Stored
<1>2. CASE MaxBytes < 0
    BY <1>1, <1>2 DEF ReadInv
<1>3. CASE ~ (MaxBytes < 0)
  <2>1. EndsWith(ring, wire) /\ Follows(Read(wire, ring), ran, line)
      BY <1>3 DEF ReadInv
  <2>2. CASE ring' = ring
      BY <1>1, <1>3, <2>1, <2>2 DEF ReadInv
  <2>3. CASE ring' # ring
    <3>1. ring' = Append(ring, b) /\ wire' = Append(wire, b)
        BY <1>1, <1>3, <2>3
    <3>2. /\ EndsWith(Append(ring, b), Append(wire, b))
          /\ Read(Append(wire, b), Append(ring, b)) = Read(wire, ring)
        BY <2>1, Stores
    <3>3. EndsWith(ring', wire') /\ Follows(Read(wire', ring'), ran', line')
        BY <1>1, <2>1, <3>1, <3>2
    <3> QED
        BY <1>3, <3>3 DEF ReadInv
  <2> QED
      BY <2>2, <2>3
<1> QED
    BY <1>2, <1>3

LEMMA ReadStart ==
    ASSUME wire = <<>>, ring = <<>>, ran = <<>>, line = <<>>
    PROVE  ReadInv
BY FollowsNothing DEF ReadInv

LEMMA ReadStep ==
    AwakeInv /\ ReadInv /\ [Next]_vars => ReadInv'
<1> SUFFICES ASSUME AwakeInv, ReadInv, [Next]_vars PROVE ReadInv'
    OBVIOUS
<1>1. CASE ConsoleByte
    BY <1>1, ConsoleByteReads
<1>2. CASE \E b \in Bytes : UartInterrupt(b)
    BY <1>2, UartReads
<1>3. CASE WatchdogReset
  <2>1. wire' = <<>> /\ ring' = <<>> /\ ran' = <<>> /\ line' = <<>>
      BY <1>3 DEF WatchdogReset
  <2> QED
      BY <2>1, FollowsNothing DEF ReadInv
<1>4. ASSUME UNCHANGED <<wire, ring, ran, line>> PROVE ReadInv'
    BY <1>4 DEF ReadInv
<1>5. CASE Boot
    BY <1>4, <1>5 DEF Boot, BootStage, BootFails, StartWatchdog, ioVars
<1>6. CASE ConsoleStart \/ ConsoleDrained \/ ConsoleRequest \/ ConsoleTimed \/ ConsoleServices
               \/ ConsoleWait \/ ConsoleWoken
    BY <1>4, <1>6 DEF ConsoleStart, ConsoleDrained, ConsoleRequest, ConsoleTimed,
                      ConsoleServices, ConsoleWait, ConsoleWoken, ioVars
<1>7. CASE Heartbeat \/ HostDispatch \/ Tick
    BY <1>4, <1>7 DEF Heartbeat, HeartbeatSleep, HeartbeatBeat, HostDispatch, Tick, ioVars
<1>8. CASE UsbInterrupt \/ UsbReset \/ Fault
    BY <1>4, <1>8 DEF UsbInterrupt, UsbReset, Fault, ioVars
<1>9. CASE UNCHANGED vars
    BY <1>4, <1>9 DEF vars, ioVars
<1> QED
    BY <1>1, <1>2, <1>3, <1>5, <1>6, <1>7, <1>8, <1>9 DEF Next, Console, Environment

LEMMA ReadInvRuns ==
    AwakeInv /\ ReadInv => RunsWhatArrived
<1> SUFFICES ASSUME AwakeInv, ReadInv, LinesFit(Consumed) PROVE ran = Meaning(Consumed)
    BY DEF RunsWhatArrived
<1>1. CASE MaxBytes < 0
  <2>1. wire = <<>> /\ ran = <<>>
      BY <1>1 DEF ReadInv
  <2>2. Consumed = <<>>
    <3>1. Len(ring) \in Nat
        BY DEF AwakeInv, Types, TypeOK
    <3> DEFINE none == <<>>
               e == Len(none) - Len(ring)
    <3>2. e \in Int /\ e <= 0 /\ none \in Seq(Bytes)
        BY <3>1
    <3> HIDE DEF e
    <3>3. SubSeq(none, 1, e) = <<>>
        BY <3>2
    <3> QED
        BY <2>1, <3>3 DEF Consumed, e, none
  <2> QED
      BY <2>1, <2>2, MeaningStep
<1>2. CASE ~ (MaxBytes < 0)
  <2>1. Follows(Consumed, ran, line)
      BY <1>2 DEF ReadInv, Read, Consumed
  <2> QED
      BY <2>1 DEF Follows
<1> QED
    BY <1>1, <1>2

\* The console runs, in order and once each, exactly the commands whose bytes the
\* ring accepted, as long as lines fit the buffer: whichever interrupts come between
\* its steps, for every size of the ring and the line and every registry.
THEOREM ConsoleRunsWhatArrived == Spec => []RunsWhatArrived
<1>1. Init => ReadInv
    BY ReadStart DEF Init
<1> QED
    BY <1>1, InitAwake, AwakeStep, ReadStep, ReadInvRuns, PTL DEF Spec

-----------------------------------------------------------------------------
(* The watchdog *)

\* A tick may come before the next step of a task that can run.
Spare == IF stepped THEN 1 ELSE 0

\* The steps of the console, each of them a tick at most, until it reloads or gives the
\* processor away: from place p of its loop and call k of schedtimed.
RestOf(p, k) ==
    (CASE p = "usb" -> 1
       [] p = "drain" -> 2
       [] p \in {"start", "woken"} -> 3
       [] p = "wait" -> 4
       [] OTHER -> 0)
    + IF k > 1 THEN 7 - k ELSE 0
Rest == RestOf(pc["console"], timed)

\* The same after it has given it away in schedtimed or at its wait.
AgainOf(p) == IF p = "usb" THEN 6 ELSE 7
Again == AgainOf(pc["console"])

\* The ticks that may pass before the heartbeat reloads, bytes and pieces aside.
Needs ==
    IF tasks["heartbeat"].state = "blocked" THEN tasks["heartbeat"].left + Again
    ELSE IF pc["heartbeat"] = "beat"
    THEN Spare + (IF current = "heartbeat" THEN 0 ELSE Rest)
    ELSE Spare + BeatTicks + (IF current = "heartbeat" THEN Again ELSE Rest + 6)

\* The watchdog has these left, and has spent at most a tick on each byte and piece.
Enough == dog.left + handled + BeatTicks + RoundSteps >= WatchdogTicks + Needs

PeriodInv ==
    /\ mode \in {"boot", "dark"} => ~ dog.on
    /\ mode = "run" =>
         /\ dog.on /\ dog.active
         /\ tasks["heartbeat"].state = "blocked" => tasks["heartbeat"].left <= BeatTicks
    /\ (mode = "run" /\ pc["console"] # "parked" /\ handled < WatchdogTicks) => Enough

Places == {"start", "drain", "usb", "wait", "woken", "parked"}

LEMMA RestBounds ==
    ASSUME NEW p \in Places, NEW k \in 0 .. 6, k # 0 => p \in {"drain", "usb"}
    PROVE  /\ RestOf(p, k) \in 0 .. 7 /\ AgainOf(p) \in 6 .. 7
           /\ RestOf(p, k) <= AgainOf(p)
           /\ p # "parked" => RestOf(p, k) >= 1 /\ AgainOf(p) <= RestOf(p, k) + 6
<1>1. CASE p = "usb"
    BY <1>1 DEF RestOf, AgainOf
<1>2. CASE p = "drain"
    BY <1>2 DEF RestOf, AgainOf
<1>3. CASE p \in {"start", "woken", "wait", "parked"}
    BY <1>3 DEF RestOf, AgainOf
<1> QED
    BY <1>1, <1>2, <1>3 DEF Places

\* The numbers that the count is made of.
Sizes ==
    /\ dog \in [on : BOOLEAN, left : 0 .. WatchdogTicks, active : BOOLEAN]
    /\ dog.left \in 0 .. WatchdogTicks /\ handled \in 0 .. WatchdogTicks
    /\ Rest \in 0 .. 7 /\ Again \in 6 .. 7 /\ Rest <= Again
    /\ pc["console"] # "parked" => Rest >= 1 /\ Again <= Rest + 6
    /\ Spare \in 0 .. 1
    /\ tasks["heartbeat"].state \in {"ready", "blocked"} /\ tasks["heartbeat"].left \in Nat
    /\ Needs \in Nat

LEMMA Periods ==
    WatchdogTicks \in Nat /\ BeatTicks \in Nat /\ BeatTicks > 0 /\ RoundSteps = 11
BY SizesAssumption DEF RoundSteps

LEMMA SizesHold ==
    ASSUME AwakeInv
    PROVE  Sizes
<1>1. /\ dog \in [on : BOOLEAN, left : 0 .. WatchdogTicks, active : BOOLEAN]
      /\ handled \in 0 .. WatchdogTicks
      /\ pc["console"] \in Places /\ timed \in 0 .. 6
      /\ timed # 0 => pc["console"] \in {"drain", "usb"}
      /\ tasks \in [Tasks -> Task]
      /\ tasks["heartbeat"].state # "done"
    BY DEF AwakeInv, Types, TypeOK, TaskInv, Places, Task
<1>2. dog.left \in 0 .. WatchdogTicks
    BY <1>1
<1>3. /\ Rest \in 0 .. 7 /\ Again \in 6 .. 7 /\ Rest <= Again
      /\ pc["console"] # "parked" => Rest >= 1 /\ Again <= Rest + 6
    BY <1>1, RestBounds DEF Rest, Again
<1>4. tasks["heartbeat"].state \in {"ready", "blocked"} /\ tasks["heartbeat"].left \in Nat
    BY <1>1, SizesAssumption DEF Task, Tasks
<1>5. Spare \in 0 .. 1
    BY DEF Spare
<1>6. Needs \in Nat
    BY <1>3, <1>4, <1>5, Periods DEF Needs
<1> QED
    BY <1>1, <1>2, <1>3, <1>4, <1>5, <1>6 DEF Sizes

LEMMA SizesHoldNext ==
    ASSUME AwakeInv'
    PROVE  Sizes'
<1>1. /\ dog' \in [on : BOOLEAN, left : 0 .. WatchdogTicks, active : BOOLEAN]
      /\ handled' \in 0 .. WatchdogTicks
      /\ pc'["console"] \in Places /\ timed' \in 0 .. 6
      /\ timed' # 0 => pc'["console"] \in {"drain", "usb"}
      /\ tasks' \in [Tasks -> Task]
      /\ tasks'["heartbeat"].state # "done"
    BY DEF AwakeInv, Types, TypeOK, TaskInv, Places, Task
<1>2. dog'.left \in 0 .. WatchdogTicks
    BY <1>1
<1>3. /\ Rest' \in 0 .. 7 /\ Again' \in 6 .. 7 /\ Rest' <= Again'
      /\ pc'["console"] # "parked" => Rest' >= 1 /\ Again' <= Rest' + 6
  <2> DEFINE r == RestOf(pc'["console"], timed')
             a == AgainOf(pc'["console"])
  <2>1. /\ r \in 0 .. 7 /\ a \in 6 .. 7 /\ r <= a
        /\ pc'["console"] # "parked" => r >= 1 /\ a <= r + 6
      BY <1>1, RestBounds
  <2>2. Rest' = r /\ Again' = a
      BY DEF Rest, Again
  <2> HIDE DEF r, a
  <2> QED
      BY <2>1, <2>2
<1>4. tasks'["heartbeat"].state \in {"ready", "blocked"} /\ tasks'["heartbeat"].left \in Nat
    BY <1>1, SizesAssumption DEF Task, Tasks
<1>5. Spare' \in 0 .. 1
    BY DEF Spare
<1>6. Needs' \in Nat
  <2> DEFINE l == tasks'["heartbeat"].left
             n == IF tasks'["heartbeat"].state = "blocked" THEN l + Again'
                  ELSE IF pc'["heartbeat"] = "beat"
                  THEN Spare' + (IF current' = "heartbeat" THEN 0 ELSE Rest')
                  ELSE Spare' + BeatTicks
                         + (IF current' = "heartbeat" THEN Again' ELSE Rest' + 6)
  <2>1. Needs' = n
      BY DEF Needs
  <2> DEFINE a == Again'
             r == Rest'
             s == Spare'
  <2>2. l \in Nat /\ a \in 6 .. 7 /\ r \in 0 .. 7 /\ s \in 0 .. 1
      BY <1>3, <1>4, <1>5
  <2>3. n \in {l + a, s + 0, s + r, s + BeatTicks + a, s + BeatTicks + (r + 6)}
      OBVIOUS
  <2> HIDE DEF l, a, r, s, n
  <2>4. n \in Nat
    <3>1. /\ l + a \in Nat /\ s + 0 \in Nat /\ s + r \in Nat
          /\ s + BeatTicks + a \in Nat /\ s + BeatTicks + (r + 6) \in Nat
        BY <2>2, Periods
    <3> QED
        BY <2>3, <3>1
  <2> QED
      BY <2>1, <2>4
<1> QED
    BY <1>1, <1>2, <1>3, <1>4, <1>5, <1>6 DEF Sizes

\* The console has the higher priority.
LEMMA SelectConsole ==
    ASSUME NEW ts \in [Tasks -> Task], ts["console"].state = "ready"
    PROVE  Select(ts) = "console"
<1>1. Ready(ts) \subseteq Tasks /\ "console" \in Ready(ts)
    BY DEF Ready, Tasks
<1>2. Priority["console"] = 128 /\ Priority["heartbeat"] = 255
    BY DEF Priority
<1>3. \A t \in Ready(ts) :
          (\A u \in Ready(ts) : Priority[t] <= Priority[u]) <=> t = "console"
    BY <1>1, <1>2 DEF Tasks
<1> QED
    BY <1>1, <1>3 DEF Select

\* A console that is not ready leaves the processor to a heartbeat that is.
LEMMA SelectLeaves ==
    ASSUME NEW ts \in [Tasks -> Task], ts["console"].state # "ready"
    PROVE  /\ Select(ts) # "console"
           /\ ts["heartbeat"].state = "ready" => Select(ts) = "heartbeat"
<1>1. Select(ts) \in Tasks \cup {"host"}
      /\ (Select(ts) # "host" => ts[Select(ts)].state = "ready")
    BY SelectReady
<1>2. ASSUME ts["heartbeat"].state = "ready" PROVE Select(ts) = "heartbeat"
  <2>1. Ready(ts) = {"heartbeat"}
      BY <1>2 DEF Ready, Tasks
  <2>2. Priority["heartbeat"] = 255
      BY DEF Priority
  <2> QED
      BY <2>1, <2>2 DEF Select
<1> QED
    BY <1>1, <1>2

-----------------------------------------------------------------------------
(* What a step may do to the count *)

\* A step in a system that runs: what is left to show.
LEMMA PeriodFrom ==
    ASSUME PeriodInv, mode = "run", mode' \in {"run", "closed"},
           dog'.on = dog.on, dog'.active = dog.active,
           tasks'["heartbeat"].state = "blocked" => tasks'["heartbeat"].left <= BeatTicks,
           (pc'["console"] # "parked" /\ handled' < WatchdogTicks) => Enough'
    PROVE  PeriodInv'
BY DEF PeriodInv

\* A step that needs no more than before.
LEMMA NoMoreNeeds ==
    ASSUME AwakeInv, AwakeInv', PeriodInv, mode = "run", mode' \in {"run", "closed"},
           UNCHANGED <<dog, handled>>,
           tasks'["heartbeat"].state = "blocked" => tasks'["heartbeat"].left <= BeatTicks,
           pc'["console"] # "parked" => pc["console"] # "parked" /\ Needs' <= Needs
    PROVE  PeriodInv'
<1>1. Needs \in Nat /\ Needs' \in Nat /\ dog.left \in 0 .. WatchdogTicks
      /\ handled \in 0 .. WatchdogTicks
    BY SizesHold, SizesHoldNext DEF Sizes
<1>2. ASSUME pc'["console"] # "parked", handled' < WatchdogTicks PROVE Enough'
  <2>1. Enough
      BY <1>2 DEF PeriodInv
  <2> QED
      BY <1>1, <1>2, <2>1, Periods DEF Enough
<1> QED
    BY <1>2, PeriodFrom

\* A reload: the whole period, and nothing handled since.
LEMMA ReloadEnough ==
    ASSUME AwakeInv, AwakeInv', PeriodInv, mode = "run", mode' \in {"run", "closed"},
           dog' = Reloaded, handled' = 0,
           tasks'["heartbeat"].state = "blocked" => tasks'["heartbeat"].left <= BeatTicks,
           pc'["console"] # "parked" => Needs' <= BeatTicks + RoundSteps
    PROVE  PeriodInv'
<1>1. Needs' \in Nat /\ dog \in [on : BOOLEAN, left : 0 .. WatchdogTicks, active : BOOLEAN]
    BY SizesHold, SizesHoldNext DEF Sizes
<1>2. dog.active
    BY DEF PeriodInv
<1>3. dog'.left = WatchdogTicks /\ dog'.on = dog.on /\ dog'.active = dog.active
    BY <1>1, <1>2 DEF Reloaded
<1>4. ASSUME pc'["console"] # "parked" PROVE Enough'
  <2> DEFINE n == Needs'
             b == BeatTicks + RoundSteps
  <2>1. n <= b /\ n \in Nat
      BY <1>1, <1>4
  <2>2. b = BeatTicks + RoundSteps
      OBVIOUS
  <2> HIDE DEF n, b
  <2>3. WatchdogTicks + 0 + BeatTicks + RoundSteps >= WatchdogTicks + n
      BY <2>1, <2>2, Periods
  <2> QED
      BY <1>3, <2>3 DEF Enough, n
<1> QED
    BY <1>3, <1>4, PeriodFrom

\* A step of the console takes one from its rest, or gives the processor away.
LEMMA StepNeeds ==
    ASSUME AwakeInv, AwakeInv', current = "console", stepped' = TRUE,
           tasks'["heartbeat"] = tasks["heartbeat"], pc'["heartbeat"] = pc["heartbeat"],
           Again' <= Again,
           \/ current' = "console" /\ Rest' + 1 <= Rest
           \/ /\ Rest >= 1 /\ Again' <= Rest + 5
              /\ tasks["heartbeat"].state = "ready" => current' = "heartbeat"
    PROVE  Needs' <= Needs
<1>1. Sizes /\ Sizes'
    BY SizesHold, SizesHoldNext
<1>2. Spare' = 1
    BY DEF Spare
<1>3. CASE tasks["heartbeat"].state = "blocked"
    BY <1>1, <1>3 DEF Needs, Sizes
<1>4. CASE tasks["heartbeat"].state = "ready" /\ pc["heartbeat"] = "beat"
  <2>1. Needs = Spare + Rest
      BY <1>4 DEF Needs
  <2>2. CASE current' = "console" /\ Rest' + 1 <= Rest
    <3>1. Needs' = 1 + Rest'
        BY <1>2, <1>4, <2>2 DEF Needs
    <3> QED
        BY <1>1, <2>1, <2>2, <3>1 DEF Sizes
  <2>3. CASE Rest >= 1 /\ current' = "heartbeat"
    <3>1. Needs' = 1
        BY <1>2, <1>4, <2>3 DEF Needs
    <3> QED
        BY <1>1, <2>1, <2>3, <3>1 DEF Sizes
  <2> QED
      BY <1>4, <2>2, <2>3
<1>5. CASE tasks["heartbeat"].state = "ready" /\ pc["heartbeat"] # "beat"
  <2>1. Needs = Spare + BeatTicks + (Rest + 6)
      BY <1>5 DEF Needs
  <2>2. CASE current' = "console" /\ Rest' + 1 <= Rest
    <3>1. Needs' = 1 + BeatTicks + (Rest' + 6)
        BY <1>2, <1>5, <2>2 DEF Needs
    <3> DEFINE r == Rest'
    <3>2. Rest \in 0 .. 7 /\ r \in 0 .. 7 /\ Spare \in 0 .. 1 /\ r + 1 <= Rest
        BY <1>1, <2>2 DEF Sizes
    <3> HIDE DEF r
    <3>3. 1 + BeatTicks + (r + 6) <= Spare + BeatTicks + (Rest + 6)
        BY <3>2, Periods
    <3> QED
        BY <2>1, <3>1, <3>3 DEF r
  <2>3. CASE Again' <= Rest + 5 /\ current' = "heartbeat"
    <3>1. Needs' = 1 + BeatTicks + Again'
        BY <1>2, <1>5, <2>3 DEF Needs
    <3> DEFINE a == Again'
    <3>2. Rest \in 0 .. 7 /\ a \in 6 .. 7 /\ Spare \in 0 .. 1 /\ a <= Rest + 5
        BY <1>1, <2>3 DEF Sizes
    <3> HIDE DEF a
    <3>3. 1 + BeatTicks + a <= Spare + BeatTicks + (Rest + 6)
        BY <3>2, Periods
    <3> QED
        BY <2>1, <3>1, <3>3 DEF a
  <2> QED
      BY <1>5, <2>2, <2>3
<1> QED
    BY <1>1, <1>3, <1>4, <1>5 DEF Sizes

-----------------------------------------------------------------------------
(* The console against the watchdog *)

LEMMA RestValues ==
    /\ RestOf("start", 0) = 3 /\ AgainOf("start") = 7
    /\ RestOf("drain", 0) = 2 /\ AgainOf("drain") = 7
    /\ RestOf("usb", 0) = 1 /\ AgainOf("usb") = 6
    /\ RestOf("wait", 0) = 4 /\ AgainOf("wait") = 7
    /\ RestOf("woken", 0) = 3 /\ AgainOf("woken") = 7
BY DEF RestOf, AgainOf

LEMMA TimedRest ==
    ASSUME NEW p \in {"drain", "usb"}, NEW k \in 1 .. 6, NEW j \in 0 .. 6,
           j = IF k = 6 THEN 0 ELSE k + 1
    PROVE  /\ RestOf(p, k) >= 1 /\ AgainOf(p) <= RestOf(p, k) + 5
           /\ k # 1 => RestOf(p, j) + 1 <= RestOf(p, k)
<1>1. CASE p = "drain"
    BY <1>1 DEF RestOf, AgainOf
<1>2. CASE p = "usb"
    BY <1>2 DEF RestOf, AgainOf
<1> QED
    BY <1>1, <1>2

\* A step of the console that neither reloads nor takes input.
LEMMA ConsoleGoes ==
    ASSUME AwakeInv, AwakeInv', PeriodInv, MayRun("console"), pc["console"] # "parked",
           mode' \in {"run", "closed"}, UNCHANGED <<dog, handled>>, stepped' = TRUE,
           tasks'["heartbeat"] = tasks["heartbeat"], pc'["heartbeat"] = pc["heartbeat"],
           Again' <= Again,
           \/ current' = "console" /\ Rest' + 1 <= Rest
           \/ /\ Rest >= 1 /\ Again' <= Rest + 5
              /\ tasks["heartbeat"].state = "ready" => current' = "heartbeat"
    PROVE  PeriodInv'
<1>1. mode = "run" /\ current = "console"
    BY DEF MayRun
<1>2. Needs' <= Needs
    BY <1>1, StepNeeds
<1>3. tasks'["heartbeat"].state = "blocked" => tasks'["heartbeat"].left <= BeatTicks
    BY <1>1 DEF PeriodInv
<1> QED
    BY <1>1, <1>2, <1>3, NoMoreNeeds

\* From one place of the loop to the next.
LEMMA ConsolePasses ==
    ASSUME AwakeInv, AwakeInv', PeriodInv, MayRun("console"), stepped' = TRUE,
           timed = 0, UNCHANGED <<mode, dog, tasks, current, timed, handled>>,
           NEW p \in {"drain", "usb"}, pc' = [pc EXCEPT !["console"] = p],
           pc["console"] \in (IF p = "usb" THEN {"drain"} ELSE {"start", "woken"})
    PROVE  PeriodInv'
<1>1. pc'["console"] = p /\ pc'["heartbeat"] = pc["heartbeat"] /\ pc["console"] # "parked"
    BY DEF AwakeInv, Types, Tasks
<1>2. mode = "run" /\ current = "console"
    BY DEF MayRun
<1>3. Rest' = RestOf(p, 0) /\ Again' = AgainOf(p)
    BY <1>1 DEF Rest, Again
<1>4. Rest = RestOf(pc["console"], 0) /\ Again = AgainOf(pc["console"])
    BY DEF Rest, Again
<1>5. RestOf(p, 0) + 1 <= RestOf(pc["console"], 0) /\ AgainOf(p) <= AgainOf(pc["console"])
    BY RestValues
<1>6. Rest' + 1 <= Rest /\ Again' <= Again
    BY <1>3, <1>4, <1>5
<1> QED
    BY <1>1, <1>2, <1>6, ConsoleGoes

LEMMA ConsoleStartPeriod ==
    ASSUME AwakeInv, AwakeInv', PeriodInv, ConsoleStart
    PROVE  PeriodInv'
<1>0. /\ MayRun("console") /\ pc["console"] = "start" /\ stepped' = TRUE
      /\ UNCHANGED <<dog, timed, handled>>
    BY DEF ConsoleStart, Stepped
<1>1. timed = 0 /\ mode = "run"
    BY <1>0 DEF AwakeInv, TaskInv, MayRun
<1>2. CASE pc' = [pc EXCEPT !["console"] = "drain"] /\ UNCHANGED <<tasks, current, mode>>
    BY <1>0, <1>1, <1>2, ConsolePasses
<1>3. CASE Exit("console") /\ pc' = pc
  <2>1. "console" \in Tasks /\ "heartbeat" \in Tasks \ {"console"}
      BY DEF Tasks
  <2>2. /\ tasks' \in [Tasks -> Task]
        /\ tasks'["console"].state = "done" /\ tasks'["heartbeat"] = tasks["heartbeat"]
        /\ mode' \in {"run", "closed"}
      BY <1>1, <1>3, <2>1, ExitShape DEF AwakeInv
  <2>3. current' = Select(tasks')
      BY <1>3 DEF Exit
  <2>4. tasks["heartbeat"].state = "ready" => current' = "heartbeat"
      BY <2>2, <2>3, SelectLeaves
  <2>5. Rest = 3 /\ Again' = 7 /\ Again = 7
      BY <1>0, <1>1, <1>3, RestValues DEF Rest, Again
  <2>6. Rest >= 1 /\ Again' <= Rest + 5 /\ Again' <= Again
      BY <2>5
  <2>7. pc["console"] # "parked" /\ pc'["heartbeat"] = pc["heartbeat"]
      BY <1>0, <1>3
  <2> QED
      BY <1>0, <2>2, <2>4, <2>6, <2>7, ConsoleGoes
<1> QED
    BY <1>2, <1>3 DEF ConsoleStart

LEMMA ConsoleDrainedPeriod ==
    ASSUME AwakeInv, AwakeInv', PeriodInv, ConsoleDrained
    PROVE  PeriodInv'
<1>1. /\ MayRun("console") /\ pc["console"] = "drain" /\ stepped' = TRUE /\ timed = 0
      /\ pc' = [pc EXCEPT !["console"] = "usb"]
      /\ UNCHANGED <<mode, dog, tasks, current, timed, handled>>
    BY DEF ConsoleDrained, Stepped
<1> QED
    BY <1>1, ConsolePasses

LEMMA ConsoleWokenPeriod ==
    ASSUME AwakeInv, AwakeInv', PeriodInv, ConsoleWoken
    PROVE  PeriodInv'
<1>0. /\ MayRun("console") /\ pc["console"] = "woken" /\ stepped' = TRUE
      /\ UNCHANGED <<dog, timed, handled>>
    BY DEF ConsoleWoken, Stepped
<1>1. timed = 0 /\ tasks["console"].state = "ready"
    BY <1>0, Running DEF AwakeInv, TaskInv, Tasks
<1>2. tasks["console"].got \subseteq RxEvents
    BY <1>0, <1>1 DEF AwakeInv, TaskInv
<1>3. pc' = [pc EXCEPT !["console"] = "drain"] /\ UNCHANGED <<tasks, current, mode>>
    BY <1>2 DEF ConsoleWoken
<1> QED
    BY <1>0, <1>1, <1>3, ConsolePasses

\* A byte or a piece: its tick is on the account of the host.
LEMMA ConsoleTakesPeriod ==
    ASSUME AwakeInv, AwakeInv', PeriodInv, ConsoleByte \/ ConsoleRequest
    PROVE  PeriodInv'
<1>0. /\ MayRun("console") /\ pc["console"] \in {"drain", "usb"} /\ timed = 0
      /\ stepped' = TRUE /\ Handles
      /\ UNCHANGED <<mode, dog, tasks, current>>
      /\ \E commands, written : Executes(commands, written)
    BY DEF ConsoleByte, ConsoleRequest, Stepped
<1>1. mode = "run" /\ current = "console"
    BY <1>0 DEF MayRun
<1>2. tasks'["heartbeat"].state = "blocked" => tasks'["heartbeat"].left <= BeatTicks
    BY <1>0, <1>1 DEF PeriodInv
<1>3. ASSUME pc'["console"] # "parked", handled' < WatchdogTicks PROVE Enough'
  <2>1. pc' = pc /\ timed' \in {0, 1}
    <3>1. PICK commands, written : Executes(commands, written)
        BY <1>0
    <3>2. CASE pc' = [pc EXCEPT !["console"] = "parked"]
        BY <1>3, <3>2 DEF AwakeInv, Types, Tasks
    <3>3. CASE pc' = pc
      <4>1. timed' \in {0, 1}
        <5>1. CASE timed' = timed
            BY <1>0, <5>1
        <5>2. CASE timed' = IF commands # <<>> /\ Blocks(commands[1]) THEN 1 ELSE timed
            BY <1>0, <5>2
        <5> QED
            BY <3>1, <5>1, <5>2 DEF Executes
      <4> QED
          BY <3>3, <4>1
    <3> QED
        BY <3>1, <3>2, <3>3 DEF Executes
  <2>2. Rest' = Rest /\ Again' = Again
    <3>1. RestOf(pc["console"], 1) = RestOf(pc["console"], 0)
        BY DEF RestOf
    <3>2. Rest' = RestOf(pc["console"], timed') /\ Rest = RestOf(pc["console"], 0)
        BY <1>0, <2>1 DEF Rest
    <3>3. Rest' = Rest
      <4>1. CASE timed' = 0
          BY <3>2, <4>1
      <4>2. CASE timed' = 1
          BY <3>1, <3>2, <4>2
      <4> QED
          BY <2>1, <4>1, <4>2
    <3> QED
        BY <2>1, <3>3 DEF Again
  <2>3. handled < WatchdogTicks /\ handled' = handled + 1
      BY <1>0, <1>3, SizesHold, Periods DEF Handles, Sizes
  <2>4. Enough /\ Spare' = 1
      BY <1>0, <1>1, <1>3, <2>1, <2>3 DEF PeriodInv, Spare
  <2> DEFINE n == Needs'
             m == Needs
  <2>5. n <= m + 1 /\ n \in Nat /\ m \in Nat
    <3>1. n \in Nat /\ m \in Nat /\ Spare \in 0 .. 1 /\ Rest \in 0 .. 7 /\ Again \in 6 .. 7
          /\ tasks["heartbeat"].left \in Nat
        BY SizesHold, SizesHoldNext DEF Sizes
    <3>2. CASE tasks["heartbeat"].state = "blocked"
      <4>1. n = m
          BY <1>0, <2>2, <3>2 DEF Needs
      <4> QED
          BY <3>1, <4>1
    <3>3. CASE tasks["heartbeat"].state # "blocked" /\ pc["heartbeat"] = "beat"
      <4>1. n = 1 + Rest /\ m = Spare + Rest
          BY <1>0, <1>1, <2>1, <2>2, <2>4, <3>3 DEF Needs
      <4> HIDE DEF n, m
      <4> QED
          BY <3>1, <4>1
    <3>4. CASE tasks["heartbeat"].state # "blocked" /\ pc["heartbeat"] # "beat"
      <4>1. n = 1 + BeatTicks + (Rest + 6) /\ m = Spare + BeatTicks + (Rest + 6)
          BY <1>0, <1>1, <2>1, <2>2, <2>4, <3>4 DEF Needs
      <4> HIDE DEF n, m
      <4> QED
          BY <3>1, <4>1, Periods
    <3> QED
        BY <3>2, <3>3, <3>4
  <2>6. dog.left + handled + BeatTicks + RoundSteps >= WatchdogTicks + m
      BY <2>4 DEF Enough
  <2>7. dog.left \in 0 .. WatchdogTicks /\ handled \in 0 .. WatchdogTicks
      BY SizesHold DEF Sizes
  <2>8. dog' = dog
      BY <1>0
  <2> HIDE DEF n, m
  <2>9. dog.left + (handled + 1) + BeatTicks + RoundSteps >= WatchdogTicks + n
      BY <2>5, <2>6, <2>7, Periods
  <2> QED
      BY <2>3, <2>8, <2>9 DEF Enough, n
<1> QED
    BY <1>0, <1>1, <1>2, <1>3, PeriodFrom

\* production_watchdog_reload() in the console task.
LEMMA ConsoleServicesPeriod ==
    ASSUME AwakeInv, AwakeInv', PeriodInv, ConsoleServices
    PROVE  PeriodInv'
<1>0. /\ MayRun("console") /\ pc["console"] = "usb" /\ stepped' = TRUE /\ timed = 0
      /\ pc' = [pc EXCEPT !["console"] = "wait"] /\ dog' = Reloaded /\ handled' = 0
      /\ UNCHANGED <<mode, tasks, current, timed>>
    BY DEF ConsoleServices, Stepped
<1>1. mode = "run" /\ current = "console"
    BY <1>0 DEF MayRun
<1>2. tasks["heartbeat"].state = "blocked" => tasks["heartbeat"].left <= BeatTicks
    BY <1>1 DEF PeriodInv
<1>3. pc'["console"] = "wait" /\ pc'["heartbeat"] = pc["heartbeat"]
    BY <1>0 DEF AwakeInv, Types, Tasks
<1>4. Rest' = 4 /\ Again' = 7 /\ Spare' = 1
    BY <1>0, <1>3, RestValues DEF Rest, Again, Spare
<1> DEFINE n == Needs'
<1>5. n <= BeatTicks + 11
  <2>1. tasks["heartbeat"].left \in Nat
      BY SizesHold DEF Sizes
  <2>2. CASE tasks["heartbeat"].state = "blocked"
    <3>1. n = tasks["heartbeat"].left + 7
        BY <1>0, <1>4, <2>2 DEF Needs
    <3> HIDE DEF n
    <3> QED
        BY <1>2, <2>1, <2>2, <3>1, Periods
  <2>3. CASE tasks["heartbeat"].state # "blocked"
    <3>1. n = 1 + 4 \/ n = 1 + BeatTicks + (4 + 6)
        BY <1>0, <1>1, <1>3, <1>4, <2>3 DEF Needs
    <3> HIDE DEF n
    <3> QED
        BY <3>1, Periods
  <2> QED
      BY <2>2, <2>3
<1>6. Needs' <= BeatTicks + RoundSteps
    BY <1>5, Periods
<1> QED
    BY <1>0, <1>1, <1>2, <1>6, ReloadEnough

\* Where the console waits, it goes on at once or leaves the processor.
LEMMA WaitsOrLeaves ==
    ASSUME AwakeInv, MayRun("console"), NEW events \in SUBSET RxEvents,
           NEW ticks \in {0, PollTicks, ShortTicks, LongTicks}, WaitEvents(events, ticks)
    PROVE  /\ tasks'["heartbeat"] = tasks["heartbeat"]
           /\ \/ current' = "console"
              \/ tasks["heartbeat"].state = "ready" => current' = "heartbeat"
<1>1. /\ tasks' \in [Tasks -> Task] /\ tasks'["heartbeat"] = tasks["heartbeat"]
      /\ \/ current' = "console"
         \/ tasks'["console"].state = "blocked" /\ current' = Select(tasks')
    BY WaitShape
<1>2. CASE current' = "console"
    BY <1>1, <1>2
<1>3. CASE tasks'["console"].state = "blocked" /\ current' = Select(tasks')
    BY <1>1, <1>3, SelectLeaves
<1> QED
    BY <1>1, <1>2, <1>3

LEMMA ConsoleWaitPeriod ==
    ASSUME AwakeInv, AwakeInv', PeriodInv, ConsoleWait
    PROVE  PeriodInv'
<1>0. /\ MayRun("console") /\ pc["console"] = "wait" /\ stepped' = TRUE
      /\ pc' = [pc EXCEPT !["console"] = "woken"] /\ WaitEvents(RxEvents, PollTicks)
      /\ UNCHANGED <<mode, dog, timed, handled>>
    BY DEF ConsoleWait, Stepped
<1>1. timed = 0 /\ mode = "run"
    BY <1>0 DEF AwakeInv, TaskInv, MayRun
<1>2. pc'["console"] = "woken" /\ pc'["heartbeat"] = pc["heartbeat"]
    BY <1>0 DEF AwakeInv, Types, Tasks
<1>3. Rest = 4 /\ Again = 7 /\ Rest' = 3 /\ Again' = 7
    BY <1>0, <1>1, <1>2, RestValues DEF Rest, Again
<1>4. Again' <= Again /\ Rest' + 1 <= Rest /\ Rest >= 1 /\ Again' <= Rest + 5
    BY <1>3
<1>5. /\ tasks'["heartbeat"] = tasks["heartbeat"]
      /\ \/ current' = "console"
         \/ tasks["heartbeat"].state = "ready" => current' = "heartbeat"
    BY <1>0, WaitsOrLeaves
<1> QED
    BY <1>0, <1>1, <1>2, <1>4, <1>5, ConsoleGoes

\* schedtimed: its steps are counted, and each time it blocks the heartbeat may run.
LEMMA ConsoleTimedPeriod ==
    ASSUME AwakeInv, AwakeInv', PeriodInv, ConsoleTimed
    PROVE  PeriodInv'
<1>0. /\ MayRun("console") /\ timed > 0 /\ timed' = (timed + 1) % 7 /\ stepped' = TRUE
      /\ UNCHANGED <<mode, dog, pc, handled>>
    BY DEF ConsoleTimed, Stepped
<1>1. timed \in 1 .. 6 /\ pc["console"] \in {"drain", "usb"} /\ mode = "run"
    BY <1>0 DEF AwakeInv, Types, TypeOK, TaskInv, MayRun
<1>2. timed' = IF timed = 6 THEN 0 ELSE timed + 1
    BY <1>0, <1>1
<1>3. timed' \in 0 .. 6
    BY <1>1, <1>2
<1>4. /\ RestOf(pc["console"], timed) >= 1
      /\ AgainOf(pc["console"]) <= RestOf(pc["console"], timed) + 5
      /\ timed # 1 => RestOf(pc["console"], timed') + 1 <= RestOf(pc["console"], timed)
    BY <1>1, <1>2, <1>3, TimedRest
<1>5. /\ Rest >= 1 /\ Again' <= Rest + 5 /\ Again' = Again
      /\ timed # 1 => Rest' + 1 <= Rest
    BY <1>0, <1>4 DEF Rest, Again
<1>6. Again' <= Again
    BY <1>5, SizesHold DEF Sizes
<1>7. /\ tasks'["heartbeat"] = tasks["heartbeat"]
      /\ \/ current' = "console" /\ Rest' + 1 <= Rest
         \/ /\ Rest >= 1 /\ Again' <= Rest + 5
            /\ tasks["heartbeat"].state = "ready" => current' = "heartbeat"
  <2>1. CASE timed = 1
    <3>1. Block("console", {}, ShortTicks)
        BY <1>1, <2>1 DEF ConsoleTimed
    <3>2. "console" \in Tasks /\ "heartbeat" \in Tasks \ {"console"} /\ {} \in SUBSET RxEvents
        BY DEF Tasks
    <3>3. /\ tasks' \in [Tasks -> Task] /\ tasks'["heartbeat"] = tasks["heartbeat"]
          /\ tasks'["console"] = [state |-> "blocked", wait |-> {}, left |-> ShortTicks,
                                  got |-> {}]
        BY <3>1, <3>2, BlockShape DEF AwakeInv
    <3>4. current' = Select(tasks') /\ tasks'["console"].state # "ready"
        BY <3>1, <3>3 DEF Block
    <3>5. tasks["heartbeat"].state = "ready" => current' = "heartbeat"
        BY <3>3, <3>4, SelectLeaves
    <3> QED
        BY <1>5, <3>3, <3>5
  <2>2. CASE timed = 6
    <3>1. UNCHANGED <<tasks, current>>
        BY <2>2 DEF ConsoleTimed
    <3>2. current' = "console"
        BY <1>0, <3>1 DEF MayRun
    <3> QED
        BY <1>5, <2>2, <3>1, <3>2
  <2>3. CASE timed \in 2 .. 5
    <3>1. \E n \in {0, ShortTicks, LongTicks} : WaitEvents({Source}, n)
        BY <2>3 DEF ConsoleTimed
    <3>2. {Source} \in SUBSET RxEvents
        BY DEF Source, RxEvents
    <3>3. /\ tasks'["heartbeat"] = tasks["heartbeat"]
          /\ \/ current' = "console"
             \/ tasks["heartbeat"].state = "ready" => current' = "heartbeat"
        BY <1>0, <3>1, <3>2, WaitsOrLeaves
    <3> QED
        BY <1>5, <2>3, <3>3
  <2> QED
      BY <1>1, <2>1, <2>2, <2>3
<1>8. pc["console"] # "parked" /\ pc' = pc /\ mode' \in {"run", "closed"}
    BY <1>0, <1>1
<1> QED
    BY <1>0, <1>5, <1>6, <1>7, <1>8, ConsoleGoes

-----------------------------------------------------------------------------
(* The heartbeat, the host, interrupts and time against the watchdog *)

LEMMA HeartbeatPeriod ==
    ASSUME AwakeInv, AwakeInv', PeriodInv, Heartbeat
    PROVE  PeriodInv'
<1>0. MayRun("heartbeat") /\ stepped' = TRUE /\ timed' = timed
    BY DEF Heartbeat, HeartbeatSleep, HeartbeatBeat, Stepped
<1>1. mode = "run" /\ current = "heartbeat" /\ tasks["heartbeat"].state = "ready"
    BY <1>0, Running DEF Tasks
<1>2. "heartbeat" \in Tasks /\ "console" \in Tasks \ {"heartbeat"}
    BY DEF Tasks
<1>3. Again \in 6 .. 7 /\ Spare \in 0 .. 1
    BY SizesHold DEF Sizes
<1>4. CASE HeartbeatSleep
  <2>1. /\ pc["heartbeat"] \in {"start", "sleep"} /\ pc' = [pc EXCEPT !["heartbeat"] = "beat"]
        /\ Block("heartbeat", {}, BeatTicks) /\ UNCHANGED <<mode, dog, handled>>
      BY <1>4 DEF HeartbeatSleep
  <2>2. tasks'["heartbeat"] = [state |-> "blocked", wait |-> {}, left |-> BeatTicks, got |-> {}]
      BY <1>2, <2>1, BlockShape DEF AwakeInv
  <2>3. tasks'["heartbeat"].state = "blocked" /\ tasks'["heartbeat"].left = BeatTicks
      BY <2>2
  <2>4. pc'["console"] = pc["console"]
      BY <1>2, <2>1 DEF AwakeInv, Types
  <2>5. Again' = Again
      BY <2>4 DEF Again
  <2>6. Needs = Spare + BeatTicks + Again /\ Needs' = BeatTicks + Again
      BY <1>1, <2>1, <2>3, <2>5 DEF Needs
  <2>7. BeatTicks + Again <= Spare + BeatTicks + Again
      BY <1>3, Periods
  <2>8. Needs' <= Needs /\ tasks'["heartbeat"].left <= BeatTicks
      BY <2>3, <2>6, <2>7, Periods
  <2> QED
      BY <1>1, <2>1, <2>4, <2>8, NoMoreNeeds
<1>5. CASE HeartbeatBeat
  <2>1. pc["heartbeat"] = "beat" /\ tasks["heartbeat"].got = {"slept"}
      BY <1>1, <1>5 DEF HeartbeatBeat, AwakeInv, TaskInv
  <2>2. /\ pc' = [pc EXCEPT !["heartbeat"] = "sleep"] /\ dog' = Reloaded /\ handled' = 0
        /\ UNCHANGED <<tasks, current, mode>>
      BY <1>5, <2>1 DEF HeartbeatBeat
  <2>3. pc'["console"] = pc["console"] /\ pc'["heartbeat"] = "sleep"
      BY <1>2, <2>2 DEF AwakeInv, Types
  <2>4. Again' = Again /\ Spare' = 1
      BY <1>0, <2>3 DEF Again, Spare
  <2>5. Needs' = 1 + BeatTicks + Again
      BY <1>1, <2>2, <2>3, <2>4 DEF Needs
  <2>6. 1 + BeatTicks + Again <= BeatTicks + RoundSteps
      BY <1>3, Periods
  <2>7. Needs' <= BeatTicks + RoundSteps
      BY <2>5, <2>6
  <2> QED
      BY <1>1, <2>2, <2>7, ReloadEnough
<1> QED
    BY <1>4, <1>5 DEF Heartbeat

LEMMA DispatchPeriod ==
    ASSUME AwakeInv, AwakeInv', PeriodInv, HostDispatch
    PROVE  PeriodInv'
<1>0. /\ mode = "run" /\ current = "host"
      /\ UNCHANGED <<mode, dog, tasks, pc, timed, stepped, handled>>
    BY DEF HostDispatch
<1>1. Rest' = Rest /\ Again' = Again /\ Spare' = Spare
    BY <1>0 DEF Rest, Again, Spare
<1>2. /\ Rest \in 0 .. 7 /\ Again \in 6 .. 7 /\ Spare \in 0 .. 1 /\ Needs \in Nat
      /\ pc["console"] # "parked" => Again <= Rest + 6
    BY SizesHold DEF Sizes
<1>3. ASSUME pc["console"] # "parked" PROVE Needs' <= Needs
  <2> DEFINE n == Needs'
  <2>1. CASE tasks["heartbeat"].state = "blocked"
    <3>1. n = Needs
        BY <1>0, <1>1, <2>1 DEF Needs
    <3> QED
        BY <1>2, <3>1
  <2>2. CASE tasks["heartbeat"].state # "blocked" /\ pc["heartbeat"] = "beat"
    <3>1. Needs = Spare + Rest /\ n \in {Spare + 0, Spare + Rest}
        BY <1>0, <1>1, <2>2 DEF Needs
    <3> HIDE DEF n
    <3>2. n <= Needs
        BY <1>2, <3>1
    <3> QED
        BY <3>2 DEF n
  <2>3. CASE tasks["heartbeat"].state # "blocked" /\ pc["heartbeat"] # "beat"
    <3>1. /\ Needs = Spare + BeatTicks + (Rest + 6)
          /\ n \in {Spare + BeatTicks + Again, Spare + BeatTicks + (Rest + 6)}
        BY <1>0, <1>1, <2>3 DEF Needs
    <3> HIDE DEF n
    <3>2. n <= Needs
        BY <1>2, <1>3, <3>1, Periods
    <3> QED
        BY <3>2 DEF n
  <2> QED
      BY <2>1, <2>2, <2>3
<1>4. tasks'["heartbeat"].state = "blocked" => tasks'["heartbeat"].left <= BeatTicks
    BY <1>0 DEF PeriodInv
<1> QED
    BY <1>0, <1>3, <1>4, NoMoreNeeds

\* An interrupt can wake the console, never the heartbeat.
LEMMA SignalKeeps ==
    ASSUME AwakeInv, NEW e \in RxEvents, Signal(e)
    PROVE  tasks'["heartbeat"] = tasks["heartbeat"]
<1>1. CASE mode # "run"
    BY <1>1 DEF Signal
<1>2. CASE mode = "run"
  <2>1. tasks["heartbeat"].state = "blocked" => e \notin tasks["heartbeat"].wait
      BY DEF AwakeInv, TaskInv
  <2> QED
      BY <1>2, <2>1 DEF Signal, Tasks
<1> QED
    BY <1>1, <1>2

\* What an interrupt leaves alone is all that the count is made of.
LEMMA InterruptPeriod ==
    ASSUME AwakeInv, AwakeInv', PeriodInv,
           UNCHANGED <<mode, dog, current, pc, timed, stepped, handled>>,
           tasks'["heartbeat"] = tasks["heartbeat"]
    PROVE  PeriodInv'
<1>1. CASE mode # "run"
    BY <1>1 DEF PeriodInv
<1>2. CASE mode = "run"
  <2>1. Rest' = Rest /\ Again' = Again /\ Spare' = Spare
      BY DEF Rest, Again, Spare
  <2>2. Needs' = Needs
      BY <2>1 DEF Needs
  <2>3. Needs' <= Needs
      BY <2>2, SizesHold DEF Sizes
  <2>4. tasks'["heartbeat"].state = "blocked" => tasks'["heartbeat"].left <= BeatTicks
      BY <1>2 DEF PeriodInv
  <2> QED
      BY <1>2, <2>3, <2>4, NoMoreNeeds
<1> QED
    BY <1>1, <1>2

LEMMA EnvironmentPeriod ==
    ASSUME AwakeInv, AwakeInv', PeriodInv, Environment
    PROVE  PeriodInv'
<1>1. CASE Fault
  <2>1. mode' = "fault"
      BY <1>1 DEF Fault
  <2> QED
      BY <2>1 DEF PeriodInv
<1>2. ASSUME NEW b \in Bytes, UartInterrupt(b) PROVE PeriodInv'
  <2>1. UNCHANGED <<mode, dog, current, pc, timed, stepped, handled>>
        /\ (Signal("uart") \/ tasks' = tasks)
      BY <1>2 DEF UartInterrupt
  <2>2. "uart" \in RxEvents
      BY DEF RxEvents
  <2>3. tasks'["heartbeat"] = tasks["heartbeat"]
      BY <2>1, <2>2, SignalKeeps
  <2> QED
      BY <2>1, <2>3, InterruptPeriod
<1>3. CASE UsbInterrupt
  <2>1. UNCHANGED <<mode, dog, current, pc, timed, stepped, handled>>
        /\ (Signal("usb") \/ tasks' = tasks)
      BY <1>3 DEF UsbInterrupt
  <2>2. "usb" \in RxEvents
      BY DEF RxEvents
  <2>3. tasks'["heartbeat"] = tasks["heartbeat"]
      BY <2>1, <2>2, SignalKeeps
  <2> QED
      BY <2>1, <2>3, InterruptPeriod
<1>4. CASE UsbReset
  <2>1. UNCHANGED <<mode, dog, current, pc, timed, stepped, handled, tasks>>
      BY <1>4 DEF UsbReset
  <2> QED
      BY <2>1, InterruptPeriod
<1> QED
    BY <1>1, <1>2, <1>3, <1>4 DEF Environment

\* scheduler_tick(): a deadline comes nearer, or is reached.
LEMMA ExpireShape ==
    ASSUME AwakeInv, NEW t \in Tasks
    PROVE  /\ tasks[t].state # "blocked" => Expire(tasks)[t] = tasks[t]
           /\ tasks[t].state = "blocked" /\ tasks[t].left = 1 =>
                 Expire(tasks)[t].state = "ready"
           /\ tasks[t].state = "blocked" /\ tasks[t].left # 1 =>
                 Expire(tasks)[t].state = "blocked"
                 /\ Expire(tasks)[t].left = tasks[t].left - 1
<1>1. Expire(tasks)[t] =
            IF tasks[t].state # "blocked" THEN tasks[t]
            ELSE IF tasks[t].left = 1 THEN WakeAs(Result(tasks[t]))
            ELSE [tasks[t] EXCEPT !.left = @ - 1]
    BY DEF Expire
<1>2. tasks[t] \in Task
    BY DEF AwakeInv, Types, TypeOK, Task
<1>3. WakeAs(Result(tasks[t])).state = "ready"
    BY DEF WakeAs
<1>4. /\ [tasks[t] EXCEPT !.left = @ - 1].state = tasks[t].state
      /\ [tasks[t] EXCEPT !.left = @ - 1].left = tasks[t].left - 1
    BY <1>2 DEF Task
<1> QED
    BY <1>1, <1>3, <1>4

\* A tick takes one from the heartbeat's sleep, or what a step has spared for it.
LEMMA TickNeeds ==
    ASSUME AwakeInv, AwakeInv', PeriodInv, Tick, mode = "run", pc["console"] # "parked"
    PROVE  Needs' + 1 <= Needs
<1>0. /\ UNCHANGED <<current, pc, timed>> /\ stepped' = FALSE
      /\ Runnable => stepped
      /\ tasks' = Expire(tasks)
    BY DEF Tick
<1>1. Rest' = Rest /\ Again' = Again /\ Spare' = 0
    BY <1>0 DEF Rest, Again, Spare
<1>2. /\ Rest \in 0 .. 7 /\ Again \in 6 .. 7 /\ Rest <= Again
      /\ tasks["heartbeat"].state \in {"ready", "blocked"} /\ tasks["heartbeat"].left \in Nat
    BY SizesHold DEF Sizes
<1>3. "heartbeat" \in Tasks
    BY DEF Tasks
<1>4. /\ tasks["heartbeat"].state # "blocked" => tasks'["heartbeat"] = tasks["heartbeat"]
      /\ tasks["heartbeat"].state = "blocked" /\ tasks["heartbeat"].left = 1 =>
            tasks'["heartbeat"].state = "ready"
      /\ tasks["heartbeat"].state = "blocked" /\ tasks["heartbeat"].left # 1 =>
            tasks'["heartbeat"].state = "blocked"
            /\ tasks'["heartbeat"].left = tasks["heartbeat"].left - 1
    BY <1>0, <1>3, ExpireShape
<1> DEFINE n == Needs'
           l == tasks["heartbeat"].left
<1>5. CASE tasks["heartbeat"].state = "blocked" /\ l # 1
  <2>1. n = l - 1 + Again /\ Needs = l + Again
      BY <1>1, <1>4, <1>5 DEF Needs
  <2> HIDE DEF n, l
  <2>2. n + 1 <= Needs
      BY <1>2, <2>1 DEF l
  <2> QED
      BY <2>2 DEF n
<1>6. CASE tasks["heartbeat"].state = "blocked" /\ l = 1
  <2>1. pc["heartbeat"] = "beat"
      BY <1>6 DEF AwakeInv, TaskInv
  <2>2. n \in {0 + 0, 0 + Rest} /\ Needs = 1 + Again
      BY <1>0, <1>1, <1>4, <1>6, <2>1 DEF Needs
  <2> HIDE DEF n, l
  <2>3. n + 1 <= Needs
      BY <1>2, <2>2
  <2> QED
      BY <2>3 DEF n
<1>7. CASE tasks["heartbeat"].state = "ready"
  <2>1. Spare = 1
    <3>1. Ready(tasks) # {}
        BY <1>3, <1>7 DEF Ready
    <3>2. current # "host" => pc[current] # "parked"
        BY DEF AwakeInv, Types, TypeOK, Tasks
    <3>3. Runnable
        BY <3>1, <3>2 DEF Runnable
    <3> QED
        BY <1>0, <3>3 DEF Spare
  <2>2. tasks'["heartbeat"] = tasks["heartbeat"]
      BY <1>4, <1>7
  <2>3. CASE pc["heartbeat"] = "beat"
    <3>1. \/ n = 0 + 0 /\ Needs = 1 + 0
          \/ n = 0 + Rest /\ Needs = 1 + Rest
        BY <1>0, <1>1, <1>7, <2>1, <2>2, <2>3 DEF Needs
    <3> HIDE DEF n, l
    <3>2. n + 1 <= Needs
        BY <1>2, <3>1
    <3> QED
        BY <3>2 DEF n
  <2>4. CASE pc["heartbeat"] # "beat"
    <3>1. \/ n = 0 + BeatTicks + Again /\ Needs = 1 + BeatTicks + Again
          \/ n = 0 + BeatTicks + (Rest + 6) /\ Needs = 1 + BeatTicks + (Rest + 6)
        BY <1>0, <1>1, <1>7, <2>1, <2>2, <2>4 DEF Needs
    <3> HIDE DEF n, l
    <3>2. n + 1 <= Needs
        BY <1>2, <3>1, Periods
    <3> QED
        BY <3>2 DEF n
  <2> QED
      BY <2>3, <2>4
<1> QED
    BY <1>2, <1>5, <1>6, <1>7

LEMMA TickPeriod ==
    ASSUME AwakeInv, AwakeInv', PeriodInv, Tick
    PROVE  PeriodInv'
<1>0. /\ UNCHANGED <<mode, pc, handled>>
      /\ dog' = IF dog.on THEN [dog EXCEPT !.left = @ - 1] ELSE dog
      /\ tasks' = IF mode = "run" THEN Expire(tasks) ELSE tasks
    BY DEF Tick
<1>1. /\ dog \in [on : BOOLEAN, left : 0 .. WatchdogTicks, active : BOOLEAN]
      /\ dog.left \in 0 .. WatchdogTicks /\ handled \in 0 .. WatchdogTicks
      /\ Needs \in Nat /\ Needs' \in Nat /\ tasks["heartbeat"].left \in Nat
    BY SizesHold, SizesHoldNext DEF Sizes
<1>2. CASE mode # "run"
  <2>1. dog'.on = dog.on
      BY <1>0, <1>1
  <2> QED
      BY <1>0, <1>2, <2>1 DEF PeriodInv
<1>3. CASE mode = "run"
  <2>1. /\ dog.on /\ dog.active
        /\ tasks["heartbeat"].state = "blocked" => tasks["heartbeat"].left <= BeatTicks
      BY <1>3 DEF PeriodInv
  <2>2. dog'.left = dog.left - 1 /\ dog'.on = dog.on /\ dog'.active = dog.active
      BY <1>0, <1>1, <2>1
  <2>3. tasks'["heartbeat"].state = "blocked" => tasks'["heartbeat"].left <= BeatTicks
    <3>1. "heartbeat" \in Tasks /\ tasks' = Expire(tasks)
        BY <1>0, <1>3 DEF Tasks
    <3>2. tasks'["heartbeat"].state = "blocked" =>
            /\ tasks["heartbeat"].state = "blocked"
            /\ tasks'["heartbeat"].left = tasks["heartbeat"].left - 1
        BY <3>1, ExpireShape
    <3>3. tasks["heartbeat"].left <= BeatTicks => tasks["heartbeat"].left - 1 <= BeatTicks
        BY <1>1, Periods
    <3> QED
        BY <2>1, <3>2, <3>3
  <2>4. ASSUME pc["console"] # "parked", handled < WatchdogTicks PROVE Enough'
    <3> DEFINE n == Needs'
    <3>1. Enough /\ n + 1 <= Needs /\ n \in Nat
        BY <1>1, <1>3, <2>4, TickNeeds DEF PeriodInv
    <3>2. dog.left + handled + BeatTicks + RoundSteps >= WatchdogTicks + Needs
        BY <3>1 DEF Enough
    <3> HIDE DEF n
    <3>3. (dog.left - 1) + handled + BeatTicks + RoundSteps >= WatchdogTicks + n
        BY <1>1, <3>1, <3>2, Periods
    <3> QED
        BY <1>0, <2>2, <3>3 DEF Enough, n
  <2> QED
      BY <1>0, <1>3, <2>2, <2>3, <2>4, PeriodFrom
<1> QED
    BY <1>2, <1>3

\* iwdg_start() starts the watchdog with its whole period, and the console first.
LEMMA BootPeriod ==
    ASSUME AwakeInv, AwakeInv', PeriodInv, Boot
    PROVE  PeriodInv'
<1>1. mode = "boot" /\ UNCHANGED <<tasks, pc, timed, stepped, handled>>
    BY DEF Boot, BootStage, BootFails, StartWatchdog
<1>2. CASE mode' # "run"
  <2>1. \/ mode' \in {"boot", "dark"} /\ dog' = dog
        \/ mode' = "closed"
      BY <1>1, <1>2 DEF Boot, BootStage, BootFails, StartWatchdog
  <2> QED
      BY <1>1, <2>1 DEF PeriodInv
<1>3. CASE mode' = "run"
  <2>1. StartWatchdog
      BY <1>1, <1>3 DEF Boot, BootStage, BootFails
  <2>2. /\ current' = Select(tasks)
        /\ dog' = [on |-> TRUE, left |-> WatchdogTicks, active |-> TRUE]
      BY <1>3, <2>1 DEF StartWatchdog
  <2>3. /\ tasks["console"] = NewTask /\ tasks["heartbeat"] = NewTask
        /\ pc["console"] = "start" /\ pc["heartbeat"] = "start" /\ timed = 0
        /\ tasks \in [Tasks -> Task]
      BY <1>1 DEF AwakeInv, TaskInv, Tasks, Types, TypeOK, Task
  <2>4. tasks["console"].state = "ready" /\ tasks["heartbeat"].state = "ready"
      BY <2>3 DEF NewTask
  <2>5. current' = "console"
      BY <2>2, <2>3, <2>4, SelectConsole
  <2>6. Rest' = 3 /\ Spare' = Spare
      BY <1>1, <2>3, RestValues DEF Rest, Spare
  <2> DEFINE n == Needs'
  <2>7. n = Spare + BeatTicks + (3 + 6)
      BY <1>1, <2>3, <2>4, <2>5, <2>6 DEF Needs
  <2>8. Spare \in 0 .. 1 /\ handled \in 0 .. WatchdogTicks
      BY SizesHold DEF Sizes
  <2> HIDE DEF n
  <2>9. WatchdogTicks + handled + BeatTicks + RoundSteps >= WatchdogTicks + n
      BY <2>7, <2>8, Periods
  <2>10. dog'.on /\ dog'.active /\ dog'.left = WatchdogTicks
      BY <2>2
  <2>11. Enough'
      BY <1>1, <2>9, <2>10 DEF Enough, n
  <2>12. tasks'["heartbeat"].state # "blocked"
      BY <1>1, <2>4
  <2> QED
      BY <1>3, <2>10, <2>11, <2>12 DEF PeriodInv
<1> QED
    BY <1>2, <1>3

LEMMA PeriodStep ==
    ASSUME AwakeInv, AwakeInv', PeriodInv, [Next]_vars
    PROVE  PeriodInv'
<1>1. CASE Console
    BY <1>1, ConsoleStartPeriod, ConsoleTakesPeriod, ConsoleDrainedPeriod,
       ConsoleTimedPeriod, ConsoleServicesPeriod, ConsoleWaitPeriod, ConsoleWokenPeriod
       DEF Console
<1>2. CASE WatchdogReset
  <2>1. mode' = "boot" /\ dog' = DogOff
      BY <1>2 DEF WatchdogReset
  <2>2. ~ dog'.on
      BY <2>1 DEF DogOff
  <2> QED
      BY <2>1, <2>2 DEF PeriodInv
<1>3. CASE UNCHANGED vars
  <2>1. UNCHANGED <<mode, dog, current, pc, timed, stepped, handled, tasks>>
      BY <1>3 DEF vars
  <2> QED
      BY <2>1, InterruptPeriod
<1> QED
    BY <1>1, <1>2, <1>3, BootPeriod, HeartbeatPeriod, DispatchPeriod, TickPeriod,
       EnvironmentPeriod DEF Next

\* A watchdog that has nothing left has spent it on input, unless the system is dead.
LEMMA ResetsDeadEnd ==
    ASSUME AwakeInv, PeriodInv, WatchdogReset
    PROVE  DeadEnd \/ Flooded
<1>1. dog.on /\ dog.left = 0
    BY DEF WatchdogReset
<1>2. mode \in {"run", "closed", "fault"}
    BY <1>1 DEF PeriodInv, AwakeInv, Types, TypeOK
<1>3. ASSUME mode = "run", pc["console"] # "parked" PROVE Flooded
  <2>1. handled \in 0 .. WatchdogTicks /\ Needs \in Nat
      BY SizesHold DEF Sizes
  <2>2. CASE handled < WatchdogTicks
    <3>1. 0 + handled + BeatTicks + RoundSteps >= WatchdogTicks + Needs
        BY <1>1, <1>3, <2>2 DEF PeriodInv, Enough
    <3>2. handled + BeatTicks + RoundSteps >= WatchdogTicks
        BY <2>1, <3>1, Periods
    <3> QED
        BY <3>2 DEF Flooded
  <2>3. CASE ~ (handled < WatchdogTicks)
    <3>1. handled + BeatTicks + RoundSteps >= WatchdogTicks
        BY <2>1, <2>3, Periods
    <3> QED
        BY <3>1 DEF Flooded
  <2> QED
      BY <2>2, <2>3
<1> QED
    BY <1>1, <1>2, <1>3 DEF DeadEnd

\* The watchdog resets only dead ends and consoles that input keeps busy: between two
\* reloads it spends at most the heartbeat's period, a round of the console loop and a
\* tick for each byte and piece that the console took, whichever interrupts come between
\* the steps of the two tasks, and however much the host sends.
THEOREM OnlyDeadEndsAreReset == Spec => ResetsOnlyDeadEnds
<1>1. Init => PeriodInv
  <2> SUFFICES ASSUME Init PROVE PeriodInv
      OBVIOUS
  <2>1. mode = "boot" /\ ~ dog.on
      BY DEF Init, DogOff
  <2> QED
      BY <2>1 DEF PeriodInv
<1>2. AwakeInv /\ AwakeInv' /\ PeriodInv /\ [Next]_vars => PeriodInv'
    BY PeriodStep
<1>3. AwakeInv /\ PeriodInv => [WatchdogReset => DeadEnd \/ Flooded]_vars
    BY ResetsDeadEnd
<1> QED
    BY <1>1, <1>2, <1>3, InitAwake, AwakeStep, PTL DEF Spec, ResetsOnlyDeadEnds
=============================================================================
