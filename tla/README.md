# Deus OS: TLA+ models, checks and proofs

Deus OS is a small operating system for an STM32F103 with an update bootloader, a
USB management protocol, a persistent configuration store, an OLED desktop, a link to
an ESP8266 node, and host tools in C#.  This directory models its device side in TLA+,
checks the models with TLC and proves theorems about them with TLAPS.  `PROJECT.json`
lists components, runs, mutants, hazards, theorems, and for each definition the source
lines it models.

## 1. Inventory

| component | state | operations | hard behaviour |
|---|---|---|---|
| scheduler (`src/src/kernel/scheduler.c`) | task table, current task, latched events, deadlines, run counters | init, bind, prepare, start; SVC yield / exit / wait / timed wait / sleep; event_signal; tick; PendSV | SVC, SysTick, USB and UART interrupts, PendSV and the host loop interleave; idle WFE; wrapping clock |
| bootloader (`src/bootloader/bootloader.c`) | two metadata pages, application flash, update session, one bulk endpoint | boot selection, BEGIN, AUTHORIZE, DATA, END, INFO, USB reset and configuration | power loss and flash failure in every operation, repeated requests, rollback protection |
| asset persistence (`asset_persistence.c`, `flash_persistence.c`) | two flash slots, active record, candidate | begin, write, commit, abort, boot selection | reset inside every flash operation, failed markers, CRC collisions, wear limit |
| asset transfer (`asset_transfer.c`) | transfer session | BEGIN, WRITE_CHUNK, COMMIT, ABORT, STATUS, READ_CHUNK, timeout | lost answers, retried and reordered requests, USB loss |
| USB device (`drivers/usb_device.c`) and management (`usb_management.c`) | endpoint 0 transfer, RX/TX rings, endpoint state, pending reset into the bootloader | interrupt, enqueue, drain, protocol reset, ENTER_BOOTLOADER | rings shared by interrupt and task, bus reset between two steps, aborted control transfers |
| binary frame and RPC (`binary_frame.c`, `binary_rpc.c`, `command_service.c`) | parser state, request workspace | feed byte, dispatch, answer | resynchronisation, a ring that refuses one frame of several |
| application runtime (`application_runtime*.c`, `application_commands.c`) | life cycle of applications, view, bridge | init, start, stop, events, render | callbacks that fail in the middle of a switch |
| desktop user interface (`kernel.c`, `gfx/mono_fb.c`, `text_renderer.c`, `oled_*.c`, `drivers/ssd1306.c`, `system_service_state.c`) | framebuffer, dirty spans, console rows, status bar, panel | service, uiruntime, diagnostics, layout activation | a bus that fails in the middle of a transfer; several users of one panel |
| production tasks (`kernel.c`, `usart1_console.c`, `iwdg.c`) | boot stage, two tasks, UART ring, watchdog | boot, console and heartbeat task, interrupts, reset | drain order, lost wake-ups, watchdog starvation |
| node link (`src/shared/node_link`), ESP8266 node | controller and worker | hello, request, timeout, process, receive | lost, repeated and reordered frames, restarts |
| host library and tools (`src/host`) | pending request, session, client state machines | call, asset transfer, firmware update | timeouts against late answers |
| drivers for clock, I2C, LED; fonts; scripts | registers, pixels | set-up, drawing | no state the other parts depend on |

How they interact: the host talks frames over USB; the USB interrupt fills rings and
signals an event to the scheduler; the console task drains the rings, parses frames and
calls RPC or the asset transfer handlers, which call the store.  The same task reads
text lines from the UART ring, runs commands, serves the user interface, which serves
the application runtime through its bridge, and reloads the watchdog.  ENTER_BOOTLOADER
leaves a token in the backup registers and resets; the bootloader then serves the update
protocol and finally starts the application again.  The node link runs between two
other ends over a serial line.

What makes each part correct: the scheduler loses no wake-up, runs the right task and
keeps time; the bootloader never lowers the version floor and boots only a complete,
signed image; the store keeps one intact record through every reset; the transfer
acknowledges only what is stored; rings deliver bytes whole and once; a parser delivers
only what was sent and recovers; an answer is honest about what it contains; a failed
application leaves a defined state; the panel shows what is believed shown; the tasks
neither sleep over input nor starve the watchdog; a reply is accepted only for its
request.

## 2. Modules

| module | models | composed with |
|---|---|---|
| `Scheduler` | `scheduler.c`, and `SysTick_Handler` of `kernel.c` | |
| `MCScheduler` | a prepared run of `Scheduler` with fairness | `Scheduler` |
| `Bootloader` / `MCBootloader` | `bootloader.c` | |
| `AssetRegister` | what the store promises: an abstract register | |
| `AssetPersistence` | `asset_persistence.c` over `flash_persistence.c`, most general caller | implements `AssetRegister` |
| `AssetTransfer` / `MCAssetTransfer` | `asset_transfer.c`, the real caller | extends `AssetPersistence` |
| `UsbManagement` | rings and bulk endpoints of `usb_device.c`, `usb_management.c` | |
| `UsbControl` | endpoint 0 of `usb_device.c` | |
| `BinaryFrame` / `MCBinaryFrame` | `binary_frame.c` | |
| `BinaryRpc` / `MCBinaryRpc` | `binary_rpc.c` and the command service behind it | |
| `ApplicationRuntime` | `application_runtime.c`, its bridge and commands | |
| `DesktopUi` / `MCDesktopUi` | `boot_desktop_ui_*` and the OLED diagnostics of `kernel.c` over framebuffer, console, status bar, layout, panel and service state | extends `ApplicationRuntime` |
| `ProductionTasks` / `MCProductionTasks` | boot, production tasks, UART ring, text console, the loop over management input, `schedtimed`, watchdog | the scheduler as `Scheduler` shows it behaves |
| `NodeLink` | handlers of both ends of the node link | |
| `NodeLinkAnyOrder` / `MCNodeLinkAnyOrder` | both ends over the weakest line | extends `NodeLink` |
| `SchedulerProofs`, `BootloaderProofs`, `AssetTransferProofs`, `UsbManagementProofs`, `UsbControlProofs`, `DesktopUiProofs`, `ProductionTasksProofs`, `NodeLinkProofs` | theorems | each extends the module it names; `AssetTransferProofs` holds those about `AssetPersistence` too, `DesktopUiProofs` those about `ApplicationRuntime`, `UsbManagementProofs` those about `BinaryFrame` and `BinaryRpc` |

Definitions whose comment starts with "Faulty variant" are not part of a
specification.  They are the "as" of the mutants in `PROJECT.json`: each is what a
definition would be with a plausible bug, and replacing the definition by it makes TLC
report the property named there.

A run's invariant that is a conjunction is stated as such: its parts have a definition
and a comment each (`StoreHolds == TypeOK /\ ActiveRecordIntact /\ ...`).

### Scheduler

The variables are the fields of the task table and the static variables of
`scheduler.c`, the PendSV pending bit, the core's event register, and where the
host thread and an interrupt handler are.  Interrupt priorities decide the steps:
SVC and SysTick (0) cannot be preempted, so each is one action; USB and USART1
(0x80) can be preempted by SysTick once they restored PRIMASK, so
`scheduler_event_signal()` is `SignalPublish` and `SignalFinish`; PendSV (0xFF) can
be preempted between its choice and its switch (`PendSVSelect`, `PendSVSwitch`).
The host loop of `scheduler_start_mode()` is cut at its masked sections.  Event
masks are sets of bits.  The clock is `0..2*HalfRange-1` and wraps.  `remaining`,
`fault` and `runEvents` are history variables for the properties.

Left out: stacks and saved frames, except for the r0 word through which a call
returns (the checks on frames are one nondeterministic fault), the statistics
counters, and arguments refused before anything changes (`scheduler_wait_events(0)`
and the like).

### Bootloader

Flash is explicit: two metadata pages (header, tag, marker, each of which may be
erased, right or torn) and an application region of chunks.  A request handler is
cut at every flash operation; `step` is the next one; `PowerLoss` may come at any
time and leaves the cell or page under the operation in one of the states it can
leave it in, and each operation can also report failure.  A header is its version
and its image, since the digest is taken to be injective, and the set `Signed`
stands for the HMAC and the target check.  The bulk endpoint is modelled as far as
it decides when a request is accepted and an answer completes.

### Asset store and transfer

A slot is metadata, payload, header CRC and marker.  A call is cut at its flash
operations as in the bootloader.  `Crc` is an arbitrary function, so collisions
happen; the compare mode, its fall-back with the copied prefix, and odd bytes that
wait for their other half are modelled.  `AssetPersistence!Spec` lets the caller do
anything at any time; `AssetTransfer` is the real caller, with a host that sends any
request at any time.  Time is abstracted: the 30 s timeout may strike between any
two requests.  `sent`, `promised` and `doubt` are history variables.

`AssetRegister` is the promise: a value and a shadow (what a reset would bring up).
A store changes both, a store in doubt only the shadow.  `ImplementsRegister` maps
the value to the active record and the shadow to `BootRecord(slots)`.

### USB management

`rx` and `tx` are the rings with their free-running indices, `ep` the IN endpoint with
its packet memory.  The interrupt handler is one action per event (`HandleOut`,
`HandleIn`, `Configure`, bus reset).  The console task's service is cut at every
unmasked access to the rings: `pc` walks through the bus-reset check, the parser loop,
`Handle` (dispatch of an RPC, asset or ENTER request), copying, `Publish` (the single
head update) and the kick of the endpoint, with its locals in `loc`.  A request is
identified bytes, so a torn or repeated byte is visible.  The delayed reset of
ENTER_BOOTLOADER has the packet counter's base line and a fallback in ticks.

A bus reset or a configuration may clear the rings between any two of these accesses.
Where the task then writes an index or a length that it read before, the ring is in
disorder (deviation 5); `torn` remembers that, ring by ring, until a reset at another
moment clears it, and `~torn` is the condition in the properties about what the rings
carry.  The types of the indices, and `EnterResets`, are unconditional.

### USB control transfers

`dev` is `usb_ep0_*` with pending address and configuration, `hw` the endpoint register
with both completion flags.  The host starts any request in any stage of the one
before, and data is offsets into a descriptor.  The host may go on before the interrupt is
served.  Two things follow.  It may send its status packet while the last completion is
pending: the device stalls a transfer that is over for the host, which harms nothing.  And
its next SETUP may overtake a completion, which then hits the new transfer (deviation 8);
`host.overtook` and `acked.doubt` remember that, and are the conditions in the properties.
The step of the interrupt handler is atomic: the endpoint register is written back with its
flags as read (usb_device.c:422-479), and what a completion between that read and write
would do is below this model.

### Frames and RPC

`BinaryFrame` is the parser as a function of its state and a byte, one operator per
parser state, with the code's CRC division bit by bit.  The exclusive or is the constant
`BitXor`, of which the module assumes only that it stays in the register's width;
`MCBinaryFrame` gives it the value of `Bitwise`, with bytes of three bits and a header of
three bytes: small enough that noise of four bytes reaches every state and collides with
magic bytes, lengths and checksums.  The stream carries whole frames, cut frames and
noise.  (Their specifications are named `FrameSpec` and `RpcSpec`, so that one module of
proofs can extend both.)  `BinaryRpc` takes a frame as delivered: the checks in the code's order, the
decoding of arguments over the payload's bytes, the method as any writer of bytes, the
chunking, and RPC_END; every send is accepted or refused freely, because the ring is
drained meanwhile.  `wdogtrip` is the method that never returns.

### Application runtime and desktop

Every call of the runtime is one step of the console task; what a callback returns is a
choice.  `MayFail` says which callbacks may fail: all of them in `application_runtime`
(what the runtime owes to any descriptor), none in `desktop_ui` (the two applications
the firmware registers).  `DesktopUi` adds `boot_desktop_ui_render()` in full: the
service snapshot, the bridge, what is composed, the presentation of dirty spans page by
page, and the panel.  The picture is a grid of cells that name what was drawn; a
transfer may fail at any page, with part of it sent.  `owner`, `answer`, `fullRev` and
`leftOff` are history.

### Production tasks

`kernel_main` is a list of stages that may fail; the two tasks run under the
cooperative scheduler, whose waits, latched events and timeouts are restated here
in the few lines that the two tasks use.  Interrupts come between any two steps, a bus
reset that empties the management ring among them.  The console has two drain loops: one
byte of the text console is a step (line buffer, overflow, backspace, dispatch), and so is
one piece of input of `usb_management_runtime_service()`, which may complete any request;
what a request does to rings and frames is in `UsbManagement` and `BinaryRpc`.  The reload
and the user interface come after both loops, in `ConsoleServices`.

A command of either transport may block the console task: `schedtimed` is a safe method
that sleeps and waits for the event of its own transport under the running scheduler
(scheduler_diagnostics.c:1214).  `ConsoleTimed` is its calls one by one; while it lasts
(`timed`) input waits and events are discarded, and the heartbeat may run.  Every other
method of the build ends without blocking, or parks the task (`wdogtrip`), or refuses
because the scheduler runs.

A tick is one poll period, 250 ms, and a timeout shorter than it (50 ms in `schedtimed`)
is rounded up to one; a task that can run takes at least one step per tick, which ties the
watchdog's time to the program's.  `wire`, `ran`, `stepped` and `handled` are history.

### Node link

The handlers are functions of an end's state and a frame.  `NodeLinkAnyOrder` keeps
every frame ever sent and delivers any of them at any time: loss, repetition, delay and
reordering without bound.  A restart of the node forgets everything; a new HELLO takes
a fresh challenge, as the controller's owner must choose it.

## 3. Runs

| run | shows | bounds, and why they are enough |
|---|---|---|
| `scheduler_safety` | wake-ups, switches, deadlines, events and the end of a run are right | two tasks, two priorities (equal and unequal), one event bit, timeouts 0..2 on a clock of 6: wrap, ties, preemption and repeated runs happen |
| `scheduler_live` | a parked host wakes up; the preemptive mode shares the CPU | two tasks from a prepared table, clock of 4 |
| `bootloader` | no rollback, durable commit, hash = flash, one request at a time | five signed headers of 1 to 3 chunks with shared prefixes, two of one version and one image under two versions, one with bad vectors, one header nobody signed; pages of two chunks |
| `asset_transfer` | record intact, acknowledged = stored, the store implements the register | two transfer ids, four-byte payloads, chunks of one and three bytes, colliding CRC, two generations: each slot is written and the wear limit is reached |
| `usb_management` | requests and answers whole and in order; every answer is sent; ENTER resets | three requests, asset or ENTER, an RX ring of one request and a TX ring of two answers, packets that cut an answer, two resets or configurations at any moment (three requests do not bring an index to the end of its range, 8: wrapping is the theorem's) |
| `usb_control` | right data and an end for each transfer that overtook no completion, right address and configuration unless a SETUP overtook a status stage or was itself one that sets them | descriptors around one and two packets, four transfers: one overtaken, one that overtakes, and those after |
| `binary_frame` | only what was sent, all that starts aligned, bounded loss | four frames, four noise bytes |
| `binary_rpc` | exactly proper calls run; honest answers | two requests; all argument parts of up to three bytes over {0, 1, 2} and up to five over {1, 2}; two chunks of output |
| `application_runtime` | life cycle, view, lasting failures | two applications, every callback may fail at every call, counters saturate at 2 |
| `desktop_ui` | records and screen are true, the minute never goes back, the panel catches up | two upsets (failed transfer, also of a diagnostic, diagnostic, layout, USB change, task failure) in any combination, three layouts of which one has two rows, minutes that saturate at 2 and wrap at 3 |
| `production_tasks` | no sleep over input outside of `schedtimed`, commands as sent, resets only out of dead ends or by more input than the period has room for, and out of each dead end | serial ring of two, lines of two, four bytes, one USB packet; a method that blocks and one that parks, over both transports; a watchdog of 13 ticks, which one byte or piece is enough to flood, so that both kinds of reset happen |
| `node_link` | replies match, jobs run once, requests end | two sessions, three jobs (one too long, two of equal length), three sequence numbers |

Bounds are constants of the configurations; none is hidden in an action.  Deadlock is
checked except in `usb_control`, `binary_frame`, `binary_rpc` and `node_link`, whose
behaviours end when the bounded number of transfers, bytes, requests or challenges is
used up and nothing is left to do.  The alphabet of `production_tasks` has no
backspace, to keep the run short; what a backspace does to a command is part of the
theorem `ConsoleRunsWhatArrived`.

Fairness.
- `Scheduler!Fairness`: SysTick is periodic and handlers finish (weak); PendSV and the
  host loop run below interrupts that arrive at a bounded rate, so they get cycles again
  and again (strong); nothing is assumed of tasks, so a task may spin for ever.
- `UsbManagement!Fairness`: the console task calls the service at least every 250 ms,
  interrupts are served, SysTick counts, the host finishes what it sends and reads what
  is offered.  `UsbControl!Fairness`: the interrupt is served and the host goes on with
  a transfer that it has begun.
- `DesktopUi!UiLiveSpec`: the console task's loop serves the user interface again and
  again with time passing.  `PanelCatchesUp` is about behaviours whose upsets end, which
  the bound on upsets makes all of them.
- `ProductionTasks!LiveSpec`: the processor runs what is ready, clocks tick, an expired
  watchdog resets.  Nothing is assumed of the host.  That the heartbeat beats for ever is
  no property: the scheduler is cooperative, and a console whose events keep coming latched
  never gives the processor away (scheduler.c:836).  It reloads the watchdog itself then.
- `NodeLinkAnyOrder!LiveSpec`: the owner of the controller calls its timeout; nothing is
  assumed of line and node.

### Deviations met while modelling

Where the code does not do what a document or a comment of the repository says, the
properties above are stated with the condition under which they hold, and the deviation
has a definition or a constant of its own.  Each of these was a TLC counterexample:
checking the definition named in the configuration of the run, with the constant
changed where one is named, gives the trace.

1. `Scheduler!LatchedInThisRun`: `scheduler_start_mode()` (scheduler.c:1160) resets the
   counters but not `scheduler_pending_events`; a start without `scheduler_init()` sees
   events of the run before.  scheduler.c:1363: "Bits with no current waiter remain
   latched for a future wait in this scheduler run."  Every caller initialises.
2. `Bootloader!RetryRestartsFromBegin`: after USB loss in the middle of an update,
   `handle_begin()` (bootloader.c:1007) answers ST_INVALID_STATE until a reset.
   FIRMWARE_UPDATE_BOOTLOADER_FOUNDATION_PLAN.md:460: "Retry always restarts from BEGIN
   and reprograms the complete application".
3. `Bootloader!CommittedThenReset`, under `Bootloader!FairSpec`: `bulk_enable()`
   (bootloader.c:811) leaves `usb_tx_active` set; a SET_CONFIGURATION while the answer to
   END is outstanding drops the packet, and the reset that waits for its completion never
   comes.  The same plan, line 458: "11. reset/handoff through the normal boot decision."
4. `AssetTransfer!AcknowledgedAlwaysSurvives`: a commit whose marker reported a failure
   although it was written (asset_persistence.c:699) leaves the old object in use; sent
   again it is acknowledged as unchanged, and the next reset brings up the other one.
   ASSET_CONFIGURATION_PERSISTENCE_V1.md:295: a failure "leaves old committed record
   unchanged", line 300: "A commit-marker write/readback failure is treated the same way."
5. `UsbManagement!AnswersIntact` without `~torn.tx`, `RequestsIntact` without `~torn.rx`:
   `usb_management_write_span_atomic()` (usb_device.c:1561) publishes a head computed
   from values read before a bus reset cleared the ring, `usb_management_tx_kick()` marks
   a packet in flight of which the ring knows nothing, and `usb_management_try_getc()`
   sets a tail beyond the head, after which the service reads old bytes all around.
   usb_device.c:1548: "USB IRQ may
   drain older bytes but cannot observe a partial newly enqueued frame."
6. `UsbManagement!AnswerBeforeReset`: the base line of the packet counter is read before
   the answer is queued (usb_management.c:174), so an earlier packet's completion lets the
   reset come before the answer.  FIRMWARE_UPDATE_BOOTLOADER_PROTOCOL_V1.md:134: "returns
   an OK/RESETTING response, then performs a bounded delayed `SYSRESETREQ`."
7. `UsbManagement!SessionOfThisConfiguration`, with `MaxResets = 3`: deconfiguration is sampled when the
   service runs (usb_management.c:259); configuration 0 and 1 between two services go
   unnoticed.  ASSET_CONFIGURATION_TRANSFER_PROTOCOL_V1.md:439: on deconfiguration "the
   target abandons the volatile session."
8. `UsbControl!AcknowledgedApplied`, `DataCorrect` and `TransferEnds` without
   `~acked.doubt` and `~host.overtook`: when a completion and the next SETUP are pending
   together, the SETUP is handled first (usb_device.c:1314) and the completion then applied
   to the transfer it began (usb_device.c:1321).  An address or a configuration that was
   acknowledged is dropped, or a new one takes effect before its status stage; the first
   packet of a data stage is overwritten by the second; a data stage of one packet, and a
   status stage, are taken for finished, and the host waits for a packet that never comes
   until it gives up.  usb_device.c:1310: "SETUP has transaction-reset semantics and takes
   precedence over a stale TX completion from the previous control transfer."
9. `BinaryRpc!EndsWithRpcEnd`: RPC_END is tried once (binary_rpc.c:485).
   BINARY_FRAMED_TRANSPORT_PROTOCOL.md:227: "A returning RPC request ends with exactly one
   `RPC_END` frame."
10. `DesktopUi!UiRuntimeRestores` with `scr.on` instead of `leftOff \/ scr.on`: a diagnostic
    that fails after `ssd1306_init()` leaves the panel off with
    `boot_desktop_ui_panel_initialized` set, so that no later call turns it on, and
    uiruntime answers OK over a dark panel (kernel.c:1164).  BOOT_DESKTOP_UI_PLAN.md:237: "`uiruntime` restores the current
    runtime UI state".
11. `DesktopUi!ShownIsTrue` without `fullRev = layout.revision`: an activated layout passes the
    early return (kernel.c:1301), but nothing is recomposed and its revision is recorded
    as shown.  OLED_UI_LAYOUT_CONFIG_V1_CONSUMER.md:129: "accept whole consumer object ->
    apply console clip".
12. `DesktopUi!PanelCatchesUp` reduced to `[](owner # "diagnostic") => <>[]ui.valid`: with
    an active layout of two rows or one (`ShortConsole`; a console height of 6 to 19 is
    accepted) rendering fails for ever.  A call that had initialised the panel leaves it
    off, also when a layout of three rows comes back (kernel.c:1232).  The same document, line 117:
    "`console_height >= 6` so at least one current 6-pixel console glyph can render;"
13. `ProductionTasks!ResetsOnlyDeadEnds` without `Flooded`: both drain loops of the console
    run as long as input comes (kernel.c:2392, usb_management.c:265), the reload comes after
    them (kernel.c:2425), and the heartbeat of lower priority does not run meanwhile, so that
    a host that keeps sending has a system reset that works.
    IWDG_LIVENESS_FOUNDATION_PLAN.md:132: "continued healthy production Thread/PSP progress
    keeps the watchdog alive."
14. `ProductionTasks!OverlongRejected`, with `MaxBytes = 5`: after an overflow the rest of the same line is
    collected as a new line and executed (kernel.c:2382).
    SHELL_RPC_FOUNDATION_ACCEPTANCE_PLAN.md:135: "line overflow is rejected and parser
    recovers for the next valid command".

## 4. Proofs

`SchedulerProofs` proves, for every number of tasks, event bits and priorities and
every clock range (assumption `SchedulerAssumption`: the sizes are positive and
timeouts are below half the range):

- `TypeOK`, `SwitchTargetsReady`, `NoLostWakeUp`, `BlockedCanWake` and
  `HighestPriorityRuns` always hold, hence `WakeUpsHold` and `SwitchesHold`;
- `RunEnds`: a run ends when, and only when, all tasks that were started have completed;
- the action properties `EventsNotDropped` and `DeadlinesHold`.

The inductive invariant is `TypeOK /\ SwitchTargetsReady /\ WaitInv /\ DispatchDue`.
`SwitchTargetsReady` is needed by everything else, because a call acts on
`state[current]`.  `HighestPriorityRuns` is not inductive: it speaks only of the
moments when thread code executes.  `DispatchDue` extends it to the others: a better
READY task exists only while PendSV is pending, a handler is about to pend it, or a
dispatch has already chosen it.  `SelectNextReadyChooses` shows that the selection
always finds a minimum; it rests on the well-foundedness of the naturals.  `RunEnds`
has an invariant of its own on top, `RunInv`, which ties the count of completed tasks to
the number of DONE entries.  `DeadlinesHold` needs no further invariant but arithmetic:
`OneTickOn` says how a signed difference on the wrapping clock changes with one tick.

`BootloaderProofs` proves, for every set of signed headers and bootable images and every
region and page size: `OnlyFloorBoots`, `ProtocolHolds` and `CommittedHolds` always, and
the action property `FloorHolds`.  None of them is inductive.  The argument is about the
target slot: from the erase that AUTHORIZE_HEADER starts until the commit marker it holds
no authenticated record and the other slot holds the floor (`AuthorizeInv`,
`ReceivingInv`), so that while the application region is rewritten at most one record can
boot, and it carries the floor.  The marker is programmed only after the chunks in flash
were compared with the header's image (`MetadataInv`), so the record it completes boots.

The first part of `AssetTransferProofs` is about the store under its most general caller
(`AssetPersistence`).  It proves, for every even payload length, every checksum function
(collisions included), every set of valid payloads and write chunks, and every wear limit
(assumption `AssetAssumption`):

- `TypeOK`, `ActiveRecordIntact`, `NoAmbiguity` and `WornOutIsReadOnly` always hold,
  hence `StoreHolds`;
- the action property `ActiveOnlyAdvances`;
- `ImplementsRegister`: every step of the store is a step of `AssetRegister` or a stutter.

The inductive invariant is
`TypeOK /\ SlotsInv /\ CandInv /\ StepInv /\ Unmarked /\ LengthInv`.
`ActiveRecordIntact` and `NoAmbiguity` are not inductive: they do not say what the
slot an operation is working on may contain.  `StepInv` says that an operation works
on the other slot, or on none, with one exception: a begin refused for wear leaves
the committed candidate open, and a commit then tries its header CRC in the slot in
use, where the driver refuses it because the cell is not erased.
`CandInv` and `Unmarked` say that what gets committed in the other slot carries the
generation after the one in use, and that nothing is committed before its marker.
`TornContent` draws the conclusion for every operation, complete or torn, and
`BootRecordAdvances` for the boot selection that follows a reset.  `LengthInv` keeps
the payload loop inside the record.  For the refinement each operation is mapped to what
it does to the record in use and to the record that a reset would bring up; only the
marker and the boot selection change either, and `BootRecordAdvances` and `TornContent`
say to what.

Its second part is about `AssetTransfer`.  It proves, for any transfer ids besides,
`SessionMatchesCandidate` and `AcknowledgementsHold`.  `TransferUsesStore` shows that the
session is one of the callers the store allows, so that `StoreHolds` and `ImplementsRegister` are inherited.  The heart
of the rest is `Holds`: the candidate holds exactly the bytes given to it, which are the
acknowledged ones and those of the running write, in one of three forms: equal bytes of
the record in use, programmed halfwords, or an odd byte that waits.  `PromiseInv` carries
the acknowledged object through later sessions up to the next marker.

The first part of `UsbManagementProofs` proves `RingsIntact` for every ring capacity, index range, packet
size and length of requests and answers, with resets at any moment.  `Carries` says that the bytes of a ring from
tail to head are those of a log; three lemmas (`CarriesFill`, `CarriesPublish`,
`CarriesConsume`) hold the arithmetic of the two moduli.  `TxInv` and `RxInv` say who may
move which index when: between its look at the head and the publication the task is the
only one to move it, and a completion is pending only while a packet is in flight.  They
hold of a ring that the last reset did not tear, and a reset outside a stretch that tears
a ring establishes them, wherever else in the service it finds the task.

Its second part proves `DeliversWhatWasSent` and `ParserBounded` of `BinaryFrame`, for every
width of bytes, header, magic, payload limit, generator and exclusive or
(`FrameAssumption`), and every stream of whole frames, cut frames and noise.  The code's
loops are recursive functions in the model, and what holds after each iteration is shown
from the least iteration that could fail (`NaturalInduction`, on `WFMin` of the library).
`FrameInv` has three parts.  `Taken`: what the parser holds of a frame is the end of the
stream, and its register is the CRC of those bytes.  `FollowsEncoding`: a frame that begins
while the parser waits for the magic is matched byte by byte to its last.  `LossInv`: a
false start and the frames it swallows fit in the longest frame.  Neither property is
inductive without them, because both speak only of the moment a frame ends.

Its third part proves `RunsExactlyProperCalls` and `AnswersAreHonest` of `BinaryRpc`, for
every registry, chunk size, output and limit on arguments (`RpcAssumption`) and every
payload of octets.  The decoder is shown to invert the encoding of a call, loop against
loop, argument by argument (`DecodedCall`, `EncodedCallDecodes`).  `RpcInv` adds `Counted`:
at every point of an exchange the counters are those of the frames the ring accepted, and
a refused frame is remembered, so that RPC_END cannot say OK over a hole.

`UsbControlProofs` proves `DataStageHolds` and `AcknowledgedApplied` for every packet
size, all lengths of descriptors and requests and every set of addresses, for a host that
may be ahead of the interrupt by any number of steps.  `OrderInv` follows a transfer stage by
stage; `OvertakenInv` is what is left when a SETUP overtook a completion: as long as there
is no doubt nothing is pending, so the stray completion changes neither address nor
configuration, and the next SETUP that finds nothing unserved is back in `OrderInv`.
`DataInv` holds the arithmetic: what the
host has got is whole packets as long as more is to come, and the zero-length packet is
owed exactly when everything went out in full packets and more was asked for.

The first part of `DesktopUiProofs` proves `Lifecycle`, `ViewIsCurrent` and the action property
`FailuresLast` for every finite registry, every set of callbacks that may fail and every
text they render, and `ToldWhatBridgeKnows` when rendering cannot fail.  Calls nest (a
start stops the owner, starts the target, falls back to the home application, renders),
so each operator has one lemma: it keeps a runtime `Sound`, and the runtime `Grows`.
`Grows` is transitive, and the lemmas chain along the nesting.  `Backed`, that without an
owner the home application has failed, is broken inside a call and restored by its end.
This part uses none of the assumptions that `DesktopUi` makes besides those of the runtime.

Its second part proves about `DesktopUi`, for every registry, saturation limit, wrap of the
uptime and set of layouts that `oled_ui_layout_config_v1_validate` accepts, and with
transfers of the user interface failing anywhere:

- the action property `MinuteNeverBack`;
- `RecordsAreTrue`, when rendering cannot fail, as in the firmware as it is built
  (only its part `ToldWhatBridgeKnows` needs that);
- `ScreenIsTrue`, with transfers of diagnostics failing anywhere too and layouts of any
  height: the picture without condition on what failed before, the lit display unless a
  call that had initialised the panel stopped before it turned the display on
  (deviations 10 and 12 show why).

`MinuteNeverBack` needs `InStep`: until the display sticks, the minute is the uptime that was
last read, and the uptime is at most one ahead of it, so that it cannot wrap unnoticed.
`RecordsAreTrue` chains one lemma per drawing and sending operator; `CleanSent` is what each
keeps, and what marking everything establishes.  `ScreenIsTrue` is not inductive: `ScreenInv`
adds that a panel taken for initialised is on or was left off, that the last full composition
is not of a layout yet to come, and that status bar, console and framebuffer
together show the last snapshot (`Composed`).  A composition of everything reaches `Composed`
from any screen; one of changes only keeps it because a view that is not dirty is the one on
the screen, which is `DirtyUntilShown` of the runtime, and because a composition that kept a
row of the console back is never presented.

`ProductionTasksProofs` proves `ConsoleStaysAwake` for all sizes of the ring and the line,
all periods, every registry of methods, every set of boot stages that may fail and a host
that never stops sending (`MaxBytes` and `MaxUsb` negative included).  The console does sleep
over input while `schedtimed` runs, and the property says so; what it proves is that this
ends there: the waits, which discard the event of their own transport, leave nothing behind
that the loop's own wait would sleep over.  `NoSleepOnInput` is not
inductive: `InputInv` adds what an interrupt after a look leaves behind, that is, input that
came in since the console looked has its event latched, so the wait takes the event instead
of blocking.  A `schedtimed` over USB leaves the serial event latched, and one over the
serial line is followed by a look at both rings.  `TaskInv` says where each task can be
blocked and on what, so that the result it wakes with is one it does not take for a fault.

For the same constants its second part proves `RunsWhatArrived`.  The property recomputes
from the wire what its lines mean; the code works byte by byte.  `ReadInv` joins the two:
the ring is the end of the wire (`EndsWith`), and the line buffer and what was run are the
edits and the meanings of what was read before it (`Follows`).  `EditedStep`, `LineStep` and
`MeaningStep` say what one more byte does to each.  A line that overflows ends the
obligation, as in the property (deviation 14).

Its third part proves the action property `ResetsOnlyDeadEnds`, with no further assumption
and for a host that never stops.  What nothing in the code bounds is how much input the two
drain loops take between two reloads (deviation 13), so the property counts it (`handled`):
a reset of a system that is no dead end has taken at least `WatchdogTicks` less `BeatTicks`
less `RoundSteps` bytes and pieces since the last reload.  In the build (kernel.c:40-50) the
period is 1250 cycles of the LSI clock over 256, nominally 8 s or 32 ticks, and the
heartbeat sleeps for two, so that it takes 19 bytes or pieces that each last as long as a
tick.  `RoundSteps`, 11, is the longest way of the loop from a reload to the place where the
heartbeat gets the processor, a `schedtimed` included; with 10 the property is false.
`PeriodInv` is the account behind it: `Needs` is, for each place where the two tasks can be,
the ticks that may pass before the heartbeat reloads if no more input is taken, and the
watchdog has them left, less one for each byte and piece.  A step of the console takes one
from `Needs` or gives the processor to a heartbeat that is ready (`StepNeeds`); a tick takes
one from the heartbeat's sleep or the spare one of a step (`TickNeeds`).

`NodeLinkProofs` proves, for any sets of sessions and jobs, any checksum function and
any last sequence number (assumption `LinkAssumption`: zero is no session, lengths and
limits are numbers):

- `AcceptedMatches` always holds: a reply is accepted only for the outstanding request;
- `JobsAreDistinct` and `TypeOK`, together `WorkerHolds`: no job request runs twice in a
  session, and the node is never ahead of the controller in a common session.

The inductive invariant `LinkInv` is `ControllerInv`, `RequestsInv`, `RepliesInv`,
`NodeInv`, `RanInv` and `AcceptedMatches`.  The heart is `RequestsInv`: a session and a
sequence number name one request.  It needs fresh challenges, which the specification
takes from the controller's owner; with it, matching session and sequence in
`dnl_controller_receive` is matching the request.  `RanInv` bounds the sequence numbers
that ran by the node's highest one, so that an executed request is always new.
`OrderInv`, inductive relative to `LinkInv`, orders the two ends.

Only model-checked:

- liveness under fairness, which is out of the prover's reach, as is ENABLED: `IdleWakesUp`
  and `PreemptiveShare` of the scheduler, `AnswersDrain`, `EnterResets`, `TransferEnds`,
  `PanelCatchesUp`, `DeadEndsReset` and `PendingEnds`.

Every invariant and every action property of the runs is stated by a theorem.  None depends
on which errors a CRC detects: noise that spells a valid frame may pass, and
`DeliversWhatWasSent` names that case.

## 5. Not modelled

- The host library, its transports, applications and recovery routes (C# over the .NET
  task scheduler and native USB libraries).  The device models take the most general
  host instead: one that sends, repeats, reorders and abandons requests at will.
- The self tests of `scheduler_diagnostics.c` that start the scheduler with tasks of their
  own; `Scheduler`'s set-up actions include what they set up, and under the production
  scheduler they answer SCHED_DIAG_BUSY.  `schedtimed`, which does run there, is in
  `ProductionTasks`; what it prints is not.
- In `ProductionTasks`: the reset into the bootloader and the torn ring of a bus reset inside
  the service, which are in `UsbManagement`.
- READ_CHUNK and STATUS of the asset transfer, which change nothing.
- `dnl_stream_feed()` of the node link: bytes to frames.  A damaged frame is a lost one.
- USB descriptors, enumeration timing, power-up; the I2C and clock register sequences;
  pixels, glyphs and fonts; what commands print; build and flashing scripts.

Next in line: the host's update client composed with ENTER_BOOTLOADER and `Bootloader`;
the asset transfer client composed with `AssetTransfer`; the node link's stream parser
composed with `NodeLinkAnyOrder`; an abstract version register for the bootloader.
