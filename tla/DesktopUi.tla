------------------------------ MODULE DesktopUi ------------------------------
(***************************************************************************)
(* The desktop user interface of the console task (boot_desktop_ui_* of     *)
(* src/kernel.c) over the framebuffer with its dirty spans (gfx/mono_fb.c), *)
(* the retained console and status bar (kernel/oled_console.c,              *)
(* oled_status_bar.c), the layout (oled_ui_layout*.c), the panel behind the *)
(* I2C bus (drivers/ssd1306.c) and the service state                        *)
(* (kernel/system_service_state.c), composed with the application runtime.  *)
(* The OLED diagnostics share the framebuffer, the console and the panel.   *)
(*                                                                          *)
(* The picture is a grid of Pages x Cols cells.  Page 0 is the status bar   *)
(* (indicators, frame, time), the others are the console's rows; a cell's   *)
(* content names what was drawn there.  An I2C write may fail anywhere: the *)
(* panel then has any prefix of what was being sent.                        *)
(***************************************************************************)
EXTENDS ApplicationRuntime, Integers, FiniteSetsExt

CONSTANTS
    Layouts,        \* the console rectangles that can be activated; [y, x, rows, cols]
    DefaultLayout,
    Diagnostics,    \* the OLED diagnostics that are run
    Saturate, Wrap, \* minutes at which the display saturates, at which uptime wraps
    MaxUpsets       \* bound: failing transfers, diagnostics, layouts activated, USB
                    \* configuration changes and a task that stays away, in all

ASSUME UiAssumption ==
    /\ Saturate \in Nat \ {0} /\ Wrap \in Nat /\ Saturate < Wrap
    /\ 0 .. (Saturate - 1) \subseteq Minutes /\ {0, 1} \subseteq Flags
    /\ Callbacks # {}
    /\ Diagnostics \subseteq {"test", "text", "dirty", "console", "scroll", "update"}

(* oled_ui_layout_config_v1_validate: the console is below the status bar and  *)
(* inside the screen.                                                        *)
ASSUME LayoutAssumption ==
    /\ DefaultLayout \in Layouts
    /\ \A L \in Layouts : /\ L \in [y : 1 .. 3, x : 1 .. 3, rows : 1 .. 3, cols : 1 .. 3]
                          /\ L.y + L.rows <= 4 /\ L.x + L.cols <= 4

VARIABLES
    ui,       \* the boot_desktop_ui_* statics
    scr,      \* framebuffer, dirty spans, panel RAM, panel on, status bar, console
    svc,      \* system_service_state: displayed minute, health, usb, saturated
    layout,   \* active_layout and its revision
    env,      \* uptime, readiness, USB configuration, splash time elapsed, upsets so far
    owner,    \* history: who drew the whole framebuffer last, "ui" or a diagnostic
    answer,   \* history: the last user-interface call and its result
    fullRev,  \* history: the layout revision at the user interface's last full composition
    leftOff   \* history: the panel was initialised by a call that did not come to turn the
              \* display on, and nothing has turned it on since

uiVars == <<vars, ui, scr, svc, layout, env, owner, answer, fullRev, leftOff>>

Pages == 0 .. 3
Cols == 1 .. 3
Rows == 0 .. 2
Cells == Pages \X Cols
Empty == <<"empty">>
Junk == <<"junk">>

------------------------------------------------------------------------------
(* mono_fb: writing cells widens the dirty span of each page it changes.     *)

Span(columns) == IF columns = {} THEN {} ELSE Min(columns) .. Max(columns)

Changed(s, f, p) == {c \in Cols : <<p, c>> \in DOMAIN f /\ f[<<p, c>>] # s.fb[<<p, c>>]}

(* mono_fb_mark_page_x keeps one interval per page.                           *)
Mark(s, f, p) == Span(s.dirty[p] \union Changed(s, f, p))

Draw(s, f) ==
    [s EXCEPT !.fb = [k \in Cells |-> IF k \in DOMAIN f THEN f[k] ELSE s.fb[k]],
              !.dirty = [p \in Pages |-> Mark(s, f, p)]]

ClearFb(s) == Draw(s, [k \in Cells |-> Empty])
MarkAllDirty(s) == [s EXCEPT !.dirty = [p \in Pages |-> Cols]]

------------------------------------------------------------------------------
(* The status bar: indicators in column 1, frame in column 2, time in 3.     *)

Indicators(s) == <<"indicators", s.healthy, s.usb>>
Time(s) == <<"time", s.minute>>

StatusCell(c, snap) ==
    CASE c = 1 -> Indicators(snap) [] c = 2 -> <<"frame">> [] c = 3 -> Time(snap)

(* oled_status_bar_set_indicators and _set_time mark what changed.           *)
StatusSet(s, snap) ==
    [s EXCEPT !.status.value = snap,
              !.status.dirty = @ \union
                  {c \in {1, 3} : StatusCell(c, s.status.value) # StatusCell(c, snap)}]

StatusMarkAll(s) == [s EXCEPT !.status.dirty = Cols]

StatusRender(s) ==
    [Draw(s, [k \in {<<0, c>> : c \in s.status.dirty} |-> StatusCell(k[2], s.status.value)])
        EXCEPT !.status.dirty = {}]

------------------------------------------------------------------------------
(* The retained console: three physical rows, rotated by `first'.  A row is  *)
(* the text it belongs to and its row in it.                                 *)

ConsoleFilled(s, text, first) ==
    [s EXCEPT !.console = [rows |-> [r \in Rows |-> <<text, (r + 3 - first) % 3>>],
                           first |-> first, dirty |-> Rows]]

(* application_runtime_bridge_apply_view *)
ApplyView(s, text, force) ==
    [s EXCEPT !.console.rows = [r \in Rows |-> <<text, r>>],
              !.console.first = 0,
              !.console.dirty = @ \union IF force \/ s.console.first # 0 THEN Rows
                                         ELSE {r \in Rows : s.console.rows[r] # <<text, r>>}]

(* oled_console_render: dirty rows inside the clip are drawn and consumed.   *)
RowCell(s, L, k) == <<s.console.rows[(s.console.first + (k[1] - L.y)) % 3], k[2] - L.x>>

ConsoleRender(s, L) ==
    LET drawn == {r \in s.console.dirty : r < L.rows}
        cells == {<<L.y + r, L.x + c>> : r \in drawn, c \in 0 .. (L.cols - 1)}
    IN  [Draw(s, [k \in cells |-> RowCell(s, L, k)]) EXCEPT !.console.dirty = @ \ drawn]

------------------------------------------------------------------------------
(* The bus: io says which transfer of a call fails, if any; `torn' that the  *)
(* panel took the failing packet all the same, page and sent how far a       *)
(* presentation got.                                                         *)

BusOk == [stage |-> "none", torn |-> FALSE, page |-> 0, sent |-> 0]
BusFaults == [stage : {"init", "on"}, torn : BOOLEAN, page : {0}, sent : {0}]
             \union [stage : {"present"}, torn : {FALSE}, page : Pages, sent : {1}]
BusOutcomes == {BusOk} \union IF env.upsets < MaxUpsets THEN BusFaults ELSE {}

Done(s, ok) == [scr |-> s, ok |-> ok]

(* ssd1306_init begins with "display off".                                   *)
PanelInit(s, io) ==
    IF io.stage = "init" THEN Done([s EXCEPT !.on = @ /\ ~io.torn], FALSE)
    ELSE Done([s EXCEPT !.on = FALSE], TRUE)

DisplayOn(s, io) ==
    IF io.stage = "on" THEN Done([s EXCEPT !.on = @ \/ io.torn], FALSE)
    ELSE Done([s EXCEPT !.on = TRUE], TRUE)

Sent(s, cells) == [s EXCEPT !.panel = [k \in Cells |-> IF k \in cells THEN s.fb[k] ELSE s.panel[k]]]

SpanCells(s, pages) == {k \in Cells : k[1] \in pages /\ k[2] \in s.dirty[k[1]]}

(* Faulty variant: the page whose transfer failed is cleaned too. *)
CleanEarly(s, complete, failing) ==
    [s EXCEPT !.dirty = [p \in Pages |-> IF p \in complete \union {failing} THEN {} ELSE @[p]]]

(* ssd1306_present sends the dirty span of one page after the other, and     *)
(* cleans a page when all of it was transferred.                             *)
Clean(s, complete, failing) ==
    [s EXCEPT !.dirty = [p \in Pages |-> IF p \in complete THEN {} ELSE @[p]]]

Present(s, io) ==
    LET pages == {p \in Pages : s.dirty[p] # {}}
        before == {p \in pages : p < io.page}
        partial == {<<io.page, c>> : c \in {c \in s.dirty[io.page] :
                                              c < Min(s.dirty[io.page]) + io.sent}}
    IN  IF io.stage = "present" /\ io.page \in pages
          THEN Done(Clean(Sent(s, SpanCells(s, before) \union partial), before, io.page), FALSE)
          ELSE Done(Clean(Sent(s, SpanCells(s, pages)), pages, -1), TRUE)

(* ssd1306_present_full sends everything and leaves the dirty spans alone.   *)
PresentFull(s, io) ==
    IF io.stage = "present"
      THEN Done(Sent(s, {k \in Cells : k[1] < io.page \/ (k[1] = io.page /\ k[2] <= io.sent)}), FALSE)
      ELSE Done(Sent(s, Cells), TRUE)

------------------------------------------------------------------------------
(* system_service_state_update; the display sticks at its last minute once   *)
(* it has been reached, although the uptime counter wraps.                   *)

(* Faulty variant: saturation is not remembered over the wrap. *)
MinuteForgets(uptime, saturated) == IF uptime >= Saturate THEN Saturate - 1 ELSE uptime

Minute(uptime, saturated) ==
    IF saturated \/ uptime >= Saturate THEN Saturate - 1 ELSE uptime

Refreshed ==
    [minute |-> Minute(env.uptime, svc.saturated), healthy |-> env.ready,
     usb |-> env.usb, saturated |-> svc.saturated \/ env.uptime >= Saturate,
     at |-> env.uptime]

AppSnapshot(v) ==
    [k \in Kinds |-> CASE k = "minute" -> v.minute [] k = "healthy" -> v.healthy
                       [] k = "usb" -> v.usb [] OTHER -> 0]

UiSnapshot(phase, v) ==
    [phase |-> phase, minute |-> v.minute, healthy |-> v.healthy, usb |-> v.usb]

(* The callbacks of the registered applications.                             *)
BuiltIn == CHOOSE cb \in Callbacks : TRUE

(* boot_desktop_ui_update_state *)
Phase ==
    IF ui.phase = "SPLASH" /\ ui.splashVisible /\ env.ready = 1 /\ env.elapsed
      THEN "HOME" ELSE ui.phase

------------------------------------------------------------------------------
(* boot_desktop_ui_render.  What it composes into the framebuffer: all of it *)
(* when forced, when nothing valid is shown or on entering the home screen;  *)
(* otherwise what the status bar and the view say has changed.               *)

ComposeAll(force, snap) == ~ui.panel \/ force \/ ~ui.valid \/ snap.phase # ui.last.phase

ComposeStatus(s, snap, full) ==
    LET s1 == StatusSet(s, snap)
    IN  StatusRender(IF full THEN StatusMarkAll(MarkAllDirty(ClearFb(s1))) ELSE s1)

ComposeConsole(s, snap, full, r) ==
    IF snap.phase = "SPLASH" /\ full
      THEN ConsoleRender(ConsoleFilled(s, "splash", 0), layout.rect)
    ELSE IF snap.phase = "HOME" /\ (full \/ r.dirty)
      THEN ConsoleRender(ApplyView(s, r.view.app, full), layout.rect)
    ELSE s

ConsoleIncomplete(s, snap, full, r) ==
    (full \/ (snap.phase = "HOME" /\ r.dirty)) /\ s.console.dirty # {}

(* Faulty variant: the snapshot is still believed shown. *)
GiveUpKeepsValid(u) == [u EXCEPT !.panel = FALSE]

(* A failed presentation gives up the panel and what is believed shown.      *)
GiveUp(u) == [u EXCEPT !.panel = FALSE, !.valid = FALSE]

Shown(u, snap) ==
    [u EXCEPT !.valid = TRUE, !.last = snap, !.revision = layout.revision,
              !.splashVisible = @ \/ snap.phase = "SPLASH"]

Faulted(io) == env' = [env EXCEPT !.upsets = @ + IF io.stage = "none" THEN 0 ELSE 1]

Finish(call, io, s, newUi, ok) ==
    /\ scr' = s
    /\ ui' = newUi
    /\ answer' = [call |-> call, ok |-> ok]

(* boot_desktop_ui_application_service *)
Served ==
    IF Phase = "HOME"
      THEN BridgeService(rt, bridge, told, AppSnapshot(Refreshed), BuiltIn)
      ELSE [rt |-> rt, bridge |-> bridge, told |-> told, ok |-> TRUE]

(* Faulty variant: indicators are not compared. *)
NothingToDoThisMinute(force, snap, r) ==
    /\ ~force /\ ui.valid /\ ~r.dirty
    /\ ui.revision = layout.revision /\ snap.phase = ui.last.phase /\ snap.minute = ui.last.minute

NothingToDo(force, snap, r) ==
    /\ ~force /\ ui.valid /\ ~r.dirty
    /\ ui.revision = layout.revision /\ snap = ui.last

(* What follows the composition: the presentation, and the display turned on *)
(* when this call initialised the panel.                                     *)
Show(call, io, drawn, held, snap, r) ==
    \E sent \in {Present(drawn, io)} :
        \E lit \in {IF ui.panel THEN sent ELSE DisplayOn(sent.scr, io)} :
            \/ /\ sent.ok /\ lit.ok
               /\ io = BusOk
               /\ Finish(call, io, lit.scr, Shown(held, snap), TRUE)
               /\ shown' = IF snap.phase = "HOME" THEN r.view ELSE shown
               /\ rt' = [r EXCEPT !.dirty = @ /\ snap.phase # "HOME"]
               /\ leftOff' = (leftOff /\ ui.panel)
            \/ /\ ~(sent.ok /\ lit.ok)
               /\ Finish(call, io, IF sent.ok THEN lit.scr ELSE sent.scr, GiveUp(held), FALSE)
               /\ rt' = r
               /\ UNCHANGED <<shown, leftOff>>

Compose(call, io, opened, full, held, snap, r) ==
    \E drawn \in {ComposeConsole(ComposeStatus(opened, snap, full), snap, full, r)} :
        /\ owner' = IF full THEN "ui" ELSE owner
        /\ fullRev' = IF full THEN layout.revision ELSE fullRev
        /\ \/ /\ ConsoleIncomplete(drawn, snap, full, r)
              /\ io = BusOk
              /\ Finish(call, io, drawn, [held EXCEPT !.valid = FALSE], FALSE)
              /\ rt' = r
              /\ leftOff' = (leftOff \/ ~ui.panel)
              /\ UNCHANGED shown
           \/ /\ ~ConsoleIncomplete(drawn, snap, full, r)
              /\ Show(call, io, drawn, held, snap, r)

Render(call, force) ==
    \E app \in {Served}, snap \in {UiSnapshot(Phase, Refreshed)}, io \in BusOutcomes :
        /\ svc' = Refreshed
        /\ bridge' = app.bridge
        /\ told' = app.told
        /\ \/ /\ app.ok => NothingToDo(force, snap, app.rt)
              /\ io = BusOk
              /\ Finish(call, io, scr, [ui EXCEPT !.phase = Phase], app.ok)
              /\ rt' = app.rt
              /\ UNCHANGED <<shown, owner, fullRev, leftOff>>
           \/ /\ app.ok /\ ~NothingToDo(force, snap, app.rt)
              /\ \E opened \in {IF ui.panel THEN Done(scr, TRUE) ELSE PanelInit(scr, io)} :
                    \/ /\ ~opened.ok
                       /\ Finish(call, io, opened.scr, [ui EXCEPT !.phase = Phase], FALSE)
                       /\ rt' = app.rt
                       /\ UNCHANGED <<shown, owner, fullRev, leftOff>>
                    \/ /\ opened.ok
                       /\ Compose(call, io, opened.scr, ComposeAll(force, snap),
                                  [ui EXCEPT !.phase = Phase, !.panel = TRUE], snap, app.rt)
        /\ Faulted(io)
        /\ UNCHANGED <<layout, ret>>

UiService == Render("service", FALSE)
UiRuntime == Render("uiruntime", TRUE)

------------------------------------------------------------------------------
(* The OLED diagnostics.  Each initialises the panel, which turns it off,    *)
(* draws its own picture, and turns it on at the end; on a failing transfer  *)
(* all but the update proof return at once.                                  *)

DiagPicture(s, pages) == Draw(s, [k \in {k \in Cells : k[1] \in pages} |-> <<"diag">>])

DiagDrawn(s, d) ==
    CASE d = "test" -> s
      [] d = "text" -> DiagPicture(ClearFb(s), Pages)
      [] d = "dirty" -> DiagPicture(MarkAllDirty(ClearFb(s)), {0})
      [] d \in {"console", "update"} ->
           ConsoleRender(ConsoleFilled(DiagPicture(MarkAllDirty(ClearFb(s)), {0}), "diag", 0),
                         DefaultLayout)
      [] d = "scroll" ->
           ConsoleRender(ConsoleFilled(DiagPicture(MarkAllDirty(ClearFb(s)), {0}), "diag", 1),
                         DefaultLayout)

(* The checkerboard goes to the panel without the framebuffer.               *)
Checkerboard(s, io) ==
    LET reached == {k \in Cells : io.stage # "present" \/ k[1] < io.page}
    IN  Done([s EXCEPT !.panel = [k \in Cells |-> IF k \in reached THEN Junk ELSE s.panel[k]]],
             io.stage # "present")

DiagSent(s, d, io) ==
    CASE d = "test" -> Checkerboard(s, io)
      [] d = "text" -> PresentFull(s, io)
      [] OTHER -> Present(s, io)

Diagnostic ==
    /\ env.upsets < MaxUpsets
    /\ \E d \in Diagnostics, io \in BusOutcomes :
           LET opened == PanelInit(scr, io)
               sent == DiagSent(DiagDrawn(opened.scr, d), d, io)
               lit == DisplayOn(sent.scr, io)
           IN  /\ scr' = IF ~opened.ok THEN opened.scr
                         ELSE IF sent.ok \/ d = "update" THEN lit.scr
                         ELSE sent.scr
               /\ owner' = "diagnostic"
               /\ answer' = [call |-> "diagnostic", ok |-> opened.ok /\ sent.ok /\ lit.ok]
               /\ leftOff' = ~(opened.ok /\ sent.ok /\ lit.ok)
               /\ env' = [env EXCEPT !.upsets = @ + 1]
               /\ UNCHANGED <<vars, ui, svc, layout, fullRev>>

------------------------------------------------------------------------------
(* The commands that change the foreground application.                      *)

Unanswered == [call |-> "none", ok |-> TRUE]

AppCommand(s) ==
    /\ answer' = Unanswered
    /\ UNCHANGED <<bridge, ret, told, shown, ui, scr, layout, env, owner, fullRev, leftOff>>
    /\ \/ /\ ui.phase = "HOME"
          /\ svc' = Refreshed
          /\ rt' = s.rt
       \/ /\ ui.phase # "HOME"           \* APP_RUNTIME_BUSY
          /\ UNCHANGED <<rt, svc>>

UiAppStart == \E id \in Apps : AppCommand(Start(rt, id, BuiltIn))
UiAppStop == AppCommand(Stop(rt, BuiltIn))

(* Commit of a layout object: oled_ui_layout_config_v1_activate_validated.   *)
ActivateLayout ==
    \E L \in Layouts \ {layout.rect} :
        /\ env.upsets < MaxUpsets
        /\ layout' = [rect |-> L, revision |-> layout.revision + 1]
        /\ env' = [env EXCEPT !.upsets = @ + 1]
        /\ answer' = Unanswered
        /\ UNCHANGED <<vars, ui, scr, svc, owner, fullRev, leftOff>>

------------------------------------------------------------------------------
(* The world: time, the readiness of the tasks, the USB configuration.  The  *)
(* console task looks at the services several times a minute.                *)

Environment(e) ==
    /\ env' = e
    /\ answer' = Unanswered
    /\ UNCHANGED <<vars, ui, scr, svc, layout, owner, fullRev, leftOff>>

Tick == svc.at = env.uptime /\ Environment([env EXCEPT !.uptime = (@ + 1) % Wrap])
SplashElapses == ui.splashVisible /\ ~env.elapsed /\ Environment([env EXCEPT !.elapsed = TRUE])
TasksReady == env.ready = 0 /\ ~env.failed /\ Environment([env EXCEPT !.ready = 1])
TaskFails ==
    /\ env.upsets < MaxUpsets /\ ~env.failed
    /\ Environment([env EXCEPT !.ready = 0, !.failed = TRUE, !.upsets = @ + 1])
UsbChange ==
    /\ env.upsets < MaxUpsets
    /\ Environment([env EXCEPT !.usb = 1 - @, !.upsets = @ + 1])

UiInit ==
    /\ rt = Initialized(Reset, {})
    /\ bridge = [last |-> NoSnapshot, valid |-> FALSE, readySent |-> FALSE]
    /\ ret = [call |-> None, id |-> None, ok |-> TRUE]
    /\ told = NoSnapshot
    /\ shown = Blank
    /\ svc = [minute |-> 0, healthy |-> 0, usb |-> 0, saturated |-> FALSE, at |-> 0]
    /\ ui = [phase |-> "SPLASH", valid |-> FALSE, panel |-> FALSE, splashVisible |-> FALSE,
             last |-> UiSnapshot("SPLASH", svc), revision |-> 0]
    /\ scr = [fb |-> [k \in Cells |-> Empty], dirty |-> [p \in Pages |-> {}],
              panel |-> [k \in Cells |-> Junk], on |-> FALSE,
              status |-> [value |-> UiSnapshot("SPLASH", svc), dirty |-> Cols],
              console |-> [rows |-> [r \in Rows |-> <<"none", r>>], first |-> 0, dirty |-> Rows]]
    /\ layout = [rect |-> DefaultLayout, revision |-> 0]
    /\ env = [uptime |-> 0, ready |-> 0, usb |-> 0, elapsed |-> FALSE, failed |-> FALSE,
              upsets |-> 0]
    /\ owner = "none"
    /\ answer = Unanswered
    /\ fullRev = 0
    /\ leftOff = FALSE

UiNext ==
    \/ UiService \/ UiRuntime \/ Diagnostic \/ UiAppStart \/ UiAppStop \/ ActivateLayout
    \/ Tick \/ SplashElapses \/ TasksReady \/ TaskFails \/ UsbChange

UiSpec == UiInit /\ [][UiNext]_uiVars

(* The console task's loop calls boot_desktop_ui_service at least every      *)
(* BOOT_DESKTOP_UI_POLL_MS, whatever it did the time before.                 *)
UiLiveSpec == UiSpec /\ []<><<UiService>>_uiVars

------------------------------------------------------------------------------
(* Properties.                                                               *)

InConsole(k, L) == k[1] \in L.y .. (L.y + L.rows - 1) /\ k[2] \in L.x .. (L.x + L.cols - 1)

(* The screen a snapshot and a layout call for.                              *)
Picture(snap, L) ==
    [k \in Cells |->
        IF k[1] = 0 THEN StatusCell(k[2], snap)
        ELSE IF InConsole(k, L)
        THEN <<<<IF snap.phase = "SPLASH" THEN "splash" ELSE shown.app, k[1] - L.y>>, k[2] - L.x>>
        ELSE Empty]

OnScreen(snap) == scr.on /\ scr.panel = Picture(snap, layout.rect)

(* The statics keep their shape: spans are intervals inside the screen, the   *)
(* displayed minute below its limit.                                          *)
UiTypeOK ==
    /\ ui.phase \in {"SPLASH", "HOME"}
    /\ \A p \in Pages : scr.dirty[p] \subseteq Cols /\ scr.dirty[p] = Span(scr.dirty[p])
    /\ scr.console.dirty \subseteq Rows /\ scr.console.first \in Rows
    /\ svc.minute \in 0 .. (Saturate - 1)

(* What the dirty spans call clean is what the panel holds, whichever        *)
(* transfer failed and however far it got: ssd1306_present cleans a page     *)
(* only when its exact span was completely transferred.                      *)
CleanMeansSent ==
    owner = "ui" => \A k \in Cells : k[2] \notin scr.dirty[k[1]] => scr.panel[k] = scr.fb[k]

(* What can be relied on of the screen: the panel holds exactly the picture,  *)
(* and it is on unless a call that had initialised it stopped before its      *)
(* "display on" (ui.panel stays set, so no later call turns it on).           *)
Visible(snap) == scr.panel = Picture(snap, layout.rect) /\ (leftOff \/ scr.on)

(* While the user interface believes its last snapshot is shown, and has      *)
(* composed the whole screen for the layout that is active, the panel holds   *)
(* exactly the picture of that snapshot, the foreground application's view    *)
(* and that layout, and nothing of an older one; and it is on unless it was   *)
(* left off.  (A layout activated under a valid snapshot is only drawn over   *)
(* the old one: until the next full composition nothing is claimed.)          *)
ShownIsTrue ==
    (ui.valid /\ owner = "ui" /\ fullRev = layout.revision) => Visible(ui.last)

(* "OLED_RUNTIME_UI_OK": uiruntime restored the runtime screen after         *)
(* whatever the diagnostics did to it, failing in the middle or not; the      *)
(* display itself it does not turn on when a diagnostic left it off.          *)
UiRuntimeRestores ==
    (answer.call = "uiruntime" /\ answer.ok) => Visible(ui.last)

(* The displayed time never goes back, over the wrap of the millisecond      *)
(* counter too.                                                              *)
MinuteNeverBack == [][svc'.minute >= svc.minute]_uiVars

(* Once transfers stop failing and the services stop changing, the panel     *)
(* shows them: a failed presentation is retried and no change is forgotten.  *)
PanelCatchesUp ==
    [](owner # "diagnostic" /\ layout.revision = 0) =>
        <>[](ui.valid /\ OnScreen(ui.last) /\ ui.last.usb = env.usb /\ ui.last.healthy = env.ready)

(* The records of what is where, together: dirty spans, the panel's content, *)
(* and the services as the applications know them.                           *)
RecordsAreTrue == UiTypeOK /\ CleanMeansSent /\ ToldWhatBridgeKnows

(* The screen, together: what is believed shown is shown, and uiruntime      *)
(* restores it, the display apart when it was left off.                      *)
ScreenIsTrue == ShownIsTrue /\ UiRuntimeRestores
=============================================================================
