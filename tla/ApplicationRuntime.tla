-------------------------- MODULE ApplicationRuntime --------------------------
(***************************************************************************)
(* The application runtime (src/kernel/application_runtime.c), its bridge   *)
(* (application_runtime_bridge.c) and the appstart / appstop commands       *)
(* (application_commands.c).  All of it runs in the console task: every     *)
(* call is one step.  What a descriptor's callbacks return is not the       *)
(* runtime's to decide: one record `cb' of outcomes is chosen for each      *)
(* call, and MayFail says which callbacks may fail.  The two applications   *)
(* of the registry never fail, never ask for a new view and always render   *)
(* the same text: MayFail = {} and one text is the firmware as it is built; *)
(* everything in MayFail is the contract the runtime offers to any          *)
(* descriptor.                                                              *)
(***************************************************************************)
EXTENDS Naturals, FiniteSets

CONSTANTS
    Home,       \* APPLICATION_ID_SYSTEM_HOME
    Others,     \* the ids of the other registered applications
    MayFail,    \* the callbacks that may fail: "init", "start", "stop", "render"
    Texts,      \* the texts an application can render
    Effects,    \* what an event callback may return: TRUE is VIEW_DIRTY
    Minutes,    \* the displayed minutes of a service snapshot
    Flags,      \* the health and USB values of a service snapshot
    MaxCount    \* where the saturating counters stop (0xFFFFFFFF in the code)

Apps == {Home} \union Others
None == "none"                  \* active_id == 0
Blank == [app |-> None, text |-> None]

ASSUME AppAssumption ==
    /\ None \notin Apps
    /\ Home \notin Others
    /\ IsFiniteSet(Others)
    /\ MaxCount \in Nat \ {0}

ASSUME CallbackAssumption ==
    /\ Effects \subseteq BOOLEAN
    /\ MayFail \subseteq {"init", "start", "stop", "render"}

VARIABLES
    rt,       \* application_runtime_t
    bridge,   \* the bridge's statics: last snapshot, its validity, ready sent
    ret,      \* what the last call returned, and which call it was
    told,     \* history: the value of each kind an application was last told
    shown     \* history: the view the user interface last consumed

vars == <<rt, bridge, ret, told, shown>>

Kinds == {"minute", "healthy", "usb", "network"}
Snapshots == {s \in [Kinds -> Minutes \union Flags \union {0}] :
                 /\ s["minute"] \in Minutes
                 /\ s["healthy"] \in Flags
                 /\ s["usb"] \in Flags
                 /\ s["network"] = 0}

States == {"REGISTERED", "STOPPED", "STARTING", "RUNNING", "STOPPING", "FAILED"}
Views == [app : Apps \union {None}, text : Texts \union {None}]

Outcome(name) == IF name \in MayFail THEN BOOLEAN ELSE {TRUE}

(* The outcomes of the callbacks one call may invoke.  `fails' is the event  *)
(* whose rendering fails, if any: the call ends there.                       *)
Callbacks == [start : [Apps -> Outcome("start")], stop : Outcome("stop"),
              render : Outcome("render"), effect : Effects, text : Texts,
              fails : {None} \union
                      IF "render" \in MayFail
                        THEN Kinds \union {"ready", "service"} ELSE {}]

Bump(n) == IF n < MaxCount THEN n + 1 ELSE n

------------------------------------------------------------------------------
(* The operations on application_runtime_t: each returns the new runtime and *)
(* the result of the call.                                                   *)

Result(r, ok) == [rt |-> r, ok |-> ok]

Running(r) == r.active # None /\ r.states[r.active] = "RUNNING"

(* Faulty variant: render_pending is not set. *)
RenderFailedKeepsQuiet(r) == [r EXCEPT !.faults = Bump(@)]

RenderFailed(r) ==
    [r EXCEPT !.faults = IF r.pending THEN @ ELSE Bump(@), !.pending = TRUE]

Rendered(r, text) ==
    LET candidate == [app |-> r.active, text |-> text]
    IN  IF r.view = candidate
          THEN [r EXCEPT !.pending = FALSE]
          ELSE [r EXCEPT !.pending = FALSE, !.view = candidate, !.dirty = TRUE,
                         !.revision = Bump(@)]

RenderActive(r, ok, text) ==
    IF ~Running(r) THEN Result(r, FALSE)
    ELSE IF ~ok THEN Result(RenderFailed(r), FALSE)
    ELSE Result(Rendered(r, text), TRUE)

StartFailed(r, id) == [r EXCEPT !.states[id] = "FAILED", !.faults = Bump(@)]

Enter(r, id, cb) ==
    RenderActive([r EXCEPT !.states[id] = "RUNNING", !.active = id],
                 cb.render, cb.text).rt

StartHomeFallback(r, cb) ==
    IF r.states[Home] = "FAILED" THEN [r EXCEPT !.active = None]
    ELSE IF ~cb.start[Home] THEN [StartFailed(r, Home) EXCEPT !.active = None]
    ELSE Enter(r, Home, cb)

StopOwner(r, ok) ==
    IF ok THEN Result([r EXCEPT !.states[r.active] = "STOPPED", !.active = None], TRUE)
          ELSE Result(StartFailed(r, r.active), FALSE)

Launch(r, id, cb) ==
    IF cb.start[id] THEN Result(Enter(r, id, cb), TRUE)
    ELSE LET f == StartFailed(r, id)
         IN  Result(IF id # Home THEN StartHomeFallback(f, cb) ELSE f, FALSE)

(* Faulty variant: an owner that failed to stop is replaced. *)
StartReplacesFailed(r, id, cb) ==
    IF ~r.initialized THEN Result(r, FALSE)
    ELSE IF r.active = id /\ r.states[id] = "RUNNING" THEN Result(r, TRUE)
    ELSE IF r.states[id] = "FAILED" THEN Result(r, FALSE)
    ELSE IF r.active = None THEN Launch(r, id, cb)
    ELSE LET s == StopOwner(r, cb.stop)
         IN  IF s.ok THEN Launch(s.rt, id, cb) ELSE s

(* Faulty variant: the owner's state is not looked at. *)
StartByIdOnly(r, id, cb) ==
    IF ~r.initialized THEN Result(r, FALSE)
    ELSE IF r.active = id THEN Result(r, TRUE)
    ELSE IF r.states[id] = "FAILED" THEN Result(r, FALSE)
    ELSE IF r.active = None THEN Launch(r, id, cb)
    ELSE IF r.states[r.active] = "FAILED" THEN Result(r, FALSE)
    ELSE LET s == StopOwner(r, cb.stop)
         IN  IF s.ok THEN Launch(s.rt, id, cb) ELSE s

Start(r, id, cb) ==
    IF ~r.initialized THEN Result(r, FALSE)
    ELSE IF r.active = id /\ r.states[id] = "RUNNING" THEN Result(r, TRUE)
    ELSE IF r.states[id] = "FAILED" THEN Result(r, FALSE)
    ELSE IF r.active = None THEN Launch(r, id, cb)
    ELSE IF r.states[r.active] = "FAILED" THEN Result(r, FALSE)
    ELSE LET s == StopOwner(r, cb.stop)
         IN  IF s.ok THEN Launch(s.rt, id, cb) ELSE s

Stop(r, cb) ==
    IF ~r.initialized THEN Result(r, FALSE)
    ELSE IF r.active = Home THEN Result(r, TRUE)
    ELSE Start(r, Home, cb)

DispatchEvent(r, kind, cb) ==
    IF ~r.initialized \/ ~Running(r) THEN Result(r, FALSE)
    ELSE LET e == [r EXCEPT !.events = Bump(@)]
         IN  IF cb.effect \/ cb.fails = kind
               THEN RenderActive(e, cb.fails # kind, cb.text)
               ELSE Result(e, TRUE)

Service(r, cb) ==
    IF ~r.initialized THEN Result(r, FALSE)
    ELSE IF r.pending THEN RenderActive(r, cb.fails # "service", cb.text)
    ELSE Result(r, TRUE)

Reset ==
    [initialized |-> FALSE, states |-> [a \in Apps |-> "REGISTERED"],
     active |-> None, view |-> Blank, dirty |-> FALSE, pending |-> FALSE,
     faults |-> 0, events |-> 0, revision |-> 0]

InitFails(n) == IF n < MaxCount THEN n ELSE MaxCount

Initialized(r, bad) ==
    IF r.initialized THEN r
    ELSE [r EXCEPT !.initialized = TRUE,
                   !.states = [a \in Apps |-> IF a \in bad THEN "FAILED" ELSE "STOPPED"],
                   !.faults = InitFails(@ + Cardinality(bad))]

------------------------------------------------------------------------------
(* The bridge: application_runtime_bridge_service over a service snapshot.   *)

Heard(d, t, kind, services) ==
    IF Running(d) THEN [t EXCEPT ![kind] = services[kind]] ELSE t

(* One "if (services->x != last.x)" of the bridge: s carries the runtime, the *)
(* result so far and the history of what was delivered.                      *)
Deliver(kind, s, last, services, cb) ==
    IF ~s.ok \/ services[kind] = last[kind] THEN s
    ELSE LET d == DispatchEvent(s.rt, kind, cb)
         IN  [rt |-> d.rt, ok |-> d.ok,
              told |-> Heard(s.rt, s.told, kind, services)]

DeliverAll(s, last, services, cb) ==
    LET d1 == Deliver("minute", s, last, services, cb)
        d2 == Deliver("healthy", d1, last, services, cb)
        d3 == Deliver("usb", d2, last, services, cb)
    IN  Deliver("network", d3, last, services, cb)

(* The early part of the bridge's service: start the home application when   *)
(* nothing is in the foreground, announce RUNTIME_READY once.                *)
Foreground(r, cb) == IF r.active = None THEN Start(r, Home, cb) ELSE Result(r, TRUE)

BridgeService(r, b, t, services, cb) ==
    LET s1 == IF r.initialized THEN Foreground(r, cb) ELSE Result(r, FALSE)
        s2 == IF ~s1.ok \/ b.readySent THEN s1 ELSE DispatchEvent(s1.rt, "ready", cb)
        b2 == [b EXCEPT !.readySent = @ \/ (s1.ok /\ s2.ok)]
        s3 == IF s2.ok /\ b.valid
                THEN DeliverAll([rt |-> s2.rt, ok |-> TRUE, told |-> t], b.last, services, cb)
                ELSE [rt |-> s2.rt, ok |-> s2.ok, told |-> IF s2.ok THEN services ELSE t]
        s4 == Service(s3.rt, cb)
    IN  IF s3.ok
          THEN [rt |-> s4.rt, ok |-> s4.ok, told |-> s3.told,
                bridge |-> [b2 EXCEPT !.last = services, !.valid = TRUE]]
          ELSE [rt |-> s3.rt, ok |-> FALSE, told |-> s3.told, bridge |-> b2]

------------------------------------------------------------------------------
(* The steps: the calls the console task makes.                              *)

Called(call, id, ok) == ret' = [call |-> call, id |-> id, ok |-> ok]

(* application_runtime_bridge_initialize: bad are the applications whose init *)
(* callback fails.  The call reports whether the home application is usable. *)
InitializeApplications ==
    \E bad \in IF "init" \in MayFail THEN SUBSET Apps ELSE {{}} :
        /\ rt' = Initialized(rt, bad)
        /\ Called("initialize", None, rt'.states[Home] # "FAILED")
        /\ UNCHANGED <<bridge, told, shown>>

(* boot_desktop_ui_application_service *)
ServiceApplications ==
    \E services \in Snapshots, cb \in Callbacks :
        LET s == BridgeService(rt, bridge, told, services, cb)
        IN  /\ rt' = s.rt
            /\ bridge' = s.bridge
            /\ told' = s.told
            /\ Called("service", None, s.ok)
            /\ UNCHANGED shown

(* appstart: refused as busy while the user interface is not at home.        *)
AppStart ==
    \E id \in Apps, cb \in Callbacks :
        LET s == Start(rt, id, cb)
        IN  /\ rt.initialized
            /\ rt' = s.rt
            /\ Called("start", id, s.ok)
            /\ UNCHANGED <<bridge, told, shown>>

AppStop ==
    \E cb \in Callbacks :
        LET s == Stop(rt, cb)
        IN  /\ rt.initialized
            /\ rt' = s.rt
            /\ Called("stop", Home, s.ok)
            /\ UNCHANGED <<bridge, told, shown>>

(* The user interface composes the view and consumes it.                     *)
ConsumeView ==
    /\ rt.active # None
    /\ shown' = rt.view
    /\ rt' = [rt EXCEPT !.dirty = FALSE]
    /\ Called("consume", None, TRUE)
    /\ UNCHANGED <<bridge, told>>

NoSnapshot == [k \in Kinds |-> 0]

Init ==
    /\ rt = Reset
    /\ bridge = [last |-> NoSnapshot, valid |-> FALSE, readySent |-> FALSE]
    /\ ret = [call |-> None, id |-> None, ok |-> TRUE]
    /\ told = NoSnapshot
    /\ shown = Blank

Next ==
    \/ InitializeApplications
    \/ ServiceApplications
    \/ AppStart
    \/ AppStop
    \/ ConsumeView

Spec == Init /\ [][Next]_vars

------------------------------------------------------------------------------
(* Properties.                                                               *)

(* The runtime's fields keep the shape application_runtime_t gives them.     *)
TypeOK ==
    /\ rt.states \in [Apps -> States]
    /\ rt.active \in Apps \union {None}
    /\ rt.view \in Views
    /\ {rt.initialized, rt.dirty, rt.pending} \subseteq BOOLEAN
    /\ {rt.faults, rt.events, rt.revision} \subseteq 0 .. MaxCount

(* Between two calls no application is left in a transition, at most the      *)
(* foreground one runs, and a foreground application either runs or is one    *)
(* whose stop failed: whichever callbacks failed inside                       *)
(* application_runtime_start and its fallback.                               *)
LifecycleOK ==
    /\ \A a \in Apps : rt.states[a] \notin {"STARTING", "STOPPING"}
    /\ \A a \in Apps : rt.states[a] = "RUNNING" => rt.active = a
    /\ rt.active # None => rt.states[rt.active] \in {"RUNNING", "FAILED"}
    /\ rt.initialized <=> \A a \in Apps : rt.states[a] # "REGISTERED"

(* When no rendering is owed, the view the user interface would compose is    *)
(* the foreground application's, never one left by the application before:    *)
(* application_runtime_render_active sets render_pending on every path that   *)
(* leaves the old view in place.                                              *)
ViewOwned == (Running(rt) /\ ~rt.pending) => rt.view.app = rt.active

(* A view the panel does not show yet is marked dirty, over any sequence of   *)
(* switches, failed renderings and retries: the user interface composes the   *)
(* console only when view_dirty says so.                                      *)
DirtyUntilShown == rt.view # shown => rt.dirty

(* Once the runtime has been announced ready, there is always a foreground    *)
(* application unless the home application itself has failed: a target that   *)
(* fails to start falls back to system.home.                                  *)
HomeIsFallback ==
    (bridge.readySent /\ rt.active = None) => rt.states[Home] = "FAILED"

(* appstart answers OK only with the application it named in the foreground   *)
(* and running, whatever failed and fell back on the way.                     *)
OkMeansRunning ==
    (ret.call = "start" /\ ret.ok) => (rt.active = ret.id /\ Running(rt))

(* What applications were told of the services is what the bridge believes    *)
(* they know: no change of minute, health or USB state is skipped.  It needs  *)
(* callbacks that do not fail: a failing rendering leaves the bridge with the *)
(* older snapshot.                                                            *)
ToldWhatBridgeKnows == bridge.valid => told = bridge.last

(* The life cycle, together: states and owner agree between any two calls,   *)
(* the home application is what a failed switch falls back to, and OK means  *)
(* that the application asked for runs.                                      *)
Lifecycle == TypeOK /\ LifecycleOK /\ HomeIsFallback /\ OkMeansRunning

(* The view, together: the foreground application's own, and dirty until     *)
(* the panel shows it.                                                       *)
ViewIsCurrent == ViewOwned /\ DirtyUntilShown

(* Failures last: a failed application never runs again before the next boot, *)
(* and an owner that could not be stopped keeps the foreground, because its   *)
(* resources were not given back.                                             *)
FailuresLast ==
    [][ /\ \A a \in Apps : (rt.initialized /\ rt.states[a] = "FAILED")
                              => rt'.states[a] = "FAILED"
        /\ (rt.active # None /\ rt.states[rt.active] = "FAILED")
              => rt'.active = rt.active ]_vars

=============================================================================
