--------------------------- MODULE DesktopUiProofs ---------------------------
(***************************************************************************)
(* Proofs about the application runtime (ApplicationRuntime) and about the *)
(* desktop user interface composed with it (DesktopUi).                    *)
(*                                                                         *)
(* Part one holds for every registry of applications, every choice of      *)
(* callbacks that may fail and every text they render; it uses none of the *)
(* assumptions that DesktopUi adds.                                        *)
(* The model's operators take a runtime and give the next one, and calls   *)
(* nest them: a start stops the owner, starts the target, falls back to    *)
(* the home application and renders.  Each operator has one lemma, which   *)
(* says that it keeps a runtime Sound and in what way the runtime Grows;   *)
(* growing is transitive, so the lemmas chain along the nesting.  Between  *)
(* stopping the owner and the end of the call nothing is in the            *)
(* foreground: that state is Sound but not Backed by the home application, *)
(* which is why Backed stands apart and is restored by LaunchSound.        *)
(*                                                                         *)
(* Part two treats the screen in the same way: each operator that draws,   *)
(* composes or sends has one lemma over a record of which it knows only    *)
(* that it is a Screen.  CleanSent is what drawing and sending keep, and   *)
(* Composed what the composition reaches, from an empty framebuffer or     *)
(* from the picture of the snapshot before.  The second needs the runtime: *)
(* a view that is not dirty is the one on the screen (DirtyUntilShown and  *)
(* Grows).                                                                 *)
(***************************************************************************)
EXTENDS DesktopUi, TLAPS, FiniteSetTheorems

-----------------------------------------------------------------------------
(* Part one: the application runtime *)

Runtime ==
    [initialized : BOOLEAN, states : [Apps -> States], active : Apps \union {None},
     view : Views, dirty : BOOLEAN, pending : BOOLEAN, faults : 0 .. MaxCount,
     events : 0 .. MaxCount, revision : 0 .. MaxCount]

Settled(r) ==
    /\ \A a \in Apps : r.states[a] \notin {"STARTING", "STOPPING"}
    /\ \A a \in Apps : r.states[a] = "RUNNING" => r.active = a
    /\ r.active # None => r.states[r.active] \in {"RUNNING", "FAILED"}
    /\ r.initialized <=> \A a \in Apps : r.states[a] # "REGISTERED"

Owned(r) == (Running(r) /\ ~r.pending) => r.view.app = r.active

Backed(r) == r.active = None => r.states[Home] = "FAILED"

Sound(r) == r \in Runtime /\ Settled(r) /\ Owned(r)

\* What no operation takes back: being initialized, failures, the foreground of an
\* owner that could not be stopped, and a view the panel must be told of.
Grows(r, q) ==
    /\ q.initialized = r.initialized
    /\ \A a \in Apps : r.states[a] = "FAILED" => q.states[a] = "FAILED"
    /\ (r.active # None /\ r.states[r.active] = "FAILED") => q.active = r.active
    /\ r.dirty => q.dirty
    /\ q.view # r.view => q.dirty

\* Two operations in a row grow the runtime as one does.
LEMMA GrowsTwice ==
    ASSUME NEW r \in Runtime, NEW q \in Runtime, NEW p, Grows(r, q), Grows(q, p)
    PROVE  Grows(r, p)
<1>1. (r.active # None /\ r.states[r.active] = "FAILED") => p.active = r.active
    BY DEF Grows, Runtime
<1> QED
    BY <1>1 DEF Grows

\* The saturating counters keep to their range.
LEMMA BumpRange == \A n \in 0 .. MaxCount : Bump(n) \in 0 .. MaxCount
    BY AppAssumption DEF Bump

LEMMA HomeIsApp == Home \in Apps /\ None \notin Apps
    BY AppAssumption DEF Apps

\* application_runtime_render_active(): whatever the callback does, afterwards the
\* view is the foreground application's or a rendering is owed.
LEMMA RenderSound ==
    ASSUME NEW r \in Runtime, Settled(r), NEW ok, NEW text \in Texts
    PROVE  LET s == RenderActive(r, ok, text)
           IN  /\ Sound(s.rt)
               /\ Grows(r, s.rt)
               /\ s.rt.states = r.states
               /\ s.rt.active = r.active
               /\ s.ok \in BOOLEAN
               /\ s.ok <=> Running(r) /\ ok
<1> DEFINE s == RenderActive(r, ok, text)
           candidate == [app |-> r.active, text |-> text]
<1>1. CASE ~Running(r)
    <2>1. s = [rt |-> r, ok |-> FALSE]
        BY <1>1 DEF RenderActive, Result
    <2> QED
        BY <1>1, <2>1 DEF Sound, Owned, Grows
<1>2. CASE Running(r) /\ ~ok
    <2>1. s.rt = [r EXCEPT !.faults = IF r.pending THEN @ ELSE Bump(@), !.pending = TRUE]
          /\ s.ok = FALSE
        BY <1>2 DEF RenderActive, Result, RenderFailed
    <2>2. s.rt \in Runtime /\ s.rt.pending
          /\ s.rt.states = r.states /\ s.rt.active = r.active /\ s.rt.view = r.view
          /\ s.rt.dirty = r.dirty /\ s.rt.initialized = r.initialized
        BY <2>1, BumpRange DEF Runtime
    <2> QED
        BY <1>2, <2>1, <2>2 DEF Sound, Settled, Owned, Grows
<1>3. CASE Running(r) /\ ok
    <2>1. s.rt = Rendered(r, text) /\ s.ok = TRUE
        BY <1>3 DEF RenderActive, Result
    <2>2. candidate \in Views /\ candidate.app = r.active
        BY DEF Views, Runtime
    <2> HIDE DEF s
    <2>3. CASE r.view = candidate
        <3>1. s.rt = [r EXCEPT !.pending = FALSE]
            BY <2>1, <2>3 DEF Rendered
        <3>2. /\ s.rt \in Runtime
              /\ s.rt.states = r.states /\ s.rt.active = r.active
              /\ s.rt.initialized = r.initialized
              /\ s.rt.view = r.view /\ s.rt.dirty = r.dirty
            BY <3>1 DEF Runtime
        <3> QED
            BY <1>3, <2>1, <2>2, <2>3, <3>2 DEF Sound, Settled, Owned, Grows, s
    <2>4. CASE r.view # candidate
        <3>1. s.rt = [r EXCEPT !.pending = FALSE, !.view = candidate, !.dirty = TRUE,
                               !.revision = Bump(@)]
            BY <2>1, <2>4 DEF Rendered
        <3> HIDE DEF candidate
        <3>2. /\ s.rt \in Runtime
              /\ s.rt.states = r.states /\ s.rt.active = r.active
              /\ s.rt.initialized = r.initialized
              /\ s.rt.view = candidate /\ s.rt.dirty = TRUE
            BY <2>2, <3>1, BumpRange DEF Runtime
        <3> QED
            BY <1>3, <2>1, <2>2, <3>2 DEF Sound, Settled, Owned, Grows, s
    <2> QED
        BY <2>3, <2>4
<1> QED
    BY <1>1, <1>2, <1>3

\* A start callback that fails: the application has failed and nothing else changes.
LEMMA StartFailedSound ==
    ASSUME NEW r, Sound(r), r.initialized, NEW id \in Apps,
           r.active = None \/ r.active = id
    PROVE  LET q == StartFailed(r, id)
           IN  /\ Sound(q)
               /\ Grows(r, q)
               /\ q.initialized
               /\ q.active = r.active
               /\ q.states = [r.states EXCEPT ![id] = "FAILED"]
<1> DEFINE q == StartFailed(r, id)
<1>1. /\ q \in Runtime
      /\ q.initialized = r.initialized /\ q.active = r.active /\ q.view = r.view
      /\ q.dirty = r.dirty /\ q.pending = r.pending
      /\ q.states = [r.states EXCEPT ![id] = "FAILED"]
    BY BumpRange DEF StartFailed, Sound, Runtime, States
<1>2. \A a \in Apps : q.states[a] = IF a = id THEN "FAILED" ELSE r.states[a]
    BY <1>1 DEF Sound, Runtime
<1>3. Settled(q)
    BY <1>1, <1>2, HomeIsApp DEF Sound, Settled, Runtime
<1>4. Owned(q)
    BY <1>1, <1>2, HomeIsApp DEF Sound, Owned, Running, Runtime
<1> QED
    BY <1>1, <1>2, <1>3, <1>4, HomeIsApp DEF Sound, Grows, Runtime

\* Entering the foreground while nothing is in it.
LEMMA EnterSound ==
    ASSUME NEW r, Sound(r), r.initialized, r.active = None, NEW id \in Apps,
           r.states[id] # "FAILED", NEW cb, cb.text \in Texts
    PROVE  LET q == Enter(r, id, cb)
           IN  /\ Sound(q)
               /\ Grows(r, q)
               /\ q.active = id
               /\ q.states[id] = "RUNNING"
<1> DEFINE e == [r EXCEPT !.states[id] = "RUNNING", !.active = id]
           q == RenderActive(e, cb.render, cb.text).rt
<1>1. /\ e \in Runtime
      /\ e.initialized = r.initialized /\ e.active = id /\ e.view = r.view
      /\ e.dirty = r.dirty /\ e.pending = r.pending
      /\ e.states = [r.states EXCEPT ![id] = "RUNNING"]
    BY DEF Sound, Runtime, States
<1>2. \A a \in Apps : e.states[a] = IF a = id THEN "RUNNING" ELSE r.states[a]
    BY <1>1 DEF Sound, Runtime
<1>3. Settled(e)
    BY <1>1, <1>2, HomeIsApp DEF Sound, Settled, Runtime
<1>4. Grows(r, e)
    BY <1>1, <1>2 DEF Grows
<1> HIDE DEF e
<1>5. Sound(q) /\ Grows(e, q) /\ q.states = e.states /\ q.active = e.active
    BY <1>1, <1>3, RenderSound
<1>6. Grows(r, q)
    BY <1>1, <1>4, <1>5, GrowsTwice DEF Sound
<1> QED
    BY <1>1, <1>2, <1>5, <1>6 DEF Enter, e

\* The fallback: afterwards the home application runs or has failed.
LEMMA FallbackSound ==
    ASSUME NEW r, Sound(r), r.initialized, r.active = None, NEW cb, cb.text \in Texts
    PROVE  LET q == StartHomeFallback(r, cb)
           IN  Sound(q) /\ Grows(r, q) /\ Backed(q)
<1> DEFINE q == StartHomeFallback(r, cb)
<1>0. Home \in Apps /\ r \in Runtime
    BY HomeIsApp DEF Sound
<1>1. CASE r.states[Home] = "FAILED"
    <2>1. q = [r EXCEPT !.active = None]
        BY <1>1 DEF StartHomeFallback
    <2>2. q = r
        BY <1>0, <2>1 DEF Runtime
    <2> QED
        BY <1>1, <2>2 DEF Grows, Backed
<1>2. CASE r.states[Home] # "FAILED" /\ ~cb.start[Home]
    <2> DEFINE f == StartFailed(r, Home)
    <2>1. /\ Sound(f) /\ Grows(r, f) /\ f.active = None
          /\ f.states = [r.states EXCEPT ![Home] = "FAILED"]
        BY <1>0, StartFailedSound
    <2>2. f.states[Home] = "FAILED"
        BY <1>0, <2>1 DEF Runtime
    <2>3. q = [f EXCEPT !.active = None]
        BY <1>2 DEF StartHomeFallback
    <2> HIDE DEF f
    <2>4. q = f
        BY <2>1, <2>3 DEF Sound, Runtime
    <2> QED
        BY <2>1, <2>2, <2>4 DEF Backed
<1>3. CASE r.states[Home] # "FAILED" /\ cb.start[Home]
    <2>1. q = Enter(r, Home, cb)
        BY <1>3 DEF StartHomeFallback
    <2> QED
        BY <1>0, <1>3, <2>1, EnterSound, HomeIsApp DEF Backed
<1> QED
    BY <1>1, <1>2, <1>3

\* Launching into an empty foreground ends with the target running, or with it
\* failed and the home application as what is left.
LEMMA LaunchSound ==
    ASSUME NEW r, Sound(r), r.initialized, r.active = None, NEW id \in Apps,
           r.states[id] # "FAILED", NEW cb, cb.text \in Texts
    PROVE  LET s == Launch(r, id, cb)
           IN  /\ Sound(s.rt) /\ Grows(r, s.rt) /\ Backed(s.rt)
               /\ s.ok \in BOOLEAN
               /\ s.ok => s.rt.active = id /\ Running(s.rt)
<1> DEFINE s == Launch(r, id, cb)
           f == StartFailed(r, id)
<1>0. r \in Runtime /\ Home \in Apps /\ None \notin Apps
    BY HomeIsApp DEF Sound
<1>1. CASE cb.start[id]
    <2>1. s = [rt |-> Enter(r, id, cb), ok |-> TRUE]
        BY <1>1 DEF Launch, Result
    <2> QED
        BY <1>0, <2>1, EnterSound DEF Backed, Running
<1>2. CASE ~cb.start[id]
    <2>1. /\ Sound(f) /\ Grows(r, f) /\ f.initialized /\ f.active = None
          /\ f.states = [r.states EXCEPT ![id] = "FAILED"]
        BY StartFailedSound
    <2>2. id = Home => Backed(f)
        BY <1>0, <2>1 DEF Backed, Runtime
    <2>3. s.ok = FALSE /\ s.rt = IF id # Home THEN StartHomeFallback(f, cb) ELSE f
        BY <1>2 DEF Launch, Result
    <2> HIDE DEF f
    <2>4. CASE id = Home
        BY <2>1, <2>2, <2>3, <2>4
    <2>5. CASE id # Home
        <3>1. /\ Sound(StartHomeFallback(f, cb)) /\ Grows(f, StartHomeFallback(f, cb))
              /\ Backed(StartHomeFallback(f, cb))
            BY <2>1, FallbackSound
        <3> QED
            BY <1>0, <2>1, <2>3, <2>5, <3>1, GrowsTwice DEF Sound
    <2> QED
        BY <2>4, <2>5
<1> QED
    BY <1>1, <1>2

\* Stopping the owner: it leaves the foreground, or fails and keeps it.
LEMMA StopOwnerSound ==
    ASSUME NEW r, Sound(r), r.initialized, Running(r), NEW ok
    PROVE  LET s == StopOwner(r, ok)
           IN  /\ Sound(s.rt) /\ Grows(r, s.rt) /\ s.rt.initialized
               /\ s.ok \in BOOLEAN
               /\ s.ok => /\ s.rt.active = None
                          /\ \A a \in Apps : a # r.active => s.rt.states[a] = r.states[a]
               /\ ~s.ok => s.rt.active = r.active
<1>0. r \in Runtime /\ r.active \in Apps /\ None \notin Apps
    BY HomeIsApp DEF Sound, Runtime, Running
<1>1. CASE ok
    <2> DEFINE q == [r EXCEPT !.states[r.active] = "STOPPED", !.active = None]
    <2>1. StopOwner(r, ok) = [rt |-> q, ok |-> TRUE]
        BY <1>1 DEF StopOwner, Result
    <2>2. /\ q \in Runtime /\ q.active = None
          /\ q.initialized = r.initialized /\ q.view = r.view /\ q.dirty = r.dirty
          /\ q.states = [r.states EXCEPT ![r.active] = "STOPPED"]
        BY <1>0 DEF Runtime, States
    <2>3. \A a \in Apps : q.states[a] = IF a = r.active THEN "STOPPED" ELSE r.states[a]
        BY <1>0, <2>2 DEF Runtime
    <2> HIDE DEF q
    <2>4. Settled(q) /\ Owned(q)
        BY <1>0, <2>2, <2>3 DEF Sound, Settled, Owned, Running
    <2>5. Grows(r, q)
        BY <1>0, <2>2, <2>3 DEF Grows, Running
    <2>6. Sound(q) /\ q.initialized
        BY <2>2, <2>4 DEF Sound
    <2>7. StopOwner(r, ok).rt = q /\ StopOwner(r, ok).ok = TRUE
        BY <2>1
    <2> QED
        BY <2>2, <2>3, <2>5, <2>6, <2>7
<1>2. CASE ~ok
    <2> DEFINE q == StartFailed(r, r.active)
    <2>1. StopOwner(r, ok) = [rt |-> q, ok |-> FALSE]
        BY <1>2 DEF StopOwner, Result
    <2>2. Sound(q) /\ Grows(r, q) /\ q.initialized /\ q.active = r.active
        BY <1>0, StartFailedSound
    <2> HIDE DEF q
    <2> QED
        BY <2>1, <2>2
<1> QED
    BY <1>1, <1>2

\* application_runtime_start(): sound whatever fails on the way, and OK only with
\* the application it named running in the foreground.
LEMMA StartSound ==
    ASSUME NEW r, Sound(r), NEW id \in Apps, NEW cb, cb.text \in Texts
    PROVE  LET s == Start(r, id, cb)
           IN  /\ Sound(s.rt) /\ Grows(r, s.rt)
               /\ Backed(r) => Backed(s.rt)
               /\ s.ok \in BOOLEAN
               /\ s.ok => r.initialized /\ s.rt.active = id /\ Running(s.rt)
<1> DEFINE s == Start(r, id, cb)
           t == StopOwner(r, cb.stop)
<1>0. r \in Runtime /\ None \notin Apps
    BY HomeIsApp DEF Sound
<1>1. CASE \/ ~r.initialized
           \/ ~(r.active = id /\ r.states[id] = "RUNNING") /\ r.states[id] = "FAILED"
           \/ /\ ~(r.active = id /\ r.states[id] = "RUNNING") /\ r.active # None
              /\ r.states[r.active] = "FAILED"
    <2>1. s = [rt |-> r, ok |-> FALSE]
        BY <1>1 DEF Start, Result
    <2> QED
        BY <2>1 DEF Grows
<1>2. CASE r.initialized /\ r.active = id /\ r.states[id] = "RUNNING"
    <2>1. s = [rt |-> r, ok |-> TRUE]
        BY <1>2 DEF Start, Result
    <2>2. Grows(r, r)
        BY DEF Grows
    <2>3. Running(r)
        BY <1>0, <1>2 DEF Running
    <2> HIDE DEF s
    <2>4. s.rt = r /\ s.ok = TRUE
        BY <2>1
    <2> QED
        BY <1>2, <2>2, <2>3, <2>4 DEF s
<1>3. CASE r.initialized /\ r.active = None /\ r.states[id] # "FAILED"
    <2>1. s = Launch(r, id, cb)
        BY <1>0, <1>3 DEF Start
    <2> QED
        BY <1>3, <2>1, LaunchSound
<1>4. CASE /\ r.initialized /\ r.active # None /\ r.states[id] # "FAILED"
           /\ ~(r.active = id /\ r.states[id] = "RUNNING")
           /\ r.states[r.active] # "FAILED"
    <2>1. s = IF t.ok THEN Launch(t.rt, id, cb) ELSE t
        BY <1>4 DEF Start
    <2>2. Running(r) /\ r.active # id
        BY <1>4 DEF Sound, Settled, Running
    <2>3. /\ Sound(t.rt) /\ Grows(r, t.rt) /\ t.rt.initialized
          /\ t.ok \in BOOLEAN
          /\ t.ok => t.rt.active = None /\ t.rt.states[id] # "FAILED"
          /\ ~t.ok => t.rt.active = r.active
        BY <1>4, <2>2, StopOwnerSound
    <2> HIDE DEF t
    <2>4. CASE t.ok
        <3>1. s = Launch(t.rt, id, cb)
            BY <2>1, <2>4
        <3>2. /\ Sound(s.rt) /\ Grows(t.rt, s.rt) /\ Backed(s.rt) /\ s.ok \in BOOLEAN
              /\ s.ok => s.rt.active = id /\ Running(s.rt)
            BY <2>3, <2>4, <3>1, LaunchSound
        <3>3. Grows(r, s.rt)
            BY <1>0, <2>3, <3>2, GrowsTwice DEF Sound
        <3> QED
            BY <1>4, <3>2, <3>3
    <2>5. CASE ~t.ok
        BY <1>4, <2>1, <2>3, <2>5 DEF Backed
    <2> QED
        BY <2>4, <2>5
<1> QED
    BY <1>1, <1>2, <1>3, <1>4

\* An event: the foreground application hears it and its view may change.
LEMMA DispatchSound ==
    ASSUME NEW r, Sound(r), NEW kind, NEW cb, cb.text \in Texts
    PROVE  LET s == DispatchEvent(r, kind, cb)
           IN  /\ Sound(s.rt) /\ Grows(r, s.rt)
               /\ s.rt.states = r.states /\ s.rt.active = r.active
               /\ s.ok \in BOOLEAN
               /\ s.ok => r.initialized /\ Running(r)
               /\ r.initialized /\ Running(r) /\ cb.fails # kind => s.ok
<1> DEFINE e == [r EXCEPT !.events = Bump(@)]
           renders == cb.fails # kind
           d == RenderActive(e, renders, cb.text)
<1>0. r \in Runtime
    BY DEF Sound
<1>1. CASE ~r.initialized \/ ~Running(r)
    <2>1. DispatchEvent(r, kind, cb) = [rt |-> r, ok |-> FALSE]
        BY <1>1 DEF DispatchEvent, Result
    <2>2. Grows(r, r)
        BY DEF Grows
    <2> QED
        BY <1>1, <2>1, <2>2
<1>2. CASE r.initialized /\ Running(r)
    <2>1. /\ e \in Runtime
          /\ e.initialized = r.initialized /\ e.active = r.active
          /\ e.states = r.states /\ e.view = r.view
          /\ e.dirty = r.dirty /\ e.pending = r.pending
        BY <1>0, BumpRange DEF Runtime
    <2> HIDE DEF e
    <2>2. Settled(e) /\ Owned(e) /\ Grows(r, e) /\ Running(e)
        BY <1>2, <2>1 DEF Sound, Settled, Owned, Running, Grows
    <2>3. Sound(e)
        BY <2>1, <2>2 DEF Sound
    <2>4. CASE cb.effect \/ cb.fails = kind
        <3>1. DispatchEvent(r, kind, cb) = d
            BY <1>2, <2>4 DEF DispatchEvent, e
        <3>2. /\ Sound(d.rt) /\ Grows(e, d.rt) /\ d.rt.states = e.states
              /\ d.rt.active = e.active /\ d.ok \in BOOLEAN
              /\ d.ok <=> Running(e) /\ renders
            <4> HIDE DEF renders
            <4> QED
                BY <2>1, <2>2, RenderSound
        <3> HIDE DEF d
        <3>3. Grows(r, d.rt)
            BY <1>0, <2>1, <2>2, <3>2, GrowsTwice DEF Sound
        <3> QED
            BY <1>2, <2>1, <2>2, <3>1, <3>2, <3>3
    <2>5. CASE ~(cb.effect \/ cb.fails = kind)
        <3>1. DispatchEvent(r, kind, cb) = [rt |-> e, ok |-> TRUE]
            BY <1>2, <2>5 DEF DispatchEvent, Result, e
        <3> QED
            BY <1>2, <2>1, <2>2, <2>3, <3>1
    <2> QED
        BY <2>4, <2>5
<1> QED
    BY <1>1, <1>2

\* The periodic service: it only renders what is owed.
LEMMA ServiceSound ==
    ASSUME NEW r, Sound(r), NEW cb, cb.text \in Texts
    PROVE  LET s == Service(r, cb)
           IN  Sound(s.rt) /\ Grows(r, s.rt) /\ s.rt.active = r.active
               /\ s.rt.states = r.states /\ s.ok \in BOOLEAN
<1>0. r \in Runtime /\ Settled(r) /\ Grows(r, r)
    BY DEF Sound, Grows
<1>1. CASE r.initialized /\ r.pending
    <2>1. Service(r, cb) = RenderActive(r, cb.fails # "service", cb.text)
        BY <1>1 DEF Service
    <2> QED
        BY <1>0, <2>1, RenderSound
<1>2. CASE ~(r.initialized /\ r.pending)
    <2>1. \E ok \in BOOLEAN : Service(r, cb) = [rt |-> r, ok |-> ok]
        BY <1>2 DEF Service, Result
    <2> QED
        BY <1>0, <2>1
<1> QED
    BY <1>1, <1>2

\* appstop is a start of the home application.
LEMMA StopSound ==
    ASSUME NEW r, Sound(r), NEW cb, cb.text \in Texts
    PROVE  LET s == Stop(r, cb)
           IN  /\ Sound(s.rt) /\ Grows(r, s.rt)
               /\ Backed(r) => Backed(s.rt)
               /\ s.ok \in BOOLEAN
<1>0. Home \in Apps /\ Grows(r, r)
    BY HomeIsApp DEF Grows
<1>1. CASE ~r.initialized \/ r.active = Home
    <2>1. \E ok \in BOOLEAN : Stop(r, cb) = [rt |-> r, ok |-> ok]
        BY <1>1 DEF Stop, Result
    <2> QED
        BY <1>0, <2>1
<1>2. CASE r.initialized /\ r.active # Home
    <2>1. Stop(r, cb) = Start(r, Home, cb)
        BY <1>2 DEF Stop
    <2> QED
        BY <1>0, <2>1, StartSound
<1> QED
    BY <1>1, <1>2

-----------------------------------------------------------------------------
(* The bridge *)

Snapshot == [Kinds -> Minutes \union Flags \union {0}]
Bridge == [last : Snapshot, valid : BOOLEAN, readySent : BOOLEAN]

\* Delivering one change of a service value, or finding none.
LEMMA DeliverSound ==
    ASSUME NEW s, Sound(s.rt), s.ok \in BOOLEAN, NEW kind, NEW last, NEW services,
           NEW cb, cb.text \in Texts
    PROVE  LET d == Deliver(kind, s, last, services, cb)
           IN  /\ Sound(d.rt) /\ Grows(s.rt, d.rt)
               /\ d.rt.states = s.rt.states /\ d.rt.active = s.rt.active
               /\ d.ok \in BOOLEAN
<1> DEFINE d == Deliver(kind, s, last, services, cb)
           e == DispatchEvent(s.rt, kind, cb)
<1>1. CASE ~s.ok \/ services[kind] = last[kind]
    <2>1. d = s
        BY <1>1 DEF Deliver
    <2> QED
        BY <2>1 DEF Grows
<1>2. CASE s.ok /\ services[kind] # last[kind]
    <2>1. d = [rt |-> e.rt, ok |-> e.ok, told |-> Heard(s.rt, s.told, kind, services)]
        BY <1>2 DEF Deliver
    <2>2. /\ Sound(e.rt) /\ Grows(s.rt, e.rt) /\ e.rt.states = s.rt.states
          /\ e.rt.active = s.rt.active /\ e.ok \in BOOLEAN
        BY DispatchSound
    <2> HIDE DEF e
    <2> QED
        BY <2>1, <2>2
<1> QED
    BY <1>1, <1>2

\* The four comparisons in a row.
LEMMA DeliverAllSound ==
    ASSUME NEW s, Sound(s.rt), s.ok \in BOOLEAN, NEW last, NEW services,
           NEW cb, cb.text \in Texts
    PROVE  LET d == DeliverAll(s, last, services, cb)
           IN  /\ Sound(d.rt) /\ Grows(s.rt, d.rt)
               /\ d.rt.states = s.rt.states /\ d.rt.active = s.rt.active
               /\ d.ok \in BOOLEAN
<1> DEFINE d1 == Deliver("minute", s, last, services, cb)
           d2 == Deliver("healthy", d1, last, services, cb)
           d3 == Deliver("usb", d2, last, services, cb)
           d4 == Deliver("network", d3, last, services, cb)
<1>0. DeliverAll(s, last, services, cb) = d4
    BY DEF DeliverAll
<1>1. /\ Sound(d1.rt) /\ Grows(s.rt, d1.rt) /\ d1.rt.states = s.rt.states
      /\ d1.rt.active = s.rt.active /\ d1.ok \in BOOLEAN
    BY DeliverSound
<1> HIDE DEF d1
<1>2. /\ Sound(d2.rt) /\ Grows(d1.rt, d2.rt) /\ d2.rt.states = d1.rt.states
      /\ d2.rt.active = d1.rt.active /\ d2.ok \in BOOLEAN
    BY <1>1, DeliverSound
<1> HIDE DEF d2
<1>3. /\ Sound(d3.rt) /\ Grows(d2.rt, d3.rt) /\ d3.rt.states = d2.rt.states
      /\ d3.rt.active = d2.rt.active /\ d3.ok \in BOOLEAN
    BY <1>2, DeliverSound
<1> HIDE DEF d3
<1>4. /\ Sound(d4.rt) /\ Grows(d3.rt, d4.rt) /\ d4.rt.states = d3.rt.states
      /\ d4.rt.active = d3.rt.active /\ d4.ok \in BOOLEAN
    BY <1>3, DeliverSound
<1> HIDE DEF d4
<1>5. s.rt \in Runtime /\ d1.rt \in Runtime /\ d2.rt \in Runtime /\ d3.rt \in Runtime
    BY <1>1, <1>2, <1>3 DEF Sound
<1>6. Grows(s.rt, d2.rt)
    BY <1>1, <1>2, <1>5, GrowsTwice
<1>7. Grows(s.rt, d3.rt)
    BY <1>3, <1>5, <1>6, GrowsTwice
<1>8. Grows(s.rt, d4.rt)
    BY <1>4, <1>5, <1>7, GrowsTwice
<1> QED
    BY <1>0, <1>1, <1>2, <1>3, <1>4, <1>8

\* application_runtime_bridge_service(): sound throughout, and ready is announced
\* only with an application in the foreground.
LEMMA BridgeSound ==
    ASSUME NEW r, Sound(r), NEW b \in Bridge, NEW t, NEW services \in Snapshot,
           NEW cb, cb.text \in Texts
    PROVE  LET s == BridgeService(r, b, t, services, cb)
           IN  /\ Sound(s.rt) /\ Grows(r, s.rt)
               /\ Backed(r) => Backed(s.rt)
               /\ ~r.initialized => s.rt.active = r.active
               /\ s.bridge \in Bridge
               /\ s.bridge.readySent => b.readySent \/ (r.initialized /\ s.rt.active # None)
<1> DEFINE s1 == IF r.initialized THEN Foreground(r, cb) ELSE Result(r, FALSE)
           s2 == IF ~s1.ok \/ b.readySent THEN s1 ELSE DispatchEvent(s1.rt, "ready", cb)
           b2 == [b EXCEPT !.readySent = @ \/ (s1.ok /\ s2.ok)]
           s3 == IF s2.ok /\ b.valid
                   THEN DeliverAll([rt |-> s2.rt, ok |-> TRUE, told |-> t], b.last, services, cb)
                   ELSE [rt |-> s2.rt, ok |-> s2.ok, told |-> IF s2.ok THEN services ELSE t]
           s4 == Service(s3.rt, cb)
           s == BridgeService(r, b, t, services, cb)
<1>0. s = IF s3.ok
            THEN [rt |-> s4.rt, ok |-> s4.ok, told |-> s3.told,
                  bridge |-> [b2 EXCEPT !.last = services, !.valid = TRUE]]
            ELSE [rt |-> s3.rt, ok |-> FALSE, told |-> s3.told, bridge |-> b2]
    BY DEF BridgeService
<1>1. /\ Sound(s1.rt) /\ Grows(r, s1.rt) /\ s1.ok \in BOOLEAN
      /\ Backed(r) => Backed(s1.rt)
      /\ s1.ok => r.initialized
      /\ ~r.initialized => s1.rt = r /\ s1.ok = FALSE
    <2>1. CASE r.initialized /\ r.active = None
        <3>1. s1 = Start(r, Home, cb)
            BY <2>1 DEF Foreground
        <3> QED
            BY <2>1, <3>1, HomeIsApp, StartSound
    <2>2. CASE ~(r.initialized /\ r.active = None)
        <3>1. s1 = [rt |-> r, ok |-> r.initialized] /\ Grows(r, r) /\ r.initialized \in BOOLEAN
            BY <2>2 DEF Foreground, Result, Sound, Runtime, Grows
        <3> HIDE DEF s1
        <3> QED
            BY <3>1
    <2> QED
        BY <2>1, <2>2
<1> HIDE DEF s1
<1>2. /\ Sound(s2.rt) /\ Grows(s1.rt, s2.rt) /\ s2.ok \in BOOLEAN
      /\ s2.rt.states = s1.rt.states /\ s2.rt.active = s1.rt.active
      /\ s1.ok /\ s2.ok => b.readySent \/ s2.rt.active # None
      /\ ~s1.ok => s2 = s1
    <2>1. CASE ~s1.ok \/ b.readySent
        BY <1>1, <2>1 DEF Grows
    <2>2. CASE ~(~s1.ok \/ b.readySent)
        <3>1. s2 = DispatchEvent(s1.rt, "ready", cb)
            BY <2>2
        <3> QED
            BY <1>1, <2>2, <3>1, DispatchSound DEF Running
    <2> QED
        BY <2>1, <2>2
<1>3. b2 \in Bridge /\ (b2.readySent => b.readySent \/ (s1.ok /\ s2.ok))
    BY DEF Bridge
<1> HIDE DEF s2, b2
<1>4. /\ Sound(s3.rt) /\ Grows(s2.rt, s3.rt) /\ s3.ok \in BOOLEAN
      /\ s3.rt.states = s2.rt.states /\ s3.rt.active = s2.rt.active
      /\ s3.ok => s2.ok
    <2>1. CASE s2.ok /\ b.valid
        <3> DEFINE a == [rt |-> s2.rt, ok |-> TRUE, told |-> t]
        <3>1. a.rt = s2.rt /\ a.ok \in BOOLEAN
            OBVIOUS
        <3>2. s3 = DeliverAll(a, b.last, services, cb)
            BY <2>1
        <3> HIDE DEF a, s3
        <3> QED
            BY <1>2, <2>1, <3>1, <3>2, DeliverAllSound
    <2>2. CASE ~(s2.ok /\ b.valid)
        BY <1>2, <2>2 DEF Grows
    <2> QED
        BY <2>1, <2>2
<1> HIDE DEF s3
<1>5. Sound(s4.rt) /\ Grows(s3.rt, s4.rt) /\ s4.rt.active = s3.rt.active
      /\ s4.rt.states = s3.rt.states
    BY <1>4, ServiceSound
<1> HIDE DEF s4
<1>6. Grows(r, s3.rt) /\ Grows(r, s4.rt)
    <2>1. /\ r \in Runtime /\ s1.rt \in Runtime /\ s2.rt \in Runtime
          /\ s3.rt \in Runtime /\ s4.rt \in Runtime
        BY <1>1, <1>2, <1>4, <1>5 DEF Sound
    <2>2. Grows(r, s2.rt)
        BY <1>1, <1>2, <2>1, GrowsTwice
    <2>3. Grows(r, s3.rt)
        BY <1>4, <2>1, <2>2, GrowsTwice
    <2> QED
        BY <1>5, <2>1, <2>3, GrowsTwice
<1>7. \E q \in {s3.rt, s4.rt} : s.rt = q
    BY <1>0
<1>8. PICK q \in {s3.rt, s4.rt} : s.rt = q
    BY <1>7
<1>9. /\ Sound(q) /\ Grows(r, q) /\ q.active = s1.rt.active /\ q.states = s1.rt.states
    BY <1>2, <1>4, <1>5, <1>6, <1>8
<1>10. s.bridge \in Bridge /\ s.bridge.readySent = b2.readySent
    <2> DEFINE b3 == [b2 EXCEPT !.last = services, !.valid = TRUE]
    <2>1. b3 \in Bridge /\ b3.readySent = b2.readySent
        BY <1>3 DEF Bridge
    <2> HIDE DEF b3
    <2>2. s.bridge = b3 \/ s.bridge = b2
        BY <1>0 DEF b3
    <2> QED
        BY <1>3, <2>1, <2>2
<1>11. Backed(r) => Backed(q)
    BY <1>1, <1>9 DEF Backed
<1> HIDE DEF s
<1>12. s.bridge.readySent => b.readySent \/ (r.initialized /\ q.active # None)
    BY <1>1, <1>2, <1>3, <1>9, <1>10
<1> QED
    BY <1>1, <1>8, <1>9, <1>10, <1>11, <1>12 DEF s

-----------------------------------------------------------------------------
(* The invariant of the calls *)

AppInv ==
    /\ Sound(rt)
    /\ ~rt.initialized => rt.active = None
    /\ bridge \in Bridge
    /\ bridge.readySent => rt.initialized /\ Backed(rt)
    /\ DirtyUntilShown
    /\ OkMeansRunning

\* A call that only replaces the runtime, by one it has soundly grown into.
LEMMA CallKeeps ==
    ASSUME AppInv, rt.initialized \/ rt' = rt, Sound(rt'), Grows(rt, rt'),
           Backed(rt) => Backed(rt'),
           bridge' = bridge, shown' = shown, OkMeansRunning'
    PROVE  AppInv'
<1>1. DirtyUntilShown'
    BY DEF AppInv, DirtyUntilShown, Grows
<1>2. rt' = rt \/ rt'.initialized
    BY DEF Grows
<1> QED
    BY <1>1, <1>2 DEF AppInv, Grows, Backed

\* Outcomes of the callbacks always carry a text.
LEMMA CallbackText == \A cb \in Callbacks : cb.text \in Texts
    BY DEF Callbacks

LEMMA AppInit == Init => AppInv
<1> SUFFICES ASSUME Init PROVE AppInv
    OBVIOUS
<1>1. /\ rt \in Runtime
      /\ rt.states = [a \in Apps |-> "REGISTERED"] /\ rt.active = None
      /\ rt.initialized = FALSE /\ rt.view = Blank
    BY AppAssumption DEF Init, Reset, Runtime, States, Views, Blank
<1>2. Settled(rt) /\ Owned(rt)
    BY <1>1, HomeIsApp DEF Settled, Owned, Running
<1>3. bridge \in Bridge /\ bridge.readySent = FALSE
    BY DEF Init, Bridge, NoSnapshot, Snapshot
<1>4. DirtyUntilShown /\ OkMeansRunning
    BY <1>1 DEF Init, DirtyUntilShown, OkMeansRunning, None
<1> QED
    BY <1>1, <1>2, <1>3, <1>4 DEF AppInv, Sound

\* application_runtime_bridge_initialize() on a runtime that is not initialized.
LEMMA InitializedSound ==
    ASSUME NEW r, Sound(r), ~r.initialized => r.active = None, NEW bad \in SUBSET Apps
    PROVE  LET q == Initialized(r, bad)
           IN  /\ Sound(q) /\ q.initialized /\ q.active = r.active
               /\ q.view = r.view /\ q.dirty = r.dirty
               /\ r.initialized => q = r
<1> DEFINE q == Initialized(r, bad)
<1>0. r \in Runtime
    BY DEF Sound
<1>1. CASE r.initialized
    BY <1>1 DEF Initialized
<1>2. CASE ~r.initialized
    <2>1. IsFiniteSet(bad) /\ Cardinality(bad) \in Nat
        <3>1. IsFiniteSet({Home}) /\ IsFiniteSet(Others)
            BY AppAssumption, FS_Singleton
        <3>2. IsFiniteSet(Apps)
            BY <3>1, FS_Union DEF Apps
        <3> QED
            BY <3>2, FS_Subset, FS_CardinalityType
    <2>2. InitFails(r.faults + Cardinality(bad)) \in 0 .. MaxCount
        BY <1>0, <2>1, AppAssumption DEF InitFails, Runtime
    <2>3. /\ q \in Runtime
          /\ q.initialized = TRUE /\ q.active = None /\ q.active = r.active
          /\ q.view = r.view /\ q.dirty = r.dirty
          /\ q.states = [a \in Apps |-> IF a \in bad THEN "FAILED" ELSE "STOPPED"]
        BY <1>0, <1>2, <2>2 DEF Initialized, Runtime, States
    <2> HIDE DEF q
    <2>4. Settled(q) /\ Owned(q)
        BY <2>3 DEF Settled, Owned, Running
    <2> QED
        BY <1>2, <2>3, <2>4 DEF Sound, q
<1> QED
    BY <1>1, <1>2

\* Every call keeps the invariant, and grows the runtime if it is initialized.
LEMMA AppStep ==
    ASSUME AppInv, [Next]_vars
    PROVE  AppInv' /\ (rt.initialized => \A a \in Apps : rt.states[a] = "FAILED"
                                                         => rt'.states[a] = "FAILED")
                   /\ (rt.active # None /\ rt.states[rt.active] = "FAILED"
                         => rt'.active = rt.active)
<1> DEFINE Lasts == /\ (rt.initialized => \A a \in Apps : rt.states[a] = "FAILED"
                                                          => rt'.states[a] = "FAILED")
                    /\ (rt.active # None /\ rt.states[rt.active] = "FAILED"
                          => rt'.active = rt.active)
<1>0. Grows(rt, rt') => Lasts
    BY DEF Grows
<1>1. CASE InitializeApplications
    <2>1. PICK bad \in SUBSET Apps : rt' = Initialized(rt, bad)
        BY <1>1 DEF InitializeApplications
    <2>2. /\ Sound(rt') /\ rt'.initialized /\ rt'.active = rt.active
          /\ rt'.view = rt.view /\ rt'.dirty = rt.dirty
          /\ rt.initialized => rt' = rt
        BY <2>1, InitializedSound DEF AppInv
    <2>3. ret'.call = "initialize" /\ UNCHANGED <<bridge, shown>>
        BY <1>1 DEF InitializeApplications, Called
    <2>4. Lasts
        BY <2>2
    <2> QED
        BY <2>2, <2>3, <2>4 DEF AppInv, DirtyUntilShown, OkMeansRunning
<1>2. CASE ServiceApplications
    <2>1. PICK services \in Snapshots, cb \in Callbacks :
             LET s == BridgeService(rt, bridge, told, services, cb)
             IN  /\ rt' = s.rt
                 /\ bridge' = s.bridge
                 /\ Called("service", None, s.ok)
                 /\ UNCHANGED shown
        BY <1>2 DEF ServiceApplications
    <2>2. services \in Snapshot /\ cb.text \in Texts
        BY CallbackText DEF Snapshots, Snapshot
    <2>3. /\ Sound(rt') /\ Grows(rt, rt') /\ (Backed(rt) => Backed(rt'))
          /\ ~rt.initialized => rt'.active = rt.active
          /\ bridge' \in Bridge
          /\ bridge'.readySent =>
                bridge.readySent \/ (rt.initialized /\ rt'.active # None)
        BY <2>1, <2>2, BridgeSound DEF AppInv
    <2>4. ret'.call = "service" /\ shown' = shown
        BY <2>1 DEF Called
    <2>5. DirtyUntilShown' /\ OkMeansRunning'
        BY <2>3, <2>4 DEF AppInv, DirtyUntilShown, OkMeansRunning, Grows
    <2>6. ~rt'.initialized => rt'.active = None
        BY <2>3 DEF AppInv, Grows
    <2>7. bridge'.readySent => rt'.initialized /\ Backed(rt')
        BY <2>3 DEF AppInv, Grows, Backed
    <2> QED
        BY <1>0, <2>3, <2>5, <2>6, <2>7 DEF AppInv
<1>3. CASE AppStart
    <2>1. PICK id \in Apps, cb \in Callbacks :
             LET s == Start(rt, id, cb)
             IN  /\ rt.initialized
                 /\ rt' = s.rt
                 /\ ret' = [call |-> "start", id |-> id, ok |-> s.ok]
                 /\ UNCHANGED <<bridge, shown>>
        BY <1>3 DEF AppStart, Called
    <2>2. cb.text \in Texts
        BY CallbackText
    <2>3. /\ Sound(rt') /\ Grows(rt, rt') /\ (Backed(rt) => Backed(rt'))
          /\ ret'.ok => rt'.active = id /\ Running(rt')
        BY <2>1, <2>2, StartSound DEF AppInv
    <2>4. OkMeansRunning'
        BY <2>1, <2>3 DEF OkMeansRunning
    <2> QED
        BY <1>0, <2>1, <2>3, <2>4, CallKeeps
<1>4. CASE AppStop
    <2>1. PICK cb \in Callbacks :
             LET s == Stop(rt, cb)
             IN  /\ rt.initialized
                 /\ rt' = s.rt
                 /\ ret' = [call |-> "stop", id |-> Home, ok |-> s.ok]
                 /\ UNCHANGED <<bridge, shown>>
        BY <1>4 DEF AppStop, Called
    <2>2. Sound(rt') /\ Grows(rt, rt') /\ (Backed(rt) => Backed(rt'))
        BY <2>1, CallbackText, StopSound DEF AppInv
    <2>3. OkMeansRunning'
        BY <2>1 DEF OkMeansRunning
    <2> QED
        BY <1>0, <2>1, <2>2, <2>3, CallKeeps
<1>5. CASE ConsumeView
    <2>1. /\ rt' = [rt EXCEPT !.dirty = FALSE] /\ shown' = rt.view /\ bridge' = bridge
          /\ ret'.call = "consume"
        BY <1>5 DEF ConsumeView, Called
    <2>2. /\ rt' \in Runtime
          /\ rt'.initialized = rt.initialized /\ rt'.active = rt.active
          /\ rt'.states = rt.states /\ rt'.view = rt.view /\ rt'.pending = rt.pending
        BY <2>1 DEF AppInv, Sound, Runtime
    <2>3. Sound(rt')
        BY <2>2 DEF AppInv, Sound, Settled, Owned, Running
    <2> QED
        BY <2>1, <2>2, <2>3 DEF AppInv, DirtyUntilShown, OkMeansRunning, Backed
<1>6. CASE UNCHANGED vars
    BY <1>6 DEF vars, AppInv, DirtyUntilShown, OkMeansRunning
<1> QED
    BY <1>1, <1>2, <1>3, <1>4, <1>5, <1>6 DEF Next

LEMMA RuntimeInvariant == Spec => []AppInv
<1>1. AppInv /\ [Next]_vars => AppInv'
    BY AppStep
<1> QED
    BY <1>1, AppInit, PTL DEF Spec

\* Between two calls, the life cycle is whole: no application is left in a transition,
\* only the foreground one runs, the home application is what failures fall back to,
\* and appstart's OK means that the application named runs.
THEOREM RuntimeLifecycle == Spec => []Lifecycle
<1>1. AppInv => Lifecycle
    BY DEF AppInv, Sound, Runtime, Settled, Backed, Lifecycle, TypeOK, LifecycleOK,
           HomeIsFallback, OkMeansRunning
<1> QED
    BY <1>1, RuntimeInvariant, PTL

\* What the user interface composes is the foreground application's view, and a view
\* the panel does not show is marked dirty.
THEOREM RuntimeViewIsCurrent == Spec => []ViewIsCurrent
<1>1. AppInv => ViewIsCurrent
    BY DEF AppInv, Sound, Owned, ViewIsCurrent, ViewOwned
<1> QED
    BY <1>1, RuntimeInvariant, PTL

\* A failed application never runs again, and an owner that could not be stopped
\* keeps the foreground.
THEOREM RuntimeFailuresLast == Spec => FailuresLast
<1>1. AppInv /\ [Next]_vars
        => [ /\ \A a \in Apps : (rt.initialized /\ rt.states[a] = "FAILED")
                                  => rt'.states[a] = "FAILED"
             /\ (rt.active # None /\ rt.states[rt.active] = "FAILED")
                  => rt'.active = rt.active ]_vars
    BY AppStep
<1> QED
    BY <1>1, RuntimeInvariant, PTL DEF Spec, FailuresLast

-----------------------------------------------------------------------------
(* What applications were told *)

\* While an application runs, and renderings do not fail, a change is delivered.
LEMMA DeliverTells ==
    ASSUME NEW s, Sound(s.rt), s.rt.initialized, s.told \in Snapshot, s.ok = TRUE,
           Running(s.rt), NEW kind \in Kinds, NEW last, NEW services \in Snapshot,
           s.told[kind] = last[kind], NEW cb, cb.text \in Texts, cb.fails # kind
    PROVE  LET d == Deliver(kind, s, last, services, cb)
           IN  /\ d.ok = TRUE /\ d.told \in Snapshot
               /\ d.told = [s.told EXCEPT ![kind] = services[kind]]
               /\ Sound(d.rt) /\ d.rt.initialized /\ Running(d.rt)
<1> DEFINE d == Deliver(kind, s, last, services, cb)
           e == DispatchEvent(s.rt, kind, cb)
           told2 == [s.told EXCEPT ![kind] = services[kind]]
<1>0. told2 \in Snapshot
    BY DEF Snapshot
<1>1. CASE services[kind] = last[kind]
    <2>1. d = s
        BY <1>1 DEF Deliver
    <2>2. told2 = s.told
        BY <1>1 DEF Snapshot
    <2> QED
        BY <1>0, <2>1, <2>2
<1>2. CASE services[kind] # last[kind]
    <2>1. d = [rt |-> e.rt, ok |-> e.ok, told |-> told2]
        BY <1>2 DEF Deliver, Heard
    <2>2. /\ Sound(e.rt) /\ Grows(s.rt, e.rt) /\ e.rt.states = s.rt.states
          /\ e.rt.active = s.rt.active /\ e.ok \in BOOLEAN /\ e.ok
        BY DispatchSound
    <2> HIDE DEF e, told2
    <2>3. e.rt.initialized /\ Running(e.rt)
        BY <2>2 DEF Grows, Running
    <2> QED
        BY <1>0, <2>1, <2>2, <2>3 DEF told2
<1> QED
    BY <1>1, <1>2

\* Without a running application nothing is delivered, and a change ends the call.
LEMMA DeliverWaits ==
    ASSUME NEW s, Sound(s.rt), s.ok \in BOOLEAN, ~Running(s.rt), NEW kind, NEW last,
           NEW services, NEW cb, cb.text \in Texts
    PROVE  LET d == Deliver(kind, s, last, services, cb)
           IN  /\ d.told = s.told /\ d.ok \in BOOLEAN
               /\ d.ok => s.ok /\ services[kind] = last[kind]
               /\ Sound(d.rt) /\ ~Running(d.rt)
<1> DEFINE d == Deliver(kind, s, last, services, cb)
           e == DispatchEvent(s.rt, kind, cb)
<1>1. CASE ~s.ok \/ services[kind] = last[kind]
    <2>1. d = s
        BY <1>1 DEF Deliver
    <2> QED
        BY <1>1, <2>1
<1>2. CASE s.ok /\ services[kind] # last[kind]
    <2>1. d = [rt |-> e.rt, ok |-> e.ok, told |-> s.told]
        BY <1>2 DEF Deliver, Heard
    <2>2. /\ Sound(e.rt) /\ e.rt.states = s.rt.states /\ e.rt.active = s.rt.active
          /\ e.ok \in BOOLEAN /\ ~e.ok
        BY DispatchSound
    <2> HIDE DEF e
    <2> QED
        BY <2>1, <2>2 DEF Running
<1> QED
    BY <1>1, <1>2

\* All four values: afterwards the snapshot is what was told, or nothing was told.
LEMMA DeliverAllTells ==
    ASSUME NEW s, Sound(s.rt), s.rt.initialized, s.told \in Snapshot, s.ok = TRUE,
           NEW services \in Snapshot, NEW cb, cb.text \in Texts, cb.fails \notin Kinds
    PROVE  LET d == DeliverAll(s, s.told, services, cb)
           IN  \/ d.ok = TRUE /\ d.told = services
               \/ d.ok = FALSE /\ d.told = s.told
<1> DEFINE d1 == Deliver("minute", s, s.told, services, cb)
           d2 == Deliver("healthy", d1, s.told, services, cb)
           d3 == Deliver("usb", d2, s.told, services, cb)
           d4 == Deliver("network", d3, s.told, services, cb)
<1>0. DeliverAll(s, s.told, services, cb) = d4
    BY DEF DeliverAll
<1>1. CASE Running(s.rt)
    <2>0. \A k \in Kinds : cb.fails # k
        OBVIOUS
    <2>1. /\ d1.ok = TRUE /\ d1.told \in Snapshot
          /\ d1.told = [s.told EXCEPT !["minute"] = services["minute"]]
          /\ Sound(d1.rt) /\ d1.rt.initialized /\ Running(d1.rt)
        BY <1>1, <2>0, DeliverTells DEF Kinds
    <2> HIDE DEF d1
    <2>2. /\ d2.ok = TRUE /\ d2.told \in Snapshot
          /\ d2.told = [d1.told EXCEPT !["healthy"] = services["healthy"]]
          /\ Sound(d2.rt) /\ d2.rt.initialized /\ Running(d2.rt)
        <3>1. "healthy" \in Kinds /\ d1.told["healthy"] = s.told["healthy"]
            BY <2>1 DEF Snapshot, Kinds
        <3> QED
            BY <2>0, <2>1, <3>1, DeliverTells
    <2> HIDE DEF d2
    <2>3. /\ d3.ok = TRUE /\ d3.told \in Snapshot
          /\ d3.told = [d2.told EXCEPT !["usb"] = services["usb"]]
          /\ Sound(d3.rt) /\ d3.rt.initialized /\ Running(d3.rt)
        <3>1. "usb" \in Kinds /\ d2.told["usb"] = s.told["usb"]
            BY <2>1, <2>2 DEF Snapshot, Kinds
        <3> QED
            BY <2>0, <2>2, <3>1, DeliverTells
    <2> HIDE DEF d3
    <2>4. /\ d4.ok = TRUE /\ d4.told \in Snapshot
          /\ d4.told = [d3.told EXCEPT !["network"] = services["network"]]
          /\ Sound(d4.rt) /\ d4.rt.initialized /\ Running(d4.rt)
        <3>1. "network" \in Kinds /\ d3.told["network"] = s.told["network"]
            BY <2>1, <2>2, <2>3 DEF Snapshot, Kinds
        <3> QED
            BY <2>0, <2>3, <3>1, DeliverTells
    <2> HIDE DEF d4
    <2>5. \A k \in Kinds : d4.told[k] = services[k]
        BY <2>1, <2>2, <2>3, <2>4 DEF Snapshot, Kinds
    <2>6. d4.told = services
        BY <2>4, <2>5 DEF Snapshot
    <2> QED
        BY <1>0, <2>4, <2>6
<1>2. CASE ~Running(s.rt)
    <2>1. /\ d1.told = s.told /\ d1.ok \in BOOLEAN
          /\ d1.ok => services["minute"] = s.told["minute"]
          /\ Sound(d1.rt) /\ ~Running(d1.rt)
        <3>1. s.ok \in BOOLEAN
            OBVIOUS
        <3> QED
            BY <1>2, <3>1, DeliverWaits
    <2> HIDE DEF d1
    <2>2. /\ d2.told = s.told /\ d2.ok \in BOOLEAN
          /\ d2.ok => d1.ok /\ services["healthy"] = s.told["healthy"]
          /\ Sound(d2.rt) /\ ~Running(d2.rt)
        BY <2>1, DeliverWaits
    <2> HIDE DEF d2
    <2>3. /\ d3.told = s.told /\ d3.ok \in BOOLEAN
          /\ d3.ok => d2.ok /\ services["usb"] = s.told["usb"]
          /\ Sound(d3.rt) /\ ~Running(d3.rt)
        BY <2>2, DeliverWaits
    <2> HIDE DEF d3
    <2>4. /\ d4.told = s.told /\ d4.ok \in BOOLEAN
          /\ d4.ok => d3.ok /\ services["network"] = s.told["network"]
        BY <2>3, DeliverWaits
    <2> HIDE DEF d4
    <2>5. ASSUME d4.ok
          PROVE  s.told = services
        <3>1. \A k \in Kinds : s.told[k] = services[k]
            BY <2>1, <2>2, <2>3, <2>4, <2>5 DEF Kinds
        <3> QED
            BY <3>1 DEF Snapshot
    <2> QED
        BY <1>0, <2>4, <2>5
<1> QED
    BY <1>1, <1>2

ToldInv == told \in Snapshot /\ ToldWhatBridgeKnows

\* The bridge's service moves what was told and what the bridge believes together.
LEMMA BridgeTells ==
    ASSUME NEW r, Sound(r), NEW b \in Bridge, NEW t \in Snapshot,
           b.valid => t = b.last, NEW services \in Snapshot,
           NEW cb, cb.text \in Texts, cb.fails \notin Kinds
    PROVE  LET s == BridgeService(r, b, t, services, cb)
           IN  /\ s.told \in Snapshot
               /\ s.bridge.valid => s.told = s.bridge.last
<1> DEFINE s1 == IF r.initialized THEN Foreground(r, cb) ELSE Result(r, FALSE)
           s2 == IF ~s1.ok \/ b.readySent THEN s1 ELSE DispatchEvent(s1.rt, "ready", cb)
           b2 == [b EXCEPT !.readySent = @ \/ (s1.ok /\ s2.ok)]
           s3 == IF s2.ok /\ b.valid
                   THEN DeliverAll([rt |-> s2.rt, ok |-> TRUE, told |-> t], b.last, services, cb)
                   ELSE [rt |-> s2.rt, ok |-> s2.ok, told |-> IF s2.ok THEN services ELSE t]
           s4 == Service(s3.rt, cb)
           s == BridgeService(r, b, t, services, cb)
<1>0. s = IF s3.ok
            THEN [rt |-> s4.rt, ok |-> s4.ok, told |-> s3.told,
                  bridge |-> [b2 EXCEPT !.last = services, !.valid = TRUE]]
            ELSE [rt |-> s3.rt, ok |-> FALSE, told |-> s3.told, bridge |-> b2]
    BY DEF BridgeService
<1>1. /\ Sound(s1.rt) /\ s1.ok \in BOOLEAN
      /\ s1.ok => s1.rt.initialized
    <2>1. CASE r.initialized /\ r.active = None
        <3>1. s1 = Start(r, Home, cb)
            BY <2>1 DEF Foreground
        <3> QED
            BY <2>1, <3>1, HomeIsApp, StartSound DEF Grows
    <2>2. CASE ~(r.initialized /\ r.active = None)
        <3>1. s1 = [rt |-> r, ok |-> r.initialized] /\ r.initialized \in BOOLEAN
            BY <2>2 DEF Foreground, Result, Sound, Runtime
        <3> HIDE DEF s1
        <3> QED
            BY <3>1
    <2> QED
        BY <2>1, <2>2
<1> HIDE DEF s1
<1>2. Sound(s2.rt) /\ s2.ok \in BOOLEAN /\ (s2.ok => s2.rt.initialized)
    <2>1. CASE ~s1.ok \/ b.readySent
        BY <1>1, <2>1
    <2>2. CASE ~(~s1.ok \/ b.readySent)
        <3>1. s2 = DispatchEvent(s1.rt, "ready", cb)
            BY <2>2
        <3> QED
            BY <1>1, <2>2, <3>1, DispatchSound DEF Grows
    <2> QED
        BY <2>1, <2>2
<1>3. b2 \in Bridge /\ b2.valid = b.valid /\ b2.last = b.last
    BY DEF Bridge
<1> HIDE DEF s2, b2
<1>4. \/ s3.ok = TRUE /\ s3.told = services
      \/ s3.ok = FALSE /\ s3.told = t
    <2>1. CASE s2.ok /\ b.valid
        <3> DEFINE a == [rt |-> s2.rt, ok |-> TRUE, told |-> t]
        <3>1. a.rt = s2.rt /\ a.ok = TRUE /\ a.told = t /\ t = b.last
            BY <2>1
        <3>2. s3 = DeliverAll(a, b.last, services, cb)
            BY <2>1
        <3>3. s3 = DeliverAll(a, a.told, services, cb)
            BY <3>1, <3>2
        <3> HIDE DEF a, s3
        <3> QED
            BY <1>2, <2>1, <3>1, <3>3, DeliverAllTells, ZenonT(60)
    <2>2. CASE ~(s2.ok /\ b.valid)
        BY <1>2, <2>2
    <2> QED
        BY <2>1, <2>2
<1> HIDE DEF s3, s4
<1> DEFINE b3 == [b2 EXCEPT !.last = services, !.valid = TRUE]
<1>5. b3.last = services
    BY <1>3 DEF Bridge
<1> HIDE DEF b3
<1>6. s.told = s3.told /\ s.bridge = IF s3.ok THEN b3 ELSE b2
    BY <1>0 DEF b3
<1> HIDE DEF s
<1>7. s.told \in Snapshot /\ (s.bridge.valid => s.told = s.bridge.last)
    BY <1>3, <1>4, <1>5, <1>6
<1> QED
    BY <1>7 DEF s

\* With renderings that do not fail, the application was told every change that the
\* bridge has noted: no minute, health or USB change is skipped, whatever starts, stops
\* and fails in between.
THEOREM RuntimeToldWhatBridgeKnows ==
    ASSUME "render" \notin MayFail
    PROVE  Spec => []ToldWhatBridgeKnows
<1>1. Init => ToldInv
    BY DEF Init, ToldInv, ToldWhatBridgeKnows, NoSnapshot, Snapshot
<1>2. ASSUME AppInv, ToldInv, [Next]_vars
      PROVE  ToldInv'
    <2>1. CASE ServiceApplications
        <3>1. PICK services \in Snapshots, cb \in Callbacks :
                 LET s == BridgeService(rt, bridge, told, services, cb)
                 IN  bridge' = s.bridge /\ told' = s.told
            BY <2>1 DEF ServiceApplications
        <3>2. services \in Snapshot /\ cb.text \in Texts
            BY CallbackText DEF Snapshots, Snapshot
        <3>3. cb.fails \notin Kinds
            <4>1. cb.fails \in {None} \union {}
                BY DEF Callbacks
            <4> QED
                BY <4>1 DEF None, Kinds
        <3> QED
            BY <1>2, <3>1, <3>2, <3>3, BridgeTells DEF AppInv, ToldInv, ToldWhatBridgeKnows
    <2>2. CASE UNCHANGED <<bridge, told>>
        BY <1>2, <2>2 DEF ToldInv, ToldWhatBridgeKnows
    <2> QED
        BY <1>2, <2>1, <2>2 DEF Next, InitializeApplications, AppStart, AppStop,
                                ConsumeView, vars
<1>3. ToldInv => ToldWhatBridgeKnows
    BY DEF ToldInv
<1> QED
    BY <1>1, <1>2, <1>3, RuntimeInvariant, PTL DEF Spec

-----------------------------------------------------------------------------
(* Part two: the screen.  The framebuffer and its dirty spans *)

UiSnap == [phase : {"SPLASH", "HOME"}, minute : 0 .. (Saturate - 1), healthy : {0, 1},
           usb : {0, 1}]

\* What the display code keeps, in its ranges; a dirty span is one interval.
Screen(s) ==
    /\ s = [fb |-> s.fb, dirty |-> s.dirty, panel |-> s.panel, on |-> s.on,
            status |-> s.status, console |-> s.console]
    /\ s.fb = [k \in Cells |-> s.fb[k]]
    /\ s.panel = [k \in Cells |-> s.panel[k]]
    /\ s.dirty \in [Pages -> SUBSET Cols]
    /\ \A p \in Pages : s.dirty[p] = Span(s.dirty[p])
    /\ s.on \in BOOLEAN
    /\ s.status \in [value : UiSnap, dirty : SUBSET Cols]
    /\ s.console = [rows |-> s.console.rows, first |-> s.console.first,
                    dirty |-> s.console.dirty]
    /\ s.console.rows = [r \in Rows |-> s.console.rows[r]]
    /\ s.console.first \in Rows
    /\ s.console.dirty \subseteq Rows

\* What is not dirty is on the panel.
CleanSent(s) == \A k \in Cells : k[2] \notin s.dirty[k[1]] => s.panel[k] = s.fb[k]

\* Min and Max are defined by CHOOSE: three columns are few enough to exhibit them.
LEMMA ColsBounds ==
    ASSUME NEW S \in SUBSET Cols, S # {}
    PROVE  /\ Min(S) \in S /\ Max(S) \in S
           /\ \A c \in S : Min(S) <= c /\ c <= Max(S)
<1>1. \E m \in S : \A c \in S : m =< c
  <2>1. CASE 1 \in S
      BY <2>1 DEF Cols
  <2>2. CASE 1 \notin S /\ 2 \in S
      BY <2>2 DEF Cols
  <2>3. CASE 1 \notin S /\ 2 \notin S
    <3>1. \A c \in S : c = 3
        BY <2>3 DEF Cols
    <3>2. 3 \in S
        BY <3>1
    <3> QED
        BY <3>1, <3>2
  <2> QED
      BY <2>1, <2>2, <2>3
<1>2. \E m \in S : \A c \in S : m >= c
  <2>1. CASE 3 \in S
      BY <2>1 DEF Cols
  <2>2. CASE 3 \notin S /\ 2 \in S
      BY <2>2 DEF Cols
  <2>3. CASE 3 \notin S /\ 2 \notin S
    <3>1. \A c \in S : c = 1
        BY <2>3 DEF Cols
    <3>2. 1 \in S
        BY <3>1
    <3> QED
        BY <3>1, <3>2
  <2> QED
      BY <2>1, <2>2, <2>3
<1>3. Min(S) \in S /\ \A c \in S : Min(S) =< c
    BY <1>1 DEF Min
<1>4. Max(S) \in S /\ \A c \in S : Max(S) >= c
    BY <1>2 DEF Max
<1> QED
    BY <1>3, <1>4 DEF Cols

\* mono_fb_mark_page_x(): the span holds what was marked and is an interval.
LEMMA SpanHolds ==
    ASSUME NEW S \in SUBSET Cols
    PROVE  /\ S \subseteq Span(S) /\ Span(S) \in SUBSET Cols
           /\ Span(Span(S)) = Span(S)
<1>1. CASE S = {}
    BY <1>1 DEF Span
<1>2. CASE S # {}
  <2>1. /\ Min(S) \in S /\ Max(S) \in S
        /\ \A c \in S : Min(S) <= c /\ c <= Max(S)
      BY <1>2, ColsBounds
  <2>2. Span(S) = Min(S) .. Max(S)
      BY <1>2 DEF Span
  <2>3. S \subseteq Span(S) /\ Span(S) \in SUBSET Cols /\ Span(S) # {}
    <3>1. Min(S) \in 1 .. 3 /\ Max(S) \in 1 .. 3 /\ S \subseteq 1 .. 3
        BY <2>1 DEF Cols
    <3>2. \A c \in S : c \in Min(S) .. Max(S)
        BY <2>1, <3>1
    <3>3. \A c \in Min(S) .. Max(S) : c \in 1 .. 3
        BY <3>1
    <3> QED
        BY <1>2, <2>2, <3>2, <3>3 DEF Cols
  <2> DEFINE T == Span(S)
  <2>4. /\ Min(T) \in T /\ Max(T) \in T
        /\ \A c \in T : Min(T) <= c /\ c <= Max(T)
      BY <2>3, ColsBounds
  <2>5. Min(T) = Min(S) /\ Max(T) = Max(S)
    <3>1. Min(S) \in 1 .. 3 /\ Max(S) \in 1 .. 3 /\ Min(T) \in 1 .. 3 /\ Max(T) \in 1 .. 3
        BY <2>1, <2>3, <2>4 DEF Cols
    <3>2. Min(S) \in T /\ Max(S) \in T
        BY <2>1, <2>3
    <3>3. Min(S) <= Min(T) /\ Max(T) <= Max(S)
        BY <2>2, <2>4, <3>1
    <3> QED
        BY <2>4, <3>1, <3>2, <3>3
  <2>6. Span(T) = Min(T) .. Max(T)
      BY <2>3 DEF Span
  <2> QED
      BY <2>2, <2>3, <2>5, <2>6
<1> QED
    BY <1>1, <1>2

\* A cell is a page and a column.
LEMMA CellParts ==
    /\ \A k \in Cells : k[1] \in Pages /\ k[2] \in Cols /\ k = <<k[1], k[2]>>
    /\ \A p \in Pages, c \in Cols : <<p, c>> \in Cells
BY DEF Cells

\* Drawing changes cells of the framebuffer and marks them.
LEMMA DrawMarks ==
    ASSUME NEW s, Screen(s), NEW f
    PROVE  LET d == Draw(s, f)
           IN  /\ Screen(d)
               /\ d.panel = s.panel /\ d.on = s.on /\ d.status = s.status
               /\ d.console = s.console
               /\ d.fb = [k \in Cells |-> IF k \in DOMAIN f THEN f[k] ELSE s.fb[k]]
               /\ \A p \in Pages : s.dirty[p] \subseteq d.dirty[p]
               /\ CleanSent(s) => CleanSent(d)
<1> DEFINE d == Draw(s, f)
           fb == [k \in Cells |-> IF k \in DOMAIN f THEN f[k] ELSE s.fb[k]]
           dirty == [p \in Pages |-> Mark(s, f, p)]
<1>1. d = [s EXCEPT !.fb = fb, !.dirty = dirty]
    BY DEF Draw
<1>2. \A p \in Pages : s.dirty[p] \union Changed(s, f, p) \in SUBSET Cols
    BY DEF Screen, Changed
<1>3. \A p \in Pages : /\ dirty[p] \in SUBSET Cols
                       /\ s.dirty[p] \subseteq dirty[p] /\ Changed(s, f, p) \subseteq dirty[p]
                       /\ dirty[p] = Span(dirty[p])
    BY <1>2, SpanHolds DEF Mark
<1>4. dirty \in [Pages -> SUBSET Cols] /\ fb = [k \in Cells |-> fb[k]]
    BY <1>3
<1> HIDE DEF fb, dirty
<1>5. d = [fb |-> fb, dirty |-> dirty, panel |-> s.panel, on |-> s.on,
           status |-> s.status, console |-> s.console]
    BY <1>1 DEF Screen
<1>6. /\ d.fb = fb /\ d.dirty = dirty /\ d.panel = s.panel /\ d.on = s.on
      /\ d.status = s.status /\ d.console = s.console
    BY <1>5
<1> HIDE DEF d
<1>7. Screen(d)
    BY <1>3, <1>4, <1>5, <1>6 DEF Screen
<1>8. CleanSent(s) => CleanSent(d)
  <2> SUFFICES ASSUME CleanSent(s), NEW k \in Cells, k[2] \notin dirty[k[1]]
               PROVE  s.panel[k] = fb[k]
      BY <1>6 DEF CleanSent
  <2>1. k[1] \in Pages /\ k[2] \in Cols /\ k = <<k[1], k[2]>>
      BY CellParts
  <2>2. k[2] \notin s.dirty[k[1]] /\ k[2] \notin Changed(s, f, k[1])
      BY <1>3, <2>1
  <2>3. s.panel[k] = s.fb[k]
      BY <2>2 DEF CleanSent
  <2>4. ~(k \in DOMAIN f /\ f[k] # s.fb[k])
      BY <2>1, <2>2 DEF Changed
  <2> QED
      BY <2>3, <2>4 DEF fb
<1> QED
    BY <1>3, <1>6, <1>7, <1>8 DEF d, fb

\* Marking everything makes every promise about clean cells true.
LEMMA MarkAllMarks ==
    ASSUME NEW s, Screen(s)
    PROVE  LET d == MarkAllDirty(s)
           IN  /\ Screen(d) /\ CleanSent(d)
               /\ d.fb = s.fb /\ d.panel = s.panel /\ d.on = s.on /\ d.status = s.status
               /\ d.console = s.console
<1> DEFINE d == MarkAllDirty(s)
           dirty == [p \in Pages |-> Cols]
<1>1. Cols = Span(Cols)
  <2>1. Min(Cols) = 1 /\ Max(Cols) = 3
    <3>1. Cols \in SUBSET Cols /\ Cols # {} /\ 1 \in Cols /\ 3 \in Cols
        BY DEF Cols
    <3>2. /\ Min(Cols) \in Cols /\ Max(Cols) \in Cols
          /\ Min(Cols) <= 1 /\ 3 <= Max(Cols)
        BY <3>1, ColsBounds
    <3> QED
        BY <3>2 DEF Cols
  <2>2. Cols # {}
      BY DEF Cols
  <2> QED
      BY <2>1, <2>2 DEF Span, Cols
<1>2. dirty \in [Pages -> SUBSET Cols] /\ \A p \in Pages : dirty[p] = Cols
    OBVIOUS
<1> HIDE DEF dirty
<1>3. d = [fb |-> s.fb, dirty |-> dirty, panel |-> s.panel, on |-> s.on,
           status |-> s.status, console |-> s.console]
    BY DEF Screen, MarkAllDirty, dirty
<1>4. /\ d.fb = s.fb /\ d.dirty = dirty /\ d.panel = s.panel /\ d.on = s.on
      /\ d.status = s.status /\ d.console = s.console
    BY <1>3
<1> HIDE DEF d
<1>5. Screen(d)
    BY <1>1, <1>2, <1>3, <1>4 DEF Screen
<1>6. CleanSent(d)
    BY <1>2, <1>4, CellParts DEF CleanSent
<1> QED
    BY <1>4, <1>5, <1>6 DEF d

\* What the operations that only touch the status bar or the console leave alone.
SamePicture(s, d) ==
    d.fb = s.fb /\ d.dirty = s.dirty /\ d.panel = s.panel /\ d.on = s.on

\* Whether what is clean was sent depends on the picture only.
LEMMA CleanOfPicture ==
    ASSUME NEW s, NEW d, SamePicture(s, d)
    PROVE  CleanSent(s) <=> CleanSent(d)
BY DEF SamePicture, CleanSent

-----------------------------------------------------------------------------
(* The status bar *)

Moved(old, snap) == {c \in {1, 3} : StatusCell(c, old) # StatusCell(c, snap)}

\* oled_status_bar_set_indicators() and _set_time(): what changes is marked.
LEMMA StatusSetMarks ==
    ASSUME NEW s, Screen(s), NEW snap \in UiSnap
    PROVE  LET d == StatusSet(s, snap)
           IN  /\ Screen(d) /\ SamePicture(s, d) /\ d.console = s.console
               /\ d.status = [value |-> snap,
                              dirty |-> s.status.dirty \union Moved(s.status.value, snap)]
<1> DEFINE d == StatusSet(s, snap)
           dirty == s.status.dirty \union Moved(s.status.value, snap)
           status == [value |-> snap, dirty |-> dirty]
<1>1. s.status \in [value : UiSnap, dirty : SUBSET Cols]
    BY DEF Screen
<1>2. dirty \in SUBSET Cols
    BY <1>1 DEF Moved, Cols
<1>3. status \in [value : UiSnap, dirty : SUBSET Cols]
    BY <1>2
<1>4. d = [s EXCEPT !.status.value = snap, !.status.dirty = @ \union Moved(s.status.value, snap)]
    BY DEF StatusSet, Moved
<1> HIDE DEF dirty
<1>5. d = [fb |-> s.fb, dirty |-> s.dirty, panel |-> s.panel, on |-> s.on,
           status |-> status, console |-> s.console]
    BY <1>1, <1>4 DEF Screen, dirty
<1>6. /\ d.fb = s.fb /\ d.dirty = s.dirty /\ d.panel = s.panel /\ d.on = s.on
      /\ d.status = status /\ d.console = s.console
    BY <1>5
<1> HIDE DEF d, status
<1>7. Screen(d)
    BY <1>3, <1>5, <1>6 DEF Screen
<1> QED
    BY <1>6, <1>7 DEF SamePicture, d, status, dirty

\* oled_status_bar_mark_all_dirty().
LEMMA StatusMarkAllMarks ==
    ASSUME NEW s, Screen(s)
    PROVE  LET d == StatusMarkAll(s)
           IN  /\ Screen(d) /\ SamePicture(s, d) /\ d.console = s.console
               /\ d.status = [value |-> s.status.value, dirty |-> Cols]
<1> DEFINE d == StatusMarkAll(s)
           status == [value |-> s.status.value, dirty |-> Cols]
<1>1. s.status \in [value : UiSnap, dirty : SUBSET Cols]
    BY DEF Screen
<1>2. status \in [value : UiSnap, dirty : SUBSET Cols]
    BY <1>1
<1>3. d = [fb |-> s.fb, dirty |-> s.dirty, panel |-> s.panel, on |-> s.on,
           status |-> status, console |-> s.console]
    BY <1>1 DEF StatusMarkAll, Screen
<1>4. /\ d.fb = s.fb /\ d.dirty = s.dirty /\ d.panel = s.panel /\ d.on = s.on
      /\ d.status = status /\ d.console = s.console
    BY <1>3
<1> HIDE DEF d, status
<1>5. Screen(d)
    BY <1>2, <1>3, <1>4 DEF Screen
<1> QED
    BY <1>4, <1>5 DEF SamePicture, d, status

\* oled_status_bar_render(): the marked parts are drawn and no longer marked.
LEMMA StatusRenderDraws ==
    ASSUME NEW s, Screen(s)
    PROVE  LET d == StatusRender(s)
           IN  /\ Screen(d)
               /\ d.panel = s.panel /\ d.on = s.on /\ d.console = s.console
               /\ d.status = [value |-> s.status.value, dirty |-> {}]
               /\ \A k \in Cells :
                    d.fb[k] = IF k[1] = 0 /\ k[2] \in s.status.dirty
                              THEN StatusCell(k[2], s.status.value) ELSE s.fb[k]
               /\ CleanSent(s) => CleanSent(d)
<1> DEFINE at == {<<0, c>> : c \in s.status.dirty}
           f == [k \in at |-> StatusCell(k[2], s.status.value)]
           e == Draw(s, f)
           d == StatusRender(s)
           status == [value |-> s.status.value, dirty |-> {}]
<1>1. /\ Screen(e) /\ e.panel = s.panel /\ e.on = s.on /\ e.console = s.console
      /\ e.status = s.status
      /\ e.fb = [k \in Cells |-> IF k \in DOMAIN f THEN f[k] ELSE s.fb[k]]
      /\ CleanSent(s) => CleanSent(e)
    BY DrawMarks
<1>2. \A k \in Cells : k \in at <=> k[1] = 0 /\ k[2] \in s.status.dirty
    BY CellParts
<1>3. DOMAIN f = at /\ \A k \in at : f[k] = StatusCell(k[2], s.status.value)
    OBVIOUS
<1>4. d = [e EXCEPT !.status.dirty = {}]
    BY DEF StatusRender
<1> HIDE DEF e, f, at
<1>5. \A k \in Cells : e.fb[k] = IF k[1] = 0 /\ k[2] \in s.status.dirty
                                THEN StatusCell(k[2], s.status.value) ELSE s.fb[k]
    BY <1>1, <1>2, <1>3
<1>6. e.status \in [value : UiSnap, dirty : SUBSET Cols]
    BY <1>1 DEF Screen
<1>7. status \in [value : UiSnap, dirty : SUBSET Cols]
    BY <1>1, <1>6
<1>8. d = [fb |-> e.fb, dirty |-> e.dirty, panel |-> e.panel, on |-> e.on,
           status |-> status, console |-> e.console]
    BY <1>1, <1>4, <1>6 DEF Screen
<1>9. /\ d.fb = e.fb /\ d.dirty = e.dirty /\ d.panel = e.panel /\ d.on = e.on
      /\ d.status = status /\ d.console = e.console
    BY <1>8
<1> HIDE DEF d, status
<1>10. Screen(d)
    BY <1>1, <1>7, <1>8, <1>9 DEF Screen
<1>11. CleanSent(s) => CleanSent(d)
    BY <1>1, <1>9, CleanOfPicture DEF SamePicture
<1> QED
    BY <1>1, <1>5, <1>9, <1>10, <1>11 DEF d, status

\* What the composition of the status bar shows, over a screen that showed the last
\* snapshot or over an empty one.
ShowsStatus(s, snap) == \A k \in Cells : k[1] = 0 => s.fb[k] = StatusCell(k[2], snap)

LEMMA ComposeStatusShows ==
    ASSUME NEW s, Screen(s), NEW snap \in UiSnap, NEW full \in BOOLEAN
    PROVE  LET d == ComposeStatus(s, snap, full)
           IN  /\ Screen(d)
               /\ d.panel = s.panel /\ d.on = s.on /\ d.console = s.console
               /\ d.status = [value |-> snap, dirty |-> {}]
               /\ full \/ CleanSent(s) => CleanSent(d)
               /\ full => ShowsStatus(d, snap) /\ \A k \in Cells : k[1] # 0 => d.fb[k] = Empty
               /\ ~full => \A k \in Cells : k[1] # 0 => d.fb[k] = s.fb[k]
               /\ ~full /\ ShowsStatus(s, s.status.value) => ShowsStatus(d, snap)
<1> DEFINE s1 == StatusSet(s, snap)
           c == ClearFb(s1)
           m == MarkAllDirty(c)
           a == StatusMarkAll(m)
           d == ComposeStatus(s, snap, full)
<1>1. /\ Screen(s1) /\ SamePicture(s, s1) /\ s1.console = s.console
      /\ s1.status = [value |-> snap,
                      dirty |-> s.status.dirty \union Moved(s.status.value, snap)]
    BY StatusSetMarks
<1> HIDE DEF s1
<1>2. CASE full
  <2>1. /\ Screen(c) /\ c.panel = s1.panel /\ c.on = s1.on /\ c.console = s1.console
        /\ c.status = s1.status /\ \A k \in Cells : c.fb[k] = Empty
    <3> DEFINE f == [k \in Cells |-> Empty]
    <3>1. c = Draw(s1, f) /\ DOMAIN f = Cells /\ \A k \in Cells : f[k] = Empty
        BY DEF ClearFb
    <3> HIDE DEF f, c
    <3>2. /\ Screen(c) /\ c.panel = s1.panel /\ c.on = s1.on /\ c.console = s1.console
          /\ c.status = s1.status
          /\ c.fb = [k \in Cells |-> IF k \in DOMAIN f THEN f[k] ELSE s1.fb[k]]
        BY <1>1, <3>1, DrawMarks
    <3> QED
        BY <3>1, <3>2
  <2> HIDE DEF c
  <2>2. /\ Screen(m) /\ CleanSent(m)
        /\ m.fb = c.fb /\ m.panel = c.panel /\ m.on = c.on /\ m.status = c.status
        /\ m.console = c.console
      BY <2>1, MarkAllMarks
  <2> HIDE DEF m
  <2>3. /\ Screen(a) /\ SamePicture(m, a) /\ a.console = m.console
        /\ a.status = [value |-> m.status.value, dirty |-> Cols]
      BY <2>2, StatusMarkAllMarks
  <2> HIDE DEF a
  <2>4. d = StatusRender(a)
      BY <1>2 DEF ComposeStatus, s1, c, m, a
  <2> HIDE DEF d
  <2>5. /\ Screen(d)
        /\ d.panel = a.panel /\ d.on = a.on /\ d.console = a.console
        /\ d.status = [value |-> a.status.value, dirty |-> {}]
        /\ \A k \in Cells :
             d.fb[k] = IF k[1] = 0 /\ k[2] \in a.status.dirty
                       THEN StatusCell(k[2], a.status.value) ELSE a.fb[k]
        /\ CleanSent(a) => CleanSent(d)
      BY <2>3, <2>4, StatusRenderDraws
  <2>6. a.status.value = snap /\ a.status.dirty = Cols
      BY <1>1, <2>1, <2>2, <2>3
  <2>7. ShowsStatus(d, snap) /\ \A k \in Cells : k[1] # 0 => d.fb[k] = Empty
      BY <2>1, <2>2, <2>3, <2>5, <2>6, CellParts DEF ShowsStatus, SamePicture
  <2>8. CleanSent(d)
      BY <2>2, <2>3, <2>5, CleanOfPicture
  <2> QED
      BY <1>1, <1>2, <2>1, <2>2, <2>3, <2>5, <2>6, <2>7, <2>8 DEF SamePicture, d
<1>3. CASE ~full
  <2>1. d = StatusRender(s1)
      BY <1>3 DEF ComposeStatus, s1
  <2> HIDE DEF d
  <2>2. /\ Screen(d)
        /\ d.panel = s1.panel /\ d.on = s1.on /\ d.console = s1.console
        /\ d.status = [value |-> s1.status.value, dirty |-> {}]
        /\ \A k \in Cells :
             d.fb[k] = IF k[1] = 0 /\ k[2] \in s1.status.dirty
                       THEN StatusCell(k[2], s1.status.value) ELSE s1.fb[k]
        /\ CleanSent(s1) => CleanSent(d)
      BY <1>1, <2>1, StatusRenderDraws
  <2>3. \A k \in Cells : k[1] # 0 => d.fb[k] = s.fb[k]
      BY <1>1, <2>2 DEF SamePicture
  <2>4. ShowsStatus(s, s.status.value) => ShowsStatus(d, snap)
    <3> SUFFICES ASSUME ShowsStatus(s, s.status.value), NEW k \in Cells, k[1] = 0
                 PROVE  d.fb[k] = StatusCell(k[2], snap)
        BY DEF ShowsStatus
    <3>1. CASE k[2] \in s1.status.dirty
        BY <1>1, <2>2, <3>1
    <3>2. CASE k[2] \notin s1.status.dirty
      <4>1. d.fb[k] = StatusCell(k[2], s.status.value)
          BY <1>1, <2>2, <3>2 DEF SamePicture, ShowsStatus
      <4>2. k[2] \notin Moved(s.status.value, snap)
          BY <1>1, <3>2
      <4>3. k[2] \in Cols
          BY CellParts
      <4>4. CASE k[2] \in {1, 3}
          BY <4>1, <4>2, <4>4 DEF Moved
      <4>5. CASE k[2] = 2
        <5>1. StatusCell(2, s.status.value) = <<"frame">> /\ StatusCell(2, snap) = <<"frame">>
            BY DEF StatusCell
        <5> QED
            BY <4>1, <4>5, <5>1
      <4> QED
          BY <4>3, <4>4, <4>5 DEF Cols
    <3> QED
        BY <3>1, <3>2
  <2>5. CleanSent(s) => CleanSent(d)
      BY <1>1, <2>2, CleanOfPicture
  <2> QED
      BY <1>1, <1>3, <2>2, <2>3, <2>4, <2>5 DEF SamePicture, d
<1> QED
    BY <1>2, <1>3

-----------------------------------------------------------------------------
(* The console *)

\* The three rows of one text, all of them drawn or all of them waiting.
Page3(text, dirty) == [rows |-> [r \in Rows |-> <<text, r>>], first |-> 0, dirty |-> dirty]

\* The console's rows on the screen.
ShowsConsole(s, text, L) ==
    \A k \in Cells : InConsole(k, L) => s.fb[k] = <<<<text, k[1] - L.y>>, k[2] - L.x>>

\* Replacing the console's content touches nothing else.
Replaced(s, rows, first, dirty) ==
    [s EXCEPT !.console = [rows |-> rows, first |-> first, dirty |-> dirty]]

LEMMA ConsoleReplaced ==
    ASSUME NEW s, Screen(s), NEW rows, NEW first \in Rows, NEW dirty \in SUBSET Rows,
           rows = [r \in Rows |-> rows[r]]
    PROVE  LET d == Replaced(s, rows, first, dirty)
           IN  /\ Screen(d) /\ SamePicture(s, d) /\ d.status = s.status
               /\ d.console = [rows |-> rows, first |-> first, dirty |-> dirty]
<1> DEFINE d == Replaced(s, rows, first, dirty)
<1> DEFINE console == [rows |-> rows, first |-> first, dirty |-> dirty]
<1>0. console.rows = rows /\ console.first = first /\ console.dirty = dirty
    OBVIOUS
<1> HIDE DEF console
<1>1. d = [fb |-> s.fb, dirty |-> s.dirty, panel |-> s.panel, on |-> s.on,
           status |-> s.status, console |-> console]
    BY DEF Screen, console, Replaced
<1> HIDE DEF d
<1>2. /\ d.fb = s.fb /\ d.dirty = s.dirty /\ d.panel = s.panel /\ d.on = s.on
      /\ d.status = s.status /\ d.console = console
    BY <1>1
<1>3. console = [rows |-> console.rows, first |-> console.first, dirty |-> console.dirty]
    BY DEF console
<1>4. Screen(d)
    BY <1>0, <1>1, <1>2, <1>3 DEF Screen
<1> QED
    BY <1>2, <1>4 DEF SamePicture, console, d

\* The console filled with one text: all of its rows wait to be drawn.
LEMMA ConsoleFilledFills ==
    ASSUME NEW s, Screen(s), NEW text, NEW first \in Rows
    PROVE  LET d == ConsoleFilled(s, text, first)
           IN  /\ Screen(d) /\ SamePicture(s, d) /\ d.status = s.status
               /\ first = 0 => d.console = Page3(text, Rows)
<1> DEFINE d == ConsoleFilled(s, text, first)
           rows == [r \in Rows |-> <<text, (r + 3 - first) % 3>>]
<1>1. d = Replaced(s, rows, first, Rows)
    BY DEF ConsoleFilled, Replaced
<1>2. rows = [r \in Rows |-> rows[r]] /\ Rows \in SUBSET Rows
    OBVIOUS
<1>3. first = 0 => rows = [r \in Rows |-> <<text, r>>]
  <2>1. \A r \in Rows : (r + 3) % 3 = r
      BY DEF Rows
  <2>2. first = 0 => \A r \in Rows : (r + 3 - first) % 3 = r
      BY <2>1 DEF Rows
  <2> QED
      BY <2>2
<1> HIDE DEF rows, d
<1>4. /\ Screen(d) /\ SamePicture(s, d) /\ d.status = s.status
      /\ d.console = [rows |-> rows, first |-> first, dirty |-> Rows]
    BY <1>1, <1>2, ConsoleReplaced
<1> QED
    BY <1>3, <1>4 DEF d, Page3

Rewritten(c, rows, first, more) ==
    [c EXCEPT !.rows = rows, !.first = first, !.dirty = @ \union more]

LEMMA ConsoleRecord ==
    ASSUME NEW s, Screen(s), NEW rows, NEW first, NEW more
    PROVE  Rewritten(s.console, rows, first, more)
             = [rows |-> rows, first |-> first, dirty |-> s.console.dirty \union more]
<1> DEFINE c == s.console
           a == c.rows
           b == c.first
           e == c.dirty
           q == Rewritten(c, rows, first, more)
           dirty == e \union more
<1>0. c = [rows |-> a, first |-> b, dirty |-> e]
    BY DEF Screen
<1> HIDE DEF c, a, b, e
<1>1. c \in [rows : {a}, first : {b}, dirty : {e}]
    BY <1>0
<1>2. q \in [rows : {rows}, first : {first}, dirty : {dirty}]
    BY <1>1 DEF Rewritten
<1> HIDE DEF q, dirty
<1>3. q = [rows |-> rows, first |-> first, dirty |-> dirty]
    BY <1>2
<1> QED
    BY <1>3 DEF q, dirty, e, c

\* application_runtime_bridge_apply_view(): rows that change are marked.
LEMMA ApplyViewMarks ==
    ASSUME NEW s, Screen(s), NEW text, NEW force \in BOOLEAN
    PROVE  LET d == ApplyView(s, text, force)
           IN  /\ Screen(d) /\ SamePicture(s, d) /\ d.status = s.status
               /\ \E dirty \in SUBSET Rows :
                    /\ d.console = Page3(text, dirty)
                    /\ force => dirty = Rows
                    /\ \A old : s.console = Page3(old, {}) /\ old # text => dirty = Rows
<1> DEFINE d == ApplyView(s, text, force)
           rows == [r \in Rows |-> <<text, r>>]
           more == IF force \/ s.console.first # 0 THEN Rows
                   ELSE {r \in Rows : s.console.rows[r] # <<text, r>>}
           dirty == s.console.dirty \union more
<1>1. d = Replaced(s, rows, 0, dirty)
  <2>2. d = [s EXCEPT !.console.rows = rows, !.console.first = 0,
                      !.console.dirty = @ \union more]
      BY DEF ApplyView
  <2> HIDE DEF rows, more
  <2> HIDE DEF d
  <2> DEFINE q == Rewritten(s.console, rows, 0, more)
  <2>3. q = [rows |-> rows, first |-> 0, dirty |-> s.console.dirty \union more]
      BY ConsoleRecord
  <2>4. d = [s EXCEPT !.console = q]
      BY <2>2 DEF Screen, Rewritten
  <2> HIDE DEF q
  <2> QED
      BY <2>3, <2>4 DEF Replaced
<1>2. rows = [r \in Rows |-> rows[r]] /\ dirty \in SUBSET Rows /\ 0 \in Rows
    BY DEF Screen, Rows
<1>3. force => dirty = Rows
    BY <1>2
<1>4. ASSUME NEW old, s.console = Page3(old, {}), old # text
      PROVE  dirty = Rows
  <2>1. s.console.first = 0 /\ \A r \in Rows : s.console.rows[r] = <<old, r>>
      BY <1>4 DEF Page3
  <2>2. \A r \in Rows : s.console.rows[r] # <<text, r>>
      BY <1>4, <2>1
  <2> QED
      BY <1>2, <2>1, <2>2
<1> HIDE DEF d, dirty, rows
<1>5. /\ Screen(d) /\ SamePicture(s, d) /\ d.status = s.status
      /\ d.console = [rows |-> rows, first |-> 0, dirty |-> dirty]
    BY <1>1, <1>2, ConsoleReplaced
<1>6. d.console = Page3(text, dirty)
    BY <1>5 DEF Page3, rows
<1> QED
    BY <1>2, <1>3, <1>4, <1>5, <1>6 DEF d

\* oled_console_render(): drawing dirty rows consumes them; a console of three rows is
\* drawn completely.
LEMMA ConsoleRenderDraws ==
    ASSUME NEW s, Screen(s), NEW L \in Layouts
    PROVE  LET d == ConsoleRender(s, L)
           IN  /\ Screen(d)
               /\ d.panel = s.panel /\ d.on = s.on /\ d.status = s.status
               /\ d.console = [s.console EXCEPT !.dirty = @ \ {r \in s.console.dirty : r < L.rows}]
               /\ \A k \in Cells :
                    d.fb[k] = IF InConsole(k, L) /\ k[1] - L.y \in s.console.dirty
                              THEN RowCell(s, L, k) ELSE s.fb[k]
               /\ CleanSent(s) => CleanSent(d)
<1> DEFINE drawn == {r \in s.console.dirty : r < L.rows}
           cells == {<<L.y + r, L.x + c>> : r \in drawn, c \in 0 .. (L.cols - 1)}
           f == [k \in cells |-> RowCell(s, L, k)]
           e == Draw(s, f)
           dirty == s.console.dirty \ drawn
           console == [rows |-> s.console.rows, first |-> s.console.first, dirty |-> dirty]
           d == ConsoleRender(s, L)
<1>3. DOMAIN f = cells /\ \A k \in cells : f[k] = RowCell(s, L, k)
    OBVIOUS
<1> HIDE DEF f
<1>1. /\ Screen(e) /\ e.panel = s.panel /\ e.on = s.on /\ e.console = s.console
      /\ e.status = s.status
      /\ e.fb = [k \in Cells |-> IF k \in DOMAIN f THEN f[k] ELSE s.fb[k]]
      /\ CleanSent(s) => CleanSent(e)
    BY DrawMarks
<1>2. \A k \in Cells : k \in cells <=> InConsole(k, L) /\ k[1] - L.y \in s.console.dirty
  <2>0. /\ L.y \in 1 .. 3 /\ L.x \in 1 .. 3 /\ L.rows \in 1 .. 3 /\ L.cols \in 1 .. 3
        /\ s.console.dirty \subseteq 0 .. 2
      BY LayoutAssumption DEF Screen, Rows
  <2>1. ASSUME NEW k \in Cells, k \in cells
        PROVE  InConsole(k, L) /\ k[1] - L.y \in s.console.dirty
    <3>1. PICK r \in drawn, c \in 0 .. (L.cols - 1) : k = <<L.y + r, L.x + c>>
        BY <2>1
    <3>2. k[1] = L.y + r /\ k[2] = L.x + c /\ r \in s.console.dirty /\ r < L.rows
        BY <3>1
    <3>3. r \in 0 .. 2 /\ k[1] - L.y = r
        BY <2>0, <3>2
    <3>4. k[1] \in L.y .. (L.y + L.rows - 1)
        BY <2>0, <3>2, <3>3
    <3>5. k[2] \in L.x .. (L.x + L.cols - 1)
        BY <2>0, <3>2
    <3> QED
        BY <3>2, <3>3, <3>4, <3>5 DEF InConsole
  <2>2. ASSUME NEW k \in Cells, InConsole(k, L), k[1] - L.y \in s.console.dirty
        PROVE  k \in cells
    <3> DEFINE r == k[1] - L.y
               c == k[2] - L.x
    <3>1. k[1] \in 0 .. 3 /\ k[2] \in 1 .. 3 /\ k = <<k[1], k[2]>>
        BY CellParts DEF Pages, Cols
    <3>2. k[1] \in L.y .. (L.y + L.rows - 1) /\ k[2] \in L.x .. (L.x + L.cols - 1)
        BY <2>2 DEF InConsole
    <3>3. r \in drawn /\ c \in 0 .. (L.cols - 1) /\ k[1] = L.y + r /\ k[2] = L.x + c
        BY <2>0, <2>2, <3>1, <3>2
    <3> QED
        BY <3>1, <3>3
  <2> QED
      BY <2>1, <2>2
<1>4. d = [e EXCEPT !.console.dirty = @ \ drawn]
    BY DEF ConsoleRender, f
<1> HIDE DEF e, cells, drawn
<1>5. \A k \in Cells : e.fb[k] = IF InConsole(k, L) /\ k[1] - L.y \in s.console.dirty
                                THEN RowCell(s, L, k) ELSE s.fb[k]
    BY <1>1, <1>2, <1>3
<1>6. s.console = [rows |-> s.console.rows, first |-> s.console.first,
                   dirty |-> s.console.dirty]
    BY DEF Screen
<1>7. [s.console EXCEPT !.dirty = @ \ drawn] = console
    BY <1>6
<1>8. d = Replaced(e, s.console.rows, s.console.first, dirty)
    BY <1>1, <1>4, <1>7 DEF Screen, Replaced
<1>9. dirty \in SUBSET Rows /\ s.console.first \in Rows
      /\ s.console.rows = [r \in Rows |-> s.console.rows[r]]
    BY DEF Screen
<1> HIDE DEF dirty, d
<1>10. Screen(d) /\ SamePicture(e, d) /\ d.status = e.status /\ d.console = console
    BY <1>1, <1>8, <1>9, ConsoleReplaced
<1>11. CleanSent(s) => CleanSent(d)
    BY <1>1, <1>10, CleanOfPicture
<1> QED
    BY <1>1, <1>5, <1>7, <1>10, <1>11 DEF SamePicture, d, drawn

\* The dirty rows a layout has no room for.
NoRoom(L, dirty) == {r \in dirty : r >= L.rows}

\* A page of text on the screen as far as the layout has room for its dirty rows.
PageOn(d, s, L, text, dirty) ==
    /\ d.console = Page3(text, NoRoom(L, dirty))
    /\ \A k \in Cells : InConsole(k, L) => k[1] - L.y \in Rows
    /\ \A k \in Cells : InConsole(k, L) /\ k[1] - L.y \in dirty =>
         d.fb[k] = <<<<text, k[1] - L.y>>, k[2] - L.x>>
    /\ \A k \in Cells : ~(InConsole(k, L) /\ k[1] - L.y \in dirty) => d.fb[k] = s.fb[k]

\* What rendering a page draws and leaves to draw.
LEMMA PageRendered ==
    ASSUME NEW s, Screen(s), NEW L \in Layouts,
           NEW text, NEW dirty \in SUBSET Rows, s.console = Page3(text, dirty)
    PROVE  PageOn(ConsoleRender(s, L), s, L, text, dirty)
<1> DEFINE d == ConsoleRender(s, L)
<1>0. /\ s.console.rows = [r \in Rows |-> <<text, r>>]
      /\ s.console.first = 0 /\ s.console.dirty = dirty
    BY DEF Page3
<1>1. /\ d.console = [s.console EXCEPT !.dirty = @ \ {r \in s.console.dirty : r < L.rows}]
      /\ \A k \in Cells :
            d.fb[k] = IF InConsole(k, L) /\ k[1] - L.y \in s.console.dirty
                      THEN RowCell(s, L, k) ELSE s.fb[k]
    BY ConsoleRenderDraws
<1> HIDE DEF d
<1> DEFINE rest == NoRoom(L, dirty)
<1>2. dirty \ {r \in dirty : r < L.rows} = rest
  <2>1. \A r \in dirty : r \in 0 .. 2
      BY DEF Rows
  <2>2. L.rows \in 1 .. 3
      BY LayoutAssumption
  <2> QED
      BY <2>1, <2>2 DEF NoRoom
<1> HIDE DEF rest
<1>3. d.console = Page3(text, rest)
  <2>1. d.console = [s.console EXCEPT !.dirty = rest]
      BY <1>0, <1>1, <1>2
  <2> QED
      BY <2>1 DEF Page3
<1>4. ASSUME NEW k \in Cells, InConsole(k, L)
      PROVE  k[1] - L.y \in Rows
  <2>1. /\ k[1] \in L.y .. (L.y + L.rows - 1) /\ L.y \in 1 .. 3
        /\ L.rows \in 1 .. 3
      BY <1>4, LayoutAssumption DEF InConsole
  <2> QED
      BY <2>1 DEF Rows
<1>5. ASSUME NEW k \in Cells, InConsole(k, L), k[1] - L.y \in dirty
      PROVE  d.fb[k] = <<<<text, k[1] - L.y>>, k[2] - L.x>>
  <2> DEFINE r == k[1] - L.y
  <2>1. r \in Rows
      BY <1>4, <1>5
  <2>2. d.fb[k] = RowCell(s, L, k)
      BY <1>0, <1>1, <1>5
  <2> HIDE DEF r
  <2>3. (0 + r) % 3 = r
      BY <2>1 DEF Rows
  <2>4. RowCell(s, L, k) = <<s.console.rows[(0 + r) % 3], k[2] - L.x>>
      BY <1>0 DEF RowCell, r
  <2>5. s.console.rows[r] = <<text, r>>
      BY <1>0, <2>1
  <2> QED
      BY <2>2, <2>3, <2>4, <2>5 DEF r
<1> QED
    BY <1>0, <1>1, <1>3, <1>4, <1>5 DEF d, rest, PageOn

Name(phase, app) == IF phase = "SPLASH" THEN "splash" ELSE app

\* The console's part of boot_desktop_ui_render(), for any layout.
LEMMA ComposeConsoleKeeps ==
    ASSUME NEW s, Screen(s), layout.rect \in Layouts, NEW snap, NEW full \in BOOLEAN, NEW r
    PROVE  LET d == ComposeConsole(s, snap, full, r)
           IN  /\ Screen(d) /\ d.panel = s.panel /\ d.on = s.on /\ d.status = s.status
               /\ CleanSent(s) => CleanSent(d)
               /\ \A k \in Cells : ~InConsole(k, layout.rect) => d.fb[k] = s.fb[k]
<1> DEFINE d == ComposeConsole(s, snap, full, r)
           L == layout.rect
<1>1. ASSUME NEW e, Screen(e), SamePicture(s, e), e.status = s.status, d = ConsoleRender(e, L)
      PROVE  /\ Screen(d) /\ d.panel = s.panel /\ d.on = s.on /\ d.status = s.status
             /\ CleanSent(s) => CleanSent(d)
             /\ \A k \in Cells : ~InConsole(k, L) => d.fb[k] = s.fb[k]
  <2>0. L \in Layouts
      OBVIOUS
  <2> HIDE DEF d, L
  <2> DEFINE g == ConsoleRender(e, L)
  <2>1. /\ Screen(g)
        /\ g.panel = e.panel /\ g.on = e.on /\ g.status = e.status
        /\ \A k \in Cells :
             g.fb[k] = IF InConsole(k, L) /\ k[1] - L.y \in e.console.dirty
                       THEN RowCell(e, L, k) ELSE e.fb[k]
        /\ CleanSent(e) => CleanSent(g)
      BY <1>1, <2>0, ConsoleRenderDraws
  <2>3. d = g
      BY <1>1
  <2> HIDE DEF g
  <2>2. CleanSent(s) <=> CleanSent(e)
      BY <1>1, CleanOfPicture
  <2> QED
      BY <1>1, <2>1, <2>2, <2>3 DEF SamePicture
<1>2. CASE snap.phase = "SPLASH" /\ full
  <2> DEFINE e == ConsoleFilled(s, "splash", 0)
  <2>1. 0 \in Rows
      BY DEF Rows
  <2>2. Screen(e) /\ SamePicture(s, e) /\ e.status = s.status
      BY <2>1, ConsoleFilledFills
  <2>3. d = ConsoleRender(e, L)
      BY <1>2 DEF ComposeConsole
  <2> HIDE DEF e, d, L
  <2> QED
      BY <1>1, <2>2, <2>3 DEF d, L
<1>3. CASE ~(snap.phase = "SPLASH" /\ full) /\ snap.phase = "HOME" /\ (full \/ r.dirty)
  <2> DEFINE e == ApplyView(s, r.view.app, full)
  <2>1. Screen(e) /\ SamePicture(s, e) /\ e.status = s.status
      BY ApplyViewMarks
  <2>2. d = ConsoleRender(e, L)
      BY <1>3 DEF ComposeConsole
  <2> HIDE DEF e, d, L
  <2> QED
      BY <1>1, <2>1, <2>2 DEF d, L
<1>4. CASE ~(snap.phase = "SPLASH" /\ full) /\ ~(snap.phase = "HOME" /\ (full \/ r.dirty))
    BY <1>4 DEF ComposeConsole
<1> QED
    BY <1>2, <1>3, <1>4

\* When nothing of the console is left to draw, what it shows is the splash or the view.
LEMMA ComposeConsoleShows ==
    ASSUME NEW s, Screen(s), layout.rect \in Layouts,
           NEW snap \in UiSnap, NEW full \in BOOLEAN, NEW r, r.dirty \in BOOLEAN
    PROVE  LET d == ComposeConsole(s, snap, full, r)
               text == Name(snap.phase, r.view.app)
           IN  /\ ~(full \/ (snap.phase = "HOME" /\ r.dirty)) => d = s
               /\ /\ d.console.dirty = {}
                  /\ \/ full
                     \/ /\ snap.phase = "HOME" /\ r.dirty
                        /\ \E old : s.console = Page3(old, {}) /\ ShowsConsole(s, old, layout.rect)
                  => d.console = Page3(text, {}) /\ ShowsConsole(d, text, layout.rect)
<1> DEFINE d == ComposeConsole(s, snap, full, r)
           text == Name(snap.phase, r.view.app)
           L == layout.rect
<1>0. snap.phase \in {"SPLASH", "HOME"}
    BY DEF UiSnap
<1>1. ASSUME NEW e, Screen(e), SamePicture(s, e), NEW dirty \in SUBSET Rows,
             e.console = Page3(text, dirty), d = ConsoleRender(e, L)
      PROVE  /\ d.console.dirty = {} => d.console = Page3(text, {})
             /\ dirty = Rows \/ ShowsConsole(s, text, L) => ShowsConsole(d, text, L)
  <2>0. L \in Layouts
      OBVIOUS
  <2> HIDE DEF d, text, L
  <2> DEFINE g == ConsoleRender(e, L)
  <2>5. PageOn(g, e, L, text, dirty)
    <3>1. Screen(e) /\ e.console = Page3(text, dirty)
        BY <1>1
    <3> QED
        BY <2>0, <3>1, PageRendered
  <2>6. d = g
      BY <1>1
  <2> HIDE DEF g
  <2>1. /\ d.console = Page3(text, NoRoom(L, dirty))
        /\ \A k \in Cells : InConsole(k, L) => k[1] - L.y \in Rows
        /\ \A k \in Cells : InConsole(k, L) /\ k[1] - L.y \in dirty =>
             d.fb[k] = <<<<text, k[1] - L.y>>, k[2] - L.x>>
        /\ \A k \in Cells : ~(InConsole(k, L) /\ k[1] - L.y \in dirty) => d.fb[k] = e.fb[k]
      BY <2>5, <2>6 DEF PageOn
  <2>2. dirty = Rows => ShowsConsole(d, text, L)
      BY <2>1 DEF ShowsConsole
  <2>3. ShowsConsole(s, text, L) => ShowsConsole(d, text, L)
      BY <1>1, <2>1 DEF ShowsConsole, SamePicture
  <2>4. d.console.dirty = NoRoom(L, dirty)
      BY <2>1 DEF Page3
  <2> QED
      BY <2>1, <2>2, <2>3, <2>4
<1>2. CASE snap.phase = "SPLASH" /\ full
  <2> DEFINE e == ConsoleFilled(s, "splash", 0)
  <2>1. 0 \in Rows /\ text = "splash" /\ Rows \in SUBSET Rows
      BY <1>2 DEF Rows, Name
  <2>2. Screen(e) /\ SamePicture(s, e) /\ e.console = Page3(text, Rows)
      BY <2>1, ConsoleFilledFills
  <2>3. d = ConsoleRender(e, L)
      BY <1>2 DEF ComposeConsole
  <2> HIDE DEF e, d, L, text
  <2>4. (d.console.dirty = {} => d.console = Page3(text, {})) /\ ShowsConsole(d, text, L)
      BY <1>1, <2>1, <2>2, <2>3
  <2> QED
      BY <1>2, <2>4 DEF d, L, text
<1>3. CASE snap.phase = "HOME" /\ (full \/ r.dirty)
  <2> DEFINE e == ApplyView(s, text, full)
  <2>1. text = r.view.app
      BY <1>3 DEF Name
  <2>2. /\ Screen(e) /\ SamePicture(s, e)
        /\ \E dirty \in SUBSET Rows :
              /\ e.console = Page3(text, dirty)
              /\ full => dirty = Rows
              /\ \A old : s.console = Page3(old, {}) /\ old # text => dirty = Rows
      BY ApplyViewMarks
  <2>3. PICK dirty \in SUBSET Rows :
              /\ e.console = Page3(text, dirty)
              /\ full => dirty = Rows
              /\ \A old : s.console = Page3(old, {}) /\ old # text => dirty = Rows
      BY <2>2
  <2>4. d = ConsoleRender(e, L)
      BY <1>3, <2>1 DEF ComposeConsole
  <2> HIDE DEF e, d, L, text
  <2>5. /\ d.console.dirty = {} => d.console = Page3(text, {})
        /\ dirty = Rows \/ ShowsConsole(s, text, L) => ShowsConsole(d, text, L)
      BY <1>1, <2>2, <2>3, <2>4
  <2>6. ASSUME NEW old, s.console = Page3(old, {}), ShowsConsole(s, old, L)
        PROVE  ShowsConsole(d, text, L)
      BY <2>3, <2>5, <2>6
  <2>7. full => ShowsConsole(d, text, L)
      BY <2>3, <2>5
  <2> QED
      BY <1>3, <2>5, <2>6, <2>7 DEF d, L, text
<1>4. CASE ~full /\ ~(snap.phase = "HOME" /\ r.dirty)
  <2>1. d = s
      BY <1>4 DEF ComposeConsole
  <2> HIDE DEF d
  <2> QED
      BY <1>4, <2>1 DEF d
<1> QED
    BY <1>0, <1>2, <1>3, <1>4

-----------------------------------------------------------------------------
(* The panel *)

Ios == {BusOk} \union BusFaults

\* What the bus can do to a call.
LEMMA IoParts ==
    /\ BusOutcomes \subseteq Ios
    /\ BusOk \in Ios /\ BusOk.stage = "none"
    /\ \A io \in Ios : io.torn \in BOOLEAN
<1>1. BusOk.stage = "none" /\ BusOk.torn = FALSE
    BY DEF BusOk
<1> DEFINE A == [stage : {"init", "on"}, torn : BOOLEAN, page : {0}, sent : {0}]
           B == [stage : {"present"}, torn : {FALSE}, page : Pages, sent : {1}]
<1>2. (\A io \in A : io.torn \in BOOLEAN) /\ \A io \in B : io.torn \in BOOLEAN
    OBVIOUS
<1>3. BusFaults = A \union B
    BY DEF BusFaults
<1>4. BusOutcomes \subseteq Ios
    BY DEF BusOutcomes, Ios
<1> HIDE DEF A, B
<1> QED
    BY <1>1, <1>2, <1>3, <1>4 DEF Ios

\* Turning the panel on or off changes nothing else.
Lit(s, on) == [s EXCEPT !.on = on]
SameContent(s, d) ==
    /\ d.fb = s.fb /\ d.dirty = s.dirty /\ d.panel = s.panel
    /\ d.status = s.status /\ d.console = s.console

LEMMA LitKeeps ==
    ASSUME NEW s, Screen(s), NEW on \in BOOLEAN
    PROVE  Screen(Lit(s, on)) /\ SameContent(s, Lit(s, on)) /\ Lit(s, on).on = on
<1> DEFINE d == Lit(s, on)
<1>1. d = [fb |-> s.fb, dirty |-> s.dirty, panel |-> s.panel, on |-> on,
           status |-> s.status, console |-> s.console]
    BY DEF Lit, Screen
<1>2. /\ d.fb = s.fb /\ d.dirty = s.dirty /\ d.panel = s.panel /\ d.on = on
      /\ d.status = s.status /\ d.console = s.console
    BY <1>1
<1> HIDE DEF d
<1>3. Screen(d)
    BY <1>1, <1>2 DEF Screen
<1> QED
    BY <1>2, <1>3 DEF SameContent, d

\* ssd1306_init() and ssd1306_display_on() change nothing but whether the panel is on,
\* and the display is on when turning it on succeeded.
LEMMA PanelKeeps ==
    ASSUME NEW s, Screen(s), NEW io \in Ios
    PROVE  /\ Screen(PanelInit(s, io).scr) /\ SameContent(s, PanelInit(s, io).scr)
           /\ PanelInit(s, io).ok <=> io.stage # "init"
           /\ PanelInit(s, io).ok \in BOOLEAN
           /\ Screen(DisplayOn(s, io).scr) /\ SameContent(s, DisplayOn(s, io).scr)
           /\ DisplayOn(s, io).ok <=> io.stage # "on"
           /\ DisplayOn(s, io).ok \in BOOLEAN
           /\ DisplayOn(s, io).ok => DisplayOn(s, io).scr.on
<1>0. s.on \in BOOLEAN /\ io.torn \in BOOLEAN
    BY IoParts DEF Screen
<1>1. \E on \in BOOLEAN : /\ PanelInit(s, io).scr = Lit(s, on)
                          /\ PanelInit(s, io).ok = (io.stage # "init")
  <2>1. CASE io.stage = "init"
    <3>1. PanelInit(s, io).scr = Lit(s, s.on /\ ~io.torn) /\ PanelInit(s, io).ok = FALSE
        BY <2>1 DEF PanelInit, Done, Lit
    <3> QED
        BY <1>0, <2>1, <3>1
  <2>2. CASE io.stage # "init"
    <3>1. PanelInit(s, io).scr = Lit(s, FALSE) /\ PanelInit(s, io).ok = TRUE
        BY <2>2 DEF PanelInit, Done, Lit
    <3> QED
        BY <2>2, <3>1
  <2> QED
      BY <2>1, <2>2
<1>2. \E on \in BOOLEAN : /\ DisplayOn(s, io).scr = Lit(s, on)
                          /\ DisplayOn(s, io).ok = (io.stage # "on")
                          /\ io.stage # "on" => on = TRUE
  <2>1. CASE io.stage = "on"
    <3>1. DisplayOn(s, io).scr = Lit(s, s.on \/ io.torn) /\ DisplayOn(s, io).ok = FALSE
        BY <2>1 DEF DisplayOn, Done, Lit
    <3> QED
        BY <1>0, <2>1, <3>1
  <2>2. CASE io.stage # "on"
    <3>1. DisplayOn(s, io).scr = Lit(s, TRUE) /\ DisplayOn(s, io).ok = TRUE
        BY <2>2 DEF DisplayOn, Done, Lit
    <3> QED
        BY <2>2, <3>1
  <2> QED
      BY <2>1, <2>2
<1> QED
    BY <1>1, <1>2, LitKeeps

\* Sending cells of the framebuffer to the panel, and cleaning pages.
LEMMA SentKeeps ==
    ASSUME NEW s, Screen(s), NEW C, NEW P, NEW x
    PROVE  LET d == Clean(Sent(s, C), P, x)
           IN  /\ Screen(d)
               /\ d.fb = s.fb /\ d.on = s.on /\ d.status = s.status /\ d.console = s.console
               /\ \A p \in Pages : d.dirty[p] = IF p \in P THEN {} ELSE s.dirty[p]
               /\ SpanCells(s, P) \subseteq C /\ CleanSent(s) => CleanSent(d)
<1> DEFINE panel == [k \in Cells |-> IF k \in C THEN s.fb[k] ELSE s.panel[k]]
           dirty == [p \in Pages |-> IF p \in P THEN {} ELSE s.dirty[p]]
           e == Sent(s, C)
           d == Clean(e, P, x)
<1>1. e = [fb |-> s.fb, dirty |-> s.dirty, panel |-> panel, on |-> s.on,
           status |-> s.status, console |-> s.console]
    BY DEF Screen, Sent
<1>2. e.dirty = s.dirty
    BY <1>1
<1>3. d = [e EXCEPT !.dirty = dirty]
    BY <1>2 DEF Clean
<1>4. panel = [k \in Cells |-> panel[k]]
      /\ \A k \in Cells : panel[k] = IF k \in C THEN s.fb[k] ELSE s.panel[k]
    OBVIOUS
<1>5. /\ dirty \in [Pages -> SUBSET Cols]
      /\ \A p \in Pages : dirty[p] = IF p \in P THEN {} ELSE s.dirty[p]
    BY DEF Screen
<1> HIDE DEF panel, dirty, e
<1>6. d = [fb |-> s.fb, dirty |-> dirty, panel |-> panel, on |-> s.on,
           status |-> s.status, console |-> s.console]
    BY <1>1, <1>3
<1>7. /\ d.fb = s.fb /\ d.dirty = dirty /\ d.panel = panel /\ d.on = s.on
      /\ d.status = s.status /\ d.console = s.console
    BY <1>6
<1> HIDE DEF d
<1>8. \A p \in Pages : dirty[p] = Span(dirty[p])
  <2>1. Span({}) = {}
      BY DEF Span
  <2> QED
      BY <1>5, <2>1 DEF Screen
<1>9. Screen(d)
    BY <1>4, <1>5, <1>6, <1>7, <1>8 DEF Screen
<1>10. ASSUME SpanCells(s, P) \subseteq C, CleanSent(s)
       PROVE  CleanSent(d)
  <2> SUFFICES ASSUME NEW k \in Cells, k[2] \notin dirty[k[1]]
               PROVE  panel[k] = s.fb[k]
      BY <1>7 DEF CleanSent
  <2>1. k[1] \in Pages
      BY CellParts
  <2>2. CASE k \in C
      BY <1>4, <2>2
  <2>3. CASE k \notin C
    <3>1. k[2] \notin s.dirty[k[1]]
        BY <1>5, <1>10, <2>1, <2>3 DEF SpanCells
    <3> QED
        BY <1>4, <1>10, <2>3, <3>1 DEF CleanSent
  <2> QED
      BY <2>2, <2>3
<1> QED
    BY <1>5, <1>7, <1>9, <1>10 DEF d, e

\* ssd1306_present(): whichever transfer fails, what it calls clean was sent; when it
\* succeeds the panel shows the framebuffer.
LEMMA PresentSends ==
    ASSUME NEW s, Screen(s), NEW io \in Ios
    PROVE  LET p == Present(s, io)
           IN  /\ Screen(p.scr) /\ p.ok \in BOOLEAN
               /\ p.scr.fb = s.fb /\ p.scr.on = s.on /\ p.scr.status = s.status
               /\ p.scr.console = s.console
               /\ CleanSent(s) => CleanSent(p.scr)
               /\ CleanSent(s) /\ p.ok => p.scr.panel = s.fb
               /\ io.stage # "present" => p.ok
<1> DEFINE pages == {p \in Pages : s.dirty[p] # {}}
           before == {p \in pages : p < io.page}
           partial == {<<io.page, c>> : c \in {c \in s.dirty[io.page] :
                                                 c < Min(s.dirty[io.page]) + io.sent}}
           stops == io.stage = "present" /\ io.page \in pages
           C == SpanCells(s, before) \union partial
           p == Present(s, io)
<1>1. p = IF stops
            THEN Done(Clean(Sent(s, C), before, io.page), FALSE)
            ELSE Done(Clean(Sent(s, SpanCells(s, pages)), pages, -1), TRUE)
    BY DEF Present
<1>2. CASE stops
  <2> DEFINE d == Clean(Sent(s, C), before, io.page)
  <2>1. p.scr = d /\ p.ok = FALSE
      BY <1>1, <1>2 DEF Done
  <2>2. SpanCells(s, before) \subseteq C
      OBVIOUS
  <2> HIDE DEF before, C, p
  <2>3. /\ Screen(d)
        /\ d.fb = s.fb /\ d.on = s.on /\ d.status = s.status /\ d.console = s.console
        /\ SpanCells(s, before) \subseteq C /\ CleanSent(s) => CleanSent(d)
      BY SentKeeps
  <2> HIDE DEF d
  <2>4. io.stage = "present"
      BY <1>2
  <2> QED
      BY <2>1, <2>2, <2>3, <2>4 DEF p
<1>3. CASE ~stops
  <2> DEFINE D == SpanCells(s, pages)
             d == Clean(Sent(s, D), pages, -1)
  <2>1. p.scr = d /\ p.ok = TRUE
      BY <1>1, <1>3 DEF Done
  <2>0. \A q \in Pages : q \notin pages => s.dirty[q] = {}
      OBVIOUS
  <2> HIDE DEF pages, p
  <2>2. /\ Screen(d)
        /\ d.fb = s.fb /\ d.on = s.on /\ d.status = s.status /\ d.console = s.console
        /\ \A q \in Pages : d.dirty[q] = IF q \in pages THEN {} ELSE s.dirty[q]
        /\ SpanCells(s, pages) \subseteq D /\ CleanSent(s) => CleanSent(d)
      BY SentKeeps
  <2> HIDE DEF d
  <2>3. \A q \in Pages : d.dirty[q] = {}
      BY <2>0, <2>2
  <2>4. CleanSent(s) => CleanSent(d)
      BY <2>2
  <2>5. CleanSent(d) => d.panel = d.fb
    <3> SUFFICES ASSUME CleanSent(d) PROVE d.panel = d.fb
        OBVIOUS
    <3>1. \A k \in Cells : d.panel[k] = d.fb[k]
        BY <2>3, CellParts DEF CleanSent
    <3>2. d.panel = [k \in Cells |-> d.panel[k]] /\ d.fb = [k \in Cells |-> d.fb[k]]
        BY <2>2 DEF Screen
    <3> QED
        BY <3>1, <3>2
  <2> QED
      BY <2>1, <2>2, <2>4, <2>5 DEF p
<1> QED
    BY <1>2, <1>3
-----------------------------------------------------------------------------
(* The services and the applications *)

ServiceStates ==
    [minute : 0 .. (Saturate - 1), healthy : {0, 1}, usb : {0, 1}, saturated : BOOLEAN,
     at : 0 .. (Wrap - 1)]

Statics ==
    [phase : {"SPLASH", "HOME"}, valid : BOOLEAN, panel : BOOLEAN, splashVisible : BOOLEAN,
     last : UiSnap, revision : Nat]

Environs ==
    [uptime : 0 .. (Wrap - 1), ready : {0, 1}, usb : {0, 1}, elapsed : BOOLEAN,
     failed : BOOLEAN, upsets : Nat]

StaticsInv ==
    /\ ui \in Statics
    /\ svc \in ServiceStates
    /\ env \in Environs
    /\ layout \in [rect : Layouts, revision : Nat]
    /\ Screen(scr)

\* Until it sticks, the displayed minute is the uptime when the services were last read,
\* and the uptime is at most one minute ahead: the console task reads them every minute.
InStep(v, uptime) ==
    /\ v.saturated => v.minute = Saturate - 1
    /\ ~v.saturated => /\ v.at < Saturate /\ v.minute = v.at
                       /\ uptime \in {v.at, v.at + 1}

MinuteInv == InStep(svc, env.uptime)

AppsInv == Sound(rt) /\ bridge \in Bridge /\ DirtyUntilShown

LEMMA PhaseRange == ASSUME StaticsInv PROVE Phase \in {"SPLASH", "HOME"}
BY DEF StaticsInv, Statics, Phase

\* system_service_state_update(): the services read are in range, in step with the
\* uptime, and no minute goes back.
LEMMA RefreshedKeeps ==
    ASSUME StaticsInv, MinuteInv
    PROVE  /\ Refreshed \in ServiceStates /\ InStep(Refreshed, env.uptime)
           /\ Refreshed.minute >= svc.minute
<1>0. /\ Saturate \in Nat \ {0} /\ Wrap \in Nat /\ env.uptime \in 0 .. (Wrap - 1)
      /\ env.ready \in {0, 1} /\ env.usb \in {0, 1} /\ svc.saturated \in BOOLEAN
      /\ svc.minute \in 0 .. (Saturate - 1)
    BY UiAssumption DEF StaticsInv, Statics, Environs, ServiceStates
<1> DEFINE m == Minute(env.uptime, svc.saturated)
           f == svc.saturated \/ env.uptime >= Saturate
           v == Refreshed
<1>1. /\ m \in 0 .. (Saturate - 1)
      /\ f => m = Saturate - 1
      /\ ~f => m = env.uptime /\ env.uptime < Saturate
    BY <1>0 DEF Minute
<1>2. m >= svc.minute
  <2>1. CASE f
      BY <1>0, <1>1, <2>1
  <2>2. CASE ~f
    <3>1. svc.minute = svc.at /\ env.uptime \in {svc.at, svc.at + 1} /\ svc.at \in Int
        BY <1>0, <2>2 DEF MinuteInv, InStep, StaticsInv, ServiceStates
    <3> QED
        BY <1>1, <2>2, <3>1
  <2> QED
      BY <2>1, <2>2
<1>3. f \in BOOLEAN
    BY <1>0
<1>4. v = [minute |-> m, healthy |-> env.ready, usb |-> env.usb, saturated |-> f,
           at |-> env.uptime]
    BY DEF Refreshed
<1> HIDE DEF m, f, v
<1>5. /\ v.minute = m /\ v.healthy = env.ready /\ v.usb = env.usb /\ v.saturated = f
      /\ v.at = env.uptime
    BY <1>4
<1>6. v \in ServiceStates
    BY <1>0, <1>1, <1>3, <1>4 DEF ServiceStates
<1>7. InStep(v, env.uptime)
    BY <1>0, <1>1, <1>5 DEF InStep
<1> QED
    BY <1>2, <1>5, <1>6, <1>7 DEF v

\* The services as the user interface and the applications see them.
LEMMA SnapshotsHold ==
    ASSUME NEW v \in ServiceStates, NEW phase \in {"SPLASH", "HOME"}
    PROVE  /\ UiSnapshot(phase, v) \in UiSnap /\ UiSnapshot(phase, v).phase = phase
           /\ AppSnapshot(v) \in Snapshot
<1>1. UiSnapshot(phase, v) \in UiSnap /\ UiSnapshot(phase, v).phase = phase
    BY DEF UiSnapshot, UiSnap, ServiceStates
<1>2. v.minute \in Minutes /\ v.healthy \in Flags /\ v.usb \in Flags
    BY UiAssumption DEF ServiceStates
<1>3. \A k \in Kinds : (CASE k = "minute" -> v.minute [] k = "healthy" -> v.healthy
                          [] k = "usb" -> v.usb [] OTHER -> 0)
                       \in Minutes \union Flags \union {0}
    BY <1>2 DEF Kinds
<1>4. AppSnapshot(v) \in Snapshot
    BY <1>3 DEF AppSnapshot, Snapshot
<1> QED
    BY <1>1, <1>4

\* boot_desktop_ui_application_service(): the runtime stays sound, and what it was told
\* is what the bridge noted.
LEMMA ServedSound ==
    ASSUME StaticsInv, MinuteInv, AppsInv
    PROVE  /\ Sound(Served.rt) /\ Grows(rt, Served.rt) /\ Served.bridge \in Bridge
           /\ "render" \notin MayFail /\ ToldInv =>
                /\ Served.told \in Snapshot
                /\ Served.bridge.valid => Served.told = Served.bridge.last
<1> DEFINE services == AppSnapshot(Refreshed)
           s == Served
<1>1. services \in Snapshot
    BY RefreshedKeeps, SnapshotsHold, PhaseRange
<1>2. BuiltIn \in Callbacks
    BY UiAssumption DEF BuiltIn
<1>3. BuiltIn.text \in Texts
    BY <1>2, CallbackText
<1>4. CASE Phase = "HOME"
  <2>1. s = BridgeService(rt, bridge, told, services, BuiltIn)
      BY <1>4 DEF Served
  <2> HIDE DEF s, services
  <2>2. Sound(s.rt) /\ Grows(rt, s.rt) /\ s.bridge \in Bridge
      BY <1>1, <1>3, <2>1, BridgeSound DEF AppsInv
  <2>3. ASSUME "render" \notin MayFail, ToldInv
        PROVE  s.told \in Snapshot /\ (s.bridge.valid => s.told = s.bridge.last)
    <3>1. BuiltIn.fails \notin Kinds
      <4>1. BuiltIn.fails \in {None} \union {}
          BY <1>2, <2>3 DEF Callbacks
      <4> QED
          BY <4>1 DEF None, Kinds
    <3> QED
        BY <1>1, <1>3, <2>1, <2>3, <3>1, BridgeTells DEF AppsInv, ToldInv, ToldWhatBridgeKnows
  <2> QED
      BY <2>2, <2>3 DEF s
<1>5. CASE Phase # "HOME"
  <2>1. s = [rt |-> rt, bridge |-> bridge, told |-> told, ok |-> TRUE]
      BY <1>5 DEF Served
  <2> HIDE DEF s
  <2>2. s.rt = rt /\ s.bridge = bridge /\ s.told = told
      BY <2>1
  <2>3. Grows(rt, rt)
      BY DEF Grows
  <2> QED
      BY <2>2, <2>3 DEF AppsInv, ToldInv, ToldWhatBridgeKnows, s
<1> QED
    BY <1>4, <1>5
-----------------------------------------------------------------------------
(* What boot_desktop_ui_render() composes *)

\* The framebuffer, the status bar and the console show snap and the application app.
Composed(s, snap, app, L) ==
    /\ s.status = [value |-> snap, dirty |-> {}]
    /\ s.console = Page3(Name(snap.phase, app), {})
    /\ ShowsStatus(s, snap)
    /\ ShowsConsole(s, Name(snap.phase, app), L)
    /\ \A k \in Cells : k[1] # 0 /\ ~InConsole(k, L) => s.fb[k] = Empty

\* Whatever the layout, composing keeps the screen in shape and marks what it draws.
LEMMA DrawnKeeps ==
    ASSUME NEW s, Screen(s), layout.rect \in Layouts, NEW snap \in UiSnap,
           NEW full \in BOOLEAN, NEW r
    PROVE  LET d == ComposeConsole(ComposeStatus(s, snap, full), snap, full, r)
           IN  /\ Screen(d) /\ d.panel = s.panel /\ d.on = s.on
               /\ full \/ CleanSent(s) => CleanSent(d)
<1> DEFINE c == ComposeStatus(s, snap, full)
<1>1. /\ Screen(c)
      /\ c.panel = s.panel /\ c.on = s.on /\ c.console = s.console
      /\ c.status = [value |-> snap, dirty |-> {}]
      /\ full \/ CleanSent(s) => CleanSent(c)
    BY ComposeStatusShows
<1> HIDE DEF c
<1> DEFINE d == ComposeConsole(c, snap, full, r)
<1>2. Screen(d) /\ d.panel = c.panel /\ d.on = c.on /\ (CleanSent(c) => CleanSent(d))
    BY <1>1, ComposeConsoleKeeps
<1> HIDE DEF d
<1>3. Screen(d) /\ d.panel = s.panel /\ d.on = s.on /\ (full \/ CleanSent(s) => CleanSent(d))
    BY <1>1, <1>2
<1> QED
    BY <1>3 DEF d, c

\* When the console was drawn to the end, the picture is the one of the new snapshot if
\* everything was composed, and also if only the changes were and the view, unless it
\* is dirty, is the one on the screen.
LEMMA DrawnShows ==
    ASSUME NEW s, Screen(s), layout.rect \in Layouts,
           NEW snap \in UiSnap, NEW full \in BOOLEAN, NEW r, r.dirty \in BOOLEAN,
           ~ConsoleIncomplete(ComposeConsole(ComposeStatus(s, snap, full), snap, full, r),
                              snap, full, r)
    PROVE  LET d == ComposeConsole(ComposeStatus(s, snap, full), snap, full, r)
           IN  /\ full => Composed(d, snap, r.view.app, layout.rect)
               /\ \A last, app :
                    /\ ~full /\ Composed(s, last, app, layout.rect) /\ last.phase = snap.phase
                    /\ snap.phase = "HOME" /\ ~r.dirty => r.view.app = app
                    => Composed(d, snap, r.view.app, layout.rect)
<1> DEFINE c == ComposeStatus(s, snap, full)
           d == ComposeConsole(c, snap, full, r)
           L == layout.rect
           text == Name(snap.phase, r.view.app)
           more == full \/ (snap.phase = "HOME" /\ r.dirty)
<1>0. \A k \in Cells : InConsole(k, L) => k[1] # 0
  <2>1. L.y \in 1 .. 3 /\ L.rows \in 1 .. 3
      BY LayoutAssumption
  <2> QED
      BY <2>1 DEF InConsole
<1>1. /\ Screen(c) /\ c.console = s.console /\ c.status = [value |-> snap, dirty |-> {}]
      /\ full => ShowsStatus(c, snap) /\ \A k \in Cells : k[1] # 0 => c.fb[k] = Empty
      /\ ~full => \A k \in Cells : k[1] # 0 => c.fb[k] = s.fb[k]
      /\ ~full /\ ShowsStatus(s, s.status.value) => ShowsStatus(c, snap)
    BY ComposeStatusShows
<1> HIDE DEF c
<1>2. /\ Screen(d) /\ d.status = c.status
      /\ \A k \in Cells : ~InConsole(k, L) => d.fb[k] = c.fb[k]
    BY <1>1, ComposeConsoleKeeps
<1>3. /\ ~more => d = c
      /\ /\ d.console.dirty = {}
         /\ \/ full
            \/ /\ snap.phase = "HOME" /\ r.dirty
               /\ \E old : c.console = Page3(old, {}) /\ ShowsConsole(c, old, L)
         => d.console = Page3(text, {}) /\ ShowsConsole(d, text, L)
    BY <1>1, ComposeConsoleShows
<1>4. more => d.console.dirty = {}
    BY DEF ConsoleIncomplete, c
<1> HIDE DEF d
<1>5. ShowsStatus(c, snap) => ShowsStatus(d, snap)
    BY <1>0, <1>2 DEF ShowsStatus
<1>6. full => Composed(d, snap, r.view.app, L)
    BY <1>1, <1>2, <1>3, <1>4, <1>5 DEF Composed
<1>7. ASSUME NEW last, NEW app, ~full, Composed(s, last, app, L), last.phase = snap.phase,
             snap.phase = "HOME" /\ ~r.dirty => r.view.app = app
      PROVE  Composed(d, snap, r.view.app, L)
  <2> DEFINE old == Name(last.phase, app)
  <2>1. /\ s.status = [value |-> last, dirty |-> {}] /\ s.console = Page3(old, {})
        /\ ShowsStatus(s, last) /\ ShowsConsole(s, old, L)
        /\ \A k \in Cells : k[1] # 0 /\ ~InConsole(k, L) => s.fb[k] = Empty
      BY <1>7 DEF Composed
  <2>2. s.status.value = last
      BY <2>1
  <2>3. ShowsStatus(d, snap) /\ d.status = [value |-> snap, dirty |-> {}]
      BY <1>1, <1>2, <1>5, <1>7, <2>1, <2>2
  <2>4. c.console = Page3(old, {}) /\ ShowsConsole(c, old, L)
      BY <1>0, <1>1, <1>7, <2>1 DEF ShowsConsole
  <2>5. \A k \in Cells : k[1] # 0 /\ ~InConsole(k, L) => d.fb[k] = Empty
      BY <1>1, <1>2, <1>7, <2>1
  <2>6. d.console = Page3(text, {}) /\ ShowsConsole(d, text, L)
    <3>1. CASE more
        BY <1>3, <1>4, <1>7, <2>4, <3>1
    <3>2. CASE ~more
      <4>1. d = c
          BY <1>3, <3>2
      <4>2. snap.phase # "SPLASH" => snap.phase = "HOME"
          BY DEF UiSnap
      <4>3. old = text
          BY <1>7, <3>2, <4>2 DEF Name
      <4> QED
          BY <2>4, <4>1, <4>3
    <3> QED
        BY <3>1, <3>2
  <2> QED
      BY <2>3, <2>5, <2>6 DEF Composed
<1> QED
    BY <1>6, <1>7 DEF d, c

\* What is composed and sent is the picture of the snapshot.
PictureOf(snap, app, L) ==
    [k \in Cells |->
        IF k[1] = 0 THEN StatusCell(k[2], snap)
        ELSE IF InConsole(k, L) THEN <<<<Name(snap.phase, app), k[1] - L.y>>, k[2] - L.x>>
        ELSE Empty]

LEMMA ComposedIsPicture ==
    ASSUME NEW s, Screen(s), NEW snap, NEW app, NEW L, Composed(s, snap, app, L), s.panel = s.fb
    PROVE  s.panel = PictureOf(snap, app, L)
<1>1. \A k \in Cells : s.fb[k] = PictureOf(snap, app, L)[k]
  <2> TAKE k \in Cells
  <2>1. CASE k[1] = 0
      BY <2>1 DEF Composed, ShowsStatus, PictureOf
  <2>2. CASE k[1] # 0 /\ InConsole(k, L)
      BY <2>2 DEF Composed, ShowsConsole, PictureOf
  <2>3. CASE k[1] # 0 /\ ~InConsole(k, L)
      BY <2>3 DEF Composed, PictureOf
  <2> QED
      BY <2>1, <2>2, <2>3
<1>2. s.fb = [k \in Cells |-> s.fb[k]]
    BY DEF Screen
<1>3. PictureOf(snap, app, L) = [k \in Cells |-> PictureOf(snap, app, L)[k]]
    BY DEF PictureOf
<1> QED
    BY <1>1, <1>2, <1>3

\* The composition depends on the screen's content only.
LEMMA ComposedCopies ==
    ASSUME NEW s, NEW d, NEW snap, NEW app, NEW L, Composed(s, snap, app, L),
           d.fb = s.fb, d.status = s.status, d.console = s.console
    PROVE  Composed(d, snap, app, L)
BY DEF Composed, ShowsStatus, ShowsConsole

-----------------------------------------------------------------------------
(* The presentation *)

\* Presenting and turning the display on: the snapshot is believed shown exactly when
\* every transfer succeeded, and then the panel has the framebuffer.
LEMMA ShowKeeps ==
    ASSUME NEW call, NEW io \in Ios, NEW drawn, Screen(drawn), NEW held, NEW snap, NEW r,
           ui.panel \in BOOLEAN, Show(call, io, drawn, held, snap, r)
    PROVE  /\ Screen(scr')
           /\ scr'.fb = drawn.fb /\ scr'.status = drawn.status /\ scr'.console = drawn.console
           /\ CleanSent(drawn) => CleanSent(scr')
           /\ \/ /\ answer' = [call |-> call, ok |-> TRUE]
                 /\ ui' = Shown(held, snap)
                 /\ shown' = IF snap.phase = "HOME" THEN r.view ELSE shown
                 /\ rt' = [r EXCEPT !.dirty = @ /\ snap.phase # "HOME"]
                 /\ ~ui.panel \/ drawn.on => scr'.on
                 /\ CleanSent(drawn) => scr'.panel = scr'.fb
                 /\ leftOff' = (leftOff /\ ui.panel)
              \/ /\ answer' = [call |-> call, ok |-> FALSE]
                 /\ ui' = GiveUp(held) /\ rt' = r /\ shown' = shown /\ leftOff' = leftOff
<1> DEFINE sent == Present(drawn, io)
           on == DisplayOn(sent.scr, io)
           lit == IF ui.panel THEN sent ELSE on
<1>1. /\ Screen(sent.scr) /\ sent.ok \in BOOLEAN
      /\ sent.scr.fb = drawn.fb /\ sent.scr.on = drawn.on /\ sent.scr.status = drawn.status
      /\ sent.scr.console = drawn.console
      /\ CleanSent(drawn) => CleanSent(sent.scr)
      /\ CleanSent(drawn) /\ sent.ok => sent.scr.panel = drawn.fb
    BY PresentSends
<1>2. \/ /\ sent.ok /\ lit.ok
         /\ scr' = lit.scr /\ ui' = Shown(held, snap)
         /\ answer' = [call |-> call, ok |-> TRUE]
         /\ shown' = IF snap.phase = "HOME" THEN r.view ELSE shown
         /\ rt' = [r EXCEPT !.dirty = @ /\ snap.phase # "HOME"]
         /\ leftOff' = (leftOff /\ ui.panel)
      \/ /\ ~(sent.ok /\ lit.ok)
         /\ scr' = (IF sent.ok THEN lit.scr ELSE sent.scr) /\ ui' = GiveUp(held)
         /\ answer' = [call |-> call, ok |-> FALSE]
         /\ rt' = r /\ shown' = shown /\ leftOff' = leftOff
    BY DEF Show, Finish
<1> HIDE DEF sent
<1>3. /\ Screen(on.scr) /\ SameContent(sent.scr, on.scr)
      /\ on.ok => on.scr.on
    BY <1>1, PanelKeeps
<1> HIDE DEF on
<1>4. /\ Screen(lit.scr) /\ SameContent(sent.scr, lit.scr)
      /\ lit.ok => lit.scr.on \/ (ui.panel /\ lit.scr.on = drawn.on)
    BY <1>1, <1>3 DEF SameContent
<1> HIDE DEF lit
<1>5. /\ Screen(scr') /\ SameContent(sent.scr, scr')
    BY <1>1, <1>2, <1>4 DEF SameContent
<1>6. CleanSent(sent.scr) => CleanSent(scr')
    BY <1>5 DEF SameContent, CleanSent
<1>7. /\ scr'.fb = drawn.fb /\ scr'.status = drawn.status /\ scr'.console = drawn.console
      /\ scr'.panel = sent.scr.panel
    BY <1>1, <1>5 DEF SameContent
<1>8. CASE sent.ok /\ lit.ok
    BY <1>1, <1>2, <1>4, <1>5, <1>6, <1>7, <1>8
<1>9. CASE ~(sent.ok /\ lit.ok)
    BY <1>1, <1>2, <1>5, <1>6, <1>7, <1>9
<1> QED
    BY <1>8, <1>9
-----------------------------------------------------------------------------
(* The invariants *)

ScreenInv ==
    /\ ui.valid => ui.panel
    /\ ui.panel => leftOff \/ scr.on
    /\ leftOff \in BOOLEAN /\ fullRev \in Nat /\ fullRev <= layout.revision
    /\ (ui.valid /\ owner = "ui" /\ fullRev = layout.revision) =>
            Composed(scr, ui.last, shown.app, layout.rect) /\ scr.panel = scr.fb
    /\ UiRuntimeRestores

\* The statics after each of the ways boot_desktop_ui_render() ends.
LEMMA StaticsKeep ==
    ASSUME StaticsInv, NEW snap \in UiSnap
    PROVE  LET held == [ui EXCEPT !.phase = snap.phase, !.panel = TRUE]
               gone == [held EXCEPT !.valid = FALSE]
           IN  /\ gone \in Statics
               /\ GiveUp(held) \in Statics /\ ~GiveUp(held).panel /\ ~GiveUp(held).valid
               /\ Shown(held, snap) \in Statics /\ Shown(held, snap).last = snap
               /\ Shown(held, snap).valid /\ Shown(held, snap).panel
               /\ [ui EXCEPT !.phase = snap.phase] \in Statics
<1>1. ui \in Statics /\ snap.phase \in {"SPLASH", "HOME"} /\ layout.revision \in Nat
    BY DEF StaticsInv, Statics, UiSnap
<1> DEFINE held == [ui EXCEPT !.phase = snap.phase, !.panel = TRUE]
<1>2. held \in Statics /\ held.panel = TRUE
    BY <1>1 DEF Statics
<1> HIDE DEF held
<1>3. [held EXCEPT !.valid = FALSE] \in Statics
    BY <1>2 DEF Statics
<1>4. GiveUp(held) \in Statics /\ ~GiveUp(held).panel /\ ~GiveUp(held).valid
    BY <1>2 DEF Statics, GiveUp
<1>5. /\ Shown(held, snap) \in Statics /\ Shown(held, snap).last = snap
      /\ Shown(held, snap).valid /\ Shown(held, snap).panel
    BY <1>1, <1>2 DEF Statics, Shown
<1>6. [ui EXCEPT !.phase = snap.phase] \in Statics
    BY <1>1 DEF Statics
<1> QED
    BY <1>3, <1>4, <1>5, <1>6 DEF held

\* Showing the view consumes it and changes nothing else of the runtime.
LEMMA ConsumeSound ==
    ASSUME NEW r, Sound(r), NEW b \in BOOLEAN
    PROVE  LET q == [r EXCEPT !.dirty = @ /\ b]
           IN  Sound(q) /\ q.view = r.view /\ q.dirty = (r.dirty /\ b)
<1> DEFINE q == [r EXCEPT !.dirty = @ /\ b]
<1>1. /\ q \in Runtime /\ q.initialized = r.initialized /\ q.active = r.active
      /\ q.states = r.states /\ q.view = r.view /\ q.pending = r.pending
      /\ q.dirty = (r.dirty /\ b)
    BY DEF Sound, Runtime
<1> HIDE DEF q
<1>2. Sound(q)
    BY <1>1 DEF Sound, Settled, Owned, Running
<1> QED
    BY <1>1, <1>2 DEF q

\* From a screen ready for it, boot_desktop_ui_render() composes and shows.
LEMMA ComposeKeeps ==
    ASSUME StaticsInv, DirtyUntilShown, CleanMeansSent,
           NEW call, NEW force \in BOOLEAN, call = "uiruntime" => force, NEW io \in Ios,
           NEW snap \in UiSnap, NEW r, Sound(r), Grows(rt, r),
           NEW opened, Screen(opened), ui.panel => opened = scr,
           Compose(call, io, opened, ComposeAll(force, snap),
                   [ui EXCEPT !.phase = snap.phase, !.panel = TRUE], snap, r),
           layout' = layout
    PROVE  /\ ui' \in Statics /\ Screen(scr')
           /\ Sound(rt') /\ DirtyUntilShown' /\ CleanMeansSent'
           /\ ScreenInv => ScreenInv'
<1> DEFINE full == ComposeAll(force, snap)
           held == [ui EXCEPT !.phase = snap.phase, !.panel = TRUE]
           drawn == ComposeConsole(ComposeStatus(opened, snap, full), snap, full, r)
           L == layout.rect
<1>0. /\ layout.rect \in Layouts /\ ui.panel \in BOOLEAN /\ ui.valid \in BOOLEAN
      /\ r.dirty \in BOOLEAN
    BY DEF StaticsInv, Statics, Sound, Runtime
<1>1. full \in BOOLEAN /\ (~full => ui.panel /\ ~force /\ ui.valid /\ snap.phase = ui.last.phase)
    BY <1>0 DEF ComposeAll
<1>2. /\ GiveUp(held) \in Statics /\ ~GiveUp(held).panel /\ ~GiveUp(held).valid
      /\ Shown(held, snap) \in Statics /\ Shown(held, snap).last = snap
      /\ Shown(held, snap).valid /\ Shown(held, snap).panel
      /\ [held EXCEPT !.valid = FALSE] \in Statics
    BY StaticsKeep
<1>3. /\ owner' = IF full THEN "ui" ELSE owner
      /\ fullRev' = IF full THEN layout.revision ELSE fullRev
      /\ \/ /\ ConsoleIncomplete(drawn, snap, full, r)
            /\ Finish(call, io, drawn, [held EXCEPT !.valid = FALSE], FALSE)
            /\ rt' = r /\ shown' = shown
            /\ leftOff' = (leftOff \/ ~ui.panel)
         \/ /\ ~ConsoleIncomplete(drawn, snap, full, r)
            /\ Show(call, io, drawn, held, snap, r)
    BY DEF Compose
<1> HIDE DEF full, held
<1>4. /\ Screen(drawn) /\ drawn.panel = opened.panel /\ drawn.on = opened.on
      /\ full \/ CleanSent(opened) => CleanSent(drawn)
    BY <1>0, <1>1, DrawnKeeps
<1>5. ASSUME ~ConsoleIncomplete(drawn, snap, full, r)
      PROVE  /\ full => Composed(drawn, snap, r.view.app, L)
             /\ \A last, app :
                  /\ ~full /\ Composed(opened, last, app, L) /\ last.phase = snap.phase
                  /\ snap.phase = "HOME" /\ ~r.dirty => r.view.app = app
                  => Composed(drawn, snap, r.view.app, L)
    BY <1>0, <1>1, <1>5, DrawnShows
<1> HIDE DEF drawn
<1>6. owner' = "ui" => CleanSent(drawn)
  <2>1. CASE full
      BY <1>4, <2>1
  <2>2. CASE ~full
      BY <1>1, <1>3, <1>4, <2>2 DEF CleanMeansSent, CleanSent
  <2> QED
      BY <1>1, <2>1, <2>2
<1>7. r.view # shown => r.dirty
    BY DEF DirtyUntilShown, Grows
<1>14. ASSUME ScreenInv PROVE fullRev' \in Nat /\ fullRev' <= layout.revision
    BY <1>3, <1>14 DEF ScreenInv, StaticsInv
<1>8. CASE ConsoleIncomplete(drawn, snap, full, r)
  <2>1. /\ scr' = drawn /\ ui' = [held EXCEPT !.valid = FALSE] /\ rt' = r /\ shown' = shown
        /\ answer' = [call |-> call, ok |-> FALSE] /\ leftOff' = (leftOff \/ ~ui.panel)
      BY <1>3, <1>8 DEF Finish
  <2>2. ui' \in Statics /\ ui'.valid = FALSE
    <3>1. ui' \in Statics
        BY <1>2, <2>1
    <3>2. held.valid = ui.valid /\ held \in Statics
        BY DEF held, StaticsInv, Statics, UiSnap
    <3>3. ui'.valid = FALSE
        BY <2>1, <3>2 DEF Statics
    <3> QED
        BY <3>1, <3>3
  <2>3. ASSUME ScreenInv PROVE ScreenInv'
    <3>1. UiRuntimeRestores'
        BY <2>1 DEF UiRuntimeRestores
    <3>2. leftOff' \in BOOLEAN /\ (leftOff' \/ scr'.on)
        BY <1>0, <1>4, <2>1, <2>3 DEF ScreenInv
    <3> QED
        BY <1>14, <2>2, <2>3, <3>1, <3>2 DEF ScreenInv
  <2> QED
      BY <1>4, <1>6, <1>7, <2>1, <2>2, <2>3 DEF DirtyUntilShown, CleanMeansSent, CleanSent
<1>9. CASE ~ConsoleIncomplete(drawn, snap, full, r)
  <2>1. Show(call, io, drawn, held, snap, r)
      BY <1>3, <1>9
  <2>2. /\ Screen(scr')
        /\ scr'.fb = drawn.fb /\ scr'.status = drawn.status /\ scr'.console = drawn.console
        /\ CleanSent(drawn) => CleanSent(scr')
        /\ \/ /\ answer' = [call |-> call, ok |-> TRUE]
              /\ ui' = Shown(held, snap)
              /\ shown' = IF snap.phase = "HOME" THEN r.view ELSE shown
              /\ rt' = [r EXCEPT !.dirty = @ /\ snap.phase # "HOME"]
              /\ ~ui.panel \/ drawn.on => scr'.on
              /\ CleanSent(drawn) => scr'.panel = scr'.fb
              /\ leftOff' = (leftOff /\ ui.panel)
           \/ /\ answer' = [call |-> call, ok |-> FALSE]
              /\ ui' = GiveUp(held) /\ rt' = r /\ shown' = shown /\ leftOff' = leftOff
      BY <1>0, <1>4, <2>1, ShowKeeps
  <2>3. CleanMeansSent'
      BY <1>6, <2>2 DEF CleanMeansSent, CleanSent
  <2>4. CASE /\ answer' = [call |-> call, ok |-> FALSE]
             /\ ui' = GiveUp(held) /\ rt' = r /\ shown' = shown /\ leftOff' = leftOff
    <3>1. ui' \in Statics /\ Sound(rt') /\ DirtyUntilShown' /\ ~ui'.panel /\ ~ui'.valid
        BY <1>2, <1>7, <2>4 DEF DirtyUntilShown
    <3>2. ScreenInv => ScreenInv'
        BY <1>14, <2>4, <3>1 DEF ScreenInv, UiRuntimeRestores
    <3> QED
        BY <2>2, <2>3, <3>1, <3>2
  <2>5. CASE /\ answer' = [call |-> call, ok |-> TRUE]
             /\ ui' = Shown(held, snap)
             /\ shown' = IF snap.phase = "HOME" THEN r.view ELSE shown
             /\ rt' = [r EXCEPT !.dirty = @ /\ snap.phase # "HOME"]
             /\ ~ui.panel \/ drawn.on => scr'.on
             /\ CleanSent(drawn) => scr'.panel = scr'.fb
             /\ leftOff' = (leftOff /\ ui.panel)
    <3>1. /\ ui' \in Statics /\ ui'.last = snap /\ ui'.valid /\ ui'.panel
        BY <1>2, <2>5
    <3>2. /\ Sound(rt') /\ rt'.view = r.view
          /\ rt'.dirty = (r.dirty /\ snap.phase # "HOME")
      <4> DEFINE b == snap.phase # "HOME"
      <4>1. b \in BOOLEAN /\ rt' = [r EXCEPT !.dirty = @ /\ b]
          BY <2>5
      <4> HIDE DEF b
      <4>2. Sound(rt') /\ rt'.view = r.view /\ rt'.dirty = (r.dirty /\ b)
          BY <4>1, ConsumeSound
      <4> QED
          BY <4>2 DEF b
    <3>3. DirtyUntilShown'
        BY <1>7, <2>5, <3>2 DEF DirtyUntilShown
    <3>4. ASSUME ScreenInv
          PROVE  ScreenInv'
      <4>1. leftOff' \in BOOLEAN /\ (leftOff' \/ scr'.on)
          BY <1>0, <1>4, <2>5, <3>4 DEF ScreenInv
      <4>2. \/ full
            \/ owner' = "ui" /\ fullRev' = layout.revision
            => Composed(drawn, snap, r.view.app, L)
        <5>1. CASE full
            BY <1>5, <1>9, <5>1
        <5>2. CASE ~full /\ owner' = "ui" /\ fullRev' = layout.revision
          <6>1. Composed(opened, ui.last, shown.app, L)
              BY <1>1, <1>3, <3>4, <5>2 DEF ScreenInv
          <6>2. ~r.dirty => r.view.app = shown.app
              BY <1>7
          <6> QED
              BY <1>1, <1>5, <1>9, <5>2, <6>1, <6>2
        <5> QED
            BY <5>1, <5>2
      <4>3. Composed(drawn, snap, r.view.app, L) => Composed(scr', snap, shown'.app, L)
        <5>1. Name(snap.phase, r.view.app) = Name(snap.phase, shown'.app)
          <6>1. snap.phase \in {"SPLASH", "HOME"}
              BY DEF UiSnap
          <6> QED
              BY <2>5, <6>1 DEF Name
        <5>2. Composed(drawn, snap, r.view.app, L) => Composed(scr', snap, r.view.app, L)
            BY <2>2, ComposedCopies
        <5> QED
            BY <5>1, <5>2 DEF Composed
      <4>4. (owner' = "ui" /\ fullRev' = layout.revision) =>
              Composed(scr', snap, shown'.app, L) /\ scr'.panel = scr'.fb
          BY <1>6, <2>5, <4>2, <4>3
      <4>5. UiRuntimeRestores'
        <5> SUFFICES ASSUME call = "uiruntime" PROVE Visible(ui.last)'
            BY <2>5 DEF UiRuntimeRestores
        <5>1. full /\ owner' = "ui"
            BY <1>1, <1>3
        <5>2. Composed(scr', snap, shown'.app, L) /\ scr'.panel = scr'.fb
            BY <1>6, <2>5, <4>2, <4>3, <5>1
        <5>3. scr'.panel = PictureOf(snap, shown'.app, L)
            BY <2>2, <5>2, ComposedIsPicture
        <5>4. Picture(ui.last, layout.rect)' = PictureOf(snap, shown'.app, L)
            BY <3>1 DEF Picture, PictureOf, Name
        <5> QED
            BY <4>1, <5>3, <5>4 DEF Visible
      <4> QED
          BY <1>14, <3>1, <3>4, <4>1, <4>4, <4>5 DEF ScreenInv
    <3> QED
        BY <2>2, <2>3, <3>1, <3>2, <3>3, <3>4
  <2> QED
      BY <2>2, <2>4, <2>5
<1> QED
    BY <1>8, <1>9
\* The invariant of the records; ToldInv and ScreenInv come on top of it.
CoreInv == StaticsInv /\ MinuteInv /\ AppsInv /\ CleanMeansSent

\* boot_desktop_ui_render(), idle, refused or at work.
LEMMA RenderKeeps ==
    ASSUME CoreInv, NEW call, NEW force \in BOOLEAN, call = "uiruntime" => force,
           Render(call, force)
    PROVE  /\ CoreInv' /\ svc'.minute >= svc.minute
           /\ "render" \notin MayFail /\ ToldInv => ToldInv'
           /\ ScreenInv => ScreenInv'
<1> DEFINE snap == UiSnapshot(Phase, Refreshed)
           r == Served.rt
<1>0. PICK app \in {Served}, picture \in {snap}, io \in BusOutcomes :
        /\ svc' = Refreshed
        /\ bridge' = app.bridge
        /\ told' = app.told
        /\ \/ /\ app.ok => NothingToDo(force, picture, app.rt)
              /\ io = BusOk
              /\ Finish(call, io, scr, [ui EXCEPT !.phase = Phase], app.ok)
              /\ rt' = app.rt
              /\ UNCHANGED <<shown, owner, fullRev, leftOff>>
           \/ /\ app.ok /\ ~NothingToDo(force, picture, app.rt)
              /\ \E opened \in {IF ui.panel THEN Done(scr, TRUE) ELSE PanelInit(scr, io)} :
                    \/ /\ ~opened.ok
                       /\ Finish(call, io, opened.scr, [ui EXCEPT !.phase = Phase], FALSE)
                       /\ rt' = app.rt
                       /\ UNCHANGED <<shown, owner, fullRev, leftOff>>
                    \/ /\ opened.ok
                       /\ Compose(call, io, opened.scr, ComposeAll(force, picture),
                                  [ui EXCEPT !.phase = Phase, !.panel = TRUE], picture, app.rt)
        /\ Faulted(io)
        /\ UNCHANGED <<layout, ret>>
    BY DEF Render
<1>1. /\ svc' = Refreshed
      /\ bridge' = Served.bridge
      /\ told' = Served.told
      /\ \/ /\ Served.ok => NothingToDo(force, snap, r)
            /\ Finish(call, io, scr, [ui EXCEPT !.phase = Phase], Served.ok)
            /\ rt' = r
            /\ UNCHANGED <<shown, owner, fullRev, leftOff>>
         \/ \E opened \in {IF ui.panel THEN Done(scr, TRUE) ELSE PanelInit(scr, io)} :
                  \/ /\ ~opened.ok
                     /\ Finish(call, io, opened.scr, [ui EXCEPT !.phase = Phase], FALSE)
                     /\ rt' = r
                     /\ UNCHANGED <<shown, owner, fullRev, leftOff>>
                  \/ /\ opened.ok
                     /\ Compose(call, io, opened.scr, ComposeAll(force, snap),
                                [ui EXCEPT !.phase = Phase, !.panel = TRUE], snap, r)
      /\ Faulted(io)
      /\ UNCHANGED layout
  <2>1. app = Served /\ picture = snap
      BY <1>0
  <2> HIDE DEF snap
  <2> QED
      BY <1>0, <2>1
<1>2. /\ Refreshed \in ServiceStates /\ InStep(Refreshed, env.uptime)
      /\ Refreshed.minute >= svc.minute
    BY RefreshedKeeps DEF CoreInv
<1>3. snap \in UiSnap /\ snap.phase = Phase
    BY <1>2, SnapshotsHold, PhaseRange DEF CoreInv
<1>4. /\ Sound(r) /\ Grows(rt, r) /\ Served.bridge \in Bridge
      /\ "render" \notin MayFail /\ ToldInv =>
           /\ Served.told \in Snapshot
           /\ Served.bridge.valid => Served.told = Served.bridge.last
    BY ServedSound DEF CoreInv
<1> HIDE DEF snap, r
<1>5. /\ env' \in Environs /\ env'.uptime = env.uptime
      /\ layout' \in [rect : Layouts, revision : Nat] /\ svc' \in ServiceStates /\ MinuteInv'
      /\ svc'.minute >= svc.minute
    BY <1>1, <1>2 DEF CoreInv, StaticsInv, Environs, Faulted, MinuteInv
<1>6. bridge' \in Bridge /\ ("render" \notin MayFail /\ ToldInv => ToldInv')
    BY <1>1, <1>4 DEF ToldInv, ToldWhatBridgeKnows
<1>7. /\ io \in Ios /\ StaticsInv /\ DirtyUntilShown /\ CleanMeansSent /\ Screen(scr)
      /\ [ui EXCEPT !.phase = Phase] \in Statics
    BY <1>3, IoParts, StaticsKeep DEF CoreInv, AppsInv, StaticsInv
<1>8. ASSUME ui' \in Statics, Screen(scr'), Sound(rt'), DirtyUntilShown', CleanMeansSent'
      PROVE  CoreInv'
    BY <1>5, <1>6, <1>8 DEF CoreInv, StaticsInv, Statics, Environs, AppsInv
<1>9. r.view # shown => r.dirty
    BY <1>4, <1>7 DEF DirtyUntilShown, Grows
<1>10. ASSUME NEW s, NEW ok, Screen(s), SameContent(scr, s), ui.panel => s = scr, ok => ~force,
              Finish(call, io, s, [ui EXCEPT !.phase = Phase], ok),
              rt' = r, UNCHANGED <<shown, owner, fullRev, leftOff>>
       PROVE  CoreInv' /\ (ScreenInv => ScreenInv')
  <2>1. /\ scr' = s /\ ui' = [ui EXCEPT !.phase = Phase]
        /\ answer' = [call |-> call, ok |-> ok]
      BY <1>10 DEF Finish
  <2>2. /\ ui' \in Statics /\ ui'.valid = ui.valid /\ ui'.panel = ui.panel
        /\ ui'.last = ui.last
      BY <1>7, <2>1 DEF StaticsInv
  <2>3. CleanMeansSent'
      BY <1>7, <1>10, <2>1 DEF CleanMeansSent, SameContent
  <2>4. CoreInv'
      BY <1>4, <1>8, <1>9, <1>10, <2>1, <2>2, <2>3 DEF DirtyUntilShown
  <2>5. ASSUME ScreenInv PROVE ScreenInv'
    <3>1. UiRuntimeRestores'
        BY <1>10, <2>1 DEF UiRuntimeRestores
    <3>2. ui.panel => scr' = scr
        BY <1>10, <2>1
    <3> QED
        BY <1>1, <1>10, <2>2, <2>5, <3>1, <3>2 DEF ScreenInv
  <2> QED
      BY <2>4, <2>5
<1>11. CASE /\ Served.ok => NothingToDo(force, snap, r)
            /\ Finish(call, io, scr, [ui EXCEPT !.phase = Phase], Served.ok)
            /\ rt' = r
            /\ UNCHANGED <<shown, owner, fullRev, leftOff>>
  <2>1. Served.ok => ~force
      BY <1>11 DEF NothingToDo
  <2>2. SameContent(scr, scr)
      BY DEF SameContent
  <2> QED
      BY <1>5, <1>6, <1>7, <1>10, <1>11, <2>1, <2>2
<1>12. ASSUME NEW opened, opened = IF ui.panel THEN Done(scr, TRUE) ELSE PanelInit(scr, io)
       PROVE  /\ Screen(opened.scr) /\ SameContent(scr, opened.scr)
              /\ ui.panel => opened.scr = scr
  <2>1. CASE ui.panel
      BY <1>7, <1>12, <2>1 DEF Done, SameContent
  <2>2. CASE ~ui.panel
      BY <1>7, <1>12, <2>2, PanelKeeps
  <2> QED
      BY <2>1, <2>2
<1>13. CASE \E opened \in {IF ui.panel THEN Done(scr, TRUE) ELSE PanelInit(scr, io)} :
                    \/ /\ ~opened.ok
                       /\ Finish(call, io, opened.scr, [ui EXCEPT !.phase = Phase], FALSE)
                       /\ rt' = r
                       /\ UNCHANGED <<shown, owner, fullRev, leftOff>>
                    \/ /\ opened.ok
                       /\ Compose(call, io, opened.scr, ComposeAll(force, snap),
                                  [ui EXCEPT !.phase = Phase, !.panel = TRUE], snap, r)
  <2>1. PICK opened : /\ opened = IF ui.panel THEN Done(scr, TRUE) ELSE PanelInit(scr, io)
                      /\ \/ /\ ~opened.ok
                            /\ Finish(call, io, opened.scr, [ui EXCEPT !.phase = Phase], FALSE)
                            /\ rt' = r
                            /\ UNCHANGED <<shown, owner, fullRev, leftOff>>
                         \/ /\ opened.ok
                            /\ Compose(call, io, opened.scr, ComposeAll(force, snap),
                                       [ui EXCEPT !.phase = Phase, !.panel = TRUE], snap, r)
      BY <1>13
  <2>2. /\ Screen(opened.scr) /\ SameContent(scr, opened.scr)
        /\ ui.panel => opened.scr = scr
      BY <1>12, <2>1
  <2>3. CASE /\ Finish(call, io, opened.scr, [ui EXCEPT !.phase = Phase], FALSE)
             /\ rt' = r
             /\ UNCHANGED <<shown, owner, fullRev, leftOff>>
      BY <1>5, <1>6, <1>10, <2>2, <2>3
  <2>4. CASE Compose(call, io, opened.scr, ComposeAll(force, snap),
                     [ui EXCEPT !.phase = Phase, !.panel = TRUE], snap, r)
    <3>1. Compose(call, io, opened.scr, ComposeAll(force, snap),
                  [ui EXCEPT !.phase = snap.phase, !.panel = TRUE], snap, r)
        BY <1>3, <2>4
    <3>2. /\ ui' \in Statics /\ Screen(scr')
          /\ Sound(rt') /\ DirtyUntilShown' /\ CleanMeansSent'
          /\ ScreenInv => ScreenInv'
        BY <1>1, <1>3, <1>4, <1>7, <2>2, <3>1, ComposeKeeps
    <3> QED
        BY <1>5, <1>6, <1>8, <3>2
  <2> QED
      BY <2>1, <2>3, <2>4
<1> QED
    BY <1>1, <1>11, <1>13
-----------------------------------------------------------------------------
(* The diagnostics *)

\* The diagnostics draw with the same operations.
LEMMA DiagPictureHolds ==
    ASSUME NEW s, Screen(s), NEW pages
    PROVE  Screen(DiagPicture(s, pages)) /\ Screen(ClearFb(s)) /\ Screen(MarkAllDirty(s))
BY DrawMarks, MarkAllMarks DEF DiagPicture, ClearFb

LEMMA DiagDrawnHolds ==
    ASSUME NEW s, Screen(s), NEW d \in Diagnostics
    PROVE  Screen(DiagDrawn(s, d))
<1> DEFINE lines == DiagPicture(MarkAllDirty(ClearFb(s)), {0})
<1>0. Screen(ClearFb(s)) /\ Screen(MarkAllDirty(ClearFb(s)))
    BY DiagPictureHolds
<1>1. Screen(lines) /\ Screen(DiagPicture(ClearFb(s), Pages))
    BY <1>0, DiagPictureHolds
<1> HIDE DEF lines
<1>2. ASSUME NEW first \in Rows
      PROVE  Screen(ConsoleRender(ConsoleFilled(lines, "diag", first), DefaultLayout))
  <2> DEFINE e == ConsoleFilled(lines, "diag", first)
  <2>1. Screen(e)
      BY <1>1, ConsoleFilledFills
  <2> HIDE DEF e
  <2>2. Screen(ConsoleRender(e, DefaultLayout))
      BY <2>1, LayoutAssumption, ConsoleRenderDraws
  <2> QED
      BY <2>2 DEF e
<1>3. 0 \in Rows /\ 1 \in Rows
    BY DEF Rows
<1>4. CASE d = "test"
    BY <1>4 DEF DiagDrawn
<1>5. CASE d = "text"
    BY <1>1, <1>5 DEF DiagDrawn
<1>6. CASE d = "dirty"
    BY <1>1, <1>6 DEF DiagDrawn, lines
<1>7. CASE d \in {"console", "update"}
  <2>1. DiagDrawn(s, d) = ConsoleRender(ConsoleFilled(lines, "diag", 0), DefaultLayout)
      BY <1>7 DEF DiagDrawn, lines
  <2> QED
      BY <1>2, <1>3, <2>1
<1>8. CASE d = "scroll"
  <2>1. DiagDrawn(s, d) = ConsoleRender(ConsoleFilled(lines, "diag", 1), DefaultLayout)
      BY <1>8 DEF DiagDrawn, lines
  <2> QED
      BY <1>2, <1>3, <2>1
<1> QED
    BY <1>4, <1>5, <1>6, <1>7, <1>8, UiAssumption

WithPanel(s, f) == [s EXCEPT !.panel = f]

LEMMA PanelReplaced ==
    ASSUME NEW s, Screen(s), NEW f, f = [k \in Cells |-> f[k]]
    PROVE  Screen(WithPanel(s, f))
<1> DEFINE d == WithPanel(s, f)
<1>1. d = [fb |-> s.fb, dirty |-> s.dirty, panel |-> f, on |-> s.on,
           status |-> s.status, console |-> s.console]
    BY DEF WithPanel, Screen
<1>2. /\ d.fb = s.fb /\ d.dirty = s.dirty /\ d.panel = f /\ d.on = s.on
      /\ d.status = s.status /\ d.console = s.console
    BY <1>1
<1> HIDE DEF d
<1>3. Screen(d)
    BY <1>1, <1>2 DEF Screen
<1> QED
    BY <1>3 DEF d

\* A diagnostic sends as the user interface does, or past the framebuffer.
LEMMA DiagSentHolds ==
    ASSUME NEW s, Screen(s), NEW d, NEW io \in Ios
    PROVE  /\ Screen(DiagSent(s, d, io).scr)
           /\ io.stage # "present" => DiagSent(s, d, io).ok
<1>1. CASE d = "test"
  <2> DEFINE reached == {k \in Cells : io.stage # "present" \/ k[1] < io.page}
             f == [k \in Cells |-> IF k \in reached THEN Junk ELSE s.panel[k]]
  <2>1. /\ DiagSent(s, d, io).scr = WithPanel(s, f)
        /\ io.stage # "present" => DiagSent(s, d, io).ok
      BY <1>1 DEF DiagSent, Checkerboard, Done, WithPanel
  <2>2. f = [k \in Cells |-> f[k]]
      OBVIOUS
  <2> HIDE DEF f
  <2>3. Screen(WithPanel(s, f))
      BY <2>2, PanelReplaced
  <2> QED
      BY <2>1, <2>3
<1>2. CASE d = "text"
  <2> DEFINE C == IF io.stage = "present"
                    THEN {k \in Cells : k[1] < io.page \/ (k[1] = io.page /\ k[2] <= io.sent)}
                    ELSE Cells
             f == [k \in Cells |-> IF k \in C THEN s.fb[k] ELSE s.panel[k]]
  <2>1. /\ DiagSent(s, d, io).scr = WithPanel(s, f)
        /\ io.stage # "present" => DiagSent(s, d, io).ok
    <3>1. /\ DiagSent(s, d, io).scr = Sent(s, C)
          /\ io.stage # "present" => DiagSent(s, d, io).ok
        BY <1>2 DEF DiagSent, PresentFull, Done
    <3> QED
        BY <3>1 DEF Sent, WithPanel
  <2>2. f = [k \in Cells |-> f[k]]
      OBVIOUS
  <2> HIDE DEF f
  <2>3. Screen(WithPanel(s, f))
      BY <2>2, PanelReplaced
  <2> QED
      BY <2>1, <2>3
<1>3. CASE d \notin {"test", "text"}
  <2>1. DiagSent(s, d, io) = Present(s, io)
      BY <1>3 DEF DiagSent
  <2> QED
      BY <2>1, PresentSends
<1> QED
    BY <1>1, <1>2, <1>3

\* A diagnostic takes the screen over: nothing is promised of it afterwards, but that
\* the display is on if the diagnostic did not fail.
LEMMA DiagnosticKeeps ==
    ASSUME CoreInv, Diagnostic
    PROVE  /\ CoreInv' /\ svc' = svc /\ (ToldInv => ToldInv')
           /\ ScreenInv => ScreenInv'
<1>1. PICK d \in Diagnostics, io \in BusOutcomes :
           LET opened == PanelInit(scr, io)
               sent == DiagSent(DiagDrawn(opened.scr, d), d, io)
               lit == DisplayOn(sent.scr, io)
           IN  /\ scr' = IF ~opened.ok THEN opened.scr
                         ELSE IF sent.ok \/ d = "update" THEN lit.scr
                         ELSE sent.scr
               /\ owner' = "diagnostic"
               /\ answer' = [call |-> "diagnostic", ok |-> opened.ok /\ sent.ok /\ lit.ok]
               /\ leftOff' = ~(opened.ok /\ sent.ok /\ lit.ok)
               /\ env' = [env EXCEPT !.upsets = @ + 1]
               /\ UNCHANGED <<vars, ui, svc, layout, fullRev>>
    BY DEF Diagnostic
<1> DEFINE opened == PanelInit(scr, io)
           drawn == DiagDrawn(opened.scr, d)
           sent == DiagSent(drawn, d, io)
           lit == DisplayOn(sent.scr, io)
<1>2. /\ scr' = IF ~opened.ok THEN opened.scr
                ELSE IF sent.ok \/ d = "update" THEN lit.scr
                ELSE sent.scr
      /\ owner' = "diagnostic" /\ answer'.call = "diagnostic"
      /\ leftOff' = ~(opened.ok /\ sent.ok /\ lit.ok)
      /\ env' = [env EXCEPT !.upsets = @ + 1]
      /\ UNCHANGED <<rt, bridge, told, shown, ui, svc, layout, fullRev>>
    BY <1>1 DEF vars
<1>3. io \in Ios /\ Screen(scr)
    BY <1>1, IoParts DEF CoreInv, StaticsInv
<1>4. /\ Screen(opened.scr) /\ opened.ok \in BOOLEAN
      /\ opened.ok <=> io.stage # "init"
    BY <1>3, PanelKeeps
<1> HIDE DEF opened
<1>5. Screen(drawn)
    BY <1>4, DiagDrawnHolds
<1> HIDE DEF drawn
<1>6. Screen(sent.scr) /\ (io.stage # "present" => sent.ok)
    BY <1>3, <1>5, DiagSentHolds
<1> HIDE DEF sent
<1>7. /\ Screen(lit.scr)
      /\ lit.ok => lit.scr.on
    BY <1>3, <1>6, PanelKeeps
<1> HIDE DEF lit
<1>8. Screen(scr')
    BY <1>2, <1>4, <1>6, <1>7
<1>9. leftOff' \in BOOLEAN /\ (leftOff' \/ scr'.on)
  <2>1. leftOff' \in BOOLEAN
      BY <1>2
  <2>2. ASSUME ~leftOff' PROVE scr'.on
    <3>1. opened.ok /\ sent.ok /\ lit.ok
        BY <1>2, <2>2
    <3> QED
        BY <1>2, <1>7, <3>1
  <2> QED
      BY <2>1, <2>2
<1>10. env' \in Environs /\ env'.uptime = env.uptime
    BY <1>2 DEF CoreInv, StaticsInv, Environs
<1>11. CoreInv'
    BY <1>2, <1>8, <1>10 DEF CoreInv, StaticsInv, Environs, MinuteInv, AppsInv, DirtyUntilShown,
                             CleanMeansSent
<1>12. ToldInv => ToldInv'
    BY <1>2 DEF ToldInv, ToldWhatBridgeKnows
<1>13. ScreenInv => ScreenInv'
    BY <1>2, <1>9 DEF ScreenInv, UiRuntimeRestores
<1> QED
    BY <1>2, <1>11, <1>12, <1>13

-----------------------------------------------------------------------------
(* Commands, layouts and the world *)

\* What leaves the picture alone leaves it the picture.
LEMMA PictureKept ==
    ASSUME ScreenInv, UNCHANGED <<ui, scr, owner, shown, fullRev, leftOff>>,
           answer' = Unanswered, layout.revision \in Nat,
           layout' = layout \/ layout'.revision = layout.revision + 1
    PROVE  ScreenInv'
<1>1. UiRuntimeRestores'
    BY DEF UiRuntimeRestores, Unanswered
<1>2. fullRev' <= layout'.revision /\ (fullRev' = layout'.revision => layout' = layout)
    BY DEF ScreenInv
<1> QED
    BY <1>1, <1>2 DEF ScreenInv

\* appstart and appstop read the services and change the runtime, not the screen.
LEMMA CommandKeeps ==
    ASSUME CoreInv, UiAppStart \/ UiAppStop
    PROVE  /\ CoreInv' /\ svc'.minute >= svc.minute /\ (ToldInv => ToldInv')
           /\ ScreenInv => ScreenInv'
<1>0. BuiltIn.text \in Texts
    BY UiAssumption, CallbackText DEF BuiltIn
<1>1. PICK s : AppCommand(s) /\ Sound(s.rt) /\ Grows(rt, s.rt)
  <2>1. CASE UiAppStart
    <3>1. PICK id \in Apps : AppCommand(Start(rt, id, BuiltIn))
        BY <2>1 DEF UiAppStart
    <3> QED
        BY <1>0, <3>1, StartSound DEF CoreInv, AppsInv
  <2>2. CASE UiAppStop
    <3>1. AppCommand(Stop(rt, BuiltIn))
        BY <2>2 DEF UiAppStop
    <3> QED
        BY <1>0, <3>1, StopSound DEF CoreInv, AppsInv
  <2> QED
      BY <2>1, <2>2
<1>2. /\ answer' = Unanswered
      /\ UNCHANGED <<bridge, told, shown, ui, scr, layout, env, owner, fullRev, leftOff>>
      /\ \/ svc' = Refreshed /\ rt' = s.rt
         \/ UNCHANGED <<rt, svc>>
    BY <1>1 DEF AppCommand
<1>3. /\ svc' \in ServiceStates /\ InStep(svc', env.uptime) /\ svc'.minute >= svc.minute
  <2>1. CASE svc' = Refreshed
      BY <2>1, RefreshedKeeps DEF CoreInv
  <2>2. CASE svc' = svc
    <3>1. svc.minute \in 0 .. (Saturate - 1) /\ Saturate \in Nat
        BY UiAssumption DEF CoreInv, StaticsInv, ServiceStates
    <3>2. svc.minute >= svc.minute
        BY <3>1
    <3> QED
        BY <2>2, <3>2 DEF CoreInv, StaticsInv, MinuteInv
  <2> QED
      BY <1>2, <2>1, <2>2
<1>4. Sound(rt') /\ DirtyUntilShown'
    BY <1>1, <1>2 DEF CoreInv, AppsInv, DirtyUntilShown, Grows
<1>5. CoreInv'
    BY <1>2, <1>3, <1>4 DEF CoreInv, StaticsInv, MinuteInv, AppsInv, CleanMeansSent
<1>6. ToldInv => ToldInv'
    BY <1>2 DEF ToldInv, ToldWhatBridgeKnows
<1> QED
    BY <1>2, <1>3, <1>5, <1>6, PictureKept DEF CoreInv, StaticsInv

\* An activated layout has a new revision, for which nothing was composed yet.
LEMMA LayoutKeeps ==
    ASSUME CoreInv, ActivateLayout
    PROVE  CoreInv' /\ svc' = svc /\ (ToldInv => ToldInv') /\ (ScreenInv => ScreenInv')
<1>1. PICK L \in Layouts :
        /\ layout' = [rect |-> L, revision |-> layout.revision + 1]
        /\ env' = [env EXCEPT !.upsets = @ + 1]
        /\ answer' = Unanswered
        /\ UNCHANGED <<vars, ui, scr, svc, owner, fullRev, leftOff>>
    BY DEF ActivateLayout
<1>2. /\ layout' \in [rect : Layouts, revision : Nat]
      /\ layout.revision \in Nat /\ layout'.revision = layout.revision + 1
    BY <1>1 DEF CoreInv, StaticsInv
<1>3. env' \in Environs /\ env'.uptime = env.uptime
    BY <1>1 DEF CoreInv, StaticsInv, Environs
<1>4. CoreInv'
    BY <1>1, <1>2, <1>3 DEF vars, CoreInv, StaticsInv, Environs, MinuteInv, AppsInv,
                            DirtyUntilShown, CleanMeansSent
<1>5. ToldInv => ToldInv'
    BY <1>1 DEF vars, ToldInv, ToldWhatBridgeKnows
<1>6. ScreenInv => ScreenInv'
    BY <1>1, <1>2, PictureKept DEF vars
<1> QED
    BY <1>1, <1>4, <1>5, <1>6

\* Time passes only after the services were read, so the minutes stay in step; the
\* uptime wraps only when the display has stuck.
LEMMA WorldKeeps ==
    ASSUME CoreInv, Tick \/ SplashElapses \/ TasksReady \/ TaskFails \/ UsbChange
    PROVE  CoreInv' /\ svc' = svc /\ (ToldInv => ToldInv') /\ (ScreenInv => ScreenInv')
<1>0. /\ env \in Environs /\ svc \in ServiceStates /\ InStep(svc, env.uptime)
      /\ Saturate \in Nat \ {0} /\ Wrap \in Nat /\ Saturate < Wrap
    BY UiAssumption DEF CoreInv, StaticsInv, Environs, MinuteInv
<1>1. /\ answer' = Unanswered
      /\ UNCHANGED <<rt, bridge, told, shown, ui, scr, svc, layout, owner, fullRev, leftOff>>
    BY DEF Tick, SplashElapses, TasksReady, TaskFails, UsbChange, Environment, vars
<1>2. env' \in Environs /\ InStep(svc, env'.uptime)
  <2>1. CASE Tick
    <3>1. svc.at = env.uptime /\ env' = [env EXCEPT !.uptime = (@ + 1) % Wrap]
        BY <2>1 DEF Tick, Environment
    <3> DEFINE next == (env.uptime + 1) % Wrap
    <3>2. env.uptime \in 0 .. (Wrap - 1)
        BY <1>0 DEF Environs
    <3>3. next \in 0 .. (Wrap - 1) /\ (env.uptime < Saturate => next = env.uptime + 1)
        BY <1>0, <3>2
    <3>4. env' = [env EXCEPT !.uptime = next]
        BY <3>1
    <3> HIDE DEF next
    <3>5. env' \in Environs /\ env'.uptime = next
        BY <1>0, <3>3, <3>4 DEF Environs
    <3>6. InStep(svc, next)
        BY <1>0, <3>1, <3>3 DEF InStep
    <3> QED
        BY <3>5, <3>6
  <2>2. CASE SplashElapses \/ TasksReady \/ TaskFails \/ UsbChange
    <3>1. \/ env' = [env EXCEPT !.elapsed = TRUE]
          \/ env' = [env EXCEPT !.ready = 1]
          \/ env' = [env EXCEPT !.ready = 0, !.failed = TRUE, !.upsets = @ + 1]
          \/ env' = [env EXCEPT !.usb = 1 - @, !.upsets = @ + 1]
        BY <2>2 DEF SplashElapses, TasksReady, TaskFails, UsbChange, Environment
    <3>2. 1 - env.usb \in {0, 1} /\ env.upsets + 1 \in Nat
        BY <1>0 DEF Environs
    <3>3. env' \in Environs /\ env'.uptime = env.uptime
        BY <1>0, <3>1, <3>2 DEF Environs
    <3> QED
        BY <1>0, <3>3
  <2> QED
      BY <2>1, <2>2
<1>3. CoreInv'
    BY <1>1, <1>2 DEF CoreInv, StaticsInv, Environs, MinuteInv, AppsInv, DirtyUntilShown,
                      CleanMeansSent
<1>4. ToldInv => ToldInv'
    BY <1>1 DEF ToldInv, ToldWhatBridgeKnows
<1>5. ScreenInv => ScreenInv'
    BY <1>1, PictureKept DEF CoreInv, StaticsInv
<1> QED
    BY <1>1, <1>3, <1>4, <1>5
LEMMA DesktopInit == UiInit => CoreInv /\ ToldInv /\ ScreenInv
<1> SUFFICES ASSUME UiInit PROVE CoreInv /\ ToldInv /\ ScreenInv
    OBVIOUS
<1>0. /\ Saturate \in Nat \ {0} /\ Wrap \in Nat /\ Saturate < Wrap
      /\ 0 \in 0 .. (Saturate - 1) /\ 0 \in 0 .. (Wrap - 1)
    BY UiAssumption
<1> DEFINE picture == UiSnapshot("SPLASH", svc)
           text == [r \in Rows |-> <<"none", r>>]
           cells == [k \in Cells |-> Empty]
           junk == [k \in Cells |-> Junk]
           spans == [p \in Pages |-> {}]
           console == [rows |-> text, first |-> 0, dirty |-> Rows]
           status == [value |-> picture, dirty |-> Cols]
<1>1. /\ svc \in ServiceStates /\ InStep(svc, env.uptime)
    BY <1>0 DEF UiInit, ServiceStates, InStep
<1>2. picture \in UiSnap
    BY <1>1, SnapshotsHold
<1>3. /\ text = [r \in Rows |-> text[r]] /\ cells = [k \in Cells |-> cells[k]]
      /\ junk = [k \in Cells |-> junk[k]]
      /\ spans \in [Pages -> SUBSET Cols] /\ \A p \in Pages : spans[p] = {}
    OBVIOUS
<1>4. /\ scr = [fb |-> cells, dirty |-> spans, panel |-> junk, on |-> FALSE,
                status |-> status, console |-> console]
      /\ ui = [phase |-> "SPLASH", valid |-> FALSE, panel |-> FALSE, splashVisible |-> FALSE,
               last |-> picture, revision |-> 0]
    BY DEF UiInit
<1>5. status \in [value : UiSnap, dirty : SUBSET Cols]
    BY <1>2
<1>6. console.rows = text /\ console.first = 0 /\ console.dirty = Rows
    OBVIOUS
<1> HIDE DEF picture, text, cells, junk, spans, status
<1>7. console = [rows |-> console.rows, first |-> console.first, dirty |-> console.dirty]
    BY <1>6
<1> HIDE DEF console
<1>8. /\ scr.fb = cells /\ scr.dirty = spans /\ scr.panel = junk /\ scr.on = FALSE
      /\ scr.status = status /\ scr.console = console
    BY <1>4
<1>9. Span({}) = {} /\ 0 \in Rows
    BY DEF Span, Rows
<1>10. Screen(scr)
    BY <1>3, <1>4, <1>5, <1>6, <1>7, <1>8, <1>9 DEF Screen
<1>11. ui \in Statics /\ ui.valid = FALSE /\ ui.panel = FALSE
    BY <1>2, <1>4 DEF Statics
<1>12. /\ env \in Environs /\ layout \in [rect : Layouts, revision : Nat]
    BY <1>0, LayoutAssumption DEF UiInit, Environs
<1>13. Sound(rt) /\ rt.view = shown
  <2>1. Reset \in Runtime /\ Reset.initialized = FALSE /\ Reset.active = None
        /\ Reset.states = [a \in Apps |-> "REGISTERED"] /\ Reset.view = Blank
      BY AppAssumption DEF Reset, Runtime, States, Views, Blank
  <2>2. Sound(Reset)
      BY <2>1, HomeIsApp DEF Sound, Settled, Owned, Running
  <2>3. {} \in SUBSET Apps
      OBVIOUS
  <2>4. rt = Initialized(Reset, {}) /\ shown = Blank
      BY DEF UiInit
  <2> QED
      BY <2>1, <2>2, <2>3, <2>4, InitializedSound
<1>14. bridge \in Bridge /\ bridge.valid = FALSE /\ told \in Snapshot
    BY DEF UiInit, Bridge, NoSnapshot, Snapshot
<1>15. AppsInv /\ ToldInv
    BY <1>13, <1>14 DEF AppsInv, DirtyUntilShown, ToldInv, ToldWhatBridgeKnows
<1>16. CleanMeansSent /\ UiRuntimeRestores
    BY DEF UiInit, CleanMeansSent, UiRuntimeRestores, Unanswered
<1>18. fullRev \in Nat /\ fullRev <= layout.revision /\ leftOff \in BOOLEAN
  <2>1. fullRev = 0 /\ layout.revision = 0
      BY DEF UiInit
  <2>2. fullRev \in Nat /\ fullRev <= layout.revision
      BY <2>1
  <2>3. leftOff \in BOOLEAN
      BY DEF UiInit
  <2> QED
      BY <2>2, <2>3
<1>17. CoreInv
    BY <1>1, <1>10, <1>11, <1>12, <1>15, <1>16
       DEF CoreInv, StaticsInv, Statics, Environs, MinuteInv
<1> QED
    BY <1>11, <1>15, <1>16, <1>17, <1>18 DEF ScreenInv

\* Every step of the user interface, at once.
LEMMA DesktopStep ==
    ASSUME CoreInv, [UiNext]_uiVars
    PROVE  /\ CoreInv' /\ svc'.minute >= svc.minute
           /\ "render" \notin MayFail /\ ToldInv => ToldInv'
           /\ ScreenInv => ScreenInv'
<1>0. layout.rect \in Layouts /\ (svc' = svc => svc'.minute >= svc.minute)
  <2>1. svc.minute \in 0 .. (Saturate - 1) /\ Saturate \in Nat
      BY UiAssumption DEF CoreInv, StaticsInv, ServiceStates
  <2>2. svc.minute >= svc.minute
      BY <2>1
  <2> QED
      BY <2>2 DEF CoreInv, StaticsInv
<1>1. CASE UiService
  <2>1. Render("service", FALSE)
      BY <1>1 DEF UiService
  <2> QED
      BY <1>0, <2>1, RenderKeeps
<1>2. CASE UiRuntime
  <2>1. Render("uiruntime", TRUE)
      BY <1>2 DEF UiRuntime
  <2> QED
      BY <1>0, <2>1, RenderKeeps
<1>3. CASE Diagnostic
    BY <1>0, <1>3, DiagnosticKeeps
<1>4. CASE UiAppStart \/ UiAppStop
    BY <1>4, CommandKeeps
<1>5. CASE ActivateLayout
    BY <1>0, <1>5, LayoutKeeps
<1>6. CASE Tick \/ SplashElapses \/ TasksReady \/ TaskFails \/ UsbChange
    BY <1>0, <1>6, WorldKeeps
<1>7. CASE UNCHANGED uiVars
  <2>1. UNCHANGED <<rt, bridge, told, shown, ui, scr, svc, layout, env, owner, answer,
                    fullRev, leftOff>>
      BY <1>7 DEF uiVars, vars
  <2>2. CoreInv' /\ (ToldInv => ToldInv')
      BY <2>1 DEF CoreInv, StaticsInv, MinuteInv, AppsInv, DirtyUntilShown, CleanMeansSent,
                  ToldInv, ToldWhatBridgeKnows
  <2>3. ScreenInv => ScreenInv'
      BY <2>1 DEF ScreenInv, UiRuntimeRestores, Visible, Picture
  <2> QED
      BY <1>0, <2>1, <2>2, <2>3
<1> QED
    BY <1>1, <1>2, <1>3, <1>4, <1>5, <1>6, <1>7 DEF UiNext

LEMMA DesktopInvariant == UiSpec => []CoreInv
<1>1. CoreInv /\ [UiNext]_uiVars => CoreInv'
    BY DesktopStep
<1> QED
    BY <1>1, DesktopInit, PTL DEF UiSpec

\* The minute on the display never goes back, whatever the uptime counter does.
THEOREM DesktopMinuteNeverBack == UiSpec => MinuteNeverBack
<1>1. CoreInv /\ [UiNext]_uiVars => [svc'.minute >= svc.minute]_uiVars
    BY DesktopStep
<1> QED
    BY <1>1, DesktopInvariant, PTL DEF UiSpec, MinuteNeverBack

\* Whichever transfer fails and however far it got, what the dirty spans call clean is
\* on the panel; and with callbacks that do not fail the applications know what the
\* bridge has noted.
THEOREM DesktopRecordsAreTrue ==
    ASSUME "render" \notin MayFail
    PROVE  UiSpec => []RecordsAreTrue
<1>1. CoreInv /\ ToldInv /\ [UiNext]_uiVars => ToldInv'
    BY DesktopStep
<1>2. CoreInv /\ ToldInv => RecordsAreTrue
    BY DEF CoreInv, StaticsInv, Statics, ServiceStates, Screen, ToldInv, RecordsAreTrue, UiTypeOK
<1> QED
    BY <1>1, <1>2, DesktopInit, DesktopInvariant, PTL DEF UiSpec

\* Whatever transfer of the user interface or of a diagnostic fails, and whatever layouts
\* are activated: what the user interface believes to be on the panel, composed in full
\* for the active layout, is on it, and uiruntime restores it after any diagnostic; and
\* the display is on unless a call that had initialised the panel left it off.
THEOREM DesktopScreenIsTrue == UiSpec => []ScreenIsTrue
<1>1. CoreInv /\ ScreenInv /\ [UiNext]_uiVars => ScreenInv'
    BY DesktopStep
<1>2. ASSUME CoreInv, ScreenInv
      PROVE  ScreenIsTrue
  <2>1. ASSUME ui.valid, owner = "ui", fullRev = layout.revision
        PROVE  Visible(ui.last)
    <3>1. /\ Composed(scr, ui.last, shown.app, layout.rect) /\ scr.panel = scr.fb
          /\ leftOff \/ scr.on
        BY <1>2, <2>1 DEF ScreenInv
    <3>2. scr.panel = PictureOf(ui.last, shown.app, layout.rect)
        BY <1>2, <3>1, ComposedIsPicture DEF CoreInv, StaticsInv
    <3>3. Picture(ui.last, layout.rect) = PictureOf(ui.last, shown.app, layout.rect)
        BY DEF Picture, PictureOf, Name
    <3> QED
        BY <3>1, <3>2, <3>3 DEF Visible
  <2> QED
      BY <1>2, <2>1 DEF ScreenInv, ScreenIsTrue, ShownIsTrue
<1> QED
    BY <1>1, <1>2, DesktopInit, DesktopInvariant, PTL DEF UiSpec
=============================================================================
