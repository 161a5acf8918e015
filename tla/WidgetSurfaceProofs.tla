------------------------- MODULE WidgetSurfaceProofs -------------------------
(***************************************************************************)
(* Proofs about WidgetSurface: every step keeps buffers, frames and        *)
(* touches straight (SurfaceSafe), for any number of buffers, fingers,     *)
(* reports, connections and events on their way.                           *)
(*                                                                         *)
(* present_frame acts on what the compositor had sent when it last looked, *)
(* and BufferOwned and DrawnWhenShown are about what the compositor has    *)
(* now.  The invariant therefore speaks of the client as it will be once   *)
(* it has read all that is on its way (After): that client knows the       *)
(* surface as the compositor has it, and takes for busy exactly the        *)
(* buffers that the compositor reads (Current).  What a client owes its    *)
(* caller in touches, and one frame a lifecycle, each event keeps by       *)
(* itself (Sound).                                                         *)
(***************************************************************************)
EXTENDS WidgetSurface, TLAPS

-----------------------------------------------------------------------------
(* What the client knows and what it is sent.                              *)

Sizes == {"Canvas", "Other", "Invalid"}
Contacts == [pressed : BOOLEAN, released : BOOLEAN]
\* What State of wayland.rs may hold.
States ==
  [configured : BOOLEAN, size : Sizes, visible : BOOLEAN, active : BOOLEAN,
   frame_pending : BOOLEAN, refresh_requested : BOOLEAN, shutdown : BOOLEAN,
   touch : BOOLEAN, touch_down : BOOLEAN, touches : Seq(Contacts), lost : BOOLEAN,
   busy : SUBSET Slots, frames : 0..1]

Sent(type, values) == [type : {type}, value : values]
\* What the compositor sends.
Events ==
  UNION {Sent("Configure", Sizes), Sent("ConfigureDone", {"None"}),
         Sent("Lifecycle", Renderable \cup {"Dormant"}), Sent("TransitionIncoming", {"None"}),
         Sent("Shutdown", {"None"}), Sent("Release", Slots), Sent("Capabilities", BOOLEAN),
         Sent("Touch", {"Down", "Up", "Motion", "Cancel"})}

\* The caller that was told t knows of a contact once it has collected touches.
Knows(t, touches) == IF touches = <<>> THEN t ELSE ~touches[Len(touches)].released

\* The reports that wait come in order after what the caller was told.
Paired(t, touches) ==
  \A i \in 1..Len(touches) :
    ~touches[i].pressed => IF i = 1 THEN t ELSE ~touches[i - 1].released

\* What every state of the client is, whatever it has been sent: one frame for
\* each lifecycle, and reports that lead to the contact there is.
Sound(t, st) ==
  /\ st.active => st.visible
  /\ st.frame_pending => st.frames = 0
  /\ Paired(t, st.touches)
  /\ st.touch_down => Knows(t, st.touches)
  /\ ~st.lost => Knows(t, st.touches) = st.touch_down

\* Appending a report that is a press, or follows a contact, keeps them in order.
LEMMA PushKeeps ==
  ASSUME NEW t \in BOOLEAN, NEW touches \in Seq(Contacts), NEW c \in Contacts,
         Paired(t, touches), c.pressed \/ Knows(t, touches)
  PROVE  /\ Append(touches, c) \in Seq(Contacts)
         /\ Paired(t, Append(touches, c))
         /\ Knows(t, Append(touches, c)) = ~c.released
<1> DEFINE n == Len(touches)
           s == Append(touches, c)
<1>1. n \in Nat /\ s \in Seq(Contacts) /\ Len(s) = n + 1 /\ s[n + 1] = c
      /\ \A i \in 1..n : s[i] = touches[i]
  OBVIOUS
<1>2. s # <<>>
  BY <1>1
<1>3. touches = <<>> <=> n = 0
  OBVIOUS
<1> HIDE DEF s, n
<1>4. ASSUME NEW i \in 1..(n + 1), ~s[i].pressed
      PROVE  IF i = 1 THEN t ELSE ~s[i - 1].released
  <2>1. CASE i \in 1..n
    <3>1. i = 1 \/ i - 1 \in 1..n
      BY <1>1, <2>1
    <3> QED BY <1>1, <1>4, <2>1, <3>1 DEF Paired, n
  <2>2. CASE i = n + 1
    <3>1. Knows(t, touches)
      BY <1>1, <1>4, <2>2
    <3>2. CASE n = 0
      BY <1>1, <1>3, <2>2, <3>1, <3>2 DEF Knows
    <3>3. CASE n # 0
      <4>1. i # 1 /\ i - 1 = n /\ n \in 1..n
        BY <1>1, <2>2, <3>3
      <4>2. ~touches[n].released
        BY <1>3, <3>1, <3>3 DEF Knows, n
      <4> QED BY <1>1, <4>1, <4>2
    <3> QED BY <3>2, <3>3
  <2> QED BY <1>1, <2>1, <2>2
<1>5. Paired(t, s)
  BY <1>1, <1>4 DEF Paired
<1>6. Knows(t, s) = ~c.released
  BY <1>1, <1>2 DEF Knows
<1> QED BY <1>1, <1>5, <1>6 DEF s

\* A report keeps the client sound if it is a press or there is a contact.
LEMMA ReportKeeps ==
  ASSUME NEW t \in BOOLEAN, NEW st \in States, Sound(t, st),
         NEW down \in BOOLEAN, NEW pressed \in BOOLEAN, NEW released \in BOOLEAN,
         down = ~released, pressed \/ st.touch_down
  PROVE  push_touch(st, down, pressed, released) \in States
         /\ Sound(t, push_touch(st, down, pressed, released))
<1> DEFINE c == Contact(pressed, released)
           q == push_touch(st, down, pressed, released)
<1>1. c \in Contacts /\ c.pressed = pressed /\ c.released = released
  BY DEF Contact, Contacts
<1>2. st.touches \in Seq(Contacts) /\ st.touch_down \in BOOLEAN /\ st.lost \in BOOLEAN
  BY DEF States
<1>3. Paired(t, st.touches) /\ (st.touch_down => Knows(t, st.touches))
  BY DEF Sound
<1>4. /\ Append(st.touches, c) \in Seq(Contacts) /\ Paired(t, Append(st.touches, c))
      /\ Knows(t, Append(st.touches, c)) = ~released
  <2>1. c.pressed \/ Knows(t, st.touches)
    BY <1>1, <1>3
  <2> HIDE DEF c
  <2> QED BY <1>1, <1>2, <1>3, <2>1, PushKeeps
<1>5. q = [st EXCEPT !.touch_down = down, !.lost = @ /\ ~pressed, !.touches = Append(@, c)]
  BY DEF push_touch
<1>6. (st.lost /\ ~pressed) \in BOOLEAN
  OBVIOUS
<1> HIDE DEF c, q
<1>7. /\ q.touches = Append(st.touches, c) /\ q.touch_down = down
      /\ q.active = st.active /\ q.visible = st.visible
      /\ q.frame_pending = st.frame_pending /\ q.frames = st.frames
  BY <1>5 DEF States
<1>8. q \in States
  BY <1>4, <1>5, <1>6 DEF States
<1>9. Knows(t, q.touches) = q.touch_down
  BY <1>4, <1>7
<1>10. Sound(t, q)
  BY <1>4, <1>7, <1>9 DEF Sound
<1> QED BY <1>8, <1>10 DEF q

\* One event keeps the client sound.
LEMMA HandleKeeps ==
  ASSUME NEW t \in BOOLEAN, NEW st \in States, Sound(t, st), NEW e \in Events
  PROVE  Handle(st, e) \in States /\ Sound(t, Handle(st, e))
<1> DEFINE q == Handle(st, e)
<1>1. CASE e \in Sent("Configure", Sizes)
  <2>1. q = [st EXCEPT !.size = e.value] /\ e.value \in Sizes
    BY <1>1 DEF Handle, Sent, widget_event, WidgetEvents
  <2> HIDE DEF q
  <2> QED BY <2>1 DEF States, Sound, q
<1>2. CASE e \in Sent("ConfigureDone", {"None"})
  <2>1. q = [st EXCEPT !.configured = st.size # "Invalid"]
    BY <1>2 DEF Handle, Sent, widget_event, WidgetEvents
  <2> HIDE DEF q
  <2> QED BY <2>1 DEF States, Sound, q
<1>3. CASE e \in Sent("TransitionIncoming", {"None"})
  <2>1. q = [st EXCEPT !.refresh_requested = TRUE]
    BY <1>3 DEF Handle, Sent, widget_event, WidgetEvents
  <2> HIDE DEF q
  <2> QED BY <2>1 DEF States, Sound, q
<1>4. CASE e \in Sent("Shutdown", {"None"})
  <2>1. q = [st EXCEPT !.shutdown = TRUE]
    BY <1>4 DEF Handle, Sent, widget_event, WidgetEvents
  <2> HIDE DEF q
  <2> QED BY <2>1 DEF States, Sound, q
<1>5. CASE e \in Sent("Release", Slots)
  <2>1. q = [st EXCEPT !.busy = @ \ {e.value}]
    BY <1>5 DEF Handle, Sent, Release, WidgetEvents
  <2> HIDE DEF q
  <2> QED BY <2>1 DEF States, Sound, q
<1>6. CASE e \in Sent("Capabilities", BOOLEAN)
  <2>1. q = [st EXCEPT !.touch = e.value, !.touch_down = @ /\ e.value,
                       !.lost = @ \/ (~e.value /\ st.touch_down)]
        /\ e.value \in BOOLEAN
    BY <1>6 DEF Handle, Sent, Capabilities, WidgetEvents
  <2> HIDE DEF q
  <2> QED BY <2>1 DEF States, Sound, q
<1>7. CASE e \in Sent("Lifecycle", Renderable \cup {"Dormant"})
  <2> DEFINE s == e.value
  <2>1. q = Lifecycle(st, s)
    BY <1>7 DEF Handle, Sent, widget_event, WidgetEvents
  <2> HIDE DEF q, s
  <2>2. /\ q.visible = (s \in Renderable) /\ q.active = (s \in OnScreen)
        /\ q.frame_pending = (s \in Renderable) /\ q.frames = 0
        /\ q.lost = (st.lost \/ (s \notin OnScreen /\ (st.touch_down \/ st.touches # <<>>)))
        /\ q.touches = (IF s \in OnScreen THEN st.touches ELSE <<>>)
        /\ q.touch_down = (st.touch_down /\ s \in OnScreen)
    BY <2>1 DEF Lifecycle, Shown, States
  <2>3. q \in States
    <3>1. <<>> \in Seq(Contacts) /\ 0 \in 0..1
      OBVIOUS
    <3>2. /\ (s \in Renderable) \in BOOLEAN /\ (s \in OnScreen) \in BOOLEAN
          /\ (st.touch_down /\ s \in OnScreen) \in BOOLEAN
          /\ (st.refresh_requested \/ s \in Renderable) \in BOOLEAN
          /\ (st.lost \/ (s \notin OnScreen /\ (st.touch_down \/ st.touches # <<>>))) \in BOOLEAN
      OBVIOUS
    <3>3. (IF s \in OnScreen THEN st.touches ELSE <<>>) \in Seq(Contacts)
      BY <3>1 DEF States
    <3>4. q = [st EXCEPT !.visible = s \in Renderable, !.active = s \in OnScreen,
                         !.frame_pending = s \in Renderable, !.frames = 0,
                         !.lost = (st.lost \/ (s \notin OnScreen /\ (st.touch_down \/ st.touches # <<>>))),
                         !.touches = IF s \in OnScreen THEN st.touches ELSE <<>>,
                         !.touch_down = (st.touch_down /\ s \in OnScreen),
                         !.refresh_requested = (st.refresh_requested \/ s \in Renderable)]
      BY <2>1 DEF Lifecycle, Shown, States
    <3>5. q \in States <=> /\ q.touches \in Seq(Contacts) /\ q.frames \in 0..1
                           /\ q.visible \in BOOLEAN /\ q.active \in BOOLEAN /\ q.lost \in BOOLEAN
                           /\ q.frame_pending \in BOOLEAN /\ q.touch_down \in BOOLEAN
                           /\ q.refresh_requested \in BOOLEAN
      BY <3>4 DEF States
    <3>6. q.refresh_requested = (st.refresh_requested \/ s \in Renderable)
      BY <3>4 DEF States
    <3> QED BY <2>2, <3>1, <3>2, <3>3, <3>5, <3>6
  <2>6. q.active => q.visible
    BY <2>2 DEF OnScreen
  <2>7. q.frame_pending => q.frames = 0
    BY <2>2
  <2>4. CASE s \in OnScreen
    <3>1. q.touches = st.touches
      BY <2>2, <2>4
    <3>2. q.touch_down = st.touch_down /\ q.lost = st.lost
      BY <2>2, <2>4 DEF States
    <3> QED BY <2>3, <2>6, <2>7, <3>1, <3>2 DEF Sound, q
  <2>5. CASE s \notin OnScreen
    <3>1. ~q.active /\ ~q.touch_down /\ q.touches = <<>> /\ q.frames = 0
      BY <2>2, <2>5
    <3>2. Paired(t, q.touches) /\ Knows(t, q.touches) = t
      BY <3>1 DEF Paired, Knows
    <3>3. ~q.lost => t = FALSE
      <4>1. ~q.lost => ~st.lost /\ ~st.touch_down /\ st.touches = <<>>
        BY <2>2, <2>5
      <4> QED BY <4>1 DEF Sound, Knows
    <3>4. ~q.lost => Knows(t, q.touches) = q.touch_down
      <4>1. q.touch_down = FALSE
        BY <2>2, <2>5
      <4> QED BY <3>2, <3>3, <4>1
    <3>5. Sound(t, q)
      BY <2>6, <2>7, <3>1, <3>2, <3>4 DEF Sound
    <3> QED BY <2>3, <3>5 DEF q
  <2> QED BY <2>3, <2>4, <2>5 DEF q
<1>8. CASE e \in Sent("Touch", {"Down", "Up", "Motion", "Cancel"})
  <2>1. q = (IF st.touch THEN TouchEvent(st, e.value) ELSE st)
    BY <1>8 DEF Handle, Sent, WidgetEvents
  <2>2. \/ q = st
        \/ q = push_touch(st, TRUE, TRUE, FALSE)
        \/ st.touch_down /\ q = push_touch(st, FALSE, FALSE, TRUE)
        \/ st.touch_down /\ q = push_touch(st, TRUE, FALSE, FALSE)
    BY <2>1 DEF TouchEvent
  <2> HIDE DEF q
  <2> QED BY <2>2, ReportKeeps DEF q
<1> QED BY <1>1, <1>2, <1>3, <1>4, <1>5, <1>6, <1>7, <1>8 DEF Events

-----------------------------------------------------------------------------
(* The events that travel, as one loop over them.                          *)

\* One turn of the loop, as FoldTheorems takes it.
Turn(p, st, e) == Handle(st, e)
F == INSTANCE FoldTheorems WITH op <- Turn

\* What the client will know once it has read all of queue.
After(st, queue) == F!Fold({}, st, queue)

\* The loop of dispatch_pending is the fold that FoldTheorems is about.
LEMMA DispatchedIs == ASSUME NEW st, NEW queue PROVE FoldLeft(Handle, st, queue) = After(st, queue)
BY DEF After, Turn, F!Fold, FoldLeft, F!FoldLeft, MapThenFoldSet, F!MapThenFoldSet, Max, F!Max

\* Whatever has been sent, reading it keeps the client sound.
LEMMA AfterKeeps ==
  ASSUME NEW t \in BOOLEAN, NEW st \in States, Sound(t, st), NEW queue \in Seq(Events)
  PROVE  After(st, queue) \in States /\ Sound(t, After(st, queue))
<1> DEFINE S == {x \in States : Sound(t, x)}
<1>1. \A x \in S, e \in Events : Turn({}, x, e) \in S
  BY HandleKeeps DEF Turn
<1>2. st \in S
  OBVIOUS
<1> HIDE DEF S
<1>3. F!Fold({}, st, queue) \in S
  BY <1>1, <1>2, F!FoldKeeps
<1> QED BY <1>3 DEF After, S

\* The states of a client, whatever its caller was told.
Clients == {st \in States : \E t \in BOOLEAN : Sound(t, st)}

\* What one event says of the surface, of the end and of the buffers.
LEMMA HandleSays ==
  ASSUME NEW st \in Clients, NEW e \in Events
  PROVE  /\ Handle(st, e) \in Clients
         /\ Handle(st, e).shutdown = (IF e.type = "Shutdown" THEN TRUE ELSE st.shutdown)
         /\ Handle(st, e).visible = (IF e.type = "Lifecycle" THEN e.value \in Renderable ELSE st.visible)
         /\ Handle(st, e).active = (IF e.type = "Lifecycle" THEN e.value \in OnScreen ELSE st.active)
         /\ Handle(st, e).busy = (IF e.type = "Release" THEN st.busy \ {e.value} ELSE st.busy)
<1> DEFINE q == Handle(st, e)
<1>1. st \in States /\ q \in Clients
  BY HandleKeeps DEF Clients
<1>2. CASE e \in Sent("Configure", Sizes)
  <2>1. q = [st EXCEPT !.size = e.value] /\ e.type = "Configure"
    BY <1>2 DEF Handle, Sent, widget_event, WidgetEvents
  <2> HIDE DEF q
  <2> QED BY <1>1, <2>1 DEF States, q
<1>3. CASE e \in Sent("ConfigureDone", {"None"})
  <2>1. q = [st EXCEPT !.configured = st.size # "Invalid"] /\ e.type = "ConfigureDone"
    BY <1>3 DEF Handle, Sent, widget_event, WidgetEvents
  <2> HIDE DEF q
  <2> QED BY <1>1, <2>1 DEF States, q
<1>4. CASE e \in Sent("TransitionIncoming", {"None"})
  <2>1. q = [st EXCEPT !.refresh_requested = TRUE] /\ e.type = "TransitionIncoming"
    BY <1>4 DEF Handle, Sent, widget_event, WidgetEvents
  <2> HIDE DEF q
  <2> QED BY <1>1, <2>1 DEF States, q
<1>5. CASE e \in Sent("Shutdown", {"None"})
  <2>1. q = [st EXCEPT !.shutdown = TRUE] /\ e.type = "Shutdown"
    BY <1>5 DEF Handle, Sent, widget_event, WidgetEvents
  <2> HIDE DEF q
  <2> QED BY <1>1, <2>1 DEF States, q
<1>6. CASE e \in Sent("Release", Slots)
  <2>1. q = [st EXCEPT !.busy = @ \ {e.value}] /\ e.type = "Release"
    BY <1>6 DEF Handle, Sent, Release, WidgetEvents
  <2> HIDE DEF q
  <2> QED BY <1>1, <2>1 DEF States, q
<1>7. CASE e \in Sent("Capabilities", BOOLEAN)
  <2>1. q = [st EXCEPT !.touch = e.value, !.touch_down = @ /\ e.value,
                       !.lost = @ \/ (~e.value /\ st.touch_down)]
        /\ e.type = "Capabilities"
    BY <1>7 DEF Handle, Sent, Capabilities, WidgetEvents
  <2> HIDE DEF q
  <2> QED BY <1>1, <2>1 DEF States, q
<1>8. CASE e \in Sent("Lifecycle", Renderable \cup {"Dormant"})
  <2>1. q = Lifecycle(st, e.value) /\ e.type = "Lifecycle"
    BY <1>8 DEF Handle, Sent, widget_event, WidgetEvents
  <2> HIDE DEF q
  <2> QED BY <1>1, <2>1 DEF Lifecycle, Shown, States, q
<1>9. CASE e \in Sent("Touch", {"Down", "Up", "Motion", "Cancel"})
  <2>1. q = (IF st.touch THEN TouchEvent(st, e.value) ELSE st) /\ e.type = "Touch"
    BY <1>9 DEF Handle, Sent, WidgetEvents
  <2>2. q = st \/ \E down, pressed, released \in BOOLEAN : q = push_touch(st, down, pressed, released)
    BY <2>1 DEF TouchEvent
  <2> HIDE DEF q
  <2> QED BY <1>1, <2>1, <2>2 DEF push_touch, States, q
<1> QED BY <1>2, <1>3, <1>4, <1>5, <1>6, <1>7, <1>8, <1>9 DEF Events

\* Two clients that agree on the surface, the end and the buffers.
Alike(x, y) ==
  x.shutdown = y.shutdown /\ x.visible = y.visible /\ x.active = y.active /\ x.busy = y.busy

\* What is read later does not depend on the touches that were collected before.
LEMMA AfterAlike ==
  ASSUME NEW x \in Clients, NEW y \in Clients, Alike(x, y), NEW queue \in Seq(Events)
  PROVE  Alike(After(x, queue), After(y, queue))
<1> DEFINE R == {z \in Clients \X Clients : Alike(z[1], z[2])}
<1>1. \A u \in Clients, e \in Events : Turn({}, u, e) \in Clients
  BY HandleSays DEF Turn
<1>2. ASSUME NEW u \in Clients, NEW v \in Clients, NEW e \in Events, <<u, v>> \in R
      PROVE  <<Turn({}, u, e), Turn({}, v, e)>> \in R
  <2>1. Alike(u, v)
    BY <1>2
  <2> DEFINE g == Handle(u, e)
             h == Handle(v, e)
  <2>2. /\ g.shutdown = (IF e.type = "Shutdown" THEN TRUE ELSE u.shutdown)
        /\ g.visible = (IF e.type = "Lifecycle" THEN e.value \in Renderable ELSE u.visible)
        /\ g.active = (IF e.type = "Lifecycle" THEN e.value \in OnScreen ELSE u.active)
        /\ g.busy = (IF e.type = "Release" THEN u.busy \ {e.value} ELSE u.busy)
    BY HandleSays
  <2>3. /\ h.shutdown = (IF e.type = "Shutdown" THEN TRUE ELSE v.shutdown)
        /\ h.visible = (IF e.type = "Lifecycle" THEN e.value \in Renderable ELSE v.visible)
        /\ h.active = (IF e.type = "Lifecycle" THEN e.value \in OnScreen ELSE v.active)
        /\ h.busy = (IF e.type = "Release" THEN v.busy \ {e.value} ELSE v.busy)
    BY HandleSays
  <2> HIDE DEF g, h
  <2>4. Alike(g, h)
    BY <2>1, <2>2, <2>3 DEF Alike
  <2> QED BY <1>1, <2>4 DEF Turn, g, h
<1>3. <<x, y>> \in R
  OBVIOUS
<1> HIDE DEF R
<1>4. <<F!Fold({}, x, queue), F!Fold({}, y, queue)>> \in R
  BY <1>1, <1>2, <1>3, F!FoldRelates
<1> QED BY <1>4 DEF R, After

\* Reading releases buffers and takes none.
LEMMA AfterReleases ==
  ASSUME NEW st \in Clients, NEW queue \in Seq(Events)
  PROVE  After(st, queue).busy \subseteq st.busy
<1> DEFINE S == {x \in Clients : x.busy \subseteq st.busy}
<1>1. \A x \in S, e \in Events : Turn({}, x, e) \in S
  BY HandleSays DEF Turn
<1>2. st \in S
  OBVIOUS
<1> HIDE DEF S
<1>3. F!Fold({}, st, queue) \in S
  BY <1>1, <1>2, F!FoldKeeps
<1> QED BY <1>3 DEF After, S

-----------------------------------------------------------------------------
(* The invariant.  Everything that has been sent and not yet read counts   *)
(* as if it had been: that is what present_frame acts on, and what the     *)
(* compositor knows of itself.                                             *)

\* The compositor's state, and what is on its way, are of their kinds.
Typed ==
  /\ stage \in {"None", "Bound", "Configured", "Done"}
  /\ lifecycle \in Renderable \cup {"None", "Dormant"}
  /\ stopping \in BOOLEAN /\ fingers \in 0..MaxFingers
  /\ events \in Seq(Events) /\ Len(events) <= MaxEvents
  /\ holding \in [Slots -> 0..1]
  /\ widget \in {"Closed", "Opening", "Open"}
  /\ state \in States /\ told \in BOOLEAN

\* The client as it will be once it has read what was sent knows the surface
\* as the compositor has it, and the buffers that the compositor reads.
Current(st) ==
  /\ st.shutdown = stopping
  /\ st.visible = (lifecycle \in Renderable)
  /\ st.active = (lifecycle \in OnScreen)
  /\ \A b \in Slots : holding[b] = 1 <=> b \in st.busy

\* A closed connection has nothing on its way and no buffers out.
Connection ==
  IF widget = "Closed" THEN events = <<>> /\ holding = [b \in Slots |-> 0]
  ELSE Current(After(state, events))

\* Lifecycles are sent for a configured surface only.
Staged == lifecycle # "None" => stage = "Done"

\* The inductive invariant.
IInv == Typed /\ Sound(told, state) /\ Staged /\ Connection


-----------------------------------------------------------------------------
(* What steps have in common.                                              *)

\* What the invariant says of the client once it has read what was sent.
LEMMA Reading ==
  ASSUME IInv
  PROVE  /\ Dispatched = After(state, events)
         /\ state \in Clients /\ Dispatched \in Clients
         /\ Sound(told, Dispatched) /\ Dispatched.busy \subseteq state.busy
<1>1. Dispatched = After(state, events)
  BY DispatchedIs DEF Dispatched
<1>2. Dispatched \in States /\ Sound(told, Dispatched)
  BY <1>1, AfterKeeps DEF IInv, Typed
<1>3. state \in Clients /\ Dispatched \in Clients
  BY <1>2 DEF Clients, IInv, Typed
<1> QED BY <1>1, <1>2, <1>3, AfterReleases DEF IInv, Typed

\* What the compositor sends reaches the client behind all it sent before.
LEMMA SendSays ==
  ASSUME IInv, NEW e \in Events, Send(e)
  PROVE  /\ events' \in Seq(Events) /\ Len(events') <= MaxEvents
         /\ After(state', events') = Handle(After(state, events), e)
         /\ widget' = widget /\ widget # "Closed" /\ state' = state /\ told' = told
<1>1. events' = Append(events, e) /\ Len(events) < MaxEvents /\ events \in Seq(Events)
  BY DEF Send, IInv, Typed
<1>2. MaxEvents \in Nat
  BY SurfaceAssumption
<1>3. events' \in Seq(Events) /\ Len(events') = Len(events) + 1 /\ Len(events) \in Nat
  BY <1>1
<1>4. state' = state /\ told' = told /\ widget' = widget /\ widget # "Closed"
  BY DEF Send, Connected, clientVars
<1>5. F!Fold({}, state, events') = Turn({}, F!Fold({}, state, events), e)
  BY <1>1, F!FoldAppend
<1> QED BY <1>1, <1>2, <1>3, <1>4, <1>5 DEF After, Turn

\* An event that the compositor sends keeps the invariant, if the compositor
\* changes as the event says.
LEMMA SendKeeps ==
  ASSUME IInv, NEW e \in Events, Send(e), fingers' \in 0..MaxFingers,
         stage' \in {"None", "Bound", "Configured", "Done"},
         lifecycle' \in Renderable \cup {"None", "Dormant"}, Staged',
         stopping' \in BOOLEAN, holding' \in [Slots -> 0..1],
         stopping' = (IF e.type = "Shutdown" THEN TRUE ELSE stopping),
         lifecycle' = (IF e.type = "Lifecycle" THEN e.value ELSE lifecycle),
         \A b \in Slots : holding'[b] = IF e.type = "Release" /\ b = e.value THEN 0 ELSE holding[b]
  PROVE  IInv'
<1> DEFINE st == After(state, events)
           q == Handle(st, e)
<1>1. /\ events' \in Seq(Events) /\ Len(events') <= MaxEvents
      /\ After(state', events') = q
      /\ widget' = widget /\ widget # "Closed" /\ state' = state /\ told' = told
  BY SendSays
<1>2. Typed' /\ Sound(told', state')
  BY <1>1 DEF IInv, Typed
<1>3. st \in Clients /\ Current(st)
  BY <1>1, Reading DEF IInv, Connection
<1>4. /\ q.shutdown = (IF e.type = "Shutdown" THEN TRUE ELSE st.shutdown)
      /\ q.visible = (IF e.type = "Lifecycle" THEN e.value \in Renderable ELSE st.visible)
      /\ q.active = (IF e.type = "Lifecycle" THEN e.value \in OnScreen ELSE st.active)
      /\ q.busy = (IF e.type = "Release" THEN st.busy \ {e.value} ELSE st.busy)
  BY <1>3, HandleSays
<1> HIDE DEF st, q
<1>5. q.shutdown = stopping'
  BY <1>3, <1>4 DEF Current
<1>6. q.visible = (lifecycle' \in Renderable) /\ q.active = (lifecycle' \in OnScreen)
  BY <1>3, <1>4 DEF Current
<1>7. \A b \in Slots : holding'[b] = 1 <=> b \in q.busy
  BY <1>3, <1>4 DEF Current
<1>8. Current(After(state, events))'
  BY <1>1, <1>5, <1>6, <1>7 DEF Current
<1> QED BY <1>1, <1>2, <1>8 DEF IInv, Connection

\* A new client knows nothing and is owed nothing.
LEMMA NewStateSound == NewState \in States /\ Sound(FALSE, NewState)
<1>1. <<>> \in Seq(Contacts)
  OBVIOUS
<1>2. NewState \in States
  BY <1>1 DEF NewState, States, Sizes
<1>3. /\ NewState.touches = <<>> /\ NewState.active = FALSE /\ NewState.frames = 0
      /\ NewState.touch_down = FALSE
  BY DEF NewState
<1>4. Paired(FALSE, NewState.touches) /\ Knows(FALSE, NewState.touches) = FALSE
  BY <1>3 DEF Paired, Knows
<1>5. Sound(FALSE, NewState)
  BY <1>3, <1>4 DEF Sound
<1> QED BY <1>2, <1>5

\* The end of a connection forgets it.
LEMMA CloseKeeps ==
  ASSUME IInv, close, UNCHANGED compositorVars
  PROVE  IInv'
<1>1. NewState \in States /\ Sound(FALSE, NewState)
  BY NewStateSound
<1>2. <<>> \in Seq(Events) /\ Len(<<>>) = 0 /\ 0 <= MaxEvents
  BY SurfaceAssumption
<1>3. holding' \in [Slots -> 0..1]
  BY DEF close
<1>4. Typed' /\ Sound(told', state') /\ Connection'
  BY <1>1, <1>2, <1>3 DEF close, compositorVars, IInv, Typed, Connection
<1> QED BY <1>4 DEF IInv, Staged, compositorVars

\* A step of the client that has read everything, to a state that knows of the
\* surface what reading said.
LEMMA ReadKeeps ==
  ASSUME IInv, UNCHANGED <<compositorVars, holding>>, widget # "Closed",
         widget' \in {"Opening", "Open"}, events' = <<>>,
         state' \in States, told' \in BOOLEAN, Sound(told', state'), Alike(Dispatched, state')
  PROVE  IInv'
<1>1. <<>> \in Seq(Events) /\ Len(<<>>) = 0 /\ 0 <= MaxEvents
  BY SurfaceAssumption
<1>2. Typed'
  BY <1>1 DEF IInv, Typed, compositorVars
<1>3. After(state', events') = state'
  BY F!FoldEmpty DEF After
<1>4. Current(Dispatched)
  BY Reading DEF IInv, Connection
<1>5. Current(After(state, events))'
  BY <1>3, <1>4 DEF Current, Alike, compositorVars
<1> QED BY <1>2, <1>5 DEF IInv, Connection, Staged, compositorVars


-----------------------------------------------------------------------------
(* The steps of the compositor.                                            *)

\* An event of the compositor that changes neither buffers nor lifecycle nor
\* the end of the surface.
LEMMA OtherSendKeeps ==
  ASSUME IInv, NEW e \in Events, Send(e), fingers' \in 0..MaxFingers,
         e.type \notin {"Lifecycle", "Shutdown", "Release"},
         stage' \in {"None", "Bound", "Configured", "Done"}, stage' = stage \/ lifecycle = "None",
         UNCHANGED <<lifecycle, stopping, holding>>
  PROVE  IInv'
<1>1. lifecycle' \in Renderable \cup {"None", "Dormant"} /\ Staged'
  BY DEF IInv, Typed, Staged
<1>2. stopping' \in BOOLEAN /\ holding' \in [Slots -> 0..1]
  BY DEF IInv, Typed
<1> QED BY <1>1, <1>2, SendKeeps

\* What the compositor does keeps the invariant: it sends what it becomes.
LEMMA CompositorKeeps == ASSUME IInv, Compositor PROVE IInv'
<1>1. CASE Configure
  <2>1. stage # "Done" => lifecycle = "None"
    BY DEF IInv, Staged
  <2>2. PICK e \in Events : Send(e) /\ e.type \notin {"Lifecycle", "Shutdown", "Release"}
    <3>1. CASE stage = "Bound"
      <4>1. PICK size \in Sizes : Send(Event("Configure", size))
        BY <1>1, <3>1 DEF Configure, Sizes
      <4>2. Event("Configure", size) \in Sent("Configure", Sizes)
        BY DEF Event, Sent
      <4> QED BY <4>1, <4>2 DEF Events, Sent
    <3>2. CASE stage # "Bound"
      <4>1. Send(Event("ConfigureDone", "None"))
        BY <1>1, <3>2 DEF Configure
      <4>2. Event("ConfigureDone", "None") \in Sent("ConfigureDone", {"None"})
        BY DEF Event, Sent
      <4> QED BY <4>1, <4>2 DEF Events, Sent
    <3> QED BY <3>1, <3>2
  <2>3. /\ stage' \in {"None", "Bound", "Configured", "Done"} /\ stage # "Done"
        /\ UNCHANGED <<lifecycle, stopping, fingers, holding>>
    BY <1>1 DEF Configure
  <2>4. fingers' \in 0..MaxFingers
    BY <2>3 DEF IInv, Typed
  <2> QED BY <2>1, <2>2, <2>3, <2>4, OtherSendKeeps
<1>2. CASE SendLifecycle
  <2>1. PICK s \in Permitted[lifecycle] :
          /\ lifecycle' = s /\ Send(Event("Lifecycle", s))
          /\ fingers' \in {fingers, IF s \in OnScreen THEN fingers ELSE 0}
    BY <1>2 DEF SendLifecycle
  <2>2. s \in Renderable \cup {"Dormant"}
    BY DEF Permitted, Renderable, Idle, IInv, Typed
  <2> DEFINE e == Event("Lifecycle", s)
  <2>3. e \in Events /\ e.type = "Lifecycle" /\ e.value = s
    <3>1. e \in Sent("Lifecycle", Renderable \cup {"Dormant"})
      BY <2>2 DEF Event, Sent
    <3> QED BY <3>1 DEF Events, Event
  <2> HIDE DEF e
  <2>4. fingers' \in 0..MaxFingers
    BY <2>1, SurfaceAssumption DEF IInv, Typed
  <2>5. stage' = stage /\ stage = "Done" /\ UNCHANGED <<stopping, holding>>
    BY <1>2 DEF SendLifecycle
  <2>6. /\ stage' \in {"None", "Bound", "Configured", "Done"} /\ Staged'
        /\ stopping' \in BOOLEAN /\ holding' \in [Slots -> 0..1]
    BY <2>5 DEF IInv, Typed, Staged
  <2>7. Send(e)
    BY <2>1 DEF e
  <2> QED BY <2>1, <2>2, <2>3, <2>4, <2>5, <2>6, <2>7, SendKeeps
<1>3. CASE TransitionIncoming
  <2> DEFINE e == Event("TransitionIncoming", "None")
  <2>1. e \in Events /\ e.type = "TransitionIncoming"
    <3>1. e \in Sent("TransitionIncoming", {"None"})
      BY DEF Event, Sent
    <3> QED BY <3>1 DEF Events, Event
  <2>2. Send(e) /\ UNCHANGED <<compositorVars, holding>>
    BY <1>3 DEF TransitionIncoming
  <2> HIDE DEF e
  <2> QED BY <2>1, <2>2, OtherSendKeeps DEF compositorVars, IInv, Typed
<1>4. CASE Shutdown
  <2> DEFINE e == Event("Shutdown", "None")
  <2>1. e \in Events /\ e.type = "Shutdown"
    <3>1. e \in Sent("Shutdown", {"None"})
      BY DEF Event, Sent
    <3> QED BY <3>1 DEF Events, Event
  <2>2. Send(e) /\ stopping' = TRUE /\ UNCHANGED <<stage, lifecycle, capable, fingers, holding>>
    BY <1>4 DEF Shutdown
  <2> HIDE DEF e
  <2>3. /\ fingers' \in 0..MaxFingers /\ stage' \in {"None", "Bound", "Configured", "Done"}
        /\ lifecycle' \in Renderable \cup {"None", "Dormant"} /\ Staged'
        /\ holding' \in [Slots -> 0..1]
    BY <2>2 DEF IInv, Typed, Staged
  <2> QED BY <2>1, <2>2, <2>3, SendKeeps
<1>5. CASE Seat
  <2> DEFINE e == Event("Capabilities", ~capable)
  <2>1. e \in Events /\ e.type = "Capabilities"
    <3>1. e \in Sent("Capabilities", BOOLEAN)
      BY DEF Event, Sent
    <3> QED BY <3>1 DEF Events, Event
  <2>2. Send(e) /\ fingers' = 0 /\ UNCHANGED <<stage, lifecycle, stopping, holding>>
    BY <1>5 DEF Seat
  <2>3. 0 \in 0..MaxFingers
    BY SurfaceAssumption
  <2> HIDE DEF e
  <2> QED BY <2>1, <2>2, <2>3, OtherSendKeeps DEF IInv, Typed
<1>6. CASE Finger
  <2>1. PICK v \in {"Down", "Up", "Motion", "Cancel"} :
          Send(Event("Touch", v)) /\ fingers' \in 0..MaxFingers
    <3>1. fingers \in 0..MaxFingers /\ MaxFingers \in Nat
      BY SurfaceAssumption DEF IInv, Typed
    <3> QED BY <1>6, <3>1 DEF Finger
  <2> DEFINE e == Event("Touch", v)
  <2>2. e \in Events /\ e.type = "Touch"
    <3>1. e \in Sent("Touch", {"Down", "Up", "Motion", "Cancel"})
      BY DEF Event, Sent
    <3> QED BY <3>1 DEF Events, Event
  <2>3. UNCHANGED <<stage, lifecycle, stopping, capable, holding>>
    BY <1>6 DEF Finger
  <2>4. Send(e)
    BY <2>1
  <2> HIDE DEF e
  <2> QED BY <2>1, <2>2, <2>3, <2>4, OtherSendKeeps DEF IInv, Typed
<1>7. CASE ReleaseBuffer
  <2>1. PICK b \in Slots : /\ holding[b] > 0 /\ holding' = [holding EXCEPT ![b] = @ - 1]
                           /\ Send(Event("Release", b))
    BY <1>7 DEF ReleaseBuffer
  <2> DEFINE e == Event("Release", b)
  <2>2. e \in Events /\ e.type = "Release" /\ e.value = b
    <3>1. e \in Sent("Release", Slots)
      BY DEF Event, Sent
    <3> QED BY <3>1 DEF Events, Event
  <2>3. Send(e) /\ UNCHANGED compositorVars
    BY <1>7, <2>1 DEF ReleaseBuffer
  <2> HIDE DEF e
  <2>4. holding \in [Slots -> 0..1] /\ holding[b] = 1
    BY <2>1 DEF IInv, Typed
  <2>5. holding' \in [Slots -> 0..1]
        /\ \A c \in Slots : holding'[c] = IF c = b THEN 0 ELSE holding[c]
    BY <2>1, <2>4
  <2>6. /\ fingers' \in 0..MaxFingers /\ stage' \in {"None", "Bound", "Configured", "Done"}
        /\ lifecycle' \in Renderable \cup {"None", "Dormant"} /\ Staged'
        /\ stopping' \in BOOLEAN /\ stopping' = stopping /\ lifecycle' = lifecycle
    BY <2>3 DEF IInv, Typed, Staged, compositorVars
  <2> QED BY <2>2, <2>3, <2>5, <2>6, SendKeeps
<1>8. CASE Dies
  BY <1>8 DEF Dies, compositorVars, clientVars, IInv, Typed, Connection, Current, Staged
<1> QED BY <1>1, <1>2, <1>3, <1>4, <1>5, <1>6, <1>7, <1>8 DEF Compositor

-----------------------------------------------------------------------------
(* The steps of the client.                                                *)

\* A round of the caller tells it what the reports say, and asks for no more of
\* the surface than reading did.
LEMMA PollKeeps == ASSUME IInv, Poll PROVE IInv'
<1> DEFINE reads == scope.caller = "Game" \/ state.touches = <<>>
           st == IF reads THEN Dispatched ELSE state
           refresh == scope.caller = "Deck" /\ st.refresh_requested
           next == [st EXCEPT !.touches = <<>>, !.refresh_requested = @ /\ ~refresh]
<1>1. UNCHANGED compositorVars /\ widget = "Open"
  BY DEF Poll
<1>2. CASE close
  BY <1>1, <1>2, CloseKeeps
<1>3. CASE ~close
  <2>1. /\ state' = next /\ events' = (IF reads THEN <<>> ELSE events)
        /\ told' = Told(st) /\ UNCHANGED <<widget, holding>>
    BY <1>3 DEF Poll
  <2>2. st \in States /\ Sound(told, st) /\ told \in BOOLEAN
    BY Reading DEF IInv, Typed, Clients
  <2> HIDE DEF reads, st, refresh
  <2>3. Told(st) = Knows(told, st.touches)
    BY DEF Told, Knows, Last
  <2>4. Knows(told, st.touches) \in BOOLEAN
    BY <2>2 DEF Knows
  <2>5. <<>> \in Seq(Contacts) /\ (st.refresh_requested /\ ~refresh) \in BOOLEAN
    OBVIOUS
  <2>6. next \in States
    BY <2>2, <2>5 DEF States
  <2>7. /\ next.touches = <<>> /\ next.active = st.active /\ next.visible = st.visible
        /\ next.frame_pending = st.frame_pending /\ next.frames = st.frames
        /\ next.touch_down = st.touch_down /\ next.lost = st.lost
        /\ next.shutdown = st.shutdown /\ next.busy = st.busy
    BY <2>2 DEF States
  <2> HIDE DEF next
  <2>8. Paired(told', next.touches) /\ Knows(told', next.touches) = Knows(told, st.touches)
    BY <2>1, <2>3, <2>7 DEF Paired, Knows
  <2>9. Sound(told', next)
    BY <2>2, <2>7, <2>8 DEF Sound
  <2>10. Alike(st, next)
    BY <2>7 DEF Alike
  <2>11. told' \in BOOLEAN
    BY <2>1, <2>3, <2>4
  <2>12. CASE reads
    BY <1>1, <2>1, <2>6, <2>9, <2>10, <2>11, <2>12, ReadKeeps DEF st
  <2>13. CASE ~reads
    <3>1. st = state /\ events' = events
      BY <2>1, <2>13 DEF st
    <3>2. Typed'
      BY <1>1, <2>1, <2>6, <2>11, <3>1 DEF IInv, Typed, compositorVars
    <3>3. state \in Clients /\ next \in Clients /\ events \in Seq(Events)
      BY <2>6, <2>9, <2>11, Reading DEF Clients, IInv, Typed
    <3>4. Alike(After(state, events), After(next, events))
      BY <2>10, <3>1, <3>3, AfterAlike
    <3>5. Current(After(state, events))
      BY <1>1 DEF IInv, Connection
    <3>6. Current(After(state, events))'
      BY <1>1, <2>1, <3>1, <3>4, <3>5 DEF Current, Alike, compositorVars
    <3> QED BY <1>1, <2>1, <2>9, <3>2, <3>6 DEF IInv, Connection, Staged, compositorVars
  <2> QED BY <2>12, <2>13
<1> QED BY <1>2, <1>3

\* A step of present_frame that commits a frame.
Commits(st, b) ==
  /\ renderable(st) /\ ~st.shutdown /\ b \in Slots \ st.busy /\ alive
  /\ state' = [st EXCEPT !.busy = @ \cup {b}, !.frame_pending = FALSE,
                         !.frames = IF st.active THEN 1 ELSE @ + 1]
  /\ holding' = [holding EXCEPT ![b] = @ + 1]
  /\ events' = <<>> /\ UNCHANGED <<widget, told>>

\* present_frame ends the connection, reads without drawing, or commits a frame
\* in a free buffer.
LEMMA PresentDoes ==
  ASSUME IInv, Present
  PROVE  \/ close
         \/ state' = Dispatched /\ events' = <<>> /\ UNCHANGED <<widget, told, holding>>
         \/ \E b \in Slots : Commits(Dispatched, b)
<1> DEFINE st == Dispatched
           free == FreeSlot(st)
           b == CHOOSE i \in free : \A j \in free : i <= j
<1>1. CASE free = {}
  BY <1>1 DEF Present
<1>2. CASE free # {}
  <2>1. free \in SUBSET Nat
    BY SurfaceAssumption DEF FreeSlot, Slots
  <2>2. \E i \in free : \A j \in free : i <= j
    BY <1>2, <2>1, F!LeastNat
  <2>3. b \in free
    BY <2>2
  <2>4. b \in Slots \ st.busy
    BY <2>3 DEF FreeSlot
  <2>5. \/ close
        \/ state' = st /\ events' = <<>> /\ UNCHANGED <<widget, told, holding>>
        \/ Commits(st, b)
    BY <2>4 DEF Present, Commits
  <2> QED BY <2>4, <2>5
<1> QED BY <1>1, <1>2

\* What a committed frame leaves of the client.
LEMMA CommitSays ==
  ASSUME NEW t \in BOOLEAN, NEW st \in States, Sound(t, st), NEW b, Commits(st, b)
  PROVE  /\ state' \in States /\ Sound(t, state')
         /\ state'.visible = st.visible /\ state'.active = st.active
         /\ state'.shutdown = st.shutdown /\ state'.busy = st.busy \cup {b}
         /\ state'.frames = 1 /\ state'.frame_pending = FALSE
<1> DEFINE n == IF st.active THEN 1 ELSE st.frames + 1
<1>1. n = 1
  BY DEF Commits, renderable, Sound, States
<1>2. 1 \in 0..1 /\ st.busy \cup {b} \in SUBSET Slots
  BY DEF Commits, States
<1>3. state' = [st EXCEPT !.busy = @ \cup {b}, !.frame_pending = FALSE, !.frames = n]
  BY DEF Commits
<1> HIDE DEF n
<1>4. /\ state'.visible = st.visible /\ state'.active = st.active
      /\ state'.shutdown = st.shutdown /\ state'.busy = st.busy \cup {b}
      /\ state'.frames = 1 /\ state'.frame_pending = FALSE
      /\ state'.touches = st.touches /\ state'.touch_down = st.touch_down /\ state'.lost = st.lost
  BY <1>1, <1>3 DEF States
<1>5. state' \in States
  BY <1>1, <1>2, <1>3 DEF States
<1>6. Sound(t, state')
  BY <1>4 DEF Sound
<1> QED BY <1>4, <1>5, <1>6

\* A frame takes a buffer that was free when the client had read everything.
LEMMA PresentKeeps == ASSUME IInv, Present PROVE IInv'
<1> DEFINE st == Dispatched
<1>1. UNCHANGED compositorVars /\ widget = "Open"
  BY DEF Present
<1>2. CASE close
  BY <1>1, <1>2, CloseKeeps
<1>3. st \in States /\ Sound(told, st) /\ told \in BOOLEAN
  BY Reading DEF IInv, Typed, Clients
<1>4. CASE state' = st /\ events' = <<>> /\ UNCHANGED <<widget, told, holding>>
  <2>1. Alike(st, state')
    BY <1>4 DEF Alike
  <2> HIDE DEF st
  <2> QED BY <1>1, <1>3, <1>4, <2>1, ReadKeeps DEF st
<1>5. ASSUME NEW b \in Slots, Commits(st, b) PROVE IInv'
  <2>0. Current(st)
    BY <1>1, Reading DEF IInv, Connection
  <2> HIDE DEF st
  <2>1. /\ state' \in States /\ Sound(told, state')
        /\ state'.visible = st.visible /\ state'.active = st.active
        /\ state'.shutdown = st.shutdown /\ state'.busy = st.busy \cup {b}
    BY <1>3, <1>5, CommitSays
  <2>2. holding \in [Slots -> 0..1] /\ b \notin st.busy
    BY <1>5 DEF IInv, Typed, Commits
  <2>3. holding[b] = 0
    BY <2>0, <2>2 DEF Current
  <2>4. holding' \in [Slots -> 0..1] /\ \A c \in Slots : holding'[c] = IF c = b THEN 1 ELSE holding[c]
    BY <1>5, <2>2, <2>3 DEF Commits
  <2>5. events' = <<>> /\ told' = told /\ widget' = widget
    BY <1>5 DEF Commits
  <2>6. <<>> \in Seq(Events) /\ Len(<<>>) = 0 /\ 0 <= MaxEvents
    BY SurfaceAssumption
  <2>7. Typed'
    BY <1>1, <1>3, <2>1, <2>4, <2>5, <2>6 DEF IInv, Typed, compositorVars
  <2>8. After(state', events') = state'
    BY <2>5, F!FoldEmpty DEF After
  <2>9. Current(After(state, events))'
    BY <1>1, <2>0, <2>1, <2>4, <2>8 DEF Current, compositorVars
  <2> QED BY <1>1, <2>1, <2>5, <2>7, <2>9 DEF IInv, Connection, Staged, compositorVars
<1> HIDE DEF st
<1> QED BY <1>2, <1>4, <1>5, PresentDoes DEF st

\* What the client does keeps the invariant.
LEMMA CallerKeeps == ASSUME IInv, Caller PROVE IInv'
<1>1. CASE Open
  <2>1. events = <<>> /\ holding = [b \in Slots |-> 0]
    BY <1>1 DEF Open, IInv, Connection
  <2>2. NewState \in States /\ Sound(FALSE, NewState)
    BY NewStateSound
  <2>3. 0 \in 0..MaxFingers
    BY SurfaceAssumption
  <2>4. /\ widget' = "Opening" /\ state' = NewState /\ told' = FALSE
        /\ stage' = "Bound" /\ lifecycle' = "None" /\ stopping' = FALSE /\ fingers' = 0
        /\ events' = events /\ holding' = holding
    BY <1>1 DEF Open
  <2>5. Typed'
    BY <2>2, <2>3, <2>4 DEF IInv, Typed
  <2>6. After(state', events') = NewState
    BY <2>1, <2>4, F!FoldEmpty DEF After
  <2>7. Current(NewState)'
    <3>1. NewState.shutdown = FALSE /\ NewState.visible = FALSE /\ NewState.active = FALSE /\ NewState.busy = {}
      BY DEF NewState
    <3>2. (lifecycle' \in Renderable) = FALSE /\ (lifecycle' \in OnScreen) = FALSE
      BY <2>4 DEF Renderable, OnScreen
    <3>3. \A b \in Slots : holding'[b] = 1 <=> b \in NewState.busy
      BY <2>1, <2>4, <3>1
    <3>4. /\ NewState.shutdown = stopping'
          /\ NewState.visible = (lifecycle' \in Renderable)
          /\ NewState.active = (lifecycle' \in OnScreen)
      BY <2>4, <3>1, <3>2
    <3> QED BY <3>3, <3>4 DEF Current
  <2> QED BY <2>2, <2>4, <2>5, <2>6, <2>7 DEF IInv, Connection, Staged
<1>2. CASE Configuring
  <2> DEFINE st == Dispatched
  <2>1. st \in States /\ Sound(told, st) /\ told \in BOOLEAN
    BY Reading DEF IInv, Typed, Clients
  <2>2. UNCHANGED compositorVars /\ widget = "Opening"
    BY <1>2 DEF Configuring
  <2>3. close \/ /\ state' = st /\ events' = <<>> /\ UNCHANGED <<told, holding>>
                 /\ widget' \in {"Opening", "Open"}
    BY <1>2 DEF Configuring
  <2>4. CASE close
    BY <2>2, <2>4, CloseKeeps
  <2>5. CASE ~close
    <3>1. Alike(st, state')
      BY <2>3, <2>5 DEF Alike
    <3> HIDE DEF st
    <3> QED BY <2>1, <2>2, <2>3, <2>5, <3>1, ReadKeeps DEF st
  <2> QED BY <2>4, <2>5
<1>3. CASE ConfigureFails
  BY <1>3, CloseKeeps DEF ConfigureFails
<1>4. CASE Poll
  BY <1>4, PollKeeps
<1>5. CASE Change
  BY <1>5 DEF Change, compositorVars, IInv, Typed, Connection, Current, Staged
<1>6. CASE Present
  BY <1>6, PresentKeeps
<1>7. CASE Close
  BY <1>7, CloseKeeps DEF Close
<1> QED BY <1>1, <1>2, <1>3, <1>4, <1>5, <1>6, <1>7 DEF Caller

-----------------------------------------------------------------------------
(* The results.                                                            *)

\* A process starts without a connection.
LEMMA InitIInv == ASSUME Init PROVE IInv
<1>1. NewState \in States /\ Sound(FALSE, NewState)
  BY NewStateSound
<1>2. <<>> \in Seq(Events) /\ Len(<<>>) = 0 /\ 0 <= MaxEvents /\ 0 \in 0..MaxFingers
  BY SurfaceAssumption
<1>3. holding \in [Slots -> 0..1]
  BY DEF Init
<1>4. Typed
  BY <1>1, <1>2, <1>3 DEF Init, Typed
<1>5. Sound(told, state)
  BY <1>1 DEF Init
<1> QED BY <1>4, <1>5 DEF Init, IInv, Staged, Connection

\* The invariant is inductive.
LEMMA NextIInv == ASSUME IInv, [Next]_vars PROVE IInv'
<1>1. CASE UNCHANGED vars
  BY <1>1 DEF vars, compositorVars, clientVars, IInv, Typed, Connection, Current, Staged
<1> QED BY <1>1, CallerKeeps, CompositorKeeps DEF Next

\* What the invariant says of buffers and of touches.
LEMMA Safe == ASSUME IInv PROVE TypeOK /\ BufferOwned /\ TouchPaired /\ TouchTold
<1>1. TypeOK
  BY DEF IInv, Typed, States, Sizes, Sound, TypeOK
<1>2. BufferOwned
  <2>1. ASSUME NEW b \in Slots, holding[b] = 1 PROVE b \in state.busy
    <3>1. widget # "Closed"
      BY <2>1 DEF IInv, Connection
    <3>2. b \in After(state, events).busy
      BY <2>1, <3>1 DEF IInv, Connection, Current
    <3> QED BY <3>2, Reading
  <2>2. \A b \in Slots : holding[b] <= 1
    BY DEF IInv, Typed
  <2> QED BY <2>1, <2>2 DEF BufferOwned
<1>3. TouchPaired
  BY DEF IInv, Sound, Paired, TouchPaired
<1>4. TouchTold
  BY DEF IInv, Sound, Knows, TouchTold
<1> QED BY <1>1, <1>2, <1>3, <1>4

\* Only present_frame commits a buffer, and what it has read is what the
\* compositor has sent.
LEMMA StepDraws == ASSUME IInv, [Next]_vars PROVE DrawnWhenShown
<1>1. holding \in [Slots -> 0..1] /\ widget \in {"Closed", "Opening", "Open"}
  BY DEF IInv, Typed
<1>2. CASE holding' = holding
  BY <1>1, <1>2 DEF DrawnWhenShown
<1>3. CASE close
  BY <1>1, <1>3 DEF close, DrawnWhenShown
<1>4. CASE ReleaseBuffer
  BY <1>1, <1>4 DEF ReleaseBuffer, DrawnWhenShown
<1>5. CASE Present
  <2> DEFINE st == Dispatched
  <2>1. ASSUME NEW b \in Slots, Commits(st, b) PROVE DrawnWhenShown
    <3>1. st \in States /\ Sound(told, st) /\ told \in BOOLEAN /\ Current(st)
      BY <1>5, Reading DEF IInv, Typed, Clients, Connection, Present
    <3> HIDE DEF st
    <3>2. state'.frames = 1 /\ state'.frame_pending = FALSE
      BY <2>1, <3>1, CommitSays
    <3>3. st.visible /\ ~st.shutdown
      BY <2>1 DEF Commits, renderable
    <3>4. lifecycle \in Renderable /\ ~stopping
      BY <3>1, <3>3 DEF Current
    <3>5. stage = "Done"
      BY <3>4 DEF IInv, Staged, Renderable
    <3> QED BY <3>2, <3>4, <3>5 DEF DrawnWhenShown
  <2> HIDE DEF st
  <2> QED BY <1>2, <1>3, <1>5, <2>1, PresentDoes DEF st
<1>6. CASE Caller /\ ~Present /\ ~close
  BY <1>2, <1>6 DEF Caller, Open, Configuring, ConfigureFails, Poll, Change, Close
<1>7. CASE Compositor /\ ~ReleaseBuffer
  BY <1>2, <1>7 DEF Compositor, Configure, SendLifecycle, TransitionIncoming, Shutdown, Seat,
                    Finger, Dies
<1>8. CASE UNCHANGED vars
  BY <1>2, <1>8 DEF vars
<1> QED BY <1>3, <1>4, <1>5, <1>6, <1>7, <1>8 DEF Next

\* The surface: it draws only what is shown and into no buffer that the compositor
\* reads, and the reports of touches are paired and complete, for any number of
\* buffers, fingers, reports, connections and events on their way (present_frame,
\* push_touch, dispatch).
THEOREM SurfaceHolds == Spec => SurfaceSafe
<1>1. ASSUME IInv, [Next]_vars
      PROVE  IInv' /\ (TypeOK /\ BufferOwned /\ TouchPaired /\ TouchTold)' /\ DrawnWhenShown
  <2>1. IInv'
    BY <1>1, NextIInv
  <2>2. (IInv => TypeOK /\ BufferOwned /\ TouchPaired /\ TouchTold)'
    BY Safe, PTL
  <2> QED BY <1>1, <2>1, <2>2, StepDraws
<1> QED BY <1>1, InitIInv, PTL DEF Spec, SurfaceSafe

=============================================================================
