---------------------------- MODULE WidgetSurface ----------------------------
(***************************************************************************)
(* The normal widget surface of the dashboard and of its programs          *)
(* (native/src/wayland.rs) and the compositor at the other end of its      *)
(* connection, as protocol/deck-widget.xml describes it.                   *)
(*                                                                         *)
(* Events travel in order and are read whenever the client looks.  Sizes   *)
(* are three classes, a frame and a touch report have no contents, and the *)
(* compositor configures a surface once.  The client is one thread: what   *)
(* one call of the API does is one step.                                   *)
(***************************************************************************)
EXTENDS Integers, FiniteSets, SequencesExt

CONSTANTS
  BUFFER_COUNT,
  MaxEvents,      \* bound: events sent and not yet read
  MaxFingers,     \* bound: fingers on the panel
  MaxTouches,     \* bound: touch reports between two collections
  MaxOpens,       \* bound: connections of the client
  Scopes          \* bounds, one record per behaviour: [caller: "Deck" or "Game",
                  \* touched: fingers move, and the connection and the frames are left in peace]

ASSUME SurfaceAssumption ==
  /\ {BUFFER_COUNT, MaxEvents, MaxFingers, MaxTouches, MaxOpens} \subseteq Nat \ {0}
  /\ \A s \in Scopes : s.caller \in {"Deck", "Game"} /\ s.touched \in BOOLEAN

Slots == 1..BUFFER_COUNT
Idle == {"Dormant", "Prepared", "Visible"}
Renderable == {"Prepared", "Entering", "Visible", "Leaving"}
OnScreen == Renderable \ {"Prepared"}

VARIABLES
  scope,
  stage, lifecycle,     \* compositor: how far the surface is configured, the last lifecycle sent
  stopping, capable,    \* it asked for a shutdown; the seat has a touchscreen
  fingers, alive,       \* fingers on the surface; the connection stands
  events,               \* sent and not yet read
  holding,              \* how many commits of each buffer the compositor has not released
  widget, state,        \* client: "Closed", "Opening" or "Open", and its State
  dirty, told,          \* caller: it has something to draw; it was told of a contact
  opens

compositorVars == <<stage, lifecycle, stopping, capable, fingers>>
clientVars == <<widget, state, dirty, told, opens>>
vars == <<scope, compositorVars, alive, events, holding, clientVars>>

-----------------------------------------------------------------------------
(* State and its event handlers.  frames counts the frames committed since *)
(* the last lifecycle event; lost says that a contact was taken back       *)
(* without a report.                                                       *)

Contact(pressed, released) == [pressed |-> pressed, released |-> released]

NewState ==
  [configured |-> FALSE, size |-> "Invalid", visible |-> FALSE, active |-> FALSE,
   frame_pending |-> FALSE, refresh_requested |-> FALSE, shutdown |-> FALSE,
   touch |-> FALSE, touch_down |-> FALSE, touches |-> <<>>, lost |-> FALSE,
   busy |-> {}, frames |-> 0]

RenderableVisible(st) == st.visible
renderable(st) == st.visible /\ (st.active \/ st.frame_pending)

\* An event that takes the surface off the screen drops the reports with the contact.
Shown(st, s) ==
  [st EXCEPT !.visible = s \in Renderable, !.active = s \in OnScreen,
             !.frame_pending = s \in Renderable, !.frames = 0,
             !.lost = @ \/ (s \notin OnScreen /\ (st.touch_down \/ st.touches # <<>>)),
             !.touches = IF s \in OnScreen THEN @ ELSE <<>>]
LifecycleActive(st, s) ==
  [Shown(st, s) EXCEPT !.active = s # "Prepared", !.refresh_requested = @ \/ s \in Renderable]
LifecycleClearingQueue(st, s) == [Shown(st, s) EXCEPT !.refresh_requested = @ \/ s \in Renderable]
LifecycleUnasked(st, s) == [Shown(st, s) EXCEPT !.touch_down = @ /\ s \in OnScreen]
Lifecycle(st, s) ==
  [Shown(st, s) EXCEPT !.touch_down = @ /\ s \in OnScreen,
                       !.refresh_requested = @ \/ s \in Renderable]

push_touch(st, down, pressed, released) ==
  [st EXCEPT !.touch_down = down, !.lost = @ /\ ~pressed,
             !.touches = Append(@, Contact(pressed, released))]
CancelSilently(st, e) ==
  CASE e = "Down" -> push_touch(st, TRUE, TRUE, FALSE)
    [] e = "Up" /\ st.touch_down -> push_touch(st, FALSE, FALSE, TRUE)
    [] e = "Cancel" -> [st EXCEPT !.touch_down = FALSE]
    [] OTHER -> st
TouchEvent(st, e) ==
  CASE e = "Down" -> push_touch(st, TRUE, TRUE, FALSE)
    [] e \in {"Up", "Cancel"} /\ st.touch_down -> push_touch(st, FALSE, FALSE, TRUE)
    [] e = "Motion" /\ st.touch_down -> push_touch(st, TRUE, FALSE, FALSE)
    [] OTHER -> st

Capabilities(st, have) ==
  [st EXCEPT !.touch = have, !.touch_down = @ /\ have, !.lost = @ \/ (~have /\ st.touch_down)]

\* A buffer of an older connection is not known any more.
Release(st, b) == [st EXCEPT !.busy = @ \ {b}]

Event(type, value) == [type |-> type, value |-> value]

widget_event(st, e) ==
  CASE e.type = "Configure" -> [st EXCEPT !.size = e.value]
    [] e.type = "ConfigureDone" -> [st EXCEPT !.configured = st.size # "Invalid"]
    [] e.type = "Lifecycle" -> Lifecycle(st, e.value)
    [] e.type = "TransitionIncoming" -> [st EXCEPT !.refresh_requested = TRUE]
    [] e.type = "Shutdown" -> [st EXCEPT !.shutdown = TRUE]

WidgetEvents == {"Configure", "ConfigureDone", "Lifecycle", "TransitionIncoming", "Shutdown"}
Handle(st, e) ==
  CASE e.type \in WidgetEvents -> widget_event(st, e)
    [] e.type = "Release" -> Release(st, e.value)
    [] e.type = "Capabilities" -> Capabilities(st, e.value)
    [] e.type = "Touch" -> IF st.touch THEN TouchEvent(st, e.value) ELSE st

\* dispatch_pending, after a read of everything that has arrived.
Dispatched == FoldLeft(Handle, state, events)

-----------------------------------------------------------------------------
(* The client.                                                             *)

close ==
  /\ widget' = "Closed" /\ state' = NewState /\ dirty' = FALSE
  /\ told' = FALSE
  /\ events' = <<>> /\ holding' = [b \in Slots |-> 0]

\* Widget::open: a connection, its globals, the surface and its first commit.
Open ==
  /\ widget = "Closed"
  /\ opens < IF scope.touched \/ scope.caller = "Game" THEN 1 ELSE MaxOpens
  /\ widget' = "Opening" /\ state' = NewState /\ opens' = opens + 1
  /\ stage' = "Bound" /\ lifecycle' = "None" /\ stopping' = FALSE
  /\ capable' = FALSE /\ fingers' = 0 /\ alive' = TRUE
  /\ dirty' = FALSE /\ told' = FALSE
  /\ UNCHANGED <<scope, events, holding>>

\* wait_until_configured: a round that dispatched something, and one that ends it.
Configuring ==
  /\ widget = "Opening" /\ events # <<>>
  /\ LET st == Dispatched IN
     IF st.shutdown THEN close
     ELSE /\ state' = st /\ events' = <<>> /\ UNCHANGED <<told, holding>>
          /\ widget' = (IF st.configured THEN "Open" ELSE "Opening")
          /\ dirty' = st.configured
  /\ UNCHANGED <<scope, compositorVars, alive, opens>>

\* 2000 ms, a read without an event, or an error of the connection.
ConfigureFails ==
  /\ widget = "Opening" /\ events = <<>>
  /\ close /\ UNCHANGED <<scope, compositorVars, alive, opens>>

Failed == events = <<>> /\ ~alive

\* One round of the caller: dispatch_inputs, or the dispatch of a game, and then
\* next_touch until there is none; a queued touch keeps dispatch_inputs from reading.
Told(st) == IF st.touches = <<>> THEN told ELSE ~Last(st.touches).released
ShutdownIfActive(st) == st.shutdown /\ st.active
ShutdownSeen(st) == st.shutdown
Poll ==
  /\ widget = "Open"
  /\ LET reads == scope.caller = "Game" \/ state.touches = <<>>
         st == IF reads THEN Dispatched ELSE state
         refresh == scope.caller = "Deck" /\ st.refresh_requested
     IN IF ShutdownSeen(st) \/ (reads /\ Failed) THEN close
        ELSE /\ state' = [st EXCEPT !.touches = <<>>, !.refresh_requested = @ /\ ~refresh]
             /\ events' = (IF reads THEN <<>> ELSE events)
             /\ told' = Told(st)
             /\ dirty' = (dirty \/ refresh)
             /\ UNCHANGED <<widget, holding>>
  /\ UNCHANGED <<scope, compositorVars, alive, opens>>

\* The caller has something new to show: a game once a frame, while it is active.
Change ==
  /\ widget = "Open" /\ ~dirty
  /\ IF scope.caller = "Game" THEN state.active ELSE ~scope.touched
  /\ dirty' = TRUE
  /\ UNCHANGED <<scope, compositorVars, alive, events, holding, widget, state, told, opens>>

Fits(st) == scope.caller = "Deck" => st.size = "Canvas"

FirstSlot(st) == Slots
FreeSlot(st) == Slots \ st.busy


\* present_rgba, present_game_xrgb: present_frame.  A frame that finds no free
\* buffer is dropped, and the caller is not told.
Present ==
  /\ widget = "Open" /\ dirty
  /\ LET st == Dispatched
         free == FreeSlot(st)
         b == CHOOSE i \in free : \A j \in free : i <= j
     IN \/ /\ ~Fits(state) \/ Failed
           /\ close /\ UNCHANGED alive
        \/ /\ Fits(state) /\ ~Failed
           /\ ~renderable(st) \/ st.shutdown \/ free = {}
           /\ state' = st /\ dirty' = FALSE
           /\ events' = <<>>
           /\ UNCHANGED <<widget, told, holding, alive>>
        \/ /\ Fits(state) /\ ~Failed
           /\ renderable(st) /\ ~st.shutdown /\ free # {}
           /\ \/ /\ alive   \* flush
                 /\ state' = [st EXCEPT !.busy = @ \cup {b}, !.frame_pending = FALSE,
                                        !.frames = IF st.active THEN 1 ELSE @ + 1]
                 /\ holding' = [holding EXCEPT ![b] = @ + 1]
                 /\ dirty' = FALSE
                 /\ events' = <<>>
                 /\ UNCHANGED <<widget, told, alive>>
              \/ ~scope.touched /\ close /\ alive' = FALSE
  /\ UNCHANGED <<scope, compositorVars, opens>>

\* The caller is done with it: it ends, or a program takes the surface over.
Close ==
  /\ widget = "Open"
  /\ close /\ UNCHANGED <<scope, compositorVars, alive, opens>>

-----------------------------------------------------------------------------
(* The compositor.                                                         *)

Connected == widget # "Closed" /\ alive
Send(e) ==
  /\ Connected /\ Len(events) < MaxEvents
  /\ events' = Append(events, e)
  /\ UNCHANGED <<scope, alive, clientVars>>

Configure ==
  /\ \/ /\ stage = "Bound" /\ stage' = "Configured"
        /\ \E size \in {"Canvas"} \cup IF scope.touched THEN {} ELSE {"Other", "Invalid"} : Send(Event("Configure", size))
     \/ stage = "Configured" /\ stage' = "Done" /\ Send(Event("ConfigureDone", "None"))
  /\ UNCHANGED <<lifecycle, stopping, capable, fingers, holding>>

Permitted ==
  [None |-> Idle, Dormant |-> {"Prepared", "Visible", "Entering"},
   Prepared |-> {"Dormant", "Visible", "Entering"}, Visible |-> {"Dormant", "Prepared", "Leaving"},
   Entering |-> {"Visible", "Prepared", "Dormant"}, Leaving |-> {"Dormant", "Prepared", "Visible"}]

\* A finger on a surface that leaves the screen may be lifted unseen.
SendLifecycle ==
  /\ stage = "Done"
  /\ \E s \in Permitted[lifecycle] :
        /\ lifecycle' = s /\ Send(Event("Lifecycle", s))
        /\ fingers' \in {fingers, IF s \in OnScreen THEN fingers ELSE 0}
  /\ UNCHANGED <<stage, stopping, capable, holding>>

TransitionIncoming ==
  /\ ~scope.touched /\ lifecycle \in Idle /\ Send(Event("TransitionIncoming", "None"))
  /\ UNCHANGED <<compositorVars, holding>>

Shutdown ==
  /\ ~scope.touched /\ ~stopping /\ stopping' = TRUE /\ Send(Event("Shutdown", "None"))
  /\ UNCHANGED <<stage, lifecycle, capable, fingers, holding>>

Seat ==
  /\ scope.touched /\ stage = "Done"
  /\ capable' = ~capable /\ Send(Event("Capabilities", ~capable))
  /\ fingers' = 0
  /\ UNCHANGED <<stage, lifecycle, stopping, holding>>

Finger ==
  /\ capable
  /\ Len(state.touches) + Cardinality({i \in 1..Len(events) : events[i].type = "Touch"}) < MaxTouches
  /\ \/ lifecycle \in OnScreen /\ fingers < MaxFingers /\ fingers' = fingers + 1 /\ Send(Event("Touch", "Down"))
     \/ fingers > 0 /\ fingers' = fingers - 1 /\ Send(Event("Touch", "Up"))
     \/ fingers > 0 /\ fingers' = fingers /\ Send(Event("Touch", "Motion"))
     \/ fingers > 0 /\ fingers' = 0 /\ Send(Event("Touch", "Cancel"))
  /\ UNCHANGED <<stage, lifecycle, stopping, capable, holding>>

ReleaseBuffer ==
  /\ \E b \in Slots : /\ holding[b] > 0 /\ holding' = [holding EXCEPT ![b] = @ - 1]
                      /\ Send(Event("Release", b))
  /\ UNCHANGED compositorVars

Dies ==
  /\ ~scope.touched /\ Connected /\ alive' = FALSE
  /\ UNCHANGED <<scope, compositorVars, events, holding, clientVars>>

-----------------------------------------------------------------------------
Init ==
  /\ scope \in Scopes
  /\ stage = "None" /\ lifecycle = "None" /\ stopping = FALSE /\ capable = FALSE
  /\ fingers = 0 /\ alive = TRUE /\ events = <<>> /\ holding = [b \in Slots |-> 0]
  /\ widget = "Closed" /\ state = NewState /\ dirty = FALSE
  /\ told = FALSE /\ opens = 0

Caller == Open \/ Configuring \/ ConfigureFails \/ Poll \/ Change \/ Present \/ Close
Compositor ==
  \/ Configure \/ SendLifecycle \/ TransitionIncoming \/ Shutdown
  \/ Seat \/ Finger \/ ReleaseBuffer \/ Dies
Next == Caller \/ Compositor
Spec == Init /\ [][Next]_vars

\* The caller's loop: it looks at the surface, draws what changed and, as a
\* game, always has a next frame.
FairSpec ==
  /\ Spec /\ WF_vars(Poll) /\ WF_vars(Present) /\ WF_vars(Configuring) /\ WF_vars(ConfigureFails)
  /\ WF_vars(Change /\ scope.caller = "Game")

-----------------------------------------------------------------------------
TypeOK ==
  /\ stage \in {"None", "Bound", "Configured", "Done"}
  /\ lifecycle \in Renderable \cup {"None", "Dormant"}
  /\ fingers \in 0..MaxFingers /\ Len(events) <= MaxEvents
  /\ widget \in {"Closed", "Opening", "Open"}
  /\ state.active => state.visible
  /\ state.busy \subseteq Slots /\ state.frames \in 0..1
  /\ state.size \in {"Canvas", "Other", "Invalid"}

\* present_frame draws into no buffer the compositor still reads: a buffer is
\* committed once, and stays busy until its release has been read.
BufferOwned == \A b \in Slots : holding[b] <= 1 /\ (holding[b] = 1 => b \in state.busy)

\* docs/upstream-rust-migration.md:100: a frame is drawn only for a configured
\* surface whose lifecycle, as of the look at the socket that precedes it, is
\* renderable and not over; Prepared gets one frame and no more.
DrawnWhenShown ==
  \A b \in Slots : holding'[b] > holding[b] =>
    /\ stage = "Done" /\ lifecycle \in Renderable /\ ~stopping
    /\ lifecycle = "Prepared" => state'.frames = 1 /\ ~state'.frame_pending

\* Reports come in order: a contact is released or moved only after it was
\* pressed, over lifecycles that clear the queue and contacts of two fingers.
TouchPaired ==
  \A i \in 1..Len(state.touches) :
    ~state.touches[i].pressed =>
      IF i = 1 THEN told ELSE ~state.touches[i - 1].released

\* Once the caller has collected the reports it knows whether there is a contact,
\* unless the surface left the screen or the touchscreen went while there was one.
TouchTold == state.touches = <<>> /\ ~state.lost => told = state.touch_down

\* A frame that a lifecycle or a transition asks for is committed, unless the
\* surface is taken away first: true as long as a buffer is free whenever the
\* caller draws, and a game need not draw for a surface it waits to see active.
FreshFrame ==
  LET owed == /\ widget = "Open" /\ state.frame_pending
              /\ scope.caller = "Game" => state.active
  IN  [](state.busy # Slots) => (owed ~> ~owed)

\* A shutdown ends the connection, also one that is still being configured and
\* one whose game waits to be active.
StopsWhenTold == (stopping /\ Connected) ~> widget = "Closed"

\* Every step keeps buffers and contacts straight: it draws only what is shown and
\* into no buffer that the compositor reads, and leaves the reports of touches
\* paired and complete (present_frame, push_touch).
SurfaceSafe == [][(TypeOK /\ BufferOwned /\ TouchPaired /\ TouchTold)' /\ DrawnWhenShown]_vars

\* What is shown is drawn in the end, and a shutdown takes the surface down
\* (present_frame, dispatch).
SurfaceServed == FreshFrame /\ StopsWhenTold
=============================================================================
