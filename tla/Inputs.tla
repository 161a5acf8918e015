-------------------------------- MODULE Inputs --------------------------------
(***************************************************************************)
(* The input of the dashboard and of the programs without a host of their  *)
(* own: two controllers and four keyboards (native/src/controls.rs) and    *)
(* the touchscreen (native/src/input.rs), polled together by one thread    *)
(* (dispatch_inputs) and collected report by report.                       *)
(*                                                                         *)
(* A device is known by its physical path and opened at an event node,     *)
(* which the kernel hands out again; devices come and go, and their events *)
(* overflow, while the thread reads them.  Coordinates, directions and     *)
(* the axes of a controller are left out: a controller has buttons.        *)
(***************************************************************************)
EXTENDS Evdev, FiniteSets

CONSTANTS
  Pads, Keyboards, Touches,   \* physical paths, in their order; at most one touchscreen
  Nodes,                      \* event nodes, in their order
  Shift, Arrow, Letter,       \* keys of a keyboard
  MAXIMUM_GAMEPADS, MAXIMUM_KEYBOARDS, MAXIMUM_CONTROL_REPORTS,
  Capacity, Batch,            \* events a device may queue, and one read returns
  MaxTouches,                 \* bound: touch reports between two collections
  Scopes                      \* bounds, one record per behaviour: [devices: devices in use,
                              \* plugs: those that come and go, moves and repeats: their
                              \* buttons that do]

Paths == Pads \cup Keyboards \cup Touches
Buttons(d) == IF d \in Keyboards THEN {Shift, Arrow, Letter} ELSE {"A", "B"}

ASSUME InputsAssumption ==
  /\ Paths \cup Nodes \subseteq Nat \ {0} /\ IsFiniteSet(Paths)
  /\ Cardinality(Touches) <= 1
  /\ Shift \notin {Arrow, Letter} /\ {Shift, Arrow, Letter} \cap {"A", "B"} = {}
  /\ Pads \cap Keyboards = {} /\ Touches \cap (Pads \cup Keyboards) = {}
  /\ {MAXIMUM_GAMEPADS, MAXIMUM_KEYBOARDS, MAXIMUM_CONTROL_REPORTS, MaxTouches} \subseteq Nat \ {0}
  /\ Capacity \in Nat /\ Capacity >= 2 /\ Batch \in 1..Capacity
  /\ \A s \in Scopes : s.devices \subseteq Paths

VARIABLES
  scope,
  node, held,         \* the world: where each device is, and its held buttons
  handle, at,         \* the open handle of a device, and the node it was opened at
  grabbed, queue,     \* the kernel's side of the handle
  raw, state,         \* what has been read of it, and what has been reported
  dropping, torn,     \* dropping_events; a snapshot has overtaken a batch in hand
  reports, touches,   \* Controls.reports and TouchDevice.reports
  rescan_requested,
  phase, ready, batch,    \* the thread: polled devices still to read, events in hand
  seen, told,         \* presses read, and the contact told, up to the last collection
  doubt               \* events were lost, or a batch torn, since then

usedVars  == <<scope, node, held>>
deviceVars == <<handle, at, grabbed, queue, raw, state, dropping, torn>>
reportVars == <<reports, touches, seen, doubt, told>>
inputVars == <<usedVars, deviceVars, reportVars, rescan_requested, phase, ready, batch>>

-----------------------------------------------------------------------------
(* Reports.                                                                *)

Press(b, value, shifted) == [type |-> "EV_KEY", code |-> b, value |-> value, shifted |-> shifted]

GamepadReport(value) == [kind |-> "Gamepad", value |-> {<<b, FALSE, FALSE>> : b \in value}]
KeyboardReport(key, shifted, repeat) == [kind |-> "Keyboard", value |-> {<<key, shifted, repeat>>}]
TouchReport(from, to) ==
  [down |-> to # {}, pressed |-> to # {} /\ from = {}, released |-> to = {} /\ from # {}]

\* queue_report: controllers are merged, equal keys told once, and the queue
\* is bounded.
QueueNew(queued, report) ==
  IF Len(queued) < MAXIMUM_CONTROL_REPORTS /\ ~Contains(queued, report)
  THEN Append(queued, report) ELSE queued
QueueLatest(queued, report) ==
  LET pads == {i \in 1..Len(queued) : queued[i].kind = "Gamepad"}
  IN  IF report.kind = "Gamepad" /\ pads # {}
      THEN [queued EXCEPT ![CHOOSE i \in pads : TRUE] = report]
      ELSE QueueNew(queued, report)
queue_report(queued, report) ==
  LET pads == {i \in 1..Len(queued) : queued[i].kind = "Gamepad"}
  IN  IF report.kind = "Gamepad" /\ pads # {}
      THEN [queued EXCEPT ![CHOOSE i \in pads : TRUE].value = @ \cup report.value]
      ELSE QueueNew(queued, report)

-----------------------------------------------------------------------------
(* GamepadState, KeyboardState and TouchState: st is [raw, state, dropping,  *)
(* synced, late, reports, touches].                                          *)

HandlePad(st, e) ==
  IF IsKey(e) THEN [st EXCEPT !.raw = Level(@, e)]
  ELSE [st EXCEPT !.state = st.raw,
                  !.reports = IF st.raw \subseteq st.state THEN @
                              ELSE queue_report(@, GamepadReport(st.raw \ st.state))]

HandleKeyboard(st, e) ==
  IF ~IsKey(e) THEN st
  ELSE IF e.code = Shift THEN [st EXCEPT !.raw = Level(@, e)]
  ELSE IF e.value = "Down" \/ (e.value = "Repeat" /\ e.code = Arrow)
  THEN [st EXCEPT !.reports =
          queue_report(@, KeyboardReport(e.code, st.raw # {}, e.value = "Repeat"))]
  ELSE st

HandleTouch(st, e) ==
  IF IsKey(e) THEN [st EXCEPT !.raw = Level(@, e)]
  ELSE [st EXCEPT !.state = st.raw, !.touches = Append(@, TouchReport(st.state, st.raw))]

\* What a snapshot of the device says.
Snapshot(d) == IF d \in Keyboards THEN held[d] \cap {Shift} ELSE held[d]

\* resynchronize: no edge is reported, but the touchscreen reports where it is.
ResyncSilently(d, st) == [st EXCEPT !.raw = Snapshot(d), !.state = Snapshot(d), !.dropping = FALSE,
                                    !.synced = TRUE, !.late = FALSE]
resynchronize(d, st) ==
  IF d \in Touches
  THEN LET now == IF handle[d] = "Live" THEN Snapshot(d) ELSE st.raw
       IN  [HandleTouch([st EXCEPT !.raw = now], Report) EXCEPT !.dropping = FALSE,
              !.synced = TRUE, !.late = FALSE]
  ELSE ResyncSilently(d, st)

HandleThroughDrop(d, st, e) ==
  IF e = Dropped THEN st
  ELSE CASE d \in Pads -> HandlePad(st, e)
         [] d \in Keyboards -> HandleKeyboard(st, e)
         [] OTHER -> HandleTouch(st, e)
Handle(d, st, e) ==
  IF st.dropping THEN IF e = Report THEN resynchronize(d, st) ELSE st
  ELSE IF e = Dropped THEN [st EXCEPT !.dropping = TRUE]
  ELSE LET after == CASE d \in Pads -> HandlePad(st, e)
                      [] d \in Keyboards -> HandleKeyboard(st, e)
                      [] OTHER -> HandleTouch(st, e)
       IN  [after EXCEPT !.late = @ \/ (st.synced /\ IsKey(e))]

-----------------------------------------------------------------------------
(* Opening and closing.                                                    *)

Opened == {d \in Paths : handle[d] # "None"}
Before(d, e, byNode) == IF byNode THEN node[d] < node[e] ELSE d < e
FirstAndNext(S, n, byNode) ==
  {d \in S : Cardinality({e \in S : Before(e, d, byNode)}) <= n}
First(S, n, byNode) == {d \in S : Cardinality({e \in S : Before(e, d, byNode)}) < n}

\* The handles in new replace those in old, which are closed first.
NoGrab(g, old) == [d \in Paths |-> g[d] /\ d \notin old]
Replace(old, new) ==
  LET isNew(d) == d \in new IN
  /\ handle' = [d \in Paths |-> IF isNew(d) THEN "Live"
                               ELSE IF d \in old THEN "None" ELSE handle[d]]
  /\ at' = [d \in Paths |-> IF isNew(d) THEN node[d] ELSE IF d \in old THEN 0 ELSE at[d]]
  /\ grabbed' = [d \in Paths |-> IF isNew(d) /\ d \notin Pads THEN ~NoGrab(grabbed, old)[d]
                                   ELSE NoGrab(grabbed, old)[d]]
  /\ queue' = [d \in Paths |-> IF d \in old \cup new THEN <<>> ELSE queue[d]]
  /\ raw' = [d \in Paths |-> IF isNew(d) THEN Snapshot(d) ELSE IF d \in old THEN {} ELSE raw[d]]
  /\ state' = [d \in Paths |-> IF isNew(d) THEN Snapshot(d) ELSE IF d \in old THEN {} ELSE state[d]]
  /\ dropping' = dropping \ (old \cup new)
  /\ torn' = torn \ (old \cup new)

NoReports == reports' = <<>> /\ seen' = {} /\ doubt' = {}

\* Controls::scan: the first devices in order; those of a kind are replaced
\* together, and only when a path changed.
Present(kind) == {d \in kind : node[d] # 0}
CountChanged(old, new) == Cardinality(old) # Cardinality(new)
Changed(old, new) == old # new
ScanControls ==
  /\ phase = "Idle"
  /\ LET pads == First(Present(Pads), MAXIMUM_GAMEPADS, FALSE)
         keyboards == First(Present(Keyboards), MAXIMUM_KEYBOARDS, TRUE)
         gamepads_changed ==
           Changed({<<d, at[d]>> : d \in Opened \cap Pads}, {<<d, node[d]>> : d \in pads})
         keyboards_changed ==
           Changed({at[d] : d \in Opened \cap Keyboards}, {node[d] : d \in keyboards})
         replaced == (IF gamepads_changed THEN Pads ELSE {})
                     \cup (IF keyboards_changed THEN Keyboards ELSE {})
     IN  /\ Replace(Opened \cap replaced, (pads \cup keyboards) \cap replaced)
         /\ IF replaced = {} THEN UNCHANGED <<reports, seen, doubt>> ELSE NoReports
  /\ rescan_requested' = FALSE
  /\ UNCHANGED <<usedVars, touches, told, phase, ready, batch>>

\* Controls::scan when /dev/input can not be read.
ScanFails ==
  /\ phase = "Idle"
  /\ rescan_requested' = TRUE
  /\ UNCHANGED <<usedVars, deviceVars, reportVars, phase, ready, batch>>

\* open_touch: the device in use is closed first.
Discover(old) ==
  /\ \E d \in Present(Touches) : Replace(old, {d}) /\ told' = Snapshot(d)
  /\ touches' = <<>>
OpenOver ==
  /\ phase = "Idle" /\ Discover({})
  /\ UNCHANGED <<usedVars, reports, seen, doubt, rescan_requested, phase, ready, batch>>
OpenTouch ==
  /\ phase = "Idle"
  /\ Discover(Opened \cap Touches)
  /\ UNCHANGED <<usedVars, reports, seen, doubt, rescan_requested, phase, ready, batch>>

\* close_touch and controls::close.
Close ==
  /\ phase = "Idle"
  /\ Replace(Opened, {})
  /\ NoReports /\ touches' = <<>> /\ told' = {}
  /\ rescan_requested' = FALSE
  /\ UNCHANGED <<usedVars, phase, ready, batch>>

-----------------------------------------------------------------------------
(* dispatch_inputs: one poll, then every ready device in turn.             *)

Readable == {d \in Paths : handle[d] = "Dead" \/ (handle[d] = "Live" /\ queue[d] # <<>>)}
Rank(d) == IF d \in Pads THEN 0 ELSE IF d \in Keyboards THEN 1 ELSE 2
Current == CHOOSE d \in ready : \A e \in ready : Rank(d) < Rank(e) \/ (Rank(d) = Rank(e) /\ d <= e)

Dispatch ==
  /\ phase = "Idle"
  /\ ready' = Readable
  /\ phase' = IF ready' = {} THEN "Told" ELSE "Reading"
  /\ UNCHANGED <<usedVars, deviceVars, reportVars, rescan_requested, batch>>

DoneWith(d) ==
  /\ ready' = ready \ {d}
  /\ phase' = IF ready' = {} THEN "Told" ELSE "Reading"

\* A device that can not be read is dropped and a scan asked for; the runtime
\* is told of the touchscreen, and closes it.
LoseDevice(d) ==
  /\ Replace({d}, {})
  /\ rescan_requested' = (rescan_requested \/ d \notin Touches)
  /\ IF d \in Touches THEN touches' = <<>> /\ told' = {} ELSE UNCHANGED <<touches, told>>
  /\ DoneWith(d)
  /\ doubt' = doubt \cup {"Lost"}
  /\ UNCHANGED <<reports, seen>>

Fetch ==
  /\ phase = "Reading" /\ batch = <<>>
  /\ LET d == Current IN
     \/ handle[d] = "Dead" /\ LoseDevice(d) /\ UNCHANGED batch
     \/ /\ handle[d] = "Live" /\ queue[d] = <<>>
        /\ DoneWith(d)
        /\ UNCHANGED <<deviceVars, reportVars, rescan_requested, batch>>
     \/ /\ handle[d] = "Live" /\ queue[d] # <<>>
        /\ batch' = FirstBatch(queue[d], Batch)
        /\ queue' = [queue EXCEPT ![d] = Rest(@, batch')]
        /\ UNCHANGED <<handle, at, grabbed, raw, state, dropping, torn, reportVars,
                       rescan_requested, phase, ready>>
  /\ UNCHANGED usedVars

\* The presses among the events of a device.
Presses(events) ==
  {<<e.code, e.shifted, e.value = "Repeat">> :
     e \in {f \in Range(events) : /\ IsKey(f)
                                  /\ f.value = "Down" \/ (f.value = "Repeat" /\ f.code = Arrow)
                                  /\ f.code # Shift}}

Apply ==
  /\ phase = "Reading" /\ batch # <<>>
  /\ LET d == Current
         st == [raw |-> raw[d], state |-> state[d], dropping |-> d \in dropping, synced |-> FALSE,
                late |-> FALSE, reports |-> reports, touches |-> touches]
     IN  \E after \in {ReadAll(LAMBDA s, e : Handle(d, s, e), st, batch)} :
         /\ IF after.synced /\ handle[d] = "Dead" /\ d \notin Touches
            THEN LoseDevice(d)
            ELSE /\ raw' = [raw EXCEPT ![d] = after.raw]
                 /\ state' = [state EXCEPT ![d] = after.state]
                 /\ dropping' = IF after.dropping THEN dropping \cup {d} ELSE dropping \ {d}
                 /\ torn' = IF ~after.synced THEN torn
                            ELSE IF after.late THEN torn \cup {d} ELSE torn \ {d}
                 /\ queue' = IF after.synced THEN [queue EXCEPT ![d] = AfterSnapshot(@)] ELSE queue
                 /\ reports' = after.reports /\ touches' = after.touches
                 /\ seen' = IF d \in Touches THEN seen ELSE seen \cup Presses(batch)
                 /\ doubt' = doubt \cup (IF after.synced THEN {"Lost"} ELSE {})
                                   \cup (IF after.late \/ d \in torn THEN {"Torn"} ELSE {})
                 /\ UNCHANGED <<handle, at, grabbed, told, rescan_requested, phase, ready>>
  /\ batch' = <<>>
  /\ UNCHANGED usedVars

\* The caller takes the reports that dispatch counted.
Collect ==
  /\ phase = "Told"
  /\ phase' = "Idle"
  /\ NoReports /\ touches' = <<>>
  /\ told' = IF touches = <<>> THEN told ELSE IF Last(touches).down THEN {"A"} ELSE {}
  /\ UNCHANGED <<usedVars, deviceVars, rescan_requested, ready, batch>>

-----------------------------------------------------------------------------
(* The world.                                                              *)

Plug(d) ==
  /\ node[d] = 0
  /\ \E n \in Nodes : (\A e \in Paths : node[e] # n) /\ node' = [node EXCEPT ![d] = n]
  /\ UNCHANGED <<scope, held, deviceVars, reportVars, rescan_requested, phase, ready, batch>>

Unplug(d) ==
  /\ node[d] # 0
  /\ node' = [node EXCEPT ![d] = 0] /\ held' = [held EXCEPT ![d] = {}]
  /\ IF handle[d] = "Live" /\ at[d] = node[d]
     THEN handle' = [handle EXCEPT ![d] = "Dead"] /\ queue' = [queue EXCEPT ![d] = <<>>]
     ELSE UNCHANGED <<handle, queue>>
  /\ UNCHANGED <<scope, at, grabbed, raw, state, dropping, torn, reportVars, rescan_requested,
                 phase, ready, batch>>

\* A button or a key moves or repeats; its packet goes to the open handle.
Move(d, b, value) ==
  /\ node[d] # 0 /\ (value = "Down") = (b \notin held[d])
  /\ Len(touches) < MaxTouches
  /\ LET packet == <<Press(b, value, Shift \in held[d]), Report>>
     IN  /\ held' = [held EXCEPT ![d] = Level(@, packet[1])]
         /\ queue' = IF handle[d] = "Live"
                     THEN [queue EXCEPT ![d] = Post(@, packet, Capacity)] ELSE queue
  /\ UNCHANGED <<scope, node, handle, at, grabbed, raw, state, dropping, torn, reportVars,
                 rescan_requested, phase, ready, batch>>

-----------------------------------------------------------------------------

InputsInit ==
  /\ scope \in Scopes
  /\ node \in {f \in [Paths -> Nodes \cup {0}] :
                 /\ \A d, e \in Paths : d # e /\ f[d] # 0 => f[d] # f[e]
                 /\ \A d \in Paths \ scope.devices : f[d] = 0}
  /\ held = [d \in Paths |-> {}]
  /\ handle = [d \in Paths |-> "None"] /\ at = [d \in Paths |-> 0]
  /\ grabbed = [d \in Paths |-> FALSE] /\ queue = [d \in Paths |-> <<>>]
  /\ raw = [d \in Paths |-> {}] /\ state = [d \in Paths |-> {}]
  /\ dropping = {} /\ torn = {}
  /\ reports = <<>> /\ touches = <<>> /\ seen = {} /\ doubt = {} /\ told = {}
  /\ rescan_requested = FALSE /\ phase = "Idle" /\ ready = {} /\ batch = <<>>

Caller == ScanControls \/ ScanFails \/ OpenTouch \/ Close \/ Dispatch \/ Collect
Thread == Caller \/ Fetch \/ Apply
InputsUsed ==
  \E d \in scope.devices :
    \/ d \in scope.plugs /\ (Plug(d) \/ Unplug(d))
    \/ \E b \in Buttons(d) \cap scope.moves, value \in {"Down", "Up"} : Move(d, b, value)
    \/ d \in Keyboards /\ \E b \in {Arrow, Letter} \cap scope.repeats : Move(d, b, "Repeat")

InputsNext == Thread \/ InputsUsed
InputsSpec == InputsInit /\ [][InputsNext]_inputVars

\* The dashboard iterates: it reads what is there, collects it, and scans every
\* few seconds or when asked to.
InputsFairSpec ==
  /\ InputsSpec
  /\ WF_inputVars(Fetch) /\ WF_inputVars(Collect)
  /\ SF_inputVars(Dispatch /\ Readable # {}) /\ SF_inputVars(ScanControls)

-----------------------------------------------------------------------------
(* Properties.                                                             *)

\* The types of the input state.
InputsTypeOK ==
  /\ node \in [Paths -> Nodes \cup {0}] /\ at \in [Paths -> Nodes \cup {0}]
  /\ handle \in [Paths -> {"None", "Live", "Dead"}]
  /\ grabbed \in [Paths -> BOOLEAN]
  /\ \A d \in Paths : {held[d], raw[d], state[d]} \subseteq SUBSET Buttons(d)
  /\ \A d \in Paths : Len(queue[d]) <= Capacity
  /\ {dropping, torn, ready} \subseteq SUBSET Paths
  /\ Cardinality(Opened \cap Pads) <= MAXIMUM_GAMEPADS
  /\ Cardinality(Opened \cap Keyboards) <= MAXIMUM_KEYBOARDS
  /\ Len(reports) <= MAXIMUM_CONTROL_REPORTS
  /\ rescan_requested \in BOOLEAN /\ phase \in {"Idle", "Reading", "Told"}

\* Nothing is out of step: what was read of a device, and the events still to
\* be applied, lead to what is held; across overflows, plugging and snapshots.
\* (Not when a snapshot overtook events of the batch in hand: torn.)
Pending(d) ==
  (IF phase = "Reading" /\ ready # {} /\ Current = d THEN batch ELSE <<>>) \o queue[d]
InStep ==
  \A d \in Paths :
    (handle[d] = "Live" /\ d \notin dropping \cup torn /\ ~Contains(Pending(d), Dropped)) =>
      Snapshot(d) = FoldLeft(LAMBDA h, e : IF IsKey(e) THEN Level(h, e) ELSE h, raw[d], Pending(d))
                    \cap (IF d \in Keyboards THEN {Shift} ELSE Buttons(d))

\* The reports name the presses that were read, no other and, while the queue
\* has room, all of them: a button held through an overflow is not pressed
\* again, a letter does not repeat, a capital stays a capital.  (A packet may be
\* lost after its first events.)
Named == UNION {reports[i].value : i \in 1..Len(reports)}
ReportsTrue ==
  (torn = {} /\ "Torn" \notin doubt /\ phase # "Reading") =>
    /\ Named \subseteq seen
    /\ (Len(reports) < MAXIMUM_CONTROL_REPORTS /\ "Lost" \notin doubt) => seen \subseteq Named

\* The touch reports are presses and releases in turn, and end where the
\* finger was last seen: no consumer waits for a release it will not be told.
TouchFollowed ==
  \A d \in Touches :
    handle[d] # "None" =>
      /\ \A i \in 1..Len(touches) :
           LET last == IF i = 1 THEN told # {} ELSE touches[i - 1].down
           IN  /\ touches[i].pressed <=> (touches[i].down /\ ~last)
               /\ touches[i].released <=> (~touches[i].down /\ last)
      /\ (state[d] # {}) = (IF touches = <<>> THEN told # {} ELSE Last(touches).down)

\* A keyboard or touchscreen in use is ours alone: whoever replaces a handle has
\* let go of it first.
GrabHeld == \A d \in Paths \ Pads : handle[d] = "Live" => grabbed[d]

\* A controller that stays plugged in is taken into use, if it is one of the
\* first: also one that was pulled out and put back at the same node before
\* that was noticed, which the scan takes for the old one.  (While no button
\* moves: a device is drained until it has nothing more to say.)
PadFound ==
  \A d \in Pads :
    (node[d] # 0 /\ scope.moves = {})
      ~> \/ node[d] = 0 \/ d \notin First(Present(Pads), MAXIMUM_GAMEPADS, FALSE)
         \/ handle[d] = "Live" /\ at[d] = node[d]

\* What the dashboard reads of the devices is what happened on them, in order, on
\* handles it alone holds (controls.rs, input.rs).
ReadingTrue == InputsTypeOK /\ InStep /\ ReportsTrue /\ TouchFollowed /\ GrabHeld
=============================================================================
