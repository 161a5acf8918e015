--------------------------- MODULE DashboardProofs ---------------------------
(***************************************************************************)
(* Proofs about the dashboard.                                             *)
(*                                                                         *)
(* Dashboard, for every catalog and every length of the batches and of the *)
(* clocks: no safety property is inductive, each depends on where the      *)
(* recursion of Runtime::step stands.  IInv says, for each place, what is  *)
(* pending, what is open and what the menu shows.                          *)
(*                                                                         *)
(* Inputs, and ControllerGuard on it, for any devices: what is read of     *)
(* them is true (ReadingTrue).  At its heart is a track of the events that *)
(* are still to be read of a device, in hand and in its queue: each fits   *)
(* what went before, and without a loss they lead to what is held.  The    *)
(* reader of a batch is shown to be where the track of the batch leads.    *)
(* Of the guard itself: what it counts and the history are the same edges. *)
(***************************************************************************)
EXTENDS Dashboard, ControllerGuard, FiniteSetTheorems, TLAPS

(* Places where the loop runs, that is where Runtime.running is set.       *)
LoopPCs == {"Begin", "Reconnect", "Scan", "Poll", "Tick", "Network", "Lost", "Controls", "Touch",
            "Settings", "VolumeTone", "Wifi", "Prepare", "Launch", "Child", "Rescan", "Open",
            "Reload"}

(* What the reducer waits for at each place.                               *)
Phase ==
  /\ pc \in {"Start", "StartTouch", "StartControls", "Begin", "Reconnect", "Scan", "Poll",
             "Tick", "Lost", "Controls", "Check"} => pending = "None"
  /\ pc = "Touch" =>
       pending = "None" \/ (pending = "Launch" /\ (origin = "Touch" \/ "Discard" \in noted))
  /\ pc \in {"Settings", "VolumeTone", "Wifi", "Network"} => pending = pc
  /\ pc = "Prepare" => pending = "Launch"
  /\ pc \in {"Launch", "Child", "Rescan", "Open", "Reload"} => pending = "Child"
  /\ pc \in {"Launch", "Child"} => recovery = "None"
  /\ pc = "Rescan" => recovery = "Controls"
  /\ pc = "Open"   => recovery = "Presentation"
  /\ pc = "Reload" => recovery = "Volume"

(* The loop runs at its places, and the screen shown is the current one.   *)
Runs ==
  /\ pc \in LoopPCs => loop = "Running"
  /\ pc \in {"Start", "StartTouch", "StartControls", "Exited"} => loop = "Stopped"
  /\ loop = "Running" => shown = view

(* Which presentation is open, and who closes it.                          *)
Presentation ==
  /\ surface # "Closed" => "Presentation" \in owned /\ backend = "Widget"
  /\ framebuffer = "Open" => "Presentation" \in owned /\ backend = "Fbdev"
  /\ pc \in {"StartTouch", "StartControls"} \cup LoopPCs \/ loop = "Running" =>
       "Presentation" \in owned /\ backend # "None"
  /\ pc \in {"StartTouch", "StartControls"} \cup (LoopPCs \ {"Child", "Rescan", "Open"})
       \/ (pc = "Check" /\ loop = "Running") =>
       /\ backend = "Widget" => surface # "Closed"
       /\ backend = "Fbdev" => framebuffer = "Open"
  /\ pc \in {"Start", "Child", "Rescan", "Open"} => framebuffer = "Closed"
  /\ pc = "Child" /\ Widget => surface # "Closed"
  /\ pc = "Exited" => surface = "Closed" /\ framebuffer = "Closed"

(* The devices a child needs, and who closes them.                         *)
Devices ==
  /\ controls = "Open" => "Controls" \in owned
  /\ tone = "Playing" => "Audio" \in owned
  /\ pc \in {"Launch", "Child"} => controls = "Closed" /\ tone = "Silent"
  /\ pc = "Child" /\ surface = "Closed" /\ game \in OwnTouch => touchDev = "Closed"
  /\ pc = "Exited" => controls = "Closed" /\ tone = "Silent"

(* The reboot confirmation.                                                *)
Window ==
  /\ deadline > 0 => view = "Dashboard"
  /\ pc \in {"Network", "Lost", "Controls", "Touch", "Settings", "VolumeTone", "Wifi",
             "Prepare"} => deadline # 1

IInv == TypeOK /\ InOrder /\ Phase /\ Runs /\ Presentation /\ Devices /\ Window

-----------------------------------------------------------------------------
(* Types.  Scalars and sets are proved apart.                              *)

\* What the menus offer is a target, and a button of the home screen is a tab
\* or names the screen it opens.
LEMMA TargetsTyped ==
  /\ NoTarget \in AllTargets
  /\ \A v \in Views : Targets(v) \subseteq AllTargets
  /\ \A t \in Targets("Dashboard") : t \in Cards \/ t[2] \in {"Credits", "Settings", "Move"}
<1>1. NoTarget \in AllTargets BY DEF AllTargets
<1>2. \A v \in Views : Targets(v) \subseteq AllTargets BY DEF AllTargets
<1>3. \A t \in Targets("Dashboard") : t \in Cards \/ t[2] \in {"Credits", "Settings", "Move"}
  BY DEF Targets, Button
<1> QED BY <1>1, <1>2, <1>3

(* The three sets of flags, element by element.                            *)
Sets ==
  /\ \A f \in owned : f \in Flags
  /\ \A f \in quarantine : f \in Sounds
  /\ \A f \in noted : f \in Notes

\* Every step keeps the sets of flags within their universes.
LEMMA SetsStep == ASSUME TypeOK, [Next]_vars PROVE Sets'
<1>0. Sets BY DEF TypeOK, Sets
<1> USE <1>0 DEF Sets, Flags, Sounds, Notes, menuVars, pendVars, clockVars, touchVars, presVars,
     ctlVars, toneVars, iterVars, worldVars, Widget
<1>1. CASE Start \/ StartTouch \/ StartControls
  BY <1>1, SMTT(30) DEF Start, OpenPresentation, StartTouch, StartControls, Render
<1>2. CASE Begin \/ Reconnect \/ Scan \/ Poll
  BY <1>2, SMTT(30) DEF Begin, ReapSound, Reduced, Reconnect, Render, TouchLinkIs,
     AfterReconnect, Scan, Poll
<1>3. CASE Tick \/ Network \/ Lost
  BY <1>3, SMTT(30) DEF Tick, Reduced, WithoutPrompt, AfterTick, Network, Render, ClearPending,
     Detail, Lost, TouchLinkIs
<1>4. CASE Controls
  BY <1>4, SMTT(30) DEF Controls, Command, Navigate, Commands, KeyboardCommands, SettingsPlan,
     Detail, Reduced, Render, Cue, RequestGame, RequestLaunch, CancelReboot, WithoutPrompt,
     SetView
<1>5. CASE Touch
  BY <1>5, SMTT(30) DEF Touch, NoTap, Tap, TapTo, SettingsPlan, Detail, Reduced, Render, Cue,
     RequestGame, RequestLaunch, CancelReboot, WithoutPrompt, SetView
<1>6. CASE BatchDone \/ Settings \/ VolumeTone \/ Wifi
  BY <1>6, SMTT(30) DEF BatchDone, Settings, Reduced, Render, ClearPending, Detail, Cue,
     StopSound, Silence, VolumeTone, Wifi
<1>7. CASE Prepare \/ Launch \/ PollEvdev \/ ChildReturned
  BY <1>7, SMTT(30) DEF Prepare, Reduced, Render, Silence, Launch, PollEvdev, ChildReturned,
     ClearPending, Detail, Shutdown
<1>8. CASE Rescan \/ Open \/ Reload
  BY <1>8, SMTT(30) DEF Rescan, Reduced, Open, OpenPresentation, Reload, ClearPending, Detail,
     Render
<1>9. CASE Check \/ RuntimeError \/ Drop
  BY <1>9, SMTT(30) DEF Check, Shutdown, Silence, RuntimeError, Fallible, Drop
<1>10. CASE TimePasses \/ SoundEnds \/ Hotplug \/ Signal \/ Compositor
  BY <1>10, SMTT(30) DEF TimePasses, AtMost, SoundEnds, Hotplug, Signal, Compositor
<1>11. CASE UNCHANGED vars
  BY <1>11 DEF vars
<1> QED
  BY <1>1, <1>2, <1>3, <1>4, <1>5, <1>6, <1>7, <1>8, <1>9, <1>10, <1>11 DEF Next, Process,
     Iteration, World

\* Every step keeps each variable in its range.
LEMMA ScalarsStep == ASSUME DashboardAssumption, Scalars, [Next]_vars PROVE Scalars'
<1> USE DashboardAssumption DEF DashboardAssumption, Scalars, PCs, Views, Pendings, Changes,
     menuVars, pendVars, clockVars, touchVars, presVars, ctlVars, toneVars, iterVars, worldVars,
     Widget
<1>1. CASE Start \/ StartTouch \/ StartControls
  BY <1>1, SMTT(30) DEF Start, OpenPresentation, StartTouch, StartControls, Render
<1>2. CASE Begin \/ Reconnect \/ Scan \/ Poll
  BY <1>2, TargetsTyped, SMTT(30) DEF Begin, ReapSound, Reduced, Reconnect, Render, TouchLinkIs,
     AfterReconnect, Scan, Poll
<1>3. CASE Tick \/ Network \/ Lost
  BY <1>3, TargetsTyped, SMTT(30) DEF Tick, Reduced, WithoutPrompt, AfterTick, Network, Render,
     ClearPending, Detail, Lost, TouchLinkIs
<1>4. CASE Controls
  BY <1>4, TargetsTyped, SMTT(30) DEF Controls, Command, Navigate, Commands, KeyboardCommands,
     SettingsPlan, Detail, Reduced, Render, Cue, RequestGame, RequestLaunch, CancelReboot,
     WithoutPrompt, SetView
<1>5. CASE Touch
  <2> USE DEF Touch, NoTap, TapTo, SettingsPlan, Detail, Reduced, Render, Cue, RequestGame,
       RequestLaunch, CancelReboot, WithoutPrompt, SetView
  <2>1. PICK t \in {NoTarget} \cup Targets(view) :
          \/ pressed' = t /\ NoTap(FALSE, t)
          \/ pressed' = NoTarget /\ (pressed # t \/ t = NoTarget) /\ NoTap(TRUE, t)
          \/ pressed' = NoTarget /\ pressed = t /\ t # NoTarget /\ Tap(t)
    BY <1>5
  <2>2. t \in AllTargets
    BY TargetsTyped
  <2>3. CASE NoTap(FALSE, t) \/ NoTap(TRUE, t)
    BY <1>5, <2>1, <2>2, <2>3, TargetsTyped, SMTT(30)
  <2>4. CASE t # NoTarget /\ Tap(t)
    <3>1. CASE view = "Dashboard" /\ t \in Cards
      <4>1. t[2] \in Apps
        BY <3>1 DEF Cards
      <4> QED BY <1>5, <2>1, <2>4, <3>1, <4>1, TargetsTyped, SMTT(30) DEF Tap
    <3>2. CASE view = "Dashboard" /\ t \notin Cards
      <4>1. t[2] \in {"Credits", "Settings", "Move"}
        BY <2>4, <3>2, TargetsTyped
      <4>2. t[2] \in {"Credits", "Settings"} \/ t = Button("Move")
        BY <2>4, <3>2, <4>1 DEF Targets, Button
      <4> QED BY <1>5, <2>1, <2>4, <3>2, <4>2, TargetsTyped, SMTT(30) DEF Tap
    <3>3. CASE view # "Dashboard"
      BY <1>5, <2>1, <2>4, <3>3, TargetsTyped, SMTT(30) DEF Tap
    <3> QED BY <3>1, <3>2, <3>3
  <2> QED BY <2>1, <2>3, <2>4
<1>6. CASE BatchDone \/ Settings \/ VolumeTone \/ Wifi
  BY <1>6, SMTT(30) DEF BatchDone, Settings, Reduced, Render, ClearPending, Detail, Cue,
     StopSound, Silence, VolumeTone, Wifi
<1>7. CASE Prepare \/ Launch \/ PollEvdev \/ ChildReturned
  BY <1>7, TargetsTyped, SMTT(30) DEF Prepare, Reduced, Render, Silence, Launch, PollEvdev,
     ChildReturned, ClearPending, Detail, Shutdown
<1>8. CASE Rescan \/ Open \/ Reload
  BY <1>8, SMTT(30) DEF Rescan, Reduced, Open, OpenPresentation, Reload, ClearPending, Detail,
     Render
<1>9. CASE Check \/ RuntimeError \/ Drop
  BY <1>9, SMTT(30) DEF Check, Shutdown, Silence, RuntimeError, Fallible, Drop
<1>10. CASE TimePasses \/ SoundEnds \/ Hotplug \/ Signal \/ Compositor
  <2>1. CASE TimePasses
    <3>1. deadline' \in 0..(RebootTicks + 1)
      BY <2>1, SMTT(30) DEF TimePasses
    <3>2. /\ sinceScan' \in 0..ScanTicks /\ sinceReconnect' \in 0..ReconnectTicks
          /\ sinceNetwork' \in 0..NetworkTicks
      BY <2>1, SMTT(30) DEF TimePasses, AtMost
    <3> QED BY <2>1, <3>1, <3>2, SMTT(30) DEF TimePasses
  <2>2. CASE SoundEnds \/ Hotplug \/ Compositor
    BY <2>2, SMTT(30) DEF SoundEnds, Hotplug, Compositor
  <2>3. CASE Signal
    BY <2>3, SMTT(30) DEF Signal
  <2> QED BY <1>10, <2>1, <2>2, <2>3
<1>11. CASE UNCHANGED vars
  BY <1>11 DEF vars
<1> QED
  BY <1>1, <1>2, <1>3, <1>4, <1>5, <1>6, <1>7, <1>8, <1>9, <1>10, <1>11 DEF Next, Process,
     Iteration, World

\* Both together: a step keeps the types.
LEMMA TypeStep == ASSUME DashboardAssumption, TypeOK, [Next]_vars PROVE TypeOK'
<1>1. Scalars' BY ScalarsStep DEF TypeOK
<1>2. Sets' BY SetsStep
<1> QED BY <1>1, <1>2 DEF TypeOK, Sets

-----------------------------------------------------------------------------
(* The parts of the invariant.                                             *)

\* Each completion finds the reducer waiting for it, so nothing is rejected.
LEMMA PhaseStep ==
  ASSUME TypeOK, InOrder, Phase, Runs, Presentation, [Next]_vars
  PROVE  Phase' /\ InOrder'
<1> USE DEF Phase, InOrder, Runs, LoopPCs, Presentation, Accepts, menuVars, pendVars, clockVars,
     touchVars, presVars, ctlVars, toneVars, iterVars, worldVars, Widget
<1>1. CASE Start \/ StartTouch \/ StartControls
  BY <1>1, SMTT(30) DEF Start, OpenPresentation, StartTouch, StartControls, Render
<1>2. CASE Begin \/ Reconnect \/ Scan \/ Poll
  BY <1>2, SMTT(30) DEF Begin, ReapSound, Reduced, Reconnect, Render, TouchLinkIs,
     AfterReconnect, Scan, Poll
<1>3. CASE Tick \/ Network \/ Lost
  BY <1>3, SMTT(30) DEF Tick, Reduced, WithoutPrompt, AfterTick, Network, Render, ClearPending,
     Detail, Lost, TouchLinkIs
<1>4. CASE Controls
  BY <1>4, SMTT(30) DEF Controls, Command, Navigate, Commands, KeyboardCommands, SettingsPlan,
     Detail, Reduced, Render, Cue, RequestGame, RequestLaunch, CancelReboot, WithoutPrompt,
     SetView
<1>5. CASE Touch
  BY <1>5, SMTT(30) DEF Touch, NoTap, Tap, TapTo, SettingsPlan, Detail, Reduced, Render, Cue,
     RequestGame, RequestLaunch, CancelReboot, WithoutPrompt, SetView
<1>6. CASE BatchDone \/ Settings \/ VolumeTone \/ Wifi
  BY <1>6, SMTT(30) DEF BatchDone, Settings, Reduced, Render, ClearPending, Detail, Cue,
     StopSound, Silence, VolumeTone, Wifi
<1>7. CASE Prepare \/ Launch \/ PollEvdev \/ ChildReturned
  BY <1>7, SMTT(30) DEF Prepare, Reduced, Render, Silence, Launch, PollEvdev, ChildReturned,
     ClearPending, Detail, Shutdown
<1>8. CASE Rescan \/ Open \/ Reload
  BY <1>8, SMTT(30) DEF Rescan, Reduced, Open, OpenPresentation, Reload, ClearPending, Detail,
     Render
<1>9. CASE Check \/ RuntimeError \/ Drop
  BY <1>9, SMTT(30) DEF Check, Shutdown, Silence, RuntimeError, Fallible, Drop
<1>10. CASE TimePasses \/ SoundEnds \/ Hotplug \/ Signal \/ Compositor
  BY <1>10, SMTT(30) DEF TimePasses, AtMost, SoundEnds, Hotplug, Signal, Compositor
<1>11. CASE UNCHANGED vars
  BY <1>11 DEF vars
<1> QED
  BY <1>1, <1>2, <1>3, <1>4, <1>5, <1>6, <1>7, <1>8, <1>9, <1>10, <1>11 DEF Next, Process,
     Iteration, World

\* What runs has rendered the screen it is on.
LEMMA RunsStep == ASSUME InOrder', Runs, [Next]_vars PROVE Runs'
<1> USE DEF Runs, LoopPCs, InOrder, menuVars, pendVars, clockVars, touchVars, presVars, ctlVars,
     toneVars, iterVars, worldVars, Widget
<1>1. CASE Start \/ StartTouch \/ StartControls
  BY <1>1, SMTT(30) DEF Start, OpenPresentation, StartTouch, StartControls, Render
<1>2. CASE Begin \/ Reconnect \/ Scan \/ Poll
  BY <1>2, SMTT(30) DEF Begin, ReapSound, Reduced, Reconnect, Render, TouchLinkIs,
     AfterReconnect, Scan, Poll
<1>3. CASE Tick \/ Network \/ Lost
  BY <1>3, SMTT(30) DEF Tick, Reduced, WithoutPrompt, AfterTick, Network, Render, ClearPending,
     Detail, Lost, TouchLinkIs
<1>4. CASE Controls
  BY <1>4, SMTT(30) DEF Controls, Command, Navigate, Commands, KeyboardCommands, SettingsPlan,
     Detail, Reduced, Render, Cue, RequestGame, RequestLaunch, CancelReboot, WithoutPrompt,
     SetView
<1>5. CASE Touch
  BY <1>5, SMTT(30) DEF Touch, NoTap, Tap, TapTo, SettingsPlan, Detail, Reduced, Render, Cue,
     RequestGame, RequestLaunch, CancelReboot, WithoutPrompt, SetView
<1>6. CASE BatchDone \/ Settings \/ VolumeTone \/ Wifi
  BY <1>6, SMTT(30) DEF BatchDone, Settings, Reduced, Render, ClearPending, Detail, Cue,
     StopSound, Silence, VolumeTone, Wifi
<1>7. CASE Prepare \/ Launch \/ PollEvdev \/ ChildReturned
  BY <1>7, SMTT(30) DEF Prepare, Reduced, Render, Silence, Launch, PollEvdev, ChildReturned,
     ClearPending, Detail, Shutdown
<1>8. CASE Rescan \/ Open \/ Reload
  BY <1>8, SMTT(30) DEF Rescan, Reduced, Open, OpenPresentation, Reload, ClearPending, Detail,
     Render
<1>9. CASE Check \/ RuntimeError \/ Drop
  BY <1>9, SMTT(30) DEF Check, Shutdown, Silence, RuntimeError, Fallible, Drop
<1>10. CASE TimePasses \/ SoundEnds \/ Hotplug \/ Signal \/ Compositor
  BY <1>10, SMTT(30) DEF TimePasses, AtMost, SoundEnds, Hotplug, Signal, Compositor
<1>11. CASE UNCHANGED vars
  BY <1>11 DEF vars
<1> QED
  BY <1>1, <1>2, <1>3, <1>4, <1>5, <1>6, <1>7, <1>8, <1>9, <1>10, <1>11 DEF Next, Process,
     Iteration, World

\* The backend, the devices behind it and their owner stay consistent.
LEMMA PresentationStep ==
  ASSUME TypeOK, Runs, Presentation, InOrder', [Next]_vars
  PROVE  Presentation'
<1> USE DEF Runs, LoopPCs, InOrder, Presentation, WidgetChild, TypeOK, Scalars, Live, menuVars,
     pendVars, clockVars, touchVars, presVars, ctlVars, toneVars, iterVars, worldVars, Widget
<1>1. CASE Start \/ StartTouch \/ StartControls
  BY <1>1, SMTT(30) DEF Start, OpenPresentation, StartTouch, StartControls, Render
<1>2. CASE Begin \/ Reconnect \/ Scan \/ Poll
  BY <1>2, SMTT(30) DEF Begin, ReapSound, Reduced, Reconnect, Render, TouchLinkIs,
     AfterReconnect, Scan, Poll
<1>3. CASE Tick \/ Network \/ Lost
  BY <1>3, SMTT(30) DEF Tick, Reduced, WithoutPrompt, AfterTick, Network, Render, ClearPending,
     Detail, Lost, TouchLinkIs
<1>4. CASE Controls
  BY <1>4, SMTT(30) DEF Controls, Command, Navigate, Commands, KeyboardCommands, SettingsPlan,
     Detail, Reduced, Render, Cue, RequestGame, RequestLaunch, CancelReboot, WithoutPrompt,
     SetView
<1>5. CASE Touch
  BY <1>5, SMTT(30) DEF Touch, NoTap, Tap, TapTo, SettingsPlan, Detail, Reduced, Render, Cue,
     RequestGame, RequestLaunch, CancelReboot, WithoutPrompt, SetView
<1>6. CASE BatchDone \/ Settings \/ VolumeTone \/ Wifi
  BY <1>6, SMTT(30) DEF BatchDone, Settings, Reduced, Render, ClearPending, Detail, Cue,
     StopSound, Silence, VolumeTone, Wifi
<1>7. CASE Prepare \/ Launch \/ PollEvdev \/ ChildReturned
  BY <1>7, SMTT(30) DEF Prepare, Reduced, Render, Silence, Launch, PollEvdev, ChildReturned,
     ClearPending, Detail, Shutdown
<1>8. CASE Rescan \/ Open \/ Reload
  BY <1>8, SMTT(30) DEF Rescan, Reduced, Open, OpenPresentation, Reload, ClearPending, Detail,
     Render
<1>9. CASE Check \/ RuntimeError \/ Drop
  BY <1>9, SMTT(30) DEF Check, Shutdown, Silence, RuntimeError, Fallible, Drop
<1>10. CASE TimePasses \/ SoundEnds \/ Hotplug \/ Signal \/ Compositor
  BY <1>10, SMTT(30) DEF TimePasses, AtMost, SoundEnds, Hotplug, Signal, Compositor
<1>11. CASE UNCHANGED vars
  BY <1>11 DEF vars
<1> QED
  BY <1>1, <1>2, <1>3, <1>4, <1>5, <1>6, <1>7, <1>8, <1>9, <1>10, <1>11 DEF Next, Process,
     Iteration, World

\* A child gets its devices, and an exit returns them.
LEMMA DevicesStep ==
  ASSUME TypeOK, Runs, Presentation, Devices, InOrder', [Next]_vars
  PROVE  Devices'
<1> USE DEF LoopPCs, InOrder, Presentation, Devices, Supervised, TypeOK, Scalars, Live,
     menuVars, pendVars, clockVars, touchVars, presVars, ctlVars, toneVars, iterVars, worldVars,
     Widget
<1>1. CASE Start \/ StartTouch \/ StartControls
  BY <1>1, SMTT(30) DEF Start, OpenPresentation, StartTouch, StartControls, Render
<1>2. CASE Begin \/ Reconnect \/ Scan \/ Poll
  BY <1>2, SMTT(30) DEF Begin, ReapSound, Reduced, Reconnect, Render, TouchLinkIs,
     AfterReconnect, Scan, Poll
<1>3. CASE Tick \/ Network \/ Lost
  BY <1>3, SMTT(30) DEF Tick, Reduced, WithoutPrompt, AfterTick, Network, Render, ClearPending,
     Detail, Lost, TouchLinkIs
<1>4. CASE Controls
  BY <1>4, SMTT(30) DEF Controls, Command, Navigate, Commands, KeyboardCommands, SettingsPlan,
     Detail, Reduced, Render, Cue, RequestGame, RequestLaunch, CancelReboot, WithoutPrompt,
     SetView
<1>5. CASE Touch
  BY <1>5, SMTT(30) DEF Touch, NoTap, Tap, TapTo, SettingsPlan, Detail, Reduced, Render, Cue,
     RequestGame, RequestLaunch, CancelReboot, WithoutPrompt, SetView
<1>6. CASE BatchDone \/ Settings \/ VolumeTone \/ Wifi
  BY <1>6, SMTT(30) DEF BatchDone, Settings, Reduced, Render, ClearPending, Detail, Cue,
     StopSound, Silence, VolumeTone, Wifi
<1>7. CASE Prepare \/ Launch \/ PollEvdev \/ ChildReturned
  BY <1>7, SMTT(30) DEF Prepare, Reduced, Render, Silence, Launch, PollEvdev, ChildReturned,
     ClearPending, Detail, Shutdown
<1>8. CASE Rescan \/ Open \/ Reload
  BY <1>8, SMTT(30) DEF Rescan, Reduced, Open, OpenPresentation, Reload, ClearPending, Detail,
     Render
<1>9. CASE Check \/ RuntimeError \/ Drop
  BY <1>9, SMTT(30) DEF Check, Shutdown, Silence, RuntimeError, Fallible, Drop
<1>10. CASE TimePasses \/ SoundEnds \/ Hotplug \/ Signal \/ Compositor
  BY <1>10, SMTT(30) DEF TimePasses, AtMost, SoundEnds, Hotplug, Signal, Compositor
<1>11. CASE UNCHANGED vars
  BY <1>11 DEF vars
<1> QED
  BY <1>1, <1>2, <1>3, <1>4, <1>5, <1>6, <1>7, <1>8, <1>9, <1>10, <1>11 DEF Next, Process,
     Iteration, World

\* A confirmation lives on the menu only and is not acted on once expired.
LEMMA WindowStep ==
  ASSUME DashboardAssumption, TypeOK, Window, InOrder', [Next]_vars
  PROVE  Window'
<1> USE DEF DashboardAssumption, Window, InOrder, TypeOK, Scalars, menuVars, pendVars,
     clockVars, touchVars, presVars, ctlVars, toneVars, iterVars, worldVars, Widget
<1>1. CASE Start \/ StartTouch \/ StartControls
  BY <1>1, SMTT(30) DEF Start, OpenPresentation, StartTouch, StartControls, Render
<1>2. CASE Begin \/ Reconnect \/ Scan \/ Poll
  BY <1>2, SMTT(30) DEF Begin, ReapSound, Reduced, Reconnect, Render, TouchLinkIs,
     AfterReconnect, Scan, Poll
<1>3. CASE Tick \/ Network \/ Lost
  BY <1>3, SMTT(30) DEF Tick, Reduced, WithoutPrompt, AfterTick, Network, Render, ClearPending,
     Detail, Lost, TouchLinkIs
<1>4. CASE Controls
  BY <1>4, SMTT(30) DEF Controls, Command, Navigate, Commands, KeyboardCommands, SettingsPlan,
     Detail, Reduced, Render, Cue, RequestGame, RequestLaunch, CancelReboot, WithoutPrompt,
     SetView
<1>5. CASE Touch
  BY <1>5, SMTT(30) DEF Touch, NoTap, Tap, TapTo, SettingsPlan, Detail, Reduced, Render, Cue,
     RequestGame, RequestLaunch, CancelReboot, WithoutPrompt, SetView
<1>6. CASE BatchDone \/ Settings \/ VolumeTone \/ Wifi
  BY <1>6, SMTT(30) DEF BatchDone, Settings, Reduced, Render, ClearPending, Detail, Cue,
     StopSound, Silence, VolumeTone, Wifi
<1>7. CASE Prepare \/ Launch \/ PollEvdev \/ ChildReturned
  BY <1>7, SMTT(30) DEF Prepare, Reduced, Render, Silence, Launch, PollEvdev, ChildReturned,
     ClearPending, Detail, Shutdown
<1>8. CASE Rescan \/ Open \/ Reload
  BY <1>8, SMTT(30) DEF Rescan, Reduced, Open, OpenPresentation, Reload, ClearPending, Detail,
     Render
<1>9. CASE Check \/ RuntimeError \/ Drop
  BY <1>9, SMTT(30) DEF Check, Shutdown, Silence, RuntimeError, Fallible, Drop
<1>10. CASE TimePasses \/ SoundEnds \/ Hotplug \/ Signal \/ Compositor
  BY <1>10, SMTT(30) DEF TimePasses, AtMost, SoundEnds, Hotplug, Signal, Compositor
<1>11. CASE UNCHANGED vars
  BY <1>11 DEF vars
<1> QED
  BY <1>1, <1>2, <1>3, <1>4, <1>5, <1>6, <1>7, <1>8, <1>9, <1>10, <1>11 DEF Next, Process,
     Iteration, World

-----------------------------------------------------------------------------
(* The invariant, and the properties it gives.                             *)

\* The program starts in the invariant.
LEMMA InitIInv == ASSUME DashboardAssumption, Init PROVE IInv
<1> USE DEF Init
<1>1. TypeOK
  <2>1. Scalars
    <3>1. /\ deadline \in 0..(RebootTicks + 1) /\ sinceScan \in 0..ScanTicks
          /\ sinceReconnect \in 0..ReconnectTicks /\ sinceNetwork \in 0..NetworkTicks
          /\ touchCount \in 0..MaxBatch
      BY DashboardAssumption DEF DashboardAssumption
    <3> QED BY <3>1, TargetsTyped DEF Scalars, PCs, Views, Pendings, Changes
  <2>2. owned \subseteq Flags /\ quarantine \subseteq Sounds /\ noted \subseteq Notes
    OBVIOUS
  <2> QED BY <2>1, <2>2 DEF TypeOK
<1>2. InOrder /\ Phase /\ Runs /\ Presentation /\ Devices /\ Window
  BY DEF InOrder, Phase, Runs, LoopPCs, Presentation, Devices, Window
<1> QED BY <1>1, <1>2 DEF IInv

\* Each step keeps it: the parts lean on one another through InOrder.
LEMMA NextIInv == ASSUME DashboardAssumption, IInv, [Next]_vars PROVE IInv'
<1>1. TypeOK' BY TypeStep DEF IInv
<1>2. Phase' /\ InOrder' BY PhaseStep DEF IInv
<1>3. Runs' BY <1>2, RunsStep DEF IInv
<1>4. Presentation' BY <1>2, PresentationStep DEF IInv
<1>5. Devices' BY <1>2, DevicesStep DEF IInv
<1>6. Window' BY <1>2, WindowStep DEF IInv
<1> QED BY <1>1, <1>2, <1>3, <1>4, <1>5, <1>6 DEF IInv

\* The inductive invariant holds in every reachable state.
THEOREM Invariance == Spec => []IInv
<1>1. Init => IInv BY InitIInv, DashboardAssumption
<1>2. IInv /\ [Next]_vars => IInv' BY NextIInv, DashboardAssumption
<1> QED BY <1>1, <1>2, PTL DEF Spec

\* Every variable keeps its type.
THEOREM TypeCorrect == Spec => []TypeOK
<1>1. IInv => TypeOK BY DEF IInv
<1> QED BY <1>1, Invariance, PTL

\* The reducer never rejects an event: no sequence of taps, presses, losses
\* and signals makes a completion arrive out of order.
THEOREM NeverRejected == Spec => []InOrder
<1>1. IInv => InOrder BY DEF IInv
<1> QED BY <1>1, Invariance, PTL

\* A reboot confirmation is confined to the menu and to its window.
THEOREM ConfirmationConfined == Spec => []ArmedOnMenu
<1>1. IInv => ArmedOnMenu
  BY DEF IInv, TypeOK, Scalars, Window, ArmedOnMenu, DashboardAssumption
<1> QED BY <1>1, Invariance, PTL

\* A running child has the devices it needs to itself.
THEOREM ChildIsGivenDevices == Spec => []ChildHasDevices
<1>1. IInv => ChildHasDevices
  BY DEF IInv, TypeOK, Scalars, Presentation, Devices, ChildHasDevices, WidgetChild, Widget
<1> QED BY <1>1, Invariance, PTL

\* The loop always has an open backend to present to.
THEOREM AlwaysPresentable == Spec => []Presentable
<1>1. IInv => Presentable
  BY DEF IInv, TypeOK, Scalars, PCs, Runs, LoopPCs, Presentation, Presentable
<1> QED BY <1>1, Invariance, PTL

\* No tone worker outlives the runtime's knowledge of it, and nothing the
\* dashboard opened for itself outlives the dashboard.
THEOREM NothingLeft == Spec => [](ToneOwned /\ NothingLeaks)
<1>1. IInv => ToneOwned /\ NothingLeaks
  BY DEF IInv, TypeOK, Scalars, Presentation, Devices, ToneOwned, NothingLeaks
<1> QED BY <1>1, Invariance, PTL

\* A controller's launch survives the touches of its batch.
LEMMA LaunchStep ==
  ASSUME Phase, [Next]_vars, pending = "Launch", origin = "Controls"
  PROVE  pending' \in {"Launch", "Child"} /\ (game' = game)
<1> USE DEF Phase, menuVars, pendVars, clockVars, touchVars, presVars, ctlVars, toneVars,
     iterVars, worldVars, Widget
<1>1. CASE Start \/ StartTouch \/ StartControls
  BY <1>1, SMTT(30) DEF Start, OpenPresentation, StartTouch, StartControls, Render
<1>2. CASE Begin \/ Reconnect \/ Scan \/ Poll
  BY <1>2, SMTT(30) DEF Begin, ReapSound, Reduced, Reconnect, Render, TouchLinkIs,
     AfterReconnect, Scan, Poll
<1>3. CASE Tick \/ Network \/ Lost
  BY <1>3, SMTT(30) DEF Tick, Reduced, WithoutPrompt, AfterTick, Network, Render, ClearPending,
     Detail, Lost, TouchLinkIs
<1>4. CASE Controls
  BY <1>4, SMTT(30) DEF Controls, Command, Navigate, Commands, KeyboardCommands, SettingsPlan,
     Detail, Reduced, Render, Cue, RequestGame, RequestLaunch, CancelReboot, WithoutPrompt,
     SetView
<1>5. CASE Touch
  BY <1>5, SMTT(30) DEF Touch, NoTap, Tap, TapTo, SettingsPlan, Detail, Reduced, Render, Cue,
     RequestGame, RequestLaunch, CancelReboot, WithoutPrompt, SetView
<1>6. CASE BatchDone \/ Settings \/ VolumeTone \/ Wifi
  BY <1>6, SMTT(30) DEF BatchDone, Settings, Reduced, Render, ClearPending, Detail, Cue,
     StopSound, Silence, VolumeTone, Wifi
<1>7. CASE Prepare \/ Launch \/ PollEvdev \/ ChildReturned
  BY <1>7, SMTT(30) DEF Prepare, Reduced, Render, Silence, Launch, PollEvdev, ChildReturned,
     ClearPending, Detail, Shutdown
<1>8. CASE Rescan \/ Open \/ Reload
  BY <1>8, SMTT(30) DEF Rescan, Reduced, Open, OpenPresentation, Reload, ClearPending, Detail,
     Render
<1>9. CASE Check \/ RuntimeError \/ Drop
  BY <1>9, SMTT(30) DEF Check, Shutdown, Silence, RuntimeError, Fallible, Drop
<1>10. CASE TimePasses \/ SoundEnds \/ Hotplug \/ Signal \/ Compositor
  BY <1>10, SMTT(30) DEF TimePasses, AtMost, SoundEnds, Hotplug, Signal, Compositor
<1>11. CASE UNCHANGED vars
  BY <1>11 DEF vars
<1> QED
  BY <1>1, <1>2, <1>3, <1>4, <1>5, <1>6, <1>7, <1>8, <1>9, <1>10, <1>11 DEF Next, Process,
     Iteration, World

\* What a controller or keyboard launches is what is started: the touches of
\* the same poll neither replace nor drop it.
THEOREM ControllerLaunches == Spec => ControllerLaunchKept
<1>1. IInv /\ [Next]_vars =>
        [pending = "Launch" /\ origin = "Controls"
           => pending' \in {"Launch", "Child"} /\ (game' = game)]_vars
  BY LaunchStep DEF IInv
<1>2. IInv' => pc' # "Rejected"
  BY DEF IInv, InOrder
<1>3. IInv /\ IInv' /\ [Next]_vars =>
        [pending = "Launch" /\ origin = "Controls"
           => pending' \in {"Launch", "Child"} /\ (game' = game) /\ (pc' # "Rejected")]_vars
  BY <1>1, <1>2
<1> QED BY <1>3, Invariance, PTL DEF Spec, ControllerLaunchKept

-----------------------------------------------------------------------------
(* What the events of a device tell its reader.                            *)

(* The events of a device. *)
EventsOf(d) ==
  {Dropped, Report} \cup
  {e \in {Press(b, v, s) : b \in Buttons(d), v \in {"Down", "Up", "Repeat"}, s \in BOOLEAN} :
     e.value = "Repeat" => e.code \in {Arrow, Letter}}

(* The buttons a reader keeps track of: of a keyboard it is Shift.  What it has
   reported of them is known of the others only. *)
Mask(d) == IF d \in Keyboards THEN {Shift} ELSE Buttons(d)
ToldOf(d, h) == IF d \in Keyboards THEN {} ELSE h

(* A key event fits what went before: a button goes down that was up, the packet
   before it is complete, and the key says whether Shift is held. *)
Fits(d, x, e) ==
  /\ e.shifted <=> Shift \in x.held
  /\ (e.code \in Mask(d) /\ e.value = "Down") => e.code \notin x.held
  /\ x.reported = ToldOf(d, x.held)

(* A reader's track of the events: the buttons that are held after them and those
   that have been reported, whether no event tells of a loss, and whether each fits,
   up to a loss. *)
Heeded(d, x, e) ==
  IF e = Dropped THEN [x EXCEPT !.whole = FALSE]
  ELSE IF ~IsKey(e) THEN [x EXCEPT !.reported = ToldOf(d, x.held)]
  ELSE [held     |-> IF e.code \in Mask(d) THEN Level(x.held, e) ELSE x.held,
        reported |-> x.reported,
        whole    |-> x.whole,
        fits     |-> x.fits /\ (x.whole => Fits(d, x, e))]

(* Following the events of a device is a fold. *)
T == INSTANCE FoldTheorems WITH op <- Heeded
From(x, r) == [held |-> x, reported |-> r, whole |-> TRUE, fits |-> TRUE]
Track(d, x, s) == T!Fold(d, x, s)
Tracks(d) == [held : SUBSET Mask(d), reported : SUBSET Mask(d), whole : BOOLEAN, fits : BOOLEAN]

(* Only key events carry a button. *)
LEMMA EventKinds ==
  ASSUME NEW d
  PROVE  /\ Dropped \in EventsOf(d) /\ Report \in EventsOf(d) /\ Dropped # Report
         /\ ~IsKey(Dropped) /\ ~IsKey(Report)
         /\ \A e \in EventsOf(d) :
              IsKey(e) => /\ e.code \in Buttons(d) /\ e.value \in {"Down", "Up", "Repeat"} /\ e.shifted \in BOOLEAN
                          /\ e.value = "Repeat" => e.code \in {Arrow, Letter}
         /\ \A e \in EventsOf(d) : ~IsKey(e) => e = Dropped \/ e = Report
         /\ \A b \in Buttons(d), v \in {"Down", "Up", "Repeat"}, s \in BOOLEAN :
              (v = "Repeat" => b \in {Arrow, Letter}) => Press(b, v, s) \in EventsOf(d)
         /\ \A b, v, s : /\ IsKey(Press(b, v, s)) /\ Press(b, v, s) # Dropped /\ Press(b, v, s) # Report
                         /\ Press(b, v, s).code = b /\ Press(b, v, s).value = v /\ Press(b, v, s).shifted = s
<1>1. Dropped.type = "SYN_DROPPED" /\ Report.type = "SYN_REPORT"
  BY DEF Dropped, Report
<1>2. ~IsKey(Dropped) /\ ~IsKey(Report) /\ Dropped # Report
  BY <1>1 DEF IsKey
<1>3. \A b, v, s : /\ IsKey(Press(b, v, s)) /\ Press(b, v, s).code = b /\ Press(b, v, s).value = v
                   /\ Press(b, v, s).shifted = s
  BY DEF IsKey, Press
<1>4. ASSUME NEW e \in EventsOf(d)
      PROVE  \/ e = Dropped \/ e = Report
             \/ /\ \E b \in Buttons(d), v \in {"Down", "Up", "Repeat"}, s \in BOOLEAN : e = Press(b, v, s)
                /\ e.value = "Repeat" => e.code \in {Arrow, Letter}
  BY DEF EventsOf
<1>5. ASSUME NEW e \in EventsOf(d)
      PROVE  /\ IsKey(e) => /\ e.code \in Buttons(d) /\ e.value \in {"Down", "Up", "Repeat"} /\ e.shifted \in BOOLEAN
                            /\ e.value = "Repeat" => e.code \in {Arrow, Letter}
             /\ ~IsKey(e) => e = Dropped \/ e = Report
  BY <1>2, <1>3, <1>4
<1>6. Dropped \in EventsOf(d) /\ Report \in EventsOf(d)
  BY DEF EventsOf
<1>7. ASSUME NEW b \in Buttons(d), NEW v \in {"Down", "Up", "Repeat"}, NEW s \in BOOLEAN,
             v = "Repeat" => b \in {Arrow, Letter}
      PROVE  Press(b, v, s) \in EventsOf(d)
  BY <1>3, <1>7 DEF EventsOf
<1> QED BY <1>2, <1>3, <1>5, <1>6, <1>7

(* A track stays one, and what was lost or did not fit is not mended. *)
LEMMA HeededFacts ==
  ASSUME NEW d, NEW x \in Tracks(d), NEW e
  PROVE  /\ Heeded(d, x, e) \in Tracks(d)
         /\ Heeded(d, x, e).whole <=> (x.whole /\ e # Dropped)
         /\ Heeded(d, x, e).fits => x.fits
         /\ Heeded(d, x, e).held = IF e # Dropped /\ IsKey(e) /\ e.code \in Mask(d) THEN Level(x.held, e) ELSE x.held
         /\ Heeded(d, x, e).reported = IF e # Dropped /\ ~IsKey(e) THEN ToldOf(d, x.held) ELSE x.reported
         /\ (e # Dropped /\ IsKey(e)) => (Heeded(d, x, e).fits <=> x.fits /\ (x.whole => Fits(d, x, e)))
         /\ (e = Dropped \/ ~IsKey(e)) => (Heeded(d, x, e).fits <=> x.fits)
<1>1. x.held \in SUBSET Mask(d) /\ x.reported \in SUBSET Mask(d) /\ x.whole \in BOOLEAN /\ x.fits \in BOOLEAN
  BY DEF Tracks
<1>2. CASE e = Dropped
  <2>1. Heeded(d, x, e) = [x EXCEPT !.whole = FALSE]
    BY <1>2 DEF Heeded
  <2> QED BY <1>1, <1>2, <2>1 DEF Tracks
<1>3. CASE e # Dropped /\ ~IsKey(e)
  <2>1. Heeded(d, x, e) = [x EXCEPT !.reported = ToldOf(d, x.held)]
    BY <1>3 DEF Heeded
  <2>2. ToldOf(d, x.held) \in SUBSET Mask(d)
    BY <1>1 DEF ToldOf
  <2> QED BY <1>1, <1>3, <2>1, <2>2 DEF Tracks
<1>4. CASE e # Dropped /\ IsKey(e)
  <2> DEFINE h == IF e.code \in Mask(d) THEN Level(x.held, e) ELSE x.held
             ok == x.fits /\ (x.whole => Fits(d, x, e))
             r == [held |-> h, reported |-> x.reported, whole |-> x.whole, fits |-> ok]
  <2>1. Heeded(d, x, e) = r
    BY <1>4 DEF Heeded
  <2>2. h \in SUBSET Mask(d)
    BY <1>1 DEF Level
  <2>3. ok \in BOOLEAN
    OBVIOUS
  <2>4. r \in Tracks(d) /\ r.held = h /\ r.reported = x.reported /\ r.whole = x.whole /\ r.fits = ok
    <3> HIDE DEF h, ok
    <3> QED BY <1>1, <2>2, <2>3 DEF Tracks
  <2> QED BY <1>4, <2>1, <2>4
<1> QED BY <1>2, <1>3, <1>4

(* A key event moves a button. *)
LEMMA HeededKey ==
  ASSUME NEW d, NEW x \in Tracks(d), NEW e, IsKey(e), e # Dropped, NEW y, y = Heeded(d, x, e)
  PROVE  /\ y \in Tracks(d) /\ (y.whole <=> x.whole) /\ y.reported = x.reported
         /\ y.fits <=> (x.fits /\ (x.whole => Fits(d, x, e)))
         /\ y.held = IF e.code \in Mask(d) THEN Level(x.held, e) ELSE x.held
<1>1. y \in Tracks(d) /\ x.whole \in BOOLEAN /\ x.fits \in BOOLEAN
  BY HeededFacts DEF Tracks
<1> DEFINE h == IF e.code \in Mask(d) THEN Level(x.held, e) ELSE x.held
           ok == x.fits /\ (x.whole => Fits(d, x, e))
<1>2. y = [held |-> h, reported |-> x.reported, whole |-> x.whole, fits |-> ok]
  BY DEF Heeded
<1>3. y.held = h /\ y.reported = x.reported /\ y.whole = x.whole /\ y.fits = ok
  <2> HIDE DEF h, ok
  <2> QED BY <1>2
<1> QED BY <1>1, <1>3

(* A report completes a packet. *)
LEMMA HeededReport ==
  ASSUME NEW d, NEW x \in Tracks(d), NEW y, y = Heeded(d, x, Report)
  PROVE  /\ y \in Tracks(d) /\ (y.whole <=> x.whole) /\ y.held = x.held /\ y.reported = ToldOf(d, x.held)
         /\ y.fits <=> x.fits
<1>1. y \in Tracks(d) /\ x.whole \in BOOLEAN /\ x.fits \in BOOLEAN
  BY HeededFacts DEF Tracks
<1>2. y = [x EXCEPT !.reported = ToldOf(d, x.held)]
  BY EventKinds DEF Heeded
<1> QED BY <1>1, <1>2 DEF Tracks

(* A reader starts with what it knows. *)
LEMMA FromFacts ==
  ASSUME NEW d, NEW x \in SUBSET Mask(d), NEW y \in SUBSET Mask(d)
  PROVE  From(x, y) \in Tracks(d) /\ From(x, y).held = x /\ From(x, y).reported = y /\ From(x, y).whole
         /\ From(x, y).fits
BY DEF From, Tracks

(* A track follows the events one by one, or in two parts, and is never mended. *)
LEMMA TrackFacts ==
  ASSUME NEW d, NEW x \in Tracks(d)
  PROVE  /\ Track(d, x, <<>>) = x
         /\ \A s \in Seq(EventsOf(d)), e \in EventsOf(d) : Track(d, x, Append(s, e)) = Heeded(d, Track(d, x, s), e)
         /\ \A s, t \in Seq(EventsOf(d)) : Track(d, x, s \o t) = Track(d, Track(d, x, s), t)
         /\ \A s \in Seq(EventsOf(d)) : /\ Track(d, x, s) \in Tracks(d)
                                        /\ Track(d, x, s).whole => x.whole
                                        /\ Track(d, x, s).fits => x.fits
<1>1. Track(d, x, <<>>) = x
  BY T!FoldEmpty DEF Track
<1>2. \A s \in Seq(EventsOf(d)), e \in EventsOf(d) : Track(d, x, Append(s, e)) = Heeded(d, Track(d, x, s), e)
  BY T!FoldAppend DEF Track
<1>3. \A s, t \in Seq(EventsOf(d)) : Track(d, x, s \o t) = Track(d, Track(d, x, s), t)
  BY T!FoldConcat DEF Track
<1>4. \A s \in Seq(EventsOf(d)) : /\ Track(d, x, s) \in Tracks(d)
                                  /\ Track(d, x, s).whole => x.whole
                                  /\ Track(d, x, s).fits => x.fits
  <2> DEFINE R == {y \in Tracks(d) : (y.whole => x.whole) /\ (y.fits => x.fits)}
  <2>1. x \in R
    OBVIOUS
  <2>2. ASSUME NEW y \in R, NEW e \in EventsOf(d) PROVE Heeded(d, y, e) \in R
    BY HeededFacts
  <2> HIDE DEF R
  <2>3. \A s \in Seq(EventsOf(d)) : T!Fold(d, x, s) \in R
    BY <2>1, <2>2, T!FoldKeeps
  <2> QED BY <2>3 DEF Track, R
<1> QED BY <1>1, <1>2, <1>3, <1>4

(* What is still to be read of a device agrees with it: every event fits, and
   without a loss the events lead to what is held, and it is reported. *)
Agrees(d, x, z, s, h) ==
  /\ Track(d, From(x, z), s).fits
  /\ Track(d, From(x, z), s).whole =>
       Track(d, From(x, z), s).held = h /\ Track(d, From(x, z), s).reported = ToldOf(d, h)

(* A device that was just opened agrees. *)
LEMMA AgreesFresh == ASSUME NEW d, NEW h \in SUBSET Mask(d) PROVE Agrees(d, h, ToldOf(d, h), <<>>, h)
<1>0. ToldOf(d, h) \in SUBSET Mask(d)
  BY DEF ToldOf
<1> DEFINE y == From(h, ToldOf(d, h))
<1>1. y \in Tracks(d) /\ y.held = h /\ y.reported = ToldOf(d, h) /\ y.fits
  BY <1>0, FromFacts
<1>2. Track(d, y, <<>>) = y
  BY <1>1, TrackFacts
<1> QED BY <1>1, <1>2 DEF Agrees

(* An item that is added to the second of two runs is the last of both. *)
LEMMA JoinedLast ==
  ASSUME NEW Q, NEW s \in Seq(Q), NEW t \in Seq(Q), NEW e \in Q
  PROVE  s \o Append(t, e) = Append(s \o t, e) /\ Append(t, e) \in Seq(Q) /\ s \o t \in Seq(Q)
OBVIOUS

(* A packet is posted: the event is queued, or everything queued is lost. *)
LEMMA AgreesPosted ==
  ASSUME NEW d, NEW x \in SUBSET Mask(d), NEW z \in SUBSET Mask(d), NEW b \in Seq(EventsOf(d)),
         NEW q \in Seq(EventsOf(d)),
         NEW h, Agrees(d, x, z, b \o q, h), NEW e \in EventsOf(d), IsKey(e),
         e.shifted <=> Shift \in h, (e.code \in Mask(d) /\ e.value = "Down") => e.code \notin h,
         NEW n, n = IF e.code \in Mask(d) THEN Level(h, e) ELSE h,
         NEW r, r = Post(q, <<e, Report>>, Capacity)
  PROVE  r \in Seq(EventsOf(d)) /\ Agrees(d, x, z, b \o r, n)
<1> DEFINE p == b \o q
           y == From(x, z)
<1>0. y \in Tracks(d) /\ p \in Seq(EventsOf(d))
  BY FromFacts
<1>a. Report \in EventsOf(d) /\ Dropped \in EventsOf(d) /\ ~IsKey(Report) /\ e # Dropped /\ Report # Dropped
  BY EventKinds
<1> HIDE DEF y
<1>1. CASE r = q \o <<e, Report>>
  <2> DEFINE s == Append(p, e)
  <2>1. b \o r = Append(s, Report) /\ s \in Seq(EventsOf(d)) /\ r \in Seq(EventsOf(d))
    <3> DEFINE E == EventsOf(d)
               f == Append(q, e)
    <3> HIDE DEF E
    <3>1. q \o <<e, Report>> = Append(f, Report)
      OBVIOUS
    <3>2. f \in Seq(E) /\ b \o f = Append(b \o q, e) /\ b \o q \in Seq(E)
      BY JoinedLast DEF E
    <3> HIDE DEF f
    <3>3. b \o Append(f, Report) = Append(b \o f, Report) /\ Append(f, Report) \in Seq(E)
      BY <1>a, <3>2, JoinedLast DEF E
    <3>4. s \in Seq(E)
      BY <3>2 DEF E
    <3> QED BY <1>1, <3>1, <3>2, <3>3, <3>4 DEF E
  <2>2. Track(d, y, p) \in Tracks(d) /\ Track(d, y, s) = Heeded(d, Track(d, y, p), e)
    <3> HIDE DEF p
    <3> QED BY <1>0, TrackFacts
  <2> HIDE DEF p, s
  <2>3. Track(d, y, s) \in Tracks(d) /\ Track(d, y, Append(s, Report)) = Heeded(d, Track(d, y, s), Report)
    BY <1>0, <1>a, <2>1, TrackFacts
  <2> DEFINE t == Track(d, y, p)
             u == Track(d, y, s)
             v == Track(d, y, Append(s, Report))
  <2>4. t.fits /\ (t.whole => t.held = h /\ t.reported = ToldOf(d, h))
    BY DEF Agrees, p, y
  <2> HIDE DEF t, u, v
  <2>5. /\ u.whole <=> t.whole
        /\ u.fits <=> (t.fits /\ (t.whole => Fits(d, t, e)))
        /\ u.held = IF e.code \in Mask(d) THEN Level(t.held, e) ELSE t.held
    <3>1. t \in Tracks(d) /\ u = Heeded(d, t, e) /\ e # Dropped /\ IsKey(e)
      BY <1>a, <2>2 DEF t, u
    <3> QED BY ONLY <3>1, HeededKey
  <2>6. (v.whole <=> u.whole) /\ (v.fits <=> u.fits) /\ v.held = u.held /\ v.reported = ToldOf(d, u.held)
    <3>1. u \in Tracks(d) /\ v = Heeded(d, u, Report) /\ Report # Dropped /\ ~IsKey(Report)
      BY <1>a, <2>3 DEF v, u
    <3> QED BY ONLY <3>1, HeededReport
  <2>8. t.whole => Fits(d, t, e)
    BY <2>4 DEF Fits
  <2>7. v.fits /\ (v.whole => v.held = n /\ v.reported = ToldOf(d, n))
    BY <2>4, <2>5, <2>6, <2>8
  <2> QED BY <2>1, <2>7 DEF v, y, Agrees
<1>2. CASE r = <<Dropped, Report>>
  <2> DEFINE s == Append(b, Dropped)
  <2>1. b \o r = Append(s, Report) /\ s \in Seq(EventsOf(d)) /\ r \in Seq(EventsOf(d))
    <3> DEFINE E == EventsOf(d)
               f == Append(<<>>, Dropped)
    <3> HIDE DEF E
    <3>0. Dropped \in E /\ Report \in E /\ b \in Seq(E) /\ <<>> \in Seq(E)
      BY <1>a DEF E
    <3>1. r = Append(f, Report)
      <4>1. <<Dropped, Report>> = Append(Append(<<>>, Dropped), Report)
        OBVIOUS
      <4> QED BY ONLY <1>2, <4>1 DEF f
    <3>2. f \in Seq(E) /\ b \o f = Append(b \o <<>>, Dropped) /\ b \o <<>> = b
      BY <3>0, JoinedLast
    <3> HIDE DEF f
    <3>3. b \o Append(f, Report) = Append(b \o f, Report) /\ Append(f, Report) \in Seq(E)
      BY <3>0, <3>2, JoinedLast
    <3>4. s \in Seq(E)
      BY <3>0
    <3> QED BY <3>1, <3>2, <3>3, <3>4 DEF E
  <2>2. Track(d, y, b) \in Tracks(d) /\ Track(d, y, s) = Heeded(d, Track(d, y, b), Dropped)
    BY <1>0, <1>a, TrackFacts
  <2>3. Track(d, y, p) = Track(d, Track(d, y, b), q)
    BY <1>0, TrackFacts
  <2>4. Track(d, y, p).fits => Track(d, y, b).fits
    <3> HIDE DEF p
    <3> QED BY <2>2, <2>3, TrackFacts
  <2>5. Track(d, y, p).fits
    BY DEF Agrees, y
  <2> HIDE DEF s
  <2>6. Track(d, y, s).fits /\ ~Track(d, y, s).whole /\ Track(d, y, s) \in Tracks(d)
    <3>1. Track(d, y, b) \in Tracks(d) /\ Track(d, y, s) = Heeded(d, Track(d, y, b), Dropped)
          /\ Track(d, y, b).fits
      BY <2>2, <2>4, <2>5
    <3> DEFINE t == Track(d, y, b)
               u == Track(d, y, s)
    <3>3. t \in Tracks(d) /\ u = Heeded(d, t, Dropped) /\ t.fits
      BY <3>1
    <3> HIDE DEF t, u
    <3>2. u.fits /\ ~u.whole /\ u \in Tracks(d)
      BY ONLY <3>3, HeededFacts
    <3> QED BY <3>2 DEF u
  <2>7. Track(d, y, Append(s, Report)).fits /\ ~Track(d, y, Append(s, Report)).whole
    <3>1. Track(d, y, Append(s, Report)) = Heeded(d, Track(d, y, s), Report)
      BY <1>0, <1>a, <2>1, TrackFacts
    <3> DEFINE t == Track(d, y, s)
               u == Track(d, y, Append(s, Report))
    <3>2. t \in Tracks(d) /\ t.fits /\ ~t.whole /\ u = Heeded(d, t, Report)
      BY <2>6, <3>1
    <3> HIDE DEF t, u
    <3>3. u.fits /\ ~u.whole
      BY ONLY <3>2, HeededReport
    <3> QED BY <3>3 DEF u
  <2> QED BY <2>1, <2>6, <2>7 DEF y, Agrees
<1>3. r = q \o <<e, Report>> \/ r = <<Dropped, Report>>
  BY DEF Post
<1> QED BY <1>1, <1>2, <1>3

(* When the first part of the events is read without a loss, the rest agrees
   with what the reader has made of it. *)
LEMMA AgreesRead ==
  ASSUME NEW d, NEW x \in SUBSET Mask(d), NEW z \in SUBSET Mask(d), NEW b \in Seq(EventsOf(d)),
         NEW q \in Seq(EventsOf(d)),
         NEW h, Agrees(d, x, z, b \o q, h)
  PROVE  /\ Track(d, From(x, z), b).fits
         /\ Track(d, From(x, z), b).whole => Agrees(d, Track(d, From(x, z), b).held, Track(d, From(x, z), b).reported, q, h)
<1> DEFINE t == Track(d, From(x, z), b)
<1>1. t \in Tracks(d) /\ Track(d, From(x, z), b \o q) = Track(d, t, q)
  BY FromFacts, TrackFacts
<1>2. Track(d, t, q).fits => t.fits
  BY <1>1, TrackFacts
<1>3. t.fits
  BY <1>1, <1>2 DEF Agrees
<1>4. ASSUME t.whole PROVE From(t.held, t.reported) = t
  <2>1. t = [held |-> t.held, reported |-> t.reported, whole |-> t.whole, fits |-> t.fits]
    BY <1>1 DEF Tracks
  <2>2. t.whole = TRUE /\ t.fits = TRUE
    BY <1>1, <1>3, <1>4 DEF Tracks
  <2> QED BY <2>1, <2>2 DEF From
<1> HIDE DEF t
<1>5. ASSUME t.whole PROVE Agrees(d, t.held, t.reported, q, h)
  <2>1. From(t.held, t.reported) = t
    BY <1>4, <1>5
  <2> QED BY <1>1, <2>1 DEF Agrees
<1> QED BY <1>3, <1>5 DEF t

(* Of a part of the events each fits if it does in all. *)
LEMMA FitsFirst ==
  ASSUME NEW d, NEW x \in SUBSET Mask(d), NEW z \in SUBSET Mask(d), NEW b \in Seq(EventsOf(d)),
         NEW q \in Seq(EventsOf(d)),
         Track(d, From(x, z), b \o q).fits
  PROVE  Track(d, From(x, z), b).fits
<1> DEFINE t == Track(d, From(x, z), b)
<1>0. From(x, z) \in Tracks(d)
  BY FromFacts
<1>1. t \in Tracks(d) /\ Track(d, From(x, z), b \o q) = Track(d, t, q)
  BY <1>0, TrackFacts
<1>2. Track(d, t, q).fits => t.fits
  BY <1>1, TrackFacts
<1> QED BY <1>1, <1>2

-----------------------------------------------------------------------------
(* Queues and batches.                                                     *)

(* A queue ends with a whole packet, and tells of a loss at its beginning only. *)
Ends(s) == s # <<>> => s[Len(s)] = Report
LossFirst(s) == \A i \in 1..Len(s) : s[i] = Dropped => i = 1

(* The last item counts as the others do. *)
LEMMA OneMore ==
  ASSUME NEW Q, NEW s \in Seq(Q), NEW e \in Q
  PROVE  /\ Append(s, e) \in Seq(Q) /\ Append(s, e) # <<>> /\ Append(s, e)[Len(Append(s, e))] = e
         /\ Len(Append(s, e)) = Len(s) + 1 /\ Len(s) \in Nat
         /\ LossFirst(Append(s, e)) <=> (LossFirst(s) /\ (e = Dropped => s = <<>>))
<1> DEFINE t == Append(s, e)
           n == Len(s)
<1>1. n \in Nat /\ Len(t) = n + 1 /\ t[n + 1] = e /\ (\A i \in 1..n : t[i] = s[i]) /\ t \in Seq(Q) /\ t # <<>>
  OBVIOUS
<1>2. n = 0 <=> s = <<>>
  OBVIOUS
<1> HIDE DEF t, n
<1>3. 1..(n + 1) = (1..n) \cup {n + 1}
  BY <1>1
<1>4. n + 1 = 1 <=> n = 0
  BY <1>1
<1>5. LossFirst(t) <=> (\A i \in 1..n : s[i] = Dropped => i = 1) /\ (e = Dropped => n = 0)
  BY <1>1, <1>3, <1>4 DEF LossFirst
<1> QED BY <1>1, <1>2, <1>5 DEF LossFirst, t, n

(* A sequence is read in two parts. *)
LEMMA Divided ==
  ASSUME NEW Q, NEW q \in Seq(Q), NEW k \in 0..Len(q)
  PROVE  /\ SubSeq(q, 1, k) \in Seq(Q) /\ SubSeq(q, k + 1, Len(q)) \in Seq(Q)
         /\ Len(SubSeq(q, 1, k)) = k /\ Len(SubSeq(q, k + 1, Len(q))) = Len(q) - k
         /\ \A i \in 1..k : SubSeq(q, 1, k)[i] = q[i]
         /\ \A i \in 1..(Len(q) - k) : SubSeq(q, k + 1, Len(q))[i] = q[k + i]
         /\ q = SubSeq(q, 1, k) \o SubSeq(q, k + 1, Len(q))
<1> DEFINE a == SubSeq(q, 1, k)
           c == SubSeq(q, k + 1, Len(q))
           n == Len(q)
<1>1. n \in Nat /\ k \in Nat /\ k <= n
  OBVIOUS
<1>2. a \in Seq(Q) /\ Len(a) = k /\ \A i \in 1..k : a[i] = q[i]
  BY <1>1
<1>3. c \in Seq(Q) /\ Len(c) = n - k /\ \A i \in 1..(n - k) : c[i] = q[k + i]
  BY <1>1
<1> HIDE DEF a, c
<1> DEFINE s == a \o c
<1>4. /\ s \in Seq(Q) /\ Len(s) = k + (n - k)
      /\ \A i \in 1..k : s[i] = a[i]
      /\ \A i \in 1..(n - k) : s[k + i] = c[i]
  BY <1>1, <1>2, <1>3
<1> HIDE DEF s
<1>5. ASSUME NEW i \in 1..n PROVE s[i] = q[i]
  <2>1. CASE i \in 1..k
    BY <2>1, <1>2, <1>4
  <2>2. CASE i \notin 1..k
    <3>1. i - k \in 1..(n - k) /\ k + (i - k) = i
      BY <1>1, <2>2
    <3> QED BY <3>1, <1>3, <1>4
  <2> QED BY <2>1, <2>2
<1>6. Len(s) = n
  BY <1>1, <1>4
<1> HIDE DEF n
<1>7. s = q
  BY <1>4, <1>5, <1>6 DEF n
<1> QED BY <1>2, <1>3, <1>7 DEF a, c, s, n

(* A read takes the first part b of a queue q, and leaves the rest r. *)
FirstOf(d, q, b, r) ==
  /\ b \in Seq(EventsOf(d)) /\ r \in Seq(EventsOf(d)) /\ b # <<>> /\ q = b \o r
  /\ LossFirst(b) /\ LossFirst(r) /\ Len(r) <= Len(q)
  /\ Ends(q) => (Ends(r) /\ (r = <<>> => Ends(b)))
(* Reading does that. *)
LEMMA Taken ==
  ASSUME NEW d, NEW q \in Seq(EventsOf(d)), q # <<>>, LossFirst(q), NEW size \in Nat, size # 0,
         NEW b, b = FirstBatch(q, size), NEW r, r = Rest(q, b)
  PROVE  FirstOf(d, q, b, r)
<1> DEFINE n == Len(q)
           k == IF n < size THEN n ELSE size
<1>0. n \in Nat /\ n # 0 /\ k \in 0..n /\ k # 0 /\ k \in Nat
  OBVIOUS
<1>1. b = SubSeq(q, 1, k)
  BY DEF FirstBatch
<1> HIDE DEF k
<1>2. /\ b \in Seq(EventsOf(d)) /\ Len(b) = k /\ (\A i \in 1..k : b[i] = q[i])
      /\ q = b \o SubSeq(q, k + 1, n)
  <2> DEFINE E == EventsOf(d)
  <2> HIDE DEF E
  <2>1. q \in Seq(E) /\ k \in 0..Len(q)
    BY <1>0 DEF E
  <2>2. /\ SubSeq(q, 1, k) \in Seq(E) /\ Len(SubSeq(q, 1, k)) = k
        /\ \A i \in 1..k : SubSeq(q, 1, k)[i] = q[i]
    BY ONLY <2>1, Divided
  <2>3. q = SubSeq(q, 1, k) \o SubSeq(q, k + 1, Len(q))
    BY ONLY <2>1, Divided, Zenon
  <2> QED BY <1>1, <2>2, <2>3 DEF E
<1>3. r = SubSeq(q, k + 1, n)
  BY <1>2 DEF Rest
<1>4. r \in Seq(EventsOf(d)) /\ Len(r) = n - k /\ (\A i \in 1..(n - k) : r[i] = q[k + i])
  <2> DEFINE E == EventsOf(d)
  <2> HIDE DEF E
  <2>1. q \in Seq(E) /\ k \in 0..Len(q)
    BY <1>0 DEF E
  <2>2. /\ SubSeq(q, k + 1, Len(q)) \in Seq(E) /\ Len(SubSeq(q, k + 1, Len(q))) = Len(q) - k
        /\ \A i \in 1..(Len(q) - k) : SubSeq(q, k + 1, Len(q))[i] = q[k + i]
    BY ONLY <2>1, Divided
  <2> QED BY <1>3, <2>2 DEF E
<1>a. \A i \in 1..n : q[i] = Dropped => i = 1
  BY DEF LossFirst
<1>b. q[n] = Report \/ ~Ends(q)
  BY DEF Ends
<1>c. (b = <<>> <=> k = 0) /\ (r = <<>> <=> n - k = 0)
  BY <1>2, <1>4
<1> HIDE DEF n
<1>5. LossFirst(b)
  <2>1. \A i \in 1..k : i \in 1..n
    BY <1>0
  <2> QED BY <1>2, <1>a, <2>1 DEF LossFirst
<1>6. LossFirst(r)
  <2>1. ASSUME NEW i \in 1..(n - k), r[i] = Dropped PROVE FALSE
    <3>1. k + i \in 1..n /\ k + i # 1
      BY <1>0
    <3>2. q[k + i] = Dropped
      BY <1>4, <2>1
    <3> QED BY <1>a, <3>1, <3>2
  <2> QED BY <1>4, <2>1 DEF LossFirst
<1>7. ASSUME Ends(q) PROVE Ends(r)
  <2>1. ASSUME n - k # 0 PROVE r[n - k] = Report
    <3>1. n - k \in 1..(n - k) /\ k + (n - k) = n
      BY <1>0, <2>1
    <3>2. r[n - k] = q[n]
      BY <1>4, <3>1
    <3> QED BY <1>7, <1>b, <3>2
  <2> QED BY <1>4, <1>c, <2>1 DEF Ends
<1>8. ASSUME Ends(q), r = <<>> PROVE Ends(b)
  <2>1. n = k /\ k \in 1..k
    BY <1>0, <1>8, <1>c
  <2>2. b[k] = Report
    BY <1>2, <1>8, <1>b, <2>1
  <2> QED BY <1>2, <2>2 DEF Ends
<1>9. Len(r) <= Len(q)
  BY <1>0, <1>4 DEF n
<1>10. b # <<>>
  BY <1>0, <1>c
<1> QED BY <1>2, <1>3, <1>4, <1>5, <1>6, <1>7, <1>8, <1>9, <1>10 DEF FirstOf

(* A packet leaves the queue whole and within its capacity. *)
LEMMA Posted ==
  ASSUME InputsAssumption, NEW d, NEW q \in Seq(EventsOf(d)), LossFirst(q), NEW e \in EventsOf(d), IsKey(e),
         NEW r, r = Post(q, <<e, Report>>, Capacity)
  PROVE  r \in Seq(EventsOf(d)) /\ r # <<>> /\ Ends(r) /\ LossFirst(r) /\ Len(r) <= Capacity
<1>a. Report \in EventsOf(d) /\ Dropped \in EventsOf(d) /\ ~IsKey(Report) /\ e # Dropped /\ Report # Dropped
  BY EventKinds
<1>b. Capacity \in Nat /\ Capacity >= 2
  BY DEF InputsAssumption
<1>1. CASE r = q \o <<e, Report>> /\ Len(q) + Len(<<e, Report>>) <= Capacity
  <2> DEFINE f == Append(q, e)
  <2>1. q \o <<e, Report>> = Append(f, Report)
    OBVIOUS
  <2>2. f \in Seq(EventsOf(d)) /\ LossFirst(f) /\ Len(f) = Len(q) + 1 /\ Len(q) \in Nat
    BY <1>a, OneMore
  <2>3. Len(<<e, Report>>) = 2
    OBVIOUS
  <2>5. r = Append(f, Report)
    BY <1>1, <2>1
  <2> HIDE DEF f
  <2>4. /\ Append(f, Report) # <<>> /\ Append(f, Report)[Len(Append(f, Report))] = Report
        /\ Len(Append(f, Report)) = Len(f) + 1 /\ LossFirst(Append(f, Report))
    BY <1>a, <2>2, OneMore
  <2>8. r \in Seq(EventsOf(d))
    <3> DEFINE E == EventsOf(d)
    <3>1. f \in Seq(E) /\ Report \in E
      BY <1>a, <2>2
    <3> HIDE DEF E
    <3>2. Append(f, Report) \in Seq(E)
      BY <3>1
    <3> QED BY <2>5, <3>2 DEF E
  <2>6. r # <<>> /\ r[Len(r)] = Report /\ Len(r) = Len(q) + 2 /\ LossFirst(r)
    BY ONLY <2>2, <2>4, <2>5
  <2>7. Len(q) + 2 <= Capacity
    BY <1>1, <2>3
  <2> QED BY ONLY <2>6, <2>7, <2>8 DEF Ends
<1>2. CASE r = <<Dropped, Report>>
  <2>1. Len(r) = 2 /\ r[1] = Dropped /\ r[2] = Report /\ r # <<>>
    BY <1>2
  <2>2. \A i \in 1..2 : i = 1 \/ i = 2
    OBVIOUS
  <2>3. r \in Seq(EventsOf(d))
    <3> DEFINE E == EventsOf(d)
    <3>1. Dropped \in E /\ Report \in E
      BY <1>a
    <3> HIDE DEF E
    <3>2. <<Dropped, Report>> \in Seq(E)
      BY <3>1
    <3> QED BY <1>2, <3>2 DEF E
  <2> QED BY <1>a, <1>b, <2>1, <2>2, <2>3 DEF Ends, LossFirst
<1>3. \/ r = q \o <<e, Report>> /\ Len(q) + Len(<<e, Report>>) <= Capacity
      \/ r = <<Dropped, Report>>
  BY DEF Post
<1> QED BY <1>1, <1>2, <1>3

(* A snapshot takes the key events out of the queue and leaves the rest. *)
Sweep(p, x, e) == IF IsKey(e) THEN x ELSE Append(x, e)
W == INSTANCE FoldTheorems WITH op <- Sweep
(* A snapshot taken over the queue is such a fold, and discards just the key events. *)
LEMMA SnapshotIs == ASSUME NEW q PROVE AfterSnapshot(q) = W!Fold(0, <<>>, q)
BY DEF AfterSnapshot, W!Fold, Sweep, FoldLeft, W!FoldLeft, MapThenFoldSet, W!MapThenFoldSet, Max, W!Max

(* What is left agrees with any snapshot, and is whole as before. *)
LEMMA Swept ==
  ASSUME NEW d, NEW x \in SUBSET Mask(d), NEW q \in Seq(EventsOf(d)), LossFirst(q), Ends(q),
         NEW r, r = AfterSnapshot(q)
  PROVE  /\ r \in Seq(EventsOf(d)) /\ Len(r) <= Len(q) /\ LossFirst(r) /\ Ends(r) /\ (q # <<>> => r # <<>>)
         /\ Agrees(d, x, ToldOf(d, x), r, x)
<1> DEFINE E == EventsOf(d)
           y0 == From(x, ToldOf(d, x))
           Good(f, y) == /\ Len(y) <= Len(f)
                         /\ LossFirst(f) => LossFirst(y)
                         /\ f = <<>> => y = <<>>
                         /\ (f # <<>> /\ f[Len(f)] = Report) => (y # <<>> /\ y[Len(y)] = Report)
                         /\ Track(d, y0, y).held = x /\ Track(d, y0, y).reported = ToldOf(d, x)
                            /\ Track(d, y0, y).fits
           R == {z \in Seq(E) \X Seq(E) : Good(z[1], z[2])}
<1>0. y0 \in Tracks(d) /\ y0.held = x /\ y0.reported = ToldOf(d, x) /\ y0.fits
  <2> DEFINE z == ToldOf(d, x)
  <2>1. z \in SUBSET Mask(d)
    BY DEF ToldOf
  <2> HIDE DEF z
  <2>2. From(x, z) \in Tracks(d) /\ From(x, z).held = x /\ From(x, z).reported = z /\ From(x, z).fits
    BY <2>1, FromFacts
  <2> QED BY <2>2 DEF z
<1> HIDE DEF y0
<1>1. << <<>>, <<>> >> \in R
  <2>1. Track(d, y0, <<>>) = y0
    BY <1>0, TrackFacts
  <2>2. LossFirst(<<>>) /\ <<>> \in Seq(E)
    BY DEF LossFirst
  <2>3. Good(<<>>, <<>>)
    BY <1>0, <2>1
  <2> HIDE DEF Good
  <2> QED BY <2>2, <2>3
<1>2. ASSUME NEW f \in Seq(E), NEW e \in E, NEW y, <<f, y>> \in R
      PROVE  <<Append(f, e), Sweep(0, y, e)>> \in R
  <2>1. y \in Seq(E) /\ Good(f, y)
    BY <1>2
  <2>2. /\ Append(f, e) \in Seq(E) /\ Append(f, e) # <<>> /\ Append(f, e)[Len(Append(f, e))] = e
        /\ Len(Append(f, e)) = Len(f) + 1 /\ Len(f) \in Nat /\ Len(y) \in Nat
        /\ LossFirst(Append(f, e)) <=> (LossFirst(f) /\ (e = Dropped => f = <<>>))
    BY <2>1, OneMore
  <2>3. CASE IsKey(e)
    <3>1. e # Dropped /\ e # Report /\ Sweep(0, y, e) = y
      BY <2>3, EventKinds DEF Sweep
    <3>2. Good(Append(f, e), y)
      BY <2>1, <2>2, <3>1
    <3> HIDE DEF Good
    <3> QED BY <2>1, <2>2, <3>1, <3>2
  <2>4. CASE ~IsKey(e)
    <3>1. Sweep(0, y, e) = Append(y, e)
      BY <2>4 DEF Sweep
    <3>2. /\ Append(y, e) \in Seq(E) /\ Append(y, e) # <<>> /\ Append(y, e)[Len(Append(y, e))] = e
          /\ Len(Append(y, e)) = Len(y) + 1
          /\ LossFirst(Append(y, e)) <=> (LossFirst(y) /\ (e = Dropped => y = <<>>))
      BY <2>1, OneMore
    <3>3. /\ Track(d, y0, Append(y, e)).held = x /\ Track(d, y0, Append(y, e)).reported = ToldOf(d, x)
          /\ Track(d, y0, Append(y, e)).fits
      <4> DEFINE t == Track(d, y0, y)
      <4>1. t \in Tracks(d) /\ Track(d, y0, Append(y, e)) = Heeded(d, t, e)
        BY <1>0, <2>1, TrackFacts
      <4>2. t.held = x /\ t.reported = ToldOf(d, x) /\ t.fits
        BY <2>1
      <4>3. /\ Heeded(d, t, e).held = t.held /\ (Heeded(d, t, e).fits <=> t.fits)
            /\ Heeded(d, t, e).reported = IF e = Dropped THEN t.reported ELSE ToldOf(d, t.held)
        <5> HIDE DEF t
        <5>1. CASE e = Report
          BY <4>1, <5>1, HeededReport, EventKinds
        <5>2. CASE e = Dropped
          BY <4>1, <5>2, HeededFacts
        <5> QED BY <2>4, <5>1, <5>2, EventKinds
      <4> QED BY <4>1, <4>2, <4>3
    <3>4. Good(Append(f, e), Append(y, e))
      BY <2>1, <2>2, <3>2, <3>3
    <3> HIDE DEF Good
    <3> QED BY <2>2, <3>1, <3>2, <3>4
  <2> QED BY <2>3, <2>4
<1> HIDE DEF R
<1>3. <<q, W!Fold(0, <<>>, q)>> \in R
  BY <1>1, <1>2, W!FoldInduction
<1>4. r \in Seq(E) /\ Good(q, r)
  BY <1>3, SnapshotIs DEF R
<1>5. Agrees(d, x, ToldOf(d, x), r, x)
  BY <1>4 DEF Agrees, y0
<1> QED BY <1>4, <1>5 DEF Ends

(* The fold by which InStep is stated is the track of the buttons. *)
Plain(p, x, e) == IF IsKey(e) THEN Level(x, e) ELSE x
L == INSTANCE FoldTheorems WITH op <- Plain
(* The loop of InStep is such a fold. *)
LEMMA PlainIs ==
  ASSUME NEW x, NEW s
  PROVE  FoldLeft(LAMBDA h, e : IF IsKey(e) THEN Level(h, e) ELSE h, x, s) = L!Fold(0, x, s)
BY DEF L!Fold, Plain, FoldLeft, L!FoldLeft, MapThenFoldSet, L!MapThenFoldSet, Max, L!Max

(* It and the track agree on the buttons that are tracked, and a loss is an event. *)
LEMMA PlainTracks ==
  ASSUME NEW d, NEW x \in SUBSET Mask(d), NEW z \in SUBSET Mask(d), NEW s \in Seq(EventsOf(d))
  PROVE  /\ L!Fold(0, x, s) \cap Mask(d) = Track(d, From(x, z), s).held
         /\ ~Contains(s, Dropped) => Track(d, From(x, z), s).whole
<1> DEFINE E == EventsOf(d)
           y0 == From(x, z)
           Good(f, y) == /\ y \cap Mask(d) = Track(d, y0, f).held
                         /\ (\A i \in 1..Len(f) : f[i] # Dropped) => Track(d, y0, f).whole
           R == {w \in Seq(E) \X {L!Fold(0, x, f) : f \in Seq(E)} : Good(w[1], w[2])}
<1>0. y0 \in Tracks(d) /\ y0.held = x /\ y0.whole
  BY FromFacts
<1> HIDE DEF y0
<1>1. << <<>>, x >> \in R
  <2>1. Track(d, y0, <<>>) = y0
    BY <1>0, TrackFacts
  <2>2. <<>> \in Seq(E) /\ L!Fold(0, x, <<>>) = x
    BY L!FoldEmpty
  <2>3. Good(<<>>, x)
    BY <1>0, <2>1
  <2> HIDE DEF Good
  <2> QED BY <2>2, <2>3
<1>2. ASSUME NEW f \in Seq(E), NEW e \in E, NEW y, <<f, y>> \in R
      PROVE  <<Append(f, e), Plain(0, y, e)>> \in R
  <2>1. Good(f, y) /\ \E h \in Seq(E) : y = L!Fold(0, x, h)
    BY <1>2
  <2> DEFINE t == Track(d, y0, f)
             g == Append(f, e)
  <2>2. t \in Tracks(d) /\ Track(d, y0, g) = Heeded(d, t, e)
    BY <1>0, TrackFacts
  <2>3. \E h \in Seq(E) : Plain(0, y, e) = L!Fold(0, x, h)
    <3>1. PICK h \in Seq(E) : y = L!Fold(0, x, h)
      BY <2>1
    <3>2. Append(h, e) \in Seq(E) /\ Plain(0, y, e) = L!Fold(0, x, Append(h, e))
      BY <3>1, L!FoldAppend
    <3> QED BY <3>2
  <2>4. g \in Seq(E)
        /\ ((\A i \in 1..Len(g) : g[i] # Dropped) => (e # Dropped /\ \A i \in 1..Len(f) : f[i] # Dropped))
    <3>1. Len(f) \in Nat /\ Len(g) = Len(f) + 1 /\ g[Len(f) + 1] = e
          /\ (\A i \in 1..Len(f) : g[i] = f[i]) /\ g \in Seq(E)
      OBVIOUS
    <3> HIDE DEF g
    <3>2. Len(f) + 1 \in 1..Len(g) /\ \A i \in 1..Len(f) : i \in 1..Len(g)
      BY <3>1
    <3> QED BY <3>1, <3>2
  <2>5. y \cap Mask(d) = t.held /\ ((\A i \in 1..Len(f) : f[i] # Dropped) => t.whole)
    BY <2>1
  <2> HIDE DEF t, g
  <2>6. Plain(0, y, e) \cap Mask(d) = Heeded(d, t, e).held
    <3>1. Heeded(d, t, e).held = IF e # Dropped /\ IsKey(e) /\ e.code \in Mask(d) THEN Level(t.held, e) ELSE t.held
      BY <2>2, HeededFacts
    <3>2. IsKey(e) => e # Dropped
      BY EventKinds
    <3>3. CASE ~IsKey(e)
      BY <2>5, <3>1, <3>3 DEF Plain
    <3>4. CASE IsKey(e)
      BY <2>5, <3>1, <3>2, <3>4 DEF Plain, Level
    <3> QED BY <3>3, <3>4
  <2>7. (\A i \in 1..Len(g) : g[i] # Dropped) => Heeded(d, t, e).whole
    BY <2>2, <2>4, <2>5, HeededFacts
  <2>8. Good(g, Plain(0, y, e))
    BY <2>2, <2>6, <2>7
  <2> HIDE DEF Good
  <2> QED BY <2>3, <2>4, <2>8 DEF g
<1> HIDE DEF R
<1>3. <<s, L!Fold(0, x, s)>> \in R
  BY <1>1, <1>2, L!FoldInduction
<1>4. Good(s, L!Fold(0, x, s))
  BY <1>3 DEF R
<1> QED BY <1>4 DEF Contains, y0

-----------------------------------------------------------------------------
(* The invariant of the inputs.                                            *)

(* What reports are about, and what they are. *)
Strokes == {"A", "B", Shift, Arrow, Letter} \X BOOLEAN \X BOOLEAN
AllReports == [kind : {"Gamepad", "Keyboard"}, value : SUBSET Strokes]
TouchReports == [down : BOOLEAN, pressed : BOOLEAN, released : BOOLEAN]

(* The device whose turn it is, and the part of the batch that is a device's. *)
Turn(d) == phase = "Reading" /\ ready # {} /\ Current = d
Mine(d) == IF Turn(d) THEN batch ELSE <<>>

(* The types of all variables. *)
InputTypes ==
  /\ scope \in Scopes /\ node \in [Paths -> Nodes \cup {0}] /\ at \in [Paths -> Nodes \cup {0}]
  /\ handle \in [Paths -> {"None", "Live", "Dead"}] /\ grabbed \in [Paths -> BOOLEAN]
  /\ DOMAIN held = Paths /\ DOMAIN raw = Paths /\ DOMAIN state = Paths /\ DOMAIN queue = Paths
  /\ \A d \in Paths : /\ held[d] \in SUBSET Buttons(d) /\ raw[d] \in SUBSET Mask(d)
                      /\ state[d] \in SUBSET Mask(d) /\ queue[d] \in Seq(EventsOf(d))
                      /\ Mine(d) \in Seq(EventsOf(d))
  /\ dropping \in SUBSET Paths /\ torn \in SUBSET Paths /\ ready \in SUBSET Paths
  /\ reports \in Seq(AllReports) /\ touches \in Seq(TouchReports)
  /\ rescan_requested \in BOOLEAN /\ phase \in {"Idle", "Reading", "Told"}

(* Devices are at different nodes, a handle is live while its device stays where it
   was opened, no more than the dashboard uses are open, and they are ours alone. *)
Handles ==
  /\ \A d, e \in Paths : (d # e /\ node[d] # 0) => node[d] # node[e]
  /\ \A d \in Paths : handle[d] = "Live" => node[d] # 0 /\ at[d] = node[d]
  /\ Cardinality(Opened \cap Pads) <= MAXIMUM_GAMEPADS
  /\ Cardinality(Opened \cap Keyboards) <= MAXIMUM_KEYBOARDS
  /\ \A d \in Paths : grabbed[d] => handle[d] # "None"
  /\ GrabHeld

(* Queues hold whole packets, and only an open device has one. *)
Queues ==
  \A d \in Paths : /\ LossFirst(queue[d]) /\ Ends(queue[d]) /\ Len(queue[d]) <= Capacity
                   /\ handle[d] # "Live" => queue[d] = <<>>

(* A batch is in hand only while devices are read, of an open one; it ends with a
   whole packet when nothing is left behind it. *)
Reading ==
  /\ phase = "Reading" => ready # {} /\ \A d \in ready : handle[d] # "None"
  /\ batch # <<>> => phase = "Reading"
  /\ LossFirst(batch)
  /\ \A d \in Paths : (Turn(d) /\ handle[d] = "Live" /\ queue[d] = <<>>) => Ends(batch)

(* Only the device that is being read may be in the middle of a packet or of a loss,
   and then there is more to read of it, unless it is dead. *)
Complete(d) == d \notin dropping /\ (d \notin Keyboards => raw[d] = state[d])
Packets ==
  \A d \in Paths :
    ~Complete(d) => Turn(d) /\ (handle[d] = "Live" => batch # <<>> \/ queue[d] # <<>>)

(* What is still to be read of a device agrees with it. *)
Coming(d) == Mine(d) \o queue[d]
InStepAll ==
  \A d \in Paths \ (dropping \cup torn) :
    /\ Track(d, From(raw[d], ToldOf(d, state[d])), Coming(d)).fits
    /\ handle[d] = "Live" => Agrees(d, raw[d], ToldOf(d, state[d]), Coming(d), Snapshot(d))

(* Presses that were read are named, or a button of a packet that is not complete. *)
NamedBy(s) == UNION {s[i].value : i \in 1..Len(s)}
Fresh == {<<b, FALSE, FALSE>> : b \in UNION {raw[d] \ state[d] : d \in Pads}}
NamedKept ==
  /\ Len(reports) <= MAXIMUM_CONTROL_REPORTS
  /\ "Torn" \notin doubt =>
       /\ NamedBy(reports) \cup Fresh \subseteq seen
       /\ (Len(reports) < MAXIMUM_CONTROL_REPORTS /\ "Lost" \notin doubt /\ dropping = {}) =>
            seen \subseteq NamedBy(reports) \cup Fresh

(* What holds whenever nobody is in the middle of a step. *)
InputInv ==
  InputTypes /\ Handles /\ Queues /\ Reading /\ Packets /\ InStepAll /\ NamedKept /\ TouchFollowed

-----------------------------------------------------------------------------
(* The report queue.                                                       *)

(* What a sequence of reports names, when one is added or made to say more. *)
LEMMA NamedMore ==
  ASSUME NEW s \in Seq(AllReports), NEW r \in AllReports
  PROVE  /\ NamedBy(Append(s, r)) = NamedBy(s) \cup r.value
         /\ \A i \in 1..Len(s) : NamedBy([s EXCEPT ![i].value = @ \cup r.value]) = NamedBy(s) \cup r.value
         /\ \A i \in 1..Len(s) : s[i].value \subseteq NamedBy(s)
<1> DEFINE n == Len(s)
<1>0. n \in Nat /\ \A i \in 1..n : s[i] \in AllReports
  OBVIOUS
<1>1. NamedBy(Append(s, r)) = NamedBy(s) \cup r.value
  <2> DEFINE t == Append(s, r)
  <2>1. Len(t) = n + 1 /\ t[n + 1] = r /\ \A i \in 1..n : t[i] = s[i]
    OBVIOUS
  <2>2. 1..(n + 1) = (1..n) \cup {n + 1}
    BY <1>0
  <2> HIDE DEF t, n
  <2>3. \A x : x \in NamedBy(t) <=> (x \in r.value \/ x \in NamedBy(s))
    BY <2>1, <2>2 DEF NamedBy, n
  <2> QED BY <2>3 DEF t
<1>2. ASSUME NEW i \in 1..n PROVE NamedBy([s EXCEPT ![i].value = @ \cup r.value]) = NamedBy(s) \cup r.value
  <2> DEFINE t == [s EXCEPT ![i].value = @ \cup r.value]
  <2>1. Len(t) = n /\ t[i].value = s[i].value \cup r.value /\ \A j \in 1..n : j # i => t[j] = s[j]
    BY <1>0, <1>2 DEF AllReports
  <2> HIDE DEF t, n
  <2>2. \A x : x \in NamedBy(t) <=> \E j \in 1..n : x \in t[j].value
    BY <2>1 DEF NamedBy
  <2>3. \A x : x \in NamedBy(s) <=> \E j \in 1..n : x \in s[j].value
    BY DEF NamedBy, n
  <2>4. ASSUME NEW x PROVE x \in NamedBy(t) <=> (x \in r.value \/ x \in NamedBy(s))
    <3>1. ASSUME x \in NamedBy(t) PROVE x \in r.value \/ x \in NamedBy(s)
      <4>1. PICK j \in 1..n : x \in t[j].value
        BY <2>2, <3>1
      <4> QED BY <2>1, <2>3, <4>1
    <3>2. ASSUME x \in r.value PROVE x \in NamedBy(t)
      BY <1>2, <2>1, <2>2, <3>2
    <3>3. ASSUME x \in NamedBy(s) PROVE x \in NamedBy(t)
      <4>1. PICK j \in 1..n : x \in s[j].value
        BY <2>3, <3>3
      <4>2. x \in t[j].value
        BY <2>1, <4>1
      <4> QED BY <2>2, <4>2
    <3> QED BY <3>1, <3>2, <3>3
  <2> QED BY <2>4 DEF t
<1>3. \A i \in 1..n : s[i].value \subseteq NamedBy(s)
  BY DEF NamedBy
<1> QED BY <1>1, <1>2, <1>3

(* A report that is queued names nothing else, and all it says unless the queue is full. *)
LEMMA Queued ==
  ASSUME InputsAssumption, NEW s \in Seq(AllReports), Len(s) <= MAXIMUM_CONTROL_REPORTS, NEW r \in AllReports,
         NEW t, t = queue_report(s, r)
  PROVE  /\ t \in Seq(AllReports) /\ Len(t) <= MAXIMUM_CONTROL_REPORTS /\ Len(s) <= Len(t)
         /\ NamedBy(s) \subseteq NamedBy(t) /\ NamedBy(t) \subseteq NamedBy(s) \cup r.value
         /\ Len(t) < MAXIMUM_CONTROL_REPORTS => NamedBy(t) = NamedBy(s) \cup r.value
<1> DEFINE pads == {i \in 1..Len(s) : s[i].kind = "Gamepad"}
           i0 == CHOOSE i \in pads : TRUE
<1>0. Len(s) \in Nat /\ MAXIMUM_CONTROL_REPORTS \in Nat
  BY DEF InputsAssumption
<1>1. CASE r.kind = "Gamepad" /\ pads # {}
  <2>1. i0 \in 1..Len(s)
    BY <1>1
  <2>2. t = [s EXCEPT ![i0].value = @ \cup r.value]
    BY <1>1 DEF queue_report
  <2> HIDE DEF i0, pads
  <2>3. t \in Seq(AllReports) /\ Len(t) = Len(s)
    <3>1. s[i0] \in AllReports
      BY <2>1
    <3> DEFINE v == [s[i0] EXCEPT !.value = @ \cup r.value]
    <3>2. v \in AllReports
      BY <3>1 DEF AllReports
    <3>3. t = [s EXCEPT ![i0] = v]
      BY <2>2
    <3> HIDE DEF v
    <3> QED BY <2>1, <3>2, <3>3
  <2>4. NamedBy(t) = NamedBy(s) \cup r.value
    BY <2>1, <2>2, NamedMore
  <2> QED BY <1>0, <2>3, <2>4
<1>2. CASE ~(r.kind = "Gamepad" /\ pads # {})
  <2>1. t = QueueNew(s, r)
    BY <1>2 DEF queue_report
  <2>2. CASE Len(s) < MAXIMUM_CONTROL_REPORTS /\ ~Contains(s, r)
    <3>1. t = Append(s, r)
      BY <2>1, <2>2 DEF QueueNew
    <3>2. t \in Seq(AllReports) /\ Len(t) = Len(s) + 1
      BY <3>1
    <3>3. NamedBy(t) = NamedBy(s) \cup r.value
      BY <3>1, NamedMore
    <3> QED BY <1>0, <2>2, <3>2, <3>3
  <2>3. CASE ~(Len(s) < MAXIMUM_CONTROL_REPORTS /\ ~Contains(s, r))
    <3>1. t = s
      BY <2>1, <2>3 DEF QueueNew
    <3>2. ASSUME Len(s) < MAXIMUM_CONTROL_REPORTS PROVE NamedBy(t) = NamedBy(s) \cup r.value
      <4>1. PICK i \in 1..Len(s) : s[i] = r
        BY <2>3, <3>2 DEF Contains
      <4>2. r.value \subseteq NamedBy(s)
        BY <4>1, NamedMore
      <4> QED BY <3>1, <4>2
    <3> QED BY <1>0, <3>1, <3>2
  <2> QED BY <2>2, <2>3
<1> QED BY <1>1, <1>2

(* The presses of a run of events, event by event. *)
Strikes(e) == IsKey(e) /\ (e.value = "Down" \/ (e.value = "Repeat" /\ e.code = Arrow)) /\ e.code # Shift
StrokeOf(e) == <<e.code, e.shifted, e.value = "Repeat">>
Struck(e) == IF Strikes(e) THEN {StrokeOf(e)} ELSE {}

(* One event more tells of one press more at most. *)
LEMMA PressesMore ==
  ASSUME NEW Q, NEW s \in Seq(Q), NEW e \in Q
  PROVE  Presses(Append(s, e)) = Presses(s) \cup Struck(e)
<1> DEFINE t == Append(s, e)
<1>1. Range(t) = Range(s) \cup {e}
  <2> DEFINE n == Len(s)
  <2>1. n \in Nat /\ DOMAIN t = 1..(n + 1) /\ DOMAIN s = 1..n /\ t[n + 1] = e /\ \A i \in 1..n : t[i] = s[i]
    OBVIOUS
  <2>2. 1..(n + 1) = (1..n) \cup {n + 1}
    BY <2>1
  <2> HIDE DEF n, t
  <2>3. \A x : x \in Range(t) <=> (x = e \/ x \in Range(s))
    BY <2>1, <2>2 DEF Range
  <2> QED BY <2>3
<1>2. \A S : {StrokeOf(f) : f \in {g \in S \cup {e} : Strikes(g)}} =
             {StrokeOf(f) : f \in {g \in S : Strikes(g)}} \cup Struck(e)
  BY DEF Struck
<1>3. \A u : Presses(u) = {StrokeOf(f) : f \in {g \in Range(u) : Strikes(g)}}
  BY DEF Presses, StrokeOf, Strikes
<1> HIDE DEF t
<1> QED BY <1>1, <1>2, <1>3 DEF t

(* No events tell of no presses. *)
LEMMA NoPresses == Presses(<<>>) = {}
BY DEF Presses, Range

-----------------------------------------------------------------------------
(* What a reader makes of an event.                                        *)

(* The states of a reader while a batch is applied. *)
ReadStates(d) ==
  [raw : SUBSET Mask(d), state : SUBSET Mask(d), dropping : BOOLEAN, synced : BOOLEAN, late : BOOLEAN,
   reports : Seq(AllReports), touches : Seq(TouchReports)]

(* A device is of one kind, and a button is no key. *)
LEMMA Kinds ==
  ASSUME InputsAssumption, NEW d \in Paths
  PROVE  /\ d \in Pads => d \notin Keyboards /\ d \notin Touches
         /\ d \in Keyboards => d \notin Touches
         /\ d \in Pads \/ d \in Keyboards \/ d \in Touches
         /\ d \notin Keyboards => Mask(d) = {"A", "B"} /\ Buttons(d) = {"A", "B"}
         /\ d \in Keyboards => Mask(d) = {Shift} /\ Buttons(d) = {Shift, Arrow, Letter}
         /\ Mask(d) \subseteq Buttons(d)
         /\ Shift \notin {"A", "B"} /\ Arrow \notin {"A", "B"} /\ Letter \notin {"A", "B"}
         /\ Shift # Arrow /\ Shift # Letter
BY DEF InputsAssumption, Paths, Mask, Buttons

(* A snapshot tells of tracked buttons. *)
LEMMA SnapshotMasked ==
  ASSUME InputsAssumption, InputTypes, NEW d \in Paths PROVE Snapshot(d) \in SUBSET Mask(d)
<1>1. held[d] \in SUBSET Buttons(d)
  BY DEF InputTypes
<1> QED BY <1>1, Kinds DEF Snapshot

(* After a loss the reader takes over the snapshot. *)
LEMMA HandleResync ==
  ASSUME InputsAssumption, InputTypes, NEW d \in Paths, NEW st \in ReadStates(d), st.dropping,
         NEW r, r = Handle(d, st, Report)
  PROVE  /\ r \in ReadStates(d) /\ r.raw = r.state /\ ~r.dropping /\ r.synced /\ ~r.late
         /\ r.reports = st.reports
         /\ handle[d] = "Live" => r.raw = Snapshot(d)
         /\ d \notin Touches => r.raw = Snapshot(d) /\ r.touches = st.touches
         /\ d \in Touches => r.touches = Append(st.touches, TouchReport(st.state, r.raw))
<1>0. Snapshot(d) \in SUBSET Mask(d)
  BY SnapshotMasked
<1>1. r = resynchronize(d, st)
  BY DEF Handle
<1>2. CASE d \notin Touches
  <2>1. r = [st EXCEPT !.raw = Snapshot(d), !.state = Snapshot(d), !.dropping = FALSE, !.synced = TRUE, !.late = FALSE]
    BY <1>1, <1>2 DEF resynchronize, ResyncSilently
  <2>2. r \in ReadStates(d) /\ r.raw = Snapshot(d) /\ r.state = Snapshot(d) /\ ~r.dropping /\ r.synced
        /\ ~r.late
        /\ r.reports = st.reports /\ r.touches = st.touches
    BY <1>0, <2>1 DEF ReadStates
  <2> QED BY <1>2, <2>2
<1>3. CASE d \in Touches
  <2> DEFINE now == IF handle[d] = "Live" THEN Snapshot(d) ELSE st.raw
             s == [st EXCEPT !.raw = now]
             u == HandleTouch(s, Report)
  <2>0. now \in SUBSET Mask(d)
    BY <1>0 DEF ReadStates
  <2>1. r = [u EXCEPT !.dropping = FALSE, !.synced = TRUE, !.late = FALSE]
    BY <1>1, <1>3 DEF resynchronize
  <2> HIDE DEF now
  <2>2. s \in ReadStates(d) /\ s.raw = now /\ s.state = st.state /\ s.touches = st.touches
        /\ s.reports = st.reports
    BY <2>0 DEF ReadStates
  <2>3. u = [s EXCEPT !.state = s.raw, !.touches = Append(@, TouchReport(s.state, s.raw))]
    BY EventKinds DEF HandleTouch
  <2>4. TouchReport(st.state, now) \in TouchReports
    BY DEF TouchReport, TouchReports
  <2>5. Append(s.touches, TouchReport(s.state, s.raw)) \in Seq(TouchReports)
    BY <2>2, <2>4 DEF ReadStates
  <2> HIDE DEF s
  <2>6. /\ u \in ReadStates(d) /\ u.raw = now /\ u.state = now /\ u.reports = st.reports
        /\ u.touches = Append(st.touches, TouchReport(st.state, now))
    BY <2>0, <2>2, <2>3, <2>5 DEF ReadStates
  <2> HIDE DEF u
  <2>7. /\ r \in ReadStates(d) /\ r.raw = now /\ r.state = now /\ r.reports = st.reports /\ ~r.dropping
           /\ r.synced
        /\ ~r.late /\ r.touches = Append(st.touches, TouchReport(st.state, now))
    BY <2>1, <2>6 DEF ReadStates
  <2> QED BY <1>3, <2>7 DEF now
<1> QED BY <1>2, <1>3

(* While it waits for the end of the loss nothing else counts, and a loss is noted. *)
LEMMA HandleLoss ==
  ASSUME NEW d \in Paths, NEW st \in ReadStates(d), NEW e
  PROVE  /\ (st.dropping /\ e # Report) => Handle(d, st, e) = st
         /\ ~st.dropping => /\ Handle(d, st, Dropped) = [st EXCEPT !.dropping = TRUE]
                            /\ Handle(d, st, Dropped) \in ReadStates(d)
<1>1. [st EXCEPT !.dropping = TRUE] \in ReadStates(d)
  BY DEF ReadStates
<1> QED BY <1>1 DEF Handle

(* What an event does to the reader of each kind of device otherwise: the buttons,
   what is reported, and whether a key event came after a snapshot. *)
Taking(d, st, e, r) ==
  /\ r \in ReadStates(d) /\ ~r.dropping /\ (r.synced <=> st.synced)
     /\ (r.late <=> st.late \/ (st.synced /\ IsKey(e)))
  /\ Len(r.reports) <= MAXIMUM_CONTROL_REPORTS
  /\ r.raw = IF IsKey(e) /\ e.code \in Mask(d) THEN Level(st.raw, e) ELSE st.raw
  /\ r.state = IF IsKey(e) \/ d \in Keyboards THEN st.state ELSE st.raw
  /\ d \in Touches => r.reports = st.reports
  /\ r.touches = IF d \in Touches /\ ~IsKey(e) THEN Append(st.touches, TouchReport(st.state, r.raw)) ELSE st.touches
  /\ d \in Pads => r.reports = IF IsKey(e) \/ st.raw \subseteq st.state THEN st.reports
                                ELSE queue_report(st.reports, GamepadReport(st.raw \ st.state))
  /\ d \in Keyboards => r.reports = IF Strikes(e)
                                     THEN queue_report(st.reports, KeyboardReport(e.code, st.raw # {}, e.value = "Repeat"))
                                     ELSE st.reports
(* An event that is no loss does so. *)
LEMMA HandleEvent ==
  ASSUME InputsAssumption, NEW d \in Paths, NEW st \in ReadStates(d),
         Len(st.reports) <= MAXIMUM_CONTROL_REPORTS,
         NEW e \in EventsOf(d), e # Dropped, ~st.dropping, NEW r, r = Handle(d, st, e)
  PROVE  Taking(d, st, e, r)
<1> USE DEF Taking
<1>0. IsKey(e) => e.code \in Buttons(d) /\ (e.code \in Mask(d) => Level(st.raw, e) \in SUBSET Mask(d))
  BY EventKinds DEF Level, ReadStates
<1> DEFINE Late(s) == [s EXCEPT !.late = @ \/ (st.synced /\ IsKey(e))]
<1>a. ASSUME NEW s \in ReadStates(d)
      PROVE  /\ Late(s) \in ReadStates(d) /\ (Late(s).late <=> s.late \/ (st.synced /\ IsKey(e)))
             /\ Late(s).raw = s.raw /\ Late(s).state = s.state /\ Late(s).dropping = s.dropping
             /\ Late(s).synced = s.synced /\ Late(s).reports = s.reports /\ Late(s).touches = s.touches
  <2> DEFINE l == s.late \/ (st.synced /\ IsKey(e))
  <2>1. l \in BOOLEAN /\ Late(s) = [s EXCEPT !.late = l]
    OBVIOUS
  <2> HIDE DEF l
  <2>2. Late(s) \in ReadStates(d) /\ Late(s).late = l
        /\ Late(s).raw = s.raw /\ Late(s).state = s.state /\ Late(s).dropping = s.dropping
        /\ Late(s).synced = s.synced /\ Late(s).reports = s.reports /\ Late(s).touches = s.touches
    <3>1. Late(s) = [s EXCEPT !.late = l]
      BY <2>1
    <3> HIDE DEF Late
    <3> QED BY <2>1, <3>1 DEF ReadStates
  <2> QED BY <2>2 DEF l
<1>b. st.dropping = FALSE /\ st.synced \in BOOLEAN /\ st.late \in BOOLEAN
  BY DEF ReadStates
<1>1. CASE d \in Pads
  <2> DEFINE u == HandlePad(st, e)
  <2>0. d \notin Keyboards /\ d \notin Touches /\ Buttons(d) = Mask(d) /\ Mask(d) = {"A", "B"}
    BY <1>1, Kinds
  <2>1. r = Late(u)
    BY <1>1 DEF Handle
  <2>2. CASE IsKey(e)
    <3>1. u = [st EXCEPT !.raw = Level(st.raw, e)]
      BY <2>2 DEF HandlePad
    <3>2. /\ u \in ReadStates(d) /\ u.raw = Level(st.raw, e) /\ u.state = st.state /\ u.dropping = st.dropping
          /\ u.synced = st.synced /\ u.reports = st.reports /\ u.touches = st.touches /\ u.late = st.late
      BY <1>0, <2>0, <2>2, <3>1 DEF ReadStates
    <3> HIDE DEF u, Late
    <3> QED BY <1>0, <1>1, <1>a, <1>b, <2>0, <2>1, <2>2, <3>2
  <2>3. CASE ~IsKey(e)
    <3> DEFINE q == IF st.raw \subseteq st.state THEN st.reports
                    ELSE queue_report(st.reports, GamepadReport(st.raw \ st.state))
    <3>1. u = [st EXCEPT !.state = st.raw, !.reports = q]
      BY <2>3 DEF HandlePad
    <3>2. q \in Seq(AllReports) /\ Len(q) <= MAXIMUM_CONTROL_REPORTS
      <4>1. GamepadReport(st.raw \ st.state) \in AllReports
        <5> DEFINE m == st.raw \ st.state
        <5>1. m \subseteq {"A", "B"}
          BY <2>0 DEF ReadStates
        <5> HIDE DEF m
        <5>2. \A b \in m : <<b, FALSE, FALSE>> \in Strokes
          BY <5>1 DEF Strokes
        <5>3. {<<b, FALSE, FALSE>> : b \in m} \in SUBSET Strokes
          BY <5>2
        <5>4. GamepadReport(m) \in AllReports
          BY <5>3 DEF GamepadReport, AllReports
        <5> QED BY <5>4 DEF m
      <4>2. st.reports \in Seq(AllReports)
        BY DEF ReadStates
      <4> QED BY <4>1, <4>2, Queued
    <3> HIDE DEF q
    <3>3. /\ u \in ReadStates(d) /\ u.raw = st.raw /\ u.state = st.raw /\ u.dropping = st.dropping
          /\ u.synced = st.synced /\ u.reports = q /\ u.touches = st.touches /\ u.late = st.late
      BY <3>1, <3>2 DEF ReadStates
    <3> HIDE DEF u, Late
    <3>4. d \in Pads => r.reports = IF IsKey(e) \/ st.raw \subseteq st.state THEN st.reports
                                      ELSE queue_report(st.reports, GamepadReport(st.raw \ st.state))
      BY <1>a, <2>1, <2>3, <3>3 DEF q
    <3> QED BY <1>1, <1>a, <1>b, <2>0, <2>1, <2>3, <3>2, <3>3, <3>4
  <2> QED BY <2>2, <2>3
<1>2. CASE d \in Keyboards
  <2> DEFINE u == HandleKeyboard(st, e)
  <2>0. d \notin Pads /\ d \notin Touches /\ Mask(d) = {Shift} /\ Shift # Arrow
        /\ Buttons(d) = {Shift, Arrow, Letter}
    BY <1>2, Kinds
  <2>1. r = Late(u)
    BY <1>2, <2>0 DEF Handle
  <2>2. CASE ~IsKey(e)
    <3>1. u = st /\ ~Strikes(e)
      BY <2>2 DEF HandleKeyboard, Strikes
    <3> HIDE DEF u, Late
    <3> QED BY <1>2, <1>a, <1>b, <2>0, <2>1, <2>2, <3>1
  <2>3. CASE IsKey(e) /\ e.code = Shift
    <3>1. u = [st EXCEPT !.raw = Level(st.raw, e)] /\ ~Strikes(e)
      BY <2>3 DEF HandleKeyboard, Strikes
    <3>2. /\ u \in ReadStates(d) /\ u.raw = Level(st.raw, e) /\ u.state = st.state /\ u.dropping = st.dropping
          /\ u.synced = st.synced /\ u.reports = st.reports /\ u.touches = st.touches /\ u.late = st.late
      BY <1>0, <2>0, <2>3, <3>1 DEF ReadStates
    <3> HIDE DEF u, Late
    <3>3. e.code \in Mask(d)
      BY <2>0, <2>3
    <3>4. /\ r \in ReadStates(d) /\ (r.late <=> u.late \/ (st.synced /\ IsKey(e)))
          /\ r.raw = u.raw /\ r.state = u.state /\ r.dropping = u.dropping
          /\ r.synced = u.synced /\ r.reports = u.reports /\ r.touches = u.touches
      BY <1>a, <2>1, <3>2
    <3> QED BY <1>2, <1>b, <2>0, <2>3, <3>1, <3>2, <3>3, <3>4
  <2>4. CASE IsKey(e) /\ e.code # Shift
    <3> DEFINE q == IF Strikes(e) THEN queue_report(st.reports, KeyboardReport(e.code, st.raw # {}, e.value = "Repeat"))
                    ELSE st.reports
    <3>1. u = [st EXCEPT !.reports = q]
      <4>1. CASE Strikes(e)
        BY <2>4, <4>1 DEF HandleKeyboard, Strikes
      <4>2. CASE ~Strikes(e)
        <5>1. u = st /\ q = st.reports
          BY <2>4, <4>2 DEF HandleKeyboard, Strikes
        <5> QED BY <5>1 DEF ReadStates
      <4> QED BY <4>1, <4>2
    <3>2. q \in Seq(AllReports) /\ Len(q) <= MAXIMUM_CONTROL_REPORTS
      <4>1. KeyboardReport(e.code, st.raw # {}, e.value = "Repeat") \in AllReports
        <5>1. e.code \in {"A", "B", Shift, Arrow, Letter}
          BY <1>0, <2>0, <2>4
        <5>2. ASSUME NEW k \in {"A", "B", Shift, Arrow, Letter}, NEW x \in BOOLEAN, NEW y \in BOOLEAN
              PROVE  KeyboardReport(k, x, y) \in AllReports
          <6>1. {<<k, x, y>>} \in SUBSET Strokes
            BY DEF Strokes
          <6> QED BY <6>1 DEF KeyboardReport, AllReports
        <5>3. (st.raw # {}) \in BOOLEAN /\ (e.value = "Repeat") \in BOOLEAN
          OBVIOUS
        <5> QED BY <5>1, <5>2, <5>3
      <4>2. st.reports \in Seq(AllReports)
        BY DEF ReadStates
      <4> QED BY <4>1, <4>2, Queued
    <3> HIDE DEF q
    <3>3. /\ u \in ReadStates(d) /\ u.raw = st.raw /\ u.state = st.state /\ u.dropping = st.dropping
          /\ u.synced = st.synced /\ u.reports = q /\ u.touches = st.touches /\ u.late = st.late
      BY <3>1, <3>2 DEF ReadStates
    <3> HIDE DEF u, Late
    <3>4. r.reports = IF Strikes(e) THEN queue_report(st.reports, KeyboardReport(e.code, st.raw # {}, e.value = "Repeat"))
                      ELSE st.reports
      BY <1>a, <2>1, <3>3 DEF q
    <3> QED BY <1>2, <1>a, <1>b, <2>0, <2>1, <2>4, <3>2, <3>3, <3>4
  <2> QED BY <2>2, <2>3, <2>4
<1>3. CASE d \in Touches
  <2> DEFINE u == HandleTouch(st, e)
  <2>0. d \notin Keyboards /\ d \notin Pads /\ Buttons(d) = Mask(d)
    BY <1>3, Kinds
  <2>1. r = Late(u)
    BY <1>3, <2>0 DEF Handle
  <2>2. CASE IsKey(e)
    <3>1. u = [st EXCEPT !.raw = Level(st.raw, e)]
      BY <2>2 DEF HandleTouch
    <3>2. /\ u \in ReadStates(d) /\ u.raw = Level(st.raw, e) /\ u.state = st.state /\ u.dropping = st.dropping
          /\ u.synced = st.synced /\ u.reports = st.reports /\ u.touches = st.touches /\ u.late = st.late
      BY <1>0, <2>0, <2>2, <3>1 DEF ReadStates
    <3> HIDE DEF u, Late
    <3> QED BY <1>0, <1>3, <1>a, <1>b, <2>0, <2>1, <2>2, <3>2
  <2>3. CASE ~IsKey(e)
    <3> DEFINE w == Append(st.touches, TouchReport(st.state, st.raw))
    <3>1. u = [st EXCEPT !.state = st.raw, !.touches = w]
      BY <2>3 DEF HandleTouch
    <3>2. w \in Seq(TouchReports)
      <4>1. TouchReport(st.state, st.raw) \in TouchReports
        BY DEF TouchReport, TouchReports
      <4> QED BY <4>1 DEF ReadStates
    <3> HIDE DEF w
    <3>3. /\ u \in ReadStates(d) /\ u.raw = st.raw /\ u.state = st.raw /\ u.dropping = st.dropping
          /\ u.synced = st.synced /\ u.reports = st.reports /\ u.touches = w /\ u.late = st.late
      BY <3>1, <3>2 DEF ReadStates
    <3> HIDE DEF u, Late
    <3>4. r.touches = Append(st.touches, TouchReport(st.state, r.raw))
      BY <1>a, <2>1, <3>3 DEF w
    <3> QED BY <1>3, <1>a, <1>b, <2>0, <2>1, <2>3, <3>3, <3>4
  <2> QED BY <2>2, <2>3
<1> QED BY <1>1, <1>2, <1>3, Kinds

-----------------------------------------------------------------------------
(* What a reader makes of a batch.                                         *)

(* One event is applied, as ReadAll of Evdev does it. *)
ReadOne(d, x, e) == CHOOSE r \in {Handle(d, s, e) : s \in {x}} : TRUE
A == INSTANCE FoldTheorems WITH op <- ReadOne
(* Reading a batch is a fold of one event after the other. *)
LEMMA ReadIs ==
  ASSUME NEW d, NEW before, NEW s
  PROVE  ReadAll(LAMBDA x, e : Handle(d, x, e), before, s) = A!Fold(d, before, s)
BY DEF ReadAll, A!Fold, ReadOne, FoldLeft, A!FoldLeft, MapThenFoldSet, A!MapThenFoldSet, Max, A!Max

(* One event after the other is applied. *)
LEMMA ReadOneIs ==
  ASSUME NEW d, NEW st, NEW e PROVE ReadOne(d, st, e) = Handle(d, st, e)
BY DEF ReadOne

(* What the reader knows of a device, and the track of its events from there. *)
Outset(d) == From(raw[d], ToldOf(d, state[d]))
Trace(d, f) == Track(d, Outset(d), f)

(* After the events f: without a loss the reader is where their track leads; after a
   snapshot, and no key event since, it is where the device is; and after a whole
   packet all is reported. *)
ReadSoFar(d, f, st) ==
  /\ Len(st.reports) <= MAXIMUM_CONTROL_REPORTS
  /\ (~st.synced /\ ~st.dropping) =>
       /\ d \notin dropping /\ Trace(d, f).whole
       /\ st.raw = Trace(d, f).held /\ ToldOf(d, st.state) = Trace(d, f).reported
  /\ st.synced => f # <<>> /\ ~st.dropping
  /\ st.late => st.synced
  /\ (st.synced /\ ~st.late) => /\ handle[d] = "Live" => st.raw = Snapshot(d)
                                /\ d \notin Keyboards => st.state = st.raw
  /\ (f # <<>> /\ f[Len(f)] = Report) => ~st.dropping /\ (d \notin Keyboards => st.state = st.raw)

(* One more event is read. *)
LEMMA ReadOn ==
  ASSUME InputsAssumption, InputTypes, NEW d \in Paths, NEW f \in Seq(EventsOf(d)), NEW e \in EventsOf(d),
         e = Dropped => f = <<>>, NEW st \in ReadStates(d), ReadSoFar(d, f, st),
         NEW r, r = Handle(d, st, e)
  PROVE  r \in ReadStates(d) /\ ReadSoFar(d, Append(f, e), r)
<1> DEFINE g == Append(f, e)
           t == Trace(d, f)
           u == Trace(d, g)
<1>0. Outset(d) \in Tracks(d)
  <2>1. raw[d] \in SUBSET Mask(d) /\ ToldOf(d, state[d]) \in SUBSET Mask(d)
    BY DEF InputTypes, ToldOf
  <2> QED BY <2>1, FromFacts DEF Outset
<1>1. t \in Tracks(d) /\ u = Heeded(d, t, e)
  BY <1>0, TrackFacts DEF Trace
<1>2. g # <<>> /\ g[Len(g)] = e
  BY OneMore
<1>3. Report # Dropped /\ ~IsKey(Report) /\ ~IsKey(Dropped) /\ (~IsKey(e) => e = Dropped \/ e = Report)
  BY EventKinds
<1>4. st.dropping \in BOOLEAN /\ st.synced \in BOOLEAN /\ st.late \in BOOLEAN
  BY DEF ReadStates
<1>5. ReadSoFar(d, f, st)
  OBVIOUS
<1>6. /\ Len(st.reports) <= MAXIMUM_CONTROL_REPORTS
      /\ (~st.synced /\ ~st.dropping) =>
           d \notin dropping /\ t.whole /\ st.raw = t.held /\ ToldOf(d, st.state) = t.reported
      /\ st.synced => f # <<>> /\ ~st.dropping
      /\ st.late => st.synced
      /\ (st.synced /\ ~st.late) => /\ handle[d] = "Live" => st.raw = Snapshot(d)
                                    /\ d \notin Keyboards => st.state = st.raw
  BY <1>5 DEF ReadSoFar
<1>7. SUFFICES /\ r \in ReadStates(d)
               /\ Len(r.reports) <= MAXIMUM_CONTROL_REPORTS
               /\ (~r.synced /\ ~r.dropping) =>
                    d \notin dropping /\ u.whole /\ r.raw = u.held /\ ToldOf(d, r.state) = u.reported
               /\ r.synced => ~r.dropping
               /\ r.late => r.synced
               /\ (r.synced /\ ~r.late) => /\ handle[d] = "Live" => r.raw = Snapshot(d)
                                           /\ d \notin Keyboards => r.state = r.raw
               /\ e = Report => ~r.dropping /\ (d \notin Keyboards => r.state = r.raw)
  <2> HIDE DEF g
  <2>1. r \in ReadStates(d) /\ ReadSoFar(d, g, r)
    BY <1>2, <1>7 DEF ReadSoFar, u
  <2> QED BY <2>1 DEF g
<1> HIDE DEF g, t, u
<1>8. CASE st.dropping /\ e = Report
  <2>1. /\ r \in ReadStates(d) /\ r.raw = r.state /\ ~r.dropping /\ r.synced /\ ~r.late
        /\ r.reports = st.reports /\ (handle[d] = "Live" => r.raw = Snapshot(d))
    BY <1>8, HandleResync
  <2> QED BY <1>6, <2>1
<1>9. CASE st.dropping /\ e # Report
  <2>1. r = st
    BY <1>9, HandleLoss
  <2> QED BY <1>6, <1>9, <2>1
<1>10. CASE ~st.dropping /\ e = Dropped
  <2>1. r = [st EXCEPT !.dropping = TRUE] /\ r \in ReadStates(d)
    BY <1>10, HandleLoss
  <2>2. r.dropping /\ r.synced = st.synced /\ r.late = st.late /\ r.reports = st.reports
    BY <2>1 DEF ReadStates
  <2>3. ~st.synced
    BY <1>6, <1>10
  <2> QED BY <1>3, <1>4, <1>6, <1>10, <2>1, <2>2, <2>3
<1>11. CASE ~st.dropping /\ e # Dropped
  <2>a. Len(st.reports) <= MAXIMUM_CONTROL_REPORTS /\ ~st.dropping /\ e # Dropped
    BY <1>6, <1>11
  <2>b. Taking(d, st, e, r)
    BY <2>a, HandleEvent
  <2>1. /\ r \in ReadStates(d) /\ ~r.dropping /\ (r.synced <=> st.synced)
           /\ (r.late <=> st.late \/ (st.synced /\ IsKey(e)))
        /\ Len(r.reports) <= MAXIMUM_CONTROL_REPORTS
        /\ r.raw = IF IsKey(e) /\ e.code \in Mask(d) THEN Level(st.raw, e) ELSE st.raw
        /\ r.state = IF IsKey(e) \/ d \in Keyboards THEN st.state ELSE st.raw
    BY <2>b DEF Taking
  <2>2. CASE IsKey(e)
    <3>1. (u.whole <=> t.whole) /\ u.reported = t.reported
          /\ u.held = IF e.code \in Mask(d) THEN Level(t.held, e) ELSE t.held
      BY <1>1, <1>11, <2>2, HeededKey
    <3>2. e # Report
      BY <1>3, <2>2
    <3> QED BY <1>6, <1>11, <2>1, <2>2, <3>1, <3>2
  <2>3. CASE ~IsKey(e)
    <3>1. e = Report
      BY <1>3, <1>11, <2>3
    <3>2. (u.whole <=> t.whole) /\ u.held = t.held /\ u.reported = ToldOf(d, t.held)
      BY <1>1, <3>1, HeededReport
    <3>3. r.raw = st.raw /\ (d \notin Keyboards => r.state = st.raw) /\ (r.late <=> st.late)
      BY <2>1, <2>3, <1>4
    <3>4. ToldOf(d, r.state) = ToldOf(d, st.raw)
      BY <3>3 DEF ToldOf
    <3> QED BY <1>6, <1>11, <2>1, <3>2, <3>3, <3>4
  <2> QED BY <2>2, <2>3
<1> QED BY <1>4, <1>8, <1>9, <1>10, <1>11

-----------------------------------------------------------------------------
(* The reports name the presses among the events f, or those of a packet that is
   not complete, and all of them, unless something was lost or torn. *)
New(d, st) == IF d \in Pads THEN {<<b, FALSE, FALSE>> : b \in st.raw \ st.state} ELSE {}
NamedSoFar(d, f, st) ==
  ("Torn" \notin doubt /\ d \notin torn /\ ~st.late /\ (d \notin dropping => Trace(d, f).fits)) =>
    /\ NamedBy(st.reports) \cup New(d, st) \subseteq seen \cup Presses(f)
    /\ (Len(st.reports) < MAXIMUM_CONTROL_REPORTS /\ "Lost" \notin doubt /\ dropping = {} /\ ~st.synced /\ ~st.dropping) =>
         seen \cup Presses(f) \subseteq NamedBy(st.reports) \cup New(d, st)

(* A key event of a device that has not lost any is named as it was meant. *)
LEMMA NamedKey ==
  ASSUME InputsAssumption, NEW d \in Paths, d \notin Touches, NEW e \in EventsOf(d), IsKey(e),
         NEW st \in ReadStates(d), NEW r \in ReadStates(d), Len(st.reports) <= MAXIMUM_CONTROL_REPORTS,
         Taking(d, st, e, r),
         NEW t, Fits(d, t, e), st.raw = t.held, ToldOf(d, st.state) = t.reported
  PROVE  /\ New(d, st) = {} /\ NamedBy(r.reports) \cup New(d, r) \subseteq NamedBy(st.reports) \cup Struck(e)
         /\ Len(r.reports) < MAXIMUM_CONTROL_REPORTS =>
              Len(st.reports) < MAXIMUM_CONTROL_REPORTS
              /\ NamedBy(st.reports) \cup Struck(e) \subseteq NamedBy(r.reports) \cup New(d, r)
<1>0. /\ e.code \in Buttons(d) /\ e.value \in {"Down", "Up", "Repeat"} /\ e.shifted \in BOOLEAN
      /\ e.value = "Repeat" => e.code \in {Arrow, Letter}
  BY EventKinds
<1>a. st.raw \in SUBSET Mask(d) /\ st.reports \in Seq(AllReports)
  BY DEF ReadStates
<1>b. /\ r.raw = IF e.code \in Mask(d) THEN Level(st.raw, e) ELSE st.raw
      /\ r.state = st.state
      /\ d \in Pads => r.reports = st.reports
      /\ d \in Keyboards => r.reports = IF Strikes(e)
                                         THEN queue_report(st.reports, KeyboardReport(e.code, st.raw # {}, e.value = "Repeat"))
                                         ELSE st.reports
  BY DEF Taking
<1>c. /\ e.shifted <=> Shift \in st.raw
      /\ (e.code \in Mask(d) /\ e.value = "Down") => e.code \notin st.raw
      /\ ToldOf(d, st.state) = ToldOf(d, st.raw)
  BY DEF Fits
<1>1. CASE d \in Pads
  <2>0. d \notin Keyboards /\ Mask(d) = {"A", "B"} /\ Buttons(d) = {"A", "B"} /\ Shift \notin {"A", "B"}
        /\ Arrow \notin {"A", "B"} /\ Letter \notin {"A", "B"}
    BY <1>1, Kinds
  <2>1. st.state = st.raw /\ r.state = st.raw /\ r.raw = Level(st.raw, e) /\ r.reports = st.reports
    BY <1>0, <1>1, <1>b, <1>c, <2>0 DEF ToldOf
  <2>2. New(d, st) = {}
    BY <2>1 DEF New
  <2>3. CASE e.value = "Down"
    <3>1. e.shifted = FALSE /\ e.code \notin st.raw /\ e.code # Shift
      BY <1>0, <1>a, <1>c, <2>0, <2>3
    <3>2. r.raw \ r.state = {e.code}
      BY <2>1, <2>3, <3>1 DEF Level
    <3>3. New(d, r) = {<<e.code, FALSE, FALSE>>}
      BY <1>1, <3>2 DEF New
    <3>4. Struck(e) = {<<e.code, FALSE, FALSE>>}
      BY <2>3, <3>1 DEF Struck, Strikes, StrokeOf
    <3> QED BY <2>1, <2>2, <3>3, <3>4
  <2>4. CASE e.value = "Up"
    <3>1. r.raw \ r.state = {}
      BY <2>1, <2>4 DEF Level
    <3>2. New(d, r) = {} /\ Struck(e) = {}
      BY <2>4, <3>1 DEF New, Struck, Strikes
    <3> QED BY <2>1, <2>2, <3>2
  <2> QED BY <1>0, <2>0, <2>3, <2>4
<1>2. CASE d \in Keyboards
  <2>0. d \notin Pads /\ Mask(d) = {Shift}
    BY <1>2, Kinds
  <2>1. New(d, st) = {} /\ New(d, r) = {}
    BY <2>0 DEF New
  <2>2. CASE Strikes(e)
    <3> DEFINE k == KeyboardReport(e.code, st.raw # {}, e.value = "Repeat")
    <3>1. (st.raw # {}) = e.shifted
      <4>1. st.raw # {} <=> Shift \in st.raw
        BY <1>a, <2>0
      <4> QED BY <1>0, <1>c, <4>1
    <3>2. k.value = {StrokeOf(e)}
      BY <3>1 DEF KeyboardReport, StrokeOf
    <3>3. k \in AllReports
      <4>1. e.code \in {"A", "B", Shift, Arrow, Letter}
        BY <1>0, <1>2, Kinds
      <4>2. StrokeOf(e) \in Strokes
        BY <1>0, <4>1 DEF StrokeOf, Strokes
      <4>3. k = [kind |-> "Keyboard", value |-> {StrokeOf(e)}]
        BY <3>1 DEF KeyboardReport, StrokeOf
      <4> QED BY <4>2, <4>3 DEF AllReports
    <3>4. r.reports = queue_report(st.reports, k)
      BY <1>2, <1>b, <2>2
    <3> HIDE DEF k
    <3>5. /\ Len(st.reports) <= Len(r.reports) /\ r.reports \in Seq(AllReports)
          /\ NamedBy(r.reports) \subseteq NamedBy(st.reports) \cup k.value
          /\ Len(r.reports) < MAXIMUM_CONTROL_REPORTS => NamedBy(r.reports) = NamedBy(st.reports) \cup k.value
      BY <1>a, <3>3, <3>4, Queued
    <3>6. Len(r.reports) \in Nat /\ Len(st.reports) \in Nat /\ MAXIMUM_CONTROL_REPORTS \in Nat
      BY <1>a, <3>5 DEF InputsAssumption
    <3> QED BY <2>1, <2>2, <3>2, <3>5, <3>6 DEF Struck
  <2>3. CASE ~Strikes(e)
    <3>1. r.reports = st.reports
      BY <1>2, <1>b, <2>3
    <3> QED BY <2>1, <2>3, <3>1 DEF Struck
  <2> QED BY <2>2, <2>3
<1> QED BY <1>1, <1>2, Kinds

(* A report names what its packet has pressed. *)
LEMMA NamedReport ==
  ASSUME InputsAssumption, NEW d \in Paths, d \notin Touches,
         NEW st \in ReadStates(d), NEW r \in ReadStates(d), Len(st.reports) <= MAXIMUM_CONTROL_REPORTS,
         r.raw = st.raw, d \notin Keyboards => r.state = st.raw,
         d \in Pads => r.reports = IF st.raw \subseteq st.state THEN st.reports
                                   ELSE queue_report(st.reports, GamepadReport(st.raw \ st.state)),
         d \in Keyboards => r.reports = st.reports
  PROVE  /\ New(d, r) = {} /\ NamedBy(r.reports) \subseteq NamedBy(st.reports) \cup New(d, st)
         /\ Len(r.reports) < MAXIMUM_CONTROL_REPORTS =>
              Len(st.reports) < MAXIMUM_CONTROL_REPORTS
              /\ NamedBy(st.reports) \cup New(d, st) \subseteq NamedBy(r.reports)
<1>a. st.raw \in SUBSET Mask(d) /\ st.reports \in Seq(AllReports)
  BY DEF ReadStates
<1>1. CASE d \in Pads
  <2>0. d \notin Keyboards /\ Mask(d) = {"A", "B"}
    BY <1>1, Kinds
  <2>1. New(d, r) = {}
    BY <2>0 DEF New
  <2>2. CASE st.raw \subseteq st.state
    <3>1. r.reports = st.reports
      BY <1>1, <2>2
    <3>2. New(d, st) = {}
      BY <2>2 DEF New
    <3> QED BY <2>1, <3>1, <3>2
  <2>3. CASE ~(st.raw \subseteq st.state)
    <3> DEFINE m == st.raw \ st.state
               k == GamepadReport(m)
    <3>1. r.reports = queue_report(st.reports, k)
      BY <1>1, <2>3
    <3>2. k \in AllReports /\ k.value = New(d, st)
      <4>1. m \subseteq {"A", "B"}
        BY <1>a, <2>0
      <4>2. New(d, st) = {<<b, FALSE, FALSE>> : b \in m}
        BY <1>1 DEF New
      <4> HIDE DEF m
      <4>3. \A b \in m : <<b, FALSE, FALSE>> \in Strokes
        BY <4>1 DEF Strokes
      <4>4. {<<b, FALSE, FALSE>> : b \in m} \in SUBSET Strokes
        BY <4>3
      <4> QED BY <4>2, <4>4 DEF GamepadReport, AllReports
    <3> HIDE DEF k
    <3>5. /\ Len(st.reports) <= Len(r.reports) /\ r.reports \in Seq(AllReports)
          /\ NamedBy(r.reports) \subseteq NamedBy(st.reports) \cup k.value
          /\ Len(r.reports) < MAXIMUM_CONTROL_REPORTS => NamedBy(r.reports) = NamedBy(st.reports) \cup k.value
      BY <1>a, <3>1, <3>2, Queued
    <3>6. Len(r.reports) \in Nat /\ Len(st.reports) \in Nat /\ MAXIMUM_CONTROL_REPORTS \in Nat
      BY <1>a, <3>5 DEF InputsAssumption
    <3> QED BY <2>1, <3>2, <3>5, <3>6
  <2> QED BY <2>2, <2>3
<1>2. CASE d \in Keyboards
  <2>0. d \notin Pads
    BY <1>2, Kinds
  <2>1. New(d, st) = {} /\ New(d, r) = {} /\ r.reports = st.reports
    BY <1>2, <2>0 DEF New
  <2> QED BY <2>1
<1> QED BY <1>1, <1>2, Kinds

(* The reports keep naming what is pressed. *)
LEMMA NamedOn ==
  ASSUME InputsAssumption, InputTypes, NEW d \in Paths, d \notin Touches, NEW f \in Seq(EventsOf(d)),
         NEW e \in EventsOf(d),
         e = Dropped => f = <<>>, NEW st \in ReadStates(d), ReadSoFar(d, f, st), NamedSoFar(d, f, st),
         NEW r \in ReadStates(d), r = Handle(d, st, e)
  PROVE  NamedSoFar(d, Append(f, e), r)
<1> DEFINE g == Append(f, e)
           t == Trace(d, f)
           u == Trace(d, g)
           all == seen \cup Presses(f)
<1>0. Outset(d) \in Tracks(d)
  <2>1. raw[d] \in SUBSET Mask(d) /\ ToldOf(d, state[d]) \in SUBSET Mask(d)
    BY DEF InputTypes, ToldOf
  <2> QED BY <2>1, FromFacts DEF Outset
<1>1. t \in Tracks(d) /\ u = Heeded(d, t, e)
  BY <1>0, TrackFacts DEF Trace
<1>2. seen \cup Presses(g) = all \cup Struck(e)
  BY PressesMore
<1>3. Report # Dropped /\ ~IsKey(Report) /\ ~IsKey(Dropped) /\ (~IsKey(e) => e = Dropped \/ e = Report)
  BY EventKinds
<1>4. st.dropping \in BOOLEAN /\ st.synced \in BOOLEAN /\ st.late \in BOOLEAN
  BY DEF ReadStates
<1>5. /\ Len(st.reports) <= MAXIMUM_CONTROL_REPORTS
      /\ (~st.synced /\ ~st.dropping) =>
           d \notin dropping /\ t.whole /\ st.raw = t.held /\ ToldOf(d, st.state) = t.reported
      /\ st.synced => ~st.dropping
      /\ st.late => st.synced
  BY DEF ReadSoFar
<1>6. ("Torn" \notin doubt /\ d \notin torn /\ ~st.late /\ (d \notin dropping => t.fits)) =>
        /\ NamedBy(st.reports) \cup New(d, st) \subseteq all
        /\ (Len(st.reports) < MAXIMUM_CONTROL_REPORTS /\ "Lost" \notin doubt /\ dropping = {} /\ ~st.synced /\ ~st.dropping) =>
             all \subseteq NamedBy(st.reports) \cup New(d, st)
  BY DEF NamedSoFar
<1>7. u.fits => t.fits
  <2> HIDE DEF t, u
  <2> QED BY ONLY <1>1, HeededFacts
<1>8. SUFFICES ASSUME "Torn" \notin doubt, d \notin torn, ~r.late, d \notin dropping => u.fits
               PROVE  /\ NamedBy(r.reports) \cup New(d, r) \subseteq all \cup Struck(e)
                      /\ (Len(r.reports) < MAXIMUM_CONTROL_REPORTS /\ "Lost" \notin doubt /\ dropping = {} /\ ~r.synced /\ ~r.dropping) =>
                           all \cup Struck(e) \subseteq NamedBy(r.reports) \cup New(d, r)
  <2> HIDE DEF all
  <2>1. NamedSoFar(d, g, r)
    <3> HIDE DEF g
    <3> QED BY <1>2, <1>8 DEF NamedSoFar, u
  <2> QED BY <2>1
<1> HIDE DEF g, t, u, all
<1>9. CASE st.dropping
  <2>1. ~st.synced /\ ~st.late
    BY <1>5, <1>9
  <2>2. NamedBy(st.reports) \cup New(d, st) \subseteq all
    BY <1>6, <1>7, <1>8, <2>1
  <2>3. CASE e = Report
    <3>1. r.raw = r.state /\ r.synced /\ r.reports = st.reports
      BY <1>9, <2>3, HandleResync
    <3>2. New(d, r) = {}
      BY <3>1 DEF New
    <3> QED BY <2>2, <3>1, <3>2
  <2>4. CASE e # Report
    <3>1. r = st
      BY <1>9, <2>4, HandleLoss
    <3> QED BY <1>9, <2>2, <3>1
  <2> QED BY <2>3, <2>4
<1>10. CASE ~st.dropping /\ e = Dropped
  <2>1. r = [st EXCEPT !.dropping = TRUE]
    BY <1>10, HandleLoss
  <2>2. r.dropping /\ r.late = st.late /\ r.reports = st.reports /\ r.raw = st.raw /\ r.state = st.state
    BY <2>1 DEF ReadStates
  <2>3. New(d, r) = New(d, st)
    BY <2>2 DEF New
  <2> QED BY <1>6, <1>7, <1>8, <2>2, <2>3
<1>11. CASE ~st.dropping /\ e # Dropped
  <2>1. Taking(d, st, e, r)
    BY <1>5, <1>11, HandleEvent
  <2>2. ~st.late /\ (r.synced <=> st.synced)
    BY <1>8, <2>1 DEF Taking
  <2>3. CASE IsKey(e)
    <3>1. ~st.synced
      BY <1>8, <2>1, <2>3 DEF Taking
    <3>2. d \notin dropping /\ t.whole /\ st.raw = t.held /\ ToldOf(d, st.state) = t.reported
      BY <1>5, <1>11, <3>1
    <3>3. t.fits /\ Fits(d, t, e)
      BY <1>1, <1>8, <1>11, <2>3, <3>2, HeededKey
    <3>6. /\ New(d, st) = {} /\ NamedBy(r.reports) \cup New(d, r) \subseteq NamedBy(st.reports) \cup Struck(e)
          /\ Len(r.reports) < MAXIMUM_CONTROL_REPORTS =>
               Len(st.reports) < MAXIMUM_CONTROL_REPORTS
               /\ NamedBy(st.reports) \cup Struck(e) \subseteq NamedBy(r.reports) \cup New(d, r)
      BY <1>5, <2>1, <2>3, <3>2, <3>3, NamedKey
    <3> QED BY <1>6, <1>8, <1>11, <2>2, <3>1, <3>3, <3>6
  <2>4. CASE ~IsKey(e)
    <3>1. e = Report /\ Struck(e) = {}
      BY <1>3, <1>11, <2>4 DEF Struck, Strikes
    <3>2. /\ r.raw = st.raw
          /\ d \notin Keyboards => r.state = st.raw
          /\ d \in Pads => r.reports = IF st.raw \subseteq st.state THEN st.reports
                                       ELSE queue_report(st.reports, GamepadReport(st.raw \ st.state))
          /\ d \in Keyboards => r.reports = st.reports
      BY <2>1, <2>4 DEF Taking, Strikes
    <3>3. /\ New(d, r) = {} /\ NamedBy(r.reports) \subseteq NamedBy(st.reports) \cup New(d, st)
          /\ Len(r.reports) < MAXIMUM_CONTROL_REPORTS =>
               Len(st.reports) < MAXIMUM_CONTROL_REPORTS
               /\ NamedBy(st.reports) \cup New(d, st) \subseteq NamedBy(r.reports)
      BY <1>5, <3>2, NamedReport
    <3> QED BY <1>6, <1>7, <1>8, <1>11, <2>2, <3>1, <3>3
  <2> QED BY <2>3, <2>4
<1> QED BY <1>9, <1>10, <1>11

-----------------------------------------------------------------------------
(* Touch reports.                                                          *)

(* A trail of touch reports, in turn, and the contact it leads to. *)
Trail(ts) ==
  \A i \in 1..Len(ts) :
    LET last == IF i = 1 THEN told # {} ELSE ts[i - 1].down
    IN  /\ ts[i].pressed <=> (ts[i].down /\ ~last)
        /\ ts[i].released <=> (~ts[i].down /\ last)
Contact(ts) == IF ts = <<>> THEN told # {} ELSE Last(ts).down

(* The trail goes on with the report of a move of the contact. *)
LEMMA TrailMore ==
  ASSUME NEW ts \in Seq(TouchReports), Trail(ts), NEW x, NEW y, (x # {}) = Contact(ts)
  PROVE  /\ Append(ts, TouchReport(x, y)) \in Seq(TouchReports) /\ Trail(Append(ts, TouchReport(x, y)))
         /\ (y # {}) = Contact(Append(ts, TouchReport(x, y)))
<1> DEFINE r == TouchReport(x, y)
           us == Append(ts, r)
           n == Len(ts)
<1>1. /\ r \in TouchReports /\ r.down = (y # {}) /\ (r.pressed <=> (y # {} /\ x = {}))
      /\ (r.released <=> (y = {} /\ x # {}))
  BY DEF TouchReport, TouchReports
<1> HIDE DEF r
<1>2. /\ n \in Nat /\ us \in Seq(TouchReports) /\ Len(us) = n + 1 /\ us[n + 1] = r /\ us # <<>>
      /\ (\A i \in 1..n : us[i] = ts[i]) /\ (n = 0 <=> ts = <<>>)
  BY <1>1
<1>3. Contact(us) = (y # {})
  BY <1>1, <1>2 DEF Contact, Last
<1>4. (x # {}) = IF n = 0 THEN told # {} ELSE ts[n].down
  BY <1>2 DEF Contact, Last
<1>5. \A i \in 1..n : LET last == IF i = 1 THEN told # {} ELSE ts[i - 1].down
                      IN  /\ ts[i].pressed <=> (ts[i].down /\ ~last)
                          /\ ts[i].released <=> (~ts[i].down /\ last)
  BY DEF Trail
<1> HIDE DEF us, n
<1>6. ASSUME NEW i \in 1..(n + 1)
      PROVE  LET last == IF i = 1 THEN told # {} ELSE us[i - 1].down
             IN  /\ us[i].pressed <=> (us[i].down /\ ~last)
                 /\ us[i].released <=> (~us[i].down /\ last)
  <2> DEFINE last == IF i = 1 THEN told # {} ELSE us[i - 1].down
  <2>1. CASE i \in 1..n
    <3>1. i # 1 => i - 1 \in 1..n
      BY <1>2, <2>1
    <3>2. last = IF i = 1 THEN told # {} ELSE ts[i - 1].down
      BY <1>2, <3>1
    <3> HIDE DEF last
    <3>3. us[i] = ts[i]
      BY <1>2, <2>1
    <3> QED BY <1>5, <2>1, <3>2, <3>3 DEF last
  <2>2. CASE i = n + 1
    <3>1. last = (x # {})
      <4>1. CASE n = 0
        BY <1>2, <1>4, <2>2, <4>1
      <4>2. CASE n # 0
        <5>1. i # 1 /\ i - 1 = n /\ n \in 1..n
          BY <1>2, <2>2, <4>2
        <5> QED BY <1>2, <1>4, <4>2, <5>1
      <4> QED BY <4>1, <4>2
    <3> HIDE DEF last
    <3>2. us[i] = r
      BY <1>2, <2>2
    <3>3. us[i].pressed <=> (us[i].down /\ ~last)
      BY <1>1, <3>1, <3>2
    <3>4. us[i].released <=> (~us[i].down /\ last)
      BY <1>1, <3>1, <3>2
    <3> QED BY <3>3, <3>4 DEF last
  <2>3. i \in 1..n \/ i = n + 1
    BY <1>2
  <2> QED BY <2>1, <2>2, <2>3
<1>7. Trail(us)
  BY <1>2, <1>6 DEF Trail
<1> QED BY <1>2, <1>3, <1>7 DEF us, r

(* While a batch of the touchscreen is read its trail leads to what was reported;
   that of another device reports no touch. *)
TouchSoFar(d, st) ==
  IF d \in Touches
  THEN Trail(st.touches) /\ (st.state # {}) = Contact(st.touches) /\ st.reports = reports
  ELSE st.touches = touches

(* Reading on follows it. *)
LEMMA TouchOn ==
  ASSUME InputsAssumption, InputTypes, NEW d \in Paths, NEW e \in EventsOf(d), NEW st \in ReadStates(d),
         Len(st.reports) <= MAXIMUM_CONTROL_REPORTS, TouchSoFar(d, st), NEW r \in ReadStates(d),
         r = Handle(d, st, e)
  PROVE  TouchSoFar(d, r)
<1>1. Report # Dropped /\ ~IsKey(Report) /\ ~IsKey(Dropped) /\ (~IsKey(e) => e = Dropped \/ e = Report)
  BY EventKinds
<1>2. st.touches \in Seq(TouchReports)
  BY DEF ReadStates
<1>3. CASE d \in Touches
  <2>0. Trail(st.touches) /\ (st.state # {}) = Contact(st.touches) /\ st.reports = reports
    BY <1>3 DEF TouchSoFar
  <2>1. \/ r.touches = st.touches /\ r.state = st.state
        \/ r.touches = Append(st.touches, TouchReport(st.state, r.raw)) /\ r.state = r.raw
    <3>1. CASE st.dropping /\ e = Report
      <4>1. r.raw = r.state
        BY <3>1, HandleResync
      <4>2. r.touches = Append(st.touches, TouchReport(st.state, r.raw))
        BY <1>3, <3>1, HandleResync
      <4> QED BY <4>1, <4>2
    <3>2. CASE st.dropping /\ e # Report
      BY <3>2, HandleLoss
    <3>3. CASE ~st.dropping /\ e = Dropped
      <4>1. r = [st EXCEPT !.dropping = TRUE]
        BY <3>3, HandleLoss
      <4> QED BY <4>1 DEF ReadStates
    <3>4. CASE ~st.dropping /\ e # Dropped
      <4>1. Taking(d, st, e, r) /\ d \notin Keyboards
        BY <1>3, <3>4, HandleEvent, Kinds
      <4> QED BY <1>3, <4>1 DEF Taking
    <3> QED BY <3>1, <3>2, <3>3, <3>4
  <2>2. r.reports = st.reports
    <3>1. CASE st.dropping /\ e = Report
      BY <3>1, HandleResync
    <3>2. CASE st.dropping /\ e # Report
      BY <3>2, HandleLoss
    <3>3. CASE ~st.dropping /\ e = Dropped
      <4>1. r = [st EXCEPT !.dropping = TRUE]
        BY <3>3, HandleLoss
      <4> QED BY <4>1 DEF ReadStates
    <3>4. CASE ~st.dropping /\ e # Dropped
      <4>1. Taking(d, st, e, r)
        BY <3>4, HandleEvent
      <4> QED BY <1>3, <4>1 DEF Taking
    <3> QED BY <3>1, <3>2, <3>3, <3>4
  <2>3. Trail(r.touches) /\ (r.state # {}) = Contact(r.touches)
    <3> DEFINE ts == st.touches
               x == st.state
               y == r.raw
    <3>0. ts \in Seq(TouchReports) /\ Trail(ts) /\ (x # {}) = Contact(ts)
      BY <1>2, <2>0
    <3>1. CASE r.touches = Append(st.touches, TouchReport(st.state, r.raw)) /\ r.state = r.raw
      <4>1. r.touches = Append(ts, TouchReport(x, y)) /\ r.state = y
        BY <3>1
      <4> HIDE DEF ts, x, y
      <4>2. Trail(Append(ts, TouchReport(x, y))) /\ (y # {}) = Contact(Append(ts, TouchReport(x, y)))
        BY <3>0, TrailMore
      <4> QED BY <4>1, <4>2
    <3> QED BY <2>0, <2>1, <3>1
  <2> QED BY <1>3, <2>0, <2>2, <2>3 DEF TouchSoFar
<1>4. CASE d \notin Touches
  <2>0. st.touches = touches
    BY <1>4 DEF TouchSoFar
  <2>1. r.touches = st.touches
    <3>1. CASE st.dropping /\ e = Report
      BY <1>4, <3>1, HandleResync
    <3>2. CASE st.dropping /\ e # Report
      BY <3>2, HandleLoss
    <3>3. CASE ~st.dropping /\ e = Dropped
      <4>1. r = [st EXCEPT !.dropping = TRUE]
        BY <3>3, HandleLoss
      <4> QED BY <4>1 DEF ReadStates
    <3>4. CASE ~st.dropping /\ e # Dropped
      <4>1. Taking(d, st, e, r)
        BY <3>4, HandleEvent
      <4> QED BY <1>4, <4>1 DEF Taking
    <3> QED BY <3>1, <3>2, <3>3, <3>4
  <2> QED BY <1>4, <2>0, <2>1 DEF TouchSoFar
<1> QED BY <1>3, <1>4

(* The reader at the start of a batch. *)
ReaderOf(d) ==
  [raw |-> raw[d], state |-> state[d], dropping |-> d \in dropping, synced |-> FALSE,
   late |-> FALSE, reports |-> reports, touches |-> touches]

(* What holds while a batch is read. *)
Knows(d, f, st) ==
  /\ st \in ReadStates(d) /\ ReadSoFar(d, f, st) /\ TouchSoFar(d, st)
  /\ d \notin Touches => NamedSoFar(d, f, st)

(* It holds before the first event. *)
LEMMA KnowsFirst ==
  ASSUME InputsAssumption, InputTypes, NamedKept, Packets, TouchFollowed, NEW d \in Paths, Turn(d),
         handle[d] # "None",
         NEW st, st = ReaderOf(d)
  PROVE  Knows(d, <<>>, st)
<1>1. /\ raw[d] \in SUBSET Mask(d) /\ state[d] \in SUBSET Mask(d) /\ reports \in Seq(AllReports)
      /\ touches \in Seq(TouchReports)
  BY DEF InputTypes
<1> DEFINE b == d \in dropping
<1>2. b \in BOOLEAN /\ st = [raw |-> raw[d], state |-> state[d], dropping |-> b, synced |-> FALSE,
                             late |-> FALSE, reports |-> reports, touches |-> touches]
  BY DEF ReaderOf
<1>3. /\ st \in ReadStates(d) /\ st.raw = raw[d] /\ st.state = state[d] /\ st.dropping = b /\ ~st.synced
      /\ ~st.late /\ st.reports = reports /\ st.touches = touches
  <2> HIDE DEF b
  <2> QED BY <1>1, <1>2 DEF ReadStates
<1>4. Trace(d, <<>>).whole /\ Trace(d, <<>>).held = raw[d] /\ Trace(d, <<>>).reported = ToldOf(d, state[d])
  <2>1. ToldOf(d, state[d]) \in SUBSET Mask(d)
    BY <1>1 DEF ToldOf
  <2>2. /\ Outset(d) \in Tracks(d) /\ Outset(d).whole /\ Outset(d).held = raw[d]
        /\ Outset(d).reported = ToldOf(d, state[d])
    <3> DEFINE x == raw[d]
               y == ToldOf(d, state[d])
    <3>1. x \in SUBSET Mask(d) /\ y \in SUBSET Mask(d) /\ Outset(d) = From(x, y)
      BY <1>1, <2>1 DEF Outset
    <3> HIDE DEF x, y
    <3>2. Outset(d) \in Tracks(d) /\ Outset(d).whole /\ Outset(d).held = x /\ Outset(d).reported = y
      BY <3>1, FromFacts
    <3> QED BY <3>2 DEF x, y
  <2>3. Trace(d, <<>>) = Outset(d)
    BY <2>2, TrackFacts DEF Trace
  <2> QED BY <2>2, <2>3
<1>5. ReadSoFar(d, <<>>, st)
  BY <1>3, <1>4 DEF ReadSoFar, NamedKept
<1>6. TouchSoFar(d, st)
  <2>1. CASE d \in Touches
    <3>1. /\ \A i \in 1..Len(touches) :
               LET last == IF i = 1 THEN told # {} ELSE touches[i - 1].down
               IN  /\ touches[i].pressed <=> (touches[i].down /\ ~last)
                   /\ touches[i].released <=> (~touches[i].down /\ last)
          /\ (state[d] # {}) = (IF touches = <<>> THEN told # {} ELSE Last(touches).down)
      BY <2>1 DEF TouchFollowed
    <3>2. Trail(touches) /\ (state[d] # {}) = Contact(touches)
      BY <3>1 DEF Trail, Contact
    <3> QED BY <1>3, <2>1, <3>2 DEF TouchSoFar
  <2>2. CASE d \notin Touches
    BY <1>3, <2>2 DEF TouchSoFar
  <2> QED BY <2>1, <2>2
<1>7. ASSUME d \notin Touches PROVE NamedSoFar(d, <<>>, st)
  <2>1. New(d, st) \subseteq Fresh
    BY <1>3 DEF New, Fresh
  <2>2. ASSUME dropping = {} PROVE Fresh \subseteq New(d, st)
    <3>1. ASSUME NEW c \in Pads, c # d PROVE raw[c] = state[c]
      <4>1. c \in Paths /\ c \notin Keyboards /\ ~Turn(c)
        BY <3>1, Kinds DEF Turn, Paths
      <4> QED BY <2>2, <4>1 DEF Packets, Complete
    <3>2. ASSUME NEW x \in Fresh PROVE x \in New(d, st)
      <4>1. PICK c \in Pads : \E b1 \in raw[c] \ state[c] : x = <<b1, FALSE, FALSE>>
        BY <3>2 DEF Fresh
      <4>2. c = d
        BY <3>1, <4>1
      <4> QED BY <1>3, <4>1, <4>2 DEF New
    <3> QED BY <3>2
  <2>3. "Torn" \notin doubt =>
          /\ NamedBy(reports) \cup Fresh \subseteq seen
          /\ (Len(reports) < MAXIMUM_CONTROL_REPORTS /\ "Lost" \notin doubt /\ dropping = {}) =>
               seen \subseteq NamedBy(reports) \cup Fresh
    BY DEF NamedKept
  <2> QED BY <1>3, <2>1, <2>2, <2>3, NoPresses DEF NamedSoFar
<1> QED BY <1>3, <1>5, <1>6, <1>7 DEF Knows

(* Each event keeps it. *)
LEMMA KnowsMore ==
  ASSUME InputsAssumption, InputTypes, NEW d \in Paths, NEW f \in Seq(EventsOf(d)), NEW e \in EventsOf(d),
         e = Dropped => f = <<>>, NEW st, Knows(d, f, st), NEW r, r = Handle(d, st, e)
  PROVE  Knows(d, Append(f, e), r)
<1>1. /\ st \in ReadStates(d) /\ ReadSoFar(d, f, st) /\ TouchSoFar(d, st)
      /\ d \notin Touches => NamedSoFar(d, f, st)
  BY DEF Knows
<1>2. r \in ReadStates(d) /\ ReadSoFar(d, Append(f, e), r)
  BY <1>1, ReadOn
<1>3. Len(st.reports) <= MAXIMUM_CONTROL_REPORTS
  BY <1>1 DEF ReadSoFar
<1>4. TouchSoFar(d, r)
  BY <1>1, <1>2, <1>3, TouchOn
<1>5. d \notin Touches => NamedSoFar(d, Append(f, e), r)
  BY <1>1, <1>2, NamedOn
<1> QED BY <1>2, <1>4, <1>5 DEF Knows

(* So a batch does. *)
LEMMA ReadAfter ==
  ASSUME InputsAssumption, InputTypes, NamedKept, Packets, TouchFollowed, NEW d \in Paths, Turn(d),
         handle[d] # "None",
         NEW s \in Seq(EventsOf(d)), LossFirst(s),
         NEW st0, st0 = ReaderOf(d), NEW r, r = A!Fold(d, st0, s)
  PROVE  Knows(d, s, r)
<1> DEFINE E == EventsOf(d)
           All == {A!Fold(d, st0, f) : f \in Seq(E)}
           R == {z \in Seq(E) \X All : LossFirst(z[1]) => Knows(d, z[1], z[2])}
<1>1. << <<>>, st0 >> \in R
  <2>1. Knows(d, <<>>, st0)
    BY KnowsFirst
  <2>2. st0 = A!Fold(d, st0, <<>>)
    BY ONLY A!FoldEmpty
  <2>4. <<>> \in Seq(E)
    OBVIOUS
  <2>3. st0 \in All
    BY <2>2, <2>4
  <2> QED BY <2>1, <2>3, <2>4
<1>2. ASSUME NEW f \in Seq(E), NEW e \in E, NEW y, <<f, y>> \in R
      PROVE  <<Append(f, e), ReadOne(d, y, e)>> \in R
  <2>1. y \in All /\ (LossFirst(f) => Knows(d, f, y))
    BY <1>2
  <2>2. Append(f, e) \in Seq(E) /\ (LossFirst(Append(f, e)) <=> (LossFirst(f) /\ (e = Dropped => f = <<>>)))
    BY OneMore
  <2>3. ReadOne(d, y, e) \in All
    <3>1. PICK h \in Seq(E) : y = A!Fold(d, st0, h)
      BY <2>1
    <3>2. Append(h, e) \in Seq(E) /\ ReadOne(d, y, e) = A!Fold(d, st0, Append(h, e))
      BY <3>1, A!FoldAppend
    <3> QED BY <3>2
  <2>4. LossFirst(Append(f, e)) => Knows(d, Append(f, e), ReadOne(d, y, e))
    <3>1. ASSUME LossFirst(Append(f, e)) PROVE Knows(d, Append(f, e), ReadOne(d, y, e))
      <4>1. Knows(d, f, y) /\ (e = Dropped => f = <<>>)
        BY <2>1, <2>2, <3>1
      <4>2. ReadOne(d, y, e) = Handle(d, y, e)
        BY ReadOneIs
      <4> QED BY <4>1, <4>2, KnowsMore
    <3> QED BY <3>1
  <2> HIDE DEF All
  <2> QED BY <2>2, <2>3, <2>4
<1> HIDE DEF R
<1>3. <<s, A!Fold(d, st0, s)>> \in R
  BY <1>1, <1>2, A!FoldInduction
<1> QED BY <1>3 DEF R

-----------------------------------------------------------------------------
(* Choosing among devices.                                                 *)

(* The first n of a set of devices are no more than n: each of them has its own
   number of predecessors below n. *)
LEMMA FirstFew ==
  ASSUME InputsAssumption, NEW S \in SUBSET Paths, NEW n \in Nat, NEW byNode \in BOOLEAN,
         node \in [Paths -> Nodes \cup {0}],
         byNode => \A d, e \in S : d # e => node[d] # node[e]
  PROVE  First(S, n, byNode) \in SUBSET S /\ IsFiniteSet(First(S, n, byNode))
         /\ Cardinality(First(S, n, byNode)) <= n
<1> DEFINE F == First(S, n, byNode)
           key == [d \in S |-> IF byNode THEN node[d] ELSE d]
           below == [d \in S |-> {e \in S : key[e] < key[d]}]
           c == [d \in S |-> Cardinality(below[d])]
<1>1. IsFiniteSet(S) /\ S \subseteq Nat /\ \A d \in S : node[d] \in Nat
  <2>1. IsFiniteSet(Paths) /\ Paths \subseteq Nat /\ Nodes \subseteq Nat
    BY DEF InputsAssumption
  <2>2. IsFiniteSet(S)
    BY ONLY <2>1, FS_Subset, S \in SUBSET Paths
  <2>3. ASSUME NEW d \in S PROVE node[d] \in Nat
    <3>1. d \in Paths
      BY <2>3
    <3>2. node[d] \in Nodes \cup {0}
      BY ONLY <3>1, node \in [Paths -> Nodes \cup {0}]
    <3>3. \A k \in Nodes \cup {0} : k \in Nat
      <4>1. \A k \in Nodes : k \in Nat
        BY <2>1
      <4> QED BY ONLY <4>1
    <3> QED BY ONLY <3>2, <3>3
  <2> QED BY <2>1, <2>2, <2>3
<1>2. \A d \in S : key[d] \in Nat
  BY <1>1
<1>3. \A d, e \in S : d # e => key[d] # key[e]
  BY <1>1
<1>4. F = {d \in S : c[d] < n}
  BY DEF First, Before
<1> HIDE DEF key
<1>5. \A d \in S : below[d] \in SUBSET S
  OBVIOUS
<1>6. \A d \in S : IsFiniteSet(below[d]) /\ c[d] \in Nat
  BY <1>1, <1>5, FS_Subset, FS_CardinalityType
<1>7. ASSUME NEW d \in S, NEW e \in S, key[d] < key[e] PROVE c[d] < c[e]
  <2>1. below[d] \in SUBSET below[e]
    BY <1>2, <1>7
  <2>2. d \in below[e] /\ d \notin below[d]
    BY <1>2, <1>7
  <2>3. IsFiniteSet(below[d]) /\ IsFiniteSet(below[e]) /\ c[d] = Cardinality(below[d])
        /\ c[e] = Cardinality(below[e])
        /\ c[d] \in Nat /\ c[e] \in Nat
    BY <1>6
  <2> HIDE DEF below, c
  <2>4. Cardinality(below[d]) <= Cardinality(below[e])
        /\ (Cardinality(below[e]) = Cardinality(below[d]) => below[e] = below[d])
    BY <2>1, <2>3, FS_Subset
  <2> QED BY <2>2, <2>3, <2>4
<1>8. \A d, e \in S : d # e => c[d] # c[e]
  <2>1. SUFFICES ASSUME NEW d \in S, NEW e \in S, d # e PROVE c[d] # c[e]
    OBVIOUS
  <2>2. key[d] < key[e] \/ key[e] < key[d]
    BY <1>2, <1>3, <2>1
  <2>3. c[d] \in Nat /\ c[e] \in Nat
    BY <1>6
  <2> HIDE DEF c, below
  <2> QED BY <1>7, <2>2, <2>3
<1>9. F \in SUBSET S /\ IsFiniteSet(F)
  BY <1>1, <1>4, FS_Subset
<1>10. ASSUME ~(Cardinality(F) <= n) PROVE FALSE
  <2> DEFINE N == 0..(n - 1)
             f == [d \in F |-> c[d]]
  <2>1. IsFiniteSet(N) /\ Cardinality(N) = n
    <3>1. 0 \in Int /\ n - 1 \in Int
      OBVIOUS
    <3>2. IsFiniteSet(0..(n - 1)) /\ Cardinality(0..(n - 1)) = IF 0 > n - 1 THEN 0 ELSE (n - 1) - 0 + 1
      BY ONLY <3>1, FS_Interval
    <3> QED BY <3>2
  <2>2. f \in [F -> N]
    <3>1. ASSUME NEW x \in F PROVE c[x] \in N
      <4>1. x \in S /\ c[x] < n /\ c[x] \in Nat
        BY <1>4, <1>6, <3>1
      <4> HIDE DEF c
      <4> QED BY <4>1
    <3> HIDE DEF c, F, N
    <3> QED BY <3>1
  <2>3. Cardinality(F) \in Nat
    BY <1>9, FS_CardinalityType
  <2> HIDE DEF F, N, f
  <2>4. \E x, y \in F : x # y /\ f[x] = f[y]
    BY <1>9, <1>10, <2>1, <2>2, <2>3, FS_PigeonHole
  <2>5. \A x \in F : f[x] = c[x]
    BY DEF f
  <2> QED BY <1>8, <1>9, <2>4, <2>5
<1> QED BY <1>9, <1>10

(* The device whose turn it is is one of those that are ready. *)
LEMMA CurrentReady ==
  ASSUME InputsAssumption, ready \in SUBSET Paths, ready # {} PROVE Current \in ready
<1> DEFINE Ranks == {Rank(d) : d \in ready}
<1>1. \A d \in ready : Rank(d) \in Nat /\ d \in Nat
  BY DEF Rank, InputsAssumption
<1>2. Ranks \in SUBSET Nat /\ Ranks # {}
  BY <1>1
<1>3. PICK m \in Ranks : \A k \in Ranks : m <= k
  <2> HIDE DEF Ranks
  <2> QED BY <1>2, T!LeastNat
<1> DEFINE Least == {d \in ready : Rank(d) = m}
<1>4. Least \in SUBSET Nat /\ Least # {}
  BY <1>1
<1>5. PICK d \in Least : \A e \in Least : d <= e
  <2> HIDE DEF Least
  <2> QED BY <1>4, T!LeastNat
<1>6. ASSUME NEW e \in ready PROVE Rank(d) < Rank(e) \/ (Rank(d) = Rank(e) /\ d <= e)
  <2>1. Rank(d) = m /\ m \in Nat /\ Rank(e) \in Nat /\ m <= Rank(e)
    BY <1>1, <1>3, <1>5
  <2>2. Rank(e) = m => d <= e
    BY <1>5
  <2> QED BY <2>1, <2>2
<1> QED BY <1>5, <1>6 DEF Current

-----------------------------------------------------------------------------
(* Handles are replaced.                                                   *)

(* A snapshot is what is tracked of a device. *)
LEMMA SnapshotSame ==
  ASSUME held' = held PROVE \A d : Snapshot(d)' = Snapshot(d)
BY DEF Snapshot

(* Nothing, and then some, is some. *)
LEMMA OnlyRest == ASSUME NEW Q, NEW q \in Seq(Q) PROVE <<>> \o q = q /\ <<>> \in Seq(Q)
OBVIOUS

(* What a replacement does to a device: it is opened, closed or kept. *)
IsNew(d, old) ==
  /\ handle'[d] = "Live" /\ at'[d] = node[d] /\ queue'[d] = <<>> /\ raw'[d] = Snapshot(d)
     /\ state'[d] = Snapshot(d)
  /\ d \notin dropping' /\ d \notin torn'
  /\ d \notin Pads => grabbed'[d] = ~(grabbed[d] /\ d \notin old)
  /\ d \in Pads => grabbed'[d] = (grabbed[d] /\ d \notin old)
IsClosed(d) ==
  /\ handle'[d] = "None" /\ at'[d] = 0 /\ queue'[d] = <<>> /\ raw'[d] = {} /\ state'[d] = {}
     /\ grabbed'[d] = FALSE
  /\ d \notin dropping' /\ d \notin torn'
IsKept(d) ==
  /\ handle'[d] = handle[d] /\ at'[d] = at[d] /\ queue'[d] = queue[d] /\ raw'[d] = raw[d]
     /\ state'[d] = state[d]
  /\ grabbed[d] \in BOOLEAN => grabbed'[d] = grabbed[d]
  /\ (d \in dropping' <=> d \in dropping) /\ (d \in torn' <=> d \in torn)

(* A replacement opens, closes or keeps each device. *)
LEMMA ReplacedOne ==
  ASSUME NEW old, NEW new, Replace(old, new), NEW d \in Paths
  PROVE  /\ d \in new => IsNew(d, old)
         /\ (d \in old /\ d \notin new) => IsClosed(d)
         /\ (d \notin old /\ d \notin new) => IsKept(d)
<1>1. /\ handle' = [c \in Paths |-> IF c \in new THEN "Live" ELSE IF c \in old THEN "None" ELSE handle[c]]
      /\ at' = [c \in Paths |-> IF c \in new THEN node[c] ELSE IF c \in old THEN 0 ELSE at[c]]
      /\ queue' = [c \in Paths |-> IF c \in old \cup new THEN <<>> ELSE queue[c]]
      /\ raw' = [c \in Paths |-> IF c \in new THEN Snapshot(c) ELSE IF c \in old THEN {} ELSE raw[c]]
      /\ state' = [c \in Paths |-> IF c \in new THEN Snapshot(c) ELSE IF c \in old THEN {} ELSE state[c]]
      /\ dropping' = dropping \ (old \cup new) /\ torn' = torn \ (old \cup new)
  BY DEF Replace
<1>2. grabbed' = [c \in Paths |-> IF c \in new /\ c \notin Pads THEN ~(grabbed[c] /\ c \notin old) ELSE grabbed[c] /\ c \notin old]
  BY DEF Replace, NoGrab
<1>3. /\ d \in new /\ d \notin Pads => grabbed'[d] = ~(grabbed[d] /\ d \notin old)
      /\ ~(d \in new /\ d \notin Pads) => grabbed'[d] = (grabbed[d] /\ d \notin old)
  BY <1>2, Zenon
<1>4. (d \in old /\ d \notin new) => grabbed'[d] = FALSE
  BY <1>3
<1>5. (d \notin old /\ d \notin new /\ grabbed[d] \in BOOLEAN) => grabbed'[d] = grabbed[d]
  BY <1>3
<1>6. d \in new => IsNew(d, old)
  BY <1>1, <1>3 DEF IsNew
<1>7. (d \in old /\ d \notin new) => IsClosed(d)
  BY <1>1, <1>4 DEF IsClosed
<1>8. (d \notin old /\ d \notin new) => IsKept(d)
  BY <1>1, <1>5 DEF IsKept
<1> QED BY <1>6, <1>7, <1>8

(* The rest of the thread goes on with devices that are complete. *)
LEMMA Replaced ==
  ASSUME InputsAssumption, InputTypes, Handles, Queues, InStepAll,
         NEW old \in SUBSET Opened, NEW new \in SUBSET Present(Paths), new \cap Opened \subseteq old,
         Replace(old, new), UNCHANGED usedVars, batch' = <<>>,
         \A d \in Paths \ (old \cup new) : Mine(d) = <<>> /\ Complete(d),
         reports' \in Seq(AllReports), touches' \in Seq(TouchReports), rescan_requested' \in BOOLEAN,
         phase' \in {"Idle", "Reading", "Told"}, ready' \in SUBSET Paths,
         Cardinality(((Opened \ old) \cup new) \cap Pads) <= MAXIMUM_GAMEPADS,
         Cardinality(((Opened \ old) \cup new) \cap Keyboards) <= MAXIMUM_KEYBOARDS
  PROVE  /\ InputTypes' /\ Handles' /\ Queues' /\ Packets' /\ InStepAll'
         /\ \A d \in Paths : Complete(d)'
         /\ Opened' = (Opened \ old) \cup new
<1>1. scope' = scope /\ node' = node /\ held' = held
  BY DEF usedVars
<1>2. old \subseteq Paths /\ new \subseteq Paths /\ \A d \in new : node[d] # 0
  BY DEF Opened, Present
<1>3. \A d \in Paths : Snapshot(d)' = Snapshot(d) /\ Snapshot(d) \in SUBSET Mask(d)
  BY <1>1, SnapshotMasked, SnapshotSame
<1>4. \A d \in Paths : Mine(d)' = <<>>
  BY DEF Mine
<1>a. ASSUME NEW d \in Paths
      PROVE  /\ d \in new => IsNew(d, old)
             /\ (d \in old /\ d \notin new) => IsClosed(d)
             /\ (d \notin old /\ d \notin new) => IsKept(d)
  BY <1>a, ReplacedOne
<1>b. \A d \in Paths : grabbed[d] \in BOOLEAN
  BY DEF InputTypes
<1>5. Opened' = (Opened \ old) \cup new
  <2>1. ASSUME NEW d \in Paths PROVE handle'[d] # "None" <=> (d \in (Opened \ old) \cup new)
    BY <1>a, <2>1 DEF Opened, IsNew, IsClosed, IsKept
  <2> QED BY <1>2, <2>1 DEF Opened
<1>6. \A d \in Paths : Complete(d)'
  <2>1. SUFFICES ASSUME NEW d \in Paths PROVE d \notin dropping'
                        /\ (d \notin Keyboards => raw'[d] = state'[d])
    BY DEF Complete
  <2>2. CASE d \in old \cup new
    BY <1>a, <2>1, <2>2 DEF IsNew, IsClosed
  <2>3. CASE d \notin old \cup new
    BY <1>a, <2>1, <2>3 DEF Complete, IsKept
  <2> QED BY <2>2, <2>3
<1>7. ASSUME NEW d \in Paths
      PROVE  /\ handle'[d] \in {"None", "Live", "Dead"} /\ at'[d] \in Nodes \cup {0}
                /\ grabbed'[d] \in BOOLEAN
             /\ raw'[d] \in SUBSET Mask(d) /\ state'[d] \in SUBSET Mask(d) /\ queue'[d] \in Seq(EventsOf(d))
             /\ LossFirst(queue'[d]) /\ Ends(queue'[d]) /\ Len(queue'[d]) <= Capacity
             /\ handle'[d] # "Live" => queue'[d] = <<>>
             /\ handle'[d] = "Live" => node[d] # 0 /\ at'[d] = node[d]
             /\ grabbed'[d] => handle'[d] # "None"
             /\ (d \notin Pads /\ handle'[d] = "Live") => grabbed'[d]
  <2>1. /\ handle[d] \in {"None", "Live", "Dead"} /\ at[d] \in Nodes \cup {0} /\ grabbed[d] \in BOOLEAN
        /\ raw[d] \in SUBSET Mask(d) /\ state[d] \in SUBSET Mask(d) /\ queue[d] \in Seq(EventsOf(d))
        /\ node[d] \in Nodes \cup {0}
    BY DEF InputTypes
  <2>2. /\ LossFirst(queue[d]) /\ Ends(queue[d]) /\ Len(queue[d]) <= Capacity
        /\ handle[d] # "Live" => queue[d] = <<>>
    BY DEF Queues
  <2>3. /\ handle[d] = "Live" => node[d] # 0 /\ at[d] = node[d]
        /\ grabbed[d] => handle[d] # "None"
        /\ (d \notin Pads /\ handle[d] = "Live") => grabbed[d]
    BY DEF Handles, GrabHeld
  <2>4. LossFirst(<<>>) /\ Ends(<<>>) /\ Len(<<>>) <= Capacity /\ <<>> \in Seq(EventsOf(d))
    BY DEF LossFirst, Ends, InputsAssumption
  <2>5. CASE d \in new
    <3>1. /\ handle'[d] = "Live" /\ at'[d] = node[d] /\ queue'[d] = <<>> /\ raw'[d] = Snapshot(d)
             /\ state'[d] = Snapshot(d)
          /\ (d \notin Pads => grabbed'[d] = ~(grabbed[d] /\ d \notin old))
          /\ (d \in Pads => grabbed'[d] = (grabbed[d] /\ d \notin old))
      BY <1>a, <1>7, <2>5 DEF IsNew
    <3>2. grabbed[d] => d \in old
      BY <2>3, <2>5 DEF Opened
    <3>3. grabbed'[d] \in BOOLEAN /\ (d \notin Pads => grabbed'[d])
      BY <3>1, <3>2
    <3> QED BY <1>2, <1>3, <2>1, <2>4, <2>5, <3>1, <3>3
  <2>6. CASE d \in old \ new
    BY <1>a, <1>7, <2>4, <2>6 DEF IsClosed
  <2>7. CASE d \notin old \cup new
    BY <1>a, <1>7, <2>1, <2>2, <2>3, <2>7 DEF IsKept
  <2> QED BY <2>5, <2>6, <2>7
<1>8. DOMAIN handle' = Paths /\ DOMAIN at' = Paths /\ DOMAIN grabbed' = Paths /\ DOMAIN raw' = Paths
      /\ DOMAIN state' = Paths
      /\ DOMAIN queue' = Paths /\ dropping' \in SUBSET Paths /\ torn' \in SUBSET Paths
      /\ handle' = [d \in Paths |-> handle'[d]] /\ at' = [d \in Paths |-> at'[d]]
         /\ grabbed' = [d \in Paths |-> grabbed'[d]]
  BY DEF Replace, InputTypes
<1>9. InputTypes'
  <2>1. handle' \in [Paths -> {"None", "Live", "Dead"}] /\ at' \in [Paths -> Nodes \cup {0}]
        /\ grabbed' \in [Paths -> BOOLEAN]
    BY <1>7, <1>8
  <2>2. \A d \in Paths : Mine(d)' \in Seq(EventsOf(d)) /\ held'[d] \in SUBSET Buttons(d)
    <3>1. \A d \in Paths : <<>> \in Seq(EventsOf(d))
      BY <1>7, OnlyRest
    <3>2. \A d \in Paths : held[d] \in SUBSET Buttons(d)
      BY DEF InputTypes
    <3> QED BY <1>1, <1>4, <3>1, <3>2
  <2>3. scope' \in Scopes /\ node' \in [Paths -> Nodes \cup {0}] /\ DOMAIN held' = Paths
    BY <1>1 DEF InputTypes
  <2> QED BY <1>7, <1>8, <2>1, <2>2, <2>3 DEF InputTypes
<1>10. Handles'
  <2>1. \A d, e \in Paths : (d # e /\ node'[d] # 0) => node'[d] # node'[e]
    BY <1>1 DEF Handles
  <2>2. \A d \in Paths : handle'[d] = "Live" => node'[d] # 0 /\ at'[d] = node'[d]
    BY <1>1, <1>7
  <2>3. \A d \in Paths : grabbed'[d] => handle'[d] # "None"
    BY <1>7
  <2>4. \A d \in Paths \ Pads : handle'[d] = "Live" => grabbed'[d]
    BY <1>7
  <2>5. Cardinality(Opened' \cap Pads) <= MAXIMUM_GAMEPADS
        /\ Cardinality(Opened' \cap Keyboards) <= MAXIMUM_KEYBOARDS
    BY <1>5
  <2> QED BY <2>1, <2>2, <2>3, <2>4, <2>5 DEF Handles, GrabHeld
<1>11. Queues'
  BY <1>7 DEF Queues
<1>12. Packets'
  BY <1>6 DEF Packets
<1>13. InStepAll'
  <2>1. SUFFICES ASSUME NEW d \in Paths, d \notin dropping', d \notin torn'
                 PROVE  /\ Track(d, From(raw'[d], ToldOf(d, state'[d])), Coming(d)').fits
                        /\ handle'[d] = "Live" => Agrees(d, raw'[d], ToldOf(d, state'[d]), Coming(d)', Snapshot(d)')
    BY DEF InStepAll
  <2>2. Coming(d)' = queue'[d]
    BY <1>4, <1>7, OnlyRest DEF Coming
  <2>3. CASE d \in old \cup new
    <3> DEFINE h == raw'[d]
    <3>1. queue'[d] = <<>> /\ state'[d] = h /\ h \in SUBSET Mask(d)
          /\ (handle'[d] = "Live" => Snapshot(d) = h)
      BY <1>7, <1>a, <2>1, <2>3 DEF IsNew, IsClosed
    <3> HIDE DEF h
    <3>2. Agrees(d, h, ToldOf(d, h), <<>>, h)
      BY <3>1, AgreesFresh
    <3>3. Track(d, From(h, ToldOf(d, h)), <<>>).fits
      BY <3>2 DEF Agrees
    <3> QED BY <1>3, <2>2, <3>1, <3>2, <3>3 DEF h
  <2>4. CASE d \notin old \cup new
    <3>1. raw'[d] = raw[d] /\ state'[d] = state[d] /\ handle'[d] = handle[d]
          /\ d \notin dropping \cup torn /\ queue'[d] = queue[d]
      BY <1>a, <2>1, <2>4 DEF IsKept
    <3>2. Coming(d) = queue[d]
      BY <2>4, <1>7, <3>1, OnlyRest DEF Coming
    <3> QED BY <1>3, <2>2, <3>1, <3>2 DEF InStepAll
  <2> QED BY <2>3, <2>4
<1> QED BY <1>5, <1>6, <1>9, <1>10, <1>11, <1>12, <1>13

-----------------------------------------------------------------------------
(* Steps of the thread between two batches.                                *)

(* While nothing is read every device is complete. *)
LEMMA AtRest ==
  ASSUME InputInv, phase # "Reading" \/ batch = <<>>
  PROVE  /\ batch = <<>> /\ \A d \in Paths : Mine(d) = <<>>
         /\ phase # "Reading" => \A d \in Paths : Complete(d)
         /\ \A d \in Paths : ~Turn(d) => Complete(d)
<1>1. batch = <<>>
  BY DEF InputInv, Reading
<1>2. \A d \in Paths : Mine(d) = <<>>
  BY <1>1 DEF Mine
<1>3. \A d \in Paths : ~Turn(d) => Complete(d)
  BY DEF InputInv, Packets
<1>4. phase # "Reading" => \A d \in Paths : ~Turn(d)
  BY DEF Turn
<1> QED BY <1>1, <1>2, <1>3, <1>4

(* There is one touchscreen. *)
LEMMA OneTouch ==
  ASSUME InputsAssumption, NEW d \in Touches, NEW e \in Touches PROVE d = e
<1>1. SUFFICES ASSUME d # e PROVE FALSE
  OBVIOUS
<1>2. IsFiniteSet(Touches) /\ Cardinality(Touches) <= 1
  <2>1. IsFiniteSet(Paths) /\ Touches \in SUBSET Paths /\ Cardinality(Touches) <= 1
    BY DEF InputsAssumption, Paths
  <2> QED BY <2>1, FS_Subset
<1>3. IsFiniteSet({d}) /\ Cardinality({d}) = 1
  BY FS_Singleton
<1>4. Cardinality({d} \cup {e}) = 2 /\ {d} \cup {e} \in SUBSET Touches
  <2>1. Cardinality({d} \cup {e}) = IF e \in {d} THEN Cardinality({d}) ELSE Cardinality({d}) + 1
    BY ONLY <1>3, FS_AddElement
  <2> QED BY <1>1, <1>3, <2>1
<1>5. Cardinality({d} \cup {e}) <= Cardinality(Touches) /\ Cardinality(Touches) \in Nat
  BY <1>2, <1>4, FS_Subset, FS_CardinalityType
<1> DEFINE two == Cardinality({d} \cup {e})
           few == Cardinality(Touches)
<1>6. two = 2 /\ two <= few /\ few <= 1 /\ few \in Nat
  BY <1>2, <1>4, <1>5
<1> HIDE DEF two, few
<1> QED BY ONLY <1>6

(* A touchscreen that is left alone is followed as before. *)
LEMMA TouchKept ==
  ASSUME TouchFollowed, touches' = touches, told' = told,
         \A d \in Touches : handle'[d] # "None" => handle[d] # "None" /\ state'[d] = state[d]
  PROVE  TouchFollowed'
BY DEF TouchFollowed

(* Reports that are left alone, or taken, name what they did, when every device is
   complete before and after. *)
LEMMA NamesKept ==
  ASSUME InputsAssumption, InputTypes, NamedKept,
         \A d \in Paths : Complete(d), \A d \in Paths : Complete(d)', dropping' \in SUBSET Paths,
         (reports' = reports /\ seen' = seen /\ (doubt' = doubt \/ doubt' = doubt \cup {"Lost"})) \/ NoReports
  PROVE  NamedKept'
<1>1. Fresh = {} /\ Fresh' = {} /\ dropping = {} /\ dropping' = {}
  <2>1. \A d \in Pads : d \in Paths /\ d \notin Keyboards
    BY DEF Paths, InputsAssumption
  <2>2. dropping \in SUBSET Paths
    BY DEF InputTypes
  <2>3. dropping = {} /\ dropping' = {}
    BY <2>2 DEF Complete
  <2>4. \A d \in Pads : raw[d] = state[d] /\ raw'[d] = state'[d]
    BY <2>1 DEF Complete
  <2>5. Fresh = {}
    <3>1. UNION {raw[d] \ state[d] : d \in Pads} = {}
      BY ONLY <2>4
    <3> QED BY ONLY <3>1 DEF Fresh
  <2>6. Fresh' = {}
    <3>1. UNION {raw'[d] \ state'[d] : d \in Pads} = {}
      BY ONLY <2>4
    <3> QED BY ONLY <3>1 DEF Fresh
  <2> QED BY <2>3, <2>5, <2>6
<1>2. CASE NoReports
  <2>1. NamedBy(reports') = {} /\ Len(reports') = 0 /\ seen' = {} /\ doubt' = {}
    BY <1>2 DEF NoReports, NamedBy
  <2>2. MAXIMUM_CONTROL_REPORTS \in Nat
    BY DEF InputsAssumption
  <2> QED BY <1>1, <2>1, <2>2 DEF NamedKept
<1>3. CASE reports' = reports /\ seen' = seen /\ (doubt' = doubt \/ doubt' = doubt \cup {"Lost"})
  BY <1>1, <1>3 DEF NamedKept
<1> QED BY <1>2, <1>3

(* A scan replaces the handles of a kind whose paths have changed. *)
LEMMA ScanKeeps == ASSUME InputsAssumption, InputInv, ScanControls PROVE InputInv'
<1> DEFINE pads == First(Present(Pads), MAXIMUM_GAMEPADS, FALSE)
           keyboards == First(Present(Keyboards), MAXIMUM_KEYBOARDS, TRUE)
           gamepads_changed == Changed({<<d, at[d]>> : d \in Opened \cap Pads}, {<<d, node[d]>> : d \in pads})
           keyboards_changed == Changed({at[d] : d \in Opened \cap Keyboards}, {node[d] : d \in keyboards})
           replaced == (IF gamepads_changed THEN Pads ELSE {}) \cup (IF keyboards_changed THEN Keyboards ELSE {})
           old == Opened \cap replaced
           new == (pads \cup keyboards) \cap replaced
<1>1. /\ phase = "Idle" /\ Replace(old, new)
      /\ IF replaced = {} THEN UNCHANGED <<reports, seen, doubt>> ELSE NoReports
      /\ rescan_requested' = FALSE
      /\ UNCHANGED usedVars /\ touches' = touches /\ told' = told /\ phase' = phase /\ ready' = ready
         /\ batch' = batch
  BY DEF ScanControls
<1>2. InputTypes /\ Handles /\ Queues /\ Reading /\ Packets /\ InStepAll /\ NamedKept /\ TouchFollowed
  BY DEF InputInv
<1>3. /\ pads \subseteq Pads /\ keyboards \subseteq Keyboards /\ \A d \in pads \cup keyboards : node[d] # 0
      /\ Cardinality(pads) <= MAXIMUM_GAMEPADS /\ Cardinality(keyboards) <= MAXIMUM_KEYBOARDS
  <2>1. MAXIMUM_GAMEPADS \in Nat /\ MAXIMUM_KEYBOARDS \in Nat /\ Pads \subseteq Paths
        /\ Keyboards \subseteq Paths
    BY DEF InputsAssumption, Paths
  <2>2. node \in [Paths -> Nodes \cup {0}] /\ \A d, e \in Paths : (d # e /\ node[d] # 0) => node[d] # node[e]
    BY <1>2 DEF InputTypes, Handles
  <2>3. Present(Pads) \in SUBSET Paths /\ Present(Pads) \subseteq Pads /\ \A d \in Present(Pads) : node[d] # 0
    BY <2>1 DEF Present
  <2>4. Present(Keyboards) \in SUBSET Paths /\ Present(Keyboards) \subseteq Keyboards
        /\ \A d \in Present(Keyboards) : node[d] # 0
    BY <2>1 DEF Present
  <2>5. First(Present(Pads), MAXIMUM_GAMEPADS, FALSE) \in SUBSET Present(Pads)
        /\ Cardinality(pads) <= MAXIMUM_GAMEPADS
    BY <2>1, <2>2, <2>3, FirstFew
  <2>6. First(Present(Keyboards), MAXIMUM_KEYBOARDS, TRUE) \in SUBSET Present(Keyboards)
        /\ Cardinality(keyboards) <= MAXIMUM_KEYBOARDS
    BY <2>1, <2>2, <2>4, FirstFew
  <2> QED BY <2>3, <2>4, <2>5, <2>6
<1>4. Pads \cap Keyboards = {} /\ Touches \cap (Pads \cup Keyboards) = {} /\ Pads \subseteq Paths
      /\ Keyboards \subseteq Paths
  BY DEF InputsAssumption, Paths
<1>5. /\ (replaced \cap Pads = {} \/ replaced \cap Pads = Pads)
         /\ (replaced \cap Keyboards = {} \/ replaced \cap Keyboards = Keyboards)
      /\ replaced \cap Touches = {} /\ replaced \subseteq Pads \cup Keyboards
  <2> HIDE DEF gamepads_changed, keyboards_changed
  <2> QED BY <1>4
<1>6. batch = <<>> /\ (\A d \in Paths : Mine(d) = <<>>) /\ \A d \in Paths : Complete(d)
  <2>1. phase # "Reading"
    BY <1>1
  <2> QED BY <2>1, AtRest
<1> HIDE DEF pads, keyboards, replaced
<1>7. /\ old \in SUBSET Opened /\ new \in SUBSET Present(Paths) /\ new \cap Opened \subseteq old
      /\ old \cap Touches = {} /\ new \cap Touches = {}
  BY <1>3, <1>4, <1>5 DEF Present
<1>8. /\ Cardinality(((Opened \ old) \cup new) \cap Pads) <= MAXIMUM_GAMEPADS
      /\ Cardinality(((Opened \ old) \cup new) \cap Keyboards) <= MAXIMUM_KEYBOARDS
  <2>1. Cardinality(Opened \cap Pads) <= MAXIMUM_GAMEPADS
        /\ Cardinality(Opened \cap Keyboards) <= MAXIMUM_KEYBOARDS
    BY <1>2 DEF Handles
  <2>2. ((Opened \ old) \cup new) \cap Pads = pads \/ ((Opened \ old) \cup new) \cap Pads = Opened \cap Pads
    BY <1>3, <1>4, <1>5
  <2>3. ((Opened \ old) \cup new) \cap Keyboards = keyboards \/ ((Opened \ old) \cup new) \cap Keyboards = Opened \cap Keyboards
    BY <1>3, <1>4, <1>5
  <2> QED BY <1>3, <2>1, <2>2, <2>3
<1> HIDE DEF old, new
<1>9. reports' \in Seq(AllReports) /\ touches' \in Seq(TouchReports) /\ rescan_requested' \in BOOLEAN
      /\ phase' \in {"Idle", "Reading", "Told"} /\ ready' \in SUBSET Paths
  <2>1. reports \in Seq(AllReports) /\ touches \in Seq(TouchReports)
        /\ phase \in {"Idle", "Reading", "Told"} /\ ready \in SUBSET Paths
    BY <1>2 DEF InputTypes
  <2>2. reports' = reports \/ reports' = <<>>
    BY <1>1 DEF NoReports
  <2>4. <<>> \in Seq(AllReports)
    OBVIOUS
  <2>3. reports' \in Seq(AllReports)
    BY ONLY <2>1, <2>2, <2>4
  <2> QED BY <1>1, <2>1, <2>3
<1>10. /\ InputTypes' /\ Handles' /\ Queues' /\ Packets' /\ InStepAll'
       /\ \A d \in Paths : Complete(d)'
  <2>1. batch' = <<>> /\ UNCHANGED usedVars /\ Replace(old, new)
    BY <1>1, <1>6
  <2> QED BY <1>2, <1>6, <1>7, <1>8, <1>9, <2>1, Replaced
<1>11. Reading'
  BY <1>1, <1>6 DEF Reading, Turn, LossFirst
<1>12. NamedKept'
  <2>1. (reports' = reports /\ seen' = seen /\ (doubt' = doubt \/ doubt' = doubt \cup {"Lost"})) \/ NoReports
    BY <1>1
  <2>2. dropping' \in SUBSET Paths
    BY <1>10 DEF InputTypes
  <2> QED BY <1>2, <1>6, <1>10, <2>1, <2>2, NamesKept
<1>13. TouchFollowed'
  <2>1. ASSUME NEW d \in Touches PROVE handle'[d] = handle[d] /\ state'[d] = state[d]
    <3>1. d \in Paths /\ d \notin old /\ d \notin new /\ Replace(old, new)
      BY <1>1, <1>7 DEF Paths
    <3>2. IsKept(d)
      BY <3>1, ReplacedOne
    <3> QED BY <3>2 DEF IsKept
  <2> QED BY <1>1, <1>2, <2>1, TouchKept
<1> QED BY <1>10, <1>11, <1>12, <1>13 DEF InputInv

(* Nothing but the wish for a scan changes. *)
LEMMA StaysPut ==
  ASSUME InputInv, UNCHANGED <<usedVars, deviceVars, reportVars, phase, ready, batch>>,
         rescan_requested' \in BOOLEAN
  PROVE  InputInv'
<1>1. InputTypes /\ Handles /\ Queues /\ Reading /\ Packets /\ InStepAll /\ NamedKept /\ TouchFollowed
  BY DEF InputInv
<1>2. /\ scope' = scope /\ node' = node /\ held' = held /\ handle' = handle /\ at' = at /\ grabbed' = grabbed
      /\ queue' = queue /\ raw' = raw /\ state' = state /\ dropping' = dropping /\ torn' = torn
         /\ reports' = reports
      /\ touches' = touches /\ seen' = seen /\ doubt' = doubt /\ told' = told /\ phase' = phase
         /\ ready' = ready
      /\ batch' = batch
  BY DEF usedVars, deviceVars, reportVars
<1>3. Opened' = Opened /\ Current' = Current
  BY <1>2 DEF Opened, Current
<1>4. \A d : (Turn(d)' <=> Turn(d)) /\ Mine(d)' = Mine(d) /\ Coming(d)' = Coming(d)
      /\ Snapshot(d)' = Snapshot(d)
  BY <1>2, <1>3 DEF Turn, Mine, Coming, Snapshot
<1>5. \A d : Complete(d)' <=> Complete(d)
  BY <1>2 DEF Complete
<1>6. InputTypes'
  BY <1>1, <1>2, <1>4 DEF InputTypes
<1>7. Handles'
  BY <1>1, <1>2, <1>3 DEF Handles, GrabHeld
<1>8. Queues'
  BY <1>1, <1>2 DEF Queues
<1>9. Reading'
  BY <1>1, <1>2, <1>4 DEF Reading
<1>10. Packets'
  BY <1>1, <1>2, <1>4, <1>5 DEF Packets
<1>11. InStepAll'
  BY <1>1, <1>2, <1>4 DEF InStepAll
<1>12. NamedKept'
  BY <1>1, <1>2 DEF NamedKept, Fresh
<1>13. TouchFollowed'
  BY <1>1, <1>2 DEF TouchFollowed
<1> QED BY <1>6, <1>7, <1>8, <1>9, <1>10, <1>11, <1>12, <1>13 DEF InputInv

(* The touchscreen is opened, again if it was open. *)
LEMMA OpenKeeps == ASSUME InputsAssumption, InputInv, OpenTouch PROVE InputInv'
<1> DEFINE old == Opened \cap Touches
<1>1. /\ phase = "Idle" /\ touches' = <<>>
      /\ \E d \in Present(Touches) : Replace(old, {d}) /\ told' = Snapshot(d)
      /\ UNCHANGED usedVars /\ reports' = reports /\ seen' = seen /\ doubt' = doubt
      /\ rescan_requested' = rescan_requested /\ phase' = phase /\ ready' = ready /\ batch' = batch
  BY DEF OpenTouch, Discover
<1>2. PICK d \in Present(Touches) : Replace(old, {d}) /\ told' = Snapshot(d)
  BY <1>1
<1>3. InputTypes /\ Handles /\ Queues /\ Reading /\ Packets /\ InStepAll /\ NamedKept /\ TouchFollowed
  BY DEF InputInv
<1>4. d \in Touches /\ d \in Paths /\ node[d] # 0 /\ d \notin Pads /\ d \notin Keyboards
      /\ (Touches \cap (Pads \cup Keyboards) = {})
  BY DEF Present, Paths, InputsAssumption
<1>5. batch = <<>> /\ (\A c \in Paths : Mine(c) = <<>>) /\ \A c \in Paths : Complete(c)
  <2>1. phase # "Reading"
    BY <1>1
  <2> QED BY <2>1, AtRest
<1>6. old \in SUBSET Opened /\ {d} \in SUBSET Present(Paths) /\ {d} \cap Opened \subseteq old
  BY <1>4 DEF Present
<1>7. /\ Cardinality(((Opened \ old) \cup {d}) \cap Pads) <= MAXIMUM_GAMEPADS
      /\ Cardinality(((Opened \ old) \cup {d}) \cap Keyboards) <= MAXIMUM_KEYBOARDS
  <2>1. Cardinality(Opened \cap Pads) <= MAXIMUM_GAMEPADS
        /\ Cardinality(Opened \cap Keyboards) <= MAXIMUM_KEYBOARDS
    BY <1>3 DEF Handles
  <2>2. ((Opened \ old) \cup {d}) \cap Pads = Opened \cap Pads
        /\ ((Opened \ old) \cup {d}) \cap Keyboards = Opened \cap Keyboards
    BY <1>4
  <2> QED BY <2>1, <2>2
<1>8. reports' \in Seq(AllReports) /\ touches' \in Seq(TouchReports) /\ rescan_requested' \in BOOLEAN
      /\ phase' \in {"Idle", "Reading", "Told"} /\ ready' \in SUBSET Paths
  <2>1. reports \in Seq(AllReports) /\ phase \in {"Idle", "Reading", "Told"} /\ ready \in SUBSET Paths
        /\ rescan_requested \in BOOLEAN
    BY <1>3 DEF InputTypes
  <2>2. <<>> \in Seq(TouchReports)
    OBVIOUS
  <2> QED BY <1>1, <2>1, <2>2
<1> DEFINE new == {d}
<1> HIDE DEF old, new
<1>9. /\ InputTypes' /\ Handles' /\ Queues' /\ Packets' /\ InStepAll'
      /\ \A c \in Paths : Complete(c)'
  <2>1. /\ batch' = <<>> /\ UNCHANGED usedVars /\ Replace(old, new)
        /\ old \in SUBSET Opened /\ new \in SUBSET Present(Paths) /\ new \cap Opened \subseteq old
        /\ Cardinality(((Opened \ old) \cup new) \cap Pads) <= MAXIMUM_GAMEPADS
        /\ Cardinality(((Opened \ old) \cup new) \cap Keyboards) <= MAXIMUM_KEYBOARDS
    BY <1>1, <1>2, <1>5, <1>6, <1>7 DEF new
  <2> QED BY <1>3, <1>5, <1>8, <2>1, Replaced
<1>10. Reading'
  BY <1>1, <1>5 DEF Reading, Turn, LossFirst
<1>11. NamedKept'
  <2>1. (reports' = reports /\ seen' = seen /\ (doubt' = doubt \/ doubt' = doubt \cup {"Lost"})) \/ NoReports
    BY <1>1
  <2>2. dropping' \in SUBSET Paths
    BY <1>9 DEF InputTypes
  <2> QED BY <1>3, <1>5, <1>9, <2>1, <2>2, NamesKept
<1>12. TouchFollowed'
  <2>1. state'[d] = Snapshot(d)
    <3>1. d \in new /\ Replace(old, new)
      BY <1>2 DEF new
    <3> QED BY <1>4, <3>1, ReplacedOne DEF IsNew
  <2>2. \A c \in Touches : c = d
    BY <1>4, OneTouch
  <2>3. Len(touches') = 0 /\ touches' = <<>>
    BY <1>1
  <2> QED BY <1>2, <2>1, <2>2, <2>3 DEF TouchFollowed
<1> QED BY <1>9, <1>10, <1>11, <1>12 DEF InputInv

(* Everything is closed. *)
LEMMA CloseKeeps == ASSUME InputsAssumption, InputInv, Close PROVE InputInv'
<1> DEFINE new == {}
<1>1. /\ phase = "Idle" /\ touches' = <<>> /\ Replace(Opened, new) /\ NoReports /\ told' = {}
      /\ UNCHANGED usedVars /\ rescan_requested' = FALSE /\ phase' = phase /\ ready' = ready /\ batch' = batch
  BY DEF Close
<1>3. InputTypes /\ Handles /\ Queues /\ Reading /\ Packets /\ InStepAll /\ NamedKept /\ TouchFollowed
  BY DEF InputInv
<1>5. batch = <<>> /\ (\A c \in Paths : Mine(c) = <<>>) /\ \A c \in Paths : Complete(c)
  <2>1. phase # "Reading"
    BY <1>1
  <2> QED BY <2>1, AtRest
<1>6. Opened \in SUBSET Opened /\ new \in SUBSET Present(Paths) /\ new \cap Opened \subseteq Opened
  OBVIOUS
<1>7. /\ Cardinality(((Opened \ Opened) \cup new) \cap Pads) <= MAXIMUM_GAMEPADS
      /\ Cardinality(((Opened \ Opened) \cup new) \cap Keyboards) <= MAXIMUM_KEYBOARDS
  <2>1. Cardinality({}) = 0 /\ 0 <= MAXIMUM_GAMEPADS /\ 0 <= MAXIMUM_KEYBOARDS
    BY FS_EmptySet DEF InputsAssumption
  <2>2. ((Opened \ Opened) \cup new) \cap Pads = {} /\ ((Opened \ Opened) \cup new) \cap Keyboards = {}
    OBVIOUS
  <2> QED BY <2>1, <2>2
<1>8. reports' \in Seq(AllReports) /\ touches' \in Seq(TouchReports) /\ rescan_requested' \in BOOLEAN
      /\ phase' \in {"Idle", "Reading", "Told"} /\ ready' \in SUBSET Paths
  <2>1. phase \in {"Idle", "Reading", "Told"} /\ ready \in SUBSET Paths
    BY <1>3 DEF InputTypes
  <2>2. <<>> \in Seq(TouchReports) /\ <<>> \in Seq(AllReports) /\ reports' = <<>>
    BY <1>1 DEF NoReports
  <2> QED BY <1>1, <2>1, <2>2
<1> HIDE DEF new
<1>9. /\ InputTypes' /\ Handles' /\ Queues' /\ Packets' /\ InStepAll' /\ Opened' = (Opened \ Opened) \cup new
      /\ \A c \in Paths : Complete(c)'
  <2>1. batch' = <<>> /\ UNCHANGED usedVars /\ Replace(Opened, new)
    BY <1>1, <1>5
  <2> QED BY <1>3, <1>5, <1>6, <1>7, <1>8, <2>1, Replaced
<1>10. Reading'
  BY <1>1, <1>5 DEF Reading, Turn, LossFirst
<1>11. NamedKept'
  <2>1. (reports' = reports /\ seen' = seen /\ (doubt' = doubt \/ doubt' = doubt \cup {"Lost"})) \/ NoReports
    BY <1>1
  <2>2. dropping' \in SUBSET Paths
    BY <1>9 DEF InputTypes
  <2> QED BY <1>3, <1>5, <1>9, <2>1, <2>2, NamesKept
<1>12. TouchFollowed'
  <2>1. Opened' = {}
    BY <1>9 DEF new
  <2>2. \A c \in Touches : handle'[c] = "None"
    BY <2>1 DEF Opened, Paths
  <2> QED BY <2>2 DEF TouchFollowed
<1> QED BY <1>9, <1>10, <1>11, <1>12 DEF InputInv

(* The poll finds devices that have something to say. *)
LEMMA DispatchKeeps == ASSUME InputsAssumption, InputInv, Dispatch PROVE InputInv'
<1>1. /\ phase = "Idle" /\ ready' = Readable /\ phase' = (IF ready' = {} THEN "Told" ELSE "Reading") /\ batch' = batch
      /\ scope' = scope /\ node' = node /\ held' = held /\ handle' = handle /\ at' = at /\ grabbed' = grabbed
      /\ queue' = queue /\ raw' = raw /\ state' = state /\ dropping' = dropping /\ torn' = torn
         /\ reports' = reports
      /\ touches' = touches /\ seen' = seen /\ doubt' = doubt /\ told' = told
         /\ rescan_requested' = rescan_requested
  BY DEF Dispatch, usedVars, deviceVars, reportVars
<1>2. InputTypes /\ Handles /\ Queues /\ Reading /\ Packets /\ InStepAll /\ NamedKept /\ TouchFollowed
  BY DEF InputInv
<1>3. batch = <<>> /\ (\A c \in Paths : Mine(c) = <<>>) /\ \A c \in Paths : Complete(c)
  <2>1. phase # "Reading"
    BY <1>1
  <2> QED BY <2>1, AtRest
<1>4. \A d \in Paths : Mine(d)' = Mine(d) /\ Coming(d)' = Coming(d) /\ Snapshot(d)' = Snapshot(d)
      /\ Complete(d)'
  BY <1>1, <1>3 DEF Mine, Coming, Snapshot, Complete
<1>5. ready' \in SUBSET Paths /\ \A d \in ready' : handle'[d] # "None"
  BY <1>1 DEF Readable
<1>6. InputTypes'
  BY <1>1, <1>2, <1>4, <1>5 DEF InputTypes
<1>7. Handles'
  <2>1. Opened' = Opened
    BY <1>1 DEF Opened
  <2> QED BY <1>1, <1>2, <2>1 DEF Handles, GrabHeld
<1>8. Queues'
  BY <1>1, <1>2 DEF Queues
<1>9. Reading'
  BY <1>1, <1>3, <1>5 DEF Reading, LossFirst, Ends
<1>10. Packets'
  BY <1>4 DEF Packets
<1>11. InStepAll'
  BY <1>1, <1>2, <1>4 DEF InStepAll
<1>12. NamedKept'
  <2>1. Fresh' = Fresh
    BY <1>1 DEF Fresh
  <2> QED BY <1>1, <1>2, <2>1 DEF NamedKept
<1>13. TouchFollowed'
  BY <1>1, <1>2 DEF TouchFollowed
<1> QED BY <1>6, <1>7, <1>8, <1>9, <1>10, <1>11, <1>12, <1>13 DEF InputInv

(* The caller takes the reports, and the contact they end with. *)
LEMMA CollectKeeps == ASSUME InputsAssumption, InputInv, Collect PROVE InputInv'
<1>1. /\ phase = "Told" /\ phase' = "Idle" /\ NoReports /\ touches' = <<>> /\ ready' = ready /\ batch' = batch
      /\ told' = (IF touches = <<>> THEN told ELSE IF Last(touches).down THEN {"A"} ELSE {})
      /\ scope' = scope /\ node' = node /\ held' = held /\ handle' = handle /\ at' = at /\ grabbed' = grabbed
      /\ queue' = queue /\ raw' = raw /\ state' = state /\ dropping' = dropping /\ torn' = torn
      /\ rescan_requested' = rescan_requested
  BY DEF Collect, usedVars, deviceVars
<1>2. InputTypes /\ Handles /\ Queues /\ Reading /\ Packets /\ InStepAll /\ NamedKept /\ TouchFollowed
  BY DEF InputInv
<1>3. batch = <<>> /\ (\A c \in Paths : Mine(c) = <<>>) /\ \A c \in Paths : Complete(c)
  <2>1. phase # "Reading"
    BY <1>1
  <2> QED BY <2>1, AtRest
<1>4. \A d \in Paths : Mine(d)' = Mine(d) /\ Coming(d)' = Coming(d) /\ Snapshot(d)' = Snapshot(d)
      /\ Complete(d)'
  BY <1>1, <1>3 DEF Mine, Coming, Snapshot, Complete
<1>6. InputTypes'
  <2>1. reports' = <<>> /\ <<>> \in Seq(AllReports) /\ <<>> \in Seq(TouchReports)
    BY <1>1 DEF NoReports
  <2> QED BY <1>1, <1>2, <1>4, <2>1 DEF InputTypes
<1>7. Handles'
  <2>1. Opened' = Opened
    BY <1>1 DEF Opened
  <2> QED BY <1>1, <1>2, <2>1 DEF Handles, GrabHeld
<1>8. Queues'
  BY <1>1, <1>2 DEF Queues
<1>9. Reading'
  BY <1>1, <1>3 DEF Reading, LossFirst, Turn
<1>10. Packets'
  BY <1>4 DEF Packets
<1>11. InStepAll'
  BY <1>1, <1>2, <1>4 DEF InStepAll
<1>12. NamedKept'
  <2>1. dropping' \in SUBSET Paths
    BY <1>6 DEF InputTypes
  <2> QED BY <1>1, <1>2, <1>3, <1>4, <2>1, NamesKept
<1>13. TouchFollowed'
  <2>1. SUFFICES ASSUME NEW d \in Touches, handle'[d] # "None"
                 PROVE  (state'[d] # {}) = (told' # {})
    BY <1>1 DEF TouchFollowed
  <2>2. (state[d] # {}) = (IF touches = <<>> THEN told # {} ELSE Last(touches).down)
    BY <1>1, <1>2, <2>1 DEF TouchFollowed
  <2>3. (told' # {}) = (IF touches = <<>> THEN told # {} ELSE Last(touches).down)
    <3>1. CASE touches = <<>>
      BY <1>1, <3>1
    <3>2. CASE touches # <<>>
      <4>1. Last(touches).down \in BOOLEAN
        <5>1. touches \in Seq(TouchReports) /\ Len(touches) \in 1..Len(touches)
          BY <1>2, <3>2 DEF InputTypes
        <5>2. Last(touches) \in TouchReports
          BY <5>1 DEF Last
        <5> QED BY <5>2 DEF TouchReports
      <4>2. CASE Last(touches).down = TRUE
        BY <1>1, <3>2, <4>2
      <4>3. CASE Last(touches).down = FALSE
        BY <1>1, <3>2, <4>3
      <4> QED BY <4>1, <4>2, <4>3
    <3> QED BY <3>1, <3>2
  <2> QED BY <1>1, <2>2, <2>3
<1> QED BY <1>6, <1>7, <1>8, <1>9, <1>10, <1>11, <1>12, <1>13 DEF InputInv

(* The device in hand is lost. *)
LEMMA LoseKeeps ==
  ASSUME InputsAssumption, InputInv, phase = "Reading", NEW d, d = Current, LoseDevice(d), batch' = <<>>,
         UNCHANGED usedVars
  PROVE  InputInv'
<1> DEFINE old == {d}
           new == {}
<1>1. /\ Replace(old, new)
      /\ rescan_requested' = (rescan_requested \/ d \notin Touches)
      /\ IF d \in Touches THEN touches' = <<>> /\ told' = {} ELSE touches' = touches /\ told' = told
      /\ ready' = ready \ {d} /\ phase' = (IF ready' = {} THEN "Told" ELSE "Reading")
      /\ doubt' = doubt \cup {"Lost"} /\ reports' = reports /\ seen' = seen
  BY DEF LoseDevice, DoneWith
<1>3. InputTypes /\ Handles /\ Queues /\ Reading /\ Packets /\ InStepAll /\ NamedKept /\ TouchFollowed
  BY DEF InputInv
<1>4. d \in ready /\ d \in Paths /\ handle[d] # "None" /\ ready \in SUBSET Paths
      /\ \A c \in ready : handle[c] # "None"
  <2>1. ready \in SUBSET Paths /\ ready # {} /\ \A c \in ready : handle[c] # "None"
    BY <1>3 DEF InputTypes, Reading
  <2>2. d \in ready
    BY <2>1, CurrentReady
  <2> QED BY <2>1, <2>2
<1>5. \A c \in Paths \ (old \cup new) : Mine(c) = <<>> /\ Complete(c)
  <2>1. ASSUME NEW c \in Paths, c # d PROVE Mine(c) = <<>> /\ Complete(c)
    <3>1. ~Turn(c)
      BY <2>1 DEF Turn
    <3> QED BY <1>3, <3>1 DEF Packets, Mine
  <2> QED BY <2>1
<1>6. old \in SUBSET Opened /\ new \in SUBSET Present(Paths) /\ new \cap Opened \subseteq old
  BY <1>4 DEF Opened
<1>7. /\ Cardinality(((Opened \ old) \cup new) \cap Pads) <= MAXIMUM_GAMEPADS
      /\ Cardinality(((Opened \ old) \cup new) \cap Keyboards) <= MAXIMUM_KEYBOARDS
  <2>0. IsFiniteSet(Opened) /\ MAXIMUM_GAMEPADS \in Nat /\ MAXIMUM_KEYBOARDS \in Nat
    <3>1. IsFiniteSet(Paths) /\ Opened \in SUBSET Paths
      BY DEF InputsAssumption, Opened
    <3> QED BY <3>1, FS_Subset DEF InputsAssumption
  <2>1. Cardinality(Opened \cap Pads) <= MAXIMUM_GAMEPADS
        /\ Cardinality(Opened \cap Keyboards) <= MAXIMUM_KEYBOARDS
    BY <1>3 DEF Handles
  <2> DEFINE pads0 == Opened \cap Pads
             keys0 == Opened \cap Keyboards
             pads1 == ((Opened \ old) \cup new) \cap Pads
             keys1 == ((Opened \ old) \cup new) \cap Keyboards
  <2>2. pads1 \in SUBSET pads0 /\ keys1 \in SUBSET keys0 /\ pads0 \in SUBSET Opened /\ keys0 \in SUBSET Opened
    OBVIOUS
  <2> HIDE DEF pads0, keys0, pads1, keys1
  <2>3. IsFiniteSet(pads0) /\ IsFiniteSet(keys0)
    BY <2>0, <2>2, FS_Subset
  <2>4. /\ Cardinality(pads1) <= Cardinality(pads0) /\ Cardinality(keys1) <= Cardinality(keys0)
        /\ IsFiniteSet(pads1) /\ IsFiniteSet(keys1)
    BY <2>2, <2>3, FS_Subset
  <2>5. Cardinality(pads0) \in Nat /\ Cardinality(keys0) \in Nat /\ Cardinality(pads1) \in Nat
        /\ Cardinality(keys1) \in Nat
    BY <2>3, <2>4, FS_CardinalityType
  <2>6. Cardinality(pads0) <= MAXIMUM_GAMEPADS /\ Cardinality(keys0) <= MAXIMUM_KEYBOARDS
    BY <2>1 DEF pads0, keys0
  <2>7. Cardinality(pads1) <= MAXIMUM_GAMEPADS /\ Cardinality(keys1) <= MAXIMUM_KEYBOARDS
    BY <2>0, <2>4, <2>5, <2>6
  <2> QED BY <2>7 DEF pads1, keys1
<1>8. reports' \in Seq(AllReports) /\ touches' \in Seq(TouchReports) /\ rescan_requested' \in BOOLEAN
      /\ phase' \in {"Idle", "Reading", "Told"} /\ ready' \in SUBSET Paths
  <2>1. reports \in Seq(AllReports) /\ touches \in Seq(TouchReports) /\ rescan_requested \in BOOLEAN
    BY <1>3 DEF InputTypes
  <2>2. <<>> \in Seq(TouchReports)
    OBVIOUS
  <2>3. touches' = touches \/ touches' = <<>>
    BY <1>1
  <2>4. touches' \in Seq(TouchReports)
    BY ONLY <2>1, <2>2, <2>3
  <2> QED BY <1>1, <1>4, <2>1, <2>4
<1>9. /\ InputTypes' /\ Handles' /\ Queues' /\ Packets' /\ InStepAll'
      /\ \A c \in Paths : Complete(c)'
  <2> HIDE DEF old, new
  <2> QED BY <1>1, <1>3, <1>5, <1>6, <1>7, <1>8, Replaced
<1>10. ASSUME NEW c \in Paths, c # d PROVE handle'[c] = handle[c] /\ state'[c] = state[c]
  <2>1. c \notin old /\ c \notin new
    BY <1>10
  <2> HIDE DEF old, new
  <2> QED BY <1>1, <2>1, ReplacedOne DEF IsKept
<1>11. Reading'
  <2>1. phase' = "Reading" => ready' # {} /\ \A c \in ready' : handle'[c] # "None"
    BY <1>1, <1>4, <1>10
  <2> QED BY <2>1 DEF Reading, LossFirst, Ends
<1>12. NamedKept'
  <2>1. Fresh' = {}
    <3>1. \A c \in Pads : c \in Paths /\ c \notin Keyboards
      BY DEF Paths, InputsAssumption
    <3>2. \A c \in Pads : raw'[c] = state'[c]
      BY <1>9, <3>1 DEF Complete
    <3> QED BY <3>2 DEF Fresh
  <2> QED BY <1>1, <1>3, <2>1 DEF NamedKept
<1>13. TouchFollowed'
  <2>1. CASE d \in Touches
    <3>1. \A c \in Touches : c = d
      BY <2>1, OneTouch
    <3>2. handle'[d] = "None"
      <4>1. d \in old /\ d \notin new
        OBVIOUS
      <4> HIDE DEF old, new
      <4>2. Replace(old, new) /\ d \in Paths
        BY <1>1, <1>4
      <4>3. IsClosed(d)
        BY ONLY <4>1, <4>2, ReplacedOne
      <4> QED BY <4>3 DEF IsClosed
    <3> QED BY <3>1, <3>2 DEF TouchFollowed
  <2>2. CASE d \notin Touches
    <3>1. \A c \in Touches : c \in Paths /\ c # d
      BY <2>2 DEF Paths
    <3> QED BY <1>1, <1>3, <1>10, <2>2, <3>1, TouchKept
  <2> QED BY <2>1, <2>2
<1> QED BY <1>9, <1>11, <1>12, <1>13 DEF InputInv

-----------------------------------------------------------------------------
(* A device is read.                                                       *)

(* The device in hand has nothing more to say. *)
LEMMA DoneKeeps ==
  ASSUME InputsAssumption, InputInv, phase = "Reading", batch = <<>>, NEW d, d = Current,
         handle[d] = "Live", queue[d] = <<>>,
         DoneWith(d), UNCHANGED <<usedVars, deviceVars, reportVars, rescan_requested, batch>>
  PROVE  InputInv'
<1>1. /\ ready' = ready \ {d} /\ phase' = (IF ready' = {} THEN "Told" ELSE "Reading") /\ batch' = batch
      /\ scope' = scope /\ node' = node /\ held' = held /\ handle' = handle /\ at' = at /\ grabbed' = grabbed
      /\ queue' = queue /\ raw' = raw /\ state' = state /\ dropping' = dropping /\ torn' = torn
         /\ reports' = reports
      /\ touches' = touches /\ seen' = seen /\ doubt' = doubt /\ told' = told
         /\ rescan_requested' = rescan_requested
  BY DEF DoneWith, usedVars, deviceVars, reportVars
<1>2. InputTypes /\ Handles /\ Queues /\ Reading /\ Packets /\ InStepAll /\ NamedKept /\ TouchFollowed
  BY DEF InputInv
<1>3. \A c \in Paths : Complete(c)
  BY <1>2 DEF Packets, Turn
<1>4. \A c \in Paths : Mine(c)' = Mine(c) /\ Coming(c)' = Coming(c) /\ Snapshot(c)' = Snapshot(c)
      /\ Complete(c)'
  BY <1>1, <1>3 DEF Mine, Coming, Snapshot, Complete
<1>5. ready' \in SUBSET Paths /\ (phase' = "Reading" => \A c \in ready' : handle'[c] # "None")
  <2>1. ready \in SUBSET Paths /\ \A c \in ready : handle[c] # "None"
    BY <1>2 DEF InputTypes, Reading
  <2> QED BY <1>1, <2>1
<1>6. InputTypes'
  BY <1>1, <1>2, <1>4, <1>5 DEF InputTypes
<1>7. Handles'
  <2>1. Opened' = Opened
    BY <1>1 DEF Opened
  <2> QED BY <1>1, <1>2, <2>1 DEF Handles, GrabHeld
<1>8. Queues'
  BY <1>1, <1>2 DEF Queues
<1>9. Reading'
  BY <1>1, <1>5 DEF Reading, LossFirst, Ends
<1>10. Packets'
  BY <1>4 DEF Packets
<1>11. InStepAll'
  BY <1>1, <1>2, <1>4 DEF InStepAll
<1>12. NamedKept'
  <2>1. Fresh' = Fresh
    BY <1>1 DEF Fresh
  <2> QED BY <1>1, <1>2, <2>1 DEF NamedKept
<1>13. TouchFollowed'
  BY <1>1, <1>2 DEF TouchFollowed
<1> QED BY <1>6, <1>7, <1>8, <1>9, <1>10, <1>11, <1>12, <1>13 DEF InputInv

(* A batch is taken in hand: what is coming of the device stays the same. *)
LEMMA TakeKeeps ==
  ASSUME InputsAssumption, InputInv, phase = "Reading", batch = <<>>, NEW d, d = Current,
         handle[d] = "Live", queue[d] # <<>>,
         batch' = FirstBatch(queue[d], Batch), queue' = [queue EXCEPT ![d] = Rest(@, batch')],
         UNCHANGED <<usedVars, handle, at, grabbed, raw, state, dropping, torn, reportVars, rescan_requested, phase, ready>>
  PROVE  InputInv'
<1>1. /\ ready' = ready /\ phase' = phase
      /\ scope' = scope /\ node' = node /\ held' = held /\ handle' = handle /\ at' = at /\ grabbed' = grabbed
      /\ raw' = raw /\ state' = state /\ dropping' = dropping /\ torn' = torn /\ reports' = reports
      /\ touches' = touches /\ seen' = seen /\ doubt' = doubt /\ told' = told
         /\ rescan_requested' = rescan_requested
  BY DEF usedVars, reportVars
<1>2. InputTypes /\ Handles /\ Queues /\ Reading /\ Packets /\ InStepAll /\ NamedKept /\ TouchFollowed
  BY DEF InputInv
<1>3. ready # {} /\ d \in ready /\ d \in Paths
  <2>1. ready \in SUBSET Paths /\ ready # {}
    BY <1>2 DEF InputTypes, Reading
  <2> QED BY <2>1, CurrentReady
<1>4. \A c : (Turn(c)' <=> Turn(c)) /\ (Turn(c) <=> c = d) /\ Snapshot(c)' = Snapshot(c)
      /\ (Complete(c)' <=> Complete(c))
  <2>1. Current' = Current
    BY <1>1 DEF Current
  <2> QED BY <1>1, <1>3, <2>1 DEF Turn, Snapshot, Complete
<1> DEFINE q == queue[d]
           b == batch'
           r == Rest(q, b)
<1>5. /\ b \in Seq(EventsOf(d)) /\ r \in Seq(EventsOf(d)) /\ b # <<>> /\ q = b \o r
      /\ LossFirst(b) /\ LossFirst(r) /\ Len(r) <= Len(q)
      /\ Ends(r) /\ (r = <<>> => Ends(b)) /\ Len(r) <= Capacity
  <2>1. q \in Seq(EventsOf(d)) /\ q # <<>> /\ LossFirst(q) /\ Ends(q) /\ Len(q) <= Capacity
    BY <1>2, <1>3 DEF InputTypes, Queues
  <2>2. Batch \in Nat /\ Batch # 0 /\ Capacity \in Nat
    BY DEF InputsAssumption
  <2>3. b = FirstBatch(q, Batch) /\ r = Rest(q, b)
    OBVIOUS
  <2> HIDE DEF q, b, r
  <2>4. FirstOf(d, q, b, r)
    BY ONLY <2>1, <2>2, <2>3, Taken
  <2>5. Len(r) \in Nat /\ Len(q) \in Nat
    BY <2>1, <2>4 DEF FirstOf
  <2> QED BY <2>1, <2>2, <2>4, <2>5 DEF FirstOf
<1>6. queue'[d] = r /\ DOMAIN queue' = Paths /\ \A c \in Paths : c # d => queue'[c] = queue[c]
  <2>1. DOMAIN queue = Paths
    BY <1>2 DEF InputTypes
  <2> QED BY <1>3, <2>1
<1>7. Mine(d)' = b /\ \A c : c # d => Mine(c)' = <<>> /\ Mine(c) = <<>>
  BY <1>4 DEF Mine
<1>8. Mine(d) = <<>>
  BY DEF Mine
<1>9. \A c \in Paths : Coming(c)' = Coming(c)
  <2>1. CASE TRUE
    <3>1. q \in Seq(EventsOf(d))
      BY <1>2, <1>3 DEF InputTypes
    <3>2. <<>> \o q = q
      BY <3>1, OnlyRest
    <3>3. Coming(d)' = b \o r /\ Coming(d) = <<>> \o q
      BY <1>6, <1>7, <1>8 DEF Coming
    <3>4. \A c \in Paths : c # d => Coming(c)' = Coming(c)
      BY <1>6, <1>7 DEF Coming
    <3> QED BY <1>5, <3>2, <3>3, <3>4
  <2> QED BY <2>1
<1> HIDE DEF q, b, r
<1>10. InputTypes'
  <2>1. \A c \in Paths : queue'[c] \in Seq(EventsOf(c)) /\ Mine(c)' \in Seq(EventsOf(c))
    <3>1. \A c \in Paths : queue[c] \in Seq(EventsOf(c)) /\ Mine(c) \in Seq(EventsOf(c))
      BY <1>2 DEF InputTypes
    <3> QED BY <1>5, <1>6, <1>7, <3>1
  <2> QED BY <1>1, <1>2, <1>6, <2>1 DEF InputTypes
<1>11. Handles'
  <2>1. Opened' = Opened
    BY <1>1 DEF Opened
  <2> QED BY <1>1, <1>2, <2>1 DEF Handles, GrabHeld
<1>12. Queues'
  <2>1. ASSUME NEW c \in Paths
        PROVE  /\ LossFirst(queue'[c]) /\ Ends(queue'[c]) /\ Len(queue'[c]) <= Capacity
               /\ handle'[c] # "Live" => queue'[c] = <<>>
    <3>1. /\ LossFirst(queue[c]) /\ Ends(queue[c]) /\ Len(queue[c]) <= Capacity
          /\ handle[c] # "Live" => queue[c] = <<>>
      BY <1>2 DEF Queues
    <3> QED BY <1>1, <1>5, <1>6, <3>1
  <2> QED BY <2>1 DEF Queues
<1>13. Reading'
  <2>1. \A c \in ready : handle[c] # "None"
    BY <1>2 DEF Reading
  <2>2. LossFirst(batch') /\ (queue'[d] = <<>> => Ends(batch'))
    BY <1>5, <1>6 DEF b
  <2> QED BY <1>1, <1>3, <1>4, <2>1, <2>2 DEF Reading
<1>14. Packets'
  <2>1. \A c \in Paths : ~Complete(c) => Turn(c)
    BY <1>2 DEF Packets
  <2>2. batch' # <<>>
    BY <1>5 DEF b
  <2> QED BY <1>4, <2>1, <2>2 DEF Packets
<1>15. InStepAll'
  BY <1>1, <1>2, <1>4, <1>9 DEF InStepAll
<1>16. NamedKept'
  <2>1. Fresh' = Fresh
    BY <1>1 DEF Fresh
  <2> QED BY <1>1, <1>2, <2>1 DEF NamedKept
<1>17. TouchFollowed'
  BY <1>1, <1>2 DEF TouchFollowed
<1> QED BY <1>10, <1>11, <1>12, <1>13, <1>14, <1>15, <1>16, <1>17 DEF InputInv

(* The next read of the device in hand: it is lost, done with, or gives a batch. *)
LEMMA FetchKeeps == ASSUME InputsAssumption, InputInv, Fetch PROVE InputInv'
<1> DEFINE d == Current
<1>1. phase = "Reading" /\ batch = <<>> /\ UNCHANGED usedVars
  BY DEF Fetch
<1>2. \/ LoseDevice(d) /\ batch' = batch
      \/ /\ handle[d] = "Live" /\ queue[d] = <<>> /\ DoneWith(d)
         /\ UNCHANGED <<deviceVars, reportVars, rescan_requested, batch>>
      \/ /\ handle[d] = "Live" /\ queue[d] # <<>>
         /\ batch' = FirstBatch(queue[d], Batch) /\ queue' = [queue EXCEPT ![d] = Rest(@, batch')]
         /\ UNCHANGED <<handle, at, grabbed, raw, state, dropping, torn, reportVars, rescan_requested, phase, ready>>
  BY DEF Fetch
<1>0. d = Current
  OBVIOUS
<1> HIDE DEF d
<1>3. CASE LoseDevice(d) /\ batch' = batch
  BY <1>0, <1>1, <1>3, LoseKeeps
<1>4. CASE /\ handle[d] = "Live" /\ queue[d] = <<>> /\ DoneWith(d)
           /\ UNCHANGED <<deviceVars, reportVars, rescan_requested, batch>>
  <2>1. UNCHANGED <<usedVars, deviceVars, reportVars, rescan_requested, batch>>
    BY <1>1, <1>4
  <2> QED BY <1>0, <1>1, <1>4, <2>1, DoneKeeps
<1>5. CASE /\ handle[d] = "Live" /\ queue[d] # <<>>
           /\ batch' = FirstBatch(queue[d], Batch) /\ queue' = [queue EXCEPT ![d] = Rest(@, batch')]
           /\ UNCHANGED <<handle, at, grabbed, raw, state, dropping, torn, reportVars, rescan_requested, phase, ready>>
  <2>1. UNCHANGED <<usedVars, handle, at, grabbed, raw, state, dropping, torn, reportVars, rescan_requested, phase, ready>>
    BY <1>1, <1>5
  <2> QED BY <1>0, <1>1, <1>5, <2>1, TakeKeeps
<1> QED BY <1>2, <1>3, <1>4, <1>5

-----------------------------------------------------------------------------
(* A batch is applied.                                                     *)

(* What the batch of a device in hand does when it leaves its reader at r. *)
Applied(d, r) ==
  /\ raw' = [raw EXCEPT ![d] = r.raw] /\ state' = [state EXCEPT ![d] = r.state]
  /\ dropping' = (IF r.dropping THEN dropping \cup {d} ELSE dropping \ {d})
  /\ torn' = (IF ~r.synced THEN torn ELSE IF r.late THEN torn \cup {d} ELSE torn \ {d})
  /\ queue' = (IF r.synced THEN [queue EXCEPT ![d] = AfterSnapshot(@)] ELSE queue)
  /\ reports' = r.reports /\ touches' = r.touches
  /\ seen' = (IF d \in Touches THEN seen ELSE seen \cup Presses(batch))
  /\ doubt' = doubt \cup (IF r.synced THEN {"Lost"} ELSE {})
                    \cup (IF r.late \/ d \in torn THEN {"Torn"} ELSE {})
  /\ handle' = handle /\ at' = at /\ grabbed' = grabbed /\ told' = told
     /\ rescan_requested' = rescan_requested
  /\ phase' = phase /\ ready' = ready /\ batch' = <<>> /\ scope' = scope /\ node' = node /\ held' = held

(* The same, said of each device. *)
AppliedOne(d, r) ==
  /\ raw'[d] = r.raw /\ state'[d] = r.state
  /\ d \in dropping' <=> r.dropping
  /\ d \in torn' <=> (IF r.synced THEN r.late ELSE d \in torn)
  /\ queue'[d] = IF r.synced THEN AfterSnapshot(queue[d]) ELSE queue[d]
RestSame(d) ==
  \A c \in Paths : c # d =>
    /\ raw'[c] = raw[c] /\ state'[c] = state[c] /\ queue'[c] = queue[c]
    /\ (c \in dropping' <=> c \in dropping) /\ (c \in torn' <=> c \in torn)

(* Applying a batch does so. *)
LEMMA AppliedEach ==
  ASSUME InputTypes, NEW d \in Paths, NEW r \in ReadStates(d), Applied(d, r)
  PROVE  /\ AppliedOne(d, r) /\ RestSame(d) /\ dropping' \in SUBSET Paths /\ torn' \in SUBSET Paths
         /\ DOMAIN raw' = Paths /\ DOMAIN state' = Paths /\ DOMAIN queue' = Paths
<1>1. /\ DOMAIN raw = Paths /\ DOMAIN state = Paths /\ DOMAIN queue = Paths
      /\ dropping \in SUBSET Paths /\ torn \in SUBSET Paths
  BY DEF InputTypes
<1>2. r.dropping \in BOOLEAN /\ r.synced \in BOOLEAN /\ r.late \in BOOLEAN
  BY DEF ReadStates
<1>3. /\ raw' = [raw EXCEPT ![d] = r.raw] /\ state' = [state EXCEPT ![d] = r.state]
      /\ queue' = (IF r.synced THEN [queue EXCEPT ![d] = AfterSnapshot(@)] ELSE queue)
      /\ dropping' = (IF r.dropping THEN dropping \cup {d} ELSE dropping \ {d})
      /\ torn' = (IF ~r.synced THEN torn ELSE IF r.late THEN torn \cup {d} ELSE torn \ {d})
  BY DEF Applied
<1>4. /\ raw'[d] = r.raw /\ state'[d] = r.state /\ DOMAIN raw' = Paths /\ DOMAIN state' = Paths
      /\ \A c \in Paths : c # d => raw'[c] = raw[c] /\ state'[c] = state[c]
  BY <1>1, <1>3
<1>5. /\ queue'[d] = (IF r.synced THEN AfterSnapshot(queue[d]) ELSE queue[d]) /\ DOMAIN queue' = Paths
      /\ \A c \in Paths : c # d => queue'[c] = queue[c]
  BY <1>1, <1>2, <1>3
<1>6. /\ dropping' \in SUBSET Paths /\ (d \in dropping' <=> r.dropping)
      /\ \A c \in Paths : c # d => (c \in dropping' <=> c \in dropping)
  BY <1>1, <1>2, <1>3
<1>7. /\ torn' \in SUBSET Paths /\ (d \in torn' <=> (IF r.synced THEN r.late ELSE d \in torn))
      /\ \A c \in Paths : c # d => (c \in torn' <=> c \in torn)
  BY <1>1, <1>2, <1>3
<1> QED BY <1>4, <1>5, <1>6, <1>7 DEF AppliedOne, RestSame

(* What is left of its queue. *)
LEMMA AppliedQueue ==
  ASSUME InputsAssumption, InputInv, NEW d \in Paths, NEW r \in ReadStates(d), AppliedOne(d, r)
  PROVE  /\ queue'[d] \in Seq(EventsOf(d)) /\ LossFirst(queue'[d]) /\ Ends(queue'[d])
            /\ Len(queue'[d]) <= Capacity
         /\ queue[d] = <<>> <=> queue'[d] = <<>>
         /\ r.synced => Agrees(d, r.raw, ToldOf(d, r.raw), queue'[d], r.raw)
<1> DEFINE q == queue[d]
           p == queue'[d]
           x == r.raw
<1>1. q \in Seq(EventsOf(d)) /\ LossFirst(q) /\ Ends(q) /\ Len(q) <= Capacity /\ Capacity \in Nat
  BY DEF InputInv, InputTypes, Queues, InputsAssumption
<1>2. x \in SUBSET Mask(d) /\ r.synced \in BOOLEAN
  BY DEF ReadStates
<1>3. p = IF r.synced THEN AfterSnapshot(q) ELSE q
  BY DEF AppliedOne
<1> HIDE DEF q, p, x
<1>4. CASE ~r.synced
  BY <1>1, <1>3, <1>4 DEF q, p
<1>5. CASE r.synced
  <2>1. p = AfterSnapshot(q)
    BY <1>3, <1>5
  <2>2. /\ p \in Seq(EventsOf(d)) /\ Len(p) <= Len(q) /\ LossFirst(p) /\ Ends(p) /\ (q # <<>> => p # <<>>)
        /\ Agrees(d, x, ToldOf(d, x), p, x)
    BY <1>1, <1>2, <2>1, Swept
  <2>3. Len(p) \in Nat /\ Len(q) \in Nat /\ (p = <<>> <=> Len(p) = 0) /\ (q = <<>> <=> Len(q) = 0)
    BY <1>1, <2>2
  <2>4. Len(p) <= Capacity /\ (q = <<>> <=> p = <<>>)
    BY <1>1, <2>2, <2>3
  <2> QED BY <1>1, <2>2, <2>4 DEF q, p, x
<1> QED BY <1>2, <1>4, <1>5

(* The device that is read is complete, or there is more to read of it. *)
LEMMA AppliedPackets ==
  ASSUME InputsAssumption, InputInv, NEW d \in Paths, Turn(d), batch # <<>>, NEW r, Knows(d, batch, r),
         AppliedOne(d, r), RestSame(d), handle' = handle, batch' = <<>>, phase' = phase, ready' = ready
  PROVE  Packets'
<1>1. r \in ReadStates(d) /\ ReadSoFar(d, batch, r)
  BY DEF Knows
<1>2. \A c : Turn(c)' <=> Turn(c)
  <2>1. Current' = Current
    BY DEF Current
  <2> QED BY <2>1 DEF Turn
<1>3. ASSUME NEW c \in Paths, c # d PROVE Complete(c)'
  <2>1. ~Turn(c)
    BY <1>3 DEF Turn
  <2>2. Complete(c)
    BY <2>1 DEF InputInv, Packets
  <2>3. raw'[c] = raw[c] /\ state'[c] = state[c] /\ (c \in dropping' <=> c \in dropping)
    BY <1>3 DEF RestSame
  <2> QED BY <2>2, <2>3 DEF Complete
<1>4. ASSUME handle[d] = "Live", queue'[d] = <<>> PROVE Complete(d)'
  <2>1. queue[d] = <<>>
    BY <1>1, <1>4, AppliedQueue
  <2>2. batch[Len(batch)] = Report
    BY <1>4, <2>1 DEF InputInv, Reading, Ends
  <2>3. ~r.dropping /\ (d \notin Keyboards => r.state = r.raw)
    BY <1>1, <2>2 DEF ReadSoFar
  <2> QED BY <2>3 DEF AppliedOne, Complete
<1> QED BY <1>2, <1>3, <1>4 DEF Packets

(* What is still to be read agrees with it. *)
LEMMA AppliedInStep ==
  ASSUME InputsAssumption, InputInv, NEW d \in Paths, Turn(d), batch # <<>>, NEW r, Knows(d, batch, r),
         AppliedOne(d, r), RestSame(d), handle' = handle, batch' = <<>>, held' = held
  PROVE  InStepAll'
<1>1. r \in ReadStates(d) /\ ReadSoFar(d, batch, r)
  BY DEF Knows
<1>2. \A c \in Paths : Mine(c)' = <<>>
  BY DEF Mine
<1>3. \A c : Snapshot(c)' = Snapshot(c)
  BY SnapshotSame
<1>4. \A c \in Paths : c # d => Mine(c) = <<>>
  BY DEF Mine, Turn
<1>5. ASSUME NEW c \in Paths, c # d, c \notin dropping' \cup torn'
      PROVE  /\ Track(c, From(raw'[c], ToldOf(c, state'[c])), Coming(c)').fits
             /\ handle'[c] = "Live" => Agrees(c, raw'[c], ToldOf(c, state'[c]), Coming(c)', Snapshot(c)')
  <2>1. /\ raw'[c] = raw[c] /\ state'[c] = state[c] /\ queue'[c] = queue[c]
        /\ c \notin dropping \cup torn
    BY <1>5 DEF RestSame
  <2>2. Coming(c)' = Coming(c)
    BY <1>2, <1>4, <1>5, <2>1 DEF Coming
  <2>3. /\ Track(c, From(raw[c], ToldOf(c, state[c])), Coming(c)).fits
        /\ handle[c] = "Live" => Agrees(c, raw[c], ToldOf(c, state[c]), Coming(c), Snapshot(c))
    BY <2>1 DEF InputInv, InStepAll
  <2> QED BY <1>3, <2>1, <2>2, <2>3
<1> DEFINE x == r.raw
           y == ToldOf(d, r.state)
           p == queue'[d]
           s == Snapshot(d)
           q == queue[d]
<1>6. /\ x \in SUBSET Mask(d) /\ y \in SUBSET Mask(d) /\ r.synced \in BOOLEAN /\ r.late \in BOOLEAN
         /\ r.dropping \in BOOLEAN
      /\ p \in Seq(EventsOf(d))
  BY <1>1, AppliedQueue DEF ReadStates, ToldOf
<1>7. raw'[d] = x /\ ToldOf(d, state'[d]) = y /\ Coming(d)' = p
  <2>1. Coming(d)' = <<>> \o p
    BY <1>2 DEF Coming
  <2>2. <<>> \o p = p
    BY <1>6, OnlyRest
  <2> QED BY <2>1, <2>2 DEF AppliedOne
<1>8. ASSUME d \notin dropping' \cup torn'
      PROVE  Track(d, From(x, y), p).fits /\ (handle[d] = "Live" => Agrees(d, x, y, p, s))
  <2>1. ~r.dropping /\ (IF r.synced THEN ~r.late ELSE d \notin torn)
    BY <1>6, <1>8 DEF AppliedOne
  <2>2. CASE r.synced
    <3>1. Agrees(d, r.raw, ToldOf(d, r.raw), p, r.raw)
      BY <1>1, <2>2, AppliedQueue
    <3>2. /\ handle[d] = "Live" => r.raw = s
          /\ d \notin Keyboards => r.state = r.raw
      BY <1>1, <2>1, <2>2 DEF ReadSoFar
    <3>3. y = ToldOf(d, r.raw)
      BY <3>2 DEF ToldOf
    <3>4. Agrees(d, x, y, p, x) /\ (handle[d] = "Live" => x = s)
      BY <3>1, <3>2, <3>3
    <3> HIDE DEF x, y, p, s
    <3> QED BY <3>4 DEF Agrees
  <2>3. CASE ~r.synced
    <3>1. /\ d \notin dropping /\ Trace(d, batch).whole
          /\ x = Trace(d, batch).held /\ y = Trace(d, batch).reported
      BY <1>1, <2>1, <2>3 DEF ReadSoFar
    <3>2. p = q /\ d \notin torn
      BY <2>1, <2>3 DEF AppliedOne
    <3> DEFINE x0 == raw[d]
               y0 == ToldOf(d, state[d])
    <3>3. /\ x0 \in SUBSET Mask(d) /\ y0 \in SUBSET Mask(d) /\ q \in Seq(EventsOf(d))
             /\ batch \in Seq(EventsOf(d))
          /\ Coming(d) = batch \o q
      BY DEF InputInv, InputTypes, ToldOf, Mine, Coming
    <3>4. handle[d] = "Live" => Agrees(d, x0, y0, batch \o q, s)
      BY <3>1, <3>2, <3>3 DEF InputInv, InStepAll
    <3>5. Trace(d, batch) = Track(d, From(x0, y0), batch)
      BY DEF Trace, Outset
    <3> HIDE DEF x, y, p, s, q, x0, y0
    <3>6. ASSUME handle[d] = "Live" PROVE Agrees(d, x, y, p, s)
      <4>1. Agrees(d, Track(d, From(x0, y0), batch).held, Track(d, From(x0, y0), batch).reported, q, s)
        BY <3>1, <3>3, <3>4, <3>5, <3>6, AgreesRead
      <4> QED BY <3>1, <3>2, <3>5, <4>1
    <3>7. ASSUME handle[d] # "Live" PROVE Track(d, From(x, y), p).fits
      <4>1. p = <<>>
        BY <3>2, <3>7 DEF InputInv, Queues, q
      <4>2. From(x, y) \in Tracks(d) /\ From(x, y).fits
        BY <1>6, FromFacts
      <4>3. Track(d, From(x, y), <<>>) = From(x, y)
        BY <4>2, TrackFacts
      <4> QED BY <4>1, <4>2, <4>3
    <3> QED BY <3>6, <3>7 DEF Agrees
  <2> QED BY <1>6, <2>2, <2>3
<1>9. s = Snapshot(d)'
  BY <1>3
<1> HIDE DEF x, y, p, s
<1>10. d \notin dropping' \cup torn' =>
         /\ Track(d, From(raw'[d], ToldOf(d, state'[d])), Coming(d)').fits
         /\ handle'[d] = "Live" => Agrees(d, raw'[d], ToldOf(d, state'[d]), Coming(d)', Snapshot(d)')
  BY <1>7, <1>8, <1>9
<1> QED BY <1>5, <1>10 DEF InStepAll

(* The reports name what was pressed, now that the batch counts as read. *)
LEMMA AppliedNamed ==
  ASSUME InputsAssumption, InputInv, NEW d \in Paths, Turn(d), batch # <<>>, NEW r, Knows(d, batch, r),
         AppliedOne(d, r), RestSame(d), dropping' \in SUBSET Paths, reports' = r.reports,
         seen' = (IF d \in Touches THEN seen ELSE seen \cup Presses(batch)),
         doubt' = doubt \cup (IF r.synced THEN {"Lost"} ELSE {})
                        \cup (IF r.late \/ d \in torn THEN {"Torn"} ELSE {})
  PROVE  NamedKept'
<1>1. /\ r \in ReadStates(d) /\ ReadSoFar(d, batch, r) /\ TouchSoFar(d, r)
      /\ d \notin Touches => NamedSoFar(d, batch, r)
  BY DEF Knows
<1>2. r.dropping \in BOOLEAN /\ r.synced \in BOOLEAN /\ r.late \in BOOLEAN
  BY <1>1 DEF ReadStates
<1>3. Len(reports') <= MAXIMUM_CONTROL_REPORTS
  BY <1>1 DEF ReadSoFar
<1>4. \A c \in Pads : c \in Paths /\ c \notin Keyboards /\ c \notin Touches
  BY DEF Paths, InputsAssumption
<1>5. \A c \in Pads : c # d => raw[c] = state[c] /\ raw'[c] = state'[c]
  <2>1. ASSUME NEW c \in Pads, c # d PROVE raw[c] = state[c] /\ raw'[c] = state'[c]
    <3>1. c \in Paths /\ c \notin Keyboards /\ ~Turn(c)
      BY <1>4, <2>1 DEF Turn
    <3>2. Complete(c)
      BY <3>1 DEF InputInv, Packets
    <3>3. raw'[c] = raw[c] /\ state'[c] = state[c]
      BY <2>1, <3>1 DEF RestSame
    <3> QED BY <3>1, <3>2, <3>3 DEF Complete
  <2> QED BY <2>1
<1>6. Fresh' = New(d, r)
  <2>1. CASE d \in Pads
    <3>1. UNION {raw'[c] \ state'[c] : c \in Pads} = r.raw \ r.state
      BY <1>5, <2>1 DEF AppliedOne
    <3> QED BY <2>1, <3>1 DEF Fresh, New
  <2>2. CASE d \notin Pads
    <3>1. \A c \in Pads : raw'[c] = state'[c]
      BY <1>5, <2>2
    <3>2. Fresh' = {}
      BY <3>1 DEF Fresh
    <3> QED BY <2>2, <3>2 DEF New
  <2> QED BY <2>1, <2>2
<1>7. "Torn" \notin doubt' => "Torn" \notin doubt /\ ~r.late /\ d \notin torn
  OBVIOUS
<1>8. "Lost" \notin doubt' => "Lost" \notin doubt /\ ~r.synced
  OBVIOUS
<1>9. ASSUME "Lost" \notin doubt', dropping' = {} PROVE dropping = {} /\ ~r.dropping
  <2>1. ~r.synced /\ ~r.dropping
    BY <1>8, <1>9 DEF AppliedOne
  <2>2. d \notin dropping
    BY <1>1, <2>1 DEF ReadSoFar
  <2>3. \A c \in Paths : c \notin dropping
    BY <1>9, <2>2 DEF RestSame
  <2>4. dropping \in SUBSET Paths
    BY DEF InputInv, InputTypes
  <2> QED BY <2>1, <2>3, <2>4
<1>10. CASE d \in Touches
  <2>1. reports' = reports /\ seen' = seen
    BY <1>1, <1>10 DEF TouchSoFar
  <2>2. d \notin Pads
    BY <1>4, <1>10
  <2>3. Fresh' = {} /\ Fresh = {}
    <3>1. \A c \in Pads : raw[c] = state[c]
      BY <1>5, <2>2
    <3>2. Fresh = {}
      BY <3>1 DEF Fresh
    <3>3. Fresh' = {}
      BY <1>6, <2>2 DEF New
    <3> QED BY <3>2, <3>3
  <2>4. "Torn" \notin doubt =>
          /\ NamedBy(reports) \cup Fresh \subseteq seen
          /\ (Len(reports) < MAXIMUM_CONTROL_REPORTS /\ "Lost" \notin doubt /\ dropping = {}) =>
               seen \subseteq NamedBy(reports) \cup Fresh
    BY DEF InputInv, NamedKept
  <2> QED BY <1>3, <1>7, <1>8, <1>9, <2>1, <2>3, <2>4 DEF NamedKept
<1>11. CASE d \notin Touches
  <2>1. (d \notin dropping /\ d \notin torn) => Trace(d, batch).fits
    <3>1. SUFFICES ASSUME d \notin dropping, d \notin torn PROVE Trace(d, batch).fits
      OBVIOUS
    <3> DEFINE x0 == raw[d]
               y0 == ToldOf(d, state[d])
               q == queue[d]
    <3>2. /\ x0 \in SUBSET Mask(d) /\ y0 \in SUBSET Mask(d) /\ q \in Seq(EventsOf(d))
             /\ batch \in Seq(EventsOf(d))
          /\ Coming(d) = batch \o q
      BY DEF InputInv, InputTypes, ToldOf, Mine, Coming
    <3>3. Track(d, From(x0, y0), batch \o q).fits
      BY <3>1, <3>2 DEF InputInv, InStepAll
    <3>4. Trace(d, batch) = Track(d, From(x0, y0), batch)
      BY DEF Trace, Outset
    <3> HIDE DEF x0, y0, q
    <3>5. Track(d, From(x0, y0), batch).fits
      BY ONLY <3>2, <3>3, FitsFirst
    <3> QED BY <3>4, <3>5
  <2>2. ASSUME "Torn" \notin doubt'
        PROVE  /\ NamedBy(r.reports) \cup New(d, r) \subseteq seen \cup Presses(batch)
               /\ (Len(r.reports) < MAXIMUM_CONTROL_REPORTS /\ "Lost" \notin doubt /\ dropping = {} /\ ~r.synced /\ ~r.dropping) =>
                    seen \cup Presses(batch) \subseteq NamedBy(r.reports) \cup New(d, r)
    <3>1. "Torn" \notin doubt /\ d \notin torn /\ ~r.late
      BY <1>7, <2>2
    <3> QED BY <1>1, <1>11, <2>1, <3>1 DEF NamedSoFar
  <2>3. seen' = seen \cup Presses(batch)
    BY <1>11
  <2>4. ASSUME "Torn" \notin doubt'
        PROVE  /\ NamedBy(reports') \cup Fresh' \subseteq seen'
               /\ (Len(reports') < MAXIMUM_CONTROL_REPORTS /\ "Lost" \notin doubt' /\ dropping' = {}) =>
                    seen' \subseteq NamedBy(reports') \cup Fresh'
    BY <1>6, <1>8, <1>9, <2>2, <2>3, <2>4
  <2>5. NamedBy(reports)' = NamedBy(reports')
    BY DEF NamedBy
  <2> QED BY <1>3, <2>4, <2>5 DEF NamedKept
<1> QED BY <1>10, <1>11

(* The touchscreen is followed through the batch. *)
LEMMA AppliedTouch ==
  ASSUME InputsAssumption, InputInv, NEW d \in Paths, NEW r, Knows(d, batch, r),
         AppliedOne(d, r), RestSame(d), handle' = handle, touches' = r.touches, told' = told
  PROVE  TouchFollowed'
<1>1. TouchSoFar(d, r) /\ state'[d] = r.state
  BY DEF Knows, AppliedOne
<1>2. CASE d \in Touches
  <2>1. Trail(touches') /\ (state'[d] # {}) = Contact(touches')
    BY <1>1, <1>2 DEF TouchSoFar
  <2>2. \A c \in Touches : c = d
    BY <1>2, OneTouch
  <2>3. /\ \A i \in 1..Len(touches') :
             LET last == IF i = 1 THEN told # {} ELSE touches'[i - 1].down
             IN  /\ touches'[i].pressed <=> (touches'[i].down /\ ~last)
                 /\ touches'[i].released <=> (~touches'[i].down /\ last)
        /\ (state'[d] # {}) = (IF touches' = <<>> THEN told # {} ELSE Last(touches').down)
    BY <2>1 DEF Trail, Contact
  <2> QED BY <2>2, <2>3 DEF TouchFollowed, Last
<1>3. CASE d \notin Touches
  <2>1. touches' = touches
    BY <1>1, <1>3 DEF TouchSoFar
  <2>2. \A c \in Touches : c \in Paths /\ c # d
    BY <1>3 DEF Paths
  <2>3. \A c \in Touches : state'[c] = state[c]
    BY <2>2 DEF RestSame
  <2> QED BY <2>1, <2>3, TouchKept DEF InputInv
<1> QED BY <1>2, <1>3

(* What a batch of a device does that leaves its reader at r: the device is lost,
   or the batch is applied. *)
Outcome(d, after) ==
  IF after.synced /\ handle[d] = "Dead" /\ d \notin Touches
  THEN LoseDevice(d)
  ELSE /\ raw' = [raw EXCEPT ![d] = after.raw]
       /\ state' = [state EXCEPT ![d] = after.state]
       /\ dropping' = IF after.dropping THEN dropping \cup {d} ELSE dropping \ {d}
       /\ torn' = IF ~after.synced THEN torn
                  ELSE IF after.late THEN torn \cup {d} ELSE torn \ {d}
       /\ queue' = IF after.synced THEN [queue EXCEPT ![d] = AfterSnapshot(@)] ELSE queue
       /\ reports' = after.reports /\ touches' = after.touches
       /\ seen' = IF d \in Touches THEN seen ELSE seen \cup Presses(batch)
       /\ doubt' = doubt \cup (IF after.synced THEN {"Lost"} ELSE {})
                         \cup (IF after.late \/ d \in torn THEN {"Torn"} ELSE {})
       /\ UNCHANGED <<handle, at, grabbed, told, rescan_requested, phase, ready>>

(* The step that applies a batch is such an outcome. *)
LEMMA ApplyIs ==
  ASSUME Apply
  PROVE  \E r : r = A!Fold(Current, ReaderOf(Current), batch) /\ Outcome(Current, r)
<1> DEFINE r0 == ReadAll(LAMBDA s, e : Handle(Current, s, e), ReaderOf(Current), batch)
<1>1. Outcome(Current, r0)
  BY Zenon DEF Apply, ReaderOf, Outcome
<1>2. r0 = A!Fold(Current, ReaderOf(Current), batch)
  BY ReadIs
<1> QED BY ONLY <1>1, <1>2

(* It applies the batch in hand. *)
LEMMA ApplyIn ==
  ASSUME Apply
  PROVE  phase = "Reading" /\ batch # <<>> /\ batch' = <<>> /\ UNCHANGED usedVars
BY Zenon DEF Apply

(* A batch that is applied keeps the invariant. *)
LEMMA OutcomeKeeps ==
  ASSUME InputsAssumption, InputInv, NEW d \in Paths, Turn(d), batch # <<>>, NEW r, Knows(d, batch, r),
         Applied(d, r)
  PROVE  InputInv'
<1>1. /\ r \in ReadStates(d) /\ AppliedOne(d, r) /\ RestSame(d) /\ dropping' \in SUBSET Paths
         /\ torn' \in SUBSET Paths
      /\ DOMAIN raw' = Paths /\ DOMAIN state' = Paths /\ DOMAIN queue' = Paths
  <2>1. r \in ReadStates(d) /\ InputTypes
    BY DEF Knows, InputInv
  <2> QED BY <2>1, AppliedEach
<1>2. /\ reports' = r.reports /\ touches' = r.touches
      /\ seen' = (IF d \in Touches THEN seen ELSE seen \cup Presses(batch))
      /\ doubt' = doubt \cup (IF r.synced THEN {"Lost"} ELSE {})
                        \cup (IF r.late \/ d \in torn THEN {"Torn"} ELSE {})
      /\ handle' = handle /\ at' = at /\ grabbed' = grabbed /\ told' = told
         /\ rescan_requested' = rescan_requested
      /\ phase' = phase /\ ready' = ready /\ batch' = <<>> /\ scope' = scope /\ node' = node /\ held' = held
  BY DEF Applied
<1>3. InputTypes /\ Handles /\ Queues /\ Reading /\ Packets /\ InStepAll /\ NamedKept /\ TouchFollowed
  BY DEF InputInv
<1>4. /\ r.raw \in SUBSET Mask(d) /\ r.state \in SUBSET Mask(d) /\ r.reports \in Seq(AllReports)
      /\ r.touches \in Seq(TouchReports)
  BY <1>1 DEF ReadStates
<1>5. /\ queue'[d] \in Seq(EventsOf(d)) /\ LossFirst(queue'[d]) /\ Ends(queue'[d])
         /\ Len(queue'[d]) <= Capacity
      /\ queue[d] = <<>> <=> queue'[d] = <<>>
  BY <1>1, AppliedQueue
<1>6. \A c \in Paths : Mine(c)' = <<>>
  BY <1>2 DEF Mine
<1>7. InputTypes'
  <2>1. ASSUME NEW c \in Paths
        PROVE  /\ held'[c] \in SUBSET Buttons(c) /\ raw'[c] \in SUBSET Mask(c) /\ state'[c] \in SUBSET Mask(c)
               /\ queue'[c] \in Seq(EventsOf(c)) /\ Mine(c)' \in Seq(EventsOf(c))
    <3>1. /\ held[c] \in SUBSET Buttons(c) /\ raw[c] \in SUBSET Mask(c) /\ state[c] \in SUBSET Mask(c)
          /\ queue[c] \in Seq(EventsOf(c))
      BY <1>3 DEF InputTypes
    <3>2. <<>> \in Seq(EventsOf(c))
      OBVIOUS
    <3>3. Mine(c)' \in Seq(EventsOf(c)) /\ held'[c] \in SUBSET Buttons(c)
      BY <1>2, <1>6, <3>1, <3>2
    <3>4. CASE c = d
      BY <1>1, <1>4, <1>5, <3>3, <3>4 DEF AppliedOne
    <3>5. CASE c # d
      <4>1. raw'[c] = raw[c] /\ state'[c] = state[c] /\ queue'[c] = queue[c]
        BY <1>1, <3>5 DEF RestSame
      <4> QED BY <3>1, <3>3, <4>1
    <3> QED BY <3>4, <3>5
  <2> QED BY <1>1, <1>2, <1>3, <1>4, <2>1 DEF InputTypes
<1>8. Handles'
  <2>1. Opened' = Opened
    BY <1>2 DEF Opened
  <2> QED BY <1>2, <1>3, <2>1 DEF Handles, GrabHeld
<1>9. Queues'
  <2>1. ASSUME NEW c \in Paths
        PROVE  /\ LossFirst(queue'[c]) /\ Ends(queue'[c]) /\ Len(queue'[c]) <= Capacity
               /\ handle'[c] # "Live" => queue'[c] = <<>>
    <3>1. /\ LossFirst(queue[c]) /\ Ends(queue[c]) /\ Len(queue[c]) <= Capacity
          /\ handle[c] # "Live" => queue[c] = <<>>
      BY <1>3 DEF Queues
    <3>2. CASE c = d
      BY <1>2, <1>5, <3>1, <3>2
    <3>3. CASE c # d
      <4>1. queue'[c] = queue[c]
        BY <1>1, <3>3 DEF RestSame
      <4> QED BY <1>2, <3>1, <4>1
    <3> QED BY <3>2, <3>3
  <2> QED BY <2>1 DEF Queues
<1>10. Reading'
  <2>1. phase = "Reading" => ready # {} /\ \A c \in ready : handle[c] # "None"
    BY <1>3 DEF Reading
  <2> QED BY <1>2, <2>1 DEF Reading, LossFirst, Ends
<1>11. Packets'
  BY <1>1, <1>2, AppliedPackets
<1>12. InStepAll'
  BY <1>1, <1>2, AppliedInStep
<1>13. NamedKept'
  BY <1>1, <1>2, AppliedNamed
<1>14. TouchFollowed'
  BY <1>1, <1>2, AppliedTouch
<1> QED BY <1>7, <1>8, <1>9, <1>10, <1>11, <1>12, <1>13, <1>14 DEF InputInv

(* So does the step, whatever becomes of the device. *)
LEMMA ApplyKeeps == ASSUME InputsAssumption, InputInv, Apply PROVE InputInv'
<1>1. phase = "Reading" /\ batch # <<>> /\ batch' = <<>> /\ UNCHANGED usedVars
  BY ApplyIn
<1>2. PICK r : r = A!Fold(Current, ReaderOf(Current), batch) /\ Outcome(Current, r)
  BY ApplyIs
<1> DEFINE d == Current
<1>3. InputTypes /\ NamedKept /\ Packets /\ TouchFollowed /\ Reading
  BY DEF InputInv
<1>4. d \in Paths /\ Turn(d) /\ handle[d] # "None"
  <2>1. ready \in SUBSET Paths /\ ready # {} /\ \A c \in ready : handle[c] # "None"
    BY <1>1, <1>3 DEF InputTypes, Reading
  <2>2. d \in ready
    BY <2>1, CurrentReady
  <2> QED BY <1>1, <2>1, <2>2 DEF Turn
<1>5. batch \in Seq(EventsOf(d)) /\ LossFirst(batch)
  <2>1. Mine(d) \in Seq(EventsOf(d)) /\ Mine(d) = batch
    BY <1>3, <1>4 DEF InputTypes, Mine
  <2> QED BY <1>3, <2>1 DEF Reading
<1>6. Knows(d, batch, r)
  <2> DEFINE st0 == ReaderOf(d)
  <2>1. st0 = ReaderOf(d) /\ r = A!Fold(d, st0, batch)
    BY <1>2
  <2> HIDE DEF d, st0
  <2> QED BY <1>3, <1>4, <1>5, <2>1, ReadAfter
<1>0. d = Current /\ Outcome(d, r)
  BY <1>2
<1> HIDE DEF d
<1>7. CASE r.synced /\ handle[d] = "Dead" /\ d \notin Touches
  <2>1. LoseDevice(d)
    BY <1>0, <1>7 DEF Outcome
  <2> QED BY <1>0, <1>1, <2>1, LoseKeeps
<1>8. CASE ~(r.synced /\ handle[d] = "Dead" /\ d \notin Touches)
  <2>1. Applied(d, r)
    BY <1>0, <1>1, <1>8 DEF Outcome, Applied, usedVars
  <2> QED BY <1>1, <1>4, <1>6, <2>1, OutcomeKeeps
<1> QED BY <1>7, <1>8

-----------------------------------------------------------------------------
(* The world moves.                                                        *)

(* What the world does to one device keeps the rest as it was, when the device
   still agrees with what is coming of it. *)
Elsewhere(d) ==
  /\ scope' = scope /\ at' = at /\ grabbed' = grabbed /\ raw' = raw /\ state' = state /\ dropping' = dropping
  /\ torn' = torn /\ reports' = reports /\ touches' = touches /\ seen' = seen /\ doubt' = doubt
     /\ told' = told
  /\ rescan_requested' = rescan_requested /\ phase' = phase /\ ready' = ready /\ batch' = batch
  /\ \A c \in Paths : c # d => node'[c] = node[c] /\ held'[c] = held[c] /\ handle'[c] = handle[c]
     /\ queue'[c] = queue[c]
Still(d) ==
  /\ node' \in [Paths -> Nodes \cup {0}] /\ handle' \in [Paths -> {"None", "Live", "Dead"}]
  /\ DOMAIN held' = Paths /\ DOMAIN queue' = Paths
  /\ \A c, e \in Paths : (c # e /\ node'[c] # 0) => node'[c] # node'[e]
  /\ held'[d] \in SUBSET Buttons(d)
  /\ handle'[d] # "None" <=> handle[d] # "None"
  /\ handle'[d] = "Live" => handle[d] = "Live" /\ node'[d] = node[d]
  /\ queue'[d] \in Seq(EventsOf(d)) /\ LossFirst(queue'[d]) /\ Ends(queue'[d]) /\ Len(queue'[d]) <= Capacity
  /\ handle'[d] # "Live" => queue'[d] = <<>>
  /\ handle'[d] = "Live" => (queue'[d] = <<>> => queue[d] = <<>>)
  /\ d \notin dropping \cup torn =>
       /\ Track(d, From(raw[d], ToldOf(d, state[d])), Mine(d) \o queue'[d]).fits
       /\ handle'[d] = "Live" => Agrees(d, raw[d], ToldOf(d, state[d]), Mine(d) \o queue'[d], Snapshot(d)')

(* That is enough. *)
LEMMA WorldKeeps ==
  ASSUME InputsAssumption, InputInv, NEW d \in Paths, Elsewhere(d), Still(d)
  PROVE  InputInv'
<1>1. InputTypes /\ Handles /\ Queues /\ Reading /\ Packets /\ InStepAll /\ NamedKept /\ TouchFollowed
  BY DEF InputInv
<1>2. /\ scope' = scope /\ at' = at /\ grabbed' = grabbed /\ raw' = raw /\ state' = state
         /\ dropping' = dropping
      /\ torn' = torn /\ reports' = reports /\ touches' = touches /\ seen' = seen /\ doubt' = doubt
         /\ told' = told
      /\ rescan_requested' = rescan_requested /\ phase' = phase /\ ready' = ready /\ batch' = batch
  BY DEF Elsewhere
<1>3. ASSUME NEW c \in Paths, c # d
      PROVE  node'[c] = node[c] /\ held'[c] = held[c] /\ handle'[c] = handle[c] /\ queue'[c] = queue[c]
  BY <1>3 DEF Elsewhere
<1>4. Current' = Current /\ \A c : (Turn(c)' <=> Turn(c)) /\ Mine(c)' = Mine(c)
      /\ (Complete(c)' <=> Complete(c))
  <2>1. Current' = Current
    BY <1>2 DEF Current
  <2> QED BY <1>2, <2>1 DEF Turn, Mine, Complete
<1>5. ASSUME NEW c \in Paths
      PROVE  /\ handle'[c] # "None" <=> handle[c] # "None"
             /\ handle'[c] = "Live" => handle[c] = "Live" /\ node'[c] = node[c]
             /\ queue'[c] \in Seq(EventsOf(c)) /\ LossFirst(queue'[c]) /\ Ends(queue'[c])
                /\ Len(queue'[c]) <= Capacity
             /\ handle'[c] # "Live" => queue'[c] = <<>>
             /\ handle'[c] = "Live" => (queue'[c] = <<>> => queue[c] = <<>>)
             /\ held'[c] \in SUBSET Buttons(c)
  <2>1. CASE c = d
    BY <2>1 DEF Still
  <2>2. CASE c # d
    BY <1>1, <1>3, <2>2 DEF InputTypes, Queues
  <2> QED BY <2>1, <2>2
<1>6. InputTypes'
  <2>1. /\ node' \in [Paths -> Nodes \cup {0}] /\ handle' \in [Paths -> {"None", "Live", "Dead"}]
        /\ DOMAIN held' = Paths /\ DOMAIN queue' = Paths
    BY DEF Still
  <2> QED BY <1>1, <1>2, <1>4, <1>5, <2>1 DEF InputTypes
<1>7. Handles'
  <2>1. Opened' = Opened
    BY <1>5 DEF Opened
  <2>2. \A c, e \in Paths : (c # e /\ node'[c] # 0) => node'[c] # node'[e]
    BY DEF Still
  <2>3. \A c \in Paths : handle'[c] = "Live" => node'[c] # 0 /\ at'[c] = node'[c]
    BY <1>1, <1>2, <1>5 DEF Handles
  <2>4. \A c \in Paths : grabbed'[c] => handle'[c] # "None"
    BY <1>1, <1>2, <1>5 DEF Handles
  <2>5. GrabHeld'
    BY <1>1, <1>2, <1>5 DEF Handles, GrabHeld
  <2> QED BY <1>1, <2>1, <2>2, <2>3, <2>4, <2>5 DEF Handles
<1>8. Queues'
  BY <1>5 DEF Queues
<1>9. Reading'
  <2>1. ready \in SUBSET Paths
    BY <1>1 DEF InputTypes
  <2>2. phase' = "Reading" => ready' # {} /\ \A c \in ready' : handle'[c] # "None"
    BY <1>1, <1>2, <1>5, <2>1 DEF Reading
  <2>3. \A c \in Paths : (Turn(c)' /\ handle'[c] = "Live" /\ queue'[c] = <<>>) => Ends(batch')
    BY <1>1, <1>2, <1>4, <1>5 DEF Reading
  <2> QED BY <1>1, <1>2, <2>2, <2>3 DEF Reading
<1>10. Packets'
  BY <1>1, <1>2, <1>4, <1>5 DEF Packets
<1>11. InStepAll'
  <2>1. ASSUME NEW c \in Paths \ (dropping \cup torn)
        PROVE  /\ Track(c, From(raw[c], ToldOf(c, state[c])), Coming(c)').fits
               /\ handle'[c] = "Live" => Agrees(c, raw[c], ToldOf(c, state[c]), Coming(c)', Snapshot(c)')
    <3>1. Coming(c)' = Mine(c) \o queue'[c]
      BY <1>4 DEF Coming
    <3>2. CASE c = d
      BY <2>1, <3>1, <3>2 DEF Still
    <3>3. CASE c # d
      <4>1. Coming(c)' = Coming(c) /\ handle'[c] = handle[c]
        BY <1>3, <3>1, <3>3 DEF Coming
      <4>2. Snapshot(c)' = Snapshot(c)
        BY <1>3, <3>3 DEF Snapshot
      <4>3. /\ Track(c, From(raw[c], ToldOf(c, state[c])), Coming(c)).fits
            /\ handle[c] = "Live" => Agrees(c, raw[c], ToldOf(c, state[c]), Coming(c), Snapshot(c))
        BY <1>1, <2>1 DEF InStepAll
      <4> QED BY <4>1, <4>2, <4>3
    <3> QED BY <3>2, <3>3
  <2> QED BY <1>2, <2>1 DEF InStepAll
<1>12. NamedKept'
  <2>1. Fresh' = Fresh
    BY <1>2 DEF Fresh
  <2> QED BY <1>1, <1>2, <2>1 DEF NamedKept
<1>13. TouchFollowed'
  <2>1. \A c \in Touches : c \in Paths
    BY DEF Paths
  <2>2. \A c \in Touches : handle'[c] # "None" => handle[c] # "None" /\ state'[c] = state[c]
    BY <1>2, <1>5, <2>1
  <2> QED BY <1>1, <1>2, <2>2, TouchKept
<1> QED BY <1>6, <1>7, <1>8, <1>9, <1>10, <1>11, <1>12, <1>13 DEF InputInv

(* What is known of a device before. *)
LEMMA StillNow ==
  ASSUME InputInv, NEW d \in Paths
  PROVE  /\ node \in [Paths -> Nodes \cup {0}] /\ handle \in [Paths -> {"None", "Live", "Dead"}]
         /\ DOMAIN held = Paths /\ DOMAIN queue = Paths
         /\ \A c, e \in Paths : (c # e /\ node[c] # 0) => node[c] # node[e]
         /\ handle[d] = "Live" => node[d] # 0 /\ at[d] = node[d]
         /\ held[d] \in SUBSET Buttons(d) /\ raw[d] \in SUBSET Mask(d)
            /\ ToldOf(d, state[d]) \in SUBSET Mask(d)
         /\ Mine(d) \in Seq(EventsOf(d))
         /\ queue[d] \in Seq(EventsOf(d)) /\ LossFirst(queue[d]) /\ Ends(queue[d])
            /\ Len(queue[d]) <= Capacity
         /\ handle[d] # "Live" => queue[d] = <<>>
         /\ d \notin dropping \cup torn =>
              /\ Track(d, From(raw[d], ToldOf(d, state[d])), Mine(d) \o queue[d]).fits
              /\ handle[d] = "Live" => Agrees(d, raw[d], ToldOf(d, state[d]), Mine(d) \o queue[d], Snapshot(d))
<1>1. InputTypes /\ Handles /\ Queues /\ InStepAll
  BY DEF InputInv
<1>2. /\ d \notin dropping \cup torn =>
              /\ Track(d, From(raw[d], ToldOf(d, state[d])), Mine(d) \o queue[d]).fits
              /\ handle[d] = "Live" => Agrees(d, raw[d], ToldOf(d, state[d]), Mine(d) \o queue[d], Snapshot(d))
  BY <1>1 DEF InStepAll, Coming
<1>3. ToldOf(d, state[d]) \in SUBSET Mask(d)
  BY <1>1 DEF InputTypes, ToldOf
<1> QED BY <1>1, <1>2, <1>3 DEF InputTypes, Handles, Queues

(* A device appears at a node of its own. *)
LEMMA PlugKeeps == ASSUME InputsAssumption, InputInv, NEW d \in Paths, Plug(d) PROVE InputInv'
<1>1. PICK n \in Nodes : (\A e \in Paths : node[e] # n) /\ node' = [node EXCEPT ![d] = n]
  BY DEF Plug
<1>2. /\ node[d] = 0
      /\ UNCHANGED <<scope, held, deviceVars, reportVars, rescan_requested, phase, ready, batch>>
  BY DEF Plug
<1>3. /\ held' = held /\ handle' = handle /\ queue' = queue
      /\ scope' = scope /\ at' = at /\ grabbed' = grabbed /\ raw' = raw /\ state' = state
         /\ dropping' = dropping
      /\ torn' = torn /\ reports' = reports /\ touches' = touches /\ seen' = seen /\ doubt' = doubt
         /\ told' = told
      /\ rescan_requested' = rescan_requested /\ phase' = phase /\ ready' = ready /\ batch' = batch
  BY <1>2 DEF deviceVars, reportVars
<1>4. /\ node' \in [Paths -> Nodes \cup {0}] /\ node'[d] = n /\ \A c \in Paths : c # d => node'[c] = node[c]
      /\ \A c, e \in Paths : (c # e /\ node'[c] # 0) => node'[c] # node'[e]
  BY <1>1, <1>2, StillNow
<1>5. handle[d] # "Live"
  BY <1>2, StillNow
<1>6. Elsewhere(d)
  BY <1>3, <1>4 DEF Elsewhere
<1>7. Still(d)
  BY <1>3, <1>4, <1>5, StillNow DEF Still
<1> QED BY <1>6, <1>7, WorldKeeps

(* A device is pulled out: its handle is dead, and its queue lost. *)
LEMMA UnplugKeeps == ASSUME InputsAssumption, InputInv, NEW d \in Paths, Unplug(d) PROVE InputInv'
<1>1. /\ node' = [node EXCEPT ![d] = 0] /\ held' = [held EXCEPT ![d] = {}]
      /\ IF handle[d] = "Live" /\ at[d] = node[d]
         THEN handle' = [handle EXCEPT ![d] = "Dead"] /\ queue' = [queue EXCEPT ![d] = <<>>]
         ELSE handle' = handle /\ queue' = queue
      /\ scope' = scope /\ at' = at /\ grabbed' = grabbed /\ raw' = raw /\ state' = state
         /\ dropping' = dropping
      /\ torn' = torn /\ reports' = reports /\ touches' = touches /\ seen' = seen /\ doubt' = doubt
         /\ told' = told
      /\ rescan_requested' = rescan_requested /\ phase' = phase /\ ready' = ready /\ batch' = batch
  BY DEF Unplug, reportVars
<1>2. /\ node \in [Paths -> Nodes \cup {0}] /\ handle \in [Paths -> {"None", "Live", "Dead"}]
      /\ DOMAIN held = Paths /\ DOMAIN queue = Paths
      /\ \A c, e \in Paths : (c # e /\ node[c] # 0) => node[c] # node[e]
      /\ handle[d] = "Live" => node[d] # 0 /\ at[d] = node[d]
      /\ handle[d] # "Live" => queue[d] = <<>>
  BY StillNow
<1>3. /\ node' \in [Paths -> Nodes \cup {0}] /\ node'[d] = 0 /\ \A c \in Paths : c # d => node'[c] = node[c]
      /\ \A c, e \in Paths : (c # e /\ node'[c] # 0) => node'[c] # node'[e]
  BY <1>1, <1>2
<1>4. DOMAIN held' = Paths /\ held'[d] = {} /\ \A c \in Paths : c # d => held'[c] = held[c]
  BY <1>1, <1>2
<1>5. /\ handle' \in [Paths -> {"None", "Live", "Dead"}] /\ DOMAIN queue' = Paths
      /\ (handle'[d] # "None" <=> handle[d] # "None") /\ handle'[d] # "Live" /\ queue'[d] = <<>>
      /\ \A c \in Paths : c # d => handle'[c] = handle[c] /\ queue'[c] = queue[c]
  BY <1>1, <1>2
<1>6. <<>> \in Seq(EventsOf(d)) /\ LossFirst(<<>>) /\ Ends(<<>>) /\ Len(<<>>) <= Capacity
  BY DEF LossFirst, Ends, InputsAssumption
<1>7. ASSUME d \notin dropping \cup torn
      PROVE  Track(d, From(raw[d], ToldOf(d, state[d])), Mine(d) \o <<>>).fits
  <2> DEFINE x == raw[d]
             y == ToldOf(d, state[d])
             b == Mine(d)
             q == queue[d]
  <2>1. /\ x \in SUBSET Mask(d) /\ y \in SUBSET Mask(d) /\ b \in Seq(EventsOf(d)) /\ q \in Seq(EventsOf(d))
        /\ Track(d, From(x, y), b \o q).fits
    BY <1>7, StillNow
  <2> HIDE DEF x, y, b, q
  <2>2. Track(d, From(x, y), b).fits
    BY ONLY <2>1, FitsFirst
  <2>3. b \o <<>> = b
    BY <2>1
  <2> QED BY <2>2, <2>3 DEF x, y, b
<1>8. Elsewhere(d)
  BY <1>1, <1>3, <1>4, <1>5 DEF Elsewhere
<1>9. Still(d)
  BY <1>3, <1>4, <1>5, <1>6, <1>7 DEF Still
<1> QED BY <1>8, <1>9, WorldKeeps

(* What a snapshot tells moves with the button, if it is tracked. *)
LEMMA SnapshotMoves ==
  ASSUME InputsAssumption, NEW d \in Paths, held[d] \in SUBSET Buttons(d), NEW e, e.code \in Buttons(d),
         held'[d] = Level(held[d], e)
  PROVE  /\ Snapshot(d)' = IF e.code \in Mask(d) THEN Level(Snapshot(d), e) ELSE Snapshot(d)
         /\ Shift \in Snapshot(d) <=> Shift \in held[d]
         /\ e.code \in Snapshot(d) => e.code \in held[d]
<1>1. CASE d \in Keyboards
  <2>1. Mask(d) = {Shift} /\ Snapshot(d) = held[d] \cap {Shift}
        /\ Snapshot(d)' = Level(held[d], e) \cap {Shift}
    BY <1>1 DEF Mask, Snapshot
  <2> QED BY <2>1 DEF Level
<1>2. CASE d \notin Keyboards
  <2>1. Mask(d) = Buttons(d) /\ Snapshot(d) = held[d] /\ Snapshot(d)' = Level(held[d], e)
    BY <1>2 DEF Mask, Snapshot
  <2> QED BY <2>1
<1> QED BY <1>1, <1>2

(* A packet is posted to the open handle. *)
LEMMA MoveKeeps ==
  ASSUME InputsAssumption, InputInv, NEW d \in Paths, NEW b \in Buttons(d),
         NEW value \in {"Down", "Up", "Repeat"},
         value = "Repeat" => b \in {Arrow, Letter}, Move(d, b, value)
  PROVE  InputInv'
<1> DEFINE e == Press(b, value, Shift \in held[d])
           r == Post(queue[d], <<e, Report>>, Capacity)
<1>1. /\ node[d] # 0 /\ ((value = "Down") <=> (b \notin held[d]))
      /\ held' = [held EXCEPT ![d] = Level(@, e)]
      /\ queue' = (IF handle[d] = "Live" THEN [queue EXCEPT ![d] = r] ELSE queue)
      /\ node' = node /\ handle' = handle
      /\ scope' = scope /\ at' = at /\ grabbed' = grabbed /\ raw' = raw /\ state' = state
         /\ dropping' = dropping
      /\ torn' = torn /\ reports' = reports /\ touches' = touches /\ seen' = seen /\ doubt' = doubt
         /\ told' = told
      /\ rescan_requested' = rescan_requested /\ phase' = phase /\ ready' = ready /\ batch' = batch
  BY DEF Move, reportVars
<1>2. /\ DOMAIN held = Paths /\ DOMAIN queue = Paths /\ held[d] \in SUBSET Buttons(d)
      /\ node \in [Paths -> Nodes \cup {0}] /\ handle \in [Paths -> {"None", "Live", "Dead"}]
      /\ \A c, f \in Paths : (c # f /\ node[c] # 0) => node[c] # node[f]
      /\ queue[d] \in Seq(EventsOf(d)) /\ LossFirst(queue[d]) /\ Ends(queue[d]) /\ Len(queue[d]) <= Capacity
      /\ handle[d] # "Live" => queue[d] = <<>>
  BY StillNow
<1>3. /\ e \in EventsOf(d) /\ IsKey(e) /\ e.code = b /\ e.value = value /\ (e.shifted <=> Shift \in held[d])
  <2> DEFINE s == Shift \in held[d]
  <2>1. s \in BOOLEAN /\ e = Press(b, value, s)
    OBVIOUS
  <2> HIDE DEF s, e
  <2>2. e \in EventsOf(d) /\ IsKey(e) /\ e.code = b /\ e.value = value /\ e.shifted = s
    BY <2>1, EventKinds
  <2> QED BY <2>2 DEF s
<1>4. DOMAIN held' = Paths /\ held'[d] = Level(held[d], e) /\ \A c \in Paths : c # d => held'[c] = held[c]
  BY <1>1, <1>2
<1>5. /\ DOMAIN queue' = Paths /\ queue'[d] = (IF handle[d] = "Live" THEN r ELSE queue[d])
      /\ \A c \in Paths : c # d => queue'[c] = queue[c]
  BY <1>1, <1>2
<1> DEFINE h == Snapshot(d)
           n == Snapshot(d)'
<1>6. /\ n = (IF e.code \in Mask(d) THEN Level(h, e) ELSE h)
      /\ e.shifted <=> Shift \in h
      /\ (e.code \in Mask(d) /\ e.value = "Down") => e.code \notin h
  <2>1. e.code \in Buttons(d) /\ held[d] \in SUBSET Buttons(d) /\ held'[d] = Level(held[d], e)
    BY <1>1, <1>2, <1>3, <1>4
  <2>2. (e.code \in Mask(d) /\ e.value = "Down") => e.code \notin held[d]
    BY <1>1, <1>3
  <2> HIDE DEF e
  <2>3. /\ n = (IF e.code \in Mask(d) THEN Level(h, e) ELSE h)
        /\ Shift \in h <=> Shift \in held[d]
        /\ e.code \in h => e.code \in held[d]
    BY <2>1, SnapshotMoves
  <2> QED BY <1>3, <2>2, <2>3
<1>0. r = Post(queue[d], <<e, Report>>, Capacity)
  OBVIOUS
<1> HIDE DEF e, r, n, h
<1>7. held'[d] \in SUBSET Buttons(d)
  BY <1>2, <1>3, <1>4 DEF Level
<1>8. r \in Seq(EventsOf(d)) /\ r # <<>> /\ Ends(r) /\ LossFirst(r) /\ Len(r) <= Capacity
  <2> DEFINE q == queue[d]
  <2>1. q \in Seq(EventsOf(d)) /\ LossFirst(q) /\ r = Post(q, <<e, Report>>, Capacity)
    BY <1>0, <1>2
  <2> HIDE DEF q
  <2> QED BY <1>3, <2>1, Posted
<1>9. ASSUME d \notin dropping \cup torn
      PROVE  /\ Track(d, From(raw[d], ToldOf(d, state[d])), Mine(d) \o queue'[d]).fits
             /\ handle[d] = "Live" => Agrees(d, raw[d], ToldOf(d, state[d]), Mine(d) \o queue'[d], n)
  <2> DEFINE x == raw[d]
             y == ToldOf(d, state[d])
             m == Mine(d)
             q == queue[d]
  <2>1. /\ x \in SUBSET Mask(d) /\ y \in SUBSET Mask(d) /\ m \in Seq(EventsOf(d)) /\ q \in Seq(EventsOf(d))
        /\ Track(d, From(x, y), m \o q).fits
        /\ handle[d] = "Live" => Agrees(d, x, y, m \o q, h)
    BY <1>9, StillNow DEF h
  <2>2. r = Post(q, <<e, Report>>, Capacity)
    BY <1>0
  <2> HIDE DEF x, y, m
  <2>3. CASE handle[d] # "Live"
    BY <1>5, <2>1, <2>3 DEF x, y, m
  <2>4. CASE handle[d] = "Live"
    <3> HIDE DEF q
    <3>1. Agrees(d, x, y, m \o q, h)
      BY <2>1, <2>4
    <3>2. Agrees(d, x, y, m \o r, n)
      BY ONLY d \in Paths, <1>3, <1>6, <2>1, <2>2, <3>1, AgreesPosted
    <3>3. Track(d, From(x, y), m \o r).fits
      BY <3>2 DEF Agrees
    <3> QED BY <1>5, <2>4, <3>2, <3>3 DEF x, y, m
  <2> QED BY <2>3, <2>4
<1>10. Elsewhere(d)
  BY <1>1, <1>4, <1>5 DEF Elsewhere
<1>11. Still(d)
  <2>1. /\ queue'[d] \in Seq(EventsOf(d)) /\ LossFirst(queue'[d]) /\ Ends(queue'[d])
           /\ Len(queue'[d]) <= Capacity
        /\ handle[d] # "Live" => queue'[d] = <<>>
        /\ handle[d] = "Live" => queue'[d] # <<>>
    BY <1>2, <1>5, <1>8
  <2>2. /\ node' \in [Paths -> Nodes \cup {0}] /\ handle' \in [Paths -> {"None", "Live", "Dead"}]
        /\ \A c, f \in Paths : (c # f /\ node'[c] # 0) => node'[c] # node'[f]
        /\ node'[d] = node[d] /\ handle'[d] = handle[d]
    BY <1>1, <1>2
  <2>3. d \notin dropping \cup torn =>
          /\ Track(d, From(raw[d], ToldOf(d, state[d])), Mine(d) \o queue'[d]).fits
          /\ handle'[d] = "Live" => Agrees(d, raw[d], ToldOf(d, state[d]), Mine(d) \o queue'[d], Snapshot(d)')
    BY <1>9, <2>2 DEF n
  <2> QED BY <1>4, <1>5, <1>7, <2>1, <2>2, <2>3 DEF Still
<1> QED BY <1>10, <1>11, WorldKeeps

(* The steps of the world. *)
LEMMA UsedKeeps == ASSUME InputsAssumption, InputInv, InputsUsed PROVE InputInv'
<1>1. PICK d \in scope.devices :
        \/ d \in scope.plugs /\ (Plug(d) \/ Unplug(d))
        \/ \E b \in Buttons(d) \cap scope.moves, value \in {"Down", "Up"} : Move(d, b, value)
        \/ d \in Keyboards /\ \E b \in {Arrow, Letter} \cap scope.repeats : Move(d, b, "Repeat")
  BY DEF InputsUsed
<1>2. d \in Paths
  <2>1. scope \in Scopes
    BY DEF InputInv, InputTypes
  <2>2. \A s \in Scopes : s.devices \subseteq Paths
    BY DEF InputsAssumption
  <2> QED BY <1>1, <2>1, <2>2
<1>3. CASE Plug(d)
  BY <1>2, <1>3, PlugKeeps
<1>4. CASE Unplug(d)
  BY <1>2, <1>4, UnplugKeeps
<1>5. ASSUME NEW b \in Buttons(d), NEW value \in {"Down", "Up"}, Move(d, b, value) PROVE InputInv'
  <2>1. value \in {"Down", "Up", "Repeat"} /\ (value = "Repeat" => b \in {Arrow, Letter})
    BY <1>5
  <2> QED BY <1>2, <1>5, <2>1, MoveKeeps
<1>6. ASSUME d \in Keyboards, NEW b \in {Arrow, Letter}, Move(d, b, "Repeat") PROVE InputInv'
  <2>1. b \in Buttons(d)
    BY <1>6 DEF Buttons
  <2> QED BY <1>2, <1>6, <2>1, MoveKeeps
<1> QED BY <1>1, <1>3, <1>4, <1>5, <1>6

(* Every step keeps the invariant. *)
LEMMA InputsNextKeeps == ASSUME InputsAssumption, InputInv, [InputsNext]_inputVars PROVE InputInv'
<1>1. CASE ScanControls
  BY <1>1, ScanKeeps
<1>2. CASE ScanFails
  <2>1. UNCHANGED <<usedVars, deviceVars, reportVars, phase, ready, batch>> /\ rescan_requested' \in BOOLEAN
    BY <1>2 DEF ScanFails
  <2> QED BY <2>1, StaysPut
<1>3. CASE OpenTouch
  BY <1>3, OpenKeeps
<1>4. CASE Close
  BY <1>4, CloseKeeps
<1>5. CASE Dispatch
  BY <1>5, DispatchKeeps
<1>6. CASE Collect
  BY <1>6, CollectKeeps
<1>7. CASE Fetch
  BY <1>7, FetchKeeps
<1>8. CASE Apply
  BY <1>8, ApplyKeeps
<1>9. CASE InputsUsed
  BY <1>9, UsedKeeps
<1>10. CASE UNCHANGED inputVars
  <2>1. UNCHANGED <<usedVars, deviceVars, reportVars, phase, ready, batch>>
        /\ rescan_requested' = rescan_requested
    BY <1>10 DEF inputVars
  <2>2. rescan_requested \in BOOLEAN
    BY DEF InputInv, InputTypes
  <2> QED BY <2>1, <2>2, StaysPut
<1> QED BY <1>1, <1>2, <1>3, <1>4, <1>5, <1>6, <1>7, <1>8, <1>9, <1>10 DEF InputsNext, Thread, Caller

(* The inputs start in step: nothing is open. *)
LEMMA InputsStart == ASSUME InputsAssumption, InputsInit PROVE InputInv
<1>1. /\ scope \in Scopes /\ node \in [Paths -> Nodes \cup {0}]
      /\ \A d, e \in Paths : d # e /\ node[d] # 0 => node[d] # node[e]
  BY DEF InputsInit
<1>2. /\ held = [d \in Paths |-> {}] /\ handle = [d \in Paths |-> "None"] /\ at = [d \in Paths |-> 0]
      /\ grabbed = [d \in Paths |-> FALSE] /\ queue = [d \in Paths |-> <<>>]
      /\ raw = [d \in Paths |-> {}] /\ state = [d \in Paths |-> {}]
  BY DEF InputsInit
<1>3. /\ dropping = {} /\ torn = {} /\ reports = <<>> /\ touches = <<>> /\ seen = {} /\ doubt = {}
         /\ told = {}
      /\ rescan_requested = FALSE /\ phase = "Idle" /\ ready = {} /\ batch = <<>>
  BY DEF InputsInit
<1>4. /\ handle \in [Paths -> {"None", "Live", "Dead"}] /\ grabbed \in [Paths -> BOOLEAN]
         /\ at \in [Paths -> Nodes \cup {0}]
      /\ DOMAIN held = Paths /\ DOMAIN raw = Paths /\ DOMAIN state = Paths /\ DOMAIN queue = Paths
      /\ \A d \in Paths : /\ held[d] = {} /\ handle[d] = "None" /\ grabbed[d] = FALSE /\ queue[d] = <<>>
                          /\ raw[d] = {} /\ state[d] = {}
  BY <1>2
<1>5. \A d : ~Turn(d) /\ Mine(d) = <<>>
  BY <1>3 DEF Turn, Mine
<1>6. InputTypes
  <2>1. \A d : <<>> \in Seq(EventsOf(d))
    OBVIOUS
  <2>2. <<>> \in Seq(AllReports) /\ <<>> \in Seq(TouchReports)
    OBVIOUS
  <2>3. ASSUME NEW d \in Paths
        PROVE  /\ held[d] \in SUBSET Buttons(d) /\ raw[d] \in SUBSET Mask(d) /\ state[d] \in SUBSET Mask(d)
               /\ queue[d] \in Seq(EventsOf(d)) /\ Mine(d) \in Seq(EventsOf(d))
    <3>1. held[d] = {} /\ raw[d] = {} /\ state[d] = {} /\ queue[d] = <<>> /\ Mine(d) = <<>>
      BY <1>4, <1>5
    <3>2. {} \in SUBSET Buttons(d) /\ {} \in SUBSET Mask(d)
      OBVIOUS
    <3> QED BY <2>1, <3>1, <3>2
  <2>4. /\ dropping \in SUBSET Paths /\ torn \in SUBSET Paths /\ ready \in SUBSET Paths
        /\ reports \in Seq(AllReports) /\ touches \in Seq(TouchReports)
        /\ rescan_requested \in BOOLEAN /\ phase \in {"Idle", "Reading", "Told"}
    BY <1>3, <2>2
  <2> QED BY <1>1, <1>4, <2>3, <2>4 DEF InputTypes
<1>7. Handles
  <2>1. Opened = {}
    BY <1>4 DEF Opened
  <2>2. Opened \cap Pads = {} /\ Opened \cap Keyboards = {}
    BY <2>1
  <2>3. Cardinality({}) = 0 /\ 0 <= MAXIMUM_GAMEPADS /\ 0 <= MAXIMUM_KEYBOARDS
    BY FS_EmptySet DEF InputsAssumption
  <2>4. GrabHeld
    BY <1>4 DEF GrabHeld
  <2>5. /\ \A d, e \in Paths : (d # e /\ node[d] # 0) => node[d] # node[e]
        /\ \A d \in Paths : handle[d] = "Live" => node[d] # 0 /\ at[d] = node[d]
        /\ \A d \in Paths : grabbed[d] => handle[d] # "None"
    BY <1>1, <1>4
  <2> QED BY <2>2, <2>3, <2>4, <2>5 DEF Handles
<1>8. Queues
  <2>1. LossFirst(<<>>) /\ Ends(<<>>) /\ Len(<<>>) <= Capacity
    BY DEF LossFirst, Ends, InputsAssumption
  <2> QED BY <1>4, <2>1 DEF Queues
<1>9. Reading
  BY <1>3, <1>5 DEF Reading, LossFirst
<1>10. Packets
  BY <1>3, <1>4 DEF Packets, Complete
<1>11. InStepAll
  <2>1. ASSUME NEW d \in Paths
        PROVE  Track(d, From(raw[d], ToldOf(d, state[d])), Coming(d)).fits
    <3> DEFINE y == From({}, {})
    <3>1. {} \in SUBSET Mask(d)
      OBVIOUS
    <3>2. y \in Tracks(d) /\ y.fits
      BY <3>1, FromFacts
    <3>3. Track(d, y, <<>>) = y
      BY <3>2, TrackFacts
    <3>4. raw[d] = {} /\ ToldOf(d, state[d]) = {}
      BY <1>4 DEF ToldOf
    <3>5. Coming(d) = <<>>
      <4>1. Coming(d) = <<>> \o <<>>
        BY <1>4, <1>5 DEF Coming
      <4> QED BY <4>1
    <3> HIDE DEF y
    <3> QED BY <3>2, <3>3, <3>4, <3>5 DEF y
  <2> QED BY <1>4, <2>1 DEF InStepAll
<1>12. NamedKept
  <2>1. Fresh = {}
    <3>1. \A d \in Pads : raw[d] = {}
      BY <1>4 DEF Paths
    <3> QED BY <3>1 DEF Fresh
  <2>2. NamedBy(reports) = {} /\ Len(reports) = 0 /\ 0 <= MAXIMUM_CONTROL_REPORTS
    BY <1>3 DEF NamedBy, InputsAssumption
  <2> QED BY <1>3, <2>1, <2>2 DEF NamedKept
<1>13. TouchFollowed
  <2>1. \A d \in Touches : handle[d] = "None"
    BY <1>4 DEF Paths
  <2> QED BY <2>1 DEF TouchFollowed
<1> QED BY <1>6, <1>7, <1>8, <1>9, <1>10, <1>11, <1>12, <1>13 DEF InputInv

(* The invariant says that what is read is true. *)
LEMMA InputsTrue == ASSUME InputsAssumption, InputInv PROVE ReadingTrue
<1>1. InputTypes /\ Handles /\ Queues /\ Reading /\ Packets /\ InStepAll /\ NamedKept /\ TouchFollowed
  BY DEF InputInv
<1>2. InputsTypeOK
  <2>1. ASSUME NEW d \in Paths PROVE {held[d], raw[d], state[d]} \subseteq SUBSET Buttons(d)
    <3>1. held[d] \in SUBSET Buttons(d) /\ raw[d] \in SUBSET Mask(d) /\ state[d] \in SUBSET Mask(d)
      BY <1>1 DEF InputTypes
    <3>2. Mask(d) \subseteq Buttons(d)
      BY Kinds
    <3> QED BY <3>1, <3>2
  <2>2. /\ node \in [Paths -> Nodes \cup {0}] /\ at \in [Paths -> Nodes \cup {0}]
        /\ handle \in [Paths -> {"None", "Live", "Dead"}] /\ grabbed \in [Paths -> BOOLEAN]
        /\ {dropping, torn, ready} \subseteq SUBSET Paths
        /\ rescan_requested \in BOOLEAN /\ phase \in {"Idle", "Reading", "Told"}
    BY <1>1 DEF InputTypes
  <2>3. \A d \in Paths : Len(queue[d]) <= Capacity
    BY <1>1 DEF Queues
  <2>4. /\ Cardinality(Opened \cap Pads) <= MAXIMUM_GAMEPADS
        /\ Cardinality(Opened \cap Keyboards) <= MAXIMUM_KEYBOARDS
    BY <1>1 DEF Handles
  <2>5. Len(reports) <= MAXIMUM_CONTROL_REPORTS
    BY <1>1 DEF NamedKept
  <2> QED BY <2>1, <2>2, <2>3, <2>4, <2>5 DEF InputsTypeOK
<1>3. InStep
  <2>1. ASSUME NEW d \in Paths, handle[d] = "Live", d \notin dropping \cup torn,
               ~Contains(Pending(d), Dropped)
        PROVE  Snapshot(d) = L!Fold(0, raw[d], Pending(d)) \cap Mask(d)
    <3> DEFINE x == raw[d]
               y == ToldOf(d, state[d])
               p == Pending(d)
               h == Snapshot(d)
    <3>1. x \in SUBSET Mask(d) /\ y \in SUBSET Mask(d)
      BY <1>1 DEF InputTypes, ToldOf
    <3>2. p = Coming(d) /\ p = Mine(d) \o queue[d]
      BY DEF Pending, Coming, Mine, Turn
    <3>3. p \in Seq(EventsOf(d))
      <4>1. Mine(d) \in Seq(EventsOf(d)) /\ queue[d] \in Seq(EventsOf(d))
        BY <1>1 DEF InputTypes
      <4> HIDE DEF p
      <4> QED BY <3>2, <4>1
    <3>4. Agrees(d, x, y, p, h)
      BY <1>1, <2>1, <3>2 DEF InStepAll
    <3>5. ~Contains(p, Dropped)
      BY <2>1
    <3> HIDE DEF x, y, p, h
    <3>6. /\ L!Fold(0, x, p) \cap Mask(d) = Track(d, From(x, y), p).held
          /\ ~Contains(p, Dropped) => Track(d, From(x, y), p).whole
      BY ONLY <3>1, <3>3, PlainTracks
    <3>7. Track(d, From(x, y), p).held = h
      BY <3>4, <3>5, <3>6 DEF Agrees
    <3> QED BY <3>6, <3>7 DEF x, p, h
  <2>2. ASSUME NEW d
        PROVE  FoldLeft(LAMBDA h, e : IF IsKey(e) THEN Level(h, e) ELSE h, raw[d], Pending(d)) = L!Fold(0, raw[d], Pending(d))
    BY PlainIs
  <2>3. ASSUME NEW d \in Paths, handle[d] = "Live", d \notin dropping \cup torn,
               ~Contains(Pending(d), Dropped)
        PROVE  Snapshot(d) = FoldLeft(LAMBDA h, e : IF IsKey(e) THEN Level(h, e) ELSE h, raw[d], Pending(d))
                             \cap (IF d \in Keyboards THEN {Shift} ELSE Buttons(d))
    <3>1. Mask(d) = IF d \in Keyboards THEN {Shift} ELSE Buttons(d)
      BY DEF Mask
    <3>2. Snapshot(d) = L!Fold(0, raw[d], Pending(d)) \cap Mask(d)
      BY <2>1, <2>3
    <3> QED BY ONLY <2>2, <3>1, <3>2, Zenon
  <2> QED BY ONLY <2>3, Zenon DEF InStep
<1>4. ReportsTrue
  <2>1. SUFFICES ASSUME torn = {}, "Torn" \notin doubt, phase # "Reading"
                 PROVE  /\ Named \subseteq seen
                        /\ (Len(reports) < MAXIMUM_CONTROL_REPORTS /\ "Lost" \notin doubt) => seen \subseteq Named
    BY DEF ReportsTrue
  <2>2. \A d \in Paths : Complete(d)
    BY <1>1, <2>1 DEF Packets, Turn
  <2>3. dropping = {}
    BY <1>1, <2>2 DEF InputTypes, Complete
  <2>4. Fresh = {}
    <3>1. \A d \in Pads : raw[d] = state[d]
      BY <2>2 DEF Complete, Paths, InputsAssumption
    <3> QED BY <3>1 DEF Fresh
  <2>5. Named = NamedBy(reports)
    BY DEF Named, NamedBy
  <2> QED BY <1>1, <2>1, <2>3, <2>4, <2>5 DEF NamedKept
<1> QED BY <1>1, <1>2, <1>3, <1>4 DEF Handles, ReadingTrue

(* What the thread reads of controllers, keyboards and touchscreen is what happened on
   them: it stays in step with each over overflows, snapshots and unplugging, its
   reports name the presses it read and no other, and all of them while there is room,
   the touchscreen is followed to its release, and handles are ours alone (controls.rs,
   input.rs); for any devices, nodes, keys, queues and batches. *)
THEOREM ReadsTruly == InputsSpec => []ReadingTrue
<1>1. InputsInit => InputInv
  BY InputsAssumption, InputsStart
<1>2. InputInv /\ [InputsNext]_inputVars => InputInv'
  BY InputsAssumption, InputsNextKeeps
<1>3. InputInv => ReadingTrue
  BY InputsAssumption, InputsTrue
<1> QED BY <1>1, <1>2, <1>3, PTL DEF InputsSpec

(* The same of the dashboard's iteration with its guard, which the runs check: reading
   is left alone by Runtime::iteration and ControllerGuard (runtime.rs, policy.rs). *)
THEOREM GuardReadsTruly == GuardSpec => []ReadingTrue
<1>1. GuardInit => InputInv
  BY InputsAssumption, InputsStart DEF GuardInit
<1>2. InputInv /\ [GuardNext]_allVars => InputInv'
  <2>1. SUFFICES ASSUME InputInv, [GuardNext]_allVars PROVE InputInv'
    OBVIOUS
  <2>2. [InputsNext]_inputVars
    <3>1. ASSUME Iterates PROVE [InputsNext]_inputVars
      BY <3>1 DEF Iterates, Begins, Reduces, Passes, InputsNext, Thread, Caller
    <3> QED BY <2>1, <3>1 DEF GuardNext, InputsNext, Thread, Caller, allVars
  <2> QED BY <2>1, <2>2, InputsAssumption, InputsNextKeeps
<1>3. InputInv => ReadingTrue
  BY InputsAssumption, InputsTrue
<1> QED BY <1>1, <1>2, <1>3, PTL DEF GuardSpec

-----------------------------------------------------------------------------
(* The guard.                                                              *)

(* An edge of the history; the ages of edges; the edges that were obeyed. *)
Edges == [age : Nat, obeyed : BOOLEAN]
AgesOf(s) == [i \in 1..Len(s) |-> s[i].age]
Obeyed(s) == Cardinality({i \in 1..Len(s) : s[i].obeyed})

(* A tick passes for the edges that the guard counts, and for those of the history. *)
Aged(s) == [i \in 1..Len(s) |-> Older(s[i])]
OlderEdge(e) == [e EXCEPT !.age = @ + 1]
AgedEdges(s) == [i \in 1..Len(s) |-> OlderEdge(s[i])]

(* What stays of each is a fold. *)
Stays(p, kept, age) == IF age < WINDOW THEN Append(kept, age) ELSE kept
StaysToo(p, kept, edge) == IF edge.age < WINDOW THEN Append(kept, edge) ELSE kept
G == INSTANCE FoldTheorems WITH op <- Stays
H == INSTANCE FoldTheorems WITH op <- StaysToo

(* The history and what the guard counts are the same edges, of which no more than
   LIMIT were obeyed; none is older than the last one; and how long a poll has waited
   bounds how long ago the last edge of a suspended controller was. *)
GuardTypes ==
  /\ turn \in {"Begin", "Poll"} /\ waited \in Nat /\ suspended \in BOOLEAN /\ last_edge_at \in Nat
  /\ edge_times \in Seq(Nat) /\ recent \in Seq(Edges)
SameEdges == AgesOf(recent) = retain(edge_times)
LastIsLast == \A i \in 1..Len(edge_times) : edge_times[i] >= last_edge_at
Waits ==
  /\ waited <= POLL_TIMEOUT
  /\ turn = "Poll" /\ suspended => last_edge_at < WINDOW + waited
GuardInv == GuardTypes /\ SameEdges /\ LastIsLast /\ BurstBounded /\ Waits

(* The loops of the guard, one edge after the other. *)
LEMMA RetainIs == ASSUME NEW s PROVE retain(s) = G!Fold(0, <<>>, s)
BY DEF retain, G!Fold, Stays, FoldLeft, G!FoldLeft, MapThenFoldSet, G!MapThenFoldSet, Max, G!Max

LEMMA RecentIs == ASSUME NEW s PROVE Recent(s) = H!Fold(0, <<>>, s)
BY DEF Recent, H!Fold, StaysToo, FoldLeft, H!FoldLeft, MapThenFoldSet, H!MapThenFoldSet, Max, H!Max

(* Without edges, and with one more. *)
LEMMA RetainNone == retain(<<>>) = <<>>
BY RetainIs, G!FoldEmpty

LEMMA RecentNone == Recent(<<>>) = <<>>
BY RecentIs, H!FoldEmpty

LEMMA RetainMore ==
  ASSUME NEW s \in Seq(Nat), NEW a \in Nat
  PROVE  retain(Append(s, a)) = IF a < WINDOW THEN Append(retain(s), a) ELSE retain(s)
<1>1. G!Fold(0, <<>>, Append(s, a)) = Stays(0, G!Fold(0, <<>>, s), a)
  BY G!FoldAppend
<1> QED BY <1>1, RetainIs DEF Stays

LEMMA RecentMore ==
  ASSUME NEW s \in Seq(Edges), NEW e \in Edges
  PROVE  Recent(Append(s, e)) = IF e.age < WINDOW THEN Append(Recent(s), e) ELSE Recent(s)
<1>1. H!Fold(0, <<>>, Append(s, e)) = StaysToo(0, H!Fold(0, <<>>, s), e)
  BY H!FoldAppend
<1> QED BY <1>1, RecentIs DEF StaysToo

(* What holds without edges and with one edge more, holds of all sequences of edges. *)
LEMMA EdgeByEdge ==
  ASSUME NEW Q, NEW S \in SUBSET Seq(Q), <<>> \in S, \A f \in S, e \in Q : Append(f, e) \in S
  PROVE  Seq(Q) \subseteq S
<1> DEFINE Bad == {n \in Nat : \E s \in Seq(Q) : Len(s) = n /\ s \notin S}
<1>1. SUFFICES ASSUME Bad # {} PROVE FALSE
  <2>1. \A s \in Seq(Q) : Len(s) \in Nat
    OBVIOUS
  <2> QED BY <2>1
<1>2. PICK n \in Bad : \A m \in Bad : n <= m
  BY <1>1, G!LeastNat
<1>3. PICK s \in Seq(Q) : Len(s) = n /\ s \notin S
  BY <1>2
<1>4. s # <<>>
  BY <1>3
<1>5. PICK f \in Seq(Q), e \in Q : s = Append(f, e) /\ Len(s) = Len(f) + 1
  BY <1>4, G!LastOff
<1>6. Len(f) \in Nat /\ Len(f) < n
  <2>1. Len(f) \in Nat /\ Len(f) + 1 = n
    BY <1>3, <1>5
  <2> QED BY <2>1
<1>7. f \in S
  BY <1>2, <1>6
<1> QED BY <1>3, <1>5, <1>7

(* What stays are edges within the window, and they stay. *)
LEMMA RetainKeeps ==
  ASSUME NEW s \in Seq(Nat)
  PROVE  retain(s) \in Seq(Nat) /\ retain(retain(s)) = retain(s)
<1> DEFINE S == {r \in Seq(Nat) : retain(r) = r}
<1>1. <<>> \in S
  BY RetainNone
<1>2. ASSUME NEW r \in S, NEW a \in Nat PROVE Stays(0, r, a) \in S
  <2>1. Append(r, a) \in Seq(Nat)
    OBVIOUS
  <2>2. a < WINDOW => retain(Append(r, a)) = Append(r, a)
    BY RetainMore
  <2> QED BY <2>1, <2>2 DEF Stays
<1> HIDE DEF S
<1>3. G!Fold(0, <<>>, s) \in S
  BY <1>1, <1>2, G!FoldKeeps
<1> QED BY <1>3, RetainIs DEF S

(* Nothing stays when all is past the window. *)
LEMMA RetainOld ==
  ASSUME NEW s \in Seq(Nat), \A i \in 1..Len(s) : s[i] >= WINDOW, WINDOW \in Nat
  PROVE  retain(s) = <<>>
<1> DEFINE Q == {a \in Nat : a >= WINDOW}
<1>1. s \in Seq(Q)
  OBVIOUS
<1>2. \A x \in {<<>>}, a \in Q : Stays(0, x, a) \in {<<>>}
  BY DEF Stays
<1> HIDE DEF Q
<1>3. G!Fold(0, <<>>, s) \in {<<>>}
  BY <1>1, <1>2, G!FoldKeeps
<1> QED BY <1>3, RetainIs

(* The edges that are obeyed, with one more. *)
LEMMA ObeyedMore ==
  ASSUME NEW s \in Seq(Edges)
  PROVE  /\ Obeyed(s) \in Nat /\ Obeyed(s) <= Len(s)
         /\ \A e \in Edges : Obeyed(Append(s, e)) = IF e.obeyed THEN Obeyed(s) + 1 ELSE Obeyed(s)
<1> DEFINE O == {i \in 1..Len(s) : s[i].obeyed}
           n == Len(s)
<1>1. n \in Nat /\ O \in SUBSET (1..n)
  OBVIOUS
<1>2. IsFiniteSet(1..n) /\ Cardinality(1..n) = n
  <2>1. IsFiniteSet(1..n) /\ Cardinality(1..n) = IF 1 > n THEN 0 ELSE n - 1 + 1
    BY <1>1, FS_Interval
  <2> QED BY <1>1, <2>1
<1>3. IsFiniteSet(O) /\ Cardinality(O) \in Nat /\ Cardinality(O) <= n
  <2> HIDE DEF O, n
  <2> QED BY <1>1, <1>2, FS_Subset, FS_CardinalityType
<1>4. ASSUME NEW e \in Edges
      PROVE  Obeyed(Append(s, e)) = IF e.obeyed THEN Obeyed(s) + 1 ELSE Obeyed(s)
  <2> DEFINE t == Append(s, e)
  <2>1. Len(t) = n + 1 /\ t[n + 1] = e /\ \A i \in 1..n : t[i] = s[i]
    OBVIOUS
  <2>2. n + 1 \notin O
    BY <1>1
  <2> HIDE DEF t
  <2>3. CASE e.obeyed
    <3>1. {i \in 1..Len(t) : t[i].obeyed} = O \cup {n + 1}
      BY <1>1, <2>1, <2>3
    <3>2. Cardinality(O \cup {n + 1}) = Cardinality(O) + 1
      BY <1>3, <2>2, FS_AddElement
    <3> QED BY <2>3, <3>1, <3>2 DEF Obeyed, t
  <2>4. CASE ~e.obeyed
    <3>1. {i \in 1..Len(t) : t[i].obeyed} = O
      BY <1>1, <2>1, <2>4
    <3> QED BY <2>4, <3>1 DEF Obeyed, t
  <2> QED BY <2>3, <2>4
<1> QED BY <1>3, <1>4 DEF Obeyed

(* A tick passes for one edge more. *)
LEMMA AgedMore ==
  ASSUME NEW Q, NEW s \in Seq(Q), NEW a \in Q, \A k \in Q : Older(k) \in Q
  PROVE  Aged(Append(s, a)) = Append(Aged(s), Older(a)) /\ Aged(s) \in Seq(Q)
<1>1. \A i \in 1..Len(s) : s[i] \in Q /\ Older(s[i]) \in Q
  OBVIOUS
<1>2. Older(a) \in Q
  OBVIOUS
<1> QED BY <1>1, <1>2 DEF Aged

(* A tick: what the guard would count afterwards it would count of those that it
   counts now. *)
LEMMA AgedRetain ==
  ASSUME GuardAssumption, NEW s \in Seq(Nat)
  PROVE  Aged(s) \in Seq(Nat) /\ retain(Aged(s)) = retain(Aged(retain(s)))
<1>0. WINDOW \in Nat /\ Forgotten \in Nat /\ Forgotten > WINDOW
  BY DEF GuardAssumption, Forgotten
<1>1. \A a \in Nat : Older(a) \in Nat /\ (a >= WINDOW => Older(a) >= WINDOW)
  BY <1>0 DEF Older
<1>2. Aged(<<>>) = <<>>
  BY DEF Aged
<1>3. ASSUME NEW f \in Seq(Nat), NEW a \in Nat
      PROVE  Aged(Append(f, a)) = Append(Aged(f), Older(a)) /\ Aged(f) \in Seq(Nat)
  BY <1>1, AgedMore
<1> DEFINE R == {w \in Seq(Nat) \X Seq(Nat) : retain(Aged(w[1])) = retain(Aged(w[2]))}
<1>4. << <<>>, <<>> >> \in R
  <2>1. <<>> \in Seq(Nat)
    OBVIOUS
  <2> QED BY <2>1
<1>5. ASSUME NEW f \in Seq(Nat), NEW a \in Nat, NEW x, <<f, x>> \in R
      PROVE  <<Append(f, a), Stays(0, x, a)>> \in R
  <2>1. x \in Seq(Nat) /\ retain(Aged(f)) = retain(Aged(x)) /\ Append(f, a) \in Seq(Nat)
        /\ Append(x, a) \in Seq(Nat)
    BY <1>5
  <2>2. retain(Aged(Append(f, a)))
          = IF Older(a) < WINDOW THEN Append(retain(Aged(f)), Older(a)) ELSE retain(Aged(f))
    BY <1>1, <1>3, RetainMore
  <2>3. retain(Aged(Append(x, a)))
          = IF Older(a) < WINDOW THEN Append(retain(Aged(x)), Older(a)) ELSE retain(Aged(x))
    BY <1>1, <1>3, <2>1, RetainMore
  <2>4. CASE a < WINDOW
    <3>1. Stays(0, x, a) = Append(x, a)
      BY <2>4 DEF Stays
    <3> QED BY <2>1, <2>2, <2>3, <3>1
  <2>5. CASE ~(a < WINDOW)
    <3>1. Stays(0, x, a) = x /\ ~(Older(a) < WINDOW)
      BY <1>0, <1>1, <2>5 DEF Stays
    <3> QED BY <2>1, <2>2, <3>1
  <2> QED BY <2>4, <2>5
<1> HIDE DEF R
<1>6. <<s, G!Fold(0, <<>>, s)>> \in R
  BY <1>4, <1>5, G!FoldInduction
<1>7. Aged(s) \in Seq(Nat)
  BY <1>3
<1> QED BY <1>6, <1>7, RetainIs DEF R

(* An edge grows older. *)
LEMMA OlderFacts ==
  ASSUME NEW e \in Edges
  PROVE  OlderEdge(e) \in Edges /\ OlderEdge(e).age = e.age + 1 /\ OlderEdge(e).obeyed = e.obeyed
         /\ e.age \in Nat /\ e.obeyed \in BOOLEAN
BY DEF Edges, OlderEdge

(* The same of the history. *)
LEMMA MoreEdges ==
  ASSUME NEW s \in Seq(Edges), NEW e \in Edges
  PROVE  /\ AgedEdges(Append(s, e)) = Append(AgedEdges(s), OlderEdge(e)) /\ AgedEdges(s) \in Seq(Edges)
         /\ AgesOf(Append(s, e)) = Append(AgesOf(s), e.age) /\ AgesOf(s) \in Seq(Nat)
<1>1. \A i \in 1..Len(s) : s[i] \in Edges /\ OlderEdge(s[i]) \in Edges /\ s[i].age \in Nat
  BY OlderFacts
<1>2. OlderEdge(e) \in Edges /\ e.age \in Nat
  BY OlderFacts
<1>3. AgedEdges(Append(s, e)) = Append(AgedEdges(s), OlderEdge(e)) /\ AgedEdges(s) \in Seq(Edges)
  BY <1>1, <1>2 DEF AgedEdges
<1>4. AgesOf(Append(s, e)) = Append(AgesOf(s), e.age) /\ AgesOf(s) \in Seq(Nat)
  BY <1>1, <1>2 DEF AgesOf
<1> QED BY <1>3, <1>4

(* A tick keeps the history and what the guard counts alike, and obeys nothing. *)
LEMMA AgedAlike ==
  ASSUME GuardAssumption, NEW s \in Seq(Edges)
  PROVE  /\ Recent(AgedEdges(s)) \in Seq(Edges)
         /\ AgesOf(Recent(AgedEdges(s))) = retain(Aged(AgesOf(s)))
         /\ Obeyed(Recent(AgedEdges(s))) <= Obeyed(s)
<1>0. WINDOW \in Nat /\ Forgotten \in Nat /\ Forgotten > WINDOW
  BY DEF GuardAssumption, Forgotten
<1> DEFINE S == {f \in Seq(Edges) : /\ Recent(AgedEdges(f)) \in Seq(Edges)
                                    /\ AgesOf(Recent(AgedEdges(f))) = retain(Aged(AgesOf(f)))
                                    /\ Obeyed(Recent(AgedEdges(f))) <= Obeyed(f)}
<1>1. <<>> \in S
  <2>1. AgedEdges(<<>>) = <<>> /\ AgesOf(<<>>) = <<>> /\ Aged(<<>>) = <<>>
    BY DEF AgedEdges, AgesOf, Aged
  <2>2. <<>> \in Seq(Edges)
    OBVIOUS
  <2>3. Obeyed(<<>>) <= Obeyed(<<>>)
    <3>1. Obeyed(<<>>) \in Nat
      BY <2>2, ObeyedMore
    <3> QED BY ONLY <3>1
  <2>4. Recent(AgedEdges(<<>>)) = <<>> /\ retain(Aged(AgesOf(<<>>))) = <<>>
    BY <2>1, RetainNone, RecentNone
  <2> QED BY <2>1, <2>2, <2>3, <2>4
<1>2. ASSUME NEW f \in S, NEW e \in Edges PROVE Append(f, e) \in S
  <2>0. f \in Seq(Edges) /\ Append(f, e) \in Seq(Edges)
    OBVIOUS
  <2> DEFINE x == Recent(AgedEdges(f))
             y == retain(Aged(AgesOf(f)))
  <2>1. x \in Seq(Edges) /\ AgesOf(x) = y /\ Obeyed(x) <= Obeyed(f)
    BY <1>2
  <2>2. OlderEdge(e) \in Edges /\ OlderEdge(e).age = e.age + 1 /\ OlderEdge(e).obeyed = e.obeyed
        /\ e.age \in Nat /\ e.obeyed \in BOOLEAN
    BY OlderFacts
  <2>3. AgedEdges(Append(f, e)) = Append(AgedEdges(f), OlderEdge(e)) /\ AgedEdges(f) \in Seq(Edges)
    BY <2>0, MoreEdges
  <2>4. AgesOf(Append(f, e)) = Append(AgesOf(f), e.age) /\ AgesOf(f) \in Seq(Nat)
    BY <2>0, MoreEdges
  <2>5. \A g \in Seq(Nat), a \in Nat :
          Aged(Append(g, a)) = Append(Aged(g), Older(a)) /\ Aged(g) \in Seq(Nat) /\ Older(a) \in Nat
    <3>1. \A k \in Nat : Older(k) \in Nat
      BY <1>0 DEF Older
    <3> QED BY <3>1, AgedMore
  <2> HIDE DEF x, y
  <2>6. Recent(AgedEdges(Append(f, e)))
          = IF e.age + 1 < WINDOW THEN Append(x, OlderEdge(e)) ELSE x
    BY <2>2, <2>3, RecentMore DEF x
  <2>7. retain(Aged(AgesOf(Append(f, e))))
          = IF Older(e.age) < WINDOW THEN Append(y, Older(e.age)) ELSE y
    <3>1. Aged(AgesOf(Append(f, e))) = Append(Aged(AgesOf(f)), Older(e.age))
          /\ Aged(AgesOf(f)) \in Seq(Nat) /\ Older(e.age) \in Nat
      BY <2>2, <2>4, <2>5
    <3> QED BY <3>1, RetainMore DEF y
  <2>8. Obeyed(Append(f, e)) = IF e.obeyed THEN Obeyed(f) + 1 ELSE Obeyed(f)
    BY <2>0, ObeyedMore
  <2>9. Obeyed(f) \in Nat /\ Obeyed(x) \in Nat
    BY <2>0, <2>1, ObeyedMore
  <2>10. CASE e.age + 1 < WINDOW
    <3>1. Older(e.age) = e.age + 1
      BY <1>0, <2>2, <2>10 DEF Older
    <3>2. AgesOf(Append(x, OlderEdge(e))) = Append(AgesOf(x), e.age + 1)
      BY <2>1, <2>2 DEF AgesOf
    <3>3. Append(x, OlderEdge(e)) \in Seq(Edges)
          /\ Obeyed(Append(x, OlderEdge(e))) = IF e.obeyed THEN Obeyed(x) + 1 ELSE Obeyed(x)
      BY <2>1, <2>2, ObeyedMore
    <3>4. Obeyed(Append(x, OlderEdge(e))) <= Obeyed(Append(f, e))
      BY <2>1, <2>8, <2>9, <3>3
    <3> QED BY <2>0, <2>1, <2>6, <2>7, <2>10, <3>1, <3>2, <3>3, <3>4
  <2>11. CASE ~(e.age + 1 < WINDOW)
    <3>1. ~(Older(e.age) < WINDOW)
      BY <1>0, <2>2, <2>11 DEF Older
    <3>2. Obeyed(x) <= Obeyed(Append(f, e))
      BY <2>1, <2>8, <2>9
    <3> QED BY <2>0, <2>1, <2>6, <2>7, <2>11, <3>1, <3>2
  <2> QED BY <2>10, <2>11
<1> HIDE DEF S
<1>3. S \in SUBSET Seq(Edges)
  BY DEF S
<1>4. s \in S
  BY <1>1, <1>2, <1>3, EdgeByEdge
<1> QED BY <1>4 DEF S

-----------------------------------------------------------------------------
(* The iteration with the guard.                                           *)

(* The guard starts out with nothing to remember. *)
LEMMA GuardStart == ASSUME GuardAssumption, GuardInit PROVE GuardInv
<1>0. WINDOW \in Nat /\ POLL_TIMEOUT \in Nat /\ LIMIT \in Nat /\ Forgotten \in Nat
  BY DEF GuardAssumption, Forgotten
<1>1. <<>> \in Seq(Nat) /\ <<>> \in Seq(Edges)
  OBVIOUS
<1>2. GuardTypes
  BY <1>0, <1>1 DEF GuardInit, GuardTypes
<1>3. SameEdges
  BY RetainNone DEF GuardInit, SameEdges, AgesOf
<1>4. LastIsLast
  BY DEF GuardInit, LastIsLast
<1>5. BurstBounded
  <2>1. Obeyed(<<>>) \in Nat /\ Obeyed(<<>>) <= 0
    BY <1>1, ObeyedMore
  <2>2. Obeyed(<<>>) <= LIMIT
    BY <1>0, <2>1
  <2> QED BY <2>2 DEF BurstBounded, Obeyed, GuardInit
<1>6. Waits
  BY <1>0 DEF GuardInit, Waits
<1> QED BY <1>2, <1>3, <1>4, <1>5, <1>6 DEF GuardInv

(* Reading the devices does not matter to it. *)
LEMMA GuardSame == ASSUME GuardInv, UNCHANGED guardVars PROVE GuardInv' /\ OnlyBursts
BY DEF GuardInv, guardVars, GuardTypes, SameEdges, LastIsLast, BurstBounded, Waits, OnlyBursts

(* When an iteration begins: a controller that is heard again has no edge in the window. *)
LEMMA BeginsKeeps == ASSUME GuardAssumption, GuardInv, Begins PROVE GuardInv' /\ OnlyBursts
<1>0. WINDOW \in Nat /\ WINDOW > 0 /\ POLL_TIMEOUT \in Nat /\ Forgotten \in Nat
  BY DEF GuardAssumption, Forgotten
<1>1. recent' = recent /\ turn' = "Poll" /\ waited' = 0
  BY DEF Begins
<1>2. GuardTypes /\ SameEdges /\ LastIsLast /\ BurstBounded /\ Waits
  BY DEF GuardInv
<1>3. BurstBounded'
  BY <1>1, <1>2 DEF BurstBounded
<1>4. CASE suspended /\ last_edge_at >= WINDOW
  <2>1. edge_times' = <<>> /\ suspended' = FALSE /\ last_edge_at' = Forgotten
    BY <1>4 DEF Begins, recover_if_quiet
  <2>2. retain(edge_times) = <<>>
    <3>1. edge_times \in Seq(Nat) /\ last_edge_at \in Nat
      BY <1>2 DEF GuardTypes
    <3>2. \A i \in 1..Len(edge_times) : edge_times[i] >= WINDOW
      BY <1>0, <1>2, <1>4, <3>1 DEF LastIsLast
    <3> QED BY <1>0, <3>1, <3>2, RetainOld
  <2>3. GuardTypes'
    <3>1. <<>> \in Seq(Nat)
      OBVIOUS
    <3> QED BY <1>0, <1>1, <1>2, <2>1, <3>1 DEF GuardTypes
  <2>4. SameEdges'
    BY <1>1, <1>2, <2>1, <2>2, RetainNone DEF SameEdges
  <2>5. LastIsLast'
    BY <2>1 DEF LastIsLast
  <2>6. Waits' /\ OnlyBursts
    BY <1>0, <1>1, <2>1 DEF Waits, OnlyBursts
  <2> QED BY <1>3, <2>3, <2>4, <2>5, <2>6 DEF GuardInv
<1>5. CASE ~(suspended /\ last_edge_at >= WINDOW)
  <2>1. edge_times' = edge_times /\ suspended' = suspended /\ last_edge_at' = last_edge_at
    BY <1>5 DEF Begins, recover_if_quiet
  <2>2. last_edge_at \in Nat
    BY <1>2 DEF GuardTypes
  <2>3. GuardTypes'
    BY <1>1, <1>2, <2>1 DEF GuardTypes
  <2>4. SameEdges' /\ LastIsLast' /\ OnlyBursts
    BY <1>1, <1>2, <2>1 DEF SameEdges, LastIsLast, OnlyBursts
  <2>5. Waits'
    BY <1>0, <1>1, <1>5, <2>1, <2>2 DEF Waits
  <2> QED BY <1>3, <2>3, <2>4, <2>5 DEF GuardInv
<1> QED BY <1>4, <1>5

(* An edge: it counts in both, and is obeyed only while the count is within LIMIT. *)
LEMMA EdgeKeeps ==
  ASSUME GuardAssumption, GuardTypes, SameEdges, LastIsLast, BurstBounded, accept_edge
  PROVE  /\ edge_times' \in Seq(Nat) /\ recent' \in Seq(Edges) /\ suspended' \in BOOLEAN
         /\ last_edge_at' \in Nat
         /\ SameEdges' /\ LastIsLast' /\ BurstBounded' /\ OnlyBursts
<1>0. WINDOW \in Nat /\ WINDOW > 0 /\ LIMIT \in Nat
  BY DEF GuardAssumption
<1>1. edge_times \in Seq(Nat) /\ recent \in Seq(Edges) /\ suspended \in BOOLEAN
  BY DEF GuardTypes
<1>2. last_edge_at' = 0 /\ suspended' = (suspended \/ ~Counted(edge_times'))
  BY DEF accept_edge
<1>3. CASE suspended
  <2>1. edge_times' = edge_times /\ suspended' = TRUE
    BY <1>2, <1>3 DEF accept_edge
  <2>2. recent' = recent
    BY <1>3, <2>1 DEF accept_edge
  <2>3. LastIsLast'
    <3>1. \A i \in 1..Len(edge_times) : edge_times[i] >= 0
      BY <1>1
    <3> QED BY <1>2, <2>1, <3>1 DEF LastIsLast
  <2>4. SameEdges' /\ BurstBounded' /\ OnlyBursts
    BY <1>3, <2>1, <2>2 DEF SameEdges, BurstBounded, OnlyBursts
  <2> QED BY <1>1, <1>2, <2>1, <2>2, <2>3, <2>4
<1>4. CASE ~suspended
  <2>1. edge_times' = Append(retain(edge_times), 0)
    BY <1>4 DEF accept_edge
  <2>2. PICK q \in BOOLEAN : recent' = Append(recent, [age |-> 0, obeyed |-> ~suspended' /\ ~q])
    BY <1>4 DEF accept_edge
  <2>3. suspended' = (Len(edge_times') > LIMIT) /\ suspended' \in BOOLEAN
    <3>1. retain(edge_times) \in Seq(Nat)
      BY <1>1, RetainKeeps
    <3>2. Len(edge_times') \in Nat
      BY <2>1, <3>1
    <3> QED BY <1>0, <1>2, <1>4, <3>2 DEF Counted
  <2> DEFINE e == [age |-> 0, obeyed |-> ~suspended' /\ ~q]
  <2>4. e \in Edges /\ e.age = 0 /\ e.obeyed = (~suspended' /\ ~q)
    BY <2>3 DEF Edges
  <2>5. recent' = Append(recent, e)
    BY <2>2
  <2> HIDE DEF e
  <2>6. edge_times' \in Seq(Nat) /\ recent' \in Seq(Edges) /\ Len(recent') \in Nat
    BY <1>1, <2>1, <2>4, <2>5, RetainKeeps
  <2>7. AgesOf(recent') = edge_times'
    <3>1. AgesOf(Append(recent, e)) = Append(AgesOf(recent), 0)
      BY <1>1, <2>4, MoreEdges
    <3> QED BY <2>1, <2>5, <3>1 DEF SameEdges
  <2>8. retain(edge_times') = edge_times'
    <3>1. retain(edge_times) \in Seq(Nat) /\ retain(retain(edge_times)) = retain(edge_times)
      BY <1>1, RetainKeeps
    <3>2. retain(Append(retain(edge_times), 0)) = Append(retain(retain(edge_times)), 0)
      BY <1>0, <3>1, RetainMore
    <3> QED BY <2>1, <3>1, <3>2
  <2>9. Len(edge_times') = Len(recent')
    BY <2>6, <2>7 DEF AgesOf
  <2>10. SameEdges'
    BY <2>7, <2>8 DEF SameEdges
  <2>11. LastIsLast'
    <3>1. \A i \in 1..Len(edge_times') : edge_times'[i] >= 0
      BY <2>6
    <3> QED BY <1>2, <3>1 DEF LastIsLast
  <2>12. OnlyBursts
    BY <1>0, <2>3, <2>6, <2>9 DEF OnlyBursts
  <2>13. Obeyed(recent') <= LIMIT
    <3>1. Obeyed(recent') \in Nat /\ Obeyed(recent') <= Len(recent')
      BY <2>6, ObeyedMore
    <3>2. CASE suspended'
      <4>1. Obeyed(recent') = Obeyed(recent)
        BY <1>1, <2>4, <2>5, <3>2, ObeyedMore
      <4>2. Obeyed(recent) <= LIMIT
        BY DEF BurstBounded, Obeyed
      <4> QED BY <4>1, <4>2
    <3>3. CASE ~suspended'
      <4>1. ~(Len(edge_times') > LIMIT)
        BY <2>3, <3>3
      <4>2. Len(recent') <= LIMIT
        BY <1>0, <2>6, <2>9, <4>1
      <4> QED BY ONLY <1>0, <2>6, <3>1, <4>2
    <3> QED BY <3>2, <3>3
  <2>14. BurstBounded'
    BY <2>13 DEF BurstBounded, Obeyed
  <2> QED BY <1>2, <2>3, <2>6, <2>10, <2>11, <2>12, <2>14
<1> QED BY <1>1, <1>3, <1>4

(* The reports of a poll are an edge, or none. *)
LEMMA ReducesKeeps == ASSUME GuardAssumption, GuardInv, Reduces PROVE GuardInv' /\ OnlyBursts
<1>1. turn' = "Begin" /\ waited' = 0
  BY DEF Reduces
<1>2. GuardTypes /\ SameEdges /\ LastIsLast /\ BurstBounded
  BY DEF GuardInv
<1>3. Waits'
  BY <1>1 DEF Waits, GuardAssumption
<1>4. CASE accept_edge
  <2>1. /\ edge_times' \in Seq(Nat) /\ recent' \in Seq(Edges) /\ suspended' \in BOOLEAN
        /\ last_edge_at' \in Nat
        /\ SameEdges' /\ LastIsLast' /\ BurstBounded' /\ OnlyBursts
    BY <1>2, <1>4, EdgeKeeps
  <2> QED BY <1>1, <1>3, <2>1 DEF GuardInv, GuardTypes
<1>5. CASE UNCHANGED <<edge_times, suspended, last_edge_at, recent>>
  BY <1>1, <1>2, <1>3, <1>5
     DEF GuardInv, GuardTypes, SameEdges, LastIsLast, BurstBounded, OnlyBursts
<1> QED BY <1>4, <1>5 DEF Reduces

(* A tick passes. *)
LEMMA PassesKeeps == ASSUME GuardAssumption, GuardInv, Passes PROVE GuardInv' /\ OnlyBursts
<1>0. WINDOW \in Nat /\ POLL_TIMEOUT \in Nat /\ Forgotten = WINDOW + POLL_TIMEOUT /\ LIMIT \in Nat
  BY DEF GuardAssumption, Forgotten
<1>1. /\ turn' = turn /\ suspended' = suspended
      /\ edge_times' = Aged(edge_times) /\ last_edge_at' = Older(last_edge_at)
      /\ recent' = Recent(AgedEdges(recent))
  BY DEF Passes, Aged, AgedEdges, OlderEdge
<1>2. GuardTypes /\ SameEdges /\ LastIsLast /\ BurstBounded /\ Waits
  BY DEF GuardInv
<1>3. /\ turn \in {"Begin", "Poll"} /\ waited \in Nat /\ suspended \in BOOLEAN
      /\ last_edge_at \in Nat /\ edge_times \in Seq(Nat) /\ recent \in Seq(Edges)
  BY <1>2 DEF GuardTypes
<1>4. /\ edge_times' \in Seq(Nat) /\ retain(edge_times') = retain(Aged(retain(edge_times)))
      /\ recent' \in Seq(Edges) /\ AgesOf(recent') = retain(Aged(AgesOf(recent)))
      /\ Obeyed(recent') <= Obeyed(recent)
  BY <1>1, <1>3, AgedRetain, AgedAlike
<1>5. /\ waited' \in Nat /\ waited' <= POLL_TIMEOUT
      /\ turn = "Poll" => waited' = waited + 1
  BY <1>0, <1>2, <1>3 DEF Passes, Waits
<1>6. last_edge_at' \in Nat /\ last_edge_at' <= last_edge_at + 1
  BY <1>0, <1>1, <1>3 DEF Older
<1>7. GuardTypes'
  BY <1>1, <1>3, <1>4, <1>5, <1>6 DEF GuardTypes
<1>8. SameEdges'
  BY <1>2, <1>4 DEF SameEdges
<1>9. LastIsLast'
  <2>1. \A a, b \in Nat : a >= b => Older(a) >= Older(b)
    BY <1>0 DEF Older
  <2>2. \A i \in 1..Len(edge_times) : edge_times[i] \in Nat
    BY <1>3
  <2>3. \A i \in 1..Len(edge_times) : Older(edge_times[i]) >= Older(last_edge_at)
    BY <1>2, <1>3, <2>1, <2>2 DEF LastIsLast
  <2>4. Len(edge_times') = Len(edge_times)
        /\ \A i \in 1..Len(edge_times) : edge_times'[i] = Older(edge_times[i])
    BY <1>1, <1>3 DEF Aged
  <2> QED BY <1>1, <2>3, <2>4 DEF LastIsLast
<1>10. BurstBounded'
  <2>1. Obeyed(recent) \in Nat /\ Obeyed(recent') \in Nat
    BY <1>3, <1>4, ObeyedMore
  <2>2. Obeyed(recent) <= LIMIT
    BY <1>2 DEF BurstBounded, Obeyed
  <2>3. Obeyed(recent') <= LIMIT
    BY <1>0, <1>4, <2>1, <2>2
  <2> QED BY <2>3 DEF BurstBounded, Obeyed
<1>11. Waits'
  BY <1>0, <1>1, <1>2, <1>3, <1>5, <1>6 DEF Waits
<1>12. OnlyBursts
  BY <1>1 DEF OnlyBursts
<1> QED BY <1>7, <1>8, <1>9, <1>10, <1>11, <1>12 DEF GuardInv

(* Every step keeps the guard's invariant. *)
LEMMA GuardKeeps ==
  ASSUME GuardAssumption, GuardInv, [GuardNext]_allVars PROVE GuardInv' /\ OnlyBursts
<1>1. CASE UNCHANGED guardVars
  BY <1>1, GuardSame
<1>2. CASE Iterates
  BY <1>1, <1>2, BeginsKeeps, ReducesKeeps, PassesKeeps DEF Iterates
<1>3. CASE UNCHANGED allVars
  BY <1>1, <1>3 DEF allVars
<1> QED BY <1>1, <1>2, <1>3 DEF GuardNext

(* A controller that bounces is held off, only one that does, and no longer than it does:
   of the edges of any second no more than LIMIT are obeyed, over suspensions, recoveries
   and cues; nobody is suspended for less than LIMIT edges; who has stopped is heard again
   (accept_edge and recover_if_quiet of policy.rs, in Runtime::iteration); for any limit,
   window and timeout of the poll. *)
THEOREM BurstsGuarded == GuardSpec => GuardsBursts
<1>1. GuardInit => GuardInv
  BY GuardAssumption, GuardStart
<1>2. GuardInv /\ [GuardNext]_allVars => GuardInv'
  BY GuardAssumption, GuardKeeps
<1>3. GuardInv => BurstBounded /\ HeardAgain
  <2>1. SUFFICES ASSUME GuardInv PROVE HeardAgain
    BY DEF GuardInv
  <2>2. Waits /\ waited \in Nat /\ last_edge_at \in Nat /\ WINDOW \in Nat /\ POLL_TIMEOUT \in Nat
    BY <2>1, GuardAssumption DEF GuardInv, GuardTypes, GuardAssumption
  <2> QED BY <2>2 DEF Waits, HeardAgain
<1>4. GuardInv /\ [GuardNext]_allVars => OnlyBursts
  BY GuardAssumption, GuardKeeps
<1>5. GuardInv /\ GuardInv' /\ [GuardNext]_allVars => [BurstBounded' /\ OnlyBursts /\ HeardAgain']_allVars
  <2>1. GuardInv' => BurstBounded' /\ HeardAgain'
    BY <1>3, PTL
  <2> QED BY <1>4, <2>1
<1> QED BY <1>1, <1>2, <1>5, PTL DEF GuardSpec, GuardsBursts
=============================================================================
