------------------------------ MODULE Dashboard ------------------------------
(***************************************************************************)
(* The dashboard process: the reducer of native/src/dashboard/app.rs (App) *)
(* driven by the loop of native/src/dashboard/runtime.rs (Runtime).        *)
(*                                                                         *)
(* App::reduce turns an event into effects; Runtime::step runs each effect *)
(* and reduces the event that completes it before it runs the next one.    *)
(* `pc` is the place in that recursion.  `pending` is the completion that  *)
(* the reducer is waiting for, and Accepts is its check of it.             *)
(*                                                                         *)
(* Everything the process shares with the world is a variable as well: the *)
(* devices (surface, framebuffer, touchscreen, controls, the tone worker), *)
(* the signals, the compositor's requests and the passage of time, counted *)
(* in ticks of about one second.                                           *)
(***************************************************************************)
EXTENDS Integers

CONSTANTS
  Apps,            \* the entries of the catalog
  Reboot,          \* the power entry, one of Apps
  Terminals,       \* the entries that open the terminal (shell and REPLs)
  OwnTouch,        \* Deck programs that read the touchscreen themselves
  Shell,           \* the terminal behind the settings screen's button
  HasDisplay,      \* WAYLAND_DISPLAY is set: run as a BMC widget if possible
  RebootTicks,     \* the confirmation window, 4000 ms in the code
  ScanTicks,       \* controls are rescanned after 1000 ms
  ReconnectTicks,  \* the touchscreen is retried after 1000 ms
  NetworkTicks,    \* network status is refreshed after 2000 ms
  MaxBatch         \* bound: touch reports drained in one iteration

ASSUME DashboardAssumption ==
  /\ Reboot \in Apps
  /\ Shell \notin Apps
  /\ Terminals \subseteq Apps /\ OwnTouch \subseteq Apps
  /\ Reboot \notin Terminals \cup OwnTouch /\ Terminals \cap OwnTouch = {}
  /\ HasDisplay \in BOOLEAN
  /\ {RebootTicks, ScanTicks, ReconnectTicks, NetworkTicks} \subseteq Nat \ {0}
  /\ MaxBatch \in Nat

VARIABLES
  pc,                \* where Runtime::initialize / iteration / step stands
  view, status, pressed,          \* App: screen, status line, pressed target
  deadline,          \* reboot_deadline: 0 none, 1 passed, n + 1 for n ticks left
  pending, game, origin, recovery, change,      \* App.pending, spread out
  sinceScan, sinceReconnect, sinceNetwork,      \* ages of App's timestamps
  touchLink,         \* App.touch_connected
  touchDev,          \* the open evdev device
  backend, shown, loop,           \* Runtime: backend, screen laid out, running
  owned,             \* Runtime: the *_owned flags that are set
  surface,           \* the widget connection: "Closed", "Open" or "Stopping"
  scene,             \* the surface is in view (State.active) or not
  framebuffer, controls, rescan,  \* the other devices; Runtime.rescan
  volume,            \* settings.volume
  tone,              \* the forked tone worker
  quarantine,        \* sound_active and now < input_until, those that hold
  poll, noted, touchCount,        \* locals of iteration()
  touchscreen,       \* there is a device to be opened
  shutdown           \* process::shutdown_requested(): a signal arrived

menuVars  == <<view, status, pressed>>
pendVars  == <<pending, game, origin, recovery, change>>
clockVars == <<sinceScan, sinceReconnect, sinceNetwork>>
touchVars == <<touchLink, touchDev>>
presVars  == <<backend, surface, scene, framebuffer>>
ctlVars   == <<controls, rescan>>
toneVars  == <<tone, quarantine>>
iterVars  == <<poll, noted, touchCount>>
worldVars == <<touchscreen, shutdown>>

vars == <<pc, menuVars, deadline, pendVars, clockVars, touchVars, presVars,
          shown, loop, owned, ctlVars, volume, toneVars, iterVars, worldVars>>

-----------------------------------------------------------------------------
(* What the code enumerates.                                               *)

Views    == {"Dashboard", "Settings", "Wifi", "Credits"}
Pendings == {"None", "Launch", "Settings", "VolumeTone", "Wifi", "Network", "Child"}
Changes  == {"Mute", "Volume", "Other"}       \* a settings change to save
Flags    == {"Presentation", "Touch", "Controls", "Audio"}
Sounds   == {"Active", "Until"}
Notes    == {"Stop", "Discard"}               \* poll.shutdown, outcome.discard_touch

(* Menu targets: a card, a button; "Move" is a tab or an arrow.            *)
Cards == {<<"Card", a>> : a \in Apps}
Button(name) == <<"Button", name>>
NoTarget == Button("None")
Targets(v) ==
  CASE v = "Dashboard" -> Cards \cup {Button(n) : n \in {"Credits", "Settings", "Move"}}
    [] v = "Settings"  -> {Button(n) : n \in {"Close", "Terminal", "Wifi", "Change"}}
    [] v = "Wifi"      -> {Button(n) : n \in {"Back", "Save", "Key"}}
    [] v = "Credits"   -> {Button("Back")}
AllTargets == {NoTarget} \cup UNION {Targets(v) : v \in Views}

(* command(): what each screen lets the merged actions mean.  The settings *)
(* button exists on gamepads only.                                         *)
Commands(v) ==
  CASE v = "Dashboard" -> {"Settings", "Move", "Confirm"}
    [] v = "Settings"  -> {"Back", "Settings", "Move", "Confirm"}
    [] OTHER           -> {"Back"}
KeyboardCommands(v) == Commands(v) \ {"Settings"}

(* policy::launch_plan: who watches the return hold, and who gets the      *)
(* widget surface.                                                         *)
IsGame(a)            == a \notin Terminals \cup {Shell, Reboot}
SupervisedAlways(a, widget) == TRUE
Supervised(a, widget) == widget \/ a \notin OwnTouch
WidgetChild(a, widget) == widget /\ IsGame(a)

Widget == backend = "Widget"

(* App::check_pending: may the reducer take event e now?                   *)
AcceptsNoBatch(e) == pending = "None" \/ (pending = "Launch" /\ e = "Prepared")
Accepts(e) ==
  \/ pending = "None"
  \/ pending = "Launch" /\ (e = "Prepared" \/ (e = "Touch" /\ origin = "Touch"))
  \/ pending = "Settings"   /\ e = "SettingsResult"
  \/ pending = "VolumeTone" /\ e = "VolumeToneResult"
  \/ pending = "Wifi"       /\ e = "WifiResult"
  \/ pending = "Network"    /\ e = "NetworkResult"
  \/ /\ pending = "Child"
     /\ \/ recovery = "None"         /\ e = "ChildReturned"
        \/ recovery = "Controls"     /\ e = "ControlsRescanned"
        \/ recovery = "Presentation" /\ e = "PresentationOpened"
        \/ recovery = "Volume"       /\ e = "ChildComplete"

(* Reducing an event that check_pending refuses ends the process with an   *)
(* error; so does a touch on a menu that was never laid out.               *)
Reduced(e, next) ==
  pc' = IF Accepts(e) /\ (e = "Touch" /\ view = "Dashboard" => shown = "Dashboard")
        THEN next ELSE "Rejected"

-----------------------------------------------------------------------------
(* Pieces of handlers.  Each fixes the primed values of the variables it   *)
(* names and leaves the others to the handler.                             *)

\* Effect::Render followed by Effect::Present: only the menu has a layout.
Render(v) == shown' = v

\* Effect::Cue: Runtime::cue over audio::play_tone_sequence.
Cue ==
  \/ /\ volume = "Audible" /\ tone = "Silent"                  \* Started
     /\ tone' = "Playing" /\ quarantine' = {"Active", "Until"} /\ owned' = owned \cup {"Audio"}
  \/ /\ volume = "Audible" /\ tone = "Playing"                 \* Busy
     /\ quarantine' = quarantine \cup {"Active"} /\ UNCHANGED <<tone, owned>>
  \/ UNCHANGED <<toneVars, owned>>                             \* muted, or fork failed

\* Effect::ReapSound: the worker is given up once it has ended and its
\* samples have played.
ReapSound ==
  /\ quarantine' = (quarantine \ {"Active"}) \cup (IF tone = "Playing" THEN {"Active"} ELSE {})
  /\ owned' = (IF tone = "Playing" \/ "Until" \in quarantine THEN owned ELSE owned \ {"Audio"})

\* Runtime::stop_sound: kill the worker, or let it finish; both wait for it.
Silence ==
  IF "Audio" \in owned THEN tone' = "Silent" /\ quarantine' = {} ELSE UNCHANGED toneVars
StopSound == Silence /\ owned' = owned \ {"Audio"}

\* App::set_view with the status line it is always followed by.
SetView(v, s) == view' = v /\ pressed' = NoTarget /\ status' = s

\* App::cancel_reboot, for a handler that sets the status line itself.
CancelRebootForgotten == UNCHANGED deadline
CancelReboot == deadline' = 0
WithoutPrompt == IF status = "Confirm" THEN "Other" ELSE status

\* pending = p with no detail; the spread-out fields have their defaults.
Detail(p, c) ==
  pending' = p /\ game' = Shell /\ origin' = "Controls" /\ recovery' = "None" /\ change' = c
ClearPending == Detail("None", "Other")

RequestLaunch(a, from) ==
  /\ pending' = "Launch" /\ game' = a /\ origin' = from
  /\ recovery' = "None" /\ change' = "Other"

\* App::request_game, without its cue.
RequestGame(a, from) ==
  IF a = Reboot /\ deadline <= 1
  THEN /\ deadline' = RebootTicks + 1
       /\ status' = "Confirm" /\ Render(view)
       /\ UNCHANGED pendVars
  ELSE /\ CancelReboot
       /\ status' = (IF a = Reboot THEN status ELSE WithoutPrompt)
       /\ RequestLaunch(a, from)
       /\ UNCHANGED shown

\* Runtime::open_presentation: the widget if there is a display and BMC
\* accepts the key, the framebuffer otherwise.
OpenPresentation ==
  \/ /\ HasDisplay /\ surface # "Closed"
     /\ backend' = "Widget"
     /\ UNCHANGED <<owned, surface, scene, framebuffer>>
  \/ /\ HasDisplay /\ surface = "Closed"
     /\ backend' = "Widget" /\ surface' = "Open" /\ scene' = "Hidden"
     /\ owned' = owned \cup {"Presentation"} /\ UNCHANGED framebuffer
  \/ /\ surface = "Closed"
     /\ backend' = "Fbdev" /\ framebuffer' = "Open"
     /\ owned' = (IF framebuffer = "Closed" THEN owned \cup {"Presentation"} ELSE owned)
     /\ UNCHANGED <<surface, scene>>

\* Runtime::shutdown, which Drop runs again.
Shutdown ==
  /\ Silence
  /\ controls' = (IF "Controls" \in owned THEN "Closed" ELSE controls)
  /\ touchDev' = (IF "Touch" \in owned THEN "Closed" ELSE touchDev)
  /\ IF "Presentation" \in owned /\ Widget
     THEN surface' = "Closed" /\ scene' = "Hidden"
     ELSE UNCHANGED <<surface, scene>>
  /\ framebuffer' = (IF "Presentation" \in owned /\ ~Widget THEN "Closed" ELSE framebuffer)
  /\ owned' = {} /\ backend' = "None" /\ shown' = "None" /\ loop' = "Stopped"
  /\ UNCHANGED <<rescan, touchLink>>

-----------------------------------------------------------------------------
(* Runtime::initialize, which opens one device after another.              *)

Start ==
  /\ pc = "Start"
  /\ OpenPresentation
  /\ pc' = "StartTouch"
  /\ UNCHANGED <<menuVars, deadline, pendVars, clockVars, touchVars, shown, loop,
                 ctlVars, volume, toneVars, iterVars, worldVars>>

StartTouch ==
  /\ pc = "StartTouch"
  /\ IF Widget
     THEN UNCHANGED <<touchVars, owned>>
     ELSE /\ touchscreen = "Present"
          /\ touchDev' = "Open" /\ owned' = owned \cup {"Touch"} /\ touchLink' = "Connected"
  /\ pc' = "StartControls"
  /\ UNCHANGED <<menuVars, deadline, pendVars, clockVars, presVars, shown, loop,
                 ctlVars, volume, toneVars, iterVars, worldVars>>

StartControls ==
  /\ pc = "StartControls"
  /\ owned' = owned \cup {"Controls"} /\ controls' = "Open" /\ UNCHANGED rescan
  /\ sinceScan' = 0 /\ sinceNetwork' = 0 /\ UNCHANGED sinceReconnect
  /\ Render(view) /\ loop' = "Running"
  /\ pc' = "Begin"
  /\ UNCHANGED <<menuVars, deadline, pendVars, touchVars, presVars,
                 volume, toneVars, iterVars, worldVars>>

-----------------------------------------------------------------------------
(* Runtime::iteration up to the poll: Event::Begin and its effects.        *)

ReconnectDue == ~Widget /\ touchLink = "Lost" /\ sinceReconnect >= ReconnectTicks
ScanDue      == rescan = "Wanted" \/ sinceScan >= ScanTicks
AfterReconnect == IF rescan = "Wanted" THEN "Scan" ELSE "Poll"

\* Begin reaps the tone worker, then asks for a touchscreen and for controls
\* when they are due.  The request for controls is taken here, spent by Scan.
Begin ==
  /\ pc = "Begin"
  /\ ReapSound /\ UNCHANGED tone
  /\ sinceReconnect' = (IF ReconnectDue THEN 0 ELSE sinceReconnect)
  /\ sinceScan' = (IF ScanDue THEN 0 ELSE sinceScan)
  /\ rescan' = (IF ScanDue THEN "Wanted" ELSE "No")
  /\ Reduced("Begin", IF ReconnectDue THEN "Reconnect" ELSE IF ScanDue THEN "Scan" ELSE "Poll")
  /\ UNCHANGED <<menuVars, deadline, pendVars, sinceNetwork, touchVars, presVars, shown,
                 loop, controls, volume, iterVars, worldVars>>

\* Event::TouchLost and Event::TouchReconnected.
TouchLinkIs(link) ==
  /\ touchLink' = link
  /\ pressed' = NoTarget /\ UNCHANGED view
  /\ status' = (IF view = "Wifi" THEN status ELSE "Other")
  /\ Render(view)

\* Effect::ReconnectTouch: open_touch closes the old device before it looks
\* for a new one; success is reduced as TouchReconnected.
Reconnect ==
  /\ pc = "Reconnect"
  /\ \/ /\ touchscreen = "Present"
        /\ touchDev' = "Open" /\ owned' = owned \cup {"Touch"}
        /\ TouchLinkIs("Connected")
        /\ Reduced("TouchReconnected", AfterReconnect)
     \/ /\ touchscreen = "Absent"
        /\ touchDev' = "Closed"
        /\ pc' = AfterReconnect
        /\ UNCHANGED <<owned, touchLink, menuVars, shown>>
  /\ UNCHANGED <<deadline, pendVars, clockVars, presVars, loop, ctlVars, volume,
                 toneVars, iterVars, worldVars>>

\* Effect::ScanControls from Begin; nothing is pending, so ControlsRescanned
\* only stamps the scan.
Scan ==
  /\ pc = "Scan"
  /\ owned' = owned \cup {"Controls"} /\ controls' = "Open" /\ rescan' = "No"
  /\ sinceScan' = 0 /\ UNCHANGED <<sinceReconnect, sinceNetwork>>
  /\ Reduced("ControlsRescanned", "Poll")
  /\ UNCHANGED <<menuVars, deadline, pendVars, touchVars, presVars, shown, loop,
                 volume, toneVars, iterVars, worldVars>>

\* polling::dispatch: a timeout, or input; a lost touchscreen is reported
\* only for a device that is open, or by a broken widget connection.
Poll ==
  /\ pc = "Poll"
  /\ \E p \in {"Idle", "Ready", "Lost"}, n \in 0..MaxBatch, r \in {rescan, "Wanted"} :
       /\ IF Widget THEN n > 0 => scene = "Shown"
                    ELSE /\ p = "Lost" <=> touchDev = "Dead"
                         /\ n > 0 => touchDev # "Closed"
       /\ p = "Idle" => n = 0
       /\ poll' = p /\ touchCount' = n /\ rescan' = r
  /\ noted' = (IF shutdown \/ (Widget /\ surface = "Stopping") THEN {"Stop"} ELSE {})
  /\ pc' = "Tick"
  /\ UNCHANGED <<menuVars, deadline, pendVars, clockVars, touchVars, presVars, shown, loop,
                 owned, controls, volume, toneVars, worldVars>>

-----------------------------------------------------------------------------
(* The rest of the iteration: the reports of the poll, one event at a time. *)

\* After Event::Tick and its effects.
AfterTick == IF poll = "Idle" THEN "Check" ELSE IF poll = "Lost" THEN "Lost" ELSE "Controls"

\* Event::Tick: the confirmation expires; the settings screens refresh the
\* network status.
Tick ==
  /\ pc = "Tick"
  /\ deadline' = (IF deadline = 1 THEN 0 ELSE deadline)
  /\ status' = (IF deadline = 1 THEN WithoutPrompt ELSE status)
  /\ UNCHANGED <<view, pressed>>
  /\ shown' = (IF status' # status THEN view ELSE shown)
  /\ IF view \in {"Settings", "Wifi"} /\ sinceNetwork >= NetworkTicks
     THEN /\ sinceNetwork' = 0
          /\ pending' = "Network" /\ UNCHANGED <<game, origin, recovery, change>>
          /\ Reduced("Tick", "Network")
     ELSE /\ UNCHANGED <<sinceNetwork, pendVars>>
          /\ Reduced("Tick", AfterTick)
  /\ UNCHANGED <<sinceScan, sinceReconnect, touchVars, presVars, loop, owned, ctlVars,
                 volume, toneVars, iterVars, worldVars>>

\* Effect::NetworkAction and Event::NetworkResult.
Network ==
  /\ pc = "Network"
  /\ ClearPending
  /\ UNCHANGED menuVars
  /\ Render(view)
  /\ Reduced("NetworkResult", AfterTick)
  /\ UNCHANGED <<deadline, clockVars, touchVars, presVars, loop, owned, ctlVars, volume,
                 toneVars, iterVars, worldVars>>

\* Event::TouchLost; the loop has closed the device it owned.
Lost ==
  /\ pc = "Lost"
  /\ touchDev' = (IF "Touch" \in owned THEN "Closed" ELSE touchDev)
  /\ owned' = owned \ {"Touch"}
  /\ TouchLinkIs("Lost")
  /\ Reduced("TouchLost", "Controls")
  /\ UNCHANGED <<deadline, pendVars, clockVars, presVars, loop, ctlVars, volume,
                 toneVars, iterVars, worldVars>>

-----------------------------------------------------------------------------
(* Commands and taps.  Each piece below sets menuVars, deadline, pendVars, *)
(* shown, toneVars, owned and pc; e is the event that led to it.           *)

\* settings::activate and App::settings_plan for a target of that screen.
SettingsPlan(name, e, from) ==
  /\ UNCHANGED deadline
  /\ \/ /\ name = "Close"
        /\ SetView("Dashboard", "Other") /\ Render("Dashboard") /\ Cue
        /\ UNCHANGED pendVars /\ Reduced(e, "Touch")
     \/ /\ name = "Wifi"
        /\ SetView("Wifi", status) /\ Render("Wifi") /\ Cue
        /\ UNCHANGED pendVars /\ Reduced(e, "Touch")
     \/ /\ name = "Terminal"
        /\ RequestLaunch(Shell, from) /\ Cue
        /\ pressed' = NoTarget /\ UNCHANGED <<view, status, shown>> /\ Reduced(e, "Touch")
     \/ /\ name = "Change"
        /\ \E c \in Changes : Detail("Settings", c)
        /\ pressed' = NoTarget /\ UNCHANGED <<view, status, shown, toneVars, owned>>
        /\ Reduced(e, "Settings")

\* Commands that move between screens or within one.
Navigate(v) ==
  /\ CancelReboot
  /\ SetView(v, "Other") /\ Render(v) /\ Cue
  /\ UNCHANGED pendVars /\ Reduced("Controls", "Touch")

\* App::command.  "Move" is a step through tabs, cards or settings; which
\* card it selects is left open, so Confirm may act on any.
Command(c) ==
  \/ c = "Back" /\ Navigate(IF view = "Wifi" THEN "Settings" ELSE "Dashboard")
  \/ c = "Settings" /\ Navigate(IF view = "Settings" THEN "Dashboard" ELSE "Settings")
  \/ c = "Move" /\ Navigate(view)
  \/ /\ c = "Confirm" /\ view = "Settings"
     /\ \E name \in {"Terminal", "Wifi", "Change"} : SettingsPlan(name, "Controls", "Controls")
  \/ /\ c = "Confirm" /\ view = "Dashboard"
     /\ \E a \in Apps : RequestGame(a, "Controls")
     /\ UNCHANGED view /\ pressed' = NoTarget /\ Cue /\ Reduced("Controls", "Touch")

\* Event::Controls: nothing pressed (or everything dropped by the controller
\* guard), or one command.  Gamepads are ignored during a cue, keyboards are
\* not.  A command discards the touches of the same poll, as a lost
\* touchscreen does.
Quarantined == quarantine # {}
ControlsKeepTouch ==
  /\ pc = "Controls"
  /\ \E c \in Commands(view) : Command(c) /\ UNCHANGED noted
  /\ UNCHANGED <<clockVars, touchVars, presVars, loop, ctlVars, volume, poll, touchCount,
                 worldVars>>
Controls ==
  /\ pc = "Controls"
  /\ \/ /\ UNCHANGED <<menuVars, deadline, pendVars, shown, toneVars, owned>>
        /\ noted' = (IF poll = "Lost" THEN noted \cup {"Discard"} ELSE noted)
        /\ Reduced("Controls", "Touch")
     \/ /\ \E c \in IF Quarantined THEN KeyboardCommands(view) ELSE Commands(view) : Command(c)
        /\ noted' = noted \cup {"Discard"}
  /\ UNCHANGED <<clockVars, touchVars, presVars, loop, ctlVars, volume, poll, touchCount,
                 worldVars>>

\* A report that activates nothing: a press or a drag, a release elsewhere.
\* On the menu, any release that is not on the power entry disarms it.
NoTap(released, t) ==
  /\ IF released /\ view = "Dashboard" /\ t # <<"Card", Reboot>> /\ deadline > 0
     THEN CancelReboot /\ status' = WithoutPrompt
     ELSE UNCHANGED <<deadline, status>>
  /\ UNCHANGED <<view, pendVars, shown, toneVars, owned>>
  /\ Reduced("Touch", "Touch")

\* A tap that moves to screen v.
TapTo(v, s) ==
  view' = v /\ status' = s /\ Render(v) /\ Cue /\ UNCHANGED pendVars /\ Reduced("Touch", "Touch")

\* App::dashboard_touch, wifi_touch, settings::touch, credits.touch for a
\* release on the target t that was pressed.
Tap(t) ==
  \/ /\ view = "Dashboard" /\ t \in Cards
     /\ RequestGame(t[2], "Touch")
     /\ UNCHANGED view /\ Cue /\ Reduced("Touch", "Touch")
  \/ /\ view = "Dashboard" /\ t \notin Cards
     /\ CancelReboot /\ TapTo(IF t = Button("Move") THEN view ELSE t[2], "Other")
  \/ /\ view = "Settings" /\ SettingsPlan(t[2], "Touch", "Touch")
  \/ /\ view = "Credits" /\ UNCHANGED deadline /\ TapTo("Dashboard", "Other")
  \/ /\ view = "Wifi" /\ t = Button("Back") /\ UNCHANGED deadline /\ TapTo("Settings", "Other")
  \/ /\ view = "Wifi" /\ t \in {Button("Key"), Button("Save")}  \* Save: invalid fields
     /\ UNCHANGED deadline /\ TapTo("Wifi", status)
  \/ /\ view = "Wifi" /\ t = Button("Save")
     /\ Detail("Wifi", "Other")
     /\ UNCHANGED <<view, status, deadline, shown, toneVars, owned>> /\ Reduced("Touch", "Wifi")

\* Event::Touch for each report of the poll, unless the batch was discarded.
\* A release without a press happens: a device may be opened under a finger.
Touch ==
  /\ pc = "Touch" /\ touchCount > 0 /\ "Discard" \notin noted
  /\ \E t \in {NoTarget} \cup Targets(view) :
       \/ pressed' = t /\ NoTap(FALSE, t)                              \* press
       \/ pressed' = NoTarget /\ (pressed # t \/ t = NoTarget) /\ NoTap(TRUE, t)
       \/ pressed' = NoTarget /\ pressed = t /\ t # NoTarget /\ Tap(t)
  /\ touchCount' = touchCount - 1
  /\ UNCHANGED <<clockVars, touchVars, presVars, loop, ctlVars, volume, poll, noted,
                 worldVars>>

\* The batch is over; a launch it asked for is prepared now.
BatchDone ==
  /\ pc = "Touch" /\ (touchCount = 0 \/ "Discard" \in noted)
  /\ pc' = (IF pending = "Launch" THEN "Prepare" ELSE "Check")
  /\ poll' = "Idle" /\ touchCount' = 0 /\ noted' = noted \ {"Discard"}
  /\ UNCHANGED <<menuVars, deadline, pendVars, clockVars, touchVars, presVars, shown,
                 loop, owned, ctlVars, volume, toneVars, worldVars>>

-----------------------------------------------------------------------------
(* Effects that complete at once: a saved setting, its tone, the helper.   *)

\* Effect::SettingsAction and Event::SettingsResult: the save may fail; a
\* muted volume stops the sound, an audible one is confirmed by a tone.
Settings ==
  /\ pc = "Settings"
  /\ \/ /\ change = "Volume"                          \* saved
        /\ pending' = "VolumeTone" /\ UNCHANGED <<game, origin, recovery, change>>
        /\ volume' = "Audible" /\ UNCHANGED <<toneVars, owned>>
        /\ Reduced("SettingsResult", "VolumeTone")
     \/ /\ change = "Mute"                            \* saved
        /\ ClearPending /\ volume' = "Muted" /\ StopSound
        /\ Reduced("SettingsResult", "Touch")
     \/ /\ change # "Other"                           \* not saved
        /\ ClearPending /\ UNCHANGED <<volume, toneVars, owned>>
        /\ Reduced("SettingsResult", "Touch")
     \/ /\ change = "Other"                           \* brightness, keymap
        /\ ClearPending /\ UNCHANGED volume /\ Cue
        /\ Reduced("SettingsResult", "Touch")
  /\ status' = "Other" /\ UNCHANGED <<view, pressed>> /\ Render(view)
  /\ UNCHANGED <<deadline, clockVars, touchVars, presVars, loop, ctlVars, iterVars, worldVars>>

\* Effect::VolumeCue and Event::VolumeToneResult.
VolumeTone ==
  /\ pc = "VolumeTone"
  /\ Cue /\ ClearPending
  /\ status' = "Other" /\ UNCHANGED <<view, pressed>> /\ Render(view)
  /\ Reduced("VolumeToneResult", "Touch")
  /\ UNCHANGED <<deadline, clockVars, touchVars, presVars, loop, ctlVars, volume,
                 iterVars, worldVars>>

\* Effect::WifiAction, which blocks on the helper, and Event::WifiResult.
Wifi ==
  /\ pc = "Wifi"
  /\ Cue /\ ClearPending
  /\ UNCHANGED menuVars /\ Render(view)
  /\ Reduced("WifiResult", "Touch")
  /\ UNCHANGED <<deadline, clockVars, touchVars, presVars, loop, ctlVars, volume,
                 iterVars, worldVars>>

-----------------------------------------------------------------------------
(* A launch: prepare, run the child, recover the devices.                  *)

\* Effect::PrepareLaunch and Event::Prepared with Render, Present,
\* FinishSound and CloseControls.
Prepare ==
  /\ pc = "Prepare"
  /\ pending' = "Child" /\ recovery' = "None" /\ UNCHANGED <<game, origin, change>>
  /\ status' = "Other" /\ UNCHANGED <<view, pressed>> /\ Render(view)
  /\ Silence /\ owned' = owned \ {"Audio", "Controls"}
  /\ controls' = "Closed" /\ UNCHANGED rescan
  /\ Reduced("Prepared", "Launch")
  /\ UNCHANGED <<deadline, clockVars, touchVars, presVars, loop, volume, iterVars, worldVars>>

\* Effect::Launch up to the spawn: run_child gives the framebuffer, and the
\* touchscreen if the program reads it itself, to the child.
Launch ==
  /\ pc = "Launch"
  /\ pc' = (IF Widget \/ "Presentation" \in owned THEN "Child" ELSE "Rejected")
  /\ framebuffer' = (IF surface = "Closed" THEN "Closed" ELSE framebuffer)
  /\ touchDev' = (IF surface = "Closed" /\ ~Supervised(game, Widget) THEN "Closed" ELSE touchDev)
  /\ UNCHANGED <<menuVars, deadline, pendVars, clockVars, touchLink, backend, surface, scene,
                 shown, loop, owned, ctlVars, volume, toneVars, iterVars, worldVars>>

\* ChildInteraction::poll_evdev while a supervised child runs on the
\* framebuffer: retry a missing touchscreen, close a broken one.
PollEvdev ==
  /\ pc = "Child" /\ surface = "Closed" /\ Supervised(game, Widget)
  /\ \/ touchDev = "Closed" /\ touchscreen = "Present" /\ touchDev' = "Open"
     \/ touchDev = "Dead" /\ touchDev' = "Closed"
  /\ UNCHANGED <<pc, menuVars, deadline, pendVars, clockVars, touchLink, presVars, shown,
                 loop, owned, ctlVars, volume, toneVars, iterVars, worldVars>>

\* run_child returns and Event::ChildReturned is reduced.  A program that had
\* the widget surface leaves its connection closed.  Only a stop that the
\* dashboard itself was asked for ends the loop.
StopSeen == shutdown \/ (surface = "Stopping" /\ ~WidgetChild(game, Widget))
ChildReturned ==
  /\ pc = "Child"
  /\ pressed' = NoTarget /\ UNCHANGED <<view, status>>
  /\ \/ /\ StopSeen
        /\ ClearPending
        /\ Shutdown
        /\ Reduced("ChildReturned", "Check")
     \/ /\ IF WidgetChild(game, Widget)
           THEN surface' = "Closed" /\ scene' = "Hidden"
           ELSE UNCHANGED <<surface, scene>>
        /\ touchLink' = (IF Supervised(game, Widget) THEN touchLink ELSE "Lost")
        /\ recovery' = "Controls"
        /\ Reduced("ChildReturned", "Rescan")
        /\ UNCHANGED <<pending, game, origin, change, touchDev, backend, framebuffer, shown,
                       loop, owned, ctlVars, toneVars>>
  /\ UNCHANGED <<deadline, clockVars, volume, iterVars, worldVars>>

\* Effect::ScanControls and Event::ControlsRescanned after a child.
Rescan ==
  /\ pc = "Rescan"
  /\ owned' = owned \cup {"Controls"} /\ controls' = "Open" /\ UNCHANGED rescan
  /\ sinceScan' = 0 /\ UNCHANGED <<sinceReconnect, sinceNetwork>>
  /\ recovery' = "Presentation" /\ UNCHANGED <<pending, game, origin, change>>
  /\ Reduced("ControlsRescanned", "Open")
  /\ UNCHANGED <<menuVars, deadline, touchVars, presVars, shown, loop, volume,
                 toneVars, iterVars, worldVars>>

\* Effect::OpenPresentation and Event::PresentationOpened.
OpenForgotten ==
  /\ pc = "Open"
  /\ recovery' = "Volume" /\ UNCHANGED <<pending, game, origin, change>>
  /\ Reduced("PresentationOpened", "Reload")
  /\ UNCHANGED <<menuVars, deadline, clockVars, touchVars, presVars, shown, loop, owned, ctlVars,
                 volume, toneVars, iterVars, worldVars>>
Open ==
  /\ pc = "Open"
  /\ OpenPresentation
  /\ recovery' = "Volume" /\ UNCHANGED <<pending, game, origin, change>>
  /\ Reduced("PresentationOpened", "Reload")
  /\ UNCHANGED <<menuVars, deadline, clockVars, touchVars, shown, loop, ctlVars, volume,
                 toneVars, iterVars, worldVars>>

\* Effect::ReloadVolume and Event::ChildComplete: the child may have changed
\* the volume.
Reload ==
  /\ pc = "Reload"
  /\ volume' \in {"Muted", "Audible"}
  /\ ClearPending
  /\ status' = "Other" /\ UNCHANGED <<view, pressed>> /\ Render(view)
  /\ Reduced("ChildComplete", "Check")
  /\ UNCHANGED <<deadline, clockVars, touchVars, presVars, loop, owned, ctlVars, toneVars,
                 iterVars, worldVars>>

-----------------------------------------------------------------------------
(* The end of the iteration, and of the process.                           *)

CheckSurfaceOnly ==
  /\ pc = "Check"
  /\ IF Widget /\ surface = "Stopping"
     THEN Shutdown
     ELSE UNCHANGED <<touchVars, presVars, shown, loop, owned, ctlVars, toneVars>>
  /\ pc' = (IF loop' = "Running" THEN "Begin" ELSE "Drop")
  /\ noted' = {} /\ UNCHANGED <<poll, touchCount>>
  /\ UNCHANGED <<menuVars, deadline, pendVars, clockVars, volume, worldVars>>
Check ==
  /\ pc = "Check"
  /\ IF "Stop" \in noted \/ shutdown \/ (Widget /\ surface = "Stopping")
     THEN Shutdown
     ELSE UNCHANGED <<touchVars, presVars, shown, loop, owned, ctlVars, toneVars>>
  /\ pc' = (IF loop' = "Running" THEN "Begin" ELSE "Drop")
  /\ noted' = {} /\ UNCHANGED <<poll, touchCount>>
  /\ UNCHANGED <<menuVars, deadline, pendVars, clockVars, volume, worldVars>>

\* An effect that fails (`?` in step and iteration): a device that cannot be
\* opened, scanned, polled or presented to.  It unwinds to Drop.
Fallible == {"Start", "StartTouch", "StartControls", "Scan", "Poll", "Tick", "Network", "Lost",
             "Controls", "Touch", "Settings", "VolumeTone", "Wifi", "Prepare", "Rescan", "Open",
             "Reload"}
RuntimeError ==
  /\ pc \in Fallible
  /\ pc' = "Drop"
  /\ UNCHANGED <<menuVars, deadline, pendVars, clockVars, touchVars, presVars, shown, loop,
                 owned, ctlVars, volume, toneVars, iterVars, worldVars>>

\* Drop for Runtime.
DropNothing ==
  /\ pc = "Drop" /\ pc' = "Exited"
  /\ UNCHANGED <<menuVars, deadline, pendVars, clockVars, touchVars, presVars, shown, loop,
                 owned, ctlVars, volume, toneVars, iterVars, worldVars>>
Drop ==
  /\ pc = "Drop"
  /\ Shutdown
  /\ pc' = "Exited"
  /\ UNCHANGED <<menuVars, deadline, pendVars, clockVars, volume, iterVars, worldVars>>

-----------------------------------------------------------------------------
(* The world.  Time is sampled before Begin, after the poll and when a     *)
(* child returns, so it only needs to pass there.                          *)

Live == pc \notin {"Exited", "Rejected"}
AtMost(n, bound) == IF n < bound THEN n ELSE bound

TimePasses ==
  /\ pc \in {"Begin", "Poll", "Child"}
  /\ deadline' = (IF deadline > 1 THEN deadline - 1 ELSE deadline)
  /\ sinceScan' = AtMost(sinceScan + 1, ScanTicks)
  /\ sinceReconnect' = AtMost(sinceReconnect + 1, ReconnectTicks)
  /\ sinceNetwork' = AtMost(sinceNetwork + 1, NetworkTicks)
  /\ quarantine' = quarantine \ {"Until"}
  /\ UNCHANGED <<pc, menuVars, pendVars, touchVars, presVars, shown, loop, owned, ctlVars,
                 volume, tone, iterVars, worldVars>>

\* The tone worker ends; input_until passes within less than a tick.
SoundEnds ==
  /\ Live
  /\ \/ tone = "Playing" /\ tone' = "Silent" /\ UNCHANGED quarantine
     \/ "Until" \in quarantine /\ quarantine' = quarantine \ {"Until"} /\ UNCHANGED tone
  /\ UNCHANGED <<pc, menuVars, deadline, pendVars, clockVars, touchVars, presVars, shown,
                 loop, owned, ctlVars, volume, iterVars, worldVars>>

\* The touchscreen goes away, killing an open device, or comes back.
Hotplug ==
  /\ Live
  /\ \/ /\ touchscreen = "Present" /\ touchscreen' = "Absent"
        /\ touchDev' = (IF touchDev = "Open" THEN "Dead" ELSE touchDev)
     \/ touchscreen = "Absent" /\ touchscreen' = "Present" /\ UNCHANGED touchDev
  /\ UNCHANGED <<pc, menuVars, deadline, pendVars, clockVars, touchLink, presVars, shown,
                 loop, owned, ctlVars, volume, toneVars, iterVars, shutdown>>

\* SIGTERM, SIGINT or SIGHUP.
Signal ==
  /\ Live /\ ~shutdown
  /\ shutdown' = TRUE
  /\ UNCHANGED <<pc, menuVars, deadline, pendVars, clockVars, touchVars, presVars, shown,
                 loop, owned, ctlVars, volume, toneVars, iterVars, touchscreen>>

\* The compositor moves the scene in or out of view, or stops the widget.  A
\* program that took over the surface gets those requests itself.
Compositor ==
  /\ Live /\ surface = "Open"
  /\ ~(pc = "Child" /\ WidgetChild(game, Widget))
  /\ \/ scene' = (IF scene = "Shown" THEN "Hidden" ELSE "Shown") /\ UNCHANGED surface
     \/ surface' = "Stopping" /\ UNCHANGED scene
  /\ UNCHANGED <<pc, menuVars, deadline, pendVars, clockVars, touchVars, backend, framebuffer,
                 shown, loop, owned, ctlVars, volume, toneVars, iterVars, worldVars>>

-----------------------------------------------------------------------------

Init ==
  /\ pc = "Start"
  /\ view = "Dashboard" /\ status = "Other" /\ pressed = NoTarget
  /\ deadline = 0
  /\ pending = "None" /\ game = Shell /\ origin = "Controls" /\ recovery = "None"
  /\ change = "Other"
  /\ sinceScan = ScanTicks /\ sinceReconnect = ReconnectTicks /\ sinceNetwork = NetworkTicks
  /\ touchLink = "Connected" /\ touchDev = "Closed"
  /\ touchscreen \in {"Present", "Absent"} /\ shutdown = FALSE
  /\ backend = "None" /\ surface = "Closed" /\ scene = "Hidden" /\ framebuffer = "Closed"
  /\ shown = "None" /\ loop = "Stopped" /\ owned = {}
  /\ controls = "Closed" /\ rescan = "No"
  /\ volume \in {"Muted", "Audible"}
  /\ tone = "Silent" /\ quarantine = {}
  /\ poll = "Idle" /\ noted = {} /\ touchCount = 0

Iteration ==
  \/ Begin \/ Reconnect \/ Scan \/ Poll \/ Tick \/ Network \/ Lost \/ Controls
  \/ Touch \/ BatchDone \/ Settings \/ VolumeTone \/ Wifi
  \/ Prepare \/ Launch \/ Rescan \/ Open \/ Reload \/ Check
Process == Start \/ StartTouch \/ StartControls \/ Iteration \/ RuntimeError \/ Drop
World == PollEvdev \/ ChildReturned \/ TimePasses \/ SoundEnds \/ Hotplug \/ Signal \/ Compositor

Next == Process \/ World

Spec == Init /\ [][Next]_vars

\* The process is scheduled; a child that is told to stop stops, as the
\* supervisor makes it.
FairSpec ==
  /\ Spec
  /\ WF_vars(Process)
  /\ WF_vars(shutdown /\ ChildReturned)

-----------------------------------------------------------------------------
(* Properties.                                                             *)

PCs == {"Start", "StartTouch", "StartControls", "Begin", "Reconnect", "Scan", "Poll", "Tick",
        "Network", "Lost", "Controls", "Touch", "Settings", "VolumeTone", "Wifi", "Prepare",
        "Launch", "Child", "Rescan", "Open", "Reload", "Check", "Drop", "Exited", "Rejected"}

\* The types of the process's state.
Scalars ==
  /\ pc \in PCs
  /\ view \in Views /\ status \in {"Confirm", "Other"} /\ pressed \in AllTargets
  /\ deadline \in 0..(RebootTicks + 1)
  /\ pending \in Pendings /\ game \in Apps \cup {Shell} /\ origin \in {"Touch", "Controls"}
  /\ recovery \in {"None", "Controls", "Presentation", "Volume"} /\ change \in Changes
  /\ sinceScan \in 0..ScanTicks /\ sinceReconnect \in 0..ReconnectTicks
  /\ sinceNetwork \in 0..NetworkTicks
  /\ touchLink \in {"Connected", "Lost"} /\ touchDev \in {"Closed", "Open", "Dead"}
  /\ backend \in {"None", "Widget", "Fbdev"}
  /\ surface \in {"Closed", "Open", "Stopping"} /\ scene \in {"Shown", "Hidden"}
  /\ framebuffer \in {"Open", "Closed"} /\ controls \in {"Open", "Closed"}
  /\ shown \in Views \cup {"None"} /\ loop \in {"Running", "Stopped"}
  /\ rescan \in {"No", "Wanted"} /\ volume \in {"Muted", "Audible"}
  /\ tone \in {"Playing", "Silent"}
  /\ poll \in {"Idle", "Ready", "Lost"} /\ touchCount \in 0..MaxBatch
  /\ touchscreen \in {"Present", "Absent"} /\ shutdown \in BOOLEAN
TypeOK == Scalars /\ owned \subseteq Flags /\ quarantine \subseteq Sounds /\ noted \subseteq Notes

\* The dashboard never dies of its own reducer: whatever is tapped, pressed,
\* lost or refreshed, each completion reaches check_pending (app.rs) when the
\* reducer waits for it, no touch meets a menu without a layout, and no child
\* is refused for a borrowed framebuffer (runtime.rs, Effect::Launch).
InOrder == pc # "Rejected"

\* A confirmation window opened on the menu is closed by every way off the
\* menu, and once the clock has been ticked it has time left: a stale arm
\* can never turn one later tap into a reboot.
ArmedOnMenu ==
  deadline > 0 => /\ view = "Dashboard"
                  /\ pc \in {"Controls", "Touch", "Prepare"} => deadline > 1

\* While a child runs it alone has the devices: the controls are closed, no
\* cue is still playing on /dev/dsp, the framebuffer is released unless the
\* widget shows the child's console, and a program that reads the touchscreen
\* finds it free.  A child of the widget always has a connection to replace.
ChildHasDevices ==
  pc = "Child" =>
    /\ controls = "Closed" /\ tone = "Silent"
    /\ surface = "Closed" => framebuffer = "Closed"
    /\ surface = "Closed" /\ game \in OwnTouch => touchDev = "Closed"
    /\ WidgetChild(game, Widget) => surface # "Closed"

\* Whenever the loop may present a frame, the backend it presents to is open:
\* the way back from every kind of child, and the fallback from the widget to
\* the framebuffer, leave no mismatch behind.
Presentable ==
  loop = "Running" /\ pc \notin {"Child", "Rescan", "Open", "Drop", "Rejected"} =>
    /\ "Presentation" \in owned
    /\ \/ backend = "Widget" /\ surface # "Closed" /\ framebuffer = "Closed"
       \/ backend = "Fbdev" /\ surface = "Closed" /\ framebuffer = "Open"

\* A running tone worker is always known to the runtime, so that stop_sound
\* reaches it before a child needs /dev/dsp or the process ends.
ToneOwned == tone = "Playing" => "Audio" \in owned

\* However initialize or the loop ended, nothing the dashboard opened for
\* itself stays behind: no grabbed keyboard, no tone, no surface or mapping.
NothingLeaks ==
  pc = "Exited" => /\ controls = "Closed" /\ tone = "Silent"
                   /\ surface = "Closed" /\ framebuffer = "Closed"

\* A launch asked for by a controller or keyboard is the one that is started:
\* touches of the same poll cannot replace it, drop it, or end the process.
ControllerLaunchKept ==
  [][pending = "Launch" /\ origin = "Controls"
       => pending' \in {"Launch", "Child"} /\ (game' = game) /\ (pc' # "Rejected")]_vars

\* A signal ends the process, whatever it was doing: polling, inside a batch,
\* running a child, or half-way through taking its devices back.
StopHonoured == shutdown ~> pc = "Exited"
=============================================================================
