------------------------------ MODULE DoomHost ------------------------------
(***************************************************************************)
(* The DOOM host (native/src/bin/doom-host/host.rs) on the controllers of  *)
(* Joypad, with the input mapping of native/src/doom_input.rs.  The engine *)
(* owns the loop: every tic it polls for transitions and asks whether to   *)
(* leave, and it presents a frame when it has drawn one.  It never returns *)
(* from doom_main, and leaves by process::exit, which runs no destructors. *)
(***************************************************************************)
EXTENDS Joypad, FrameClock

CONSTANTS
  CONTROLLER_MAP,       \* the buttons in the order of the table
  keyboard_codes,       \* the keys in the order of their codes
  MAX_EVENTS_PER_TIC,   \* room in the engine's buffer: 64
  DoomFrameTimes,       \* half frames that the engine may take
  MaxPending            \* bound: the world waits while more events are pending

ASSUME DoomAssumption ==
  /\ CONTROLLER_MAP \in Seq(Buttons) /\ \A b \in Buttons : \E i \in DOMAIN CONTROLLER_MAP : CONTROLLER_MAP[i] = b
  /\ \A i, j \in DOMAIN CONTROLLER_MAP : CONTROLLER_MAP[i] = CONTROLLER_MAP[j] => i = j
  /\ keyboard_codes \in Seq(Keys) /\ Buttons \cap Keys = {}
  /\ MAX_EVENTS_PER_TIC \in Nat \ {0} /\ DoomFrameTimes \subseteq Nat /\ MaxPending \in Nat

VARIABLES
  doom,            \* where the host's thread is
  controllers,     \* Mapper.controllers[0]
  mapped,          \* Mapper.keys: those that are held
  left,            \* how many keys this poll has compared
  pending,         \* State.pending
  told, down,      \* the sources, and the DOOM keys, that the engine was told are pressed
  quit, doom_skip, \* QUIT and PRESENT_SKIP
  exit_asked,      \* a termination signal, or a shutdown asked of the widget
  view,            \* the picture: "None", the framebuffer's "Panel", or a widget: "Lazy"
                   \* before its first frame, then "Shown", "Hidden" or "Lost"
  audio            \* the audio device: "None", "Works", or "Stalls" when it takes no more

inputVars == <<controllers, mapped, left, pending, told, down>>
frameVars == <<quit, doom_skip, behind>>
aroundVars == <<exit_asked, view, audio>>
doomVars == <<doom, inputVars, frameVars, aroundVars>>
allVars == <<joypadVars, doomVars>>

InDoom == limits.host # "Core"
Pictures ==
  CASE limits.host = "DoomPanel" -> {"Panel"} [] limits.host = "DoomWidget" -> {"Lazy"}
    [] OTHER -> {"Panel", "Lazy"}
Times == IF limits.host = "DoomFrames" THEN DoomFrameTimes ELSE {2}

-----------------------------------------------------------------------------
(* doom_input.rs.                                                          *)

\* CONTROLLER_MAP and keyboard_key: several sources may be one DOOM key.
ControllerKey(button) ==
  CASE button = "A" -> "fire" [] button = "B" -> "use"
    [] button = "X" -> "prevweapon" [] button = "Y" -> "nextweapon"
    [] button = "L" -> "strafe_l" [] button = "R" -> "strafe_r"
    [] button = "Start" -> "escape" [] button = "Select" -> "tab"
    [] OTHER -> button
keyboard_key(key) ==
  CASE key = "space" -> "use"
    [] key \in {"leftctrl", "rightctrl"} -> "fire"
    [] key \in {"leftshift", "rightshift"} -> "rshift"
    [] key \in {"leftalt", "rightalt"} -> "ralt"
    [] OTHER -> key

Event(source, key, pressed) == [source |-> source, key |-> key, pressed |-> pressed]

controller_transitions(previous, current, events) ==
  FoldLeft(LAMBDA out, b : IF (b \in previous) = (b \in current) THEN out
                           ELSE Append(out, Event(b, ControllerKey(b), b \in current)),
           events, CONTROLLER_MAP)

\* Mapper::poll merges the controllers, ...
Merged == pad_distinct[1] \cup pad_distinct[2]
KeepPrevious(current) == controllers' = controllers
Remember(current) == controllers' = current
PollControllers ==
  /\ doom = "Tic" /\ doom' = "Keys" /\ left' = 0
  /\ pending' = controller_transitions(controllers, Merged, pending)
  /\ Remember(Merged)
  /\ UNCHANGED <<mapped, told, down, frameVars, aroundVars>>

\* ... then looks at one key after the other, under a lock of its own.
PollKey ==
  /\ doom = "Keys" /\ left < Len(keyboard_codes) /\ left' = left + 1
  /\ LET key == keyboard_codes[left'] IN
     IF (key \in keys) = (key \in mapped) THEN UNCHANGED <<mapped, pending>>
     ELSE /\ mapped' = IF key \in keys THEN mapped \cup {key} ELSE mapped \ {key}
          /\ pending' = Append(pending, Event(key, keyboard_key(key), key \in keys))
  /\ UNCHANGED <<doom, controllers, told, down, frameVars, aroundVars>>

-----------------------------------------------------------------------------
(* The engine's loop.                                                      *)

\* What the engine knows after an event of one source or DOOM key.
After(known, name, pressed) == IF pressed THEN known \cup {name} ELSE known \ {name}
Told(events) == FoldLeft(LAMBDA s, e : After(s, e.source, e.pressed), told, events)

\* retrodeck_doom_poll_events drains what fits the engine's buffer, ...
DrainAll(count) == <<>>
Drain(count) == SubSeq(pending, count + 1, Len(pending))

\* ... and I_StartTic asks whether to leave: where the thread is then.  Hidden,
\* the widget keeps it in wait_for_widget_activity; on a shown one the return
\* hold may be complete.
retrodeck_doom_quit_requested ==
  IF quit \/ exit_asked \/ view = "Lost" THEN {"Quit"}
  ELSE CASE view = "Hidden" -> {"Dormant"}
         [] view = "Shown"  -> {"Tic", "Draw", "Quit"}
         [] OTHER           -> {"Tic", "Draw"}

StartTic ==
  /\ doom = "Keys" /\ left = Len(keyboard_codes)
  /\ LET count == Min({Len(pending), MAX_EVENTS_PER_TIC})
         events == SubSeq(pending, 1, count)
     IN  /\ told' = Told(events)
         /\ down' = FoldLeft(LAMBDA s, e : After(s, e.key, e.pressed), down, events)
         /\ pending' = Drain(count)
  /\ doom' \in retrodeck_doom_quit_requested
  /\ UNCHANGED <<controllers, mapped, left, frameVars, aroundVars>>

\* Until the widget is shown again, or the thread is asked to leave.
AwakeWhenShown == view # "Hidden"
AwakeWhenAsked == exit_asked
Awake == AwakeWhenShown \/ AwakeWhenAsked
WakeDoom ==
  /\ doom = "Dormant" /\ Awake
  /\ doom' \in retrodeck_doom_quit_requested
  /\ UNCHANGED <<inputVars, frameVars, aroundVars>>

\* retrodeck_doom_present: a frame that is late is shed, but never two in a
\* row.  The first one opens the widget; one that cannot be presented ends it.
ShedLate(shed) == late'
Shed(shed) == late' /\ ~shed
Draw ==
  /\ doom = "Draw" /\ doom' = "Tic"
  /\ \/ /\ limits.host = "DoomFrames" \/ view = "Lost"
        /\ ~doom_skip /\ quit' = TRUE
        /\ UNCHANGED <<doom_skip, behind, view>>
     \/ /\ doom_skip \/ view # "Lost"
        /\ \E time \in Times : behind' = wait_for_next_frame(time)
        /\ doom_skip' = Shed(doom_skip)
        /\ view' \in IF view = "Lazy" /\ ~doom_skip THEN {"Shown", "Hidden"} ELSE {view}
        /\ UNCHANGED quit
  /\ UNCHANGED <<inputVars, exit_asked, audio>>

-----------------------------------------------------------------------------
(* The host's thread before and after the engine.                          *)

\* run_host: the WAD is checked before anything is opened; without input the
\* game goes on.
RefuseWad ==
  /\ doom = "Off" /\ doom' = "Ended"
  /\ UNCHANGED <<joypadVars, inputVars, frameVars, aroundVars>>
Begin ==
  /\ doom = "Off" /\ doom' = "Open"
  /\ StartSession \/ StartFails
  /\ UNCHANGED <<inputVars, frameVars, aroundVars>>

\* Without a picture run_host returns, which drops the session.
OpenFailsAtOnce ==
  /\ doom = "Open" /\ doom' = "Ended"
  /\ UNCHANGED <<joypadVars, inputVars, frameVars, aroundVars>>
OpenFails ==
  /\ doom = "Open"
  /\ IF sessions = {} THEN doom' = "Ended" /\ UNCHANGED joypadVars
     ELSE doom' = "Drop" /\ DropSession(generation)
  /\ UNCHANGED <<inputVars, frameVars, aroundVars>>
OpenVideo ==
  /\ doom = "Open" /\ doom' = "Tic"
  /\ audio' \in IF limits.host = "DoomFrames" THEN {"None", "Works", "Stalls"} ELSE {"Works"}
  /\ view' \in Pictures
  /\ UNCHANGED <<joypadVars, inputVars, frameVars, exit_asked>>

\* retrodeck_doom_exit, or the engine has returned: the controllers are given
\* back, then the audio device is
\* closed, which may wait for it for ever.
LeaveAudioFirst ==
  /\ doom \in {"Tic", "Quit"} /\ audio # "Stalls"
  /\ Shutdown
  /\ doom' = "Release"
  /\ UNCHANGED <<inputVars, frameVars, aroundVars>>
LeaveDoom ==
  /\ doom \in {"Tic", "Quit"}
  /\ Shutdown
  /\ doom' = "Release"
  /\ UNCHANGED <<inputVars, frameVars, aroundVars>>
Release ==
  /\ doom \in {"Drop", "Release"}
  /\ JoinWorker
  /\ doom' = IF doom = "Drop" THEN "Ended" ELSE "Audio"
  /\ UNCHANGED <<inputVars, frameVars, aroundVars>>
CloseAudio ==
  /\ doom = "Audio" /\ audio # "Stalls" /\ doom' = "Ended"
  /\ UNCHANGED <<joypadVars, inputVars, frameVars, aroundVars>>

-----------------------------------------------------------------------------

DoomInit ==
  /\ JoypadInit
  /\ doom = "Off"
  /\ controllers = {} /\ mapped = {} /\ left = 0 /\ pending = <<>> /\ told = {} /\ down = {}
  /\ quit = FALSE /\ doom_skip = FALSE /\ behind = 0
  /\ exit_asked = FALSE /\ view = "None" /\ audio = "None"

Engine == (PollControllers \/ PollKey \/ StartTic \/ WakeDoom \/ Draw) /\ UNCHANGED joypadVars
run_host == RefuseWad \/ Begin \/ OpenFails \/ OpenVideo \/ LeaveDoom \/ Release \/ CloseAudio
DoomThread == InDoom /\ (Engine \/ run_host)

DoomAlive == doom \notin {"Off", "Ended"}

AskDoom ==
  /\ InDoom /\ DoomAlive /\ ~exit_asked /\ exit_asked' = TRUE
  /\ UNCHANGED <<joypadVars, doom, inputVars, frameVars, view, audio>>

\* The compositor shows and hides an open widget, or its connection breaks.
DoomCompositor ==
  /\ InDoom /\ DoomAlive /\ view \in {"Shown", "Hidden"}
  /\ view' \in {"Shown", "Hidden", "Lost"} \ {view}
  /\ UNCHANGED <<joypadVars, doom, inputVars, frameVars, exit_asked, audio>>

\* The emulators' hosts do with Joypad as they like; DOOM's does as above.
Input == (InDoom => DoomAlive) /\ input_thread /\ UNCHANGED doomVars
Tick == (InDoom => DoomAlive) /\ Second /\ UNCHANGED doomVars
DevicesMove == (InDoom => DoomAlive /\ Len(pending) <= MaxPending) /\ World /\ UNCHANGED doomVars
Core == ~InDoom /\ Owner /\ UNCHANGED doomVars

DoomNext == DoomThread \/ AskDoom \/ DoomCompositor \/ Input \/ Tick \/ DevicesMove \/ Core
DoomSpec == DoomInit /\ [][DoomNext]_allVars

\* Threads are scheduled and time goes on.
DoomFairSpec ==
  /\ DoomSpec
  /\ WF_allVars(Input)
  /\ WF_allVars(Tick)
  /\ WF_allVars(~InDoom /\ JoinWorker /\ UNCHANGED doomVars)
  /\ WF_allVars(DoomThread)

-----------------------------------------------------------------------------
(* Properties.                                                             *)

\* The types of the DOOM host's state.
DoomTypeOK ==
  /\ doom \in {"Off", "Open", "Tic", "Keys", "Dormant", "Draw", "Quit", "Drop", "Release", "Audio", "Ended"}
  /\ controllers \subseteq Buttons /\ mapped \subseteq Keys
  /\ {quit, doom_skip, exit_asked} \subseteq BOOLEAN
  /\ view \in {"None", "Panel", "Lazy", "Shown", "Hidden", "Lost"}
  /\ behind \in 0..10 /\ audio \in {"None", "Works", "Stalls"}

\* A release always follows its press: what the engine was told and what is
\* still queued for it add up to what the mapper has seen, and no source is
\* pressed or released twice in a row (retrodeck_doom_poll_events).
ReleaseFollows ==
  /\ \A i \in 1..Len(pending) :
       pending[i].pressed = (pending[i].source \notin Told(SubSeq(pending, 1, i - 1)))
  /\ Told(pending) = controllers \cup mapped

\* The console is left as it was found on every way out, those that run no
\* destructors included: its keyboard cooked, no device open, no input thread
\* (run_host, shutdown, retrodeck_doom_exit).
ConsoleRestored ==
  doom = "Ended" => thread = "None" /\ console = "Cooked" /\ \A p \in Players : fd[p] = "None"

\* Once everything is let go, or pulled out, the engine is told so of every
\* key it was told is pressed, unless something is pressed again before:
\* nobody keeps walking (publish_states, Mapper::poll, and the queue).  While
\* the widget is hidden the engine does not run and is told nothing; what is
\* let go meanwhile it is told once the widget stays in view again, for which
\* it must have been woken (wait_for_widget_activity).
LetGo ==
  LET quiet   == typing = {} /\ torn = {} /\ \A c \in Ports : pushed[c] = {}
      playing == doom \in {"Tic", "Keys", "Dormant", "Draw"}
      walks   == down # {} /\ quiet /\ playing /\ view # "Hidden"
  IN  walks ~> ~walks

\* However late the frames are, the picture moves: at most every second one is
\* shed (retrodeck_doom_present).
PictureMoves == []<>(doom = "Draw") => []<>(doom = "Draw" /\ ~doom_skip)

\* DOOM leaves when it is asked to, hidden or not, or when its picture fails or
\* its widget is lost; a sound device that takes no more can keep the process,
\* but not the controllers and the console (I_StartTic, exit_requested,
\* shutdown).  (While no button moves: a pad is drained until it has nothing
\* more to say.)
LeavesWhenTold ==
  (limits.played = {} /\ (exit_asked \/ quit \/ view = "Lost") /\ DoomAlive)
    ~> (~DoomAlive \/ (audio = "Stalls" /\ doom = "Audio" /\ thread = "None"))

\* What the core and DOOM's engine are told of pads and keyboard is true, in the
\* hands of one player each, and given back by every session and by the process
\* (joypad.rs, doom_input.rs, run_host).
InputSafe ==
  /\ JoypadTypeOK /\ DoomTypeOK
  /\ SamplesTrue /\ OnePadEach /\ ReleaseFollows
  /\ NothingHeld /\ ConsoleRestored

\* No step takes input from whom it belongs to: not from the session that has
\* replaced an old one, nor from the player whose port a pad comes back to
\* (Session::drop, scan_gamepads).
SeatsServed == [][ReplacementServed /\ SeatKept]_allVars

\* Input arrives and DOOM goes on: pads are found, releases reach the engine,
\* the picture moves and the process leaves when it is told to.
DoomGoesOn == PadFound /\ LetGo /\ PictureMoves /\ LeavesWhenTold
=============================================================================
