------------------------------ MODULE GameHost ------------------------------
(***************************************************************************)
(* A libretro console (native/src/bin/retro-host/host.rs) and its picture  *)
(* (native/src/game_video.rs): the frame loop of run_host on one thread,   *)
(* with the sound of AudioRing, the widget it may lose, the save files it  *)
(* keeps, and the kill that may come anywhere.                             *)
(*                                                                         *)
(* Time is counted in half frames for the frame clock and in ticks for the *)
(* exit hold.  The contents of battery memory are a version number; a      *)
(* picture is its size.                                                    *)
(***************************************************************************)
EXTENDS AudioRing, FrameClock, FiniteSets

CONSTANTS
  LOGICAL_WIDTH, LOGICAL_HEIGHT, SAFE_INSET,
  Sizes,          \* sizes of picture the core may make, [width, height]
  FrameTimes,     \* half frames that a turn of the loop may take
  SAVE_EVERY,     \* frames between two periodic saves: 600
  HOLD,           \* ticks that make an exit hold: 2 s
  MaxReports,     \* bound: touch reports between two frames
  MaxVersion,     \* bound: changes of battery memory
  MaxCrashes,     \* bound: kills and power losses
  Scopes          \* bounds, one record per behaviour: [target, about, device, hint]

ASSUME HostAssumption ==
  /\ {SAVE_EVERY, HOLD, MaxReports} \subseteq Nat \ {0}
  /\ {LOGICAL_WIDTH, LOGICAL_HEIGHT, SAFE_INSET, MaxVersion, MaxCrashes} \subseteq Nat
  /\ Sizes # {} /\ Sizes \subseteq [width : Nat, height : Nat] /\ FrameTimes \subseteq Nat
  /\ \A s \in Scopes :
       /\ s.target \in {"Fb", "Lazy", "Headless"}
       /\ s.about \in {"picture", "sound", "saves", "hold"}
       /\ s.device \in {"works", "stalls", "fails"} /\ s.hint \in BOOLEAN

Files == {"sram", "rtc"}
Absent == -1          \* no such file
Foreign == -2         \* nothing this core can load: its size, its kind, an encoding that does not decode
Encoded == -3         \* an InfoNES save
Torn == -4            \* written in part, or not synced
NoPicture == [width |-> 0, height |-> 0]
None == -1

VARIABLES
  scope,
  pc, why,              \* where run_host is; why the loop was left
  target, video_failed, last_source, present_skip,
  painted,              \* the rectangles that the panel has shown since it was cleared
  drawn,                \* what became of the last picture: "Drawn", "Shed" or "Nothing"
  active, asked,        \* the widget is on screen; its compositor asked for a shutdown
  signalled,            \* a termination signal has arrived
  exit_hold,            \* exit_hold_started: its age, or None
  finger, reports,      \* where the finger is; touch reports that were not collected
  held, long, lost,     \* its time inside; that became a hold since the last frame; it was taken back unreported
  frames,               \* frames since the last periodic save
  ram, writable,        \* battery memory and PersistentMemory, per file
  disk, older, temp,    \* a save, what a power loss may put in its place, and its temporary file
  saving, final,        \* the file that is being saved; it is the save at the end
  complained,           \* the last save reported an error
  crashes

pictureVars == <<target, video_failed, last_source, present_skip, painted, drawn>>
touchVars == <<exit_hold, finger, reports, held, long, lost>>
saveVars == <<ram, writable, disk, older, temp, saving, final, complained>>
outsideVars == <<active, asked, signalled>>
vars == <<scope, pc, why, pictureVars, behind, outsideVars, touchVars, frames, saveVars, crashes, audioVars>>

About(a) == scope.about = a

-----------------------------------------------------------------------------
(* The picture.                                                            *)

compute_scaled_layout(size) ==
  LET usable_width == LOGICAL_WIDTH - 2 * SAFE_INSET
      usable_height == LOGICAL_HEIGHT - 2 * SAFE_INSET
      scale == Least(usable_width \div size.width, usable_height \div size.height)
  IN IF size.width = 0 \/ size.height = 0 \/ size.width > usable_width \/ size.height > usable_height
     THEN {}
     ELSE {[x |-> (LOGICAL_WIDTH - size.width * scale) \div 2, y |-> (LOGICAL_HEIGHT - size.height * scale) \div 2,
            width |-> size.width * scale, height |-> size.height * scale]}

\* begin_frame: a picture of another size starts on a black panel.
beginOver(size) == painted
begin_frame(size) == IF last_source = size THEN painted ELSE {}

\* The outcomes of presenting a picture: [target, failed, source, painted].
present(size) ==
  LET Outcome(to, failed, source, rectangles) ==
        [target |-> to, failed |-> failed, source |-> source, painted |-> rectangles]
      layout == compute_scaled_layout(size)
  IN CASE target = "Fb" ->
            {IF layout = {} THEN Outcome("Fb", TRUE, last_source, painted)
             ELSE Outcome("Fb", FALSE, size, begin_frame(size) \cup layout)}
       [] target \in {"Lazy", "Widget"} ->
            {Outcome("Widget", FALSE, last_source, painted)} \cup
            {Outcome(to, TRUE, last_source, painted) : to \in IF About("picture") THEN {target, "Widget"} ELSE {}}
       [] OTHER -> {Outcome(target, FALSE, last_source, painted)}

\* The present-skip mark is taken by the first picture after it was set.
LeavesMark(skip) == FALSE
TakesMark(skip) == skip

\* size is NoPicture for a repeated frame, which the core passes as a null pointer.
video_callback(size, skip) ==
  IF size = NoPicture \/ video_failed THEN
    /\ present_skip' = skip /\ drawn' = "Nothing"
    /\ UNCHANGED <<target, video_failed, last_source, painted>>
  ELSE IF skip THEN
    /\ present_skip' = ~TakesMark(skip) /\ drawn' = "Shed"
    /\ UNCHANGED <<target, video_failed, last_source, painted>>
  ELSE \E outcome \in present(size) :
    /\ target' = outcome.target /\ video_failed' = outcome.failed
    /\ last_source' = outcome.source /\ painted' = outcome.painted
    /\ present_skip' = FALSE /\ drawn' = "Drawn"

-----------------------------------------------------------------------------
(* Battery memory.                                                         *)

\* load_memory_file: what a file puts into memory and whether it may be
\* saved over; reading it may fail.
loadUnprotected(content) ==
  {[memory |-> IF content >= 0 THEN content ELSE 0, writable |-> TRUE]} \cup
  {[memory |-> 0, writable |-> TRUE]}
load_memory_file(content) ==
  {[memory |-> IF content >= 0 THEN content ELSE 0,
    writable |-> content \in {Absent, Encoded} \/ content >= 0]} \cup
  {[memory |-> 0, writable |-> FALSE] : c \in {content} \ {Absent}}

NoNextFile(f) == "none"
NextFile(f) == IF f = "sram" THEN "rtc" ELSE "none"

\* Where the loop goes when save_persistent_memory returns.
Saved == IF final THEN "Close" ELSE "Pace"

SaveError(f) ==
  /\ temp' = [temp EXCEPT ![f] = Absent]
  /\ complained' = TRUE
  /\ saving' = "none" /\ pc' = Saved
  /\ UNCHANGED <<ram, writable, disk, older, final>>

BeginSave(last) ==
  /\ saving' = "sram" /\ final' = last /\ complained' = FALSE
  /\ pc' = "SaveOpen"
  /\ UNCHANGED <<ram, writable, disk, older, temp>>

BeginNothing(last) ==
  /\ final' = last /\ complained' = FALSE
  /\ pc' = IF last THEN "Close" ELSE "Pace"
  /\ UNCHANGED <<ram, writable, disk, older, temp, saving>>

\* The loop is left: the final save comes before everything that may block.
LeaveUnsaved(reason) == why' = reason /\ BeginNothing(TRUE)
Leave(reason) == why' = reason /\ BeginSave(TRUE)

SaveOpen ==
  /\ pc = "SaveOpen"
  /\ \/ /\ ~writable[saving]
        /\ saving' = NextFile(saving)
        /\ pc' = IF NextFile(saving) = "none" THEN Saved ELSE "SaveOpen"
        /\ UNCHANGED <<ram, writable, disk, older, temp, final, complained>>
     \/ /\ writable[saving] /\ temp[saving] = Absent
        /\ temp' = [temp EXCEPT ![saving] = Torn]
        /\ pc' = "SaveWrite"
        /\ UNCHANGED <<ram, writable, disk, older, saving, final, complained>>
     \/ writable[saving] /\ SaveError(saving)      \* in the way, or no room
  /\ UNCHANGED <<scope, why, pictureVars, behind, outsideVars, touchVars, frames, crashes, audioVars>>

\* write_all and no sync_all: the file that is renamed may be in memory only.
SaveWriteUnsynced ==
  /\ pc = "SaveWrite"
  /\ temp' = [temp EXCEPT ![saving] = Torn]
  /\ pc' = "SaveRename"
  /\ UNCHANGED <<ram, writable, disk, older, saving, final, complained>>
  /\ UNCHANGED <<scope, why, pictureVars, behind, outsideVars, touchVars, frames, crashes, audioVars>>

SaveWrite ==
  /\ pc = "SaveWrite"
  /\ \/ /\ temp' = [temp EXCEPT ![saving] = ram[saving]]
        /\ pc' = "SaveRename"
        /\ UNCHANGED <<ram, writable, disk, older, saving, final, complained>>
     \/ SaveError(saving)
  /\ UNCHANGED <<scope, why, pictureVars, behind, outsideVars, touchVars, frames, crashes, audioVars>>

SaveRename ==
  /\ pc = "SaveRename"
  /\ \/ /\ disk' = [disk EXCEPT ![saving] = temp[saving]]
        /\ older' = [older EXCEPT ![saving] = @ \cup {disk[saving]}]    \* the directory is not synced
        /\ temp' = [temp EXCEPT ![saving] = Absent]
        /\ saving' = NextFile(saving)
        /\ pc' = IF NextFile(saving) = "none" THEN Saved ELSE "SaveOpen"
        /\ UNCHANGED <<ram, writable, final, complained>>
     \/ SaveError(saving)
  /\ UNCHANGED <<scope, why, pictureVars, behind, outsideVars, touchVars, frames, crashes, audioVars>>

-----------------------------------------------------------------------------
(* The frame loop of run_host.                                             *)

Start ==
  /\ pc = "Off" /\ why = "none"
  /\ \/ \* the ROM, the core or the picture is refused
        /\ pc' = "Ended" /\ why' = "refused"
        /\ UNCHANGED <<ram, writable, audioVars>>
     \/ /\ pc' = "Head"
        /\ \E sram \in load_memory_file(disk["sram"]), rtc \in load_memory_file(disk["rtc"]) :
             LET loaded == [f \in Files |-> IF f = "sram" THEN sram ELSE rtc]
             IN /\ ram' = [f \in Files |-> loaded[f].memory]
                /\ writable' = [f \in Files |-> About("saves") /\ loaded[f].writable]
        /\ IF About("sound") \/ scope.device = "stalls" THEN open ELSE UNCHANGED audioVars
        /\ UNCHANGED why
  /\ UNCHANGED <<scope, pictureVars, behind, outsideVars, touchVars, frames, disk, older, temp, saving, final,
                 complained, crashes>>

Stopped ==
  /\ pc = "Head" /\ (signalled \/ video_failed)
  /\ Leave(IF video_failed THEN "video" ELSE "signal")
  /\ UNCHANGED <<scope, pictureVars, behind, outsideVars, touchVars, frames, crashes, audioVars>>

\* retro_run: the core makes a picture and sound, and writes its memory.
Run ==
  /\ pc = "Head" /\ ~signalled /\ ~video_failed
  /\ LET skip == present_skip \/ (target # "Headless" /\ late)
     IN \E size \in Sizes \cup {NoPicture} :
          /\ About("picture") \/ size = CHOOSE s \in Sizes : TRUE
          /\ video_callback(size, skip)
  /\ \E n \in IF About("sound") THEN 0..Least(2, MaxTaken - taken) ELSE {0} : write_stereo(n)
  /\ ram' \in IF About("saves") THEN [Files -> 0..MaxVersion] ELSE {ram}
  /\ \A f \in Files : ram'[f] \in {ram[f], ram[f] + 1}
  /\ pc' = "Ask"
  /\ UNCHANGED <<scope, why, behind, outsideVars, touchVars, frames, writable, disk, older, temp, saving, final,
                 complained, crashes>>

\* After exit_requested returned false.
Counted ==
  /\ frames' = (frames + 1) % SAVE_EVERY
  /\ \/ frames' = 0 /\ BeginSave(FALSE) /\ UNCHANGED why
     \/ frames' # 0 /\ pc' = "Pace" /\ UNCHANGED <<saveVars, why>>
     \/ target = "Headless" /\ Leave("limit")

\* exit_requested looks at the widget, if there is one ...
Ask ==
  /\ pc = "Ask"
  /\ \/ /\ target # "Widget" /\ Counted
        /\ UNCHANGED <<touchVars, audioVars>>
     \/ /\ target = "Widget" /\ active /\ pc' = "Check"
        /\ UNCHANGED <<why, touchVars, frames, saveVars, audioVars>>
     \/ /\ target = "Widget" /\ ~active /\ pc' = "Dormant"
        /\ exit_hold' = None /\ discard_pending
        /\ UNCHANGED <<why, finger, reports, held, long, lost, frames, saveVars>>
     \/ /\ target = "Widget" /\ Leave("widget")        \* its connection is gone
        /\ UNCHANGED <<touchVars, frames, audioVars>>
  /\ UNCHANGED <<scope, pictureVars, behind, outsideVars, crashes>>

\* ... waits in it while the game is off screen ...
Wake ==
  /\ pc = "Dormant"
  /\ \/ /\ active \/ asked \/ signalled
        /\ pc' = "Check"
        /\ UNCHANGED <<why, saveVars>>
     \/ Leave("widget")
  /\ UNCHANGED <<scope, pictureVars, behind, outsideVars, touchVars, frames, crashes, audioVars>>

\* update_exit_hold, over the reports of one turn: the age of the hold, and
\* whether it was complete at any of them.
HoldsOutside(hold, report) ==
  [age |-> IF report # "Up" THEN (IF hold.age = None THEN 0 ELSE hold.age) ELSE None,
   complete |-> hold.complete \/ (report = "In" /\ hold.age >= HOLD)]
Holds(hold, report) ==
  [age |-> IF report = "In" THEN (IF hold.age = None THEN 0 ELSE hold.age) ELSE None,
   complete |-> hold.complete \/ (report = "In" /\ hold.age >= HOLD)]

update_exit_hold(hold, report) == Holds(hold, report)

\* ... and then collects the touches.
Check ==
  /\ pc = "Check"
  /\ LET hold == FoldLeft(update_exit_hold, [age |-> exit_hold, complete |-> FALSE], reports) IN
     IF asked \/ signalled THEN
       /\ Leave(IF asked THEN "widget" ELSE "signal")
       /\ UNCHANGED <<touchVars, frames>>
     ELSE IF ~scope.hint THEN
       /\ reports' = <<>> /\ Counted
       /\ UNCHANGED <<exit_hold, finger, held, long, lost>>
     ELSE IF hold.complete \/ hold.age >= HOLD THEN
       /\ exit_hold' = hold.age /\ reports' = <<>> /\ Leave("hold")
       /\ UNCHANGED <<finger, held, long, lost, frames>>
     ELSE
       /\ exit_hold' = hold.age /\ reports' = <<>>
       /\ long' = FALSE /\ lost' = (lost /\ hold.age # None)
       /\ Counted
       /\ UNCHANGED <<finger, held>>
  /\ UNCHANGED <<scope, pictureVars, behind, outsideVars, crashes, audioVars>>

Pace ==
  /\ pc = "Pace" /\ pc' = "Head"
  /\ \E time \in IF About("picture") THEN FrameTimes ELSE {2} : behind' = wait_for_next_frame(time)
  /\ \E ticks \in IF About("hold") THEN 0..1 ELSE {0} :
       /\ exit_hold' = IF exit_hold = None THEN None ELSE Least(HOLD, exit_hold + ticks)
       /\ held' = IF held = None THEN None ELSE Least(HOLD, held + ticks)
       /\ long' = (long \/ held' = HOLD)
  /\ UNCHANGED <<scope, why, pictureVars, outsideVars, finger, reports, lost, frames, saveVars, crashes, audioVars>>

\* game_audio::close, which joins the writer, and game_video::close.
Close ==
  /\ pc = "Close" /\ pc' = "Join"
  /\ BeginClose
  /\ UNCHANGED <<scope, why, pictureVars, behind, outsideVars, touchVars, frames, saveVars, crashes>>

Join ==
  /\ pc = "Join" /\ pc' = "Ended"
  /\ EndClose
  /\ UNCHANGED <<scope, why, pictureVars, behind, outsideVars, touchVars, frames, saveVars, crashes>>

Host == Start \/ Stopped \/ Run \/ Ask \/ Wake \/ Check \/ SaveOpen \/ SaveWrite \/ SaveRename \/ Pace \/ Close \/ Join

-----------------------------------------------------------------------------
(* What happens around it.                                                 *)

Alive == pc \notin {"Off", "Ended"}

Signal ==
  /\ Alive /\ ~signalled /\ signalled' = TRUE
  /\ UNCHANGED <<scope, pc, why, pictureVars, behind, active, asked, touchVars, frames, saveVars, crashes, audioVars>>

\* The compositor shows and hides the widget, or asks it to end.
Compositor ==
  /\ Alive /\ target = "Widget" /\ scope.about \in {"sound", "hold"}
  /\ \/ active' = ~active /\ UNCHANGED asked
     \/ About("hold") /\ active /\ UNCHANGED <<active, asked>>     \* off and on between two looks
     \/ About("hold") /\ ~asked /\ asked' = TRUE /\ UNCHANGED active
  /\ finger' = "Up" /\ reports' = <<>> /\ held' = None
  /\ lost' = (lost \/ (asked' = asked /\ exit_hold # None))
  /\ UNCHANGED <<scope, pc, why, pictureVars, behind, signalled, exit_hold, long, frames, saveVars, crashes, audioVars>>

Touch ==
  /\ Alive /\ target = "Widget" /\ About("hold") /\ active
  /\ Len(reports) < MaxReports
  /\ finger' \in {"In", "Out", "Up"} \ {finger}
  /\ reports' = Append(reports, finger')
  /\ held' = IF finger' = "In" THEN 0 ELSE None
  /\ UNCHANGED <<scope, pc, why, pictureVars, behind, outsideVars, exit_hold, long, lost, frames, saveVars, crashes,
                 audioVars>>

Perilous == About("saves") /\ scope.device = "works"

\* Another process of the same console: nothing but the files is left.
Relaunched ==
  /\ pc' = "Off" /\ why' = "none"
  /\ target' = scope.target /\ video_failed' = FALSE /\ last_source' = NoPicture /\ painted' = {}
  /\ present_skip' = FALSE /\ drawn' = "Nothing" /\ behind' = 0
  /\ active' = TRUE /\ asked' = FALSE /\ signalled' = FALSE
  /\ exit_hold' = None /\ finger' = "Up" /\ reports' = <<>> /\ held' = None /\ long' = FALSE /\ lost' = FALSE
  /\ frames' = 0 /\ ram' = [f \in Files |-> 0] /\ writable' = [f \in Files |-> FALSE]
  /\ saving' = "none" /\ final' = FALSE /\ complained' = FALSE
  /\ UNCHANGED <<scope, audioVars>>

\* Its temporary files stay, under the number of a process that may come again.
Killed ==
  /\ Perilous /\ pc # "Off" /\ crashes < MaxCrashes
  /\ crashes' = crashes + 1
  /\ temp' \in {temp, [f \in Files |-> Absent]}
  /\ UNCHANGED <<disk, older>>
  /\ Relaunched

PowerLost ==
  /\ Perilous /\ crashes < MaxCrashes
  /\ crashes' = crashes + 1
  /\ disk' \in [Files -> Torn..MaxVersion]
  /\ \A f \in Files : disk'[f] \in {disk[f]} \cup older[f]
  /\ temp' \in {[f \in Files |-> IF temp[f] = Absent THEN Absent ELSE Torn], [f \in Files |-> Absent]}
  /\ older' = [f \in Files |-> {}]
  /\ Relaunched

Device ==
  /\ \/ scope.device # "stalls" /\ Write
     \/ scope.device = "fails" /\ (TriggerFails \/ WriteFails)
  /\ UNCHANGED <<scope, pc, why, pictureVars, behind, outsideVars, touchVars, frames, saveVars, crashes>>

Writer ==
  /\ Look
  /\ UNCHANGED <<scope, pc, why, pictureVars, behind, outsideVars, touchVars, frames, saveVars, crashes>>

Init ==
  /\ scope \in Scopes
  /\ pc = "Off" /\ why = "none"
  /\ target = scope.target /\ video_failed = FALSE /\ last_source = NoPicture /\ painted = {}
  /\ present_skip = FALSE /\ drawn = "Nothing" /\ behind = 0
  /\ active = TRUE /\ asked = FALSE /\ signalled = FALSE
  /\ exit_hold = None /\ finger = "Up" /\ reports = <<>> /\ held = None /\ long = FALSE /\ lost = FALSE
  /\ frames = 0 /\ ram = [f \in Files |-> 0] /\ writable = [f \in Files |-> FALSE]
  /\ disk \in IF Perilous THEN {d \in [Files -> {Absent, Foreign, Encoded, 0}] : d["rtc"] # Encoded}
             ELSE {[f \in Files |-> Absent]}
  /\ older = [f \in Files |-> {}] /\ temp = [f \in Files |-> Absent]
  /\ saving = "none" /\ final = FALSE /\ complained = FALSE /\ crashes = 0
  /\ AudioInit

Next == Host \/ Writer \/ Device \/ Signal \/ Compositor \/ Touch \/ Killed \/ PowerLost

Spec == Init /\ [][Next]_vars

\* The host's thread and the writer are scheduled, and a device that works
\* takes what it is given.
FairSpec == Spec /\ WF_vars(Host) /\ WF_vars(Writer) /\ WF_vars(Device)

-----------------------------------------------------------------------------
(* Properties.                                                             *)

(* Types.  The frame clock is never more than five frames behind           *)
(* (FrameClock::wait_for_next_frame), so a long stall is not made up for   *)
(* with a burst of frames.                                                 *)
TypeOK ==
  /\ scope \in Scopes /\ AudioTyped
  /\ pc \in {"Off", "Head", "Ask", "Dormant", "Check", "SaveOpen", "SaveWrite", "SaveRename", "Pace", "Close", "Join",
             "Ended"}
  /\ why \in {"none", "refused", "signal", "video", "widget", "hold", "limit"}
  /\ target \in {"Fb", "Lazy", "Widget", "Headless"} /\ last_source \in Sizes \cup {NoPicture}
  /\ {video_failed, present_skip, active, asked, signalled, long, lost, final, complained} \subseteq BOOLEAN
  /\ behind \in 0..10 /\ drawn \in {"Drawn", "Shed", "Nothing"}
  /\ exit_hold \in None..HOLD /\ held \in None..HOLD /\ frames \in 0..(SAVE_EVERY - 1)
  /\ finger \in {"In", "Out", "Up"} /\ Len(reports) <= MaxReports
  /\ ram \in [Files -> 0..MaxVersion] /\ writable \in [Files -> BOOLEAN]
  /\ \A f \in Files : {disk[f], temp[f]} \cup older[f] \subseteq Torn..MaxVersion
  /\ saving \in {"none", "sram", "rtc"} /\ crashes \in 0..MaxCrashes

(* While a game waits off screen its ring is empty: what is heard of it is *)
(* no more than the chunk the writer had (wait_for_widget_activity).       *)
SilentWhenDormant == pc = "Dormant" => shared.size = 0

(* The panel shows one picture: when the core changes its resolution       *)
(* nothing of the larger one stays beside the smaller, and no picture      *)
(* reaches into the safe margin (begin_frame, compute_scaled_layout).      *)
OnePicture ==
  /\ Cardinality(painted) <= 1
  /\ \A r \in painted :
       /\ r.x >= SAFE_INSET /\ r.x + r.width <= LOGICAL_WIDTH - SAFE_INSET
       /\ r.y >= SAFE_INSET /\ r.y + r.height <= LOGICAL_HEIGHT - SAFE_INSET

(* A game is left by the exit hold only when a contact has lasted that     *)
(* long, whatever the order in which its reports were collected; or when   *)
(* the compositor took the contact back, which the game is not told        *)
(* (update_exit_hold, exit_requested).                                     *)
HoldMeant == why = "hold" => long \/ lost

(* A save is whole at every moment, through kills and power losses         *)
(* (save_memory_file).                                                     *)
SaveWhole == \A f \in Files : Torn \notin {disk[f]} \cup older[f]

(* A game that ends after a save without a complaint has left what its     *)
(* memory held, in each file it may write (save_persistent_memory).        *)
EndSaved ==
  pc \in {"Close", "Join", "Ended"} /\ final /\ ~complained =>
    \A f \in Files : writable[f] => disk[f] = ram[f]

(* A save the core could not load is never written over, and no save is    *)
(* replaced by an older state of the game: only a power loss takes a state *)
(* back (load_memory_file, PersistentMemory).                              *)
SaveKept ==
  \A f \in Files : crashes' = crashes =>
    /\ disk[f] = Foreign => disk'[f] = Foreign
    /\ disk[f] >= 0 => disk'[f] >= disk[f]

(* Once the loop keeps up, pictures are shown again: a frame that was late *)
(* costs the picture after it at most (video_callback, PRESENT_SKIP).      *)
PictureReturns ==
  (<>[](behind <= 3) /\ []<>(drawn # "Nothing")) => []<>(drawn = "Drawn" \/ ~Alive)

(* A game that is told to end saves first, even when the device holds its  *)
(* sound for ever (run_host).                                              *)
SavesWhenTold ==
  (signalled /\ Alive) ~> (~Alive \/ (final /\ (complained \/ \A f \in Files : writable[f] => disk[f] = ram[f])))

(* It ends unless the device holds its sound (close, writer_thread).       *)
EndsWhenTold == (signalled /\ Alive /\ scope.device # "stalls") ~> ~Alive

(* Sound that waits is played, given up or lost with the device: no        *)
(* notification is missed (enqueue, writer_thread).                        *)
Drained == (shared.size > 0 /\ scope.device = "works" /\ player = "Open") ~> (shared.size = 0)

(* What the console makes reaches panel and speaker unaltered: one picture *)
(* at a time, every sample accounted for at its rate, silence off screen;  *)
(* and only a hold that lasted leaves the game.                            *)
ConsoleSafe ==
  /\ TypeOK
  /\ OnePicture /\ SilentWhenDormant /\ Accounted /\ RateKept
  /\ HoldMeant

(* Saves survive every step: each leaves them whole, those of a game that  *)
(* has ended complete, and none puts one back to an older state            *)
(* (save_memory_file, load_memory_file).                                   *)
SavesKept == [][SaveWhole' /\ EndSaved' /\ SaveKept]_vars

(* A game goes on and ends as it should: the picture returns, sound drains,*)
(* and a signal makes it save and end (run_host).                          *)
GameGoesOn == PictureReturns /\ Drained /\ SavesWhenTold /\ EndsWhenTold
=============================================================================
