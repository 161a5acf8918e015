------------------------------ MODULE Settings ------------------------------
(***************************************************************************)
(* The settings of the Deck: the menu (native/src/dashboard/settings.rs    *)
(* and runtime.rs) loads, shows, sets and saves volume, brightness and     *)
(* keymap, a program it launches saves a volume of its own, and either is  *)
(* killed or loses its power anywhere.                                     *)
(***************************************************************************)
EXTENDS StateFile, FiniteSets

CONSTANTS
  VOLUME_DEFAULT, VOLUME_STEP, Loudest,  \* volumes are 0..Loudest
  Brightest,                             \* brightness has the levels 1..Brightest
  MaxRaw,                                \* max_brightness of the backlight
  Scopes     \* bounds, one record per behaviour: the settings that are pressed, the
             \* volumes and levels found, and how many presses, children, deaths and faults

\* Texts of an old volume file, and the two keymaps.
On == -3
Off == -4
Us == 0
Cz == 1

\* The process of the program that the menu has launched.
ChildPid == 0

ASSUME SettingsAssumption ==
  /\ {VOLUME_DEFAULT, VOLUME_STEP} \subseteq 1..Loudest /\ Loudest \in Nat
  /\ {Brightest, MaxRaw} \subseteq Nat \ {0}
  /\ Files = {"volume", "brightness", "keymap"}
  /\ {Missing, On, Off} \cup 0..Loudest \cup 1..Brightest \subseteq Texts
  /\ ChildPid \in Pids /\ Pids # {ChildPid}
  /\ \A s \in Scopes :
       /\ s.press \subseteq Files /\ s.volumes \cup s.levels \subseteq Texts
       /\ {s.presses, s.children, s.deaths, s.faults} \subseteq Nat

VARIABLES
  scope,
  pc, pid,     \* where the menu is, and its process
  change,      \* the setting being changed, its value, and whether the menu is starting
  shown,       \* settings::State: volume, last_audible_volume, brightness, keymap
  device,      \* /sys/class/backlight/.../brightness
  child,       \* the program that runs: where it is, its volume
  presses, children, deaths,      \* bounds: presses, launches and deaths still to come
  unread,      \* the volume that a child left could not be read
  astray       \* a change of the brightness has failed since one succeeded

boundVars == <<presses, children, deaths>>
menuVars == <<pc, pid, change, shown, unread, astray>>
settingsVars == <<fileVars, scope, menuVars, device, child, boundVars>>

NoChild == [pc |-> "None", volume |-> 0]
NoChange == [file |-> "volume", value |-> 0, starting |-> FALSE]

Unloaded == [volume |-> VOLUME_DEFAULT, audible |-> VOLUME_DEFAULT, brightness |-> Brightest, keymap |-> Us]

-----------------------------------------------------------------------------
(* What is in the files, and in the backlight.                             *)

Parses(f, text) ==
  CASE f = "volume" -> text \in 0..Loudest
    [] f = "brightness" -> text \in 1..Brightest
    [] f = "keymap" -> text \in {Us, Cz}

Unclamped(x, low, high) == x
Clamp(x, low, high) == IF x < low THEN low ELSE IF x > high THEN high ELSE x

brightness_raw_value(level) == Clamp((2 * level * MaxRaw + Brightest) \div (2 * Brightest), 1, MaxRaw)

\* Rounded to hundredths, and those to a level.
observed_brightness_level(raw) ==
  LET percent == (raw * 100 + (MaxRaw \div 2)) \div MaxRaw
  IN Clamp((percent * Brightest + 50) \div 100, 1, Brightest)

\* control_file, which reads and writes the device in one call each.
Observed == observed_brightness_level(device)
SetDevice(level) == device' = brightness_raw_value(level)

-----------------------------------------------------------------------------
(* Runtime::initialize: the menu starts.                                   *)

After(f) == CASE f = "volume" -> "Backlight" [] f = "brightness" -> "Keymap" [] OTHER -> "Ready"

\* A process starts with VOLUME_DEFAULT for the last audible volume.
ShowMuted(f, value) == shown' = [shown EXCEPT ![f] = value]
Show(f, value) ==
  shown' = [shown EXCEPT ![f] = value, !.audible = IF f = "volume" /\ value > 0 THEN value ELSE @]

Failed == pc' = "Down"

\* What a file that is missing, or of an old version, becomes.
Replacement(f) ==
  IF f = "keymap" THEN Us ELSE IF read(f) = Off THEN 0 ELSE VOLUME_DEFAULT
NoMigration(f) == read(f) = Missing
Migrates(f) == read(f) = Missing \/ (f = "volume" /\ read(f) \in {On, Off})

Start ==
  /\ pc = "Down" /\ pc' = "Volume"
  /\ pid' \in Pids \ {ChildPid}
  /\ shown' = Unloaded
  /\ unread' = FALSE /\ astray' = FALSE /\ change' = NoChange
  /\ UNCHANGED <<fileVars, scope, device, child, boundVars>>

Saves(f, value, starting) ==
  /\ Begin(pid, f, value)
  /\ change' = [file |-> f, value |-> value, starting |-> starting]
  /\ pc' = "Saving"

\* load_volume and load_keymap.
Load(f) ==
  /\ pc = (IF f = "volume" THEN "Volume" ELSE "Keymap")
  /\ \/ Faulty /\ Failed /\ UNCHANGED <<file, old, temps, writing, kept, change, shown>>
     \/ Migrates(f) /\ Saves(f, Replacement(f), TRUE) /\ UNCHANGED shown
     \/ ~Migrates(f) /\ Parses(f, read(f)) /\ Show(f, read(f)) /\ pc' = After(f) /\ UNCHANGED <<fileVars, change>>
     \/ ~Migrates(f) /\ ~Parses(f, read(f)) /\ Failed /\ UNCHANGED <<fileVars, change, shown>>
  /\ UNCHANGED <<scope, pid, device, child, boundVars, unread, astray>>

\* What was saved, or what the backlight shows, is set and saved.
TakesOver(level) == Show("brightness", level) /\ pc' = "Keymap" /\ UNCHANGED change
Adopts(level) ==
  /\ change' = [file |-> "brightness", value |-> level, starting |-> TRUE]
  /\ pc' = "Device" /\ UNCHANGED shown

load_backlight ==
  /\ pc = "Backlight"
  /\ LET level == IF read("brightness") = Missing THEN Observed ELSE read("brightness") IN
     \/ Parses("brightness", level) /\ Adopts(level) /\ UNCHANGED faults
     \/ (Faulty \/ (~Parses("brightness", level) /\ UNCHANGED faults)) /\ Failed /\ UNCHANGED <<change, shown>>
  /\ UNCHANGED <<file, old, temps, writing, kept, scope, pid, device, child, boundVars, unread, astray>>

-----------------------------------------------------------------------------
(* Runtime::settings_action and settings::complete.                        *)

Finished ==
  /\ change' = NoChange
  /\ pc' = IF change.starting THEN After(change.file) ELSE IF pc = "Saving" \/ pc = "Device" THEN "Idle" ELSE pc

\* set_backlight: the device first, then the file.
set_backlight ==
  /\ pc = "Device"
  /\ \/ /\ SetDevice(change.value)
        /\ Saves("brightness", change.value, change.starting)
        /\ UNCHANGED astray
     \/ /\ Faulty
        /\ SetDevice(change.value) \/ UNCHANGED device
        /\ astray' = TRUE
        /\ pc' = IF change.starting THEN "Down" ELSE "Ready"
        /\ change' = NoChange /\ UNCHANGED <<file, old, temps, writing, kept>>
  /\ UNCHANGED <<scope, pid, shown, child, boundVars, unread>>

Saved ==
  /\ pc = "Saving" /\ Answered(pid)
  /\ \/ /\ writing[pid].pc = "Saved"
        /\ Show(change.file, change.value)
        /\ astray' = (astray /\ change.file # "brightness") /\ unread' = (unread /\ change.file # "volume")
        /\ pc' = IF change.starting THEN After(change.file) ELSE "Ready"
     \/ /\ writing[pid].pc = "Error"
        /\ astray' = (astray \/ change.file = "brightness")
        /\ pc' = IF change.starting THEN "Down" ELSE "Ready"
        /\ UNCHANGED <<shown, unread>>
  /\ change' = NoChange
  /\ UNCHANGED <<scope, pid, device, child, boundVars>>

\* activate.
Pressed(f) ==
  CASE f = "volume" -> {IF shown.volume < VOLUME_STEP THEN 0 ELSE shown.volume - VOLUME_STEP,
                        IF shown.volume = 0 THEN (IF shown.audible < VOLUME_STEP THEN VOLUME_STEP ELSE shown.audible)
                        ELSE Clamp(shown.volume + VOLUME_STEP, 0, Loudest)}
    [] f = "brightness" -> {Clamp(shown.brightness - 1, 1, Brightest), Clamp(shown.brightness + 1, 1, Brightest)}
    [] f = "keymap" -> {IF shown.keymap = Cz THEN Us ELSE Cz}

\* One action at a time: the next press waits for what the last one saves.
Hasty == pc \in {"Ready", "Saving"}
Settled == pc = "Ready"

Press ==
  /\ Settled /\ presses > 0 /\ presses' = presses - 1
  /\ \E f \in scope.press : \E v \in Pressed(f) :
       IF f = "brightness"
       THEN /\ pc' = "Device" /\ change' = [file |-> f, value |-> v, starting |-> FALSE]
            /\ UNCHANGED fileVars
       ELSE Saves(f, v, FALSE)
  /\ UNCHANGED <<scope, pid, shown, device, child, children, deaths, unread, astray>>

-----------------------------------------------------------------------------
(* A program that saves a volume (chiptune_ui, Session::set_volume).       *)

Launch ==
  /\ pc = "Ready" /\ children > 0 /\ children' = children - 1
  /\ pc' = "Child" /\ child' = [pc |-> "Runs", volume |-> shown.volume]
  /\ UNCHANGED <<fileVars, scope, pid, change, shown, device, presses, deaths, unread, astray>>

ChildSets ==
  /\ child.pc = "Runs" /\ presses > 0 /\ presses' = presses - 1
  /\ \E v \in {Clamp(child.volume - VOLUME_STEP, 0, Loudest), Clamp(child.volume + VOLUME_STEP, 0, Loudest)} \ {child.volume} :
       child' = [pc |-> "Saving", volume |-> v] /\ Begin(ChildPid, "volume", v)
  /\ UNCHANGED <<scope, menuVars, device, children, deaths>>

ChildSaved ==
  /\ child.pc = "Saving" /\ Answered(ChildPid)
  /\ child' = [child EXCEPT !.pc = "Runs"]
  /\ UNCHANGED <<scope, menuVars, device, boundVars>>

\* The program ends between two commands, or is killed anywhere.
ChildEnds ==
  /\ child.pc # "None"
  /\ \/ child.pc = "Runs" /\ UNCHANGED deaths
     \/ deaths > 0 /\ deaths' = deaths - 1
  /\ child' = NoChild /\ pc' = "Reload" /\ Stopped({ChildPid})
  /\ UNCHANGED <<file, old, temps, kept, faults, scope, pid, change, shown, device, presses, children, unread, astray>>

\* Effect::ReloadVolume and ChildComplete.
NotReloaded == UNCHANGED shown
Reloaded == Show("volume", read("volume"))
ReloadVolume ==
  /\ pc = "Reload" /\ pc' = "Ready"
  /\ \/ Faulty /\ unread' = TRUE /\ UNCHANGED shown
     \/ Reloaded /\ unread' = FALSE /\ UNCHANGED faults
  /\ UNCHANGED <<file, old, temps, writing, kept, scope, pid, change, device, child, boundVars, astray>>

-----------------------------------------------------------------------------
(* Deaths: of the menu, and with it of what it launched; of everything.    *)

Dies ==
  /\ deaths > 0 /\ deaths' = deaths - 1
  /\ pc # "Down" /\ pc' = "Down" /\ child' = NoChild
  /\ change' = NoChange
  /\ UNCHANGED <<scope, pid, shown, presses, children, unread, astray>>

Killed == Dies /\ Stopped(Pids) /\ UNCHANGED <<file, old, temps, kept, faults, device>>

PowerFails == Dies /\ PowerLost /\ device' \in 0..MaxRaw

-----------------------------------------------------------------------------

Menu ==
  \/ Start \/ Load("volume") \/ load_backlight \/ Load("keymap") \/ set_backlight \/ Saved \/ ReloadVolume
  \/ (write_bounded(pid) /\ UNCHANGED <<scope, menuVars, device, child, boundVars>>)

Program ==
  \/ ChildSets \/ ChildSaved \/ ChildEnds
  \/ (write_bounded(ChildPid) /\ UNCHANGED <<scope, menuVars, device, child, boundVars>>)

Init ==
  /\ scope \in Scopes
  /\ \E v \in scope.volumes, b \in scope.levels :
       file = [f \in Files |-> CASE f = "volume" -> v [] f = "brightness" -> b [] f = "keymap" -> Missing]
  /\ old = [f \in Files |-> {}] /\ temps = {} /\ writing = [p \in Pids |-> Idle]
  /\ kept = [f \in Files |-> {file[f]}] /\ faults = scope.faults
  /\ pc = "Down" /\ pid = (CHOOSE p \in Pids : p # ChildPid) /\ change = NoChange /\ shown = Unloaded
  /\ device \in 0..MaxRaw /\ child = NoChild
  /\ presses = scope.presses /\ children = scope.children /\ deaths = scope.deaths
  /\ unread = FALSE /\ astray = FALSE

Next == Menu \/ Program \/ Press \/ Launch \/ Killed \/ PowerFails

Spec == Init /\ [][Next]_settingsVars

\* The system starts the menu again, and what runs goes on; nobody has to press
\* a key or to start or end a program.
FairSpec == Spec /\ WF_settingsVars(Menu)

-----------------------------------------------------------------------------

TypeOK ==
  /\ FilesTypeOK /\ scope \in Scopes
  /\ pc \in {"Down", "Volume", "Backlight", "Keymap", "Device", "Saving", "Ready", "Child", "Reload"}
  /\ pid \in Pids \ {ChildPid}
  /\ change \in [file : Files, value : Int, starting : BOOLEAN]
  /\ shown \in [volume : 0..Loudest, audible : 1..Loudest, brightness : 1..Brightest, keymap : {Us, Cz}]
  /\ device \in 0..MaxRaw
  /\ child \in [pc : {"None", "Runs", "Saving"}, volume : 0..Loudest]
  /\ boundVars \in Nat \X Nat \X Nat /\ {unread, astray} \subseteq BOOLEAN

\* While the menu waits for a command it shows what its files say, whoever
\* wrote them last, unless the volume could not be read after a program.
ShownKept ==
  pc = "Ready" =>
    /\ shown.keymap = file["keymap"] /\ shown.brightness = file["brightness"]
    /\ unread \/ shown.volume = file["volume"]

\* The light of the display is the one shown and saved, unless a change of it
\* has failed half-way since the last one that succeeded.
DeviceFollows == pc = "Ready" /\ ~astray => device = brightness_raw_value(shown.brightness)

\* What is audible is the volume that the key brings back after muting, also
\* when a program has changed it.
AudibleReturns == shown.volume > 0 /\ pc = "Ready" => shown.audible = shown.volume

\* Temporary files do not pile up: but for those being written there is at
\* most one for every program that was killed.
Litter == temps \ {Name(p) : p \in {p \in Pids : writing[p].pc \in {"Write", "Rename"}}}
TempsBounded == Cardinality(Litter) <= scope.deaths - deaths

\* The programs use the files as StateFile says.
UsesFiles == FileSpec

\* Each file is missing or has a text of this version or the last, and not
\* every name for a temporary file is taken.
CanStart ==
  \A f \in Files :
    /\ Parses(f, file[f]) \/ file[f] = Missing \/ (f = "volume" /\ file[f] \in {On, Off})
    /\ \A p \in Pids : \E a \in 0..(TEMPORARY_ATTEMPTS - 1) : <<f, p, a>> \notin temps

\* The menu comes up, and again after every death, unless a file cannot be
\* read or written any more.
ComesUp == pc = "Down" ~> pc = "Ready" \/ ~CanStart

\* What the menu shows, what its files say and what the display does agree, and
\* no writer leaves litter behind (settings.rs, state_file.rs).
SettingsAgree == TypeOK /\ ShownKept /\ DeviceFollows /\ AudibleReturns /\ TempsBounded
=============================================================================
