# RetroDeck: a TLA+ verification of the dashboard and its services

RetroDeck turns a BMC Deck (a small Linux device with a 1280x480 touchscreen)
into a retro console.  One process, `deck-menu`, shows the dashboard, runs
emulators, Deck programs and the terminal as child processes, supervises them
and takes its devices back afterwards.  A second process, `rom-uploader`,
accepts ROMs over HTTP.  This directory holds TLA+ models of that code, TLC
configurations that check them on small instances, and TLAPS proofs for every
instance.  Source paths below are relative to `native/src` unless they start
with a directory of the repository (`ops/`, `deploy/`, `docs/`).

`PROJECT.json` is the index: which lines each definition models (`map`), which
properties each run checks (`runs`), which change to a definition each property
detects (`mutants`), and what in this code is hard to test (`hazards`).

## 1. Inventory

### The parts, their state and their operations

| Part | Source | State | Operations | Interacts with |
|---|---|---|---|---|
| Dashboard reducer | `dashboard/app.rs` | screen, status line, pressed target, `pending`, reboot deadline, timestamps | `reduce` of 17 events into effects | runtime: effects out, completions in |
| Dashboard runtime | `dashboard/runtime.rs`, `polling.rs` | backend, `*_owned` flags, layout, sound flags, `rescan` | `initialize`, `iteration`, `step` of each effect, `shutdown`, `Drop` | all devices, children, signals |
| Launch policy | `dashboard/policy.rs` | `ControllerGuard`: recent edges, suspension | `prepare`, launch argument lists, guard | runtime, child supervision |
| Child supervision | `process.rs` | child, process group, `term_sent_at`, `TouchHold` | `run_child`, `spawn_and_supervise`, `finish_child_group`, `run_helper` | touchscreen, widget, signals, the program |
| Controls | `controls.rs`, `evdev_input.rs` | open devices by path, pressed sets, queue of reports | `open`, `scan`, `read`, `next_report`, `close` | runtime; polled together with the rest |
| Touchscreen | `input.rs` | one evdev device, slot state, queue | `open`, `read`, `close` | runtime, child supervision |
| Menu sounds, chiptune output | `audio.rs`, `oss.rs` | forked tone worker; PCM stream with a bounded channel and its worker | `play`, `poll`, `stop`; `open`, `write`, `close` of the stream | `/dev/dsp`, shared with children |
| Widget surface | `wayland.rs` | connection, lifecycle, three buffers, touch state | `open`, `dispatch`, `present`, `close` | compositor |
| Framebuffer, canvas | `fbdev.rs`, `canvas.rs`, `raster.rs`, `font.rs` | mapping, pixels | `open`, `present`, `close` | kernel console |
| Settings | `dashboard/settings.rs`, `state_file.rs`, `control_file.rs` | volume, brightness, keymap in files; the backlight device | load, apply, save by rename | runtime; volume read and saved by children |
| Wi-Fi editor and helper | `dashboard/wifi.rs`, `process.rs`, `ops/deck-wifi/deck-wifi-profile-add` | edited fields; the helper's lock directory | edit, submit to the helper with a deadline | Wi-Fi selection |
| Wi-Fi selection | `ops/deck-wifi/*` | profiles, lock, current network | watch, scan, switch, roll back | wpa_supplicant |
| Menu, credits, network status | `dashboard/{menu,credits,ui}.rs`, `network.rs` | geometry, scroll position | layout, hit test, draw | runtime |
| Catalog and command line | `catalog.rs`, `catalog_metadata.rs`, `dashboard/cli.rs` | none between calls | parse, merge | dashboard and uploader |
| ROM uploader: storage | `uploader/mod.rs` | `App.storage` lock, ROM files, `uploads/games.tsv` | `add_rom`, rollback, restart of the menu | dashboard, by its files and service |
| ROM uploader: sign-in | `uploader/mod.rs` | `Attempt` per host, sessions, login semaphore | login, lookup, logout, expiry | browsers |
| ROM uploader: appearance | `uploader/mod.rs`, `palette` files | palette file | save, reset | dashboard, by its file |
| Emulator host | `bin/retro-host/host.rs`, `game_audio.rs`, `game_video.rs`, `nes_sram.rs` | audio ring, target and clock of the picture, exit hold, battery RAM and RTC | frame loop, audio writer thread, saves | libretro cores (external), widget surface |
| Controllers of the hosts | `joypad.rs` | worker thread, seats of the players, published buttons, session generation | `start`, `shutdown`, scan, read, publish | both hosts, the console keyboard |
| DOOM host | `bin/doom-host/host.rs`, `doom_input.rs`, `native/doom` | mapper, pending transitions, frame clock | the engine's hooks, `shutdown` | the engine (external), controllers |
| Chiptune player | `chiptune.rs`, `chiptune_ui/mod.rs` | file, track, mode, pause, pending block, pacing | commands, `generate`, `advance`, volume | chiptune output, settings files |
| Other Deck programs | `ten_seconds.rs`, `tamagotchi.rs` | a game each | a frame loop each | devices the dashboard gave up |
| Deployment, launcher, services, WireGuard, terminal | `deploy/`, `ops/`, `native/vendor` | installed files, services | activation with restart on failure | all of the above |

### What is hard about them

* **Re-entrant reduction.**  `App::reduce` returns effects, `Runtime::step` runs
  each one and feeds its completion back before the next effect.  A batch of
  touches, controls and a clock tick is reduced in one iteration, so a completion
  can meet a `pending` that an earlier event of the same batch has set.
* **Devices that change hands.**  Around a child the dashboard gives up the
  framebuffer, the controls, the tone worker and sometimes the touchscreen or
  its Wayland connection, and takes them back, with any open able to fail and
  any device able to vanish meanwhile.
* **Stopping.**  A signal, the compositor and a two-second hold of the screen all
  ask for a stop; a program may ignore SIGTERM, fork, or lose its leader, and the
  dashboard itself may be killed between `fork` and `prctl`.
* **Durability.**  A ROM and the catalog that names it are two files in two
  directories, published one after the other by concurrent workers while the
  power may fail.
* **Devices that lie.**  An evdev device that overflows, or is pulled out and put
  back at the same node, is resynchronised with a snapshot that may overtake the
  events still in hand.
* **Two threads and a device.**  The sound of a game and of the chiptune player is
  made by one thread and written by another, which blocks in the device; either is
  told to stop, or loses the device, at any time.
* **A surface that comes and goes.**  The compositor shows, hides and ends a widget
  while frames are with it and a finger is on it.
* **Helpers with deadlines.**  A helper that saves a network is killed when it takes
  too long, or outlives the menu, and its shell traps may not run.
* **Queues.**  Sign-ins wait for one permit while the host they come from may be
  struck out; clients hang up at any await.

### What makes each part correct

* Dashboard: the reducer never meets a completion out of order; a program gets
  every device it needs; the loop only presents on what is open; nothing stays
  open at the end; a reboot needs a fresh confirmation; a signal always ends it.
* Child supervision: a reported stop means the group is gone; SIGTERM gets its
  grace; a hold is a hold; a stop ends; no program outlives the dashboard.
* Storage: the catalog names only ROMs that exist, what was answered as filed
  stays, nothing is overwritten, the menu's limit holds.
* Inputs and controllers: what is reported or sampled is what is held; nothing
  stays pressed after a loss or an overflow; a pad put back is found, and goes to
  the player who had it; a bouncing one is held off, and heard again.
* Widget surface: no buffer is drawn while the compositor has it, a frame that is
  owed is drawn when it may be, contacts are paired.
* Hosts and chiptune: sound is heard in order or given up and counted; saves are
  whole and never older; the picture comes back; told to end, they end.
* Settings: what was saved survives a loss of power, the screen, the files and the
  backlight agree, the menu comes up again.
* Wi-Fi: one helper at a time, a usable key at every moment, a failed selection is
  rolled back, a network that can be reached is found again.
* Sign-in: a blocked host is not heard, each guess counts, a block is served, a
  session that ended is over, the table is bounded, the permit comes back.

## 2. Modules and how they correspond to the code

| Module | Role |
|---|---|
| `Dashboard` | reducer and runtime as one state machine, with the devices and the world around them |
| `ChildContract` | abstract: what `run_child` promises the dashboard |
| `ChildSupervisor` | `run_child` in detail; implements `ChildContract` |
| `RomIntake` | `add_rom` on concurrent workers, with the disk under it |
| `UploaderAuth` | sign-in, blocks and sessions of the uploader |
| `Evdev` | operators: an evdev client buffer, its overflow and its snapshot |
| `Inputs` | `controls.rs` and `input.rs`: devices polled by one thread |
| `ControllerGuard` | the dashboard's iteration over `Inputs`, with the guard of `policy.rs` |
| `Joypad` | the hosts' controllers: worker thread, seats, sessions |
| `FrameClock` | the frame clock both hosts use |
| `DoomHost` | the DOOM host: composes `Joypad` and `FrameClock` |
| `WidgetSurface` | `wayland.rs` and the compositor at the other end |
| `AudioChannel` | abstract: a channel that gives up its oldest samples |
| `AudioRing` | `game_audio.rs`, two threads and a ring; implements `AudioChannel` |
| `GameHost` | a console: composes `AudioRing` and `FrameClock` with picture, saves and hold |
| `Chiptune` | the player, its stream and its worker |
| `StateFile` | files replaced by `write_bounded`, over errors, kills and power losses |
| `Settings` | the menu's settings over `StateFile` |
| `WifiProfiles` | the editor, `run_helper_until` and `deck-wifi-profile-add` |
| `WifiSelect` | `deck-wifi-watch` and `deck-wifi-select`, composed with `WifiProfiles` |
| `MC*` | the instances for TLC |
| `*Proofs` | theorems and proofs of the module they are named after; `DashboardProofs` has those of `Inputs` and `ControllerGuard` too, `SettingsProofs` has those of `StateFile` too, `WifiProofs` those of both Wi-Fi modules, `UploaderProofs` those of `RomIntake` and `UploaderAuth`, `ProgramProofs` those of `ChildSupervisor` and `Chiptune`, `HostProofs` those of `GameHost`, `Joypad` and `DoomHost` |
| `FoldTheorems` | what a fold over a sequence yields, for every operator: the loops of the code that run over a batch or a list |

**Dashboard.**  `pc` is the place in the recursion of `initialize`, `iteration`
and `step`; one action stands for one piece of that code up to the next point
where the outside world can matter.  `pending`, `game`, `origin`, `recovery` and
`change` spread out the payload of `App.pending`.  `Accepts` is the reducer's
check of an event against `pending`; a refused event goes to `pc = "Rejected"`,
which is the error the code ends with.  `owned` holds the `*_owned` flags that are
set, and the variables `surface`, `framebuffer`, `touchDev`, `controls` and `tone`
hold what is really open, so that the flags can be compared with the devices.
Every fallible call has its failing branch (`RuntimeError`, then `Drop`).  The
screens are sets of targets; text, pixels and positions are left out.  While a
child runs, the only knowledge is `ChildReturned` (some result) and `PollEvdev`
(the supervisor reads, loses and reopens the touchscreen on the dashboard's
behalf); `ChildSupervisor` has the details.

**ChildSupervisor.**  `Launch` / `Spawned` / `Wait` / `Step` / `Reap` / `Finish` are the
stages of `spawn_and_supervise` and `finish_child_group`.  `Procs` is the process
group: every member forks, exits and reacts to SIGTERM as it likes, becomes a
zombie, and is reaped by the dashboard (the leader) or by init.  `Arm` and `Exec`
are the child's side between `fork` and `exec` with `PR_SET_PDEATHSIG` and the
`getppid` check.  `finger` and `fingerAge` are the finger on the glass; `queued`,
`touchDown`, `hold` are what the code knows of it.  `route` selects one of the four
ways a child is watched.

**RomIntake.**  One worker per request; `place` is its position in `add_rom`.  For
each directory entry, `romDisk` and `catalogDisk` are the sets of contents that a
power loss may leave; a successful sync shrinks the set to the current content.
`Kill` ends the workers and keeps the files, `PowerLoss` also chooses from those
sets.  Whether an upload is acceptable (format, archive, title) is one
nondeterministic verdict.  Assumption: the storage directories are older than
every upload, since `ops/deploy/activate.sh` (lines 203, 278) creates them.

**UploaderAuth.**  One `progress` per login (waiting for the permit, verifying,
recording, creating a session); `Abandon` is the client that hangs up, which drops
the handler's future and leaves the blocking worker running.  Orders are requests
with a session cookie; `Present` copies the session, `Act` uses the copy, `Logout`
removes it.  Two readings of the clock within one unit may compare either way
(`MayReject`, `MayPass`).

**Evdev, Inputs, ControllerGuard.**  `Post` is the kernel's client buffer: a packet
that does not fit empties it and leaves `SYN_DROPPED`.  `ScanControls`, `OpenTouch`, `Dispatch`,
`Fetch`, `Apply` and `Collect` are the calls of one thread; `Handle` is the event loop of
the three device kinds.  A device is a physical path; `node` is where the world has
it and `at` where it was opened, so that a device put back at the same node looks
unchanged.  A snapshot (`EVIOCGKEY`) is of the present, so events of the batch in hand
that follow the resynchronisation are older than it: such a device is `torn` until
its next snapshot and exempt from the properties about it.  `ControllerGuard` runs
`Inputs` inside the dashboard's iteration: `recover_if_quiet` at its beginning,
`accept_edge` for what one poll has collected, and time between.

**Joypad, FrameClock, DoomHost.**  The worker's loop (`LoopStops`, `LoopScans`,
`LoopPolls`, `Fetch`, `Apply`) and the host's calls (`StartSession`, `Shutdown`,
`DropSession`, `JoinWorker`) interleave; `generation` is the session a late drop is compared with.  A pad's
X and Y fold onto A and B for the cores (`pad_state`) and stay distinct for DOOM
(`pad_distinct`).  `DoomHost` is the engine's thread: each tic it polls the mapper (`Keys`),
takes what fits into its buffer, asks whether to leave and may draw.  That question waits
while its widget is hidden (`Dormant`, left by `WakeDoom`): no tic runs and no input is
read then.  `view` is the picture, which `DoomCompositor` shows, hides or loses.  Its ways out (`Quit`, `Drop`, `Release`,
`Audio`) keep the order of `shutdown`, since `process::exit` runs no destructors.

**WidgetSurface.**  Client and compositor are connected by `events`, read in order
whenever the client looks; `holding` counts the commits of each buffer that the
compositor has not released.  `state` is `State` of `wayland.rs`; `Present` is
`present_frame` with its early returns, `Poll` is `dispatch_inputs`, or
`wait_for_widget_activity` for a game.  The surface is configured once, and sizes are
three classes.

**AudioChannel, AudioRing, GameHost.**  Samples are numbered as they are made.
`enqueue`, `discard_pending`, `BeginClose` and the writer's steps between two lock
operations are the actions of the ring.  `GameHost` is `run_host`: `pc` is its place in
the frame loop, in a save (`SaveOpen`, `SaveWrite`, `SaveRename`) or in its end.  The contents
of a save are a version; `disk` is what a reader finds, `older` what a power loss may
bring back instead.

**Chiptune.**  The player's loop generates one block, draws, then reads commands;
`channel` is the bounded channel, `worker` the thread that writes to the device.
Blocks are numbered round, time is counted in blocks.

**StateFile, Settings.**  `write_bounded` is cut into `Create`, `Write`, `Rename` and
`SyncDirectory`, each of which may fail; `old` holds the texts a power loss may bring
back and `kept` the texts a file may have after what was answered.  `Settings` adds the
menu with its start, its changes and reloads, the backlight device and a program
that saves a volume of its own; as a property, it only uses files as `FileSpec` says.

**WifiProfiles, WifiSelect.**  A helper's steps are the script's commands that change
files (`Storing`, `Removing`, `Listing`, `Listed`, `Cleanup`), with a trap that runs on
SIGTERM and does not exit, and none on SIGKILL.  The selector tries candidates in
passes, waits for each, restores the backup of the configuration or notes the
network that works.  Both replace the preferred list under locks of their own, so
one update may be lost: `crossed` remembers that.

## 3. Runs

| Run | Instance | Shows |
|---|---|---|
| `dashboard_framebuffer` | a game, a program with its own touch, the power entry; batches of two touches | `InOrder`, `ArmedOnMenu`, `ChildHasDevices`, `NothingLeaks`, `ControllerLaunchKept`, and under fairness `StopHonoured`: a signal at any point ends the process |
| `dashboard_widget` | a game and the power entry on a Wayland surface | `Presentable`, when children replace the connection and the fallback to the framebuffer happens |
| `child_supervisor` | a leader and one descendant, all four routes, hold and grace of two ticks | `KeepsContract` (refinement of `ChildContract`), `GraceGranted`, `HeldThroughout`, and under fairness `EndsInTime` (`StopEnds`, `OrphanDies`, `HoldEnds`) |
| `rom_intake` | three uploads, two of one title; room for two, one or no game | `CatalogSound` (`CatalogBacked`, `CatalogFits`), `FiledForGood`, `RomsRetained`, and under fairness `LockHandedOn` |
| `uploader_auth` | four sign-ins of two hosts, two requests with a session, two strikes, one session | `NoGuessWhileBlocked`, `LimitsKept` (`EveryGuessCounts`, `SessionsBounded`), `GoneForGood`, and under fairness `PermitReturns` |
| `inputs` | two controllers or two keyboards of which one fits, a touchscreen, one or two buttons that move; a guard of two edges in two ticks | `ReadingTrue` (`InStep`, `ReportsTrue`, `TouchFollowed`, `GrabHeld`), under fairness `PadFound`; and `GuardsBursts` (`BurstBounded`, `OnlyBursts`, `HeardAgain`) |
| `joypad` | two players, ports and nodes; buttons, keys or pads that come and go; two sessions; DOOM with a pad on the panel, with keys in a widget that is hidden and shown, with late frames on either | `InputSafe` (`SamplesTrue`, `OnePadEach`, `ReleaseFollows`, `NothingHeld`, `ConsoleRestored`), `SeatsServed` (`ReplacementServed`, `SeatKept`), and under fairness `DoomGoesOn` (`PadFound`, `LetGo`, `PictureMoves`, `LeavesWhenTold`) |
| `widget_surface` | three buffers; the dashboard or a game; frames and connections, or two fingers | `SurfaceSafe` (`BufferOwned`, `TouchPaired`, `TouchTold`, `DrawnWhenShown`), and under fairness `SurfaceServed` (`FreshFrame`, `StopsWhenTold`) |
| `game_host` | a ring of four samples; a framebuffer, a widget or no screen; pictures of three sizes; two saves of a core; devices that work, stall or fail | `QueuesSound` (refinement of `AudioChannel`), `ConsoleSafe` (`OnePicture`, `SilentWhenDormant`, `Accounted`, `RateKept`, `HoldMeant`), `SavesKept` (`SaveWhole`, `EndSaved`, `SaveKept`), and under fairness `GameGoesOn` (`PictureReturns`, `Drained`, `SavesWhenTold`, `EndsWhenTold`) |
| `chiptune` | a file of two tracks, a damaged one and an Ogg file; two commands at a time; a channel of two blocks | `PlayerSafe` (`BlocksInOrder`, `OneBlockLate`, `ScreenTrue`), and under fairness `PlayerGoesOn` (`KeepsPlaying`, `EndsWhenTold`) |
| `settings` | three settings, three processes, up to three kills and one error | `WrittenKept`, `SettingsAgree` (`ShownKept`, `DeviceFollows`, `AudibleReturns`, `TempsBounded`), `UsesFiles` (refinement of `StateFile`), and under fairness `ComesUp` |
| `wifi` | two networks, two helpers, one selector and its watcher, kills and errors | `StationSafe` (`OneHelper`, `ListSound`, `StoredWhole`, `RolledBack`, `ConfigWhole`), `SavesHonest` (`UsableKept`, `SavedTrue`), and under fairness `Reconnects` |

A property with names in brackets is their conjunction, and TLC checks each of
them.  The type invariants are part of the composed invariants; those of `Dashboard`,
`ChildSupervisor`, `RomIntake`, `UploaderAuth` and `StateFile` are left to their
theorems (section 4), which also establish `ToneOwned`, `BlockServed` and
`GrantedAlive`, and the dashboard's other invariants for the widget as well.

Every behaviour of a run with `Scopes` has one record that says which part of
the world is at stake in it (which devices come and go, what may fail).  The
module is the same; only what the world does is restricted, so that each part can
be given larger bounds.

### Bounds, and why they are enough

* `MaxBatch` bounds the touch reports of one iteration.  Two are enough for a
  report that follows a completion in the same poll.  The widget run uses one,
  because what it adds is the change of connection, not the batch.
* Clock ages are capped at their limit: beyond it the code only tests that the
  limit is passed.  Ticks of 1 or 2 keep "before", "at" and "after" distinct.
* Two processes have all the cases of a group: the leader first, the descendant
  first, both at once.  The proofs cover groups of any size.
* Three uploads, two of one title, give a collision of titles, a collision at
  the last free entry, and an upload that is neither.
* Four sign-ins with two strikes reach the block with two of them queued; a table of one
  session is full after the first.  `MaxTime = 2` lets a block, and a session,
  begin, run and end.
* `Capacity = 4` events of a device are two packets, `Batch = 3` reads one and the
  half of the next: the overflow, the batch cut in the middle of a packet and the
  snapshot between its halves all happen.  One controller and one keyboard fit, so
  that a second one waits.
* `LIMIT = 2`, `WINDOW = 2` and `POLL_TIMEOUT = 1` keep twelve edges, a second and a
  quarter in their order: below, at and above each limit occur.
* `MAX_EVENTS_PER_TIC = 1` fills DOOM's buffer with two keys; frames of a half, one,
  two and six and a half frames' time are early, on time, late and far behind.
* A ring of four samples with chunks of two and resampling of two to three is
  filled, wraps around and is cut by a chunk; `MaxTaken` lets it overflow once more.
* A surface reads up to two events at a time; two connections are enough for a
  second one to meet what the first left.
* `CHIPTUNE_QUEUE_BLOCKS = 2` lets a block be in the writer's hands, two wait, one be
  refused and one follow; numbers go round after five.
* Three attempts at a temporary name and three kills use up all names of a process.
* Two networks, two helper processes: one that outlives its menu and one of the
  next; a list of two is full with both.

`CHECK_DEADLOCK FALSE` is set in every configuration since every instance may
come to rest: the programs end, the child is reported, and the finite sets of
requests, presses, kills and errors are used up.

### Fairness

* `Dashboard`: weak fairness of the process's own steps (one thread, no blocking
  call but the poll, which has a timeout), and of `shutdown /\ ChildReturned`: a
  child that is told to stop does return.  The second one is what
  `ChildSupervisor!StopEnds` establishes.  Nothing is assumed of the world, in
  particular not that a child ends by itself.
* `ChildSupervisor`: weak fairness of the supervisor (it polls at intervals), of
  time, of the forked child up to `exec`, of the death of a process with a
  pending SIGKILL, and of init reaping orphans.  Not of a program's reaction to
  SIGTERM, nor of any finger.
* `RomIntake`: weak fairness of each worker's steps; the blocking file calls
  return.  A kill and a power loss release the lock with the process.
* `UploaderAuth`: weak fairness of the blocking worker, and of a queued login
  that either gets the permit or gives up: its wait has a timeout of two seconds.
* `Inputs`: weak fairness of reading and collecting, strong fairness of the poll
  when something is ready and of the scan: the loop comes back to both, whatever
  lies between.
* `Joypad`, `DoomHost`: the worker, the engine's thread and the clock go on.  Not that
  a player ever stops pressing: a pad is drained until it has nothing more to say,
  so `PadFound` and `LeavesWhenTold` are about behaviours where no button moves.  Not
  that the compositor ever shows a hidden widget again: `LetGo` asks for nothing while it
  is hidden, and for everything as soon as it stays in view.
* `WidgetSurface`: the client looks at its surface and draws what changed, and a
  game always has a next frame.  Nothing of the compositor: `FreshFrame` assumes a
  free buffer whenever the client draws.
* `GameHost`, `Chiptune`: both threads, the clock and a device that works.  A device
  that stalls takes nothing for ever, and what depends on it says so.
* `Settings`: the system starts the menu again and its calls return.  `WifiSelect`: the
  selector's commands return and the watcher looks again.

## 4. Theorems

Each is proved for every value of the constants under the module's named
assumption (`DashboardAssumption`, `InputsAssumption`, `GuardAssumption`, `SupervisorAssumption`, `IntakeAssumption`,
`AuthAssumption`, `FilesAssumption` and `SettingsAssumption`, `HostAssumption` with
those of the ring and the clock, `JoypadAssumption` and `DoomAssumption`, `SurfaceAssumption`, `ChiptuneAssumption`, `WifiAssumption` and
`SelectAssumption`), which TLC evaluates in the runs.  The inductive invariants below were checked by TLC on these
instances before they were proved.

**DashboardProofs.**  `TypeCorrect`, `NeverRejected`, `ConfirmationConfined`,
`ChildIsGivenDevices`, `AlwaysPresentable`, `NothingLeft`, `ControllerLaunches`.
The inductive invariant is `TypeOK /\ InOrder /\ Phase /\ Runs /\ Presentation /\
Devices /\ Window`.  `InOrder` alone is not inductive: whether an event is accepted
depends on `pending`, so `Phase` ties every place of the recursion to the values of
`pending` possible there; `Runs` says where the loop is still running; `Presentation`
and `Devices` relate flags to devices place by place; `Window` bounds the
confirmation.

**DashboardProofs, inputs.**  `ReadsTruly` and `GuardReadsTruly` (`ReadingTrue`), for any
devices, nodes, keys, buffers and batches.  `InStep` compares a device with a fold over the
events that are still to come, and is not inductive: it says nothing of a packet of
which the first events are read, or of a queue in which a loss lies.  `InputInv` therefore
follows the events of each device along a track (`Track`): what the reader has of
it, what would be reported with the next `SYN_REPORT`, whether a loss is being skipped.
`InStepAll` says that every event fits where the track has come (a button goes down
only when it is up) and that the track, when it meets no loss, ends at what is held.
The reader of a batch is shown to be where the track of the batch
leads (`Taken`, `ReadAfter`, by `FoldInduction`), so reading moves the place and not the
end.  `Queues` and `Reading`: a queue tells of a loss at its head only (`LossFirst`) and ends
with a report (`Ends`), and so does a batch behind which nothing is left.  `Packets`: only
the device in hand may be in the middle of a packet.  `NamedKept` counts the buttons of that packet (`Fresh`) as
not reported yet.  What one device does leaves the others alone (`WorldKeeps`,
`OutcomeKeeps`), since batch and turn belong to one of them.

**DashboardProofs, the guard.**  `BurstsGuarded` (`GuardsBursts`), for any limit, window and
timeout.  `edge_times` is cleaned only when an edge comes, and forgotten when the
controller is heard again, while the history `recent` loses an edge as soon as it is
too old.  `GuardInv` says that they are the same edges nevertheless once those that
are too old are left out of `edge_times` (`SameEdges`, over the fold `retain`); after a
recovery both are empty, because none is younger than the last edge (`LastIsLast`).
`Waits` ties the age of the last edge to how long the poll has waited.

**ProgramProofs, the supervisor.**  `TypeCorrect`, `NobodyKilledEarly` (`GraceGranted`),
`HoldIsReal` (`HeldThroughout`) and `ContractKept`: the supervisor implements
`ChildContract` with `users` mapped to the processes that run and have no SIGKILL
pending.  `Stages` relates the place in the code to the life of the processes and the
signals sent; `Glass` says that the hold the code measures is never longer than
the finger has been down while the touchscreen stayed open.

**ProgramProofs, the player.**  `PlayerHolds` (`PlayerSafe`), for any files, tracks,
queue, volumes and devices.  The invariant `PlayerInv` is `Typed` (what plays is a track
that its file has, whatever the commands and the end of a track make of it: `Keeps`,
lemma by lemma over the operators of `PlayerState`), `Owned` (the stream is open exactly
while the session sends), `Closing`, `Linked` and `Drawn`.  `BlocksInOrder` looks at one
sequence put together of four places; `Linked` says it place by place: the blocks of the
channel follow each other, the one in the writer's hands comes before them, and the
refused block, or else the next to decode, after them (`Lined`).  `LineGrows` and
`LineMoves` are the two steps of that line, and `InvOrder` reads it as the sequence
again.  When a command leaves the track of a refused block, its number is given back, so
that nothing was heard of it and nothing is missing.

**UploaderProofs, uploads.**  `TypeCorrect`, `GamesHaveRoms`, `FiledStays`, `NothingReplaced`,
`MenuNeverOverfull` (`CatalogFits`),
and of both `CatalogIsSound`.  The invariant is `TypeOK`, `Exclusive` (who is inside holds the
lock), `Ledger` (what a holder has read is still the catalog), `Durable` (what a power
loss may leave names only ROMs that it leaves as well) and `Promised` (what was
answered as filed is in every catalog a power loss may leave); `Room` is added for the
menu's limit.  `Durable` quantifies over all the disk states a power loss can
choose, which is why `CatalogBacked` survives one.

**UploaderProofs, sign-in.**  `SignInTyped`, `BlockedUnheard`, `BlockIsServed`
(`BlockServed`), `OnlyLivingSessions` (`GrantedAlive`), `SessionsEndForGood`,
`TableBounded` (`SessionsBounded`).  The invariant is `TypeOK`,
`Serial` (whoever is verifying or recording has the permit), `NoGuessWhileBlocked`,
`Announced` (a client is told of its session only when its login is over) and
`Granted` (an order that reads its body has the copy of a session).
`NoGuessWhileBlocked` needs `Serial`: the second look at the block stays true only
because nobody else can record a failure before the guess is judged.  `NothingSlipsPast` (`LimitsKept`) counts the judged guesses of a
host: `Unjudged` (a password has no verdict before it is judged) makes the set of wrong
ones grow by one exactly where `Record` adds a failure, and the counter is that number
modulo the strikes, which `Remainder` proves from the division of integers.

**HostProofs, consoles.**  `SoundQueued` (`QueuesSound`): the ring with its two threads
implements `AudioChannel` for every capacity, chunk and rate.  The map reads the ring as
the sequence of its waiting samples; `PourKeeps` and `TakeIs` show that what is poured in
over the end of the array, and what is taken over it, is what a sequence would give.
`ConsoleHolds` (`ConsoleSafe`) and `SavesSurvive` (`SavesKept`) follow from `HostInv`, which
has a part per concern: `RingInv` (every sample made, resampled and taken is in the ring,
in hand, heard or counted as given up), `Quiet` (no sound while the game is off screen),
`Picture` (what is painted lies in the layout of the last size), `HoldInv` (the exit hold
never runs longer than the contact that the world has had down, report by report, which
uses the fold over a batch), `SaveInv` (what is about to be renamed is whole and no older
than what it replaces) and `Life`.  A step of the host is first cut down to what it does
to one concern, so each part is proved against its own steps only.

**HostProofs, controllers and DOOM.**  `DoomInputSafe` (`InputSafe`) and `DoomSeatsServed`
(`SeatsServed`), for any nodes, pads, players, buttons, keys, tables, buffers and batches.
`JoypadInv` adds to what the run checks `PadsKept`: what the reader takes for held and what
is held differ by just the events of the batch in hand and of the device's buffer, in this
order, unless some were lost and the snapshot is still due (`InStepWith`).  `SamplesTrue`
is its case without events, and it alone would not be inductive, since every event that is
read rests on the ones before.  `Published` says what the atomics show between two rounds
of the worker, `WorkerPhases` where the thread may be.  `DoomInv` adds `Queued`: the events
for the engine, each in its turn, lead from what the engine has been told to what the
mapper has seen (`Leads`).  The mapper goes through `CONTROLLER_MAP`; that the events of a
prefix of the table are those of the buttons in it needs the prefix to be known while
the loop runs (`FoldInduction`), and a tic that takes only some of the events splits the
queue (`FoldConcat`).  `SeatsServed` is proved action by action for the scan: a seat that
returns is kept for its pad, and a replacement takes a free one.

**SettingsProofs.**  First the files: `FilesTyped`, `WrittenTextsKept` and `NothingTorn`, for
any files, texts, processes, attempts, errors, kills and losses of power.  `WrittenKept`
needs `Pending` (a process writes a text that its file may have), `Whole` (a file is
renamed only when all of it is on the disk), `Renamed` (the file still has the text
while its directory is synced) and `OneWriter`, from which `Renamed` follows.  Then the
settings in them: `FilesUsed` (`UsesFiles`) shows that every step of the menu and of its
programs is one of `StateFile` or none, because only they write and each only the file
it means to (`Writers`); so `SettingsKept` inherits `WrittenKept`.  `SettingsAgreeing`
(`SettingsAgree`) needs to know, at every place of the menu, which settings it has loaded
(`Loaded`), what a write in progress has put in its file (`Replaced`), what the backlight
follows (`Light`), and that there are no more temporary files than deaths (`Bounded`).

**WifiProofs.**  `StationHolds` (`StationSafe`) and `SavesAreHonest` (`SavesHonest`), for any
networks, keys, processes, passes and thresholds.  The invariant `WifiInv` is `SaveInv`
(only the holder of the lock changes profiles, so what a helper has stored, removed and
listed is still so at its next step; what it writes was entered) and `SelectInv` (the
selector's backup is the configuration that it found, and what it tries was entered).
`ConfigWhole` needs both: the selector applies a profile some helper has stored, and
what was entered only grows.  `ListSound` rests on `KeptIs`: the loop over the old list
yields each network once, by the fold of `FoldTheorems`.

**WidgetSurfaceProofs.**  `SurfaceHolds` (`SurfaceSafe`), for any number of buffers,
fingers, reports, connections and events on their way.  What `present_frame` does follows
from the client's state, and what it must not do is about the compositor's, which is
ahead by the events on their way.  The invariant therefore speaks of the client as it
will be once it has read them (`After`): it knows the lifecycle and the shutdown that the
compositor has come to, and its busy buffers are exactly those that the compositor has
not released (`Current`).  Sending an event is one more turn of that loop
(`FoldAppend`), reading them all changes nothing, and collecting touches meanwhile does
not matter to the rest (`AfterAlike`, by `FoldRelates`).  `Sound` is what each event
keeps by itself: the order of reports over queues that are cleared, and one frame for
each lifecycle.

**FoldTheorems.**  The community modules define `FoldLeft` as a choice of a function on
sets of positions.  `FoldEmpty`, `FoldAppend` and `FoldKeeps` say that it starts with the
base, applies the operator to one item after the other, and keeps every set that the
operator keeps, `FoldRelates` that two loops over the same items keep their states related.
`FoldInduction` is the rule for a fact that ties the result to the items read so far, and
`FoldConcat` splits a loop in two.  The library's induction theorems take an operator as a parameter and cannot be used; the proofs take the shortest sequence for which a fact fails, which
exists because `<` is well founded on the naturals.  The operator is a CONSTANT, which
`DashboardProofs`, `HostProofs`, `WidgetSurfaceProofs` and `WifiProofs` replace by theirs
(`INSTANCE ... WITH`).

**Only model-checked.**  All liveness properties (from `StopHonoured` to `Reconnects`),
since the proof system has no rules for fairness.  `ToneOwned` is proved together with `NothingLeaks`, as `NothingLeft`.

## 5. What the models say about the code

Where a property has a premise or an exception, it is because the code does the
following.

**Dashboard and children.**
* A launch asked for by touch is replaced when a later touch of the same poll opens
  a settings or Wi-Fi action (`app.rs:392`); one asked for by a controller is not.
* The quarantine of a cue is computed when the poll returns and drops gamepads only:
  touches and keyboards act during a cue (`runtime.rs:545`, `app.rs:646`).
* Controllers are reduced while the scene is not in view (`runtime.rs:579`).
* A touchscreen that the supervisor reopens is not owned by the runtime, and stays
  open until the process is gone (`process.rs:246`).
* A stop request already read goes with the connection that a child replaces
  (`process.rs:432`).
* A contact that the compositor takes back, because the scene left the view or the
  seat lost its touchscreen, is not reported as released (`wayland.rs:169`, and the
  later `up` is dropped at `wayland.rs:924`): a terminal or a game goes on measuring
  the hold, and is left two seconds later.  `HoldMeant` and `TouchTold` exempt this.

**Inputs.**  A pad that never falls silent keeps its reader from coming back to the
poll.  In a torn batch a release or a press may be lost until the next change.  Two
sources of one DOOM key (Space and B, the two Ctrl or Shift keys) are one key: the
release of one releases it although the other is held.  DOOM reads no input
while its widget is hidden: a key let go meanwhile stays pressed for the engine until
the widget is back, and what was pressed and let go meanwhile it never learns.

**Widget surface.**  When all three buffers are with the compositor the frame is
dropped with `Ok` and stays owed.  A transition that comes in after the frame of
`Prepared` asks for a refresh that `renderable` then refuses.  A game that waits to be
active never draws for `Prepared`.

**Emulator host.**  The mark that sheds a late picture is taken by the next real
picture, so a repeated frame leaves it to shed one that is in time; nothing bounds
how many are shed while the loop stays late (DOOM sheds every second at most).  A
save is renamed without a sync of its directory: a power loss brings back the one
before.  When saving the battery RAM fails, the RTC is not saved.  A temporary file
of an earlier process of the same number makes one save fail, and is removed then.
`discard_pending` does not touch the chunk the writer has taken; saves come before
the sound is closed, which may block in a stalled device.

**Chiptune.**  A track that ends changes file and track on the screen only with the
next drawing.  Closing a stream joins a worker that may block in the device.

**Settings.**  The backlight is written before its file, so a failed save leaves
them apart (`astray`) until the next change.  A file that cannot be read, or a
process number of which all temporary names exist, keeps the menu from starting.
An error of the directory's sync is ignored.

**Wi-Fi.**  The helper's lock lies below `/etc`: after a SIGKILL no network can be
saved any more, over reboots too.  The selector's lies in `/tmp`: after a SIGKILL every
selector exits with success until the next boot (`Reconnects` exempts this).  The
helper's trap does not exit, so on SIGTERM it goes on without its lock.  A helper
killed between its rename and its removals leaves both spellings.  A helper that
finishes at its deadline has saved although the editor says it has not.

**Uploader.**  `/palette/reset` removes the file without a sync of its directory
(`uploader/mod.rs:1284`).  A worker killed between link and catalog leaves a ROM that
makes every later upload of that title fail, as `deploy/uploader/README.md` says.

### What could follow

* The appearance form as a further operation of `RomIntake`.
* `ops/deploy/activate.sh` with its restart on failure, and WireGuard's restart after a
  selection.

## 6. What is not modelled, and why

* Rendering, hit testing, layout, fonts and images: geometry without shared state.
* Parsing (arguments, catalog, forms, headers, password file, ZIP): sequential and
  bounded; the models choose the verdict.  Axes and directions of controllers and
  coordinates of touches are data in the same sense.
* The backends and the mixer of DOOM in C (`native/doom`): the project's own glue
  between the hooks of `host.rs` and the engine, of which only the order of polling
  and asking in `I_StartTic` is used.
* Third-party code: libretro cores, the DOOM engine, `native/vendor`, fbterm, the
  compositor, wpa_supplicant.  Where the code talks to them,
  the models let them do anything the protocol allows.
* The diagnostic frame divisor and the core options of the emulator host, its ZX
  keys, DOOM's test mode and typed characters.
* 10 Seconds and Tamagotchi: sequential loops without files or threads of their
  own.
* Temporary names a loss of power brings back with a rename it undoes: `temps` stays
  as it is.  Such a name costs one attempt, as one left by a kill does.
* Losses of power while a network is saved or selected: the scripts sync nothing.
* Encryption kinds, status texts, and how long `wifi reload` takes.
* Start-up scripts, deployment and WireGuard: a sequence of checks and an exec.
* Reuse of process numbers after a group vanished (`process.rs:583`), the
  device use of a process between SIGKILL and its end, and the console mirror and
  terminal settings around a child, which are output only.
