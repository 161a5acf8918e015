------------------------------- MODULE Joypad -------------------------------
(***************************************************************************)
(* Controllers for the emulator and DOOM hosts (native/src/joypad.rs): a   *)
(* worker thread scans /dev/input once a second, polls the open pads and   *)
(* the console keyboard, and publishes for each player the held buttons,   *)
(* which the core samples without a lock.                                  *)
(*                                                                         *)
(* A pad is known by its USB port (the physical path) and is opened by its *)
(* event node, which the kernel hands out again as soon as it is free.     *)
(* Player 1 also has the keyboard, whose keys may be aliases of one        *)
(* button.  The host's thread starts and ends sessions.                    *)
(***************************************************************************)
EXTENDS Evdev, FiniteSets

CONSTANTS
  Players,      \* 1 .. PLAYER_COUNT
  Ports,        \* physical paths, in their order
  Nodes,        \* event nodes
  Buttons,      \* raw_buttons, by the letters on the pad
  Keys,         \* keys of the console keyboard
  Capacity,     \* events an open device may queue
  Batch,        \* events one read returns at most
  JoypadScopes  \* bounds, one record per behaviour: [ports: where pads come
                \* and go, played: those where buttons move, keys: keys typed (none, no
                \* keyboard), sessions: sessions started, host: who samples]

ASSUME JoypadAssumption ==
  /\ Players = 1..2
  /\ Ports \subseteq Nat \ {0} /\ IsFiniteSet(Ports)
  /\ Nodes \subseteq Nat \ {0}
  /\ Capacity \in Nat /\ Capacity >= 2 /\ Batch \in 1..Capacity
  /\ JoypadScopes \subseteq [ports : SUBSET Ports, played : SUBSET Ports, buttons : SUBSET Buttons,
                     keys : SUBSET Keys, sessions : Nat, host : {"Core", "DoomPanel", "DoomWidget", "DoomFrames"}]

VARIABLES
  limits,        \* the bounds of this behaviour
  node, pushed,  \* the world: where each port's pad is, and its held buttons
  typing,        \* the held keys of the console keyboard
  console,       \* the mode of the console's keyboard
  fd, path, port,    \* Gamepad: fd, path and physical_path
  queue,         \* unread events of each open pad
  raw, dropping, \* Gamepad: raw_buttons and dropping_events
  torn,          \* a snapshot has overtaken events that were applied after it
  keyboard, keys,    \* Inner: keyboard and keyboard_keys
  pad_state, pad_distinct,       \* Shared: what the core, and what DOOM samples
  worker, due, ready, batch,     \* the thread, its timer and its locals
  stopping,      \* Shared.stopping
  generation, thread, sessions, host     \* WORKER, the Session values, the host

worldVars   == <<limits, node, pushed, typing>>
padVars     == <<fd, path, port, queue, raw, dropping, torn>>
keyVars     == <<console, keyboard, keys>>
threadVars  == <<worker, due, ready, batch>>
sessionVars == <<stopping, generation, thread, sessions, host>>
published   == <<pad_state, pad_distinct>>
joypadVars  == <<worldVars, padVars, keyVars, published, threadVars, sessionVars>>

-----------------------------------------------------------------------------
(* Publishing.                                                             *)

keycode_to_pad(key) ==
  CASE key \in {"up", "w"} -> {"Up"}
    [] key \in {"down", "s"} -> {"Down"}
    [] key \in {"left", "a"} -> {"Left"}
    [] key \in {"right", "d"} -> {"Right"}
    [] key \in {"space", "z", "j"} -> {"A"}
    [] key \in {"leftshift", "rightshift", "x", "k"} -> {"B"}
    [] key = "enter" -> {"Start"}
    [] key \in {"leftctrl", "rightctrl"} -> {"Select"}
    [] OTHER -> {}
keyboard_mask(pressed) == UNION {keycode_to_pad(k) : k \in pressed}

\* A core has no X and Y.
gamepad_key_to_pad(button) == CASE button = "X" -> "A" [] button = "Y" -> "B" [] OTHER -> button
gamepad_state(buttons) == {gamepad_key_to_pad(b) : b \in buttons}

PublishPadsOnly(buttons, pressed) ==
  /\ pad_state' = [p \in Players |-> gamepad_state(buttons[p])]
  /\ pad_distinct' = buttons
publish_states(buttons, pressed) ==
  /\ pad_state' = [p \in Players |-> gamepad_state(buttons[p])
                                    \cup (IF p = 1 THEN keyboard_mask(pressed) ELSE {})]
  /\ pad_distinct' = buttons

-----------------------------------------------------------------------------
(* scan_gamepads.                                                          *)

Rank(x, S) == Cardinality({y \in S : y <= x})

\* The next candidate in order for each player in order.
Deal(players, candidates) ==
  [p \in {q \in players : Rank(q, players) <= Cardinality(candidates)} |->
     CHOOSE c \in candidates : Rank(c, candidates) = Rank(p, players)]

Plugged == {c \in Ports : node[c] # 0}
Candidates ==
  {c \in Ports : node[c] # 0 /\ ~\E p \in Players : fd[p] # "None" /\ path[p] = node[c]}
VacantUnused == {p \in Players : fd[p] = "None" /\ port[p] = 0}
Vacant == {p \in Players : fd[p] = "None"}

\* The seats of one pass and those of the next.
Also(s, t) == [p \in DOMAIN s \cup DOMAIN t |-> IF p \in DOMAIN s THEN s[p] ELSE t[p]]

\* Pass 1: remembered ports reconnect to their player.
Returning ==
  [p \in {q \in Vacant : port[q] \in Candidates
                         /\ ~\E r \in Vacant : r < q /\ port[r] = port[q]} |-> port[p]]

\* Pass 2: players never used take the next candidate.  Pass 3: what is left
\* goes to any player without a pad.
SeatingInOrder == Deal(Vacant, Candidates)
Seating ==
  LET left(s) == Candidates \ {s[p] : p \in DOMAIN s}
      one   == Returning
      two   == Also(one, Deal({p \in Vacant \ DOMAIN one : port[p] = 0}, left(one)))
      three == Also(two, Deal(Vacant \ DOMAIN two, left(two)))
  IN  three

\* attach_candidate, with resynchronize.
Attach(seating) ==
  LET new == DOMAIN seating IN
  /\ fd'   = [p \in Players |-> IF p \in new THEN "Live" ELSE fd[p]]
  /\ port' = [p \in Players |-> IF p \in new THEN seating[p] ELSE port[p]]
  /\ path' = [p \in Players |-> IF p \in new THEN node[seating[p]] ELSE path[p]]
  /\ raw'  = [p \in Players |-> IF p \in new THEN pushed[seating[p]] ELSE raw[p]]
  /\ queue' = [p \in Players |-> IF p \in new THEN <<>> ELSE queue[p]]
  /\ dropping' = dropping \ new
  /\ torn' = torn \ new

scan_gamepads(pressed) == Attach(Seating) /\ publish_states(raw', pressed)

-----------------------------------------------------------------------------
(* The worker thread.                                                      *)

Readable == {p \in Players : fd[p] = "Dead" \/ (fd[p] = "Live" /\ queue[p] # <<>>)}
Typed == keyboard = "Raw" /\ keys # typing

\* poll for 100 ms; then drain_keyboard and, in turn, each pad that is ready.
poll ==
  IF Readable = {} /\ ~Typed
  THEN worker' = "Head" /\ UNCHANGED <<ready, keys, published>>
  ELSE /\ ready' = Readable
       /\ worker' = IF Readable = {} THEN "Head" ELSE "Drain"
       /\ keys' = IF keyboard = "Raw" THEN typing ELSE keys
       /\ IF Typed THEN publish_states(raw, typing) ELSE UNCHANGED published

\* The head of the loop: stop, or scan once a second; then poll.
LoopStops ==
  /\ worker = "Head" /\ stopping
  /\ worker' = "Ended"
  /\ UNCHANGED <<worldVars, padVars, keyVars, published, due, ready, batch, sessionVars>>
LoopScans ==
  /\ worker = "Head" /\ ~stopping /\ due
  /\ scan_gamepads(keys)
  /\ due' = FALSE /\ worker' = "Poll"
  /\ UNCHANGED <<worldVars, keyVars, ready, batch, sessionVars>>
LoopPolls ==
  /\ worker = "Poll" \/ (worker = "Head" /\ ~stopping /\ ~due)
  /\ poll
  /\ UNCHANGED <<worldVars, padVars, console, keyboard, due, batch, sessionVars>>

\* The next pad in turn; after the last one the states are published.
DoneWith(p) ==
  /\ ready' = ready \ {p}
  /\ IF ready = {p} THEN worker' = "Head" /\ publish_states(raw', keys)
                    ELSE UNCHANGED <<worker, published>>

\* close_gamepad: the port is remembered when the pad was lost.
CloseForgetting(p) ==
  /\ fd' = [fd EXCEPT ![p] = "None"] /\ path' = [path EXCEPT ![p] = 0]
  /\ queue' = [queue EXCEPT ![p] = <<>>]
  /\ UNCHANGED <<port, raw, dropping, torn>>
close_gamepad(p) ==
  /\ fd' = [fd EXCEPT ![p] = "None"] /\ path' = [path EXCEPT ![p] = 0]
  /\ queue' = [queue EXCEPT ![p] = <<>>]
  /\ raw' = [raw EXCEPT ![p] = {}] /\ dropping' = dropping \ {p} /\ torn' = torn \ {p}
  /\ UNCHANGED port

\* apply_gamepad_event, and resynchronize at the boundary after SYN_DROPPED.
ApplyEventBlindly(snapshot, st, e) ==
  IF IsKey(e) THEN [st EXCEPT !.raw = Level(@, e)] ELSE st
ApplyEvent(snapshot, st, e) ==
  IF st.dropping
  THEN IF e = Report
       THEN [raw |-> snapshot, dropping |-> FALSE, synced |-> TRUE, late |-> FALSE]
       ELSE st
  ELSE IF e = Dropped THEN [st EXCEPT !.dropping = TRUE]
  ELSE IF IsKey(e) THEN [st EXCEPT !.raw = Level(@, e), !.late = st.synced]
  ELSE st

\* drain_gamepad reads a batch of events, ...
Fetch(p) ==
  /\ worker = "Drain" /\ batch = <<>> /\ p = Min(ready)
  /\ \/ fd[p] = "Dead" /\ close_gamepad(p) /\ DoneWith(p) /\ UNCHANGED batch
     \/ fd[p] = "Live" /\ queue[p] = <<>> /\ UNCHANGED <<padVars, batch>> /\ DoneWith(p)
     \/ /\ fd[p] = "Live" /\ queue[p] # <<>>
        /\ batch' = FirstBatch(queue[p], Batch)
        /\ queue' = [queue EXCEPT ![p] = Rest(@, batch')]
        /\ UNCHANGED <<fd, path, port, raw, dropping, torn, ready, worker, published>>
  /\ UNCHANGED <<worldVars, keyVars, due, sessionVars>>

\* ... applies it, during which the pad goes on, and reads again.
Apply(p) ==
  /\ worker = "Drain" /\ batch # <<>> /\ p = Min(ready)
  /\ LET before == [raw |-> raw[p], dropping |-> p \in dropping, synced |-> FALSE, late |-> FALSE]
         snapshot == IF fd[p] = "Live" THEN pushed[port[p]] ELSE {}
     IN  \E after \in {ReadAll(LAMBDA st, e : ApplyEvent(snapshot, st, e), before, batch)} :
         IF fd[p] = "Dead" /\ after.synced
         THEN close_gamepad(p) /\ DoneWith(p)
         ELSE /\ raw' = [raw EXCEPT ![p] = after.raw]
              /\ dropping' = IF after.dropping THEN dropping \cup {p} ELSE dropping \ {p}
              /\ torn' = IF ~after.synced THEN torn
                         ELSE IF after.late /\ HasKeys(queue[p]) THEN torn \cup {p}
                         ELSE torn \ {p}
              /\ queue' = IF after.synced THEN [queue EXCEPT ![p] = AfterSnapshot(@)] ELSE queue
              /\ UNCHANGED <<fd, path, port, ready, worker, published>>
  /\ batch' = <<>>
  /\ UNCHANGED <<worldVars, keyVars, due, sessionVars>>

-----------------------------------------------------------------------------
(* Sessions.                                                               *)

NothingOpen ==
  /\ fd' = [p \in Players |-> "None"] /\ path' = [p \in Players |-> 0]
  /\ port' = [p \in Players |-> 0] /\ queue' = [p \in Players |-> <<>>]
  /\ raw' = [p \in Players |-> {}] /\ dropping' = {} /\ torn' = {}

\* close_devices, with close_keyboard restoring the console.
CloseSilently ==
  NothingOpen /\ keyboard' = "None" /\ console' = "Cooked" /\ keys' = {} /\ UNCHANGED published
close_devices ==
  /\ NothingOpen
  /\ keyboard' = "None" /\ console' = "Cooked" /\ keys' = {}
  /\ publish_states([p \in Players |-> {}], {})

\* initialize_keyboard: there may be none, and every failure restores the
\* console.
initialize_keyboard ==
  \/ limits.keys # {} /\ keyboard' = "Raw" /\ console' = "Raw"
  \/ keyboard' = "None" /\ UNCHANGED console

StartUncounted ==
  /\ host = "Running" /\ thread = "None" /\ Cardinality(sessions) < limits.sessions
  /\ initialize_keyboard
  /\ scan_gamepads(keys)
  /\ stopping' = FALSE
  /\ thread' = "Some" /\ worker' = "Head" /\ due' = TRUE
  /\ UNCHANGED generation
  /\ sessions' = sessions \cup {generation + 1}
  /\ UNCHANGED <<worldVars, keys, ready, batch, host>>

\* Session::start.
StartSession ==
  /\ host = "Running" /\ thread = "None" /\ generation < limits.sessions
  /\ initialize_keyboard
  /\ scan_gamepads(keys)
  /\ stopping' = FALSE
  /\ thread' = "Some" /\ worker' = "Head" /\ due' = TRUE
  /\ generation' = generation + 1
  /\ sessions' = sessions \cup {generation + 1}
  /\ UNCHANGED <<worldVars, keys, ready, batch, host>>

\* Session::start when the thread can not be spawned.
StartFails ==
  /\ host = "Running" /\ thread = "None"
  /\ close_devices
  /\ stopping' = TRUE
  /\ UNCHANGED <<worldVars, threadVars, generation, thread, sessions, host>>

\* shutdown_generation: the worker is told to stop and joined.
Stop ==
  /\ stopping' = TRUE
  /\ host' = "Joining"

\* Drop of a Session: of the current generation, or of one that was replaced
\* after an explicit shutdown.
DropAny(g) ==
  /\ host = "Running" /\ g \in sessions
  /\ sessions' = sessions \ {g}
  /\ Stop
  /\ UNCHANGED <<worldVars, padVars, keyVars, published, threadVars, generation, thread>>
DropSession(g) ==
  /\ host = "Running" /\ g \in sessions
  /\ sessions' = sessions \ {g}
  /\ IF g = generation THEN Stop ELSE UNCHANGED <<stopping, host>>
  /\ UNCHANGED <<worldVars, padVars, keyVars, published, threadVars, generation, thread>>

\* shutdown(), from an engine that ends without running destructors.
Shutdown ==
  /\ host = "Running"
  /\ Stop
  /\ UNCHANGED <<worldVars, padVars, keyVars, published, threadVars, generation, thread, sessions>>

\* The rest of shutdown_generation, once the worker has ended.
JoinWorker ==
  /\ host = "Joining" /\ worker = "Ended"
  /\ close_devices
  /\ thread' = "None" /\ host' = "Running"
  /\ UNCHANGED <<worldVars, threadVars, stopping, generation, sessions>>

-----------------------------------------------------------------------------
(* The world.                                                              *)

Second ==
  /\ worker # "Ended" /\ limits.ports # {} /\ ~due /\ due' = TRUE
  /\ UNCHANGED <<worldVars, padVars, keyVars, published, worker, ready, batch, sessionVars>>

\* A pad is plugged in; nodes are reused.
Plug(c) ==
  /\ node[c] = 0
  /\ \E n \in Nodes : (\A d \in Ports : node[d] # n) /\ node' = [node EXCEPT ![c] = n]
  /\ UNCHANGED <<limits, pushed, typing, padVars, keyVars, published, threadVars, sessionVars>>

Reader(c, p) == fd[p] = "Live" /\ path[p] = node[c]

Unplug(c) ==
  /\ node[c] # 0
  /\ node' = [node EXCEPT ![c] = 0] /\ pushed' = [pushed EXCEPT ![c] = {}]
  /\ fd' = [p \in Players |-> IF Reader(c, p) THEN "Dead" ELSE fd[p]]
  /\ queue' = [p \in Players |-> IF Reader(c, p) THEN <<>> ELSE queue[p]]
  /\ UNCHANGED <<limits, typing, path, port, raw, dropping, torn, keyVars, published, threadVars,
                 sessionVars>>

\* A button moves.
Move(c, b) ==
  /\ node[c] # 0
  /\ LET value == IF b \in pushed[c] THEN "Up" ELSE "Down"
         packet == <<Key(b, value), Report>>
     IN  /\ pushed' = [pushed EXCEPT ![c] = Level(@, Key(b, value))]
         /\ queue' = [p \in Players |-> IF Reader(c, p) THEN Post(queue[p], packet, Capacity)
                                        ELSE queue[p]]
  /\ UNCHANGED <<limits, node, typing, fd, path, port, raw, dropping, torn, keyVars, published,
                 threadVars, sessionVars>>

\* A key of the console keyboard moves.
Type(k) ==
  /\ typing' = IF k \in typing THEN typing \ {k} ELSE typing \cup {k}
  /\ UNCHANGED <<limits, node, pushed, padVars, keyVars, published, threadVars, sessionVars>>

-----------------------------------------------------------------------------

JoypadInit ==
  /\ limits \in JoypadScopes
  /\ node \in {f \in [Ports -> Nodes \cup {0}] :
                 /\ \A c, d \in Ports : c # d /\ f[c] # 0 => f[c] # f[d]
                 /\ \A c \in Ports \ (limits.ports \cup limits.played) : f[c] = 0}
  /\ pushed = [c \in Ports |-> {}] /\ typing = {} /\ console = "Cooked"
  /\ fd = [p \in Players |-> "None"] /\ path = [p \in Players |-> 0]
  /\ port = [p \in Players |-> 0] /\ queue = [p \in Players |-> <<>>]
  /\ raw = [p \in Players |-> {}] /\ dropping = {} /\ torn = {}
  /\ keyboard = "None" /\ keys = {}
  /\ pad_state = [p \in Players |-> {}] /\ pad_distinct = [p \in Players |-> {}]
  /\ worker = "Ended" /\ due = FALSE /\ ready = {} /\ batch = <<>>
  /\ stopping = FALSE /\ generation = 0 /\ thread = "None" /\ sessions = {}
  /\ host = "Running"

input_thread ==
  LoopStops \/ LoopScans \/ LoopPolls \/ \E p \in Players : Fetch(p) \/ Apply(p)
Owner == StartSession \/ StartFails \/ Shutdown \/ JoinWorker \/ \E g \in sessions : DropSession(g)
World ==
  \/ \E c \in limits.ports : Plug(c) \/ Unplug(c)
  \/ \E c \in limits.played, b \in limits.buttons : Move(c, b)
  \/ \E k \in limits.keys : Type(k)

JoypadNext == input_thread \/ Owner \/ World \/ Second
JoypadSpec == JoypadInit /\ [][JoypadNext]_joypadVars

\* The worker polls with a timeout and the clock goes on; join returns when
\* the worker has ended.
JoypadFairSpec == JoypadSpec /\ WF_joypadVars(input_thread) /\ WF_joypadVars(Second) /\ WF_joypadVars(JoinWorker)

-----------------------------------------------------------------------------
(* Properties.                                                             *)

\* The types of the joypad's state.
JoypadTypeOK ==
  /\ node \in [Ports -> Nodes \cup {0}] /\ pushed \in [Ports -> SUBSET Buttons]
  /\ fd \in [Players -> {"None", "Live", "Dead"}] /\ path \in [Players -> Nodes \cup {0}]
  /\ port \in [Players -> Ports \cup {0}] /\ raw \in [Players -> SUBSET Buttons]
  /\ pad_distinct \in [Players -> SUBSET Buttons] /\ DOMAIN pad_state = Players
  /\ {dropping, torn, ready} \subseteq SUBSET Players
  /\ typing \subseteq Keys /\ keys \subseteq Keys
  /\ {console, keyboard} \subseteq {"Cooked", "Raw", "None"}
  /\ worker \in {"Head", "Poll", "Drain", "Ended"} /\ host \in {"Running", "Joining"}
  /\ thread \in {"None", "Some"} /\ sessions \subseteq 1..generation

\* What the core samples is what is held: once the worker has read all there
\* was, each player's published buttons are those of the pad in hand and, for
\* the first, the keyboard's.  A pad that overflowed is right again after its
\* resynchronization (unless events older than the snapshot were applied
\* after it while newer ones were discarded with it: torn).
SamplesTrue ==
  worker \in {"Head", "Poll"} =>
    \A p \in Players :
      (fd[p] # "Dead" /\ queue[p] = <<>> /\ p \notin dropping \cup torn) =>
        LET pad == IF fd[p] = "Live" THEN pushed[port[p]] ELSE {} IN
        /\ pad_distinct[p] = pad
        /\ pad_state[p] = gamepad_state(pad) \cup (IF p = 1 THEN keyboard_mask(keys) ELSE {})

\* Nothing is left behind: without a worker thread no device is open, the
\* console's keyboard is as it was found and no button is held for the next
\* core (the end of every session, normal or by shutdown()).
NothingHeld ==
  thread = "None" =>
    /\ \A p \in Players : fd[p] = "None" /\ pad_state[p] = {} /\ pad_distinct[p] = {}
    /\ keyboard = "None" /\ console = "Cooked"

\* Dropping a session that was replaced does not stop its replacement's input
\* (the test stale_session_does_not_stop_its_replacement).
ReplacementServed ==
  (thread = "Some" /\ stopping' /\ ~stopping) =>
    (host = "Running" /\ (sessions' = sessions \/ generation \notin sessions'))

\* A pad that comes back to the port a waiting player remembers goes to no
\* player who remembers another, however many pads appear at once.
SeatKept ==
  \A p, q \in Players :
    (fd[p] = "None" /\ fd[q] = "None" /\ fd'[q] = "Live" /\ port'[q] = port[p])
      => port[q] = port[p]

\* Two players never read the same pad.
OnePadEach ==
  \A p, q \in Players : (p # q /\ fd[p] = "Live" /\ fd[q] = "Live") => path[p] # path[q]

\* A pad that stays plugged in while somebody has none is taken into use.  (While
\* no button moves: a pad is drained until it has nothing more to say.)
PadFound ==
  \A c \in Ports :
    (limits.played = {} /\ thread = "Some" /\ ~stopping /\ node[c] # 0)
      ~> \/ stopping \/ node[c] = 0
         \/ \E p \in Players : Reader(c, p)
         \/ \A p \in Players : fd[p] # "None"
=============================================================================
