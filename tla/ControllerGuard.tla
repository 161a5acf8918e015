--------------------------- MODULE ControllerGuard ---------------------------
(***************************************************************************)
(* The guard of the dashboard against a controller that bounces            *)
(* (ControllerGuard of native/src/dashboard/policy.rs), in the iteration   *)
(* of native/src/dashboard/runtime.rs over the devices of Inputs: the      *)
(* guard is looked at when an iteration begins, and is given what one poll *)
(* has collected of the controllers.  Time is counted in ticks, of which   *)
(* none passes while a device is read.                                     *)
(***************************************************************************)
EXTENDS Inputs

CONSTANTS
  LIMIT, WINDOW,      \* twelve edges within a second
  POLL_TIMEOUT        \* a quarter of a second

ASSUME GuardAssumption == LIMIT \in Nat /\ {WINDOW, POLL_TIMEOUT} \subseteq Nat \ {0}

VARIABLES
  turn, waited,       \* the iteration: "Begin" or "Poll", and ticks of its poll
  edge_times, suspended, last_edge_at,     \* ControllerGuard, by the ages of the edges
  recent              \* history: age of each edge of the last WINDOW, and whether it was obeyed

guardVars == <<turn, waited, edge_times, suspended, last_edge_at, recent>>
allVars == <<inputVars, guardVars>>

Forgotten == WINDOW + POLL_TIMEOUT     \* ages beyond it, and no edge yet, are alike
Older(age) == IF age < Forgotten THEN age + 1 ELSE Forgotten

-----------------------------------------------------------------------------

\* Vec::retain of the edges of the last second; Recent does it to the history.
KeepsAll(times) == times
retain(times) ==
  FoldLeft(LAMBDA kept, age : IF age < WINDOW THEN Append(kept, age) ELSE kept, <<>>, times)
Recent(edges) ==
  FoldLeft(LAMBDA kept, edge : IF edge.age < WINDOW THEN Append(kept, edge) ELSE kept, <<>>, edges)

CountedBefore(times) == Len(times) <= LIMIT + 1
Counted(times) == Len(times) <= LIMIT

\* accept_edge; during a cue (quarantined) an edge that is accepted is dropped.
accept_edge ==
  /\ last_edge_at' = 0
  /\ edge_times' = IF suspended THEN edge_times ELSE Append(retain(edge_times), 0)
  /\ suspended' = (suspended \/ ~Counted(edge_times'))
  /\ \E quarantined \in BOOLEAN :
       recent' = IF suspended /\ suspended' THEN recent
                 ELSE Append(recent, [age |-> 0, obeyed |-> ~suspended' /\ ~quarantined])

\* recover_if_quiet.
recoverHalf ==
  /\ edge_times' = IF suspended /\ last_edge_at >= WINDOW THEN <<>> ELSE edge_times
  /\ UNCHANGED <<suspended, last_edge_at>>
recover_if_quiet ==
  IF suspended /\ last_edge_at >= WINDOW
  THEN edge_times' = <<>> /\ suspended' = FALSE /\ last_edge_at' = Forgotten
  ELSE UNCHANGED <<edge_times, suspended, last_edge_at>>

-----------------------------------------------------------------------------
(* Runtime::iteration.                                                     *)

Begins ==
  /\ phase = "Idle" /\ turn = "Begin"
  /\ turn' = "Poll" /\ waited' = 0
  /\ recover_if_quiet
  /\ UNCHANGED <<inputVars, recent>>

\* The reports of all controllers are one event, and one edge.
Reduces ==
  /\ Collect
  /\ turn' = "Begin" /\ waited' = 0
  /\ IF \E i \in 1..Len(reports) : reports[i].kind = "Gamepad"
     THEN accept_edge ELSE UNCHANGED <<edge_times, suspended, last_edge_at, recent>>

\* Effects of an event, a program among them, take their time.
Passes ==
  /\ phase = "Idle"
  /\ IF turn = "Begin" THEN UNCHANGED waited ELSE waited < POLL_TIMEOUT /\ waited' = waited + 1
  /\ edge_times' = [i \in 1..Len(edge_times) |-> Older(edge_times[i])]
  /\ last_edge_at' = Older(last_edge_at)
  /\ recent' = Recent([i \in 1..Len(recent) |-> [recent[i] EXCEPT !.age = @ + 1]])
  /\ UNCHANGED <<inputVars, turn, suspended>>

Iterates ==
  \/ Begins \/ Reduces \/ Passes
  \/ /\ IF turn = "Begin" THEN ScanControls ELSE Dispatch \/ Fetch \/ Apply
     /\ UNCHANGED guardVars

GuardInit ==
  /\ InputsInit
  /\ turn = "Begin" /\ waited = 0
  /\ edge_times = <<>> /\ suspended = FALSE /\ last_edge_at = Forgotten /\ recent = <<>>

GuardNext ==
  \/ scope.guarded /\ Iterates
  \/ ~scope.guarded /\ Thread /\ UNCHANGED guardVars
  \/ InputsUsed /\ UNCHANGED guardVars
GuardSpec == GuardInit /\ [][GuardNext]_allVars

Others(A) == ~scope.guarded /\ A /\ UNCHANGED guardVars

\* Whoever reads the devices reads what is there, collects it, and scans every
\* few seconds or when asked to.
GuardFairSpec ==
  /\ GuardSpec
  /\ WF_allVars(Others(Fetch)) /\ WF_allVars(Others(Collect))
  /\ SF_allVars(Others(Dispatch /\ Readable # {})) /\ SF_allVars(Others(ScanControls))

-----------------------------------------------------------------------------
(* Properties.                                                             *)

\* A controller that bounces can do little: of the edges of any second no more
\* than twelve are obeyed, over suspensions, recoveries and cues between them.
BurstBounded == Cardinality({i \in 1..Len(recent) : recent[i].obeyed}) <= LIMIT

\* One that does not bounce is never shut out: it takes more than twelve edges
\* within a second to be suspended.
OnlyBursts == suspended' /\ ~suspended => Len(recent') > LIMIT

\* And one that has stopped is heard again: what comes later than a second
\* and one wait of the poll after its last edge, finds it no longer suspended,
\* although the guard is looked at only when an iteration begins.
HeardAgain == turn = "Poll" /\ suspended => last_edge_at < WINDOW + POLL_TIMEOUT

\* At every step the guard holds off bursts, only bursts, and no longer than they
\* last (accept_edge, recover_if_quiet, Runtime::iteration).
GuardsBursts == [][BurstBounded' /\ OnlyBursts /\ HeardAgain']_allVars
=============================================================================
