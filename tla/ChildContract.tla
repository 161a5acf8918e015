---------------------------- MODULE ChildContract ----------------------------
(***************************************************************************)
(* What process::run_child promises the dashboard about the program it     *)
(* runs and everything that program starts: none of them may use the       *)
(* devices once a stopped child has been reported, and a dashboard that    *)
(* vanishes takes the program with it.                                     *)
(***************************************************************************)
CONSTANTS Procs, Leader

VARIABLES
  phase,   \* "Idle", "Running", "Stopping", "Over"; "Orphaned" without a dashboard
  users    \* the processes that may still run on their own account

vars == <<phase, users>>

Init == phase = "Idle" /\ users = {}

\* The program is started, or could not be.
Run == phase = "Idle" /\ phase' = "Running" /\ users' \in {{}, {Leader}}

\* It starts other programs, and they end.  Programs beget programs: nobody
\* appears once they are all gone.
Live == UNCHANGED phase /\ users' \in SUBSET Procs /\ (users = {} => users' = {})

\* It is told to stop.
Stop == phase = "Running" /\ phase' = "Stopping" /\ UNCHANGED users

\* It is reported: a stopped one only after the last of its processes.
Over ==
  /\ phase' = "Over"
  /\ \/ phase \in {"Idle", "Running"} /\ users' = users \ {Leader}
     \/ phase = "Stopping" /\ users' = {}

\* The dashboard dies.
Orphan == phase # "Over" /\ phase' = "Orphaned" /\ users' = users \ {Leader}

Next == Run \/ Live \/ Stop \/ Over \/ Orphan
Spec == Init /\ [][Next]_vars
=============================================================================
