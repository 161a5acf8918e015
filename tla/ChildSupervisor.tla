--------------------------- MODULE ChildSupervisor ---------------------------
(***************************************************************************)
(* process::run_child (native/src/process.rs): the dashboard starts a      *)
(* program in a process group of its own, watches it, stops it when the    *)
(* touchscreen is held or the dashboard itself must stop, and returns.     *)
(*                                                                         *)
(* The program is the group's leader.  It and its descendants may fork and *)
(* exit as they please; SIGTERM is no more than a request to them, SIGKILL *)
(* dooms them.  The finger on the touchscreen is part of the model, so     *)
(* that the hold the code measures can be compared with the real one.      *)
(* Time is counted in ticks.                                               *)
(***************************************************************************)
EXTENDS Integers

CONSTANTS
  Procs, Leader,    \* the processes the program may consist of; its first one
  Routes,           \* how this launch is watched, among AllRoutes
  HoldTicks,        \* TOUCH_HOLD, 2 s in the code
  GraceTicks,       \* TERM_GRACE, 4 s
  ReconnectTicks    \* TOUCH_RECONNECT, 1 s

(* Evdev: the framebuffer's touchscreen is watched for the child; Own: the *)
(* child reads it; Surface: the widget's touches are watched; Yielded: the *)
(* child has the widget.                                                   *)
AllRoutes == {"Evdev", "Own", "Surface", "Yielded"}

ASSUME SupervisorAssumption ==
  /\ Leader \in Procs
  /\ Routes \subseteq AllRoutes
  /\ {HoldTicks, GraceTicks, ReconnectTicks} \subseteq Nat \ {0}

VARIABLES
  pc,            \* where run_child and spawn_and_supervise stand
  proc,          \* the life of each process
  doomed,        \* the processes with a pending SIGKILL
  term, kill,    \* term_sent_at and kill_sent: "No" or "Sent"
  sinceTerm,     \* the age of term_sent_at, up to the grace
  stop, error,   \* ChildResult: the stop it reports, and the error
  route,         \* ChildInteraction's flags
  source,        \* what is read for touches: evdev device, or connection
  queued,        \* what the unread touch reports amount to
  touchDown,     \* wayland's State.touch_down
  hold,          \* TouchHold: 0 no hold, n + 1 for one that is n ticks old
  sinceAttempt,  \* the age of last_touch_attempt
  finger, fingerAge,     \* the finger on the glass, and for how long
  touchscreen,   \* there is a device to be opened
  signal, surfaceStop    \* a signal, or the compositor, asked for a stop

sourceVars == <<source, queued, touchDown>>
holdVars   == <<hold, sinceAttempt>>
fingerVars == <<finger, fingerAge>>
stopVars   == <<term, kill, sinceTerm, stop>>
askVars    == <<touchscreen, signal, surfaceStop>>

vars == <<pc, proc, doomed, stopVars, error, route, sourceVars, holdVars, fingerVars, askVars>>

-----------------------------------------------------------------------------
(* The group.                                                              *)

Unstarted == {"Unborn", "Forked", "Armed"}   \* before exec
Users  == {p \in Procs : proc[p] = "Running" /\ p \notin doomed}

\* child_group_exists: kill(-pid, 0) finds zombies too.
GroupExists == \E p \in Procs : proc[p] \in {"Running", "Zombie"}

\* signal_child_group with SIGKILL.
KillGroupLeaderOnly == doomed' = doomed \cup {Leader}
KillGroup == doomed' = doomed \cup {p \in Procs : proc[p] = "Running"}

Reaped(p) == proc' = [proc EXCEPT ![p] = "Gone"]

-----------------------------------------------------------------------------
(* Touches.                                                                *)

\* One more report at the end of the queue.  Of a queue only this matters to
\* a hold: whether a report ended it, and whether the last one began it.
Push(d) ==
  IF d = "Up" THEN "Up" ELSE IF queued \in {"None", "Down"} THEN "Down" ELSE "UpDown"

\* TouchHold::update for what was read.
UpdateRestarting(q) ==
  IF q = "None" THEN hold ELSE IF q = "Up" THEN 0 ELSE 1
UpdateSticky(q) ==
  IF q \in {"None", "Up"} THEN hold ELSE IF hold = 0 THEN 1 ELSE hold
Update(q) ==
  IF q = "None" THEN hold ELSE IF q = "Up" THEN 0
  ELSE IF q = "UpDown" \/ hold = 0 THEN 1 ELSE hold

\* ChildInteraction::poll_evdev: a missing device is retried, a broken one is
\* closed and ends the hold; without a report the current state counts.
ReconnectDue == source = "Closed" /\ sinceAttempt >= ReconnectTicks
Reopened == ReconnectDue /\ touchscreen = "Present"
PollEvdev ==
  /\ source' = (IF Reopened THEN "Open" ELSE IF source = "Dead" THEN "Closed" ELSE source)
  /\ sinceAttempt' = (IF ReconnectDue THEN 0 ELSE sinceAttempt)
  /\ hold' = (IF source = "Dead" THEN 0
              ELSE IF source' = "Closed" THEN hold
              ELSE Update(IF queued = "None" THEN finger ELSE queued))

\* The widget's part of ChildInteraction::step: a broken connection ends the
\* hold, and its queue is read all the same.
PollSurface ==
  /\ hold' = (IF source = "Dead" THEN 0 ELSE Update(queued))
  /\ UNCHANGED <<source, sinceAttempt>>

\* ChildInteraction::step up to its request.
Interact ==
  /\ \/ route = "Evdev" /\ PollEvdev
     \/ route = "Surface" /\ PollSurface
     \/ route \in {"Own", "Yielded"} /\ UNCHANGED <<source, holdVars>>
  /\ queued' = "None" /\ UNCHANGED touchDown

ShutdownAsked == signal = "Arrived" \/ (route = "Surface" /\ surfaceStop = "Arrived")
Request ==
  IF ShutdownAsked THEN "Shutdown"
  ELSE IF route \in {"Evdev", "Surface"} /\ hold' > HoldTicks THEN "Touch" ELSE "None"

-----------------------------------------------------------------------------
(* Starting the program.                                                   *)

\* run_child up to the fork.  A child of the widget without a connection is
\* refused.
Launch ==
  /\ pc = "Launch"
  /\ \/ /\ pc' = "Spawning" /\ proc' = [proc EXCEPT ![Leader] = "Forked"]
        /\ UNCHANGED error
     \/ /\ route = "Yielded"
        /\ pc' = "Returned" /\ error' = "Refused" /\ UNCHANGED proc
  /\ UNCHANGED <<doomed, stopVars, route, sourceVars, holdVars, fingerVars, askVars>>

\* reset_child_process in the new process: first ask for the parent's death
\* to be fatal, then see whether the parent died before that.
Arm ==
  /\ proc[Leader] = "Forked"
  /\ proc' = [proc EXCEPT ![Leader] = "Armed"]
  /\ UNCHANGED <<pc, doomed, stopVars, error, route, sourceVars, holdVars, fingerVars, askVars>>

ExecUnchecked ==
  /\ proc[Leader] = "Armed" /\ Leader \notin doomed
  /\ proc' = [proc EXCEPT ![Leader] = "Running"]
  /\ UNCHANGED <<pc, doomed, stopVars, error, route, sourceVars, holdVars, fingerVars, askVars>>
Exec ==
  /\ proc[Leader] = "Armed" /\ Leader \notin doomed
  /\ proc' = [proc EXCEPT ![Leader] = IF pc = "Crashed" THEN "Gone" ELSE "Running"]
  /\ UNCHANGED <<pc, doomed, stopVars, error, route, sourceVars, holdVars, fingerVars, askVars>>

\* Command::spawn returns once the program runs, or could not be started.
Spawned ==
  /\ pc = "Spawning"
  /\ \/ /\ proc[Leader] \notin Unstarted
        /\ pc' = "Wait" /\ UNCHANGED <<proc, error>>
     \/ /\ proc[Leader] \in {"Forked", "Armed"} /\ Reaped(Leader)
        /\ pc' = "Returned" /\ error' = "Start"
  /\ UNCHANGED <<doomed, stopVars, route, sourceVars, holdVars, fingerVars, askVars>>

-----------------------------------------------------------------------------
(* Supervising it.                                                         *)

\* child.try_wait().
Wait ==
  /\ pc = "Wait"
  /\ \/ /\ proc[Leader] = "Zombie" /\ Reaped(Leader)
        /\ pc' = (IF term = "Sent" THEN "Finish" ELSE "Returned")
        /\ UNCHANGED <<doomed, error>>
     \/ /\ proc[Leader] # "Zombie"
        /\ pc' = "Step" /\ UNCHANGED <<proc, doomed, error>>
     \/ /\ KillGroup                                   \* waitpid failed
        /\ error' = "Wait" /\ pc' = "Reap" /\ UNCHANGED proc
  /\ UNCHANGED <<stopVars, route, sourceVars, holdVars, fingerVars, askVars>>

\* child.wait() after a failed try_wait: it waits, or fails as well.
Reap ==
  /\ pc = "Reap" /\ pc' = "Returned"
  /\ \/ proc[Leader] = "Zombie" /\ Reaped(Leader)
     \/ UNCHANGED proc
  /\ UNCHANGED <<doomed, stopVars, error, route, sourceVars, holdVars, fingerVars, askVars>>

\* One round of the loop: the first request sends SIGTERM, and SIGKILL
\* follows once when the grace is over.
StepImpatient ==
  /\ pc = "Step" /\ pc' = "Wait"
  /\ Interact
  /\ IF term = "No" /\ Request # "None"
     THEN term' = "Sent" /\ stop' = Request /\ sinceTerm' = 0
     ELSE UNCHANGED <<term, stop, sinceTerm>>
  /\ IF kill = "No" /\ term' = "Sent"
     THEN KillGroup /\ kill' = "Sent"
     ELSE UNCHANGED <<doomed, kill>>
  /\ UNCHANGED <<proc, error, route, fingerVars, askVars>>
StepPatient ==
  /\ pc = "Step" /\ pc' = "Wait"
  /\ Interact
  /\ IF term = "No" /\ Request # "None"
     THEN term' = "Sent" /\ stop' = Request /\ sinceTerm' = 0
     ELSE UNCHANGED <<term, stop, sinceTerm>>
  /\ UNCHANGED <<proc, doomed, kill, error, route, fingerVars, askVars>>
Step ==
  /\ pc = "Step" /\ pc' = "Wait"
  /\ Interact
  /\ IF term = "No" /\ Request # "None"
     THEN term' = "Sent" /\ stop' = Request /\ sinceTerm' = 0
     ELSE UNCHANGED <<term, stop, sinceTerm>>
  /\ IF kill = "No" /\ term' = "Sent" /\ sinceTerm' >= GraceTicks
     THEN KillGroup /\ kill' = "Sent"
     ELSE UNCHANGED <<doomed, kill>>
  /\ UNCHANGED <<proc, error, route, fingerVars, askVars>>

\* finish_stopped_group: the leader of a stopped group is gone; wait for the
\* others until the grace is over, then kill them.  A shutdown that is asked
\* for meanwhile takes precedence over the touch.
FinishHasty ==
  /\ pc = "Finish" /\ pc' = "Returned"
  /\ UNCHANGED <<proc, doomed, stopVars, error, route, sourceVars, holdVars, fingerVars, askVars>>
Finish ==
  /\ pc = "Finish"
  /\ \/ /\ GroupExists /\ sinceTerm < GraceTicks
        /\ Interact
        /\ stop' = (IF Request = "Shutdown" THEN "Shutdown" ELSE stop)
        /\ UNCHANGED <<pc, doomed>>
     \/ /\ GroupExists /\ sinceTerm >= GraceTicks
        /\ KillGroup /\ pc' = "Returned" /\ UNCHANGED <<stop, sourceVars, holdVars>>
     \/ /\ ~GroupExists
        /\ pc' = "Returned" /\ UNCHANGED <<doomed, stop, sourceVars, holdVars>>
  /\ UNCHANGED <<proc, term, kill, sinceTerm, error, route, fingerVars, askVars>>

\* The dashboard itself is killed.  PR_SET_PDEATHSIG dooms the leader, if it
\* has got that far, and nobody else.
Crash ==
  /\ pc \notin {"Launch", "Returned", "Crashed"} /\ pc' = "Crashed"
  /\ doomed' = (IF proc[Leader] \in {"Armed", "Running"} THEN doomed \cup {Leader} ELSE doomed)
  /\ UNCHANGED <<proc, stopVars, error, route, sourceVars, holdVars, fingerVars, askVars>>

-----------------------------------------------------------------------------
(* The program and its descendants.                                        *)

Fork ==
  /\ \E p \in Users, q \in Procs \ {Leader} :
       proc[q] = "Unborn" /\ proc' = [proc EXCEPT ![q] = "Running"]
  /\ UNCHANGED <<pc, doomed, stopVars, error, route, sourceVars, holdVars, fingerVars, askVars>>

\* A process ends, because it wants to, because of SIGTERM, or because it
\* must.
Die(p) ==
  /\ proc[p] = "Running" \/ (p \in doomed /\ proc[p] = "Armed")
  /\ proc' = [proc EXCEPT ![p] = "Zombie"]
  /\ UNCHANGED <<pc, doomed, stopVars, error, route, sourceVars, holdVars, fingerVars, askVars>>

\* Its parent, or init, reaps a descendant; init reaps an orphaned leader.
InitReaps(p) ==
  /\ proc[p] = "Zombie" /\ (p = Leader => pc = "Crashed")
  /\ Reaped(p)
  /\ UNCHANGED <<pc, doomed, stopVars, error, route, sourceVars, holdVars, fingerVars, askVars>>

-----------------------------------------------------------------------------
(* The touchscreen, the compositor, signals and time.                      *)

Press ==
  /\ finger = "Up" /\ touchscreen = "Present"
  /\ finger' = "Down" /\ fingerAge' = 0
  /\ IF source = "Open" THEN queued' = Push("Down") /\ touchDown' = "Down"
                        ELSE UNCHANGED <<queued, touchDown>>
  /\ UNCHANGED <<pc, proc, doomed, stopVars, error, route, source, holdVars, askVars>>

\* wl_touch.up is dropped unless touch_down is set.
Lift ==
  /\ finger = "Down"
  /\ finger' = "Up" /\ fingerAge' = 0
  /\ IF source = "Open" /\ (route = "Surface" => touchDown = "Down")
     THEN queued' = Push("Up") ELSE UNCHANGED queued
  /\ touchDown' = "Up"
  /\ UNCHANGED <<pc, proc, doomed, stopVars, error, route, source, holdVars, askVars>>

\* The scene leaves the view: widget_event forgets the touch and its reports.
\* The seat loses its touchscreen for a moment: touch_down is cleared.
Conceal ==
  /\ route = "Surface" /\ touchDown = "Down"
  /\ touchDown' = "Up"
  /\ queued' \in {queued, "None"}
  /\ UNCHANGED <<pc, proc, doomed, stopVars, error, route, source, holdVars, fingerVars, askVars>>

\* The touchscreen is lost, with the finger on it, and comes back; or the
\* connection to the compositor breaks.
Hotplug ==
  /\ \/ /\ route = "Evdev" /\ touchscreen = "Present" /\ touchscreen' = "Absent"
        /\ finger' = "Up" /\ fingerAge' = 0
        /\ source' = (IF source = "Open" THEN "Dead" ELSE source)
        /\ queued' = "None" /\ touchDown' = "Up"
     \/ /\ touchscreen = "Absent" /\ touchscreen' = "Present"
        /\ UNCHANGED <<fingerVars, sourceVars>>
     \/ /\ route = "Surface" /\ source = "Open" /\ source' = "Dead"
        /\ UNCHANGED <<fingerVars, touchscreen, queued, touchDown>>
  /\ UNCHANGED <<pc, proc, doomed, stopVars, error, route, holdVars, signal, surfaceStop>>

Ask ==
  /\ \/ signal' = "Arrived" /\ UNCHANGED surfaceStop
     \/ source = "Open" /\ route = "Surface" /\ surfaceStop' = "Arrived" /\ UNCHANGED signal
  /\ UNCHANGED <<pc, proc, doomed, stopVars, error, route, sourceVars, holdVars, fingerVars,
                 touchscreen>>

Later(n, bound) == IF n < bound THEN n + 1 ELSE bound
Tick ==
  /\ hold' = (IF hold = 0 THEN 0 ELSE Later(hold, HoldTicks + 1))
  /\ fingerAge' = (IF finger = "Up" THEN 0 ELSE Later(fingerAge, HoldTicks))
  /\ sinceAttempt' = Later(sinceAttempt, ReconnectTicks)
  /\ sinceTerm' = (IF term = "No" THEN 0 ELSE Later(sinceTerm, GraceTicks))
  /\ UNCHANGED <<pc, proc, doomed, term, kill, stop, error, route, sourceVars, finger, askVars>>

-----------------------------------------------------------------------------

Init ==
  /\ pc = "Launch"
  /\ proc = [p \in Procs |-> "Unborn"] /\ doomed = {}
  /\ term = "No" /\ kill = "No" /\ sinceTerm = 0 /\ stop = "None" /\ error = "None"
  /\ route \in Routes
  /\ source \in (IF route = "Surface" THEN {"Open"}
                 ELSE IF route = "Evdev" THEN {"Open", "Closed"} ELSE {"Closed"})
  /\ queued = "None" /\ touchDown = "Up"
  /\ hold = 0 /\ sinceAttempt = ReconnectTicks
  /\ finger = "Up" /\ fingerAge = 0
  /\ touchscreen = "Present" /\ signal = "No" /\ surfaceStop = "No"

Supervise == Launch \/ Spawned \/ Wait \/ Reap \/ Step \/ Finish
Program == Arm \/ Exec \/ Fork \/ (\E p \in Procs : Die(p) \/ InitReaps(p))
World == Crash \/ Press \/ Lift \/ Conceal \/ Hotplug \/ Ask \/ Tick

Next == Supervise \/ Program \/ World

Spec == Init /\ [][Next]_vars

\* The dashboard is scheduled and its clock runs; a new process gets to its
\* exec, and what SIGKILL dooms dies.
FairSpec ==
  /\ Spec
  /\ WF_vars(Supervise) /\ WF_vars(Tick) /\ WF_vars(Arm) /\ WF_vars(Exec)
  /\ \A p \in Procs : WF_vars(p \in doomed /\ Die(p)) /\ WF_vars(InitReaps(p))

-----------------------------------------------------------------------------
(* Properties.                                                             *)

\* The types of the supervisor's state.
TypeOK ==
  /\ pc \in {"Launch", "Spawning", "Wait", "Step", "Reap", "Finish", "Returned", "Crashed"}
  /\ proc \in [Procs -> Unstarted \cup {"Running", "Zombie", "Gone"}]
  /\ doomed \subseteq Procs
  /\ term \in {"No", "Sent"} /\ kill \in {"No", "Sent"} /\ sinceTerm \in 0..GraceTicks
  /\ stop \in {"None", "Touch", "Shutdown"} /\ error \in {"None", "Refused", "Start", "Wait"}
  /\ route \in AllRoutes /\ source \in {"Open", "Closed", "Dead"}
  /\ queued \in {"None", "Down", "Up", "UpDown"} /\ touchDown \in {"Up", "Down"}
  /\ hold \in 0..(HoldTicks + 1) /\ sinceAttempt \in 0..ReconnectTicks
  /\ finger \in {"Up", "Down"} /\ fingerAge \in 0..HoldTicks
  /\ touchscreen \in {"Present", "Absent"}
  /\ signal \in {"No", "Arrived"} /\ surfaceStop \in {"No", "Arrived"}

\* run_child keeps its contract: nobody of a stopped group goes on after it
\* returned (finish_stopped_group), the program itself never outlives the
\* report of its end, and it never outlives the dashboard.
phase ==
  IF pc = "Returned" THEN "Over" ELSE IF pc = "Crashed" THEN "Orphaned"
  ELSE IF proc[Leader] \in Unstarted THEN "Idle"
  ELSE IF term = "Sent" THEN "Stopping" ELSE "Running"
Contract == INSTANCE ChildContract WITH users <- Users
KeepsContract == Contract!Spec

\* A program that honours SIGTERM has the whole grace to save its state: as
\* long as the dashboard lives and waitpid works, nobody is killed before.
GraceGranted ==
  doomed # {} => pc = "Crashed" \/ error = "Wait" \/ (term = "Sent" /\ sinceTerm = GraceTicks)

\* On the framebuffer, a program is stopped for a touch only if a finger is on
\* the glass and has been there for the whole of TOUCH_HOLD, whatever was
\* lifted, unplugged or reopened meanwhile.
HeldThroughout ==
  [][(route = "Evdev" /\ stop = "None" /\ stop' = "Touch")
       => (finger = "Down") /\ (fingerAge = HoldTicks)]_vars

\* A stop ends the wait: the dashboard goes on at the latest when the grace is
\* over, even if the program ignores SIGTERM or has left others behind.
StopEnds == term = "Sent" \/ signal = "Arrived" ~> pc \in {"Returned", "Crashed"}

\* The program never outlives a killed dashboard, not even one that was killed
\* between the fork and prctl.
OrphanDies == pc = "Crashed" ~> proc[Leader] = "Gone"

\* A hold is noticed: a finger that stays on the glass of a working touchscreen
\* ends the child, however often the device was lost and reopened before.
HoldEnds ==
  route = "Evdev" /\ <>[](finger = "Down" /\ touchscreen = "Present")
    => <>(pc \in {"Returned", "Crashed"})

\* Whatever the program does, a child that is to end is seen to end: the stop
\* of run_child, the parent-death signal and the return hold are all served.
EndsInTime == StopEnds /\ OrphanDies /\ HoldEnds
=============================================================================
