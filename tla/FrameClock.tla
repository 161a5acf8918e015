----------------------------- MODULE FrameClock -----------------------------
(***************************************************************************)
(* The frame clock of the game hosts (FrameClock of                        *)
(* native/src/game_video.rs), counted in half frames.                      *)
(***************************************************************************)
EXTENDS Naturals

VARIABLE behind      \* half frames between the last deadline and now

\* lateness() is measured against the deadline after that one.
late == behind > 3

\* wait_for_next_frame, when the frame took this time: sleep to the deadline,
\* or start over when far behind.
waitUncapped(time) == IF behind + time > 2 THEN behind + time - 2 ELSE 0
wait_for_next_frame(time) ==
  LET overdue == IF behind + time > 2 THEN behind + time - 2 ELSE 0
  IN  IF overdue > 10 THEN 0 ELSE overdue
=============================================================================
