---------------------------- MODULE AudioChannel ----------------------------
(***************************************************************************)
(* What the sound of a game promises whatever its ring, its lock and its   *)
(* writer do (native/src/game_audio.rs): the device hears the samples in   *)
(* the order they were made, and when it is slow the oldest are given up,  *)
(* and counted.                                                            *)
(***************************************************************************)
EXTENDS Integers, SequencesExt

CONSTANTS
  Capacity,     \* samples that may wait
  Cushion       \* silent samples a game starts with

VARIABLES
  made,         \* samples made; they are numbered, and 0 is silence
  waiting,      \* those that wait
  inhand,       \* those on their way to the device
  heard,        \* how many the device has heard
  lost          \* how many were given up for newer ones

vars == <<made, waiting, inhand, heard, lost>>

Init == made = 0 /\ waiting = <<>> /\ inhand = <<>> /\ heard = 0 /\ lost = 0

Begin ==
  /\ waiting = <<>> /\ inhand = <<>>
  /\ waiting' = [i \in 1..Cushion |-> 0]
  /\ lost' = 0
  /\ UNCHANGED <<made, inhand, heard>>

Offer ==
  /\ made' >= made
  /\ \E accepted \in BOOLEAN :
       LET all == waiting \o [i \in 1..(made' - made) |-> made + i]
           over == IF Len(all) > Capacity THEN Len(all) - Capacity ELSE 0
       IN IF accepted THEN waiting' = SubSeq(all, over + 1, Len(all)) /\ lost' = lost + over
          ELSE UNCHANGED <<waiting, lost>>
  /\ UNCHANGED <<inhand, heard>>

Take ==
  /\ inhand = <<>>
  /\ \E n \in 1..Len(waiting) :
       inhand' = SubSeq(waiting, 1, n) /\ waiting' = SubSeq(waiting, n + 1, Len(waiting))
  /\ UNCHANGED <<made, heard, lost>>

Hear ==
  /\ heard' = heard + Len(inhand) /\ inhand' = <<>>
  /\ UNCHANGED <<made, waiting, lost>>

\* The device fails under the samples in hand, or what waits is given up.
Abandon ==
  /\ inhand' \in {inhand, <<>>} /\ waiting' \in {waiting, <<>>}
  /\ heard' \in heard..(heard + Len(inhand) - Len(inhand'))
  /\ UNCHANGED <<made, lost>>

Next == Begin \/ Offer \/ Take \/ Hear \/ Abandon

Spec == Init /\ [][Next]_vars
=============================================================================
