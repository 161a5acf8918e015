----------------------------- MODULE MCChiptune -----------------------------
(* A file of two tracks, a damaged one and an Ogg file: browsed muted, two *)
(* commands at a time, and played aloud on a device that works, stalls or  *)
(* fails.                                                                  *)
EXTENDS Chiptune

MCTracks == <<2, 0, 1>>

MCScopes ==
  {[device |-> "works", commands |-> Commands \ {"VolumeUp", "VolumeDown", "Back"}, volumes |-> {0}]} \cup
  {[device |-> d, commands |-> {"VolumeUp", "VolumeDown", "Back"}, volumes |-> {1}]
     : d \in {"works", "stalls", "fails"}} \cup
  {[device |-> "works", commands |-> {"Pause", "NextFile"}, volumes |-> {1}]}
=============================================================================
