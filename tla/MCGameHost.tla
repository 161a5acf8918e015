----------------------------- MODULE MCGameHost -----------------------------
(* A ring of four samples on a panel of 24 by 16 with a margin of 2, one   *)
(* behaviour of the console at a time.                                     *)
EXTENDS GameHost

MCSizes == {[width |-> 9, height |-> 5], [width |-> 4, height |-> 3], [width |-> 21, height |-> 3]}

MCScopes ==
  {[target |-> t, about |-> "picture", device |-> "works", hint |-> TRUE] : t \in {"Fb", "Lazy", "Headless"}} \cup
  {[target |-> "Lazy", about |-> "sound", device |-> d, hint |-> TRUE] : d \in {"works", "fails"}} \cup
  {[target |-> "Fb", about |-> "saves", device |-> d, hint |-> TRUE] : d \in {"works", "stalls"}} \cup
  {[target |-> "Lazy", about |-> "hold", device |-> "works", hint |-> h] : h \in BOOLEAN}
=============================================================================
