---------------------------- MODULE MCSettings -----------------------------
(* Volumes, levels of brightness and keymaps of a small Deck.              *)
EXTENDS Settings

Bounds(press, volumes, levels, pressed, launches, dead, errors) ==
  [press |-> press, volumes |-> volumes, levels |-> levels, presses |-> pressed,
   children |-> launches, deaths |-> dead, faults |-> errors]

MCTexts == -4..5 \ {Torn}
MCFiles == {"volume", "brightness", "keymap"}
MCScopes ==
  { Bounds({"volume"}, {Missing, On, Off, 3}, {1}, 3, 1, 1, 1),
    Bounds({"brightness"}, {2}, {Missing, 2}, 2, 0, 1, 1),
    Bounds({"keymap", "volume"}, {0}, {3}, 2, 0, 2, 0),
    Bounds({"keymap"}, {3, 5}, {2, 4}, 1, 0, 3, 0) }
=============================================================================
