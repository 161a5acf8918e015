------------------------------ MODULE MCJoypad ------------------------------
(* Two players; the buttons of one pad move, or two pads come and go, or    *)
(* keys of the keyboard are typed over two sessions.  DOOM on the panel     *)
(* with a pad, in a widget with two keys that are one key to it, and its    *)
(* frames on either.                                                        *)
EXTENDS DoomHost

Bounds(ports, played, buttons, pressed, n, who) ==
  [ports |-> ports, played |-> played, buttons |-> buttons, keys |-> pressed, sessions |-> n, host |-> who]

MCControllers == <<"A", "B", "X">>
MCCodes == <<"leftshift", "rightshift">>

MCScopes ==
  {Bounds({1}, {1}, {"X"}, {}, 1, "Core"),
   Bounds({1, 2}, {}, {}, {}, 1, "Core"),
   Bounds({}, {}, {}, Keys, 2, "Core"),
   Bounds({}, {1}, {"B"}, {}, 1, "DoomPanel"),
   Bounds({}, {}, {}, Keys, 1, "DoomWidget"),
   Bounds({}, {}, {}, {}, 1, "DoomFrames")}
=============================================================================
