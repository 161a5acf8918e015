------------------------------- MODULE MCInputs -------------------------------
(* Two controllers, or two keyboards, of which one fits, come and go; a       *)
(* controller or the touchscreen is used and comes and goes; two buttons of   *)
(* a controller, or a key and shift, move; a key repeats.  A controller is    *)
(* used against the guard of the dashboard.                                   *)
EXTENDS ControllerGuard

Behaviour(devices, plugs, moves, repeats) ==
  [devices |-> devices, plugs |-> plugs, moves |-> moves, repeats |-> repeats,
   guarded |-> FALSE]
MCScopes ==
  {Behaviour({1, 2}, {1, 2}, {}, {}), Behaviour({3, 4}, {3, 4}, {}, {}),
   Behaviour({1}, {1}, {"A"}, {}), Behaviour({1}, {}, {"A", "B"}, {}),
   Behaviour({5}, {5}, {"A"}, {}),
   Behaviour({3}, {}, {"shift", "q"}, {}), Behaviour({3}, {3}, {"up"}, {"up"}),
   Behaviour({3}, {}, {"q"}, {"q"}),
   [Behaviour({1}, {}, {"A"}, {}) EXCEPT !.guarded = TRUE]}
=============================================================================
