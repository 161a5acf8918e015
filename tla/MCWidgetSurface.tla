--------------------------- MODULE MCWidgetSurface ---------------------------
(* Three buffers: the dashboard and a game whose frames and connection are  *)
(* at stake, and the dashboard with two fingers on the panel.               *)
EXTENDS WidgetSurface

MCScopes ==
  {[caller |-> "Deck", touched |-> FALSE], [caller |-> "Game", touched |-> FALSE],
   [caller |-> "Deck", touched |-> TRUE]}
=============================================================================
