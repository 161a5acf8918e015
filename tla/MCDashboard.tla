----------------------------- MODULE MCDashboard -----------------------------
(* The dashboard with a console game, a Deck program that reads the          *)
(* touchscreen itself (the chiptune player) and the power entry.             *)
EXTENDS Dashboard

CONSTANTS nes, tune, reboot, shell

MCApps == {nes, tune, reboot}
MCOwnTouch == {tune}
MCFewApps == {nes, reboot}
=============================================================================
