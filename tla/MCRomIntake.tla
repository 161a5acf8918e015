----------------------------- MODULE MCRomIntake -----------------------------
(* Three uploads, two of them of the same title, into a menu that has room    *)
(* for two games, for one, or for none, by what was uploaded before.          *)
EXTENDS RomIntake, TLC

CONSTANTS r1, r2, r3, tetris, zelda, pong, mario

MCTitleOf == r1 :> tetris @@ r2 :> tetris @@ r3 :> zelda
=============================================================================
