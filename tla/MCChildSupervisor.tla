-------------------------- MODULE MCChildSupervisor --------------------------
(* A program of a leader and one descendant, under every kind of watch.      *)
EXTENDS ChildSupervisor

CONSTANTS leader, helper
=============================================================================
