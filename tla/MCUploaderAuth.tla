---------------------------- MODULE MCUploaderAuth ----------------------------
(* Three sign-ins of one host, one with the right password, and one of        *)
(* another; two requests with a session.                                      *)
EXTENDS UploaderAuth, TLC

CONSTANTS l1, l2, l3, l4, near, far, o1, o2

MCHostOf == l1 :> near @@ l2 :> near @@ l3 :> near @@ l4 :> far
=============================================================================
