---------------------------- MODULE MCAccessLog ----------------------------
(***************************************************************************)
(* Instances of AccessLog for TLC.                                         *)
(***************************************************************************)
EXTENDS AccessLog

CONSTANTS s1, r1, r2

OneSession  == {s1}
NoSession   == {}
OneRequest  == {r1}
TwoRequests == {r1, r2}

=============================================================================
