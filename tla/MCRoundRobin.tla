---------------------------- MODULE MCRoundRobin ----------------------------
(***************************************************************************)
(* Instances of RoundRobin for TLC.                                        *)
(***************************************************************************)
EXTENDS RoundRobin

CONSTANTS r1, r2

Both  == {r1, r2}
First == {r1}
None  == {}

=============================================================================
