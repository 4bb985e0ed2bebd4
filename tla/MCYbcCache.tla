----------------------------- MODULE MCYbcCache -----------------------------
(***************************************************************************)
(* Instances of YbcCache.                                                  *)
(***************************************************************************)
EXTENDS YbcCache

CONSTANTS p1, p2, p3, k1, k2

Three == {p1, p2, p3}
TwoKeys == {k1, k2}

\* The last caller may ask for another key than the others.
MCKeysAsked ==
  {[p \in Three |-> IF p = p3 THEN k ELSE k1] : k \in TwoKeys}

=============================================================================
