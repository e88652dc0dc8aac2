--------------------------- MODULE MCNewExposure ---------------------------
(* Small instances of NewExposure for TLC.                                  *)
EXTENDS NewExposure, TLC

MCGrants1 == {1}
MCGrants2 == 1 .. 2
MCGrants3 == 1 .. 3
MCNoConfs == {}
MCConfs1 == {1}

\* Dispatches and revokers are interchangeable: nothing orders them.
Symmetry == Permutations(Dispatches) \union Permutations(Revokers)
=============================================================================
