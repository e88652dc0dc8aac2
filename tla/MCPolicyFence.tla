-------------------------- MODULE MCPolicyFence --------------------------
(* Instance of PolicyFence: two replicas, three builds. *)
EXTENDS PolicyFence, TLC

CONSTANTS r1, r2, f1, f2, f3

MCReplicas == {r1, r2}
MCDispatchers == {r1}
MCFingerprints == {f1, f2, f3}
MCSymmetry == Permutations(MCFingerprints)
=============================================================================
