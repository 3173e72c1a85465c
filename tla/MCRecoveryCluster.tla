-------------------------- MODULE MCRecoveryCluster --------------------------
(* Small instances of RecoveryCluster for TLC. *)
EXTENDS RecoveryInvariant, TLC

CONSTANTS s1, s2, k1, k2

OneSource == s1 :> <<k1, k2>>
TwoSources == s1 :> <<k1, k2>> @@ s2 :> <<k1>>

TwoKeys == k1 :> 0 @@ k2 :> 1

TwoParts == {0, 1}
ExParts == [e \in 0 .. MaxRuns |-> e % 2]
FrontParts == [e \in 0 .. MaxRuns |-> [w \in WorkerIds |-> (e + w) % 2]]
SnapParts == [i \in Ids |-> IF i \in {k1} THEN 1 ELSE 0]
=============================================================================
