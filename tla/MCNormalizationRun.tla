-------------------------- MODULE MCNormalizationRun --------------------------
(* Small instances of NormalizationRun for TLC. *)
EXTENDS NormalizationRun, TLC

CONSTANTS s1, s2, t1, t2

Distinct == s1 :> {t1} @@ s2 :> {t2}
Shared == s1 :> {t1, t2} @@ s2 :> {t1}

PlanPair == <<s1, s2>>
PlanDuplicate == <<s1, Unavailable, s2, s1>>

=============================================================================
