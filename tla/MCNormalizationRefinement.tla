----------------------- MODULE MCNormalizationRefinement -----------------------
EXTENDS NormalizationRefinement, TLC
CONSTANTS s1, s2, t1, t2
Shared == s1 :> {t1, t2} @@ s2 :> {t1}
PlanDuplicate == <<s1, Unavailable, s2, s1>>
=============================================================================
