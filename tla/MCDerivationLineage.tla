-------------------------- MODULE MCDerivationLineage --------------------------
(* Small instances of DerivationLineage for TLC: artifacts and sessions    *)
(* are interchangeable.                                                    *)
EXTENDS DerivationLineage, TLC

Interchangeable == Permutations(Artifacts) \cup Permutations(Sessions)
=============================================================================
