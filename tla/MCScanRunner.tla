----------------------------- MODULE MCScanRunner -----------------------------
(* Requests for one repository, or for two.                                    *)
EXTENDS ScanRunner, TLC

CONSTANTS a, b

OneRepository == [s \in Scan |-> "shared"]
TwoRepositories == [s \in Scan |-> IF s = 1 THEN "first" ELSE "second"]

Symmetry == Permutations(Instance)
=============================================================================
