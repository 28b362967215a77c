----------------------------- MODULE MCScanStore ------------------------------
(* Three scans of one repository and two remembered claims: enough for a claim   *)
(* to be taken over and its first holder to come back, and for a scan to find    *)
(* two earlier ones finished, failed or active, in either order.                 *)
EXTENDS ScanStore, TLC

CONSTANTS s1, s2, s3, t1, t2

OneRepository == [s \in Scan |-> "shared"]

Symmetry == Permutations(Scan) \cup Permutations({t1, t2})
=============================================================================
