-------------------------- MODULE MCReviewScheduler --------------------------
(* Reviews of one owner, or of two of whom the first has several.              *)
EXTENDS ReviewScheduler, TLC

CONSTANTS a, b, ann, bob

OneOwner == [r \in Review |-> ann]
TwoOwners == [r \in Review |-> IF r = 1 THEN bob ELSE ann]

Symmetry == Permutations(Instance)

(* Filter is the filter of the standard module, on every sequence of three.    *)
ASSUME FilterIsSelectSeq ==
  \A seq \in UNION {[1..n -> 1..3] : n \in 0..4}, S \in SUBSET (1..3) :
    Filter(seq, S) = SelectSeq(seq, LAMBDA k : k \in S)
=============================================================================
