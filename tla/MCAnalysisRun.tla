--------------------------- MODULE MCAnalysisRun ---------------------------
(***************************************************************************)
(* A small instance of AnalysisRun.                                        *)
(***************************************************************************)
EXTENDS AnalysisRun

CONSTANTS f1, f2, f3, d1, d2, main, dev, c1, c2, i1, i2, i3

ThreeFiles == {f1, f2, f3}

TwoDirectories == {d1, d2}

OneApart == [f \in ThreeFiles |-> IF f = f3 THEN d2 ELSE d1]

TwoBranches == {main, dev}

TwoCommits == {c1, c2}

ThreeItems == {i1, i2, i3}

(* The second commit has more files than a source may have. *)
SmallAndLarge == [c \in TwoCommits |-> IF c = c1 THEN {i1, i3} ELSE ThreeItems]

Sizes == [i \in ThreeItems |-> IF i = i3 THEN 2 ELSE 1]

=============================================================================
