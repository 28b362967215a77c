------------------------- MODULE MCAnalyzerLaunch -------------------------
(***************************************************************************)
(* A small instance of AnalyzerLaunch.                                     *)
(***************************************************************************)
EXTENDS AnalyzerLaunch

CONSTANTS l1, l2, l3

ThreeLaunches == {l1, l2, l3}

=============================================================================
