---------------------- MODULE MCRuntimePublication ------------------------
(***************************************************************************)
(* A small instance of RuntimePublication.                                 *)
(***************************************************************************)
EXTENDS RuntimePublication

CONSTANTS p1, p2, i1, i2, i3

TwoPublishers == {p1, p2}

ThreeInodes == {i1, i2, i3}

=============================================================================
