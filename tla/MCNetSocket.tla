----------------------------- MODULE MCNetSocket ----------------------------
(* Instances of NetSocket for TLC.                                         *)
EXTENDS NetSocket

OneOrTwo == {1, 2}

=============================================================================
