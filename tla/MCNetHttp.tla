------------------------------ MODULE MCNetHttp -----------------------------
(* Instances of NetHttp for TLC.                                           *)
EXTENDS NetHttp

CONSTANTS c1, c2

=============================================================================
