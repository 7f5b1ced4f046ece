------------------------------ MODULE MCIdTier ------------------------------
(* Instances of IdTier for TLC.                                            *)
EXTENDS IdTier

CONSTANTS d1, d2, x, y, mem

OneDiskOrder  == <<Mem, d1>>
DiskFirst     == <<d1, Mem>>
TwoDisksOrder == <<d1, Mem, d2>>

\* all_tiers has two entries, 0.0 and 2.0: every disk is asked twice.
OneDiskAsked  == <<d1, d1>>
TwoDisksAsked == <<d1, d2, d1, d2>>

=============================================================================
