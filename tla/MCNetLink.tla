------------------------------ MODULE MCNetLink -----------------------------
(* Instances of NetLink for TLC.                                           *)
EXTENDS NetLink

\* A plain payload with a body longer than a header, one of escape characters,
\* and one that looks like the beginning of its own frame, which is Fragile: a
\* cut behind its sixth byte and one behind its twelfth lose six bytes.
SmallPayloads == {<<1, 1, 1, 1, 1, 1, 1>>, <<EscapeChar, EscapeChar>>,
                  <<EscapeChar, 0, 0, 0, 8, EscapeChar>>}

ASSUME OneFragile == Fragile = {<<EscapeChar, 0, 0, 0, 8, EscapeChar>>}

=============================================================================
