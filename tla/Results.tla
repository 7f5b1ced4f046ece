------------------------------ MODULE Results ------------------------------
(***************************************************************************)
(* What a call of a function comes to: a value or an exception (print with *)
(* P_ERR or P_UNABLE throws), and calls one after the other, of which the  *)
(* first exception ends all.                                               *)
(***************************************************************************)
Threw       == [threw |-> TRUE, value |-> <<>>]
Returned(v) == [threw |-> FALSE, value |-> v]

Then(result, Next(_)) == IF result.threw THEN Threw ELSE Next(result.value)
=============================================================================
