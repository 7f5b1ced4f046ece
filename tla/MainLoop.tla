------------------------------ MODULE MainLoop ------------------------------
(***************************************************************************)
(* The main loop calls tv_loop, net_loop (interfaces, peers, HTTP),        *)
(* console_loop and id_tier_loop in one try block: an exception that       *)
(* leaves one of them ends the turn, and the next one begins with the TV.  *)
(***************************************************************************)
VARIABLE pc     \* where the main thread is: "tv", "net", "proto", "bind",
                \* "accept", "each", "lines" (the console), "tier"

Places == {"tv", "net", "proto", "bind", "accept", "each", "lines", "tier"}

At(place)   == pc = place
Goto(place) == pc' = place

\* The catch of main, and the last loop that ends.
NextTurn == Goto("tv")
=============================================================================
