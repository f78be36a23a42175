------------------------------- MODULE MCAuthApi -------------------------------
(***************************************************************************)
(* AuthApi for TLC: requests are alike; one tick is five minutes at the    *)
(* limiter, a refresh window the shortest there is.                        *)
(***************************************************************************)
EXTENDS AuthApi, TLC

Symmetry == Permutations(Requests)
MCLimits == [login |-> 2, refresh |-> 1]
MCWindows == [login |-> 2, refresh |-> 1]
================================================================================
