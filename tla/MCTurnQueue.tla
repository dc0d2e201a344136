---------------------------- MODULE MCTurnQueue ----------------------------
(* A small instance of TurnQueue: two users, the first with more threads than it *)
(* may have active turns, so that both the per-thread and the per-user limit can *)
(* hold a turn back.                                                             *)
EXTENDS TurnQueue, TLC

CONSTANTS u1, u2, t1, t2, t3, t4, k1

MCThreadUser == t1 :> u1 @@ t2 :> u1 @@ t3 :> u1 @@ t4 :> u2
=============================================================================
