---------------------------- MODULE MCScheduler ----------------------------
(***************************************************************************)
(* The scheduler for TLC: one worker with two actors pinned to it, one of  *)
(* which is being created, and two client threads: one that sends and one  *)
(* that stops actors, or one that does both.                               *)
(***************************************************************************)
EXTENDS Scheduler

CONSTANTS a1, a2, w1, k1

MCPin      == (a1 :> w1) @@ (a2 :> w1)
MCNewActor == k1 :> a2
=============================================================================
