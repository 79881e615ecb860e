----------------------------- MODULE MCShutdown -----------------------------
(***************************************************************************)
(* Shutdown for TLC: two actors, on one worker or on a worker each.        *)
(***************************************************************************)
EXTENDS Shutdown

CONSTANTS a1, a2, w1, w2

OneWorker  == {w1}
TwoWorkers == {w1, w2}

PinTogether == (a1 :> w1) @@ (a2 :> w1)
PinApart    == (a1 :> w1) @@ (a2 :> w2)
=============================================================================
