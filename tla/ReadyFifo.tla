----------------------------- MODULE ReadyFifo -----------------------------
(***************************************************************************)
(* What a ready queue promises system::schedule() and the worker: a FIFO   *)
(* of distinct actors, each operation one indivisible step.                *)
(***************************************************************************)
EXTENDS Sequences, SequencesExt

CONSTANTS Actors, NoActor

VARIABLES
    queue,      \* oldest first
    got,        \* what the last pop() returned
    saw         \* what the last maybe_nonempty() returned

fvars == <<queue, got, saw>>

FInit == queue = <<>> /\ got = NoActor /\ saw = FALSE

FPush(a) ==
    /\ a \notin ToSet(queue)
    /\ queue' = Append(queue, a)
    /\ UNCHANGED <<got, saw>>

FPop ==
    /\ queue # <<>>
    /\ queue' = Tail(queue)
    /\ got' = Head(queue)
    /\ UNCHANGED saw

FPopNothing ==
    /\ queue = <<>>
    /\ got' = NoActor
    /\ UNCHANGED <<queue, saw>>

FLook ==
    /\ saw' = (queue # <<>>)
    /\ UNCHANGED <<queue, got>>

FNext == (\E a \in Actors : FPush(a)) \/ FPop \/ FPopNothing \/ FLook

FSpec == FInit /\ [][FNext]_fvars
=============================================================================
