----------------------------- MODULE MCDelivery -----------------------------
(***************************************************************************)
(* One client sends messages of two types, one calls.  The calls of        *)
(* the third come from the actor's worker: from another actor's handler,   *)
(* from an on_start(), from the actor itself and from an inline actor that *)
(* it has sent to.                                                         *)
(***************************************************************************)
EXTENDS Delivery, TLC

CONSTANTS c1, c2, c3

MCScript == (c1 :> <<"t", "u", "t">>) @@ (c2 :> <<"timed">>)
            @@ (c3 :> <<"call", "call", "call", "call">>)
MCRole   == (c1 :> <<"client", "client", "client">>) @@ (c2 :> <<"client">>)
            @@ (c3 :> <<"worker", "on_start", "self", "nested">>)
=============================================================================
