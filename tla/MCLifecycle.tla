---------------------------- MODULE MCLifecycle ----------------------------
(***************************************************************************)
(* A fast and a pooled actor, both created at any time: the fast one may   *)
(* take over the name of the pooled one, which may watch it.               *)
(***************************************************************************)
EXTENDS Lifecycle

CONSTANTS f, w, n

MCOwnName == (f :> Default) @@ (w :> n)
MCPairs   == {<<f, w>>}
=============================================================================
