-------------------------- MODULE MC_OptionalBuffer --------------------------
(***************************************************************************)
(* Model-checking instance of OptionalBuffer: one or two producers and a   *)
(* consumer on a two-slot ring.                                            *)
(***************************************************************************)
EXTENDS OptionalBuffer

CONSTANTS p1, p2, c1, null, free

MC_OneProducer == {p1}
MC_Consumers == {c1}
MC_TryPush == {"try_push"}
MC_TryPop == {"try_pop"}
MC_Pop == {"pop"}
=============================================================================
