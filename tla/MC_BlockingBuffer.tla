-------------------------- MODULE MC_BlockingBuffer --------------------------
(***************************************************************************)
(* Model-checking instance of BlockingBuffer: two producers and one        *)
(* consumer on a two-slot ring, so that the ring fills, a producer blocks  *)
(* on m_not_full and the ring wraps around.                                *)
(***************************************************************************)
EXTENDS BlockingBuffer

CONSTANTS p1, p2, c1, null, free

MC_Producers == {p1, p2}
MC_Consumers == {c1}
MC_BlockingProd == {"push", "try_push"}
MC_BlockingCons == {"pop", "pop_pred"}
MC_TryPop == {"try_pop"}
MC_Push == {"push"}
MC_TryPush == {"try_push"}
MC_PopPred == {"pop_pred"}
MC_PopPredTryPop == {"pop_pred", "try_pop"}
=============================================================================
