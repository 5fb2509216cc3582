\* Shutdown while a producer waits in push_back on a full ring: its
\* predicate needs can_continue( ) and the wait has no timeout, so it never
\* returns.
CONSTANTS
  p1 = p1
  p2 = p2
  c1 = c1
  null = null
  free = free
  Producers <- MC_Producers
  Consumers <- MC_Consumers
  Items = 2
  Sz = 2
  NoValue <- null
  NoThread <- free
  ProdOps <- MC_Push
  ConsOps <- MC_PopPred
  DoStop = TRUE
SPECIFICATION Spec
PROPERTY CancelReleasesWaiters
