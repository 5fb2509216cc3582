\* Shutdown while a consumer waits in pop_front( can_continue, timeout ),
\* between try_pop_front calls: the timed wait of wait_impl notices
\* can_continue( ) and returns.
CONSTANTS
  p1 = p1
  p2 = p2
  c1 = c1
  null = null
  free = free
  Producers <- MC_Producers
  Consumers <- MC_Consumers
  Items = 2
  Sz = 2
  NoValue <- null
  NoThread <- free
  ProdOps <- MC_TryPush
  ConsOps <- MC_PopPredTryPop
  DoStop = TRUE
SPECIFICATION Spec
PROPERTY CancelReleasesWaiters
