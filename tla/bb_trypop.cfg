\* A producer in push_back against a consumer that pops with try_pop_front
\* only: the producer blocks on m_not_full when the ring is full, the
\* consumer's try_pop_front makes room without notifying m_not_full, and
\* nothing else ever wakes the producer.
CONSTANTS
  p1 = p1
  p2 = p2
  c1 = c1
  null = null
  free = free
  Producers <- MC_Producers
  Consumers <- MC_Consumers
  Items = 2
  Sz = 2
  NoValue <- null
  NoThread <- free
  ProdOps <- MC_Push
  ConsOps <- MC_TryPop
  DoStop = FALSE
SPECIFICATION Spec
PROPERTY NotFullWaiterWakes
