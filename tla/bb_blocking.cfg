\* Blocking and try_ pushes against the two blocking pops, no shutdown:
\* the ring stays well formed, implements a bounded FIFO, and a producer
\* blocked on m_not_full is woken once there is room.
CONSTANTS
  p1 = p1
  p2 = p2
  c1 = c1
  null = null
  free = free
  Producers <- MC_Producers
  Consumers <- MC_Consumers
  Items = 2
  Sz = 2
  NoValue <- null
  NoThread <- free
  ProdOps <- MC_BlockingProd
  ConsOps <- MC_BlockingCons
  DoStop = FALSE
SPECIFICATION Spec
INVARIANT TypeOK
INVARIANT BufferWellFormed
PROPERTY FifoRefinement
PROPERTY NotFullWaiterWakes
