\* One producer in try_push_back while the consumer holds the mutex in
\* pop_front: the producer writes the ring unlocked, and its m_is_full
\* update, made after the pop, marks the emptied ring full.
CONSTANTS
  p1 = p1
  p2 = p2
  c1 = c1
  null = null
  free = free
  Producers <- MC_OneProducer
  Consumers <- MC_Consumers
  Items = 1
  Size = 2
  NoValue <- null
  NoThread <- free
  ProdOps <- MC_TryPush
  ConsOps <- MC_Pop
  DoStop = FALSE
SPECIFICATION Spec
INVARIANT FrontSlotFilled

