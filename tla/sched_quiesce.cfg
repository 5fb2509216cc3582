\* The client waits for its group and calls stop( true ): once stop has
\* returned, a queue can still hold a task (a sentinel sent after its
\* worker left the loop, or the deferred callable nobody ran).
CONSTANTS
  t1 = t1
  t2 = t2
  g1 = g1
  p1 = p1
  c1 = c1
  c2 = c2
  noop = noop
  null = null
  N <- MC_N
  Capacity <- MC_Capacity
  UserTasks <- MC_UserTasks
  GatedTasks <- MC_Gated
  Noop = noop
  NoItem = null
  MaxWraps = 2
  DoStop = TRUE
  Parents <- MC_None
  Children <- MC_None
  Throwing <- MC_None
SPECIFICATION Spec
INVARIANT ShutdownQuiescence
