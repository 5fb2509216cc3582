CONSTANTS
  t1 = t1
  t2 = t2
  g1 = g1
  p1 = p1
  c1 = c1
  c2 = c2
  noop = noop
  null = null
  N <- MC_N
  Capacity <- MC_Capacity
  UserTasks <- MC_OneTask
  GatedTasks <- MC_None
  Noop = noop
  NoItem = null
  MaxWraps = 1
  DoStop = TRUE
  Parents <- MC_None
  Children <- MC_None
  Throwing <- MC_None
SPECIFICATION Spec
PROPERTY StopReturns
