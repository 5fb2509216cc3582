CONSTANTS
  t1 = t1
  t2 = t2
  g1 = g1
  p1 = p1
  c1 = c1
  c2 = c2
  noop = noop
  null = null
  N <- MC_N
  Capacity <- MC_Capacity
  UserTasks <- MC_UserTasks
  GatedTasks <- MC_Gated
  Noop = noop
  NoItem = null
  MaxWraps = 2
  DoStop = FALSE
  Parents <- MC_None
  Children <- MC_None
  Throwing <- MC_CoreThrow
SPECIFICATION Spec
INVARIANT TypeOK
INVARIANT TaskAccounting
INVARIANT LatchCountsPending
PROPERTY GroupRefinement
