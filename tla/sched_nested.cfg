\* A parent callable whose body is invoke_tasks( c1, c2 ): it blocks a
\* worker in wait_for_scope while a helper runner works the queues.
CONSTANTS
  t1 = t1
  t2 = t2
  g1 = g1
  p1 = p1
  c1 = c1
  c2 = c2
  noop = noop
  null = null
  N <- MC_N
  Capacity <- MC_Capacity
  UserTasks <- MC_Parent
  GatedTasks <- MC_None
  Noop = noop
  NoItem = null
  MaxWraps = 1
  DoStop = TRUE
  Parents <- MC_Parent
  Children <- MC_Children
  Throwing <- MC_ChildThrow
SPECIFICATION Spec
INVARIANT TypeOK
INVARIANT TaskAccounting
INVARIANT LatchCountsPending
PROPERTY GroupRefinement
