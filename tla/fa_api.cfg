\* The whole fixed_array API: ownership stays unique and no element is read
\* through a dead pointer.
CONSTANTS
  a = a
  b = b
  null = null
  Objs <- MC_Objs
  Null = null
  MaxSize = 2
  NumBlocks = 4
  Ops <- MC_AllOps
SYMMETRY MC_Symmetry
SPECIFICATION Spec
INVARIANT TypeOK
INVARIANT UniqueOwnership
INVARIANT NoDanglingRead
