\* Every helper of benchmark.h called once, to its end.  A call that has
\* returned, aborted or thrown is the end of the behaviour, so deadlock
\* is not checked.
CONSTANTS
  Helpers <- MC_Helpers
  RunCounts <- MC_RunCounts
  CalibrationRuns = 2
  Durations <- MC_Durations
  CalDurations <- MC_CalDurations
  Gaps <- MC_Gaps
  ByteCounts <- MC_ByteCounts
  ItemCounts <- MC_ItemCounts
  DblMax = 1000000
  TickExp <- MC_TickExp
SPECIFICATION Spec
INVARIANT TypeOK
INVARIANT MinMaxBracket
INVARIANT RunsLineTrue
CHECK_DEADLOCK FALSE
