--------------------------- MODULE MC_TaskScheduler ---------------------------
(* Instantiation of TaskScheduler for TLC: two workers, two-slot queues so *)
(* that a full queue and send_task's retry happen, a group of two          *)
(* callables and one callable deferred on the group latch; for the nested  *)
(* wait, one parent callable whose invoke_tasks runs two children.         *)
EXTENDS TaskScheduler

CONSTANTS t1, t2, g1, p1, c1, c2, noop, null

MC_N         == 2
MC_Capacity  == 2
MC_UserTasks == {t1, t2}
MC_Gated     == {g1}
MC_OneTask   == {t1}
MC_None      == {}
MC_Parent    == {p1}
MC_Children  == {c1, c2}
MC_CoreThrow == {t1, g1}
MC_ChildThrow == {c1}
=============================================================================
