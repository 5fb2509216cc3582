------------------------------- MODULE TaskGroup -------------------------------
(***************************************************************************)
(* What the scheduler and its free helpers promise a client that submits  *)
(* a task group (spec.md 8.1, 8.2, 8.6, 8.7): every submitted callable is *)
(* invoked exactly once; a callable deferred on the group's latch only    *)
(* once every callable of the group has returned; a parent running        *)
(* invoke_tasks( children... ) returns only after its children have       *)
(* returned; the client's wait on the group returns only when the whole   *)
(* group has.  TaskScheduler is checked to implement this specification. *)
(***************************************************************************)
EXTENDS Naturals

CONSTANTS
  Group,      \* the callables of the client's create_task_group
  Deferred,   \* callables added with add_task( task, group latch )
  Parents,    \* group callables whose body is invoke_tasks( Children... )
  Children    \* the callables a parent's invoke_tasks runs

Tasks == Group \cup Deferred \cup Children

VARIABLES
  submitted,  \* callables handed to the scheduler so far
  runs,       \* how often each callable has been invoked
  waited      \* whether the client's wait on the group has returned

vars == <<submitted, runs, waited>>

Done(S) == \A t \in S : runs[t] > 0

Init ==
  /\ submitted = {}
  /\ runs = [t \in Tasks |-> 0]
  /\ waited = FALSE

Submit(t) ==
  /\ t \notin submitted
  /\ submitted' = submitted \cup {t}
  /\ UNCHANGED <<runs, waited>>

\* A callable may be invoked once it is submitted and what it waits on is
\* done.
Ready(t) ==
  /\ t \in Deferred => Done(Group)
  /\ t \in Parents => Done(Children)

Run(t) ==
  /\ t \in submitted
  /\ runs[t] = 0
  /\ Ready(t)
  /\ runs' = [runs EXCEPT ![t] = 1]
  /\ UNCHANGED <<submitted, waited>>

Wait ==
  /\ ~waited
  /\ Done(Group)
  /\ waited' = TRUE
  /\ UNCHANGED <<submitted, runs>>

Next == (\E t \in Tasks : Submit(t) \/ Run(t)) \/ Wait

\* Completion: a submitted callable that may run is eventually invoked, and
\* the client's wait eventually returns once the group is done.
Spec == Init /\ [][Next]_vars /\ (\A t \in Tasks : WF_vars(Run(t)))
             /\ WF_vars(Wait)
================================================================================
