---------------------------- MODULE TaskScheduler ----------------------------
(***************************************************************************)
(* The work-stealing task scheduler daw::task_scheduler                    *)
(* (src/unnamed/part_000 lines 59-256, src/unnamed/part_001 lines 472-755) *)
(* with the N per-worker ring buffers it owns and one client thread that   *)
(* starts the pool, submits a task group, waits for it and may stop the    *)
(* pool.                                                                   *)
(*                                                                         *)
(* Threads.  Worker w runs task_runner( w ): while m_continue it takes a   *)
(* task with wait_for_task_from_pool( w ) (own queue, then one try at each *)
(* other queue, then spin on its own queue) and runs it with run_task.     *)
(* Every task is wrapped by add_task in a closure that, after the user     *)
(* callable, drains queue id with run_next_task( id ) while m_continue:    *)
(* run_next_task calls run_task again, so the drains nest; a worker keeps  *)
(* the nest as a stack of frames.                                          *)
(*                                                                         *)
(* Each buffer operation takes the buffer's mutex for its whole body, so   *)
(* one try_pop_front or try_push_back is one step.                         *)
(*                                                                         *)
(* Nested waits.  A parent callable's body is invoke_tasks( children... ): *)
(* create_task_group schedules the children on a latch of their own, and   *)
(* ts.wait_for( latch ) runs wait_for_scope, which starts one temporary    *)
(* task runner (a helper thread, thread index N, on a queue id chosen from *)
(* the clock) while the worker blocks on the children's latch, and        *)
(* notifies the helper's latch at scope exit.                              *)
(***************************************************************************)
EXTENDS Naturals, Sequences, FiniteSets

CONSTANTS
  N,            \* m_num_threads: number of workers and of queues
  Capacity,     \* Sz of locking_circular_buffer<task_t, Sz> (1024 in the code)
  UserTasks,    \* callables submitted with create_task_group / schedule_task
  GatedTasks,   \* callables submitted with add_task( task, sem ) on the group latch
  Noop,         \* the empty lambda stop( ) sends to every queue
  NoItem,       \* a null slot / no task held
  MaxWraps,     \* bound on the add_task wrappers recorded around a re-sent task
  DoStop,       \* whether the client calls stop( true ) after the group completes
  Parents,      \* group callables whose body is invoke_tasks( Children... )
  Children,     \* the callables a parent's invoke_tasks runs
  Throwing      \* callables that may throw instead of returning

ASSUME /\ N \in Nat \ {0}
       /\ Capacity \in Nat \ {0}
       /\ UserTasks \cap GatedTasks = {}
       /\ Noop \notin UserTasks \cup GatedTasks
       /\ MaxWraps \in Nat \ {0}
       /\ DoStop \in BOOLEAN
       /\ Parents \subseteq UserTasks /\ Cardinality(Parents) <= 1
       /\ Children \cap (UserTasks \cup GatedTasks \cup {Noop}) = {}
       /\ Throwing \subseteq (UserTasks \cup GatedTasks \cup Children) \ Parents

Workers  == 0 .. N - 1
\* The temporary task runner a parent's wait_for_scope starts.
Helpers  == IF Parents = {} THEN {} ELSE {N}
Threads  == Workers \cup Helpers
ClientTasks == UserTasks \cup GatedTasks
AllTasks == ClientTasks \cup Children

RB == INSTANCE LockingCircularBuffer WITH Sz <- Capacity, NoValue <- NoItem

(* A queued task_t: the callable it wraps and the ids captured by the      *)
(* add_task closures around it, innermost first.                           *)
Items  == [fn : AllTasks \cup {Noop}, drains : Seq(Workers)]
(* A drain loop of an add_task closure: the queue id it drains and where   *)
(* it is: 0 = at the loop head (reads m_continue), k \in 1..N = about to   *)
(* try queue (q + k - 1) % N in run_next_task.                             *)
Frames == [q : Workers, at : 0 .. N]

VARIABLES
  queues,     \* m_tasks: one ring buffer per worker
  continue,   \* m_continue
  taskCount,  \* m_task_count modulo N (only its residue is ever used)
  latch,      \* the group's daw::shared_latch counter
  ran,        \* how often each callable has been invoked
  wpc,        \* worker program counters
  m,          \* the steal index m of wait_for_task_from_pool
  cur,        \* the task a worker holds (popped, being run or re-sent)
  tgt,        \* queue a worker re-sends a not-ready task to
  stack,      \* nested add_task drain loops of each worker, top = last
  cpc,        \* client program counter
  unsent,     \* callables the client has not submitted yet
  cItem,      \* the task the client is sending
  cTgt,       \* the queue the client sends to / sentinel or join index
  home,       \* the queue id each thread's task_runner was given
  cLatch,     \* the latch of the children's group
  hLatch,     \* the latch start_temp_task_runners gives the helper
  pUnsent,    \* children the parent has not scheduled yet
  pItem       \* the child task the parent is sending

vars == <<queues, continue, taskCount, latch, ran, wpc, m, cur, tgt, stack,
          cpc, unsent, cItem, cTgt, home, cLatch, hLatch, pUnsent, pItem>>

\* The variables of the nested-wait machinery.
nestVars == <<home, cLatch, hLatch, pUnsent, pItem>>

-----------------------------------------------------------------------------
(* daw::shared_latch is not under src/; its operations follow spec.md 4.2. *)

\* latch::notify( ): decrement, a no-op at zero.
LatchNotify(c) == IF c > 0 THEN c - 1 ELSE c

\* latch::try_wait( ): has the count reached zero?
LatchTryWait(c) == c = 0

\* Faulty variant of IsReady: the latch is ignored.
IsReadyNoLatch(it) == TRUE

\* task_t::is_ready( ): no latch, or the latch has reached zero.
IsReady(it) == it.fn \notin GatedTasks \/ LatchTryWait(latch)

\* Faulty variant of NextTaskId: the modulo is dropped.
NextTaskIdNoMod == taskCount + 1

\* get_task_id( ): m_task_count++ % m_num_threads.
NextTaskId == (taskCount + 1) % N

\* Faulty variant of GroupLatchInit: one short of the group's size.
GroupLatchInitOffByOne == Cardinality(UserTasks) - 1

\* create_task_group: daw::shared_latch( sizeof...( tasks ) ).
GroupLatchInit == Cardinality(UserTasks)

\* start_temp_task_runners( task_count = 1 ): daw::shared_latch( task_count ).
HelperLatchInit == 1

\* The closure add_task( task, id ) builds around a task.
Wrap(f, id) == [fn |-> f, drains |-> <<id>>]

\* run_task re-adds a not-ready task's closure, so add_task wraps it once
\* more with a new id.  Past MaxWraps wrappers the further ids are not
\* recorded (their drain loops are left out of the model).
Rewrap(ds, id) == IF Len(ds) < MaxWraps THEN Append(ds, id) ELSE ds

\* The drain frames a task's closures leave on the stack, innermost on top.
DrainFrames(it) ==
  [i \in 1 .. Len(it.drains) |-> [q |-> it.drains[Len(it.drains) - i + 1],
                                  at |-> 0]]

\* The scheduler's constructor: one empty queue per worker.
EmptyQueues == [q \in Workers |-> RB!EmptyBuffer]

-----------------------------------------------------------------------------
Init ==
  /\ queues = EmptyQueues
  /\ continue = FALSE
  /\ taskCount = 0
  /\ latch = GroupLatchInit
  /\ ran = [t \in AllTasks |-> 0]
  /\ wpc = [w \in Threads |-> "new"]
  /\ m = [w \in Threads |-> 0]
  /\ cur = [w \in Threads |-> NoItem]
  /\ tgt = [w \in Threads |-> 0]
  /\ stack = [w \in Threads |-> <<>>]
  /\ cpc = "start"
  /\ unsent = ClientTasks
  /\ cItem = NoItem
  /\ cTgt = 0
  /\ home = [w \in Threads |-> IF w \in Workers THEN w ELSE 0]
  /\ cLatch = Cardinality(Children)
  /\ hLatch = 0
  /\ pUnsent = Children
  /\ pItem = NoItem

\* m_tasks[qi].receive( tsk ) succeeding: worker w now holds the front task.
\* task_queue_t is defined outside src/; it is taken to be the header's
\* locking_circular_buffer (part_001 line 473), receive its try_pop_front.
Take(w, qi) ==
  /\ ~RB!IsEmpty(queues[qi])
  /\ cur' = [cur EXCEPT ![w] = RB!FrontValue(queues[qi])]
  /\ queues' = [queues EXCEPT ![qi] = RB!PopFront(@)]

\* Where run_task returns to: the worker loop, or the drain loop below.
ReturnPc(w) == IF stack[w] = <<>> THEN "loop" ELSE "drain"

-----------------------------------------------------------------------------
(* The client: start( ), create_task_group, latch wait, stop( true ).      *)

\* start( ): set m_continue and spawn the N workers.
Start ==
  /\ cpc = "start"
  /\ continue' = TRUE
  /\ wpc' = [w \in Threads |-> IF w \in Workers THEN "loop" ELSE wpc[w]]
  /\ cpc' = "submit"
  /\ UNCHANGED <<queues, taskCount, latch, ran, m, cur, tgt, stack, unsent,
                 cItem, cTgt, nestVars>>

\* schedule_task / add_task( task[, sem] ): take a round-robin queue id and
\* wrap the callable in the draining closure.
Submit ==
  /\ cpc = "submit"
  /\ \E t \in unsent :
       /\ unsent' = unsent \ {t}
       /\ cItem' = Wrap(t, taskCount)
  /\ cTgt' = taskCount
  /\ taskCount' = NextTaskId
  /\ cpc' = "send"
  /\ UNCHANGED <<queues, continue, latch, ran, wpc, m, cur, tgt, stack,
                 nestVars>>

\* send_task: retry try_push_back until it succeeds (sleeping 1ns between).
Send ==
  /\ cpc = "send"
  /\ ~RB!IsFull(queues[cTgt])
  /\ queues' = [queues EXCEPT ![cTgt] = RB!PushBack(@, cItem)]
  /\ cItem' = NoItem
  /\ cpc' = IF unsent = {} THEN "wait" ELSE "submit"
  /\ UNCHANGED <<continue, taskCount, latch, ran, wpc, m, cur, tgt, stack,
                 unsent, cTgt, nestVars>>

\* sem.wait( ) on the group latch.
WaitGroup ==
  /\ cpc = "wait"
  /\ LatchTryWait(latch)
  /\ cpc' = IF DoStop THEN "stop" ELSE "done"
  /\ UNCHANGED <<queues, continue, taskCount, latch, ran, wpc, m, cur, tgt,
                 stack, unsent, cItem, cTgt, nestVars>>

\* stop( true ): m_continue = false, then add_task( []{}, n ) for each n.
Stop ==
  /\ cpc = "stop"
  /\ continue' = FALSE
  /\ cTgt' = 0
  /\ cpc' = "sentinel"
  /\ UNCHANGED <<queues, taskCount, latch, ran, wpc, m, cur, tgt, stack,
                 unsent, cItem, nestVars>>

SendSentinel ==
  /\ cpc = "sentinel"
  /\ ~RB!IsFull(queues[cTgt])
  /\ queues' = [queues EXCEPT ![cTgt] = RB!PushBack(@, Wrap(Noop, cTgt))]
  /\ cTgt' = (cTgt + 1) % N
  /\ cpc' = IF cTgt = N - 1 THEN "join" ELSE "sentinel"
  /\ UNCHANGED <<continue, taskCount, latch, ran, wpc, m, cur, tgt, stack,
                 unsent, cItem, nestVars>>

\* th.join( ) on each worker in turn (the detached helpers are not joined).
Join ==
  /\ cpc = "join"
  /\ wpc[cTgt] = "exit"
  /\ cTgt' = (cTgt + 1) % N
  /\ cpc' = IF cTgt = N - 1 THEN "done" ELSE "join"
  /\ UNCHANGED <<queues, continue, taskCount, latch, ran, wpc, m, cur, tgt,
                 stack, unsent, cItem, nestVars>>

Client == Start \/ Submit \/ Send \/ WaitGroup \/ Stop \/ SendSentinel \/ Join

-----------------------------------------------------------------------------
(* A thread: a worker, or the helper.  Both run wait_for_task_from_pool    *)
(* and run_task on their queue id home[w].                                 *)

\* Worker task_runner( id ): while( m_continue ) run_task( ... ).
LoopHead(w) ==
  /\ wpc[w] = "loop"
  /\ w \in Workers
  /\ wpc' = [wpc EXCEPT ![w] = IF continue THEN "own" ELSE "exit"]
  /\ UNCHANGED <<queues, continue, taskCount, latch, ran, m, cur, tgt, stack,
                 cpc, unsent, cItem, cTgt, nestVars>>

\* Helper task_runner( id, wself, sem ): while( !sem->try_wait( ) ), return
\* when m_continue is false, else run_task( wait_for_task_from_pool( id ) ).
\* On return the thread erases itself from m_other_threads.
HelperLoopHead(w) ==
  /\ wpc[w] = "loop"
  /\ w \in Helpers
  /\ wpc' = [wpc EXCEPT ![w] = IF ~LatchTryWait(hLatch) /\ continue THEN "own"
                                                                ELSE "exit"]
  /\ UNCHANGED <<queues, continue, taskCount, latch, ran, m, cur, tgt, stack,
                 cpc, unsent, cItem, cTgt, nestVars>>

\* wait_for_task_from_pool, first try: the thread's own queue.
TryOwn(w) ==
  /\ wpc[w] = "own"
  /\ \/ /\ Take(w, home[w])
        /\ wpc' = [wpc EXCEPT ![w] = "run"]
        /\ UNCHANGED m
     \/ /\ RB!IsEmpty(queues[home[w]])
        /\ m' = [m EXCEPT ![w] = (home[w] + 1) % N]
        /\ wpc' = [wpc EXCEPT ![w] = IF N = 1 THEN "spin" ELSE "steal"]
        /\ UNCHANGED <<queues, cur>>
  /\ UNCHANGED <<continue, taskCount, latch, ran, tgt, stack, cpc, unsent,
                 cItem, cTgt, nestVars>>

\* wait_for_task_from_pool, the steal loop over m = id+1, ..., id-1.
TrySteal(w) ==
  /\ wpc[w] = "steal"
  /\ \/ /\ Take(w, m[w])
        /\ wpc' = [wpc EXCEPT ![w] = "run"]
        /\ UNCHANGED m
     \/ /\ RB!IsEmpty(queues[m[w]])
        /\ m' = [m EXCEPT ![w] = (m[w] + 1) % N]
        /\ wpc' = [wpc EXCEPT ![w] = IF (m[w] + 1) % N = home[w] THEN "spin"
                                                                 ELSE "steal"]
        /\ UNCHANGED <<queues, cur>>
  /\ UNCHANGED <<continue, taskCount, latch, ran, tgt, stack, cpc, unsent,
                 cItem, cTgt, nestVars>>

\* wait_for_task_from_pool, last stage: spin on the own queue only, without
\* looking at m_continue.  A miss changes nothing (sleep_for( 1ns )).
Spin(w) ==
  /\ wpc[w] = "spin"
  /\ \/ /\ Take(w, home[w])
        /\ wpc' = [wpc EXCEPT ![w] = "run"]
     \/ /\ RB!IsEmpty(queues[home[w]])
        /\ UNCHANGED <<queues, cur, wpc>>
  /\ UNCHANGED <<continue, taskCount, latch, ran, m, tgt, stack, cpc, unsent,
                 cItem, cTgt, nestVars>>

\* run_task( tsk ), not ready: re-add the task (its closure wrapped once
\* more, with the next round-robin id) through add_task / send_task.
Defer(w) ==
  /\ wpc[w] = "run"
  /\ ~IsReady(cur[w])
  /\ cur' = [cur EXCEPT ![w] = [@ EXCEPT !.drains = Rewrap(@, taskCount)]]
  /\ tgt' = [tgt EXCEPT ![w] = taskCount]
  /\ taskCount' = NextTaskId
  /\ wpc' = [wpc EXCEPT ![w] = "resend"]
  /\ UNCHANGED <<queues, continue, latch, ran, m, stack, cpc, unsent, cItem,
                 cTgt, nestVars>>

\* send_task of the deferred task: retry try_push_back until it succeeds.
Resend(w) ==
  /\ wpc[w] = "resend"
  /\ ~RB!IsFull(queues[tgt[w]])
  /\ queues' = [queues EXCEPT ![tgt[w]] = RB!PushBack(@, cur[w])]
  /\ cur' = [cur EXCEPT ![w] = NoItem]
  /\ wpc' = [wpc EXCEPT ![w] = ReturnPc(w)]
  /\ UNCHANGED <<continue, taskCount, latch, ran, m, tgt, stack, cpc, unsent,
                 cItem, cTgt, nestVars>>

\* The callable held by w returns: a schedule_task callable notifies its
\* group's latch (its on_scope_exit), then the closures' drain loops start,
\* innermost first.
Complete(w) ==
  LET f == cur[w].fn IN
    /\ ran' = IF f = Noop THEN ran ELSE [ran EXCEPT ![f] = @ + 1]
    /\ latch' = IF f \in UserTasks THEN LatchNotify(latch) ELSE latch
    /\ cLatch' = IF f \in Children THEN LatchNotify(cLatch) ELSE cLatch
    /\ stack' = [stack EXCEPT ![w] = @ \o DrainFrames(cur[w])]
    /\ cur' = [cur EXCEPT ![w] = NoItem]
    /\ wpc' = [wpc EXCEPT ![w] = "drain"]

\* run_task( tsk ), ready: invoke the closure, whose callable runs at once.
Execute(w) ==
  /\ wpc[w] = "run"
  /\ IsReady(cur[w])
  /\ cur[w].fn \notin Parents
  /\ Complete(w)
  /\ UNCHANGED <<queues, continue, taskCount, m, tgt, cpc, unsent, cItem,
                 cTgt, home, hLatch, pUnsent, pItem>>

\* Faulty variant of Throw: the latch is notified by a statement after the
\* callable instead of on scope exit, so the exception skips it.
ThrowSkipsNotify(w) ==
  /\ wpc[w] = "run"
  /\ IsReady(cur[w])
  /\ cur[w].fn \in Throwing
  /\ ran' = [ran EXCEPT ![cur[w].fn] = @ + 1]
  /\ cur' = [cur EXCEPT ![w] = NoItem]
  /\ wpc' = [wpc EXCEPT ![w] = ReturnPc(w)]
  /\ UNCHANGED <<queues, continue, taskCount, latch, m, tgt, stack, cpc,
                 unsent, cItem, cTgt, nestVars>>

\* run_task( tsk ), ready, and the callable throws: schedule_task's
\* on_scope_exit notifies the latch while the exception unwinds, the
\* add_task closure's drain loop is skipped, and run_task's catch( ... )
\* swallows the exception, so the thread returns to whoever called
\* run_task (its loop, or the drain loop below).
Throw(w) ==
  LET f == cur[w].fn IN
    /\ wpc[w] = "run"
    /\ IsReady(cur[w])
    /\ f \in Throwing
    /\ ran' = [ran EXCEPT ![f] = @ + 1]
    /\ latch' = IF f \in UserTasks THEN LatchNotify(latch) ELSE latch
    /\ cLatch' = IF f \in Children THEN LatchNotify(cLatch) ELSE cLatch
    /\ cur' = [cur EXCEPT ![w] = NoItem]
    /\ wpc' = [wpc EXCEPT ![w] = ReturnPc(w)]
    /\ UNCHANGED <<queues, continue, taskCount, m, tgt, stack, cpc, unsent,
                   cItem, cTgt, home, hLatch, pUnsent, pItem>>

\* run_task( tsk ), ready, for a parent: its body invoke_tasks( children )
\* starts with create_task_group.
ExecuteParent(w) ==
  /\ wpc[w] = "run"
  /\ IsReady(cur[w])
  /\ cur[w].fn \in Parents
  /\ wpc' = [wpc EXCEPT ![w] = "p_submit"]
  /\ UNCHANGED <<queues, continue, taskCount, latch, ran, m, cur, tgt, stack,
                 cpc, unsent, cItem, cTgt, nestVars>>

\* create_task_group: schedule_task( sem, child, ts ) for each child, each
\* an add_task with the next round-robin id.
ParentSubmit(w) ==
  /\ wpc[w] = "p_submit"
  /\ \E c \in pUnsent :
       /\ pUnsent' = pUnsent \ {c}
       /\ pItem' = Wrap(c, taskCount)
  /\ tgt' = [tgt EXCEPT ![w] = taskCount]
  /\ taskCount' = NextTaskId
  /\ wpc' = [wpc EXCEPT ![w] = "p_send"]
  /\ UNCHANGED <<queues, continue, latch, ran, m, cur, stack, cpc, unsent,
                 cItem, cTgt, home, cLatch, hLatch>>

\* send_task of a child: retry try_push_back until it succeeds.
ParentSend(w) ==
  /\ wpc[w] = "p_send"
  /\ ~RB!IsFull(queues[tgt[w]])
  /\ queues' = [queues EXCEPT ![tgt[w]] = RB!PushBack(@, pItem)]
  /\ pItem' = NoItem
  /\ wpc' = [wpc EXCEPT ![w] = IF pUnsent = {} THEN "p_scope" ELSE "p_submit"]
  /\ UNCHANGED <<continue, taskCount, latch, ran, m, cur, tgt, stack, cpc,
                 unsent, cItem, cTgt, home, cLatch, hLatch, pUnsent>>

\* ts.wait_for( latch ) -> wait_for_scope: start_temp_task_runners( ) makes
\* the helper's latch and starts the helper on queue id clock % size( ).
ParentScope(w) ==
  /\ wpc[w] = "p_scope"
  /\ hLatch' = HelperLatchInit
  /\ \E id \in Workers : home' = [v \in Threads |-> IF v \in Helpers THEN id
                                                                    ELSE home[v]]
  /\ wpc' = [v \in Threads |-> IF v \in Helpers THEN "loop"
                               ELSE IF v = w THEN "p_wait" ELSE wpc[v]]
  /\ UNCHANGED <<queues, continue, taskCount, latch, ran, m, cur, tgt, stack,
                 cpc, unsent, cItem, cTgt, cLatch, pUnsent, pItem>>

\* Faulty variant of ParentWait: the wait returns without the children's
\* latch having opened (a try_wait taken for a wait).
ParentWaitNoWait(w) ==
  /\ wpc[w] = "p_wait"
  /\ hLatch' = LatchNotify(hLatch)
  /\ Complete(w)
  /\ UNCHANGED <<queues, continue, taskCount, m, tgt, cpc, unsent, cItem,
                 cTgt, home, pUnsent, pItem>>

\* func( ) = waitable.wait( ) on the children's latch; at scope exit the
\* helper's latch is notified, and the parent callable returns.
ParentWait(w) ==
  /\ wpc[w] = "p_wait"
  /\ LatchTryWait(cLatch)
  /\ hLatch' = LatchNotify(hLatch)
  /\ Complete(w)
  /\ UNCHANGED <<queues, continue, taskCount, m, tgt, cpc, unsent, cItem,
                 cTgt, home, pUnsent, pItem>>

\* The closure's  while( m_continue and run_next_task( id ) ) {}  for the
\* frame on top of the stack.  run_next_task tries queue id, then the others
\* in order; when it finds a task it runs it (the frame restarts at the loop
\* head afterwards), when all N tries miss it returns false and the closure
\* returns to the run_task below it.
Drain(w) ==
  /\ wpc[w] = "drain"
  /\ LET top == stack[w][Len(stack[w])]
         qi  == (top.q + top.at - 1) % N
         SetTop(k) == [stack EXCEPT ![w][Len(stack[w])].at = k]
         PopFrame ==
           /\ stack' = [stack EXCEPT ![w] = SubSeq(@, 1, Len(@) - 1)]
           /\ wpc' = [wpc EXCEPT ![w] = IF Len(stack[w]) = 1 THEN "loop"
                                                             ELSE "drain"]
     IN \/ /\ top.at = 0
           /\ continue
           /\ stack' = SetTop(1)
           /\ UNCHANGED <<queues, cur, wpc>>
        \/ /\ top.at = 0
           /\ ~continue
           /\ PopFrame
           /\ UNCHANGED <<queues, cur>>
        \/ /\ top.at > 0
           /\ Take(w, qi)
           /\ stack' = SetTop(0)
           /\ wpc' = [wpc EXCEPT ![w] = "run"]
        \/ /\ top.at > 0
           /\ RB!IsEmpty(queues[qi])
           /\ IF top.at = N THEN PopFrame
                            ELSE /\ stack' = SetTop(top.at + 1)
                                 /\ UNCHANGED wpc
           /\ UNCHANGED <<queues, cur>>
  /\ UNCHANGED <<continue, taskCount, latch, ran, m, tgt, cpc, unsent, cItem,
                 cTgt, nestVars>>

Worker(w) ==
  \/ LoopHead(w) \/ HelperLoopHead(w) \/ TryOwn(w) \/ TrySteal(w) \/ Spin(w)
  \/ Defer(w) \/ Resend(w) \/ Execute(w) \/ Throw(w) \/ Drain(w)
  \/ ExecuteParent(w) \/ ParentSubmit(w) \/ ParentSend(w) \/ ParentScope(w)
  \/ ParentWait(w)

\* stop( true ) has joined every worker: the program has ended.
Terminated ==
  /\ cpc = "done"
  /\ \A w \in Workers : wpc[w] = "exit"
  /\ UNCHANGED vars

Next == Client \/ (\E w \in Threads : Worker(w)) \/ Terminated

(* Every worker and the helper is an OS thread the kernel keeps           *)
(* scheduling; the client too is a thread that keeps running until it     *)
(* returns.                                                                *)
Fairness == WF_vars(Client) /\ \A w \in Threads : WF_vars(Worker(w))

Spec == Init /\ [][Next]_vars /\ Fairness

-----------------------------------------------------------------------------
TypeOK ==
  /\ \A q \in Workers :
       queues[q] \in [vals : [RB!Slots -> Items \cup {NoItem}],
                      front : RB!Slots, back : RB!Slots, full : BOOLEAN]
  /\ continue \in BOOLEAN
  /\ taskCount \in Workers
  /\ latch \in 0 .. Cardinality(UserTasks)
  /\ ran \in [AllTasks -> Nat]
  /\ wpc \in [Threads -> {"new", "loop", "own", "steal", "spin", "run",
                          "resend", "drain", "exit", "p_submit", "p_send",
                          "p_scope", "p_wait"}]
  /\ m \in [Threads -> Workers]
  /\ cur \in [Threads -> Items \cup {NoItem}]
  /\ tgt \in [Threads -> Workers]
  /\ \A w \in Threads : stack[w] \in Seq(Frames)
  /\ cpc \in {"start", "submit", "send", "wait", "stop", "sentinel", "join",
              "done"}
  /\ unsent \in SUBSET ClientTasks
  /\ cItem \in Items \cup {NoItem}
  /\ cTgt \in Workers
  /\ home \in [Threads -> Workers]
  /\ cLatch \in 0 .. Cardinality(Children)
  /\ hLatch \in 0 .. 1
  /\ pUnsent \in SUBSET Children
  /\ pItem \in Items \cup {NoItem}

-----------------------------------------------------------------------------
(* Where a callable can be: in a queue slot, held by a thread, or being    *)
(* sent by the client or by a parent.                                      *)
QueuedCopies(t) ==
  Cardinality({<<q, i>> \in Workers \X RB!Slots :
                 queues[q].vals[i] # NoItem /\ queues[q].vals[i].fn = t})
HeldCopies(t) ==
  Cardinality({w \in Threads : cur[w] # NoItem /\ cur[w].fn = t})
SendingCopies(t) ==
  Cardinality({it \in {cItem, pItem} : it # NoItem /\ it.fn = t})

(* Exactly-once delivery across stealing, draining and deferral: a        *)
(* submitted callable is, at every moment, either in exactly one queue     *)
(* slot, or held by exactly one worker, or has run exactly once; it is     *)
(* never lost by a ring-buffer push or pop and never duplicated by two     *)
(* workers popping the same slot or by run_task re-sending it.             *)
TaskAccounting ==
  \A t \in AllTasks :
     QueuedCopies(t) + HeldCopies(t) + SendingCopies(t) + ran[t]
       = IF t \in unsent \cup pUnsent THEN 0 ELSE 1

(* Each latch create_task_group returns (the client's and a parent's)      *)
(* counts exactly the callables of its group that have not finished: a    *)
(* waiter released by it sees every one of them done, and it cannot be    *)
(* stuck above zero once all are done.                                    *)
LatchCountsPending ==
  /\ latch = Cardinality({t \in UserTasks : ran[t] = 0})
  /\ cLatch = Cardinality({c \in Children : ran[c] = 0})

(* The scheduler implements the promise of TaskGroup: a callable counts as *)
(* submitted once add_task has taken it (it is no longer unsent), its runs *)
(* are ran, and the client's wait has returned once it is past "wait".     *)
(* Exactly-once invocation, the gate of a deferred callable, a parent      *)
(* returning only after its children, and completion under the workers'   *)
(* fairness are all checked by this one property.                         *)
TG == INSTANCE TaskGroup WITH Group <- UserTasks, Deferred <- GatedTasks,
        submitted <- AllTasks \ (unsent \cup pUnsent), runs <- ran,
        waited <- cpc \in {"stop", "sentinel", "join", "done"}

GroupRefinement == TG!Spec

(* stop( true ) returns: the client, once it calls stop, eventually has    *)
(* joined every worker (spec 8.8 and scenario E6).                         *)
StopReturns ==
  (cpc = "stop") ~> (cpc = "done")

(* Shutdown quiescence (spec 8.8): once stop( true ) has returned, no      *)
(* worker or helper thread is still running a loop and no queue holds a   *)
(* task: every task was run or discarded, sentinels included.  stop( )     *)
(* drops m_continue before it sends the sentinels, and neither joins the   *)
(* helpers nor empties the queues itself.                                  *)
ShutdownQuiescence ==
  (cpc = "done" /\ ~continue) =>
     /\ \A w \in Threads : wpc[w] \in {"new", "exit"}
     /\ \A q \in Workers : RB!IsEmpty(queues[q])
=============================================================================
