---------------------------- MODULE BlockingBuffer ----------------------------
(***************************************************************************)
(* The whole public interface of daw::parallel::locking_circular_buffer    *)
(* (src/unnamed/part_001 lines 42-186) used by producer and consumer       *)
(* threads: the blocking push_back( value, can_continue, timeout ), the    *)
(* blocking pop_front( ) and pop_front( can_continue, timeout ), and the   *)
(* try_ operations.  The mutex is a variable (a thread holds it from       *)
(* unique_lock to the end of its critical section or to a wait), each      *)
(* condition variable is the set of its waiters, notify_one wakes one of   *)
(* them, a timed wait may time out, and any wait may wake spuriously.      *)
(* can_continue( ) is the flag cont, which the environment may clear once. *)
(* Each producer pushes Items values <<p, i>>; the consumers pop until     *)
(* every value has been received.                                          *)
(***************************************************************************)
EXTENDS Naturals, Sequences, FiniteSets

CONSTANTS
  Producers, Consumers,  \* the threads
  Items,                 \* values each producer pushes
  Sz,                    \* capacity (template parameter)
  NoValue,               \* a null unique_ptr
  NoThread,              \* the mutex is free
  ProdOps,               \* subset of {"push", "try_push"}
  ConsOps,               \* subset of {"pop", "pop_pred", "try_pop"}
  DoStop                 \* whether can_continue( ) may turn false

ASSUME /\ Items \in Nat \ {0}
       /\ ProdOps \subseteq {"push", "try_push"}
       /\ ConsOps \subseteq {"pop", "pop_pred", "try_pop"}
       /\ DoStop \in BOOLEAN

Threads == Producers \cup Consumers
Values == Producers \X (1 .. Items)
Total == Cardinality(Producers) * Items
CVs == {"not_empty", "not_full"}

RB == INSTANCE LockingCircularBuffer

VARIABLES
  buf,      \* m_data: slots, m_front, m_back, m_is_full
  holder,   \* owner of m_mutex
  waiters,  \* waiters[cv]: threads blocked on m_not_empty / m_not_full
  cont,     \* what can_continue( ) returns
  pc,       \* where each thread is
  op,       \* the member function each thread is in
  woke,     \* how a waiting thread was last woken: "notify" or "timeout"
  ret,      \* what each thread's last call returned
  sent,     \* values each producer has pushed
  got       \* values received by consumers, in order

vars == <<buf, holder, waiters, cont, pc, op, woke, ret, sent, got>>

ItemOf(p) == <<p, sent[p] + 1>>

\* notify_one( ): wake one waiter, if there is any.
WakeChoices(S) == IF S = {} THEN {{}} ELSE {{w} : w \in S}

Init ==
  /\ buf = RB!EmptyBuffer
  /\ holder = NoThread
  /\ waiters = [cv \in CVs |-> {}]
  /\ cont = TRUE
  /\ pc = [t \in Threads |-> "idle"]
  /\ op = [t \in Threads |-> "none"]
  /\ woke = [t \in Threads |-> "notify"]
  /\ ret = [t \in Threads |-> "none"]
  /\ sent = [p \in Producers |-> 0]
  /\ got = <<>>

(* ---- the steps that end a critical section ---------------------------- *)

\* cv.wait( lck ): release the mutex and block on cv.
BlockOn(t, cv) ==
  /\ waiters' = [waiters EXCEPT ![cv] = @ \cup {t}]
  /\ pc' = [pc EXCEPT ![t] = "wait"]
  /\ UNCHANGED <<buf, woke, ret, sent, got>>

\* Return r to the caller; the lock is released by ~unique_lock.
Return(t, r) ==
  /\ ret' = [ret EXCEPT ![t] = r]
  /\ pc' = [pc EXCEPT ![t] = "idle"]
  /\ UNCHANGED <<waiters, woke>>

\* Return failure: the ring is left as it is.
Fail(t) == Return(t, "failed") /\ UNCHANGED <<buf, sent, got>>

\* Return and notify_one( ) on cv: the woken thread must relock.
ReturnNotify(t, cv) ==
  /\ ret' = [ret EXCEPT ![t] = "success"]
  /\ \E w \in WakeChoices(waiters[cv]) :
       /\ waiters' = [waiters EXCEPT ![cv] = @ \ w]
       /\ pc' = [v \in Threads |-> IF v = t THEN "idle"
                                   ELSE IF v \in w THEN "relock" ELSE pc[v]]
       /\ woke' = [v \in Threads |-> IF v \in w THEN "notify" ELSE woke[v]]

\* Lines 162-168 (push_back) and 178-183 (try_push_back): store at m_back,
\* advance it, set m_is_full, notify m_not_empty.
PushAndNotify(t) ==
  /\ buf' = RB!PushBack(buf, ItemOf(t))
  /\ sent' = [sent EXCEPT ![t] = @ + 1]
  /\ UNCHANGED got
  /\ ReturnNotify(t, "not_empty")

\* Faulty variant of PopAndNotify: m_not_full is not notified.
PopNoNotify(t) ==
  /\ got' = Append(got, RB!FrontValue(buf))
  /\ buf' = RB!PopFront(buf)
  /\ UNCHANGED sent
  /\ Return(t, "success")

\* Lines 109-115 and 135-141: move the front value out; the scope exit
\* clears m_is_full, advances m_front and notifies m_not_full.
PopAndNotify(t) ==
  /\ got' = Append(got, RB!FrontValue(buf))
  /\ buf' = RB!PopFront(buf)
  /\ UNCHANGED sent
  /\ ReturnNotify(t, "not_full")

(* ---- the calls ---------------------------------------------------------- *)

\* The caller's loop: a producer pushes its next value, a consumer pops
\* until all values arrived, both only while can_continue( ) holds.
HasWork(t) ==
  /\ cont
  /\ IF t \in Producers THEN sent[t] < Items ELSE Len(got) < Total

\* Enter a blocking call: unique_lock( *m_mutex ) is next.
Call(t) ==
  /\ pc[t] = "idle"
  /\ HasWork(t)
  /\ \E o \in (IF t \in Producers THEN ProdOps ELSE ConsOps)
               \cap {"push", "pop", "pop_pred"} :
       /\ op' = [op EXCEPT ![t] = o]
       /\ pc' = [pc EXCEPT ![t] = "lock"]
  /\ UNCHANGED <<buf, holder, waiters, cont, woke, ret, sent, got>>

\* unique_lock( *m_mutex ) on entry (lines 105, 123, 151), or the relock
\* inside condition_variable::wait after a wake-up.
Acquire(t) ==
  /\ pc[t] \in {"lock", "relock"}
  /\ holder = NoThread
  /\ holder' = t
  /\ pc' = [pc EXCEPT ![t] = IF @ = "lock" THEN "body" ELSE "rebody"]
  /\ UNCHANGED <<buf, waiters, cont, op, woke, ret, sent, got>>

\* Whether push_back must (still) wait.  On entry: if( full( ) ) then
\* m_not_full.wait( lck, pred ), which tests pred first and pred is false
\* while full.  After a wake-up: pred = can_continue( ) and !full( ).
PushMustWait(t) ==
  IF pc[t] = "body" THEN RB!IsFull(buf) ELSE ~(cont /\ ~RB!IsFull(buf))

\* push_back( value, can_continue, timeout ), lines 144-170, from the lock
\* to the next wait or the return.  Once the first wait is passed the
\* buffer is not full, so the timed wait_impl::wait_for of lines 156-158
\* returns at once with can_continue( ).
PushBackBody(t) ==
  /\ op[t] = "push"
  /\ pc[t] \in {"body", "rebody"}
  /\ holder' = NoThread
  /\ \/ PushMustWait(t) /\ BlockOn(t, "not_full")
     \/ ~PushMustWait(t) /\ cont /\ PushAndNotify(t)
     \/ ~PushMustWait(t) /\ ~cont /\ Fail(t)
  /\ UNCHANGED <<cont, op>>

\* pop_front( ), lines 104-116: wait( lck, !empty( ) ), then pop.
PopBody(t) ==
  /\ op[t] = "pop"
  /\ pc[t] \in {"body", "rebody"}
  /\ holder' = NoThread
  /\ \/ RB!IsEmpty(buf) /\ BlockOn(t, "not_empty")
     \/ ~RB!IsEmpty(buf) /\ PopAndNotify(t)
  /\ UNCHANGED <<cont, op>>

\* Faulty variant of WaitImplRetries: the loop of line 51 without cond( ).
WaitImplRetriesIgnoreCond(t) == TRUE

\* wait_impl::wait_for, lines 42-55, with the buffer still empty: whether
\* the thread waits again.  On entry the predicate is false, so it waits;
\* after a notify or a spurious wake-up the timed wait re-tests its
\* predicate and waits on to its deadline; after a timeout the loop of
\* line 51 waits again only while cond( ) (can_continue) holds.
WaitImplRetries(t) == pc[t] = "body" \/ woke[t] = "notify" \/ cont

\* pop_front( can_continue, timeout ), lines 118-142.  wait_impl::wait_for
\* returns status && cond( ); when it is false, or can_continue( ) is false
\* at line 132, the call returns an empty unique_ptr.
PopPredBody(t) ==
  /\ op[t] = "pop_pred"
  /\ pc[t] \in {"body", "rebody"}
  /\ holder' = NoThread
  /\ \/ RB!IsEmpty(buf) /\ WaitImplRetries(t) /\ BlockOn(t, "not_empty")
     \/ RB!IsEmpty(buf) /\ ~WaitImplRetries(t) /\ Fail(t)
     \/ ~RB!IsEmpty(buf) /\ cont /\ PopAndNotify(t)
     \/ ~RB!IsEmpty(buf) /\ ~cont /\ Fail(t)
  /\ UNCHANGED <<cont, op>>

\* try_push_back, lines 172-185, when try_to_lock gets the free mutex (the
\* whole call runs under it): failed if full, else push and notify.
TryPushBack(t) ==
  /\ t \in Producers
  /\ pc[t] = "idle"
  /\ "try_push" \in ProdOps
  /\ HasWork(t)
  /\ holder = NoThread
  /\ op' = [op EXCEPT ![t] = "try_push"]
  /\ \/ RB!IsFull(buf) /\ Fail(t)
     \/ ~RB!IsFull(buf) /\ PushAndNotify(t)
  /\ UNCHANGED <<holder, cont>>

\* try_pop_front, lines 92-102, with the mutex free: empty, or the front
\* value moved out.  Nothing is notified.
TryPopFront(t) ==
  /\ t \in Consumers
  /\ pc[t] = "idle"
  /\ "try_pop" \in ConsOps
  /\ HasWork(t)
  /\ holder = NoThread
  /\ op' = [op EXCEPT ![t] = "try_pop"]
  /\ \/ RB!IsEmpty(buf) /\ Fail(t)
     \/ /\ ~RB!IsEmpty(buf)
        /\ got' = Append(got, RB!FrontValue(buf))
        /\ buf' = RB!PopFront(buf)
        /\ UNCHANGED sent
        /\ Return(t, "success")
  /\ UNCHANGED <<holder, cont>>

\* try_to_lock fails because another thread holds the mutex (lines 94, 174).
TryBusy(t) ==
  /\ pc[t] = "idle"
  /\ HasWork(t)
  /\ holder \notin {NoThread, t}
  /\ \/ t \in Producers /\ "try_push" \in ProdOps
        /\ op' = [op EXCEPT ![t] = "try_push"]
     \/ t \in Consumers /\ "try_pop" \in ConsOps
        /\ op' = [op EXCEPT ![t] = "try_pop"]
  /\ Fail(t)
  /\ UNCHANGED <<holder, cont>>

\* The timed wait of pop_front( can_continue, timeout ) expires.
Timeout(t) ==
  /\ t \in waiters["not_empty"]
  /\ op[t] = "pop_pred"
  /\ waiters' = [waiters EXCEPT !["not_empty"] = @ \ {t}]
  /\ pc' = [pc EXCEPT ![t] = "relock"]
  /\ woke' = [woke EXCEPT ![t] = "timeout"]
  /\ UNCHANGED <<buf, holder, cont, op, ret, sent, got>>

\* A spurious wake-up, which condition_variable allows at any time.
Spurious(t) ==
  /\ \E cv \in CVs :
       /\ t \in waiters[cv]
       /\ waiters' = [waiters EXCEPT ![cv] = @ \ {t}]
  /\ pc' = [pc EXCEPT ![t] = "relock"]
  /\ woke' = [woke EXCEPT ![t] = "notify"]
  /\ UNCHANGED <<buf, holder, cont, op, ret, sent, got>>

\* can_continue( ) starts returning false (the caller is shutting down).
Stop ==
  /\ DoStop
  /\ cont
  /\ cont' = FALSE
  /\ UNCHANGED <<buf, holder, waiters, pc, op, woke, ret, sent, got>>

\* Every thread has returned for good.
Terminated ==
  /\ \A t \in Threads : pc[t] = "idle" /\ ~HasWork(t)
  /\ UNCHANGED vars

\* The steps a thread takes on its own, once scheduled.
Body(t) == PushBackBody(t) \/ PopBody(t) \/ PopPredBody(t)

Thread(t) ==
  \/ Call(t) \/ Acquire(t) \/ Body(t) \/ TryPushBack(t) \/ TryPopFront(t)
  \/ TryBusy(t) \/ Timeout(t) \/ Spurious(t)

Next == (\E t \in Threads : Thread(t)) \/ Stop \/ Terminated

(* A thread the scheduler runs keeps running its call (weak fairness on    *)
(* calls and critical sections).  A thread that keeps trying to take a     *)
(* mutex that is free again and again eventually gets it (strong fairness  *)
(* on Acquire and on the try_ calls that find the mutex free).  The timed  *)
(* wait of pop_front( can_continue, timeout ) waits until a fixed deadline *)
(* (condition_variable::wait_for with a predicate), which spurious         *)
(* wake-ups do not move, so it times out even if it is woken spuriously in *)
(* between (strong fairness on Timeout).  Spurious wake-ups themselves are *)
(* not assumed to happen.                                                  *)
Fairness ==
  \A t \in Threads :
    /\ WF_vars(Call(t)) /\ WF_vars(Body(t)) /\ SF_vars(Timeout(t))
    /\ SF_vars(Acquire(t)) /\ SF_vars(TryPushBack(t))
    /\ SF_vars(TryPopFront(t))

Spec == Init /\ [][Next]_vars /\ Fairness

(* ---- properties ---------------------------------------------------------- *)

TypeOK ==
  /\ buf \in [vals : [RB!Slots -> Values \cup {NoValue}], front : RB!Slots,
              back : RB!Slots, full : BOOLEAN]
  /\ holder \in Threads \cup {NoThread}
  /\ waiters \in [CVs -> SUBSET Threads]
  /\ cont \in BOOLEAN
  /\ pc \in [Threads -> {"idle", "lock", "body", "wait", "relock", "rebody"}]
  /\ op \in [Threads -> {"none", "push", "try_push", "pop", "pop_pred",
                         "try_pop"}]
  /\ woke \in [Threads -> {"notify", "timeout"}]
  /\ ret \in [Threads -> {"none", "success", "failed"}]
  /\ sent \in [Producers -> 0 .. Items]
  /\ got \in Seq(Values)

\* The asserts of lines 98 and 177 and spec.md 4.1 B: a slot holds a value
\* iff it lies between m_front and m_back, whatever the interleaving of
\* blocking and try_ calls.
BufferWellFormed == RB!WellFormed(buf)

\* The buffer with its mutex implements a bounded FIFO: the values in the
\* ring, front to back, are the abstract queue, and the values the pops
\* returned, in order, are the abstract deliveries.
FIFO == INSTANCE BoundedFIFO WITH Cap <- Sz, q <- RB!Contents(buf),
                                  delivered <- got
FifoRefinement == FIFO!Spec

\* A producer blocked in push_back on m_not_full while the buffer has room
\* is eventually woken: spec.md 4.1 has every pop signal not_full.
NotFullWaiterWakes ==
  \A p \in Producers :
    (p \in waiters["not_full"] /\ ~RB!IsFull(buf)) ~> (p \notin waiters["not_full"])

\* A thread blocked in a call that takes can_continue (push_back, or
\* pop_front( can_continue, timeout )) returns once can_continue( ) is
\* false: spec.md 4.1 says such a wait is abandoned.
CancelReleasesWaiters ==
  \A t \in Threads :
    (pc[t] = "wait" /\ op[t] \in {"push", "pop_pred"} /\ ~cont)
      ~> (pc[t] = "idle")
=============================================================================
