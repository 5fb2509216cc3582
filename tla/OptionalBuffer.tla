---------------------------- MODULE OptionalBuffer ----------------------------
(***************************************************************************)
(* The second daw::parallel::locking_circular_buffer<T>, over              *)
(* std::optional<T> slots with a run-time size (src/unnamed/part_001       *)
(* lines 221-334).  push_back and try_push_back take the mutex with        *)
(* try_to_lock and, when that fails, go on without it: if the predicate    *)
(* already holds they write the ring unlocked (lines 314-315, 329-331),    *)
(* otherwise they call condition_variable::wait on a unique_lock that does *)
(* not own the mutex.  That is undefined behaviour; the model takes what   *)
(* libstdc++ over glibc does with a default mutex: pthread_cond_wait       *)
(* unlocks the mutex whoever holds it, relocks it on waking, and the       *)
(* unique_lock, which still does not own it, never unlocks it.  An         *)
(* unlocked write is a sequence of steps (store, advance m_back, set       *)
(* m_is_full and notify) that other threads' steps may interleave.         *)
(***************************************************************************)
EXTENDS Naturals, Sequences, FiniteSets

CONSTANTS
  Producers, Consumers,  \* the threads
  Items,                 \* values each producer pushes
  Size,                  \* queue_size
  NoValue,               \* an empty std::optional<T>
  NoThread,              \* the mutex is free
  ProdOps,               \* subset of {"push", "try_push"}
  ConsOps,               \* subset of {"pop", "try_pop"}
  DoStop                 \* whether can_continue may turn false

ASSUME /\ Items \in Nat \ {0}
       /\ ProdOps \subseteq {"push", "try_push"}
       /\ ConsOps \subseteq {"pop", "try_pop"}
       /\ DoStop \in BOOLEAN

Threads == Producers \cup Consumers
Values == Producers \X (1 .. Items)
Total == Cardinality(Producers) * Items
CVs == {"not_empty", "not_full"}

RB == INSTANCE LockingCircularBuffer WITH Sz <- Size

VARIABLES
  buf,      \* m_values, m_front, m_back, m_is_full
  holder,   \* the thread that locked m_mutex last and has not unlocked it
  owns,     \* owns[t]: whether t's unique_lock owns the mutex
  waiters,  \* waiters[cv]: threads blocked on m_not_empty / m_not_full
  cont,     \* the value of can_continue
  pc, op, ret,
  sent,     \* values each producer has pushed
  got       \* values popped, in order

vars == <<buf, holder, owns, waiters, cont, pc, op, ret, sent, got>>

ItemOf(p) == <<p, sent[p] + 1>>

WakeChoices(S) == IF S = {} THEN {{}} ELSE {{w} : w \in S}

\* members_t( queue_size ), lines 237-239: queue_size empty optionals.
Init ==
  /\ buf = RB!EmptyBuffer
  /\ holder = NoThread
  /\ owns = [t \in Threads |-> FALSE]
  /\ waiters = [cv \in CVs |-> {}]
  /\ cont = TRUE
  /\ pc = [t \in Threads |-> "idle"]
  /\ op = [t \in Threads |-> "none"]
  /\ ret = [t \in Threads |-> "none"]
  /\ sent = [p \in Producers |-> 0]
  /\ got = <<>>

\* ~unique_lock: unlocks the mutex iff the lock owns it (glibc's default
\* mutex does not check which thread unlocks it).
Release(t) == holder' = IF owns[t] THEN NoThread ELSE holder

\* An early return (lines 266-267, 284-285, 306-307).
Return(t, r) ==
  /\ ret' = [ret EXCEPT ![t] = r]
  /\ pc' = [pc EXCEPT ![t] = "idle"]
  /\ Release(t)
  /\ UNCHANGED <<waiters, buf, sent, got>>

\* cv.wait( lck, pred ) with pred false: pthread_cond_wait unlocks the
\* mutex, owned or not, and blocks.
WaitOn(t, cv) ==
  /\ holder' = NoThread
  /\ waiters' = [waiters EXCEPT ![cv] = @ \cup {t}]
  /\ pc' = [pc EXCEPT ![t] = "wait"]
  /\ UNCHANGED <<buf, ret, sent, got>>

\* The end of a call that stored or took a value: release, notify_one( ).
Finish(t, cv) ==
  /\ ret' = [ret EXCEPT ![t] = "success"]
  /\ Release(t)
  /\ \E w \in WakeChoices(waiters[cv]) :
       /\ waiters' = [waiters EXCEPT ![cv] = @ \ w]
       /\ pc' = [v \in Threads |-> IF v = t THEN "idle"
                                   ELSE IF v \in w THEN "relock" ELSE pc[v]]

\* Lines 314-315 with the scope exit of 309-312, or 329-331, run while the
\* mutex is held: store at m_back, advance it, set m_is_full, notify.
LockedPush(t) ==
  /\ buf' = RB!PushBack(buf, ItemOf(t))
  /\ sent' = [sent EXCEPT ![t] = @ + 1]
  /\ UNCHANGED got
  /\ Finish(t, "not_empty")

\* Lines 287-295: take the front value (std::exchange with an empty
\* optional), advance m_front; the scope exit clears m_is_full and
\* notifies m_not_full.
PopNotify(t) ==
  /\ got' = Append(got, RB!FrontValue(buf))
  /\ buf' = RB!PopFront(buf)
  /\ UNCHANGED sent
  /\ Finish(t, "not_full")

(* ---- entering a call ---------------------------------------------------- *)

HasWork(t) ==
  /\ cont
  /\ IF t \in Producers THEN sent[t] < Items ELSE Len(got) < Total

Call(t) ==
  /\ pc[t] = "idle"
  /\ HasWork(t)
  /\ \E o \in (IF t \in Producers THEN ProdOps ELSE ConsOps) :
       /\ op' = [op EXCEPT ![t] = o]
       /\ pc' = [pc EXCEPT ![t] = "lock"]
  /\ UNCHANGED <<buf, holder, owns, waiters, cont, ret, sent, got>>

\* unique_lock( m_mutex, std::try_to_lock ), lines 265, 301, 321.
TryLock(t) ==
  /\ pc[t] = "lock"
  /\ op[t] \in {"push", "try_push", "try_pop"}
  /\ owns' = [owns EXCEPT ![t] = (holder = NoThread)]
  /\ holder' = IF holder = NoThread THEN t ELSE holder
  /\ pc' = [pc EXCEPT ![t] = "body"]
  /\ UNCHANGED <<buf, waiters, cont, op, ret, sent, got>>

\* unique_lock( m_mutex ), line 279.
Lock(t) ==
  /\ pc[t] = "lock"
  /\ op[t] = "pop"
  /\ holder = NoThread
  /\ holder' = t
  /\ owns' = [owns EXCEPT ![t] = TRUE]
  /\ pc' = [pc EXCEPT ![t] = "body"]
  /\ UNCHANGED <<buf, waiters, cont, op, ret, sent, got>>

\* pthread_cond_wait relocks the mutex after a wake-up; owns is unchanged.
Relock(t) ==
  /\ pc[t] = "relock"
  /\ holder = NoThread
  /\ holder' = t
  /\ pc' = [pc EXCEPT ![t] = "rebody"]
  /\ UNCHANGED <<buf, owns, waiters, cont, op, ret, sent, got>>

(* ---- the producers ------------------------------------------------------- *)

\* Whether push_back / try_push_back waits on m_not_full.  On entry:
\* if( !owns or full ) wait( lck, pred ), which waits iff pred is false;
\* after a wake-up the wait loop re-tests pred.  push_back's pred is
\* can_continue and !full( ), try_push_back's is !full( ).
PushWaits(t) ==
  LET pred == IF op[t] = "push" THEN cont /\ ~RB!IsFull(buf)
                                ELSE ~RB!IsFull(buf)
  IN  IF pc[t] = "body" THEN (~owns[t] \/ RB!IsFull(buf)) /\ ~pred ELSE ~pred

\* push_back( value, can_continue ), lines 298-316, and try_push_back,
\* lines 318-333, from the try_lock to the next wait, the return or the
\* first store.  A producer whose lock does not own the mutex and who did
\* not wait writes the ring without it (pc "store").  A producer that
\* waited holds the mutex again, owned or not.
PushBody(t) ==
  /\ op[t] \in {"push", "try_push"}
  /\ pc[t] \in {"body", "rebody"}
  /\ \/ PushWaits(t) /\ WaitOn(t, "not_full") /\ UNCHANGED owns
     \/ /\ ~PushWaits(t)
        /\ op[t] = "push" /\ ~cont
        /\ Return(t, "failed") /\ UNCHANGED owns
     \/ /\ ~PushWaits(t)
        /\ op[t] = "try_push" \/ cont
        /\ \/ owns[t] \/ pc[t] = "rebody"
        /\ LockedPush(t) /\ UNCHANGED owns
     \/ /\ ~PushWaits(t)
        /\ op[t] = "try_push" \/ cont
        /\ ~owns[t] /\ pc[t] = "body"
        /\ buf' = [buf EXCEPT !.vals[buf.back] = ItemOf(t)]
        /\ pc' = [pc EXCEPT ![t] = "advance"]
        /\ UNCHANGED <<holder, owns, waiters, ret, sent, got>>
  /\ UNCHANGED <<cont, op>>

\* The unlocked write, second step: m_back = ( m_back + 1 ) % m_size.
RacyAdvance(t) ==
  /\ pc[t] = "advance"
  /\ buf' = [buf EXCEPT !.back = (buf.back + 1) % Size]
  /\ pc' = [pc EXCEPT ![t] = "exit"]
  /\ UNCHANGED <<holder, owns, waiters, cont, op, ret, sent, got>>

\* The unlocked write, last step: m_is_full = m_front == m_back and
\* notify_one on m_not_empty; the lock owns nothing and releases nothing.
RacyExit(t) ==
  /\ pc[t] = "exit"
  /\ buf' = [buf EXCEPT !.full = (buf.front = buf.back)]
  /\ sent' = [sent EXCEPT ![t] = @ + 1]
  /\ UNCHANGED <<owns, cont, op, got>>
  /\ Finish(t, "not_empty")

(* ---- the consumers ------------------------------------------------------- *)

\* pop_front( can_continue ), lines 277-296, under the owned lock:
\* if( empty ) wait( lck, pred ) with pred = can_continue and !empty( );
\* then if( !can_continue ) return {}.
PopBody(t) ==
  /\ op[t] = "pop"
  /\ pc[t] \in {"body", "rebody"}
  /\ LET waits == IF pc[t] = "body" THEN RB!IsEmpty(buf)
                  ELSE ~(cont /\ ~RB!IsEmpty(buf))
     IN  \/ waits /\ WaitOn(t, "not_empty")
         \/ ~waits /\ ~cont /\ Return(t, "failed")
         \/ ~waits /\ cont /\ PopNotify(t)
  /\ UNCHANGED <<owns, cont, op>>

\* try_pop_front, lines 264-275: nothing if the lock is not owned or the
\* ring is empty; otherwise take the front value.  Nothing is notified.
TryPopBody(t) ==
  /\ op[t] = "try_pop"
  /\ pc[t] = "body"
  /\ \/ (~owns[t] \/ RB!IsEmpty(buf)) /\ Return(t, "failed")
     \/ /\ owns[t] /\ ~RB!IsEmpty(buf)
        /\ got' = Append(got, RB!FrontValue(buf))
        /\ buf' = RB!PopFront(buf)
        /\ ret' = [ret EXCEPT ![t] = "success"]
        /\ pc' = [pc EXCEPT ![t] = "idle"]
        /\ Release(t)
        /\ UNCHANGED <<waiters, sent>>
  /\ UNCHANGED <<owns, cont, op>>

(* ---- the environment ----------------------------------------------------- *)

Spurious(t) ==
  /\ \E cv \in CVs :
       /\ t \in waiters[cv]
       /\ waiters' = [waiters EXCEPT ![cv] = @ \ {t}]
  /\ pc' = [pc EXCEPT ![t] = "relock"]
  /\ UNCHANGED <<buf, holder, owns, cont, op, ret, sent, got>>

Stop ==
  /\ DoStop
  /\ cont
  /\ cont' = FALSE
  /\ UNCHANGED <<buf, holder, owns, waiters, pc, op, ret, sent, got>>

Terminated ==
  /\ \A t \in Threads : pc[t] = "idle" /\ ~HasWork(t)
  /\ UNCHANGED vars

Thread(t) ==
  \/ Call(t) \/ TryLock(t) \/ Lock(t) \/ Relock(t)
  \/ PushBody(t) \/ RacyAdvance(t) \/ RacyExit(t)
  \/ PopBody(t) \/ TryPopBody(t) \/ Spurious(t)

Next == (\E t \in Threads : Thread(t)) \/ Stop \/ Terminated

Spec == Init /\ [][Next]_vars

(* ---- properties ---------------------------------------------------------- *)

TypeOK ==
  /\ buf \in [vals : [RB!Slots -> Values \cup {NoValue}], front : RB!Slots,
              back : RB!Slots, full : BOOLEAN]
  /\ holder \in Threads \cup {NoThread}
  /\ owns \in [Threads -> BOOLEAN]
  /\ waiters \in [CVs -> SUBSET Threads]
  /\ cont \in BOOLEAN
  /\ pc \in [Threads -> {"idle", "lock", "body", "wait", "relock", "rebody",
                         "advance", "exit"}]
  /\ op \in [Threads -> {"none", "push", "try_push", "pop", "try_pop"}]
  /\ ret \in [Threads -> {"none", "success", "failed"}]
  /\ sent \in [Producers -> 0 .. Items]
  /\ got \in Seq(Values \cup {NoValue})

\* The assert of line 270 (and spec.md 4.1 B, every occupied slot holds a
\* value): whenever the ring is not empty its front slot holds a value, so
\* no pop takes an empty optional.
FrontSlotFilled == ~RB!IsEmpty(buf) => RB!FrontValue(buf) # NoValue

\* When no thread is inside a member function the mutex is free: every
\* call that locked it unlocked it.
MutexFreeWhenIdle ==
  (\A t \in Threads : pc[t] = "idle") => holder = NoThread
=============================================================================
