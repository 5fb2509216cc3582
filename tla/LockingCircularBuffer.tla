------------------------ MODULE LockingCircularBuffer ------------------------
(***************************************************************************)
(* The ring buffer daw::parallel::locking_circular_buffer<T, Sz> that the  *)
(* task scheduler uses as each worker's mailbox (src/unnamed/part_001,     *)
(* lines 59-186).  Its state is one record                                 *)
(*    [vals |-> slot array, front |-> index, back |-> index, full |-> bool] *)
(* and every member function runs entirely under the buffer's mutex, so    *)
(* each one is a single operator over that record.  The module has no     *)
(* variables: the modules that own buffers apply these operators.          *)
(***************************************************************************)
LOCAL INSTANCE Naturals
LOCAL INSTANCE Sequences

CONSTANTS
  Sz,        \* the template parameter Sz: number of slots
  NoValue    \* a moved-from (null) std::unique_ptr<T> in a slot

ASSUME Sz \in Nat \ {0}

Slots == 0 .. Sz - 1

\* members_t default state: all slots null, front = back = 0, not full.
EmptyBuffer == [vals |-> [i \in Slots |-> NoValue], front |-> 0, back |-> 0,
                full |-> FALSE]

\* empty( ) and full( ), lines 80-87.
IsEmpty(b) == ~b.full /\ b.front = b.back
IsFull(b)  == b.full

\* Faulty variant of FrontValue: the slot before m_back (the newest value).
FrontValueNewest(b) == b.vals[(b.back + Sz - 1) % Sz]

\* The task at the front slot, the one a pop returns.
FrontValue(b) == b.vals[b.front]

\* Faulty variant of PopFront: the slot is copied out, not moved out.
PopFrontKeepSlot(b) == [b EXCEPT !.front = (b.front + 1) % Sz, !.full = FALSE]

\* The pop performed by try_pop_front (lines 97-101) once the lock is owned
\* and the buffer is not empty: clear m_is_full, move the front slot out
\* (leaving a null unique_ptr behind) and advance m_front modulo Sz.
PopFront(b) ==
  [b EXCEPT !.vals[b.front] = NoValue,
            !.front = (b.front + 1) % Sz,
            !.full = FALSE]

\* Faulty variant of PushBack: m_back advanced without the modulo.
PushBackNoMod(b, v) ==
  [b EXCEPT !.vals[b.back] = v, !.back = b.back + 1,
            !.full = (b.front = b.back + 1)]

\* The push performed by try_push_back (lines 181-183) once the lock is
\* owned and the buffer is not full: store at m_back, advance m_back, and
\* set m_is_full iff m_front has been reached.
PushBack(b, v) ==
  LET nb == (b.back + 1) % Sz
  IN  [b EXCEPT !.vals[b.back] = v, !.back = nb, !.full = (b.front = nb)]

\* Number of tasks the buffer holds, as its indices encode it.
Count(b) == IF b.full THEN Sz ELSE (b.back - b.front + Sz) % Sz

\* The FIFO contents front to back: the abstraction of the ring.
Contents(b) == [i \in 1 .. Count(b) |-> b.vals[(b.front + i - 1) % Sz]]

\* The slots between front and back (the occupied window).
Occupied(b) == {(b.front + i - 1) % Sz : i \in 1 .. Count(b)}

\* The two assert( )s of lines 98 and 177: a slot holds a task iff it lies
\* in the occupied window.
WellFormed(b) == \A i \in Slots : (b.vals[i] # NoValue) <=> (i \in Occupied(b))
=============================================================================
