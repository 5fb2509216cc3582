----------------------------- MODULE FixedArray -----------------------------
(***************************************************************************)
(* daw::fixed_array<T> (fixed_array.h, src/unnamed/part_000 603-774): an   *)
(* owning pointer m_data to a new[]'d array and its length m_size.         *)
(*                                                                         *)
(* The model follows the ownership of the heap blocks: a client program    *)
(* constructs each array of Objs once, applies any sequence of the member  *)
(* operations named in Ops, and destroys it.  Element values are left out; *)
(* what is kept is which block each array points at, its capacity, and     *)
(* every delete[] and every copy_n through m_data.  A delete[] of a freed  *)
(* block, a copy or access past a block's capacity, and a read through a   *)
(* pointer that is null or freed are recorded in faults.                   *)
(***************************************************************************)
EXTENDS Naturals, FiniteSets

CONSTANTS
  Objs,       \* the fixed_array objects of the client program
  Null,       \* nullptr
  MaxSize,    \* the largest array length the client asks for
  NumBlocks,  \* bound on the number of new[] calls in one behaviour
  Ops         \* the optional member operations the client calls

ASSUME Null \notin Nat /\ MaxSize \in Nat /\ NumBlocks \in Nat \ {0}

Blocks == 1 .. NumBlocks
Sizes == 0 .. MaxSize
OptionalOps == {"copy_ctor", "move_ctor", "move_assign", "copy_assign",
                "clear", "release", "access"}
FaultKinds == {"double_free", "oob", "dangling"}

ASSUME Ops \subseteq OptionalOps

VARIABLES
  st,        \* st[o]: "none" before construction, "live", "dead" after ~fixed_array
  size,      \* size[o]: m_size
  data,      \* data[o]: m_data, a block or Null
  heap,      \* heap[b]: "unused", "live" (allocated) or "freed"
  cap,       \* cap[b]: the element count block b was allocated with
  released,  \* blocks owned by the unique_ptrs release( ) returned
  faults     \* the kinds of memory error that have happened

vars == <<st, size, data, heap, cap, released, faults>>

-----------------------------------------------------------------------------
(* The heap.                                                               *)

CanAlloc == \E b \in Blocks : heap[b] = "unused"

\* The block the next new[] returns.
FreshBlock == CHOOSE b \in Blocks : heap[b] = "unused"

\* delete[] p: nothing for nullptr, a double free for a freed block.
DeleteFaults(p) == IF p # Null /\ heap[p] = "freed" THEN {"double_free"} ELSE {}
AfterDelete(h, p) == IF p = Null THEN h ELSE [h EXCEPT ![p] = "freed"]

\* Reading the first n elements through pointer p.
ReadFaults(h, c, p, n) ==
  IF n = 0 THEN {}
  ELSE (IF p = Null \/ h[p] # "live" THEN {"dangling"} ELSE {})
       \cup (IF p # Null /\ n > c[p] THEN {"oob"} ELSE {})

\* std::copy_n( p, n, dst ) into a block of dstCap elements.
CopyFaults(h, c, p, n, dstCap) ==
  ReadFaults(h, c, p, n) \cup (IF n > dstCap THEN {"oob"} ELSE {})

-----------------------------------------------------------------------------
Init ==
  /\ st = [o \in Objs |-> "none"]
  /\ size = [o \in Objs |-> 0]
  /\ data = [o \in Objs |-> Null]
  /\ heap = [b \in Blocks |-> "unused"]
  /\ cap = [b \in Blocks |-> 0]
  /\ released = {}
  /\ faults = {}

\* fixed_array( ) = default: m_size = 0, m_data = nullptr.
CtorDefault(o) ==
  /\ st[o] = "none"
  /\ st' = [st EXCEPT ![o] = "live"]
  /\ UNCHANGED <<size, data, heap, cap, released, faults>>

\* fixed_array( Size ), ( construct_for_overwrite, Size ), ( Size, value )
\* and ( ptr, sz ) with a new[]'d ptr: m_data is a block of Size elements.
CtorSized(o, n) ==
  /\ st[o] = "none"
  /\ CanAlloc
  /\ LET b == FreshBlock IN
       /\ st' = [st EXCEPT ![o] = "live"]
       /\ size' = [size EXCEPT ![o] = n]
       /\ data' = [data EXCEPT ![o] = b]
       /\ heap' = [heap EXCEPT ![b] = "live"]
       /\ cap' = [cap EXCEPT ![b] = n]
  /\ UNCHANGED <<released, faults>>

\* Faulty variant of RangeSize: the iterator difference taken the wrong way
\* round.
RangeSizeSwapped(f, l) == f - l

\* fixed_array( first, last ): m_size( last - first ).
RangeSize(f, l) == l - f

\* fixed_array( first, last ) and fixed_array( first, Size ): new[] of
\* m_size elements, then copy_n from the iterators.
CtorRange(o, f, l) == CtorSized(o, RangeSize(f, l))

\* fixed_array( fixed_array const & ): a new block of other.m_size elements
\* (nullptr when it is 0) filled by copy_n( other.m_data, m_size, m_data ).
CopyCtor(o, src) ==
  /\ st[o] = "none" /\ st[src] = "live"
  /\ st' = [st EXCEPT ![o] = "live"]
  /\ size' = [size EXCEPT ![o] = size[src]]
  /\ faults' = faults \cup ReadFaults(heap, cap, data[src], size[src])
  /\ IF size[src] = 0
       THEN UNCHANGED <<data, heap, cap>>
       ELSE /\ CanAlloc
            /\ LET b == FreshBlock IN
                 /\ data' = [data EXCEPT ![o] = b]
                 /\ heap' = [heap EXCEPT ![b] = "live"]
                 /\ cap' = [cap EXCEPT ![b] = size[src]]
  /\ UNCHANGED released

\* Faulty variant of MoveCtor: the source keeps its pointer.
MoveCtorKeepSource(o, src) ==
  /\ st[o] = "none" /\ st[src] = "live"
  /\ st' = [st EXCEPT ![o] = "live"]
  /\ size' = [size EXCEPT ![o] = size[src], ![src] = 0]
  /\ data' = [data EXCEPT ![o] = data[src]]
  /\ UNCHANGED <<heap, cap, released, faults>>

\* fixed_array( fixed_array && ): both members exchanged out of other.
MoveCtor(o, src) ==
  /\ st[o] = "none" /\ st[src] = "live"
  /\ st' = [st EXCEPT ![o] = "live"]
  /\ size' = [size EXCEPT ![o] = size[src], ![src] = 0]
  /\ data' = [data EXCEPT ![o] = data[src], ![src] = Null]
  /\ UNCHANGED <<heap, cap, released, faults>>

\* operator=( fixed_array && ): for rhs other than *this, clear( ) (delete[]
\* m_data, m_size = 0), then both members exchanged out of rhs.  The
\* self-assignment branch changes nothing and is left out.
MoveAssign(o, src) ==
  /\ st[o] = "live" /\ st[src] = "live" /\ o # src
  /\ faults' = faults \cup DeleteFaults(data[o])
  /\ heap' = AfterDelete(heap, data[o])
  /\ size' = [size EXCEPT ![o] = size[src], ![src] = 0]
  /\ data' = [data EXCEPT ![o] = data[src], ![src] = Null]
  /\ UNCHANGED <<st, cap, released>>

\* operator=( fixed_array const & ) for rhs other than *this:
\*   tmp = new value_type[m_size];  copy_n( rhs.m_data, rhs.m_size, tmp );
\*   clear( );  if rhs.m_data == nullptr return;  m_size = rhs.m_size;
\*   m_data = tmp.
\* tmp has this array's old length, not rhs's, and on the early return tmp
\* is dropped and m_data still holds the block clear( ) freed.
CopyAssign(o, src) ==
  /\ st[o] = "live" /\ st[src] = "live" /\ o # src
  /\ CanAlloc
  /\ LET tmp == FreshBlock
         h1 == [heap EXCEPT ![tmp] = "live"]
         c1 == [cap EXCEPT ![tmp] = size[o]]
     IN /\ faults' = faults \cup CopyFaults(h1, c1, data[src], size[src], size[o])
                            \cup DeleteFaults(data[o])
        /\ heap' = AfterDelete(h1, data[o])
        /\ cap' = c1
        /\ IF data[src] = Null
             THEN /\ size' = [size EXCEPT ![o] = 0]
                  /\ UNCHANGED data
             ELSE /\ size' = [size EXCEPT ![o] = size[src]]
                  /\ data' = [data EXCEPT ![o] = tmp]
  /\ UNCHANGED <<st, released>>

\* clear( ): delete[] m_data; m_size = 0.  m_data is not reset.
Clear(o) ==
  /\ st[o] = "live"
  /\ faults' = faults \cup DeleteFaults(data[o])
  /\ heap' = AfterDelete(heap, data[o])
  /\ size' = [size EXCEPT ![o] = 0]
  /\ UNCHANGED <<st, data, cap, released>>

\* Faulty variant of Release: m_size not reset.
ReleaseKeepSize(o) ==
  /\ st[o] = "live"
  /\ data' = [data EXCEPT ![o] = Null]
  /\ released' = released \cup ({data[o]} \ {Null})
  /\ UNCHANGED <<st, size, heap, cap, faults>>

\* release( ): m_size = 0, and m_data handed to a unique_ptr<T[]>, m_data
\* becoming nullptr.
Release(o) ==
  /\ st[o] = "live"
  /\ size' = [size EXCEPT ![o] = 0]
  /\ data' = [data EXCEPT ![o] = Null]
  /\ released' = released \cup ({data[o]} \ {Null})
  /\ UNCHANGED <<st, heap, cap, faults>>

\* The unique_ptr release( ) returned is destroyed: delete[] on its pointer.
DropReleased(p) ==
  /\ p \in released
  /\ faults' = faults \cup DeleteFaults(p)
  /\ heap' = AfterDelete(heap, p)
  /\ released' = released \ {p}
  /\ UNCHANGED <<st, size, data, cap>>

\* operator[]( pos ), front( ), back( ), data( ), begin( )/end( ): element
\* pos < size( ) read through m_data.
Access(o, pos) ==
  /\ st[o] = "live" /\ pos < size[o]
  /\ faults' = faults \cup ReadFaults(heap, cap, data[o], pos + 1)
  /\ UNCHANGED <<st, size, data, heap, cap, released>>

\* ~fixed_array( ): clear( ).
Destroy(o) ==
  /\ st[o] = "live"
  /\ st' = [st EXCEPT ![o] = "dead"]
  /\ faults' = faults \cup DeleteFaults(data[o])
  /\ heap' = AfterDelete(heap, data[o])
  /\ size' = [size EXCEPT ![o] = 0]
  /\ UNCHANGED <<data, cap, released>>

\* Every array destroyed and every released unique_ptr dropped.
Finished ==
  /\ \A o \in Objs : st[o] = "dead"
  /\ released = {}
  /\ UNCHANGED vars

Next ==
  \/ \E o \in Objs :
       \/ CtorDefault(o)
       \/ \E n \in Sizes : CtorSized(o, n)
       \/ \E f, l \in Sizes : f <= l /\ CtorRange(o, f, l)
       \/ Destroy(o)
       \/ "clear" \in Ops /\ Clear(o)
       \/ "release" \in Ops /\ Release(o)
       \/ "access" \in Ops /\ \E pos \in Sizes : Access(o, pos)
       \/ \E src \in Objs \ {o} :
            \/ "copy_ctor" \in Ops /\ CopyCtor(o, src)
            \/ "move_ctor" \in Ops /\ MoveCtor(o, src)
            \/ "move_assign" \in Ops /\ MoveAssign(o, src)
            \/ "copy_assign" \in Ops /\ CopyAssign(o, src)
  \/ \E p \in released : DropReleased(p)
  \/ Finished

Spec == Init /\ [][Next]_vars

-----------------------------------------------------------------------------
(* Properties.                                                             *)

TypeOK ==
  /\ st \in [Objs -> {"none", "live", "dead"}]
  /\ size \in [Objs -> Sizes]
  /\ data \in [Objs -> Blocks \cup {Null}]
  /\ heap \in [Blocks -> {"unused", "live", "freed"}]
  /\ cap \in [Blocks -> Sizes]
  /\ released \subseteq Blocks
  /\ faults \subseteq FaultKinds

\* The holders of block b: live arrays pointing at it, and a released
\* unique_ptr.
Holders(b) ==
  Cardinality({o \in Objs : st[o] = "live" /\ data[o] = b})
    + (IF b \in released THEN 1 ELSE 0)

\* No block is ever held by two owners (two arrays, or an array and a
\* released unique_ptr): the move constructor, move assignment and release
\* hand a pointer on and give it up in the same step.
UniqueOwnership == \A b \in Blocks : Holders(b) <= 1

\* No element is ever read through a null or freed m_data: whenever
\* size( ) > 0, m_data is a live block (copy constructor, copy assignment
\* and operator[] all read size( ) elements through it).
NoDanglingRead == "dangling" \notin faults
=============================================================================
