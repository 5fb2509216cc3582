------------------------------ MODULE BoundedFIFO ------------------------------
(***************************************************************************)
(* What daw::parallel::locking_circular_buffer promises its callers: a     *)
(* first-in first-out queue of at most Cap values.  A push appends to q    *)
(* while there is room; a pop hands the oldest value over, and delivered   *)
(* records, in order, every value handed to a caller.  BlockingBuffer      *)
(* is checked to implement this specification.                             *)
(***************************************************************************)
EXTENDS Naturals, Sequences

CONSTANTS
  Cap,      \* capacity
  Values    \* what may be queued

VARIABLES q, delivered

Init == q = <<>> /\ delivered = <<>>

Put(v) ==
  /\ Len(q) < Cap
  /\ q' = Append(q, v)
  /\ UNCHANGED delivered

Get ==
  /\ q # <<>>
  /\ q' = Tail(q)
  /\ delivered' = Append(delivered, Head(q))

Next == (\E v \in Values : Put(v)) \/ Get

Spec == Init /\ [][Next]_<<q, delivered>>
=============================================================================
