------------------------------- MODULE Ring -------------------------------
(***************************************************************************)
(* The ring buffer of ChannelFrameQueue (src/data/SPSCQueue.cpp): two      *)
(* monotonic counters and a vector of shared_ptr slots indexed modulo the  *)
(* capacity.  This module holds the memory accesses of the queue, one      *)
(* operator per access; the modules that use it decide which thread makes  *)
(* which access when.                                                      *)
(*                                                                         *)
(* The counters are size_t in the code.  They start at 0 and grow by one   *)
(* per frame, so they do not wrap in the life of a process and are         *)
(* naturals here; only the subtraction in size() can leave the naturals    *)
(* (see SPSCQueue!SizeLoadTail).                                           *)
(***************************************************************************)
EXTENDS Integers

CONSTANT QueueSize        \* the constructor argument, spsc.queue_size

ASSUME QueueSizeAssumption == QueueSize \in Nat

\* A frame is the number of the try_push call that offered it, counted from 1.
Frame == Nat \ {0}

\* A reset shared_ptr.
Null == 0

\* The constructor raises a capacity of 0 to 1.
Capacity == IF QueueSize < 1 THEN 1 ELSE QueueSize

Slots == 0 .. Capacity - 1

Index(i) == i % Capacity

EmptyRing == [head |-> 0, tail |-> 0, slot |-> [i \in Slots |-> Null]]

\* Faulty variant: > where the code has >=.
Full_OffByOne(h, t) == h - t > Capacity

\* The test of try_push on the two counters it loaded.
Full(h, t) == h - t >= Capacity

\* Faulty variant: the consumer always leaves one frame behind.
Empty_OffByOne(h, t) == h <= t + 1

\* The test of try_pop on the two counters it loaded.
Empty(h, t) == h = t

\* try_push: the frame is moved into the slot, then the head is stored.
Write(r, h, f) == [r EXCEPT !.slot[Index(h)] = f]
Publish(r, h) == [r EXCEPT !.head = h + 1]

\* try_pop: the pointer is copied out, the slot is nulled by the move and by
\* reset(), then the tail is stored.
Held(r, t) == r.slot[Index(t)]
Clear(r, t) == [r EXCEPT !.slot[Index(t)] = Null]
Release(r, t) == [r EXCEPT !.tail = t + 1]
=============================================================================
