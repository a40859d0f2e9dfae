----------------------------- MODULE SPSCQueue -----------------------------
(***************************************************************************)
(* One ChannelFrameQueue and the threads that touch it, one action per     *)
(* memory access (src/data/SPSCQueue.cpp).                                 *)
(*                                                                         *)
(* The producer is the CaptureEngine thread.  A consumer is any thread     *)
(* that calls try_pop: the DataPublisher thread, and every thread inside   *)
(* DataPipeline::drain (AdminServer workers, main).  An observer is a      *)
(* worker inside check_status, which reads size().                         *)
(*                                                                         *)
(* Interleaving the accesses is exact for one consumer: each counter has   *)
(* one writer and is published with release/acquire.  With two consumers   *)
(* the slot accesses race; the model splits the move out of the slot into  *)
(* its read and its write, so that both threads may leave with the same    *)
(* pointer, and leaves out only worse outcomes (a torn shared_ptr).        *)
(***************************************************************************)
EXTENDS Ring, Sequences

CONSTANTS Consumers,    \* threads that call try_pop
          Observers,    \* threads that call size()
          MaxFrames,    \* bound on the number of try_push calls
          SizeMod       \* 2^w for a size_t of w bits

ASSUME BoundsAssumption == MaxFrames \in Nat /\ SizeMod \in Nat \ {0}

VARIABLES ring,         \* head_, tail_, buffer_
          producer,     \* the producer's place in try_push and its locals
          consumer,     \* each consumer's place in try_pop and its locals
          observer,     \* each observer's place in size() and its result
          offered,      \* try_push calls so far
          pushed,       \* pushed_
          dropped,      \* dropped_
          accepted,     \* history: frames made visible by the head store
          delivered     \* history: frames returned by try_pop, in tail-store order

queueVars == <<ring, producer, consumer, observer, offered, pushed, dropped,
               accepted, delivered>>

Init ==
    /\ ring = EmptyRing
    /\ producer = [pc |-> "idle", h |-> 0, frame |-> Null]
    /\ consumer = [c \in Consumers |-> [pc |-> "idle", t |-> 0, out |-> Null]]
    /\ observer = [o \in Observers |-> [pc |-> "idle", h |-> 0, depth |-> 0]]
    /\ offered = 0 /\ pushed = 0 /\ dropped = 0
    /\ accepted = <<>> /\ delivered = <<>>

-----------------------------------------------------------------------------
(* try_push.  The producer owns head_, so its relaxed load is one step with *)
(* the acquire load of tail_.                                               *)

\* Faulty variant: a full queue drops the oldest frame instead of the newest.
PushRefused_DropOldest ==
    /\ producer.pc = "idle" /\ offered < MaxFrames
    /\ Full(ring.head, ring.tail)
    /\ offered' = offered + 1
    /\ dropped' = dropped + 1
    /\ ring' = Release(ring, ring.tail)
    /\ UNCHANGED <<producer, consumer, observer, pushed, accepted, delivered>>

PushRefused ==
    /\ producer.pc = "idle" /\ offered < MaxFrames
    /\ Full(ring.head, ring.tail)
    /\ offered' = offered + 1
    /\ dropped' = dropped + 1
    /\ UNCHANGED <<ring, producer, consumer, observer, pushed, accepted,
                   delivered>>

\* Faulty variant: the head store is hoisted above the write of the slot.
PushAdmitted_PublishFirst ==
    /\ producer.pc = "idle" /\ offered < MaxFrames
    /\ ~Full(ring.head, ring.tail)
    /\ offered' = offered + 1
    /\ producer' = [pc |-> "write", h |-> ring.head, frame |-> offered + 1]
    /\ ring' = Publish(ring, ring.head)
    /\ UNCHANGED <<consumer, observer, pushed, dropped, accepted, delivered>>

PushAdmitted ==
    /\ producer.pc = "idle" /\ offered < MaxFrames
    /\ ~Full(ring.head, ring.tail)
    /\ offered' = offered + 1
    /\ producer' = [pc |-> "write", h |-> ring.head, frame |-> offered + 1]
    /\ UNCHANGED <<ring, consumer, observer, pushed, dropped, accepted,
                   delivered>>

PushWrite ==
    /\ producer.pc = "write"
    /\ ring' = Write(ring, producer.h, producer.frame)
    /\ producer' = [producer EXCEPT !.pc = "publish"]
    /\ UNCHANGED <<consumer, observer, offered, pushed, dropped, accepted,
                   delivered>>

PushPublish ==
    /\ producer.pc = "publish"
    /\ ring' = Publish(ring, producer.h)
    /\ accepted' = Append(accepted, producer.frame)
    /\ producer' = [producer EXCEPT !.pc = "count"]
    /\ UNCHANGED <<consumer, observer, offered, pushed, dropped, delivered>>

PushCount ==
    /\ producer.pc = "count"
    /\ pushed' = pushed + 1
    /\ producer' = [producer EXCEPT !.pc = "idle"]
    /\ UNCHANGED <<ring, consumer, observer, offered, dropped, accepted,
                   delivered>>

-----------------------------------------------------------------------------
(* try_pop by consumer c.                                                   *)

PopLoadTail(c) ==
    /\ consumer[c].pc = "idle"
    /\ consumer' = [consumer EXCEPT ![c].pc = "head", ![c].t = ring.tail]
    /\ UNCHANGED <<ring, producer, observer, offered, pushed, dropped,
                   accepted, delivered>>

\* Faulty variant: the emptiness test is missing.
PopLoadHead_NoEmptyTest(c) ==
    /\ consumer[c].pc = "head"
    /\ consumer' = [consumer EXCEPT ![c].pc = "take"]
    /\ UNCHANGED <<ring, producer, observer, offered, pushed, dropped,
                   accepted, delivered>>

PopLoadHead(c) ==
    /\ consumer[c].pc = "head"
    /\ consumer' = [consumer EXCEPT
          ![c].pc = IF Empty(ring.head, consumer[c].t) THEN "idle" ELSE "take"]
    /\ UNCHANGED <<ring, producer, observer, offered, pushed, dropped,
                   accepted, delivered>>

PopTake(c) ==
    /\ consumer[c].pc = "take"
    /\ consumer' = [consumer EXCEPT ![c].pc = "clear",
                                    ![c].out = Held(ring, consumer[c].t)]
    /\ UNCHANGED <<ring, producer, observer, offered, pushed, dropped,
                   accepted, delivered>>

PopClear(c) ==
    /\ consumer[c].pc = "clear"
    /\ ring' = Clear(ring, consumer[c].t)
    /\ consumer' = [consumer EXCEPT ![c].pc = "store"]
    /\ UNCHANGED <<producer, observer, offered, pushed, dropped, accepted,
                   delivered>>

PopStore(c) ==
    /\ consumer[c].pc = "store"
    /\ ring' = Release(ring, consumer[c].t)
    /\ delivered' = Append(delivered, consumer[c].out)
    /\ consumer' = [consumer EXCEPT ![c].pc = "idle"]
    /\ UNCHANGED <<producer, observer, offered, pushed, dropped, accepted>>

-----------------------------------------------------------------------------
(* size() by observer o: two loads, then an unsigned subtraction.           *)

SizeLoadHead(o) ==
    /\ observer[o].pc = "idle"
    /\ observer' = [observer EXCEPT ![o].pc = "tail", ![o].h = ring.head]
    /\ UNCHANGED <<ring, producer, consumer, offered, pushed, dropped,
                   accepted, delivered>>

SizeLoadTail(o) ==
    /\ observer[o].pc = "tail"
    /\ observer' = [observer EXCEPT
          ![o].pc = "idle",
          ![o].depth = (observer[o].h - ring.tail) % SizeMod]
    /\ UNCHANGED <<ring, producer, consumer, offered, pushed, dropped,
                   accepted, delivered>>

-----------------------------------------------------------------------------
Push == PushRefused \/ PushAdmitted \/ PushWrite \/ PushPublish \/ PushCount

Pop(c) == \/ PopLoadTail(c) \/ PopLoadHead(c) \/ PopTake(c)
          \/ PopClear(c) \/ PopStore(c)

Size(o) == SizeLoadHead(o) \/ SizeLoadTail(o)

Next == \/ Push
        \/ \E c \in Consumers : Pop(c)
        \/ \E o \in Observers : Size(o)

Spec == Init /\ [][Next]_queueVars

(* A thread inside try_push runs to its end, and the consumer loops around  *)
(* try_pop (DataPublisher::run).  Nothing obliges the producer to push.     *)
FairSpec == /\ Spec
            /\ WF_queueVars(PushWrite \/ PushPublish \/ PushCount)
            /\ \A c \in Consumers : WF_queueVars(Pop(c))

-----------------------------------------------------------------------------
(* Properties.                                                              *)

\* Values of the variables; what try_pop returns is a frame, never a reset
\* pointer, which is what DataPublisher::run and the unit tests rely on.
TypeOK ==
    /\ ring \in [head : Nat, tail : Nat, slot : [Slots -> Frame \cup {Null}]]
    /\ producer \in [pc : {"idle", "write", "publish", "count"},
                     h : Nat, frame : Frame \cup {Null}]
    /\ consumer \in [Consumers -> [pc : {"idle", "head", "take", "clear", "store"},
                                   t : Nat, out : Frame \cup {Null}]]
    /\ observer \in [Observers -> [pc : {"idle", "tail"}, h : Nat, depth : Nat]]
    /\ offered \in Nat /\ pushed \in Nat /\ dropped \in Nat
    /\ accepted \in Seq(Frame)
    /\ delivered \in Seq(Frame)

\* The frames try_pop returns are the frames try_push accepted, in the same
\* order, each once (the claim of a single-producer single-consumer queue).
DeliveredInOrder ==
    /\ Len(delivered) <= Len(accepted)
    /\ \A i \in 1 .. Len(delivered) : delivered[i] = accepted[i]

\* The depth never exceeds the configured capacity.
DepthBounded == ring.head - ring.tail \in 0 .. Capacity

\* When the producer writes a slot it admitted earlier, on a tail it has
\* loaded before, the slot has been handed back by the consumer.
WriteTargetsFreeSlot ==
    producer.pc = "write" => ring.slot[Index(producer.h)] = Null

\* size() loads the head before the tail and subtracts without a sign.  What it
\* reports is a depth the queue can have, or, when frames went through between
\* its loads, a number that has wrapped, and by no more than those frames: a
\* reader can tell the two apart.
ReportedDepthTellsWraps ==
    \A o \in Observers :
        \/ observer[o].depth <= Capacity
        \/ observer[o].depth >= SizeMod - Len(delivered)

\* Every accepted frame is delivered in the end.
AcceptedIsDelivered ==
    \A n \in 1 .. MaxFrames : Len(accepted) >= n ~> Len(delivered) >= n

\* Why the queue is a FIFO although the two sides share no lock.
\* The counters are the lengths of the histories.
CountersAreLengths == ring.head = Len(accepted) /\ ring.tail = Len(delivered)

\* The producer's admission stays valid until it publishes.
AdmissionHolds ==
    /\ producer.pc \in {"write", "publish"} =>
          /\ producer.h = ring.head
          /\ ring.head - ring.tail < Capacity
          /\ producer.frame \in 1 .. MaxFrames
    /\ producer.pc = "publish" => ring.slot[Index(ring.head)] = producer.frame

\* A slot between tail and head holds the frame accepted at that position,
\* except the one try_pop has nulled and not released yet.
OccupiedSlots ==
    \A i \in ring.tail .. ring.head - 1 :
        \/ ring.slot[Index(i)] = accepted[i + 1]
        \/ i = ring.tail /\ \E c \in Consumers : consumer[c].pc = "store"

\* Every other slot is null, except the one written and not published yet.
FreeSlots ==
    \A i \in ring.head .. ring.tail + Capacity - 1 :
        \/ ring.slot[Index(i)] = Null
        \/ i = ring.head /\ producer.pc = "publish"

\* A consumer inside try_pop still owns the tail it loaded.
ConsumerOwnsTail ==
    \A c \in Consumers :
        /\ consumer[c].pc # "idle" => consumer[c].t = ring.tail
        /\ consumer[c].pc \in {"take", "clear", "store"} => ring.tail < ring.head
        /\ consumer[c].pc \in {"clear", "store"} =>
              consumer[c].out = accepted[ring.tail + 1]
        /\ consumer[c].pc = "store" => ring.slot[Index(ring.tail)] = Null

\* The five facts about try_push and try_pop together.
RingInv ==
    /\ CountersAreLengths
    /\ AdmissionHolds
    /\ OccupiedSlots
    /\ FreeSlots
    /\ ConsumerOwnsTail

\* The lock-free queue implements the bounded FIFO with drop-newest.
Fifo == INSTANCE BoundedFifo WITH Frames <- 1 .. MaxFrames,
                                  Bound <- Capacity, refused <- dropped
FifoSpec == Fifo!FifoSpec
=============================================================================
