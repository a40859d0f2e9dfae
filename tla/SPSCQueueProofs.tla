-------------------------- MODULE SPSCQueueProofs --------------------------
(***************************************************************************)
(* The queue of SPSCQueue is a bounded FIFO for every capacity, every      *)
(* number of frames and any threads that consume, as long as no two of     *)
(* them are inside try_pop together; a single consumer never is.           *)
(***************************************************************************)
EXTENDS SPSCQueue, TLAPS

-----------------------------------------------------------------------------
(* The ring.                                                                *)

\* The constructor leaves a positive capacity.
LEMMA CapacityPositive == Capacity \in Nat /\ Capacity >= 1
  BY QueueSizeAssumption DEF Capacity

\* The slot of a counter value is in the buffer.
LEMMA IndexInRange == \A i \in Nat : Index(i) \in Slots
  BY CapacityPositive DEF Index, Slots

\* Two counter values less than a capacity apart never share a slot.
LEMMA IndexInjective ==
    ASSUME NEW i \in Nat, NEW j \in Nat, i < j, j < i + Capacity
    PROVE  Index(i) # Index(j)
<1> DEFINE C == Capacity
           p == i \div C
           q == j \div C
<1>1. C \in Nat /\ C >= 1
  BY CapacityPositive
<1> HIDE DEF C
<1>2. p \in Int /\ q \in Int /\ i = C * p + (i % C) /\ j = C * q + (j % C)
  BY <1>1
<1> HIDE DEF p, q
<1>3. CASE q - p <= 0
  <2>1. C * (q - p) <= 0
    BY <1>1, <1>2, <1>3
  <2> QED
    BY <2>1, <1>1, <1>2 DEF Index, C
<1>4. CASE q - p >= 1
  <2>1. C * (q - p) >= C
    BY <1>1, <1>2, <1>4
  <2> QED
    BY <2>1, <1>1, <1>2 DEF Index, C
<1> QED
  BY <1>2, <1>3, <1>4

\* A counter value a whole capacity later is back in the same slot.
LEMMA IndexWraps == \A i \in Nat : Index(i + Capacity) = Index(i)
<1> DEFINE C == Capacity
<1>1. C \in Nat /\ C >= 1
  BY CapacityPositive
<1> HIDE DEF C
<1> SUFFICES ASSUME NEW i \in Nat
             PROVE  (i + C) % C = i % C
  BY DEF Index, C
<1> DEFINE p == i \div C
           q == (i + C) \div C
<1>2. /\ p \in Int /\ i = C * p + (i % C) /\ i % C \in 0 .. C - 1
      /\ q \in Int /\ i + C = C * q + ((i + C) % C) /\ (i + C) % C \in 0 .. C - 1
  BY <1>1
<1> HIDE DEF p, q
<1>3. CASE q - p <= 0
  BY <1>1, <1>2, <1>3
<1>4. CASE q - p >= 2
  <2>1. C * (q - p) >= 2 * C
    BY <1>1, <1>2, <1>4
  <2> QED
    BY <1>1, <1>2, <2>1
<1>5. CASE q - p = 1
  BY <1>1, <1>2, <1>5
<1> QED
  BY <1>2, <1>3, <1>4, <1>5

Rings == [head : Nat, tail : Nat, slot : [Slots -> Frame \cup {Null}]]

\* What each access to the ring changes, and that it stays a ring.
LEMMA WriteRing ==
    ASSUME NEW r \in Rings, NEW h \in Nat, NEW f \in Frame
    PROVE  /\ Write(r, h, f) \in Rings
           /\ Write(r, h, f).head = r.head
           /\ Write(r, h, f).tail = r.tail
           /\ Write(r, h, f).slot = [r.slot EXCEPT ![Index(h)] = f]
  BY IndexInRange DEF Rings, Write

LEMMA PublishRing ==
    ASSUME NEW r \in Rings, NEW h \in Nat
    PROVE  /\ Publish(r, h) \in Rings
           /\ Publish(r, h).head = h + 1
           /\ Publish(r, h).tail = r.tail
           /\ Publish(r, h).slot = r.slot
  BY DEF Rings, Publish

LEMMA ClearRing ==
    ASSUME NEW r \in Rings, NEW t \in Nat
    PROVE  /\ Clear(r, t) \in Rings
           /\ Clear(r, t).head = r.head
           /\ Clear(r, t).tail = r.tail
           /\ Clear(r, t).slot = [r.slot EXCEPT ![Index(t)] = Null]
  BY IndexInRange DEF Rings, Clear

LEMMA ReleaseRing ==
    ASSUME NEW r \in Rings, NEW t \in Nat
    PROVE  /\ Release(r, t) \in Rings
           /\ Release(r, t).head = r.head
           /\ Release(r, t).tail = t + 1
           /\ Release(r, t).slot = r.slot
  BY DEF Rings, Release

-----------------------------------------------------------------------------
(* The inductive invariant, for consumers that take turns.                  *)

\* No two threads are inside try_pop at the same time.
PopsInTurn ==
    \A c, d \in Consumers :
        consumer[c].pc # "idle" /\ consumer[d].pc # "idle" => c = d

IInv == TypeOK /\ RingInv /\ DepthBounded /\ DeliveredInOrder

LEMMA InitIInv ==
    ASSUME Init
    PROVE  IInv
<1>1. Capacity \in Nat /\ Capacity >= 1
  BY CapacityPositive
<1>2. TypeOK
  BY <1>1 DEF Init, TypeOK, EmptyRing, Frame, Null
<1>3. \A i \in 0 .. Capacity - 1 : Index(i) \in Slots
  BY <1>1, IndexInRange
<1>4. RingInv
  BY <1>1, <1>3 DEF Init, RingInv, CountersAreLengths, AdmissionHolds, OccupiedSlots,
         FreeSlots, ConsumerOwnsTail, EmptyRing, Null
<1> QED
  BY <1>1, <1>2, <1>4 DEF IInv, Init, EmptyRing, DepthBounded, DeliveredInOrder

\* The parts of the type invariant, named so that a step can be checked part
\* by part.
ProducerState == [pc : {"idle", "write", "publish", "count"},
                  h : Nat, frame : Frame \cup {Null}]
ConsumerState == [pc : {"idle", "head", "take", "clear", "store"},
                  t : Nat, out : Frame \cup {Null}]
ObserverState == [pc : {"idle", "tail"}, h : Nat, depth : Nat]

LEMMA TypeParts ==
    ASSUME TypeOK
    PROVE  /\ ring \in Rings /\ producer \in ProducerState
           /\ consumer \in [Consumers -> ConsumerState]
           /\ observer \in [Observers -> ObserverState]
           /\ offered \in Nat /\ pushed \in Nat /\ dropped \in Nat
           /\ accepted \in Seq(Frame) /\ delivered \in Seq(Frame)
  BY DEF TypeOK, Rings, ProducerState, ConsumerState, ObserverState

LEMMA TypePartsPrimed ==
    ASSUME ring' \in Rings, producer' \in ProducerState,
           consumer' \in [Consumers -> ConsumerState],
           observer' \in [Observers -> ObserverState],
           offered' \in Nat, pushed' \in Nat, dropped' \in Nat,
           accepted' \in Seq(Frame), delivered' \in Seq(Frame)
    PROVE  TypeOK'
  BY DEF TypeOK, Rings, ProducerState, ConsumerState, ObserverState

\* Type correctness of a step.  A pop appends a frame because the slot below
\* the head held one.
LEMMA TypeStep ==
    ASSUME IInv, Next
    PROVE  TypeOK'
<1>0. /\ ring \in Rings /\ producer \in ProducerState
      /\ consumer \in [Consumers -> ConsumerState]
      /\ observer \in [Observers -> ObserverState]
      /\ offered \in Nat /\ pushed \in Nat /\ dropped \in Nat
      /\ accepted \in Seq(Frame) /\ delivered \in Seq(Frame)
  BY TypeParts DEF IInv
<1>r. /\ ring.head \in Nat /\ ring.tail \in Nat
      /\ ring.slot \in [Slots -> Frame \cup {Null}]
  BY <1>0 DEF Rings
<1>p. producer.h \in Nat
  BY <1>0 DEF ProducerState
<1>c. \A c \in Consumers : consumer[c].t \in Nat
  BY <1>0 DEF ConsumerState
<1>1. CASE PushRefused
  BY <1>0, <1>1, TypePartsPrimed DEF PushRefused
<1>2. CASE PushAdmitted
  <2>1. producer' \in ProducerState
    BY <1>0, <1>r, <1>2 DEF PushAdmitted, ProducerState, Frame
  <2> QED
    BY <1>0, <1>2, <2>1, TypePartsPrimed DEF PushAdmitted
<1>3. CASE PushWrite
  <2>1. producer' \in ProducerState
    BY <1>0, <1>3 DEF PushWrite, ProducerState
  <2>2. producer.frame \in Frame
    BY <1>3, BoundsAssumption
       DEF PushWrite, IInv, RingInv, AdmissionHolds, Frame
  <2>3. ring' \in Rings
    BY <1>0, <1>p, <1>3, <2>2, WriteRing DEF PushWrite
  <2> QED
    BY <1>0, <1>3, <2>1, <2>3, TypePartsPrimed DEF PushWrite
<1>4. CASE PushPublish
  <2>1. producer.frame \in Frame
    BY <1>4, BoundsAssumption
       DEF PushPublish, IInv, RingInv, AdmissionHolds, Frame
  <2>2. ring' \in Rings
    BY <1>0, <1>p, <1>4, PublishRing DEF PushPublish
  <2>3. producer' \in ProducerState
    BY <1>0, <1>4 DEF PushPublish, ProducerState
  <2>4. accepted' \in Seq(Frame)
    BY <1>0, <1>4, <2>1 DEF PushPublish
  <2> QED
    BY <1>0, <1>4, <2>2, <2>3, <2>4, TypePartsPrimed DEF PushPublish
<1>5. CASE PushCount
  <2>1. producer' \in ProducerState
    BY <1>0, <1>5 DEF PushCount, ProducerState
  <2> QED
    BY <1>0, <1>5, <2>1, TypePartsPrimed DEF PushCount
<1>6. ASSUME NEW c \in Consumers, PopLoadTail(c)
      PROVE  TypeOK'
  <2> DEFINE s == [consumer[c] EXCEPT !.pc = "head", !.t = ring.tail]
  <2>0. s \in ConsumerState
    BY <1>0, <1>r DEF ConsumerState
  <2>2. consumer' = [consumer EXCEPT ![c] = s]
    BY <1>6 DEF PopLoadTail
  <2> HIDE DEF s
  <2>1. consumer' \in [Consumers -> ConsumerState]
    BY <1>0, <2>0, <2>2
  <2> QED
    BY <1>0, <1>6, <2>1, TypePartsPrimed DEF PopLoadTail
<1>7. ASSUME NEW c \in Consumers, PopLoadHead(c)
      PROVE  TypeOK'
  <2>1. consumer' \in [Consumers -> ConsumerState]
    BY <1>0, <1>7 DEF PopLoadHead, ConsumerState
  <2> QED
    BY <1>0, <1>7, <2>1, TypePartsPrimed DEF PopLoadHead
<1>8. ASSUME NEW c \in Consumers, PopTake(c)
      PROVE  TypeOK'
  <2>1. Held(ring, consumer[c].t) \in Frame \cup {Null}
    BY <1>r, <1>c, IndexInRange DEF Held
  <2>2. consumer' \in [Consumers -> ConsumerState]
    BY <1>0, <1>8, <2>1 DEF PopTake, ConsumerState
  <2> QED
    BY <1>0, <1>8, <2>2, TypePartsPrimed DEF PopTake
<1>9. ASSUME NEW c \in Consumers, PopClear(c)
      PROVE  TypeOK'
  <2>1. consumer' \in [Consumers -> ConsumerState]
    BY <1>0, <1>9 DEF PopClear, ConsumerState
  <2>2. ring' \in Rings
    BY <1>0, <1>c, <1>9, ClearRing DEF PopClear
  <2> QED
    BY <1>0, <1>9, <2>1, <2>2, TypePartsPrimed DEF PopClear
<1>10. ASSUME NEW c \in Consumers, PopStore(c)
       PROVE  TypeOK'
  <2>1. consumer[c].out \in Frame
    <3>1. ring.tail < ring.head /\ consumer[c].out = accepted[ring.tail + 1]
      BY <1>10 DEF PopStore, IInv, RingInv, ConsumerOwnsTail
    <3>2. ring.tail + 1 \in 1 .. Len(accepted)
      BY <1>r, <3>1 DEF IInv, RingInv, CountersAreLengths
    <3> QED
      BY <1>0, <3>1, <3>2
  <2>2. ring' \in Rings
    BY <1>0, <1>c, <1>10, ReleaseRing DEF PopStore
  <2>3. consumer' \in [Consumers -> ConsumerState]
    BY <1>0, <1>10 DEF PopStore, ConsumerState
  <2>4. delivered' \in Seq(Frame)
    BY <1>0, <1>10, <2>1 DEF PopStore
  <2> QED
    BY <1>0, <1>10, <2>2, <2>3, <2>4, TypePartsPrimed DEF PopStore
<1>11. ASSUME NEW o \in Observers, SizeLoadHead(o)
       PROVE  TypeOK'
  <2>1. observer' \in [Observers -> ObserverState]
    BY <1>0, <1>r, <1>11 DEF SizeLoadHead, ObserverState
  <2> QED
    BY <1>0, <1>11, <2>1, TypePartsPrimed DEF SizeLoadHead
<1>12. ASSUME NEW o \in Observers, SizeLoadTail(o)
       PROVE  TypeOK'
  <2> DEFINE depth == (observer[o].h - ring.tail) % SizeMod
  <2>1. depth \in Nat
    <3>1. observer[o].h \in Nat
      BY <1>0 DEF ObserverState
    <3> QED
      BY <1>r, <3>1, BoundsAssumption
  <2>2. observer' = [observer EXCEPT ![o].pc = "idle", ![o].depth = depth]
    BY <1>12 DEF SizeLoadTail
  <2> HIDE DEF depth
  <2>3. observer' \in [Observers -> ObserverState]
    BY <1>0, <2>1, <2>2 DEF ObserverState
  <2> QED
    BY <1>0, <1>12, <2>3, TypePartsPrimed DEF SizeLoadTail
<1> QED
  BY <1>1, <1>2, <1>3, <1>4, <1>5, <1>6, <1>7, <1>8, <1>9, <1>10, <1>11, <1>12
     DEF Next, Push, Pop, Size

\* The queue's side of a step by the producer or by the consumer whose turn it is.
LEMMA RingStep ==
    ASSUME PopsInTurn, IInv, Next
    PROVE  RingInv' /\ DepthBounded' /\ DeliveredInOrder'
<1> DEFINE h == ring.head
           t == ring.tail
           S == ring.slot
           Parts == /\ CountersAreLengths /\ AdmissionHolds /\ OccupiedSlots
                    /\ FreeSlots /\ ConsumerOwnsTail
                    /\ DepthBounded /\ DeliveredInOrder
<1>1. /\ ring \in Rings /\ h \in Nat /\ t \in Nat
      /\ h = Len(accepted) /\ t = Len(delivered)
      /\ accepted \in Seq(Frame) /\ delivered \in Seq(Frame)
      /\ t <= h /\ h <= t + Capacity
      /\ S \in [Slots -> Frame \cup {Null}]
      /\ Capacity \in Nat /\ Capacity >= 1
  BY CapacityPositive
     DEF IInv, TypeOK, RingInv, CountersAreLengths, DepthBounded, Rings
<1>2. /\ consumer \in [Consumers -> ConsumerState]
      /\ producer \in [pc : {"idle", "write", "publish", "count"},
                       h : Nat, frame : Frame \cup {Null}]
  BY TypeParts DEF IInv, ProducerState
<1>3. Parts
  BY DEF IInv, RingInv
<1>4. CASE PushRefused \/ PushCount
  <2>1. UNCHANGED <<ring, consumer, accepted, delivered>>
    BY <1>4 DEF PushRefused, PushCount
  <2>2. AdmissionHolds'
    <3>1. CASE PushRefused
      BY <1>3, <3>1 DEF PushRefused, AdmissionHolds
    <3>2. CASE PushCount
      BY <1>2, <3>2 DEF PushCount, AdmissionHolds
    <3> QED
      BY <1>4, <3>1, <3>2
  <2>3. OccupiedSlots' /\ ConsumerOwnsTail'
    BY <1>3, <2>1 DEF OccupiedSlots, ConsumerOwnsTail
  <2>4. FreeSlots'
    <3>1. producer.pc # "publish"
      BY <1>4 DEF PushRefused, PushCount
    <3> QED
      BY <1>3, <2>1, <3>1 DEF FreeSlots
  <2>5. CountersAreLengths' /\ DepthBounded' /\ DeliveredInOrder'
    BY <1>3, <2>1 DEF CountersAreLengths, DepthBounded, DeliveredInOrder
  <2> QED
    BY <2>2, <2>3, <2>4, <2>5 DEF RingInv
<1>5. CASE PushAdmitted
  <2>1. h - t < Capacity
    BY <1>1, <1>5 DEF PushAdmitted, Full
  <2>2. offered + 1 \in 1 .. MaxFrames
    BY <1>5, BoundsAssumption DEF PushAdmitted, IInv, TypeOK
  <2>3. /\ UNCHANGED <<ring, consumer, accepted, delivered>>
        /\ producer.pc = "idle"
        /\ producer' = [pc |-> "write", h |-> h, frame |-> offered + 1]
    BY <1>5 DEF PushAdmitted
  <2>4. AdmissionHolds'
    BY <1>1, <2>1, <2>2, <2>3 DEF AdmissionHolds
  <2> QED
    BY <1>3, <2>3, <2>4
       DEF CountersAreLengths, OccupiedSlots, FreeSlots, ConsumerOwnsTail,
           DepthBounded, DeliveredInOrder, RingInv
<1>6. CASE PushWrite
  <2>1. /\ producer.h = h /\ h < t + Capacity /\ producer.frame \in 1 .. MaxFrames
        /\ producer.frame \in Frame
    BY <1>1, <1>3, <1>6, BoundsAssumption DEF AdmissionHolds, PushWrite, Frame
  <2>2. /\ ring'.head = h /\ ring'.tail = t
        /\ ring'.slot = [S EXCEPT ![Index(h)] = producer.frame]
    <3>1. ring' = Write(ring, h, producer.frame)
      BY <1>6, <2>1 DEF PushWrite
    <3> QED
      BY <1>1, <2>1, <3>1, WriteRing
  <2>3. /\ producer'.pc = "publish" /\ producer'.h = producer.h
        /\ producer'.frame = producer.frame
    BY <1>2, <1>6 DEF PushWrite
  <2>4. UNCHANGED <<consumer, accepted, delivered>>
    BY <1>6 DEF PushWrite
  <2>5. ring'.slot[Index(h)] = producer.frame
    BY <1>1, <2>2, IndexInRange
  <2>6. \A i \in t .. h - 1 : ring'.slot[Index(i)] = S[Index(i)]
    <3> TAKE i \in t .. h - 1
    <3>1. i \in Nat /\ Index(i) # Index(h)
      BY <1>1, <2>1, IndexInjective
    <3> QED
      BY <1>1, <2>2, <3>1, IndexInRange
  <2>7. \A i \in h + 1 .. t + Capacity - 1 : ring'.slot[Index(i)] = S[Index(i)]
    <3> TAKE i \in h + 1 .. t + Capacity - 1
    <3>1. i \in Nat /\ Index(i) # Index(h)
      BY <1>1, <2>1, IndexInjective
    <3> QED
      BY <1>1, <2>2, <3>1, IndexInRange
  <2>8. CountersAreLengths' /\ DepthBounded' /\ DeliveredInOrder'
    BY <1>3, <2>2, <2>4 DEF CountersAreLengths, DepthBounded, DeliveredInOrder
  <2>9. AdmissionHolds'
    BY <1>1, <2>1, <2>2, <2>3, <2>5 DEF AdmissionHolds
  <2>10. OccupiedSlots'
    BY <1>3, <2>2, <2>4, <2>6 DEF OccupiedSlots
  <2>11. FreeSlots'
    BY <1>1, <1>3, <1>6, <2>2, <2>3, <2>7 DEF FreeSlots, PushWrite
  <2>12. ConsumerOwnsTail'
    BY <1>1, <1>3, <2>2, <2>4, <2>6 DEF ConsumerOwnsTail
  <2> QED
    BY <2>8, <2>9, <2>10, <2>11, <2>12 DEF RingInv
<1>7. CASE PushPublish
  <2>1. /\ producer.h = h /\ h < t + Capacity /\ producer.frame \in Frame
        /\ S[Index(h)] = producer.frame /\ producer.pc = "publish"
    BY <1>1, <1>3, <1>7, BoundsAssumption DEF AdmissionHolds, PushPublish, Frame
  <2>2. ring'.head = h + 1 /\ ring'.tail = t /\ ring'.slot = S
    <3>1. ring' = Publish(ring, h)
      BY <1>7, <2>1 DEF PushPublish
    <3> QED
      BY <1>1, <3>1, PublishRing
  <2>3. /\ Len(accepted') = h + 1
        /\ \A i \in 1 .. h : accepted'[i] = accepted[i]
        /\ accepted'[h + 1] = producer.frame
    BY <1>1, <1>7, <2>1 DEF PushPublish
  <2>4. producer'.pc = "count" /\ UNCHANGED <<consumer, delivered>>
    BY <1>2, <1>7 DEF PushPublish
  <2>5. CountersAreLengths' /\ DepthBounded'
    BY <1>1, <2>1, <2>2, <2>3, <2>4 DEF CountersAreLengths, DepthBounded
  <2>6. DeliveredInOrder'
    BY <1>1, <1>3, <2>3, <2>4 DEF DeliveredInOrder
  <2>7. AdmissionHolds'
    BY <2>4 DEF AdmissionHolds
  <2>8. OccupiedSlots'
    <3> SUFFICES ASSUME NEW i \in t .. h
                 PROVE  \/ S[Index(i)] = accepted'[i + 1]
                        \/ i = t /\ \E d \in Consumers : consumer[d].pc = "store"
      BY <2>2, <2>4, <1>1 DEF OccupiedSlots
    <3>1. CASE i = h
      BY <2>1, <2>3, <3>1
    <3>2. CASE i \in t .. h - 1
      <4>1. accepted'[i + 1] = accepted[i + 1]
        BY <1>1, <2>3, <3>2
      <4> QED
        BY <1>3, <3>2, <4>1 DEF OccupiedSlots
    <3> QED
      BY <1>1, <3>1, <3>2
  <2>9. FreeSlots'
    BY <1>1, <1>3, <2>1, <2>2, <2>4 DEF FreeSlots
  <2>10. ConsumerOwnsTail'
    BY <1>1, <1>3, <2>2, <2>3, <2>4 DEF ConsumerOwnsTail
  <2> QED
    BY <2>5, <2>6, <2>7, <2>8, <2>9, <2>10 DEF RingInv
<1>8. ASSUME NEW c \in Consumers, PopLoadTail(c) \/ PopLoadHead(c)
      PROVE  RingInv' /\ DepthBounded' /\ DeliveredInOrder'
  <2>1. /\ UNCHANGED <<ring, producer, accepted, delivered>>
        /\ consumer'[c].pc \in {"head", "idle", "take"}
        /\ consumer'[c].pc # "idle" => consumer'[c].t = t
        /\ consumer'[c].pc = "take" => t < h
    BY <1>1, <1>2, <1>3, <1>8
       DEF ConsumerOwnsTail, PopLoadTail, PopLoadHead, Empty, ConsumerState
  <2>2. /\ \A d \in Consumers : d # c => consumer'[d] = consumer[d]
        /\ consumer[c].pc # "store"
    BY <1>2, <1>8 DEF PopLoadTail, PopLoadHead
  <2>3. ConsumerOwnsTail'
    BY <1>1, <1>3, <2>1, <2>2 DEF ConsumerOwnsTail
  <2>4. OccupiedSlots'
    BY <1>1, <1>3, <2>1, <2>2 DEF OccupiedSlots
  <2> QED
    BY <1>3, <2>1, <2>3, <2>4
       DEF CountersAreLengths, AdmissionHolds, FreeSlots, DepthBounded,
           DeliveredInOrder, RingInv
<1>9. ASSUME NEW c \in Consumers, PopTake(c)
      PROVE  RingInv' /\ DepthBounded' /\ DeliveredInOrder'
  <2>0. /\ \A d \in Consumers : d # c => consumer'[d] = consumer[d] /\ consumer[d].pc = "idle"
        /\ consumer[c] \in ConsumerState
    BY <1>2, <1>9 DEF PopTake, PopsInTurn
  <2>1. consumer[c].t = t /\ t < h /\ consumer[c].pc = "take"
    BY <1>3, <1>9 DEF ConsumerOwnsTail, PopTake
  <2>2. S[Index(t)] = accepted[t + 1]
    BY <1>1, <1>3, <2>0, <2>1 DEF OccupiedSlots
  <2>3. /\ UNCHANGED <<ring, producer, accepted, delivered>>
        /\ consumer'[c].pc = "clear" /\ consumer'[c].t = t
        /\ consumer'[c].out = accepted[t + 1]
    BY <1>2, <1>9, <2>1, <2>2 DEF PopTake, Held, ConsumerState
  <2>4. ConsumerOwnsTail'
    BY <1>1, <2>0, <2>1, <2>3 DEF ConsumerOwnsTail
  <2>5. OccupiedSlots'
    BY <1>1, <1>3, <2>0, <2>1, <2>3 DEF OccupiedSlots
  <2> QED
    BY <1>3, <2>3, <2>4, <2>5
       DEF CountersAreLengths, AdmissionHolds, FreeSlots, DepthBounded,
           DeliveredInOrder, RingInv
<1>10. ASSUME NEW c \in Consumers, PopClear(c)
      PROVE  RingInv' /\ DepthBounded' /\ DeliveredInOrder'
  <2>0. /\ \A d \in Consumers : d # c => consumer'[d] = consumer[d] /\ consumer[d].pc = "idle"
        /\ consumer[c] \in ConsumerState
    BY <1>2, <1>10 DEF PopClear, PopsInTurn
  <2>1. /\ consumer[c].t = t /\ t < h /\ consumer[c].pc = "clear"
        /\ consumer[c].out = accepted[t + 1]
    BY <1>3, <1>10 DEF ConsumerOwnsTail, PopClear
  <2>2. /\ ring'.head = h /\ ring'.tail = t
        /\ ring'.slot = [S EXCEPT ![Index(t)] = Null]
    <3>1. ring' = Clear(ring, t)
      BY <1>10, <2>1 DEF PopClear
    <3> QED
      BY <1>1, <3>1, ClearRing
  <2>3. \A i \in t + 1 .. t + Capacity - 1 : ring'.slot[Index(i)] = S[Index(i)]
    <3> TAKE i \in t + 1 .. t + Capacity - 1
    <3>1. i \in Nat /\ Index(i) # Index(t)
      BY <1>1, IndexInjective
    <3> QED
      BY <1>1, <2>2, <3>1, IndexInRange
  <2>4. ring'.slot[Index(t)] = Null
    BY <1>1, <2>2, IndexInRange
  <2>5. /\ UNCHANGED <<producer, accepted, delivered>>
        /\ consumer'[c].pc = "store" /\ consumer'[c].t = t
        /\ consumer'[c].out = accepted[t + 1]
    BY <1>2, <1>10, <2>0, <2>1 DEF PopClear, ConsumerState
  <2>6. CountersAreLengths' /\ DepthBounded' /\ DeliveredInOrder'
    BY <1>3, <2>2, <2>5 DEF CountersAreLengths, DepthBounded, DeliveredInOrder
  <2>7. AdmissionHolds'
    <3>1. producer.pc \in {"write", "publish"} => h \in t + 1 .. t + Capacity - 1
      BY <1>1, <1>3, <2>1 DEF AdmissionHolds
    <3>2. producer.pc = "publish" => ring'.slot[Index(h)] = S[Index(h)]
      BY <2>3, <3>1
    <3> QED
      BY <1>3, <2>2, <2>5, <3>2 DEF AdmissionHolds
  <2>8. OccupiedSlots'
    <3> SUFFICES ASSUME NEW i \in t .. h - 1, i # t
                 PROVE  ring'.slot[Index(i)] = accepted[i + 1]
      BY <2>2, <2>5 DEF OccupiedSlots
    <3>1. i \in t + 1 .. t + Capacity - 1
      BY <1>1
    <3>2. S[Index(i)] = accepted[i + 1]
      BY <1>3, <2>0, <2>1 DEF OccupiedSlots
    <3> QED
      BY <2>3, <3>1, <3>2
  <2>9. FreeSlots'
    BY <1>1, <1>3, <2>1, <2>2, <2>3, <2>5 DEF FreeSlots
  <2>10. ConsumerOwnsTail'
    BY <1>1, <2>0, <2>1, <2>2, <2>4, <2>5 DEF ConsumerOwnsTail
  <2> QED
    BY <2>6, <2>7, <2>8, <2>9, <2>10 DEF RingInv
<1>11. ASSUME NEW c \in Consumers, PopStore(c)
      PROVE  RingInv' /\ DepthBounded' /\ DeliveredInOrder'
  <2>0. /\ \A d \in Consumers : d # c => consumer'[d] = consumer[d] /\ consumer[d].pc = "idle"
        /\ consumer[c] \in ConsumerState
    BY <1>2, <1>11 DEF PopStore, PopsInTurn
  <2>1. /\ consumer[c].t = t /\ t < h /\ consumer[c].pc = "store"
        /\ consumer[c].out = accepted[t + 1] /\ S[Index(t)] = Null
        /\ consumer[c].out \in Frame
    BY <1>1, <1>3, <1>11 DEF ConsumerOwnsTail, PopStore
  <2>2. ring'.head = h /\ ring'.tail = t + 1 /\ ring'.slot = S
    <3>1. ring' = Release(ring, t)
      BY <1>11, <2>1 DEF PopStore
    <3> QED
      BY <1>1, <3>1, ReleaseRing
  <2>3. S[Index(t + Capacity)] = Null
    BY <1>1, <2>1, IndexWraps
  <2>4. /\ Len(delivered') = t + 1
        /\ \A i \in 1 .. t : delivered'[i] = delivered[i]
        /\ delivered'[t + 1] = accepted[t + 1]
    BY <1>1, <1>11, <2>1 DEF PopStore
  <2>5. UNCHANGED <<producer, accepted>> /\ consumer'[c].pc = "idle"
    BY <1>2, <1>11 DEF PopStore, ConsumerState
  <2>6. CountersAreLengths' /\ DepthBounded'
    BY <1>1, <2>1, <2>2, <2>4, <2>5 DEF CountersAreLengths, DepthBounded
  <2>7. DeliveredInOrder'
    BY <1>1, <1>3, <2>1, <2>4, <2>5 DEF DeliveredInOrder
  <2>8. AdmissionHolds'
    BY <1>1, <1>3, <2>2, <2>5 DEF AdmissionHolds
  <2>9. OccupiedSlots'
    <3> SUFFICES ASSUME NEW i \in t + 1 .. h - 1
                 PROVE  S[Index(i)] = accepted[i + 1]
      BY <2>2, <2>5 DEF OccupiedSlots
    <3>1. i \in t .. h - 1 /\ i # t
      BY <1>1
    <3> QED
      BY <1>3, <3>1 DEF OccupiedSlots
  <2>10. FreeSlots'
    <3> SUFFICES ASSUME NEW i \in h .. t + Capacity
                 PROVE  S[Index(i)] = Null \/ (i = h /\ producer.pc = "publish")
      BY <2>2, <2>5, <1>1 DEF FreeSlots
    <3>1. CASE i = t + Capacity
      BY <2>3, <3>1
    <3>2. CASE i \in h .. t + Capacity - 1
      BY <1>3, <3>2 DEF FreeSlots
    <3> QED
      BY <1>1, <3>1, <3>2
  <2>11. ConsumerOwnsTail'
    BY <1>1, <2>0, <2>5 DEF ConsumerOwnsTail
  <2> QED
    BY <2>6, <2>7, <2>8, <2>9, <2>10, <2>11 DEF RingInv
<1>12. ASSUME NEW o \in Observers, Size(o)
       PROVE  RingInv' /\ DepthBounded' /\ DeliveredInOrder'
  <2>1. UNCHANGED <<ring, producer, consumer, accepted, delivered>>
    BY <1>12 DEF Size, SizeLoadHead, SizeLoadTail
  <2> QED
    BY <1>3, <2>1
       DEF CountersAreLengths, AdmissionHolds, OccupiedSlots, FreeSlots,
           ConsumerOwnsTail, DepthBounded, DeliveredInOrder, RingInv
<1> QED
  BY <1>4, <1>5, <1>6, <1>7, <1>8, <1>9, <1>10, <1>11, <1>12 DEF Next, Push, Pop

\* The queue with consumers that take turns.
InTurnSpec == Spec /\ []PopsInTurn

\* IInv is inductive.
LEMMA StepIInv ==
    ASSUME PopsInTurn, IInv, [Next]_queueVars
    PROVE  IInv'
<1>1. CASE Next
  BY <1>1, TypeStep, RingStep DEF IInv
<1>2. CASE UNCHANGED queueVars
  BY <1>2 DEF queueVars, IInv, TypeOK, RingInv, CountersAreLengths,
              AdmissionHolds, OccupiedSlots, FreeSlots, ConsumerOwnsTail,
              DepthBounded, DeliveredInOrder
<1> QED
  BY <1>1, <1>2

LEMMA AlwaysIInv == InTurnSpec => []IInv
<1>1. Init => IInv
  BY InitIInv
<1>2. PopsInTurn /\ IInv /\ [Next]_queueVars => IInv'
  BY StepIInv
<1> QED
  BY <1>1, <1>2, PTL DEF InTurnSpec, Spec

-----------------------------------------------------------------------------
(* The theorems.  Each supposes that the pops take turns.  A single         *)
(* consumer does so by itself, which is what the code has whenever no       *)
(* thread is inside DataPipeline::drain; of several consumers it is what    *)
(* the callers of try_pop would have to see to, and all they would have to. *)

THEOREM OneConsumerTakesTurns ==
    ASSUME NEW CONSTANT c, Consumers = {c}
    PROVE  Spec => InTurnSpec
<1>1. PopsInTurn
  BY DEF PopsInTurn
<1> QED
  BY <1>1, PTL DEF InTurnSpec

\* try_push and try_pop keep the types, and try_pop never returns a reset
\* pointer.
THEOREM TypeCorrect == InTurnSpec => []TypeOK
<1>1. IInv => TypeOK
  BY DEF IInv
<1> QED
  BY <1>1, AlwaysIInv, PTL

\* head_ never runs more than a capacity ahead of tail_.
THEOREM DepthIsBounded == InTurnSpec => []DepthBounded
<1>1. IInv => DepthBounded
  BY DEF IInv
<1> QED
  BY <1>1, AlwaysIInv, PTL

\* Frames leave the queue in the order they entered it, each once.
THEOREM OrderPreserved == InTurnSpec => []DeliveredInOrder
<1>1. IInv => DeliveredInOrder
  BY DEF IInv
<1> QED
  BY <1>1, AlwaysIInv, PTL

\* The slot try_push overwrites is one try_pop has handed back.
THEOREM WritesFreeSlot == InTurnSpec => []WriteTargetsFreeSlot
<1>1. IInv => WriteTargetsFreeSlot
  <2> SUFFICES ASSUME IInv, producer.pc = "write"
               PROVE  ring.slot[Index(producer.h)] = Null
    BY DEF WriteTargetsFreeSlot
  <2>1. /\ ring.head \in Nat /\ ring.tail \in Nat /\ Capacity \in Nat
        /\ producer.h = ring.head /\ ring.head < ring.tail + Capacity
    BY CapacityPositive DEF IInv, TypeOK, RingInv, AdmissionHolds
  <2>2. ring.head \in ring.head .. ring.tail + Capacity - 1
    BY <2>1
  <2> QED
    BY <2>1, <2>2 DEF IInv, RingInv, FreeSlots
<1> QED
  BY <1>1, AlwaysIInv, PTL

\* The five facts about the accesses of try_push and try_pop hold together.
THEOREM RingInvariant == InTurnSpec => []RingInv
<1>1. IInv => RingInv
  BY DEF IInv
<1> QED
  BY <1>1, AlwaysIInv, PTL

-----------------------------------------------------------------------------
(* size().                                                                  *)

\* An unsigned difference is small, or wrapped by no more than the amount by
\* which it went below zero.
LEMMA WrapBound ==
    ASSUME NEW x \in Int, x <= Capacity, NEW n \in Nat, 0 - n <= x
    PROVE  x % SizeMod <= Capacity \/ x % SizeMod >= SizeMod - n
<1> DEFINE M == SizeMod
           q == x \div M
           r == x % M
<1>1. M \in Nat /\ M >= 1 /\ Capacity \in Nat
  BY BoundsAssumption, CapacityPositive
<1> HIDE DEF M
<1>2. q \in Int /\ r \in 0 .. M - 1 /\ x = M * q + r
  BY <1>1
<1> HIDE DEF q, r
<1>3. CASE q >= 0
  <2>1. M * q >= 0
    BY <1>1, <1>2, <1>3
  <2> QED
    BY <1>1, <1>2, <2>1 DEF M, r
<1>4. CASE q <= 0 - 1
  <2>1. M * q <= 0 - M
    BY <1>1, <1>2, <1>4
  <2>2. r >= M - n
    BY <1>1, <1>2, <2>1
  <2> QED
    BY <2>2 DEF M, r
<1> QED
  BY <1>2, <1>3, <1>4

\* A head that size() has loaded is at most a capacity above the tail, which
\* only grows.
LoadedHeads ==
    \A o \in Observers :
        observer[o].pc = "tail" => observer[o].h <= ring.tail + Capacity

LEMMA LoadedHeadsStep ==
    ASSUME IInv, IInv', [Next]_queueVars,
           LoadedHeads, ReportedDepthTellsWraps
    PROVE  LoadedHeads' /\ ReportedDepthTellsWraps'
<1>1. /\ ring.head \in Nat /\ ring.tail \in Nat /\ ring'.tail \in Nat
      /\ Capacity \in Nat /\ SizeMod \in Nat /\ SizeMod >= 1
      /\ ring.tail = Len(delivered) /\ ring'.tail = Len(delivered')
      /\ ring.head <= ring.tail + Capacity
      /\ observer \in [Observers -> ObserverState]
  <2>1. ring \in Rings /\ observer \in [Observers -> ObserverState]
    BY TypeParts DEF IInv
  <2>2. ring' \in Rings
    BY DEF IInv, TypeOK, Rings
  <2>3. ring.tail = Len(delivered) /\ ring'.tail = Len(delivered')
    BY DEF IInv, RingInv, CountersAreLengths
  <2>4. ring.head - ring.tail \in 0 .. Capacity
    BY DEF IInv, DepthBounded
  <2> QED
    BY <2>1, <2>2, <2>3, <2>4, CapacityPositive, BoundsAssumption DEF Rings
<1>2. \A o \in Observers : observer[o].h \in Nat /\ observer[o].depth \in Nat
  BY <1>1 DEF ObserverState
<1>3. ASSUME NEW o \in Observers, SizeLoadHead(o)
      PROVE  LoadedHeads' /\ ReportedDepthTellsWraps'
  <2>1. UNCHANGED <<ring, delivered>>
    BY <1>3 DEF SizeLoadHead
  <2>2. observer' = [observer EXCEPT ![o].pc = "tail", ![o].h = ring.head]
    BY <1>3 DEF SizeLoadHead
  <2>3. \A p \in Observers :
           /\ observer'[p].depth = observer[p].depth
           /\ observer'[p].pc = "tail" => \/ observer'[p].h = ring.head
                                         \/ /\ observer[p].pc = "tail"
                                            /\ observer'[p].h = observer[p].h
    BY <1>1, <2>2 DEF ObserverState
  <2>4. LoadedHeads'
    BY <1>1, <2>1, <2>3 DEF LoadedHeads
  <2>5. ReportedDepthTellsWraps'
    BY <2>1, <2>3 DEF ReportedDepthTellsWraps
  <2> QED
    BY <2>4, <2>5
<1>4. ASSUME NEW o \in Observers, SizeLoadTail(o)
      PROVE  LoadedHeads' /\ ReportedDepthTellsWraps'
  <2> DEFINE x == observer[o].h - ring.tail
             d == x % SizeMod
  <2>1. UNCHANGED <<ring, delivered>> /\ observer[o].pc = "tail"
    BY <1>4 DEF SizeLoadTail
  <2>2. observer' = [observer EXCEPT ![o].pc = "idle", ![o].depth = d]
    BY <1>4 DEF SizeLoadTail
  <2>3. x \in Int /\ x <= Capacity /\ 0 - ring.tail <= x
    BY <1>1, <1>2, <2>1 DEF LoadedHeads
  <2>4. d <= Capacity \/ d >= SizeMod - Len(delivered)
    BY <1>1, <2>3, WrapBound
  <2> HIDE DEF d
  <2>5. \A p \in Observers :
           /\ observer'[p].depth = IF p = o THEN d ELSE observer[p].depth
           /\ observer'[p].pc = "tail" => /\ observer[p].pc = "tail"
                                         /\ observer'[p].h = observer[p].h
    BY <1>1, <2>2 DEF ObserverState
  <2>6. LoadedHeads'
    BY <2>1, <2>5 DEF LoadedHeads
  <2>7. ReportedDepthTellsWraps'
    BY <2>1, <2>4, <2>5 DEF ReportedDepthTellsWraps
  <2> QED
    BY <2>6, <2>7
<1>5. CASE UNCHANGED observer /\ ring'.tail >= ring.tail
  <2>1. LoadedHeads'
    BY <1>1, <1>2, <1>5 DEF LoadedHeads
  <2>2. ReportedDepthTellsWraps'
    BY <1>1, <1>2, <1>5 DEF ReportedDepthTellsWraps
  <2> QED
    BY <2>1, <2>2
<1>6. CASE Push
  <2>1. UNCHANGED observer /\ ring'.tail = ring.tail
    <3>1. CASE PushWrite
      BY <3>1 DEF PushWrite, Write, IInv, TypeOK
    <3>2. CASE PushPublish
      BY <3>2 DEF PushPublish, Publish, IInv, TypeOK
    <3>3. CASE PushRefused \/ PushAdmitted \/ PushCount
      BY <3>3 DEF PushRefused, PushAdmitted, PushCount
    <3> QED
      BY <1>6, <3>1, <3>2, <3>3 DEF Push
  <2> QED
    BY <1>1, <1>5, <2>1
<1>7. ASSUME NEW c \in Consumers, Pop(c)
      PROVE  LoadedHeads' /\ ReportedDepthTellsWraps'
  <2>1. UNCHANGED observer /\ Len(delivered') >= Len(delivered)
    <3>1. CASE PopStore(c)
      BY <3>1 DEF PopStore, IInv, TypeOK
    <3>2. CASE ~PopStore(c)
      BY <1>1, <1>7, <3>2
         DEF Pop, PopLoadTail, PopLoadHead, PopTake, PopClear
    <3> QED
      BY <3>1, <3>2
  <2> QED
    BY <1>1, <1>5, <2>1
<1>8. CASE UNCHANGED queueVars
  BY <1>1, <1>5, <1>8 DEF queueVars
<1> QED
  BY <1>3, <1>4, <1>6, <1>7, <1>8 DEF Next, Size

\* What check_status reports as the depth of a queue is a depth the queue can
\* have, or a number wrapped by the frames that were popped meanwhile.
THEOREM ReportedDepthIsTelling == InTurnSpec => []ReportedDepthTellsWraps
<1> DEFINE Depths == LoadedHeads /\ ReportedDepthTellsWraps
<1>1. Init => Depths
  BY CapacityPositive DEF Init, LoadedHeads, ReportedDepthTellsWraps
<1>2. IInv /\ IInv' /\ [Next]_queueVars /\ Depths => Depths'
  BY LoadedHeadsStep
<1>3. Depths => ReportedDepthTellsWraps
  OBVIOUS
<1> QED
  BY <1>1, <1>2, <1>3, AlwaysIInv, PTL DEF InTurnSpec, Spec

-----------------------------------------------------------------------------
\* The lock-free queue implements the bounded FIFO that refuses the newest
\* frame: the store of head_ accepts, a failed test refuses, the store of
\* tail_ delivers, and every other access is a stutter.
THEOREM ImplementsFifo == InTurnSpec => FifoSpec
<1> USE DEF Fifo!Waiting, Fifo!FifoNext
<1>1. Init => Fifo!FifoInit
  BY DEF Init, Fifo!FifoInit
<1>2. ASSUME IInv, [Next]_queueVars
      PROVE  [Fifo!FifoNext]_Fifo!fifoVars
  <2>1. /\ ring.head \in Nat /\ ring.tail \in Nat /\ Capacity \in Nat
        /\ ring.head - ring.tail = Fifo!Waiting
        /\ ring.head - ring.tail \in 0 .. Capacity
        /\ ring.tail = Len(delivered)
    BY <1>2, CapacityPositive
       DEF IInv, TypeOK, RingInv, CountersAreLengths, DepthBounded
  <2>2. CASE PushRefused
    <3>1. ring.head - ring.tail >= Capacity
      BY <2>2 DEF PushRefused, Full
    <3>2. ring.head - ring.tail = Capacity
      BY <2>1, <3>1
    <3> QED
      BY <2>1, <2>2, <3>2 DEF PushRefused, Fifo!Refuse
  <2>3. CASE PushPublish
    <3>1. ring.head - ring.tail < Capacity /\ producer.frame \in 1 .. MaxFrames
      BY <1>2, <2>3 DEF IInv, RingInv, AdmissionHolds, PushPublish
    <3> QED
      BY <2>1, <2>3, <3>1 DEF PushPublish, Fifo!Accept
  <2>4. ASSUME NEW c \in Consumers, PopStore(c)
        PROVE  [Fifo!FifoNext]_Fifo!fifoVars
    <3>1. ring.tail < ring.head /\ consumer[c].out = accepted[ring.tail + 1]
      BY <1>2, <2>4 DEF IInv, RingInv, ConsumerOwnsTail, PopStore
    <3> QED
      BY <2>1, <2>4, <3>1 DEF PopStore, Fifo!Deliver
  <2>5. CASE PushAdmitted \/ PushWrite \/ PushCount
    BY <2>5 DEF PushAdmitted, PushWrite, PushCount, Fifo!fifoVars
  <2>6. ASSUME NEW c \in Consumers,
               PopLoadTail(c) \/ PopLoadHead(c) \/ PopTake(c) \/ PopClear(c)
        PROVE  UNCHANGED Fifo!fifoVars
    BY <2>6 DEF PopLoadTail, PopLoadHead, PopTake, PopClear, Fifo!fifoVars
  <2>7. ASSUME NEW o \in Observers, Size(o)
        PROVE  UNCHANGED Fifo!fifoVars
    BY <2>7 DEF Size, SizeLoadHead, SizeLoadTail, Fifo!fifoVars
  <2>8. CASE UNCHANGED queueVars
    BY <2>8 DEF queueVars, Fifo!fifoVars
  <2> QED
    BY <1>2, <2>2, <2>3, <2>4, <2>5, <2>6, <2>7, <2>8 DEF Next, Push, Pop
<1>3. IInv /\ [Next]_queueVars => [Fifo!FifoNext]_Fifo!fifoVars
  BY <1>2
<1> QED
  BY <1>1, <1>3, AlwaysIInv, PTL DEF InTurnSpec, Spec, FifoSpec, Fifo!FifoSpec
=============================================================================
