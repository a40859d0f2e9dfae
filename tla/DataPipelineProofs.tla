------------------------- MODULE DataPipelineProofs -------------------------
(***************************************************************************)
(* The publisher and the capture thread for any capacity and any number of *)
(* frames: types and capacity, no notification lost, each queue a bounded  *)
(* FIFO, and what pop_all takes sent in its order.                         *)
(***************************************************************************)
EXTENDS DataPipeline, FiniteSetTheorems, TLAPS

\* The sweep goes over the groups.
LEMMA SweepOrder ==
    /\ Len(GroupOrder) = 3
    /\ \A i \in 1..3 : GroupOrder[i] \in Groups
    /\ \A g \in Groups : \E i \in 1..3 : g = GroupOrder[i]
<1>1. GroupOrder[1] = "visual_2d" /\ GroupOrder[2] = "visual_3d" /\ GroupOrder[3] = "sensor_data"
  BY DEF GroupOrder
<1>2. Len(GroupOrder) = 3
  BY DEF GroupOrder
<1>3. ASSUME NEW i \in 1..3 PROVE GroupOrder[i] \in Groups
  BY <1>1 DEF Groups
<1>4. ASSUME NEW g \in Groups PROVE \E i \in 1..3 : g = GroupOrder[i]
  <2>1. 1 \in 1..3 /\ 2 \in 1..3 /\ 3 \in 1..3
    OBVIOUS
  <2> QED
    BY <1>1, <2>1 DEF Groups
<1> QED
  BY <1>2, <1>3, <1>4

\* The two ways in which the publisher's place is written.
LEMMA PlacesTyped ==
    /\ \A pc \in {"loop", "wait", "block", "asleep", "send", "done"} :
          At(pc) \in PublisherStates /\ At(pc).pc = pc
    /\ \A i \in 1..3, b \in BOOLEAN :
          /\ Sweeping(i, b) \in PublisherStates
          /\ Sweeping(i, b).pc = "sweep" /\ Sweeping(i, b).i = i
    /\ Sweeping(1, FALSE) \in PublisherStates /\ Sweeping(1, TRUE) \in PublisherStates
    /\ Sweeping(1, FALSE).pc = "sweep" /\ Sweeping(1, FALSE).i = 1
    /\ Sweeping(1, TRUE).pc = "sweep" /\ Sweeping(1, TRUE).i = 1
<1>1. 1..Len(GroupOrder) = 1..3 /\ 1 \in 1..3
  BY SweepOrder
<1> QED
  BY <1>1 DEF At, Sweeping, PublisherStates

LEMMA PublisherPlace ==
    ASSUME PipelineTypeOK
    PROVE  publisher \in PublisherStates /\ publisher.i \in 1..3 /\ publisher.waited \in BOOLEAN
           /\ Swept \in Groups
<1>1. publisher \in PublisherStates
  BY DEF PipelineTypeOK
<1>2. publisher.i \in 1..3 /\ publisher.waited \in BOOLEAN
  BY <1>1, SweepOrder DEF PublisherStates
<1> QED
  BY <1>1, <1>2, SweepOrder DEF Swept

-----------------------------------------------------------------------------
(* Types and capacity.                                                      *)

LEMMA PipelineTypeInit == PipelineInit => PipelineTypeOK
<1> SUFFICES ASSUME PipelineInit PROVE PipelineTypeOK
  OBVIOUS
<1>1. publisher \in PublisherStates
  BY PlacesTyped DEF PipelineInit
<1>2. /\ queue \in [Groups -> Seq(Frames)] /\ \A g \in Groups : Len(queue[g]) <= QueueSize
      /\ pushed \in 0..MaxFrames
  BY QueueSizeAssumption, MaxFramesAssumption DEF PipelineInit
<1>3. notified \in BOOLEAN /\ running \in BOOLEAN
  BY DEF PipelineInit
<1>4. /\ producer \in {"idle", "set", "signal"} /\ out \in Seq(Frames)
      /\ admitted \in [Groups -> Seq(Frames)] /\ sent \in [Groups -> Seq(Frames)]
      /\ taken \in [Groups -> Seq(Frames)] /\ dropped \in [Groups -> Nat]
  BY DEF PipelineInit
<1> QED
  BY <1>1, <1>2, <1>3, <1>4 DEF PipelineTypeOK

\* The steps that only move the publisher and write notified_, out or running_.
LEMMA MoveTyped ==
    ASSUME PipelineTypeOK, publisher' \in PublisherStates, notified' \in BOOLEAN,
           running' \in BOOLEAN, out' \in Seq(Frames), producer' \in {"idle", "set", "signal"},
           UNCHANGED <<queue, pushed, dropped, admitted, taken, sent>>
    PROVE  PipelineTypeOK'
  BY DEF PipelineTypeOK

\* The outcomes of a push of f to the queue of g.
Admits(g, f) ==
    /\ Len(queue[g]) < QueueSize
    /\ queue' = [queue EXCEPT ![g] = Append(queue[g], f)]
    /\ admitted' = [admitted EXCEPT ![g] = Append(admitted[g], f)]
    /\ UNCHANGED dropped

Drops(g) ==
    /\ Len(queue[g]) = QueueSize
    /\ dropped' = [dropped EXCEPT ![g] = dropped[g] + 1]
    /\ UNCHANGED <<queue, admitted>>

PushOutcome(g, f) ==
    /\ f.group = g /\ f.seq = pushed /\ pushed' = pushed + 1
    /\ Admits(g, f) \/ Drops(g)

LEMMA PushOutcomes ==
    ASSUME PipelineTypeOK, NEW g \in Groups, ProducerPushes(g)
    PROVE  \E f \in Frames : PushOutcome(g, f)
<1> DEFINE f == [group |-> g, seq |-> pushed]
<1>1. f \in Frames /\ f.group = g /\ f.seq = pushed /\ pushed' = pushed + 1
  BY MaxFramesAssumption DEF ProducerPushes, PipelineTypeOK, Frames
<1>2. Len(queue[g]) \in Nat /\ Len(queue[g]) <= QueueSize /\ QueueSize \in Nat
  BY QueueSizeAssumption DEF PipelineTypeOK
<1>3. \/ Admits(g, f)
      \/ /\ Len(queue[g]) >= QueueSize
         /\ dropped' = [dropped EXCEPT ![g] = dropped[g] + 1]
         /\ UNCHANGED <<queue, admitted>>
  BY DEF ProducerPushes, Admits
<1>4. Admits(g, f) \/ Drops(g)
  BY <1>2, <1>3 DEF Drops
<1> HIDE DEF f
<1> QED
  BY <1>1, <1>4 DEF PushOutcome

LEMMA ProducerTypeStep ==
    ASSUME PipelineTypeOK, ProducerStep
    PROVE  PipelineTypeOK'
<1>1. ASSUME NEW g \in Groups, ProducerPushes(g)
      PROVE  PipelineTypeOK'
  <2>1. PICK f \in Frames : PushOutcome(g, f)
    BY <1>1, PushOutcomes
  <2>2. pushed' \in 0..MaxFrames
    BY <1>1, MaxFramesAssumption DEF ProducerPushes, PipelineTypeOK
  <2>3. CASE Admits(g, f)
    <3>1. /\ Append(queue[g], f) \in Seq(Frames) /\ Append(admitted[g], f) \in Seq(Frames)
          /\ Len(Append(queue[g], f)) <= QueueSize
      BY <2>3, QueueSizeAssumption DEF PipelineTypeOK, Admits
    <3>2. /\ queue' \in [Groups -> Seq(Frames)] /\ admitted' \in [Groups -> Seq(Frames)]
          /\ \A h \in Groups : Len(queue'[h]) <= QueueSize
      BY <2>3, <3>1 DEF PipelineTypeOK, Admits
    <3> QED
      BY <1>1, <2>2, <2>3, <3>2 DEF ProducerPushes, PipelineTypeOK, Admits
  <2>4. CASE Drops(g)
    <3>1. dropped' \in [Groups -> Nat]
      BY <2>4 DEF PipelineTypeOK, Drops
    <3> QED
      BY <1>1, <2>2, <2>4, <3>1 DEF ProducerPushes, PipelineTypeOK, Drops
  <2> QED
    BY <2>1, <2>3, <2>4 DEF PushOutcome
<1>2. CASE ProducerSets
  BY <1>2, PublisherPlace, MoveTyped DEF ProducerSets, PipelineTypeOK
<1>3. CASE ProducerSignals
  BY <1>3, PublisherPlace, PlacesTyped, MoveTyped DEF ProducerSignals, PipelineTypeOK
<1> QED
  BY <1>1, <1>2, <1>3 DEF ProducerStep

LEMMA PublisherTypeStep ==
    ASSUME PipelineTypeOK, PublisherStep \/ WaitWakes \/ WaitTimesOut \/ PublisherStop
    PROVE  PipelineTypeOK'
<1>0. /\ publisher \in PublisherStates /\ publisher.i \in 1..3 /\ publisher.waited \in BOOLEAN
      /\ Swept \in Groups
      /\ out \in Seq(Frames) /\ notified \in BOOLEAN /\ running \in BOOLEAN
      /\ producer \in {"idle", "set", "signal"}
  BY PublisherPlace DEF PipelineTypeOK
<1>1. CASE PopAllBegins
  <2>1. publisher' \in PublisherStates
    BY <1>1, PlacesTyped DEF PopAllBegins
  <2> QED
    BY <1>0, <1>1, <2>1, MoveTyped DEF PopAllBegins
<1>2. CASE SweepPops
  <2> DEFINE q == queue[Swept]
  <2>1. q \in Seq(Frames) /\ q # <<>> /\ Len(q) <= QueueSize
    BY <1>0, <1>2 DEF SweepPops, PipelineTypeOK
  <2> HIDE DEF q
  <2>2. /\ Head(q) \in Frames /\ Tail(q) \in Seq(Frames) /\ Len(Tail(q)) <= QueueSize
    BY <2>1, QueueSizeAssumption
  <2>3. /\ queue' = [queue EXCEPT ![Swept] = Tail(q)] /\ out' = Append(out, Head(q))
        /\ taken' = [taken EXCEPT ![Swept] = Append(@, Head(q))]
    BY <1>2 DEF SweepPops, q
  <2>4. /\ queue' \in [Groups -> Seq(Frames)] /\ out' \in Seq(Frames)
        /\ taken' \in [Groups -> Seq(Frames)]
        /\ \A h \in Groups : Len(queue'[h]) <= QueueSize
    BY <1>0, <2>2, <2>3 DEF PipelineTypeOK
  <2> QED
    BY <1>2, <2>4 DEF SweepPops, PipelineTypeOK
<1>3. CASE SweepMovesOn
  <2>1. publisher.i + 1 \in 1..3
    BY <1>0, <1>3, SweepOrder DEF SweepMovesOn
  <2> QED
    BY <1>0, <1>3, <2>1, PlacesTyped, MoveTyped DEF SweepMovesOn
<1>4. CASE SweepEnds
  BY <1>0, <1>4, PlacesTyped, MoveTyped DEF SweepEnds
<1>5. CASE WaitReady \/ WaitTimesOut
  <2>1. 1 \in 1..3
    OBVIOUS
  <2>2. publisher' \in PublisherStates
    BY <1>5, <2>1, PlacesTyped DEF WaitReady, WaitTimesOut
  <2> QED
    BY <1>0, <1>5, <2>2, MoveTyped DEF WaitReady, WaitTimesOut
<1>6. CASE WaitBlocks \/ WaitSleeps \/ WaitWakes \/ SendEnds \/ PublisherEnds
  BY <1>0, <1>6, PlacesTyped, MoveTyped
     DEF WaitBlocks, WaitSleeps, WaitWakes, SendEnds, PublisherEnds
<1>7. CASE SendFrame
  <2> DEFINE f == Head(out)
  <2>1. f \in Frames /\ Tail(out) \in Seq(Frames)
    BY <1>0, <1>7 DEF SendFrame
  <2>2. f.group \in Groups
    BY <2>1 DEF Frames
  <2>3. sent' = [sent EXCEPT ![f.group] = Append(@, f)] /\ out' = Tail(out)
    BY <1>7 DEF SendFrame
  <2> HIDE DEF f
  <2>4. sent' \in [Groups -> Seq(Frames)]
    BY <2>1, <2>2, <2>3 DEF PipelineTypeOK
  <2> QED
    BY <1>7, <2>1, <2>3, <2>4 DEF SendFrame, PipelineTypeOK
<1>8. CASE PublisherStop
  BY <1>0, <1>8, MoveTyped DEF PublisherStop
<1> QED
  BY <1>1, <1>2, <1>3, <1>4, <1>5, <1>6, <1>7, <1>8 DEF PublisherStep

LEMMA PipelineTypeStep ==
    ASSUME PipelineTypeOK, [PipelineNext]_pipelineVars
    PROVE  PipelineTypeOK'
<1>1. CASE UNCHANGED pipelineVars
  BY <1>1 DEF pipelineVars, PipelineTypeOK
<1> QED
  BY <1>1, ProducerTypeStep, PublisherTypeStep DEF PipelineNext

\* Types, and no queue over its capacity.
THEOREM PipelineTypeCorrect == PipelineSpec => []PipelineTypeOK
  BY PipelineTypeInit, PipelineTypeStep, PTL DEF PipelineSpec

-----------------------------------------------------------------------------
(* No notification is lost.                                                 *)

\* A frame that is queued behind the sweep, or while the publisher is about to
\* sleep, has its notification still to come; and a publisher that sleeps over
\* one that has come is about to be signalled.
WakeInv ==
    /\ publisher.pc = "sweep" =>
          \A j \in 1..3 : j < publisher.i /\ queue[GroupOrder[j]] # <<>> =>
                             notified \/ producer = "set"
    /\ publisher.pc \in {"wait", "block", "asleep"} =>
          \A j \in 1..3 : queue[GroupOrder[j]] # <<>> => notified \/ producer = "set"
    /\ publisher.pc = "block" => ~notified
    /\ publisher.pc = "asleep" /\ notified => producer = "signal"

\* The publisher goes where nothing has been swept yet.
LEMMA WakeRestart ==
    ASSUME \/ publisher'.pc \in {"loop", "send", "done"}
           \/ publisher'.pc = "sweep" /\ publisher'.i = 1
    PROVE  WakeInv'
  BY DEF WakeInv

LEMMA WakeProducerStep ==
    ASSUME WakeInv, PipelineTypeOK, ProducerStep
    PROVE  WakeInv'
<1>0. \A j \in 1..3 : GroupOrder[j] \in Groups
  BY SweepOrder
<1>1. ASSUME NEW g \in Groups, ProducerPushes(g)
      PROVE  WakeInv'
  BY <1>1 DEF ProducerPushes, WakeInv
<1>2. CASE ProducerSets
  BY <1>2 DEF ProducerSets, WakeInv
<1>3. CASE ProducerSignals
  <2>1. CASE publisher.pc = "asleep"
    BY <1>3, <2>1, PlacesTyped DEF ProducerSignals, WakeInv
  <2>2. CASE publisher.pc # "asleep"
    BY <1>3, <2>2 DEF ProducerSignals, WakeInv
  <2> QED
    BY <2>1, <2>2
<1> QED
  BY <1>1, <1>2, <1>3 DEF ProducerStep

LEMMA WakePublisherStep ==
    ASSUME WakeInv, PipelineTypeOK,
           PublisherStep \/ WaitWakes \/ WaitTimesOut \/ PublisherStop
    PROVE  WakeInv'
<1>0. publisher.i \in 1..3 /\ publisher.waited \in BOOLEAN /\ 1 \in 1..3
  BY PublisherPlace
<1>1. CASE PopAllBegins \/ WaitReady \/ WaitTimesOut
  BY <1>0, <1>1, PlacesTyped, WakeRestart DEF PopAllBegins, WaitReady, WaitTimesOut
<1>2. CASE SendEnds \/ PublisherEnds
  BY <1>2, PlacesTyped, WakeRestart DEF SendEnds, PublisherEnds
<1>3. CASE SweepPops
  <2>1. queue \in [Groups -> Seq(Frames)] /\ Swept \in Groups
    BY PublisherPlace DEF PipelineTypeOK
  <2>2. \A h \in Groups : queue[h] = <<>> => queue'[h] = <<>>
    BY <1>3, <2>1 DEF SweepPops
  <2> QED
    BY <1>3, <2>2, SweepOrder DEF SweepPops, WakeInv
<1>4. CASE SweepMovesOn
  <2>1. /\ publisher'.pc = "sweep" /\ publisher'.i = publisher.i + 1
        /\ queue[GroupOrder[publisher.i]] = <<>> /\ publisher.pc = "sweep"
        /\ UNCHANGED <<queue, notified, producer>>
    BY <1>0, <1>4, PlacesTyped, SweepOrder DEF SweepMovesOn, Swept
  <2> QED
    BY <1>0, <2>1 DEF WakeInv
<1>5. CASE SweepEnds
  <2>1. /\ publisher.pc = "sweep" /\ publisher.i = 3 /\ queue[GroupOrder[3]] = <<>>
        /\ UNCHANGED <<queue, notified, producer>>
        /\ publisher'.pc \in {"send", "loop", "wait"}
    BY <1>5, PlacesTyped, SweepOrder DEF SweepEnds, Swept
  <2>2. \A j \in 1..3 : queue[GroupOrder[j]] # <<>> => j < 3
    BY <2>1
  <2> QED
    BY <2>1, <2>2 DEF WakeInv
<1>6. CASE WaitBlocks \/ WaitSleeps \/ WaitWakes
  BY <1>6, PlacesTyped DEF WaitBlocks, WaitSleeps, WaitWakes, WakeInv
<1>7. CASE SendFrame \/ PublisherStop
  BY <1>7 DEF SendFrame, PublisherStop, WakeInv
<1> QED
  BY <1>1, <1>2, <1>3, <1>4, <1>5, <1>6, <1>7 DEF PublisherStep

\* When push() has returned and the publisher sleeps, nothing is queued.
THEOREM NoLostNotification == PipelineSpec => []AsleepMeansEmpty
<1>1. PipelineInit => WakeInv
  BY PlacesTyped DEF PipelineInit, WakeInv
<1>2. WakeInv /\ PipelineTypeOK /\ [PipelineNext]_pipelineVars => WakeInv'
  <2> SUFFICES ASSUME WakeInv, PipelineTypeOK, [PipelineNext]_pipelineVars
               PROVE  WakeInv'
    OBVIOUS
  <2>1. CASE UNCHANGED pipelineVars
    BY <2>1 DEF pipelineVars, WakeInv
  <2> QED
    BY <2>1, WakeProducerStep, WakePublisherStep DEF PipelineNext
<1>3. WakeInv => AsleepMeansEmpty
  BY SweepOrder DEF WakeInv, AsleepMeansEmpty
<1> QED
  BY <1>1, <1>2, <1>3, PipelineTypeCorrect, PTL DEF PipelineSpec
-----------------------------------------------------------------------------
(* The queues are bounded FIFOs.                                            *)

LEMMA FrameParts == \A f \in Frames : f.group \in Groups /\ f.seq \in Nat
  BY MaxFramesAssumption DEF Frames

\* The frames a are the frames t followed by the frames q.
Splits(a, t, q) ==
    /\ Len(a) = Len(t) + Len(q)
    /\ \A k \in 1..Len(t) : t[k] = a[k]
    /\ \A k \in 1..Len(q) : q[k] = a[Len(t) + k]

\* The frames of group g among the first n pushed, in the order of the pushes.
Numbered(a, g, n) ==
    /\ \A k \in 1..Len(a) : a[k].group = g /\ a[k].seq < n
    /\ \A k, m \in 1..Len(a) : k < m => a[k].seq < a[m].seq

LEMMA AppendSplits ==
    ASSUME NEW S, NEW a \in Seq(S), NEW t \in Seq(S), NEW q \in Seq(S), NEW f \in S,
           Splits(a, t, q)
    PROVE  Splits(Append(a, f), t, Append(q, f))
<1> DEFINE b == Append(a, f)
           r == Append(q, f)
<1>1. /\ Len(b) = Len(a) + 1 /\ b[Len(a) + 1] = f
      /\ \A k \in 1..Len(a) : b[k] = a[k]
      /\ Len(a) \in Nat
  OBVIOUS
<1>2. /\ Len(r) = Len(q) + 1 /\ r[Len(q) + 1] = f
      /\ \A k \in 1..Len(q) : r[k] = q[k]
      /\ Len(q) \in Nat /\ Len(t) \in Nat
  OBVIOUS
<1> HIDE DEF b, r
<1>3. /\ Len(a) = Len(t) + Len(q) /\ \A k \in 1..Len(t) : t[k] = a[k]
      /\ \A k \in 1..Len(q) : q[k] = a[Len(t) + k]
  BY DEF Splits
<1>4. Len(b) = Len(t) + Len(r) /\ \A k \in 1..Len(t) : t[k] = b[k]
  BY <1>1, <1>2, <1>3
<1>5. ASSUME NEW k \in 1..Len(r)
      PROVE  r[k] = b[Len(t) + k]
  <2>1. CASE k \in 1..Len(q)
    <3>1. r[k] = q[k] /\ q[k] = a[Len(t) + k] /\ Len(t) + k \in 1..Len(a)
      BY <1>2, <1>3, <2>1
    <3> QED
      BY <1>1, <3>1
  <2>2. CASE k = Len(q) + 1
    <3>1. Len(t) + k = Len(a) + 1
      BY <1>2, <1>3, <2>2
    <3> QED
      BY <1>1, <1>2, <2>2, <3>1
  <2>3. k \in 1..Len(q) \/ k = Len(q) + 1
    BY <1>2
  <2> QED
    BY <2>1, <2>2, <2>3
<1> QED
  BY <1>4, <1>5 DEF Splits, b, r

LEMMA PopSplits ==
    ASSUME NEW S, NEW a \in Seq(S), NEW t \in Seq(S), NEW q \in Seq(S), q # <<>>,
           Splits(a, t, q)
    PROVE  /\ Splits(a, Append(t, Head(q)), Tail(q))
           /\ Len(t) + 1 \in 1..Len(a) /\ Head(q) = a[Len(t) + 1]
<1> DEFINE u == Append(t, Head(q))
           r == Tail(q)
<1>1. /\ Head(q) = q[1] /\ Head(q) \in S
      /\ Len(q) \in Nat /\ Len(t) \in Nat /\ Len(q) >= 1 /\ 1 \in 1..Len(q)
  OBVIOUS
<1>2. /\ Len(u) = Len(t) + 1 /\ u[Len(t) + 1] = q[1]
      /\ \A k \in 1..Len(t) : u[k] = t[k]
  BY <1>1
<1>3. /\ Len(r) = Len(q) - 1 /\ \A k \in 1..Len(r) : r[k] = q[k + 1]
  BY <1>1
<1> HIDE DEF u, r
<1>4. /\ Len(a) = Len(t) + Len(q) /\ \A k \in 1..Len(t) : t[k] = a[k]
      /\ \A k \in 1..Len(q) : q[k] = a[Len(t) + k]
  BY DEF Splits
<1>5. Len(a) = Len(u) + Len(r) /\ Len(t) + 1 \in 1..Len(a) /\ q[1] = a[Len(t) + 1]
  BY <1>1, <1>2, <1>3, <1>4
<1>6. ASSUME NEW k \in 1..Len(u)
      PROVE  u[k] = a[k]
  <2>1. k \in 1..Len(t) \/ k = Len(t) + 1
    BY <1>1, <1>2
  <2> QED
    BY <2>1, <1>2, <1>4, <1>5
<1>7. ASSUME NEW k \in 1..Len(r)
      PROVE  r[k] = a[Len(u) + k]
  <2>1. k + 1 \in 1..Len(q) /\ Len(t) + (k + 1) = Len(u) + k
    BY <1>1, <1>2, <1>3
  <2>2. r[k] = q[k + 1] /\ q[k + 1] = a[Len(t) + (k + 1)]
    BY <1>3, <1>4, <2>1
  <2> QED
    BY <2>1, <2>2
<1> QED
  BY <1>1, <1>5, <1>6, <1>7 DEF Splits, u, r

LEMMA AppendNumbered ==
    ASSUME NEW a \in Seq(Frames), NEW f \in Frames, NEW g, NEW n \in Nat,
           f.group = g, f.seq = n, Numbered(a, g, n)
    PROVE  Numbered(Append(a, f), g, n + 1)
<1> DEFINE b == Append(a, f)
<1>1. /\ Len(b) = Len(a) + 1 /\ b[Len(a) + 1] = f
      /\ \A k \in 1..Len(a) : b[k] = a[k]
      /\ Len(a) \in Nat
  OBVIOUS
<1> HIDE DEF b
<1>2. \A k \in 1..Len(a) : b[k].group = g /\ b[k].seq < n /\ b[k].seq \in Nat
  <2>1. \A k \in 1..Len(a) : a[k].seq \in Nat
    BY FrameParts
  <2> QED
    BY <1>1, <2>1 DEF Numbered
<1>3. \A k \in 1..Len(b) : k \in 1..Len(a) \/ k = Len(a) + 1
  BY <1>1
<1>4. \A k \in 1..Len(b) : b[k].group = g /\ b[k].seq < n + 1
  BY <1>1, <1>2, <1>3
<1>5. ASSUME NEW k \in 1..Len(b), NEW m \in 1..Len(b), k < m
      PROVE  b[k].seq < b[m].seq
  <2>1. k \in 1..Len(a)
    BY <1>1, <1>5
  <2>2. CASE m \in 1..Len(a)
    BY <1>1, <1>5, <2>1, <2>2 DEF Numbered
  <2>3. CASE m = Len(a) + 1
    BY <1>1, <1>2, <2>1, <2>3
  <2> QED
    BY <1>3, <2>2, <2>3
<1> QED
  BY <1>4, <1>5 DEF Numbered, b

\* A larger n.
LEMMA NumberedLater ==
    ASSUME NEW a \in Seq(Frames), NEW g, NEW n \in Nat, Numbered(a, g, n)
    PROVE  Numbered(a, g, n + 1)
<1>1. \A k \in 1..Len(a) : a[k].seq \in Nat
  BY FrameParts
<1> QED
  BY <1>1 DEF Numbered

\* A queue holds the frames it took and has not given out, in the order of the
\* pushes.
QueueInv ==
    \A g \in Groups :
        Splits(admitted[g], taken[g], queue[g]) /\ Numbered(admitted[g], g, pushed)

LEMMA SequencesTyped ==
    ASSUME PipelineTypeOK
    PROVE  /\ pushed \in Nat
           /\ \A g \in Groups :
                 /\ queue[g] \in Seq(Frames) /\ admitted[g] \in Seq(Frames)
                 /\ taken[g] \in Seq(Frames) /\ sent[g] \in Seq(Frames)
  BY MaxFramesAssumption DEF PipelineTypeOK

LEMMA QueuePushStep ==
    ASSUME QueueInv, PipelineTypeOK, NEW g \in Groups, ProducerPushes(g)
    PROVE  QueueInv'
<1>1. PICK f \in Frames : PushOutcome(g, f)
  BY PushOutcomes
<1>2. UNCHANGED taken /\ pushed' = pushed + 1 /\ f.seq = pushed /\ f.group = g
  BY <1>1 DEF ProducerPushes, PushOutcome
<1>3. ASSUME NEW h \in Groups
      PROVE  Splits(admitted'[h], taken'[h], queue'[h]) /\ Numbered(admitted'[h], h, pushed')
  <2>1. /\ queue[h] \in Seq(Frames) /\ admitted[h] \in Seq(Frames)
        /\ taken[h] \in Seq(Frames) /\ pushed \in Nat
    BY SequencesTyped
  <2>2. Splits(admitted[h], taken[h], queue[h]) /\ Numbered(admitted[h], h, pushed)
    BY DEF QueueInv
  <2>3. CASE queue'[h] = queue[h] /\ admitted'[h] = admitted[h]
    BY <1>2, <2>1, <2>2, <2>3, NumberedLater
  <2>4. CASE /\ h = g /\ queue'[h] = Append(queue[h], f)
             /\ admitted'[h] = Append(admitted[h], f)
    BY <1>2, <2>1, <2>2, <2>4, AppendSplits, AppendNumbered
  <2>5. \/ queue'[h] = queue[h] /\ admitted'[h] = admitted[h]
        \/ /\ h = g /\ queue'[h] = Append(queue[h], f)
           /\ admitted'[h] = Append(admitted[h], f)
    BY <1>1 DEF PushOutcome, Admits, Drops, PipelineTypeOK
  <2> QED
    BY <2>3, <2>4, <2>5
<1> QED
  BY <1>3 DEF QueueInv

LEMMA QueuePopStep ==
    ASSUME QueueInv, PipelineTypeOK, SweepPops
    PROVE  QueueInv'
<1>1. Swept \in Groups
  BY PublisherPlace
<1>2. ASSUME NEW h \in Groups
      PROVE  Splits(admitted'[h], taken'[h], queue'[h]) /\ Numbered(admitted'[h], h, pushed')
  <2>1. queue[h] \in Seq(Frames) /\ admitted[h] \in Seq(Frames) /\ taken[h] \in Seq(Frames)
    BY SequencesTyped
  <2>2. Splits(admitted[h], taken[h], queue[h]) /\ Numbered(admitted[h], h, pushed)
    BY DEF QueueInv
  <2>3. UNCHANGED <<admitted, pushed>>
    BY DEF SweepPops
  <2>4. CASE queue'[h] = queue[h] /\ taken'[h] = taken[h]
    BY <2>2, <2>3, <2>4
  <2>5. CASE /\ queue[h] # <<>> /\ queue'[h] = Tail(queue[h])
             /\ taken'[h] = Append(taken[h], Head(queue[h]))
    BY <2>1, <2>2, <2>3, <2>5, PopSplits
  <2>6. \/ queue'[h] = queue[h] /\ taken'[h] = taken[h]
        \/ /\ queue[h] # <<>> /\ queue'[h] = Tail(queue[h])
           /\ taken'[h] = Append(taken[h], Head(queue[h]))
    BY <1>1 DEF SweepPops, PipelineTypeOK
  <2> QED
    BY <2>4, <2>5, <2>6
<1> QED
  BY <1>2 DEF QueueInv

\* The other steps leave the queues alone.
LEMMA QueuesStay ==
    ASSUME [PipelineNext]_pipelineVars, ~SweepPops,
           \A g \in Groups : ~ProducerPushes(g)
    PROVE  UNCHANGED <<queue, admitted, taken, dropped, pushed>>
<1>1. CASE UNCHANGED pipelineVars
  BY <1>1 DEF pipelineVars
<1>2. CASE ProducerStep
  BY <1>2 DEF ProducerStep, ProducerSets, ProducerSignals
<1>3. CASE PublisherStep
  BY <1>3 DEF PublisherStep, PopAllBegins, SweepMovesOn, SweepEnds, WaitReady, WaitBlocks,
     WaitSleeps, SendFrame, SendEnds, PublisherEnds
<1>4. CASE WaitWakes \/ WaitTimesOut \/ PublisherStop
  BY <1>4 DEF WaitWakes, WaitTimesOut, PublisherStop
<1> QED
  BY <1>1, <1>2, <1>3, <1>4 DEF PipelineNext

LEMMA QueueStep ==
    ASSUME QueueInv, PipelineTypeOK, [PipelineNext]_pipelineVars
    PROVE  QueueInv'
<1>1. CASE SweepPops \/ \E g \in Groups : ProducerPushes(g)
  BY <1>1, QueuePushStep, QueuePopStep
<1>2. CASE ~SweepPops /\ \A g \in Groups : ~ProducerPushes(g)
  BY <1>2, QueuesStay DEF QueueInv
<1> QED
  BY <1>1, <1>2

\* What a queue holds is what it took and has not given out, in push order.
THEOREM QueuesKeepOrder == PipelineSpec => []QueueInv
<1>1. PipelineInit => QueueInv
  BY DEF PipelineInit, QueueInv, Splits, Numbered
<1> QED
  BY <1>1, QueueStep, PipelineTypeCorrect, PTL DEF PipelineSpec

\* A push and a pop as steps of the bounded queue.
LEMMA FifoStep ==
    ASSUME QueueInv, PipelineTypeOK, [PipelineNext]_pipelineVars, NEW g \in Groups
    PROVE  [Fifo(g)!FifoNext]_(Fifo(g)!fifoVars)
<1>1. /\ queue[g] \in Seq(Frames) /\ admitted[g] \in Seq(Frames) /\ taken[g] \in Seq(Frames)
      /\ Splits(admitted[g], taken[g], queue[g])
  BY SequencesTyped DEF QueueInv
<1>2. /\ Fifo(g)!Waiting = Len(queue[g])
      /\ Len(queue[g]) \in Nat
  BY <1>1 DEF Fifo!Waiting, Splits
<1>3. ASSUME NEW h \in Groups, ProducerPushes(h)
      PROVE  [Fifo(g)!FifoNext]_(Fifo(g)!fifoVars)
  <2>1. PICK f \in Frames : PushOutcome(h, f)
    BY <1>3, PushOutcomes
  <2>2. UNCHANGED taken
    BY <1>3 DEF ProducerPushes
  <2>3. CASE Admits(h, f)
    <3>1. CASE h = g
      <4>1. Fifo(g)!Accept(f)
        BY <1>2, <2>2, <2>3, <3>1 DEF Admits, PipelineTypeOK, Fifo!Accept
      <4> QED
        BY <4>1 DEF Fifo!FifoNext
    <3>2. CASE h # g
      BY <2>2, <2>3, <3>2 DEF Admits, PipelineTypeOK, Fifo!fifoVars
    <3> QED
      BY <3>1, <3>2
  <2>4. CASE Drops(h)
    <3>1. CASE h = g
      <4>1. Fifo(g)!Refuse
        BY <1>2, <2>2, <2>4, <3>1 DEF Drops, PipelineTypeOK, Fifo!Refuse
      <4> QED
        BY <4>1 DEF Fifo!FifoNext
    <3>2. CASE h # g
      BY <2>2, <2>4, <3>2 DEF Drops, PipelineTypeOK, Fifo!fifoVars
    <3> QED
      BY <3>1, <3>2
  <2> QED
    BY <2>1, <2>3, <2>4 DEF PushOutcome
<1>4. CASE SweepPops
  <2>1. Swept \in Groups /\ UNCHANGED <<admitted, dropped>>
    BY <1>4, PublisherPlace DEF SweepPops
  <2>2. CASE Swept = g
    <3>1. queue[g] # <<>> /\ taken'[g] = Append(taken[g], Head(queue[g]))
      BY <1>4, <2>1, <2>2 DEF SweepPops, PipelineTypeOK
    <3>2. Head(queue[g]) = admitted[g][Len(taken[g]) + 1] /\ Len(queue[g]) > 0
      BY <1>1, <3>1, PopSplits
    <3>3. Fifo(g)!Deliver
      BY <1>2, <2>1, <3>1, <3>2 DEF Fifo!Deliver
    <3> QED
      BY <3>3 DEF Fifo!FifoNext
  <2>3. CASE Swept # g
    BY <1>4, <2>1, <2>3 DEF SweepPops, PipelineTypeOK, Fifo!fifoVars
  <2> QED
    BY <2>2, <2>3
<1>5. CASE ~SweepPops /\ \A h \in Groups : ~ProducerPushes(h)
  BY <1>5, QueuesStay DEF Fifo!fifoVars
<1> QED
  BY <1>3, <1>4, <1>5

\* Each queue is the bounded queue that the ring of SPSCQueue implements.
THEOREM QueuesImplementFifos == PipelineSpec => QueuesAreFifos
<1>1. PipelineInit => \A g \in Groups : Fifo(g)!FifoInit
  BY DEF PipelineInit, Fifo!FifoInit
<1>2. QueueInv /\ PipelineTypeOK /\ [PipelineNext]_pipelineVars =>
          [\A g \in Groups : [Fifo(g)!FifoNext]_(Fifo(g)!fifoVars)]_<<admitted, taken, dropped>>
  BY FifoStep
<1> QED
  BY <1>1, <1>2, QueuesKeepOrder, PipelineTypeCorrect, PTL DEF PipelineSpec, QueuesAreFifos
-----------------------------------------------------------------------------
(* How many frames of a batch are of a group.                               *)

LEMMA CountTyped ==
    ASSUME NEW b, NEW g, NEW k \in Nat
    PROVE  /\ IsFiniteSet({j \in 1..k : b[j].group = g})
           /\ CountOf(b, g, k) \in Nat
<1>1. IsFiniteSet(1..k)
  BY FS_Interval
<1>2. IsFiniteSet({j \in 1..k : b[j].group = g})
  BY <1>1, FS_Subset
<1> QED
  BY <1>2, FS_CardinalityType DEF CountOf

LEMMA CountNone == \A b, g : CountOf(b, g, 0) = 0
<1> SUFFICES ASSUME NEW b, NEW g
             PROVE  CountOf(b, g, 0) = 0
  OBVIOUS
<1>1. {j \in 1..0 : b[j].group = g} = {}
  OBVIOUS
<1> QED
  BY <1>1, FS_EmptySet DEF CountOf

LEMMA CountNext ==
    ASSUME NEW b, NEW g, NEW k \in Nat
    PROVE  CountOf(b, g, k + 1) =
              IF b[k + 1].group = g THEN CountOf(b, g, k) + 1 ELSE CountOf(b, g, k)
<1> DEFINE K == {j \in 1..k : b[j].group = g}
           N == {j \in 1..(k + 1) : b[j].group = g}
<1>1. IsFiniteSet(K) /\ CountOf(b, g, k) = Cardinality(K) /\ CountOf(b, g, k + 1) = Cardinality(N)
  BY CountTyped DEF CountOf
<1>2. k + 1 \notin K
  OBVIOUS
<1>3. b[k + 1].group = g => N = K \cup {k + 1}
  OBVIOUS
<1>4. b[k + 1].group # g => N = K
  OBVIOUS
<1> HIDE DEF K, N
<1>5. Cardinality(K \cup {k + 1}) = Cardinality(K) + 1
  BY <1>1, <1>2, FS_AddElement
<1> QED
  BY <1>1, <1>3, <1>4, <1>5

\* The count only depends on the frames that are counted.
LEMMA CountSame ==
    ASSUME NEW b, NEW c, NEW g, NEW k \in Nat, \A j \in 1..k : b[j] = c[j]
    PROVE  CountOf(b, g, k) = CountOf(c, g, k)
<1>1. {j \in 1..k : b[j].group = g} = {j \in 1..k : c[j].group = g}
  OBVIOUS
<1> QED
  BY <1>1 DEF CountOf

\* A frame of the group is counted, and the count does not go down.
LEMMA CountUpTo ==
    ASSUME NEW b, NEW g, NEW n \in Nat, NEW k \in 1..n, b[k].group = g
    PROVE  CountOf(b, g, k) \in 1..CountOf(b, g, n)
<1> DEFINE K == {j \in 1..k : b[j].group = g}
           N == {j \in 1..n : b[j].group = g}
<1>0. k \in Nat
  OBVIOUS
<1>1. /\ IsFiniteSet(K) /\ CountOf(b, g, k) = Cardinality(K) /\ CountOf(b, g, k) \in Nat
      /\ IsFiniteSet(N) /\ CountOf(b, g, n) = Cardinality(N) /\ CountOf(b, g, n) \in Nat
  <2>1. CountOf(b, g, k) = Cardinality(K) /\ CountOf(b, g, n) = Cardinality(N)
    BY DEF CountOf
  <2>2. IsFiniteSet(K) /\ CountOf(b, g, k) \in Nat
    BY <1>0, CountTyped
  <2>3. IsFiniteSet(N) /\ CountOf(b, g, n) \in Nat
    BY CountTyped
  <2> QED
    BY <2>1, <2>2, <2>3
<1>2. k \in K /\ K \in SUBSET N
  OBVIOUS
<1> HIDE DEF K, N
<1>3. K # {} /\ Cardinality(K) # 0
  BY <1>1, <1>2, FS_EmptySet
<1>4. Cardinality(K) <= Cardinality(N)
  BY <1>1, <1>2, FS_Subset
<1> QED
  BY <1>1, <1>3, <1>4

\* Without the first frame of b.
LEMMA CountShift ==
    ASSUME NEW b, NEW c, NEW g, NEW k \in Nat, \A j \in 1..k : c[j] = b[j + 1]
    PROVE  CountOf(b, g, k + 1) =
              IF b[1].group = g THEN CountOf(c, g, k) + 1 ELSE CountOf(c, g, k)
<1> DEFINE B == {j \in 1..(k + 1) : b[j].group = g}
           C == {j \in 1..k : c[j].group = g}
           R == B \ {1}
           up == [j \in C |-> j + 1]
<1>1. /\ k + 1 \in Nat /\ IsFiniteSet(B) /\ IsFiniteSet(C)
      /\ CountOf(b, g, k + 1) = Cardinality(B) /\ CountOf(c, g, k) = Cardinality(C)
  <2>1. k + 1 \in Nat
    OBVIOUS
  <2> QED
    BY <2>1, CountTyped DEF CountOf
<1>2. up \in Bijection(C, R)
  <2>1. \A j \in C : up[j] \in R
    OBVIOUS
  <2>2. \A i, j \in C : up[i] = up[j] => i = j
    OBVIOUS
  <2>3. \A i \in R : i - 1 \in C /\ up[i - 1] = i
    OBVIOUS
  <2> HIDE DEF C, R, up
  <2> QED
    BY <2>1, <2>2, <2>3 DEF Bijection, Injection, Surjection, IsInjective, up
<1>3. IsFiniteSet(R) /\ Cardinality(R) = Cardinality(C)
  <2>1. IsFiniteSet(R)
    BY <1>1, FS_Subset
  <2> HIDE DEF B, C, R, up
  <2> QED
    BY <1>1, <1>2, <2>1, FS_Bijection DEF ExistsBijection
<1>4. CASE b[1].group = g
  <2>1. B = R \cup {1} /\ 1 \notin R
    BY <1>4
  <2>2. Cardinality(B) = Cardinality(R) + 1
    BY <1>3, <2>1, FS_AddElement
  <2> QED
    BY <1>1, <1>3, <1>4, <2>2
<1>5. CASE b[1].group # g
  <2>1. B = R
    BY <1>5
  <2> QED
    BY <1>1, <1>3, <1>5, <2>1
<1> QED
  BY <1>4, <1>5

-----------------------------------------------------------------------------
(* What is taken is sent.                                                   *)

\* The frames t are the frames s followed by those of group g in the batch b.
Follows(t, s, b, g) ==
    /\ Len(t) = Len(s) + CountOf(b, g, Len(b))
    /\ \A k \in 1..Len(s) : s[k] = t[k]
    /\ \A k \in 1..Len(b) : b[k].group = g => b[k] = t[Len(s) + CountOf(b, g, k)]

\* A frame f of another group, or of the group, enters the batch.
LEMMA BatchGrows ==
    ASSUME NEW t \in Seq(Frames), NEW s \in Seq(Frames), NEW b \in Seq(Frames),
           NEW f \in Frames, NEW g, Follows(t, s, b, g)
    PROVE  Follows(IF f.group = g THEN Append(t, f) ELSE t, s, Append(b, f), g)
<1> DEFINE c == Append(b, f)
           u == IF f.group = g THEN Append(t, f) ELSE t
           n == CountOf(b, g, Len(b))
<1>1. /\ Len(b) \in Nat /\ Len(c) = Len(b) + 1 /\ c[Len(b) + 1] = f
      /\ \A k \in 1..Len(b) : c[k] = b[k]
  OBVIOUS
<1>2. Len(s) \in Nat /\ Len(t) \in Nat /\ n \in Nat /\ Len(t) = Len(s) + n
  <2>1. n \in Nat
    BY <1>1, CountTyped
  <2>2. Len(t) = Len(s) + n
    BY DEF Follows
  <2> QED
    BY <2>1, <2>2
<1>3. /\ Len(u) = IF f.group = g THEN Len(t) + 1 ELSE Len(t)
      /\ \A k \in 1..Len(t) : u[k] = t[k]
      /\ f.group = g => u[Len(t) + 1] = f
  OBVIOUS
<1> HIDE DEF c, u
<1>4. ASSUME NEW k \in 1..Len(b)
      PROVE  CountOf(c, g, k) = CountOf(b, g, k)
  <2>1. k \in Nat /\ \A j \in 1..k : c[j] = b[j]
    BY <1>1
  <2> QED
    BY <2>1, CountSame
<1>5. CountOf(c, g, Len(b)) = n
  BY <1>1, CountSame
<1> HIDE DEF n
<1>6. CountOf(c, g, Len(b) + 1) = IF f.group = g THEN n + 1 ELSE n
  BY <1>1, <1>5, CountNext
<1>7. Len(u) = Len(s) + CountOf(c, g, Len(c))
  BY <1>1, <1>2, <1>3, <1>6
<1>8. \A k \in 1..Len(s) : s[k] = u[k]
  BY <1>2, <1>3 DEF Follows
<1>9. ASSUME NEW k \in 1..Len(c), c[k].group = g
      PROVE  c[k] = u[Len(s) + CountOf(c, g, k)]
  <2>1. CASE k \in 1..Len(b)
    <3>1. b[k].group = g /\ c[k] = b[k]
      BY <1>1, <1>9, <2>1
    <3>2. CountOf(b, g, k) \in 1..n
      BY <1>1, <2>1, <3>1, CountUpTo DEF n
    <3>3. Len(s) + CountOf(b, g, k) \in 1..Len(t)
      BY <1>2, <3>2
    <3> QED
      BY <1>3, <1>4, <2>1, <3>1, <3>3 DEF Follows
  <2>2. CASE k = Len(b) + 1
    BY <1>1, <1>2, <1>3, <1>6, <1>9, <2>2
  <2> QED
    BY <1>1, <2>1, <2>2
<1> QED
  BY <1>7, <1>8, <1>9 DEF Follows, c, u

\* The first frame of the batch is sent.
LEMMA BatchShrinks ==
    ASSUME NEW t \in Seq(Frames), NEW s \in Seq(Frames), NEW b \in Seq(Frames), b # <<>>,
           NEW g, Follows(t, s, b, g)
    PROVE  Follows(t, IF Head(b).group = g THEN Append(s, Head(b)) ELSE s, Tail(b), g)
<1> DEFINE f == Head(b)
           c == Tail(b)
           u == IF f.group = g THEN Append(s, f) ELSE s
<1>1. /\ Len(c) \in Nat /\ Len(b) = Len(c) + 1 /\ f = b[1] /\ f \in Frames /\ 1 \in 1..Len(b)
      /\ \A k \in 1..Len(c) : c[k] = b[k + 1]
  OBVIOUS
<1>2. /\ Len(s) \in Nat /\ Len(u) = IF f.group = g THEN Len(s) + 1 ELSE Len(s)
      /\ \A k \in 1..Len(s) : u[k] = s[k]
      /\ f.group = g => u[Len(s) + 1] = f
  BY <1>1
<1> HIDE DEF c, u, f
<1>3. ASSUME NEW k \in 0..Len(c)
      PROVE  /\ CountOf(c, g, k) \in Nat
             /\ CountOf(b, g, k + 1) =
                   IF f.group = g THEN CountOf(c, g, k) + 1 ELSE CountOf(c, g, k)
  <2>1. k \in Nat /\ \A j \in 1..k : c[j] = b[j + 1]
    BY <1>1
  <2>2. CountOf(c, g, k) \in Nat
    BY <2>1, CountTyped
  <2>3. CountOf(b, g, k + 1) =
           IF b[1].group = g THEN CountOf(c, g, k) + 1 ELSE CountOf(c, g, k)
    BY <2>1, CountShift
  <2> QED
    BY <1>1, <2>2, <2>3
<1>4. Len(t) = Len(u) + CountOf(c, g, Len(c))
  <2>1. Len(c) \in 0..Len(c)
    BY <1>1
  <2>2. /\ CountOf(c, g, Len(c)) \in Nat
        /\ CountOf(b, g, Len(b)) = IF f.group = g THEN CountOf(c, g, Len(c)) + 1
                                  ELSE CountOf(c, g, Len(c))
    BY <1>1, <1>3, <2>1
  <2>3. Len(t) = Len(s) + CountOf(b, g, Len(b))
    BY DEF Follows
  <2> QED
    BY <1>2, <2>2, <2>3
<1>5. f.group = g => f = t[Len(s) + 1]
  <2>1. CountOf(b, g, 0 + 1) = IF b[0 + 1].group = g THEN CountOf(b, g, 0) + 1 ELSE CountOf(b, g, 0)
    BY CountNext
  <2>2. f.group = g => CountOf(b, g, 1) = 1
    BY <1>1, <2>1, CountNone
  <2> QED
    BY <1>1, <2>2 DEF Follows
<1>6. ASSUME NEW k \in 1..Len(u)
      PROVE  u[k] = t[k]
  <2>1. k \in 1..Len(s) \/ (f.group = g /\ k = Len(s) + 1)
    BY <1>2
  <2> QED
    BY <1>2, <1>5, <2>1 DEF Follows
<1>7. ASSUME NEW k \in 1..Len(c), c[k].group = g
      PROVE  c[k] = t[Len(u) + CountOf(c, g, k)]
  <2>1. k \in 0..Len(c) /\ k + 1 \in 1..Len(b) /\ c[k] = b[k + 1]
    BY <1>1
  <2>2. c[k] = t[Len(s) + CountOf(b, g, k + 1)]
    BY <1>7, <2>1 DEF Follows
  <2>3. Len(s) + CountOf(b, g, k + 1) = Len(u) + CountOf(c, g, k)
    BY <1>2, <1>3, <2>1
  <2> QED
    BY <2>2, <2>3
<1> QED
  BY <1>4, <1>6, <1>7 DEF Follows, c, u, f

\* pop_all finds the batch empty, so that its clear takes nothing away.
BatchEmpty == publisher.pc = "loop" => out = <<>>

SentInv ==
    /\ \A g \in Groups : Follows(taken[g], sent[g], out, g)
    /\ BatchEmpty

LEMMA SentPopStep ==
    ASSUME SentInv, QueueInv, PipelineTypeOK, SweepPops
    PROVE  SentInv'
<1> DEFINE f == Head(queue[Swept])
<1>1. Swept \in Groups /\ out \in Seq(Frames)
  BY PublisherPlace DEF PipelineTypeOK
<1>2. f \in Frames /\ f.group = Swept
  <2>1. /\ queue[Swept] \in Seq(Frames) /\ admitted[Swept] \in Seq(Frames)
        /\ taken[Swept] \in Seq(Frames) /\ queue[Swept] # <<>>
    BY <1>1, SequencesTyped DEF SweepPops
  <2>2. Splits(admitted[Swept], taken[Swept], queue[Swept]) /\ Numbered(admitted[Swept], Swept, pushed)
    BY <1>1 DEF QueueInv
  <2>3. /\ Len(taken[Swept]) + 1 \in 1..Len(admitted[Swept])
        /\ f = admitted[Swept][Len(taken[Swept]) + 1]
    BY <2>1, <2>2, PopSplits
  <2>4. f.group = Swept
    BY <2>2, <2>3 DEF Numbered
  <2> QED
    BY <2>1, <2>4
<1>3. /\ out' = Append(out, f) /\ taken' = [taken EXCEPT ![Swept] = Append(taken[Swept], f)]
      /\ UNCHANGED <<sent, publisher>> /\ publisher.pc # "loop"
  BY DEF SweepPops
<1> HIDE DEF f
<1>4. ASSUME NEW g \in Groups
      PROVE  Follows(taken'[g], sent'[g], out', g)
  <2>1. taken'[g] = IF f.group = g THEN Append(taken[g], f) ELSE taken[g]
    BY <1>1, <1>2, <1>3 DEF PipelineTypeOK
  <2>2. taken[g] \in Seq(Frames) /\ sent[g] \in Seq(Frames)
    BY SequencesTyped
  <2> QED
    BY <1>1, <1>2, <1>3, <2>1, <2>2, BatchGrows DEF SentInv
<1> QED
  BY <1>3, <1>4 DEF SentInv, BatchEmpty

LEMMA SentSendStep ==
    ASSUME SentInv, PipelineTypeOK, SendFrame
    PROVE  SentInv'
<1> DEFINE f == Head(out)
<1>1. out \in Seq(Frames) /\ out # <<>> /\ f \in Frames /\ f.group \in Groups
  <2>1. out \in Seq(Frames) /\ out # <<>>
    BY DEF SendFrame, PipelineTypeOK
  <2>2. f \in Frames
    BY <2>1
  <2> QED
    BY <2>1, <2>2, FrameParts
<1>2. /\ out' = Tail(out) /\ sent' = [sent EXCEPT ![f.group] = Append(sent[f.group], f)]
      /\ UNCHANGED <<taken, publisher>> /\ publisher.pc # "loop"
  BY DEF SendFrame
<1>3. ASSUME NEW g \in Groups
      PROVE  Follows(taken'[g], sent'[g], out', g)
  <2>1. sent'[g] = IF f.group = g THEN Append(sent[g], f) ELSE sent[g]
    BY <1>1, <1>2 DEF PipelineTypeOK
  <2>2. taken[g] \in Seq(Frames) /\ sent[g] \in Seq(Frames)
    BY SequencesTyped
  <2> QED
    BY <1>1, <1>2, <2>1, <2>2, BatchShrinks DEF SentInv
<1> QED
  BY <1>2, <1>3 DEF SentInv, BatchEmpty

LEMMA SentStep ==
    ASSUME SentInv, QueueInv, PipelineTypeOK, [PipelineNext]_pipelineVars
    PROVE  SentInv'
<1>1. CASE UNCHANGED pipelineVars
  BY <1>1 DEF pipelineVars, SentInv, BatchEmpty
<1>2. CASE ProducerStep
  <2>1. UNCHANGED <<taken, sent, out>>
    BY <1>2 DEF ProducerStep, ProducerPushes, ProducerSets, ProducerSignals
  <2>2. publisher'.pc = "loop" => publisher.pc = "loop"
    BY <1>2, PlacesTyped DEF ProducerStep, ProducerPushes, ProducerSets, ProducerSignals
  <2> QED
    BY <2>1, <2>2 DEF SentInv, BatchEmpty
<1>3. CASE PopAllBegins
  <2>1. out' = out /\ UNCHANGED <<taken, sent>>
    BY <1>3 DEF PopAllBegins, SentInv, BatchEmpty
  <2> QED
    BY <2>1, <1>3 DEF SentInv, BatchEmpty, PopAllBegins
<1>4. CASE SweepMovesOn \/ WaitReady \/ WaitTimesOut
  <2>1. publisher'.pc = "sweep"
    BY <1>4, PlacesTyped, PublisherPlace DEF SweepMovesOn, WaitReady, WaitTimesOut, Sweeping
  <2> QED
    BY <1>4, <2>1 DEF SentInv, BatchEmpty, SweepMovesOn, WaitReady, WaitTimesOut
<1>5. CASE SweepEnds
  <2>1. publisher'.pc = "loop" => out = <<>>
    BY <1>5, PlacesTyped DEF SweepEnds
  <2> QED
    BY <1>5, <2>1 DEF SentInv, BatchEmpty, SweepEnds
<1>6. CASE WaitBlocks \/ WaitSleeps \/ WaitWakes \/ PublisherEnds
  <2>1. publisher'.pc # "loop"
    BY <1>6, PlacesTyped DEF WaitBlocks, WaitSleeps, WaitWakes, PublisherEnds
  <2> QED
    BY <1>6, <2>1 DEF SentInv, BatchEmpty, WaitBlocks, WaitSleeps, WaitWakes, PublisherEnds
<1>7. CASE SendEnds \/ PublisherStop
  BY <1>7 DEF SentInv, BatchEmpty, SendEnds, PublisherStop
<1> QED
  BY <1>1, <1>2, <1>3, <1>4, <1>5, <1>6, <1>7, SentPopStep, SentSendStep
     DEF PipelineNext, PublisherStep

LEMMA SentAlways == PipelineSpec => []SentInv
<1>1. PipelineInit => SentInv
  BY CountNone DEF PipelineInit, SentInv, BatchEmpty, Follows
<1> QED
  BY <1>1, SentStep, QueuesKeepOrder, PipelineTypeCorrect, PTL DEF PipelineSpec

\* What pop_all takes out of a queue is sent, in its order, or still in the batch.
THEOREM BatchLosesNothing == PipelineSpec => []Conserved
<1>1. SentInv => Conserved
  BY DEF SentInv, Follows, Conserved
<1> QED
  BY <1>1, SentAlways, PTL

\* What is sent for a group is of the group and in the order of the pushes: the
\* n-th frame sent is the n-th that its queue took.
SentInOrder ==
    \A g \in Groups :
        /\ Len(sent[g]) <= Len(admitted[g])
        /\ \A k \in 1..Len(sent[g]) : sent[g][k] = admitted[g][k] /\ sent[g][k].group = g
        /\ \A k, n \in 1..Len(sent[g]) : k < n => sent[g][k].seq < sent[g][n].seq

THEOREM FramesSentInOrder == PipelineSpec => []SentInOrder
<1>1. ASSUME QueueInv, SentInv, PipelineTypeOK
      PROVE  SentInOrder
  <2> SUFFICES ASSUME NEW g \in Groups
               PROVE  /\ Len(sent[g]) <= Len(admitted[g])
                      /\ \A k \in 1..Len(sent[g]) :
                            sent[g][k] = admitted[g][k] /\ sent[g][k].group = g
                      /\ \A k, n \in 1..Len(sent[g]) : k < n => sent[g][k].seq < sent[g][n].seq
    BY DEF SentInOrder
  <2> DEFINE a == admitted[g]
             t == taken[g]
             s == sent[g]
             c == CountOf(out, g, Len(out))
             q == queue[g]
  <2>1. /\ Len(a) \in Nat /\ Len(t) \in Nat /\ Len(s) \in Nat /\ Len(q) \in Nat
        /\ Len(out) \in Nat
    BY <1>1, SequencesTyped DEF PipelineTypeOK
  <2>2. Len(s) <= Len(t) /\ Len(t) <= Len(a)
    <3>1. c \in Nat
      BY <2>1, CountTyped
    <3>2. Len(t) = Len(s) + c
      BY <1>1 DEF SentInv, Follows
    <3>3. Len(a) = Len(t) + Len(q)
      BY <1>1 DEF QueueInv, Splits
    <3> HIDE DEF a, t, s, c, q
    <3> QED
      BY <2>1, <3>1, <3>2, <3>3
  <2>3. /\ \A k \in 1..Len(t) : t[k] = a[k]
        /\ \A k \in 1..Len(a) : a[k].group = g
        /\ \A k, n \in 1..Len(a) : k < n => a[k].seq < a[n].seq
    BY <1>1 DEF QueueInv, Splits, Numbered
  <2>4. \A k \in 1..Len(s) : s[k] = t[k]
    BY <1>1 DEF SentInv, Follows
  <2> HIDE DEF a, t, s, c, q
  <2>5. Len(s) <= Len(a) /\ \A k \in 1..Len(s) : k \in 1..Len(a) /\ s[k] = a[k]
    <3>1. \A k \in 1..Len(s) : k \in 1..Len(t) /\ k \in 1..Len(a)
      BY <2>1, <2>2
    <3> QED
      BY <2>1, <2>2, <2>3, <2>4, <3>1
  <2>6. /\ \A k \in 1..Len(s) : s[k] = a[k] /\ s[k].group = g
        /\ \A k, n \in 1..Len(s) : k < n => s[k].seq < s[n].seq
    BY <2>3, <2>5
  <2> QED
    BY <2>5, <2>6 DEF a, s
<1> QED
  BY <1>1, SentAlways, QueuesKeepOrder, PipelineTypeCorrect, PTL
=============================================================================
