---------------------------- MODULE DataPipeline ----------------------------
(***************************************************************************)
(* DataPipeline (src/data/DataPipeline.cpp): one queue per group, a        *)
(* condition variable that tells the publisher of new frames, and the loop *)
(* of DataPublisher::run that takes them.                                  *)
(*                                                                         *)
(* The capture thread pushes and the publisher pops.  With those two alone *)
(* each queue is the bounded queue of BoundedFifo (SPSCQueueProofs), so a  *)
(* push or a pop is one step here.  What the drains of the command workers *)
(* do to a queue is in SPSCQueue, where they are consumers of their own.   *)
(*                                                                         *)
(* The publisher holds mtx_ between its test of notified_ and its sleep;   *)
(* the capture thread holds it to set notified_.                           *)
(***************************************************************************)
EXTENDS Types, Naturals

CONSTANTS QueueSize,    \* queue_capacity of the configuration
          MaxFrames     \* bound on the frames that are pushed

ASSUME QueueSizeAssumption == QueueSize \in Nat \ {0}
ASSUME MaxFramesAssumption == MaxFrames \in Nat

VARIABLES queue,        \* q2d_, q3d_ and qsensor_
          notified,     \* notified_
          producer,     \* where the capture thread is in push()
          publisher,    \* where the publisher is, which queue it sweeps, and
                        \* whether it has waited since pop_all began
          out,          \* the frames pop_all has taken
          running,      \* DataPublisher::running_
          pushed,       \* history: how many frames were pushed
          dropped,      \* dropped_ of each queue
          admitted,     \* history: the frames each queue took
          taken,        \* history: the frames pop_all took out of each queue
          sent          \* history: the frames sent for each group

pipelineVars == <<queue, notified, producer, publisher, out, running,
                  pushed, dropped, admitted, taken, sent>>

Sweeping(i, waited) == [pc |-> "sweep", i |-> i, waited |-> waited]
At(pc) == [pc |-> pc, i |-> 1, waited |-> FALSE]

PipelineInit ==
    /\ queue = [g \in Groups |-> <<>>]
    /\ notified = FALSE
    /\ producer = "idle"
    /\ publisher = At("loop")
    /\ out = <<>>
    /\ running = TRUE
    /\ pushed = 0
    /\ dropped = [g \in Groups |-> 0]
    /\ admitted = [g \in Groups |-> <<>>]
    /\ taken = [g \in Groups |-> <<>>]
    /\ sent = [g \in Groups |-> <<>>]

-----------------------------------------------------------------------------
(* push, by the capture thread.                                             *)

\* Faulty variant: > where the code has >=.
ProducerPushes_OffByOne(g) ==
    /\ producer = "idle" /\ pushed < MaxFrames
    /\ LET f == [group |-> g, seq |-> pushed]
       IN  /\ queue' = [queue EXCEPT ![g] = IF Len(@) <= QueueSize THEN Append(@, f) ELSE @]
           /\ admitted' = [admitted EXCEPT
                 ![g] = IF Len(queue[g]) <= QueueSize THEN Append(@, f) ELSE @]
    /\ pushed' = pushed + 1
    /\ producer' = "set"
    /\ UNCHANGED <<notified, publisher, out, running, dropped, taken, sent>>

\* try_push: the frame is taken or, in a full queue, dropped; push goes on to
\* notify in both cases.
ProducerPushes(g) ==
    /\ producer = "idle" /\ pushed < MaxFrames
    /\ LET f == [group |-> g, seq |-> pushed]
       IN  \/ /\ Len(queue[g]) < QueueSize
              /\ queue' = [queue EXCEPT ![g] = Append(@, f)]
              /\ admitted' = [admitted EXCEPT ![g] = Append(@, f)]
              /\ UNCHANGED dropped
           \/ /\ Len(queue[g]) >= QueueSize
              /\ dropped' = [dropped EXCEPT ![g] = @ + 1]
              /\ UNCHANGED <<queue, admitted>>
    /\ pushed' = pushed + 1
    /\ producer' = "set"
    /\ UNCHANGED <<notified, publisher, out, running, taken, sent>>

\* Faulty variant: notified_ is set without mtx_.
ProducerSets_NoLock ==
    /\ producer = "set"
    /\ notified' = TRUE
    /\ producer' = "signal"
    /\ UNCHANGED <<queue, publisher, out, running, pushed, dropped, admitted, taken, sent>>

ProducerSets ==
    /\ producer = "set"
    /\ publisher.pc # "block"
    /\ notified' = TRUE
    /\ producer' = "signal"
    /\ UNCHANGED <<queue, publisher, out, running, pushed, dropped, admitted, taken, sent>>

ProducerSignals ==
    /\ producer = "signal"
    /\ publisher' = IF publisher.pc = "asleep" THEN At("wait") ELSE publisher
    /\ producer' = "idle"
    /\ UNCHANGED <<queue, notified, out, running, pushed, dropped, admitted, taken, sent>>

ProducerStep == (\E g \in Groups : ProducerPushes(g)) \/ ProducerSets \/ ProducerSignals

-----------------------------------------------------------------------------
(* pop_all, by the publisher.                                               *)

Swept == GroupOrder[publisher.i]

PopAllBegins ==
    /\ publisher.pc = "loop" /\ running
    /\ out' = <<>>
    /\ publisher' = Sweeping(1, FALSE)
    /\ UNCHANGED <<queue, notified, producer, running, pushed, dropped, admitted, taken, sent>>

\* Faulty variant: the frame replaces the one taken before it.
SweepPops_Overwrites ==
    /\ publisher.pc = "sweep" /\ queue[Swept] # <<>>
    /\ out' = <<Head(queue[Swept])>>
    /\ taken' = [taken EXCEPT ![Swept] = Append(@, Head(queue[Swept]))]
    /\ queue' = [queue EXCEPT ![Swept] = Tail(@)]
    /\ UNCHANGED <<notified, producer, publisher, running, pushed, dropped, admitted, sent>>

SweepPops ==
    /\ publisher.pc = "sweep" /\ queue[Swept] # <<>>
    /\ out' = Append(out, Head(queue[Swept]))
    /\ taken' = [taken EXCEPT ![Swept] = Append(@, Head(queue[Swept]))]
    /\ queue' = [queue EXCEPT ![Swept] = Tail(@)]
    /\ UNCHANGED <<notified, producer, publisher, running, pushed, dropped, admitted, sent>>

SweepMovesOn ==
    /\ publisher.pc = "sweep" /\ queue[Swept] = <<>>
    /\ publisher.i < Len(GroupOrder)
    /\ publisher' = Sweeping(publisher.i + 1, publisher.waited)
    /\ UNCHANGED <<queue, notified, producer, out, running, pushed, dropped, admitted, taken, sent>>

\* The last queue is empty: pop_all returns what it has, or waits, or, when it
\* has waited, returns with nothing.
SweepEnds ==
    /\ publisher.pc = "sweep" /\ queue[Swept] = <<>>
    /\ publisher.i = Len(GroupOrder)
    /\ publisher' = IF out # <<>> THEN At("send")
                    ELSE IF publisher.waited THEN At("loop")
                    ELSE At("wait")
    /\ UNCHANGED <<queue, notified, producer, out, running, pushed, dropped, admitted, taken, sent>>

\* wait_for with mtx_: the predicate holds.
WaitReady ==
    /\ publisher.pc = "wait" /\ notified
    /\ notified' = FALSE
    /\ publisher' = Sweeping(1, TRUE)
    /\ UNCHANGED <<queue, producer, out, running, pushed, dropped, admitted, taken, sent>>

\* It does not hold; mtx_ stays locked until the publisher sleeps.
WaitBlocks ==
    /\ publisher.pc = "wait" /\ ~notified
    /\ publisher' = At("block")
    /\ UNCHANGED <<queue, notified, producer, out, running, pushed, dropped, admitted, taken, sent>>

WaitSleeps ==
    /\ publisher.pc = "block"
    /\ publisher' = At("asleep")
    /\ UNCHANGED <<queue, notified, producer, out, running, pushed, dropped, admitted, taken, sent>>

\* wait_for may go back to its test without a notification.
WaitWakes ==
    /\ publisher.pc = "asleep"
    /\ publisher' = At("wait")
    /\ UNCHANGED <<queue, notified, producer, out, running, pushed, dropped, admitted, taken, sent>>

\* Faulty variant: wait() in place of wait_for().
WaitTimesOut_Never == FALSE /\ UNCHANGED pipelineVars

WaitTimesOut ==
    /\ publisher.pc = "asleep"
    /\ notified' = FALSE
    /\ publisher' = Sweeping(1, TRUE)
    /\ UNCHANGED <<queue, producer, out, running, pushed, dropped, admitted, taken, sent>>

-----------------------------------------------------------------------------
(* DataPublisher::run and stop.                                             *)

\* send_group of the next frame of the batch.
SendFrame ==
    /\ publisher.pc = "send" /\ out # <<>>
    /\ LET f == Head(out) IN sent' = [sent EXCEPT ![f.group] = Append(@, f)]
    /\ out' = Tail(out)
    /\ UNCHANGED <<queue, notified, producer, publisher, running, pushed, dropped, admitted, taken>>

SendEnds ==
    /\ publisher.pc = "send" /\ out = <<>>
    /\ publisher' = At("loop")
    /\ UNCHANGED <<queue, notified, producer, out, running, pushed, dropped, admitted, taken, sent>>

PublisherEnds ==
    /\ publisher.pc = "loop" /\ ~running
    /\ publisher' = At("done")
    /\ UNCHANGED <<queue, notified, producer, out, running, pushed, dropped, admitted, taken, sent>>

PublisherStep ==
    \/ PopAllBegins \/ SweepPops \/ SweepMovesOn \/ SweepEnds
    \/ WaitReady \/ WaitBlocks \/ WaitSleeps
    \/ SendFrame \/ SendEnds \/ PublisherEnds

\* stop(), by main; it joins the publisher and notifies nobody.
PublisherStop ==
    /\ running
    /\ running' = FALSE
    /\ UNCHANGED <<queue, notified, producer, publisher, out, pushed, dropped, admitted, taken, sent>>

-----------------------------------------------------------------------------
PipelineNext ==
    \/ ProducerStep
    \/ PublisherStep \/ WaitWakes \/ WaitTimesOut
    \/ PublisherStop

PipelineSpec == PipelineInit /\ [][PipelineNext]_pipelineVars

\* Both threads go on when they can, and the capture thread gets mtx_, which
\* the publisher lets go of when it sleeps.  Nothing says that wait_for ever
\* times out or returns by itself, or that main stops the publisher.
FairSpec ==
    /\ PipelineSpec
    /\ WF_pipelineVars(ProducerSets \/ ProducerSignals) /\ SF_pipelineVars(ProducerSets)
    /\ WF_pipelineVars(PublisherStep)

-----------------------------------------------------------------------------
(* Properties.                                                              *)

Frames == [group : Groups, seq : 0..MaxFrames]

PublisherStates ==
    [pc : {"loop", "sweep", "wait", "block", "asleep", "send", "done"},
     i : 1..Len(GroupOrder), waited : BOOLEAN]

\* Values of the variables; no queue holds more than its capacity.
PipelineTypeOK ==
    /\ queue \in [Groups -> Seq(Frames)]
    /\ \A g \in Groups : Len(queue[g]) <= QueueSize
    /\ notified \in BOOLEAN /\ running \in BOOLEAN
    /\ producer \in {"idle", "set", "signal"}
    /\ publisher \in PublisherStates
    /\ out \in Seq(Frames)
    /\ pushed \in 0..MaxFrames
    /\ dropped \in [Groups -> Nat]
    /\ admitted \in [Groups -> Seq(Frames)]
    /\ taken \in [Groups -> Seq(Frames)]
    /\ sent \in [Groups -> Seq(Frames)]

\* How many of the first k frames of a batch are of group g.
CountOf(batch, g, k) == Cardinality({j \in 1..k : batch[j].group = g})

\* What pop_all took out of a queue is, in its order, what was sent for the group
\* and what is left of the batch: the batch mixes the groups, and neither its two
\* sweeps nor the clear at its start loses a frame or changes the order of one.
Conserved ==
    \A g \in Groups :
        /\ Len(taken[g]) = Len(sent[g]) + CountOf(out, g, Len(out))
        /\ \A k \in 1..Len(sent[g]) : sent[g][k] = taken[g][k]
        /\ \A k \in 1..Len(out) :
              out[k].group = g => out[k] = taken[g][Len(sent[g]) + CountOf(out, g, k)]

\* Each queue is the bounded queue that SPSCQueue is shown to implement: push and
\* pop_all do nothing to it that BoundedFifo does not allow.
Fifo(g) == INSTANCE BoundedFifo WITH
    Bound <- QueueSize, accepted <- admitted[g], delivered <- taken[g],
    refused <- dropped[g]

QueuesAreFifos ==
    /\ \A g \in Groups : Fifo(g)!FifoInit
    /\ [][\A g \in Groups : [Fifo(g)!FifoNext]_(Fifo(g)!fifoVars)]_<<admitted, taken, dropped>>

\* When push() has returned and the publisher sleeps, nothing is queued: no
\* notification is lost between the sweeps, the test and the sleep.
AsleepMeansEmpty ==
    publisher.pc = "asleep" /\ producer = "idle" =>
        \A g \in Groups : queue[g] = <<>>

\* What the queues took is sent in the end unless the publisher is stopped, also
\* when wait_for never times out.
QueuedIsSent ==
    \A g \in Groups :
        sent[g] # admitted[g] ~> sent[g] = admitted[g] \/ ~running

\* The publisher ends when it is told to; it is never woken for that, so this
\* takes a wait that reaches its deadline, which a spurious return does not move.
StopReturns ==
    SF_pipelineVars(WaitTimesOut) => (~running ~> publisher.pc = "done")
=============================================================================
