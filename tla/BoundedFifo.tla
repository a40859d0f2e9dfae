---------------------------- MODULE BoundedFifo ----------------------------
(***************************************************************************)
(* What ChannelFrameQueue promises: a bounded first-in first-out queue     *)
(* that refuses the newest frame when it is full.  The queue is the part   *)
(* of accepted that has not been delivered yet.                            *)
(***************************************************************************)
EXTENDS Integers, Sequences

CONSTANTS Frames,       \* the frames that can be offered
          Bound         \* how many frames the queue holds

VARIABLES accepted,     \* the frames the queue took, in order
          delivered,    \* the frames it gave back, in order
          refused       \* how many frames it turned away

fifoVars == <<accepted, delivered, refused>>

Waiting == Len(accepted) - Len(delivered)

FifoInit == accepted = <<>> /\ delivered = <<>> /\ refused = 0

\* A frame is taken only when there is room.
Accept(f) ==
    /\ Waiting < Bound
    /\ accepted' = Append(accepted, f)
    /\ UNCHANGED <<delivered, refused>>

\* The newest frame is refused, and only by a full queue.
Refuse ==
    /\ Waiting = Bound
    /\ refused' = refused + 1
    /\ UNCHANGED <<accepted, delivered>>

\* The oldest waiting frame is delivered.
Deliver ==
    /\ Waiting > 0
    /\ delivered' = Append(delivered, accepted[Len(delivered) + 1])
    /\ UNCHANGED <<accepted, refused>>

FifoNext == (\E f \in Frames : Accept(f)) \/ Refuse \/ Deliver

FifoSpec == FifoInit /\ [][FifoNext]_fifoVars
=============================================================================
