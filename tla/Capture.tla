------------------------------- MODULE Capture -------------------------------
(***************************************************************************)
(* The tick of the capture thread (CaptureEngine::run in                   *)
(* src/capture/CaptureEngine.cpp): the two reads of the clock that make a  *)
(* timestamp, the frames of the groups, which share it, and the sleep that *)
(* keeps the pace.  Which types are on, and what becomes of a frame in its *)
(* queue, is in Node; here any members of a group may be found on.         *)
(*                                                                         *)
(* Time is a number of clock units, Second of them a second; a unit is the *)
(* millisecond to which run cuts a period and the time of a tick.  Only    *)
(* the capture thread looks at it, so it moves when that thread does: up   *)
(* to Drift units pass before each read of a clock.  system_clock and      *)
(* steady_clock move together: nobody sets the clock while the node runs.  *)
(***************************************************************************)
EXTENDS SimDataSource, Types

CONSTANTS Second,         \* units in a second
          Drift,          \* units that pass between two reads of a clock at most
          Starts,         \* the instants at which the thread may start
          Rates,          \* the values of fps in use
          MaxTicks,       \* bound on the ticks
          MaxSets         \* bound on the changes of fps

ASSUME TimeAssumption ==
    /\ Second \in Nat \ {0} /\ Drift \in 0 .. Second - 1
    /\ Starts \subseteq Nat /\ Rates \subseteq 1 .. Second
    /\ MaxTicks \in Nat /\ MaxSets \in Nat

VARIABLES now,            \* the clocks
          fps, sets,      \* the parameter fps, and how often it was changed
          running,        \* running_
          capture,        \* where the thread is, and the locals of run
          frameIndex,     \* frame_index
          last,           \* history: the last frame pushed to each group
          previous,       \* history: the start, the period and the busy time of
                          \* the tick before
          shown           \* history: the stereo pairs pushed so far

captureVars == <<sourceVars, now, fps, sets, running, capture, frameIndex,
                 last, previous, shown>>

NoFrame == [pair |-> 0, start |-> 0, stamp |-> 0]

NoTick == [start |-> 0, period |-> 0, busy |-> 0]

\* Outside the body of the loop its locals have no value.
At(pc, until) == [pc |-> pc, i |-> 1, start |-> 0, sec |-> 0, nsec |-> 0, until |-> until]

CaptureInit ==
    /\ SourceInit
    /\ now \in Starts
    /\ fps \in Rates /\ sets = 0
    /\ running = TRUE
    /\ capture = At("tick", 0)
    /\ frameIndex = 0
    /\ last = [g \in Groups |-> NoFrame]
    /\ previous = NoTick
    /\ shown = <<>>

\* A read of a clock.
ReadsClock == now' \in now .. now + Drift

-----------------------------------------------------------------------------
(* The start of a tick.                                                     *)

TickStarts ==
    /\ capture.pc = "tick" /\ running /\ frameIndex < MaxTicks
    /\ ReadsClock
    /\ capture' = [capture EXCEPT !.pc = "sec", !.start = now']
    /\ UNCHANGED <<sourceVars, fps, sets, running, frameIndex, last, previous, shown>>

\* Faulty variant: the second is rounded, not truncated.
ReadsSec_Rounded ==
    /\ capture.pc = "sec"
    /\ ReadsClock
    /\ capture' = [capture EXCEPT !.pc = "nsec",
                                  !.sec = (now' + (Second \div 2)) \div Second]
    /\ UNCHANGED <<sourceVars, fps, sets, running, frameIndex, last, previous, shown>>

ReadsSec ==
    /\ capture.pc = "sec"
    /\ ReadsClock
    /\ capture' = [capture EXCEPT !.pc = "nsec", !.sec = now' \div Second]
    /\ UNCHANGED <<sourceVars, fps, sets, running, frameIndex, last, previous, shown>>

ReadsNsec ==
    /\ capture.pc = "nsec"
    /\ ReadsClock
    /\ capture' = [capture EXCEPT !.pc = "group", !.nsec = now' % Second]
    /\ UNCHANGED <<sourceVars, fps, sets, running, frameIndex, last, previous, shown>>

-----------------------------------------------------------------------------
(* The groups.  A frame with nothing in it is not pushed.                   *)

Stamp == capture.sec * Second + capture.nsec

NextGroup ==
    IF capture.i < Len(GroupOrder) THEN [capture EXCEPT !.i = @ + 1]
                                   ELSE [capture EXCEPT !.pc = "pace"]

Skips ==
    /\ capture.pc = "group"
    /\ capture' = NextGroup
    /\ UNCHANGED <<sourceVars, now, fps, sets, running, frameIndex, last, previous, shown>>

FrameOf(index) ==
    [pair |-> index, start |-> capture.start, stamp |-> Stamp]

\* Faulty variant: frames are counted, not ticks.
Pushes_Counts(on) ==
    /\ capture.pc = "group"
    /\ on # {} /\ (on = {"stereo_image"} => HasPairs)
    /\ last' = [last EXCEPT ![GroupOrder[capture.i]] = FrameOf(frameIndex)]
    /\ frameIndex' = frameIndex + 1
    /\ capture' = NextGroup
    /\ UNCHANGED <<sourceVars, now, fps, sets, running, previous, shown>>

\* build_frame with the members that are on, and push.
Pushes(on) ==
    /\ capture.pc = "group"
    /\ on # {} /\ (on = {"stereo_image"} => HasPairs)
    /\ last' = [last EXCEPT ![GroupOrder[capture.i]] = FrameOf(frameIndex)]
    /\ IF "stereo_image" \in on /\ HasPairs
       THEN cursor' = cursor + 1 /\ shown' = Append(shown, NextPair)
       ELSE UNCHANGED <<cursor, shown>>
    /\ capture' = NextGroup
    /\ UNCHANGED <<dir, pairs, now, fps, sets, running, frameIndex, previous>>

-----------------------------------------------------------------------------
(* The pace.  set_parameter and config.json keep fps where its clamp to     *)
(* 1..240 changes nothing, and a period is never zero (Settings).           *)

Period == Second \div fps

Paces ==
    /\ capture.pc = "pace"
    /\ ReadsClock
    /\ frameIndex' = frameIndex + 1
    /\ LET elapsed == now' - capture.start
       IN  /\ previous' = [start |-> capture.start, period |-> Period, busy |-> elapsed]
           /\ capture' = IF Period > elapsed
                         THEN At("sleep", now' + (Period - elapsed))
                         ELSE At("tick", 0)
    /\ UNCHANGED <<sourceVars, fps, sets, running, last, shown>>

\* Faulty variant: wait_for without a predicate, so a spurious wake-up ends it.
SleepEnds_Spurious ==
    /\ capture.pc = "sleep"
    /\ now' \in now .. capture.until
    /\ capture' = At("tick", 0)
    /\ UNCHANGED <<sourceVars, fps, sets, running, frameIndex, last, previous, shown>>

\* Faulty variant: wait, which only wake() would end, and nobody calls it.
SleepEnds_Woken ==
    /\ capture.pc = "sleep" /\ FALSE
    /\ UNCHANGED captureVars

\* CapturePacer::sleep_for: nothing ends it before its time.  How late the thread
\* wakes is in what passes before its next read of the clock.
SleepEnds ==
    /\ capture.pc = "sleep"
    /\ now' = capture.until
    /\ capture' = At("tick", 0)
    /\ UNCHANGED <<sourceVars, fps, sets, running, frameIndex, last, previous, shown>>

CaptureEnds ==
    /\ capture.pc = "tick" /\ ~running
    /\ capture' = At("done", 0)
    /\ UNCHANGED <<sourceVars, now, fps, sets, running, frameIndex, last, previous, shown>>

-----------------------------------------------------------------------------
(* The other threads: set_parameter by a worker, and stop() by main.        *)

SetFps ==
    /\ sets < MaxSets
    /\ fps' \in Rates \ {fps}
    /\ sets' = sets + 1
    /\ UNCHANGED <<sourceVars, now, running, capture, frameIndex, last, previous, shown>>

StopCapture ==
    /\ running
    /\ running' = FALSE
    /\ UNCHANGED <<sourceVars, now, fps, sets, capture, frameIndex, last, previous, shown>>

CaptureStep ==
    \/ TickStarts \/ ReadsSec \/ ReadsNsec
    \/ Skips \/ \E on \in SUBSET GroupMembers(GroupOrder[capture.i]) : Pushes(on)
    \/ Paces \/ SleepEnds \/ CaptureEnds

CaptureNext == CaptureStep \/ SetFps \/ StopCapture

CaptureSpec == CaptureInit /\ [][CaptureNext]_captureVars

\* The thread is scheduled, and its sleep has a timeout.
FairCaptureSpec == CaptureSpec /\ WF_captureVars(CaptureStep)

-----------------------------------------------------------------------------
(* Properties.                                                              *)

\* The second and the nanoseconds of a timestamp come from two reads of the
\* clock (now_unix_sec, now_unix_nsec).  Torn by the end of a second, it lies a
\* second back; it is never in the future, and never more than a second before
\* its tick.
StampHonest ==
    \A g \in Groups :
        /\ last[g].stamp <= now
        /\ last[g].stamp + Second >= last[g].start

\* Frames of one tick carry one pair_id and one timestamp, frames of two ticks
\* never the same pair_id, also when groups come and go between them.
SnapshotShared ==
    \A g, h \in Groups :
        last[g] # NoFrame /\ last[h] # NoFrame =>
            /\ last[g].pair = last[h].pair <=> last[g].start = last[h].start
            /\ last[g].pair = last[h].pair => last[g].stamp = last[h].stamp

\* Two ticks are a period apart at least, and when the work of a tick fits into
\* the period the next one is late by no more than the read after the sleep.
PaceKept ==
    frameIndex > 0 /\ capture.pc \in {"sec", "nsec", "group", "pace"} =>
        /\ capture.start >= previous.start + previous.period
        /\ \/ capture.start <= previous.start + previous.period + Drift
           \/ capture.start <= previous.start + previous.busy + Drift

\* The images are shown in the order of their indexes, over and over, whatever
\* ticks the type is off in; a side is an image of its pair, the one mirrored
\* from the other side if it has no file, and blank only if the file that was
\* picked cannot be read.
Follows(i, j) ==
    \/ i < j /\ \A k \in Indexes(dir) : k <= i \/ j <= k
    \/ \A k \in Indexes(dir) : j <= k /\ k <= i

Rightful(image, i, s) ==
    LET own == {f \in dir : f.index = i /\ f.side = s}
        files == IF own = {} THEN {f \in dir : f.index = i} ELSE own
    IN  (\E f \in files : image = {f}) \/ (image = {} /\ \E f \in files : ~f.readable)

PairsInTurn ==
    \A n \in 1 .. Len(shown) :
        /\ n > 1 => Follows(shown[n - 1].index, shown[n].index)
        /\ Rightful(shown[n].left, shown[n].index, "l")
        /\ Rightful(shown[n].right, shown[n].index, "r")

\* stop() joins a thread that may be asleep and that nobody wakes: it ends.
CaptureStops == ~running ~> capture.pc = "done"
=============================================================================
