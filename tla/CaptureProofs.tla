---------------------------- MODULE CaptureProofs ----------------------------
(***************************************************************************)
(* Timestamps, pair ids and the pace of the capture thread, for every      *)
(* length of a second, every drift below it and any values of fps; and the *)
(* order of the stereo pairs, for every directory.                         *)
(***************************************************************************)
EXTENDS Capture, FiniteSetTheorems, TLAPS

-----------------------------------------------------------------------------
(* Seconds.                                                                 *)

LEMMA Division ==
    ASSUME NEW s \in Nat \ {0}, NEW t \in Nat
    PROVE  /\ t \div s \in Nat /\ t % s \in 0 .. s - 1
           /\ t = s * (t \div s) + (t % s)
<1>1. t = s * (t \div s) + (t % s) /\ t % s \in 0 .. s - 1
  BY SMT
<1>2. t \div s \in Nat
  BY SMT
<1> QED
  BY <1>1, <1>2

\* An instant less than a second later is in the same second or in the next.
LEMMA NextSecond ==
    ASSUME NEW s \in Nat \ {0}, NEW t \in Nat, NEW u \in Nat, t <= u, u < t + s
    PROVE  u \div s = t \div s \/ u \div s = (t \div s) + 1
<1> DEFINE a == t \div s
           b == u \div s
           p == t % s
           q == u % s
<1>1. /\ a \in Nat /\ p \in 0 .. s - 1 /\ t = s * a + p
      /\ b \in Nat /\ q \in 0 .. s - 1 /\ u = s * b + q
  BY Division
<1> HIDE DEF a, b, p, q
<1>2. CASE b >= a + 2
  <2>1. s * (b - (a + 2)) >= 0
    BY <1>1, <1>2
  <2>2. s * (b - (a + 2)) = s * b - (s * a + 2 * s)
    BY <1>1
  <2> QED
    BY <1>1, <2>1, <2>2
<1>3. CASE b < a
  <2>1. s * (a - (b + 1)) >= 0
    BY <1>1, <1>3
  <2>2. s * (a - (b + 1)) = s * a - (s * b + s)
    BY <1>1
  <2> QED
    BY <1>1, <2>1, <2>2
<1> QED
  BY <1>1, <1>2, <1>3 DEF a, b

\* A timestamp torn by the end of a second lies exactly a second back.
LEMMA TornStamp ==
    ASSUME NEW s \in Nat \ {0}, NEW t \in Nat, NEW u \in Nat, t <= u, u < t + s
    PROVE  /\ (t \div s) * s + (u % s) \in Nat
           /\ (t \div s) * s + (u % s) = u \/ (t \div s) * s + (u % s) = u - s
<1> DEFINE a == t \div s
           b == u \div s
           r == u % s
<1>1. /\ a \in Nat /\ b \in Nat /\ r \in 0 .. s - 1 /\ u = s * b + r
      /\ b = a \/ b = a + 1
  BY Division, NextSecond
<1> HIDE DEF a, b, r
<1>2. /\ s * (a + 1) = s * a + s /\ s * a = a * s
      /\ s * a \in Nat /\ r \in Nat
  BY <1>1
<1>3. a * s + r \in Nat /\ (a * s + r = u \/ a * s + r = u - s)
  BY <1>1, <1>2
<1> QED
  BY <1>3 DEF a, r

\* No rate in use makes a period of nothing.
LEMMA PeriodPositive ==
    ASSUME fps \in Rates
    PROVE  Period \in Nat /\ Period >= 1
<1> DEFINE q == Second \div fps
<1>1. fps \in Nat \ {0} /\ fps <= Second /\ Second \in Nat
  BY TimeAssumption
<1>2. q \in Nat /\ Second % fps \in 0 .. fps - 1 /\ Second = fps * q + (Second % fps)
  BY <1>1, Division
<1> HIDE DEF q
<1>3. q # 0
  BY <1>1, <1>2
<1> QED
  BY <1>2, <1>3 DEF q, Period

-----------------------------------------------------------------------------
(* The inductive invariant.                                                 *)

Places == {"tick", "sec", "nsec", "group", "pace", "sleep", "done"}

Locals == [pc : Places, i : 1 .. 3, start : Nat, sec : Nat, nsec : Nat, until : Nat]

FrameRecords == [pair : Nat, start : Nat, stamp : Nat]

CaptureType ==
    /\ now \in Nat /\ fps \in Rates /\ frameIndex \in Nat
    /\ capture \in Locals
    /\ last \in [Groups -> FrameRecords]
    /\ previous \in [start : Nat, period : Nat, busy : Nat]

\* What the locals of a tick say about the clock.
ClockRead ==
    /\ capture.pc \in {"sec", "nsec", "group", "pace"} => capture.start <= now
    /\ capture.pc = "nsec" => capture.sec = now \div Second
    /\ capture.pc \in {"group", "pace"} =>
          Stamp <= now /\ Stamp + Second >= capture.start

\* Where the next tick stands to the one before, from the end of the one on.
Paced ==
    /\ frameIndex > 0 => previous.period >= 1
    /\ capture.pc = "sleep" =>
          /\ frameIndex > 0 /\ capture.until >= now
          /\ capture.until = previous.start + previous.period
    /\ capture.pc = "tick" /\ frameIndex > 0 =>
          /\ now >= previous.start + previous.period
          /\ now \in {previous.start + previous.period, previous.start + previous.busy}

\* A frame with the index of this tick is of this tick, any other older.
FramesDated ==
    \A g \in Groups : last[g] # NoFrame =>
        \/ /\ last[g].pair = frameIndex
           /\ capture.pc \in {"group", "pace"}
           /\ last[g].start = capture.start /\ last[g].stamp = Stamp
        \/ last[g].pair < frameIndex /\ last[g].start <= previous.start

CaptureIInv ==
    /\ CaptureType /\ ClockRead /\ Paced /\ FramesDated
    /\ StampHonest /\ SnapshotShared /\ PaceKept

LEMMA CaptureInitIInv ==
    ASSUME CaptureInit
    PROVE  CaptureIInv
<1>1. CaptureType
  BY TimeAssumption DEF CaptureInit, CaptureType, Locals, Places, At, FrameRecords,
                        NoFrame, NoTick
<1>2. ClockRead /\ Paced /\ PaceKept
  BY DEF CaptureInit, ClockRead, Paced, PaceKept, At
<1>3. FramesDated /\ SnapshotShared
  BY DEF CaptureInit, FramesDated, SnapshotShared
<1>4. StampHonest
  BY <1>1, TimeAssumption DEF CaptureInit, CaptureType, StampHonest, NoFrame
<1> QED
  BY <1>1, <1>2, <1>3, <1>4 DEF CaptureIInv

-----------------------------------------------------------------------------
(* The steps.                                                               *)

\* As long as the frames, the index and the tick before stay and time does not
\* run back, the properties of the frames stay, unless the tick is over.
LEMMA FramesStay ==
    ASSUME CaptureIInv, now' \in Nat, now' >= now,
           UNCHANGED <<last, frameIndex, previous>>,
           \/ UNCHANGED capture
           \/ capture.pc \notin {"group", "pace"}
           \/ /\ capture'.pc \in {"group", "pace"}
              /\ capture'.start = capture.start
              /\ capture'.sec = capture.sec /\ capture'.nsec = capture.nsec
    PROVE  FramesDated' /\ StampHonest' /\ SnapshotShared'
<1>1. FramesDated'
  <2>1. CASE UNCHANGED capture
    BY <2>1 DEF CaptureIInv, FramesDated, Stamp
  <2>2. CASE capture.pc \notin {"group", "pace"}
    BY <2>2 DEF CaptureIInv, FramesDated
  <2>3. CASE /\ capture'.pc \in {"group", "pace"}
             /\ capture'.start = capture.start
             /\ capture'.sec = capture.sec /\ capture'.nsec = capture.nsec
    BY <2>3 DEF CaptureIInv, FramesDated, Stamp
  <2> QED
    BY <2>1, <2>2, <2>3
<1>2. StampHonest'
  BY DEF CaptureIInv, CaptureType, StampHonest, FrameRecords
<1>3. SnapshotShared'
  BY DEF CaptureIInv, SnapshotShared
<1> QED
  BY <1>1, <1>2, <1>3

LEMMA TickStartsStep ==
    ASSUME CaptureIInv, TickStarts
    PROVE  CaptureIInv'
<1>1. /\ now \in Nat /\ fps \in Rates /\ frameIndex \in Nat /\ capture \in Locals
      /\ last \in [Groups -> FrameRecords]
      /\ previous \in [start : Nat, period : Nat, busy : Nat]
      /\ Drift \in Nat
  BY TimeAssumption DEF CaptureIInv, CaptureType
<1>2. /\ now' \in Nat /\ now <= now' /\ now' <= now + Drift
      /\ UNCHANGED <<fps, frameIndex, last, previous>>
      /\ capture.pc = "tick"
  BY <1>1 DEF TickStarts, ReadsClock
<1>3. /\ capture' \in Locals /\ capture'.pc = "sec" /\ capture'.start = now'
  BY <1>1, <1>2 DEF TickStarts, Locals, Places
<1>4. CaptureType' /\ ClockRead'
  BY <1>1, <1>2, <1>3 DEF CaptureType, ClockRead
<1>5. Paced' /\ PaceKept'
  <2>1. frameIndex > 0 => /\ now >= previous.start + previous.period
                          /\ \/ now = previous.start + previous.period
                             \/ now = previous.start + previous.busy
                          /\ previous.period >= 1
    BY <1>2 DEF CaptureIInv, Paced
  <2> QED
    BY <1>1, <1>2, <1>3, <2>1 DEF Paced, PaceKept
<1>6. FramesDated' /\ StampHonest' /\ SnapshotShared'
  BY <1>2, FramesStay
<1> QED
  BY <1>4, <1>5, <1>6 DEF CaptureIInv

LEMMA ReadsSecStep ==
    ASSUME CaptureIInv, ReadsSec
    PROVE  CaptureIInv'
<1>1. /\ now \in Nat /\ fps \in Rates /\ frameIndex \in Nat /\ capture \in Locals
      /\ last \in [Groups -> FrameRecords]
      /\ previous \in [start : Nat, period : Nat, busy : Nat]
      /\ Drift \in Nat
  BY TimeAssumption DEF CaptureIInv, CaptureType
<1>2. /\ now' \in Nat /\ now <= now'
      /\ UNCHANGED <<fps, frameIndex, last, previous>>
      /\ capture.pc = "sec" /\ capture.start <= now
  BY <1>1 DEF ReadsSec, ReadsClock, CaptureIInv, ClockRead
<1>3. now' \div Second \in Nat
  BY <1>2, Division, TimeAssumption
<1>4. /\ capture' \in Locals /\ capture'.pc = "nsec"
      /\ capture'.start = capture.start /\ capture'.sec = now' \div Second
  BY <1>1, <1>2, <1>3 DEF ReadsSec, Locals, Places
<1>5. CaptureType' /\ ClockRead'
  BY <1>1, <1>2, <1>4 DEF CaptureType, ClockRead, Locals
<1>6. Paced' /\ PaceKept'
  BY <1>2, <1>4 DEF CaptureIInv, Paced, PaceKept
<1>7. FramesDated' /\ StampHonest' /\ SnapshotShared'
  BY <1>2, FramesStay
<1> QED
  BY <1>5, <1>6, <1>7 DEF CaptureIInv

LEMMA ReadsNsecStep ==
    ASSUME CaptureIInv, ReadsNsec
    PROVE  CaptureIInv'
<1>1. /\ now \in Nat /\ fps \in Rates /\ frameIndex \in Nat /\ capture \in Locals
      /\ last \in [Groups -> FrameRecords]
      /\ previous \in [start : Nat, period : Nat, busy : Nat]
      /\ Drift \in Nat /\ Second \in Nat
  BY TimeAssumption DEF CaptureIInv, CaptureType
<1>2. /\ now' \in Nat /\ now' \in now .. now + Drift
      /\ UNCHANGED <<fps, frameIndex, last, previous>>
      /\ capture.pc = "nsec" /\ capture.start <= now /\ capture.sec = now \div Second
  BY <1>1 DEF ReadsNsec, ReadsClock, CaptureIInv, ClockRead
<1>3. now' % Second \in Nat
  <2>1. Second \in Nat \ {0}
    BY TimeAssumption
  <2>2. now' % Second \in 0 .. Second - 1
    BY <1>2, <2>1, Division
  <2> QED
    BY <1>1, <2>2
<1> DEFINE r == now' % Second
<1>4. /\ capture' \in Locals /\ capture'.pc = "group"
      /\ capture'.start = capture.start /\ capture'.sec = capture.sec
      /\ capture'.nsec = r
  <2>1. r \in Nat /\ capture' = [capture EXCEPT !.pc = "group", !.nsec = r]
    BY <1>3 DEF ReadsNsec
  <2> HIDE DEF r
  <2> QED
    BY <1>1, <2>1 DEF Locals, Places
<1>5. Stamp' = now' \/ Stamp' = now' - Second
  <2>1. now' < now + Second /\ now <= now' /\ Second \in Nat \ {0}
    BY <1>1, <1>2, TimeAssumption
  <2> DEFINE torn == (now \div Second) * Second + r
  <2>2. torn = now' \/ torn = now' - Second
    BY <1>1, <1>2, <2>1, TornStamp
  <2> HIDE DEF r
  <2> QED
    BY <1>2, <1>4, <2>2 DEF Stamp
<1>6. CaptureType' /\ ClockRead'
  BY <1>1, <1>2, <1>4, <1>5 DEF CaptureType, ClockRead, Locals
<1>7. Paced' /\ PaceKept'
  BY <1>2, <1>4 DEF CaptureIInv, Paced, PaceKept
<1>8. FramesDated' /\ StampHonest' /\ SnapshotShared'
  BY <1>1, <1>2, FramesStay
<1> QED
  BY <1>6, <1>7, <1>8 DEF CaptureIInv

\* What the step to the next group leaves alone.
LEMMA NextGroupShape ==
    ASSUME CaptureType, capture.pc = "group"
    PROVE  /\ NextGroup \in Locals /\ NextGroup.pc \in {"group", "pace"}
           /\ NextGroup.start = capture.start /\ NextGroup.sec = capture.sec
           /\ NextGroup.nsec = capture.nsec
  BY DEF CaptureType, Locals, Places, NextGroup, GroupOrder

LEMMA GroupStep ==
    ASSUME CaptureIInv, capture.pc = "group", capture' = NextGroup,
           UNCHANGED <<now, fps, frameIndex, previous>>
    PROVE  /\ now' \in Nat /\ fps' \in Rates /\ frameIndex' \in Nat
           /\ capture' \in Locals
           /\ previous' \in [start : Nat, period : Nat, busy : Nat]
           /\ ClockRead' /\ Paced' /\ PaceKept'
           /\ Stamp' = Stamp
<1>1. /\ capture' \in Locals /\ capture'.pc \in {"group", "pace"}
      /\ capture'.start = capture.start /\ capture'.sec = capture.sec
      /\ capture'.nsec = capture.nsec
  BY NextGroupShape DEF CaptureIInv
<1>2. Stamp' = Stamp
  BY <1>1 DEF Stamp
<1>3. ClockRead' /\ Paced' /\ PaceKept'
  BY <1>1, <1>2 DEF CaptureIInv, ClockRead, Paced, PaceKept
<1> QED
  BY <1>1, <1>2, <1>3 DEF CaptureIInv, CaptureType

LEMMA SkipsStep ==
    ASSUME CaptureIInv, Skips
    PROVE  CaptureIInv'
<1>1. /\ capture.pc = "group" /\ capture' = NextGroup
      /\ UNCHANGED <<now, fps, frameIndex, last, previous>>
  BY DEF Skips
<1>2. CaptureType' /\ ClockRead' /\ Paced' /\ PaceKept'
  BY <1>1, GroupStep DEF CaptureIInv, CaptureType
<1>3. /\ capture'.pc \in {"group", "pace"} /\ capture'.start = capture.start
      /\ capture'.sec = capture.sec /\ capture'.nsec = capture.nsec
      /\ now' \in Nat /\ now' >= now
  BY <1>1, NextGroupShape DEF CaptureIInv, CaptureType
<1>4. FramesDated' /\ StampHonest' /\ SnapshotShared'
  BY <1>1, <1>3, FramesStay
<1> QED
  BY <1>2, <1>4 DEF CaptureIInv

\* A frame carries the index and the timestamp of its tick.  The other frames
\* of the tick carry the same, and any older frame an earlier start.
LEMMA PushesStep ==
    ASSUME CaptureIInv, NEW on, Pushes(on)
    PROVE  CaptureIInv'
<1> DEFINE f == FrameOf(frameIndex)
           h == GroupOrder[capture.i]
<1>1. /\ capture.pc = "group" /\ capture' = NextGroup
      /\ UNCHANGED <<now, fps, frameIndex, previous>>
      /\ last' = [last EXCEPT ![h] = f]
  BY DEF Pushes
<1>2. /\ now \in Nat /\ frameIndex \in Nat /\ capture \in Locals
      /\ last \in [Groups -> FrameRecords] /\ previous.start \in Nat
      /\ previous.period \in Nat /\ Second \in Nat
  BY TimeAssumption DEF CaptureIInv, CaptureType
<1>3. /\ Stamp \in Nat /\ Stamp <= now /\ Stamp + Second >= capture.start
      /\ capture.start \in Nat
  BY <1>1, <1>2 DEF CaptureIInv, ClockRead, Stamp, Locals
<1>4. /\ f \in FrameRecords
      /\ f.pair = frameIndex /\ f.start = capture.start /\ f.stamp = Stamp
  BY <1>2, <1>3 DEF FrameOf, FrameRecords
<1>5. h \in Groups
  BY <1>2 DEF Locals, GroupOrder, Groups
<1> HIDE DEF f, h
<1>6. /\ last' \in [Groups -> FrameRecords]
      /\ \A g \in Groups : last'[g] = IF g = h THEN f ELSE last[g]
  BY <1>1, <1>2, <1>4, <1>5
<1>7. CaptureType' /\ ClockRead' /\ Paced' /\ PaceKept' /\ Stamp' = Stamp
  BY <1>1, <1>6, GroupStep DEF CaptureType
<1>8. /\ capture'.pc \in {"group", "pace"} /\ capture'.start = capture.start
  BY <1>1, NextGroupShape DEF CaptureIInv
<1>9. FramesDated'
  BY <1>1, <1>4, <1>6, <1>7, <1>8 DEF CaptureIInv, FramesDated
<1>10. StampHonest'
  BY <1>1, <1>3, <1>4, <1>6 DEF CaptureIInv, StampHonest
<1>11. \A g \in Groups : last[g] # NoFrame =>
          /\ last[g].pair = frameIndex <=> last[g].start = capture.start
          /\ last[g].pair = frameIndex => last[g].stamp = Stamp
  <2>1. frameIndex > 0 => capture.start > previous.start
    BY <1>1, <1>2, <1>3 DEF CaptureIInv, Paced, PaceKept
  <2>2. SUFFICES ASSUME NEW g \in Groups, last[g] # NoFrame
                 PROVE  /\ last[g].pair = frameIndex <=> last[g].start = capture.start
                        /\ last[g].pair = frameIndex => last[g].stamp = Stamp
    OBVIOUS
  <2>3. last[g].pair \in Nat /\ last[g].start \in Nat
    BY <1>2 DEF FrameRecords
  <2>4. \/ /\ last[g].pair = frameIndex
           /\ last[g].start = capture.start /\ last[g].stamp = Stamp
        \/ last[g].pair < frameIndex /\ last[g].start <= previous.start
    BY <2>2 DEF CaptureIInv, FramesDated
  <2> QED
    BY <1>2, <1>3, <2>1, <2>3, <2>4
<1>12. SnapshotShared'
  <2>1. SUFFICES ASSUME NEW g \in Groups, NEW e \in Groups,
                        last'[g] # NoFrame, last'[e] # NoFrame
                 PROVE  /\ last'[g].pair = last'[e].pair <=> last'[g].start = last'[e].start
                        /\ last'[g].pair = last'[e].pair => last'[g].stamp = last'[e].stamp
    BY DEF SnapshotShared, NoFrame
  <2>2. CASE g = h /\ e = h
    BY <1>6, <2>2
  <2>3. CASE g = h /\ e # h
    BY <1>4, <1>6, <1>11, <2>1, <2>3
  <2>4. CASE g # h /\ e = h
    BY <1>4, <1>6, <1>11, <2>1, <2>4
  <2>5. CASE g # h /\ e # h
    BY <1>6, <2>1, <2>5 DEF CaptureIInv, SnapshotShared
  <2> QED
    BY <2>2, <2>3, <2>4, <2>5
<1> QED
  BY <1>7, <1>9, <1>10, <1>12 DEF CaptureIInv

\* The end of a tick: the deadline is a period after its start, and its frames
\* become older than the index.
LEMMA PacesStep ==
    ASSUME CaptureIInv, Paces
    PROVE  CaptureIInv'
<1> DEFINE e == now' - capture.start
           P == Period
<1>1. /\ now \in Nat /\ fps \in Rates /\ frameIndex \in Nat
      /\ last \in [Groups -> FrameRecords]
      /\ previous.start \in Nat /\ previous.period \in Nat
      /\ capture.start \in Nat /\ Drift \in Nat
  BY TimeAssumption DEF CaptureIInv, CaptureType, Locals
<1>2. /\ now' \in Nat /\ now <= now' /\ capture.pc = "pace"
      /\ capture.start <= now
      /\ frameIndex' = frameIndex + 1 /\ UNCHANGED <<fps, last>>
      /\ P \in Nat /\ P >= 1
  BY <1>1, PeriodPositive DEF Paces, ReadsClock, CaptureIInv, ClockRead
<1>3. e \in Nat
  BY <1>1, <1>2
<1>4. /\ previous' = [start |-> capture.start, period |-> P, busy |-> e]
      /\ capture' = IF P > e THEN At("sleep", now' + (P - e)) ELSE At("tick", 0)
  BY DEF Paces
<1>5. now' = capture.start + e
  BY <1>1, <1>2
<1> HIDE DEF e, P
<1>6. /\ previous' \in [start : Nat, period : Nat, busy : Nat]
      /\ previous'.start = capture.start /\ previous'.period = P
      /\ previous'.busy = e
  BY <1>1, <1>2, <1>3, <1>4
<1>7. CaptureType' /\ Paced' /\ capture'.pc \in {"sleep", "tick"}
  <2>1. CASE P > e
    <3> DEFINE until == now' + (P - e)
    <3>1. until \in Nat /\ until >= now' /\ until = capture.start + P
      BY <1>1, <1>2, <1>3, <1>5, <2>1
    <3>2. capture' = At("sleep", until)
      BY <1>4, <2>1
    <3> HIDE DEF until
    <3>3. capture' \in Locals /\ capture'.pc = "sleep" /\ capture'.until = until
      BY <3>1, <3>2 DEF At, Locals, Places
    <3> QED
      BY <1>1, <1>2, <1>6, <3>1, <3>3 DEF CaptureType, Paced
  <2>2. CASE ~(P > e)
    <3>1. capture' \in Locals /\ capture'.pc = "tick"
      BY <1>4, <2>2 DEF At, Locals, Places
    <3> QED
      BY <1>1, <1>2, <1>3, <1>5, <1>6, <2>2, <3>1 DEF CaptureType, Paced
  <2> QED
    BY <2>1, <2>2
<1>8. ClockRead' /\ PaceKept'
  BY <1>7 DEF ClockRead, PaceKept
<1>9. FramesDated'
  <2>1. SUFFICES ASSUME NEW g \in Groups, last[g] # NoFrame
                 PROVE  last[g].pair < frameIndex' /\ last[g].start <= previous'.start
    BY <1>2 DEF FramesDated, NoFrame
  <2>2. last[g].pair \in Nat /\ last[g].start \in Nat
    BY <1>1 DEF FrameRecords
  <2>3. \/ last[g].pair = frameIndex /\ last[g].start = capture.start
        \/ last[g].pair < frameIndex /\ last[g].start <= previous.start
    BY <2>1 DEF CaptureIInv, FramesDated
  <2>4. frameIndex > 0 => previous.start <= capture.start
    BY <1>1, <1>2 DEF CaptureIInv, PaceKept
  <2> QED
    BY <1>1, <1>2, <1>6, <2>2, <2>3, <2>4
<1>10. StampHonest'
  BY <1>1, <1>2 DEF CaptureIInv, StampHonest, FrameRecords
<1>11. SnapshotShared'
  BY <1>2 DEF CaptureIInv, SnapshotShared
<1> QED
  BY <1>7, <1>8, <1>9, <1>10, <1>11 DEF CaptureIInv

LEMMA SleepEndsStep ==
    ASSUME CaptureIInv, SleepEnds
    PROVE  CaptureIInv'
<1>1. /\ now \in Nat /\ capture.until \in Nat /\ capture.pc = "sleep"
      /\ capture.until >= now /\ now' = capture.until
      /\ capture.until = previous.start + previous.period
      /\ UNCHANGED <<fps, frameIndex, last, previous>>
  BY DEF CaptureIInv, CaptureType, Locals, Paced, SleepEnds
<1>2. capture' \in Locals /\ capture'.pc = "tick"
  BY DEF SleepEnds, At, Locals, Places
<1>3. CaptureType'
  BY <1>1, <1>2 DEF CaptureIInv, CaptureType
<1>4. ClockRead' /\ PaceKept'
  BY <1>2 DEF ClockRead, PaceKept
<1>5. Paced'
  BY <1>1, <1>2, <1>3 DEF CaptureIInv, Paced, CaptureType
<1>6. FramesDated' /\ StampHonest' /\ SnapshotShared'
  BY <1>1, FramesStay
<1> QED
  BY <1>3, <1>4, <1>5, <1>6 DEF CaptureIInv

LEMMA CaptureEndsStep ==
    ASSUME CaptureIInv, CaptureEnds
    PROVE  CaptureIInv'
<1>1. /\ UNCHANGED <<now, fps, frameIndex, last, previous>>
      /\ capture.pc = "tick" /\ now \in Nat
  BY DEF CaptureEnds, CaptureIInv, CaptureType
<1>2. capture' \in Locals /\ capture'.pc = "done"
  BY DEF CaptureEnds, At, Locals, Places
<1>3. CaptureType' /\ ClockRead' /\ Paced' /\ PaceKept'
  BY <1>1, <1>2 DEF CaptureIInv, CaptureType, ClockRead, Paced, PaceKept
<1>4. FramesDated' /\ StampHonest' /\ SnapshotShared'
  BY <1>1, FramesStay
<1> QED
  BY <1>3, <1>4 DEF CaptureIInv

\* set_parameter and stop() touch nothing of a tick.
LEMMA OthersStep ==
    ASSUME CaptureIInv, fps' \in Rates,
           UNCHANGED <<now, capture, frameIndex, last, previous>>
    PROVE  CaptureIInv'
<1>1. CaptureType' /\ ClockRead' /\ Paced' /\ PaceKept'
  BY DEF CaptureIInv, CaptureType, ClockRead, Stamp, Paced, PaceKept
<1>2. now' \in Nat /\ now' >= now
  BY DEF CaptureIInv, CaptureType
<1>3. FramesDated' /\ StampHonest' /\ SnapshotShared'
  BY <1>2, FramesStay
<1> QED
  BY <1>1, <1>3 DEF CaptureIInv

LEMMA AlwaysCaptureIInv == CaptureSpec => []CaptureIInv
<1>1. CaptureInit => CaptureIInv
  BY CaptureInitIInv
<1>2. ASSUME CaptureIInv, [CaptureNext]_captureVars
      PROVE  CaptureIInv'
  <2>1. CASE SetFps \/ StopCapture \/ UNCHANGED captureVars
    <3>1. /\ fps' \in Rates
          /\ UNCHANGED <<now, capture, frameIndex, last, previous>>
      BY <1>2, <2>1 DEF SetFps, StopCapture, captureVars, CaptureIInv, CaptureType
    <3> QED
      BY <1>2, <3>1, OthersStep
  <2>2. ASSUME NEW on \in SUBSET GroupMembers(GroupOrder[capture.i]), Pushes(on)
        PROVE  CaptureIInv'
    BY <1>2, <2>2, PushesStep
  <2> QED
    BY <1>2, <2>1, <2>2, TickStartsStep, ReadsSecStep, ReadsNsecStep, SkipsStep,
       PacesStep, SleepEndsStep, CaptureEndsStep DEF CaptureNext, CaptureStep
<1> QED
  BY <1>1, <1>2, PTL DEF CaptureSpec

-----------------------------------------------------------------------------
\* The locals of run and what has been pushed keep their types.
THEOREM CaptureTypeCorrect == CaptureSpec => []CaptureType
<1>1. CaptureIInv => CaptureType
  BY DEF CaptureIInv
<1> QED
  BY <1>1, AlwaysCaptureIInv, PTL

\* The two clock reads of run never make a timestamp of the future, nor one
\* more than a second before the tick.
THEOREM StampsAreHonest == CaptureSpec => []StampHonest
<1>1. CaptureIInv => StampHonest
  BY DEF CaptureIInv
<1> QED
  BY <1>1, AlwaysCaptureIInv, PTL

\* The frames that run pushes in one tick share pair_id and timestamp, and no
\* two ticks share a pair_id.
THEOREM SnapshotsAreShared == CaptureSpec => []SnapshotShared
<1>1. CaptureIInv => SnapshotShared
  BY DEF CaptureIInv
<1> QED
  BY <1>1, AlwaysCaptureIInv, PTL

\* The sleep of run keeps ticks a period apart, and late by no more than what
\* the work of the tick or the next read of the clock takes.
THEOREM PaceIsKept == CaptureSpec => []PaceKept
<1>1. CaptureIInv => PaceKept
  BY DEF CaptureIInv
<1> QED
  BY <1>1, AlwaysCaptureIInv, PTL

-----------------------------------------------------------------------------
(* The stereo pairs.                                                        *)

\* The remainder of the next number.
LEMMA NextRemainder ==
    ASSUME NEW L \in Nat \ {0}, NEW x \in Nat
    PROVE  (x + 1) % L = IF x % L = L - 1 THEN 0 ELSE (x % L) + 1
<1> DEFINE a == x \div L
           b == (x + 1) \div L
           p == x % L
           q == (x + 1) % L
<1>1. /\ a \in Nat /\ p \in 0 .. L - 1 /\ x = L * a + p
      /\ b \in Nat /\ q \in 0 .. L - 1 /\ x + 1 = L * b + q
  <2>1. x + 1 \in Nat
    OBVIOUS
  <2> QED
    BY <2>1, Division
<1> HIDE DEF a, b, p, q
<1>2. b = a \/ b = a + 1
  <2>1. CASE b >= a + 2
    <3>1. L * (b - (a + 2)) >= 0
      BY <1>1, <2>1
    <3>2. L * (b - (a + 2)) = L * b - (L * a + 2 * L)
      BY <1>1
    <3> QED
      BY <1>1, <3>1, <3>2
  <2>2. CASE b < a
    <3>1. L * (a - (b + 1)) >= 0
      BY <1>1, <2>2
    <3>2. L * (a - (b + 1)) = L * a - (L * b + L)
      BY <1>1
    <3> QED
      BY <1>1, <3>1, <3>2
  <2> QED
    BY <1>1, <2>1, <2>2
<1>3. CASE b = a
  <2>1. q = p + 1
    BY <1>1, <1>3
  <2> QED
    BY <1>1, <2>1 DEF p, q
<1>4. CASE b = a + 1
  <2>1. L * b = L * a + L
    BY <1>1, <1>4
  <2>2. p = L - 1 /\ q = 0
    BY <1>1, <2>1
  <2> QED
    BY <2>2 DEF p, q
<1> QED
  BY <1>2, <1>3, <1>4

\* A pair shows its own files, or those it mirrors.
LEMMA PairRightful ==
    ASSUME dir \in Directories, NEW i \in Indexes(dir), NEW pair \in PairsOf(dir, i)
    PROVE  /\ pair.index = i
           /\ Rightful(pair.left, i, "l") /\ Rightful(pair.right, i, "r")
<1> DEFINE F(s) == {f \in dir : f.index = i /\ f.side = s}
           A == {f \in dir : f.index = i}
<1>1. PICK l \in Side(dir, i, "l"), r \in Side(dir, i, "r") : pair = PairOf(i, l, r)
  BY DEF PairsOf
<1>2. \A s \in {"l", "r"} : Side(dir, i, s) = IF F(s) = {} THEN {{}} ELSE {{f} : f \in F(s)}
  BY DEF Side
<1>3. A = F("l") \cup F("r") /\ A # {}
  BY DirectoriesAssumption DEF Indexes
<1> QED
  BY <1>1, <1>2, <1>3 DEF PairOf, Image, Rightful

Made == UNION {PairsOf(dir, i) : i \in Indexes(dir)}

\* The pairs are one for each index, in the order of the indexes.
PairsByIndex ==
    /\ pairs \in Seq(Made)
    /\ \A n \in 1 .. Len(pairs) :
          /\ pairs[n].index \in Indexes(dir) /\ pairs[n].index \in Nat
          /\ Rightful(pairs[n].left, pairs[n].index, "l")
          /\ Rightful(pairs[n].right, pairs[n].index, "r")
    /\ \A m, n \in 1 .. Len(pairs) : m < n => pairs[m].index < pairs[n].index
    /\ \A k \in Indexes(dir) : \E n \in 1 .. Len(pairs) : k = pairs[n].index

LEMMA LoadedByIndex ==
    ASSUME SourceInit
    PROVE  PairsByIndex
<1> DEFINE N == Cardinality(Indexes(dir))
<1>1. N \in Nat
  <2>1. IsFiniteSet(dir)
    BY DirectoriesAssumption DEF SourceInit
  <2> DEFINE index == [f \in dir |-> f.index]
  <2>2. index \in Surjection(dir, Indexes(dir))
    BY DEF Indexes, Surjection
  <2>3. IsFiniteSet(Indexes(dir))
    BY <2>1, <2>2, FS_Surjection
  <2> QED
    BY <2>3, FS_CardinalityType
<1>2. /\ pairs \in [1 .. N -> Made]
      /\ Indexes(dir) = {pairs[n].index : n \in DOMAIN pairs}
      /\ \A m, n \in DOMAIN pairs : m < n => pairs[m].index < pairs[n].index
  BY DEF SourceInit, Loaded, Made
<1>3. \A i \in Indexes(dir) : i \in Nat
  BY DirectoriesAssumption DEF SourceInit, Indexes
<1> HIDE DEF N
<1>4. Len(pairs) = N /\ DOMAIN pairs = 1 .. N
  BY <1>1, <1>2
<1>5. ASSUME NEW n \in 1 .. N
      PROVE  /\ pairs[n].index \in Indexes(dir) /\ pairs[n].index \in Nat
             /\ Rightful(pairs[n].left, pairs[n].index, "l")
             /\ Rightful(pairs[n].right, pairs[n].index, "r")
  <2>1. PICK i \in Indexes(dir) : pairs[n] \in PairsOf(dir, i)
    BY <1>2 DEF Made
  <2>2. dir \in Directories
    BY DEF SourceInit
  <2> QED
    BY <1>3, <2>1, <2>2, PairRightful
<1>6. pairs \in Seq(Made)
  BY <1>1, <1>2
<1> QED
  BY <1>2, <1>4, <1>5, <1>6 DEF PairsByIndex

\* The pairs shown are the pairs over and over.
ShownInTurn ==
    /\ cursor \in Nat /\ shown \in Seq(Made) /\ Len(shown) = cursor
    /\ \A n \in 1 .. cursor :
          HasPairs /\ shown[n] = pairs[((n - 1) % Len(pairs)) + 1]

TurnInv == PairsByIndex /\ ShownInTurn

\* Where next_stereo finds the pair of a cursor.
LEMMA Turn ==
    ASSUME PairsByIndex, HasPairs, NEW x \in Nat
    PROVE  /\ Len(pairs) \in Nat \ {0} /\ x % Len(pairs) \in 0 .. Len(pairs) - 1
           /\ (x % Len(pairs)) + 1 \in 1 .. Len(pairs)
           /\ pairs[(x % Len(pairs)) + 1] \in Made
<1>1. pairs \in Seq(Made) /\ Len(pairs) \in Nat \ {0}
  BY DEF PairsByIndex, HasPairs
<1> DEFINE r == x % Len(pairs)
<1>2. r \in 0 .. Len(pairs) - 1
  BY <1>1, Division
<1> HIDE DEF r
<1>3. r + 1 \in 1 .. Len(pairs) /\ pairs[r + 1] \in Made
  BY <1>1, <1>2
<1> QED
  BY <1>1, <1>2, <1>3 DEF r

\* load happens once.
LEMMA PairsStay ==
    ASSUME PairsByIndex, UNCHANGED <<dir, pairs>>
    PROVE  PairsByIndex' /\ Made' = Made /\ HasPairs' = HasPairs
<1>1. Indexes(dir)' = Indexes(dir)
  BY DEF Indexes
<1>2. \A i : PairsOf(dir, i)' = PairsOf(dir, i)
  BY DEF PairsOf, Side
<1>3. Made' = Made
  BY <1>1, <1>2 DEF Made
<1>4. \A image, i, s : Rightful(image, i, s)' = Rightful(image, i, s)
  BY Zenon DEF Rightful
<1>5. PairsByIndex'
  BY <1>1, <1>3, <1>4 DEF PairsByIndex
<1> QED
  BY <1>3, <1>5 DEF HasPairs

LEMMA ShowsNext ==
    ASSUME TurnInv, HasPairs, cursor' = cursor + 1, shown' = Append(shown, NextPair),
           UNCHANGED <<dir, pairs>>
    PROVE  TurnInv'
<1>1. PairsByIndex' /\ HasPairs' /\ Made' = Made
  BY PairsStay DEF TurnInv
<1>2. /\ cursor \in Nat /\ shown \in Seq(Made) /\ Len(shown) = cursor
      /\ \A n \in 1 .. cursor : shown[n] = pairs[((n - 1) % Len(pairs)) + 1]
  BY DEF TurnInv, ShownInTurn
<1>3. NextPair \in Made
  BY <1>2, Turn DEF TurnInv, NextPair
<1>4. /\ shown' \in Seq(Made) /\ Len(shown') = cursor' /\ cursor' \in Nat
      /\ \A n \in 1 .. cursor : shown'[n] = shown[n]
      /\ shown'[cursor + 1] = NextPair
  BY <1>2, <1>3
<1>5. ASSUME NEW n \in 1 .. cursor'
      PROVE  shown'[n] = pairs'[((n - 1) % Len(pairs')) + 1]
  <2>1. CASE n \in 1 .. cursor
    BY <1>2, <1>4, <2>1
  <2>2. CASE n = cursor + 1
    <3>1. n - 1 = cursor
      BY <1>2, <2>2
    <3> QED
      BY <1>4, <2>2, <3>1 DEF NextPair
  <2> QED
    BY <1>2, <2>1, <2>2
<1> QED
  BY <1>1, <1>4, <1>5 DEF TurnInv, ShownInTurn

LEMMA TurnStep ==
    ASSUME TurnInv, [CaptureNext]_captureVars
    PROVE  TurnInv'
<1>1. CASE UNCHANGED <<sourceVars, shown>>
  BY <1>1, PairsStay DEF sourceVars, TurnInv, ShownInTurn
<1>2. ASSUME NEW on, Pushes(on)
      PROVE  TurnInv'
  <2>1. \/ UNCHANGED <<sourceVars, shown>>
        \/ /\ HasPairs /\ cursor' = cursor + 1 /\ shown' = Append(shown, NextPair)
           /\ UNCHANGED <<dir, pairs>>
    BY <1>2 DEF Pushes, sourceVars
  <2> QED
    BY <1>1, <2>1, ShowsNext
<1>3. CASE CaptureStep
  BY <1>1, <1>2, <1>3 DEF CaptureStep, TickStarts, ReadsSec, ReadsNsec, Skips, Paces,
     SleepEnds, CaptureEnds
<1>4. CASE SetFps \/ StopCapture \/ UNCHANGED captureVars
  BY <1>1, <1>4 DEF SetFps, StopCapture, captureVars
<1> QED
  BY <1>3, <1>4 DEF CaptureNext

\* Neighbours in the order of the indexes, and the last one and the first.
LEMMA NeighboursFollow ==
    ASSUME PairsByIndex, HasPairs, NEW x \in Nat
    PROVE  Follows(pairs[(x % Len(pairs)) + 1].index, pairs[((x + 1) % Len(pairs)) + 1].index)
<1> DEFINE L == Len(pairs)
           p == x % L
           q == (x + 1) % L
<1>1. L \in Nat \ {0} /\ p \in 0 .. L - 1 /\ q = IF p = L - 1 THEN 0 ELSE p + 1
  <2>1. L \in Nat \ {0} /\ p \in 0 .. L - 1
    BY Turn
  <2> HIDE DEF L
  <2> QED
    BY <2>1, NextRemainder
<1>2. /\ \A n \in 1 .. L : pairs[n].index \in Nat
      /\ \A m, n \in 1 .. L : m < n => pairs[m].index < pairs[n].index
      /\ \A k \in Indexes(dir) : \E n \in 1 .. L : k = pairs[n].index
  BY DEF PairsByIndex
<1> HIDE DEF L, p, q
<1>3. CASE p = L - 1
  <2>1. p + 1 = L /\ q + 1 = 1 /\ 1 \in 1 .. L /\ L \in 1 .. L
    BY <1>1, <1>3
  <2>2. \A n \in 1 .. L : pairs[1].index <= pairs[n].index /\ pairs[n].index <= pairs[L].index
    <3> SUFFICES ASSUME NEW n \in 1 .. L
                 PROVE  pairs[1].index <= pairs[n].index /\ pairs[n].index <= pairs[L].index
      OBVIOUS
    <3>1. (n = 1 \/ 1 < n) /\ (n = L \/ n < L)
      BY <1>1
    <3> QED
      BY <1>2, <2>1, <3>1
  <2> QED
    BY <1>2, <2>1, <2>2 DEF Follows, p, q, L
<1>4. CASE p # L - 1
  <2>1. p + 1 \in 1 .. L /\ q + 1 \in 1 .. L /\ q + 1 = (p + 1) + 1 /\ p + 1 < q + 1
    BY <1>1, <1>4
  <2>2. \A n \in 1 .. L :
           pairs[n].index <= pairs[p + 1].index \/ pairs[q + 1].index <= pairs[n].index
    <3> SUFFICES ASSUME NEW n \in 1 .. L
                 PROVE  \/ pairs[n].index <= pairs[p + 1].index
                        \/ pairs[q + 1].index <= pairs[n].index
      OBVIOUS
    <3>1. n < p + 1 \/ n = p + 1 \/ n = q + 1 \/ q + 1 < n
      BY <1>1, <2>1
    <3> QED
      BY <1>2, <2>1, <3>1
  <2>3. pairs[p + 1].index < pairs[q + 1].index
    BY <1>2, <2>1
  <2> QED
    BY <1>2, <2>2, <2>3 DEF Follows, p, q, L
<1> QED
  BY <1>3, <1>4

\* next_stereo shows the pairs in the order of their indexes, over and over, and
\* load mixes up no files.
THEOREM PairsAreInTurn == CaptureSpec => []PairsInTurn
<1>1. CaptureInit => TurnInv
  <2>1. CaptureInit => PairsByIndex
    BY LoadedByIndex DEF CaptureInit
  <2>2. CaptureInit => ShownInTurn
    BY DEF CaptureInit, SourceInit, ShownInTurn
  <2> QED
    BY <2>1, <2>2 DEF TurnInv
<1>2. ASSUME TurnInv
      PROVE  PairsInTurn
  <2>1. PairsByIndex /\ cursor \in Nat /\ Len(shown) = cursor
    BY <1>2 DEF TurnInv, ShownInTurn
  <2>2. ASSUME NEW n \in 1 .. Len(shown)
        PROVE  /\ n > 1 => Follows(shown[n - 1].index, shown[n].index)
               /\ Rightful(shown[n].left, shown[n].index, "l")
               /\ Rightful(shown[n].right, shown[n].index, "r")
    <3>1. /\ HasPairs /\ n - 1 \in Nat
          /\ shown[n] = pairs[((n - 1) % Len(pairs)) + 1]
      BY <1>2, <2>1 DEF TurnInv, ShownInTurn
    <3>2. /\ Rightful(shown[n].left, shown[n].index, "l")
          /\ Rightful(shown[n].right, shown[n].index, "r")
      BY <2>1, <3>1, Turn DEF PairsByIndex
    <3>3. CASE n > 1
      <4>1. n - 2 \in Nat /\ n - 1 \in 1 .. cursor /\ (n - 1) - 1 = n - 2 /\ (n - 2) + 1 = n - 1
        BY <2>1, <3>3
      <4>2. shown[n - 1] = pairs[((n - 2) % Len(pairs)) + 1]
        BY <1>2, <4>1 DEF TurnInv, ShownInTurn
      <4>3. Follows(pairs[((n - 2) % Len(pairs)) + 1].index,
                    pairs[(((n - 2) + 1) % Len(pairs)) + 1].index)
        BY <2>1, <3>1, <4>1, NeighboursFollow
      <4> QED
        BY <3>1, <3>2, <4>1, <4>2, <4>3
    <3> QED
      BY <3>2, <3>3
  <2> QED
    BY <2>2 DEF PairsInTurn
<1> QED
  BY <1>1, <1>2, TurnStep, PTL DEF CaptureSpec
=============================================================================
