-------------------------------- MODULE Node --------------------------------
(***************************************************************************)
(* The node as main.cpp puts it together: the commands of CommandHandler,  *)
(* the capture thread that asks ChannelManager what to produce             *)
(* (src/capture/CaptureEngine.cpp), the three queues, the publisher and    *)
(* the shutdown of main.                                                   *)
(*                                                                         *)
(* A queue is the number of frames in it: no property here is about which  *)
(* frame it is.  A push and a pop are one step each; what two threads that *)
(* pop at once do to a queue is in SPSCQueue, and how the publisher is     *)
(* woken is in DataPipeline.                                               *)
(*                                                                         *)
(* The pace of the ticks is left out: capture goes from one tick to the    *)
(* next at any time.                                                       *)
(***************************************************************************)
EXTENDS CommandHandler

CONSTANTS QueueSize,    \* queue_capacity of the configuration
          HasImages     \* whether the source has loaded a stereo pair

ASSUME NodeAssumption == QueueSize \in Nat \ {0} /\ HasImages \in BOOLEAN

VARIABLES capture,      \* the capture thread: its place, the index of the group,
                        \* the types not looked at yet, the parts of the frame
          engineOn,     \* CaptureEngine::running_
          queue,        \* how many frames each group's queue holds
          main          \* where main is in the shutdown, and which queue it drains

nodeVars == <<commandVars, capture, engineOn, queue, main>>

CaptureAt(pc, i, members) ==
    [pc |-> pc, i |-> i, members |-> members, parts |-> {}]

MainAt(pc, i) == [pc |-> pc, i |-> i]

NodeInit ==
    /\ CommandInit
    /\ capture = CaptureAt("tick", 1, {})
    /\ engineOn = TRUE
    /\ queue = [g \in Groups |-> 0]
    /\ main = MainAt("serve", 1)

-----------------------------------------------------------------------------
(* CaptureEngine::run and build_frame.                                      *)

CapturedGroup == GroupOrder[capture.i]

\* The next group of the tick, or the next tick.
NextGroup ==
    IF capture.i < Len(GroupOrder)
    THEN CaptureAt("group", capture.i + 1, GroupMembers(GroupOrder[capture.i + 1]))
    ELSE CaptureAt("tick", 1, {})

\* Faulty variant: the loop does not ask whether it shall end.
CaptureTick_Forever ==
    /\ capture.pc = "tick"
    /\ capture' = CaptureAt("group", 1, GroupMembers(GroupOrder[1]))
    /\ UNCHANGED <<commandVars, engineOn, queue, main>>

CaptureTick ==
    /\ capture.pc = "tick" /\ engineOn
    /\ capture' = CaptureAt("group", 1, GroupMembers(GroupOrder[1]))
    /\ UNCHANGED <<commandVars, engineOn, queue, main>>

CaptureEnds ==
    /\ capture.pc = "tick" /\ ~engineOn
    /\ capture' = CaptureAt("done", 1, {})
    /\ UNCHANGED <<commandVars, engineOn, queue, main>>

\* group_active of the group, one locked call per type: an active type ends it.
GroupFoundOn ==
    /\ capture.pc = "group"
    /\ \E t \in capture.members : IsActive(t)
    /\ capture' = CaptureAt("build", capture.i, GroupMembers(CapturedGroup))
    /\ UNCHANGED <<commandVars, engineOn, queue, main>>

GroupTestsOn ==
    /\ capture.pc = "group"
    /\ \E t \in capture.members :
          /\ ~IsActive(t)
          /\ capture' = [capture EXCEPT !.members = @ \ {t}]
    /\ UNCHANGED <<commandVars, engineOn, queue, main>>

\* Faulty variant: break in place of continue.
GroupFoundOff_Break ==
    /\ capture.pc = "group" /\ capture.members = {}
    /\ capture' = CaptureAt("tick", 1, {})
    /\ UNCHANGED <<commandVars, engineOn, queue, main>>

GroupFoundOff ==
    /\ capture.pc = "group" /\ capture.members = {}
    /\ capture' = NextGroup
    /\ UNCHANGED <<commandVars, engineOn, queue, main>>

\* build_frame asks for each type again; a stereo image needs a loaded pair.
Made(t) == {u \in {t} : IsActive(u) /\ (u = "stereo_image" => HasImages)}

CaptureBuilds ==
    /\ capture.pc = "build"
    /\ \E t \in capture.members :
          capture' = [capture EXCEPT !.members = @ \ {t}, !.parts = @ \cup Made(t)]
    /\ UNCHANGED <<commandVars, engineOn, queue, main>>

\* push: a full queue drops the frame.
CapturePushes ==
    /\ capture.pc = "build" /\ capture.members = {} /\ capture.parts # {}
    /\ queue' = [queue EXCEPT ![CapturedGroup] = IF @ < QueueSize THEN @ + 1 ELSE @]
    /\ capture' = NextGroup
    /\ UNCHANGED <<commandVars, engineOn, main>>

CaptureHasNothing ==
    /\ capture.pc = "build" /\ capture.members = {} /\ capture.parts = {}
    /\ capture' = NextGroup
    /\ UNCHANGED <<commandVars, engineOn, queue, main>>

CaptureStep ==
    \/ CaptureTick \/ CaptureEnds
    \/ GroupFoundOn \/ GroupTestsOn \/ GroupFoundOff
    \/ CaptureBuilds \/ CapturePushes \/ CaptureHasNothing

-----------------------------------------------------------------------------
(* The workers.  A worker that drains pops until it finds the queue empty.  *)

Pops(g) == queue[g] > 0 /\ queue' = [queue EXCEPT ![g] = @ - 1]

DrainPops(w) ==
    /\ worker[w].pc = "drain"
    /\ Pops(Head(worker[w].todo))
    /\ UNCHANGED <<commandVars, capture, engineOn, main>>

\* Faulty variant: a drain pops once.
DrainMovesOn_OneFrame(w) ==
    /\ worker[w].pc = "drain"
    /\ DrainNext(w) \/ DrainLast(w)
    /\ LET g == Head(worker[w].todo)
       IN  queue' = [queue EXCEPT ![g] = IF @ > 0 THEN @ - 1 ELSE 0]
    /\ UNCHANGED <<capture, engineOn, main>>

DrainMovesOn(w) ==
    /\ worker[w].pc = "drain" /\ queue[Head(worker[w].todo)] = 0
    /\ DrainNext(w) \/ DrainLast(w)
    /\ UNCHANGED <<capture, engineOn, queue, main>>

\* Every other step of a command; requests come while the server is there.
CommandRuns(w) ==
    /\ main.pc = "serve"
    /\ \/ \E c \in Clients : Requests(w, c)
       \/ \E t \in DataTypes : ChannelRequests(w, t)
       \/ Continue(w) /\ worker[w].pc # "drain"
    /\ UNCHANGED <<capture, engineOn, queue, main>>

WorkerStep(w) == DrainPops(w) \/ DrainMovesOn(w) \/ CommandRuns(w)

\* The publisher takes a frame.
PublisherTakes(g) ==
    /\ main.pc # "done"
    /\ Pops(g)
    /\ UNCHANGED <<commandVars, capture, engineOn, main>>

-----------------------------------------------------------------------------
(* main after the signal: server.stop(), engine.stop(), pipeline.drain(),   *)
(* publisher.stop().                                                        *)

\* The workers are joined when they have answered.
MainStopsServer ==
    /\ main.pc = "serve" /\ Quiescent
    /\ main' = MainAt("engine", 1)
    /\ UNCHANGED <<commandVars, capture, engineOn, queue>>

\* Faulty variant: engine.stop() does not clear running_.
MainStopsEngine_FlagKept ==
    /\ main.pc = "engine"
    /\ main' = MainAt("join", 1)
    /\ UNCHANGED <<commandVars, capture, engineOn, queue>>

MainStopsEngine ==
    /\ main.pc = "engine"
    /\ engineOn' = FALSE
    /\ main' = MainAt("join", 1)
    /\ UNCHANGED <<commandVars, capture, queue>>

\* Faulty variant: the capture thread is not joined.
MainJoinsCapture_Skipped ==
    /\ main.pc = "join"
    /\ main' = MainAt("drain", 1)
    /\ UNCHANGED <<commandVars, capture, engineOn, queue>>

MainJoinsCapture ==
    /\ main.pc = "join" /\ capture.pc = "done"
    /\ main' = MainAt("drain", 1)
    /\ UNCHANGED <<commandVars, capture, engineOn, queue>>

MainDrains ==
    /\ main.pc = "drain"
    /\ Pops(GroupOrder[main.i])
    /\ UNCHANGED <<commandVars, capture, engineOn, main>>

MainMovesOn ==
    /\ main.pc = "drain" /\ queue[GroupOrder[main.i]] = 0
    /\ main' = IF main.i < Len(GroupOrder) THEN MainAt("drain", main.i + 1)
                                           ELSE MainAt("publisher", 1)
    /\ UNCHANGED <<commandVars, capture, engineOn, queue>>

MainStopsPublisher ==
    /\ main.pc = "publisher"
    /\ main' = MainAt("done", 1)
    /\ UNCHANGED <<commandVars, capture, engineOn, queue>>

\* The shutdown once server.stop() has returned.
MainStep ==
    \/ MainStopsEngine \/ MainJoinsCapture
    \/ MainDrains \/ MainMovesOn \/ MainStopsPublisher

-----------------------------------------------------------------------------
NodeNext ==
    \/ CaptureStep
    \/ \E w \in Workers : WorkerStep(w)
    \/ \E g \in Groups : PublisherTakes(g)
    \/ MainStopsServer \/ MainStep

NodeSpec == NodeInit /\ [][NodeNext]_nodeVars

\* The capture thread runs, and main once it shuts down.
FairNodeSpec == NodeSpec /\ WF_nodeVars(CaptureStep) /\ WF_nodeVars(MainStep)

-----------------------------------------------------------------------------
(* Properties.                                                              *)

CaptureStates ==
    [pc : {"tick", "group", "build", "done"}, i : 1..Len(GroupOrder),
     members : SUBSET DataTypes, parts : SUBSET DataTypes]

MainStates ==
    [pc : {"serve", "engine", "join", "drain", "publisher", "done"},
     i : 1..Len(GroupOrder)]

\* Values of the variables; no queue holds more than its capacity.
NodeTypeOK ==
    /\ CommandTypeOK
    /\ capture \in CaptureStates
    /\ engineOn \in BOOLEAN
    /\ queue \in [Groups -> 0..QueueSize]
    /\ main \in MainStates

\* Frames for g that are in its queue or may still get there although nothing
\* asks for g any more.
InFlight(g) == IF capture.pc = "build" /\ CapturedGroup = g THEN 1 ELSE 0

\* A group that has been flushed since it was last switched on has one frame at
\* most, the one the capture thread was building when the group went off: a
\* drain that races the capture thread and other commands leaves no more.
StrayAtMostOne ==
    \A g \in Groups \ unflushed : queue[g] + InFlight(g) <= 1

\* When the last subscriber has left and every command has been answered, a
\* later subscriber meets one frame from before at most in each group that is off.
OldFramesBounded ==
    Quiescent /\ ~AnySubscriber =>
        \A g \in Groups : ~GroupActive(g) => queue[g] + InFlight(g) <= 1

\* Once main has drained the queues for the shutdown they stay empty.
NothingLeft ==
    main.pc \in {"publisher", "done"} => \A g \in Groups : queue[g] = 0

\* A type that stays on is produced again and again, in whichever group, until
\* the shutdown.
WantedIsProduced ==
    \A t \in DataTypes :
        (t = "stereo_image" => HasImages) =>
            []<>(~IsActive(t) \/ main.pc # "serve" \/ t \in capture.parts)

\* The shutdown ends: no drain of main chases a producer.
ShutdownEnds == main.pc = "engine" ~> main.pc = "done"

\* The steps main may still take once engine.stop() has told the capture thread
\* to end: the frames to pop, the queues to leave, the publisher to stop.
MainWork ==
    IF main.pc = "join" THEN 3 * QueueSize + 5
    ELSE IF main.pc = "drain"
         THEN queue["visual_2d"] + queue["visual_3d"] + queue["sensor_data"] + (5 - main.i)
    ELSE IF main.pc = "publisher" THEN 1 ELSE 0

\* The steps the capture thread may still take: of a group the tests of its
\* types, the building of its frame and the push.
GroupWork == 2 * Cardinality(DataTypes) + 4

CaptureWork ==
    IF capture.pc = "done" THEN 0
    ELSE IF capture.pc = "tick" THEN 1
    ELSE IF capture.pc = "group"
         THEN (3 - capture.i) * GroupWork
                  + Cardinality(capture.members) + Cardinality(DataTypes) + 4
    ELSE (3 - capture.i) * GroupWork + Cardinality(capture.members) + 2

ShuttingDown == main.pc \in {"join", "drain", "publisher", "done"}

\* A step of the shutdown leaves less to do.
ShutdownDescends ==
    ShuttingDown =>
        /\ ShuttingDown' /\ MainWork' + CaptureWork' <= MainWork + CaptureWork
        /\ MainStep \/ CaptureStep => MainWork' + CaptureWork' < MainWork + CaptureWork

\* Once running_ of the engine is false no step of the node adds to the work that
\* is left, whoever takes it, and each step of main or of the capture thread
\* takes some of it away: the shutdown has no loop.
ShutdownHasNoLoop == [][ShutdownDescends]_nodeVars
=============================================================================
