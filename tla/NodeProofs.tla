----------------------------- MODULE NodeProofs -----------------------------
(***************************************************************************)
(* What the capture thread, the drains of any number of workers and the    *)
(* shutdown leave in the queues.  The commands of the node are those of    *)
(* CommandHandler, so what is proved of them holds here.                   *)
(***************************************************************************)
EXTENDS Node, CommandHandlerProofs

-----------------------------------------------------------------------------
(* The node runs the commands.                                              *)

LEMMA NodeCommandStep ==
    ASSUME [NodeNext]_nodeVars
    PROVE  [CommandNext]_commandVars
<1>1. CASE UNCHANGED nodeVars
  BY <1>1 DEF nodeVars
<1>2. CASE CaptureStep
  BY <1>2, Zenon DEF CaptureStep, CaptureTick, CaptureEnds, GroupFoundOn, GroupTestsOn,
              GroupFoundOff, CaptureBuilds, CapturePushes, CaptureHasNothing
<1>3. ASSUME NEW w \in Workers, WorkerStep(w)
      PROVE  [CommandNext]_commandVars
  <2>1. CASE DrainPops(w)
    BY <2>1 DEF DrainPops
  <2>2. CASE DrainMovesOn(w)
    BY <2>2 DEF DrainMovesOn, CommandNext, Continue
  <2>3. CASE CommandRuns(w)
    BY <2>3 DEF CommandRuns, CommandNext
  <2> QED
    BY <1>3, <2>1, <2>2, <2>3 DEF WorkerStep
<1>4. CASE \/ MainStopsServer \/ MainStep
           \/ \E g \in Groups : PublisherTakes(g)
  BY <1>4 DEF MainStopsServer, MainStep, MainStopsEngine, MainJoinsCapture, MainDrains,
              MainMovesOn, MainStopsPublisher, PublisherTakes
<1> QED
  BY <1>1, <1>2, <1>3, <1>4 DEF NodeNext

\* The workers of the node behave as CommandHandler says, with capture, publisher
\* and shutdown around them.
THEOREM NodeRunsCommands == NodeSpec => CommandSpec
<1>1. NodeInit => CommandInit
  BY DEF NodeInit
<1>2. [NodeNext]_nodeVars => [CommandNext]_commandVars
  BY NodeCommandStep
<1> QED
  BY <1>1, <1>2, PTL DEF NodeSpec, CommandSpec

-----------------------------------------------------------------------------
(* Types.                                                                   *)

\* The capture thread's, main's and the queues' share of NodeTypeOK.
NodeOwnTypes ==
    /\ capture \in CaptureStates
    /\ engineOn \in BOOLEAN
    /\ queue \in [Groups -> 0..QueueSize]
    /\ main \in MainStates

LEMMA OrderOfGroups ==
    /\ Len(GroupOrder) = 3
    /\ \A i \in 1..3 : GroupOrder[i] \in Groups
  BY DEF GroupOrder, Groups

LEMMA CaptureTyped ==
    ASSUME NEW pc \in {"tick", "group", "build", "done"}, NEW i \in 1..3,
           NEW members \in SUBSET DataTypes
    PROVE  CaptureAt(pc, i, members) \in CaptureStates
  BY OrderOfGroups DEF CaptureAt, CaptureStates

LEMMA NextGroupTyped ==
    ASSUME capture \in CaptureStates
    PROVE  NextGroup \in CaptureStates
<1>1. \A g : GroupMembers(g) \in SUBSET DataTypes
  BY DEF GroupMembers
<1>2. capture.i \in 1..3
  BY OrderOfGroups DEF CaptureStates
<1>3. CASE capture.i < 3
  <2>1. capture.i + 1 \in 1..3
    BY <1>2, <1>3
  <2> QED
    BY <1>1, <1>3, <2>1, OrderOfGroups, CaptureTyped DEF NextGroup
<1>4. CASE ~(capture.i < 3)
  BY <1>4, OrderOfGroups, CaptureTyped DEF NextGroup
<1> QED
  BY <1>3, <1>4

\* A pop takes a frame from one queue and leaves the others alone.
LEMMA PopTakes ==
    ASSUME queue \in [Groups -> 0..QueueSize], NEW g, Pops(g)
    PROVE  /\ queue' \in [Groups -> 0..QueueSize]
           /\ \A h \in Groups : queue'[h] <= queue[h]
<1>1. CASE g \in Groups
  <2>1. queue[g] - 1 \in 0..QueueSize
    BY <1>1, NodeAssumption DEF Pops
  <2> QED
    BY <1>1, <2>1, NodeAssumption DEF Pops
<1>2. CASE g \notin Groups
  <2>1. queue' = queue
    BY <1>2 DEF Pops
  <2> QED
    BY <2>1, NodeAssumption
<1> QED
  BY <1>1, <1>2

LEMMA CaptureTypeStep ==
    ASSUME NodeOwnTypes, CaptureStep
    PROVE  NodeOwnTypes'
<1> USE DEF NodeOwnTypes
<1>1. \A g : GroupMembers(g) \in SUBSET DataTypes
  BY DEF GroupMembers
<1>2. capture.i \in 1..3 /\ capture.members \in SUBSET DataTypes
  BY OrderOfGroups DEF CaptureStates
<1>3. CASE CaptureTick \/ CaptureEnds \/ GroupFoundOn
  BY <1>1, <1>2, <1>3, CaptureTyped DEF CaptureTick, CaptureEnds, GroupFoundOn
<1>4. CASE GroupFoundOff \/ CaptureHasNothing
  BY <1>4, NextGroupTyped DEF GroupFoundOff, CaptureHasNothing
<1>5. CASE GroupTestsOn
  BY <1>5 DEF GroupTestsOn, CaptureStates
<1>6. CASE CaptureBuilds
  <2>1. PICK t \in capture.members :
            capture' = [capture EXCEPT !.members = @ \ {t}, !.parts = @ \cup Made(t)]
    BY <1>6, Zenon DEF CaptureBuilds
  <2>2. t \in DataTypes /\ Made(t) \subseteq DataTypes
    BY <1>2, <2>1 DEF Made
  <2>3. capture' \in CaptureStates
    BY <1>2, <2>1, <2>2 DEF CaptureStates
  <2> QED
    BY <1>6, <2>3 DEF CaptureBuilds
<1>7. CASE CapturePushes
  <2>1. CapturedGroup \in Groups
    BY <1>2, OrderOfGroups DEF CapturedGroup
  <2>2. queue' \in [Groups -> 0..QueueSize]
    BY <1>7, <2>1, NodeAssumption DEF CapturePushes
  <2> QED
    BY <1>7, <2>2, NextGroupTyped DEF CapturePushes
<1> QED
  BY <1>3, <1>4, <1>5, <1>6, <1>7 DEF CaptureStep

LEMMA MainTyped ==
    ASSUME NEW pc \in {"serve", "engine", "join", "drain", "publisher", "done"},
           NEW i \in 1..3
    PROVE  MainAt(pc, i) \in MainStates
  BY OrderOfGroups DEF MainAt, MainStates

LEMMA MainTypeStep ==
    ASSUME NodeOwnTypes, MainStopsServer \/ MainStep
    PROVE  NodeOwnTypes'
<1> USE DEF NodeOwnTypes
<1>1. main.i \in 1..3 /\ GroupOrder[main.i] \in Groups
  BY OrderOfGroups DEF MainStates
<1>2. CASE \/ MainStopsServer \/ MainStopsEngine \/ MainJoinsCapture
           \/ MainStopsPublisher
  <2>1. \/ main' = MainAt("engine", 1) \/ main' = MainAt("join", 1)
        \/ main' = MainAt("drain", 1) \/ main' = MainAt("done", 1)
    BY <1>2 DEF MainStopsServer, MainStopsEngine, MainJoinsCapture, MainStopsPublisher
  <2>2. main' \in MainStates
    BY <2>1, MainTyped
  <2> QED
    BY <1>2, <2>2 DEF MainStopsServer, MainStopsEngine, MainJoinsCapture, MainStopsPublisher
<1>3. CASE MainDrains
  BY <1>1, <1>3, PopTakes DEF MainDrains
<1>4. CASE MainMovesOn
  <2>1. main.i < 3 => main.i + 1 \in 1..3
    BY <1>1
  <2> QED
    BY <1>4, <2>1, OrderOfGroups, MainTyped DEF MainMovesOn
<1> QED
  BY <1>2, <1>3, <1>4 DEF MainStep

LEMMA NodeTypeStep ==
    ASSUME NodeOwnTypes, CommandTypeOK, [NodeNext]_nodeVars
    PROVE  NodeOwnTypes'
<1>1. CASE UNCHANGED nodeVars
  BY <1>1 DEF nodeVars, NodeOwnTypes
<1>2. ASSUME NEW w \in Workers, WorkerStep(w)
      PROVE  NodeOwnTypes'
  <2>1. CASE DrainPops(w)
    BY <2>1, PopTakes DEF DrainPops, NodeOwnTypes
  <2>2. CASE DrainMovesOn(w) \/ CommandRuns(w)
    BY <2>2 DEF DrainMovesOn, CommandRuns, NodeOwnTypes
  <2> QED
    BY <1>2, <2>1, <2>2 DEF WorkerStep
<1>3. ASSUME NEW g \in Groups, PublisherTakes(g)
      PROVE  NodeOwnTypes'
  BY <1>3, PopTakes DEF PublisherTakes, NodeOwnTypes
<1> QED
  BY <1>1, <1>2, <1>3, CaptureTypeStep, MainTypeStep DEF NodeNext

\* The node keeps its types and each queue its bound.
THEOREM NodeTypeCorrect == NodeSpec => []NodeTypeOK
<1>1. NodeInit => NodeOwnTypes
  <2> SUFFICES ASSUME NodeInit
               PROVE  NodeOwnTypes
    OBVIOUS
  <2>1. capture \in CaptureStates /\ main \in MainStates
    BY CaptureTyped, MainTyped DEF NodeInit
  <2>2. queue \in [Groups -> 0..QueueSize]
    BY NodeAssumption DEF NodeInit
  <2> QED
    BY <2>1, <2>2 DEF NodeInit, NodeOwnTypes
<1>2. NodeOwnTypes /\ CommandTypeOK /\ [NodeNext]_nodeVars => NodeOwnTypes'
  BY NodeTypeStep
<1>3. NodeOwnTypes /\ CommandTypeOK => NodeTypeOK
  BY DEF NodeOwnTypes, NodeTypeOK
<1> QED
  BY <1>1, <1>2, <1>3, NodeRunsCommands, CommandTypeCorrect, PTL DEF NodeSpec

-----------------------------------------------------------------------------
(* Strays.                                                                  *)

\* The capture thread tests the types of the group it is at; a group that is on
\* is unflushed; and the bound.
StrayInv ==
    /\ capture.pc = "group" => capture.members \subseteq GroupMembers(CapturedGroup)
    /\ \A g \in Groups : GroupActive(g) => g \in unflushed
    /\ StrayAtMostOne

\* A step that neither adds frames nor takes groups out of unflushed.
LEMMA StrayKept ==
    ASSUME StrayInv, NodeOwnTypes, queue' \in [Groups -> 0..QueueSize],
           \A g \in Groups : queue'[g] <= queue[g], capture' = capture,
           unflushed \subseteq unflushed',
           \A g \in Groups : GroupActive(g)' => GroupActive(g) \/ g \in unflushed'
    PROVE  StrayInv'
<1>1. \A g \in Groups : queue[g] \in Nat /\ queue'[g] \in Nat
  BY NodeAssumption DEF NodeOwnTypes
<1>2. \A g : InFlight(g)' = InFlight(g) /\ InFlight(g) \in {0, 1}
  BY DEF InFlight, CapturedGroup
<1> QED
  BY <1>1, <1>2 DEF StrayInv, StrayAtMostOne, CapturedGroup, GroupMembers

\* The commands outside their drains: what goes on is unflushed.
LEMMA RunsUnflushed ==
    ASSUME CommandTypeOK, NEW w \in Workers, CommandRuns(w)
    PROVE  /\ unflushed \subseteq unflushed'
           /\ \A g \in Groups : GroupActive(g)' => GroupActive(g) \/ g \in unflushed'
<1> DEFINE Kept == \A t \in DataTypes :
                      IsActive(t)' => IsActive(t) \/ DataTypeToGroup[t] \in unflushed'
<1>1. ASSUME Kept
      PROVE  \A g \in Groups : GroupActive(g)' => GroupActive(g) \/ g \in unflushed'
  BY <1>1 DEF GroupActive, GroupMembers
<1>2. ASSUME UNCHANGED <<count, forced, unflushed>>
      PROVE  Kept /\ unflushed \subseteq unflushed'
  BY <1>2 DEF IsActive
<1>3. ASSUME NEW c \in Clients, NEW types \in SUBSET DataTypes,
             ChannelStop(c, types) \/ ChannelDisconnect(c), unflushed' = unflushed
      PROVE  Kept /\ unflushed \subseteq unflushed'
  <2>1. \A t \in DataTypes : count'[t] > 0 => count[t] > 0
    BY <1>3 DEF ChannelStop, ChannelDisconnect, Decremented, CommandTypeOK, ChannelTypeOK
  <2>2. forced' = forced
    BY <1>3 DEF ChannelStop, ChannelDisconnect
  <2> QED
    BY <1>3, <2>1, <2>2 DEF IsActive
<1>4. ASSUME NEW c \in Clients, Requests(w, c)
      PROVE  Kept /\ unflushed \subseteq unflushed'
  <2>1. ASSUME NEW types \in SUBSET DataTypes, StopBegin(w, c, types)
        PROVE  Kept /\ unflushed \subseteq unflushed'
    BY <1>3, <2>1 DEF StopBegin
  <2>2. ASSUME NEW types \in SUBSET DataTypes,
               StartInvalid(w, c, types) \/ StartBegin(w, c, types) \/ StopInvalid(w, c, types)
        PROVE  UNCHANGED <<count, forced, unflushed>>
    BY <2>2 DEF StartInvalid, StartBegin, StopInvalid, Refuse, commandVars, channelVars
  <2>3. CASE \/ ConnectTwice(w, c) \/ ConnectNew(w, c) \/ DisconnectRefused(w, c)
             \/ DisconnectBegin(w, c) \/ StartRefused(w, c)
    <3>1. UNCHANGED <<count, forced, unflushed>>
      BY <2>3 DEF ConnectTwice, ConnectNew, DisconnectRefused, DisconnectBegin,
                  StartRefused, Refuse, commandVars, channelVars
    <3> QED
      BY <1>2, <3>1
  <2> HIDE DEF Kept
  <2> QED
    BY <1>2, <1>4, <2>1, <2>2, <2>3 DEF Requests
<1>5. ASSUME NEW t \in DataTypes, ChannelRequests(w, t)
      PROVE  Kept /\ unflushed \subseteq unflushed'
  BY <1>5 DEF ChannelRequests, Activate, DeactivateBegin, ChannelActivate,
              ChannelDeactivate, IsActive
<1>6. ASSUME Continue(w), worker[w].pc # "drain"
      PROVE  Kept /\ unflushed \subseteq unflushed'
  <2>1. CASE StartSubscribe(w)
    <3> DEFINE types == worker[w].types
    <3>1. /\ \A t \in DataTypes \ types : count'[t] = count[t]
          /\ forced' = forced
          /\ unflushed' = unflushed \cup {DataTypeToGroup[t] : t \in types}
      BY <2>1 DEF StartSubscribe, ChannelStart
    <3> QED
      BY <3>1 DEF IsActive
  <2>2. CASE DisconnectRelease(w)
    <3>1. worker[w].client \in Clients
      BY <2>2, NoClientAssumption DEF DisconnectRelease, CommandTypeOK, WorkerStates
    <3> QED
      BY <1>3, <2>2, <3>1 DEF DisconnectRelease
  <2>3. CASE \/ ConnectInsert(w) \/ DisconnectForget(w) \/ LastTestOthers(w)
             \/ LastTestNone(w) \/ GroupTestActive(w) \/ GroupTestInactive(w)
             \/ GroupTestDone(w)
    <3>1. UNCHANGED <<count, forced, unflushed>>
      BY <2>3 DEF ConnectInsert, DisconnectForget, LastTestOthers, LastTestNone,
                  GroupTestActive, GroupTestInactive, GroupTestDone, channelVars
    <3> QED
      BY <1>2, <3>1
  <2>4. ~DrainNext(w) /\ ~DrainLast(w)
    BY <1>6 DEF DrainNext, DrainLast
  <2> HIDE DEF Kept
  <2> QED
    BY <1>6, <2>1, <2>2, <2>3, <2>4 DEF Continue
<1> HIDE DEF Kept
<1> QED
  BY <1>1, <1>4, <1>5, <1>6 DEF CommandRuns

\* The capture thread: it begins a frame for a group that it has found on.
LEMMA StrayCapture ==
    ASSUME StrayInv, NodeOwnTypes, CaptureStep
    PROVE  StrayInv'
<1>1. /\ UNCHANGED commandVars /\ capture.i \in 1..3 /\ CapturedGroup \in Groups
      /\ capture.members \in SUBSET DataTypes
      /\ \A g \in Groups : queue[g] \in 0..QueueSize
  BY OrderOfGroups, Zenon
     DEF CaptureStep, CaptureTick, CaptureEnds, GroupFoundOn, GroupTestsOn,
         GroupFoundOff, CaptureBuilds, CapturePushes, CaptureHasNothing,
         CapturedGroup, NodeOwnTypes, CaptureStates
<1>2. unflushed' = unflushed /\ \A g : GroupActive(g)' <=> GroupActive(g)
  BY <1>1, GroupsKept DEF commandVars, channelVars
<1>3. ASSUME capture'.pc = "group" => capture'.members \subseteq GroupMembers(CapturedGroup'),
             \A g \in Groups \ unflushed : queue'[g] + InFlight(g)' <= 1
      PROVE  StrayInv'
  BY <1>2, <1>3 DEF StrayInv, StrayAtMostOne, GroupMembers
<1>4. \A g \in Groups \ unflushed : queue[g] + InFlight(g) <= 1 /\ queue[g] \in Nat
  BY <1>1, NodeAssumption DEF StrayInv, StrayAtMostOne
<1>5. NextGroup.pc # "build"
      /\ (NextGroup.pc = "group" =>
             NextGroup.members = GroupMembers(GroupOrder[NextGroup.i]))
  BY DEF NextGroup, CaptureAt
<1>6. CASE \/ CaptureTick \/ CaptureEnds \/ GroupFoundOff \/ CaptureHasNothing
  <2>1. /\ capture'.pc # "build" /\ queue' = queue
        /\ capture'.pc = "group" => capture'.members = GroupMembers(CapturedGroup')
    BY <1>5, <1>6 DEF CaptureTick, CaptureEnds, GroupFoundOff, CaptureHasNothing,
                      CaptureAt, CapturedGroup
  <2>2. \A g : InFlight(g)' = 0 /\ InFlight(g) \in {0, 1}
    BY <2>1 DEF InFlight
  <2> QED
    BY <1>3, <1>4, <2>1, <2>2
<1>7. CASE GroupTestsOn
  <2>1. /\ capture'.pc = "group" /\ capture'.i = capture.i /\ queue' = queue
        /\ capture'.members \subseteq capture.members /\ capture.pc = "group"
    BY <1>7 DEF GroupTestsOn, NodeOwnTypes, CaptureStates
  <2>2. \A g : InFlight(g)' = 0 /\ InFlight(g) = 0
    BY <2>1 DEF InFlight
  <2>3. capture'.members \subseteq GroupMembers(CapturedGroup')
    BY <2>1 DEF StrayInv, CapturedGroup
  <2> QED
    BY <1>3, <1>4, <2>1, <2>2, <2>3
<1>8. CASE GroupFoundOn
  <2>1. /\ capture.pc = "group" /\ capture'.pc = "build" /\ capture'.i = capture.i
        /\ queue' = queue
    BY <1>8 DEF GroupFoundOn, CaptureAt
  <2>2. GroupActive(CapturedGroup)
    BY <1>8, <2>1 DEF StrayInv, GroupActive, GroupFoundOn
  <2>3. CapturedGroup \in unflushed
    BY <1>1, <2>2 DEF StrayInv
  <2>4. \A g : g # CapturedGroup => InFlight(g)' = 0 /\ InFlight(g) = 0
    BY <2>1 DEF InFlight, CapturedGroup
  <2>5. \A g \in Groups \ unflushed : InFlight(g)' = 0 /\ InFlight(g) = 0
    BY <2>3, <2>4
  <2> QED
    BY <1>3, <1>4, <2>1, <2>5
<1>9. CASE CaptureBuilds
  <2>1. /\ capture'.pc = "build" /\ capture.pc = "build" /\ capture'.i = capture.i
        /\ queue' = queue
    BY <1>9 DEF CaptureBuilds, NodeOwnTypes, CaptureStates
  <2>2. \A g : InFlight(g)' = InFlight(g)
    BY <2>1 DEF InFlight, CapturedGroup
  <2> QED
    BY <1>3, <1>4, <2>1, <2>2
<1>10. CASE CapturePushes
  <2>1. /\ capture.pc = "build" /\ capture'.pc # "build"
        /\ capture'.pc = "group" => capture'.members = GroupMembers(CapturedGroup')
        /\ queue' = [queue EXCEPT ![CapturedGroup] = IF @ < QueueSize THEN @ + 1 ELSE @]
    BY <1>5, <1>10 DEF CapturePushes, CapturedGroup
  <2>2. ASSUME NEW g \in Groups \ unflushed
        PROVE  queue'[g] + InFlight(g)' <= 1
    <3>1. queue \in [Groups -> 0..QueueSize] /\ InFlight(g)' = 0
      BY <2>1 DEF InFlight, NodeOwnTypes
    <3>2. CASE g = CapturedGroup
      <4>1. InFlight(g) = 1
        BY <2>1, <3>2 DEF InFlight
      <4>2. queue[g] = 0
        BY <1>4, <4>1
      <4>3. queue'[g] <= 1 /\ queue'[g] \in Nat
        BY <1>1, <2>1, <3>1, <3>2, <4>2, NodeAssumption
      <4> QED
        BY <3>1, <4>3
    <3>3. CASE g # CapturedGroup
      <4>1. queue'[g] = queue[g] /\ InFlight(g) = 0
        BY <2>1, <3>1, <3>3 DEF InFlight
      <4> QED
        BY <1>4, <3>1, <4>1
    <3> QED
      BY <3>2, <3>3
  <2> QED
    BY <1>3, <2>1, <2>2
<1> QED
  BY <1>6, <1>7, <1>8, <1>9, <1>10 DEF CaptureStep

\* The end of a drain: it has found the queue empty.
LEMMA StrayDrained ==
    ASSUME StrayInv, NodeOwnTypes, NEW w \in Workers, DrainMovesOn(w)
    PROVE  StrayInv'
<1> DEFINE d == Head(worker[w].todo)
<1>1. /\ queue[d] = 0 /\ UNCHANGED <<channelVars, queue, capture>>
      /\ unflushed' = IF GroupActive(d) THEN unflushed ELSE unflushed \ {d}
  BY DEF DrainMovesOn, DrainNext, DrainLast, DrainGroup
<1> HIDE DEF d
<1>2. \A g : (GroupActive(g)' <=> GroupActive(g)) /\ InFlight(g)' = InFlight(g)
  BY <1>1, GroupsKept DEF InFlight, CapturedGroup
<1>3. ASSUME NEW g \in Groups \ unflushed'
      PROVE  queue'[g] + InFlight(g)' <= 1
  <2>1. CASE g = d
    BY <1>1, <1>2, <2>1 DEF InFlight
  <2>2. CASE g # d
    BY <1>1, <1>2, <1>3, <2>2 DEF StrayInv, StrayAtMostOne
  <2> QED
    BY <2>1, <2>2
<1>4. \A g \in Groups : GroupActive(g)' => g \in unflushed'
  BY <1>1, <1>2 DEF StrayInv
<1> QED
  BY <1>1, <1>3, <1>4 DEF StrayInv, StrayAtMostOne, CapturedGroup, GroupMembers

LEMMA StrayStep ==
    ASSUME StrayInv, NodeOwnTypes, CommandTypeOK, [NodeNext]_nodeVars
    PROVE  StrayInv'
<1>1. NodeOwnTypes'
  BY NodeTypeStep
<1>2. queue \in [Groups -> 0..QueueSize] /\ queue' \in [Groups -> 0..QueueSize]
  BY <1>1 DEF NodeOwnTypes
<1>3. ASSUME UNCHANGED <<commandVars, capture>>,
             \A g \in Groups : queue'[g] <= queue[g]
      PROVE  StrayInv'
  <2>1. unflushed' = unflushed /\ \A g : GroupActive(g)' <=> GroupActive(g)
    BY <1>3, GroupsKept DEF commandVars, channelVars
  <2> QED
    BY <1>2, <1>3, <2>1, StrayKept
<1>4. queue' = queue => \A g \in Groups : queue'[g] <= queue[g]
  BY <1>2, NodeAssumption
<1>5. CASE UNCHANGED nodeVars
  BY <1>3, <1>4, <1>5 DEF nodeVars
<1>6. ASSUME NEW w \in Workers, WorkerStep(w)
      PROVE  StrayInv'
  <2>1. CASE DrainPops(w)
    BY <1>2, <1>3, <2>1, PopTakes DEF DrainPops
  <2>2. CASE DrainMovesOn(w)
    BY <2>2, StrayDrained
  <2>3. CASE CommandRuns(w)
    <3>1. queue' = queue /\ capture' = capture
      BY <2>3 DEF CommandRuns
    <3> QED
      BY <1>2, <1>4, <2>3, <3>1, RunsUnflushed, StrayKept
  <2> QED
    BY <1>6, <2>1, <2>2, <2>3 DEF WorkerStep
<1>7. ASSUME NEW g \in Groups, PublisherTakes(g)
      PROVE  StrayInv'
  BY <1>2, <1>3, <1>7, PopTakes DEF PublisherTakes
<1>8. CASE MainDrains
  BY <1>2, <1>3, <1>8, PopTakes DEF MainDrains
<1>9. CASE \/ MainStopsServer \/ MainStopsEngine \/ MainJoinsCapture
           \/ MainMovesOn \/ MainStopsPublisher
  BY <1>3, <1>4, <1>9
     DEF MainStopsServer, MainStopsEngine, MainJoinsCapture, MainMovesOn, MainStopsPublisher
<1> QED
  BY <1>5, <1>6, <1>7, <1>8, <1>9, StrayCapture DEF NodeNext, MainStep

\* A group that has been flushed since it was last switched on has one frame at
\* most, for any number of workers that drain and of clients.
THEOREM StrayBounded == NodeSpec => []StrayAtMostOne
<1>1. NodeInit => StrayInv
  <2> SUFFICES ASSUME NodeInit
               PROVE  StrayInv
    OBVIOUS
  <2>1. capture.pc = "tick"
    BY DEF NodeInit, CaptureAt
  <2>2. \A t \in DataTypes : ~IsActive(t)
    BY DEF NodeInit, CommandInit, ChannelInit, IsActive
  <2>3. \A g : ~GroupActive(g) /\ InFlight(g) = 0
    BY <2>1, <2>2 DEF GroupActive, GroupMembers, InFlight
  <2>4. \A g \in Groups : queue[g] = 0
    BY DEF NodeInit
  <2> QED
    BY <2>1, <2>3, <2>4 DEF StrayInv, StrayAtMostOne
<1>2. NodeTypeOK => NodeOwnTypes /\ CommandTypeOK
  BY DEF NodeTypeOK, NodeOwnTypes
<1>3. StrayInv /\ NodeOwnTypes /\ CommandTypeOK /\ [NodeNext]_nodeVars => StrayInv'
  BY StrayStep
<1>4. StrayInv => StrayAtMostOne
  BY DEF StrayInv
<1> QED
  BY <1>1, <1>2, <1>3, <1>4, NodeTypeCorrect, PTL DEF NodeSpec

\* When the last subscriber has left, whatever commands interleaved, a group that
\* is off holds one old frame at most.
THEOREM OldFramesAreBounded ==
    ASSUME IsFiniteSet(Clients)
    PROVE  NodeSpec => []OldFramesBounded
<1>1. StrayAtMostOne /\ LastLeaverFlushes => OldFramesBounded
  BY DEF StrayAtMostOne, LastLeaverFlushes, OldFramesBounded
<1> QED
  BY <1>1, StrayBounded, NodeRunsCommands, LastLeaverHasFlushed, PTL

-----------------------------------------------------------------------------
(* The shutdown.                                                            *)

\* From the join on nothing pushes any more, and the queues before main's are
\* empty.
ShutdownInv ==
    /\ main.pc \in {"drain", "publisher", "done"} => capture.pc = "done"
    /\ main.pc = "drain" => \A j \in 1..3 : j < main.i => queue[GroupOrder[j]] = 0
    /\ NothingLeft

LEMMA ShutdownStep ==
    ASSUME ShutdownInv, NodeOwnTypes, [NodeNext]_nodeVars
    PROVE  ShutdownInv'
<1>1. queue \in [Groups -> 0..QueueSize] /\ main.i \in 1..3
  BY OrderOfGroups DEF NodeOwnTypes, MainStates
<1>2. ASSUME UNCHANGED <<capture, main>>, queue' \in [Groups -> 0..QueueSize],
             \A g \in Groups : queue'[g] <= queue[g]
      PROVE  ShutdownInv'
  <2>1. \A g \in Groups : queue[g] = 0 => queue'[g] = 0
    BY <1>1, <1>2, NodeAssumption
  <2> QED
    BY <1>2, <2>1, OrderOfGroups DEF ShutdownInv, NothingLeft
<1>3. queue' = queue => /\ queue' \in [Groups -> 0..QueueSize]
                        /\ \A g \in Groups : queue'[g] <= queue[g]
  BY <1>1, NodeAssumption
<1>4. CASE UNCHANGED nodeVars
  BY <1>2, <1>3, <1>4 DEF nodeVars
<1>5. CASE CaptureStep
  <2>1. capture.pc # "done" /\ main' = main
    <3>1. capture.pc \in {"tick", "group", "build"} /\ main' = main
      BY <1>5, Zenon
         DEF CaptureStep, CaptureTick, CaptureEnds, GroupFoundOn, GroupTestsOn,
             GroupFoundOff, CaptureBuilds, CapturePushes, CaptureHasNothing
    <3> QED
      BY <3>1
  <2> QED
    BY <2>1 DEF ShutdownInv, NothingLeft
<1>6. ASSUME NEW w \in Workers, WorkerStep(w)
      PROVE  ShutdownInv'
  <2>1. CASE DrainPops(w)
    BY <1>1, <1>2, <2>1, PopTakes DEF DrainPops
  <2>2. CASE DrainMovesOn(w) \/ CommandRuns(w)
    BY <1>2, <1>3, <2>2 DEF DrainMovesOn, CommandRuns
  <2> QED
    BY <1>6, <2>1, <2>2 DEF WorkerStep
<1>7. ASSUME NEW g \in Groups, PublisherTakes(g)
      PROVE  ShutdownInv'
  BY <1>1, <1>2, <1>7, PopTakes DEF PublisherTakes
<1>8. CASE MainStopsServer \/ MainStopsEngine
  <2>1. main'.pc \in {"engine", "join"}
    BY <1>8 DEF MainStopsServer, MainStopsEngine, MainAt
  <2> QED
    BY <2>1 DEF ShutdownInv, NothingLeft
<1>9. CASE MainJoinsCapture
  <2>1. capture'.pc = "done" /\ main'.pc = "drain" /\ main'.i = 1
    BY <1>9 DEF MainJoinsCapture, MainAt
  <2> QED
    BY <2>1 DEF ShutdownInv, NothingLeft
<1>10. CASE MainDrains
  BY <1>1, <1>2, <1>10, PopTakes DEF MainDrains
<1>11. CASE MainMovesOn
  <2>1. /\ main.pc = "drain" /\ capture' = capture /\ capture.pc = "done"
        /\ queue' = queue /\ \A j \in 1..3 : j <= main.i => queue[GroupOrder[j]] = 0
    BY <1>1, <1>11 DEF MainMovesOn, ShutdownInv
  <2>2. CASE main.i < 3
    <3>1. main' = MainAt("drain", main.i + 1)
      BY <1>11, <2>2, OrderOfGroups DEF MainMovesOn
    <3>2. main'.pc = "drain" /\ main'.i = main.i + 1
      BY <3>1 DEF MainAt
    <3> QED
      BY <1>1, <2>1, <3>2 DEF ShutdownInv, NothingLeft
  <2>3. CASE ~(main.i < 3)
    <3>1. main'.pc = "publisher"
      BY <1>11, <2>3, OrderOfGroups DEF MainMovesOn, MainAt
    <3>2. \A g \in Groups : \E j \in 1..3 : g = GroupOrder[j]
      BY DEF Groups, GroupOrder
    <3>3. \A g \in Groups : queue'[g] = 0
      BY <1>1, <2>1, <2>3, <3>2
    <3> QED
      BY <2>1, <3>1, <3>3 DEF ShutdownInv, NothingLeft
  <2> QED
    BY <2>2, <2>3
<1>12. CASE MainStopsPublisher
  <2>1. /\ main.pc = "publisher" /\ main'.pc = "done"
        /\ queue' = queue /\ capture' = capture
    BY <1>12 DEF MainStopsPublisher, MainAt
  <2> QED
    BY <2>1 DEF ShutdownInv, NothingLeft
<1> QED
  BY <1>4, <1>5, <1>6, <1>7, <1>8, <1>9, <1>10, <1>11, <1>12 DEF NodeNext, MainStep

\* Once main has drained the queues nothing gets into them any more.
THEOREM NothingIsLeft == NodeSpec => []NothingLeft
<1>1. NodeInit => ShutdownInv
  BY DEF NodeInit, MainAt, ShutdownInv, NothingLeft
<1>2. NodeTypeOK => NodeOwnTypes
  BY DEF NodeTypeOK, NodeOwnTypes
<1>3. ShutdownInv /\ NodeOwnTypes /\ [NodeNext]_nodeVars => ShutdownInv'
  BY ShutdownStep
<1>4. ShutdownInv => NothingLeft
  BY DEF ShutdownInv
<1> QED
  BY <1>1, <1>2, <1>3, <1>4, NodeTypeCorrect, PTL DEF NodeSpec

-----------------------------------------------------------------------------
(* How far the shutdown is from its end.                                    *)

LEMMA FewFinite == \A a, b, c, d : IsFiniteSet({a, b, c, d})
<1> SUFFICES ASSUME NEW a, NEW b, NEW c, NEW d
             PROVE  IsFiniteSet({a, b, c, d})
  OBVIOUS
<1>1. IsFiniteSet({a} \cup {b}) /\ IsFiniteSet({c} \cup {d})
  BY FS_Singleton, FS_Union
<1>2. IsFiniteSet(({a} \cup {b}) \cup ({c} \cup {d}))
  BY <1>1, FS_Union
<1>3. {a, b, c, d} = ({a} \cup {b}) \cup ({c} \cup {d})
  OBVIOUS
<1> QED
  BY <1>2, <1>3

LEMMA TypesFinite ==
    /\ IsFiniteSet(DataTypes) /\ Cardinality(DataTypes) \in Nat
    /\ \A T \in SUBSET DataTypes :
          /\ IsFiniteSet(T) /\ Cardinality(T) \in Nat
          /\ Cardinality(T) <= Cardinality(DataTypes)
          /\ \A t \in T : Cardinality(T \ {t}) < Cardinality(T)
<1>1. IsFiniteSet(Visual2D) /\ IsFiniteSet(Visual3D)
  <2>1. /\ Visual2D = {"stereo_image", "depth_map", "depth_map", "depth_map"}
        /\ Visual3D = {"point_cloud", "disparity_map", "confidence_map", "confidence_map"}
    BY DEF Visual2D, Visual3D
  <2> QED
    BY <2>1, FewFinite
<1>2. IsFiniteSet(SensorData)
  BY FewFinite DEF SensorData
<1>3. IsFiniteSet(Visual2D \cup Visual3D)
  BY <1>1, FS_Union
<1>4. IsFiniteSet((Visual2D \cup Visual3D) \cup SensorData)
  BY <1>2, <1>3, FS_Union
<1>5. IsFiniteSet(DataTypes)
  BY <1>4, DataTypesAssumption, FS_Subset
<1>6. ASSUME NEW T \in SUBSET DataTypes
      PROVE  /\ IsFiniteSet(T) /\ Cardinality(T) \in Nat
             /\ Cardinality(T) <= Cardinality(DataTypes)
  BY <1>5, FS_Subset, FS_CardinalityType
<1>7. ASSUME NEW T \in SUBSET DataTypes, NEW t \in T
      PROVE  Cardinality(T \ {t}) < Cardinality(T)
  <2>1. IsFiniteSet(T) /\ Cardinality(T) \in Nat
    BY <1>6
  <2>2. Cardinality(T \ {t}) = Cardinality(T) - 1
    BY <2>1, FS_RemoveElement
  <2> QED
    BY <2>1, <2>2
<1> QED
  BY <1>5, <1>6, <1>7, FS_CardinalityType

\* What CaptureWork is at each place of the capture thread, and what is known of
\* its parts.
LEMMA CaptureWorkTyped ==
    ASSUME capture \in CaptureStates
    PROVE  CaptureWork \in Nat
<1>1. capture.i \in 1..3 /\ Cardinality(capture.members) \in Nat /\ Cardinality(DataTypes) \in Nat
  BY OrderOfGroups, TypesFinite DEF CaptureStates
<1>2. (3 - capture.i) * GroupWork \in Nat
  BY <1>1 DEF GroupWork
<1> QED
  BY <1>1, <1>2 DEF CaptureWork

\* The next group, with all its types, is less work than what comes before it.
LEMMA NextGroupLess ==
    ASSUME capture \in CaptureStates, capture.pc \in {"group", "build"}, capture' = NextGroup
    PROVE  CaptureWork' < CaptureWork
<1> DEFINE D == Cardinality(DataTypes)
           m == Cardinality(capture.members)
<1>1. capture.i \in 1..3 /\ D \in Nat /\ m \in Nat
  BY OrderOfGroups, TypesFinite DEF CaptureStates
<1>2. /\ (3 - capture.i) * GroupWork \in Nat /\ CaptureWork \in Nat
      /\ CaptureWork >= (3 - capture.i) * GroupWork + 2
  BY <1>1, CaptureWorkTyped DEF CaptureWork, GroupWork
<1>3. CASE capture.i < 3
  <2> DEFINE n == Cardinality(GroupMembers(GroupOrder[capture.i + 1]))
  <2>1. n \in Nat /\ n <= D
    <3>1. GroupMembers(GroupOrder[capture.i + 1]) \in SUBSET DataTypes
      BY DEF GroupMembers
    <3> QED
      BY <3>1, TypesFinite
  <2>2. /\ capture'.pc = "group" /\ capture'.i = capture.i + 1
        /\ capture'.members = GroupMembers(GroupOrder[capture.i + 1])
    BY <1>3, OrderOfGroups DEF NextGroup, CaptureAt
  <2>3. CaptureWork' = (3 - (capture.i + 1)) * GroupWork + n + D + 4
    BY <2>2 DEF CaptureWork, GroupWork
  <2> DEFINE X == (3 - (capture.i + 1)) * GroupWork
  <2>4. X \in Nat /\ (3 - capture.i) * GroupWork = X + (2 * D + 4)
    <3>1. capture.i = 1 \/ capture.i = 2
      BY <1>1, <1>3
    <3> QED
      BY <1>1, <3>1 DEF GroupWork
  <2> HIDE DEF n, D, X
  <2>5. CaptureWork >= X + (2 * D + 4) + 2
    BY <1>2, <2>4
  <2>6. CaptureWork' = X + n + D + 4
    BY <2>3 DEF X, D, n
  <2> QED
    BY <1>1, <1>2, <2>1, <2>4, <2>5, <2>6
<1>4. CASE capture.i = 3
  <2>1. capture'.pc = "tick"
    BY <1>4, OrderOfGroups DEF NextGroup, CaptureAt
  <2>2. CaptureWork' = 1
    BY <2>1 DEF CaptureWork
  <2> QED
    BY <1>2, <2>2
<1> QED
  BY <1>1, <1>3, <1>4

LEMMA CaptureWorkLess ==
    ASSUME capture \in CaptureStates, ~engineOn, CaptureStep
    PROVE  CaptureWork' < CaptureWork
<1> DEFINE D == Cardinality(DataTypes)
           m == Cardinality(capture.members)
<1>1. capture.i \in 1..3 /\ D \in Nat /\ m \in Nat /\ capture.members \in SUBSET DataTypes
  BY OrderOfGroups, TypesFinite DEF CaptureStates
<1>2. (3 - capture.i) * GroupWork \in Nat
  BY <1>1 DEF GroupWork
<1>3. CASE CaptureTick
  BY <1>3 DEF CaptureTick
<1>4. CASE CaptureEnds
  BY <1>4 DEF CaptureEnds, CaptureAt, CaptureWork
<1>5. CASE GroupFoundOn
  <2> DEFINE n == Cardinality(GroupMembers(CapturedGroup))
  <2>1. /\ capture.pc = "group" /\ capture'.pc = "build" /\ capture'.i = capture.i
        /\ capture'.members = GroupMembers(CapturedGroup)
    BY <1>5 DEF GroupFoundOn, CaptureAt
  <2>2. n \in Nat /\ n <= D
    <3>1. GroupMembers(CapturedGroup) \in SUBSET DataTypes
      BY DEF GroupMembers
    <3> QED
      BY <3>1, TypesFinite
  <2>3. /\ CaptureWork = (3 - capture.i) * GroupWork + m + D + 4
        /\ CaptureWork' = (3 - capture.i) * GroupWork + n + 2
    BY <2>1 DEF CaptureWork, GroupWork
  <2> HIDE DEF n, D, m
  <2> QED
    BY <1>1, <1>2, <2>2, <2>3
<1>6. CASE GroupTestsOn
  <2>1. PICK t \in capture.members : capture' = [capture EXCEPT !.members = @ \ {t}]
    BY <1>6 DEF GroupTestsOn
  <2>2. /\ capture.pc = "group" /\ capture'.pc = "group" /\ capture'.i = capture.i
        /\ capture'.members = capture.members \ {t}
    BY <1>6, <2>1 DEF GroupTestsOn, CaptureStates
  <2>3. Cardinality(capture'.members) < m /\ Cardinality(capture'.members) \in Nat
    BY <1>1, <2>2, TypesFinite
  <2> QED
    BY <1>1, <1>2, <2>2, <2>3 DEF CaptureWork, GroupWork
<1>7. CASE CaptureBuilds
  <2>1. PICK t \in capture.members :
            capture' = [capture EXCEPT !.members = @ \ {t}, !.parts = @ \cup Made(t)]
    BY <1>7, Zenon DEF CaptureBuilds
  <2>2. /\ capture.pc = "build" /\ capture'.pc = "build" /\ capture'.i = capture.i
        /\ capture'.members = capture.members \ {t}
    BY <1>7, <2>1 DEF CaptureBuilds, CaptureStates
  <2>3. Cardinality(capture'.members) < m /\ Cardinality(capture'.members) \in Nat
    BY <1>1, <2>2, TypesFinite
  <2> QED
    BY <1>1, <1>2, <2>2, <2>3 DEF CaptureWork, GroupWork
<1>8. CASE GroupFoundOff \/ CapturePushes \/ CaptureHasNothing
  BY <1>8, NextGroupLess DEF GroupFoundOff, CapturePushes, CaptureHasNothing
<1> QED
  BY <1>3, <1>4, <1>5, <1>6, <1>7, <1>8 DEF CaptureStep

\* A pop takes one frame from one queue.
LEMMA PopLess ==
    ASSUME queue \in [Groups -> 0..QueueSize], NEW g \in Groups, Pops(g)
    PROVE  queue'["visual_2d"] + queue'["visual_3d"] + queue'["sensor_data"]
              = queue["visual_2d"] + queue["visual_3d"] + queue["sensor_data"] - 1
<1>1. queue["visual_2d"] \in Nat /\ queue["visual_3d"] \in Nat /\ queue["sensor_data"] \in Nat
  BY NodeAssumption DEF Groups
<1>2. \A h \in Groups : queue'[h] = IF h = g THEN queue[h] - 1 ELSE queue[h]
  BY DEF Pops
<1> QED
  BY <1>1, <1>2 DEF Groups

LEMMA MainWorkTyped ==
    ASSUME NodeOwnTypes
    PROVE  MainWork \in Nat /\ MainWork <= 3 * QueueSize + 5
           /\ (main.pc = "drain" => MainWork >= 2 /\ MainWork <= 3 * QueueSize + 4)
<1>1. /\ queue["visual_2d"] \in 0..QueueSize /\ queue["visual_3d"] \in 0..QueueSize
      /\ queue["sensor_data"] \in 0..QueueSize /\ main.i \in 1..3 /\ QueueSize \in Nat
  BY NodeAssumption, OrderOfGroups DEF NodeOwnTypes, MainStates, Groups
<1> QED
  BY <1>1 DEF MainWork

\* A step that leaves main where it is and adds to no queue.
LEMMA MainWorkKept ==
    ASSUME NodeOwnTypes, queue' \in [Groups -> 0..QueueSize], main' = main,
           main.pc = "drain" => \A g \in Groups : queue'[g] <= queue[g]
    PROVE  MainWork' <= MainWork /\ MainWork' \in Nat
<1>1. /\ queue["visual_2d"] \in Nat /\ queue["visual_3d"] \in Nat
      /\ queue["sensor_data"] \in Nat /\ main.i \in 1..3 /\ QueueSize \in Nat
      /\ queue'["visual_2d"] \in Nat /\ queue'["visual_3d"] \in Nat
      /\ queue'["sensor_data"] \in Nat
  BY NodeAssumption, OrderOfGroups DEF NodeOwnTypes, MainStates, Groups
<1>2. main.pc = "drain" =>
          /\ queue'["visual_2d"] <= queue["visual_2d"]
          /\ queue'["visual_3d"] <= queue["visual_3d"]
          /\ queue'["sensor_data"] <= queue["sensor_data"]
  BY DEF Groups
<1> QED
  BY <1>1, <1>2 DEF MainWork

LEMMA MainWorkLess ==
    ASSUME NodeOwnTypes, ShuttingDown, MainStep
    PROVE  ShuttingDown' /\ MainWork' < MainWork
<1>1. /\ MainWork \in Nat /\ QueueSize \in Nat /\ main.i \in 1..3
      /\ main.pc = "drain" => MainWork >= 2
      /\ queue \in [Groups -> 0..QueueSize] /\ GroupOrder[main.i] \in Groups
  BY MainWorkTyped, NodeAssumption, OrderOfGroups DEF NodeOwnTypes, MainStates
<1>2. CASE MainStopsEngine
  BY <1>2 DEF MainStopsEngine, ShuttingDown
<1>3. CASE MainJoinsCapture
  <2>1. main.pc = "join" /\ main'.pc = "drain" /\ main'.i = 1 /\ queue' = queue
    BY <1>3 DEF MainJoinsCapture, MainAt
  <2>2. /\ queue["visual_2d"] \in 0..QueueSize /\ queue["visual_3d"] \in 0..QueueSize
        /\ queue["sensor_data"] \in 0..QueueSize
    BY <1>1 DEF Groups
  <2>3. /\ MainWork = 3 * QueueSize + 5
        /\ MainWork' = queue["visual_2d"] + queue["visual_3d"] + queue["sensor_data"] + (5 - 1)
    BY <2>1 DEF MainWork
  <2> QED
    BY <1>1, <2>1, <2>2, <2>3 DEF ShuttingDown
<1>4. CASE MainDrains
  <2>1. main.pc = "drain" /\ main' = main /\ Pops(GroupOrder[main.i])
    BY <1>4 DEF MainDrains
  <2>2. /\ queue["visual_2d"] \in Nat /\ queue["visual_3d"] \in Nat
        /\ queue["sensor_data"] \in Nat
    BY <1>1 DEF Groups
  <2>3. queue'["visual_2d"] + queue'["visual_3d"] + queue'["sensor_data"]
           = queue["visual_2d"] + queue["visual_3d"] + queue["sensor_data"] - 1
    BY <1>1, <2>1, PopLess
  <2> QED
    BY <1>1, <2>1, <2>2, <2>3 DEF MainWork, ShuttingDown
<1>5. CASE MainMovesOn
  <2>1. main.pc = "drain" /\ queue' = queue
    BY <1>5 DEF MainMovesOn
  <2>2. CASE main.i < 3
    <3>1. main'.pc = "drain" /\ main'.i = main.i + 1
      BY <1>5, <2>2, OrderOfGroups DEF MainMovesOn, MainAt
    <3>2. /\ queue["visual_2d"] \in Nat /\ queue["visual_3d"] \in Nat
          /\ queue["sensor_data"] \in Nat
      BY <1>1 DEF Groups
    <3> QED
      BY <1>1, <2>1, <3>1, <3>2 DEF MainWork, ShuttingDown
  <2>3. CASE ~(main.i < 3)
    <3>1. main'.pc = "publisher"
      BY <1>5, <2>3, OrderOfGroups DEF MainMovesOn, MainAt
    <3>2. MainWork' = 1
      BY <3>1 DEF MainWork
    <3> QED
      BY <1>1, <2>1, <3>1, <3>2 DEF ShuttingDown
  <2> QED
    BY <2>2, <2>3
<1>6. CASE MainStopsPublisher
  <2>1. main.pc = "publisher" /\ main'.pc = "done"
    BY <1>6 DEF MainStopsPublisher, MainAt
  <2> QED
    BY <2>1 DEF MainWork, ShuttingDown
<1> QED
  BY <1>2, <1>3, <1>4, <1>5, <1>6 DEF MainStep

\* The capture thread has been told to end.
EngineTold == ShuttingDown => ~engineOn

LEMMA EngineToldStep ==
    ASSUME EngineTold, [NodeNext]_nodeVars
    PROVE  EngineTold'
<1>1. CASE UNCHANGED <<engineOn, main>>
  BY <1>1 DEF EngineTold, ShuttingDown
<1>2. CASE CaptureStep
  BY <1>1, <1>2, Zenon DEF CaptureStep, CaptureTick, CaptureEnds, GroupFoundOn,
     GroupTestsOn, GroupFoundOff, CaptureBuilds, CapturePushes, CaptureHasNothing
<1>3. ASSUME NEW w \in Workers, WorkerStep(w)
      PROVE  EngineTold'
  BY <1>1, <1>3 DEF WorkerStep, DrainPops, DrainMovesOn, CommandRuns
<1>4. ASSUME NEW g \in Groups, PublisherTakes(g)
      PROVE  EngineTold'
  BY <1>1, <1>4 DEF PublisherTakes
<1>5. CASE MainStopsServer
  BY <1>5 DEF MainStopsServer, MainAt, EngineTold, ShuttingDown
<1>6. CASE MainStep
  <2>1. CASE MainStopsEngine
    BY <2>1 DEF MainStopsEngine, EngineTold
  <2>2. CASE MainJoinsCapture \/ MainDrains \/ MainMovesOn \/ MainStopsPublisher
    <3>1. ShuttingDown /\ engineOn' = engineOn
      BY <2>2 DEF MainJoinsCapture, MainDrains, MainMovesOn, MainStopsPublisher, ShuttingDown
    <3> QED
      BY <3>1 DEF EngineTold
  <2> QED
    BY <1>6, <2>1, <2>2 DEF MainStep
<1>7. CASE UNCHANGED nodeVars
  BY <1>1, <1>7 DEF nodeVars
<1> QED
  BY <1>2, <1>3, <1>4, <1>5, <1>6, <1>7 DEF NodeNext

\* Sums of two parts that do not grow.
LEMMA SumsDescend ==
    \A a, b, c, d \in Nat :
        /\ c <= a /\ d <= b => c + d <= a + b
        /\ (c < a /\ d <= b) \/ (c <= a /\ d < b) => c + d < a + b /\ c + d <= a + b
  OBVIOUS

\* What is left to do is a number.
WorkIsNumber == MainWork \in Nat /\ CaptureWork \in Nat

LEMMA DescendsStep ==
    ASSUME NodeOwnTypes, NodeOwnTypes', WorkIsNumber, WorkIsNumber',
           ShutdownInv, EngineTold, [NodeNext]_nodeVars, ShuttingDown
    PROVE  /\ ShuttingDown' /\ MainWork' + CaptureWork' <= MainWork + CaptureWork
           /\ MainStep \/ CaptureStep => MainWork' + CaptureWork' < MainWork + CaptureWork
<1>1. /\ capture \in CaptureStates
      /\ queue \in [Groups -> 0..QueueSize] /\ queue' \in [Groups -> 0..QueueSize]
      /\ queue' = queue => \A g \in Groups : queue'[g] <= queue[g]
  BY NodeAssumption DEF NodeOwnTypes
<1>2. /\ MainWork \in Nat /\ CaptureWork \in Nat /\ MainWork' \in Nat /\ CaptureWork' \in Nat
  BY DEF WorkIsNumber
<1>3. CASE CaptureStep
  <2>1. main' = main /\ capture.pc # "done"
    <3>1. capture.pc \in {"tick", "group", "build"} /\ main' = main
      BY <1>3, Zenon
         DEF CaptureStep, CaptureTick, CaptureEnds, GroupFoundOn, GroupTestsOn,
             GroupFoundOff, CaptureBuilds, CapturePushes, CaptureHasNothing
    <3> QED
      BY <3>1
  <2>2. main.pc = "join"
    BY <2>1 DEF ShutdownInv, ShuttingDown
  <2>3. CaptureWork' < CaptureWork
    BY <1>1, <1>3, CaptureWorkLess DEF EngineTold
  <2>4. MainWork' <= MainWork /\ ShuttingDown'
    BY <1>1, <2>1, <2>2, MainWorkKept DEF ShuttingDown
  <2> QED
    BY <1>2, <2>3, <2>4, SumsDescend, Zenon
<1>4. CASE MainStep
  <2>1. capture' = capture
    BY <1>4 DEF MainStep, MainStopsEngine, MainJoinsCapture, MainDrains, MainMovesOn,
       MainStopsPublisher
  <2>2. CaptureWork' = CaptureWork
    BY <2>1 DEF CaptureWork, GroupWork
  <2> QED
    <3>1. ShuttingDown' /\ MainWork' < MainWork
      BY <1>4, MainWorkLess
    <3>2. CaptureWork' <= CaptureWork
      BY <1>2, <2>2
    <3> QED
      BY <1>2, <3>1, <3>2, SumsDescend, Zenon
<1>5. ASSUME UNCHANGED <<capture, main>>, \A g \in Groups : queue'[g] <= queue[g]
      PROVE  /\ ShuttingDown' /\ MainWork' + CaptureWork' <= MainWork + CaptureWork
  <2>1. CaptureWork' = CaptureWork /\ ShuttingDown'
    BY <1>5 DEF CaptureWork, GroupWork, ShuttingDown
  <2>2. MainWork' <= MainWork
    BY <1>1, <1>5, MainWorkKept
  <2>3. CaptureWork' <= CaptureWork
    BY <1>2, <2>1
  <2> QED
    BY <1>2, <2>1, <2>2, <2>3, SumsDescend, Zenon
<1>6. CASE ~MainStep /\ ~CaptureStep
  <2>1. ~MainStopsServer
    BY DEF MainStopsServer, ShuttingDown
  <2>2. CASE UNCHANGED nodeVars
    BY <1>1, <1>5, <1>6, <2>2 DEF nodeVars
  <2>3. ASSUME NEW w \in Workers, WorkerStep(w)
        PROVE  UNCHANGED <<capture, main>> /\ \A g \in Groups : queue'[g] <= queue[g]
    <3>1. CASE DrainPops(w)
      BY <1>1, <3>1, PopTakes DEF DrainPops
    <3>2. CASE DrainMovesOn(w) \/ CommandRuns(w)
      BY <1>1, <3>2 DEF DrainMovesOn, CommandRuns
    <3> QED
      BY <2>3, <3>1, <3>2 DEF WorkerStep
  <2>4. ASSUME NEW g \in Groups, PublisherTakes(g)
        PROVE  UNCHANGED <<capture, main>> /\ \A h \in Groups : queue'[h] <= queue[h]
    BY <1>1, <2>4, PopTakes DEF PublisherTakes
  <2> QED
    BY <1>5, <1>6, <2>1, <2>2, <2>3, <2>4 DEF NodeNext
<1> QED
  BY <1>3, <1>4, <1>6

\* The shutdown of main cannot go on for ever: what is left to do is a number
\* that every step of main and of the capture thread makes smaller and that no
\* other thread makes larger.
THEOREM ShutdownIsFinite == NodeSpec => ShutdownHasNoLoop
<1>1. NodeInit => ShutdownInv /\ EngineTold
  BY DEF NodeInit, MainAt, ShutdownInv, NothingLeft, EngineTold, ShuttingDown
<1>2. /\ NodeTypeOK => NodeOwnTypes
      /\ NodeOwnTypes => WorkIsNumber
  BY MainWorkTyped, CaptureWorkTyped DEF NodeTypeOK, NodeOwnTypes, WorkIsNumber
<1>3. /\ ShutdownInv /\ NodeOwnTypes /\ [NodeNext]_nodeVars => ShutdownInv'
      /\ EngineTold /\ [NodeNext]_nodeVars => EngineTold'
  BY ShutdownStep, EngineToldStep
<1>4. /\ NodeOwnTypes /\ NodeOwnTypes' /\ WorkIsNumber /\ WorkIsNumber'
      /\ ShutdownInv /\ EngineTold /\ [NodeNext]_nodeVars
      => ShutdownDescends
  BY DescendsStep DEF ShutdownDescends
<1> QED
  BY <1>1, <1>2, <1>3, <1>4, NodeTypeCorrect, PTL DEF NodeSpec, ShutdownHasNoLoop
=============================================================================
