------------------------ MODULE CommandHandlerProofs ------------------------
(***************************************************************************)
(* The subscriber counts of ChannelManager are exact for every finite set  *)
(* of clients and every set of data types.  The commands of any number of  *)
(* workers, interleaved between the locked calls they make, change the     *)
(* channel state one ChannelManager method at a time: so the counts stay   *)
(* exact.  With clients that wait for their answers only connected clients *)
(* have subscriptions.                                                     *)
(***************************************************************************)
EXTENDS CommandHandler, FiniteSetTheorems, TLAPS

-----------------------------------------------------------------------------
(* The channel state alone.  Type correctness needs no other invariant.     *)

LEMMA ChannelTypeInit == ChannelInit => ChannelTypeOK
  BY DEF ChannelInit, ChannelTypeOK

LEMMA DecrementedIsNat == \A n \in Nat : Decremented(n) \in Nat
  BY DEF Decremented

LEMMA ChannelTypeStep ==
    ASSUME ChannelTypeOK, [ChannelNext]_channelVars
    PROVE  ChannelTypeOK'
<1> USE DEF ChannelTypeOK
<1>1. ASSUME NEW c \in Clients, NEW types \in SUBSET DataTypes,
             ChannelStart(c, types)
      PROVE  ChannelTypeOK'
  BY <1>1 DEF ChannelStart
<1>2. ASSUME NEW c \in Clients, NEW types \in SUBSET DataTypes,
             ChannelStop(c, types)
      PROVE  ChannelTypeOK'
  BY <1>2, DecrementedIsNat DEF ChannelStop
<1>3. ASSUME NEW c \in Clients, ChannelDisconnect(c)
      PROVE  ChannelTypeOK'
  BY <1>3, DecrementedIsNat DEF ChannelDisconnect
<1>4. ASSUME NEW t \in DataTypes, ChannelActivate(t) \/ ChannelDeactivate(t)
      PROVE  ChannelTypeOK'
  BY <1>4 DEF ChannelActivate, ChannelDeactivate
<1>5. CASE UNCHANGED channelVars
  BY <1>5 DEF channelVars
<1> QED
  BY <1>1, <1>2, <1>3, <1>4, <1>5 DEF ChannelNext

\* Every method keeps the maps well formed, and a client whose entry is erased
\* keeps no subscription.
THEOREM ChannelTypeCorrect == ChannelSpec => []ChannelTypeOK
  BY ChannelTypeInit, ChannelTypeStep, PTL DEF ChannelSpec

-----------------------------------------------------------------------------
(* The counts.  A step changes the subscribers of a type by at most the one *)
(* client it is for.                                                        *)

LEMMA SubscribersFinite ==
    ASSUME IsFiniteSet(Clients), NEW t
    PROVE  /\ IsFiniteSet(Subscribers(t))
           /\ Cardinality(Subscribers(t)) \in Nat
<1>1. IsFiniteSet(Subscribers(t))
  BY FS_Subset DEF Subscribers
<1> QED
  BY <1>1, FS_CardinalityType

\* The arithmetic of one client joining, leaving or neither.
LEMMA OneClientMoves ==
    ASSUME IsFiniteSet(Clients), ChannelTypeOK, ChannelTypeOK', RefcountExact,
           NEW c \in Clients, NEW t \in DataTypes,
           \A d \in Clients \ {c} : t \in subs'[d] <=> t \in subs[d],
           count'[t] = IF t \in subs'[c] /\ t \notin subs[c] THEN count[t] + 1
                       ELSE IF t \in subs[c] /\ t \notin subs'[c]
                            THEN Decremented(count[t])
                            ELSE count[t]
    PROVE  count'[t] = Cardinality(Subscribers(t)')
<1> DEFINE S == Subscribers(t)
           T == Subscribers(t)'
<1>1. /\ IsFiniteSet(S) /\ Cardinality(S) \in Nat /\ count[t] = Cardinality(S)
  BY SubscribersFinite DEF RefcountExact
<1>2. c \in S <=> t \in subs[c]
  BY DEF Subscribers
<1>3. c \in T <=> t \in subs'[c]
  BY DEF Subscribers
<1>4. \A d : d # c => (d \in T <=> d \in S)
  BY DEF Subscribers
<1> HIDE DEF S, T
<1>5. CASE c \in T /\ c \notin S
  <2>1. T = S \cup {c}
    BY <1>4, <1>5
  <2>2. Cardinality(T) = Cardinality(S) + 1
    BY <1>1, <1>5, <2>1, FS_AddElement
  <2> QED
    BY <1>1, <1>2, <1>3, <1>5, <2>2 DEF T
<1>6. CASE c \in S /\ c \notin T
  <2>1. T = S \ {c}
    BY <1>4, <1>6
  <2>2. Cardinality(T) = Cardinality(S) - 1
    BY <1>1, <1>6, <2>1, FS_RemoveElement
  <2>3. Cardinality(S) # 0
    BY <1>1, <1>6, FS_EmptySet
  <2>4. Decremented(count[t]) = Cardinality(S) - 1
    BY <1>1, <2>3 DEF Decremented
  <2>5. count'[t] = Decremented(count[t])
    BY <1>2, <1>3, <1>6
  <2> QED
    BY <2>2, <2>4, <2>5 DEF T
<1>7. CASE c \in S <=> c \in T
  <2>0. \A d : d \in T <=> d \in S
    BY <1>4, <1>7
  <2>1. T = S
    BY <2>0 DEF S, T, Subscribers
  <2> QED
    BY <1>1, <1>2, <1>3, <1>7, <2>1 DEF T
<1> QED
  BY <1>5, <1>6, <1>7

LEMMA RefcountInit ==
    ASSUME ChannelInit
    PROVE  RefcountExact
<1> SUFFICES ASSUME NEW t \in DataTypes
             PROVE  count[t] = Cardinality(Subscribers(t))
  BY DEF RefcountExact
<1>1. Subscribers(t) = {}
  BY DEF ChannelInit, Subscribers
<1> QED
  BY <1>1, FS_EmptySet DEF ChannelInit

LEMMA RefcountStep ==
    ASSUME IsFiniteSet(Clients), ChannelTypeOK, RefcountExact,
           [ChannelNext]_channelVars
    PROVE  RefcountExact'
<1>1. ChannelTypeOK'
  BY ChannelTypeStep
<1>2. ASSUME NEW c \in Clients, NEW types \in SUBSET DataTypes,
             ChannelStart(c, types) \/ ChannelStop(c, types) \/ ChannelDisconnect(c)
      PROVE  RefcountExact'
  <2> SUFFICES ASSUME NEW t \in DataTypes
               PROVE  count'[t] = Cardinality(Subscribers(t)')
    BY DEF RefcountExact
  <2>1. \A d \in Clients \ {c} : t \in subs'[d] <=> t \in subs[d]
    BY <1>2 DEF ChannelTypeOK, ChannelStart, ChannelStop, ChannelDisconnect
  <2>2. count'[t] = IF t \in subs'[c] /\ t \notin subs[c] THEN count[t] + 1
                    ELSE IF t \in subs[c] /\ t \notin subs'[c]
                         THEN Decremented(count[t])
                         ELSE count[t]
    BY <1>2 DEF ChannelTypeOK, ChannelStart, ChannelStop, ChannelDisconnect
  <2> QED
    BY <1>1, <2>1, <2>2, OneClientMoves
<1>3. ASSUME UNCHANGED <<subs, count>>
      PROVE  RefcountExact'
  BY <1>3 DEF RefcountExact, Subscribers
<1>4. ASSUME NEW t \in DataTypes, ChannelActivate(t) \/ ChannelDeactivate(t)
      PROVE  UNCHANGED <<subs, count>>
  BY <1>4 DEF ChannelActivate, ChannelDeactivate
<1>5. CASE UNCHANGED channelVars
  BY <1>3, <1>5 DEF channelVars
<1> QED
  BY <1>2, <1>3, <1>4, <1>5 DEF ChannelNext

\* subscriber_count is the number of clients that hold the type, whatever
\* commands the clients send and in whatever order.
THEOREM RefcountsExact ==
    ASSUME IsFiniteSet(Clients)
    PROVE  ChannelSpec => []RefcountExact
<1>1. ChannelInit => RefcountExact
  BY RefcountInit
<1>2. ChannelTypeOK /\ RefcountExact /\ [ChannelNext]_channelVars => RefcountExact'
  BY RefcountStep
<1> QED
  BY <1>1, <1>2, ChannelTypeCorrect, PTL DEF ChannelSpec

\* A type is produced exactly when some client subscribes to it or it is
\* forced.
THEOREM ActiveExactlyWhenWanted ==
    ASSUME IsFiniteSet(Clients)
    PROVE  ChannelSpec => []ActiveIffWanted
<1>1. ASSUME RefcountExact
      PROVE  ActiveIffWanted
  <2> SUFFICES ASSUME NEW t \in DataTypes
               PROVE  IsActive(t) <=> (Subscribers(t) # {} \/ t \in forced)
    BY DEF ActiveIffWanted
  <2>1. /\ IsFiniteSet(Subscribers(t)) /\ Cardinality(Subscribers(t)) \in Nat
        /\ count[t] = Cardinality(Subscribers(t))
    BY <1>1, SubscribersFinite DEF RefcountExact
  <2>2. Cardinality(Subscribers(t)) = 0 <=> Subscribers(t) = {}
    BY <2>1, FS_EmptySet
  <2> QED
    BY <2>1, <2>2 DEF IsActive
<1>2. RefcountExact => ActiveIffWanted
  BY <1>1
<1> QED
  BY <1>2, RefcountsExact, PTL

-----------------------------------------------------------------------------
(* The commands.                                                            *)

\* The groups of the types in use.
LEMMA GroupOfType == \A t \in DataTypes : DataTypeToGroup[t] \in Groups
  BY DEF DataTypeToGroup, Groups

\* The locals of a call, and what each field of them is.
LEMMA LocalsTyped ==
    ASSUME NEW pc \in {"idle", "insert", "release", "start", "last", "group"},
           NEW c \in Clients \cup {NoClient},
           NEW types \in SUBSET DataTypes, NEW members \in SUBSET DataTypes
    PROVE  LET r == Locals(pc, c, types, members)
           IN  r \in WorkerStates /\ r.pc = pc /\ r.client = c /\ r.types = types
  BY DEF Locals, WorkerStates

LEMMA IdleTyped ==
    Idle \in WorkerStates /\ Idle.pc = "idle" /\ Idle.client = NoClient
  BY DEF Idle, Locals, WorkerStates

LEMMA CommandTypeInit == CommandInit => CommandTypeOK
  BY ChannelTypeInit, IdleTyped DEF CommandInit, CommandTypeOK

\* A call with a client and types is a step of ChannelManager.
LEMMA ChannelCall ==
    ASSUME NEW c \in Clients, NEW types \in SUBSET DataTypes, types # {},
           \/ ChannelStart(c, types)
           \/ ChannelStop(c, types)
           \/ ChannelDisconnect(c)
    PROVE  ChannelNext
<1>1. types \in (SUBSET DataTypes) \ {{}}
  OBVIOUS
<1> QED
  BY <1>1, Zenon DEF ChannelNext

\* What the channel actions do to the channel state: one method or nothing.
ChannelStep == [ChannelNext]_channelVars

-----------------------------------------------------------------------------
(* Type correctness, and each step as a step of the channel state.          *)

\* The first steps of commands that act for a client.
LEMMA RequestStep ==
    ASSUME CommandTypeOK, NEW w \in Workers, NEW c \in Clients, Requests(w, c)
    PROVE  CommandTypeOK' /\ ChannelStep
<1> USE DEF CommandTypeOK, ChannelStep
<1>0. c # NoClient
  BY NoClientAssumption
<1>1. ASSUME UNCHANGED commandVars
      PROVE  CommandTypeOK' /\ ChannelStep
  BY <1>1 DEF commandVars, channelVars, ChannelTypeOK
<1>2. ASSUME NEW pc \in {"insert", "release", "start", "last"},
             NEW types \in SUBSET DataTypes,
             pc = "start" => types # {},
             Begin(w, c, types, pc),
             UNCHANGED <<sessions, unflushed>>, ChannelStep
      PROVE  CommandTypeOK' /\ ChannelStep
  <2> DEFINE r == Locals(pc, c, types, {})
  <2>1. r \in WorkerStates /\ r.pc = pc /\ r.client = c /\ r.types = types
    BY LocalsTyped
  <2> HIDE DEF r
  <2>2. worker' = [worker EXCEPT ![w] = r]
    BY <1>2 DEF Begin, r
  <2>3. ChannelTypeOK'
    BY <1>2, ChannelTypeStep
  <2>4. worker' \in [Workers -> WorkerStates]
    BY <2>1, <2>2
  <2>5. /\ worker'[w] = r
        /\ \A v \in Workers \ {w} : worker'[v] = worker[v]
    BY <2>2
  <2>6. r.client # NoClient /\ r.pc \notin {"idle", "group"}
        /\ (r.pc = "start" => r.types # {})
    BY <1>0, <1>2, <2>1
  <2>7. ASSUME NEW v \in Workers
        PROVE  /\ worker'[v].pc \in {"insert", "release", "forget", "start"} =>
                     worker'[v].client # NoClient
               /\ worker'[v].pc \in {"start", "group"} => worker'[v].types # {}
               /\ worker'[v].pc \in {"idle", "group"} =>
                     worker'[v].client = NoClient
    BY <2>5, <2>6
  <2> QED
    BY <1>2, <2>3, <2>4, <2>7
<1>3. CASE ConnectNew(w, c)
  BY <1>2, <1>3 DEF ConnectNew, channelVars
<1>4. CASE DisconnectBegin(w, c)
  BY <1>2, <1>4 DEF DisconnectBegin, channelVars
<1>5. ASSUME NEW types \in SUBSET DataTypes, StartBegin(w, c, types)
      PROVE  CommandTypeOK' /\ ChannelStep
  BY <1>2, <1>5 DEF StartBegin, channelVars
<1>6. ASSUME NEW types \in SUBSET DataTypes, StopBegin(w, c, types)
      PROVE  CommandTypeOK' /\ ChannelStep
  <2>1. ChannelStep
    BY <1>6, ChannelCall DEF StopBegin
  <2> QED
    BY <1>2, <1>6, <2>1 DEF StopBegin
<1>7. CASE \/ ConnectTwice(w, c) \/ DisconnectRefused(w, c) \/ StartRefused(w, c)
           \/ \E types \in SUBSET DataTypes :
                 StartInvalid(w, c, types) \/ StopInvalid(w, c, types)
  BY <1>1, <1>7 DEF ConnectTwice, DisconnectRefused, StartRefused, StartInvalid,
                    StopInvalid, Refuse
<1> QED
  BY <1>3, <1>4, <1>5, <1>6, <1>7 DEF Requests

\* A worker that goes back to idle, or on within a command, stays typed.
LEMMA WorkerTyped ==
    ASSUME CommandTypeOK, NEW w \in Workers, NEW r \in WorkerStates,
           worker' = [worker EXCEPT ![w] = r],
           ChannelTypeOK', sessions' \subseteq Clients, unflushed' \subseteq Groups,
           r.pc \in {"insert", "release", "forget", "start"} => r.client # NoClient,
           r.pc \in {"start", "group"} => r.types # {},
           r.pc \in {"idle", "group"} => r.client = NoClient
    PROVE  CommandTypeOK'
<1>1. /\ worker' \in [Workers -> WorkerStates]
      /\ worker'[w] = r
      /\ \A v \in Workers \ {w} : worker'[v] = worker[v]
  BY DEF CommandTypeOK
<1> QED
  BY <1>1 DEF CommandTypeOK

\* The steps that end a command.
LEMMA FinishTyped ==
    ASSUME CommandTypeOK, NEW w \in Workers, Finish(w), ChannelTypeOK',
           sessions' \subseteq Clients, unflushed' \subseteq Groups
    PROVE  CommandTypeOK'
<1>1. /\ Idle \in WorkerStates
      /\ Idle.pc \notin {"insert", "release", "forget", "start", "group"}
      /\ Idle.client = NoClient
  BY IdleTyped
<1>2. worker' = [worker EXCEPT ![w] = Idle]
  BY DEF Finish
<1> QED
  BY <1>1, <1>2, WorkerTyped, IdleTyped

\* The calls made on behalf of a client that reach ChannelManager.
LEMMA ContinueStep ==
    ASSUME CommandTypeOK, NEW w \in Workers, Continue(w)
    PROVE  CommandTypeOK' /\ ChannelStep
<1> DEFINE r == worker[w]
<1>1. /\ ChannelTypeOK /\ sessions \subseteq Clients /\ unflushed \subseteq Groups
      /\ worker \in [Workers -> WorkerStates]
      /\ r \in WorkerStates
      /\ r.client \in Clients \cup {NoClient} /\ r.types \in SUBSET DataTypes
      /\ r.pc \in {"insert", "release", "forget", "start"} => r.client \in Clients
      /\ r.pc \in {"start", "group"} => r.types # {}
      /\ r.pc \in {"idle", "group"} => r.client = NoClient
  BY DEF CommandTypeOK, WorkerStates
<1>2. ASSUME UNCHANGED channelVars
      PROVE  ChannelTypeOK' /\ ChannelStep
  BY <1>1, <1>2 DEF channelVars, ChannelTypeOK, ChannelStep
<1>3. ASSUME ChannelNext
      PROVE  ChannelTypeOK' /\ ChannelStep
  BY <1>1, <1>3, ChannelTypeStep DEF ChannelStep
<1>4. CASE ConnectInsert(w)
  BY <1>1, <1>2, <1>4, FinishTyped DEF ConnectInsert
<1>5. CASE DisconnectRelease(w)
  <2>1. ChannelNext
    BY <1>1, <1>5 DEF DisconnectRelease, ChannelNext
  <2>2. /\ [r EXCEPT !.pc = "forget"] \in WorkerStates
        /\ [r EXCEPT !.pc = "forget"].pc = "forget"
        /\ [r EXCEPT !.pc = "forget"].client = r.client
    BY <1>1 DEF WorkerStates
  <2>3. worker' = [worker EXCEPT ![w] = [r EXCEPT !.pc = "forget"]]
    BY <1>1, <1>5 DEF DisconnectRelease, Goto
  <2>4. r.client # NoClient /\ UNCHANGED <<sessions, unflushed>>
    BY <1>1, <1>5, NoClientAssumption DEF DisconnectRelease
  <2> QED
    BY <1>1, <1>3, <2>1, <2>2, <2>3, <2>4, WorkerTyped
<1>6. CASE DisconnectForget(w)
  <2>1. /\ [r EXCEPT !.pc = "last"] \in WorkerStates
        /\ [r EXCEPT !.pc = "last"].pc = "last"
    BY <1>1 DEF WorkerStates
  <2>2. worker' = [worker EXCEPT ![w] = [r EXCEPT !.pc = "last"]]
    BY <1>1, <1>6 DEF DisconnectForget, Goto
  <2>3. /\ UNCHANGED channelVars /\ unflushed' = unflushed
        /\ sessions' \subseteq sessions
    BY <1>6 DEF DisconnectForget
  <2> QED
    BY <1>1, <1>2, <2>1, <2>2, <2>3, WorkerTyped
<1>7. CASE StartSubscribe(w)
  <2>1. ChannelNext
    BY <1>1, <1>7, ChannelCall DEF StartSubscribe
  <2>2. unflushed' \subseteq Groups
    BY <1>1, <1>7, GroupOfType DEF StartSubscribe
  <2> QED
    BY <1>1, <1>3, <1>7, <2>1, <2>2, FinishTyped DEF StartSubscribe
<1>8. CASE LastTestOthers(w) \/ GroupTestActive(w)
  BY <1>1, <1>2, <1>8, FinishTyped DEF LastTestOthers, GroupTestActive
<1>9. CASE LastTestNone(w)
  <2> DEFINE s == [r EXCEPT !.pc = "drain", !.todo = GroupOrder \o GroupOrder]
  <2>1. GroupOrder \o GroupOrder \in Seq(Groups)
    BY DEF GroupOrder, Groups
  <2>2. s \in WorkerStates /\ s.pc = "drain"
    BY <1>1, <2>1 DEF WorkerStates
  <2>3. worker' = [worker EXCEPT ![w] = s] /\ UNCHANGED <<channelVars, sessions, unflushed>>
    BY <1>1, <1>9 DEF LastTestNone
  <2> QED
    BY <1>1, <1>2, <2>2, <2>3, WorkerTyped
<1>10. CASE DrainNext(w)
  <2> DEFINE s == [r EXCEPT !.todo = Tail(@)]
  <2>0. r.pc = "drain" /\ r.todo \in Seq(Groups) /\ Len(r.todo) > 1
    BY <1>1, <1>10 DEF DrainNext, WorkerStates
  <2>1. Tail(r.todo) \in Seq(Groups)
    BY <2>0
  <2>2. s \in WorkerStates /\ s.pc = "drain"
    BY <1>1, <2>0, <2>1 DEF WorkerStates
  <2>3. /\ worker' = [worker EXCEPT ![w] = s]
        /\ UNCHANGED <<channelVars, sessions>> /\ unflushed' \subseteq unflushed
    BY <1>1, <1>10 DEF DrainNext, DrainGroup
  <2> QED
    BY <1>1, <1>2, <2>2, <2>3, WorkerTyped
<1>11. CASE DrainLast(w)
  <2>1. UNCHANGED <<channelVars, sessions>> /\ unflushed' \subseteq unflushed
    BY <1>11 DEF DrainLast, DrainGroup
  <2> QED
    BY <1>1, <1>2, <1>11, <2>1, FinishTyped DEF DrainLast
<1>12. CASE GroupTestInactive(w)
  <2>1. PICK t : worker' = [worker EXCEPT ![w].members = @ \ {t}]
    BY <1>12 DEF GroupTestInactive
  <2> DEFINE s == [r EXCEPT !.members = @ \ {t}]
  <2>2. /\ s \in WorkerStates /\ s.pc = "group" /\ s.client = NoClient
        /\ s.types # {}
    BY <1>1, <1>12 DEF WorkerStates, GroupTestInactive
  <2>3. worker' = [worker EXCEPT ![w] = s] /\ UNCHANGED <<channelVars, sessions, unflushed>>
    BY <1>1, <1>12, <2>1 DEF GroupTestInactive
  <2> QED
    BY <1>1, <1>2, <2>2, <2>3, WorkerTyped
<1>13. CASE GroupTestDone(w)
  <2>0. r.types # {}
    BY <1>1, <1>13 DEF GroupTestDone
  <2> DEFINE d == <<DataTypeToGroup[CHOOSE t \in r.types : TRUE]>>
  <2>1. d \in Seq(Groups)
    <3>1. PICK t \in r.types : t = CHOOSE x \in r.types : TRUE
      BY <2>0
    <3>2. DataTypeToGroup[t] \in Groups
      BY <1>1, <2>0, GroupOfType
    <3> QED
      BY <3>1, <3>2
  <2>2. /\ worker' = [worker EXCEPT ![w].pc = "drain", ![w].todo = d]
        /\ UNCHANGED <<channelVars, sessions, unflushed>>
    BY <1>13 DEF GroupTestDone
  <2> HIDE DEF d
  <2> DEFINE s == [r EXCEPT !.pc = "drain", !.todo = d]
  <2>3. s \in WorkerStates /\ s.pc = "drain"
    BY <1>1, <2>1 DEF WorkerStates
  <2>4. worker' = [worker EXCEPT ![w] = s]
    BY <2>2
  <2> HIDE DEF s
  <2> QED
    BY <1>1, <1>2, <2>2, <2>3, <2>4, WorkerTyped
<1> QED
  BY <1>4, <1>5, <1>6, <1>7, <1>8, <1>9, <1>10, <1>11, <1>12, <1>13 DEF Continue

\* activate_channel, deactivate_channel and what changes nothing.
LEMMA ChannelRequestStep ==
    ASSUME CommandTypeOK, NEW w \in Workers,
           (\E t \in DataTypes : ChannelRequests(w, t)) \/ Other(w)
    PROVE  CommandTypeOK' /\ ChannelStep
<1>1. ASSUME NEW t \in DataTypes, Activate(w, t)
      PROVE  CommandTypeOK' /\ ChannelStep
  <2>1. ChannelNext
    BY <1>1, Zenon DEF Activate, ChannelNext
  <2>2. ChannelTypeOK'
    BY <2>1, ChannelTypeStep DEF CommandTypeOK
  <2> QED
    BY <1>1, <2>1, <2>2, GroupOfType DEF Activate, CommandTypeOK, ChannelStep
<1>2. ASSUME NEW t \in DataTypes, DeactivateBegin(w, t)
      PROVE  CommandTypeOK' /\ ChannelStep
  <2>1. ChannelNext
    BY <1>2, Zenon DEF DeactivateBegin, ChannelNext
  <2>2. ChannelTypeOK'
    BY <2>1, ChannelTypeStep DEF CommandTypeOK
  <2> DEFINE members == GroupMembers(DataTypeToGroup[t])
             r == Locals("group", NoClient, {t}, members)
  <2>3. members \in SUBSET DataTypes /\ {t} \in SUBSET DataTypes
    BY DEF GroupMembers
  <2> HIDE DEF members
  <2>4. r \in WorkerStates /\ r.pc = "group" /\ r.client = NoClient /\ r.types = {t}
    BY <2>3 DEF Locals, WorkerStates
  <2> HIDE DEF r
  <2>5. worker' = [worker EXCEPT ![w] = r] /\ UNCHANGED <<sessions, unflushed>>
    BY <1>2 DEF DeactivateBegin, r, members
  <2>6. sessions \subseteq Clients /\ unflushed \subseteq Groups
    BY DEF CommandTypeOK
  <2> QED
    BY <2>1, <2>2, <2>4, <2>5, <2>6, WorkerTyped DEF ChannelStep
<1>3. CASE Other(w)
  BY <1>3 DEF Other, Refuse, commandVars, channelVars, CommandTypeOK,
              ChannelTypeOK, ChannelStep
<1> QED
  BY <1>1, <1>2, <1>3 DEF ChannelRequests

LEMMA CommandStep ==
    ASSUME CommandTypeOK, [CommandNext]_commandVars
    PROVE  CommandTypeOK' /\ ChannelStep
<1>1. CASE UNCHANGED commandVars
  BY <1>1 DEF commandVars, channelVars, CommandTypeOK, ChannelTypeOK, ChannelStep
<1>2. CASE CommandNext
  BY <1>2, RequestStep, ContinueStep, ChannelRequestStep DEF CommandNext
<1> QED
  BY <1>1, <1>2

-----------------------------------------------------------------------------
(* The theorems.                                                            *)

\* The workers keep their types, whatever requests arrive.
THEOREM CommandTypeCorrect == CommandSpec => []CommandTypeOK
<1>1. CommandTypeOK /\ [CommandNext]_commandVars => CommandTypeOK'
  BY CommandStep
<1> QED
  BY <1>1, CommandTypeInit, PTL DEF CommandSpec

\* The commands implement ChannelManager: each of their steps is one of its
\* methods or leaves its state alone.
LEMMA CommandsImplementChannels == CommandSpec => ChannelSpec
<1>1. CommandInit => ChannelInit
  BY DEF CommandInit
<1>2. CommandTypeOK /\ [CommandNext]_commandVars => [ChannelNext]_channelVars
  BY CommandStep DEF ChannelStep
<1> QED
  BY <1>1, <1>2, CommandTypeCorrect, PTL DEF CommandSpec, ChannelSpec

\* The counts are exact under any interleaving of the workers' commands, the
\* same client's included.
THEOREM CommandRefcounts ==
    ASSUME IsFiniteSet(Clients)
    PROVE  CommandSpec => [](RefcountExact /\ ActiveIffWanted)
  BY CommandsImplementChannels, RefcountsExact, ActiveExactlyWhenWanted, PTL

-----------------------------------------------------------------------------
(* Clients that wait for their answers.                                     *)

\* A client has one worker at most; while that worker is between the test of
\* the session and the call that relies on it, the session is still there; and
\* by the time disconnect drops it the subscriptions are gone.
SerialInv ==
    /\ \A v, w \in Workers :
          v # w /\ worker[v].client = worker[w].client => worker[v].client = NoClient
    /\ \A w \in Workers :
          /\ worker[w].pc \in {"release", "forget", "start"} =>
                worker[w].client \in sessions
          /\ worker[w].pc = "forget" => subs[worker[w].client] = {}
    /\ SubscribersAreConnected

LEMMA SerialInit == CommandInit => SerialInv
  BY IdleTyped DEF CommandInit, ChannelInit, SerialInv, SubscribersAreConnected

\* The steps that change neither sessions nor subs and leave at most worker w in
\* another place, still for the same client or for none.
LEMMA SerialMove ==
    ASSUME SerialInv, CommandTypeOK, NEW w \in Workers,
           UNCHANGED <<sessions, subs>>, NEW r \in WorkerStates,
           worker' = [worker EXCEPT ![w] = r],
           r.client = worker[w].client \/ r.client = NoClient,
           r.pc \notin {"release", "forget", "start"}
    PROVE  SerialInv'
<1>1. /\ worker'[w] = r
      /\ \A v \in Workers \ {w} : worker'[v] = worker[v]
  BY DEF CommandTypeOK
<1> QED
  BY <1>1 DEF SerialInv, SubscribersAreConnected

\* A worker takes a request of a client that has no other.
LEMMA SerialBegin ==
    ASSUME SerialInv, CommandTypeOK, OneAtATime,
           NEW w \in Workers, NEW c \in Clients, Takes(w, c),
           sessions' = sessions, NEW r \in WorkerStates,
           \A d \in Clients : subs'[d] \subseteq subs[d],
           worker' = [worker EXCEPT ![w] = r],
           r.client = c, r.pc \in {"release", "start"} => c \in sessions,
           r.pc # "forget"
    PROVE  SerialInv'
<1>1. /\ worker'[w] = r
      /\ \A v \in Workers \ {w} : worker'[v] = worker[v]
      /\ \A v \in Workers : worker[v].client # c
      /\ \A v \in Workers : worker[v].pc = "forget" => worker[v].client \in Clients
  BY DEF CommandTypeOK, WorkerStates, Takes
<1>2. \A d \in Clients : subs[d] = {} => subs'[d] = {}
  OBVIOUS
<1> QED
  BY <1>1, <1>2 DEF SerialInv, SubscribersAreConnected

\* The first steps of a request.
LEMMA SerialRequest ==
    ASSUME SerialInv, CommandTypeOK, OneAtATime,
           NEW w \in Workers, NEW c \in Clients, Requests(w, c)
    PROVE  SerialInv'
<1>1. ASSUME UNCHANGED commandVars
      PROVE  SerialInv'
  BY <1>1 DEF commandVars, SerialInv, SubscribersAreConnected
<1>2. ASSUME NEW pc \in {"insert", "release", "start", "last"},
             NEW types \in SUBSET DataTypes,
             Takes(w, c), Begin(w, c, types, pc), sessions' = sessions,
             pc \in {"release", "start"} => c \in sessions,
             \A d \in Clients : subs'[d] \subseteq subs[d]
      PROVE  SerialInv'
  <2> DEFINE r == Locals(pc, c, types, {})
  <2>1. r \in WorkerStates /\ r.pc = pc /\ r.client = c
    BY LocalsTyped
  <2> HIDE DEF r
  <2>2. worker' = [worker EXCEPT ![w] = r]
    BY <1>2 DEF Begin, r
  <2> QED
    BY <1>2, <2>1, <2>2, SerialBegin
<1>3. CASE ConnectNew(w, c)
  BY <1>2, <1>3 DEF ConnectNew, channelVars
<1>4. CASE DisconnectBegin(w, c)
  BY <1>2, <1>4 DEF DisconnectBegin, channelVars
<1>5. ASSUME NEW types \in SUBSET DataTypes, StartBegin(w, c, types)
      PROVE  SerialInv'
  BY <1>2, <1>5 DEF StartBegin, channelVars
<1>6. ASSUME NEW types \in SUBSET DataTypes, StopBegin(w, c, types)
      PROVE  SerialInv'
  <2>1. \A d \in Clients : subs'[d] \subseteq subs[d]
    BY <1>6 DEF StopBegin, ChannelStop, CommandTypeOK, ChannelTypeOK
  <2> QED
    BY <1>2, <1>6, <2>1 DEF StopBegin
<1>7. CASE \/ ConnectTwice(w, c) \/ DisconnectRefused(w, c) \/ StartRefused(w, c)
           \/ \E types \in SUBSET DataTypes :
                 StartInvalid(w, c, types) \/ StopInvalid(w, c, types)
  BY <1>1, <1>7 DEF ConnectTwice, DisconnectRefused, StartRefused, StartInvalid,
                    StopInvalid, Refuse
<1> QED
  BY <1>3, <1>4, <1>5, <1>6, <1>7 DEF Requests

\* The rest of a command.
LEMMA SerialContinue ==
    ASSUME SerialInv, CommandTypeOK, NEW w \in Workers, Continue(w)
    PROVE  SerialInv'
<1> DEFINE r == worker[w]
<1>1. /\ worker \in [Workers -> WorkerStates] /\ subs \in [Clients -> SUBSET DataTypes]
      /\ r \in WorkerStates
      /\ r.pc \in {"insert", "release", "forget", "start"} =>
            r.client \in Clients /\ r.client # NoClient
  BY DEF CommandTypeOK, ChannelTypeOK, WorkerStates
<1>2. ASSUME Finish(w)
      PROVE  /\ worker' = [worker EXCEPT ![w] = Idle]
             /\ Idle \in WorkerStates /\ Idle.client = NoClient /\ Idle.pc = "idle"
             /\ worker'[w] = Idle
             /\ \A v \in Workers \ {w} : worker'[v] = worker[v]
  BY <1>1, <1>2, IdleTyped DEF Finish
<1>3. CASE ConnectInsert(w)
  <2>1. UNCHANGED subs /\ sessions \subseteq sessions'
    BY <1>3 DEF ConnectInsert, channelVars
  <2> QED
    BY <1>2, <1>3, <2>1 DEF ConnectInsert, SerialInv, SubscribersAreConnected
<1>4. CASE DisconnectRelease(w)
  <2>1. /\ r.pc = "release" /\ sessions' = sessions
        /\ subs' = [subs EXCEPT ![r.client] = {}]
        /\ worker' = [worker EXCEPT ![w].pc = "forget"]
    BY <1>4 DEF DisconnectRelease, ChannelDisconnect, Goto
  <2>2. /\ worker'[w].pc = "forget" /\ worker'[w].client = r.client
        /\ \A v \in Workers \ {w} : worker'[v] = worker[v]
    BY <1>1, <2>1 DEF WorkerStates
  <2>3. /\ subs'[r.client] = {}
        /\ \A d \in Clients : subs'[d] \subseteq subs[d]
        /\ \A d \in Clients : subs[d] = {} => subs'[d] = {}
    BY <1>1, <2>1
  <2>4. \A v \in Workers : worker[v].pc = "forget" => worker[v].client \in Clients
    BY DEF CommandTypeOK, WorkerStates
  <2> QED
    BY <1>1, <2>1, <2>2, <2>3, <2>4 DEF SerialInv, SubscribersAreConnected
<1>5. CASE DisconnectForget(w)
  <2>1. /\ r.pc = "forget" /\ sessions' = sessions \ {r.client} /\ subs' = subs
        /\ worker' = [worker EXCEPT ![w].pc = "last"]
    BY <1>5 DEF DisconnectForget, Goto, channelVars
  <2>2. /\ worker'[w].pc = "last" /\ worker'[w].client = r.client
        /\ \A v \in Workers \ {w} : worker'[v] = worker[v]
    BY <1>1, <2>1 DEF WorkerStates
  <2>3. \A v \in Workers \ {w} : worker[v].client # r.client
    BY <1>1, <2>1 DEF SerialInv
  <2>4. subs[r.client] = {}
    BY <2>1 DEF SerialInv
  <2> QED
    BY <2>1, <2>2, <2>3, <2>4 DEF SerialInv, SubscribersAreConnected
<1>6. CASE StartSubscribe(w)
  <2>1. /\ r.pc = "start" /\ sessions' = sessions
        /\ subs' = [subs EXCEPT ![r.client] = @ \cup r.types]
    BY <1>6 DEF StartSubscribe, ChannelStart
  <2>2. r.client \in sessions
    BY <2>1 DEF SerialInv
  <2>3. \A v \in Workers \ {w} : worker[v].client # r.client
    BY <1>1, <2>1 DEF SerialInv
  <2>4. \A d \in Clients \ {r.client} : subs'[d] = subs[d]
    BY <1>1, <2>1
  <2>5. \A v \in Workers : worker[v].pc = "forget" => worker[v].client \in Clients
    BY DEF CommandTypeOK, WorkerStates
  <2> QED
    BY <1>2, <1>6, <2>1, <2>2, <2>3, <2>4, <2>5
       DEF StartSubscribe, SerialInv, SubscribersAreConnected
<1>7. CASE LastTestOthers(w) \/ GroupTestActive(w) \/ DrainLast(w)
  <2>1. UNCHANGED <<subs, sessions>> /\ Finish(w)
    BY <1>7 DEF LastTestOthers, GroupTestActive, DrainLast, DrainGroup, channelVars
  <2> QED
    BY <1>2, <2>1, SerialMove
<1>8. CASE LastTestNone(w)
  <2> DEFINE s == [r EXCEPT !.pc = "drain", !.todo = GroupOrder \o GroupOrder]
  <2>1. GroupOrder \o GroupOrder \in Seq(Groups)
    BY DEF GroupOrder, Groups
  <2>2. s \in WorkerStates /\ s.pc = "drain" /\ s.client = r.client
    BY <1>1, <2>1 DEF WorkerStates
  <2>3. worker' = [worker EXCEPT ![w] = s] /\ UNCHANGED <<subs, sessions>>
    BY <1>1, <1>8 DEF LastTestNone, channelVars
  <2> QED
    BY <2>2, <2>3, SerialMove
<1>9. CASE DrainNext(w)
  <2> DEFINE s == [r EXCEPT !.todo = Tail(@)]
  <2>0. r.pc = "drain" /\ r.todo \in Seq(Groups) /\ Len(r.todo) > 1
    BY <1>1, <1>9 DEF DrainNext, WorkerStates
  <2>1. Tail(r.todo) \in Seq(Groups)
    BY <2>0
  <2>2. s \in WorkerStates /\ s.pc = "drain" /\ s.client = r.client
    BY <1>1, <2>0, <2>1 DEF WorkerStates
  <2>3. worker' = [worker EXCEPT ![w] = s] /\ UNCHANGED <<subs, sessions>>
    BY <1>1, <1>9 DEF DrainNext, DrainGroup, channelVars
  <2> QED
    BY <2>2, <2>3, SerialMove
<1>10. CASE GroupTestInactive(w)
  <2>1. PICK t : worker' = [worker EXCEPT ![w].members = @ \ {t}]
    BY <1>10 DEF GroupTestInactive
  <2> DEFINE s == [r EXCEPT !.members = @ \ {t}]
  <2>2. s \in WorkerStates /\ s.pc = "group" /\ s.client = r.client
    BY <1>1, <1>10 DEF WorkerStates, GroupTestInactive
  <2>3. worker' = [worker EXCEPT ![w] = s] /\ UNCHANGED <<subs, sessions>>
    BY <1>1, <1>10, <2>1 DEF GroupTestInactive, channelVars
  <2> QED
    BY <2>2, <2>3, SerialMove
<1>11. CASE GroupTestDone(w)
  <2> DEFINE t == CHOOSE t \in r.types : TRUE
  <2>1. r.pc = "group" /\ r.types # {} /\ r.types \subseteq DataTypes
    BY <1>1, <1>11 DEF GroupTestDone, CommandTypeOK, WorkerStates
  <2>2. DataTypeToGroup[t] \in Groups
    BY <2>1, GroupOfType
  <2>3. <<DataTypeToGroup[t]>> \in Seq(Groups)
    BY <2>2
  <2>4. PICK u \in Seq(Groups) :
               worker' = [worker EXCEPT ![w].pc = "drain", ![w].todo = u]
    BY <2>3, <1>11 DEF GroupTestDone
  <2> HIDE DEF t
  <2> DEFINE s == [r EXCEPT !.pc = "drain", !.todo = u]
  <2>5. s \in WorkerStates /\ s.pc = "drain" /\ s.client = r.client
    BY <1>1 DEF WorkerStates
  <2>6. worker' = [worker EXCEPT ![w] = s]
    BY <1>1, <2>4
  <2>7. UNCHANGED <<subs, sessions>>
    BY <1>11 DEF GroupTestDone, channelVars
  <2> QED
    BY <2>5, <2>6, <2>7, SerialMove
<1> QED
  BY <1>3, <1>4, <1>5, <1>6, <1>7, <1>8, <1>9, <1>10, <1>11 DEF Continue

\* activate_channel, deactivate_channel and what changes nothing.
LEMMA SerialOther ==
    ASSUME SerialInv, CommandTypeOK, NEW w \in Workers,
           (\E t \in DataTypes : ChannelRequests(w, t)) \/ Other(w)
    PROVE  SerialInv'
<1>1. ASSUME NEW t \in DataTypes, Activate(w, t)
      PROVE  SerialInv'
  BY <1>1 DEF Activate, ChannelActivate, SerialInv, SubscribersAreConnected
<1>2. ASSUME NEW t \in DataTypes, DeactivateBegin(w, t)
      PROVE  SerialInv'
  <2> DEFINE members == GroupMembers(DataTypeToGroup[t])
             r == Locals("group", NoClient, {t}, members)
  <2>1. members \in SUBSET DataTypes /\ {t} \in SUBSET DataTypes
    BY DEF GroupMembers
  <2> HIDE DEF members
  <2>2. r \in WorkerStates /\ r.pc = "group" /\ r.client = NoClient
    BY <2>1 DEF Locals, WorkerStates
  <2> HIDE DEF r
  <2>3. worker' = [worker EXCEPT ![w] = r] /\ UNCHANGED <<sessions, subs>>
    BY <1>2 DEF DeactivateBegin, ChannelDeactivate, r, members
  <2> QED
    BY <2>2, <2>3, SerialMove
<1>3. CASE Other(w)
  BY <1>3 DEF Other, Refuse, commandVars, SerialInv, SubscribersAreConnected
<1> QED
  BY <1>1, <1>2, <1>3 DEF ChannelRequests

\* If every client waits for its answers, only clients with a session have
\* subscriptions: the test of the session in start_capture is still true when
\* the subscription is made, and disconnect drops the subscriptions first.
THEOREM SubscribersConnected ==
    ASSUME OneAtATime
    PROVE  CommandSpec => []SubscribersAreConnected
<1>1. SerialInv /\ CommandTypeOK /\ [CommandNext]_commandVars => SerialInv'
  <2> SUFFICES ASSUME SerialInv, CommandTypeOK, [CommandNext]_commandVars
               PROVE  SerialInv'
    OBVIOUS
  <2>1. CASE UNCHANGED commandVars
    BY <2>1 DEF commandVars, SerialInv, SubscribersAreConnected
  <2>2. CASE CommandNext
    BY <2>2, SerialRequest, SerialContinue, SerialOther DEF CommandNext
  <2> QED
    BY <2>1, <2>2
<1>2. SerialInv => SubscribersAreConnected
  BY DEF SerialInv
<1> QED
  BY <1>1, <1>2, SerialInit, CommandTypeCorrect, PTL DEF CommandSpec

-----------------------------------------------------------------------------
(* The last subscriber's flush.                                             *)

\* A worker in state r will still ask whether group g is to be flushed, or will
\* flush it.
Covers(r, g) ==
    \/ r.pc \in {"forget", "last"}
    \/ r.pc = "drain" /\ \E i \in 1 .. Len(r.todo) : r.todo[i] = g
    \/ r.pc = "group" /\ \E t \in r.types : DataTypeToGroup[t] = g

\* deactivate_channel is about one type and tests the types of its group.
OneGroup(r) ==
    r.pc = "group" =>
        \E t \in DataTypes : /\ r.types = {t}
                             /\ r.members \subseteq GroupMembers(DataTypeToGroup[t])

\* While nobody subscribes, a group that is off and may hold frames has a worker
\* that has not come to it yet.
FlushInv ==
    /\ \A w \in Workers : OneGroup(worker[w])
    /\ AnySubscriber \/ \A g \in unflushed :
                            GroupActive(g) \/ \E w \in Workers : Covers(worker[w], g)

LEMMA FlushInit == CommandInit => FlushInv
  BY IdleTyped DEF CommandInit, FlushInv, OneGroup

\* Worker w goes to s; every group it leaves uncovered is covered otherwise.
LEMMA FlushMove ==
    ASSUME FlushInv, CommandTypeOK, NEW w \in Workers, NEW s,
           worker' = [worker EXCEPT ![w] = s], OneGroup(s),
           \/ AnySubscriber'
           \/ /\ ~AnySubscriber
              /\ \A g \in unflushed' :
                    \/ GroupActive(g)' \/ Covers(s, g)
                    \/ /\ g \in unflushed /\ ~GroupActive(g)
                       /\ ~Covers(worker[w], g)
    PROVE  FlushInv'
<1>1. /\ worker'[w] = s
      /\ \A v \in Workers \ {w} : worker'[v] = worker[v]
  BY DEF CommandTypeOK
<1>2. \A v \in Workers : OneGroup(worker'[v])
  BY <1>1 DEF FlushInv
<1>3. ASSUME ~AnySubscriber', NEW g \in unflushed'
      PROVE  GroupActive(g)' \/ \E v \in Workers : Covers(worker'[v], g)
  <2>1. CASE GroupActive(g)' \/ Covers(s, g)
    BY <1>1, <2>1
  <2>2. CASE ~GroupActive(g)' /\ ~Covers(s, g)
    <3>1. PICK v \in Workers : Covers(worker[v], g)
      BY <1>3, <2>2 DEF FlushInv
    <3>2. v # w /\ worker'[v] = worker[v]
      BY <1>1, <1>3, <2>2, <3>1
    <3> QED
      BY <3>1, <3>2
  <2> QED
    BY <2>1, <2>2
<1> QED
  BY <1>2, <1>3 DEF FlushInv, OneGroup, Covers, GroupMembers

\* A step that changes no channel state changes no group either.
LEMMA GroupsKept ==
    ASSUME UNCHANGED channelVars
    PROVE  /\ AnySubscriber' <=> AnySubscriber
           /\ \A g : GroupActive(g)' <=> GroupActive(g)
  BY DEF channelVars, AnySubscriber, GroupActive, GroupMembers, IsActive

\* A worker that has subscriptions to drop, or has dropped them, covers all.
LEMMA FlushPromised ==
    ASSUME FlushInv, CommandTypeOK, NEW w \in Workers, NEW s,
           worker' = [worker EXCEPT ![w] = s], s.pc \in {"forget", "last"}
    PROVE  FlushInv'
<1>1. /\ worker'[w] = s
      /\ \A v \in Workers \ {w} : worker'[v] = worker[v]
  BY DEF CommandTypeOK
<1>2. \A g : Covers(worker'[w], g)
  BY <1>1 DEF Covers
<1>3. \A v \in Workers : OneGroup(worker'[v])
  BY <1>1 DEF FlushInv, OneGroup
<1> QED
  BY <1>2, <1>3 DEF FlushInv, OneGroup, Covers

\* The first steps of commands that act for a client.
LEMMA FlushRequest ==
    ASSUME FlushInv, CommandTypeOK, NEW w \in Workers, NEW c \in Clients, Requests(w, c)
    PROVE  FlushInv'
<1>1. ASSUME UNCHANGED commandVars
      PROVE  FlushInv'
  BY <1>1, GroupsKept DEF commandVars, channelVars, FlushInv
<1>2. ASSUME NEW pc \in {"insert", "release", "start"}, NEW types,
             Takes(w, c), Begin(w, c, types, pc), UNCHANGED <<channelVars, unflushed>>
      PROVE  FlushInv'
  <2> DEFINE s == Locals(pc, c, types, {})
  <2>1. s.pc = pc
    BY DEF Locals
  <2> HIDE DEF s
  <2>2. worker' = [worker EXCEPT ![w] = s] /\ OneGroup(s)
    BY <1>2, <2>1 DEF Begin, s, OneGroup
  <2>3. \A g : ~Covers(worker[w], g)
    BY <1>2 DEF Takes, Covers
  <2> QED
    BY <1>2, <2>2, <2>3, GroupsKept, FlushMove
<1>3. CASE ConnectNew(w, c) \/ DisconnectBegin(w, c)
           \/ \E types \in SUBSET DataTypes : StartBegin(w, c, types)
  BY <1>2, <1>3 DEF ConnectNew, DisconnectBegin, StartBegin
<1>4. ASSUME NEW types \in SUBSET DataTypes, StopBegin(w, c, types)
      PROVE  FlushInv'
  <2> DEFINE s == Locals("last", c, types, {})
  <2>1. s.pc = "last"
    BY DEF Locals
  <2> HIDE DEF s
  <2>2. worker' = [worker EXCEPT ![w] = s]
    BY <1>4 DEF StopBegin, Begin, s
  <2> QED
    BY <2>1, <2>2, FlushPromised
<1>5. CASE \/ ConnectTwice(w, c) \/ DisconnectRefused(w, c) \/ StartRefused(w, c)
           \/ \E types \in SUBSET DataTypes :
                 StartInvalid(w, c, types) \/ StopInvalid(w, c, types)
  BY <1>1, <1>5 DEF ConnectTwice, DisconnectRefused, StartRefused, StartInvalid,
                    StopInvalid, Refuse
<1> QED
  BY <1>3, <1>4, <1>5 DEF Requests

\* activate_channel and deactivate_channel.
LEMMA FlushChannel ==
    ASSUME FlushInv, CommandTypeOK, NEW w \in Workers,
           (\E t \in DataTypes : ChannelRequests(w, t)) \/ Other(w)
    PROVE  FlushInv'
<1>1. ASSUME NEW t \in DataTypes, Activate(w, t)
      PROVE  FlushInv'
  <2>1. /\ forced' = forced \cup {t} /\ count' = count /\ worker' = worker
        /\ unflushed' = unflushed \cup {DataTypeToGroup[t]}
    BY <1>1 DEF Activate, ChannelActivate
  <2>2. AnySubscriber' <=> AnySubscriber
    BY <2>1 DEF AnySubscriber
  <2>3. \A g : GroupActive(g) => GroupActive(g)'
    BY <2>1 DEF GroupActive, IsActive, GroupMembers
  <2>4. GroupActive(DataTypeToGroup[t])'
    BY <2>1 DEF GroupActive, IsActive, GroupMembers
  <2> QED
    BY <2>1, <2>2, <2>3, <2>4 DEF FlushInv
<1>2. ASSUME NEW t \in DataTypes, DeactivateBegin(w, t)
      PROVE  FlushInv'
  <2> DEFINE members == GroupMembers(DataTypeToGroup[t])
             s == Locals("group", NoClient, {t}, members)
  <2>1. s.pc = "group" /\ s.types = {t} /\ s.members = members
    BY DEF Locals
  <2> HIDE DEF members, s
  <2>2. /\ worker' = [worker EXCEPT ![w] = s] /\ unflushed' = unflushed
        /\ count' = count /\ forced' = forced \ {t} /\ worker[w].pc = "idle"
    BY <1>2 DEF DeactivateBegin, ChannelDeactivate, s, members
  <2>3. OneGroup(s) /\ Covers(s, DataTypeToGroup[t])
    BY <2>1 DEF OneGroup, Covers, members
  <2>4. AnySubscriber' <=> AnySubscriber
    BY <2>2 DEF AnySubscriber
  <2>5. ASSUME NEW g, g # DataTypeToGroup[t], GroupActive(g)
        PROVE  GroupActive(g)'
    BY <2>2, <2>5 DEF GroupActive, IsActive, GroupMembers
  <2>6. \A g : ~Covers(worker[w], g)
    BY <2>2 DEF Covers
  <2> QED
    BY <2>2, <2>3, <2>4, <2>5, <2>6, FlushMove
<1>3. CASE Other(w)
  BY <1>3, GroupsKept DEF Other, Refuse, commandVars, channelVars, FlushInv
<1> QED
  BY <1>1, <1>2, <1>3 DEF ChannelRequests

\* A worker that subscribes leaves a subscriber behind.
LEMMA StartCounts ==
    ASSUME IsFiniteSet(Clients), CommandTypeOK, RefcountExact,
           NEW w \in Workers, StartSubscribe(w)
    PROVE  AnySubscriber'
<1> DEFINE c == worker[w].client
           types == worker[w].types
<1>1. types # {} /\ types \in SUBSET DataTypes /\ c \in Clients
  BY DEF CommandTypeOK, WorkerStates, StartSubscribe
<1>2. ChannelStart(c, types)
  BY DEF StartSubscribe
<1> HIDE DEF c, types
<1>3. PICK t \in types : t \in DataTypes
  BY <1>1
<1>4. ChannelTypeOK /\ [ChannelNext]_channelVars
  BY <1>1, <1>2, ChannelCall DEF CommandTypeOK
<1>5. ChannelTypeOK' /\ RefcountExact'
  BY <1>4, ChannelTypeStep, RefcountStep
<1>6. t \in subs'[c]
  BY <1>1, <1>2, <1>3, <1>4 DEF ChannelStart, ChannelTypeOK
<1> DEFINE Subscribed == {d \in Clients : t \in subs'[d]}
<1>7. count'[t] = Cardinality(Subscribed)
  BY <1>3, <1>5 DEF RefcountExact, Subscribers
<1>8. c \in Subscribed /\ Subscribed \subseteq Clients
  BY <1>1, <1>6
<1> HIDE DEF Subscribed
<1>9. IsFiniteSet(Subscribed) /\ Cardinality(Subscribed) \in Nat
  BY <1>8, FS_Subset, FS_CardinalityType
<1>10. Cardinality(Subscribed) # 0
  BY <1>8, <1>9, FS_EmptySet
<1> QED
  BY <1>3, <1>7, <1>9, <1>10 DEF AnySubscriber

\* The rest of a command.
LEMMA FlushContinue ==
    ASSUME IsFiniteSet(Clients), FlushInv, CommandTypeOK, RefcountExact,
           NEW w \in Workers, Continue(w)
    PROVE  FlushInv'
<1> DEFINE r == worker[w]
<1>1. /\ unflushed \subseteq Groups /\ worker \in [Workers -> WorkerStates]
      /\ r \in WorkerStates /\ OneGroup(r)
  BY DEF CommandTypeOK, FlushInv
<1>2. OneGroup(Idle) /\ \A g : ~Covers(Idle, g)
  BY IdleTyped DEF OneGroup, Covers
<1>3. CASE ConnectInsert(w)
  <2>1. worker' = [worker EXCEPT ![w] = Idle] /\ UNCHANGED <<channelVars, unflushed>>
    BY <1>3 DEF ConnectInsert, Finish
  <2>2. \A g : ~Covers(r, g)
    BY <1>3 DEF ConnectInsert, Covers
  <2> QED
    BY <1>2, <2>1, <2>2, GroupsKept, FlushMove
<1>4. CASE DisconnectRelease(w) \/ DisconnectForget(w)
  <2>1. PICK pc \in {"forget", "last"} : Goto(w, pc)
    BY <1>4 DEF DisconnectRelease, DisconnectForget
  <2> DEFINE s == [r EXCEPT !.pc = pc]
  <2>2. s.pc = pc
    BY <1>1 DEF WorkerStates
  <2>3. worker' = [worker EXCEPT ![w] = s]
    BY <1>1, <2>1 DEF Goto
  <2> QED
    BY <2>2, <2>3, FlushPromised
<1>5. CASE StartSubscribe(w)
  <2>1. AnySubscriber'
    BY <1>5, StartCounts
  <2>2. worker' = [worker EXCEPT ![w] = Idle]
    BY <1>5 DEF StartSubscribe, Finish
  <2> QED
    BY <1>2, <2>1, <2>2, FlushMove
<1>6. CASE LastTestOthers(w)
  <2>1. worker' = [worker EXCEPT ![w] = Idle] /\ AnySubscriber'
    BY <1>6, GroupsKept DEF LastTestOthers, Finish
  <2> QED
    BY <1>2, <2>1, FlushMove
<1>7. CASE LastTestNone(w)
  <2> DEFINE s == [r EXCEPT !.pc = "drain", !.todo = GroupOrder \o GroupOrder]
  <2>1. s.pc = "drain" /\ s.todo = GroupOrder \o GroupOrder
    BY <1>1 DEF WorkerStates
  <2>2. /\ worker' = [worker EXCEPT ![w] = s]
        /\ UNCHANGED <<channelVars, unflushed>> /\ ~AnySubscriber
    BY <1>1, <1>7 DEF LastTestNone
  <2> HIDE DEF s
  <2>3. ASSUME NEW g \in Groups
        PROVE  \E i \in 1 .. Len(s.todo) : s.todo[i] = g
    BY <2>1 DEF Groups, GroupOrder
  <2>4. OneGroup(s) /\ \A g \in unflushed' : Covers(s, g)
    BY <1>1, <2>1, <2>2, <2>3 DEF Covers, OneGroup
  <2> QED
    BY <2>2, <2>4, GroupsKept, FlushMove
<1>8. ASSUME NEW s, worker' = [worker EXCEPT ![w] = s], r.pc = "drain", OneGroup(s),
             r.todo # <<>>, DrainGroup(Head(r.todo)),
             \A i \in 2 .. Len(r.todo) : Covers(s, r.todo[i])
      PROVE  FlushInv'
  <2>1. UNCHANGED channelVars
    BY <1>8 DEF DrainGroup
  <2>2. r.todo \in Seq(Groups) /\ Head(r.todo) = r.todo[1]
    BY <1>1, <1>8 DEF WorkerStates
  <2>3. ASSUME NEW g \in unflushed'
        PROVE  \/ GroupActive(g) \/ Covers(s, g)
               \/ g \in unflushed /\ ~GroupActive(g) /\ ~Covers(r, g)
    <3>1. g \in unflushed /\ (g = Head(r.todo) => GroupActive(g))
      BY <2>3, <1>8 DEF DrainGroup
    <3>2. CASE Covers(r, g) /\ ~GroupActive(g)
      <4>1. PICK i \in 1 .. Len(r.todo) : r.todo[i] = g
        BY <1>8, <3>2 DEF Covers
      <4>2. i # 1
        BY <2>2, <3>1, <3>2, <4>1
      <4> QED
        BY <1>8, <2>2, <4>1, <4>2
    <3> QED
      BY <3>1, <3>2
  <2> QED
    BY <1>8, <2>1, <2>3, GroupsKept, FlushMove
<1>9. CASE DrainNext(w)
  <2> DEFINE s == [r EXCEPT !.todo = Tail(@)]
  <2>1. r.pc = "drain" /\ r.todo \in Seq(Groups) /\ Len(r.todo) > 1
    BY <1>1, <1>9 DEF DrainNext, WorkerStates
  <2>2. s.pc = "drain" /\ s.todo = Tail(r.todo)
    BY <1>1, <2>1 DEF WorkerStates
  <2>3. worker' = [worker EXCEPT ![w] = s] /\ DrainGroup(Head(r.todo))
    BY <1>1, <1>9 DEF DrainNext
  <2> HIDE DEF s
  <2>4. ASSUME NEW i \in 2 .. Len(r.todo)
        PROVE  Covers(s, r.todo[i])
    <3>1. i - 1 \in 1 .. Len(s.todo) /\ s.todo[i - 1] = r.todo[i]
      BY <2>1, <2>2
    <3> QED
      BY <2>2, <3>1 DEF Covers
  <2>5. OneGroup(s) /\ r.todo # <<>>
    BY <2>1, <2>2 DEF OneGroup
  <2> QED
    BY <1>8, <2>1, <2>3, <2>4, <2>5
<1>10. CASE DrainLast(w)
  <2>1. /\ r.pc = "drain" /\ r.todo \in Seq(Groups) /\ Len(r.todo) = 1
        /\ worker' = [worker EXCEPT ![w] = Idle] /\ DrainGroup(Head(r.todo))
    BY <1>1, <1>10 DEF DrainLast, Finish, WorkerStates
  <2>2. r.todo # <<>> /\ \A i \in 2 .. Len(r.todo) : FALSE
    BY <2>1
  <2> QED
    BY <1>2, <1>8, <2>1, <2>2
<1>11. CASE GroupTestActive(w)
  <2>1. /\ r.pc = "group" /\ worker' = [worker EXCEPT ![w] = Idle]
        /\ UNCHANGED <<channelVars, unflushed>>
    BY <1>11 DEF GroupTestActive, Finish
  <2>2. PICK t \in r.members : IsActive(t)
    BY <1>11 DEF GroupTestActive
  <2>3. ASSUME NEW g, Covers(r, g)
        PROVE  GroupActive(g)
    <3>1. t \in GroupMembers(g)
      BY <1>1, <2>1, <2>2, <2>3 DEF OneGroup, Covers
    <3> QED
      BY <2>2, <3>1 DEF GroupActive
  <2> QED
    BY <1>2, <2>1, <2>3, GroupsKept, FlushMove
<1>12. CASE GroupTestInactive(w)
  <2>1. PICK t : worker' = [worker EXCEPT ![w].members = @ \ {t}]
    BY <1>12 DEF GroupTestInactive
  <2> DEFINE s == [r EXCEPT !.members = @ \ {t}]
  <2>2. /\ s.pc = r.pc /\ s.types = r.types /\ s.members = r.members \ {t}
        /\ r.pc = "group"
    BY <1>1, <1>12 DEF WorkerStates, GroupTestInactive
  <2>3. worker' = [worker EXCEPT ![w] = s] /\ UNCHANGED <<channelVars, unflushed>>
    BY <1>1, <1>12, <2>1 DEF GroupTestInactive
  <2> HIDE DEF s
  <2>4. OneGroup(s) /\ \A g : Covers(r, g) => Covers(s, g)
    BY <1>1, <2>2 DEF OneGroup, Covers
  <2> QED
    BY <2>3, <2>4, GroupsKept, FlushMove
<1>13. CASE GroupTestDone(w)
  <2> DEFINE h == DataTypeToGroup[CHOOSE t \in r.types : TRUE]
  <2>1. /\ worker' = [worker EXCEPT ![w].pc = "drain", ![w].todo = <<h>>]
        /\ UNCHANGED <<channelVars, unflushed>> /\ r.pc = "group"
    BY <1>13 DEF GroupTestDone
  <2>2. PICK t \in DataTypes : r.types = {t}
    BY <1>1, <2>1 DEF OneGroup
  <2>3. h = DataTypeToGroup[t]
    BY <2>2
  <2> HIDE DEF h
  <2> DEFINE s == [r EXCEPT !.pc = "drain", !.todo = <<h>>]
  <2>4. s.pc = "drain" /\ s.todo = <<h>>
    BY <1>1 DEF WorkerStates
  <2>5. worker' = [worker EXCEPT ![w] = s]
    BY <1>1, <2>1
  <2> HIDE DEF s
  <2>6. \A g : Covers(r, g) => g = h
    BY <2>1, <2>2, <2>3 DEF Covers
  <2>7. 1 \in 1 .. Len(s.todo) /\ s.todo[1] = h
    BY <2>4
  <2>8. OneGroup(s) /\ Covers(s, h)
    BY <2>4, <2>7 DEF OneGroup, Covers
  <2> QED
    BY <2>1, <2>5, <2>6, <2>8, GroupsKept, FlushMove
<1> QED
  BY <1>3, <1>4, <1>5, <1>6, <1>7, <1>9, <1>10, <1>11, <1>12, <1>13 DEF Continue

\* When the last subscriber has left and every command has been answered, every
\* group that is off has been flushed, for any number of workers and clients.
THEOREM LastLeaverHasFlushed ==
    ASSUME IsFiniteSet(Clients)
    PROVE  CommandSpec => []LastLeaverFlushes
<1>1. FlushInv /\ CommandTypeOK /\ RefcountExact /\ [CommandNext]_commandVars => FlushInv'
  <2> SUFFICES ASSUME FlushInv, CommandTypeOK, RefcountExact, [CommandNext]_commandVars
               PROVE  FlushInv'
    OBVIOUS
  <2>1. CASE UNCHANGED commandVars
    BY <2>1, GroupsKept DEF commandVars, channelVars, FlushInv
  <2>2. CASE CommandNext
    BY <2>2, FlushRequest, FlushContinue, FlushChannel DEF CommandNext
  <2> QED
    BY <2>1, <2>2
<1>2. FlushInv => LastLeaverFlushes
  <2>1. ASSUME Quiescent, NEW g
        PROVE  \A w \in Workers : ~Covers(worker[w], g)
    BY <2>1 DEF Quiescent, Covers
  <2> QED
    BY <2>1 DEF FlushInv, LastLeaverFlushes
<1>3. CommandSpec => []RefcountExact
  BY CommandRefcounts, PTL
<1> QED
  BY <1>1, <1>2, <1>3, FlushInit, CommandTypeCorrect, PTL DEF CommandSpec
=============================================================================
