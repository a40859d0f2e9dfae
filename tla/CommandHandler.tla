--------------------------- MODULE CommandHandler ---------------------------
(***************************************************************************)
(* CommandHandler (src/api/CommandHandler.cpp) run by the worker threads   *)
(* of AdminServer, with SessionManager and ChannelManager behind it.  Each *)
(* manager locks its own mutex for one call at a time and nothing is held  *)
(* across calls, so a step is one locked call and the commands of          *)
(* different workers interleave between the calls of one command.          *)
(*                                                                         *)
(* A request is a command, a client_id (any string, "default" for all who  *)
(* send none) and the set of types expand_types returns for its body,      *)
(* which is empty when no name in it is known.                             *)
(*                                                                         *)
(* The pipeline is seen through unflushed: the groups whose queue may hold *)
(* a frame built for a subscription.  A group becomes unflushed when one   *)
(* of its types is switched on and is flushed by a drain that finds all    *)
(* its types off.  The queues themselves are in SPSCQueue and DataPipeline.*)
(***************************************************************************)
EXTENDS ChannelManager

CONSTANTS Workers,      \* the threads of AdminServer
          OneAtATime    \* whether a client waits for its answer

ASSUME OneAtATimeAssumption == OneAtATime \in BOOLEAN

VARIABLES sessions,     \* SessionManager::sessions_
          worker,       \* each worker's place in handle() and its locals
          unflushed     \* history: groups whose queue may hold frames

commandVars == <<entries, subs, count, forced, sessions, worker, unflushed>>

NoClient == "none"

ASSUME NoClientAssumption == NoClient \notin Clients

Locals(pc, c, types, members) ==
    [pc |-> pc, client |-> c, types |-> types, members |-> members, todo |-> <<>>]

Idle == Locals("idle", NoClient, {}, {})

CommandInit ==
    /\ ChannelInit
    /\ sessions = {}
    /\ worker = [w \in Workers |-> Idle]
    /\ unflushed = {}

GroupActive(g) == \E t \in GroupMembers(g) : IsActive(t)

-----------------------------------------------------------------------------
(* Where a worker is.                                                       *)

\* A worker that takes a request of client c.
Takes(w, c) ==
    /\ worker[w].pc = "idle"
    /\ OneAtATime => \A v \in Workers : worker[v].client # c

Goto(w, pc) == worker' = [worker EXCEPT ![w].pc = pc]

\* The first step of a command leaves the worker at pc with its locals.
Begin(w, c, types, pc) == worker' = [worker EXCEPT ![w] = Locals(pc, c, types, {})]

\* The last step of a command that answers Success.
Finish(w) == worker' = [worker EXCEPT ![w] = Idle]

\* A command answered in its first step, with nothing changed.
Refuse == UNCHANGED commandVars

-----------------------------------------------------------------------------
(* connect: test, then insert.                                              *)

ConnectTwice(w, c) ==
    /\ Takes(w, c) /\ c \in sessions
    /\ Refuse          \* AlreadyInit

ConnectNew(w, c) ==
    /\ Takes(w, c) /\ c \notin sessions
    /\ Begin(w, c, {}, "insert")
    /\ UNCHANGED <<channelVars, sessions, unflushed>>

ConnectInsert(w) ==
    /\ worker[w].pc = "insert"
    /\ sessions' = sessions \cup {worker[w].client}
    /\ Finish(w)
    /\ UNCHANGED <<channelVars, unflushed>>

-----------------------------------------------------------------------------
(* disconnect: test, drop the subscriptions, drop the session, and flush if *)
(* nobody subscribes any more.                                              *)

DisconnectRefused(w, c) ==
    /\ Takes(w, c) /\ c \notin sessions
    /\ Refuse          \* NotReady

DisconnectBegin(w, c) ==
    /\ Takes(w, c) /\ c \in sessions
    /\ Begin(w, c, {}, "release")
    /\ UNCHANGED <<channelVars, sessions, unflushed>>

\* Faulty variant: the session goes and the subscriptions stay.
DisconnectRelease_Skipped(w) ==
    /\ worker[w].pc = "release"
    /\ Goto(w, "forget")
    /\ UNCHANGED <<channelVars, sessions, unflushed>>

DisconnectRelease(w) ==
    /\ worker[w].pc = "release"
    /\ ChannelDisconnect(worker[w].client)
    /\ Goto(w, "forget")
    /\ UNCHANGED <<sessions, unflushed>>

DisconnectForget(w) ==
    /\ worker[w].pc = "forget"
    /\ sessions' = sessions \ {worker[w].client}
    /\ Goto(w, "last")
    /\ UNCHANGED <<channelVars, unflushed>>

-----------------------------------------------------------------------------
(* start_capture.                                                           *)

StartRefused(w, c) ==
    /\ Takes(w, c) /\ c \notin sessions
    /\ Refuse          \* NotReady

StartInvalid(w, c, types) ==
    /\ Takes(w, c) /\ c \in sessions /\ types = {}
    /\ Refuse          \* InvalidParam

StartBegin(w, c, types) ==
    /\ Takes(w, c) /\ c \in sessions /\ types # {}
    /\ Begin(w, c, types, "start")
    /\ UNCHANGED <<channelVars, sessions, unflushed>>

StartSubscribe(w) ==
    /\ worker[w].pc = "start"
    /\ ChannelStart(worker[w].client, worker[w].types)
    /\ unflushed' = unflushed \cup {DataTypeToGroup[t] : t \in worker[w].types}
    /\ Finish(w)
    /\ UNCHANGED sessions

-----------------------------------------------------------------------------
(* stop_capture does not ask for a session.                                 *)

StopInvalid(w, c, types) ==
    /\ Takes(w, c) /\ types = {}
    /\ Refuse          \* InvalidParam

\* Faulty variant: any_subscriber is asked before the subscriptions are dropped.
StopBegin_TestFirst(w, c, types) ==
    /\ Takes(w, c) /\ types # {}
    /\ ChannelStop(c, types)
    /\ IF AnySubscriber THEN UNCHANGED worker
                        ELSE Begin(w, c, types, "last")
    /\ UNCHANGED <<sessions, unflushed>>

StopBegin(w, c, types) ==
    /\ Takes(w, c) /\ types # {}
    /\ ChannelStop(c, types)
    /\ Begin(w, c, types, "last")
    /\ UNCHANGED <<sessions, unflushed>>

-----------------------------------------------------------------------------
(* The end of disconnect and stop_capture: any_subscriber(), then           *)
(* DataPipeline::drain() and DataPublisher::drain(), which drains the same  *)
(* three queues again.                                                      *)

LastTestOthers(w) ==
    /\ worker[w].pc = "last" /\ AnySubscriber
    /\ Finish(w)
    /\ UNCHANGED <<channelVars, sessions, unflushed>>

LastTestNone(w) ==
    /\ worker[w].pc = "last" /\ ~AnySubscriber
    /\ worker' = [worker EXCEPT ![w].pc = "drain",
                                ![w].todo = GroupOrder \o GroupOrder]
    /\ UNCHANGED <<channelVars, sessions, unflushed>>

\* drain_group(g) by worker w, followed by continue.
DrainGroup(g) ==
    /\ unflushed' = IF GroupActive(g) THEN unflushed ELSE unflushed \ {g}
    /\ UNCHANGED <<channelVars, sessions>>

DrainNext(w) ==
    /\ worker[w].pc = "drain" /\ Len(worker[w].todo) > 1
    /\ DrainGroup(Head(worker[w].todo))
    /\ worker' = [worker EXCEPT ![w].todo = Tail(@)]

DrainLast(w) ==
    /\ worker[w].pc = "drain" /\ Len(worker[w].todo) = 1
    /\ DrainGroup(Head(worker[w].todo))
    /\ Finish(w)

-----------------------------------------------------------------------------
(* activate_channel and deactivate_channel name a type and no client.       *)

Activate(w, t) ==
    /\ worker[w].pc = "idle"
    /\ ChannelActivate(t)
    /\ unflushed' = unflushed \cup {DataTypeToGroup[t]}
    /\ UNCHANGED <<sessions, worker>>

DeactivateBegin(w, t) ==
    /\ worker[w].pc = "idle"
    /\ ChannelDeactivate(t)
    /\ worker' = [worker EXCEPT
          ![w] = Locals("group", NoClient, {t}, GroupMembers(DataTypeToGroup[t]))]
    /\ UNCHANGED <<sessions, unflushed>>

\* group_active locks once per type of the group, in any order, and stops at
\* an active one.
GroupTestActive(w) ==
    /\ worker[w].pc = "group"
    /\ \E t \in worker[w].members : IsActive(t)
    /\ Finish(w)
    /\ UNCHANGED <<channelVars, sessions, unflushed>>

GroupTestInactive(w) ==
    /\ worker[w].pc = "group"
    /\ \E t \in worker[w].members :
          /\ ~IsActive(t)
          /\ worker' = [worker EXCEPT ![w].members = @ \ {t}]
    /\ UNCHANGED <<channelVars, sessions, unflushed>>

GroupTestDone(w) ==
    /\ worker[w].pc = "group" /\ worker[w].members = {}
    /\ worker' = [worker EXCEPT ![w].pc = "drain",
          ![w].todo = <<DataTypeToGroup[CHOOSE t \in worker[w].types : TRUE]>>]
    /\ UNCHANGED <<channelVars, sessions, unflushed>>

-----------------------------------------------------------------------------
(* The queries, the parameter commands, init and dispose (refused by        *)
(* handle()), unknown commands and unknown types leave this state alone.    *)

Other(w) == worker[w].pc = "idle" /\ Refuse

-----------------------------------------------------------------------------
Requests(w, c) ==
    \/ ConnectTwice(w, c) \/ ConnectNew(w, c)
    \/ DisconnectRefused(w, c) \/ DisconnectBegin(w, c)
    \/ StartRefused(w, c)
    \/ \E types \in SUBSET DataTypes :
          \/ StartInvalid(w, c, types) \/ StartBegin(w, c, types)
          \/ StopInvalid(w, c, types) \/ StopBegin(w, c, types)

ChannelRequests(w, t) == Activate(w, t) \/ DeactivateBegin(w, t)

\* The rest of a command after its first step.
Continue(w) ==
    \/ ConnectInsert(w)
    \/ DisconnectRelease(w) \/ DisconnectForget(w)
    \/ StartSubscribe(w)
    \/ LastTestOthers(w) \/ LastTestNone(w) \/ DrainNext(w) \/ DrainLast(w)
    \/ GroupTestActive(w) \/ GroupTestInactive(w) \/ GroupTestDone(w)

CommandNext ==
    \E w \in Workers :
        \/ \E c \in Clients : Requests(w, c)
        \/ \E t \in DataTypes : ChannelRequests(w, t)
        \/ Other(w)
        \/ Continue(w)

CommandSpec == CommandInit /\ [][CommandNext]_commandVars

-----------------------------------------------------------------------------
(* Properties.                                                              *)

WorkerStates ==
    [pc : {"idle", "insert", "release", "forget", "start", "last", "drain", "group"},
     client : Clients \cup {NoClient}, types : SUBSET DataTypes, members : SUBSET DataTypes, todo : Seq(Groups)]

\* Values of the variables; a command that acts for a client has one, and a
\* worker that subscribes has types to subscribe to.
CommandTypeOK ==
    /\ ChannelTypeOK
    /\ sessions \subseteq Clients
    /\ unflushed \subseteq Groups
    /\ worker \in [Workers -> WorkerStates]
    /\ \A w \in Workers :
          /\ worker[w].pc \in {"insert", "release", "forget", "start"} =>
                worker[w].client # NoClient
          /\ worker[w].pc \in {"start", "group"} => worker[w].types # {}
          /\ worker[w].pc \in {"idle", "group"} => worker[w].client = NoClient

Quiescent == \A w \in Workers : worker[w].pc = "idle"

\* When the last subscriber has left and every command has been answered, every
\* group that is off has been drained since it was last on, however the commands
\* interleaved.  What the capture thread adds after the drain is in Node.
LastLeaverFlushes ==
    Quiescent /\ ~AnySubscriber => \A g \in unflushed : GroupActive(g)

\* Only a client with a session has subscriptions, in every state of every
\* command; supposes clients that wait for their answers.
SubscribersAreConnected == \A c \in Clients : subs[c] # {} => c \in sessions

\* disconnect removes all of the client's subscriptions: once no command of the
\* client is running, a client without a session has none.
DisconnectedHasNone ==
    \A c \in Clients :
        c \notin sessions /\ (\A w \in Workers : worker[w].client # c)
            => subs[c] = {}
=============================================================================
