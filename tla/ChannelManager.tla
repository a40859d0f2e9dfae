--------------------------- MODULE ChannelManager ---------------------------
(***************************************************************************)
(* ChannelManager (src/data/ChannelManager.cpp): which client wants which  *)
(* data type, a subscriber count per type, and a force-active flag per     *)
(* type.  Every method holds mtx_ from beginning to end (group_active is   *)
(* the exception: it locks once per type, see CommandHandler), so one      *)
(* action is one method.                                                   *)
(*                                                                         *)
(* clients_ is a map from client to set: its keys are entries and its      *)
(* values subs, which is empty for a client without a key.  A type without *)
(* a key in states_ has count 0 and is not forced, which is how every      *)
(* reader of the map treats it.  A request's list of types is a set: the   *)
(* loops skip a type the client has already, or no longer has, so          *)
(* repetitions and order do not matter.                                    *)
(***************************************************************************)
EXTENDS Types, Integers

CONSTANT Clients

VARIABLES entries,      \* the keys of clients_
          subs,         \* clients_[c]
          count,        \* states_[t].subscriber_count
          forced        \* the types with states_[t].force_active

channelVars == <<entries, subs, count, forced>>

ChannelInit ==
    /\ entries = {}
    /\ subs = [c \in Clients |-> {}]
    /\ count = [t \in DataTypes |-> 0]
    /\ forced = {}

IsActive(t) == count[t] > 0 \/ t \in forced

AnySubscriber == \E t \in DataTypes : count[t] > 0

\* A count that is 0 stays 0.
Decremented(n) == IF n > 0 THEN n - 1 ELSE n

\* Faulty variant: counts again a type the client has already.
ChannelStart_CountTwice(c, types) ==
    /\ entries' = entries \cup {c}
    /\ subs' = [subs EXCEPT ![c] = @ \cup types]
    /\ count' = [t \in DataTypes |-> IF t \in types THEN count[t] + 1 ELSE count[t]]
    /\ UNCHANGED forced

\* start_capture: only a type new to the client is counted.
ChannelStart(c, types) ==
    /\ entries' = entries \cup {c}
    /\ subs' = [subs EXCEPT ![c] = @ \cup types]
    /\ count' = [t \in DataTypes |->
                    IF t \in types \ subs[c] THEN count[t] + 1 ELSE count[t]]
    /\ UNCHANGED forced

\* Faulty variant: the count goes down for a type the client never had.
ChannelStop_UncheckedErase(c, types) ==
    /\ subs' = [subs EXCEPT ![c] = @ \ types]
    /\ count' = [t \in DataTypes |->
                    IF t \in types THEN Decremented(count[t]) ELSE count[t]]
    /\ UNCHANGED <<entries, forced>>

\* stop_capture: a client without an entry has nothing to stop.
ChannelStop(c, types) ==
    /\ subs' = [subs EXCEPT ![c] = @ \ types]
    /\ count' = [t \in DataTypes |->
                    IF t \in types \cap subs[c] THEN Decremented(count[t])
                                                ELSE count[t]]
    /\ UNCHANGED <<entries, forced>>

\* disconnect_client.
ChannelDisconnect(c) ==
    /\ entries' = entries \ {c}
    /\ subs' = [subs EXCEPT ![c] = {}]
    /\ count' = [t \in DataTypes |->
                    IF t \in subs[c] THEN Decremented(count[t]) ELSE count[t]]
    /\ UNCHANGED forced

ChannelActivate(t) ==
    /\ forced' = forced \cup {t}
    /\ UNCHANGED <<entries, subs, count>>

ChannelDeactivate(t) ==
    /\ forced' = forced \ {t}
    /\ UNCHANGED <<entries, subs, count>>

ChannelNext ==
    \/ \E c \in Clients, types \in (SUBSET DataTypes) \ {{}} :
          ChannelStart(c, types) \/ ChannelStop(c, types)
    \/ \E c \in Clients : ChannelDisconnect(c)
    \/ \E t \in DataTypes : ChannelActivate(t) \/ ChannelDeactivate(t)

ChannelSpec == ChannelInit /\ [][ChannelNext]_channelVars

-----------------------------------------------------------------------------
(* Properties.                                                              *)

\* Values of the variables; a client without an entry has no subscriptions.
ChannelTypeOK ==
    /\ entries \subseteq Clients
    /\ subs \in [Clients -> SUBSET DataTypes]
    /\ count \in [DataTypes -> Nat]
    /\ forced \subseteq DataTypes
    /\ \A c \in Clients \ entries : subs[c] = {}

Subscribers(t) == {c \in Clients : t \in subs[c]}

\* subscriber_count is the number of clients subscribed to the type, through
\* repeated and overlapping start_capture, stop_capture and disconnect calls.
RefcountExact == \A t \in DataTypes : count[t] = Cardinality(Subscribers(t))

\* A type is produced exactly when a client subscribes to it or it is forced:
\* no command of one client silences another, and nothing keeps running for a
\* client that has gone.
ActiveIffWanted ==
    \A t \in DataTypes : IsActive(t) <=> (Subscribers(t) # {} \/ t \in forced)
=============================================================================
