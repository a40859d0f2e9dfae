--------------------------- MODULE DataPublisher ---------------------------
(***************************************************************************)
(* How the publisher puts frames on its three PUB sockets                  *)
(* (src/data/DataPublisher.cpp), with the broadcast and the end of main on *)
(* the same sockets.                                                       *)
(*                                                                         *)
(* A frame of n parts is one multipart message: a header, which lists the  *)
(* parts, and the parts, one zmq_msg_send each.  The sockets belong to     *)
(* libzmq and are seen as the code uses them: a send is accepted or        *)
(* refused, and the message ends with the first piece sent without         *)
(* ZMQ_SNDMORE.  What is accepted need not arrive: a PUB socket throws a   *)
(* whole message away, without a word to the sender, when it has no        *)
(* subscriber or the subscriber's queue is at ZMQ_SNDHWM.  Sockets are not *)
(* made for two threads; the model has one send at a time, which leaves    *)
(* out only worse.                                                         *)
(*                                                                         *)
(* Which frames come is in DataPipeline; the publisher tests running_ only *)
(* between batches, so a frame may be sent after stop() has cleared it.    *)
(***************************************************************************)
EXTENDS Types, Naturals, Sequences, FiniteSets

CONSTANT MaxFrames      \* bound: frames sent

ASSUME PublisherAssumption == MaxFrames \in Nat

VARIABLES socket,       \* life of each group's socket
          unended,      \* the pieces of the message that is open on each socket
          accepted,     \* history: ended messages the socket took, by kind
          arrived,      \* history: those of them that a subscriber got
          damage,       \* history: what went wrong inside messages
          taken,        \* history: frames given to send_group
          publisher,    \* the thread's place in send_multipart
          running,      \* running_
          stats,        \* sent_*, dropped_hwm_ and shutdown_sent_
          main          \* main's place, and the index of a socket

publisherVars ==
    <<socket, unended, accepted, arrived, damage, taken, publisher, running, stats,
      main>>

Idle == [pc |-> "idle", group |-> GroupOrder[1], n |-> 0, next |-> 0]

MainAt(pc, i) == [pc |-> pc, i |-> i]

\* What a subscriber can make of a message.
Kinds == {"whole", "event", "broken"}

PublisherInit ==
    /\ socket = [g \in Groups |-> "none"]
    /\ unended = [g \in Groups |-> <<>>]
    /\ accepted = [g \in Groups |-> [k \in Kinds |-> 0]]
    /\ arrived = [g \in Groups |-> [k \in Kinds |-> 0]]
    /\ damage = [g \in Groups |-> 0]
    /\ taken = 0
    /\ publisher = [Idle EXCEPT !.pc = "ended"]
    /\ running = FALSE
    /\ stats = [sent |-> [g \in Groups |-> 0], dropped |-> 0, shutdown |-> 0]
    /\ main = MainAt("start", 1)

-----------------------------------------------------------------------------
(* Messages.                                                                *)

\* Piece k of a frame of n parts; piece 0 is the header.
Piece(id, k, n) == [frame |-> id, part |-> k, n |-> n]

\* The event is a message of one piece that is of no frame.
Event == Piece(0, 0, 0)

Message(id, n) == [k \in 1..n + 1 |-> Piece(id, k - 1, n)]

\* What a subscriber makes of a message: it reads the header and expects its parts.
Kind(m) ==
    IF m = <<Event>> THEN "event"
    ELSE IF m = Message(m[1].frame, m[1].n) THEN "whole" ELSE "broken"

\* zmq_msg_send accepts a piece.  The piece that ends a message sends all of it
\* to the subscriber, or the socket has thrown all of it away.
Accepts(g, piece, more) ==
    LET m == Append(unended[g], piece)
        oneMore(history) == [history EXCEPT ![g][Kind(m)] = @ + 1]
    IN  IF more
        THEN /\ unended' = [unended EXCEPT ![g] = m]
             /\ UNCHANGED <<accepted, arrived>>
        ELSE /\ unended' = [unended EXCEPT ![g] = <<>>]
             /\ accepted' = oneMore(accepted)
             /\ arrived' \in {arrived, oneMore(arrived)}

-----------------------------------------------------------------------------
(* The thread.                                                              *)

\* A frame has a part for each type of its group that is on, and at least one.
MostParts(g) == Cardinality(GroupMembers(g))

PublisherTakes(g, n) ==
    /\ publisher.pc = "idle" /\ taken < MaxFrames
    /\ taken' = taken + 1
    /\ publisher' = [pc |-> "send", group |-> g, n |-> n, next |-> 0]
    /\ UNCHANGED <<socket, unended, accepted, arrived, damage, running, stats, main>>

\* Faulty variant: the header is not marked as the first piece of several.
PieceSent_HeaderAlone ==
    /\ publisher.pc = "send"
    /\ LET last == publisher.next = publisher.n
       IN  /\ Accepts(publisher.group, Piece(taken, publisher.next, publisher.n),
                      ~last /\ publisher.next > 0)
           /\ publisher' = IF last THEN [publisher EXCEPT !.pc = "count"]
                                   ELSE [publisher EXCEPT !.next = @ + 1]
    /\ UNCHANGED <<socket, damage, taken, running, stats, main>>

PieceSent ==
    /\ publisher.pc = "send"
    /\ LET last == publisher.next = publisher.n
       IN  /\ Accepts(publisher.group, Piece(taken, publisher.next, publisher.n), ~last)
           /\ publisher' = IF last THEN [publisher EXCEPT !.pc = "count"]
                                   ELSE [publisher EXCEPT !.next = @ + 1]
    /\ UNCHANGED <<socket, damage, taken, running, stats, main>>

\* Faulty variant: the loop goes on with the next part.
PieceRefused_Continue ==
    /\ publisher.pc = "send"
    /\ stats' = [stats EXCEPT !.dropped = @ + 1]
    /\ damage' = [damage EXCEPT ![publisher.group] =
                     IF publisher.next > 0 THEN @ + 1 ELSE @]
    /\ publisher' = IF publisher.next \in {0, publisher.n} THEN Idle
                    ELSE [publisher EXCEPT !.next = @ + 1]
    /\ UNCHANGED <<socket, unended, accepted, arrived, taken, running, main>>

\* A refused header or part ends the frame there; the message stays unended.
PieceRefused ==
    /\ publisher.pc = "send"
    /\ stats' = [stats EXCEPT !.dropped = @ + 1]
    /\ damage' = [damage EXCEPT ![publisher.group] =
                     IF publisher.next > 0 THEN @ + 1 ELSE @]
    /\ publisher' = Idle
    /\ UNCHANGED <<socket, unended, accepted, arrived, taken, running, main>>

\* Faulty variant: every frame counts as one of the first group.
PublisherCounts_OneGroup ==
    /\ publisher.pc = "count"
    /\ stats' = [stats EXCEPT !.sent[GroupOrder[1]] = @ + 1]
    /\ publisher' = Idle
    /\ UNCHANGED <<socket, unended, accepted, arrived, damage, taken, running, main>>

PublisherCounts ==
    /\ publisher.pc = "count"
    /\ stats' = [stats EXCEPT !.sent[publisher.group] = @ + 1]
    /\ publisher' = Idle
    /\ UNCHANGED <<socket, unended, accepted, arrived, damage, taken, running, main>>

PublisherEnds ==
    /\ publisher.pc = "idle" /\ ~running
    /\ publisher' = [publisher EXCEPT !.pc = "ended"]
    /\ UNCHANGED <<socket, unended, accepted, arrived, damage, taken, running, stats, main>>

\* The steps of a frame once it is taken, and the end.
PublisherStep == PieceSent \/ PieceRefused \/ PublisherCounts \/ PublisherEnds

-----------------------------------------------------------------------------
(* main: start(), publish_shutdown(), stop(), zmq_ctx_destroy, and the      *)
(* destructor when main returns.                                            *)

StartOpens ==
    /\ main.pc = "start"
    /\ socket' = [g \in Groups |-> "open"]
    /\ running' = TRUE
    /\ publisher' = Idle
    /\ main' = MainAt("serve", 1)
    /\ UNCHANGED <<unended, accepted, arrived, damage, taken, stats>>

\* A socket is not made or not bound; main returns 1.
StartFails ==
    /\ main.pc = "start"
    /\ \E made \in SUBSET Groups :
          socket' = [g \in Groups |-> IF g \in made THEN "open" ELSE "none"]
    /\ main' = MainAt("leave", 1)
    /\ UNCHANGED <<unended, accepted, arrived, damage, taken, publisher, running, stats>>

\* The signal.
MainAnnounces ==
    /\ main.pc = "serve"
    /\ main' = MainAt("announce", 1)
    /\ UNCHANGED <<socket, unended, accepted, arrived, damage, taken, publisher, running, stats>>

NextSocket ==
    main' = IF main.i < Len(GroupOrder) THEN MainAt("announce", main.i + 1)
                                        ELSE MainAt("stop", 1)

\* An event inside a message spoils it and what is left of the frame.
EventSent ==
    /\ main.pc = "announce"
    /\ LET g == GroupOrder[main.i]
       IN  /\ Accepts(g, Event, FALSE)
           /\ damage' = [damage EXCEPT ![g] = IF unended[g] # <<>> THEN @ + 2 ELSE @]
    /\ stats' = [stats EXCEPT !.shutdown = @ + 1]
    /\ NextSocket
    /\ UNCHANGED <<socket, taken, publisher, running>>

\* Faulty variant: a refused event counts as sent.
EventRefused_Counted ==
    /\ main.pc = "announce"
    /\ stats' = [stats EXCEPT !.shutdown = @ + 1]
    /\ NextSocket
    /\ UNCHANGED <<socket, unended, accepted, arrived, damage, taken, publisher, running>>

EventRefused ==
    /\ main.pc = "announce"
    /\ NextSocket
    /\ UNCHANGED <<socket, unended, accepted, arrived, damage, taken, publisher, running, stats>>

MainStopsPublisher ==
    /\ main.pc = "stop"
    /\ running' = FALSE
    /\ main' = MainAt("join", 1)
    /\ UNCHANGED <<socket, unended, accepted, arrived, damage, taken, publisher, stats>>

MainJoinsPublisher ==
    /\ main.pc = "join" /\ publisher.pc = "ended"
    /\ main' = MainAt("destroy", 1)
    /\ UNCHANGED <<socket, unended, accepted, arrived, damage, taken, publisher, running, stats>>

\* main returns, from StartFails or when zmq_ctx_destroy has: it waits until no
\* socket of the context is open.  ~DataPublisher closes the sockets there are.
MainReturns ==
    /\ main.pc \in {"leave", "destroy"}
    /\ main.pc = "destroy" => \A g \in Groups : socket[g] # "open"
    /\ socket' = [g \in Groups |-> IF socket[g] = "open" THEN "closed" ELSE socket[g]]
    /\ main' = MainAt("returned", 1)
    /\ UNCHANGED <<unended, accepted, arrived, damage, taken, publisher, running, stats>>

\* What main does once it has the signal.
MainStep ==
    \/ EventSent \/ EventRefused
    \/ MainStopsPublisher \/ MainJoinsPublisher \/ MainReturns

-----------------------------------------------------------------------------
PublisherNext ==
    \/ \E g \in Groups : \E n \in 1..MostParts(g) : PublisherTakes(g, n)
    \/ PublisherStep
    \/ StartOpens \/ StartFails \/ MainAnnounces \/ MainStep

PublisherSpec == PublisherInit /\ [][PublisherNext]_publisherVars

\* The thread and main run; zmq_msg_send with ZMQ_DONTWAIT does not block.
FairPublisherSpec ==
    PublisherSpec /\ WF_publisherVars(PublisherStep) /\ WF_publisherVars(MainStep)

-----------------------------------------------------------------------------
(* Properties.                                                              *)

\* The sum of f over the groups.
Total(f) == f["visual_2d"] + f["visual_3d"] + f["sensor_data"]

InHand == IF publisher.pc \in {"send", "count"} THEN 1 ELSE 0

\* Frames of g that the thread has sent and not counted yet.
Uncounted(g) == IF publisher.pc = "count" /\ publisher.group = g THEN 1 ELSE 0

\* Every frame handed to send_group is counted once, as sent or as dropped,
\* wherever its sends fail.
EveryFrameCounted ==
    taken = Total(stats.sent) + stats.dropped + InHand

\* A subscriber gets no more broken messages than there were refused parts, and
\* two for an event between the pieces of a frame: the stream recovers by itself.
DamageIsBounded == \A g \in Groups : arrived[g]["broken"] <= damage[g]

\* sent_* of check_status, the sends that succeeded.  No subscriber gets more
\* frames than that; and it exceeds the whole frames that libzmq took, to deliver
\* them or to throw them away, by the damage at most.
SentIsHonest ==
    \A g \in Groups :
        /\ arrived[g]["whole"] <= stats.sent[g] + Uncounted(g)
        /\ stats.sent[g] + Uncounted(g) <= accepted[g]["whole"] + damage[g]

\* shutdown_sent, the broadcasts that succeeded: no fewer than the events that
\* subscribers heard, no more than libzmq took, but for those that ended a cut frame.
ShutdownIsCounted ==
    /\ Total([g \in Groups |-> arrived[g]["event"]]) <= stats.shutdown
    /\ stats.shutdown <= Total([g \in Groups |-> accepted[g]["event"] + damage[g]])

\* After the signal main comes to its end.
ShutdownReturns == main.pc = "announce" ~> main.pc = "returned"
=============================================================================
