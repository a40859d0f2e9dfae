------------------------ MODULE DataPublisherProofs ------------------------
(***************************************************************************)
(* The messages on the sockets and the counters that check_status reports, *)
(* for any number of frames, any types and any refusals: every frame is    *)
(* counted once, and broken messages and wrong counts stay within what was *)
(* refused or interrupted.                                                 *)
(***************************************************************************)
EXTENDS DataPublisher, TLAPS

Pieces == [frame : Nat, part : Nat, n : Nat]

Threads == [pc : {"idle", "send", "count", "ended"}, group : Groups, n : Nat, next : Nat]

Stats == [sent : [Groups -> Nat], dropped : Nat, shutdown : Nat]

Mains == [pc : {"start", "serve", "announce", "stop", "join", "destroy", "leave", "returned"},
          i : 1 .. Len(GroupOrder)]

\* Values of the variables.
PublisherType ==
    /\ unended \in [Groups -> Seq(Pieces)]
    /\ accepted \in [Groups -> [Kinds -> Nat]]
    /\ arrived \in [Groups -> [Kinds -> Nat]]
    /\ damage \in [Groups -> Nat]
    /\ taken \in Nat
    /\ publisher \in Threads
    /\ stats \in Stats
    /\ main \in Mains

\* A frame has a number that the event has not, and at least one part; the
\* thread does not run before start().
PublisherPlaces ==
    /\ \A g \in Groups : \A i \in 1 .. Len(unended[g]) : unended[g][i].frame # 0
    /\ publisher.pc = "send" =>
          taken # 0 /\ publisher.n # 0 /\ publisher.next <= publisher.n
    /\ main.pc = "start" => publisher.pc = "ended"

\* The pieces the thread has sent of its frame.
Begun == [k \in 1 .. publisher.next |-> Piece(taken, k - 1, publisher.n)]

\* The message that is open on the socket of g will end as a broken one: it is
\* not the beginning of the frame the thread is at.
Spoilt(g) ==
    IF publisher.pc = "send" /\ publisher.group = g THEN unended[g] # Begun
                                                    ELSE unended[g] # <<>>

Due(g) == IF Spoilt(g) THEN 1 ELSE 0

\* The accepted messages of one group, with the one that is open, against the
\* damage and the counter.
InOrder(g) ==
    /\ accepted[g]["broken"] + Due(g) <= damage[g]
    /\ accepted[g]["whole"] <= stats.sent[g] + Uncounted(g)
    /\ stats.sent[g] + Uncounted(g) + Due(g) <= accepted[g]["whole"] + damage[g]

\* What a subscriber got, the socket had taken.
FewerArrive == \A g \in Groups : \A k \in Kinds : arrived[g][k] <= accepted[g][k]

PublisherIInv == PublisherType /\ PublisherPlaces

\* The events the sockets took, and those with what was damaged.
Events == [g \in Groups |-> accepted[g]["event"]]
EventsOrDamage == [g \in Groups |-> accepted[g]["event"] + damage[g]]

\* ShutdownIsCounted, of the accepted events.
EventsCounted ==
    /\ Total(Events) <= stats.shutdown
    /\ stats.shutdown <= Total(EventsOrDamage)

CountsInv ==
    /\ \A g \in Groups : InOrder(g)
    /\ EveryFrameCounted
    /\ EventsCounted
    /\ FewerArrive

-----------------------------------------------------------------------------
(* Messages.                                                                *)

LEMMA PieceFields ==
    ASSUME NEW id, NEW k, NEW n
    PROVE  Piece(id, k, n).frame = id /\ Piece(id, k, n).n = n
  BY DEF Piece

LEMMA PieceTyped ==
    ASSUME NEW id \in Nat, NEW k \in Nat, NEW n \in Nat
    PROVE  Piece(id, k, n) \in Pieces
  BY DEF Piece, Pieces

LEMMA EventTyped == Event \in Pieces /\ Event.frame = 0
  BY PieceTyped, PieceFields DEF Event

LEMMA KindTyped == ASSUME NEW m PROVE Kind(m) \in Kinds
  BY DEF Kind, Kinds

\* An event on a socket with no open message.
LEMMA KindOfEvent == Kind(Append(<<>>, Event)) = "event"
<1>1. Append(<<>>, Event) = <<Event>>
  OBVIOUS
<1> QED
  BY <1>1 DEF Kind

\* An event inside a message.
LEMMA KindOfSpoilt ==
    ASSUME NEW u \in Seq(Pieces), u # <<>>, u[1].frame # 0
    PROVE  Kind(Append(u, Event)) = "broken"
<1> DEFINE m == Append(u, Event)
<1>1. /\ Len(u) \in Nat /\ Len(u) # 0 /\ Len(m) = Len(u) + 1
      /\ m[1] = u[1] /\ m[Len(u) + 1] = Event /\ m \in Seq(Pieces)
  BY EventTyped
<1>2. m # <<Event>>
  BY <1>1
<1>3. ASSUME m = Message(m[1].frame, m[1].n)
      PROVE  FALSE
  <2>1. DOMAIN m = 1 .. Len(u) + 1
    BY <1>1
  <2>2. Len(u) + 1 \in DOMAIN Message(m[1].frame, m[1].n)
    BY <1>1, <1>3, <2>1
  <2>3. Message(m[1].frame, m[1].n)[Len(u) + 1].frame = m[1].frame
    BY <2>2, PieceFields DEF Message
  <2> QED
    BY <1>1, <1>3, <2>3, EventTyped
<1> QED
  BY <1>2, <1>3 DEF Kind

\* A message that ends with a part is no event.
LEMMA KindOfPart ==
    ASSUME NEW u \in Seq(Pieces), NEW p \in Pieces, p.frame # 0
    PROVE  Kind(Append(u, p)) # "event"
<1>1. Append(u, p)[Len(u) + 1] = p /\ Len(Append(u, p)) = Len(u) + 1 /\ Len(u) \in Nat
  OBVIOUS
<1>2. ASSUME Append(u, p) = <<Event>>
      PROVE  FALSE
  <2>1. Len(u) = 0 /\ p = Event
    BY <1>1, <1>2
  <2> QED
    BY <2>1, EventTyped
<1> QED
  BY <1>2 DEF Kind

\* The pieces of a frame, one after the other, make its message.
LEMMA BegunGrows ==
    ASSUME NEW id \in Nat, NEW n \in Nat, NEW k \in Nat
    PROVE  Append([j \in 1 .. k |-> Piece(id, j - 1, n)], Piece(id, k, n))
             = [j \in 1 .. k + 1 |-> Piece(id, j - 1, n)]
<1> DEFINE u == [j \in 1 .. k |-> Piece(id, j - 1, n)]
           v == [j \in 1 .. k + 1 |-> Piece(id, j - 1, n)]
           m == Append(u, Piece(id, k, n))
<1>1. u \in Seq(Pieces) /\ Len(u) = k
  BY PieceTyped
<1>2. m \in Seq(Pieces) /\ Len(m) = k + 1
  BY <1>1, PieceTyped
<1>3. v \in Seq(Pieces) /\ Len(v) = k + 1
  BY PieceTyped
<1>4. ASSUME NEW j \in 1 .. k + 1
      PROVE  m[j] = v[j]
  <2>1. CASE j = k + 1
    BY <1>1, <2>1, PieceTyped
  <2>2. CASE j # k + 1
    <3>1. j \in 1 .. k
      BY <2>2
    <3> QED
      BY <1>1, <3>1, PieceTyped
  <2> QED
    BY <2>1, <2>2
<1> HIDE DEF m, v
<1>5. m = v
  BY <1>2, <1>3, <1>4
<1> QED
  BY <1>5 DEF m, v

LEMMA KindOfFrame ==
    ASSUME NEW id \in Nat, NEW n \in Nat, id # 0
    PROVE  Kind(Append([j \in 1 .. n |-> Piece(id, j - 1, n)], Piece(id, n, n))) = "whole"
<1> DEFINE m == [j \in 1 .. n + 1 |-> Piece(id, j - 1, n)]
<1>1. m[1] = Piece(id, 0, n)
  OBVIOUS
<1>2. m = Message(m[1].frame, m[1].n)
  BY <1>1, PieceFields DEF Message
<1>3. m # <<Event>>
  <2>1. m[1].frame = id
    BY <1>1, PieceFields
  <2> QED
    BY <2>1, EventTyped
<1>4. Kind(m) = "whole"
  BY <1>2, <1>3 DEF Kind
<1> QED
  BY <1>4, BegunGrows

-----------------------------------------------------------------------------
(* What a send does.                                                        *)

LEMMA AcceptsOpen ==
    ASSUME PublisherType, NEW g \in Groups, NEW p \in Pieces, Accepts(g, p, TRUE)
    PROVE  /\ accepted' = accepted /\ arrived' = arrived
           /\ unended' = [unended EXCEPT ![g] = Append(unended[g], p)]
           /\ unended' \in [Groups -> Seq(Pieces)]
<1>1. /\ accepted' = accepted /\ arrived' = arrived
      /\ unended' = [unended EXCEPT ![g] = Append(unended[g], p)]
  BY DEF Accepts
<1> QED
  BY <1>1 DEF PublisherType

LEMMA AcceptsLast ==
    ASSUME PublisherType, NEW g \in Groups, NEW p \in Pieces, Accepts(g, p, FALSE)
    PROVE  LET k == Kind(Append(unended[g], p))
           IN  /\ unended' = [unended EXCEPT ![g] = <<>>]
               /\ unended' \in [Groups -> Seq(Pieces)]
               /\ accepted' \in [Groups -> [Kinds -> Nat]]
               /\ arrived' \in [Groups -> [Kinds -> Nat]]
               /\ \A h \in Groups \ {g} : accepted'[h] = accepted[h]
               /\ accepted'[g][k] = accepted[g][k] + 1
               /\ \A j \in Kinds \ {k} : accepted'[g][j] = accepted[g][j]
<1> DEFINE k == Kind(Append(unended[g], p))
<1>1. k \in Kinds
  BY KindTyped
<1>2. /\ unended' = [unended EXCEPT ![g] = <<>>]
      /\ accepted' = [accepted EXCEPT ![g][k] = @ + 1]
      /\ arrived' \in {arrived, [arrived EXCEPT ![g][k] = @ + 1]}
  BY DEF Accepts
<1>3. unended' \in [Groups -> Seq(Pieces)]
  BY <1>2 DEF PublisherType
<1> HIDE DEF k
<1>4. /\ accepted' \in [Groups -> [Kinds -> Nat]]
      /\ \A h \in Groups \ {g} : accepted'[h] = accepted[h]
      /\ accepted'[g][k] = accepted[g][k] + 1
      /\ \A j \in Kinds \ {k} : accepted'[g][j] = accepted[g][j]
  BY <1>1, <1>2 DEF PublisherType
<1>5. arrived' \in [Groups -> [Kinds -> Nat]]
  <2>1. CASE arrived' = arrived
    BY <2>1 DEF PublisherType
  <2>2. CASE arrived' = [arrived EXCEPT ![g][k] = @ + 1]
    BY <1>1, <2>2 DEF PublisherType
  <2> QED
    BY <1>2, <2>1, <2>2
<1> QED
  BY <1>2, <1>3, <1>4, <1>5 DEF k

\* A message that arrives was accepted.
LEMMA AcceptsFewer ==
    ASSUME PublisherType, FewerArrive, NEW g \in Groups, NEW p, NEW more \in BOOLEAN,
           Accepts(g, p, more)
    PROVE  FewerArrive'
<1>1. CASE more
  BY <1>1 DEF Accepts, FewerArrive
<1>2. CASE ~more
  <2> DEFINE k == Kind(Append(unended[g], p))
  <2>1. /\ accepted' = [accepted EXCEPT ![g][k] = @ + 1] /\ k \in Kinds
        /\ arrived' \in {arrived, [arrived EXCEPT ![g][k] = @ + 1]}
    BY <1>2, KindTyped DEF Accepts
  <2> HIDE DEF k
  <2>2. ASSUME NEW h \in Groups, NEW j \in Kinds
        PROVE  arrived'[h][j] <= accepted'[h][j]
    <3>1. /\ arrived[h][j] \in Nat /\ accepted[h][j] \in Nat
          /\ arrived[h][j] <= accepted[h][j]
      BY DEF PublisherType, FewerArrive
    <3>2. CASE h = g /\ j = k
      <4>1. /\ accepted'[h][j] = accepted[h][j] + 1
            /\ arrived'[h][j] \in {arrived[h][j], arrived[h][j] + 1}
        BY <2>1, <3>2 DEF PublisherType
      <4> QED
        BY <3>1, <4>1
    <3>3. CASE ~(h = g /\ j = k)
      <4>1. accepted'[h][j] = accepted[h][j] /\ arrived'[h][j] = arrived[h][j]
        BY <2>1, <3>3 DEF PublisherType
      <4> QED
        BY <3>1, <4>1
    <3> QED
      BY <3>2, <3>3
  <2> QED
    BY <2>2 DEF FewerArrive
<1> QED
  BY <1>1, <1>2

LEMMA FewerStep ==
    ASSUME PublisherIInv, [PublisherNext]_publisherVars, FewerArrive
    PROVE  FewerArrive'
<1>0. PublisherType
  BY DEF PublisherIInv
<1>1. CASE PieceSent
  <2>1. publisher.group \in Groups
    BY <1>0 DEF PublisherType, Threads
  <2> QED
    BY <1>0, <1>1, <2>1, AcceptsFewer DEF PieceSent
<1>2. CASE EventSent
  <2>1. GroupOrder[main.i] \in Groups
    BY <1>0 DEF PublisherType, Mains, GroupOrder, Groups
  <2> QED
    BY <1>0, <1>2, <2>1, AcceptsFewer DEF EventSent
<1>3. CASE \/ \E g \in Groups : \E n \in 1 .. MostParts(g) : PublisherTakes(g, n)
           \/ PieceRefused \/ PublisherCounts \/ PublisherEnds \/ StartOpens
           \/ StartFails \/ MainAnnounces \/ MainStopsPublisher \/ MainJoinsPublisher
           \/ MainReturns \/ EventRefused \/ UNCHANGED publisherVars
  <2>1. UNCHANGED <<accepted, arrived>>
    BY <1>3 DEF PublisherTakes, PieceRefused, PublisherCounts, PublisherEnds, StartOpens,
                StartFails, MainAnnounces, MainStopsPublisher, MainJoinsPublisher,
                MainReturns, EventRefused, publisherVars
  <2> QED
    BY <2>1 DEF FewerArrive
<1> QED
  BY <1>1, <1>2, <1>3 DEF PublisherNext, PublisherStep, MainStep

\* The piece a thread in send is at.
LEMMA PieceAtHand ==
    ASSUME PublisherType, PublisherPlaces, publisher.pc = "send"
    PROVE  LET p == Piece(taken, publisher.next, publisher.n)
           IN  p \in Pieces /\ p.frame # 0
<1>1. taken \in Nat /\ publisher.next \in Nat /\ publisher.n \in Nat /\ taken # 0
  BY DEF PublisherType, PublisherPlaces, Threads
<1> QED
  BY <1>1, PieceTyped, PieceFields

LEMMA OrderTyped ==
    /\ Len(GroupOrder) = 3
    /\ \A i \in 1 .. Len(GroupOrder) : GroupOrder[i] \in Groups
  BY DEF GroupOrder, Groups

-----------------------------------------------------------------------------
(* Types and places.                                                        *)

\* The places of the thread and of main, and the counters.
LEMMA ThreadMoves ==
    ASSUME publisher \in Threads
    PROVE  /\ publisher.group \in Groups /\ publisher.n \in Nat /\ publisher.next \in Nat
           /\ \A pc \in {"count", "ended"} :
                 LET p == [publisher EXCEPT !.pc = pc]
                 IN  p \in Threads /\ p.pc = pc /\ p.group = publisher.group
           /\ publisher.pc = "send" =>
                 LET p == [publisher EXCEPT !.next = @ + 1]
                 IN  /\ p \in Threads /\ p.pc = "send" /\ p.group = publisher.group
                     /\ p.n = publisher.n /\ p.next = publisher.next + 1
  BY DEF Threads

LEMMA ThreadBegins ==
    ASSUME NEW g \in Groups, NEW n \in Nat
    PROVE  LET p == [pc |-> "send", group |-> g, n |-> n, next |-> 0]
           IN  p \in Threads /\ p.pc = "send" /\ p.group = g /\ p.n = n /\ p.next = 0
  BY DEF Threads

LEMMA IdleTyped == Idle \in Threads /\ Idle.pc = "idle"
  BY OrderTyped DEF Idle, Threads

LEMMA StatsMove ==
    ASSUME stats \in Stats
    PROVE  /\ stats.sent \in [Groups -> Nat] /\ stats.dropped \in Nat
           /\ stats.shutdown \in Nat
           /\ LET s == [stats EXCEPT !.dropped = @ + 1]
              IN  /\ s \in Stats /\ s.sent = stats.sent
                  /\ s.dropped = stats.dropped + 1 /\ s.shutdown = stats.shutdown
           /\ LET s == [stats EXCEPT !.shutdown = @ + 1]
              IN  /\ s \in Stats /\ s.sent = stats.sent
                  /\ s.dropped = stats.dropped /\ s.shutdown = stats.shutdown + 1
  BY DEF Stats

LEMMA StatsCount ==
    ASSUME stats \in Stats, NEW g \in Groups
    PROVE  LET s == [stats EXCEPT !.sent[g] = @ + 1]
           IN  /\ s \in Stats /\ s.sent = [stats.sent EXCEPT ![g] = @ + 1]
               /\ s.dropped = stats.dropped /\ s.shutdown = stats.shutdown
  BY DEF Stats

LEMMA MainTyped ==
    /\ \A pc \in {"start", "serve", "announce", "stop", "join", "destroy", "leave", "returned"} :
          MainAt(pc, 1) \in Mains /\ MainAt(pc, 1).pc = pc
    /\ \A m \in Mains : m.i \in 1 .. Len(GroupOrder) /\ GroupOrder[m.i] \in Groups
  BY OrderTyped DEF MainAt, Mains

LEMMA NextSocketTyped ==
    ASSUME main \in Mains, NextSocket
    PROVE  main' \in Mains /\ main'.pc # "start"
<1>1. CASE main.i < Len(GroupOrder)
  <2>1. main.i + 1 \in 1 .. Len(GroupOrder)
    BY <1>1, OrderTyped DEF Mains
  <2> QED
    BY <1>1, <2>1 DEF NextSocket, MainAt, Mains
<1>2. CASE ~(main.i < Len(GroupOrder))
  BY <1>2, MainTyped DEF NextSocket
<1> QED
  BY <1>1, <1>2

LEMMA PublisherTypeInit == PublisherInit => PublisherIInv
<1> SUFFICES ASSUME PublisherInit PROVE PublisherIInv
  OBVIOUS
<1>1. publisher \in Threads /\ publisher.pc = "ended"
  <2>1. publisher = [Idle EXCEPT !.pc = "ended"]
    BY DEF PublisherInit
  <2> QED
    BY <2>1, OrderTyped DEF Idle, Threads
<1>2. unended \in [Groups -> Seq(Pieces)] /\ \A g \in Groups : unended[g] = <<>>
  BY DEF PublisherInit
<1>3. main \in Mains /\ stats \in Stats
  BY MainTyped DEF PublisherInit, Stats
<1>4. PublisherType
  BY <1>1, <1>2, <1>3 DEF PublisherInit, PublisherType
<1> QED
  BY <1>1, <1>2, <1>4 DEF PublisherIInv, PublisherPlaces

\* Steps that send nothing.
LEMMA TypeKept ==
    ASSUME PublisherIInv, UNCHANGED <<unended, accepted, arrived>>,
           damage' \in [Groups -> Nat], taken' \in Nat,
           publisher' \in Threads, stats' \in Stats, main' \in Mains,
           publisher'.pc = "send" =>
              taken' # 0 /\ publisher'.n # 0 /\ publisher'.next <= publisher'.n,
           main'.pc = "start" => publisher'.pc = "ended"
    PROVE  PublisherIInv'
  BY DEF PublisherIInv, PublisherType, PublisherPlaces

LEMMA PieceSentTyped ==
    ASSUME PublisherIInv, PieceSent
    PROVE  PublisherIInv'
<1> USE DEF PublisherIInv
<1> DEFINE G == publisher.group
           p == Piece(taken, publisher.next, publisher.n)
           last == publisher.next = publisher.n
<1>1. /\ publisher.pc = "send" /\ Accepts(G, p, ~last)
      /\ publisher' = IF last THEN [publisher EXCEPT !.pc = "count"]
                              ELSE [publisher EXCEPT !.next = @ + 1]
      /\ UNCHANGED <<damage, taken, stats, main>>
  BY DEF PieceSent
<1>2. p \in Pieces /\ p.frame # 0 /\ G \in Groups
  BY <1>1, PieceAtHand, ThreadMoves DEF PublisherType
<1>3. /\ publisher.next <= publisher.n /\ publisher.n # 0 /\ taken # 0
      /\ main.pc # "start"
      /\ publisher.next \in Nat /\ publisher.n \in Nat
  BY <1>1, ThreadMoves DEF PublisherType, PublisherPlaces
<1>4. /\ publisher' \in Threads
      /\ publisher'.pc = "send" => publisher'.n # 0 /\ publisher'.next <= publisher'.n
  <2>1. CASE last
    BY <1>1, <2>1, ThreadMoves DEF PublisherType
  <2>2. CASE ~last
    BY <1>1, <1>3, <2>2, ThreadMoves DEF PublisherType
  <2> QED
    BY <2>1, <2>2
<1> HIDE DEF p, G
<1>5. CASE last
  <2>1. Accepts(G, p, FALSE)
    BY <1>1, <1>5
  <2>2. /\ unended' \in [Groups -> Seq(Pieces)]
        /\ accepted' \in [Groups -> [Kinds -> Nat]]
        /\ arrived' \in [Groups -> [Kinds -> Nat]]
        /\ unended' = [unended EXCEPT ![G] = <<>>]
    BY <1>2, <2>1, AcceptsLast
  <2>3. PublisherType'
    BY <1>1, <1>4, <2>2 DEF PublisherType
  <2>4. \A g \in Groups : \A i \in 1 .. Len(unended'[g]) : unended'[g][i].frame # 0
    BY <1>2, <2>2 DEF PublisherType, PublisherPlaces
  <2> QED
    BY <1>1, <1>3, <1>4, <2>3, <2>4 DEF PublisherPlaces
<1>6. CASE ~last
  <2>1. Accepts(G, p, TRUE)
    BY <1>1, <1>6
  <2>2. /\ unended' \in [Groups -> Seq(Pieces)] /\ UNCHANGED <<accepted, arrived>>
        /\ unended' = [unended EXCEPT ![G] = Append(unended[G], p)]
    BY <1>2, <2>1, AcceptsOpen
  <2>3. PublisherType'
    BY <1>1, <1>4, <2>2 DEF PublisherType
  <2>4. ASSUME NEW g \in Groups, NEW i \in 1 .. Len(unended'[g])
        PROVE  unended'[g][i].frame # 0
    <3>1. CASE g # G
      BY <2>2, <2>4, <3>1 DEF PublisherType, PublisherPlaces
    <3>2. CASE g = G
      <4>1. unended'[g] = Append(unended[g], p) /\ unended[g] \in Seq(Pieces)
        BY <2>2, <3>2 DEF PublisherType
      <4>2. \/ i \in 1 .. Len(unended[g]) /\ unended'[g][i] = unended[g][i]
            \/ unended'[g][i] = p
        BY <2>4, <4>1, <1>2
      <4> QED
        BY <1>2, <4>2 DEF PublisherPlaces
    <3> QED
      BY <3>1, <3>2
  <2> QED
    BY <1>1, <1>3, <1>4, <2>3, <2>4 DEF PublisherPlaces
<1> QED
  BY <1>5, <1>6

LEMMA EventSentTyped ==
    ASSUME PublisherIInv, EventSent
    PROVE  PublisherIInv'
<1> USE DEF PublisherIInv
<1> DEFINE G == GroupOrder[main.i]
<1>1. /\ Accepts(G, Event, FALSE)
      /\ damage' = [damage EXCEPT ![G] = IF unended[G] # <<>> THEN @ + 2 ELSE @]
      /\ stats' = [stats EXCEPT !.shutdown = @ + 1]
      /\ UNCHANGED <<taken, publisher>> /\ NextSocket
  BY DEF EventSent
<1>2. G \in Groups /\ stats' \in Stats /\ main' \in Mains /\ main'.pc # "start"
  BY <1>1, MainTyped, StatsMove, NextSocketTyped DEF PublisherType
<1> HIDE DEF G
<1>3. /\ unended' \in [Groups -> Seq(Pieces)]
      /\ accepted' \in [Groups -> [Kinds -> Nat]]
      /\ arrived' \in [Groups -> [Kinds -> Nat]]
      /\ unended' = [unended EXCEPT ![G] = <<>>]
  BY <1>1, <1>2, AcceptsLast, EventTyped
<1>4. \A g \in Groups : \A i \in 1 .. Len(unended'[g]) : unended'[g][i].frame # 0
  BY <1>2, <1>3 DEF PublisherType, PublisherPlaces
<1>5. damage' \in [Groups -> Nat]
  BY <1>1, <1>2 DEF PublisherType
<1>6. PublisherType'
  BY <1>1, <1>2, <1>3, <1>5 DEF PublisherType
<1> QED
  BY <1>1, <1>2, <1>4, <1>6 DEF PublisherPlaces

LEMMA PublisherTypeStep ==
    ASSUME PublisherIInv, [PublisherNext]_publisherVars
    PROVE  PublisherIInv'
<1>0. /\ publisher \in Threads /\ stats \in Stats /\ main \in Mains
      /\ damage \in [Groups -> Nat] /\ taken \in Nat
      /\ publisher.pc = "send" =>
            taken # 0 /\ publisher.n # 0 /\ publisher.next <= publisher.n
      /\ main.pc = "start" => publisher.pc = "ended"
  BY DEF PublisherIInv, PublisherType, PublisherPlaces
<1>1. ASSUME NEW g \in Groups, NEW n \in 1 .. MostParts(g), PublisherTakes(g, n)
      PROVE  PublisherIInv'
  <2>1. n \in Nat /\ n # 0 /\ taken' = taken + 1 /\ publisher.pc = "idle"
    BY <1>1 DEF PublisherTakes
  <2>2. /\ publisher' \in Threads /\ publisher'.n = n /\ publisher'.next = 0
    BY <1>1, <2>1, ThreadBegins DEF PublisherTakes
  <2> QED
    BY <1>0, <1>1, <2>1, <2>2, TypeKept DEF PublisherTakes
<1>2. CASE PieceRefused
  <2>1. damage' \in [Groups -> Nat]
    BY <1>0, <1>2, ThreadMoves DEF PieceRefused
  <2> QED
    BY <1>0, <1>2, <2>1, StatsMove, IdleTyped, TypeKept DEF PieceRefused
<1>3. CASE PublisherCounts
  BY <1>0, <1>3, ThreadMoves, StatsCount, IdleTyped, TypeKept DEF PublisherCounts
<1>4. CASE PublisherEnds
  BY <1>0, <1>4, ThreadMoves, TypeKept DEF PublisherEnds
<1>5. CASE StartOpens
  BY <1>0, <1>5, IdleTyped, MainTyped, TypeKept DEF StartOpens
<1>6. CASE StartFails \/ MainAnnounces \/ MainStopsPublisher \/ MainJoinsPublisher
           \/ MainReturns
  <2>1. /\ UNCHANGED <<unended, accepted, arrived, damage, taken, publisher, stats>>
        /\ main' \in Mains /\ main'.pc # "start"
    BY <1>6, MainTyped
       DEF StartFails, MainAnnounces, MainStopsPublisher, MainJoinsPublisher, MainReturns
  <2> QED
    BY <1>0, <2>1, TypeKept
<1>7. CASE EventRefused
  BY <1>0, <1>7, NextSocketTyped, TypeKept DEF EventRefused
<1>8. CASE UNCHANGED publisherVars
  BY <1>0, <1>8, TypeKept DEF publisherVars
<1> QED
  BY <1>1, <1>2, <1>3, <1>4, <1>5, <1>6, <1>7, <1>8, PieceSentTyped, EventSentTyped
     DEF PublisherNext, PublisherStep, MainStep

\* Publisher: the values of the variables, for any frames and any refusals.
THEOREM PublisherTypeCorrect == PublisherSpec => []PublisherIInv
<1> QED
  BY PublisherTypeInit, PublisherTypeStep, PTL DEF PublisherSpec

-----------------------------------------------------------------------------
(* Damage.                                                                  *)

LEMMA Numbers ==
    ASSUME PublisherIInv, NEW g \in Groups
    PROVE  /\ \A k \in Kinds : accepted[g][k] \in Nat
           /\ "broken" \in Kinds /\ "whole" \in Kinds /\ "event" \in Kinds
           /\ damage[g] \in Nat /\ stats.sent[g] \in Nat
           /\ Uncounted(g) \in {0, 1} /\ Due(g) \in {0, 1}
  BY DEF PublisherIInv, PublisherType, Stats, Kinds, Uncounted, Due

LEMMA OrderKept ==
    ASSUME PublisherIInv, PublisherIInv', NEW g \in Groups, InOrder(g),
           accepted'[g] = accepted[g],
           stats'.sent[g] + Uncounted(g)' = stats.sent[g] + Uncounted(g),
           damage[g] <= damage'[g],
           Due(g)' + damage[g] <= Due(g) + damage'[g]
    PROVE  InOrder(g)'
<1>1. Uncounted(g)' \in {0, 1} /\ Due(g)' \in {0, 1}
  BY DEF Uncounted, Due
<1>2. damage'[g] \in Nat /\ stats'.sent[g] \in Nat
  BY DEF PublisherIInv, PublisherType, Stats
<1> QED
  BY <1>1, <1>2, Numbers DEF InOrder

\* The message of another group than the thread's.
LEMMA SpoiltElsewhere ==
    ASSUME NEW g \in Groups, unended'[g] = unended[g],
           publisher.pc # "send" \/ publisher.group # g,
           publisher'.pc # "send" \/ publisher'.group # g
    PROVE  Due(g)' = Due(g)
  BY DEF Due, Spoilt

\* A frame of which nothing is sent yet.
LEMMA NothingBegun ==
    ASSUME publisher.pc = "send" => publisher.next = 0, NEW g \in Groups
    PROVE  Spoilt(g) <=> unended[g] # <<>>
<1>1. publisher.pc = "send" => Begun = <<>>
  BY DEF Begun
<1> QED
  BY <1>1 DEF Spoilt

LEMMA PieceSentOrder ==
    ASSUME PublisherIInv, PublisherIInv', PieceSent, NEW g \in Groups, InOrder(g)
    PROVE  InOrder(g)'
<1> DEFINE G == publisher.group
           p == Piece(taken, publisher.next, publisher.n)
           last == publisher.next = publisher.n
<1>1. /\ publisher.pc = "send" /\ Accepts(G, p, ~last)
      /\ publisher' = IF last THEN [publisher EXCEPT !.pc = "count"]
                              ELSE [publisher EXCEPT !.next = @ + 1]
      /\ UNCHANGED <<damage, taken, stats>>
  BY DEF PieceSent
<1>2. /\ PublisherType /\ PublisherPlaces /\ p \in Pieces /\ p.frame # 0 /\ G \in Groups
      /\ publisher.next \in Nat /\ publisher.n \in Nat /\ taken \in Nat /\ taken # 0
      /\ unended[G] \in Seq(Pieces)
  BY <1>1, PieceAtHand, ThreadMoves DEF PublisherIInv, PublisherType, PublisherPlaces
<1>3. /\ publisher'.group = G
      /\ last => publisher'.pc = "count"
      /\ ~last => /\ publisher'.pc = "send" /\ publisher'.n = publisher.n
                  /\ publisher'.next = publisher.next + 1
  BY <1>1, <1>2, ThreadMoves DEF PublisherType
<1>4. Uncounted(g) = 0 /\ damage'[g] = damage[g] /\ stats'.sent[g] = stats.sent[g]
  BY <1>1 DEF Uncounted
<1> HIDE DEF p, G
<1>5. CASE ~last
  <2>1. accepted' = accepted /\ unended' = [unended EXCEPT ![G] = Append(unended[G], p)]
    BY <1>1, <1>2, <1>5, AcceptsOpen
  <2>2. Uncounted(g)' = 0
    BY <1>3, <1>5 DEF Uncounted
  <2>3. Begun' = Append(Begun, p)
    BY <1>1, <1>2, <1>3, <1>5, BegunGrows DEF Begun, p
  <2>4. Due(g)' <= Due(g)
    <3>1. CASE g # G
      <4>1. unended'[g] = unended[g]
        BY <1>2, <2>1, <3>1 DEF PublisherType
      <4> QED
        BY <1>3, <3>1, <4>1, SpoiltElsewhere DEF G, Due
    <3>2. CASE g = G
      <4>1. unended'[g] = Append(unended[g], p)
        BY <1>2, <2>1, <3>2 DEF PublisherType
      <4>2. Spoilt(g)' => Spoilt(g)
        BY <1>1, <1>3, <1>5, <2>3, <3>2, <4>1 DEF Spoilt, G
      <4> QED
        BY <4>2 DEF Due
    <3> QED
      BY <3>1, <3>2
  <2> QED
    BY <1>4, <2>1, <2>2, <2>4, Numbers, OrderKept DEF Due
<1>6. CASE last
  <2>1. LET k == Kind(Append(unended[G], p))
        IN  /\ unended' = [unended EXCEPT ![G] = <<>>]
            /\ \A h \in Groups \ {G} : accepted'[h] = accepted[h]
            /\ accepted'[G][k] = accepted[G][k] + 1
            /\ \A j \in Kinds \ {k} : accepted'[G][j] = accepted[G][j]
    BY <1>1, <1>2, <1>6, AcceptsLast
  <2>2. CASE g # G
    <3>1. unended'[g] = unended[g] /\ accepted'[g] = accepted[g]
      BY <1>2, <2>1, <2>2 DEF PublisherType
    <3>2. Due(g)' = Due(g)
      BY <1>3, <2>2, <3>1, SpoiltElsewhere DEF G
    <3>3. Uncounted(g)' = 0
      BY <1>3, <2>2 DEF Uncounted
    <3> QED
      BY <1>4, <3>1, <3>2, <3>3, Numbers, OrderKept
  <2>3. CASE g = G
    <3> DEFINE k == Kind(Append(unended[g], p))
    <3>1. Uncounted(g)' = 1 /\ Due(g)' = 0
      BY <1>2, <1>3, <1>6, <2>1, <2>3 DEF PublisherType, Uncounted, Due, Spoilt
    <3>2. k \in Kinds /\ k # "event"
      BY <1>2, <2>3, KindTyped, KindOfPart
    <3>3. Due(g) = 0 => k = "whole"
      <4>1. Due(g) = 0 => unended[g] = Begun
        BY <1>1, <2>3 DEF Due, Spoilt, G
      <4>2. Kind(Append(Begun, p)) = "whole"
        BY <1>2, <1>6, KindOfFrame DEF Begun, p
      <4> QED
        BY <4>1, <4>2
    <3>4. /\ accepted'[g][k] = accepted[g][k] + 1
          /\ \A j \in Kinds \ {k} : accepted'[g][j] = accepted[g][j]
      BY <2>1, <2>3
    <3> HIDE DEF k
    <3>5. CASE k = "whole"
      BY <1>4, <3>1, <3>4, <3>5, Numbers DEF InOrder
    <3>6. CASE k = "broken"
      <4>1. Due(g) = 1
        BY <3>3, <3>6, Numbers
      <4> QED
        BY <1>4, <3>1, <3>4, <3>6, <4>1, Numbers DEF InOrder
    <3> QED
      BY <3>2, <3>5, <3>6 DEF Kinds
  <2> QED
    BY <2>2, <2>3
<1> QED
  BY <1>5, <1>6

LEMMA EventSentOrder ==
    ASSUME PublisherIInv, PublisherIInv', EventSent, NEW g \in Groups, InOrder(g)
    PROVE  InOrder(g)'
<1> DEFINE G == GroupOrder[main.i]
<1>1. /\ Accepts(G, Event, FALSE)
      /\ damage' = [damage EXCEPT ![G] = IF unended[G] # <<>> THEN @ + 2 ELSE @]
      /\ stats' = [stats EXCEPT !.shutdown = @ + 1]
      /\ UNCHANGED <<taken, publisher>>
  BY DEF EventSent
<1>2. /\ PublisherType /\ PublisherPlaces /\ G \in Groups
      /\ unended[G] \in Seq(Pieces) /\ stats'.sent = stats.sent
  BY <1>1, MainTyped, StatsMove DEF PublisherIInv, PublisherType
<1> HIDE DEF G
<1>3. LET k == Kind(Append(unended[G], Event))
      IN  /\ unended' = [unended EXCEPT ![G] = <<>>]
          /\ \A h \in Groups \ {G} : accepted'[h] = accepted[h]
          /\ accepted'[G][k] = accepted[G][k] + 1
          /\ \A j \in Kinds \ {k} : accepted'[G][j] = accepted[G][j]
  BY <1>1, <1>2, AcceptsLast, EventTyped
<1>4. /\ Uncounted(g)' = Uncounted(g) /\ stats'.sent[g] = stats.sent[g]
      /\ accepted[g]["broken"] \in Nat /\ accepted[g]["whole"] \in Nat
      /\ damage[g] \in Nat /\ stats.sent[g] \in Nat
      /\ Uncounted(g) \in {0, 1} /\ Due(g) \in {0, 1}
  BY <1>1, <1>2, Numbers DEF Uncounted
<1>5. CASE g # G
  <2>1. /\ unended'[g] = unended[g] /\ accepted'[g] = accepted[g]
        /\ damage'[g] = damage[g]
    BY <1>1, <1>2, <1>3, <1>5 DEF PublisherType
  <2>2. Due(g)' = Due(g)
    BY <1>1, <2>1 DEF Due, Spoilt, Begun
  <2> QED
    BY <1>4, <2>1, <2>2, OrderKept
<1>6. CASE g = G /\ unended[g] = <<>>
  <2>1. unended'[g] = unended[g] /\ damage'[g] = damage[g]
    BY <1>1, <1>2, <1>3, <1>6 DEF PublisherType
  <2>2. Due(g)' = Due(g)
    BY <1>1, <2>1 DEF Due, Spoilt, Begun
  <2>3. /\ accepted'[g]["broken"] = accepted[g]["broken"]
        /\ accepted'[g]["whole"] = accepted[g]["whole"]
    BY <1>3, <1>6, KindOfEvent DEF Kinds
  <2> QED
    BY <1>4, <2>1, <2>2, <2>3 DEF InOrder
<1>7. CASE g = G /\ unended[g] # <<>>
  <2>1. damage'[g] = damage[g] + 2
    BY <1>1, <1>2, <1>7 DEF PublisherType
  <2>2. unended[g][1].frame # 0
    <3>1. 1 \in 1 .. Len(unended[g])
      BY <1>2, <1>7
    <3> QED
      BY <3>1, <1>2 DEF PublisherPlaces
  <2>3. Kind(Append(unended[g], Event)) = "broken"
    BY <1>2, <1>7, <2>2, KindOfSpoilt
  <2>4. /\ accepted'[g]["broken"] = accepted[g]["broken"] + 1
        /\ accepted'[g]["whole"] = accepted[g]["whole"]
    BY <1>3, <1>7, <2>3 DEF Kinds
  <2>5. Due(g)' \in {0, 1}
    BY DEF Due
  <2> QED
    BY <1>4, <2>1, <2>4, <2>5 DEF InOrder
<1> QED
  BY <1>5, <1>6, <1>7

LEMMA PieceRefusedOrder ==
    ASSUME PublisherIInv, PublisherIInv', PieceRefused, NEW g \in Groups, InOrder(g)
    PROVE  InOrder(g)'
<1> DEFINE G == publisher.group
<1>1. /\ publisher.pc = "send" /\ publisher' = Idle
      /\ damage' = [damage EXCEPT ![G] = IF publisher.next > 0 THEN @ + 1 ELSE @]
      /\ UNCHANGED <<unended, accepted, arrived>> /\ stats'.sent = stats.sent
  BY StatsMove DEF PieceRefused, PublisherIInv, PublisherType
<1>2. /\ G \in Groups /\ publisher.next \in Nat /\ damage \in [Groups -> Nat]
      /\ publisher'.pc = "idle"
  BY <1>1, ThreadMoves, IdleTyped DEF PublisherIInv, PublisherType
<1>3. Uncounted(g)' = 0 /\ Uncounted(g) = 0
  BY <1>1, <1>2 DEF Uncounted
<1>4. CASE g # G \/ publisher.next = 0
  <2>1. damage'[g] = damage[g]
    BY <1>1, <1>2, <1>4
  <2>2. Due(g)' = Due(g)
    <3>1. CASE g # G
      BY <1>1, <1>2, <3>1, SpoiltElsewhere
    <3>2. CASE publisher.next = 0
      BY <1>1, <1>2, <3>2, NothingBegun DEF Due, Spoilt
    <3> QED
      BY <1>4, <3>1, <3>2
  <2> QED
    BY <1>1, <1>3, <2>1, <2>2, Numbers, OrderKept
<1>5. CASE g = G /\ publisher.next # 0
  <2>1. damage'[g] = damage[g] + 1
    BY <1>1, <1>2, <1>5
  <2>2. Due(g)' \in {0, 1}
    BY DEF Due
  <2> QED
    BY <1>1, <1>3, <2>1, <2>2, Numbers, OrderKept
<1> QED
  BY <1>4, <1>5

LEMMA OrderStep ==
    ASSUME PublisherIInv, PublisherIInv', [PublisherNext]_publisherVars,
           NEW g \in Groups, InOrder(g)
    PROVE  InOrder(g)'
<1>0. /\ publisher \in Threads /\ stats \in Stats
      /\ main.pc = "start" => publisher.pc = "ended"
      /\ damage[g] \in Nat /\ stats.sent[g] \in Nat
  BY Numbers DEF PublisherIInv, PublisherType, PublisherPlaces
<1>1. ASSUME NEW G \in Groups, NEW n \in 1 .. MostParts(G), PublisherTakes(G, n)
      PROVE  InOrder(g)'
  <2>1. /\ publisher.pc = "idle" /\ publisher'.pc = "send" /\ publisher'.next = 0
        /\ UNCHANGED <<unended, accepted, arrived, damage, stats>>
    BY <1>1, ThreadBegins DEF PublisherTakes
  <2>2. Uncounted(g)' = Uncounted(g)
    BY <2>1 DEF Uncounted
  <2>3. Spoilt(g) <=> unended[g] # <<>>
    BY <2>1, NothingBegun
  <2>4. Spoilt(g)' <=> unended'[g] # <<>>
    <3>1. Begun' = <<>>
      BY <2>1 DEF Begun
    <3> QED
      BY <3>1 DEF Spoilt
  <2> QED
    BY <1>0, <2>1, <2>2, <2>3, <2>4, OrderKept DEF Due
<1>2. CASE PublisherCounts
  <2>1. /\ publisher.pc = "count" /\ publisher'.pc = "idle" /\ publisher.group \in Groups
        /\ UNCHANGED <<unended, accepted, arrived, damage>>
        /\ stats'.sent = [stats.sent EXCEPT ![publisher.group] = @ + 1]
    BY <1>0, <1>2, IdleTyped, ThreadMoves, StatsCount DEF PublisherCounts
  <2>2. stats'.sent[g] + Uncounted(g)' = stats.sent[g] + Uncounted(g)
    BY <1>0, <2>1, StatsMove DEF Uncounted
  <2>3. Due(g)' = Due(g)
    BY <2>1, SpoiltElsewhere
  <2> QED
    BY <1>0, <2>1, <2>2, <2>3, Numbers, OrderKept
<1>3. CASE PublisherEnds \/ StartOpens
  <2>1. /\ publisher.pc \notin {"send", "count"} /\ publisher'.pc \notin {"send", "count"}
        /\ UNCHANGED <<unended, accepted, arrived, damage, stats>>
    BY <1>0, <1>3, IdleTyped, ThreadMoves DEF PublisherEnds, StartOpens
  <2>2. Uncounted(g)' = Uncounted(g) /\ Due(g)' = Due(g)
    BY <2>1, SpoiltElsewhere DEF Uncounted
  <2> QED
    BY <1>0, <2>1, <2>2, Numbers, OrderKept
<1>4. CASE \/ StartFails \/ MainAnnounces \/ MainStopsPublisher \/ MainJoinsPublisher
           \/ MainReturns \/ EventRefused \/ UNCHANGED publisherVars
  <2>1. UNCHANGED <<unended, accepted, arrived, damage, taken, publisher, stats>>
    BY <1>4 DEF StartFails, MainAnnounces, MainStopsPublisher, MainJoinsPublisher,
                MainReturns, EventRefused, publisherVars
  <2>2. Uncounted(g)' = Uncounted(g) /\ Due(g)' = Due(g)
    BY <2>1 DEF Uncounted, Due, Spoilt, Begun
  <2> QED
    BY <1>0, <2>1, <2>2, Numbers, OrderKept
<1> QED
  BY <1>1, <1>2, <1>3, <1>4, PieceSentOrder, EventSentOrder, PieceRefusedOrder
     DEF PublisherNext, PublisherStep, MainStep

-----------------------------------------------------------------------------
(* Counts.                                                                  *)

LEMMA TotalGrows ==
    ASSUME NEW f \in [Groups -> Nat], NEW h \in [Groups -> Nat],
           \A g \in Groups : f[g] <= h[g]
    PROVE  Total(f) <= Total(h)
  BY DEF Total, Groups

LEMMA TotalTyped == ASSUME NEW f \in [Groups -> Nat] PROVE Total(f) \in Nat
  BY DEF Total, Groups

LEMMA TotalRises ==
    ASSUME NEW f \in [Groups -> Nat], NEW h \in [Groups -> Nat],
           NEW G \in Groups, NEW k \in Nat,
           h[G] = f[G] + k, \A g \in Groups \ {G} : h[g] = f[g]
    PROVE  Total(h) = Total(f) + k
  BY DEF Total, Groups

\* A frame is counted when the thread lets go of it.
LEMMA FrameCountStep ==
    ASSUME PublisherIInv, PublisherIInv', [PublisherNext]_publisherVars, EveryFrameCounted
    PROVE  EveryFrameCounted'
<1>0. /\ publisher \in Threads /\ stats \in Stats /\ taken \in Nat
      /\ main.pc = "start" => publisher.pc = "ended"
      /\ Total(stats.sent) \in Nat /\ stats.dropped \in Nat
      /\ taken = Total(stats.sent) + stats.dropped + InHand
  <2>1. /\ publisher \in Threads /\ stats \in Stats /\ taken \in Nat
        /\ main.pc = "start" => publisher.pc = "ended"
    BY DEF PublisherIInv, PublisherType, PublisherPlaces
  <2>2. stats.sent \in [Groups -> Nat] /\ stats.dropped \in Nat
    BY <2>1, StatsMove
  <2>3. Total(stats.sent) \in Nat
    BY <2>2, TotalTyped
  <2> QED
    BY <2>1, <2>2, <2>3 DEF EveryFrameCounted
<1>1. ASSUME NEW g \in Groups, NEW n \in 1 .. MostParts(g), PublisherTakes(g, n)
      PROVE  EveryFrameCounted'
  <2>1. InHand = 0 /\ InHand' = 1 /\ taken' = taken + 1 /\ stats' = stats
    BY <1>1, ThreadBegins DEF PublisherTakes, InHand
  <2> QED
    BY <1>0, <2>1 DEF EveryFrameCounted
<1>2. CASE PieceSent
  <2>1. publisher.pc = "send" /\ publisher'.pc \in {"send", "count"}
    BY <1>0, <1>2, ThreadMoves DEF PieceSent
  <2>2. InHand' = InHand /\ UNCHANGED <<taken, stats>>
    BY <1>2, <2>1 DEF InHand, PieceSent
  <2> QED
    BY <1>0, <2>2 DEF EveryFrameCounted
<1>3. CASE PieceRefused
  <2>1. /\ InHand = 1 /\ InHand' = 0 /\ taken' = taken
        /\ stats'.sent = stats.sent /\ stats'.dropped = stats.dropped + 1
    BY <1>0, <1>3, IdleTyped, StatsMove DEF PieceRefused, InHand
  <2> QED
    BY <1>0, <2>1 DEF EveryFrameCounted
<1>4. CASE PublisherCounts
  <2>1. /\ InHand = 1 /\ InHand' = 0 /\ taken' = taken /\ stats'.dropped = stats.dropped
        /\ stats'.sent = [stats.sent EXCEPT ![publisher.group] = @ + 1]
        /\ publisher.group \in Groups
    BY <1>0, <1>4, IdleTyped, ThreadMoves, StatsCount DEF PublisherCounts, InHand
  <2>2. Total(stats'.sent) = Total(stats.sent) + 1
    <3>1. stats.sent \in [Groups -> Nat] /\ stats'.sent \in [Groups -> Nat]
      BY <1>0, <2>1, StatsMove
    <3> QED
      BY <2>1, <3>1, TotalRises
  <2> QED
    BY <1>0, <2>1, <2>2 DEF EveryFrameCounted
<1>5. CASE PublisherEnds \/ StartOpens
  <2>1. InHand = 0 /\ InHand' = 0 /\ UNCHANGED <<taken, stats>>
    BY <1>0, <1>5, IdleTyped, ThreadMoves DEF PublisherEnds, StartOpens, InHand
  <2> QED
    BY <1>0, <2>1 DEF EveryFrameCounted
<1>6. CASE EventSent
  <2>1. InHand' = InHand /\ taken' = taken
        /\ stats'.sent = stats.sent /\ stats'.dropped = stats.dropped
    BY <1>0, <1>6, StatsMove DEF EventSent, InHand
  <2> QED
    BY <1>0, <2>1 DEF EveryFrameCounted
<1>7. CASE \/ StartFails \/ MainAnnounces \/ MainStopsPublisher \/ MainJoinsPublisher
           \/ MainReturns \/ EventRefused \/ UNCHANGED publisherVars
  <2>1. UNCHANGED <<taken, publisher, stats>>
    BY <1>7 DEF StartFails, MainAnnounces, MainStopsPublisher, MainJoinsPublisher,
                MainReturns, EventRefused, publisherVars
  <2> QED
    BY <1>0, <2>1 DEF EveryFrameCounted, InHand
<1> QED
  BY <1>1, <1>2, <1>3, <1>4, <1>5, <1>6, <1>7 DEF PublisherNext, PublisherStep, MainStep

LEMMA EventsTyped ==
    ASSUME PublisherIInv, PublisherIInv'
    PROVE  /\ Events \in [Groups -> Nat] /\ Events' \in [Groups -> Nat]
           /\ EventsOrDamage \in [Groups -> Nat] /\ EventsOrDamage' \in [Groups -> Nat]
<1>1. \A g \in Groups : /\ accepted[g]["event"] \in Nat /\ damage[g] \in Nat
                        /\ accepted'[g]["event"] \in Nat /\ damage'[g] \in Nat
  BY DEF PublisherIInv, PublisherType, Kinds
<1>2. Events \in [Groups -> Nat] /\ Events' \in [Groups -> Nat]
  BY <1>1 DEF Events
<1>3. EventsOrDamage \in [Groups -> Nat] /\ EventsOrDamage' \in [Groups -> Nat]
  BY <1>1 DEF EventsOrDamage
<1> QED
  BY <1>2, <1>3

\* An event is taken as one, or it has damaged a frame.
LEMMA EventSentCounted ==
    ASSUME PublisherIInv, PublisherIInv', EventSent, EventsCounted
    PROVE  EventsCounted'
<1> DEFINE G == GroupOrder[main.i]
<1>1. /\ Accepts(G, Event, FALSE)
      /\ damage' = [damage EXCEPT ![G] = IF unended[G] # <<>> THEN @ + 2 ELSE @]
      /\ stats'.shutdown = stats.shutdown + 1 /\ stats.shutdown \in Nat
  BY StatsMove DEF EventSent, PublisherIInv, PublisherType
<1>2. /\ PublisherType /\ PublisherPlaces /\ G \in Groups
      /\ unended[G] \in Seq(Pieces)
  BY <1>1, MainTyped DEF PublisherIInv, PublisherType
<1> HIDE DEF G
<1>3. LET k == Kind(Append(unended[G], Event))
      IN  /\ \A h \in Groups \ {G} : accepted'[h] = accepted[h]
          /\ accepted'[G][k] = accepted[G][k] + 1
          /\ \A j \in Kinds \ {k} : accepted'[G][j] = accepted[G][j]
  BY <1>1, <1>2, AcceptsLast, EventTyped
<1>4. /\ Events \in [Groups -> Nat] /\ Events' \in [Groups -> Nat]
      /\ EventsOrDamage \in [Groups -> Nat] /\ EventsOrDamage' \in [Groups -> Nat]
  BY EventsTyped
<1>5. \A g \in Groups \ {G} : Events'[g] = Events[g] /\ EventsOrDamage'[g] = EventsOrDamage[g]
  BY <1>1, <1>2, <1>3 DEF Events, EventsOrDamage, PublisherType
<1>6. CASE unended[G] = <<>>
  <2>1. accepted'[G]["event"] = accepted[G]["event"] + 1 /\ damage'[G] = damage[G]
    BY <1>1, <1>2, <1>3, <1>6, KindOfEvent DEF PublisherType
  <2>2. Events'[G] = Events[G] + 1 /\ EventsOrDamage'[G] = EventsOrDamage[G] + 1
    <3>1. accepted[G]["event"] \in Nat /\ damage[G] \in Nat
      BY <1>2, Numbers
    <3> QED
      BY <1>2, <2>1, <3>1 DEF Events, EventsOrDamage
  <2>3. /\ Total(Events') = Total(Events) + 1 /\ Total(EventsOrDamage') = Total(EventsOrDamage) + 1
        /\ Total(Events) \in Nat /\ Total(EventsOrDamage) \in Nat
    <3>1. Total(Events') = Total(Events) + 1
      <4>1. /\ Events \in [Groups -> Nat] /\ Events' \in [Groups -> Nat] /\ G \in Groups
            /\ \A g \in Groups \ {G} : Events'[g] = Events[g]
            /\ Events'[G] = Events[G] + 1
        BY <1>2, <1>4, <1>5, <2>2
      <4> QED
        BY <4>1, TotalRises
    <3>2. Total(EventsOrDamage') = Total(EventsOrDamage) + 1
      <4>1. /\ EventsOrDamage \in [Groups -> Nat] /\ EventsOrDamage' \in [Groups -> Nat] /\ G \in Groups
            /\ \A g \in Groups \ {G} : EventsOrDamage'[g] = EventsOrDamage[g]
            /\ EventsOrDamage'[G] = EventsOrDamage[G] + 1
        BY <1>2, <1>4, <1>5, <2>2
      <4> QED
        BY <4>1, TotalRises
    <3> QED
      BY <1>4, <3>1, <3>2, TotalTyped
  <2> QED
    BY <1>1, <2>3 DEF EventsCounted
<1>7. CASE unended[G] # <<>>
  <2>1. unended[G][1].frame # 0
    <3>1. 1 \in 1 .. Len(unended[G])
      BY <1>2, <1>7
    <3> QED
      BY <3>1, <1>2 DEF PublisherPlaces
  <2>2. Kind(Append(unended[G], Event)) = "broken"
    BY <1>2, <1>7, <2>1, KindOfSpoilt
  <2>3. accepted'[G]["event"] = accepted[G]["event"] /\ damage'[G] = damage[G] + 2
    BY <1>1, <1>2, <1>3, <1>7, <2>2 DEF PublisherType, Kinds
  <2>4. Events'[G] = Events[G] + 0 /\ EventsOrDamage'[G] = EventsOrDamage[G] + 2
    <3>1. accepted[G]["event"] \in Nat /\ damage[G] \in Nat
      BY <1>2, Numbers
    <3> QED
      BY <1>2, <2>3, <3>1 DEF Events, EventsOrDamage
  <2>5. /\ Total(Events') = Total(Events) + 0 /\ Total(EventsOrDamage') = Total(EventsOrDamage) + 2
        /\ Total(Events) \in Nat /\ Total(EventsOrDamage) \in Nat
    <3>1. Total(Events') = Total(Events) + 0
      <4>1. /\ Events \in [Groups -> Nat] /\ Events' \in [Groups -> Nat] /\ G \in Groups
            /\ \A g \in Groups \ {G} : Events'[g] = Events[g]
            /\ Events'[G] = Events[G] + 0
        BY <1>2, <1>4, <1>5, <2>4
      <4> QED
        BY <4>1, TotalRises
    <3>2. Total(EventsOrDamage') = Total(EventsOrDamage) + 2
      <4>1. /\ EventsOrDamage \in [Groups -> Nat] /\ EventsOrDamage' \in [Groups -> Nat] /\ G \in Groups
            /\ \A g \in Groups \ {G} : EventsOrDamage'[g] = EventsOrDamage[g]
            /\ EventsOrDamage'[G] = EventsOrDamage[G] + 2
        BY <1>2, <1>4, <1>5, <2>4
      <4> QED
        BY <4>1, TotalRises
    <3> QED
      BY <1>4, <3>1, <3>2, TotalTyped
  <2> QED
    BY <1>1, <2>5 DEF EventsCounted
<1> QED
  BY <1>6, <1>7

\* Only the broadcast makes events; damage only grows.
LEMMA EventsStep ==
    ASSUME PublisherIInv, PublisherIInv', [PublisherNext]_publisherVars, EventsCounted
    PROVE  EventsCounted'
<1>0. /\ publisher \in Threads /\ stats \in Stats /\ stats.shutdown \in Nat
      /\ Events \in [Groups -> Nat] /\ Events' \in [Groups -> Nat]
      /\ EventsOrDamage \in [Groups -> Nat] /\ EventsOrDamage' \in [Groups -> Nat]
  <2>1. publisher \in Threads /\ stats \in Stats /\ stats.shutdown \in Nat
    BY StatsMove DEF PublisherIInv, PublisherType
  <2> QED
    BY <2>1, EventsTyped
<1>1. ASSUME stats'.shutdown = stats.shutdown,
             \A g \in Groups : accepted'[g]["event"] = accepted[g]["event"]
                               /\ damage[g] <= damage'[g]
      PROVE  EventsCounted'
  <2>1. Events' = Events
    BY <1>1 DEF Events
  <2>2. \A g \in Groups : EventsOrDamage[g] <= EventsOrDamage'[g]
    <3>1. ASSUME NEW g \in Groups
          PROVE  /\ damage[g] \in Nat /\ damage'[g] \in Nat
                 /\ accepted[g]["event"] \in Nat
      BY Numbers DEF PublisherIInv, PublisherType
    <3> QED
      BY <1>1, <3>1 DEF EventsOrDamage
  <2>3. /\ Total(EventsOrDamage) <= Total(EventsOrDamage') /\ Total(EventsOrDamage) \in Nat
        /\ Total(EventsOrDamage') \in Nat
    BY <1>0, <2>2, TotalGrows, TotalTyped
  <2> QED
    BY <1>0, <1>1, <2>1, <2>3 DEF EventsCounted
<1>2. CASE PieceSent
  <2> DEFINE G == publisher.group
             p == Piece(taken, publisher.next, publisher.n)
             last == publisher.next = publisher.n
  <2>1. /\ Accepts(G, p, ~last) /\ UNCHANGED <<damage, stats>>
        /\ PublisherType /\ p \in Pieces /\ p.frame # 0 /\ G \in Groups
        /\ unended[G] \in Seq(Pieces)
    BY <1>2, PieceAtHand, ThreadMoves
       DEF PieceSent, PublisherIInv, PublisherType
  <2> HIDE DEF G, p
  <2>2. \A g \in Groups : accepted'[g]["event"] = accepted[g]["event"]
    <3>1. CASE last
      <4>1. Kind(Append(unended[G], p)) # "event"
        BY <2>1, KindOfPart
      <4> DEFINE k == Kind(Append(unended[G], p))
      <4>2. /\ \A h \in Groups \ {G} : accepted'[h] = accepted[h]
            /\ \A j \in Kinds \ {k} : accepted'[G][j] = accepted[G][j]
        BY <2>1, <3>1, AcceptsLast
      <4> HIDE DEF k
      <4>3. "event" \in Kinds \ {k}
        BY <4>1 DEF Kinds, k
      <4> QED
        BY <4>2, <4>3
    <3>2. CASE ~last
      BY <2>1, <3>2, AcceptsOpen
    <3> QED
      BY <3>1, <3>2
  <2>3. \A g \in Groups : damage[g] <= damage'[g]
    BY <2>1, Numbers
  <2> QED
    BY <1>1, <2>1, <2>2, <2>3
<1>3. CASE PieceRefused
  <2>1. \A g \in Groups : damage[g] <= damage'[g]
    BY <1>3 DEF PieceRefused, PublisherIInv, PublisherType
  <2> QED
    BY <1>0, <1>1, <1>3, <2>1, StatsMove DEF PieceRefused
<1>4. CASE PublisherCounts
  <2>1. stats'.shutdown = stats.shutdown /\ UNCHANGED <<accepted, arrived, damage>>
    BY <1>0, <1>4, ThreadMoves, StatsCount DEF PublisherCounts
  <2> QED
    BY <1>1, <2>1, Numbers
<1>5. CASE \/ \E g \in Groups : \E n \in 1 .. MostParts(g) : PublisherTakes(g, n)
           \/ PublisherEnds \/ StartOpens
           \/ StartFails \/ MainAnnounces \/ MainStopsPublisher \/ MainJoinsPublisher
           \/ MainReturns \/ EventRefused \/ UNCHANGED publisherVars
  <2>1. UNCHANGED <<accepted, arrived, damage, stats>>
    BY <1>5 DEF PublisherTakes, PublisherEnds, StartOpens,
                StartFails, MainAnnounces, MainStopsPublisher, MainJoinsPublisher,
                MainReturns, EventRefused, publisherVars
  <2> QED
    BY <1>1, <2>1, Numbers
<1> QED
  BY <1>2, <1>3, <1>4, <1>5, EventSentCounted DEF PublisherNext, PublisherStep, MainStep

-----------------------------------------------------------------------------
(* The theorems.                                                            *)

LEMMA CountsInit == PublisherInit => CountsInv
<1> SUFFICES ASSUME PublisherInit PROVE CountsInv
  OBVIOUS
<1>1. ASSUME NEW g \in Groups PROVE InOrder(g)
  BY DEF PublisherInit, InOrder, Due, Spoilt, Uncounted, Idle, Kinds
<1>2. EveryFrameCounted
  BY DEF PublisherInit, EveryFrameCounted, Total, InHand, Idle, Groups
<1>3. EventsCounted
  BY DEF PublisherInit, EventsCounted, Events, EventsOrDamage, Total, Groups, Kinds
<1>4. FewerArrive
  BY DEF PublisherInit, FewerArrive
<1> QED
  BY <1>1, <1>2, <1>3, <1>4 DEF CountsInv

LEMMA CountsStep ==
    ASSUME PublisherIInv, PublisherIInv', [PublisherNext]_publisherVars, CountsInv
    PROVE  CountsInv'
  BY OrderStep, FrameCountStep, EventsStep, FewerStep DEF CountsInv

LEMMA CountsHold == PublisherSpec => []CountsInv
<1> QED
  BY CountsInit, CountsStep, PublisherTypeCorrect, PTL DEF PublisherSpec

\* Publisher: every frame handed to send_group is counted once, wherever it fails.
THEOREM FramesAreCounted == PublisherSpec => []EveryFrameCounted
<1>1. CountsInv => EveryFrameCounted
  BY DEF CountsInv
<1> QED
  BY <1>1, CountsHold, PTL

\* What a subscriber got, in numbers.
LEMMA ArrivedBounds ==
    ASSUME PublisherIInv, CountsInv, NEW g \in Groups, NEW k \in Kinds
    PROVE  /\ arrived[g][k] \in Nat /\ accepted[g][k] \in Nat
           /\ arrived[g][k] <= accepted[g][k]
  BY DEF PublisherIInv, PublisherType, CountsInv, FewerArrive

\* Publisher: a refused part breaks one message at most, an event inside a frame two.
THEOREM DamageStaysBounded == PublisherSpec => []DamageIsBounded
<1>1. PublisherIInv /\ CountsInv => DamageIsBounded
  <2> SUFFICES ASSUME PublisherIInv, CountsInv, NEW g \in Groups
               PROVE  arrived[g]["broken"] <= damage[g]
    BY DEF DamageIsBounded
  <2> QED
    BY Numbers, ArrivedBounds DEF CountsInv, InOrder
<1> QED
  BY <1>1, CountsHold, PublisherTypeCorrect, PTL

\* Publisher: sent_* is no less than the frames a subscriber got, and no more than
\* the frames libzmq took, to deliver or to discard, but for the damage.
THEOREM SentStaysHonest == PublisherSpec => []SentIsHonest
<1>1. PublisherIInv /\ CountsInv => SentIsHonest
  <2> SUFFICES ASSUME PublisherIInv, CountsInv, NEW g \in Groups
               PROVE  /\ arrived[g]["whole"] <= stats.sent[g] + Uncounted(g)
                      /\ stats.sent[g] + Uncounted(g)
                           <= accepted[g]["whole"] + damage[g]
    BY DEF SentIsHonest
  <2> QED
    BY Numbers, ArrivedBounds DEF CountsInv, InOrder
<1> QED
  BY <1>1, CountsHold, PublisherTypeCorrect, PTL

\* Publisher: shutdown_sent is no less than the events that were heard, and no more
\* than the sockets took, but for the damage.
THEOREM EventsAreCounted == PublisherSpec => []ShutdownIsCounted
<1>1. PublisherIInv /\ CountsInv => ShutdownIsCounted
  <2> SUFFICES ASSUME PublisherIInv, CountsInv PROVE ShutdownIsCounted
    OBVIOUS
  <2> DEFINE Heard == [g \in Groups |-> arrived[g]["event"]]
  <2>1. "event" \in Kinds
    BY DEF Kinds
  <2>2. /\ Heard \in [Groups -> Nat] /\ Events \in [Groups -> Nat]
        /\ \A g \in Groups : Heard[g] <= Events[g]
    BY <2>1, ArrivedBounds DEF Events
  <2> HIDE DEF Heard
  <2>3. /\ Total(Heard) <= Total(Events) /\ Total(Heard) \in Nat /\ Total(Events) \in Nat
    BY <2>2, TotalGrows, TotalTyped
  <2>4. stats.shutdown \in Nat
    BY StatsMove DEF PublisherIInv, PublisherType
  <2>5. Total(Events) <= stats.shutdown /\ stats.shutdown <= Total(EventsOrDamage)
    BY DEF CountsInv, EventsCounted
  <2>6. Total(Heard) <= stats.shutdown
    BY <2>3, <2>4, <2>5
  <2> QED
    BY <2>5, <2>6 DEF ShutdownIsCounted, EventsOrDamage, Heard
<1> QED
  BY <1>1, CountsHold, PublisherTypeCorrect, PTL
=============================================================================
