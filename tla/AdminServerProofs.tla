-------------------------- MODULE AdminServerProofs --------------------------
(***************************************************************************)
(* The accept thread, the workers and stop() for any number of workers and *)
(* connections and any bound on the queue: types and the queue's bound, no *)
(* connection left to workers that all sleep, and ssl_ctx_ alive for as    *)
(* long as a worker may use it.                                            *)
(***************************************************************************)
EXTENDS AdminServer, FiniteSetTheorems, TLAPS

\* What Thread builds.
LEMMA ThreadFields ==
    ASSUME NEW pc, NEW c
    PROVE  Thread(pc, c).pc = pc /\ Thread(pc, c).conn = c
  BY DEF Thread

LEMMA ThreadTyped ==
    /\ \A pc \in {"test", "accept", "notify", "done"} :
          Thread(pc, NoConn) \in AcceptStates
    /\ \A c \in Conns : Thread("queue", c) \in AcceptStates
    /\ \A pc \in {"test", "block", "sleep", "done"} :
          Thread(pc, NoConn) \in WorkerStates
    /\ \A pc \in Busy, c \in Conns : Thread(pc, c) \in WorkerStates
  BY DEF Thread, AcceptStates, WorkerStates, Busy

\* A worker in the middle of a connection has one.
LEMMA BusyHasConn ==
    ASSUME NEW r \in WorkerStates, r.pc \in Busy
    PROVE  r.conn \in Conns
  BY DEF WorkerStates, Busy

LEMMA AcceptHasConn ==
    ASSUME NEW r \in AcceptStates, r.pc = "queue"
    PROVE  r.conn \in Conns
  BY DEF AcceptStates

\* What a worker that moves does to the workers.
LEMMA WorkerMoves ==
    ASSUME AdminTypeOK, NEW w \in Workers, NEW pc, NEW c, WorkerGoes(w, pc, c)
    PROVE  /\ worker'[w] = Thread(pc, c)
           /\ worker'[w].pc = pc /\ worker'[w].conn = c
           /\ \A v \in Workers \ {w} : worker'[v] = worker[v]
           /\ Thread(pc, c) \in WorkerStates => worker' \in [Workers -> WorkerStates]
<1>1. worker \in [Workers -> WorkerStates]
  BY DEF AdminTypeOK
<1> QED
  BY <1>1, ThreadFields DEF WorkerGoes

\* notify_one wakes a sleeper or finds none.
LEMMA NotifyOneMoves ==
    ASSUME AdminTypeOK, NotifyOne
    PROVE  /\ worker' \in [Workers -> WorkerStates]
           /\ \/ worker' = worker /\ \A w \in Workers : worker[w].pc # "sleep"
              \/ \E w \in Workers :
                    /\ worker[w].pc = "sleep"
                    /\ worker' = [worker EXCEPT ![w].pc = "test"]
<1>1. worker \in [Workers -> WorkerStates]
  BY DEF AdminTypeOK
<1>2. ASSUME NEW w \in Workers, worker[w].pc = "sleep"
      PROVE  [worker[w] EXCEPT !.pc = "test"] \in WorkerStates
  BY <1>1, <1>2 DEF WorkerStates, Busy
<1>3. CASE UNCHANGED worker /\ {w \in Workers : worker[w].pc = "sleep"} = {}
  BY <1>1, <1>3
<1>4. ASSUME NEW w \in Workers, worker[w].pc = "sleep",
             worker' = [worker EXCEPT ![w].pc = "test"]
      PROVE  worker' \in [Workers -> WorkerStates]
  BY <1>1, <1>2, <1>4
<1> QED
  BY <1>3, <1>4 DEF NotifyOne

-----------------------------------------------------------------------------
(* Types.                                                                   *)

LEMMA AdminTypeInit == AdminInit => AdminTypeOK
<1> SUFFICES ASSUME AdminInit PROVE AdminTypeOK
  OBVIOUS
<1>1. worker \in [Workers -> WorkerStates] /\ accept \in AcceptStates
  BY ThreadTyped DEF AdminInit
<1>2. queue \in Seq(Conns) /\ Len(queue) <= MaxPending
  BY MaxPendingAssumption DEF AdminInit
<1> QED
  BY <1>1, <1>2 DEF AdminInit, AdminTypeOK

LEMMA AcceptTypeStep ==
    ASSUME AdminTypeOK, AcceptStep
    PROVE  AdminTypeOK'
<1> USE DEF AdminTypeOK
<1>1. CASE AcceptTest \/ AcceptInterrupted \/ AcceptFails
  BY <1>1, ThreadTyped DEF AcceptTest, AcceptInterrupted, AcceptFails, flags
<1>2. ASSUME NEW c \in Conns, AcceptConnection(c)
      PROVE  AdminTypeOK'
  BY <1>2, ThreadTyped DEF AcceptConnection, flags
<1>3. CASE AcceptRefuses
  BY <1>3, ThreadTyped, AcceptHasConn DEF AcceptRefuses, flags
<1>4. CASE AcceptQueues
  <2>1. queue' \in Seq(Conns) /\ Len(queue') <= MaxPending
    BY <1>4, AcceptHasConn, MaxPendingAssumption DEF AcceptQueues
  <2> QED
    BY <1>4, <2>1, ThreadTyped DEF AcceptQueues, flags
<1>5. CASE AcceptNotifies
  BY <1>5, ThreadTyped, NotifyOneMoves DEF AcceptNotifies, flags
<1> QED
  BY <1>1, <1>2, <1>3, <1>4, <1>5 DEF AcceptStep

LEMMA WorkerTypeStep ==
    ASSUME AdminTypeOK, NEW w \in Workers, WorkerStep(w) \/ WorkerWakes(w)
    PROVE  AdminTypeOK'
<1> USE DEF AdminTypeOK
<1>0. worker[w] \in WorkerStates
  OBVIOUS
<1>1. CASE WorkerTakes(w)
  <2>1. Head(queue) \in Conns /\ queue' \in Seq(Conns) /\ Len(queue') <= MaxPending
    BY <1>1, MaxPendingAssumption DEF WorkerTakes
  <2>2. worker' \in [Workers -> WorkerStates]
    BY <1>1, <2>1, ThreadTyped, WorkerMoves DEF WorkerTakes, Busy
  <2> QED
    BY <1>1, <2>1, <2>2 DEF WorkerTakes, flags
<1>2. CASE WorkerEnds(w) \/ WorkerMustWait(w) \/ WorkerSleeps(w) \/ WorkerWakes(w)
  <2>1. worker' \in [Workers -> WorkerStates]
    BY <1>2, ThreadTyped, WorkerMoves
       DEF WorkerEnds, WorkerMustWait, WorkerSleeps, WorkerWakes
  <2> QED
    BY <1>2, <2>1 DEF WorkerEnds, WorkerMustWait, WorkerSleeps, WorkerWakes, flags
<1>3. CASE HandshakeDone(w) \/ ReadDone(w)
  <2>1. worker' \in [Workers -> WorkerStates]
    BY <1>0, <1>3, ThreadTyped, WorkerMoves, BusyHasConn DEF HandshakeDone, ReadDone, Busy
  <2> QED
    BY <1>3, <2>1 DEF HandshakeDone, ReadDone, flags
<1>4. ASSUME worker[w].pc \in Busy, Closes(w)
      PROVE  AdminTypeOK'
  <2>1. worker[w].conn \in Conns
    BY <1>0, <1>4, BusyHasConn
  <2>2. worker' \in [Workers -> WorkerStates]
    BY <1>4, ThreadTyped, WorkerMoves DEF Closes
  <2>3. conn' \in [Conns -> {"new", "open", "refused", "closed"}]
    BY <1>4, <2>1 DEF Closes
  <2> QED
    BY <1>4, <2>2, <2>3 DEF Closes, flags
<1>5. CASE HandshakeFails(w) \/ ReadFails(w) \/ HandleEnds(w)
  BY <1>4, <1>5 DEF HandshakeFails, ReadFails, HandleEnds, Busy
<1> QED
  BY <1>1, <1>2, <1>3, <1>5 DEF WorkerStep

LEMMA StopTypeStep ==
    ASSUME AdminTypeOK, StopBegins \/ StopStep
    PROVE  AdminTypeOK'
<1> USE DEF AdminTypeOK
<1>1. CASE StopNotifies
  <2>1. worker' \in [Workers -> WorkerStates]
    BY <1>1, ThreadTyped DEF StopNotifies
  <2> QED
    BY <1>1, <2>1 DEF StopNotifies, MainGoes
<1>2. CASE StopBegins \/ StopFlags \/ StopCloses \/ StopJoinsAccept \/ StopJoinsWorkers
  BY <1>2 DEF StopBegins, StopFlags, StopCloses, StopJoinsAccept, StopJoinsWorkers, MainGoes
<1> QED
  BY <1>1, <1>2 DEF StopStep

LEMMA AdminTypeStep ==
    ASSUME AdminTypeOK, [AdminNext]_adminVars
    PROVE  AdminTypeOK'
<1>1. ASSUME NEW c \in Conns, ClientStep(c)
      PROVE  AdminTypeOK'
  BY <1>1 DEF AdminTypeOK, ClientStep, ClientSends, ClientLeaves, flags
<1>2. CASE UNCHANGED adminVars
  BY <1>2 DEF AdminTypeOK, adminVars
<1> QED
  BY <1>1, <1>2, AcceptTypeStep, WorkerTypeStep, StopTypeStep DEF AdminNext

\* Types, the queue within its bound, and each thread's place and connection.
THEOREM AdminTypeCorrect == AdminSpec => []AdminTypeOK
  BY AdminTypeInit, AdminTypeStep, PTL DEF AdminSpec

-----------------------------------------------------------------------------
(* No connection waits for workers that all sleep.                          *)

\* A worker that is about to sleep has seen an empty queue and holds the lock
\* since: nothing has been queued.
WorkInv ==
    /\ WorkIsNoticed
    /\ \A w \in Workers : worker[w].pc = "block" => queue = <<>>

\* The steps after which the queue is empty.
LEMMA WorkEmpty == ASSUME queue' = <<>> PROVE WorkInv'
  BY DEF WorkInv, WorkIsNoticed

\* A worker that moves and stays awake.
LEMMA WorkAwake ==
    ASSUME NEW w \in Workers, worker'[w].pc \notin {"block", "sleep", "done"},
           queue' = <<>> \/ \A v \in Workers : worker'[v].pc # "block"
    PROVE  WorkInv'
  BY DEF WorkInv, WorkIsNoticed

LEMMA WorkAcceptStep ==
    ASSUME WorkInv, AdminTypeOK, AcceptStep
    PROVE  WorkInv'
<1>1. CASE AcceptTest \/ AcceptInterrupted \/ AcceptFails \/ AcceptRefuses
  BY <1>1 DEF AcceptTest, AcceptInterrupted, AcceptFails, AcceptRefuses,
              WorkInv, WorkIsNoticed
<1>2. ASSUME NEW c \in Conns, AcceptConnection(c)
      PROVE  WorkInv'
  BY <1>2 DEF AcceptConnection, WorkInv, WorkIsNoticed
<1>3. CASE AcceptQueues
  BY <1>3, ThreadFields DEF AcceptQueues, Unlocked, WorkInv, WorkIsNoticed
<1>4. CASE AcceptNotifies
  <2>1. queue' = queue /\ worker \in [Workers -> WorkerStates]
    BY <1>4 DEF AcceptNotifies, AdminTypeOK
  <2>2. CASE worker' = worker /\ \A w \in Workers : worker[w].pc # "sleep"
    BY <2>1, <2>2 DEF WorkInv, WorkIsNoticed
  <2>3. ASSUME NEW w \in Workers, worker[w].pc = "sleep",
               worker' = [worker EXCEPT ![w].pc = "test"]
        PROVE  WorkInv'
    <3>1. /\ worker'[w].pc = "test"
          /\ \A v \in Workers \ {w} : worker'[v] = worker[v]
      BY <2>1, <2>3 DEF WorkerStates
    <3>2. queue' = <<>> \/ \A v \in Workers : worker'[v].pc # "block"
      BY <2>1, <3>1 DEF WorkInv
    <3> QED
      BY <3>1, <3>2, WorkAwake
  <2> QED
    BY <1>4, <2>2, <2>3, NotifyOneMoves DEF AcceptNotifies
<1> QED
  BY <1>1, <1>2, <1>3, <1>4 DEF AcceptStep

LEMMA WorkWorkerStep ==
    ASSUME WorkInv, AdminTypeOK, NEW w \in Workers, WorkerStep(w) \/ WorkerWakes(w)
    PROVE  WorkInv'
<1>1. ASSUME NEW pc \in Busy \cup {"test"}, NEW c, WorkerGoes(w, pc, c),
             UNCHANGED queue \/ Unlocked
      PROVE  WorkInv'
  <2>1. /\ worker'[w].pc = pc
        /\ \A v \in Workers \ {w} : worker'[v] = worker[v]
    BY <1>1, WorkerMoves
  <2>2. queue' = <<>> \/ \A v \in Workers : worker'[v].pc # "block"
    BY <1>1, <2>1 DEF WorkInv, Unlocked, Busy
  <2> QED
    BY <2>1, <2>2, WorkAwake DEF Busy
<1>2. CASE WorkerEnds(w) \/ WorkerMustWait(w)
  BY <1>2, WorkEmpty DEF WorkerEnds, WorkerMustWait
<1>3. CASE WorkerSleeps(w)
  BY <1>3, WorkEmpty DEF WorkerSleeps, WorkInv
<1>4. CASE WorkerTakes(w)
  BY <1>1, <1>4 DEF WorkerTakes, Busy
<1>5. CASE WorkerWakes(w) \/ HandshakeDone(w) \/ ReadDone(w)
  BY <1>1, <1>5 DEF WorkerWakes, HandshakeDone, ReadDone, Busy
<1>6. CASE HandshakeFails(w) \/ ReadFails(w) \/ HandleEnds(w)
  BY <1>1, <1>6 DEF HandshakeFails, ReadFails, HandleEnds, Closes
<1> QED
  BY <1>2, <1>3, <1>4, <1>5, <1>6 DEF WorkerStep

LEMMA WorkStopStep ==
    ASSUME WorkInv, AdminTypeOK, StopBegins \/ StopStep
    PROVE  WorkInv'
<1>1. CASE StopNotifies
  <2>1. \A w \in Workers :
           /\ worker'[w].pc = (IF worker[w].pc = "sleep" THEN "test" ELSE worker[w].pc)
    BY <1>1, ThreadFields DEF StopNotifies
  <2> QED
    BY <1>1, <2>1 DEF StopNotifies, WorkInv, WorkIsNoticed
<1>2. CASE StopBegins \/ StopFlags \/ StopCloses \/ StopJoinsAccept \/ StopJoinsWorkers
  BY <1>2 DEF StopBegins, StopFlags, StopCloses, StopJoinsAccept, StopJoinsWorkers,
              WorkInv, WorkIsNoticed
<1> QED
  BY <1>1, <1>2 DEF StopStep

\* notify_one is called after the lock is released and notify_all without it,
\* and still no connection is left to workers that all sleep.
THEOREM WorkNoticed == AdminSpec => []WorkIsNoticed
<1>1. AdminInit => WorkInv
  BY WorkEmpty DEF AdminInit, WorkInv, WorkIsNoticed, Thread
<1>2. WorkInv /\ AdminTypeOK /\ [AdminNext]_adminVars => WorkInv'
  <2> SUFFICES ASSUME WorkInv, AdminTypeOK, [AdminNext]_adminVars
               PROVE  WorkInv'
    OBVIOUS
  <2>1. ASSUME NEW c \in Conns, ClientStep(c)
        PROVE  WorkInv'
    BY <2>1 DEF ClientStep, ClientSends, ClientLeaves, WorkInv, WorkIsNoticed
  <2>2. CASE UNCHANGED adminVars
    BY <2>2 DEF adminVars, WorkInv, WorkIsNoticed
  <2> QED
    BY <2>1, <2>2, WorkAcceptStep, WorkWorkerStep, WorkStopStep DEF AdminNext
<1>3. WorkInv => WorkIsNoticed
  BY DEF WorkInv
<1> QED
  BY <1>1, <1>2, <1>3, AdminTypeCorrect, PTL DEF AdminSpec

-----------------------------------------------------------------------------
(* The TLS context outlives its users.                                      *)

\* stop() frees the context when every worker has ended, and none comes back.
ContextInv == ctx \/ \A w \in Workers : worker[w].pc = "done"

LEMMA ContextWorkers ==
    ASSUME ContextInv, AdminTypeOK, NEW w \in Workers, WorkerStep(w) \/ WorkerWakes(w)
    PROVE  ContextInv'
<1>1. worker[w].pc # "done" /\ ctx' = ctx
  BY DEF WorkerStep, WorkerTakes, WorkerEnds, WorkerMustWait, WorkerSleeps, WorkerWakes,
         HandshakeFails, HandshakeDone, ReadDone, ReadFails, HandleEnds, Closes, flags
<1> QED
  BY <1>1 DEF ContextInv

LEMMA ContextHolds == AdminSpec => []ContextInv
<1>1. AdminInit => ContextInv
  BY DEF AdminInit, ContextInv
<1>2. ContextInv /\ AdminTypeOK /\ [AdminNext]_adminVars => ContextInv'
  <2> SUFFICES ASSUME ContextInv, AdminTypeOK, [AdminNext]_adminVars
               PROVE  ContextInv'
    OBVIOUS
  <2>1. CASE UNCHANGED adminVars \/ \E c \in Conns : ClientStep(c)
    BY <2>1 DEF adminVars, flags, ClientStep, ClientSends, ClientLeaves, ContextInv
  <2>2. CASE AcceptStep
    <3>1. CASE AcceptNotifies
      <4>1. ctx' = ctx /\ NotifyOne
        BY <3>1 DEF AcceptNotifies, flags
      <4>2. ASSUME NEW w \in Workers, worker[w].pc = "sleep"
            PROVE  ctx
        BY <4>2 DEF ContextInv
      <4> QED
        BY <4>1, <4>2, NotifyOneMoves DEF ContextInv
    <3>2. CASE AcceptStep /\ ~AcceptNotifies
      BY <3>2 DEF AcceptStep, AcceptTest, AcceptConnection, AcceptInterrupted, AcceptFails,
                  AcceptRefuses, AcceptQueues, flags, ContextInv
    <3> QED
      BY <2>2, <3>1, <3>2
  <2>3. CASE StopBegins \/ StopStep
    <3>1. CASE StopNotifies
      BY <3>1, ThreadFields DEF StopNotifies, ContextInv
    <3>2. CASE StopBegins \/ StopFlags \/ StopCloses \/ StopJoinsAccept \/ StopJoinsWorkers
      BY <3>2 DEF StopBegins, StopFlags, StopCloses, StopJoinsAccept, StopJoinsWorkers,
                  ContextInv
    <3> QED
      BY <2>3, <3>1, <3>2 DEF StopStep
  <2> QED
    BY <2>1, <2>2, <2>3, ContextWorkers DEF AdminNext
<1> QED
  BY <1>1, <1>2, AdminTypeCorrect, PTL DEF AdminSpec

\* A worker that handles a connection finds ssl_ctx_ there.
THEOREM ContextStaysAlive == AdminSpec => []ContextAlive
<1>1. ContextInv => ContextAlive
  BY DEF ContextInv, ContextAlive, Busy
<1> QED
  BY <1>1, ContextHolds, PTL

-----------------------------------------------------------------------------
(* Every descriptor is in one place.                                        *)

\* OwnedOnce place by place, without counting: what a thread holds and what is
\* queued is open, no two places have the same connection, and an open one has
\* a place.
QueueOwns ==
    /\ \A i \in 1 .. Len(queue) : conn[queue[i]] = "open"
    /\ \A i, j \in 1 .. Len(queue) : queue[i] = queue[j] => i = j

AcceptOwns ==
    accept.conn # NoConn =>
        /\ conn[accept.conn] = "open"
        /\ \A i \in 1 .. Len(queue) : queue[i] # accept.conn
        /\ \A w \in Workers : worker[w].conn # accept.conn

WorkersOwn ==
    \A w \in Workers : worker[w].conn # NoConn =>
        /\ conn[worker[w].conn] = "open"
        /\ \A i \in 1 .. Len(queue) : queue[i] # worker[w].conn
        /\ \A v \in Workers : worker[v].conn = worker[w].conn => v = w

OpenIsHeld ==
    \A c \in Conns : conn[c] = "open" =>
        \/ accept.conn = c
        \/ \E i \in 1 .. Len(queue) : queue[i] = c
        \/ \E w \in Workers : worker[w].conn = c

OwnedInv == QueueOwns /\ AcceptOwns /\ WorkersOwn /\ OpenIsHeld

\* A thread that is not at work on a connection has none.
LEMMA IdleHasNone ==
    ASSUME AdminTypeOK
    PROVE  /\ accept.pc # "queue" => accept.conn = NoConn
           /\ \A w \in Workers : worker[w].pc \notin Busy => worker[w].conn = NoConn
  BY DEF AdminTypeOK, AcceptStates, WorkerStates

\* Steps that move no connection.
LEMMA OwnedStays ==
    ASSUME OwnedInv, accept'.conn = accept.conn, queue' = queue, conn' = conn,
           \A w \in Workers : worker'[w].conn = worker[w].conn
    PROVE  OwnedInv'
  BY DEF OwnedInv, QueueOwns, AcceptOwns, WorkersOwn, OpenIsHeld

\* An open connection is with the accept thread, in the queue or with a worker,
\* and the three counts come to one; any other is nowhere.
LEMMA OwnedInvCounts ==
    ASSUME OwnedInv, AdminTypeOK
    PROVE  OwnedOnce
<1> SUFFICES ASSUME NEW c \in Conns
             PROVE  (IF accept.conn = c THEN 1 ELSE 0)
                    + Cardinality({i \in DOMAIN queue : queue[i] = c})
                    + Cardinality({w \in Workers : worker[w].conn = c})
                    = (IF conn[c] = "open" THEN 1 ELSE 0)
  BY DEF OwnedOnce
<1> DEFINE Q == {i \in DOMAIN queue : queue[i] = c}
           W == {w \in Workers : worker[w].conn = c}
<1>0. c # NoConn /\ DOMAIN queue = 1 .. Len(queue)
  BY NoConnAssumption DEF AdminTypeOK
<1>1. Q = {} \/ \E i \in DOMAIN queue : Q = {i}
  BY <1>0 DEF OwnedInv, QueueOwns
<1>2. W = {} \/ \E w \in Workers : W = {w}
  BY <1>0 DEF OwnedInv, WorkersOwn
<1>3. (Q = {} /\ Cardinality(Q) = 0) \/ (Q # {} /\ Cardinality(Q) = 1)
  BY <1>1, FS_EmptySet, FS_Singleton
<1>4. (W = {} /\ Cardinality(W) = 0) \/ (W # {} /\ Cardinality(W) = 1)
  BY <1>2, FS_EmptySet, FS_Singleton
<1>5. ~(Q # {} /\ W # {}) /\ (accept.conn = c => Q = {} /\ W = {})
  BY <1>0 DEF OwnedInv, WorkersOwn, AcceptOwns
<1>6. conn[c] = "open" <=> accept.conn = c \/ Q # {} \/ W # {}
  BY <1>0 DEF OwnedInv, QueueOwns, AcceptOwns, WorkersOwn, OpenIsHeld
<1> HIDE DEF Q, W
<1>7. (IF accept.conn = c THEN 1 ELSE 0) + Cardinality(Q) + Cardinality(W)
         = (IF conn[c] = "open" THEN 1 ELSE 0)
  BY <1>3, <1>4, <1>5, <1>6
<1> QED
  BY <1>7 DEF Q, W

LEMMA OwnedAcceptStep ==
    ASSUME OwnedInv, AdminTypeOK, AcceptStep
    PROVE  OwnedInv'
<1>1. CASE AcceptTest \/ AcceptInterrupted \/ AcceptFails
  <2>1. accept.conn = NoConn /\ accept'.conn = NoConn
    BY <1>1, IdleHasNone, ThreadFields DEF AcceptTest, AcceptInterrupted, AcceptFails
  <2> QED
    BY <1>1, <2>1, OwnedStays DEF AcceptTest, AcceptInterrupted, AcceptFails, flags
<1>2. ASSUME NEW c \in Conns, AcceptConnection(c)
      PROVE  OwnedInv'
  <2>1. /\ accept.conn = NoConn /\ accept'.conn = c
        /\ queue' = queue /\ worker' = worker /\ queue \in Seq(Conns)
        /\ conn[c] = "new" /\ conn' = [conn EXCEPT ![c] = "open"]
        /\ conn \in [Conns -> {"new", "open", "refused", "closed"}]
    BY <1>2, IdleHasNone, ThreadFields DEF AcceptConnection, flags, AdminTypeOK
  <2>2. /\ \A i \in 1 .. Len(queue) : queue[i] # c
        /\ \A w \in Workers : worker[w].conn # c
    BY <2>1, NoConnAssumption DEF OwnedInv, QueueOwns, WorkersOwn
  <2>3. \A d \in Conns : d # c => conn'[d] = conn[d]
    BY <2>1
  <2>4. \A w \in Workers : worker[w].conn # NoConn => worker[w].conn \in Conns
    BY DEF AdminTypeOK, WorkerStates
  <2>5. QueueOwns'
    BY <2>1, <2>2, <2>3 DEF OwnedInv, QueueOwns
  <2>6. AcceptOwns'
    BY <2>1, <2>2 DEF AcceptOwns
  <2>7. WorkersOwn'
    BY <2>1, <2>2, <2>3, <2>4 DEF OwnedInv, WorkersOwn
  <2>8. OpenIsHeld'
    BY <2>1, <2>3, NoConnAssumption DEF OwnedInv, OpenIsHeld
  <2> QED
    BY <2>5, <2>6, <2>7, <2>8 DEF OwnedInv
<1>3. CASE AcceptRefuses
  <2> DEFINE c == accept.conn
  <2>1. /\ accept'.conn = NoConn /\ c \in Conns /\ c # NoConn
        /\ queue' = queue /\ worker' = worker /\ queue \in Seq(Conns)
        /\ conn' = [conn EXCEPT ![c] = "refused"]
        /\ conn \in [Conns -> {"new", "open", "refused", "closed"}]
    BY <1>3, AcceptHasConn, ThreadFields, NoConnAssumption
       DEF AcceptRefuses, flags, AdminTypeOK
  <2>2. /\ \A i \in 1 .. Len(queue) : queue[i] # c
        /\ \A w \in Workers : worker[w].conn # c
    BY <2>1 DEF OwnedInv, AcceptOwns
  <2>3. conn'[c] = "refused" /\ \A d \in Conns : d # c => conn'[d] = conn[d]
    BY <2>1
  <2>4. \A w \in Workers : worker[w].conn # NoConn => worker[w].conn \in Conns
    BY DEF AdminTypeOK, WorkerStates
  <2> HIDE DEF c
  <2>5. QueueOwns' /\ AcceptOwns'
    BY <2>1, <2>2, <2>3 DEF OwnedInv, QueueOwns, AcceptOwns
  <2>6. WorkersOwn'
    BY <2>1, <2>2, <2>3, <2>4 DEF OwnedInv, WorkersOwn
  <2>7. OpenIsHeld'
    BY <2>1, <2>3 DEF OwnedInv, OpenIsHeld, c
  <2> QED
    BY <2>5, <2>6, <2>7 DEF OwnedInv
<1>4. CASE AcceptQueues
  <2> DEFINE c == accept.conn
  <2>1. /\ accept'.conn = NoConn /\ c \in Conns /\ c # NoConn
        /\ queue' = Append(queue, c) /\ worker' = worker /\ conn' = conn
        /\ queue \in Seq(Conns)
    BY <1>4, AcceptHasConn, ThreadFields, NoConnAssumption
       DEF AcceptQueues, flags, AdminTypeOK
  <2>2. /\ conn[c] = "open"
        /\ \A i \in 1 .. Len(queue) : queue[i] # c
        /\ \A w \in Workers : worker[w].conn # c
    BY <2>1 DEF OwnedInv, AcceptOwns
  <2>3. /\ Len(queue) \in Nat /\ Len(queue') = Len(queue) + 1
        /\ queue'[Len(queue) + 1] = c
        /\ \A i \in 1 .. Len(queue) : queue'[i] = queue[i]
    BY <2>1
  <2>4. \A i \in 1 .. Len(queue') : i = Len(queue) + 1 \/ i \in 1 .. Len(queue)
    BY <2>3
  <2>5. Len(queue) + 1 \in 1 .. Len(queue') /\ 1 .. Len(queue) \subseteq 1 .. Len(queue')
    BY <2>3
  <2> HIDE DEF c
  <2>6. QueueOwns'
    BY <2>1, <2>2, <2>3, <2>4 DEF OwnedInv, QueueOwns
  <2>7. AcceptOwns'
    BY <2>1 DEF AcceptOwns
  <2>8. WorkersOwn'
    BY <2>1, <2>2, <2>3, <2>4 DEF OwnedInv, WorkersOwn
  <2>9. OpenIsHeld'
    BY <2>1, <2>3, <2>5 DEF OwnedInv, OpenIsHeld, c
  <2> QED
    BY <2>6, <2>7, <2>8, <2>9 DEF OwnedInv
<1>5. CASE AcceptNotifies
  <2>1. accept.conn = NoConn /\ accept'.conn = NoConn /\ queue' = queue /\ conn' = conn
    BY <1>5, IdleHasNone, ThreadFields DEF AcceptNotifies, flags
  <2>2. worker \in [Workers -> WorkerStates]
    BY DEF AdminTypeOK
  <2>3. \A w \in Workers : worker'[w].conn = worker[w].conn
    BY <1>5, <2>2, NotifyOneMoves DEF AcceptNotifies, WorkerStates
  <2> QED
    BY <2>1, <2>3, OwnedStays
<1> QED
  BY <1>1, <1>2, <1>3, <1>4, <1>5 DEF AcceptStep

LEMMA OwnedWorkerStep ==
    ASSUME OwnedInv, AdminTypeOK, NEW w \in Workers, WorkerStep(w) \/ WorkerWakes(w)
    PROVE  OwnedInv'
<1>1. ASSUME NEW pc, WorkerGoes(w, pc, worker[w].conn),
             UNCHANGED <<accept, queue, conn>>
      PROVE  OwnedInv'
  <2>1. \A v \in Workers : worker'[v].conn = worker[v].conn
    BY <1>1, WorkerMoves
  <2> QED
    BY <1>1, <2>1, OwnedStays
<1>2. CASE WorkerEnds(w) \/ WorkerMustWait(w) \/ WorkerSleeps(w) \/ WorkerWakes(w)
  <2>1. worker[w].conn = NoConn
    BY <1>2, IdleHasNone DEF WorkerEnds, WorkerMustWait, WorkerSleeps, WorkerWakes, Busy
  <2> QED
    BY <1>1, <1>2, <2>1 DEF WorkerEnds, WorkerMustWait, WorkerSleeps, WorkerWakes
<1>3. CASE HandshakeDone(w) \/ ReadDone(w)
  BY <1>1, <1>3 DEF HandshakeDone, ReadDone
<1>4. CASE WorkerTakes(w)
  <2> DEFINE c == Head(queue)
  <2>1. /\ queue \in Seq(Conns) /\ queue # <<>> /\ queue' = Tail(queue)
        /\ worker[w].conn = NoConn /\ worker'[w].conn = c
        /\ \A v \in Workers \ {w} : worker'[v] = worker[v]
        /\ accept' = accept /\ conn' = conn
    BY <1>4, IdleHasNone, WorkerMoves DEF WorkerTakes, AdminTypeOK, Busy
  <2>2. /\ Len(queue) \in Nat /\ 1 \in 1 .. Len(queue) /\ c = queue[1] /\ c \in Conns
        /\ Len(queue') = Len(queue) - 1
        /\ \A i \in 1 .. Len(queue') : i + 1 \in 1 .. Len(queue) /\ queue'[i] = queue[i + 1]
    BY <2>1
  <2>3. \A i \in 1 .. Len(queue) : i = 1 \/ (i - 1 \in 1 .. Len(queue') /\ queue'[i - 1] = queue[i])
    BY <2>1, <2>2
  <2>4. c # NoConn
    BY <2>2, NoConnAssumption
  <2> HIDE DEF c
  <2>5. /\ conn[c] = "open" /\ accept.conn # c
        /\ \A v \in Workers : worker[v].conn # c
    BY <2>2, <2>4 DEF OwnedInv, QueueOwns, AcceptOwns, WorkersOwn
  <2>6. \A i \in 1 .. Len(queue') : i + 1 # 1 /\ queue'[i] # c
    BY <2>2 DEF OwnedInv, QueueOwns
  <2>7. QueueOwns'
    BY <2>1, <2>2 DEF OwnedInv, QueueOwns
  <2>8. AcceptOwns'
    BY <2>1, <2>2, <2>5 DEF OwnedInv, AcceptOwns
  <2>9. WorkersOwn'
    BY <2>1, <2>2, <2>5, <2>6 DEF OwnedInv, WorkersOwn
  <2>10. OpenIsHeld'
    <3> SUFFICES ASSUME NEW d \in Conns, conn[d] = "open"
                 PROVE  \/ accept.conn = d
                        \/ \E i \in 1 .. Len(queue') : queue'[i] = d
                        \/ \E v \in Workers : worker'[v].conn = d
      BY <2>1 DEF OpenIsHeld
    <3>1. CASE \E v \in Workers : worker[v].conn = d
      BY <2>1, <3>1, NoConnAssumption
    <3>2. CASE \E i \in 1 .. Len(queue) : queue[i] = d
      BY <2>1, <2>2, <2>3, <3>2
    <3> QED
      BY <3>1, <3>2 DEF OwnedInv, OpenIsHeld
  <2> QED
    BY <2>7, <2>8, <2>9, <2>10 DEF OwnedInv
<1>5. ASSUME worker[w].pc \in Busy, Closes(w)
      PROVE  OwnedInv'
  <2> DEFINE c == worker[w].conn
  <2>1. /\ c \in Conns /\ c # NoConn /\ worker'[w].conn = NoConn
        /\ \A v \in Workers \ {w} : worker'[v] = worker[v]
        /\ accept' = accept /\ queue' = queue /\ queue \in Seq(Conns)
        /\ conn' = [conn EXCEPT ![c] = "closed"]
        /\ conn \in [Conns -> {"new", "open", "refused", "closed"}]
    BY <1>5, BusyHasConn, WorkerMoves, NoConnAssumption DEF Closes, AdminTypeOK
  <2>2. /\ accept.conn # c /\ \A i \in 1 .. Len(queue) : queue[i] # c
        /\ \A v \in Workers : worker[v].conn = c => v = w
    BY <2>1 DEF OwnedInv, AcceptOwns, WorkersOwn
  <2>3. conn'[c] = "closed" /\ \A d \in Conns : d # c => conn'[d] = conn[d]
    BY <2>1
  <2>4. /\ \A v \in Workers : worker[v].conn # NoConn => worker[v].conn \in Conns
        /\ accept.conn # NoConn => accept.conn \in Conns
    BY DEF AdminTypeOK, WorkerStates, AcceptStates
  <2>5. QueueOwns'
    BY <2>1, <2>2, <2>3 DEF OwnedInv, QueueOwns
  <2>6. AcceptOwns'
    BY <2>1, <2>2, <2>3, <2>4 DEF OwnedInv, AcceptOwns
  <2>7. WorkersOwn'
    BY <2>1, <2>2, <2>3, <2>4 DEF OwnedInv, WorkersOwn
  <2>8. OpenIsHeld'
    <3> SUFFICES ASSUME NEW d \in Conns, conn'[d] = "open"
                 PROVE  \/ accept.conn = d
                        \/ \E i \in 1 .. Len(queue) : queue[i] = d
                        \/ \E v \in Workers : worker'[v].conn = d
      BY <2>1 DEF OpenIsHeld
    <3>1. d # c /\ conn[d] = "open"
      BY <2>3
    <3>2. ASSUME NEW v \in Workers, worker[v].conn = d
          PROVE  worker'[v].conn = d
      BY <2>1, <3>1, <3>2
    <3> QED
      BY <3>1, <3>2 DEF OwnedInv, OpenIsHeld
  <2> QED
    BY <2>5, <2>6, <2>7, <2>8 DEF OwnedInv
<1>6. CASE HandshakeFails(w) \/ ReadFails(w) \/ HandleEnds(w)
  BY <1>5, <1>6 DEF HandshakeFails, ReadFails, HandleEnds, Busy
<1> QED
  BY <1>2, <1>3, <1>4, <1>6 DEF WorkerStep

LEMMA OwnedStopStep ==
    ASSUME OwnedInv, AdminTypeOK, StopBegins \/ StopStep
    PROVE  OwnedInv'
<1>1. CASE StopNotifies
  <2>1. \A w \in Workers : worker'[w].conn = worker[w].conn
    BY <1>1, IdleHasNone, ThreadFields DEF StopNotifies, Busy
  <2> QED
    BY <1>1, <2>1, OwnedStays DEF StopNotifies
<1>2. CASE StopBegins \/ StopFlags \/ StopCloses \/ StopJoinsAccept \/ StopJoinsWorkers
  BY <1>2, OwnedStays
     DEF StopBegins, StopFlags, StopCloses, StopJoinsAccept, StopJoinsWorkers
<1> QED
  BY <1>1, <1>2 DEF StopStep

LEMMA OwnedHolds == AdminSpec => []OwnedInv
<1>1. AdminInit => OwnedInv
  BY ThreadFields DEF AdminInit, OwnedInv, QueueOwns, AcceptOwns, WorkersOwn, OpenIsHeld
<1>2. OwnedInv /\ AdminTypeOK /\ [AdminNext]_adminVars => OwnedInv'
  <2> SUFFICES ASSUME OwnedInv, AdminTypeOK, [AdminNext]_adminVars
               PROVE  OwnedInv'
    OBVIOUS
  <2>1. ASSUME NEW c \in Conns, ClientStep(c)
        PROVE  OwnedInv'
    BY <2>1, OwnedStays DEF ClientStep, ClientSends, ClientLeaves
  <2>2. CASE UNCHANGED adminVars
    BY <2>2, OwnedStays DEF adminVars
  <2> QED
    BY <2>1, <2>2, OwnedAcceptStep, OwnedWorkerStep, OwnedStopStep DEF AdminNext
<1> QED
  BY <1>1, <1>2, AdminTypeCorrect, PTL DEF AdminSpec

\* Every connection is closed once: an open one is with one thread or once in the
\* queue, a closed or refused one with nobody, while the pool runs and stops.
THEOREM ConnectionsOwnedOnce == AdminSpec => []OwnedOnce
<1>1. OwnedInv /\ AdminTypeOK => OwnedOnce
  BY OwnedInvCounts
<1> QED
  BY <1>1, OwnedHolds, AdminTypeCorrect, PTL

-----------------------------------------------------------------------------
(* stop() strands one worker at most.                                       *)

\* One worker at most holds the mutex in wait(), from notify_all on there is one
\* at most that waits, and stopping_ has been true since before that.
StrandInv ==
    /\ main \in {"close", "notify", "join_accept", "join_workers", "stopped"} => stopping
    /\ \A v, w \in Workers : worker[v].pc = "block" /\ worker[w].pc = "block" => v = w
    /\ OneStranded

\* A step after which no worker waits or has the lock that did not before.
LEMMA StrandStays ==
    ASSUME StrandInv, main' = main, stopping' = stopping,
           \A w \in Workers : /\ Waits(w)' => Waits(w)
                              /\ worker'[w].pc = "block" => worker[w].pc = "block"
    PROVE  StrandInv'
  BY DEF StrandInv, OneStranded

LEMMA StrandAcceptStep ==
    ASSUME StrandInv, AdminTypeOK, AcceptStep
    PROVE  StrandInv'
<1>1. ASSUME UNCHANGED worker, UNCHANGED flags
      PROVE  StrandInv'
  BY <1>1, StrandStays DEF flags, Waits
<1>2. CASE AcceptNotifies
  <2>1. \A w \in Workers : worker'[w] = worker[w] \/ worker'[w].pc = "test"
    <3>1. worker \in [Workers -> WorkerStates] /\ NotifyOne
      BY <1>2 DEF AdminTypeOK, AcceptNotifies
    <3> QED
      BY <3>1, NotifyOneMoves DEF WorkerStates
  <2> QED
    BY <1>2, <2>1, StrandStays DEF AcceptNotifies, flags, Waits
<1>3. CASE ~AcceptNotifies
  BY <1>1, <1>3 DEF AcceptStep, AcceptTest, AcceptConnection, AcceptInterrupted,
     AcceptFails, AcceptRefuses, AcceptQueues
<1> QED
  BY <1>2, <1>3

LEMMA StrandWorkerStep ==
    ASSUME StrandInv, AdminTypeOK, NEW w \in Workers, WorkerStep(w) \/ WorkerWakes(w)
    PROVE  StrandInv'
<1>1. ASSUME NEW pc, NEW c, WorkerGoes(w, pc, c), UNCHANGED flags,
             pc \notin {"block", "sleep"}
      PROVE  StrandInv'
  <2>1. worker'[w].pc = pc /\ \A v \in Workers \ {w} : worker'[v] = worker[v]
    BY <1>1, WorkerMoves
  <2> QED
    BY <1>1, <2>1, StrandStays DEF flags, Waits
<1>2. CASE WorkerMustWait(w)
  <2>1. /\ worker'[w].pc = "block" /\ \A v \in Workers \ {w} : worker'[v] = worker[v]
        /\ \A v \in Workers : worker[v].pc # "block"
        /\ ~stopping /\ main' = main /\ stopping' = stopping
    BY <1>2, WorkerMoves DEF WorkerMustWait, Unlocked, flags
  <2> QED
    BY <2>1 DEF StrandInv, OneStranded
<1>3. CASE WorkerSleeps(w)
  <2>1. /\ worker[w].pc = "block" /\ worker'[w].pc = "sleep"
        /\ \A v \in Workers \ {w} : worker'[v] = worker[v]
        /\ main' = main /\ stopping' = stopping
    BY <1>3, WorkerMoves DEF WorkerSleeps, flags
  <2> QED
    BY <2>1, StrandStays DEF Waits
<1>4. CASE ~WorkerMustWait(w) /\ ~WorkerSleeps(w)
  BY <1>1, <1>4
     DEF WorkerStep, WorkerTakes, WorkerEnds, WorkerWakes, HandshakeFails, HandshakeDone,
         ReadDone, ReadFails, HandleEnds, Closes
<1> QED
  BY <1>2, <1>3, <1>4

LEMMA StrandStopStep ==
    ASSUME StrandInv, StopBegins \/ StopStep
    PROVE  StrandInv'
<1>1. CASE StopNotifies
  <2>1. /\ main = "notify" /\ main' = "join_accept" /\ stopping' = stopping
        /\ \A w \in Workers : IF worker[w].pc = "sleep" THEN worker'[w].pc = "test"
                               ELSE worker'[w] = worker[w]
    BY <1>1, ThreadFields DEF StopNotifies, MainGoes
  <2>2. \A w \in Workers : Waits(w)' => worker[w].pc = "block" /\ worker'[w].pc = "block"
    BY <2>1 DEF Waits
  <2> QED
    BY <2>1, <2>2 DEF StrandInv, OneStranded, Waits
<1>2. CASE StopBegins \/ StopFlags \/ StopCloses
  BY <1>2 DEF StopBegins, StopFlags, StopCloses, MainGoes, StrandInv, OneStranded
<1>3. CASE StopJoinsAccept \/ StopJoinsWorkers
  <2>1. /\ main \in {"join_accept", "join_workers"} /\ worker' = worker
        /\ main' \in {"join_workers", "stopped"} /\ stopping' = stopping
    BY <1>3 DEF StopJoinsAccept, StopJoinsWorkers, MainGoes
  <2> QED
    BY <2>1 DEF StrandInv, OneStranded, Waits
<1> QED
  BY <1>1, <1>2, <1>3 DEF StopStep

\* However many workers there are, stop() leaves at most one of them asleep that
\* it has not woken.
THEOREM StopStrandsOne == AdminSpec => []OneStranded
<1>1. AdminInit => StrandInv
  BY ThreadFields DEF AdminInit, StrandInv, OneStranded
<1>2. StrandInv /\ AdminTypeOK /\ [AdminNext]_adminVars => StrandInv'
  <2> SUFFICES ASSUME StrandInv, AdminTypeOK, [AdminNext]_adminVars
               PROVE  StrandInv'
    OBVIOUS
  <2>1. CASE UNCHANGED adminVars \/ \E c \in Conns : ClientStep(c)
    BY <2>1, StrandStays DEF adminVars, flags, ClientStep, ClientSends, ClientLeaves, Waits
  <2> QED
    BY <2>1, StrandAcceptStep, StrandWorkerStep, StrandStopStep DEF AdminNext
<1>3. StrandInv => OneStranded
  BY DEF StrandInv
<1> QED
  BY <1>1, <1>2, <1>3, AdminTypeCorrect, PTL DEF AdminSpec

-----------------------------------------------------------------------------
(* The pool implements the service.                                         *)

\* stop() frees the context last, and the accept thread has ended by then.
UpInv ==
    /\ ctx <=> main # "stopped"
    /\ main \in {"join_workers", "stopped"} => accept.pc = "done"

LEMMA UpHolds == AdminSpec => []UpInv
<1>1. AdminInit => UpInv
  BY DEF AdminInit, UpInv
<1>2. UpInv /\ [AdminNext]_adminVars => UpInv'
  <2> SUFFICES ASSUME UpInv, [AdminNext]_adminVars
               PROVE  UpInv'
    OBVIOUS
  <2>1. CASE AcceptStep
    BY <2>1 DEF AcceptStep, AcceptTest, AcceptConnection, AcceptInterrupted, AcceptFails,
                AcceptRefuses, AcceptQueues, AcceptNotifies, flags, UpInv
  <2>2. ASSUME NEW w \in Workers, WorkerStep(w) \/ WorkerWakes(w)
        PROVE  UpInv'
    BY <2>2 DEF WorkerStep, WorkerTakes, WorkerEnds, WorkerMustWait, WorkerSleeps,
                WorkerWakes, HandshakeFails, HandshakeDone, ReadDone, ReadFails,
                HandleEnds, Closes, flags, UpInv
  <2>3. CASE StopBegins \/ StopStep
    BY <2>3 DEF StopBegins, StopStep, StopFlags, StopCloses, StopNotifies,
                StopJoinsAccept, StopJoinsWorkers, MainGoes, UpInv
  <2>4. CASE UNCHANGED adminVars \/ \E c \in Conns : ClientStep(c)
    BY <2>4 DEF adminVars, flags, ClientStep, ClientSends, ClientLeaves, UpInv
  <2> QED
    BY <2>1, <2>2, <2>3, <2>4 DEF AdminNext
<1> QED
  BY <1>1, <1>2, PTL DEF AdminSpec

\* Steps that move no connection.
LEMMA ServiceStays ==
    ASSUME accept'.conn = accept.conn, queue' = queue, conn' = conn, ctx' = ctx,
           \A w \in Workers : worker'[w].conn = worker[w].conn
    PROVE  UNCHANGED Service!serviceVars
  BY DEF Service!serviceVars, Arriving, Serving, Having

\* The service counts its servers as the pool does.
LEMMA SameCount ==
    ASSUME NEW S
    PROVE  Service!Cardinality(S) = Cardinality(S)
  BY Zenon DEF Service!Cardinality, Cardinality

\* A worker without a connection is a server that is free.
LEMMA FreeServer ==
    ASSUME IsFiniteSet(Workers), NEW w \in Workers, worker[w].conn \notin Conns
    PROVE  Cardinality(Serving) < Cardinality(Workers)
<1> DEFINE B == {v \in Workers : worker[v].conn \in Conns}
           f == [v \in B |-> worker[v].conn]
<1>1. B \in SUBSET (Workers \ {w})
  OBVIOUS
<1>2. /\ IsFiniteSet(Workers \ {w}) /\ Cardinality(Workers) \in Nat
      /\ Cardinality(Workers \ {w}) = Cardinality(Workers) - 1
  BY FS_RemoveElement, FS_CardinalityType
<1>3. IsFiniteSet(B) /\ Cardinality(B) <= Cardinality(Workers \ {w})
  BY <1>1, <1>2, FS_Subset
<1>4. f \in Surjection(B, Serving)
  BY DEF Surjection, Serving
<1>5. IsFiniteSet(Serving) /\ Cardinality(Serving) <= Cardinality(B)
  BY <1>3, <1>4, FS_Surjection
<1>6. Cardinality(B) \in Nat /\ Cardinality(Serving) \in Nat
  BY <1>3, <1>5, FS_CardinalityType
<1> QED
  BY <1>2, <1>3, <1>5, <1>6

\* The accept thread: a new connection arrives, and is admitted or refused.
LEMMA ServiceAcceptStep ==
    ASSUME OwnedInv, AdminTypeOK, UpInv, AcceptStep
    PROVE  [Service!ServiceNext]_Service!serviceVars
<1>0. /\ accept.conn # NoConn => accept.conn \in Conns
      /\ \A w \in Workers : worker[w].conn # NoConn => worker[w].conn \in Conns
      /\ queue \in Seq(Conns) /\ Len(queue) <= MaxPending /\ NoConn \notin Conns
      /\ conn \in [Conns -> {"new", "open", "refused", "closed"}]
  BY NoConnAssumption DEF AdminTypeOK, AcceptStates, WorkerStates
<1>1. CASE AcceptTest \/ AcceptInterrupted \/ AcceptFails
  <2>1. accept'.conn = accept.conn
    BY <1>1, IdleHasNone, ThreadFields DEF AcceptTest, AcceptInterrupted, AcceptFails
  <2> QED
    BY <1>1, <2>1, ServiceStays DEF AcceptTest, AcceptInterrupted, AcceptFails, flags
<1>2. CASE AcceptNotifies
  <2>1. accept'.conn = accept.conn /\ UNCHANGED <<ctx, queue, conn>>
    BY <1>2, IdleHasNone, ThreadFields DEF AcceptNotifies, flags
  <2>2. worker \in [Workers -> WorkerStates]
    BY DEF AdminTypeOK
  <2>3. \A w \in Workers : worker'[w].conn = worker[w].conn
    BY <1>2, <2>2, NotifyOneMoves DEF AcceptNotifies, WorkerStates
  <2> QED
    BY <2>1, <2>3, ServiceStays
<1>3. ASSUME NEW c \in Conns, AcceptConnection(c)
      PROVE  Service!Arrive(c)
  <2>1. /\ accept.pc = "accept" /\ accept.conn = NoConn /\ accept'.conn = c
        /\ conn[c] = "new" /\ conn' = [conn EXCEPT ![c] = "open"]
        /\ UNCHANGED <<ctx, queue, worker>>
    BY <1>3, IdleHasNone, ThreadFields DEF AcceptConnection, flags
  <2>2. ctx = TRUE
    BY <2>1 DEF UpInv, AdminTypeOK
  <2>3. Arriving = {} /\ Arriving' = {c}
    BY <1>0, <2>1 DEF Arriving
  <2>4. c \notin Service!Known
    <3>1. \A i \in DOMAIN queue : queue[i] # c
      BY <1>0, <2>1 DEF OwnedInv, QueueOwns
    <3>2. c \notin Serving
      BY <1>0, <2>1 DEF OwnedInv, WorkersOwn, Serving
    <3> QED
      BY <2>1, <2>3, <3>1, <3>2 DEF Service!Known, Having
  <2>5. UNCHANGED <<Serving, Having("refused"), Having("closed")>>
    BY <1>0, <2>1 DEF Serving, Having
  <2> QED
    BY <2>1, <2>2, <2>3, <2>4, <2>5 DEF Service!Arrive
<1>4. CASE AcceptRefuses \/ AcceptQueues
  <2> DEFINE c == accept.conn
  <2>1. /\ accept.pc = "queue" /\ c \in Conns /\ accept'.conn = NoConn
        /\ UNCHANGED <<ctx, worker>>
    BY <1>4, AcceptHasConn, ThreadFields DEF AcceptRefuses, AcceptQueues, AdminTypeOK, flags
  <2>2. Arriving = {c} /\ Arriving' = {} /\ Serving' = Serving
    BY <1>0, <2>1 DEF Arriving, Serving
  <2>3. conn[c] = "open"
    BY <1>0, <2>1 DEF OwnedInv, AcceptOwns
  <2> HIDE DEF c
  <2>4. CASE AcceptRefuses
    <3>1. Len(queue) >= MaxPending /\ queue' = queue /\ conn' = [conn EXCEPT ![c] = "refused"]
      BY <2>4 DEF AcceptRefuses, c
    <3>2. Len(queue) = MaxPending
      BY <1>0, <3>1, MaxPendingAssumption
    <3>3. Having("refused")' = Having("refused") \cup {c} /\ Having("closed")' = Having("closed")
      BY <1>0, <2>1, <2>3, <3>1 DEF Having
    <3> QED
      BY <2>1, <2>2, <3>1, <3>2, <3>3 DEF Service!Refuse, Service!ServiceNext
  <2>5. CASE AcceptQueues
    <3>1. Len(queue) < MaxPending /\ queue' = Append(queue, c) /\ conn' = conn
      BY <2>5 DEF AcceptQueues, c
    <3>2. UNCHANGED <<Having("refused"), Having("closed")>>
      BY <3>1 DEF Having
    <3> QED
      BY <2>1, <2>2, <3>1, <3>2 DEF Service!Admit, Service!ServiceNext
  <2> QED
    BY <1>4, <2>4, <2>5
<1> QED
  BY <1>1, <1>2, <1>3, <1>4 DEF AcceptStep, Service!ServiceNext

\* A worker: the connection at the head is served, and a served one is closed.
LEMMA ServiceWorkerStep ==
    ASSUME IsFiniteSet(Workers), OwnedInv, AdminTypeOK, ContextInv,
           NEW w \in Workers, WorkerStep(w) \/ WorkerWakes(w)
    PROVE  [Service!ServiceNext]_Service!serviceVars
<1>0. /\ \A v \in Workers : worker[v].conn # NoConn => worker[v].conn \in Conns
      /\ queue \in Seq(Conns) /\ NoConn \notin Conns
      /\ conn \in [Conns -> {"new", "open", "refused", "closed"}]
      /\ worker[w].pc # "done" => ctx = TRUE
  BY NoConnAssumption DEF AdminTypeOK, WorkerStates, ContextInv
<1>1. ASSUME NEW pc, WorkerGoes(w, pc, worker[w].conn),
             UNCHANGED <<accept, queue, conn, ctx>>
      PROVE  UNCHANGED Service!serviceVars
  <2>1. \A v \in Workers : worker'[v].conn = worker[v].conn
    BY <1>1, WorkerMoves
  <2> QED
    BY <1>1, <2>1, ServiceStays
<1>2. CASE WorkerEnds(w) \/ WorkerMustWait(w) \/ WorkerSleeps(w) \/ WorkerWakes(w)
  <2>1. worker[w].conn = NoConn
    BY <1>2, IdleHasNone DEF WorkerEnds, WorkerMustWait, WorkerSleeps, WorkerWakes, Busy
  <2> QED
    BY <1>1, <1>2, <2>1 DEF WorkerEnds, WorkerMustWait, WorkerSleeps, WorkerWakes, flags
<1>3. CASE HandshakeDone(w) \/ ReadDone(w)
  BY <1>1, <1>3 DEF HandshakeDone, ReadDone, flags
<1>4. CASE WorkerTakes(w)
  <2> DEFINE c == Head(queue)
  <2>1. /\ queue # <<>> /\ queue' = Tail(queue) /\ worker[w].pc # "done"
        /\ worker[w].conn = NoConn /\ worker'[w].conn = c
        /\ \A v \in Workers \ {w} : worker'[v] = worker[v]
        /\ UNCHANGED <<ctx, accept, conn>>
    BY <1>4, IdleHasNone, WorkerMoves DEF WorkerTakes, Busy, flags
  <2>2. c \in Conns
    BY <1>0, <2>1
  <2> HIDE DEF c
  <2>3. Serving' = Serving \cup {c}
    BY <1>0, <2>1, <2>2 DEF Serving
  <2>4. UNCHANGED <<Arriving, Having("refused"), Having("closed")>>
    BY <2>1 DEF Arriving, Having
  <2>5. Cardinality(Serving) < Cardinality(Workers)
    BY <1>0, <2>1, FreeServer
  <2>6. ctx = TRUE /\ ctx' = ctx
    BY <1>0, <2>1
  <2>7. Service!Serve
    BY <2>1, <2>3, <2>4, <2>5, <2>6, SameCount DEF c, Service!Serve
  <2> QED
    BY <2>7 DEF Service!ServiceNext
<1>5. ASSUME worker[w].pc \in Busy, Closes(w)
      PROVE  Service!ServiceNext
  <2> DEFINE c == worker[w].conn
  <2>1. /\ c \in Conns /\ worker'[w].conn = NoConn /\ worker[w].pc # "done"
        /\ \A v \in Workers \ {w} : worker'[v] = worker[v]
        /\ UNCHANGED <<ctx, accept, queue>>
        /\ conn' = [conn EXCEPT ![c] = "closed"]
    BY <1>5, BusyHasConn, WorkerMoves DEF Closes, AdminTypeOK, Busy, flags
  <2>2. conn[c] = "open" /\ \A v \in Workers : worker[v].conn = c => v = w
    BY <1>0, <2>1 DEF OwnedInv, WorkersOwn
  <2>3. c \in Serving /\ Serving' = Serving \ {c}
    <3>1. c \in Serving
      BY <2>1 DEF Serving
    <3>2. c \notin Serving'
      BY <1>0, <2>1, <2>2 DEF Serving
    <3>3. ASSUME NEW d \in Conns, d # c
          PROVE  d \in Serving' <=> d \in Serving
      <4>1. \A v \in Workers : worker'[v].conn = d <=> worker[v].conn = d
        BY <1>0, <2>1, <3>3
      <4> QED
        BY <4>1 DEF Serving
    <3>4. Serving \subseteq Conns /\ Serving' \subseteq Conns
      BY DEF Serving
    <3> QED
      BY <3>1, <3>2, <3>3, <3>4
  <2> HIDE DEF c
  <2>4. Having("closed")' = Having("closed") \cup {c} /\ Having("refused")' = Having("refused")
    BY <1>0, <2>1, <2>2 DEF Having
  <2>5. Arriving' = Arriving
    BY <2>1 DEF Arriving
  <2> QED
    BY <1>0, <2>1, <2>3, <2>4, <2>5 DEF Service!Close, Service!ServiceNext
<1>6. CASE HandshakeFails(w) \/ ReadFails(w) \/ HandleEnds(w)
  BY <1>5, <1>6 DEF HandshakeFails, ReadFails, HandleEnds, Busy
<1> QED
  BY <1>2, <1>3, <1>4, <1>6 DEF WorkerStep

\* main: the service goes down when the workers have been joined.
LEMMA ServiceStopStep ==
    ASSUME OwnedInv, AdminTypeOK, UpInv, StopBegins \/ StopStep
    PROVE  [Service!ServiceNext]_Service!serviceVars
<1>1. CASE StopNotifies
  <2>1. \A w \in Workers : worker'[w].conn = worker[w].conn
    BY <1>1, IdleHasNone, ThreadFields DEF StopNotifies, Busy
  <2> QED
    BY <1>1, <2>1, ServiceStays DEF StopNotifies
<1>2. CASE StopBegins \/ StopFlags \/ StopCloses \/ StopJoinsAccept
  BY <1>2, ServiceStays DEF StopBegins, StopFlags, StopCloses, StopJoinsAccept
<1>3. CASE StopJoinsWorkers
  <2>1. /\ accept.conn = NoConn /\ \A w \in Workers : worker[w].conn = NoConn
        /\ ctx = TRUE /\ ctx' = FALSE /\ UNCHANGED <<accept, worker, queue, conn>>
    BY <1>3, IdleHasNone DEF StopJoinsWorkers, MainGoes, UpInv, AdminTypeOK, Busy
  <2>2. Arriving = {} /\ Serving = {}
    BY <2>1, NoConnAssumption DEF Arriving, Serving
  <2>3. UNCHANGED <<Arriving, Serving, Having("refused"), Having("closed")>>
    BY <2>1 DEF Arriving, Serving, Having
  <2> QED
    BY <2>1, <2>2, <2>3 DEF Service!GoDown, Service!ServiceNext
<1> QED
  BY <1>1, <1>2, <1>3 DEF StopStep

\* Pool: its threads, with the queue between them, implement the service, for any
\* number of workers and connections and any bound.
THEOREM PoolImplementsService ==
    ASSUME IsFiniteSet(Workers)
    PROVE  AdminSpec => ServiceSpec
<1>1. AdminInit => Service!ServiceInit
  BY NoConnAssumption, ThreadFields
     DEF AdminInit, Service!ServiceInit, Arriving, Serving, Having
<1>2. OwnedInv /\ AdminTypeOK /\ ContextInv /\ UpInv /\ [AdminNext]_adminVars
        => [Service!ServiceNext]_Service!serviceVars
  <2> SUFFICES ASSUME OwnedInv, AdminTypeOK, ContextInv, UpInv, [AdminNext]_adminVars
               PROVE  [Service!ServiceNext]_Service!serviceVars
    OBVIOUS
  <2>1. CASE UNCHANGED adminVars \/ \E c \in Conns : ClientStep(c)
    BY <2>1, ServiceStays DEF adminVars, flags, ClientStep, ClientSends, ClientLeaves
  <2> QED
    BY <2>1, ServiceAcceptStep, ServiceWorkerStep, ServiceStopStep DEF AdminNext
<1> QED
  BY <1>1, <1>2, AdminTypeCorrect, OwnedHolds, ContextHolds, UpHolds, PTL
     DEF AdminSpec, ServiceSpec, Service!ServiceSpec
=============================================================================
