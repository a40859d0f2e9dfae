----------------------------- MODULE AdminServer -----------------------------
(***************************************************************************)
(* The thread pool of the HTTPS server (src/api/AdminServer.cpp): a thread *)
(* accepts connections and queues them, workers take them off the queue    *)
(* under qmtx_ and qcv_, and main starts and stops the pool.               *)
(*                                                                         *)
(* What a worker does with a request is CommandHandler; here it is one     *)
(* step between reading the request and answering it.  TLS, HTTP and JSON  *)
(* are left out except for how they end: a handshake that fails or times   *)
(* out, a read that ends because the peer has gone, a read that goes on    *)
(* because it has not, an answer that cannot be written.                   *)
(*                                                                         *)
(* qmtx_ is held over one step at most, so it is held exactly while some   *)
(* worker is between its test of the predicate and its sleep in wait().    *)
(***************************************************************************)
EXTENDS Naturals, Sequences, FiniteSets, SequencesExt

CONSTANTS Workers,      \* the worker threads
          Conns,        \* the connections clients ask for
          MaxPending    \* kMaxPending

ASSUME MaxPendingAssumption == MaxPending \in Nat \ {0}

VARIABLES running,      \* running_
          stopping,     \* stopping_
          listening,    \* whether listen_fd_ is open
          ctx,          \* whether ssl_ctx_ is there
          main,         \* where main is: it serves, stops or has stopped
          accept,       \* the accept thread: its place and the connection it holds
          worker,       \* each worker: its place and the connection it holds
          queue,        \* queue_
          conn,         \* each connection: asked for, open, refused or closed
          client        \* its peer: quiet, or the request is sent, or it is gone

adminVars == <<running, stopping, listening, ctx, main, accept, worker, queue,
               conn, client>>

flags == <<running, stopping, listening, ctx, main>>

NoConn == "none"

ASSUME NoConnAssumption == NoConn \notin Conns

Thread(pc, c) == [pc |-> pc, conn |-> c]

AdminInit ==
    /\ running = TRUE /\ stopping = FALSE
    /\ listening = TRUE /\ ctx = TRUE
    /\ main = "serve"
    /\ accept = Thread("test", NoConn)
    /\ worker = [w \in Workers |-> Thread("test", NoConn)]
    /\ queue = <<>>
    /\ conn = [c \in Conns |-> "new"]
    /\ client = [c \in Conns |-> "quiet"]

\* qmtx_ is free.
Unlocked == \A w \in Workers : worker[w].pc # "block"

-----------------------------------------------------------------------------
(* The clients.                                                             *)

ClientSends(c) ==
    /\ client[c] = "quiet" /\ conn[c] = "open"
    /\ client' = [client EXCEPT ![c] = "sent"]
    /\ UNCHANGED <<flags, accept, worker, queue, conn>>

\* The client closes its end, or sends more than a header may hold.
ClientLeaves(c) ==
    /\ client[c] # "gone" /\ conn[c] = "open"
    /\ client' = [client EXCEPT ![c] = "gone"]
    /\ UNCHANGED <<flags, accept, worker, queue, conn>>

ClientStep(c) == ClientSends(c) \/ ClientLeaves(c)

-----------------------------------------------------------------------------
(* accept_loop.                                                             *)

AcceptTest ==
    /\ accept.pc = "test"
    /\ accept' = Thread(IF running THEN "accept" ELSE "done", NoConn)
    /\ UNCHANGED <<flags, worker, queue, conn, client>>

AcceptConnection(c) ==
    /\ accept.pc = "accept" /\ listening
    /\ conn[c] = "new"
    /\ conn' = [conn EXCEPT ![c] = "open"]
    /\ accept' = Thread("queue", c)
    /\ UNCHANGED <<flags, worker, queue, client>>

\* accept() fails: a signal, the two seconds of SO_RCVTIMEO, a closed socket.
AcceptInterrupted ==
    /\ accept.pc = "accept"
    /\ accept' = Thread("test", NoConn)
    /\ UNCHANGED <<flags, worker, queue, conn, client>>

AcceptFails ==
    /\ accept.pc = "accept"
    /\ accept' = Thread(IF running THEN "test" ELSE "done", NoConn)
    /\ UNCHANGED <<flags, worker, queue, conn, client>>

\* Faulty variant: the connection is closed and queued all the same.
AcceptRefuses_NoContinue ==
    /\ accept.pc = "queue" /\ Unlocked
    /\ Len(queue) >= MaxPending
    /\ conn' = [conn EXCEPT ![accept.conn] = "refused"]
    /\ queue' = Append(queue, accept.conn)
    /\ accept' = Thread("notify", NoConn)
    /\ UNCHANGED <<flags, worker, client>>

AcceptRefuses ==
    /\ accept.pc = "queue" /\ Unlocked
    /\ Len(queue) >= MaxPending
    /\ conn' = [conn EXCEPT ![accept.conn] = "refused"]
    /\ accept' = Thread("test", NoConn)
    /\ UNCHANGED <<flags, worker, queue, client>>

\* Faulty variant: one connection more than the bound.
AcceptQueues_OffByOne ==
    /\ accept.pc = "queue" /\ Unlocked
    /\ Len(queue) <= MaxPending
    /\ queue' = Append(queue, accept.conn)
    /\ accept' = Thread("notify", NoConn)
    /\ UNCHANGED <<flags, worker, conn, client>>

AcceptQueues ==
    /\ accept.pc = "queue" /\ Unlocked
    /\ Len(queue) < MaxPending
    /\ queue' = Append(queue, accept.conn)
    /\ accept' = Thread("notify", NoConn)
    /\ UNCHANGED <<flags, worker, conn, client>>

\* notify_one after the lock is released: it wakes a worker or is lost.
NotifyOne ==
    LET asleep == {w \in Workers : worker[w].pc = "sleep"}
    IN  IF asleep = {} THEN UNCHANGED worker
        ELSE \E w \in asleep : worker' = [worker EXCEPT ![w].pc = "test"]

\* Faulty variant: nobody is told of the connection.
AcceptNotifies_Forgotten ==
    /\ accept.pc = "notify"
    /\ accept' = Thread("test", NoConn)
    /\ UNCHANGED <<flags, worker, queue, conn, client>>

AcceptNotifies ==
    /\ accept.pc = "notify"
    /\ NotifyOne
    /\ accept' = Thread("test", NoConn)
    /\ UNCHANGED <<flags, queue, conn, client>>

AcceptStep ==
    \/ AcceptTest
    \/ \E c \in Conns : AcceptConnection(c)
    \/ AcceptInterrupted \/ AcceptFails
    \/ AcceptRefuses \/ AcceptQueues \/ AcceptNotifies

-----------------------------------------------------------------------------
(* worker_loop and dequeue_connection.                                      *)

WorkerGoes(w, pc, c) == worker' = [worker EXCEPT ![w] = Thread(pc, c)]

\* With the lock: the predicate holds and there is a connection.
WorkerTakes(w) ==
    /\ worker[w].pc = "test" /\ Unlocked
    /\ queue # <<>>
    /\ WorkerGoes(w, "handshake", Head(queue))
    /\ queue' = Tail(queue)
    /\ UNCHANGED <<flags, accept, conn, client>>

\* Faulty variant: a worker that sees stopping_ leaves the queue alone.
WorkerEnds_QueueLeft(w) ==
    /\ worker[w].pc = "test" /\ Unlocked
    /\ stopping
    /\ WorkerGoes(w, IF running THEN "test" ELSE "done", NoConn)
    /\ UNCHANGED <<flags, accept, queue, conn, client>>

\* Faulty variant: the loop goes on whatever running_ says.
WorkerEnds_NoBreak(w) ==
    /\ worker[w].pc = "test" /\ Unlocked
    /\ queue = <<>> /\ stopping
    /\ WorkerGoes(w, "test", NoConn)
    /\ UNCHANGED <<flags, accept, queue, conn, client>>

\* With the lock: the predicate holds and there is none.  The loop ends unless
\* running_ is still true.
WorkerEnds(w) ==
    /\ worker[w].pc = "test" /\ Unlocked
    /\ queue = <<>> /\ stopping
    /\ WorkerGoes(w, IF running THEN "test" ELSE "done", NoConn)
    /\ UNCHANGED <<flags, accept, queue, conn, client>>

\* Faulty variant: the predicate is only that there is a connection.
WorkerMustWait_NoStopTest(w) ==
    /\ worker[w].pc = "test" /\ Unlocked
    /\ queue = <<>>
    /\ WorkerGoes(w, "block", NoConn)
    /\ UNCHANGED <<flags, accept, queue, conn, client>>

\* The predicate is false; the worker keeps the lock until it sleeps.
WorkerMustWait(w) ==
    /\ worker[w].pc = "test" /\ Unlocked
    /\ queue = <<>> /\ ~stopping
    /\ WorkerGoes(w, "block", NoConn)
    /\ UNCHANGED <<flags, accept, queue, conn, client>>

WorkerSleeps(w) ==
    /\ worker[w].pc = "block"
    /\ WorkerGoes(w, "sleep", NoConn)
    /\ UNCHANGED <<flags, accept, queue, conn, client>>

\* wait() may return without a notification.
WorkerWakes(w) ==
    /\ worker[w].pc = "sleep"
    /\ WorkerGoes(w, "test", NoConn)
    /\ UNCHANGED <<flags, accept, queue, conn, client>>

-----------------------------------------------------------------------------
(* handle_connection.                                                       *)

\* SSL_free and close(conn.fd).
Closes(w) ==
    /\ conn' = [conn EXCEPT ![worker[w].conn] = "closed"]
    /\ WorkerGoes(w, "test", NoConn)
    /\ UNCHANGED <<flags, accept, queue, client>>

\* SSL_accept gives up on an error and on a read that times out.
HandshakeFails(w) == worker[w].pc = "handshake" /\ Closes(w)

HandshakeDone(w) ==
    /\ worker[w].pc = "handshake"
    /\ WorkerGoes(w, "read", worker[w].conn)
    /\ UNCHANGED <<flags, accept, queue, conn, client>>

\* read_until_headers and read_body go round on SSL_ERROR_WANT_READ, which is
\* what a read that timed out returns: while the client is quiet they go on.
\* A body that breaks off is handled as far as it got.
ReadDone(w) ==
    /\ worker[w].pc = "read" /\ client[worker[w].conn] # "quiet"
    /\ WorkerGoes(w, "handle", worker[w].conn)
    /\ UNCHANGED <<flags, accept, queue, conn, client>>

ReadFails(w) ==
    /\ worker[w].pc = "read" /\ client[worker[w].conn] = "gone"
    /\ Closes(w)

\* The connection is closed when the answer has been written, and also when
\* send_all gives up on an error or after 64 writes that time out.
HandleEnds(w) == worker[w].pc = "handle" /\ Closes(w)

WorkerStep(w) ==
    \/ WorkerTakes(w) \/ WorkerEnds(w) \/ WorkerMustWait(w) \/ WorkerSleeps(w)
    \/ HandshakeFails(w) \/ HandshakeDone(w)
    \/ ReadDone(w) \/ ReadFails(w)
    \/ HandleEnds(w)

-----------------------------------------------------------------------------
(* stop(), called by main when a signal has arrived; one step per store or  *)
(* call, none of them under qmtx_.                                          *)

MainGoes(from, to) == main = from /\ main' = to

StopBegins ==
    /\ MainGoes("serve", "flag")
    /\ running' = FALSE
    /\ UNCHANGED <<stopping, listening, ctx, accept, worker, queue, conn, client>>

StopFlags ==
    /\ MainGoes("flag", "close")
    /\ stopping' = TRUE
    /\ UNCHANGED <<running, listening, ctx, accept, worker, queue, conn, client>>

StopCloses ==
    /\ MainGoes("close", "notify")
    /\ listening' = FALSE
    /\ UNCHANGED <<running, stopping, ctx, accept, worker, queue, conn, client>>

StopNotifies ==
    /\ MainGoes("notify", "join_accept")
    /\ worker' = [w \in Workers |->
                     IF worker[w].pc = "sleep" THEN Thread("test", NoConn) ELSE worker[w]]
    /\ UNCHANGED <<running, stopping, listening, ctx, accept, queue, conn, client>>

StopJoinsAccept ==
    /\ MainGoes("join_accept", "join_workers")
    /\ accept.pc = "done"
    /\ UNCHANGED <<running, stopping, listening, ctx, accept, worker, queue, conn, client>>

\* Faulty variant: the context is freed once the accept thread has ended.
StopJoinsWorkers_Skipped ==
    /\ MainGoes("join_workers", "stopped")
    /\ ctx' = FALSE
    /\ UNCHANGED <<running, stopping, listening, accept, worker, queue, conn, client>>

StopJoinsWorkers ==
    /\ MainGoes("join_workers", "stopped")
    /\ \A w \in Workers : worker[w].pc = "done"
    /\ ctx' = FALSE
    /\ UNCHANGED <<running, stopping, listening, accept, worker, queue, conn, client>>

StopStep ==
    StopFlags \/ StopCloses \/ StopNotifies \/ StopJoinsAccept \/ StopJoinsWorkers

-----------------------------------------------------------------------------
AdminNext ==
    \/ AcceptStep
    \/ \E w \in Workers : WorkerStep(w) \/ WorkerWakes(w)
    \/ StopBegins \/ StopStep
    \/ \E c \in Conns : ClientStep(c)

AdminSpec == AdminInit /\ [][AdminNext]_adminVars

\* Every thread goes on when it can, and gets a lock that is free again and
\* again; nothing says that a signal comes, that wait() returns by itself or
\* that a client does anything.
ThreadFairness ==
    /\ WF_adminVars(AcceptStep) /\ SF_adminVars(AcceptRefuses \/ AcceptQueues)
    /\ \A w \in Workers :
          /\ WF_adminVars(WorkerStep(w))
          /\ SF_adminVars(WorkerTakes(w) \/ WorkerEnds(w) \/ WorkerMustWait(w))
    /\ WF_adminVars(StopStep)

FairSpec == AdminSpec /\ ThreadFairness

\* Also, a client sends its request or leaves.
BusyClientsSpec ==
    FairSpec /\ \A c \in Conns : WF_adminVars(client[c] = "quiet" /\ ClientStep(c))

-----------------------------------------------------------------------------
(* Properties.                                                              *)

Busy == {"handshake", "read", "handle"}

AcceptStates ==
    [pc : {"test", "accept", "notify", "done"}, conn : {NoConn}]
        \cup [pc : {"queue"}, conn : Conns]

WorkerStates ==
    [pc : {"test", "block", "sleep", "done"}, conn : {NoConn}]
        \cup [pc : Busy, conn : Conns]

\* Values of the variables: the queue keeps to its bound, and a thread holds a
\* connection exactly in the places where it works on one.
AdminTypeOK ==
    /\ running \in BOOLEAN /\ stopping \in BOOLEAN
    /\ listening \in BOOLEAN /\ ctx \in BOOLEAN
    /\ main \in {"serve", "flag", "close", "notify", "join_accept", "join_workers", "stopped"}
    /\ accept \in AcceptStates
    /\ worker \in [Workers -> WorkerStates]
    /\ queue \in Seq(Conns) /\ Len(queue) <= MaxPending
    /\ conn \in [Conns -> {"new", "open", "refused", "closed"}]
    /\ client \in [Conns -> {"quiet", "sent", "gone"}]

\* An open connection is in one place, with the accept thread, in the queue or
\* with a worker, and one that is closed is in none: its descriptor, which may
\* be another file's by then, is neither used nor closed again.
OwnedOnce ==
    \A c \in Conns :
        LET held == (IF accept.conn = c THEN 1 ELSE 0)
                    + Cardinality({i \in DOMAIN queue : queue[i] = c})
                    + Cardinality({w \in Workers : worker[w].conn = c})
        IN  held = (IF conn[c] = "open" THEN 1 ELSE 0)

\* No worker uses ssl_ctx_ after stop() has freed it.
ContextAlive == \A w \in Workers : worker[w].pc \in Busy => ctx

\* While a connection waits some worker is awake or about to be woken: all of
\* them are asleep only when the queue is empty.
WorkIsNoticed ==
    queue # <<>> => \/ accept.pc = "notify"
                    \/ \E w \in Workers : worker[w].pc \notin {"sleep", "done"}
                    \/ \A w \in Workers : worker[w].pc = "done"

Waits(w) == worker[w].pc \in {"block", "sleep"}

\* stop() calls notify_all without qmtx_, so a worker that is between its test and
\* its sleep misses it; but it is the only one: all other workers that wait are
\* woken, and none of them goes to sleep again.
OneStranded ==
    main \in {"join_accept", "join_workers", "stopped"} =>
        \A v, w \in Workers : Waits(v) /\ Waits(w) => v = w

\* The connections with the accept thread, with workers, and in a given state.
Arriving == {c \in Conns : accept.conn = c}
Serving == {c \in Conns : \E w \in Workers : worker[w].conn = c}
Having(state) == {c \in Conns : conn[c] = state}

\* The pool is the service of ConnectionService: whatever place in its loop a
\* thread is at, what it holds is arriving or served, in the order of the queue,
\* and the service is up while there is a TLS context.
Service == INSTANCE ConnectionService WITH
    Bound <- MaxPending, Servers <- Cardinality(Workers),
    arriving <- Arriving, waiting <- queue, serving <- Serving,
    refused <- Having("refused"), closed <- Having("closed"), up <- ctx
ServiceSpec == Service!ServiceSpec

Queued(c) == c \in ToSet(queue) /\ \E w \in Workers : worker[w].pc # "done"

\* A queued connection is taken and closed in the end, also when stop() begins
\* while it waits, as long as a worker was still there when it was queued;
\* supposes clients that do not stay quiet.
QueuedIsServed == \A c \in Conns : Queued(c) ~> conn[c] = "closed"

Joining == main = "join_workers" /\ \A w \in Workers : worker[w].pc \notin {"block", "sleep"}

\* stop() returns once no worker that it joins is asleep.
AwakeStopReturns == Joining ~> main = "stopped"

\* stop() returns.
StopReturns == main = "flag" ~> main = "stopped"
=============================================================================
