------------------------------ MODULE Transport ------------------------------
(***************************************************************************)
(* The server of src/src/transport.cpp: an accept thread, a pool of worker *)
(* threads, the callers of wait_for_shutdown and stop, and the peers.      *)
(*                                                                         *)
(* A step is what one thread does between two points where it may wait or  *)
(* where another thread can see a difference: taking Impl::mutex and what  *)
(* is done under it, taking stats_mutex, a blocking system call, a wait on *)
(* a condition variable.  Impl::mutex and shutdown_mutex are never held    *)
(* across such a point and are not variables.  stats_mutex is: two paths   *)
(* send to the peer while they hold it.                                    *)
(*                                                                         *)
(* Abstractions.                                                           *)
(*  - A connection is a client's one socket; a frame is its kind, and what *)
(*    a peer has sent is chosen when the worker reads it, at most          *)
(*    MaxFrames frames in a behaviour.                                     *)
(*  - A peer leaves SendBuffer replies unread before a send to it blocks.  *)
(*  - The counters of ServerStats are left out, the waits for their mutex  *)
(*    are not.                                                             *)
(***************************************************************************)
EXTENDS Naturals, Sequences, FiniteSets, SequencesExt

CONSTANTS
  Conn,            \* the connections clients may open
  Worker,          \* the worker threads: Options::worker_threads
  Waiter, Stopper, \* threads that wait_for_shutdown and then stop; that only stop
  Waker,           \* the connection stop() makes to its own listener
  MaxConnections,  \* Options::max_connections
  SendBuffer,      \* replies the kernel takes for a peer that does not read
  MaxFrames        \* bound on the frames that peers send in all

ASSUME ThreadAssumption ==
  /\ IsFiniteSet(Worker) /\ Worker # {}
  /\ IsFiniteSet(Conn)
  /\ Waiter \cap Stopper = {}
  /\ Waker \notin Conn
ASSUME LimitAssumption ==
  /\ MaxConnections \in Nat \ {0}
  /\ SendBuffer \in Nat \ {0}
  /\ MaxFrames \in Nat

VARIABLES
  backlog,    \* connections the kernel holds for accept()
  queue,      \* Impl::queue
  active,     \* Impl::active
  acceptor,   \* where the accept thread is, and the connection in its hand
  worker,     \* the same for each worker
  caller,     \* where each caller of wait_for_shutdown or stop is
  counting,   \* the worker that holds stats_mutex across a send, or Waker for none
  stopping,   \* Impl::stopping
  closed,     \* Impl::accept_closed and broadcast_done, set together
  requested,  \* FabricService::shutdown_requested_
  signalled,  \* Impl::shutdown_signalled
  link,       \* each connection: the server's end, replies unread, has the peer gone?
  frames      \* how many frames have been read so far

core == <<backlog, queue, active, acceptor, worker>>
marks == <<stopping, closed, requested, signalled>>
flags == <<caller, marks>>
vars == <<core, flags, counting, link, frames>>

Caller == Waiter \cup Stopper
NoConn == Waker
Free == Waker

FrameKind == {"request", "shutdown", "refused", "malformed", "oversized", "goodbye"}

(* "refused" stands for a frame that decodes but is not a request, or      *)
(* whose payload does not parse; "malformed" for one that cannot be        *)
(* decoded or resynchronised; "oversized" for one that is not complete     *)
(* when the buffer is past its bound.  A request may succeed or be refused *)
(* by the coordinator: the connection goes on alike.  A worker that has    *)
(* received a frame and not looked at it is at the frame's kind.           *)
WorkerAt == {"ready", "asleep", "reading", "serving", "replying", "replied", "broken",
             "rejecting", "warning", "warned", "finishing", "closing", "exited"} \cup FrameKind

(* Mutant of Live: a connection being served is not counted.               *)
LiveQueued == Len(queue)

(* The connections that count against the bound.                           *)
Live == Len(queue) + Cardinality(active)

(* Every thread is at one of its places, and the connections that are      *)
(* queued or served keep to their bound.                                   *)
TypeOK ==
  /\ backlog \in Seq(Conn \cup {Waker})
  /\ queue \in Seq(Conn)
  /\ active \subseteq Conn
  /\ acceptor \in [at : {"accepting", "accepted", "refusing", "exited"},
                   conn : Conn \cup {NoConn}]
  /\ worker \in [Worker -> [at : WorkerAt, conn : Conn \cup {NoConn}]]
  /\ caller \in [Caller -> {"idle", "waiting", "asleep", "stopping", "waking",
                            "joining", "releasing", "draining", "stopped"}]
  /\ counting \in Worker \cup {Free}
  /\ {stopping, closed, requested, signalled} \subseteq BOOLEAN
  /\ link \in [Conn -> [end : {"none", "pending", "open", "shut", "closed"},
                        unread : 0..SendBuffer, gone : BOOLEAN]]
  /\ frames \in 0..MaxFrames
  /\ Cardinality(ToSet(queue) \cup active) <= MaxConnections

------------------------------------------------------------------------------
(* Sending.  A send to a peer that has not closed waits for room; shutting *)
(* the server's end of the socket down makes it fail.  Data for a peer     *)
(* that has gone may still be taken by the kernel.  Of a connection the    *)
(* server has closed nothing is told apart any more.                       *)

Closed == [end |-> "closed", unread |-> 0, gone |-> TRUE]

CanSend(c) == link[c].end = "open" /\ (link[c].gone \/ link[c].unread < SendBuffer)

CannotSend(c) == link[c].end = "shut" \/ link[c].gone

Sent(c) ==
  /\ CanSend(c)
  /\ link' = [link EXCEPT ![c].unread = IF link[c].gone THEN @ ELSE @ + 1]

SendFails(c) == CannotSend(c) /\ UNCHANGED link

------------------------------------------------------------------------------
(* The accept thread.                                                      *)

(* accept() returned a connection: during a stop it is closed and the loop *)
(* ends, over the bound it is refused, otherwise it is queued.             *)
Accept ==
  LET c == Head(backlog) IN
  /\ acceptor.at = "accepting"
  /\ backlog # <<>>
  /\ backlog' = Tail(backlog)
  /\ IF stopping
       THEN /\ acceptor' = [at |-> "exited", conn |-> NoConn]
            /\ link' = [x \in Conn |-> IF x = c THEN Closed ELSE link[x]]
            /\ UNCHANGED queue
       ELSE /\ link' = [link EXCEPT ![c].end = "open"]
            /\ IF Live >= MaxConnections
                 THEN /\ acceptor' = [at |-> "refusing", conn |-> c]
                      /\ UNCHANGED queue
                 ELSE /\ acceptor' = [at |-> "accepted", conn |-> NoConn]
                      /\ queue' = Append(queue, c)
  /\ UNCHANGED <<active, worker, flags, frames, counting>>

(* accept() failed: the loop ends.                                         *)
AcceptFails ==
  /\ acceptor.at = "accepting"
  /\ acceptor' = [at |-> "exited", conn |-> NoConn]
  /\ UNCHANGED <<backlog, queue, active, worker, flags, frames, counting, link>>

(* Mutant of Notified: the notification is left out.                       *)
NobodyNotified == UNCHANGED worker

(* cv.notify_one: one sleeping worker wakes, if any sleeps.                *)
Notified ==
  IF \E w \in Worker : worker[w].at = "asleep"
    THEN \E w \in Worker : /\ worker[w].at = "asleep"
                           /\ worker' = [worker EXCEPT ![w].at = "ready"]
    ELSE UNCHANGED worker

(* The accepted connection is counted, then a worker is notified.          *)
CountAccepted ==
  /\ acceptor.at = "accepted"
  /\ counting = Free
  /\ acceptor' = [acceptor EXCEPT !.at = "accepting"]
  /\ Notified
  /\ UNCHANGED <<backlog, queue, active, flags, frames, counting, link>>

(* The refusal is counted, sent as the first and only frame, and the       *)
(* connection closed.                                                      *)
CountRefused ==
  LET c == acceptor.conn IN
  /\ acceptor.at = "refusing"
  /\ counting = Free
  /\ CanSend(c) \/ CannotSend(c)
  /\ link' = [link EXCEPT ![c] = Closed]
  /\ acceptor' = [at |-> "accepting", conn |-> NoConn]
  /\ UNCHANGED <<backlog, queue, active, worker, flags, counting, frames>>

------------------------------------------------------------------------------
(* A worker.                                                               *)

Moves(w, to) == worker' = [worker EXCEPT ![w].at = to]

(* The wait of worker_main under Impl::mutex: take the oldest queued       *)
(* connection, leave when the queue is closed and empty, or sleep.         *)
TakeConnection(w) ==
  LET c == Head(queue) IN
  /\ worker[w].at = "ready"
  /\ queue # <<>>
  /\ queue' = Tail(queue)
  /\ active' = active \cup {c}
  /\ link' = [link EXCEPT ![c].end = IF closed THEN "shut" ELSE @]
  /\ worker' = [worker EXCEPT ![w].at = "reading", ![w].conn = c]
  /\ UNCHANGED <<backlog, acceptor, flags, frames, counting>>

FindsNothing(w) ==
  /\ worker[w].at = "ready"
  /\ queue = <<>>
  /\ Moves(w, IF closed THEN "exited" ELSE "asleep")
  /\ UNCHANGED <<backlog, queue, active, acceptor, flags, frames, counting, link>>

(* recv_some returned the rest of a frame, before or after the peer left   *)
(* or the socket was shut down.                                            *)
Receive(w, kind) ==
  /\ worker[w].at = "reading"
  /\ frames < MaxFrames
  /\ frames' = frames + 1
  /\ Moves(w, kind)
  /\ UNCHANGED <<backlog, queue, active, acceptor, flags, link, counting>>

(* Mutant of ReceiveEnd: the end of the stream is taken for an empty read.  *)
ReceiveNothing(w) ==
  /\ worker[w].at = "reading"
  /\ link[worker[w].conn].end = "shut"
  /\ Moves(w, "finishing")
  /\ UNCHANGED <<backlog, queue, active, acceptor, flags, frames, counting, link>>

(* recv_some failed or found the end of the stream.                        *)
ReceiveEnd(w) ==
  LET c == worker[w].conn IN
  /\ worker[w].at = "reading"
  /\ CannotSend(c)
  /\ Moves(w, "finishing")
  /\ UNCHANGED <<backlog, queue, active, acceptor, flags, frames, counting, link>>

(* The bytes are counted and the frame looked at.  A request is dispatched *)
(* (a shutdown request sets the service's flag); a frame that is refused   *)
(* takes stats_mutex for as long as its reply takes.                       *)
Dispatch(w) ==
  LET kind == worker[w].at IN
  /\ kind \in FrameKind
  /\ counting = Free
  /\ Moves(w, CASE kind \in {"request", "shutdown"} -> "serving"
                [] kind = "refused" -> "rejecting"
                [] kind = "malformed" -> "warning"
                [] kind = "oversized" -> "warned"
                [] kind = "goodbye" -> "finishing")
  /\ requested' = (requested \/ kind = "shutdown")
  /\ counting' = IF kind = "refused" THEN w ELSE Free
  /\ UNCHANGED <<backlog, queue, active, acceptor, caller, stopping, closed, signalled, frames, link>>

(* The result is counted before it is sent.                                *)
CountServed(w) ==
  /\ worker[w].at = "serving"
  /\ counting = Free
  /\ Moves(w, "replying")
  /\ UNCHANGED <<backlog, queue, active, acceptor, flags, frames, counting, link>>

Reply(w) ==
  LET c == worker[w].conn IN
  /\ worker[w].at = "replying"
  /\ \/ Sent(c) /\ Moves(w, "replied")
     \/ SendFails(c) /\ Moves(w, "broken")
  /\ UNCHANGED <<backlog, queue, active, acceptor, flags, frames, counting>>

(* Mutant of Awake: the flag is set but nobody is notified.                *)
StillAsleep == caller

(* shutdown_cv.notify_all.                                                 *)
Awake == [k \in Caller |-> IF caller[k] = "asleep" THEN "waiting" ELSE caller[k]]

(* The reply is counted; once a shutdown was requested the worker signals  *)
(* it and gives its connection up.  A reply that could not be sent is not  *)
(* followed by the signal.                                                 *)
AfterReply(w) ==
  /\ worker[w].at \in {"replied", "broken"}
  /\ counting = Free
  /\ IF worker[w].at = "replied" /\ requested
       THEN signalled' = TRUE /\ caller' = Awake
       ELSE UNCHANGED <<signalled, caller>>
  /\ Moves(w, IF worker[w].at = "replied" /\ ~requested THEN "reading" ELSE "finishing")
  /\ UNCHANGED <<backlog, queue, active, acceptor, stopping, closed, requested, frames, counting, link>>

(* The error reply to a frame that is refused, sent under stats_mutex.     *)
Reject(w) ==
  LET c == worker[w].conn IN
  /\ worker[w].at = "rejecting"
  /\ Sent(c) \/ SendFails(c)
  /\ counting' = Free
  /\ Moves(w, "finishing")
  /\ UNCHANGED <<backlog, queue, active, acceptor, flags, frames>>

(* The error reply to a malformed frame, sent before the count.            *)
Warn(w) ==
  LET c == worker[w].conn IN
  /\ worker[w].at = "warning"
  /\ Sent(c) \/ SendFails(c)
  /\ Moves(w, "warned")
  /\ UNCHANGED <<backlog, queue, active, acceptor, flags, frames, counting>>

CountMalformed(w) ==
  /\ worker[w].at = "warned"
  /\ counting = Free
  /\ Moves(w, "finishing")
  /\ UNCHANGED <<backlog, queue, active, acceptor, flags, frames, counting, link>>

(* Mutant of Finish: the socket is closed while stop() may still find it.  *)
FinishByClosing(w) ==
  /\ worker[w].at = "finishing"
  /\ link' = [link EXCEPT ![worker[w].conn] = Closed]
  /\ Moves(w, "closing")
  /\ UNCHANGED <<backlog, queue, active, acceptor, flags, frames, counting>>

(* The connection leaves the active set first, and is closed after.        *)
Finish(w) ==
  /\ worker[w].at = "finishing"
  /\ active' = active \ {worker[w].conn}
  /\ Moves(w, "closing")
  /\ UNCHANGED <<backlog, queue, acceptor, flags, frames, counting, link>>

CloseServed(w) ==
  /\ worker[w].at = "closing"
  /\ counting = Free
  /\ link' = [link EXCEPT ![worker[w].conn] = Closed]
  /\ worker' = [worker EXCEPT ![w].at = "ready", ![w].conn = NoConn]
  /\ UNCHANGED <<backlog, queue, active, acceptor, flags, frames, counting>>

------------------------------------------------------------------------------
(* The callers.                                                            *)

Steps(k, to) == caller' = [caller EXCEPT ![k] = to]

(* wait_for_shutdown returns, and command_serve calls stop; or it sleeps.  *)
Wait(k) ==
  /\ caller[k] = "waiting"
  /\ Steps(k, IF signalled THEN "stopping" ELSE "asleep")
  /\ UNCHANGED <<core, marks, frames, counting, link>>

CallStop(k) ==
  /\ caller[k] = "idle"
  /\ Steps(k, "stopping")
  /\ UNCHANGED <<core, marks, frames, counting, link>>

TearingDown(k) == caller[k] \in {"waking", "joining", "releasing", "draining"}

(* Mutant of EnterStop: a second caller does not wait for the first.       *)
EnterStopAtOnce(k) ==
  /\ caller[k] = "stopping"
  /\ Steps(k, IF stopping THEN "stopped" ELSE "waking")
  /\ stopping' = TRUE
  /\ UNCHANGED <<core, closed, requested, signalled, frames, counting, link>>

(* teardown_mutex: only the first caller tears down, the others wait until *)
(* it has finished and return.                                             *)
EnterStop(k) ==
  /\ caller[k] = "stopping"
  /\ \A j \in Caller : ~TearingDown(j)
  /\ Steps(k, IF stopping THEN "stopped" ELSE "waking")
  /\ stopping' = TRUE
  /\ UNCHANGED <<core, closed, requested, signalled, frames, counting, link>>

(* The connection to the own listener that makes accept() return.  It may  *)
(* fail, and stop() goes on to wait for the accept thread all the same.    *)
Wake(k) ==
  /\ caller[k] = "waking"
  /\ Steps(k, "joining")
  /\ backlog' = Append(backlog, Waker)
  /\ UNCHANGED <<queue, active, acceptor, worker, marks, frames, counting, link>>

WakeFails(k) ==
  /\ caller[k] = "waking"
  /\ Steps(k, "joining")
  /\ UNCHANGED <<core, marks, frames, counting, link>>

(* Mutant of Woken: the workers are not notified.                          *)
SleepOn == worker

(* cv.notify_all.                                                          *)
Woken ==
  [w \in Worker |-> IF worker[w].at = "asleep" THEN [worker[w] EXCEPT !.at = "ready"]
                    ELSE worker[w]]

(* The accept thread has ended: the queue is closed, its sockets are       *)
(* closed, those being served are shut down, and every worker is woken.    *)
Broadcast(k) ==
  /\ caller[k] = "joining"
  /\ acceptor.at = "exited"
  /\ Steps(k, "releasing")
  /\ closed' = TRUE
  /\ link' = [c \in Conn |-> IF c \in ToSet(queue) THEN Closed
                             ELSE IF c \in active THEN [link[c] EXCEPT !.end = "shut"]
                             ELSE link[c]]
  /\ queue' = <<>>
  /\ worker' = Woken
  /\ UNCHANGED <<backlog, active, acceptor, stopping, requested, signalled, frames, counting>>

(* Waiters are released before the workers are waited for.                 *)
Release(k) ==
  /\ caller[k] = "releasing"
  /\ signalled' = TRUE
  /\ caller' = [Awake EXCEPT ![k] = "draining"]
  /\ UNCHANGED <<core, stopping, closed, requested, frames, counting, link>>

(* The workers have ended; the listener is closed, and with it what the    *)
(* kernel still held for it.                                               *)
CloseListener(k) ==
  /\ caller[k] = "draining"
  /\ \A w \in Worker : worker[w].at = "exited"
  /\ Steps(k, "stopped")
  /\ backlog' = <<>>
  /\ link' = [c \in Conn |-> IF link[c].end = "pending" THEN Closed ELSE link[c]]
  /\ UNCHANGED <<queue, active, acceptor, worker, marks, frames, counting>>

------------------------------------------------------------------------------
(* The peers.                                                              *)

(* Connections are named in the order in which they are opened.            *)
Connect ==
  LET c == CHOOSE x \in Conn : link[x].end = "none" IN
  /\ \E x \in Conn : link[x].end = "none"
  /\ \A k \in Caller : caller[k] # "stopped"
  /\ link' = [link EXCEPT ![c].end = "pending"]
  /\ backlog' = Append(backlog, c)
  /\ UNCHANGED <<queue, active, acceptor, worker, flags, counting, frames>>

Read(c) ==
  /\ link[c].unread > 0
  /\ link' = [link EXCEPT ![c].unread = @ - 1]
  /\ UNCHANGED <<core, flags, counting, frames>>

(* The peer closes or resets the connection, with or without reading.      *)
Leave(c) ==
  /\ link[c].end # "none" /\ ~link[c].gone
  /\ link' = [link EXCEPT ![c].gone = TRUE, ![c].unread = 0]
  /\ UNCHANGED <<core, flags, counting, frames>>

------------------------------------------------------------------------------
(* Server::start has created the threads.                                  *)
Init ==
  /\ backlog = <<>> /\ queue = <<>> /\ active = {}
  /\ acceptor = [at |-> "accepting", conn |-> NoConn]
  /\ worker = [w \in Worker |-> [at |-> "ready", conn |-> NoConn]]
  /\ caller = [k \in Caller |-> IF k \in Waiter THEN "waiting" ELSE "idle"]
  /\ counting = Free
  /\ stopping = FALSE /\ closed = FALSE /\ requested = FALSE /\ signalled = FALSE
  /\ link = [c \in Conn |-> [end |-> "none", unread |-> 0, gone |-> FALSE]]
  /\ frames = 0

AcceptThread == Accept \/ CountAccepted \/ CountRefused

(* What a worker does by itself; that a frame arrives is up to the peer.   *)
WorkerThread(w) ==
  \/ TakeConnection(w) \/ FindsNothing(w) \/ ReceiveEnd(w) \/ Dispatch(w)
  \/ CountServed(w) \/ Reply(w) \/ AfterReply(w) \/ Reject(w)
  \/ Warn(w) \/ CountMalformed(w) \/ Finish(w) \/ CloseServed(w)

(* What a caller does by itself; whether a stopper calls stop is open.     *)
CallerThread(k) ==
  \/ Wait(k) \/ EnterStop(k) \/ Wake(k) \/ WakeFails(k)
  \/ Broadcast(k) \/ Release(k) \/ CloseListener(k)

Next ==
  \/ AcceptThread \/ AcceptFails
  \/ \E w \in Worker : WorkerThread(w) \/ (\E kind \in FrameKind : Receive(w, kind))
  \/ \E k \in Caller : CallerThread(k) \/ CallStop(k)
  \/ Connect
  \/ \E c \in Conn : Read(c) \/ Leave(c)

Spec == Init /\ [][Next]_vars

(* Every thread that can take a step eventually does.  std::mutex is not   *)
(* fair, but stats_mutex is taken finitely often in a bounded run.         *)
ThreadFairness ==
  /\ WF_vars(AcceptThread)
  /\ \A w \in Worker : WF_vars(WorkerThread(w))
  /\ \A k \in Caller : WF_vars(CallerThread(k))

(* The scheduler's fairness alone.                                         *)
ThreadSpec == Spec /\ ThreadFairness

(* Peers that read their replies, which the server cannot enforce.         *)
PeerSpec == ThreadSpec /\ \A c \in Conn : WF_vars(Read(c))

------------------------------------------------------------------------------
(* What the server promises.                                               *)

At(where) == {w \in Worker : worker[w].at \in where}

(* No connection is left queued beside a sleeping worker: there is a ready *)
(* worker, or a notification to come, for every queued connection.         *)
NoLostWakeup ==
  At({"asleep"}) # {} =>
    Len(queue) <= Cardinality(At({"ready"})) + (IF acceptor.at = "accepted" THEN 1 ELSE 0)

Serving == WorkerAt \ {"ready", "asleep", "exited"}

(* Every socket the server has open is in exactly one pair of hands: in    *)
(* the queue, with one worker, or with the accept thread; and what stop()  *)
(* shuts down or closes, or a worker or the accept thread uses, is open.   *)
(* A socket closed too early, whose number the next connection may get,    *)
(* breaks this.                                                            *)
SocketsOwned ==
  LET serving == {worker[w].conn : w \in At(Serving)}
      inHand == IF acceptor.at = "refusing" THEN {acceptor.conn} ELSE {}
  IN /\ IsInjective(queue)
     /\ \A w, v \in At(Serving) : worker[w].conn = worker[v].conn => w = v
     /\ ToSet(queue) \cap serving = {}
     /\ inHand \cap (ToSet(queue) \cup serving) = {}
     /\ active \subseteq serving
     /\ ToSet(queue) \cup serving \cup inHand = {c \in Conn : link[c].end \in {"open", "shut"}}

(* The connections the server has taken and not closed.  The bound counts  *)
(* the queue and the active set; a worker that has left the active set     *)
(* still has its connection open.                                          *)
Held == ToSet(queue) \cup {worker[w].conn : w \in At(Serving)}

Pool == INSTANCE ConnectionPool WITH
  Bound <- MaxConnections + Cardinality(Worker),
  held <- Held,
  over <- {c \in Conn : link[c].end = "closed"},
  down <- \E k \in Caller : caller[k] = "stopped"

(* The threads together behave as a bounded pool of connections that gives *)
(* each one up once; when stop() has returned, to whichever caller, none   *)
(* is held and none is taken any more (transport.cpp:477).                 *)
PoolSpec == Pool!Spec

(* A caller of stop() waits for the accept thread to be done, which waits  *)
(* for a connection, and there is none: what a failed connect_to leaves    *)
(* (transport.cpp:484), for the result of the attempt is not looked at.    *)
Unwoken ==
  /\ \E k \in Caller : caller[k] = "joining"
  /\ acceptor.at = "accepting"
  /\ backlog = <<>>

(* A call of stop() returns, to every caller (transport.hpp:63), unless    *)
(* the accept thread is left unwoken for good.  When the connection to the *)
(* server's own listener is made the accept thread finds it, so only its   *)
(* failure, with no later peer to do its work, is excepted.                *)
StopReturns ==
  \A k \in Caller : caller[k] = "stopping" ~> (caller[k] = "stopped" \/ []Unwoken)

(* A reply that was sent after a shutdown was requested releases every     *)
(* caller of wait_for_shutdown.  A reply that could not be sent ends the   *)
(* connection before the signal (transport.cpp:427) and is not meant.      *)
WaiterReleased ==
  (requested /\ At({"replied"}) # {}) ~> \A k \in Waiter : caller[k] \notin {"waiting", "asleep"}

(* Among peers that read their replies, a connection that is served is     *)
(* closed after its peer has gone: nothing leaks, although every worker    *)
(* waits in turn for the mutex a send may be holding.                      *)
ConnectionsEnd ==
  \A c \in Conn : (link[c].gone /\ c \in active) ~> link[c].end = "closed"

==============================================================================
