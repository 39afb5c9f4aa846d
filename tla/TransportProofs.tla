--------------------------- MODULE TransportProofs ---------------------------
(***************************************************************************)
(* The server's threads, for any number of connections, workers and        *)
(* callers: types, who owns a socket, wake-ups, and what a stop leaves.    *)
(***************************************************************************)
EXTENDS Transport, FiniteSetTheorems, TLAPS

------------------------------------------------------------------------------
(* The order of a teardown.                                                *)

(* The connection to the own listener is only ever made by a stop.         *)
WakerStops ==
  /\ \A n \in DOMAIN backlog : backlog[n] = Waker => stopping
  /\ \A k \in Caller : TearingDown(k) => stopping

LinkState == [end : {"none", "pending", "open", "shut", "closed"},
              unread : 0..SendBuffer, gone : BOOLEAN]

WorkerState == [at : WorkerAt, conn : Conn \cup {NoConn}]

(* What stands for a worker's step from one place to another.              *)
LEMMA Moved ==
  ASSUME TypeOK, NEW w \in Worker, NEW to \in WorkerAt, Moves(w, to)
  PROVE  /\ worker' \in [Worker -> WorkerState]
         /\ worker'[w].at = to /\ worker'[w].conn = worker[w].conn
         /\ \A v \in Worker : v # w => worker'[v] = worker[v]
<1>1. worker \in [Worker -> WorkerState]
  BY DEF TypeOK, WorkerState
<1> QED BY <1>1 DEF Moves, WorkerState

LEMMA SentType ==
  ASSUME TypeOK, NEW w \in Worker, Sent(worker[w].conn) \/ SendFails(worker[w].conn)
  PROVE  /\ link' \in [Conn -> LinkState]
         /\ \A c \in Conn : link'[c].end = link[c].end
<1> DEFINE c == worker[w].conn
<1>1. link \in [Conn -> LinkState]
  BY DEF TypeOK, LinkState
<1>2. CASE c \in Conn /\ Sent(c)
  <2>1. link[c] \in LinkState /\ (link[c].gone \/ link[c].unread < SendBuffer)
    BY <1>1, <1>2 DEF Sent, CanSend
  <2>2. (IF link[c].gone THEN link[c].unread ELSE link[c].unread + 1) \in 0..SendBuffer
    BY <2>1, LimitAssumption DEF LinkState
  <2>3. link' = [link EXCEPT ![c].unread = IF link[c].gone THEN link[c].unread ELSE link[c].unread + 1]
    BY <1>2 DEF Sent
  <2> QED BY <1>1, <2>2, <2>3 DEF LinkState
<1>3. CASE c \notin Conn /\ Sent(c)
  BY <1>1, <1>3 DEF Sent
<1>4. CASE SendFails(c)
  BY <1>1, <1>4 DEF SendFails
<1> QED BY <1>2, <1>3, <1>4

(* A worker's step, whatever it does, leaves these alone and moves callers *)
(* only from their sleep.                                                  *)
LEMMA WorkerStep ==
  ASSUME NEW w \in Worker,
         WorkerThread(w) \/ \E kind \in FrameKind : Receive(w, kind)
  PROVE  /\ UNCHANGED <<backlog, acceptor, stopping, closed>>
         /\ caller' = caller \/ caller' = Awake
<1> USE DEF flags, marks
<1>1. CASE AfterReply(w)
  BY <1>1 DEF AfterReply
<1>2. CASE TakeConnection(w) \/ FindsNothing(w) \/ ReceiveEnd(w) \/ Dispatch(w)
  BY <1>2 DEF TakeConnection, FindsNothing, ReceiveEnd, Dispatch
<1>3. CASE CountServed(w) \/ Reply(w) \/ Reject(w) \/ Warn(w)
  BY <1>3 DEF CountServed, Reply, Reject, Warn
<1>4. CASE CountMalformed(w) \/ Finish(w) \/ CloseServed(w)
  BY <1>4 DEF CountMalformed, Finish, CloseServed
<1>5. CASE \E kind \in FrameKind : Receive(w, kind)
  BY <1>5 DEF Receive
<1> QED BY <1>1, <1>2, <1>3, <1>4, <1>5 DEF WorkerThread

LEMMA AwakeCallers ==
  ASSUME TypeOK
  PROVE  /\ Awake \in [Caller -> {"idle", "waiting", "asleep", "stopping", "waking",
                                  "joining", "releasing", "draining", "stopped"}]
         /\ \A k \in Caller :
              \/ Awake[k] = caller[k]
              \/ caller[k] = "asleep" /\ Awake[k] = "waiting"
BY DEF TypeOK, Awake

LEMMA WakerStep == TypeOK /\ WakerStops /\ [Next]_vars => WakerStops'
<1> SUFFICES ASSUME TypeOK, WakerStops, [Next]_vars
             PROVE  WakerStops'
  OBVIOUS
<1> USE DEF WakerStops, TearingDown
<1>1. ASSUME UNCHANGED <<backlog, stopping>>, caller' = caller \/ caller' = Awake
      PROVE  WakerStops'
  BY <1>1, AwakeCallers
<1>2. CASE UNCHANGED vars
  BY <1>1, <1>2 DEF vars, core, flags, marks
<1>3. ASSUME NEW w \in Worker,
             WorkerThread(w) \/ \E kind \in FrameKind : Receive(w, kind)
      PROVE  WakerStops'
  BY <1>1, <1>3, WorkerStep
<1>4. CASE Accept
  <2>1. backlog \in Seq(Conn \cup {Waker}) /\ backlog # <<>> /\ backlog' = Tail(backlog)
    BY <1>4 DEF Accept, TypeOK
  <2>2. \A n \in DOMAIN backlog' : n + 1 \in DOMAIN backlog /\ backlog'[n] = backlog[n + 1]
    BY <2>1
  <2> QED BY <1>4, <2>2 DEF Accept, flags, marks
<1>5. CASE CountAccepted \/ CountRefused \/ AcceptFails
  BY <1>1, <1>5 DEF CountAccepted, CountRefused, AcceptFails, flags, marks
<1>6. CASE Connect
  <2> DEFINE c == CHOOSE x \in Conn : link[x].end = "none"
  <2>1. c \in Conn /\ backlog' = Append(backlog, c) /\ UNCHANGED <<stopping, caller>>
    BY <1>6 DEF Connect, flags, marks
  <2> HIDE DEF c
  <2>2. backlog \in Seq(Conn \cup {Waker}) /\ c # Waker
    BY <2>1, ThreadAssumption DEF TypeOK
  <2>3. \A n \in DOMAIN backlog' : \/ n \in DOMAIN backlog /\ backlog'[n] = backlog[n]
                                  \/ backlog'[n] = c
    BY <2>1, <2>2
  <2> QED BY <2>1, <2>2, <2>3
<1>7. ASSUME NEW c \in Conn, Read(c) \/ Leave(c)
      PROVE  WakerStops'
  BY <1>1, <1>7 DEF Read, Leave, core, flags, marks
<1>8. ASSUME NEW k \in Caller, CallerThread(k) \/ CallStop(k)
      PROVE  WakerStops'
  <2> USE DEF core, marks, Steps, TypeOK
  <2>1. CASE Wait(k) \/ CallStop(k) \/ EnterStop(k)
    BY <2>1 DEF Wait, CallStop, EnterStop
  <2>2. CASE Wake(k)
    <3>1. backlog' = Append(backlog, Waker) /\ stopping /\ stopping'
      BY <2>2 DEF Wake
    <3> QED BY <3>1
  <2>3. CASE WakeFails(k) \/ Broadcast(k) \/ CloseListener(k)
    BY <2>3 DEF WakeFails, Broadcast, CloseListener
  <2>4. CASE Release(k)
    BY <2>4, AwakeCallers DEF Release
  <2> QED BY <1>8, <2>1, <2>2, <2>3, <2>4 DEF CallerThread
<1> QED BY <1>2, <1>3, <1>4, <1>5, <1>6, <1>7, <1>8 DEF Next, AcceptThread

------------------------------------------------------------------------------
(* Types.                                                                  *)

(* The connections queued and the elements of the queue.                   *)
LEMMA QueueTail ==
  ASSUME queue \in Seq(Conn), queue # <<>>
  PROVE  /\ Head(queue) \in Conn
         /\ Tail(queue) \in Seq(Conn)
         /\ ToSet(queue) = ToSet(Tail(queue)) \cup {Head(queue)}
         /\ Len(Tail(queue)) = Len(queue) - 1
<1>1. /\ Head(queue) \in Conn /\ Tail(queue) \in Seq(Conn)
      /\ Len(Tail(queue)) = Len(queue) - 1 /\ Len(queue) \in Nat \ {0}
      /\ Head(queue) = queue[1]
      /\ DOMAIN queue = 1..Len(queue) /\ DOMAIN Tail(queue) = 1..(Len(queue) - 1)
      /\ \A n \in 1..(Len(queue) - 1) : Tail(queue)[n] = queue[n + 1]
  OBVIOUS
<1>2. \A n \in DOMAIN queue : n = 1 \/ (n - 1 \in DOMAIN Tail(queue) /\ queue[n] = Tail(queue)[n - 1])
  BY <1>1
<1>3. \A n \in DOMAIN Tail(queue) : n + 1 \in DOMAIN queue /\ Tail(queue)[n] = queue[n + 1]
  BY <1>1
<1>4. 1 \in DOMAIN queue
  BY <1>1
<1>5. ToSet(queue) \subseteq ToSet(Tail(queue)) \cup {Head(queue)}
  <2>1. \A n \in DOMAIN queue : queue[n] \in ToSet(Tail(queue)) \cup {Head(queue)}
    <3> TAKE n \in DOMAIN queue
    <3>1. CASE n = 1
      BY <1>1, <3>1
    <3>2. CASE n # 1
      BY <1>2, <3>2 DEF ToSet
    <3> QED BY <3>1, <3>2
  <2> QED BY <2>1 DEF ToSet
<1>6. ToSet(Tail(queue)) \cup {Head(queue)} \subseteq ToSet(queue)
  BY <1>1, <1>3, <1>4 DEF ToSet
<1> QED BY <1>1, <1>5, <1>6

LEMMA QueueAppend ==
  ASSUME queue \in Seq(Conn), NEW c \in Conn
  PROVE  /\ Append(queue, c) \in Seq(Conn)
         /\ ToSet(Append(queue, c)) = ToSet(queue) \cup {c}
         /\ Len(Append(queue, c)) = Len(queue) + 1
<1>1. /\ Len(queue) \in Nat /\ DOMAIN queue = 1..Len(queue)
      /\ DOMAIN Append(queue, c) = 1..(Len(queue) + 1)
      /\ \A n \in 1..Len(queue) : Append(queue, c)[n] = queue[n]
      /\ Append(queue, c)[Len(queue) + 1] = c
  OBVIOUS
<1>2. \A n \in 1..(Len(queue) + 1) : n \in 1..Len(queue) \/ n = Len(queue) + 1
  BY <1>1
<1>3. Len(queue) + 1 \in DOMAIN Append(queue, c)
  BY <1>1
<1>4. \A n \in DOMAIN queue : n \in DOMAIN Append(queue, c)
  BY <1>1
<1>5. ToSet(Append(queue, c)) \subseteq ToSet(queue) \cup {c}
  BY <1>1, <1>2 DEF ToSet
<1>6. ToSet(queue) \cup {c} \subseteq ToSet(Append(queue, c))
  BY <1>1, <1>3, <1>4 DEF ToSet
<1> QED BY <1>5, <1>6

(* As many connections as the queue is long, at most.                      *)
LEMMA QueueSize ==
  ASSUME queue \in Seq(Conn)
  PROVE  /\ IsFiniteSet(ToSet(queue))
         /\ Cardinality(ToSet(queue)) \in Nat
         /\ Cardinality(ToSet(queue)) <= Len(queue)
<1>1. Len(queue) \in Nat /\ DOMAIN queue = 1..Len(queue)
  OBVIOUS
<1>2. IsFiniteSet(1..Len(queue)) /\ Cardinality(1..Len(queue)) = Len(queue)
  BY <1>1, FS_Interval
<1>3. queue \in Surjection(1..Len(queue), ToSet(queue))
  BY <1>1 DEF Surjection, ToSet
<1> QED BY <1>2, <1>3, FS_Surjection, FS_CardinalityType

LEMMA AddedOne ==
  ASSUME NEW S, NEW x, IsFiniteSet(S)
  PROVE  /\ Cardinality(S \cup {x}) \in Nat
         /\ Cardinality(S \cup {x}) <= Cardinality(S) + 1
<1>1. Cardinality(S) \in Nat
  BY FS_CardinalityType
<1>2. Cardinality(S \cup {x}) = IF x \in S THEN Cardinality(S) ELSE Cardinality(S) + 1
  BY FS_AddElement
<1> QED BY <1>1, <1>2

Counted == Cardinality(ToSet(queue) \cup active) <= MaxConnections

(* A connection queued while fewer than the bound are live.                *)
LEMMA QueuedWithinBound ==
  ASSUME TypeOK, NEW c \in Conn, ~(Live >= MaxConnections)
  PROVE  Cardinality(ToSet(Append(queue, c)) \cup active) <= MaxConnections
<1>1. queue \in Seq(Conn) /\ active \subseteq Conn
  BY DEF TypeOK
<1>2. IsFiniteSet(active) /\ Cardinality(active) \in Nat
  BY <1>1, ThreadAssumption, FS_Subset, FS_CardinalityType
<1>3. /\ IsFiniteSet(ToSet(queue)) /\ Cardinality(ToSet(queue)) \in Nat
      /\ Cardinality(ToSet(queue)) <= Len(queue)
  BY <1>1, QueueSize
<1> DEFINE all == ToSet(queue) \cup active
<1>4. /\ IsFiniteSet(all) /\ Cardinality(ToSet(queue) \cap active) \in Nat
      /\ Cardinality(all) = Cardinality(ToSet(queue)) + Cardinality(active)
                              - Cardinality(ToSet(queue) \cap active)
  BY <1>2, <1>3, FS_Union, FS_Intersection, FS_CardinalityType
<1>5. ToSet(Append(queue, c)) \cup active = all \cup {c}
  BY <1>1, QueueAppend
<1>6. Cardinality(all) \in Nat /\ Cardinality(all) <= Len(queue) + Cardinality(active)
  BY <1>2, <1>3, <1>4, FS_CardinalityType
<1>7. /\ Cardinality(all \cup {c}) <= Cardinality(all) + 1
      /\ Cardinality(all \cup {c}) \in Nat
  BY <1>4, AddedOne
<1>8. Len(queue) + Cardinality(active) < MaxConnections /\ Len(queue) \in Nat
  BY <1>1, <1>2, LimitAssumption DEF Live
<1>9. Cardinality(all) + 1 <= MaxConnections
  BY <1>2, <1>6, <1>8, LimitAssumption
<1>10. Cardinality(all \cup {c}) <= MaxConnections
  BY <1>6, <1>7, <1>9, LimitAssumption
<1> QED BY <1>5, <1>10

(* Fewer connections keep to the bound.                                    *)
LEMMA FewerWithinBound ==
  ASSUME TypeOK, ToSet(queue)' \cup active' \subseteq ToSet(queue) \cup active
  PROVE  Counted'
<1>1. IsFiniteSet(ToSet(queue) \cup active) /\ Cardinality(ToSet(queue) \cup active) <= MaxConnections
  <2>1. ToSet(queue) \cup active \subseteq Conn
    BY DEF TypeOK, ToSet
  <2> QED BY <2>1, ThreadAssumption, FS_Subset DEF TypeOK
<1>2. /\ Cardinality(ToSet(queue)' \cup active') <= Cardinality(ToSet(queue) \cup active)
      /\ IsFiniteSet(ToSet(queue)' \cup active')
  BY <1>1, FS_Subset
<1> QED BY <1>1, <1>2, LimitAssumption, FS_CardinalityType DEF Counted

(* What accept() takes from the kernel is a connection, or the waker.      *)
LEMMA TypeStep == TypeOK /\ WakerStops /\ [Next]_vars => TypeOK'
<1> SUFFICES ASSUME TypeOK, WakerStops, [Next]_vars
             PROVE  TypeOK'
  OBVIOUS
<1> DEFINE Callers == [Caller -> {"idle", "waiting", "asleep", "stopping", "waking",
                                  "joining", "releasing", "draining", "stopped"}]
<1>t. /\ backlog \in Seq(Conn \cup {Waker}) /\ queue \in Seq(Conn) /\ active \subseteq Conn
      /\ worker \in [Worker -> WorkerState] /\ link \in [Conn -> LinkState]
      /\ caller \in Callers /\ frames \in 0..MaxFrames /\ Counted
      /\ {stopping, closed, requested, signalled} \subseteq BOOLEAN
      /\ counting \in Worker \cup {Free}
  BY DEF TypeOK, WorkerState, LinkState, Counted
<1>c. Closed \in LinkState
  BY LimitAssumption DEF Closed, LinkState
<1>s. ASSUME UNCHANGED <<queue, active>>
      PROVE  Counted'
  BY <1>s DEF Counted, TypeOK
<1>1. CASE UNCHANGED vars
  BY <1>1 DEF TypeOK, vars, core, flags, marks
<1>2. ASSUME NEW w \in Worker,
             WorkerThread(w) \/ \E kind \in FrameKind : Receive(w, kind)
      PROVE  TypeOK'
  <2> USE DEF flags, marks
  <2>1. CASE TakeConnection(w)
    <3> DEFINE c == Head(queue)
    <3>1. /\ c \in Conn /\ Tail(queue) \in Seq(Conn)
          /\ ToSet(queue) = ToSet(Tail(queue)) \cup {c}
      BY <1>t, <2>1, QueueTail DEF TakeConnection
    <3>2. Counted'
      <4>1. ToSet(queue)' \cup active' \subseteq ToSet(queue) \cup active
        BY <2>1, <3>1 DEF TakeConnection
      <4> QED BY <4>1, FewerWithinBound
    <3>3. worker' \in [Worker -> WorkerState]
      BY <1>t, <2>1, <3>1 DEF TakeConnection, WorkerState, WorkerAt
    <3>4. link' \in [Conn -> LinkState]
      BY <1>t, <2>1, <3>1 DEF TakeConnection, LinkState
    <3> QED BY <1>t, <2>1, <3>1, <3>2, <3>3, <3>4
            DEF TakeConnection, TypeOK, Counted, WorkerState, LinkState
  <2>2. CASE FindsNothing(w)
    <3>1. \E to \in WorkerAt : Moves(w, to)
      BY <2>2 DEF FindsNothing, WorkerAt
    <3> QED BY <2>2, <3>1, Moved DEF FindsNothing, TypeOK, WorkerState
  <2>3. CASE \E kind \in FrameKind : Receive(w, kind)
    <3>1. PICK kind \in FrameKind : Receive(w, kind)
      BY <2>3
    <3>2. kind \in WorkerAt /\ Moves(w, kind)
      BY <3>1 DEF Receive, WorkerAt
    <3>3. frames' \in 0..MaxFrames
      BY <1>t, <3>1, LimitAssumption DEF Receive
    <3> QED BY <3>1, <3>2, <3>3, Moved DEF Receive, TypeOK, WorkerState
  <2>4. CASE ReceiveEnd(w) \/ CountServed(w) \/ CountMalformed(w)
    <3>1. \E to \in WorkerAt : Moves(w, to)
      BY <2>4 DEF ReceiveEnd, CountServed, CountMalformed, WorkerAt
    <3> QED BY <2>4, <3>1, Moved
            DEF ReceiveEnd, CountServed, CountMalformed, TypeOK, WorkerState
  <2>5. CASE Dispatch(w)
    <3>1. \E to \in WorkerAt : Moves(w, to)
      BY <2>5 DEF Dispatch, WorkerAt, FrameKind
    <3> QED BY <2>5, <3>1, Moved DEF Dispatch, TypeOK, WorkerState
  <2>6. CASE Reply(w) \/ Warn(w) \/ Reject(w)
    <3>1. \E to \in WorkerAt : Moves(w, to)
      BY <2>6 DEF Reply, Warn, Reject, WorkerAt
    <3>2. Sent(worker[w].conn) \/ SendFails(worker[w].conn)
      BY <2>6 DEF Reply, Warn, Reject
    <3>3. worker' \in [Worker -> WorkerState] /\ link' \in [Conn -> LinkState]
      BY <3>1, <3>2, Moved, SentType
    <3> QED BY <2>6, <3>3 DEF Reply, Warn, Reject, TypeOK, WorkerState, LinkState
  <2>7. CASE AfterReply(w)
    <3>1. \E to \in WorkerAt : Moves(w, to)
      BY <2>7 DEF AfterReply, WorkerAt
    <3>2. caller' \in Callers
      BY <1>t, <2>7, AwakeCallers DEF AfterReply
    <3> QED BY <2>7, <3>1, <3>2, Moved DEF AfterReply, TypeOK, WorkerState
  <2>8. CASE Finish(w)
    <3>1. \E to \in WorkerAt : Moves(w, to)
      BY <2>8 DEF Finish, WorkerAt
    <3>2. Counted'
      <4>1. ToSet(queue)' \cup active' \subseteq ToSet(queue) \cup active
        BY <2>8 DEF Finish
      <4> QED BY <4>1, FewerWithinBound
    <3> QED BY <2>8, <3>1, <3>2, Moved DEF Finish, TypeOK, WorkerState, Counted
  <2>9. CASE CloseServed(w)
    <3>1. worker' \in [Worker -> WorkerState]
      BY <1>t, <2>9 DEF CloseServed, WorkerState, WorkerAt
    <3>2. link' \in [Conn -> LinkState]
      BY <1>t, <1>c, <2>9 DEF CloseServed
    <3> QED BY <2>9, <3>1, <3>2 DEF CloseServed, TypeOK, WorkerState, LinkState
  <2> QED BY <1>2, <2>1, <2>2, <2>3, <2>4, <2>5, <2>6, <2>7, <2>8, <2>9 DEF WorkerThread
<1>3. CASE Accept
  <2> DEFINE c == Head(backlog)
  <2>1. /\ backlog # <<>> /\ Tail(backlog) \in Seq(Conn \cup {Waker})
        /\ c = backlog[1] /\ 1 \in DOMAIN backlog /\ c \in Conn \cup {Waker}
    BY <1>t, <1>3 DEF Accept
  <2>2. link' \in [Conn -> LinkState]
    <3>1. CASE stopping
      BY <1>t, <1>c, <1>3, <3>1 DEF Accept
    <3>2. CASE ~stopping
      BY <1>t, <1>3, <3>2 DEF Accept, LinkState
    <3> QED BY <3>1, <3>2
  <2>3. ~stopping => c \in Conn
    BY <2>1 DEF WakerStops
  <2>4. acceptor' \in [at : {"accepting", "accepted", "refusing", "exited"},
                       conn : Conn \cup {NoConn}]
    BY <1>3, <2>3 DEF Accept
  <2>5. queue' \in Seq(Conn) /\ Counted'
    <3>1. CASE queue' = queue
      BY <1>t, <1>s, <1>3, <3>1 DEF Accept
    <3>2. CASE ~stopping /\ ~(Live >= MaxConnections) /\ queue' = Append(queue, c)
      BY <1>t, <1>3, <2>3, <3>2, QueueAppend, QueuedWithinBound DEF Accept, Counted
    <3> QED BY <1>3, <3>1, <3>2 DEF Accept
  <2> QED BY <1>3, <2>1, <2>2, <2>4, <2>5
          DEF Accept, TypeOK, Counted, LinkState, flags, marks
<1>4. CASE CountAccepted
  <2>1. worker' \in [Worker -> WorkerState]
    BY <1>t, <1>4 DEF CountAccepted, Notified, WorkerState, WorkerAt
  <2> QED BY <1>4, <2>1 DEF CountAccepted, TypeOK, WorkerState, flags, marks
<1>5. CASE CountRefused
  <2>1. link' \in [Conn -> LinkState]
    BY <1>t, <1>c, <1>5 DEF CountRefused
  <2> QED BY <1>5, <2>1 DEF CountRefused, TypeOK, LinkState, flags, marks
<1>6. CASE AcceptFails
  BY <1>6 DEF AcceptFails, TypeOK, flags, marks
<1>7. CASE Connect
  <2> DEFINE c == CHOOSE x \in Conn : link[x].end = "none"
  <2>1. c \in Conn
    BY <1>7 DEF Connect
  <2>2. link' \in [Conn -> LinkState]
    BY <1>t, <1>7 DEF Connect, LinkState
  <2>3. backlog' \in Seq(Conn \cup {Waker})
    BY <1>t, <1>7, <2>1 DEF Connect
  <2> QED BY <1>7, <2>2, <2>3 DEF Connect, TypeOK, LinkState, flags, marks
<1>8. ASSUME NEW c \in Conn, Read(c) \/ Leave(c)
      PROVE  TypeOK'
  <2>1. link' \in [Conn -> LinkState]
    <3>1. link[c] \in LinkState
      BY <1>t
    <3>2. CASE Read(c)
      <4>1. link[c].unread - 1 \in 0..SendBuffer
        BY <3>1, <3>2, LimitAssumption DEF Read, LinkState
      <4> QED BY <1>t, <3>2, <4>1 DEF Read, LinkState
    <3>3. CASE Leave(c)
      <4> DEFINE left == [link EXCEPT ![c].gone = TRUE]
      <4>1. left \in [Conn -> LinkState]
        BY <1>t, <3>1 DEF LinkState
      <4>2. link' = [left EXCEPT ![c].unread = 0]
        BY <1>t, <3>3 DEF Leave, LinkState
      <4> HIDE DEF left
      <4> QED BY <4>1, <4>2, LimitAssumption DEF LinkState
    <3> QED BY <1>8, <3>2, <3>3
  <2> QED BY <1>8, <2>1 DEF Read, Leave, TypeOK, LinkState, core, flags, marks
<1>9. ASSUME NEW k \in Caller, CallerThread(k) \/ CallStop(k)
      PROVE  TypeOK'
  <2>1. CASE Wait(k) \/ CallStop(k) \/ EnterStop(k) \/ WakeFails(k)
    <3>1. caller' \in Callers
      BY <1>t, <2>1 DEF Wait, CallStop, EnterStop, WakeFails, Steps
    <3> QED BY <2>1, <3>1 DEF Wait, CallStop, EnterStop, WakeFails, TypeOK, core, marks
  <2>2. CASE Wake(k)
    <3>1. caller' \in Callers /\ backlog' \in Seq(Conn \cup {Waker})
      BY <1>t, <2>2 DEF Wake, Steps
    <3> QED BY <2>2, <3>1 DEF Wake, TypeOK, marks
  <2>3. CASE Broadcast(k)
    <3>1. caller' \in Callers
      BY <1>t, <2>3 DEF Broadcast, Steps
    <3>2. worker' \in [Worker -> WorkerState]
      BY <1>t, <2>3 DEF Broadcast, Woken, WorkerState, WorkerAt
    <3>3. link' \in [Conn -> LinkState]
      BY <1>t, <1>c, <2>3 DEF Broadcast, LinkState
    <3>4. queue' = <<>> /\ active' = active
      BY <2>3 DEF Broadcast
    <3>5. Counted'
      <4>1. ToSet(queue)' \cup active' \subseteq ToSet(queue) \cup active
        BY <3>4 DEF ToSet
      <4> QED BY <4>1, FewerWithinBound
    <3> QED BY <1>t, <2>3, <3>1, <3>2, <3>3, <3>4, <3>5
            DEF Broadcast, TypeOK, Counted, WorkerState, LinkState
  <2>4. CASE Release(k)
    <3>1. caller' \in Callers
      <4>1. Awake \in Callers
        BY AwakeCallers
      <4> QED BY <2>4, <4>1 DEF Release
    <3> QED BY <2>4, <3>1 DEF Release, TypeOK, core
  <2>5. CASE CloseListener(k)
    <3>1. caller' \in Callers
      BY <1>t, <2>5 DEF CloseListener, Steps
    <3>2. link' \in [Conn -> LinkState]
      BY <1>t, <1>c, <2>5 DEF CloseListener
    <3> QED BY <2>5, <3>1, <3>2 DEF CloseListener, TypeOK, LinkState, marks
  <2> QED BY <1>9, <2>1, <2>2, <2>3, <2>4, <2>5 DEF CallerThread
<1> QED BY <1>1, <1>2, <1>3, <1>4, <1>5, <1>6, <1>7, <1>8, <1>9 DEF Next, AcceptThread

LEMMA TypeInit == Init => TypeOK /\ WakerStops
<1> SUFFICES ASSUME Init
             PROVE  TypeOK /\ WakerStops
  OBVIOUS
<1>1. Cardinality(ToSet(queue) \cup active) <= MaxConnections
  <2>1. ToSet(queue) \cup active = {}
    BY DEF Init, ToSet
  <2> QED BY <2>1, FS_EmptySet, LimitAssumption
<1>2. TypeOK
  <2>1. link \in [Conn -> LinkState]
    BY LimitAssumption DEF Init, LinkState
  <2>2. worker \in [Worker -> WorkerState]
    BY DEF Init, WorkerState, WorkerAt
  <2>3. frames \in 0..MaxFrames /\ backlog \in Seq(Conn \cup {Waker}) /\ queue \in Seq(Conn)
    BY LimitAssumption DEF Init
  <2>4. caller \in [Caller -> {"idle", "waiting"}]
    BY DEF Init
  <2>5. {stopping, closed, requested, signalled} \subseteq BOOLEAN
    BY DEF Init
  <2>6. acceptor.at = "accepting" /\ acceptor = [at |-> "accepting", conn |-> NoConn]
    BY DEF Init
  <2>7. caller \in [Caller -> {"idle", "waiting", "asleep", "stopping", "waking",
                              "joining", "releasing", "draining", "stopped"}]
    BY <2>4
  <2>8. active \subseteq Conn /\ counting = Free
    BY DEF Init
  <2> QED BY <1>1, <2>1, <2>2, <2>3, <2>5, <2>6, <2>7, <2>8 DEF TypeOK, LinkState, WorkerState
<1>3. WakerStops
  BY DEF Init, WakerStops, TearingDown
<1> QED BY <1>2, <1>3

(* Every thread is at one of its places, every socket in one of its states *)
(* and the connections queued or served within their bound, for any number *)
(* of threads and connections.                                             *)
THEOREM TypeCorrect == Spec => []TypeOK
<1>1. TypeOK /\ WakerStops /\ [Next]_vars => TypeOK' /\ WakerStops'
  BY TypeStep, WakerStep
<1> QED BY <1>1, TypeInit, PTL DEF Spec

------------------------------------------------------------------------------
(* Wake-ups.                                                               *)

LEMMA ReadyCount ==
  /\ IsFiniteSet(At({"ready"})) /\ Cardinality(At({"ready"})) \in Nat
BY ThreadAssumption, FS_Subset, FS_CardinalityType DEF At

(* What is pending for the workers: a step that puts no connection in the  *)
(* queue, takes no worker out of readiness and puts none to sleep.         *)
LEMMA WakeupKept ==
  ASSUME TypeOK, NoLostWakeup, UNCHANGED <<queue, acceptor>>,
         At({"asleep"})' \subseteq At({"asleep"}), At({"ready"}) \subseteq At({"ready"})'
  PROVE  NoLostWakeup'
<1>1. /\ IsFiniteSet(At({"ready"})') /\ Cardinality(At({"ready"})') \in Nat
  <2>1. At({"ready"})' \subseteq Worker
    BY DEF At
  <2> QED BY <2>1, ThreadAssumption, FS_Subset, FS_CardinalityType
<1>2. Cardinality(At({"ready"})) <= Cardinality(At({"ready"})')
  BY <1>1, FS_Subset
<1>3. Len(queue) \in Nat
  BY DEF TypeOK
<1>4. SUFFICES ASSUME At({"asleep"})' # {}
               PROVE  Len(queue) <= Cardinality(At({"ready"})')
                                      + (IF acceptor.at = "accepted" THEN 1 ELSE 0)
  BY DEF NoLostWakeup
<1>5. Len(queue) <= Cardinality(At({"ready"})) + (IF acceptor.at = "accepted" THEN 1 ELSE 0)
  BY <1>4 DEF NoLostWakeup
<1> QED BY <1>1, <1>2, <1>3, <1>5, ReadyCount

LEMMA WakeupStep == TypeOK /\ WakerStops /\ NoLostWakeup /\ [Next]_vars => NoLostWakeup'
<1> SUFFICES ASSUME TypeOK, WakerStops, NoLostWakeup, [Next]_vars
             PROVE  NoLostWakeup'
  OBVIOUS
<1>t. /\ worker \in [Worker -> WorkerState] /\ queue \in Seq(Conn) /\ Len(queue) \in Nat
      /\ backlog \in Seq(Conn \cup {Waker})
  BY DEF TypeOK, WorkerState
<1>u. TypeOK'
  BY TypeStep
<1>r. /\ IsFiniteSet(At({"ready"})') /\ Cardinality(At({"ready"})') \in Nat
  <2>1. At({"ready"})' \subseteq Worker
    BY DEF At
  <2> QED BY <2>1, ThreadAssumption, FS_Subset, FS_CardinalityType
<1>e. ASSUME queue' = <<>>
      PROVE  NoLostWakeup'
  <2>1. Len(queue') = 0
    BY <1>e
  <2>2. (IF acceptor'.at = "accepted" THEN 1 ELSE 0) \in Nat
    OBVIOUS
  <2>3. Len(queue') <= Cardinality(At({"ready"})') + (IF acceptor'.at = "accepted" THEN 1 ELSE 0)
    BY <1>r, <2>1, <2>2
  <2> QED BY <2>3 DEF NoLostWakeup
<1>k. ASSUME UNCHANGED <<queue, acceptor, worker>>
      PROVE  NoLostWakeup'
  BY <1>k, WakeupKept DEF At
<1>1. CASE UNCHANGED vars
  BY <1>1, <1>k DEF vars, core
<1>m. ASSUME NEW w \in Worker, NEW to \in WorkerAt, Moves(w, to),
             worker[w].at \notin {"ready", "asleep"}, to \notin {"ready", "asleep"},
             UNCHANGED <<queue, acceptor>>
      PROVE  NoLostWakeup'
  <2>1. \A v \in Worker : v # w => worker'[v] = worker[v]
    BY <1>m, Moved
  <2>2. worker'[w].at = to
    BY <1>m, Moved
  <2>3. At({"asleep"})' \subseteq At({"asleep"}) /\ At({"ready"}) \subseteq At({"ready"})'
    BY <1>m, <2>1, <2>2 DEF At
  <2> QED BY <1>m, <2>3, WakeupKept
<1>2. ASSUME NEW w \in Worker,
             WorkerThread(w) \/ \E kind \in FrameKind : Receive(w, kind)
      PROVE  NoLostWakeup'
  <2>1. CASE TakeConnection(w)
    <3>1. worker'[w].at = "reading" /\ \A v \in Worker : v # w => worker'[v] = worker[v]
      BY <1>t, <2>1 DEF TakeConnection, WorkerState
    <3>2. /\ At({"ready"})' = At({"ready"}) \ {w} /\ w \in At({"ready"})
          /\ At({"asleep"})' = At({"asleep"})
      BY <2>1, <3>1 DEF At, TakeConnection
    <3>3. Cardinality(At({"ready"})') = Cardinality(At({"ready"})) - 1
      BY <3>2, ReadyCount, FS_RemoveElement
    <3>4. Len(queue') = Len(queue) - 1 /\ acceptor' = acceptor
      BY <1>t, <2>1, QueueTail DEF TakeConnection
    <3>5. SUFFICES ASSUME At({"asleep"})' # {}
                   PROVE  Len(queue') <= Cardinality(At({"ready"})')
                                          + (IF acceptor'.at = "accepted" THEN 1 ELSE 0)
      BY DEF NoLostWakeup
    <3>6. Len(queue) <= Cardinality(At({"ready"})) + (IF acceptor.at = "accepted" THEN 1 ELSE 0)
      BY <3>2, <3>5 DEF NoLostWakeup
    <3> QED BY <1>t, <3>3, <3>4, <3>6, ReadyCount
  <2>2. CASE FindsNothing(w)
    BY <1>e, <2>2 DEF FindsNothing
  <2>3. CASE \E kind \in FrameKind : Receive(w, kind)
    <3>1. PICK kind \in FrameKind : Receive(w, kind)
      BY <2>3
    <3>2. /\ kind \in WorkerAt /\ kind \notin {"ready", "asleep"} /\ Moves(w, kind)
          /\ worker[w].at = "reading" /\ UNCHANGED <<queue, acceptor>>
      BY <3>1 DEF Receive, WorkerAt, FrameKind
    <3> QED BY <1>m, <3>2
  <2>4. CASE ReceiveEnd(w) \/ CountServed(w) \/ CountMalformed(w) \/ Finish(w) \/ AfterReply(w)
    <3>1. /\ \E to \in WorkerAt : Moves(w, to) /\ to \notin {"ready", "asleep"}
          /\ worker[w].at \notin {"ready", "asleep"} /\ UNCHANGED <<queue, acceptor>>
      BY <2>4 DEF ReceiveEnd, CountServed, CountMalformed, Finish, AfterReply, WorkerAt
    <3> QED BY <1>m, <3>1
  <2>5. CASE Reply(w) \/ Reject(w) \/ Warn(w) \/ Dispatch(w)
    <3>1. /\ \E to \in WorkerAt : Moves(w, to) /\ to \notin {"ready", "asleep"}
          /\ worker[w].at \notin {"ready", "asleep"} /\ UNCHANGED <<queue, acceptor>>
      BY <2>5 DEF Reply, Reject, Warn, Dispatch, WorkerAt, FrameKind
    <3> QED BY <1>m, <3>1
  <2>6. CASE CloseServed(w)
    <3>1. worker'[w].at = "ready" /\ \A v \in Worker : v # w => worker'[v] = worker[v]
      BY <1>t, <2>6 DEF CloseServed, WorkerState
    <3>2. At({"asleep"})' \subseteq At({"asleep"}) /\ At({"ready"}) \subseteq At({"ready"})'
      BY <2>6, <3>1 DEF At, CloseServed
    <3>3. UNCHANGED <<queue, acceptor>>
      BY <2>6 DEF CloseServed
    <3> QED BY <3>2, <3>3, WakeupKept
  <2> QED BY <1>2, <2>1, <2>2, <2>3, <2>4, <2>5, <2>6 DEF WorkerThread
<1>3. CASE Accept
  <2>1. worker' = worker /\ At({"ready"})' = At({"ready"}) /\ At({"asleep"})' = At({"asleep"})
    BY <1>3 DEF Accept, At
  <2>2. \/ queue' = queue
        \/ acceptor'.at = "accepted" /\ Len(queue') = Len(queue) + 1
    <3>1. CASE stopping \/ Live >= MaxConnections
      BY <1>3, <3>1 DEF Accept
    <3>2. CASE ~stopping /\ ~(Live >= MaxConnections)
      <4>1. Len(Append(queue, Head(backlog))) = Len(queue) + 1
        BY <1>t
      <4> QED BY <1>3, <3>2, <4>1 DEF Accept
    <3> QED BY <3>1, <3>2
  <2>3. acceptor.at = "accepting"
    BY <1>3 DEF Accept
  <2>4. SUFFICES ASSUME At({"asleep"})' # {}
                 PROVE  Len(queue') <= Cardinality(At({"ready"})')
                                        + (IF acceptor'.at = "accepted" THEN 1 ELSE 0)
    BY DEF NoLostWakeup
  <2>5. Len(queue) <= Cardinality(At({"ready"}))
    BY <2>1, <2>3, <2>4, ReadyCount DEF NoLostWakeup
  <2> QED BY <1>t, <1>r, <2>1, <2>2, <2>5
<1>4. CASE CountAccepted
  <2>1. CASE At({"asleep"}) = {}
    <3>1. At({"asleep"})' = {}
      BY <1>4, <2>1 DEF At, CountAccepted, Notified
    <3> QED BY <3>1 DEF NoLostWakeup
  <2>2. CASE At({"asleep"}) # {}
    <3>1. \E w \in Worker : worker[w].at = "asleep"
      BY <2>2 DEF At
    <3>2. PICK w \in Worker : worker[w].at = "asleep" /\ worker' = [worker EXCEPT ![w].at = "ready"]
      BY <1>4, <3>1 DEF CountAccepted, Notified
    <3>3. worker'[w].at = "ready" /\ \A v \in Worker : v # w => worker'[v] = worker[v]
      BY <1>t, <3>2 DEF WorkerState
    <3>4. At({"ready"})' = At({"ready"}) \cup {w} /\ w \notin At({"ready"})
      BY <3>2, <3>3 DEF At
    <3>5. Cardinality(At({"ready"})') = Cardinality(At({"ready"})) + 1
      BY <3>4, ReadyCount, FS_AddElement
    <3>6. Len(queue) <= Cardinality(At({"ready"})) + 1
      BY <1>4, <2>2 DEF NoLostWakeup, CountAccepted
    <3>7. acceptor'.at # "accepted" /\ queue' = queue
      BY <1>4 DEF CountAccepted, TypeOK
    <3>8. Len(queue') <= Cardinality(At({"ready"})')
      BY <1>t, <3>5, <3>6, <3>7, ReadyCount
    <3> QED BY <1>r, <1>t, <3>7, <3>8 DEF NoLostWakeup
  <2> QED BY <2>1, <2>2
<1>5. CASE CountRefused \/ AcceptFails
  <2>1. /\ UNCHANGED <<queue, worker>> /\ acceptor.at # "accepted" /\ acceptor'.at # "accepted"
    BY <1>5 DEF CountRefused, AcceptFails
  <2>2. At({"ready"})' = At({"ready"}) /\ At({"asleep"})' = At({"asleep"})
    BY <2>1 DEF At
  <2> QED BY <2>1, <2>2 DEF NoLostWakeup
<1>6. CASE Connect
  BY <1>6, <1>k DEF Connect
<1>7. ASSUME NEW c \in Conn, Read(c) \/ Leave(c)
      PROVE  NoLostWakeup'
  BY <1>7, <1>k DEF Read, Leave, core
<1>8. ASSUME NEW k \in Caller, CallerThread(k) \/ CallStop(k)
      PROVE  NoLostWakeup'
  <2>1. CASE Broadcast(k)
    BY <1>e, <2>1 DEF Broadcast
  <2>2. CASE ~Broadcast(k)
    BY <1>8, <2>2, <1>k
       DEF CallerThread, CallStop, Wait, EnterStop, Wake, WakeFails, Release, CloseListener, core
  <2> QED BY <2>1, <2>2
<1> QED BY <1>1, <1>2, <1>3, <1>4, <1>5, <1>6, <1>7, <1>8 DEF Next, AcceptThread

(* No notification is lost: whenever a worker sleeps, every connection in  *)
(* the queue has a worker that is about to look at it, or a notification   *)
(* still to come from the accept thread.                                   *)
THEOREM NoWakeupIsLost == Spec => []NoLostWakeup
<1>1. Init => NoLostWakeup
  <2> SUFFICES ASSUME Init
               PROVE  NoLostWakeup
    OBVIOUS
  <2>1. At({"asleep"}) = {}
    BY DEF Init, At
  <2> QED BY <2>1 DEF NoLostWakeup
<1>2. TypeOK /\ WakerStops /\ NoLostWakeup /\ [Next]_vars => TypeOK' /\ WakerStops' /\ NoLostWakeup'
  BY TypeStep, WakerStep, WakeupStep
<1> QED BY <1>1, <1>2, TypeInit, PTL DEF Spec

------------------------------------------------------------------------------
(* Teardown.                                                               *)

Exited == acceptor.at = "exited" /\ \A w \in Worker : worker[w].at = "exited"

(* Only one caller tears down, in the order of the code; and once nobody   *)
(* does any more, a server that was to stop has stopped.                   *)
OneTearsDown ==
  /\ \A j, k \in Caller : TearingDown(j) /\ TearingDown(k) => j = k
  /\ \A k \in Caller : caller[k] \in {"releasing", "draining"} => closed
  /\ closed => acceptor.at = "exited" /\ queue = <<>>
  /\ stopping /\ (\A k \in Caller : ~TearingDown(k)) => closed /\ Exited
  /\ \A k \in Caller : caller[k] = "stopped" => stopping /\ \A j \in Caller : ~TearingDown(j)

(* A worker that has left does not come back.                              *)
LEMMA ExitedWorker ==
  ASSUME TypeOK, [Next]_vars, NEW v \in Worker, worker[v].at = "exited"
  PROVE  worker'[v].at = "exited"
<1>t. worker \in [Worker -> WorkerState]
  BY DEF TypeOK, WorkerState
<1>1. CASE UNCHANGED vars
  BY <1>1 DEF vars, core
<1>2. ASSUME NEW w \in Worker,
             WorkerThread(w) \/ \E kind \in FrameKind : Receive(w, kind)
      PROVE  worker'[v].at = "exited"
  <2>1. worker[w].at # "exited"
    BY <1>2 DEF WorkerThread, Receive, TakeConnection, FindsNothing, ReceiveEnd, Dispatch, FrameKind,
                CountServed, Reply, AfterReply, Reject, Warn, CountMalformed, Finish, CloseServed
  <2>2. \/ \E to : Moves(w, to)
        \/ \E c : worker' = [worker EXCEPT ![w].at = "reading", ![w].conn = c]
        \/ worker' = [worker EXCEPT ![w].at = "ready", ![w].conn = NoConn]
    BY <1>2 DEF WorkerThread, Receive, TakeConnection, FindsNothing, ReceiveEnd, Dispatch,
                CountServed, Reply, AfterReply, Reject, Warn, CountMalformed, Finish, CloseServed
  <2>3. worker'[v] = worker[v]
    BY <1>t, <2>1, <2>2 DEF Moves
  <2> QED BY <2>3
<1>3. CASE AcceptThread \/ AcceptFails
  BY <1>t, <1>3 DEF AcceptThread, AcceptFails, Accept, CountAccepted, CountRefused, Notified, WorkerState
<1>4. ASSUME NEW k \in Caller, CallerThread(k) \/ CallStop(k)
      PROVE  worker'[v].at = "exited"
  <2>1. CASE Broadcast(k)
    BY <1>t, <2>1 DEF Broadcast, Woken
  <2>2. CASE ~Broadcast(k)
    BY <1>4, <2>2 DEF CallerThread, CallStop, Wait, EnterStop, Wake, WakeFails, Release,
                      CloseListener, core
  <2> QED BY <2>1, <2>2
<1>5. CASE Connect \/ \E c \in Conn : Read(c) \/ Leave(c)
  BY <1>5 DEF Connect, Read, Leave, core
<1> QED BY <1>1, <1>2, <1>3, <1>4, <1>5 DEF Next

LEMMA TeardownStep == TypeOK /\ WakerStops /\ OneTearsDown /\ [Next]_vars => OneTearsDown'
<1> SUFFICES ASSUME TypeOK, WakerStops, OneTearsDown, [Next]_vars
             PROVE  OneTearsDown'
  OBVIOUS
<1>x. (\A w \in Worker : worker[w].at = "exited") => \A w \in Worker : worker'[w].at = "exited"
  BY ExitedWorker
<1>t. /\ caller \in [Caller -> {"idle", "waiting", "asleep", "stopping", "waking",
                                "joining", "releasing", "draining", "stopped"}]
      /\ queue \in Seq(Conn)
  BY DEF TypeOK
<1>k. ASSUME UNCHANGED <<stopping, closed, acceptor>>, closed => queue' = queue,
             caller' = caller \/ caller' = Awake
      PROVE  OneTearsDown'
  <2>1. \A k \in Caller : /\ TearingDown(k)' <=> TearingDown(k)
                          /\ caller'[k] \in {"releasing", "draining"}
                               <=> caller[k] \in {"releasing", "draining"}
                          /\ caller'[k] = "stopped" <=> caller[k] = "stopped"
    BY <1>k, AwakeCallers DEF TearingDown
  <2>2. Exited => Exited'
    BY <1>k, <1>x DEF Exited
  <2> QED BY <1>k, <2>1, <2>2 DEF OneTearsDown
<1>1. CASE UNCHANGED vars
  BY <1>1, <1>k DEF vars, core, flags, marks
<1>2. ASSUME NEW w \in Worker,
             WorkerThread(w) \/ \E kind \in FrameKind : Receive(w, kind)
      PROVE  OneTearsDown'
  <2>1. closed => queue' = queue
    <3>1. closed => queue = <<>>
      BY DEF OneTearsDown
    <3>2. TakeConnection(w) => queue # <<>>
      BY DEF TakeConnection
    <3>3. ~TakeConnection(w) => queue' = queue
      BY <1>2 DEF WorkerThread, Receive, FindsNothing, ReceiveEnd, Dispatch,
                  CountServed, Reply, AfterReply, Reject, Warn, CountMalformed, Finish, CloseServed
    <3> QED BY <3>1, <3>2, <3>3
  <2> QED BY <1>2, <1>k, <2>1, WorkerStep
<1>3. CASE AcceptThread \/ AcceptFails
  <2>1. UNCHANGED <<stopping, closed, caller>> /\ acceptor.at # "exited"
    BY <1>3 DEF AcceptThread, AcceptFails, Accept, CountAccepted, CountRefused, flags, marks
  <2>2. ~closed /\ ~Exited
    BY <2>1 DEF OneTearsDown, Exited
  <2> QED BY <2>1, <2>2 DEF OneTearsDown, TearingDown
<1>4. ASSUME NEW k \in Caller, CallerThread(k) \/ CallStop(k)
      PROVE  OneTearsDown'
  <2> USE DEF core, marks, Steps
  <2>1. CASE Wait(k) \/ CallStop(k)
    <3>1. /\ UNCHANGED <<stopping, closed, acceptor, queue, worker>>
          /\ \A j \in Caller : \/ caller'[j] = caller[j]
                               \/ /\ caller[j] \in {"waiting", "idle"}
                                  /\ caller'[j] \in {"asleep", "stopping"}
      BY <1>t, <2>1 DEF Wait, CallStop
    <3> QED BY <3>1 DEF OneTearsDown, TearingDown, Exited
  <2>2. CASE EnterStop(k) /\ stopping
    <3>1. /\ UNCHANGED <<closed, acceptor, queue, worker>> /\ stopping'
          /\ caller'[k] = "stopped" /\ \A j \in Caller : j # k => caller'[j] = caller[j]
          /\ \A j \in Caller : ~TearingDown(j)
      BY <1>t, <2>2 DEF EnterStop
    <3> QED BY <2>2, <3>1 DEF OneTearsDown, TearingDown, Exited
  <2>3. CASE EnterStop(k) /\ ~stopping
    <3>1. /\ UNCHANGED <<closed, acceptor, queue, worker>> /\ stopping'
          /\ caller'[k] = "waking" /\ \A j \in Caller : j # k => caller'[j] = caller[j]
          /\ \A j \in Caller : ~TearingDown(j)
      BY <1>t, <2>3 DEF EnterStop
    <3> QED BY <2>3, <3>1 DEF OneTearsDown, TearingDown
  <2>4. CASE Wake(k) \/ WakeFails(k)
    <3>1. /\ UNCHANGED <<closed, acceptor, queue, worker, stopping>> /\ caller[k] = "waking"
          /\ caller'[k] = "joining" /\ \A j \in Caller : j # k => caller'[j] = caller[j]
      BY <1>t, <2>4 DEF Wake, WakeFails
    <3> QED BY <3>1 DEF OneTearsDown, TearingDown
  <2>5. CASE Broadcast(k)
    <3>1. /\ UNCHANGED <<acceptor, stopping>> /\ caller[k] = "joining"
          /\ caller'[k] = "releasing" /\ \A j \in Caller : j # k => caller'[j] = caller[j]
          /\ closed' /\ queue' = <<>> /\ acceptor.at = "exited"
      BY <1>t, <2>5 DEF Broadcast
    <3> QED BY <3>1 DEF OneTearsDown, TearingDown
  <2>6. CASE Release(k)
    <3>1. /\ UNCHANGED <<acceptor, stopping, closed, queue>> /\ caller[k] = "releasing"
          /\ caller'[k] = "draining"
          /\ \A j \in Caller : j # k => \/ caller'[j] = caller[j]
                                        \/ caller[j] = "asleep" /\ caller'[j] = "waiting"
      BY <1>t, <2>6, AwakeCallers DEF Release
    <3> QED BY <3>1 DEF OneTearsDown, TearingDown
  <2>7. CASE CloseListener(k)
    <3>1. /\ UNCHANGED <<acceptor, stopping, closed, queue, worker>> /\ caller[k] = "draining"
          /\ caller'[k] = "stopped" /\ \A j \in Caller : j # k => caller'[j] = caller[j]
          /\ \A w \in Worker : worker[w].at = "exited"
      BY <1>t, <2>7 DEF CloseListener
    <3>2. closed /\ acceptor.at = "exited" /\ stopping
      BY <3>1 DEF OneTearsDown, WakerStops, TearingDown
    <3> QED BY <3>1, <3>2 DEF OneTearsDown, TearingDown, Exited
  <2> QED BY <1>4, <2>1, <2>2, <2>3, <2>4, <2>5, <2>6, <2>7 DEF CallerThread
<1>5. CASE Connect \/ \E c \in Conn : Read(c) \/ Leave(c)
  BY <1>5, <1>k DEF Connect, Read, Leave, core, flags, marks
<1> QED BY <1>1, <1>2, <1>3, <1>4, <1>5 DEF Next

LEMMA TeardownInit == Init => OneTearsDown
BY DEF Init, OneTearsDown, TearingDown

ThreadInv == TypeOK /\ WakerStops /\ OneTearsDown

LEMMA ThreadInvariant == Spec => []ThreadInv
<1>1. Init => ThreadInv
  BY TypeInit, TeardownInit DEF ThreadInv
<1>2. ThreadInv /\ [Next]_vars => ThreadInv'
  BY TypeStep, WakerStep, TeardownStep DEF ThreadInv
<1> QED BY <1>1, <1>2, PTL DEF Spec

StoppedIsStopped ==
  \A k \in Caller : caller[k] = "stopped" => Exited /\ queue = <<>>

(* transport.cpp:477: "stop returned" always means that the server is      *)
(* fully torn down.  Whichever caller returns, first or second, the accept *)
(* thread and all workers have ended and nothing is queued.                *)
THEOREM StopMeansStopped == Spec => []StoppedIsStopped
<1>1. ThreadInv => StoppedIsStopped
  BY DEF ThreadInv, OneTearsDown, StoppedIsStopped
<1> QED BY <1>1, ThreadInvariant, PTL

------------------------------------------------------------------------------
(* Sockets.                                                                *)

Serves(w) == worker[w].at \in Serving

(* The kernel holds each connection once, and untouched by the server.     *)
BacklogPending ==
  \A m \in DOMAIN backlog :
    backlog[m] # Waker =>
      /\ link[backlog[m]].end = "pending"
      /\ \A n \in DOMAIN backlog : backlog[m] = backlog[n] => m = n

(* The three places where the server has an open socket.                   *)
Queued(c) == \E n \in DOMAIN queue : queue[n] = c
Served(c) == \E w \in Worker : Serves(w) /\ worker[w].conn = c
Refusing(c) == acceptor.at = "refusing" /\ acceptor.conn = c

IsOpen(c) == link[c].end \in {"open", "shut"}

(* SocketsOwned, one connection at a time, and what it rests on: a worker  *)
(* that serves has a connection, and has taken it off the active set when  *)
(* it is about to close it.                                                *)
OneOwner ==
  /\ \A m, n \in DOMAIN queue : queue[m] = queue[n] => m = n
  /\ \A v, w \in Worker : Serves(v) /\ Serves(w) /\ worker[v].conn = worker[w].conn => v = w
  /\ \A w \in Worker : Serves(w) => worker[w].conn \in Conn
  /\ acceptor.at = "refusing" => acceptor.conn \in Conn
  /\ \A c \in Conn : ~(Queued(c) /\ Served(c)) /\ ~(Queued(c) /\ Refusing(c)) /\ ~(Served(c) /\ Refusing(c))
  /\ \A c \in Conn : IsOpen(c) <=> Queued(c) \/ Served(c) \/ Refusing(c)
  /\ \A c \in active : \E w \in Worker : /\ Serves(w) /\ worker[w].conn = c
                                         /\ worker[w].at # "closing"

LEMMA OwnersAreSets == TypeOK /\ OneOwner => SocketsOwned
<1> SUFFICES ASSUME TypeOK, OneOwner
             PROVE  SocketsOwned
  OBVIOUS
<1> DEFINE serving == {worker[w].conn : w \in At(Serving)}
           inHand == IF acceptor.at = "refusing" THEN {acceptor.conn} ELSE {}
<1>1. \A c : c \in serving <=> Served(c)
  BY DEF At, Served, Serves
<1>2. \A c : c \in ToSet(queue) <=> Queued(c)
  BY DEF ToSet, Queued
<1>3. \A c : c \in inHand <=> Refusing(c)
  BY DEF Refusing
<1>4. \A c : Queued(c) \/ Served(c) \/ Refusing(c) => c \in Conn
  BY DEF OneOwner, Queued, Served, Refusing, TypeOK
<1>5. IsInjective(queue)
  BY DEF IsInjective, OneOwner
<1>6. \A w, v \in At(Serving) : worker[w].conn = worker[v].conn => w = v
  BY DEF At, OneOwner, Serves
<1>7. ToSet(queue) \cap serving = {} /\ inHand \cap (ToSet(queue) \cup serving) = {}
  BY <1>1, <1>2, <1>3, <1>4 DEF OneOwner
<1>8. active \subseteq serving
  BY <1>1 DEF OneOwner, Served
<1>9. ToSet(queue) \cup serving \cup inHand = {c \in Conn : link[c].end \in {"open", "shut"}}
  BY <1>1, <1>2, <1>3, <1>4 DEF OneOwner, IsOpen
<1> HIDE DEF serving, inHand
<1>10. /\ IsInjective(queue)
       /\ \A w, v \in At(Serving) : worker[w].conn = worker[v].conn => w = v
       /\ ToSet(queue) \cap serving = {}
       /\ inHand \cap (ToSet(queue) \cup serving) = {}
       /\ active \subseteq serving
       /\ ToSet(queue) \cup serving \cup inHand = {c \in Conn : link[c].end \in {"open", "shut"}}
  BY <1>5, <1>6, <1>7, <1>8, <1>9
<1> QED BY <1>10 DEF SocketsOwned, serving, inHand

(* A step that moves no socket: queue, active set and the hand of the      *)
(* accept thread as before, no worker takes a connection, closes one or    *)
(* leaves one, and what is open stays so.                                  *)
LEMMA OwnersKept ==
  ASSUME TypeOK, OneOwner, UNCHANGED <<queue, active>>,
         acceptor'.at = "refusing" <=> acceptor.at = "refusing",
         acceptor.at = "refusing" => acceptor'.conn = acceptor.conn,
         \A w \in Worker : /\ Serves(w)' <=> Serves(w)
                           /\ Serves(w) => /\ worker'[w].conn = worker[w].conn
                                           /\ worker'[w].at = "closing" <=> worker[w].at = "closing",
         \A c \in Conn : IsOpen(c)' <=> IsOpen(c)
  PROVE  OneOwner'
<1>1. \A c : /\ Queued(c)' <=> Queued(c)
             /\ Served(c)' <=> Served(c)
             /\ Refusing(c)' <=> Refusing(c)
  BY DEF Queued, Served, Refusing
<1>2. /\ \A m, n \in DOMAIN queue' : queue'[m] = queue'[n] => m = n
      /\ acceptor'.at = "refusing" => acceptor'.conn \in Conn
  BY DEF OneOwner
<1>3. /\ \A v, w \in Worker : Serves(v)' /\ Serves(w)' /\ worker'[v].conn = worker'[w].conn => v = w
      /\ \A w \in Worker : Serves(w)' => worker'[w].conn \in Conn
  BY DEF OneOwner
<1>4. \A c \in Conn : /\ ~(Queued(c)' /\ Served(c)') /\ ~(Queued(c)' /\ Refusing(c)')
                      /\ ~(Served(c)' /\ Refusing(c)')
                      /\ IsOpen(c)' <=> Queued(c)' \/ Served(c)' \/ Refusing(c)'
  BY <1>1 DEF OneOwner
<1>5. \A c \in active' : \E w \in Worker : /\ Serves(w)' /\ worker'[w].conn = c
                                           /\ worker'[w].at # "closing"
  BY DEF OneOwner
<1> QED BY <1>2, <1>3, <1>4, <1>5 DEF OneOwner

LEMMA PendingKept ==
  ASSUME TypeOK, BacklogPending, backlog' = backlog,
         \A c \in Conn : link[c].end = "pending" => link'[c].end = "pending"
  PROVE  BacklogPending'
<1>1. \A m \in DOMAIN backlog : backlog[m] # Waker => backlog[m] \in Conn
  BY DEF TypeOK
<1> QED BY <1>1 DEF BacklogPending

(* What a connection that is queued or served is.                          *)
LEMMA InUseIsOpen ==
  ASSUME TypeOK, OneOwner, NEW c \in Conn, Queued(c) \/ Served(c) \/ Refusing(c)
  PROVE  link[c].end \in {"open", "shut"} /\ link[c].end # "pending"
BY DEF OneOwner, IsOpen

LEMMA OwnerStepOfWorker ==
  ASSUME TypeOK, OneOwner, BacklogPending, NEW w \in Worker,
         WorkerThread(w) \/ \E kind \in FrameKind : Receive(w, kind)
  PROVE  OneOwner' /\ BacklogPending'
<1>t. /\ worker \in [Worker -> WorkerState] /\ queue \in Seq(Conn) /\ link \in [Conn -> LinkState]
      /\ active \subseteq Conn
  BY DEF TypeOK, WorkerState, LinkState
<1>u. UNCHANGED <<backlog, acceptor>>
  BY WorkerStep
<1>m. ASSUME NEW to \in WorkerAt, Moves(w, to), UNCHANGED <<queue, active>>,
             worker[w].at \in Serving \ {"closing"} /\ to \in Serving \ {"closing"},
             \A c \in Conn : link'[c].end = link[c].end
      PROVE  OneOwner' /\ BacklogPending'
  <2>1. /\ worker'[w].at = to /\ worker'[w].conn = worker[w].conn
        /\ \A v \in Worker : v # w => worker'[v] = worker[v]
    BY <1>m, Moved
  <2>2. \A v \in Worker : /\ Serves(v)' <=> Serves(v)
                          /\ worker'[v].conn = worker[v].conn
                          /\ worker'[v].at = "closing" <=> worker[v].at = "closing"
    BY <1>m, <2>1 DEF Serves
  <2>3. \A c \in Conn : IsOpen(c)' <=> IsOpen(c)
    BY <1>m DEF IsOpen
  <2>4. OneOwner'
    BY <1>m, <1>u, <2>2, <2>3, OwnersKept
  <2>5. BacklogPending'
    BY <1>m, <1>u, PendingKept
  <2> QED BY <2>4, <2>5
<1>1. CASE TakeConnection(w)
  <2> DEFINE c == Head(queue)
  <2>1. /\ Len(queue) \in Nat \ {0} /\ DOMAIN queue = 1..Len(queue) /\ c = queue[1] /\ c \in Conn
        /\ queue' = Tail(queue) /\ DOMAIN queue' = 1..(Len(queue) - 1)
        /\ \A n \in 1..(Len(queue) - 1) : queue'[n] = queue[n + 1]
    BY <1>t, <1>1 DEF TakeConnection
  <2> HIDE DEF c
  <2>2. /\ worker[w].at = "ready" /\ worker'[w].at = "reading" /\ worker'[w].conn = c
        /\ \A v \in Worker : v # w => worker'[v] = worker[v]
    BY <1>t, <1>1 DEF TakeConnection, WorkerState, c
  <2>3. Queued(c) /\ link[c].end \in {"open", "shut"} /\ ~Served(c) /\ ~Refusing(c)
    <3>1. Queued(c)
      BY <2>1 DEF Queued
    <3> QED BY <2>1, <3>1, InUseIsOpen DEF OneOwner
  <2>4. /\ link'[c].end \in {"open", "shut"}
        /\ \A x \in Conn : x # c => link'[x] = link[x]
    BY <1>t, <1>1, <2>1, <2>3 DEF TakeConnection, LinkState, c
  <2>5. \A m, n \in DOMAIN queue : queue[m] = queue[n] => m = n
    BY DEF OneOwner
  <2>6. \A m, n \in DOMAIN queue' : queue'[m] = queue'[n] => m = n
    <3> TAKE m, n \in DOMAIN queue'
    <3>1. /\ m + 1 \in DOMAIN queue /\ n + 1 \in DOMAIN queue
          /\ queue'[m] = queue[m + 1] /\ queue'[n] = queue[n + 1] /\ m \in Int /\ n \in Int
      BY <2>1
    <3>2. queue[m + 1] = queue[n + 1] => m + 1 = n + 1
      BY <2>5, <3>1
    <3>3. m + 1 = n + 1 => m = n
      BY <3>1
    <3> QED BY <3>1, <3>2, <3>3
  <2>7. \A x : Queued(x)' <=> Queued(x) /\ x # c
    <3>1. ASSUME NEW x, Queued(x)'
          PROVE  Queued(x) /\ x # c
      <4>1. PICK n \in DOMAIN queue' : queue'[n] = x
        BY <3>1 DEF Queued
      <4>2. n + 1 \in DOMAIN queue /\ queue[n + 1] = x /\ 1 \in DOMAIN queue /\ n + 1 # 1
        BY <2>1, <4>1
      <4> QED BY <2>1, <2>5, <4>2 DEF Queued
    <3>2. ASSUME NEW x, Queued(x), x # c
          PROVE  Queued(x)'
      <4>1. PICK n \in DOMAIN queue : queue[n] = x
        BY <3>2 DEF Queued
      <4>2. n # 1
        BY <2>1, <3>2, <4>1
      <4>3. n - 1 \in DOMAIN queue' /\ queue'[n - 1] = x
        BY <2>1, <4>1, <4>2
      <4> QED BY <4>3 DEF Queued
    <3> QED BY <3>1, <3>2
  <2>8. ~Serves(w) /\ Serves(w)' /\ \A v \in Worker : v # w => (Serves(v)' <=> Serves(v))
    BY <2>2 DEF Serves, Serving, WorkerAt
  <2>9. \A x : Served(x)' <=> Served(x) \/ x = c
    BY <2>2, <2>8 DEF Served
  <2>10. \A x : Refusing(x)' <=> Refusing(x)
    BY <1>u DEF Refusing
  <2>11. \A x \in Conn : IsOpen(x)' <=> IsOpen(x)
    BY <2>3, <2>4 DEF IsOpen
  <2>12. /\ \A v, u \in Worker : Serves(v)' /\ Serves(u)' /\ worker'[v].conn = worker'[u].conn => v = u
         /\ \A v \in Worker : Serves(v)' => worker'[v].conn \in Conn
    <3>1. \A v \in Worker : v # w /\ Serves(v) => worker[v].conn # c
      BY <2>3 DEF Served
    <3> QED BY <2>1, <2>2, <2>8, <3>1 DEF OneOwner
  <2>13. \A x \in Conn : /\ ~(Queued(x)' /\ Served(x)') /\ ~(Queued(x)' /\ Refusing(x)')
                         /\ ~(Served(x)' /\ Refusing(x)')
                         /\ IsOpen(x)' <=> Queued(x)' \/ Served(x)' \/ Refusing(x)'
    BY <2>3, <2>7, <2>9, <2>10, <2>11 DEF OneOwner
  <2>14. \A x \in active' : \E v \in Worker : /\ Serves(v)' /\ worker'[v].conn = x
                                              /\ worker'[v].at # "closing"
    <3>1. active' = active \cup {c}
      BY <1>1 DEF TakeConnection, c
    <3> QED BY <2>2, <2>8, <3>1 DEF OneOwner
  <2>15. OneOwner'
    BY <1>u, <2>6, <2>12, <2>13, <2>14 DEF OneOwner
  <2>16. BacklogPending'
    <3>1. \A x \in Conn : link[x].end = "pending" => link'[x].end = "pending"
      BY <2>3, <2>4
    <3> QED BY <1>u, <3>1, PendingKept
  <2> QED BY <2>15, <2>16
<1>2. CASE FindsNothing(w)
  <2>1. /\ UNCHANGED <<queue, active, link>> /\ worker[w].at = "ready"
        /\ worker'[w].at \in {"exited", "asleep"}
        /\ \A v \in Worker : v # w => worker'[v] = worker[v]
    BY <1>t, <1>2 DEF FindsNothing, Moves, WorkerState
  <2>2. \A v \in Worker : /\ Serves(v)' <=> Serves(v)
                          /\ Serves(v) => worker'[v] = worker[v]
    BY <2>1 DEF Serves, Serving
  <2>3. \A c \in Conn : IsOpen(c)' <=> IsOpen(c)
    BY <2>1 DEF IsOpen
  <2> QED BY <1>u, <2>1, <2>2, <2>3, OwnersKept, PendingKept
<1>3. CASE \E kind \in FrameKind : Receive(w, kind)
  <2>1. PICK kind \in FrameKind : Receive(w, kind)
    BY <1>3
  <2>2. /\ kind \in WorkerAt /\ Moves(w, kind) /\ UNCHANGED <<queue, active, link>>
        /\ worker[w].at \in Serving \ {"closing"} /\ kind \in Serving \ {"closing"}
    BY <2>1 DEF Receive, WorkerAt, FrameKind, Serving
  <2> QED BY <1>m, <2>2
<1>4. CASE ReceiveEnd(w) \/ CountServed(w) \/ CountMalformed(w) \/ AfterReply(w) \/ Dispatch(w)
  <2>1. /\ \E to \in WorkerAt : Moves(w, to) /\ to \in Serving \ {"closing"}
        /\ UNCHANGED <<queue, active, link>>
        /\ worker[w].at \in Serving \ {"closing"}
    BY <1>4 DEF ReceiveEnd, CountServed, CountMalformed, AfterReply, Dispatch, WorkerAt, FrameKind, Serving
  <2> QED BY <1>m, <2>1
<1>5. CASE Reply(w) \/ Reject(w) \/ Warn(w)
  <2>1. /\ \E to \in WorkerAt : Moves(w, to) /\ to \in Serving \ {"closing"}
        /\ UNCHANGED <<queue, active>>
        /\ worker[w].at \in Serving \ {"closing"}
        /\ Sent(worker[w].conn) \/ SendFails(worker[w].conn)
    BY <1>5 DEF Reply, Reject, Warn, WorkerAt, FrameKind, Serving
  <2>2. \A c \in Conn : link'[c].end = link[c].end
    BY <2>1, SentType
  <2> QED BY <1>m, <2>1, <2>2
<1>6. CASE Finish(w)
  <2>1. /\ worker[w].at = "finishing" /\ worker'[w].at = "closing" /\ worker'[w].conn = worker[w].conn
        /\ \A v \in Worker : v # w => worker'[v] = worker[v]
        /\ UNCHANGED <<queue, link>> /\ active' = active \ {worker[w].conn}
    BY <1>t, <1>6 DEF Finish, Moves, WorkerState
  <2>2. \A v \in Worker : /\ Serves(v)' <=> Serves(v)
                          /\ worker'[v].conn = worker[v].conn
    BY <2>1 DEF Serves, Serving, WorkerAt
  <2>3. \A c : /\ Queued(c)' <=> Queued(c)
               /\ Served(c)' <=> Served(c)
               /\ Refusing(c)' <=> Refusing(c)
               /\ IsOpen(c)' <=> IsOpen(c)
    BY <1>u, <2>1, <2>2 DEF Queued, Served, Refusing, IsOpen
  <2>4. \A c \in active' : \E v \in Worker : /\ Serves(v)' /\ worker'[v].conn = c
                                             /\ worker'[v].at # "closing"
    <3> TAKE c \in active'
    <3>1. PICK v \in Worker : Serves(v) /\ worker[v].conn = c /\ worker[v].at # "closing"
      BY <2>1 DEF OneOwner
    <3>2. v # w
      BY <2>1, <3>1
    <3> QED BY <2>1, <2>2, <3>1, <3>2
  <2>5. /\ \A m, n \in DOMAIN queue' : queue'[m] = queue'[n] => m = n
        /\ \A v, u \in Worker : Serves(v)' /\ Serves(u)' /\ worker'[v].conn = worker'[u].conn => v = u
        /\ \A v \in Worker : Serves(v)' => worker'[v].conn \in Conn
        /\ acceptor'.at = "refusing" => acceptor'.conn \in Conn
    BY <1>u, <2>1, <2>2 DEF OneOwner
  <2>6. \A c \in Conn : /\ ~(Queued(c)' /\ Served(c)') /\ ~(Queued(c)' /\ Refusing(c)')
                        /\ ~(Served(c)' /\ Refusing(c)')
                        /\ IsOpen(c)' <=> Queued(c)' \/ Served(c)' \/ Refusing(c)'
    BY <2>3 DEF OneOwner
  <2>7. OneOwner'
    BY <2>4, <2>5, <2>6 DEF OneOwner
  <2> QED BY <1>u, <2>1, <2>7, PendingKept
<1>7. CASE CloseServed(w)
  <2> DEFINE c == worker[w].conn
  <2>1. /\ worker[w].at = "closing" /\ worker'[w].at = "ready"
        /\ \A v \in Worker : v # w => worker'[v] = worker[v]
        /\ UNCHANGED <<queue, active>> /\ link' = [link EXCEPT ![c] = Closed]
    BY <1>t, <1>7 DEF CloseServed, WorkerState
  <2>2. Serves(w) /\ ~Serves(w)' /\ \A v \in Worker : v # w => (Serves(v)' <=> Serves(v))
    BY <2>1 DEF Serves, Serving, WorkerAt
  <2>3. c \in Conn /\ Served(c) /\ \A v \in Worker : v # w /\ Serves(v) => worker[v].conn # c
    BY <2>2 DEF OneOwner, Served
  <2>4. link'[c] = Closed /\ \A x \in Conn : x # c => link'[x] = link[x]
    BY <1>t, <2>1, <2>3
  <2> HIDE DEF c
  <2>5. \A x : Served(x)' <=> Served(x) /\ x # c
    BY <2>1, <2>2, <2>3 DEF Served, c
  <2>6. \A x : /\ Queued(x)' <=> Queued(x)
               /\ Refusing(x)' <=> Refusing(x)
    BY <1>u, <2>1 DEF Queued, Refusing
  <2>7. \A x \in Conn : IsOpen(x)' <=> IsOpen(x) /\ x # c
    BY <2>4 DEF IsOpen, Closed
  <2>8. \A x \in Conn : /\ ~(Queued(x)' /\ Served(x)') /\ ~(Queued(x)' /\ Refusing(x)')
                        /\ ~(Served(x)' /\ Refusing(x)')
                        /\ IsOpen(x)' <=> Queued(x)' \/ Served(x)' \/ Refusing(x)'
    BY <2>3, <2>5, <2>6, <2>7 DEF OneOwner
  <2>9. /\ \A m, n \in DOMAIN queue' : queue'[m] = queue'[n] => m = n
        /\ \A v, u \in Worker : Serves(v)' /\ Serves(u)' /\ worker'[v].conn = worker'[u].conn => v = u
        /\ \A v \in Worker : Serves(v)' => worker'[v].conn \in Conn
        /\ acceptor'.at = "refusing" => acceptor'.conn \in Conn
    BY <1>u, <2>1, <2>2 DEF OneOwner
  <2>10. \A x \in active' : \E v \in Worker : /\ Serves(v)' /\ worker'[v].conn = x
                                              /\ worker'[v].at # "closing"
    <3> TAKE x \in active'
    <3>1. PICK v \in Worker : Serves(v) /\ worker[v].conn = x /\ worker[v].at # "closing"
      BY <2>1 DEF OneOwner
    <3>2. v # w
      BY <2>1, <3>1
    <3> QED BY <2>1, <2>2, <3>1, <3>2
  <2>11. OneOwner'
    BY <2>8, <2>9, <2>10 DEF OneOwner
  <2>12. \A x \in Conn : link[x].end = "pending" => link'[x].end = "pending"
    BY <2>3, <2>4, InUseIsOpen
  <2> QED BY <1>u, <2>11, <2>12, PendingKept
<1> QED BY <1>1, <1>2, <1>3, <1>4, <1>5, <1>6, <1>7 DEF WorkerThread

LEMMA OwnerStepOfAcceptor ==
  ASSUME TypeOK, WakerStops, OneOwner, BacklogPending, AcceptThread \/ AcceptFails
  PROVE  OneOwner' /\ BacklogPending'
<1>t. /\ worker \in [Worker -> WorkerState] /\ queue \in Seq(Conn) /\ link \in [Conn -> LinkState]
      /\ backlog \in Seq(Conn \cup {Waker}) /\ Waker \notin Conn
  BY ThreadAssumption DEF TypeOK, WorkerState, LinkState
<1>1. CASE Accept
  <2> DEFINE c == Head(backlog)
  <2>1. /\ Len(backlog) \in Nat \ {0} /\ DOMAIN backlog = 1..Len(backlog) /\ c = backlog[1]
        /\ c \in Conn \cup {Waker}
        /\ backlog' = Tail(backlog) /\ DOMAIN backlog' = 1..(Len(backlog) - 1)
        /\ \A n \in 1..(Len(backlog) - 1) : backlog'[n] = backlog[n + 1]
        /\ 1 \in DOMAIN backlog
    BY <1>t, <1>1 DEF Accept
  <2>2. /\ acceptor.at = "accepting" /\ UNCHANGED <<active, worker>>
        /\ stopping => /\ acceptor'.at = "exited" /\ queue' = queue
                       /\ link' = [x \in Conn |-> IF x = c THEN Closed ELSE link[x]]
        /\ ~stopping => /\ link' = [link EXCEPT ![c].end = "open"]
                        /\ \/ acceptor' = [at |-> "refusing", conn |-> c] /\ queue' = queue
                           \/ acceptor'.at = "accepted" /\ queue' = Append(queue, c)
    BY <1>1 DEF Accept
  <2> HIDE DEF c
  <2>3. c \in Conn => link[c].end = "pending" /\ ~IsOpen(c) /\ ~Queued(c) /\ ~Served(c)
    <3>1. c \in Conn => link[c].end = "pending"
      BY <1>t, <2>1 DEF BacklogPending
    <3> QED BY <3>1, InUseIsOpen DEF IsOpen
  <2>4. ~stopping => c \in Conn
    BY <2>1 DEF WakerStops
  <2>5. \A x \in Conn : x # c => link'[x] = link[x]
    BY <1>t, <2>2, <2>4
  <2>6. BacklogPending'
    <3> SUFFICES ASSUME NEW m \in DOMAIN backlog', backlog'[m] # Waker
                 PROVE  /\ link'[backlog'[m]].end = "pending"
                        /\ \A n \in DOMAIN backlog' : backlog'[m] = backlog'[n] => m = n
      BY DEF BacklogPending
    <3>1. m + 1 \in DOMAIN backlog /\ backlog'[m] = backlog[m + 1] /\ m \in Int /\ m + 1 # 1
      BY <2>1
    <3>2. /\ link[backlog[m + 1]].end = "pending" /\ backlog[m + 1] \in Conn
          /\ \A n \in DOMAIN backlog : backlog[m + 1] = backlog[n] => m + 1 = n
      BY <1>t, <3>1 DEF BacklogPending
    <3>3. backlog[m + 1] # c
      BY <2>1, <3>1, <3>2
    <3>4. link'[backlog'[m]].end = "pending"
      BY <2>5, <3>1, <3>2, <3>3
    <3>5. ASSUME NEW n \in DOMAIN backlog', backlog'[m] = backlog'[n]
          PROVE  m = n
      <4>1. n + 1 \in DOMAIN backlog /\ backlog'[n] = backlog[n + 1] /\ n \in Int
        BY <2>1
      <4>2. m + 1 = n + 1
        BY <3>1, <3>2, <3>5, <4>1
      <4> QED BY <3>1, <4>1, <4>2
    <3> QED BY <3>4, <3>5
  <2>7. CASE stopping
    <3>1. \A x \in Conn : IsOpen(x)' <=> IsOpen(x)
      BY <2>2, <2>3, <2>7 DEF IsOpen, Closed
    <3>2. /\ UNCHANGED <<queue, active, worker>>
          /\ acceptor'.at # "refusing" /\ acceptor.at # "refusing"
      BY <2>2, <2>7
    <3>3. \A w \in Worker : (Serves(w)' <=> Serves(w)) /\ worker'[w] = worker[w]
      BY <3>2 DEF Serves
    <3>4. OneOwner'
      BY <3>1, <3>2, <3>3, OwnersKept
    <3> QED BY <2>6, <3>4
  <2>8. CASE ~stopping
    <3>1. c \in Conn /\ \A x \in Conn : IsOpen(x)' <=> IsOpen(x) \/ x = c
      <4>1. c \in Conn /\ link'[c].end = "open"
        BY <1>t, <2>2, <2>4, <2>8 DEF LinkState
      <4> QED BY <2>5, <4>1 DEF IsOpen
    <3>2. \A x : Served(x)' <=> Served(x)
      BY <2>2 DEF Served, Serves
    <3>3. /\ \A v, u \in Worker : Serves(v)' /\ Serves(u)' /\ worker'[v].conn = worker'[u].conn => v = u
          /\ \A v \in Worker : Serves(v)' => worker'[v].conn \in Conn
          /\ \A x \in active' : \E v \in Worker : /\ Serves(v)' /\ worker'[v].conn = x
                                                  /\ worker'[v].at # "closing"
      BY <2>2 DEF OneOwner, Serves
    <3>4. CASE acceptor' = [at |-> "refusing", conn |-> c] /\ queue' = queue
      <4>1. \A x : /\ Queued(x)' <=> Queued(x)
                   /\ Refusing(x)' <=> x = c
                   /\ ~Refusing(x)
        BY <2>2, <3>4 DEF Queued, Refusing
      <4>2. \A x \in Conn : /\ ~(Queued(x)' /\ Served(x)') /\ ~(Queued(x)' /\ Refusing(x)')
                            /\ ~(Served(x)' /\ Refusing(x)')
                            /\ IsOpen(x)' <=> Queued(x)' \/ Served(x)' \/ Refusing(x)'
        <5> TAKE x \in Conn
        <5>1. CASE x = c
          BY <2>3, <3>1, <3>2, <4>1, <5>1
        <5>2. CASE x # c
          BY <3>1, <3>2, <4>1, <5>2 DEF OneOwner
        <5> QED BY <5>1, <5>2
      <4>3. /\ \A m, n \in DOMAIN queue' : queue'[m] = queue'[n] => m = n
            /\ acceptor'.at = "refusing" => acceptor'.conn \in Conn
        BY <3>1, <3>4 DEF OneOwner
      <4> QED BY <2>6, <3>3, <4>2, <4>3 DEF OneOwner
    <3>5. CASE acceptor'.at = "accepted" /\ queue' = Append(queue, c)
      <4>1. /\ Len(queue) \in Nat /\ DOMAIN queue = 1..Len(queue)
            /\ DOMAIN queue' = 1..(Len(queue) + 1)
            /\ \A n \in 1..Len(queue) : queue'[n] = queue[n]
            /\ queue'[Len(queue) + 1] = c
        BY <1>t, <3>5
      <4>2. \A n \in DOMAIN queue' : \/ n \in DOMAIN queue /\ queue'[n] = queue[n]
                                     \/ n = Len(queue) + 1 /\ queue'[n] = c
        BY <4>1
      <4>3. \A n \in DOMAIN queue : n \in DOMAIN queue' /\ queue'[n] = queue[n] /\ queue[n] # c
        BY <2>3, <3>1, <4>1 DEF Queued
      <4>4. \A x : Queued(x)' <=> Queued(x) \/ x = c
        <5>1. Len(queue) + 1 \in DOMAIN queue'
          BY <4>1
        <5>2. ASSUME NEW x, Queued(x)'
              PROVE  Queued(x) \/ x = c
          BY <4>2, <5>2 DEF Queued
        <5>3. ASSUME NEW x, Queued(x) \/ x = c
              PROVE  Queued(x)'
          BY <4>1, <4>3, <5>1, <5>3 DEF Queued
        <5> QED BY <5>2, <5>3
      <4>5. \A m, n \in DOMAIN queue' : queue'[m] = queue'[n] => m = n
        BY <4>2, <4>3 DEF OneOwner
      <4>6. \A x : ~Refusing(x)' /\ ~Refusing(x)
        BY <2>2, <3>5 DEF Refusing
      <4>7. \A x \in Conn : /\ ~(Queued(x)' /\ Served(x)') /\ ~(Queued(x)' /\ Refusing(x)')
                            /\ ~(Served(x)' /\ Refusing(x)')
                            /\ IsOpen(x)' <=> Queued(x)' \/ Served(x)' \/ Refusing(x)'
        <5> TAKE x \in Conn
        <5>1. CASE x = c
          BY <2>3, <3>1, <3>2, <4>4, <4>6, <5>1
        <5>2. CASE x # c
          BY <3>1, <3>2, <4>4, <4>6, <5>2 DEF OneOwner
        <5> QED BY <5>1, <5>2
      <4>8. acceptor'.at # "refusing"
        BY <3>5
      <4> QED BY <2>6, <3>3, <4>5, <4>7, <4>8 DEF OneOwner
    <3> QED BY <2>2, <2>8, <3>4, <3>5
  <2> QED BY <2>7, <2>8
<1>2. CASE CountAccepted
  <2>1. /\ acceptor.at = "accepted" /\ acceptor'.at = "accepting"
        /\ UNCHANGED <<queue, active, link, backlog>>
    BY <1>2 DEF CountAccepted, TypeOK
  <2>2. \A w \in Worker : \/ worker'[w] = worker[w]
                          \/ worker[w].at = "asleep" /\ worker'[w].at = "ready"
    BY <1>t, <1>2 DEF CountAccepted, Notified, WorkerState
  <2>3. \A w \in Worker : /\ Serves(w)' <=> Serves(w)
                          /\ Serves(w) => worker'[w] = worker[w]
    BY <2>2 DEF Serves, Serving
  <2>4. \A x \in Conn : IsOpen(x)' <=> IsOpen(x)
    BY <2>1 DEF IsOpen
  <2> QED BY <2>1, <2>3, <2>4, OwnersKept, PendingKept
<1>3. CASE CountRefused
  <2> DEFINE c == acceptor.conn
  <2>1. /\ acceptor.at = "refusing" /\ acceptor'.at = "accepting"
        /\ UNCHANGED <<queue, active, backlog, worker>> /\ link' = [link EXCEPT ![c] = Closed]
    BY <1>3 DEF CountRefused
  <2>2. c \in Conn /\ Refusing(c)
    BY <2>1 DEF OneOwner, Refusing
  <2>3. link'[c] = Closed /\ \A x \in Conn : x # c => link'[x] = link[x]
    BY <1>t, <2>1, <2>2
  <2>4. \A x : /\ Queued(x)' <=> Queued(x)
               /\ Served(x)' <=> Served(x)
               /\ ~Refusing(x)'
               /\ Refusing(x) <=> x = c
    BY <2>1 DEF Queued, Served, Serves, Refusing
  <2> HIDE DEF c
  <2>5. \A x \in Conn : IsOpen(x)' <=> IsOpen(x) /\ x # c
    BY <2>3 DEF IsOpen, Closed
  <2>6. \A x \in Conn : /\ ~(Queued(x)' /\ Served(x)') /\ ~(Queued(x)' /\ Refusing(x)')
                        /\ ~(Served(x)' /\ Refusing(x)')
                        /\ IsOpen(x)' <=> Queued(x)' \/ Served(x)' \/ Refusing(x)'
    BY <2>2, <2>4, <2>5 DEF OneOwner
  <2>7. OneOwner'
    BY <2>1, <2>6 DEF OneOwner, Serves
  <2>8. \A x \in Conn : link[x].end = "pending" => link'[x].end = "pending"
    BY <2>2, <2>3, InUseIsOpen
  <2> QED BY <2>1, <2>7, <2>8, PendingKept
<1>4. CASE AcceptFails
  <2>1. /\ acceptor.at = "accepting" /\ acceptor'.at = "exited"
        /\ UNCHANGED <<queue, active, backlog, worker, link>>
    BY <1>4 DEF AcceptFails
  <2>2. \A x \in Conn : IsOpen(x)' <=> IsOpen(x)
    BY <2>1 DEF IsOpen
  <2>3. \A w \in Worker : (Serves(w)' <=> Serves(w)) /\ worker'[w] = worker[w]
    BY <2>1 DEF Serves
  <2> QED BY <2>1, <2>2, <2>3, OwnersKept, PendingKept
<1> QED BY <1>1, <1>2, <1>3, <1>4 DEF AcceptThread

LEMMA OwnerStepOfCaller ==
  ASSUME TypeOK, OneOwner, BacklogPending, NEW k \in Caller, CallerThread(k) \/ CallStop(k)
  PROVE  OneOwner' /\ BacklogPending'
<1>t. /\ worker \in [Worker -> WorkerState] /\ queue \in Seq(Conn) /\ link \in [Conn -> LinkState]
      /\ backlog \in Seq(Conn \cup {Waker}) /\ active \subseteq Conn
  BY DEF TypeOK, WorkerState, LinkState
<1>k. ASSUME UNCHANGED <<queue, active, acceptor, worker>>,
             \A c \in Conn : IsOpen(c)' <=> IsOpen(c)
      PROVE  OneOwner'
  <2>1. \A w \in Worker : (Serves(w)' <=> Serves(w)) /\ worker'[w] = worker[w]
    BY <1>k DEF Serves
  <2> QED BY <1>k, <2>1, OwnersKept
<1>1. CASE Wake(k)
  <2>1. UNCHANGED <<queue, active, acceptor, worker, link>> /\ backlog' = Append(backlog, Waker)
    BY <1>1 DEF Wake
  <2>2. \A n \in DOMAIN backlog' : backlog'[n] # Waker => n \in DOMAIN backlog /\ backlog'[n] = backlog[n]
    BY <1>t, <2>1
  <2>3. BacklogPending'
    BY <2>1, <2>2 DEF BacklogPending
  <2>4. \A c \in Conn : IsOpen(c)' <=> IsOpen(c)
    BY <2>1 DEF IsOpen
  <2> QED BY <1>k, <2>1, <2>3, <2>4
<1>2. CASE Broadcast(k)
  <2>1. /\ acceptor' = acceptor /\ acceptor.at = "exited" /\ UNCHANGED <<active, backlog>>
        /\ queue' = <<>>
        /\ link' = [c \in Conn |-> IF c \in ToSet(queue) THEN Closed
                                   ELSE IF c \in active THEN [link[c] EXCEPT !.end = "shut"]
                                   ELSE link[c]]
        /\ worker' = Woken
    BY <1>2 DEF Broadcast
  <2>2. \A w \in Worker : \/ worker'[w] = worker[w]
                          \/ worker[w].at = "asleep" /\ worker'[w].at = "ready"
    BY <1>t, <2>1 DEF Woken, WorkerState
  <2>3. \A w \in Worker : /\ Serves(w)' <=> Serves(w)
                          /\ Serves(w) => worker'[w] = worker[w]
    BY <2>2 DEF Serves, Serving
  <2>4. \A c : c \in ToSet(queue) <=> Queued(c)
    BY DEF ToSet, Queued
  <2>5. \A c \in Conn :
          /\ Queued(c) => link'[c].end = "closed"
          /\ ~Queued(c) /\ c \in active => link'[c].end = "shut"
          /\ ~Queued(c) /\ c \notin active => link'[c] = link[c]
    BY <1>t, <2>1, <2>4 DEF Closed, LinkState
  <2>6. \A c \in active : c \in Conn /\ Served(c)
    BY <1>t DEF OneOwner, Served
  <2>7. \A c : ~Queued(c)' /\ ~Refusing(c)' /\ ~Refusing(c) /\ (Served(c)' <=> Served(c))
    BY <2>1, <2>3 DEF Queued, Refusing, Served
  <2>8. \A c \in Conn : IsOpen(c)' <=> Served(c)'
    <3> TAKE c \in Conn
    <3>1. CASE Queued(c)
      BY <2>5, <2>7, <3>1 DEF IsOpen, OneOwner
    <3>2. CASE ~Queued(c) /\ c \in active
      BY <2>5, <2>6, <2>7, <3>2 DEF IsOpen
    <3>3. CASE ~Queued(c) /\ c \notin active
      BY <2>5, <2>7, <3>3 DEF IsOpen, OneOwner
    <3> QED BY <3>1, <3>2, <3>3
  <2>9. /\ \A m, n \in DOMAIN queue' : queue'[m] = queue'[n] => m = n
        /\ \A v, u \in Worker : Serves(v)' /\ Serves(u)' /\ worker'[v].conn = worker'[u].conn => v = u
        /\ \A v \in Worker : Serves(v)' => worker'[v].conn \in Conn
        /\ \A c \in active' : \E w \in Worker : /\ Serves(w)' /\ worker'[w].conn = c
                                                /\ worker'[w].at # "closing"
    BY <2>1, <2>3 DEF OneOwner
  <2>10. OneOwner'
    BY <2>1, <2>7, <2>8, <2>9 DEF OneOwner
  <2>11. \A c \in Conn : link[c].end = "pending" => link'[c].end = "pending"
    BY <2>5, <2>6, InUseIsOpen
  <2> QED BY <2>1, <2>10, <2>11, PendingKept
<1>3. CASE CloseListener(k)
  <2>1. /\ UNCHANGED <<queue, active, acceptor, worker>> /\ backlog' = <<>>
        /\ link' = [c \in Conn |-> IF link[c].end = "pending" THEN Closed ELSE link[c]]
    BY <1>3 DEF CloseListener
  <2>2. \A c \in Conn : IsOpen(c)' <=> IsOpen(c)
    BY <2>1 DEF IsOpen, Closed
  <2>3. BacklogPending'
    BY <2>1 DEF BacklogPending
  <2> QED BY <1>k, <2>1, <2>2, <2>3
<1>4. CASE Wait(k) \/ CallStop(k) \/ EnterStop(k) \/ WakeFails(k) \/ Release(k)
  <2>1. UNCHANGED <<backlog, queue, active, acceptor, worker, link>>
    BY <1>4 DEF Wait, CallStop, EnterStop, WakeFails, Release, core
  <2>2. \A c \in Conn : IsOpen(c)' <=> IsOpen(c)
    BY <2>1 DEF IsOpen
  <2> QED BY <1>k, <2>1, <2>2, PendingKept
<1> QED BY <1>1, <1>2, <1>3, <1>4 DEF CallerThread

LEMMA OwnerStepOfPeer ==
  ASSUME TypeOK, OneOwner, BacklogPending, Connect \/ \E c \in Conn : Read(c) \/ Leave(c)
  PROVE  OneOwner' /\ BacklogPending'
<1>t. /\ link \in [Conn -> LinkState] /\ backlog \in Seq(Conn \cup {Waker}) /\ Waker \notin Conn
  BY ThreadAssumption DEF TypeOK, LinkState
<1>u. UNCHANGED <<queue, active, acceptor, worker>>
  BY DEF Connect, Read, Leave, core
<1>k. ASSUME \A c \in Conn : IsOpen(c)' <=> IsOpen(c)
      PROVE  OneOwner'
  <2>1. \A w \in Worker : (Serves(w)' <=> Serves(w)) /\ worker'[w] = worker[w]
    BY <1>u DEF Serves
  <2> QED BY <1>k, <1>u, <2>1, OwnersKept
<1>1. CASE Connect
  <2>1. PICK c \in Conn : /\ link[c].end = "none"
                          /\ link' = [link EXCEPT ![c].end = "pending"]
                          /\ backlog' = Append(backlog, c)
    BY <1>1 DEF Connect
  <2>2. link'[c].end = "pending" /\ \A x \in Conn : x # c => link'[x] = link[x]
    BY <1>t, <2>1 DEF LinkState
  <2>3. \A x \in Conn : IsOpen(x)' <=> IsOpen(x)
    BY <2>1, <2>2 DEF IsOpen
  <2>4. /\ Len(backlog) \in Nat /\ DOMAIN backlog = 1..Len(backlog)
        /\ DOMAIN backlog' = 1..(Len(backlog) + 1)
        /\ \A n \in 1..Len(backlog) : backlog'[n] = backlog[n]
        /\ backlog'[Len(backlog) + 1] = c
    BY <1>t, <2>1
  <2>5. \A n \in DOMAIN backlog' : \/ n \in DOMAIN backlog /\ backlog'[n] = backlog[n]
                                   \/ n = Len(backlog) + 1 /\ backlog'[n] = c
    BY <2>4
  <2>6. \A n \in DOMAIN backlog : backlog[n] # c
    BY <1>t, <2>1 DEF BacklogPending
  <2>7. \A n \in DOMAIN backlog : backlog[n] # Waker => backlog[n] \in Conn
    BY <1>t
  <2>8. BacklogPending'
    BY <2>2, <2>5, <2>6, <2>7 DEF BacklogPending
  <2> QED BY <1>k, <2>3, <2>8
<1>2. ASSUME NEW c \in Conn, Read(c) \/ Leave(c)
      PROVE  OneOwner' /\ BacklogPending'
  <2>1. backlog' = backlog /\ \A x \in Conn : link'[x].end = link[x].end
    <3>1. CASE Read(c)
      BY <1>t, <3>1 DEF Read, LinkState, core
    <3>2. CASE Leave(c)
      BY <1>t, <3>2 DEF Leave, LinkState, core
    <3> QED BY <1>2, <3>1, <3>2
  <2>2. \A x \in Conn : IsOpen(x)' <=> IsOpen(x)
    BY <2>1 DEF IsOpen
  <2> QED BY <1>k, <2>1, <2>2, PendingKept
<1> QED BY <1>1, <1>2

SocketInv == OneOwner /\ BacklogPending

LEMMA SocketStep ==
  TypeOK /\ WakerStops /\ SocketInv /\ [Next]_vars => SocketInv'
<1> SUFFICES ASSUME TypeOK, WakerStops, SocketInv, [Next]_vars
             PROVE  SocketInv'
  OBVIOUS
<1> USE DEF SocketInv
<1>1. CASE UNCHANGED vars
  <2>1. UNCHANGED <<backlog, queue, active, acceptor, worker, link>>
    BY <1>1 DEF vars, core
  <2>2. /\ \A c \in Conn : IsOpen(c)' <=> IsOpen(c)
        /\ \A w \in Worker : (Serves(w)' <=> Serves(w)) /\ worker'[w] = worker[w]
    BY <2>1 DEF IsOpen, Serves
  <2> QED BY <2>1, <2>2, OwnersKept, PendingKept
<1>2. CASE Next
  BY <1>2, OwnerStepOfWorker, OwnerStepOfAcceptor, OwnerStepOfCaller, OwnerStepOfPeer DEF Next
<1> QED BY <1>1, <1>2

LEMMA SocketInit == Init => SocketInv
<1> SUFFICES ASSUME Init
             PROVE  SocketInv
  OBVIOUS
<1>1. /\ backlog = <<>> /\ queue = <<>> /\ active = {} /\ acceptor.at = "accepting"
      /\ \A w \in Worker : worker[w].at = "ready"
      /\ \A c \in Conn : link[c].end = "none"
  BY DEF Init
<1>2. \A w \in Worker : ~Serves(w)
  BY <1>1 DEF Serves, Serving
<1>3. \A c \in Conn : ~IsOpen(c) /\ ~Queued(c) /\ ~Served(c) /\ ~Refusing(c)
  BY <1>1, <1>2 DEF IsOpen, Queued, Served, Refusing
<1>4. OneOwner
  BY <1>1, <1>2, <1>3 DEF OneOwner
<1>5. BacklogPending
  BY <1>1 DEF BacklogPending
<1> QED BY <1>4, <1>5 DEF SocketInv

(* Every open socket is in exactly one pair of hands, and what a stop      *)
(* shuts down or a thread sends on is open: no socket is closed under      *)
(* another thread, for any number of connections and workers and any       *)
(* order of accepting, serving, leaving and stopping.                      *)
THEOREM SocketsHaveOneOwner == Spec => []SocketsOwned
<1>1. Init => TypeOK /\ WakerStops /\ SocketInv
  BY TypeInit, SocketInit
<1>2. /\ TypeOK /\ WakerStops /\ SocketInv /\ [Next]_vars
      => TypeOK' /\ WakerStops' /\ SocketInv'
  BY TypeStep, WakerStep, SocketStep
<1>3. TypeOK /\ SocketInv => SocketsOwned
  BY OwnersAreSets DEF SocketInv
<1> QED BY <1>1, <1>2, <1>3, PTL DEF Spec

------------------------------------------------------------------------------
(* The threads implement the pool.                                         *)

Over == {c \in Conn : link[c].end = "closed"}
Down == \E k \in Caller : caller[k] = "stopped"

LEMMA HeldElements == \A c : c \in Held <=> Queued(c) \/ Served(c)
BY DEF Held, ToSet, At, Queued, Served, Serves

(* The steps of the pool, as the server takes them.                        *)
LEMMA PoolIdles ==
  ASSUME Held' = Held, Over' = Over, Down' <=> Down
  PROVE  [Pool!Next]_(Pool!vars)
BY DEF Pool!vars, Over, Down

LEMMA PoolTakes ==
  ASSUME NEW c \in Conn, ~Down, ~Down', c \notin Held \cup Over,
         Cardinality(Held) < MaxConnections + Cardinality(Worker),
         Held' = Held \cup {c}, Over' = Over
  PROVE  [Pool!Next]_(Pool!vars)
<1>1. (Down' = Down)
  BY DEF Down
<1>2. <<Over', Down'>> = <<Over, Down>>
  BY <1>1
<1>3. Pool!Cardinality(Held) = Cardinality(Held) /\ Pool!Cardinality(Worker) = Cardinality(Worker)
  BY DEF Cardinality, Pool!Cardinality
<1>4. Pool!Take(c)
  BY <1>2, <1>3 DEF Pool!Take, Over, Down
<1> QED BY <1>4 DEF Pool!Next

LEMMA PoolTurnsAway ==
  ASSUME NEW some \in SUBSET Conn, some \cap Held = {},
         Held' = Held, Over' = Over \cup some, Down' <=> Down
  PROVE  [Pool!Next]_(Pool!vars)
<1>1. Pool!TurnAway(some) /\ (Down' = Down)
  BY DEF Pool!TurnAway, Over, Down
<1> QED BY <1>1 DEF Pool!Next, Down

LEMMA PoolGivesUp ==
  ASSUME NEW some \in SUBSET Conn, some \subseteq Held,
         Held' = Held \ some, Over' = Over \cup some, Down' <=> Down
  PROVE  [Pool!Next]_(Pool!vars)
<1>1. Pool!GiveUp(some)
  BY DEF Pool!GiveUp, Over, Down
<1> QED BY <1>1 DEF Pool!Next

LEMMA PoolTearsDown ==
  ASSUME NEW some \in SUBSET Conn, Held = {}, Held' = {}, Over' = Over \cup some, Down'
  PROVE  [Pool!Next]_(Pool!vars)
<1>1. Pool!TearDown(some)
  BY DEF Pool!TearDown, Pool!TurnAway, Over, Down
<1> QED BY <1>1 DEF Pool!Next

(* What is held is in the queue, or with a worker of its own.              *)
LEMMA HeldSize ==
  ASSUME TypeOK
  PROVE  /\ IsFiniteSet(Held) /\ Cardinality(Held) \in Nat
         /\ Cardinality(Worker) \in Nat
         /\ Cardinality(Held) <= Len(queue) + Cardinality(Worker)
<1> DEFINE busy == At(Serving)
           hands == {worker[w].conn : w \in busy}
           hand == [w \in busy |-> worker[w].conn]
<1>1. /\ IsFiniteSet(busy) /\ Cardinality(busy) <= Cardinality(Worker)
      /\ Cardinality(busy) \in Nat /\ Cardinality(Worker) \in Nat
  <2>1. busy \subseteq Worker
    BY DEF At
  <2> QED BY <2>1, ThreadAssumption, FS_Subset, FS_CardinalityType
<1>2. IsFiniteSet(hands) /\ Cardinality(hands) <= Cardinality(busy) /\ Cardinality(hands) \in Nat
  <2>1. hand \in Surjection(busy, hands)
    BY DEF Surjection
  <2> HIDE DEF busy, hands, hand
  <2> QED BY <1>1, <2>1, FS_Surjection, FS_CardinalityType
<1>3. /\ IsFiniteSet(ToSet(queue)) /\ Cardinality(ToSet(queue)) \in Nat
      /\ Cardinality(ToSet(queue)) <= Len(queue) /\ Len(queue) \in Nat
  BY QueueSize DEF TypeOK
<1>4. Held = ToSet(queue) \cup hands
  BY DEF Held
<1> HIDE DEF hands, busy
<1>5. /\ IsFiniteSet(ToSet(queue) \cup hands)
      /\ Cardinality(ToSet(queue) \cup hands)
           = Cardinality(ToSet(queue)) + Cardinality(hands) - Cardinality(ToSet(queue) \cap hands)
  BY <1>2, <1>3, FS_Union
<1>6. Cardinality(ToSet(queue) \cap hands) \in Nat
  BY <1>3, FS_Intersection, FS_CardinalityType
<1>7. Cardinality(ToSet(queue) \cup hands) \in Nat
  BY <1>5, FS_CardinalityType
<1> QED BY <1>1, <1>2, <1>3, <1>4, <1>5, <1>6, <1>7

(* Of the open connections, all but the one being refused are held.        *)
LEMMA HeldAreOpen ==
  TypeOK /\ OneOwner => \A c : c \in Held <=> c \in Conn /\ IsOpen(c) /\ ~Refusing(c)
<1> SUFFICES ASSUME TypeOK, OneOwner, NEW c
             PROVE  c \in Held <=> c \in Conn /\ IsOpen(c) /\ ~Refusing(c)
  OBVIOUS
<1>1. Queued(c) \/ Served(c) => c \in Conn
  BY DEF TypeOK, OneOwner, Queued, Served
<1> QED BY <1>1, HeldElements DEF OneOwner

LEMMA HeldAreOpenNext ==
  ASSUME TypeOK', OneOwner'
  PROVE  \A c : c \in Held' <=> c \in Conn /\ IsOpen(c)' /\ ~Refusing(c)'
<1>1. (\A c : c \in Held <=> c \in Conn /\ IsOpen(c) /\ ~Refusing(c))'
  BY HeldAreOpen, PTL
<1> QED BY <1>1

(* Where only the ends of sockets and the callers matter.                  *)
LEMMA SameEnds ==
  ASSUME \A c \in Conn : (IsOpen(c)' <=> IsOpen(c)) /\ (Refusing(c)' <=> Refusing(c)),
         \A c \in Conn : link'[c].end = "closed" <=> link[c].end = "closed",
         TypeOK, OneOwner, TypeOK', OneOwner'
  PROVE  Held' = Held /\ Over' = Over
<1>2. \A c : c \in Held' <=> c \in Held
  BY HeldAreOpen, HeldAreOpenNext
<1>3. Held' = Held
  BY <1>2
<1>4. Over' = Over
  BY DEF Over
<1> QED BY <1>3, <1>4

LEMMA SameDown ==
  ASSUME TypeOK, caller' = caller \/ caller' = Awake
  PROVE  Down' <=> Down
<1>1. \A k \in Caller : caller'[k] = "stopped" <=> caller[k] = "stopped"
  BY AwakeCallers
<1> QED BY <1>1 DEF Down

PoolInv == ThreadInv /\ OneOwner /\ BacklogPending

LEMMA PoolStepOfWorker ==
  ASSUME PoolInv, PoolInv', NEW w \in Worker,
         WorkerThread(w) \/ \E kind \in FrameKind : Receive(w, kind)
  PROVE  [Pool!Next]_(Pool!vars)
<1>t. /\ worker \in [Worker -> WorkerState] /\ queue \in Seq(Conn) /\ link \in [Conn -> LinkState]
      /\ TypeOK /\ OneOwner /\ TypeOK' /\ OneOwner'
  BY DEF PoolInv, ThreadInv, TypeOK, WorkerState, LinkState
<1>d. (Down' <=> Down) /\ acceptor' = acceptor
  BY <1>t, WorkerStep, SameDown
<1>e. ASSUME \A c \in Conn : link'[c].end = link[c].end
      PROVE  [Pool!Next]_(Pool!vars)
  BY <1>d, <1>e, <1>t, SameEnds, PoolIdles DEF IsOpen, Refusing
<1>1. CASE TakeConnection(w)
  <2>1. PICK c : /\ queue # <<>> /\ c = Head(queue)
                 /\ link' = [link EXCEPT ![c].end = IF closed THEN "shut" ELSE @]
    BY <1>1 DEF TakeConnection
  <2>2. Queued(c) /\ c \in Conn
    BY <1>t, <2>1 DEF Queued
  <2>3. link[c].end \in {"open", "shut"}
    BY <1>t, <2>2, InUseIsOpen
  <2>4. link'[c].end \in {"open", "shut"} /\ \A x \in Conn : x # c => link'[x] = link[x]
    BY <1>t, <2>1, <2>2, <2>3 DEF LinkState
  <2>5. \A x \in Conn : /\ IsOpen(x)' <=> IsOpen(x)
                        /\ link'[x].end = "closed" <=> link[x].end = "closed"
    BY <2>3, <2>4 DEF IsOpen
  <2> QED BY <1>d, <1>t, <2>5, SameEnds, PoolIdles DEF Refusing
<1>2. CASE Reply(w) \/ Reject(w) \/ Warn(w)
  <2>1. Sent(worker[w].conn) \/ SendFails(worker[w].conn)
    BY <1>2 DEF Reply, Reject, Warn
  <2> QED BY <1>e, <1>t, <2>1, SentType
<1>3. CASE CloseServed(w)
  <2>1. PICK c : /\ c = worker[w].conn /\ worker[w].at = "closing"
                 /\ link' = [link EXCEPT ![c] = Closed]
    BY <1>3 DEF CloseServed
  <2>2. Served(c) /\ c \in Conn
    BY <1>t, <2>1 DEF Served, Serves, Serving, WorkerAt, OneOwner
  <2>3. link'[c].end = "closed" /\ \A x \in Conn : x # c => link'[x] = link[x]
    BY <1>t, <2>1, <2>2 DEF Closed
  <2>4. \A x \in Conn : /\ IsOpen(x)' <=> IsOpen(x) /\ x # c
                        /\ link'[x].end = "closed" <=> link[x].end = "closed" \/ x = c
                        /\ Refusing(x)' <=> Refusing(x)
    BY <1>d, <2>3 DEF IsOpen, Refusing
  <2>5. \A x : x \in Held' <=> x \in Held /\ x # c
    BY <1>t, <2>4, HeldAreOpen, HeldAreOpenNext
  <2>6. Held' = Held \ {c}
    BY <2>5
  <2>7. Over' = Over \cup {c}
    BY <2>2, <2>4 DEF Over
  <2>8. {c} \subseteq Held /\ {c} \in SUBSET Conn
    BY <2>2, HeldElements
  <2> QED BY <1>d, <2>6, <2>7, <2>8, PoolGivesUp
<1>4. CASE FindsNothing(w) \/ ReceiveEnd(w) \/ Dispatch(w) \/ CountServed(w)
  BY <1>4, <1>e DEF FindsNothing, ReceiveEnd, Dispatch, CountServed
<1>5. CASE AfterReply(w) \/ CountMalformed(w) \/ Finish(w)
  BY <1>5, <1>e DEF AfterReply, CountMalformed, Finish
<1>6. CASE \E kind \in FrameKind : Receive(w, kind)
  BY <1>6, <1>e DEF Receive
<1> QED BY <1>1, <1>2, <1>3, <1>4, <1>5, <1>6 DEF WorkerThread

LEMMA PoolStepOfAcceptor ==
  ASSUME PoolInv, PoolInv', AcceptThread \/ AcceptFails
  PROVE  [Pool!Next]_(Pool!vars)
<1>t. /\ queue \in Seq(Conn) /\ link \in [Conn -> LinkState] /\ Waker \notin Conn
      /\ backlog \in Seq(Conn \cup {Waker})
      /\ TypeOK /\ OneOwner /\ TypeOK' /\ OneOwner' /\ WakerStops /\ OneTearsDown
  BY ThreadAssumption DEF PoolInv, ThreadInv, TypeOK, LinkState
<1>d. caller' = caller /\ (Down' <=> Down)
  <2>1. caller' = caller
    BY DEF AcceptThread, AcceptFails, Accept, CountAccepted, CountRefused, flags
  <2> QED BY <1>t, <2>1, SameDown
<1>1. CASE Accept
  <2> DEFINE c == Head(backlog)
  <2>1. c \in Conn \cup {Waker} /\ 1 \in DOMAIN backlog /\ c = backlog[1]
    BY <1>t, <1>1 DEF Accept
  <2>2. c \in Conn => link[c].end = "pending"
    BY <1>t, <2>1 DEF BacklogPending, PoolInv
  <2>3. /\ acceptor.at = "accepting"
        /\ stopping => /\ acceptor'.at = "exited"
                       /\ link' = [x \in Conn |-> IF x = c THEN Closed ELSE link[x]]
        /\ ~stopping => /\ link' = [link EXCEPT ![c].end = "open"]
                        /\ \/ acceptor' = [at |-> "refusing", conn |-> c]
                           \/ acceptor'.at = "accepted" /\ ~(Live >= MaxConnections)
    BY <1>1 DEF Accept
  <2> HIDE DEF c
  <2>4. \A x : ~Refusing(x)
    BY <2>3 DEF Refusing
  <2>5. CASE stopping /\ c = Waker
    <3>1. \A x \in Conn : link'[x] = link[x]
      BY <1>t, <2>3, <2>5
    <3>2. \A x \in Conn : ~Refusing(x)' /\ (IsOpen(x)' <=> IsOpen(x))
      BY <2>3, <2>5, <3>1 DEF Refusing, IsOpen
    <3> QED BY <1>d, <1>t, <2>4, <3>1, <3>2, SameEnds, PoolIdles
  <2>6. CASE stopping /\ c \in Conn
    <3>1. link'[c].end = "closed" /\ \A x \in Conn : x # c => link'[x] = link[x]
      BY <2>3, <2>6 DEF Closed
    <3>2. \A x \in Conn : ~Refusing(x)' /\ (IsOpen(x)' <=> IsOpen(x))
      BY <2>2, <2>3, <2>6, <3>1 DEF Refusing, IsOpen
    <3>3. \A x : x \in Held' <=> x \in Held
      BY <1>t, <2>4, <3>2, HeldAreOpen, HeldAreOpenNext
    <3>4. Held' = Held
      BY <3>3
    <3>5. Over' = Over \cup {c}
      BY <2>6, <3>1 DEF Over
    <3>6. {c} \cap Held = {} /\ {c} \in SUBSET Conn
      BY <1>t, <2>2, <2>6, HeldAreOpen DEF IsOpen
    <3> QED BY <1>d, <3>4, <3>5, <3>6, PoolTurnsAway
  <2>7. CASE ~stopping
    <3>1. c \in Conn
      BY <1>t, <2>1, <2>7 DEF WakerStops
    <3>2. link'[c].end = "open" /\ \A x \in Conn : x # c => link'[x] = link[x]
      BY <1>t, <2>3, <2>7, <3>1 DEF LinkState
    <3>3. \A x \in Conn : /\ IsOpen(x)' <=> IsOpen(x) \/ x = c
                          /\ link'[x].end = "closed" <=> link[x].end = "closed"
      BY <2>2, <3>2 DEF IsOpen
    <3>4. Over' = Over
      BY <3>3 DEF Over
    <3>5. CASE acceptor' = [at |-> "refusing", conn |-> c]
      <4>1. \A x : Refusing(x)' <=> x = c
        BY <3>5 DEF Refusing
      <4>2. ~IsOpen(c)
        BY <2>2, <3>1 DEF IsOpen
      <4>3. \A x : x \in Held' <=> x \in Held
        BY <1>t, <2>4, <3>3, <4>1, <4>2, HeldAreOpen, HeldAreOpenNext
      <4>4. Held' = Held
        BY <4>3
      <4> QED BY <1>d, <3>4, <4>4, PoolIdles
    <3>6. CASE acceptor'.at = "accepted" /\ ~(Live >= MaxConnections)
      <4>1. \A x : ~Refusing(x)'
        BY <3>6 DEF Refusing
      <4>2. \A x : x \in Held' <=> x \in Held \/ x = c
        BY <1>t, <2>4, <3>1, <3>3, <4>1, HeldAreOpen, HeldAreOpenNext
      <4>3. Held' = Held \cup {c}
        BY <4>2
      <4>4. c \notin Held \cup Over
        BY <1>t, <2>2, <3>1, HeldAreOpen DEF IsOpen, Over
      <4>5. ~Down
        BY <1>t, <2>7 DEF OneTearsDown, Down
      <4>6. Cardinality(Held) < MaxConnections + Cardinality(Worker)
        <5>1. IsFiniteSet(active) /\ Cardinality(active) \in Nat
          BY <1>t, ThreadAssumption, FS_Subset, FS_CardinalityType DEF TypeOK
        <5>2. Len(queue) \in Nat /\ MaxConnections \in Nat
          BY <1>t, LimitAssumption
        <5>3. Len(queue) < MaxConnections
          BY <3>6, <5>1, <5>2 DEF Live
        <5> QED BY <1>t, <5>2, <5>3, HeldSize
      <4> QED BY <1>d, <3>1, <3>4, <4>3, <4>4, <4>5, <4>6, PoolTakes
    <3> QED BY <2>3, <2>7, <3>5, <3>6
  <2> QED BY <2>1, <2>5, <2>6, <2>7
<1>2. CASE CountRefused
  <2>1. PICK c : /\ c = acceptor.conn /\ acceptor.at = "refusing"
                 /\ link' = [link EXCEPT ![c] = Closed]
                 /\ acceptor' = [at |-> "accepting", conn |-> NoConn]
    BY <1>2 DEF CountRefused
  <2>2. c \in Conn /\ Refusing(c) /\ \A x : ~Refusing(x)' /\ (Refusing(x) => x = c)
    BY <1>t, <2>1 DEF OneOwner, Refusing
  <2>3. link'[c].end = "closed" /\ \A x \in Conn : x # c => link'[x] = link[x]
    BY <1>t, <2>1, <2>2 DEF Closed
  <2>4. \A x \in Conn : /\ IsOpen(x)' <=> IsOpen(x) /\ x # c
                        /\ link'[x].end = "closed" <=> link[x].end = "closed" \/ x = c
    BY <2>3 DEF IsOpen
  <2>5. \A x : x \in Held' <=> x \in Held
    BY <1>t, <2>2, <2>4, HeldAreOpen, HeldAreOpenNext
  <2>6. Held' = Held
    BY <2>5
  <2>7. Over' = Over \cup {c}
    BY <2>2, <2>4 DEF Over
  <2>8. {c} \cap Held = {} /\ {c} \in SUBSET Conn
    BY <1>t, <2>2, HeldAreOpen
  <2> QED BY <1>d, <2>6, <2>7, <2>8, PoolTurnsAway
<1>3. CASE CountAccepted \/ AcceptFails
  <2>1. /\ link' = link /\ acceptor.at # "refusing" /\ acceptor'.at # "refusing"
    BY <1>3, <1>t DEF CountAccepted, AcceptFails, TypeOK
  <2>2. \A x \in Conn : /\ IsOpen(x)' <=> IsOpen(x)
                        /\ ~Refusing(x) /\ ~Refusing(x)'
    BY <2>1 DEF IsOpen, Refusing
  <2> QED BY <1>d, <1>t, <2>1, <2>2, SameEnds, PoolIdles
<1> QED BY <1>1, <1>2, <1>3 DEF AcceptThread

LEMMA PoolStepOfCaller ==
  ASSUME PoolInv, PoolInv', NEW k \in Caller, CallerThread(k) \/ CallStop(k)
  PROVE  [Pool!Next]_(Pool!vars)
<1>t. /\ queue \in Seq(Conn) /\ link \in [Conn -> LinkState] /\ worker \in [Worker -> WorkerState]
      /\ caller \in [Caller -> {"idle", "waiting", "asleep", "stopping", "waking",
                                "joining", "releasing", "draining", "stopped"}]
      /\ TypeOK /\ OneOwner /\ TypeOK' /\ OneOwner' /\ OneTearsDown /\ OneTearsDown'
  BY DEF PoolInv, ThreadInv, TypeOK, LinkState, WorkerState
<1>k. ASSUME UNCHANGED <<link, acceptor>>
      PROVE  Held' = Held /\ Over' = Over
  BY <1>k, <1>t, SameEnds DEF IsOpen, Refusing
<1>s. ASSUME NEW to, Steps(k, to), to # "stopped", caller[k] # "stopped"
      PROVE  Down' <=> Down
  <2>1. \A j \in Caller : caller'[j] = "stopped" <=> caller[j] = "stopped"
    BY <1>s, <1>t DEF Steps
  <2> QED BY <2>1 DEF Down
<1>e. Exited /\ queue = <<>> => Held = {}
  <2>1. Exited => \A w \in Worker : ~Serves(w)
    BY <1>t DEF Exited, Serves, Serving
  <2>2. Exited /\ queue = <<>> => \A c : ~Queued(c) /\ ~Served(c)
    BY <2>1 DEF Queued, Served
  <2> QED BY <2>2, HeldElements
<1>1. CASE Wait(k) \/ CallStop(k) \/ Wake(k) \/ WakeFails(k)
  <2>1. UNCHANGED <<link, acceptor>>
    BY <1>1 DEF Wait, CallStop, Wake, WakeFails, core
  <2>2. /\ caller[k] # "stopped"
        /\ \E to \in {"stopping", "asleep", "joining"} : Steps(k, to)
    BY <1>1 DEF Wait, CallStop, Wake, WakeFails
  <2> QED BY <1>k, <1>s, <2>1, <2>2, PoolIdles
<1>2. CASE EnterStop(k)
  <2>1. /\ UNCHANGED <<link, acceptor>> /\ caller[k] = "stopping"
        /\ \A j \in Caller : ~TearingDown(j)
        /\ stopping => Steps(k, "stopped")
        /\ ~stopping => Steps(k, "waking")
    BY <1>2 DEF EnterStop, core
  <2>2. Held' = Held /\ Over' = Over
    BY <1>k, <2>1
  <2>3. CASE stopping
    <3>1. Exited /\ queue = <<>>
      BY <1>t, <2>1, <2>3 DEF OneTearsDown
    <3>2. Down'
      BY <1>t, <2>1, <2>3 DEF Steps, Down
    <3>3. Held = {} /\ Held' = {} /\ Over' = Over \cup {}
      BY <1>e, <2>2, <3>1
    <3> QED BY <3>2, <3>3, PoolTearsDown
  <2>4. CASE ~stopping
    BY <1>s, <2>1, <2>2, <2>4, PoolIdles
  <2> QED BY <2>3, <2>4
<1>3. CASE Broadcast(k)
  <2>1. /\ link' = [c \in Conn |-> IF c \in ToSet(queue) THEN Closed
                                   ELSE IF c \in active THEN [link[c] EXCEPT !.end = "shut"]
                                   ELSE link[c]]
        /\ acceptor.at = "exited" /\ acceptor' = acceptor
        /\ caller[k] = "joining" /\ Steps(k, "releasing")
    BY <1>3 DEF Broadcast
  <2>2. Down' <=> Down
    BY <1>s, <2>1
  <2>3. \A c : ~Refusing(c) /\ ~Refusing(c)' /\ (c \in ToSet(queue) <=> Queued(c))
    BY <2>1 DEF Refusing, ToSet, Queued
  <2>4. \A c \in active : Served(c)
    BY <1>t DEF OneOwner, Served
  <2>5. \A c \in Conn : /\ Queued(c) => link'[c].end = "closed"
                        /\ ~Queued(c) /\ c \in active => link'[c].end = "shut"
                        /\ ~Queued(c) /\ c \notin active => link'[c] = link[c]
    BY <1>t, <2>1, <2>3 DEF Closed, LinkState
  <2>6. \A c \in Conn : /\ IsOpen(c)' <=> IsOpen(c) /\ ~Queued(c)
                        /\ link'[c].end = "closed" <=> link[c].end = "closed" \/ Queued(c)
    BY <1>t, <2>4, <2>5, InUseIsOpen DEF IsOpen
  <2>7. \A c : Queued(c) => c \in Conn
    BY <1>t DEF Queued
  <2>8. \A c : c \in Held' <=> c \in Held /\ c \notin ToSet(queue)
    BY <1>t, <2>3, <2>6, HeldAreOpen, HeldAreOpenNext
  <2>9. Held' = Held \ ToSet(queue)
    BY <2>8
  <2>10. Over' = Over \cup ToSet(queue)
    BY <2>3, <2>6, <2>7 DEF Over
  <2>11. ToSet(queue) \subseteq Held /\ ToSet(queue) \in SUBSET Conn
    BY <2>3, <2>7, HeldElements
  <2> QED BY <2>2, <2>9, <2>10, <2>11, PoolGivesUp
<1>4. CASE Release(k)
  <2>1. UNCHANGED <<link, acceptor>> /\ caller[k] = "releasing" /\ caller' = [Awake EXCEPT ![k] = "draining"]
    BY <1>4 DEF Release, core
  <2>2. \A j \in Caller : caller'[j] = "stopped" <=> caller[j] = "stopped"
    BY <1>t, <2>1, AwakeCallers
  <2>3. Down' <=> Down
    BY <2>2 DEF Down
  <2> QED BY <1>k, <2>1, <2>3, PoolIdles
<1>5. CASE CloseListener(k)
  <2> DEFINE pending == {c \in Conn : link[c].end = "pending"}
  <2>1. /\ caller[k] = "draining" /\ Steps(k, "stopped")
        /\ \A w \in Worker : worker[w].at = "exited"
        /\ UNCHANGED <<queue, acceptor>>
        /\ link' = [c \in Conn |-> IF link[c].end = "pending" THEN Closed ELSE link[c]]
    BY <1>5 DEF CloseListener
  <2>2. Down'
    BY <1>t, <2>1 DEF Steps, Down
  <2>3. Exited /\ queue = <<>>
    BY <1>t, <2>1 DEF OneTearsDown, Exited
  <2>4. \A c \in Conn : /\ IsOpen(c)' <=> IsOpen(c)
                        /\ Refusing(c)' <=> Refusing(c)
                        /\ link'[c].end = "closed" <=> link[c].end = "closed" \/ c \in pending
    BY <2>1 DEF IsOpen, Refusing, Closed
  <2>5. \A c : c \in Held' <=> c \in Held
    BY <1>t, <2>4, HeldAreOpen, HeldAreOpenNext
  <2>6. Held = {} /\ Held' = {}
    BY <1>e, <2>3, <2>5
  <2>7. Over' = Over \cup pending /\ pending \in SUBSET Conn
    BY <2>4 DEF Over
  <2> QED BY <2>2, <2>6, <2>7, PoolTearsDown
<1> QED BY <1>1, <1>2, <1>3, <1>4, <1>5 DEF CallerThread

LEMMA PoolStepOfPeer ==
  ASSUME PoolInv, PoolInv', Connect \/ \E c \in Conn : Read(c) \/ Leave(c)
  PROVE  [Pool!Next]_(Pool!vars)
<1>t. link \in [Conn -> LinkState] /\ TypeOK /\ OneOwner /\ TypeOK' /\ OneOwner'
  BY DEF PoolInv, ThreadInv, TypeOK, LinkState
<1>1. acceptor' = acceptor /\ caller' = caller
  BY DEF Connect, Read, Leave, core, flags
<1>2. Down' <=> Down
  BY <1>t, <1>1, SameDown
<1>3. \A x \in Conn : \/ link'[x].end = link[x].end
                      \/ link[x].end = "none" /\ link'[x].end = "pending"
  <2>1. CASE Connect
    <3>1. PICK c \in Conn : link[c].end = "none" /\ link' = [link EXCEPT ![c].end = "pending"]
      BY <2>1 DEF Connect
    <3> QED BY <1>t, <3>1 DEF LinkState
  <2>2. ASSUME NEW c \in Conn, Read(c)
        PROVE  \A x \in Conn : link'[x].end = link[x].end
    BY <1>t, <2>2 DEF Read, LinkState
  <2>3. ASSUME NEW c \in Conn, Leave(c)
        PROVE  \A x \in Conn : link'[x].end = link[x].end
    BY <1>t, <2>3 DEF Leave, LinkState
  <2> QED BY <2>1, <2>2, <2>3
<1>4. \A x \in Conn : /\ IsOpen(x)' <=> IsOpen(x)
                      /\ link'[x].end = "closed" <=> link[x].end = "closed"
                      /\ Refusing(x)' <=> Refusing(x)
  BY <1>1, <1>3 DEF IsOpen, Refusing
<1> QED BY <1>t, <1>2, <1>4, SameEnds, PoolIdles

LEMMA PoolStep == PoolInv /\ PoolInv' /\ [Next]_vars => [Pool!Next]_(Pool!vars)
<1> SUFFICES ASSUME PoolInv, PoolInv', [Next]_vars
             PROVE  [Pool!Next]_(Pool!vars)
  OBVIOUS
<1>1. CASE UNCHANGED vars
  <2>1. UNCHANGED <<link, acceptor, caller>>
    BY <1>1 DEF vars, core, flags
  <2>2. TypeOK /\ OneOwner /\ TypeOK' /\ OneOwner'
    BY DEF PoolInv, ThreadInv
  <2>3. Held' = Held /\ Over' = Over /\ (Down' <=> Down)
    BY <2>1, <2>2, SameEnds, SameDown DEF IsOpen, Refusing
  <2> QED BY <2>3, PoolIdles
<1>2. CASE Next
  BY <1>2, PoolStepOfWorker, PoolStepOfAcceptor, PoolStepOfCaller, PoolStepOfPeer DEF Next
<1> QED BY <1>1, <1>2

LEMMA PoolInit == Init => Pool!Init
<1> SUFFICES ASSUME Init
             PROVE  Pool!Init
  OBVIOUS
<1>1. /\ queue = <<>> /\ \A w \in Worker : worker[w].at = "ready"
      /\ \A k \in Caller : caller[k] # "stopped"
      /\ \A c \in Conn : link[c].end = "none"
  BY DEF Init
<1>2. \A c : ~Queued(c) /\ ~Served(c)
  BY <1>1 DEF Queued, Served, Serves, Serving
<1>3. Held = {}
  BY <1>2, HeldElements
<1>4. Over = {}
  BY <1>1 DEF Over
<1>5. (Down = FALSE)
  BY <1>1 DEF Down
<1> QED BY <1>3, <1>4, <1>5 DEF Pool!Init, Over, Down

(* transport.cpp:477 as a refinement: the threads together behave as a     *)
(* bounded pool of connections, for any number of threads and connections. *)
(* A stop that has returned, to whichever caller, left nothing held.       *)
THEOREM ThreadsImplementPool == Spec => PoolSpec
<1>1. Init => TypeOK /\ WakerStops /\ SocketInv
  BY TypeInit, SocketInit
<1>2. /\ TypeOK /\ WakerStops /\ SocketInv /\ [Next]_vars
      => TypeOK' /\ WakerStops' /\ SocketInv'
  BY TypeStep, WakerStep, SocketStep
<1>3. ThreadInv /\ SocketInv => PoolInv
  BY DEF PoolInv, SocketInv
<1>4. Spec => []PoolInv
  BY <1>1, <1>2, <1>3, ThreadInvariant, PTL DEF Spec
<1> QED BY <1>4, PoolInit, PoolStep, PTL DEF Spec, PoolSpec, Pool!Spec

==============================================================================
