# A TLA+ model of SmartNIC Control Fabric

This directory holds the specifications kept beside the code in `src/`: TLA+
modules for the coordinator's state machines, its durable store and its server, TLC
configurations that check them on small instances, and TLAPS proofs of the results
that matter most. Paths such as `fabric_ops.cpp` are `src/src/...` of the
repository, headers are `src/include/sncf/...`, documents are `src/...` (`README.md`)
and `src/docs/...`.

```
tlc -workers 2 -config core.cfg MCControlFabric   # any run: cfg + module
tlapm AuthorityProofs.tla                                 # the proofs of a module
```

`PROJECT.json` lists the components, the runs, the definitions with the source
lines they model, the mutants, the hazards and the findings.

## 1. The system

A coordinator keeps the control-plane state of programmable network cards. It
executes nothing itself: execution runtimes report what happened. Every mutation
is one durable record, applied by the same code at run time and at replay.

| Component | State | Operations | Source |
| --- | --- | --- | --- |
| Authority core | instances with attempts, leases, fencing ledger, epoch, device incarnations | register device, acquire, release, activate, roll back, quiesce, withdraw, acknowledge, report effect, recover | `fabric_ops.cpp`, `fabric.cpp`, `authority.cpp` |
| Lifecycle tables | none | legality of transitions | `lifecycle.cpp` |
| Evidence | one capability record and one observation per device, the device record | submit, observe, reverify, judge compatibility | `fabric_ops.cpp:148-265, 574-862`, `evidence.cpp` |
| Durable store | journal file, snapshot file, open handle, sequence numbers | open, append, roll back, compact, close | `persistence.cpp`, `fabric.cpp` |
| Idempotency window | bounded table of executed commands, bounded table of floors | look up, push, evict | `fabric.cpp:353-431` |
| Conservative recovery | none of its own | the records every open appends | `fabric.cpp:541-749` |
| Transport | sockets, queue, worker threads, connection bound, shutdown signal | accept, serve, shut down, stop | `transport.cpp` |
| Service | shutdown flag | decode, dispatch | `service.cpp` |
| Protocol, canonical JSON, digests, codecs | none | pure conversions | `protocol.cpp`, `canonical.cpp`, `digest.cpp`, `model_codec.cpp` |
| Diagnostics | events, counters, last decision | export, explain | `explain.cpp`, `fabric.cpp` |
| Command line tool | none | arguments, output | `tools/sncf_cli.cpp` |

**How they interact.** The tool or a client sends frames to the transport; a
worker thread decodes one request and calls one operation of `Fabric`. The
operation takes `Impl::mutex`, consults the idempotency window, decides from the
whole state, and, if it accepts, has the journal append and synchronise one
record and only then applies it (`fabric.cpp:450-512`). A refusal changes no
state the decisions read. Opening a store reads snapshot and journal, replays,
and appends the records of the recovery pass before `Fabric::open` returns. The
read-only commands of the tool open the same files in a process of their own.

**What is hard.** Under the mutex operations are atomic, so the difficulty is in
sequences and in stops: authority is spread over five pieces of state (lease row,
fencing mark, instance record, epoch, incarnation) which operations, expiry by a
clock that may be set back, pruning and restarts change separately; the evidence a
decision combines is written by three operations and by recovery; reports arrive
late; commands are delivered again; the process may stop between any two
system calls, also in the middle of recovery; the machine may lose what was not
synchronised, and an append may fail after part of it is in the file; every table has
a bound. In the transport it is threads: two condition variables, three mutexes, one
of them held across a blocking send, and a stop that must get every thread out.

**What makes each part correct.**

- Authority core: one acceptable lease per scope; records and leases agree, unless the
  instance was moved; nothing stopped, stale or ambiguous is recorded as having authority; a stopped instance stays
  stopped; attempts settle once; bounds hold.
- Evidence: a decision rests on evidence of the device's present incarnation,
  accepted or revalidated under the live epoch, and no report undoes a later one.
- Recovery: interrupted and repeated, it reaches the same conservative state.
- Durable store: what was acknowledged survives, what was refused and undone never
  appears, a coordinator that serves has the whole history, and its own stops are
  never mistaken for damage; damage to a snapshot is noticed.
- Idempotency: no command takes effect twice, unless a floor above it was given up.
- Transport: the bound on connections holds, no connection waits beside a sleeping
  worker, a socket has one owner, a stop leaves nothing behind and returns, a waiter
  is woken.

## 2. Modules

| Module | Models | Checked by |
| --- | --- | --- |
| `Lifecycle` | both transition tables and the predicates on states | through `ControlFabric` |
| `FencedScope` | abstract: each scope is a lock known by a fencing token | refinement target |
| `ControlFabric` | the authority core, one action per operation, a restart as one action | `core`, `core_moves`, `core_return` |
| `MCControlFabric` | symmetry for TLC | the same |
| `Coordinator` | the authority core joined to its evidence, recovery record by record | `coordinator` |
| `MCCoordinator` | symmetry for TLC | `coordinator` |
| `DurableLog` | abstract: a log that only grows | refinement target |
| `Journal` | the store, its process and its failures | `journal_crash`, `journal_compaction`, `journal_snapshot` |
| `Inspection` | a read-only open beside the serving process (extends `Journal`) | `journal_inspector` |
| `Idempotency` | the two bounded tables | `idem_window`, `idem_floors` |
| `ConnectionPool` | abstract: a bounded pool that gives each connection up once | refinement target |
| `Transport` | the server's threads, condition variables, sockets and peers | `transport`, `transport_stall` |
| `ControlFabricProofs` | types, tokens, one holder, retirement | TLAPS |
| `AuthorityProofs` | agreement of records and leases, pruning; `ControlFabric` implements `FencedScope` (extends the above) | TLAPS |
| `HistoryProofs` | attempt histories and the lease table's bound | TLAPS |
| `CoordinatorProofs` | evidence never older, never of an earlier epoch | TLAPS |
| `PromiseProofs` | `Coordinator` implements `ControlFabric`, and what follows for it (extends the above) | TLAPS |
| `JournalProofs` | the whole history is served; `Journal` implements `DurableLog` | TLAPS |
| `IdempotencyProofs` | theorems about `Idempotency` | TLAPS |
| `TransportProofs` | safety of the threads; `Transport` implements `ConnectionPool` | TLAPS |

`Coordinator` is the composition: it instantiates `ControlFabric` for the operations of
the core (`Core`), writes what surrounds them itself, and is shown to implement
`ControlFabric` (`Promise`). `Inspection` puts a second process beside `Journal`'s.
`Journal`, `Idempotency` and `Transport` meet the core only through what they promise:
a durable sequence of records, one execution per command, one request at a time.

### ControlFabric

`instances` and `leases` are functions on the identities given out; `nextLease` is
the allocator; `fence` is `FencingLedger`, a mark per scope; `epoch` and
`incarnation` are as in the code. An action is a whole `decide_*` function with the
application of its record: the guard is the conjunction of everything the code must
find in order to accept, and a refused operation is a stutter.

| Action | Code |
| --- | --- |
| `RegisterDevice` | `decide_register_device`: a new incarnation makes bound instances stale, fences their scopes, revokes all leases of the device |
| `EvidenceArrives`, `EvidenceLapses` | `decide_capability_evidence`, `decide_observation`, `decide_reverify`, and ageing |
| `Acquire` | `decide_acquire`, with `prune_leases` |
| `Release` | `decide_release` |
| `ActivateNew`, `ActivateExisting` | `decide_activate` without and with an instance |
| `Acknowledge`, `ReportEffect` | `decide_acknowledge`, `decide_effect` |
| `Rollback`, `Drain` | `decide_intent` |
| `Restart` | `conservative_recovery`, after any clean or unclean stop |

An activation of an existing instance may name any port, as in the code: the instance is
then bound to it, and its leases stay where they are. `Standing` is `check_authority`, which
compares a lease with the binding of the instance now; `InForce` is the same question asked
of the lease and its own scope, whatever its instance is bound to. The two differ for a
lease that was left behind by a move, and `FencedScope` is about the second.

A restart stands for all the passes that were begun until one is completed. Each pass
begun advances the epoch and may have advanced marks before it was cut short, so
`Restart` takes the epoch forward by any number and may advance more marks than those
of the scopes that could carry authority.

Abstractions, each in the module's header too:

- A device belongs to one SmartNIC for ever (`decide_register_device` keys devices by
  SmartNIC and port), so a scope is a device and a port, or the device alone.
- The answer of `check_compatibility` is one flag per device that the environment sets
  and clears. `Coordinator` justifies the flag.
- The wall clock is read, not kept: each decision sees any member of `Times`, so it
  may be set forwards or back between two operations. The several readings one
  operation takes are one reading.
- A claim whose fields differ from the lease row is refused, so a claim is the lease it
  names. A principal only chooses between answers that change nothing.
- Registration of SmartNICs and packages adds names; they are constants.
- Identities, epochs and incarnations end at `Max*`, where the code ends at `2^64`;
  `decide_*` refuses there (`add_checked`), and so do the guards.

### Coordinator

The authority variables are those of `ControlFabric`. Beside them are the capability
report and the observation stored for each device and the two fields of its
`DeviceRecord` that reports write: `generation` and `present`. `Supported` is
`check_compatibility` over the three of them, and `Acceptable` adds the age of the
observation at the moment of the decision, the only age that is looked at there. What a
package requires of a report (capabilities, firmware, model, range) is the set of packages the
report `fits`; a report is judged fresh when it arrives and never again.

`RegisterDevice`, `SubmitCapability`, `SubmitObservation` and `Reverify` are the four
operations that write evidence. `Decide` wraps the core's operations, with
`Acceptable` in the place of the flag.

Recovery is a sequence. `Open` is a stop at any moment, in service or in the middle of a
pass, with the first record of the next pass, which advances the epoch; `Unwritten` is
what that pass has yet to write, computed once from the state it finds, as
`conservative_recovery` does; `SupersedeLease`, `SupersedeInstance`, `AgeCapability`,
`ForgetPresence` and `FenceScope` are its records, in the order of the code. `todo` is
empty while the coordinator serves. `before` remembers what the last serving process
left; it is a history variable for the refinement, which shows the old state until the
pass is complete.

### Journal and Inspection

A record is an identity: what it patches is `ControlFabric`'s business. The state a
store serves is the sequence of the records applied. The process walks through
`pc`: `OpenFresh`/`HeaderWritten` or `OpenExisting`, `AppendBegins` (part of a frame is
in the file), `AppendFlushed`, `Committed`; `AppendUndone` and `AppendStuck` are the
failures with and without a successful roll-back; `SnapshotRenamed` and
`JournalRewritten` are the two renames of a compaction, the second of which may fail or
lose the handle. Before `serving` holds, the records committed are those of the
recovery pass: at least one, any number up to the bound. `ProcessStops` may come
between any two steps; `MachineFails` also takes unsynchronised frames; `SnapshotRots`
damages the payload of any snapshot, at any moment the store is closed. `unnoticed` is a
history variable that remembers whether that happened while the journal started at record 1,
where no open looks for it. Abstractions:
`sync_on_commit` has its default; a rename or truncation is durable when it returns;
unsynchronised bytes survive as a prefix whose last frame may be torn or damaged;
temporary files are never read and are left out; the bound is in records, not bytes.

`Durable`, the state a machine failure at this moment would leave, is what
`DurableLog` sees: `log <- Durable`, with `acked` and `refused` as they are.

`Inspection` adds a second process that runs `Journal::open` read-only, in two steps:
it reads and classifies the file, and it truncates what it then found torn. Nothing in
the code keeps the two processes apart, so any steps of the coordinator may come
between. Its behaviours end with the truncation.

### Idempotency

`dedupe` is the ordered table, `floor` the sorted one. A delivery that is answered or
refused changes neither, so the only step is `Execute`, and a redelivery in any order
is another step of the same action. Two history variables serve the properties: `runs`
counts the executions of a command, `forgotten` is the highest floor a principal ever lost
to the bound of the table.

### Transport

A step is what one thread does between two points at which it may wait or another
thread can see a difference. `Impl::mutex` and `shutdown_mutex` are never held across
such a point, so a critical section of theirs is part of a step; `teardown_mutex` is the
guard of `EnterStop`; `stats_mutex` is held while two kinds of error reply are sent and
is the variable `counting`. The accept thread goes through `Accept`, then
`CountAccepted` or `CountRefused`; a worker through `TakeConnection`, `Receive`,
`Dispatch`, `CountServed`, `Reply`, `AfterReply` or one of the error paths, and
`Finish`, `CloseServed`; a caller of `wait_for_shutdown` through `Wait`, and of `stop`
through `EnterStop`, `Wake`, `Broadcast`, `Release`, `CloseListener`. Both condition
variables wake as the code wakes them: `notify_one` wakes any sleeper, and a notification
without a sleeper is lost.

A frame is one of six kinds, by what the loop of a connection does with it. A peer
connects, reads or does not read its replies, and leaves at any time; `SendBuffer` replies fit
into the kernel's buffers before a send blocks. The connection that `stop` makes to
its own listener may fail, accepting may fail, and both end where they end in the code.
`ConnectionPool` sees `held`, the connections taken and not closed; `over`, those given
up; and `down`, whether any call of `stop` has returned.

## 3. Runs

Deadlock is checked except where the system really stops: in `idem_*` when each of
the bounded executions has been made, in `journal_inspector` after the inspection, in
`transport*` when the server has been stopped.

| Run | Shows | Bounds |
| --- | --- | --- |
| `core` | `TypeOK`, `OneHolderPerScope`, `NoAuthorityAtRest`, `RetiredStaysRetired`, `FencedScopeSpec`, `OnlyMovesBreakAgreement` | 2 instances, 2 ports, 2 leases, clock 0..1 with lifetime 1, 2 epochs, 2 incarnations; 645,914 states up to port symmetry |
| `core_moves` | `OneHolderPerScope`, `LeaseTableBounded`, `HistoryCoherent`, `OnlyDeadLeasesDropped`, `AttemptsSettleOnce` | 1 instance, 2 ports, an exclusive and a shared package, 3 leases in 2 rows, 3 attempts in a history of 2, 2 epochs; 635,200 states up to port symmetry |
| `coordinator` | `LiveEvidenceOnly`, `PromiseKept`, `ReportsAdvance` | 1 device and port, 2 packages, 3 epochs, 2 incarnations, generations 0..1; 370,529 states up to package symmetry |
| `journal_crash` | `TypeOK`, `ServesWholeHistory`, `OnlyTheTailIsLost`, `DurableLogSpec` | 6 records, a journal of 3; 220,683 states |
| `idem_window` | `TypeOK`, `OnlyForgettingRepeats`, `FloorsGiveWay` | 3 principals, 4 commands each, tables of 2; 429,007 states |
| `transport` | `TypeOK`, `NoLostWakeup`, `SocketsOwned`, `PoolSpec`, `StopReturns`, `WaiterReleased`, `ConnectionsEnd` | 2 connections, 2 workers, a bound of 1, a waiter and a stopper, 2 frames, `PeerSpec`; 178,269 states |

Why these are enough. A dispute over a scope needs two instances and one scope; a second
port lets each of them move away and back, with a lease left behind. Two clock readings make
a lease live, expired, and live again; a third lease makes a table of two prune. One restart
and, in `core`, one re-incarnation may fall between any two operations, so what they do to
every intermediate state is covered. Three attempts overrun a history of two. Three epochs
let a pass be cut short once and the next be completed, or two restarts be completed with
operations between them; two packages are needed for a roll-back. Six records fill a journal
of three, compact, fill it again and leave one for the recovery pass of a later open. Three
principals overflow a table of two floors, and four commands let a principal that was
forgotten come back and be forgotten again. Two connections against a bound of one reach the
refusal, two workers and a queued connection the wrong wake-up, a waiter and a stopper the two
concurrent stops. What two connections cannot reach is the numeric bound of `PoolSpec`, the
bound and the workers together: for that there is `ThreadsImplementPool`. The
symmetries are sound: no action compares two ports or two packages other than for equality or
membership in a symmetric set, and no property names one.

What the properties rule out, beyond a type:

- `OneHolderPerScope`: two leases that `check_authority` would both accept on one scope,
  whatever the clock reads.
- `OnlyMovesBreakAgreement` (action property): a grant, report, drain, registration, restart or
  pruning after which a lease is accepted that the instance record does not name, and that a
  drain or a settlement would therefore fail to revoke. Only an activation that moves the
  instance may do that.
- `NoAuthorityAtRest`: a record that says `granted` of an instance that is stopped, of another
  incarnation, or of unknown outcome, or, in the last two cases, any lease that would be
  accepted for it. (A stopped instance may have such a lease: that is `core_return`.)
- `RetiredStaysRetired`, `AttemptsSettleOnce` (action properties): a late report, a
  rollback or a restart that revives a stopped instance, settles a superseded attempt
  or changes a settled one.
- `HistoryCoherent`, `LeaseTableBounded`: gaps, reordering or overruns in what is
  persisted, which the decoder of the snapshot would refuse.
- `OnlyDeadLeasesDropped` (action property): a full table that makes room by dropping a lease
  that is neither revoked nor expired.
- `FencedScopeSpec` (refinement): a scope whose mark falls, or a lease that is in force again
  after it was displaced, revoked or outlived by its epoch. An instance that moves away and
  back finds its lease again if nobody was granted the scope meanwhile; the lease was in
  force all the time.
- `LiveEvidenceOnly`: a decision that relies on a report or an observation no process of
  this epoch accepted or revalidated.
- `ReportsAdvance` (action property): a stored report replaced by one of an older
  generation, under one incarnation.
- `PromiseKept` (refinement): a recovery that leaves another state when it was cut short,
  or evidence that is put together from parts that do not belong together.
- `ServesWholeHistory`: a coordinator that serves less or more than what is durable, also when
  a snapshot was damaged after the journal had dropped the records it covers.
- `OnlyTheTailIsLost`: the store's own stops and failed appends taken for damage.
- `DurableLogSpec` (refinement): an acknowledged record that is lost, a refused and
  undone one that appears, or a record twice.
- `OnlyForgettingRepeats`: a redelivered command executed again, other than one below a floor
  its principal lost to the bound.
- `FloorsGiveWay` (action property): a floor that falls, or that is lost while the table still
  has room or without another principal's taking its place.
- `NoLostWakeup`: a connection queued while every worker sleeps and nobody will notify.
- `SocketsOwned`: a socket closed while another thread may still use its number, or open
  in nobody's hands.
- `PoolSpec` (refinement): more connections open than the bound and the workers account
  for, one closed twice, or a `stop` that returns while something is held.
- `StopReturns`, `WaiterReleased`, `ConnectionsEnd`: a stop, a waiter or a connection left
  for ever, among peers that read their replies.

### Fairness

Only `Transport` claims liveness. `ThreadFairness` is weak fairness of the accept thread,
of each worker and of each caller: an operating system runs a thread that stays able to
run, and each of these threads can at any moment do at most one thing, or choose between
outcomes that all end its wait. `std::mutex` promises no order among those who wait for
it; that a thread waiting for `stats_mutex` gets it is nevertheless weakly fair here,
because the others take it a bounded number of times in a bounded run (a connection or a
frame must arrive each time).
Nothing a peer does is fair: that a frame arrives (`Receive`), that one connects or
leaves. Neither is a failure of `accept`, nor the decision to call `stop`. `PeerSpec` adds
that peers read what they are sent, which the server cannot enforce; `transport` uses
it, and `transport_stall` shows what happens without.

`StopReturns` has an exception in its statement, `[]Unwoken`: from some moment on a caller of
`stop` joins the accept thread, the accept thread waits in `accept`, and nothing is in the
backlog, for ever. That is what a failed connection to the server's own listener leaves
(`transport.cpp:484` ignores the result) when no other client connects. A moment of it is not
enough: when the connection is made the accept thread finds it, and `stop` has to return.

### Disagreements found

Each has a run that expects a violation; `PROJECT.json` quotes the line of the document.

| Run | Violated | In short |
| --- | --- | --- |
| `core_return` | `DrainEndsAuthority` | an instance that moved away, was granted a lease there and moved back has a lease its record does not name, and a drain leaves it standing |
| `journal_compaction` | `CompactionIsInterruptible` | a stop between the two renames of any compaction but the first leaves a store that is refused |
| `journal_snapshot` | `DamageIsDetected` | a snapshot damaged while the journal starts at record 1 is put aside, the records it covers are dropped, and the rest is served as the whole |
| `idem_floors` | `ExecutedOnce` | with more principals than the table of floors has entries, a command of the one forgotten is executed again |
| `journal_inspector` | `AcknowledgedStaysDurable` | a read-only open truncates a frame it saw half written, after the coordinator completed and acknowledged it |
| `transport_stall` | `StopReturns` (under `ThreadSpec`) | one peer that does not read an error reply keeps `stop` from ever returning, because the reply is sent under `stats_mutex` |

In `core_return` there is still one holder per scope: both leases are the drained instance's
own, on two scopes, and nobody else can be granted either scope without a higher token. What is
refuted is that a drain ends the instance's authority at once.

`journal_snapshot` needs no further failure: a stop between the two renames of the first
compaction, and damage to the new snapshot. The records are whole in the journal, and
`Journal::open` drops them because the header of the snapshot, which is not covered by the
checksum, says that it contains them. A later command takes the next sequence after the state
served, 1 when that is empty, and the open after that finds a sequence that repeats.

### Remarks

What else the models do because the code does. Two of the remarks contradict a document too,
and say so:

- **Two records, one scope.** `decide_acquire` looks only for a live lease on the scope
  (`fabric_ops.cpp:902`); unlike `decide_activate` (`1143`) it does not look for another
  instance whose authority is granted. An instance is drained, a second one is activated on the
  scope, the second's lease expires, and the first acquires: both records say `granted`, and each
  refuses the other's activations. `README.md:62` says two live instances can never hold the
  same scope, and `authority.hpp:16` that a scope has one owner. `OneHolderPerScope`
  still holds, because the second lease was fenced.
- **A drain's attempt across a restart.** `README.md:74` says that a restart marks every in-flight
  attempt `ambiguous`, `PERSISTENCE.md:123` the same. The pass visits instances with granted
  authority, a pending ambiguity or a lease (`fabric.cpp:614-625`); a drain leaves its instance
  with none of these and an attempt dispatched, which stays `dispatched` (`Swept`,
  `AfterRestart`).
- **Moves.** `decide_activate` does not compare the port of the request with the one the
  instance is bound to, and `check_authority` compares the lease with the old binding, so
  an activation may move an instance. `core` and `core_moves` include every move; what they
  break is in `core_return`.
- **Shared packages.** An activation of a package without an exclusive scope that names a
  port takes its lease on the whole-device scope (`fabric_ops.cpp:1121`) while the instance
  is bound to the port, so `check_authority` never accepts that lease, and a later acquire
  grants another on the port. The scope of a whole device and those of its ports are
  different scopes throughout the code; exclusivity says nothing between them.
- **Draining.** Between the dispatch of a drain and the report that settles it the instance
  may acquire its scope again (`fabric_ops.cpp:868`, `1812`); the settlement revokes that
  lease too.
- **Late observations.** An observation made earlier and delivered later replaces a newer
  one that found the device absent (`fabric_ops.cpp:739`): its age is compared with the
  clock, never with the stored observation.
- **The journal's bound.** A store that was closed with its journal at the bound cannot be
  opened again: every open appends, and only an open store compacts
  (`PERSISTENCE.md:148` describes the bound so). `OpenFull` models it.
- **After unnoticed damage.** Once a store was served past a damaged snapshot its numbering has
  started again, and nothing is claimed of it: `ServesWholeHistory`, `OnlyTheTailIsLost` and
  `DurableLogSpec` end with `unnoticed`. `TypeOK` does not.
- **A shutdown nobody hears.** The request sets the service's flag before its reply is sent, and
  the waiter is signalled only after the reply was (`transport.cpp:427-429`). When the reply
  cannot be sent, `wait_for_shutdown` sleeps until another request is answered.
  `WaiterReleased` starts from a reply that was sent, so no property is about this case.
- **Inspection and temporary files.** The read-only open also removes `journal.tmp` and
  `snapshot.tmp` (`persistence.cpp:377-380`), under a compaction of another process too. The model
  has only the truncation.

## 4. Proofs

TLC settles the instances above. For every value of the constants that satisfies the
assumptions named in the modules, TLAPS proves:

| Module | Theorem | Statement |
| --- | --- | --- |
| `ControlFabricProofs` | `TypeCorrect` | `Spec => []TypeOK` |
| | `TokensAlwaysMinted` | `Spec => []TokensMinted` |
| | `OneHolder` | `Spec => []OneHolderPerScope` |
| | `FenceNeverFalls` | no step lowers a mark |
| | `StoppedStaysStopped` | `Spec => RetiredStaysRetired` |
| `AuthorityProofs` | `OnlyMovesDisagree` | `Spec => OnlyMovesBreakAgreement` |
| | `AtRestWithoutAuthority` | `Spec => []NoAuthorityAtRest` |
| | `PruningSparesLiveLeases` | `Spec => OnlyDeadLeasesDropped` |
| | `CoreImplementsFencedScope` | `Spec => FencedScopeSpec` |
| `HistoryProofs` | `HistoriesCohere` | `Spec => []HistoryCoherent` |
| | `AttemptsAreSettledOnce` | `Spec => AttemptsSettleOnce` |
| | `LeaseTableStaysBounded` | `Spec => []LeaseTableBounded` |
| `IdempotencyProofs` | `TablesBounded` | `Spec => []TypeOK` |
| | `AtMostOnce` | `Spec => []OnlyForgettingRepeats` |
| | `FloorsHold` | `Spec => FloorsGiveWay` |
| `TransportProofs` | `TypeCorrect` | `Spec => []TypeOK` |
| | `NoWakeupIsLost` | `Spec => []NoLostWakeup` |
| | `StopMeansStopped` | when `stop` has returned, every thread has ended and nothing is queued |
| | `SocketsHaveOneOwner` | `Spec => []SocketsOwned` |
| | `ThreadsImplementPool` | `Spec => PoolSpec` |
| `CoordinatorProofs` | `ReportsOnlyAdvance` | `Spec => ReportsAdvance` |
| | `OnlyLiveEvidence` | `Spec => []LiveEvidenceOnly` |
| `PromiseProofs` | `CoordinatorImplementsCore` | `Spec => PromiseKept` |
| | `OneHolderInService` | `Spec => [](Serving => Core!OneHolderPerScope)` |
| | `AgreementInService` | `Spec => Facts!OnlyMovesBreakAgreement` |
| | `AtRestInService` | `Spec => [](Serving => Core!NoAuthorityAtRest)` |
| | `LockInService` | `Spec => Facts!FencedScopeSpec` |
| | `MarksNeverFall` | no step lowers a mark, in a pass of recovery either |
| | `StoppedInTheStore` | no step revives a retired instance, in a pass of recovery either |
| `JournalProofs` | `TypeCorrect` | `Spec => []TypeOK` |
| | `WholeHistoryServed` | `Spec => []ServesWholeHistory` |
| | `StopsAreNotDamage` | `Spec => []OnlyTheTailIsLost` |
| | `JournalImplementsLog` | `Spec => DurableLogSpec` |

**One holder.** `OneHolderPerScope` is not inductive: it speaks of
the leases that stand now, and says nothing of the token the next grant will carry.
`TokensMinted` does: rows of one scope carry distinct tokens, none above the scope's
mark. A grant mints the mark plus one, so the new token is distinct from all others;
everything else keeps tokens and never lowers a mark. A lease that stands has a token
at or above the mark, hence equal to it, and two of them are one row. Epochs,
expiry, incarnations and instance records play no part, which is why the theorem
holds for moves between ports and for any clock. The proof has a step for each action of
`Next`; the lemmas `TokensKept`, `TokenGranted`, `MintsNothing` and `RevokesOnly` group
the actions by what they do to leases and marks. The assumptions are those of
`ControlFabric`: nil identities are not identities, times are natural numbers, bounds are
natural numbers and a history holds at least one attempt.

**Stopped instances.** Identities are given out in order and never taken
back (`InstancesNumbered`), so a step either adds the next one or changes records it
already finds. Retirement is then a matter of single steps: each action that writes a
record does so from a state its table allows, and no table leads out of a retired one.

**Agreement.** `OnlyMovesDisagree` is about single steps (`StepKeepsTrack`) from states with
minted tokens and no row that waits for an instance yet to come (`LeasesOwned`). A row that is
carried over and stands after a step stood before it, unless its instance moved
(`StoodBefore`): nothing lowers a mark, revives a row or brings an epoch back. A grant raises the
mark of its scope to its own token, so every other lease of that scope falls below the mark and
the one that may still stand is the new one, which the record names with the same step
(`TrackGranted`). Steps that take the grant out of a record also revoke the lease it names, or
fence its scope (`TrackKept`).

**At rest.** `RecordsAtRest` and `NoneAccepted` are carried separately. The first follows from the
tables and the guards, record by record. The second cannot rest on agreement, which a move may
break: it uses that what makes an instance outdated or pending, a registration or a restart,
puts every lease of that instance out of force at once, whatever its record names, and that
no step grants a lease to an instance, or moves one, in that condition.

**A scope is a fenced lock.** The refinement speaks of leases in force, not of bindings, so moves
play no part in it. `LeaseStep` says what a step may do to the lease table (restart, revoke
rows, or grant one under the mark plus one), `HolderIsMark` that a holder's token is the mark,
`NothingReturns` that a lease in force after a step was in force before it on the same scope, or
its scope has a higher mark. `PruningSparesLiveLeases` reads what a grant drops from
`Pruned` (`GrantDrops`).

**Histories.** `Chronicles` is the inductive invariant. That attempts are numbered without
gaps is a statement about neighbours, and carrying it through the eviction of the oldest
would take an induction along the history; the invariant instead gives every identity in
closed form, `id[k] = id[last] - (Len - k)`, from which the rest follows by arithmetic.
`RecordStep` says what any step does to the record of an instance: nothing, settle its
last attempt, dispatch a new one, or make one ambiguous; `AttemptsSettleOnce` is
read off these four. For the lease table, a grant into a full table has an excess of one,
and the pruning finds a least row to drop among those not in force; that there is one is
the counting of rows by their tokens (`SomeLeast`).

**At most once.** The inductive invariant says that a command executed is remembered
(`Remembered`): it is in the table, at or below its principal's floor, or not above a floor that
its principal lost to the bound. An eviction from the table raises the floor over the command
evicted; when the table of floors overflows, the one that goes, be it the floor just raised, is
what `forgotten` records (`FloorStep`). Nothing is assumed of the number of principals.

**Threads.** `NoWakeupIsLost` counts: whatever worker a notification wakes, each queued
connection is matched by a ready worker or by the notification its accept owes. That at
most one caller tears down, and what it has done at each of its places, is `OneTearsDown`;
from it follow `StopMeansStopped` and the part of the refinement about `down`.
`SocketsOwned` is carried element by element (where is this connection?) rather than as
an equation of sets, together with `BacklogPending`: what the kernel holds has not been
accepted. The refinement then maps each step by the one connection it takes or gives up.

**Evidence.** The order of the pass is a sequence of records, and the proof needs two things of
it: every record that is due is in it, and once (`Lists`, from `AllUnwritten`), so that
what is written is no longer awaited and the rest still is (`DueStep`). `EvidenceLives` is the
invariant: a report that counts is of this epoch or waits to be aged, the presence of
a device is of this epoch or waits to be forgotten. When the coordinator serves nothing
waits. `ReportsBehind` relates a stored report to the record of its device and gives
`ReportsAdvance`. That devices and ports are finite sets is assumed (`ReportAssumption`),
because a pass over infinitely many records would not end.

**Recovery.** `CoordinatorImplementsCore` follows a pass from what the store held before
it. `Toward` says that every record is as it was or as the pass leaves it, and that a mark has
risen by no more than there were openings; `Underway` that what is not yet as the pass leaves
it waits in the list. An opening keeps `Toward` and establishes `Underway`, whether it
starts a pass or cuts one short (`OpenLeads`); marking a record twice is marking it once
(`MarkedTwice`), so a second pass does no harm; each record keeps both (`RecordLeads`). When
nothing waits, what is there is what one `Restart` leaves (`PassEnds`), with one advance
of each mark for the pass that completed and the rest for those that did not. The other
half is that an operation of the core, on the coordinator's own variables, is the same
operation seen from outside (`SameOperations`). The refinement is proved for
`ControlFabric` and, word for word, for its theorems' own copy (`Facts`), which gives the
types the argument needs (`Facts!TypeStep`) and carries the core's theorems over to the
coordinator: `OneHolderInService`, `AgreementInService`, `AtRestInService` and
`LockInService`. They speak of the moments of service. `MarksNeverFall` and `StoppedInTheStore` speak of the store itself, in
the middle of a pass too, where the view from outside shows the state before it:
`StepsOfTheStore` divides the steps into those of the core, which the core's lemmas settle, and
the records of a pass that write a mark or an instance.

**The store.** What the three properties of `Journal` speak of is put together from two files,
a bound on what is synchronised, and the state of a process that may be anywhere in an append
or a compaction. The proof numbers the records: `RecordAt(q)` is the one the snapshot holds at
`q`, or past the snapshot the one in the frame that carries `q`. `Durable` is then `History` of
`LastHeld`, the last number a machine failure cannot take (`DurableIsHeld`); what an open
replays is `History` of the last frame it keeps (`ReplayedIsHistory`); and a served state is to
be `History(memory.last)` with `memory.last = LastHeld`. The inductive invariant has two parts,
`JournalInv == StoreTyped /\ (~unnoticed => HistoryInv)`. `StoreTyped`, the types and what the
bound on the journal rests on, survives any damage, and so does `TypeCorrect`. `HistoryInv`
holds until a snapshot is damaged while the journal starts at record 1, and with it the other
three theorems. It says what makes the numbers fit: frames are numbered from the header's number on and
only the last may be bad (`FramesInOrder`), the snapshot leaves no gap before the journal and
covers only what was synchronised and whole (`SnapshotFits`), what the handle, the counter and the memory say at each
place of the process (`MemoryFits`), and that records grow along the numbering, so that none
is there twice, with what was refused outside and what was acknowledged at or below `LastHeld`
(`RecordsOnce`). Without `SnapshotFits` a compaction cut short would not be covered; without the
part of `MemoryFits` about a serving process that has lost its handle, a frame whose roll-back
failed could be taken for a durable one. Every step keeps `RecordAt` below `LastHeld` and never lowers
`LastHeld` (`HistoryGrows`); that is the prefix the refinement asks for. `Remaining`, the filter of
the replay and of `Durable`, is defined without recursion for these proofs; that keeping an
interval of positions keeps that stretch (`RemainingInterval`) is all that is used of it.
The only assumption is that the two bounds are natural numbers. TLC checked the parts of
`JournalInv` on the instance of `journal_crash` before they were proved.

**Only model-checked.** Liveness: the three properties of `transport` under
fairness, which with ENABLED is outside what the prover supports. Induction over data is
out of reach too, and no module with a theorem uses a recursive operator. The disagreements of section 3 are counterexamples, which need no proof.

## 5. Not modelled, and why

- Codecs, framing, digests, names and formatting: pure functions over byte strings;
  nothing here tells two encodings apart. That a frame, record or snapshot reads back
  as written, or is recognised as damaged, is assumed by `Journal`. Their limits are not
  modelled: the ledger's decoder (`model_codec.cpp:1126`) and the frame bound near 4 MiB
  (`transport.cpp:441`).
- The matching of replies to requests in `Client::call`: a client is a peer.
- The dispatch of the service beyond the shutdown flag: it decodes one request and calls
  one operation of the core.
- Events, counters, explanations: written by every operation and read by no decision.
- `plan_deployment`: it runs `decide_activate` and changes nothing.
- The tool: arguments and output.
- Retained history (`push_history`): a bounded list that no decision reads.
- The journal's bound in bytes, zero-filled tails, and what an inspection does to
  temporary files.

## 6. Plan

The core, its evidence, recovery, the store, idempotency and the server are modelled. What
is left, in the order in which it would add most:

1. Proofs: attempts settle once in the store during a pass too (`HistoryProofs` carried over to
   `Coordinator` as `AuthorityProofs` is), and from which state on a store is refused for its
   history (`journal_compaction`), as an invariant.
2. `Journal`: the byte bound, the zero-filled tail and the temporary files beside an
   inspection.
3. The client: time-outs and late replies to an earlier request on one connection.
4. The bounds of the decoders as operators over sizes, checked against what the encoder of a
   full store can write.
