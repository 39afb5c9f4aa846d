---------------------------- MODULE ControlFabric ----------------------------
(***************************************************************************)
(* The authority core of the coordinator: function instances, leases, the  *)
(* fencing ledger, the coordinator epoch and the device incarnations, with *)
(* one action per mutating operation of src/src/fabric_ops.cpp and one for *)
(* a restart.  The coordinator holds one mutex around every operation, and *)
(* an operation that is refused changes nothing, so an operation is one    *)
(* step whose guard is the conjunction of everything the code must find in *)
(* order to accept.                                                        *)
(*                                                                         *)
(* Abstractions.                                                           *)
(*  - A device belongs to one SmartNIC for ever, so a scope is a device    *)
(*    and a port; NoPort stands for the nil port, the whole device.        *)
(*  - Capability evidence and observation are one flag per device, TRUE    *)
(*    when check_compatibility would accept; they come and go as the       *)
(*    environment reports.                                                 *)
(*  - The wall clock is not a variable.  A decision reads it, and what it  *)
(*    reads is any member of Times: std::chrono::system_clock may be set   *)
(*    forwards or back between two decisions.  The readings one decision   *)
(*    takes under the mutex are one reading.                               *)
(*  - A claim is a set of fields that must all equal the lease row; the    *)
(*    claims that do not are refused, so a claim is the lease it names.    *)
(*    Principals only choose between two answers that change nothing.      *)
(***************************************************************************)
EXTENDS Integers, Sequences, FiniteSets, Lifecycle

CONSTANTS
  Device, Port, Package,  \* the identities commands may name
  Exclusive,              \* the packages registered with exclusive_scope
  NoPort, NoPackage,      \* the nil port and the nil package
  Times,                  \* what the clock may read
  Lifetimes,              \* the lease lifetimes commands may ask for
  MaxInstances,           \* FabricConfig::max_instances
  MaxLeases,              \* FabricConfig::max_leases
  MaxAttempts,            \* FabricConfig::max_attempts_per_instance
  MaxConcurrent,          \* FabricConfig::max_concurrent_attempts_per_instance
  MaxLeaseId, MaxAttemptId, MaxEpoch, MaxIncarnation  \* the identity spaces

ASSUME NilAssumption == NoPort \notin Port /\ NoPackage \notin Package
ASSUME PackageAssumption == Exclusive \subseteq Package
ASSUME TimeAssumption == Times \subseteq Nat /\ Lifetimes \subseteq Nat \ {0}
ASSUME BoundAssumption ==
  /\ MaxInstances \in Nat /\ MaxLeases \in Nat
  /\ MaxAttempts \in Nat \ {0} /\ MaxConcurrent \in Nat
  /\ MaxLeaseId \in Nat /\ MaxAttemptId \in Nat
  /\ MaxEpoch \in Nat /\ MaxIncarnation \in Nat

VARIABLES
  epoch,        \* CoordinatorEpoch
  incarnation,  \* recorded incarnation of each device; 0 before registration
  evidence,     \* would check_compatibility accept this device's evidence?
  instances,    \* the instance registry: a function on the ids given so far
  leases,       \* the lease table: a function on the ids still in the table
  nextLease,    \* the lease id allocator
  fence         \* the fencing ledger: the high-water mark of each scope

vars == <<epoch, incarnation, evidence, instances, leases, nextLease, fence>>

------------------------------------------------------------------------------
(* Types.                                                                  *)

PortOrNil == Port \cup {NoPort}
Scope == Device \X PortOrNil
InstanceId == 1..MaxInstances
LeaseId == 1..MaxLeaseId
NoLease == 0

Attempt == [id: 1..MaxAttemptId, phase: AttemptPhase, generation: Nat, token: Nat]

Instance ==
  [device: Device, port: PortOrNil, incarnation: Nat,
   package: Package, previous: Package \cup {NoPackage},
   desired: DesiredState, lifecycle: LifecycleState, authority: AuthorityState,
   lease: LeaseId \cup {NoLease}, token: Nat, generation: Nat,
   pending: BOOLEAN, attempts: Seq(Attempt)]

Lease ==
  [scope: Scope, instance: InstanceId, epoch: Nat, token: Nat,
   expires: Nat, revoked: BOOLEAN]

(* Every row has its type, the tables are indexed by the identities that   *)
(* the allocators have given out, and nothing is allocated past its space. *)
TypeOK ==
  /\ epoch \in Nat
  /\ incarnation \in [Device -> Nat]
  /\ evidence \in [Device -> BOOLEAN]
  /\ DOMAIN instances \subseteq InstanceId
  /\ instances \in [DOMAIN instances -> Instance]
  /\ nextLease \in 1..(MaxLeaseId + 1)
  /\ DOMAIN leases \subseteq 1..(nextLease - 1)
  /\ leases \in [DOMAIN leases -> Lease]
  /\ fence \in [Scope -> Nat]

------------------------------------------------------------------------------
(* Shared checks.                                                          *)

ScopeOf(i) == <<instances[i].device, instances[i].port>>

Unexpired(l, at) == at < leases[l].expires

(* check_authority, clock aside: the row exists, names this instance and   *)
(* its scope, is not revoked, carries the current epoch, and no newer      *)
(* token exists for the scope.                                             *)
Standing(l, i) ==
  /\ l \in DOMAIN leases
  /\ leases[l].scope = ScopeOf(i)
  /\ leases[l].instance = i
  /\ ~leases[l].revoked
  /\ leases[l].epoch = epoch
  /\ leases[l].token >= fence[ScopeOf(i)]

(* check_authority: the lease authorises a mutation of instance i at `at'. *)
Authorises(l, i, at) == Standing(l, i) /\ Unexpired(l, at)

(* The lease is the newest of its scope and nothing has taken it away:     *)
(* what check_authority asks of a row, wherever its instance is bound.     *)
InForce(l) ==
  /\ ~leases[l].revoked
  /\ leases[l].epoch = epoch
  /\ leases[l].token >= fence[leases[l].scope]

(* The leases that cover a scope at `at' as the scans of acquire and       *)
(* activate see them: unrevoked and unexpired, whatever epoch or token.    *)
Covering(s, at) ==
  {l \in DOMAIN leases : /\ ~leases[l].revoked
                         /\ leases[l].scope = s
                         /\ Unexpired(l, at)}

(* Mutant of Prunable: any row may be dropped, the oldest first.           *)
PrunableInForce(at) == DOMAIN leases

(* Mutant of Pruned: the table is never pruned.                            *)
PrunedNothing(at) == {}

(* prune_leases: a full table drops its oldest revoked or expired rows, as *)
(* many as make room for one more ...                                      *)
Prunable(at) == {l \in DOMAIN leases : leases[l].revoked \/ ~Unexpired(l, at)}

Excess == Cardinality(DOMAIN leases) - MaxLeases + 1

Pruned(at) ==
  IF Excess <= 0 THEN {}
  ELSE {l \in Prunable(at) : Cardinality({k \in Prunable(at) : k < l}) < Excess}

(* ... and refuses the grant when the unexpired rows alone fill the table. *)
Room(at) ==
  \/ Excess <= 0
  \/ Cardinality(DOMAIN leases \ Prunable(at)) < MaxLeases

(* Mutant of Advance: the decision carries no fencing patch.               *)
AdvanceLost(s) == fence

(* FencingLedger::advance: the next token of the scope is minted.          *)
Advance(s) == [fence EXCEPT ![s] = @ + 1]

(* Mutant of Grant: the row is stored under the advanced allocator value.  *)
GrantUnderNextId(s, i, at, ttl) ==
  [l \in DOMAIN leases \cup {nextLease + 1} |->
     IF l \in DOMAIN leases THEN leases[l]
     ELSE [scope |-> s, instance |-> i, epoch |-> epoch, token |-> fence[s] + 1,
           expires |-> at + ttl, revoked |-> FALSE]]

(* Inserting a fresh lease row after pruning.                              *)
Grant(s, i, at, ttl) ==
  LET row == [scope |-> s, instance |-> i, epoch |-> epoch, token |-> fence[s] + 1,
              expires |-> at + ttl, revoked |-> FALSE]
  IN [l \in (DOMAIN leases \ Pruned(at)) \cup {nextLease} |->
        IF l = nextLease THEN row ELSE leases[l]]

(* Mutant of Revoke: the lease patch is left out of the record body.       *)
RevokeNothing(doomed) == leases

(* The given rows are marked revoked; the others stay as they are.         *)
Revoke(doomed) ==
  [l \in DOMAIN leases |->
     IF l \in doomed THEN [leases[l] EXCEPT !.revoked = TRUE] ELSE leases[l]]

InFlight(i) ==
  {k \in DOMAIN instances[i].attempts : instances[i].attempts[k].phase \in InFlightPhase}

(* Attempts are appended at the back and the history is capped in front;   *)
(* the last one is the instance's current_attempt.                         *)
NextAttemptId(i) ==
  IF instances[i].attempts = <<>> THEN 1
  ELSE instances[i].attempts[Len(instances[i].attempts)].id + 1

(* Mutant of Capped: the newest attempt is the one evicted.                *)
CappedAtBack(history) ==
  IF Len(history) > MaxAttempts THEN SubSeq(history, 1, MaxAttempts) ELSE history

(* At most one attempt is appended at a time, so one eviction is enough.   *)
Capped(history) == IF Len(history) > MaxAttempts THEN Tail(history) ELSE history

Dispatch(history, id, generation, token) ==
  Capped(Append(history, [id |-> id, phase |-> "dispatched",
                          generation |-> generation, token |-> token]))

Current(i) == instances[i].attempts[Len(instances[i].attempts)]

(* decide_activate: no other instance with granted authority may sit on    *)
(* the scope, and no covering lease may belong to anyone but `self'.       *)
ScopeFree(s, self, at) ==
  /\ \A j \in DOMAIN instances \ self :
       instances[j].authority = "granted" => ScopeOf(j) # s
  /\ \A l \in Covering(s, at) : leases[l].instance \in self

(* check_compatibility: the package fits the device's evidence, which is   *)
(* fresh, trusted and of this incarnation.                                 *)
Compatible(d) == evidence[d]

PackageScope(d, port, pkg) == <<d, IF pkg \in Exclusive THEN port ELSE NoPort>>

------------------------------------------------------------------------------
(* Operations.                                                             *)

(* register_device: a first registration or a higher incarnation.  Every   *)
(* instance bound to another incarnation goes stale and loses authority,   *)
(* its scope is fenced, and every unrevoked lease on the device is revoked.*)
RegisterDevice(d, n) ==
  LET bound == {i \in DOMAIN instances : /\ instances[i].device = d
                                         /\ instances[i].incarnation # n}
      hits(s) == Cardinality({i \in bound : ScopeOf(i) = s})
  IN /\ n > incarnation[d]
     /\ n <= MaxIncarnation
     /\ incarnation' = [incarnation EXCEPT ![d] = n]
     /\ evidence' = [evidence EXCEPT ![d] = FALSE]
     /\ instances' = [i \in DOMAIN instances |->
                        IF i \in bound
                          THEN [instances[i] EXCEPT !.lifecycle = "stale",
                                                    !.authority = "revoked",
                                                    !.lease = NoLease]
                          ELSE instances[i]]
     /\ fence' = [s \in Scope |-> fence[s] + hits(s)]
     /\ leases' = Revoke({l \in DOMAIN leases : leases[l].scope[1] = d})
     /\ UNCHANGED <<epoch, nextLease>>

(* submit_capability_evidence and reverify_evidence: with a report of this *)
(* incarnation, or one that revalidates the stored one, the device's       *)
(* evidence is acceptable.                                                 *)
EvidenceArrives(d) ==
  /\ incarnation[d] # 0
  /\ ~evidence[d]
  /\ evidence' = [evidence EXCEPT ![d] = TRUE]
  /\ UNCHANGED <<epoch, incarnation, instances, leases, nextLease, fence>>

(* submit_observation reports the device absent or incompatible evidence   *)
(* is submitted, or what was observed ages out of its window.              *)
EvidenceLapses(d) ==
  /\ evidence[d]
  /\ evidence' = [evidence EXCEPT ![d] = FALSE]
  /\ UNCHANGED <<epoch, incarnation, instances, leases, nextLease, fence>>

(* acquire_authority, the accepted grant.  A live lease of the same holder *)
(* is answered without a change, one of another holder refuses.            *)
Acquire(i, at, ttl) ==
  LET s == ScopeOf(i) IN
  /\ i \in DOMAIN instances
  /\ ~instances[i].pending
  /\ PermitsMutation(instances[i].lifecycle)
  /\ Covering(s, at) = {}
  /\ incarnation[instances[i].device] = instances[i].incarnation
  /\ Room(at)
  /\ nextLease <= MaxLeaseId
  /\ leases' = Grant(s, i, at, ttl)
  /\ nextLease' = nextLease + 1
  /\ fence' = Advance(s)
  /\ instances' = [instances EXCEPT
       ![i].authority = "granted",
       ![i].lifecycle = IF @ \in {"unknown", "desired", "eligible"} THEN "authorized" ELSE @,
       ![i].lease = nextLease,
       ![i].token = fence[s] + 1,
       ![i].desired = IF @ = "none" THEN "active" ELSE @]
  /\ UNCHANGED <<epoch, incarnation, evidence>>

(* release_authority: the lease row is revoked, and the instance lets go   *)
(* of it when it is the one the instance is bound to.                      *)
Release(l) ==
  LET i == leases[l].instance IN
  /\ l \in DOMAIN leases
  /\ ~leases[l].revoked
  /\ leases' = Revoke({l})
  /\ instances' = IF instances[i].authority = "granted" /\ instances[i].lease = l
                    THEN [instances EXCEPT ![i].authority = "revoked", ![i].lease = NoLease]
                    ELSE instances
  /\ UNCHANGED <<epoch, incarnation, evidence, nextLease, fence>>

(* activate without an instance: a new instance is created with a fresh    *)
(* lease on the scope its package calls for and a dispatched attempt.      *)
ActivateNew(d, port, pkg, at, ttl) ==
  LET i == Cardinality(DOMAIN instances) + 1
      s == PackageScope(d, port, pkg)
  IN
  /\ incarnation[d] # 0
  /\ pkg \in Exclusive => port # NoPort
  /\ i <= MaxInstances
  /\ ScopeFree(s, {}, at)
  /\ Compatible(d)
  /\ Room(at)
  /\ nextLease <= MaxLeaseId
  /\ MaxAttemptId >= 1
  /\ leases' = Grant(s, i, at, ttl)
  /\ nextLease' = nextLease + 1
  /\ fence' = Advance(s)
  /\ instances' = [j \in DOMAIN instances \cup {i} |->
       IF j # i THEN instances[j]
       ELSE [device |-> d, port |-> port, incarnation |-> incarnation[d],
             package |-> pkg, previous |-> NoPackage,
             desired |-> "active", lifecycle |-> "authorized", authority |-> "granted",
             lease |-> nextLease, token |-> fence[s] + 1, generation |-> 1,
             pending |-> FALSE, attempts |-> Dispatch(<<>>, 1, 1, fence[s] + 1)]]
  /\ UNCHANGED <<epoch, incarnation, evidence>>

(* activate on an existing instance: a redeployment, or a replacement when *)
(* it names another package.  The instance keeps its lease and token; the  *)
(* port of the request is recorded, and nothing compares it with the bound *)
(* one: an activation may move the instance, and its lease stays behind.   *)
ActivateExisting(i, port, pkg, l, at) ==
  LET r == instances[i]
      s == PackageScope(r.device, port, pkg)
      generation == r.generation + 1
  IN
  /\ i \in DOMAIN instances
  /\ r.incarnation = incarnation[r.device]
  /\ pkg \in Exclusive => port # NoPort
  /\ ScopeFree(s, {i}, at)
  /\ Authorises(l, i, at)
  /\ PermitsMutation(r.lifecycle)
  /\ ~r.pending
  /\ Cardinality(InFlight(i)) < MaxConcurrent
  /\ Compatible(r.device)
  /\ NextAttemptId(i) <= MaxAttemptId
  /\ instances' = [instances EXCEPT
       ![i].port = port,
       ![i].package = pkg,
       ![i].previous = IF pkg # r.package THEN r.package ELSE @,
       ![i].generation = generation,
       ![i].desired = "active",
       ![i].lifecycle = "authorized",
       ![i].authority = "granted",
       ![i].pending = FALSE,
       ![i].attempts = Dispatch(@, NextAttemptId(i), generation, r.token)]
  /\ UNCHANGED <<epoch, incarnation, evidence, leases, nextLease, fence>>

(* request_rollback: a settled deployment is dispatched again with the     *)
(* package it replaced.                                                    *)
Rollback(i, l, at) ==
  LET r == instances[i]
      generation == r.generation + 1
  IN
  /\ i \in DOMAIN instances
  /\ Authorises(l, i, at)
  /\ r.previous # NoPackage
  /\ IsEffectClaim(r.lifecycle)
  /\ NextAttemptId(i) <= MaxAttemptId
  /\ r.incarnation = incarnation[r.device]
  /\ Compatible(r.device)
  /\ instances' = [instances EXCEPT
       ![i].package = r.previous,
       ![i].previous = r.package,
       ![i].generation = generation,
       ![i].desired = "active",
       ![i].lifecycle = "authorized",
       ![i].pending = FALSE,
       ![i].attempts = Dispatch(@, NextAttemptId(i), generation, r.token)]
  /\ UNCHANGED <<epoch, incarnation, evidence, leases, nextLease, fence>>

(* request_quiesce and request_withdraw: the drain is dispatched as an     *)
(* attempt of its own and authority is withdrawn at once.  The row revoked *)
(* is the one the instance is bound to, which need not be the one claimed. *)
Drain(i, want, l, at) ==
  LET r == instances[i] IN
  /\ i \in DOMAIN instances
  /\ Authorises(l, i, at)
  /\ r.desired # want
  /\ ~(r.lifecycle = "withdrawn" /\ want = "quiesced")
  /\ NextAttemptId(i) <= MaxAttemptId
  /\ leases' = Revoke({r.lease})
  /\ instances' = [instances EXCEPT
       ![i].desired = want,
       ![i].authority = "revoked",
       ![i].lease = NoLease,
       ![i].attempts = Dispatch(@, NextAttemptId(i), r.generation, r.token)]
  /\ UNCHANGED <<epoch, incarnation, evidence, nextLease, fence>>

(* Mutant of SetPhase: the oldest attempt is settled, not the current one. *)
SetOldestPhase(history, phase) == [history EXCEPT ![1].phase = phase]

(* The current attempt is the last of the history.                         *)
SetPhase(history, phase) == [history EXCEPT ![Len(history)].phase = phase]

(* acknowledge: the execution side has the current attempt.  A second      *)
(* acknowledgement, or one of an ambiguous attempt, changes nothing.       *)
Acknowledge(i) ==
  LET r == instances[i] IN
  /\ i \in DOMAIN instances
  /\ Current(i).phase = "dispatched"
  /\ instances' = [instances EXCEPT
       ![i].attempts = SetPhase(@, "acknowledged"),
       ![i].lifecycle = IF @ = "authorized" THEN "acknowledged" ELSE @]
  /\ UNCHANGED <<epoch, incarnation, evidence, leases, nextLease, fence>>

(* What a reported outcome makes of the attempt; the lifecycle state bears *)
(* the same name.                                                          *)
OutcomePhase(outcome) ==
  CASE outcome = "removed" -> "withdrawn"
    [] outcome = "refused_by_executor" -> "failed"
    [] OTHER -> outcome

(* Mutant of EndsAuthority: only a removal revokes.                        *)
EndsAuthorityOnRemoval(outcome) == outcome = "removed"

(* A report that the function stopped or failed revokes its authority.     *)
EndsAuthority(outcome) == outcome \notin {"applied", "verified"}

(* report_effect: the enforcement side settles the current attempt.        *)
ReportEffect(i, outcome) ==
  LET r == instances[i]
      phase == OutcomePhase(outcome)
  IN
  /\ i \in DOMAIN instances
  /\ Current(i).phase \notin {"failed", "aborted", "quiesced", "withdrawn"}
  /\ LegalAttempt(Current(i).phase, phase)
  /\ LegalLifecycle(r.lifecycle, phase)
  /\ instances' = [instances EXCEPT
       ![i].attempts = SetPhase(@, phase),
       ![i].lifecycle = phase,
       ![i].pending = FALSE,
       ![i].authority = IF EndsAuthority(outcome) THEN "revoked" ELSE @,
       ![i].lease = IF EndsAuthority(outcome) THEN NoLease ELSE @]
  /\ leases' = IF EndsAuthority(outcome) THEN Revoke({r.lease}) ELSE leases
  /\ UNCHANGED <<epoch, incarnation, evidence, nextLease, fence>>

(* Closing and reopening the store, cleanly or after a crash: the epoch    *)
(* advances, every lease is revoked, the instances that held authority, a  *)
(* lease or an ambiguous attempt lose it and their in-flight attempts      *)
(* become ambiguous, no evidence is acceptable until it is revalidated,    *)
(* and every scope that could have carried authority is fenced.            *)
Swept == {i \in DOMAIN instances : \/ instances[i].authority = "granted"
                                   \/ instances[i].pending
                                   \/ instances[i].lease # NoLease}

Ambiguous(history) ==
  [k \in DOMAIN history |->
     IF history[k].phase \in InFlightPhase
       THEN [history[k] EXCEPT !.phase = "ambiguous"] ELSE history[k]]

(* The scopes a lease row or an instance record names.                     *)
CouldCarry(s) ==
  \/ \E l \in DOMAIN leases : leases[l].scope = s
  \/ \E i \in DOMAIN instances : ScopeOf(i) = s

(* What the pass leaves of the record of a swept instance.                 *)
AfterRestart(i) ==
  [instances[i] EXCEPT
     !.authority = IF @ = "granted" THEN "superseded" ELSE @,
     !.attempts = Ambiguous(@),
     !.pending = @ \/ InFlight(i) # {},
     !.lifecycle = IF @ = "unknown" /\ InFlight(i) # {} THEN "stale" ELSE @,
     !.lease = NoLease]

(* The pass may itself be cut short and be followed by another opening.    *)
(* Each opening advances the epoch; the last one fences every scope, and   *)
(* those cut short have fenced the scopes they got to.                     *)
Restart ==
  /\ epoch' \in (epoch + 1)..MaxEpoch
  /\ leases' = Revoke(DOMAIN leases)
  /\ instances' = [i \in DOMAIN instances |->
                     IF i \in Swept THEN AfterRestart(i) ELSE instances[i]]
  /\ evidence' = [d \in Device |-> FALSE]
  /\ \E extra \in [Scope -> 0..(epoch' - epoch - 1)] :
       fence' = [s \in Scope |->
                   IF CouldCarry(s) THEN fence[s] + 1 + extra[s] ELSE fence[s]]
  /\ UNCHANGED <<incarnation, nextLease>>

------------------------------------------------------------------------------
(* The coordinator starts from a fresh store, whose first open advanced    *)
(* the epoch from 0 to 1.                                                  *)
Init ==
  /\ epoch = 1
  /\ incarnation = [d \in Device |-> 0]
  /\ evidence = [d \in Device |-> FALSE]
  /\ instances = <<>>
  /\ leases = <<>>
  /\ nextLease = 1
  /\ fence = [s \in Scope |-> 0]

Next ==
  \/ \E d \in Device, n \in 1..MaxIncarnation : RegisterDevice(d, n)
  \/ \E d \in Device : EvidenceArrives(d) \/ EvidenceLapses(d)
  \/ \E d \in Device, port \in PortOrNil, pkg \in Package, at \in Times, ttl \in Lifetimes :
       ActivateNew(d, port, pkg, at, ttl)
  \/ \E i \in DOMAIN instances, at \in Times :
       \/ \E ttl \in Lifetimes : Acquire(i, at, ttl)
       \/ \E l \in DOMAIN leases :
            \/ \E port \in PortOrNil, pkg \in Package : ActivateExisting(i, port, pkg, l, at)
            \/ Rollback(i, l, at)
            \/ \E want \in {"quiesced", "withdrawn"} : Drain(i, want, l, at)
  \/ \E l \in DOMAIN leases : Release(l)
  \/ \E i \in DOMAIN instances :
       \/ Acknowledge(i)
       \/ \E outcome \in EffectOutcome : ReportEffect(i, outcome)
  \/ Restart

Spec == Init /\ [][Next]_vars

------------------------------------------------------------------------------
(* What the coordinator promises.                                          *)

(* The lease would be accepted as authority for its instance, at a moment  *)
(* before it expires.                                                      *)
Stands(l) == l \in DOMAIN leases /\ Standing(l, leases[l].instance)

(* At no clock reading can two leases be accepted as authority on one      *)
(* scope, however the table was pruned, the clock stepped or instances     *)
(* were bound: the fencing ledger alone decides (check_authority).         *)
OneHolderPerScope ==
  \A l, k \in DOMAIN leases :
    Stands(l) /\ Stands(k) /\ leases[l].scope = leases[k].scope => l = k

(* The record of the row's instance names the row.                         *)
Named(l) ==
  LET r == instances[leases[l].instance]
  IN r.authority = "granted" /\ r.lease = l /\ r.token = leases[l].token

(* A lease that would be accepted is the one its instance's record names,  *)
(* so that revoking what the record names (drain, settlement, release)     *)
(* revokes all the authority there is.  Only an activation that moves the  *)
(* instance to another port ends that, when a lease left behind there by   *)
(* an earlier move stands again; no grant, expiry, report, registration,   *)
(* restart or pruning ever does.                                           *)
OnlyMovesBreakAgreement ==
  [][\A l \in DOMAIN leases' :
       LET i == leases'[l].instance IN
       Stands(l)' /\ ~Named(l)' =>
         \/ l \in DOMAIN leases /\ Stands(l) /\ ~Named(l)
         \/ i \in DOMAIN instances /\ instances'[i].port # instances[i].port]_vars

Retired == {"quiesced", "withdrawn", "failed", "unsupported", "stale"}

Outdated(i) == instances[i].incarnation # incarnation[instances[i].device]

(* The record of an instance that is stopped, that belongs to an earlier   *)
(* incarnation of its device, or that carries an attempt of unknown        *)
(* outcome does not say "granted"; and in the last two cases no lease      *)
(* whatever would be accepted for it, not even one the record has lost     *)
(* track of.                                                               *)
NoAuthorityAtRest ==
  \A i \in DOMAIN instances :
    /\ instances[i].lifecycle \in Retired \/ Outdated(i) \/ instances[i].pending
         => instances[i].authority # "granted"
    /\ Outdated(i) \/ instances[i].pending
         => \A l \in DOMAIN leases : ~Standing(l, i)

(* The attempt history of an instance is bounded, numbers its attempts     *)
(* without a gap, never runs back in generation, and ends in the attempt   *)
(* of the current generation: the one that reports must match.             *)
HistoryCoherent ==
  \A i \in DOMAIN instances :
    LET h == instances[i].attempts IN
    /\ Len(h) \in 1..MaxAttempts
    /\ \A k \in 1..(Len(h) - 1) : /\ h[k + 1].id = h[k].id + 1
                                  /\ h[k + 1].generation >= h[k].generation
    /\ h[Len(h)].generation = instances[i].generation

(* The durable lease table never outgrows the bound its snapshot decoder   *)
(* enforces, so what the runtime wrote it can read back.                   *)
LeaseTableBounded == Cardinality(DOMAIN leases) <= MaxLeases

(* A stopped instance never runs again: no later command, report, restart  *)
(* or device registration brings it back to a state that permits mutation. *)
RetiredStaysRetired ==
  [][\A i \in DOMAIN instances :
       instances[i].lifecycle \in Retired => instances'[i].lifecycle \in Retired]_vars

(* An attempt keeps its generation and token for as long as it is          *)
(* remembered, moves along the declared table only, never leaves a         *)
(* terminal phase, and once superseded changes only by becoming ambiguous  *)
(* at a restart.  No identity is used twice.                               *)
AttemptsSettleOnce ==
  [][\A i \in DOMAIN instances :
       LET old == instances[i].attempts
           new == instances'[i].attempts IN
       /\ \A b \in DOMAIN new :
            \/ new[b].id > old[Len(old)].id
            \/ \E a \in DOMAIN old : old[a].id = new[b].id
       /\ \A a \in DOMAIN old, b \in DOMAIN new :
            old[a].id = new[b].id =>
              /\ new[b].generation = old[a].generation
              /\ new[b].token = old[a].token
              /\ LegalAttempt(old[a].phase, new[b].phase)
              /\ old[a].phase \in TerminalPhase => new[b].phase = old[a].phase
              /\ (a # Len(old) /\ new[b].phase # old[a].phase) =>
                   new[b].phase = "ambiguous" /\ epoch' # epoch]_vars

(* Making room never costs a lease that counts: a row that leaves the      *)
(* table was revoked, or had expired at the reading of the clock under     *)
(* which the grant that needed the room was made.                          *)
OnlyDeadLeasesDropped ==
  [][\A l \in DOMAIN leases \ DOMAIN leases' :
       \/ leases[l].revoked
       \/ \E at \in Times, ttl \in Lifetimes :
            leases'[nextLease].expires = at + ttl /\ ~Unexpired(l, at)]_vars

(* The token of the lease in force on a scope, 0 when there is none.       *)
Holder(s) ==
  LET tokens == {leases[l].token : l \in {k \in DOMAIN leases : InForce(k) /\ leases[k].scope = s}}
  IN IF tokens = {} THEN 0 ELSE CHOOSE t \in tokens : TRUE

Fenced == INSTANCE FencedScope WITH high <- fence, holder <- [s \in Scope |-> Holder(s)]

(* Seen from one scope the coordinator is a fenced lock: a lease comes     *)
(* into force only with a token above every earlier one, and one that has  *)
(* been superseded, revoked or outlived by its epoch is never in force     *)
(* again.  What holds a scope is the lease: its instance may be bound to   *)
(* another port meanwhile, and then cannot use it, but nobody else can be  *)
(* granted the scope without a higher token.                               *)
FencedScopeSpec == Fenced!Spec

(* fabric_ops.cpp:1812: "Authority is withdrawn the instant a drain        *)
(* begins: no mutation may be authorised while the function is on its way  *)
(* out."  The drain leaves no lease that would be accepted for it.         *)
DrainEndsAuthority ==
  [][\A i \in DOMAIN instances :
       /\ instances'[i].desired # instances[i].desired
       /\ instances'[i].desired \in {"quiesced", "withdrawn"}
       => \A l \in DOMAIN leases' : ~Standing(l, i)']_vars

==============================================================================
