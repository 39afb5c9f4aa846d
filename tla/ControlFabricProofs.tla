------------------------- MODULE ControlFabricProofs -------------------------
(***************************************************************************)
(* Type correctness of the authority core, and the theorem it exists for:  *)
(* whatever the constants, at most one lease per scope can be accepted as  *)
(* authority.  The inductive invariant adds to TypeOK that the tokens of   *)
(* the rows on a scope are distinct and lie at or below its high-water     *)
(* mark.  The last part shows that what is retired stays retired.          *)
(***************************************************************************)
EXTENDS ControlFabric, FiniteSetTheorems, TLAPS

------------------------------------------------------------------------------
(* Lemmas about the operators.                                             *)

(* A dispatched attempt keeps the history a sequence of attempts.          *)
LEMMA DispatchType ==
  ASSUME NEW h \in Seq(Attempt), NEW id \in 1..MaxAttemptId,
         NEW generation \in Nat, NEW token \in Nat
  PROVE  Dispatch(h, id, generation, token) \in Seq(Attempt)
<1> DEFINE a == [id |-> id, phase |-> "dispatched", generation |-> generation, token |-> token]
<1>1. a \in Attempt
  BY DEF Attempt, AttemptPhase
<1>2. /\ Append(h, a) \in Seq(Attempt)
      /\ Append(h, a) # <<>>
  BY <1>1
<1>3. Capped(Append(h, a)) \in Seq(Attempt)
  BY <1>2 DEF Capped
<1> QED BY <1>3 DEF Dispatch

(* Settling the last attempt keeps the history a sequence of attempts.     *)
LEMMA SetPhaseType ==
  ASSUME NEW h \in Seq(Attempt), NEW phase \in AttemptPhase
  PROVE  SetPhase(h, phase) \in Seq(Attempt)
<1>1. ASSUME NEW k \in 1..Len(h)
      PROVE  SetPhase(h, phase)[k] \in Attempt
  <2>1. h[k] \in Attempt /\ k \in DOMAIN h
    OBVIOUS
  <2>2. SetPhase(h, phase)[k] = IF k = Len(h) THEN [h[k] EXCEPT !.phase = phase] ELSE h[k]
    BY <2>1 DEF SetPhase
  <2>3. [h[k] EXCEPT !.phase = phase] \in Attempt
    BY <2>1 DEF Attempt
  <2> QED BY <2>1, <2>2, <2>3
<1>2. SetPhase(h, phase) = [k \in 1..Len(h) |-> SetPhase(h, phase)[k]]
  BY DEF SetPhase
<1> QED BY <1>1, <1>2

(* So does a restart.                                                      *)
LEMMA AmbiguousType ==
  ASSUME NEW h \in Seq(Attempt)
  PROVE  Ambiguous(h) \in Seq(Attempt)
<1>1. ASSUME NEW k \in 1..Len(h)
      PROVE  Ambiguous(h)[k] \in Attempt
  <2>1. h[k] \in Attempt /\ k \in DOMAIN h
    OBVIOUS
  <2>2. [h[k] EXCEPT !.phase = "ambiguous"] \in Attempt
    BY <2>1 DEF Attempt, AttemptPhase
  <2>3. Ambiguous(h)[k] = IF h[k].phase \in InFlightPhase
                            THEN [h[k] EXCEPT !.phase = "ambiguous"] ELSE h[k]
    BY <2>1 DEF Ambiguous
  <2> QED BY <2>1, <2>2, <2>3
<1>2. Ambiguous(h) = [k \in 1..Len(h) |-> Ambiguous(h)[k]]
  BY DEF Ambiguous
<1> QED BY <1>1, <1>2

(* The next attempt identity is a positive number.                         *)
LEMMA NextAttemptIdType ==
  ASSUME TypeOK, NEW i \in DOMAIN instances, NextAttemptId(i) <= MaxAttemptId
  PROVE  NextAttemptId(i) \in 1..MaxAttemptId
<1> DEFINE h == instances[i].attempts
<1>1. h \in Seq(Attempt)
  BY DEF TypeOK, Instance
<1>2. CASE h = <<>>
  BY <1>2, BoundAssumption DEF NextAttemptId
<1>3. CASE h # <<>>
  <2>1. h[Len(h)] \in Attempt
    BY <1>1, <1>3
  <2>2. h[Len(h)].id \in 1..MaxAttemptId
    BY <2>1 DEF Attempt
  <2> QED BY <1>3, <2>2, BoundAssumption DEF NextAttemptId
<1> QED BY <1>2, <1>3

(* Revoking rows changes no row's type, nor the domain of the table.       *)
LEMMA RevokeType ==
  ASSUME leases \in [DOMAIN leases -> Lease], NEW doomed
  PROVE  /\ DOMAIN Revoke(doomed) = DOMAIN leases
         /\ Revoke(doomed) \in [DOMAIN leases -> Lease]
         /\ \A l \in DOMAIN leases : /\ Revoke(doomed)[l].scope = leases[l].scope
                                     /\ Revoke(doomed)[l].token = leases[l].token
BY DEF Revoke, Lease

(* A grant adds one well-typed row.                                        *)
LEMMA GrantType ==
  ASSUME TypeOK, NEW s \in Scope, NEW i \in InstanceId, NEW at \in Times, NEW ttl \in Lifetimes,
         nextLease <= MaxLeaseId
  PROVE  /\ DOMAIN Grant(s, i, at, ttl) \subseteq 1..nextLease
         /\ Grant(s, i, at, ttl) \in [DOMAIN Grant(s, i, at, ttl) -> Lease]
<1>1. at + ttl \in Nat /\ fence[s] + 1 \in Nat /\ epoch \in Nat
  BY TimeAssumption DEF TypeOK
<1>2. [scope |-> s, instance |-> i, epoch |-> epoch, token |-> fence[s] + 1,
       expires |-> at + ttl, revoked |-> FALSE] \in Lease
  BY <1>1 DEF Lease
<1>3. nextLease \in 1..nextLease /\ 1..(nextLease - 1) \subseteq 1..nextLease
  BY BoundAssumption DEF TypeOK
<1> QED BY <1>2, <1>3 DEF Grant, TypeOK

(* The scope of a registered instance is a scope.                          *)
LEMMA ScopeOfType ==
  ASSUME TypeOK, NEW i \in DOMAIN instances
  PROVE  ScopeOf(i) \in Scope
BY DEF TypeOK, Instance, ScopeOf, Scope

(* The number of rows that meet a condition is a natural number.           *)
LEMMA CountType ==
  ASSUME TypeOK, NEW S \in SUBSET DOMAIN instances
  PROVE  Cardinality(S) \in Nat
<1>1. IsFiniteSet(1..MaxInstances)
  BY FS_Interval, BoundAssumption
<1>2. IsFiniteSet(S)
  BY <1>1, FS_Subset DEF TypeOK, InstanceId
<1> QED BY <1>2, FS_CardinalityType

------------------------------------------------------------------------------
(* Type correctness.                                                       *)

(* A new value for one row of the registry leaves the registry typed.      *)
LEMMA UpdateType ==
  ASSUME TypeOK, NEW i \in DOMAIN instances, NEW row \in Instance,
         instances' = [instances EXCEPT ![i] = row]
  PROVE  /\ DOMAIN instances' \subseteq InstanceId
         /\ instances' \in [DOMAIN instances' -> Instance]
BY DEF TypeOK

(* A restart keeps the ledger a ledger and lowers no mark, however many of *)
(* its passes were cut short.                                              *)
LEMMA RestartFences ==
  ASSUME TypeOK, Restart
  PROVE  fence' \in [Scope -> Nat] /\ \A s \in Scope : fence'[s] >= fence[s]
<1>1. epoch' - epoch - 1 \in Nat
  BY BoundAssumption DEF TypeOK, Restart
<1>2. PICK extra \in [Scope -> 0..(epoch' - epoch - 1)] :
        fence' = [s \in Scope |-> IF CouldCarry(s) THEN fence[s] + 1 + extra[s] ELSE fence[s]]
  BY DEF Restart
<1>3. \A s \in Scope : fence[s] \in Nat /\ extra[s] \in Nat
  BY <1>1, <1>2 DEF TypeOK
<1> QED BY <1>2, <1>3

(* No operation and no restart breaks a row's type or overruns an          *)
(* allocator.                                                              *)
LEMMA TypeStep == TypeOK /\ [Next]_vars => TypeOK'
<1> SUFFICES ASSUME TypeOK, [Next]_vars
             PROVE  TypeOK'
  OBVIOUS
<1> USE BoundAssumption, TimeAssumption
<1>1. ASSUME NEW d \in Device, NEW n \in 1..MaxIncarnation, RegisterDevice(d, n)
      PROVE  TypeOK'
  <2> DEFINE bound == {i \in DOMAIN instances : /\ instances[i].device = d
                                                /\ instances[i].incarnation # n}
             hits(s) == Cardinality({i \in bound : ScopeOf(i) = s})
  <2>1. incarnation' \in [Device -> Nat] /\ evidence' \in [Device -> BOOLEAN]
    <3>1. n \in Nat
      OBVIOUS
    <3>2. /\ incarnation' = [incarnation EXCEPT ![d] = n]
          /\ evidence' = [evidence EXCEPT ![d] = FALSE]
      BY <1>1 DEF RegisterDevice
    <3> QED BY <3>1, <3>2 DEF TypeOK
  <2>2. ASSUME NEW i \in DOMAIN instances
        PROVE  [instances[i] EXCEPT !.lifecycle = "stale", !.authority = "revoked",
                                    !.lease = NoLease] \in Instance
    <3>1. instances[i] \in Instance
      BY DEF TypeOK
    <3> QED BY <3>1 DEF Instance, LifecycleState, AuthorityState
  <2>3. /\ DOMAIN instances' \subseteq InstanceId
        /\ instances' \in [DOMAIN instances' -> Instance]
    BY <1>1, <2>2 DEF RegisterDevice, TypeOK
  <2>4. \A s \in Scope : fence[s] + hits(s) \in Nat
    <3>1. ASSUME NEW s \in Scope PROVE hits(s) \in Nat
      BY CountType
    <3> HIDE DEF hits
    <3> QED BY <3>1 DEF TypeOK
  <2>5. fence' \in [Scope -> Nat]
    <3>1. fence' = [s \in Scope |-> fence[s] + hits(s)]
      BY <1>1 DEF RegisterDevice
    <3> HIDE DEF hits
    <3> QED BY <2>4, <3>1
  <2>6. DOMAIN leases' = DOMAIN leases /\ leases' \in [DOMAIN leases -> Lease]
    BY <1>1, RevokeType DEF RegisterDevice, TypeOK
  <2> QED BY <1>1, <2>1, <2>3, <2>5, <2>6 DEF RegisterDevice, TypeOK
<1>2. ASSUME NEW d \in Device, EvidenceArrives(d) \/ EvidenceLapses(d)
      PROVE  TypeOK'
  BY <1>2 DEF EvidenceArrives, EvidenceLapses, TypeOK
<1>3. ASSUME NEW d \in Device, NEW port \in PortOrNil, NEW pkg \in Package,
             NEW at \in Times, NEW ttl \in Lifetimes, ActivateNew(d, port, pkg, at, ttl)
      PROVE  TypeOK'
  <2> DEFINE i == Cardinality(DOMAIN instances) + 1
             s == PackageScope(d, port, pkg)
             row == [device |-> d, port |-> port, incarnation |-> incarnation[d],
                     package |-> pkg, previous |-> NoPackage,
                     desired |-> "active", lifecycle |-> "authorized", authority |-> "granted",
                     lease |-> nextLease, token |-> fence[s] + 1, generation |-> 1,
                     pending |-> FALSE, attempts |-> Dispatch(<<>>, 1, 1, fence[s] + 1)]
  <2>1. i \in InstanceId
    BY <1>3, CountType DEF ActivateNew, InstanceId
  <2>2. s \in Scope
    BY DEF PackageScope, Scope, PortOrNil
  <2>3. fence' \in [Scope -> Nat] /\ fence[s] + 1 \in Nat
    BY <1>3, <2>2 DEF ActivateNew, Advance, TypeOK
  <2>4. nextLease \in LeaseId /\ nextLease' \in 1..(MaxLeaseId + 1) /\ nextLease' - 1 = nextLease
    <3>1. nextLease <= MaxLeaseId /\ nextLease' = nextLease + 1
      BY <1>3 DEF ActivateNew
    <3>2. nextLease \in 1..(MaxLeaseId + 1) /\ MaxLeaseId \in Nat
      BY BoundAssumption DEF TypeOK
    <3> QED BY <3>1, <3>2 DEF LeaseId
  <2>5. Dispatch(<<>>, 1, 1, fence[s] + 1) \in Seq(Attempt)
    <3>1. 1 \in 1..MaxAttemptId
      BY <1>3 DEF ActivateNew
    <3>2. <<>> \in Seq(Attempt) /\ 1 \in Nat
      OBVIOUS
    <3> QED BY <2>3, <3>1, <3>2, DispatchType
  <2>6. row \in Instance
    BY <2>3, <2>4, <2>5 DEF Instance, TypeOK, LifecycleState, AuthorityState, DesiredState
  <2>7. instances' = [j \in DOMAIN instances \cup {i} |-> IF j # i THEN instances[j] ELSE row]
    BY <1>3 DEF ActivateNew
  <2>8. /\ DOMAIN instances' \subseteq InstanceId
        /\ instances' \in [DOMAIN instances' -> Instance]
    BY <2>1, <2>6, <2>7 DEF TypeOK
  <2>9. /\ DOMAIN leases' \subseteq 1..(nextLease' - 1)
        /\ leases' \in [DOMAIN leases' -> Lease]
    <3>1. leases' = Grant(s, i, at, ttl) /\ nextLease <= MaxLeaseId
      BY <1>3 DEF ActivateNew
    <3> QED BY <2>1, <2>2, <2>4, <3>1, GrantType
  <2> QED BY <1>3, <2>3, <2>4, <2>8, <2>9 DEF ActivateNew, TypeOK
<1>4. ASSUME NEW i \in DOMAIN instances, NEW at \in Times, NEW ttl \in Lifetimes,
             Acquire(i, at, ttl)
      PROVE  TypeOK'
  <2> DEFINE s == ScopeOf(i)
             r == instances[i]
             token == fence[s] + 1
             lifecycle == IF r.lifecycle \in {"unknown", "desired", "eligible"}
                            THEN "authorized" ELSE r.lifecycle
             desired == IF r.desired = "none" THEN "active" ELSE r.desired
             row == [r EXCEPT !.authority = "granted", !.lifecycle = lifecycle,
                              !.lease = nextLease, !.token = token, !.desired = desired]
  <2>1. s \in Scope /\ i \in InstanceId /\ r \in Instance
    BY ScopeOfType DEF TypeOK
  <2>2. fence' \in [Scope -> Nat] /\ token \in Nat
    BY <1>4, <2>1 DEF Acquire, Advance, TypeOK
  <2>3. nextLease \in LeaseId /\ nextLease' \in 1..(MaxLeaseId + 1) /\ nextLease' - 1 = nextLease
    <3>1. nextLease <= MaxLeaseId /\ nextLease' = nextLease + 1
      BY <1>4 DEF Acquire
    <3>2. nextLease \in 1..(MaxLeaseId + 1) /\ MaxLeaseId \in Nat
      BY BoundAssumption DEF TypeOK
    <3> QED BY <3>1, <3>2 DEF LeaseId
  <2>4. row \in Instance
    <3>1. lifecycle \in LifecycleState /\ desired \in DesiredState
      BY <2>1 DEF Instance, LifecycleState, DesiredState
    <3>2. "granted" \in AuthorityState
      BY DEF AuthorityState
    <3> HIDE DEF token, lifecycle, desired, r, s
    <3> QED BY <2>1, <2>2, <2>3, <3>1, <3>2 DEF Instance
  <2>5. instances' = [instances EXCEPT ![i] = row]
    BY <1>4 DEF Acquire
  <2>6. /\ DOMAIN instances' \subseteq InstanceId
        /\ instances' \in [DOMAIN instances' -> Instance]
    BY <2>4, <2>5, UpdateType
  <2>7. /\ DOMAIN leases' \subseteq 1..(nextLease' - 1)
        /\ leases' \in [DOMAIN leases' -> Lease]
    <3>1. leases' = Grant(s, i, at, ttl) /\ nextLease <= MaxLeaseId
      BY <1>4 DEF Acquire
    <3> QED BY <2>1, <2>3, <3>1, GrantType
  <2> QED BY <1>4, <2>2, <2>3, <2>6, <2>7 DEF Acquire, TypeOK
<1>5. ASSUME NEW i \in DOMAIN instances, NEW at \in Times, NEW l \in DOMAIN leases,
             NEW port \in PortOrNil, NEW pkg \in Package, ActivateExisting(i, port, pkg, l, at)
      PROVE  TypeOK'
  <2> DEFINE r == instances[i]
             previous == IF pkg # r.package THEN r.package ELSE r.previous
             generation == r.generation + 1
             history == Dispatch(r.attempts, NextAttemptId(i), generation, r.token)
             row == [r EXCEPT
                       !.port = port, !.package = pkg, !.previous = previous,
                       !.generation = generation, !.desired = "active",
                       !.lifecycle = "authorized", !.authority = "granted",
                       !.pending = FALSE, !.attempts = history]
  <2>1. r \in Instance
    BY DEF TypeOK
  <2>2. NextAttemptId(i) \in 1..MaxAttemptId
    BY <1>5, NextAttemptIdType DEF ActivateExisting
  <2>3. history \in Seq(Attempt) /\ generation \in Nat
    <3>1. r.attempts \in Seq(Attempt) /\ generation \in Nat /\ r.token \in Nat
      BY <2>1 DEF Instance
    <3> QED BY <2>2, <3>1, DispatchType
  <2>4. row \in Instance
    <3>1. /\ "active" \in DesiredState /\ "authorized" \in LifecycleState
          /\ "granted" \in AuthorityState
      BY DEF LifecycleState, AuthorityState, DesiredState
    <3>2. previous \in Package \cup {NoPackage}
      BY <2>1 DEF Instance
    <3> HIDE DEF previous, generation, history, r
    <3> QED BY <2>1, <2>3, <3>1, <3>2 DEF Instance
  <2>5. instances' = [instances EXCEPT ![i] = row]
    BY <1>5 DEF ActivateExisting
  <2>6. /\ DOMAIN instances' \subseteq InstanceId
        /\ instances' \in [DOMAIN instances' -> Instance]
    BY <2>4, <2>5, UpdateType
  <2> QED BY <1>5, <2>6 DEF ActivateExisting, TypeOK
<1>6. ASSUME NEW i \in DOMAIN instances, NEW at \in Times, NEW l \in DOMAIN leases,
             Rollback(i, l, at)
      PROVE  TypeOK'
  <2> DEFINE r == instances[i]
             generation == r.generation + 1
             history == Dispatch(r.attempts, NextAttemptId(i), generation, r.token)
             row == [r EXCEPT
                       !.package = r.previous, !.previous = r.package,
                       !.generation = generation, !.desired = "active",
                       !.lifecycle = "authorized", !.pending = FALSE,
                       !.attempts = history]
  <2>1. r \in Instance /\ r.previous # NoPackage
    BY <1>6 DEF TypeOK, Rollback
  <2>2. NextAttemptId(i) \in 1..MaxAttemptId
    BY <1>6, NextAttemptIdType DEF Rollback
  <2>3. history \in Seq(Attempt) /\ generation \in Nat
    <3>1. r.attempts \in Seq(Attempt) /\ generation \in Nat /\ r.token \in Nat
      BY <2>1 DEF Instance
    <3> QED BY <2>2, <3>1, DispatchType
  <2>4. row \in Instance
    <3>1. "active" \in DesiredState /\ "authorized" \in LifecycleState
      BY DEF LifecycleState, DesiredState
    <3>2. r.previous \in Package /\ r.package \in Package
      BY <2>1 DEF Instance
    <3> HIDE DEF generation, history, r
    <3> QED BY <2>1, <2>3, <3>1, <3>2 DEF Instance
  <2>5. instances' = [instances EXCEPT ![i] = row]
    BY <1>6 DEF Rollback
  <2>6. /\ DOMAIN instances' \subseteq InstanceId
        /\ instances' \in [DOMAIN instances' -> Instance]
    BY <2>4, <2>5, UpdateType
  <2> QED BY <1>6, <2>6 DEF Rollback, TypeOK
<1>7. ASSUME NEW i \in DOMAIN instances, NEW at \in Times, NEW l \in DOMAIN leases,
             NEW want \in {"quiesced", "withdrawn"}, Drain(i, want, l, at)
      PROVE  TypeOK'
  <2> DEFINE r == instances[i]
             row == [r EXCEPT
                       !.desired = want,
                       !.authority = "revoked",
                       !.lease = NoLease,
                       !.attempts = Dispatch(@, NextAttemptId(i), r.generation, r.token)]
  <2>1. r \in Instance
    BY DEF TypeOK
  <2>2. NextAttemptId(i) \in 1..MaxAttemptId
    BY <1>7, NextAttemptIdType DEF Drain
  <2>3. Dispatch(r.attempts, NextAttemptId(i), r.generation, r.token) \in Seq(Attempt)
    <3>1. r.attempts \in Seq(Attempt) /\ r.generation \in Nat /\ r.token \in Nat
      BY <2>1 DEF Instance
    <3> QED BY <2>2, <3>1, DispatchType
  <2>4. row \in Instance
    BY <2>1, <2>3 DEF Instance, AuthorityState, DesiredState
  <2>5. instances' = [instances EXCEPT ![i] = row]
    BY <1>7 DEF Drain
  <2>6. /\ DOMAIN instances' \subseteq InstanceId
        /\ instances' \in [DOMAIN instances' -> Instance]
    BY <2>4, <2>5, UpdateType
  <2>7. DOMAIN leases' = DOMAIN leases /\ leases' \in [DOMAIN leases -> Lease]
    BY <1>7, RevokeType DEF Drain, TypeOK
  <2> QED BY <1>7, <2>6, <2>7 DEF Drain, TypeOK
<1>8. ASSUME NEW l \in DOMAIN leases, Release(l)
      PROVE  TypeOK'
  <2> DEFINE i == leases[l].instance
  <2>1. DOMAIN leases' = DOMAIN leases /\ leases' \in [DOMAIN leases -> Lease]
    BY <1>8, RevokeType DEF Release, TypeOK
  <2>2. /\ DOMAIN instances' \subseteq InstanceId
        /\ instances' \in [DOMAIN instances' -> Instance]
    <3>1. CASE i \in DOMAIN instances
      <4> DEFINE row == [instances[i] EXCEPT !.authority = "revoked", !.lease = NoLease]
      <4>1. row \in Instance
        <5>1. instances[i] \in Instance
          BY <3>1 DEF TypeOK
        <5> QED BY <5>1 DEF Instance, AuthorityState
      <4>2. instances' = [instances EXCEPT ![i] = row] \/ instances' = instances
        BY <1>8 DEF Release
      <4> QED BY <3>1, <4>1, <4>2 DEF TypeOK
    <3>2. CASE i \notin DOMAIN instances
      <4>1. DOMAIN instances' = DOMAIN instances /\ \A j \in DOMAIN instances : instances'[j] = instances[j]
        BY <1>8, <3>2 DEF Release, TypeOK
      <4>2. instances' = [j \in DOMAIN instances |-> instances'[j]]
        BY <1>8 DEF Release, TypeOK
      <4> QED BY <4>1, <4>2 DEF TypeOK
    <3> QED BY <3>1, <3>2
  <2> QED BY <1>8, <2>1, <2>2 DEF Release, TypeOK
<1>9. ASSUME NEW i \in DOMAIN instances, Acknowledge(i)
      PROVE  TypeOK'
  <2> DEFINE r == instances[i]
             row == [r EXCEPT
                       !.attempts = SetPhase(@, "acknowledged"),
                       !.lifecycle = IF @ = "authorized" THEN "acknowledged" ELSE @]
  <2>1. r \in Instance
    BY DEF TypeOK
  <2>2. SetPhase(r.attempts, "acknowledged") \in Seq(Attempt)
    BY <2>1, SetPhaseType DEF Instance, AttemptPhase
  <2>3. row \in Instance
    BY <2>1, <2>2 DEF Instance, LifecycleState
  <2>4. instances' = [instances EXCEPT ![i] = row]
    BY <1>9 DEF Acknowledge
  <2>5. /\ DOMAIN instances' \subseteq InstanceId
        /\ instances' \in [DOMAIN instances' -> Instance]
    BY <2>3, <2>4, UpdateType
  <2> QED BY <1>9, <2>5 DEF Acknowledge, TypeOK
<1>10. ASSUME NEW i \in DOMAIN instances, NEW outcome \in EffectOutcome, ReportEffect(i, outcome)
       PROVE  TypeOK'
  <2> DEFINE r == instances[i]
             phase == OutcomePhase(outcome)
             row == [r EXCEPT
                       !.attempts = SetPhase(@, phase),
                       !.lifecycle = phase,
                       !.pending = FALSE,
                       !.authority = IF EndsAuthority(outcome) THEN "revoked" ELSE @,
                       !.lease = IF EndsAuthority(outcome) THEN NoLease ELSE @]
  <2>1. r \in Instance
    BY DEF TypeOK
  <2>2. phase \in AttemptPhase /\ phase \in LifecycleState
    BY DEF OutcomePhase, EffectOutcome, AttemptPhase, LifecycleState
  <2>3. SetPhase(r.attempts, phase) \in Seq(Attempt)
    BY <2>1, <2>2, SetPhaseType DEF Instance
  <2> HIDE DEF phase
  <2>4. row \in Instance
    BY <2>1, <2>2, <2>3 DEF Instance, AuthorityState
  <2>5. instances' = [instances EXCEPT ![i] = row]
    BY <1>10 DEF ReportEffect, phase
  <2>6. /\ DOMAIN instances' \subseteq InstanceId
        /\ instances' \in [DOMAIN instances' -> Instance]
    BY <2>4, <2>5, UpdateType
  <2>7. DOMAIN leases' = DOMAIN leases /\ leases' \in [DOMAIN leases -> Lease]
    BY <1>10, RevokeType DEF ReportEffect, TypeOK
  <2> QED BY <1>10, <2>6, <2>7 DEF ReportEffect, TypeOK
<1>11. ASSUME Restart
       PROVE  TypeOK'
  <2>1. epoch' \in Nat /\ evidence' \in [Device -> BOOLEAN]
    <3>1. epoch' \in (epoch + 1)..MaxEpoch /\ evidence' = [d \in Device |-> FALSE]
      BY <1>11 DEF Restart
    <3>2. epoch' \in Nat
      BY <3>1, BoundAssumption DEF TypeOK
    <3> QED BY <3>1, <3>2
  <2>2. DOMAIN leases' = DOMAIN leases /\ leases' \in [DOMAIN leases -> Lease]
    BY <1>11, RevokeType DEF Restart, TypeOK
  <2>3. ASSUME NEW i \in DOMAIN instances
        PROVE  instances'[i] \in Instance
    <3> DEFINE r == instances[i]
               authority == IF r.authority = "granted" THEN "superseded" ELSE r.authority
               history == Ambiguous(r.attempts)
               pending == r.pending \/ InFlight(i) # {}
               lifecycle == IF r.lifecycle = "unknown" /\ InFlight(i) # {}
                              THEN "stale" ELSE r.lifecycle
               row == [r EXCEPT !.authority = authority, !.attempts = history,
                                !.pending = pending, !.lifecycle = lifecycle, !.lease = NoLease]
    <3>1. r \in Instance
      BY DEF TypeOK
    <3>2. history \in Seq(Attempt)
      BY <3>1, AmbiguousType DEF Instance
    <3>3. pending \in BOOLEAN
      OBVIOUS
    <3>4. authority \in AuthorityState /\ lifecycle \in LifecycleState
      BY <3>1 DEF Instance, LifecycleState, AuthorityState
    <3>5. row \in Instance
      <4> HIDE DEF authority, history, pending, lifecycle, r
      <4> QED BY <3>1, <3>2, <3>3, <3>4 DEF Instance
    <3>6. instances'[i] = row \/ instances'[i] = r
      BY <1>11 DEF Restart, AfterRestart
    <3> QED BY <3>1, <3>5, <3>6
  <2>4. /\ DOMAIN instances' \subseteq InstanceId
        /\ instances' \in [DOMAIN instances' -> Instance]
    BY <1>11, <2>3 DEF Restart, TypeOK
  <2>5. fence' \in [Scope -> Nat]
    BY <1>11, RestartFences
  <2> QED BY <1>11, <2>1, <2>2, <2>4, <2>5 DEF Restart, TypeOK
<1>12. CASE UNCHANGED vars
  BY <1>12 DEF vars, TypeOK
<1> QED
  BY <1>1, <1>2, <1>3, <1>4, <1>5, <1>6, <1>7, <1>8, <1>9, <1>10, <1>11, <1>12 DEF Next

(* Type correctness of every reachable state.                              *)
THEOREM TypeCorrect == Spec => []TypeOK
<1>1. Init => TypeOK
  BY BoundAssumption DEF Init, TypeOK
<1> QED BY <1>1, TypeStep, PTL DEF Spec

------------------------------------------------------------------------------
(* The fencing ledger decides who holds a scope.                           *)

(* The tokens of the rows on a scope are distinct, and none is above the   *)
(* high-water mark the ledger keeps for it.                                *)
TokensMinted ==
  /\ \A l \in DOMAIN leases : leases[l].token <= fence[leases[l].scope]
  /\ \A l, k \in DOMAIN leases :
       leases[l].scope = leases[k].scope /\ leases[l].token = leases[k].token => l = k

(* Rows that keep their scope and token stay minted under marks that only  *)
(* rise; rows may go.                                                      *)
LEMMA TokensKept ==
  ASSUME TypeOK, TypeOK', TokensMinted,
         \A s \in Scope : fence'[s] >= fence[s],
         DOMAIN leases' \subseteq DOMAIN leases,
         \A l \in DOMAIN leases' : /\ leases'[l].scope = leases[l].scope
                                   /\ leases'[l].token = leases[l].token
  PROVE  TokensMinted'
<1>1. ASSUME NEW l \in DOMAIN leases'
      PROVE  leases'[l].token <= fence'[leases'[l].scope]
  <2>1. leases[l] \in Lease /\ l \in DOMAIN leases
    BY DEF TypeOK
  <2>2. leases[l].scope \in Scope /\ leases[l].token \in Nat
    BY <2>1 DEF Lease
  <2>3. fence[leases[l].scope] \in Nat /\ fence'[leases[l].scope] \in Nat
    BY <2>2 DEF TypeOK
  <2> QED BY <2>1, <2>2, <2>3 DEF TokensMinted
<1> QED BY <1>1 DEF TokensMinted

(* A grant mints a token above every token of its scope.                   *)
LEMMA TokenGranted ==
  ASSUME TypeOK, TypeOK', TokensMinted,
         NEW s \in Scope, NEW i \in InstanceId, NEW at \in Times, NEW ttl \in Lifetimes,
         leases' = Grant(s, i, at, ttl), fence' = Advance(s)
  PROVE  TokensMinted'
<1>1. /\ fence[s] \in Nat
      /\ fence'[s] = fence[s] + 1
      /\ \A t \in Scope : t # s => fence'[t] = fence[t]
  BY DEF Advance, TypeOK
<1>2. /\ DOMAIN leases' = (DOMAIN leases \ Pruned(at)) \cup {nextLease}
      /\ leases'[nextLease].scope = s /\ leases'[nextLease].token = fence[s] + 1
      /\ \A l \in DOMAIN leases' : l # nextLease => l \in DOMAIN leases /\ leases'[l] = leases[l]
  BY DEF Grant
<1>3. ASSUME NEW l \in DOMAIN leases', l # nextLease
      PROVE  /\ leases[l].scope \in Scope
             /\ leases[l].token \in Nat
             /\ fence[leases[l].scope] \in Nat
             /\ leases[l].token <= fence[leases[l].scope]
  <2>1. leases[l] \in Lease /\ l \in DOMAIN leases
    BY <1>2, <1>3 DEF TypeOK
  <2>2. leases[l].scope \in Scope /\ leases[l].token \in Nat
    BY <2>1 DEF Lease
  <2> QED BY <2>1, <2>2 DEF TypeOK, TokensMinted
<1>4. ASSUME NEW l \in DOMAIN leases'
      PROVE  leases'[l].token <= fence'[leases'[l].scope]
  <2>1. CASE l = nextLease
    BY <1>1, <1>2, <2>1
  <2>2. CASE l # nextLease
    BY <1>1, <1>2, <1>3, <2>2
  <2> QED BY <2>1, <2>2
<1>5. ASSUME NEW l \in DOMAIN leases', NEW k \in DOMAIN leases',
             leases'[l].scope = leases'[k].scope, leases'[l].token = leases'[k].token
      PROVE  l = k
  <2>1. CASE l = nextLease /\ k # nextLease
    BY <1>1, <1>2, <1>3, <1>5, <2>1
  <2>2. CASE l # nextLease /\ k = nextLease
    BY <1>1, <1>2, <1>3, <1>5, <2>2
  <2>3. CASE l # nextLease /\ k # nextLease
    BY <1>2, <1>5, <2>3 DEF TokensMinted
  <2> QED BY <2>1, <2>2, <2>3
<1> QED BY <1>4, <1>5 DEF TokensMinted

(* The steps that mint no token.                                           *)
LEMMA MintsNothing ==
  /\ \A d : EvidenceArrives(d) \/ EvidenceLapses(d) => UNCHANGED <<leases, fence>>
  /\ \A i, port, pkg, l, at : ActivateExisting(i, port, pkg, l, at) => UNCHANGED <<leases, fence>>
  /\ \A i, l, at : Rollback(i, l, at) => UNCHANGED <<leases, fence>>
  /\ \A i : Acknowledge(i) => UNCHANGED <<leases, fence>>
  /\ UNCHANGED vars => UNCHANGED <<leases, fence>>
<1>1. \A d : EvidenceArrives(d) \/ EvidenceLapses(d) => UNCHANGED <<leases, fence>>
  BY DEF EvidenceArrives, EvidenceLapses
<1>2. ASSUME NEW i, NEW port, NEW pkg, NEW l, NEW at, ActivateExisting(i, port, pkg, l, at)
      PROVE  UNCHANGED <<leases, fence>>
  BY <1>2 DEF ActivateExisting
<1>3. ASSUME NEW i, NEW l, NEW at, Rollback(i, l, at)
      PROVE  UNCHANGED <<leases, fence>>
  BY <1>3 DEF Rollback
<1>4. ASSUME NEW i, Acknowledge(i)
      PROVE  UNCHANGED <<leases, fence>>
  BY <1>4 DEF Acknowledge
<1>5. UNCHANGED vars => UNCHANGED <<leases, fence>>
  BY DEF vars
<1> QED BY <1>1, <1>2, <1>3, <1>4, <1>5

(* The steps that revoke rows without minting a token.                     *)
LEMMA RevokesOnly ==
  /\ \A i, want, l, at : Drain(i, want, l, at) =>
       UNCHANGED fence /\ leases' = Revoke({instances[i].lease})
  /\ \A l : Release(l) => UNCHANGED fence /\ leases' = Revoke({l})
  /\ \A i, outcome : ReportEffect(i, outcome) =>
       UNCHANGED fence /\ (leases' = Revoke({instances[i].lease}) \/ UNCHANGED leases)
<1>1. ASSUME NEW i, NEW want, NEW l, NEW at, Drain(i, want, l, at)
      PROVE  UNCHANGED fence /\ leases' = Revoke({instances[i].lease})
  BY <1>1 DEF Drain
<1>2. ASSUME NEW l, Release(l)
      PROVE  UNCHANGED fence /\ leases' = Revoke({l})
  BY <1>2 DEF Release
<1>3. ASSUME NEW i, NEW outcome, ReportEffect(i, outcome)
      PROVE  UNCHANGED fence /\ (leases' = Revoke({instances[i].lease}) \/ UNCHANGED leases)
  BY <1>3 DEF ReportEffect
<1> QED BY <1>1, <1>2, <1>3

(* No step lowers a high-water mark.                                       *)
LEMMA FenceStep ==
  ASSUME TypeOK, [Next]_vars
  PROVE  \A s \in Scope : fence'[s] >= fence[s]
<1>1. \A s \in Scope : fence[s] \in Nat
  BY DEF TypeOK
<1>2. ASSUME NEW d \in Device, NEW n \in 1..MaxIncarnation, RegisterDevice(d, n)
      PROVE  \A s \in Scope : fence'[s] >= fence[s]
  <2> DEFINE bound == {i \in DOMAIN instances : /\ instances[i].device = d
                                                /\ instances[i].incarnation # n}
             hits(s) == Cardinality({i \in bound : ScopeOf(i) = s})
  <2>1. \A s \in Scope : fence'[s] = fence[s] + hits(s)
    BY <1>2 DEF RegisterDevice
  <2>2. ASSUME NEW s \in Scope PROVE hits(s) \in Nat
    BY CountType
  <2> HIDE DEF hits
  <2> QED BY <1>1, <2>1, <2>2
<1>3. ASSUME NEW s \in Scope, fence' = Advance(s)
      PROVE  \A t \in Scope : fence'[t] >= fence[t]
  BY <1>1, <1>3 DEF Advance, TypeOK
<1>4. CASE Restart
  BY <1>4, RestartFences
<1>5. ASSUME NEW d \in Device, NEW port \in PortOrNil, NEW pkg \in Package,
             NEW at \in Times, NEW ttl \in Lifetimes, ActivateNew(d, port, pkg, at, ttl)
      PROVE  \A s \in Scope : fence'[s] >= fence[s]
  <2>1. PackageScope(d, port, pkg) \in Scope
    BY DEF PackageScope, Scope, PortOrNil
  <2> QED BY <1>3, <1>5, <2>1 DEF ActivateNew
<1>6. ASSUME NEW i \in DOMAIN instances, NEW at \in Times, NEW ttl \in Lifetimes,
             Acquire(i, at, ttl)
      PROVE  \A s \in Scope : fence'[s] >= fence[s]
  BY <1>3, <1>6, ScopeOfType DEF Acquire
<1>7. CASE UNCHANGED fence
  BY <1>1, <1>7
<1> QED
  BY <1>2, <1>4, <1>5, <1>6, <1>7, MintsNothing, RevokesOnly DEF Next

(* Every operation, device registration and restart keeps the minted       *)
(* tokens distinct and at or below the mark.                               *)
LEMMA TokenStep == TypeOK /\ TypeOK' /\ TokensMinted /\ [Next]_vars => TokensMinted'
<1> SUFFICES ASSUME TypeOK, TypeOK', TokensMinted, [Next]_vars
             PROVE  TokensMinted'
  OBVIOUS
<1>1. \A s \in Scope : fence'[s] >= fence[s]
  BY FenceStep
<1>2. leases \in [DOMAIN leases -> Lease]
  BY DEF TypeOK
<1>3. ASSUME NEW doomed, leases' = Revoke(doomed)
      PROVE  TokensMinted'
  <2>1. /\ DOMAIN leases' = DOMAIN leases
        /\ \A l \in DOMAIN leases : /\ leases'[l].scope = leases[l].scope
                                    /\ leases'[l].token = leases[l].token
    BY <1>2, <1>3, RevokeType
  <2> QED BY <1>1, <2>1, TokensKept
<1>4. CASE UNCHANGED leases
  BY <1>1, <1>4, TokensKept
<1>5. ASSUME NEW d \in Device, NEW port \in PortOrNil, NEW pkg \in Package,
             NEW at \in Times, NEW ttl \in Lifetimes, ActivateNew(d, port, pkg, at, ttl)
      PROVE  TokensMinted'
  <2> DEFINE s == PackageScope(d, port, pkg)
             i == Cardinality(DOMAIN instances) + 1
  <2>1. s \in Scope
    BY DEF PackageScope, Scope, PortOrNil
  <2>2. i \in InstanceId
    BY <1>5, CountType, BoundAssumption DEF ActivateNew, InstanceId
  <2>3. leases' = Grant(s, i, at, ttl) /\ fence' = Advance(s)
    BY <1>5 DEF ActivateNew
  <2> QED BY <2>1, <2>2, <2>3, TokenGranted
<1>6. ASSUME NEW i \in DOMAIN instances, NEW at \in Times, NEW ttl \in Lifetimes,
             Acquire(i, at, ttl)
      PROVE  TokensMinted'
  <2>1. ScopeOf(i) \in Scope /\ i \in InstanceId
    BY ScopeOfType DEF TypeOK
  <2>2. leases' = Grant(ScopeOf(i), i, at, ttl) /\ fence' = Advance(ScopeOf(i))
    BY <1>6 DEF Acquire
  <2> QED BY <2>1, <2>2, TokenGranted
<1>7. ASSUME NEW d \in Device, NEW n \in 1..MaxIncarnation, RegisterDevice(d, n)
      PROVE  TokensMinted'
  BY <1>3, <1>7 DEF RegisterDevice
<1>8. CASE Restart
  BY <1>3, <1>8 DEF Restart
<1> QED
  BY <1>3, <1>4, <1>5, <1>6, <1>7, <1>8, MintsNothing, RevokesOnly DEF Next

(* In every reachable state the rows of a scope carry distinct tokens, none *)
(* above the mark of the fencing ledger.                                   *)
THEOREM TokensAlwaysMinted == Spec => []TokensMinted
<1>1. Init => TokensMinted
  BY DEF Init, TokensMinted
<1>2. TypeOK /\ TypeOK' /\ TokensMinted /\ [Next]_vars => TokensMinted'
  BY TokenStep
<1> QED BY <1>1, <1>2, TypeCorrect, PTL DEF Spec

(* At most one lease per scope is acceptable as authority, for any number  *)
(* of devices, ports, instances, leases and restarts, whatever the clock   *)
(* shows and whether or not activations move instances between ports.      *)
THEOREM OneHolder == Spec => []OneHolderPerScope
<1>1. TypeOK /\ TokensMinted => OneHolderPerScope
  <2> SUFFICES ASSUME TypeOK, TokensMinted,
                      NEW l \in DOMAIN leases, NEW k \in DOMAIN leases,
                      Stands(l), Stands(k), leases[l].scope = leases[k].scope
               PROVE  l = k
    BY DEF OneHolderPerScope
  <2>1. /\ leases[l].token >= fence[leases[l].scope]
        /\ leases[k].token >= fence[leases[k].scope]
    BY DEF Stands, Standing
  <2>2. /\ leases[l].token <= fence[leases[l].scope]
        /\ leases[k].token <= fence[leases[k].scope]
    BY DEF TokensMinted
  <2>3. leases[l] \in Lease /\ leases[k] \in Lease
    BY DEF TypeOK
  <2>4. leases[l].token \in Nat /\ leases[k].token \in Nat /\ leases[l].scope \in Scope
    BY <2>3 DEF Lease
  <2>5. fence[leases[l].scope] \in Nat
    BY <2>4 DEF TypeOK
  <2>6. leases[l].token = leases[k].token
    BY <2>1, <2>2, <2>4, <2>5
  <2> QED BY <2>6 DEF TokensMinted
<1> QED BY <1>1, TypeCorrect, TokensAlwaysMinted, PTL

(* The mark of a scope never falls, across every operation, device         *)
(* registration and restart.                                               *)
THEOREM FenceNeverFalls == Spec => [][\A s \in Scope : fence'[s] >= fence[s]]_vars
<1>1. TypeOK /\ [Next]_vars => [\A s \in Scope : fence'[s] >= fence[s]]_vars
  BY FenceStep
<1> QED BY <1>1, TypeCorrect, PTL DEF Spec

------------------------------------------------------------------------------
(* Stopped instances.                                                      *)

(* Identities are given out in order: a new instance never takes the place *)
(* of an older one.                                                        *)
Numbered == \E n \in Nat : DOMAIN instances = 1..n

(* What a step may do to the set of instances.                             *)
LEMMA DomainStep ==
  ASSUME [Next]_vars
  PROVE  \/ DOMAIN instances' = DOMAIN instances
         \/ DOMAIN instances' = DOMAIN instances \cup {Cardinality(DOMAIN instances) + 1}
<1>1. ASSUME NEW d \in Device, NEW n \in 1..MaxIncarnation, RegisterDevice(d, n)
      PROVE  DOMAIN instances' = DOMAIN instances
  BY <1>1 DEF RegisterDevice
<1>2. ASSUME NEW d \in Device, EvidenceArrives(d) \/ EvidenceLapses(d)
      PROVE  DOMAIN instances' = DOMAIN instances
  BY <1>2 DEF EvidenceArrives, EvidenceLapses
<1>3. ASSUME NEW d \in Device, NEW port \in PortOrNil, NEW pkg \in Package,
             NEW at \in Times, NEW ttl \in Lifetimes, ActivateNew(d, port, pkg, at, ttl)
      PROVE  DOMAIN instances' = DOMAIN instances \cup {Cardinality(DOMAIN instances) + 1}
  BY <1>3 DEF ActivateNew
<1>4. ASSUME NEW i \in DOMAIN instances, NEW at \in Times, NEW ttl \in Lifetimes,
             Acquire(i, at, ttl)
      PROVE  DOMAIN instances' = DOMAIN instances
  BY <1>4 DEF Acquire
<1>5. ASSUME NEW i \in DOMAIN instances, NEW at \in Times, NEW l \in DOMAIN leases,
             \/ \E port \in PortOrNil, pkg \in Package : ActivateExisting(i, port, pkg, l, at)
             \/ Rollback(i, l, at)
             \/ \E want \in {"quiesced", "withdrawn"} : Drain(i, want, l, at)
      PROVE  DOMAIN instances' = DOMAIN instances
  <2>1. ASSUME NEW port \in PortOrNil, NEW pkg \in Package, ActivateExisting(i, port, pkg, l, at)
        PROVE  DOMAIN instances' = DOMAIN instances
    BY <2>1 DEF ActivateExisting
  <2>2. CASE Rollback(i, l, at)
    BY <2>2 DEF Rollback
  <2>3. ASSUME NEW want \in {"quiesced", "withdrawn"}, Drain(i, want, l, at)
        PROVE  DOMAIN instances' = DOMAIN instances
    BY <2>3 DEF Drain
  <2> QED BY <1>5, <2>1, <2>2, <2>3
<1>6. ASSUME NEW l \in DOMAIN leases, Release(l)
      PROVE  DOMAIN instances' = DOMAIN instances
  BY <1>6 DEF Release
<1>7. ASSUME NEW i \in DOMAIN instances,
             Acknowledge(i) \/ \E outcome \in EffectOutcome : ReportEffect(i, outcome)
      PROVE  DOMAIN instances' = DOMAIN instances
  BY <1>7 DEF Acknowledge, ReportEffect
<1>8. CASE Restart
  BY <1>8 DEF Restart
<1>9. CASE UNCHANGED vars
  BY <1>9 DEF vars
<1> QED BY <1>1, <1>2, <1>3, <1>4, <1>5, <1>6, <1>7, <1>8, <1>9 DEF Next

(* The identity the next instance will have.                               *)
LEMMA NextInstance ==
  ASSUME NEW n \in Nat, DOMAIN instances = 1..n
  PROVE  Cardinality(DOMAIN instances) = n
BY FS_Interval

(* In every reachable state the instances are numbered without a gap.      *)
THEOREM InstancesNumbered == Spec => []Numbered
<1>1. Init => Numbered
  <2>1. ASSUME Init PROVE DOMAIN instances = 1..0
    BY <2>1 DEF Init
  <2> QED BY <2>1 DEF Numbered
<1>2. Numbered /\ [Next]_vars => Numbered'
  <2> SUFFICES ASSUME Numbered, [Next]_vars PROVE Numbered'
    OBVIOUS
  <2>1. PICK n \in Nat : DOMAIN instances = 1..n
    BY DEF Numbered
  <2>2. Cardinality(DOMAIN instances) = n
    BY <2>1, NextInstance
  <2>3. DOMAIN instances' = 1..n \/ DOMAIN instances' = 1..n \cup {n + 1}
    BY <2>1, <2>2, DomainStep
  <2>4. 1..n \cup {n + 1} = 1..(n + 1) /\ n + 1 \in Nat
    OBVIOUS
  <2> QED BY <2>3, <2>4 DEF Numbered
<1> QED BY <1>1, <1>2, PTL DEF Spec

(* What a report may make of a stopped instance.                           *)
LEMMA ReportOfRetired ==
  ASSUME NEW from \in Retired, NEW outcome \in EffectOutcome,
         LegalLifecycle(from, OutcomePhase(outcome))
  PROVE  OutcomePhase(outcome) \in Retired
<1> DEFINE to == OutcomePhase(outcome)
<1>1. to \in {"applied", "verified", "failed", "quiesced", "withdrawn"}
  BY DEF OutcomePhase, EffectOutcome
<1>2. to = from \/ to \in LifecycleSuccessors[from]
  BY DEF LegalLifecycle
<1>3. LifecycleSuccessors[from] \subseteq {"desired", "withdrawn", "stale"}
  BY DEF LifecycleSuccessors, Retired
<1> HIDE DEF to
<1> QED BY <1>1, <1>2, <1>3 DEF Retired, to

(* No step takes a stopped instance out of the retired states.             *)
LEMMA RetiredStep ==
  ASSUME TypeOK, Numbered, [Next]_vars,
         NEW i \in DOMAIN instances, instances[i].lifecycle \in Retired
  PROVE  instances'[i].lifecycle \in Retired
<1> DEFINE kept == instances'[i].lifecycle \in Retired
<1>1. ~PermitsMutation(instances[i].lifecycle) /\ ~IsEffectClaim(instances[i].lifecycle)
  BY DEF Retired, PermitsMutation, IsEffectClaim
<1>2. instances[i].lifecycle \notin {"unknown", "desired", "eligible", "authorized"}
  BY DEF Retired
<1>3. instances[i] \in Instance
  BY DEF TypeOK
<1>4. ASSUME NEW d \in Device, NEW n \in 1..MaxIncarnation, RegisterDevice(d, n)
      PROVE  kept
  <2>1. \/ instances'[i] = instances[i]
        \/ instances'[i] = [instances[i] EXCEPT !.lifecycle = "stale", !.authority = "revoked",
                                               !.lease = NoLease]
    BY <1>4 DEF RegisterDevice
  <2> QED BY <1>3, <2>1 DEF Retired, Instance
<1>5. ASSUME NEW d \in Device, EvidenceArrives(d) \/ EvidenceLapses(d)
      PROVE  kept
  BY <1>5 DEF EvidenceArrives, EvidenceLapses
<1>6. ASSUME NEW d \in Device, NEW port \in PortOrNil, NEW pkg \in Package,
             NEW at \in Times, NEW ttl \in Lifetimes, ActivateNew(d, port, pkg, at, ttl)
      PROVE  kept
  <2>1. PICK n \in Nat : DOMAIN instances = 1..n
    BY DEF Numbered
  <2>2. i # Cardinality(DOMAIN instances) + 1
    BY <2>1, NextInstance
  <2>3. instances'[i] = instances[i]
    BY <1>6, <2>2 DEF ActivateNew
  <2> QED BY <2>3
<1>7. ASSUME NEW j \in DOMAIN instances, NEW at \in Times, NEW ttl \in Lifetimes,
             Acquire(j, at, ttl)
      PROVE  kept
  <2>1. j # i
    BY <1>1, <1>7 DEF Acquire
  <2>2. instances'[i] = instances[i]
    BY <1>7, <2>1 DEF Acquire
  <2> QED BY <2>2
<1>8. ASSUME NEW j \in DOMAIN instances, NEW at \in Times, NEW l \in DOMAIN leases,
             NEW port \in PortOrNil, NEW pkg \in Package, ActivateExisting(j, port, pkg, l, at)
      PROVE  kept
  <2>1. j # i
    BY <1>1, <1>8 DEF ActivateExisting
  <2>2. instances'[i] = instances[i]
    BY <1>8, <2>1 DEF ActivateExisting
  <2> QED BY <2>2
<1>9. ASSUME NEW j \in DOMAIN instances, NEW at \in Times, NEW l \in DOMAIN leases,
             Rollback(j, l, at)
      PROVE  kept
  <2>1. j # i
    BY <1>1, <1>9 DEF Rollback
  <2>2. instances'[i] = instances[i]
    BY <1>9, <2>1 DEF Rollback
  <2> QED BY <2>2
<1>10. ASSUME NEW j \in DOMAIN instances, NEW at \in Times, NEW l \in DOMAIN leases,
              NEW want \in {"quiesced", "withdrawn"}, Drain(j, want, l, at)
       PROVE  kept
  <2>1. instances'[i].lifecycle = instances[i].lifecycle
    BY <1>3, <1>10 DEF Drain, Instance
  <2> QED BY <2>1
<1>11. ASSUME NEW l \in DOMAIN leases, Release(l)
       PROVE  kept
  <2>1. instances'[i].lifecycle = instances[i].lifecycle
    BY <1>3, <1>11 DEF Release, Instance
  <2> QED BY <2>1
<1>12. ASSUME NEW j \in DOMAIN instances, Acknowledge(j)
       PROVE  kept
  <2>1. instances'[i].lifecycle = instances[i].lifecycle
    BY <1>2, <1>3, <1>12 DEF Acknowledge, Instance
  <2> QED BY <2>1
<1>13. ASSUME NEW j \in DOMAIN instances, NEW outcome \in EffectOutcome,
              ReportEffect(j, outcome)
       PROVE  kept
  <2>1. CASE j # i
    <3>1. instances'[i] = instances[i]
      BY <1>13, <2>1 DEF ReportEffect
    <3> QED BY <3>1
  <2>2. CASE j = i
    <3>1. instances'[i].lifecycle = OutcomePhase(outcome)
      BY <1>3, <1>13, <2>2 DEF ReportEffect, Instance
    <3>2. LegalLifecycle(instances[i].lifecycle, OutcomePhase(outcome))
      BY <1>13, <2>2 DEF ReportEffect
    <3> QED BY <3>1, <3>2, ReportOfRetired
  <2> QED BY <2>1, <2>2
<1>14. CASE Restart
  <2>1. instances'[i].lifecycle = instances[i].lifecycle
    BY <1>2, <1>3, <1>14 DEF Restart, AfterRestart, Instance
  <2> QED BY <2>1
<1>15. CASE UNCHANGED vars
  BY <1>15 DEF vars
<1> HIDE DEF kept
<1> QED BY <1>4, <1>5, <1>6, <1>7, <1>8, <1>9, <1>10, <1>11, <1>12, <1>13, <1>14, <1>15
        DEF Next, kept

(* A stopped instance is never revived, by any command, late report,       *)
(* device registration or restart, in any configuration.                   *)
THEOREM StoppedStaysStopped == Spec => RetiredStaysRetired
<1>1. TypeOK /\ Numbered /\ [Next]_vars =>
        [\A i \in DOMAIN instances :
           instances[i].lifecycle \in Retired => instances'[i].lifecycle \in Retired]_vars
  BY RetiredStep
<1> QED BY <1>1, TypeCorrect, InstancesNumbered, PTL DEF Spec, RetiredStaysRetired

==============================================================================
