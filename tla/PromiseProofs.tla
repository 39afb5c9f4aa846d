---------------------------- MODULE PromiseProofs ----------------------------
(***************************************************************************)
(* Coordinator implements ControlFabric, for any number of devices,        *)
(* packages and restarts: an opening pass written record by record and cut *)
(* short anywhere is one restart, and three records of evidence are one    *)
(* flag.  Behaviours of the coordinator are then behaviours of the core,   *)
(* and what is proved of the core holds of it.                             *)
(***************************************************************************)
EXTENDS CoordinatorProofs

(* ControlFabric of the view from outside, with its theorems.              *)
Facts ==
  INSTANCE AuthorityProofs WITH
    epoch <- IF Serving THEN epoch ELSE before.epoch,
    instances <- IF Serving THEN instances ELSE before.instances,
    leases <- IF Serving THEN leases ELSE before.leases,
    fence <- IF Serving THEN fence ELSE before.fence,
    evidence <- IF Serving THEN Evident ELSE before.evidence

------------------------------------------------------------------------------
(* While the store is open, ControlFabric says the same of the             *)
(* coordinator's own variables (Core), of the view from outside (Promise), *)
(* and of that view as its theorems see it (Facts).                        *)

(* Finite sets are the same everywhere.                                    *)
LEMMA SameCount ==
  \A S : /\ Core!Cardinality(S) = Promise!Cardinality(S)
         /\ Core!Cardinality(S) = Facts!Cardinality(S)
BY DEF Core!Cardinality, Promise!Cardinality, Facts!Cardinality

(* What depends on no variable.                                            *)
LEMMA SameConstants ==
  /\ Core!NoLease = Promise!NoLease /\ Core!NoLease = Facts!NoLease
  /\ Core!PortOrNil = Promise!PortOrNil /\ Core!PortOrNil = Facts!PortOrNil
  /\ Core!Scope = Promise!Scope /\ Core!Scope = Facts!Scope
  /\ Core!EffectOutcome = Promise!EffectOutcome /\ Core!EffectOutcome = Facts!EffectOutcome
  /\ \A x : /\ Core!PermitsMutation(x) <=> Promise!PermitsMutation(x)
            /\ Core!PermitsMutation(x) <=> Facts!PermitsMutation(x)
  /\ \A x : /\ Core!IsEffectClaim(x) <=> Promise!IsEffectClaim(x)
            /\ Core!IsEffectClaim(x) <=> Facts!IsEffectClaim(x)
  /\ \A x, y : /\ Core!LegalAttempt(x, y) <=> Promise!LegalAttempt(x, y)
               /\ Core!LegalAttempt(x, y) <=> Facts!LegalAttempt(x, y)
  /\ \A x, y : /\ Core!LegalLifecycle(x, y) <=> Promise!LegalLifecycle(x, y)
               /\ Core!LegalLifecycle(x, y) <=> Facts!LegalLifecycle(x, y)
  /\ \A x : /\ Core!OutcomePhase(x) = Promise!OutcomePhase(x)
            /\ Core!OutcomePhase(x) = Facts!OutcomePhase(x)
  /\ \A x : /\ Core!EndsAuthority(x) <=> Promise!EndsAuthority(x)
            /\ Core!EndsAuthority(x) <=> Facts!EndsAuthority(x)
  /\ \A h, p : /\ Core!SetPhase(h, p) = Promise!SetPhase(h, p)
               /\ Core!SetPhase(h, p) = Facts!SetPhase(h, p)
  /\ \A h, x, y, z : /\ Core!Dispatch(h, x, y, z) = Promise!Dispatch(h, x, y, z)
                     /\ Core!Dispatch(h, x, y, z) = Facts!Dispatch(h, x, y, z)
  /\ \A d, port, pkg : /\ Core!PackageScope(d, port, pkg) = Promise!PackageScope(d, port, pkg)
                       /\ Core!PackageScope(d, port, pkg) = Facts!PackageScope(d, port, pkg)
<1>1. /\ Core!NoLease = Promise!NoLease /\ Core!NoLease = Facts!NoLease
      /\ Core!PortOrNil = Promise!PortOrNil /\ Core!PortOrNil = Facts!PortOrNil
      /\ Core!Scope = Promise!Scope /\ Core!Scope = Facts!Scope
      /\ Core!EffectOutcome = Promise!EffectOutcome /\ Core!EffectOutcome = Facts!EffectOutcome
      /\ \A x : /\ Core!PermitsMutation(x) <=> Promise!PermitsMutation(x)
                /\ Core!PermitsMutation(x) <=> Facts!PermitsMutation(x)
      /\ \A x : /\ Core!IsEffectClaim(x) <=> Promise!IsEffectClaim(x)
                /\ Core!IsEffectClaim(x) <=> Facts!IsEffectClaim(x)
      /\ \A x : /\ Core!OutcomePhase(x) = Promise!OutcomePhase(x)
                /\ Core!OutcomePhase(x) = Facts!OutcomePhase(x)
      /\ \A x : /\ Core!EndsAuthority(x) <=> Promise!EndsAuthority(x)
                /\ Core!EndsAuthority(x) <=> Facts!EndsAuthority(x)
      /\ \A h, p : /\ Core!SetPhase(h, p) = Promise!SetPhase(h, p)
                   /\ Core!SetPhase(h, p) = Facts!SetPhase(h, p)
      /\ \A d, port, pkg : /\ Core!PackageScope(d, port, pkg) = Promise!PackageScope(d, port, pkg)
                           /\ Core!PackageScope(d, port, pkg) = Facts!PackageScope(d, port, pkg)
  BY DEF Core!NoLease, Promise!NoLease, Facts!NoLease, Core!PortOrNil, Promise!PortOrNil,
      Facts!PortOrNil, Core!Scope, Promise!Scope, Facts!Scope, Core!EffectOutcome,
      Promise!EffectOutcome, Facts!EffectOutcome, Core!PermitsMutation,
      Promise!PermitsMutation, Facts!PermitsMutation, Core!IsEffectClaim,
      Promise!IsEffectClaim, Facts!IsEffectClaim, Core!OutcomePhase, Promise!OutcomePhase,
      Facts!OutcomePhase, Core!EndsAuthority, Promise!EndsAuthority, Facts!EndsAuthority,
      Core!SetPhase, Promise!SetPhase, Facts!SetPhase, Core!PackageScope,
      Promise!PackageScope, Facts!PackageScope
<1>2. \A x, y : /\ Core!LegalAttempt(x, y) <=> Promise!LegalAttempt(x, y)
                /\ Core!LegalAttempt(x, y) <=> Facts!LegalAttempt(x, y)
  BY DEF Core!LegalAttempt, Promise!LegalAttempt, Facts!LegalAttempt, Core!AttemptSuccessors,
      Promise!AttemptSuccessors, Facts!AttemptSuccessors
<1>3. \A x, y : /\ Core!LegalLifecycle(x, y) <=> Promise!LegalLifecycle(x, y)
                /\ Core!LegalLifecycle(x, y) <=> Facts!LegalLifecycle(x, y)
  BY DEF Core!LegalLifecycle, Promise!LegalLifecycle, Facts!LegalLifecycle,
      Core!LifecycleSuccessors, Promise!LifecycleSuccessors, Facts!LifecycleSuccessors
<1>4. \A h, x, y, z : /\ Core!Dispatch(h, x, y, z) = Promise!Dispatch(h, x, y, z)
                      /\ Core!Dispatch(h, x, y, z) = Facts!Dispatch(h, x, y, z)
  BY DEF Core!Dispatch, Promise!Dispatch, Facts!Dispatch, Core!Capped, Promise!Capped,
      Facts!Capped
<1> QED BY <1>1, <1>2, <1>3, <1>4

(* What a decision reads.                                                  *)
LEMMA SameView ==
  ASSUME Serving
  PROVE  /\ \A i : /\ Core!ScopeOf(i) = Promise!ScopeOf(i)
                   /\ Core!ScopeOf(i) = Facts!ScopeOf(i)
         /\ \A l, i, at : /\ Core!Authorises(l, i, at) <=> Promise!Authorises(l, i, at)
                          /\ Core!Authorises(l, i, at) <=> Facts!Authorises(l, i, at)
         /\ \A s, at : /\ Core!Covering(s, at) = Promise!Covering(s, at)
                       /\ Core!Covering(s, at) = Facts!Covering(s, at)
         /\ \A at : /\ Core!Pruned(at) = Promise!Pruned(at)
                    /\ Core!Pruned(at) = Facts!Pruned(at)
         /\ \A at : /\ Core!Room(at) <=> Promise!Room(at)
                    /\ Core!Room(at) <=> Facts!Room(at)
         /\ \A s : /\ Core!Advance(s) = Promise!Advance(s)
                   /\ Core!Advance(s) = Facts!Advance(s)
         /\ \A s, i, at, ttl : /\ Core!Grant(s, i, at, ttl) = Promise!Grant(s, i, at, ttl)
                               /\ Core!Grant(s, i, at, ttl) = Facts!Grant(s, i, at, ttl)
         /\ \A doomed : /\ Core!Revoke(doomed) = Promise!Revoke(doomed)
                        /\ Core!Revoke(doomed) = Facts!Revoke(doomed)
         /\ \A i : /\ Core!InFlight(i) = Promise!InFlight(i)
                   /\ Core!InFlight(i) = Facts!InFlight(i)
         /\ \A i : /\ Core!NextAttemptId(i) = Promise!NextAttemptId(i)
                   /\ Core!NextAttemptId(i) = Facts!NextAttemptId(i)
         /\ \A i : /\ Core!Current(i) = Promise!Current(i)
                   /\ Core!Current(i) = Facts!Current(i)
         /\ \A s, self, at : /\ Core!ScopeFree(s, self, at) <=> Promise!ScopeFree(s, self, at)
                             /\ Core!ScopeFree(s, self, at) <=> Facts!ScopeFree(s, self, at)
         /\ \A d : /\ Core!Compatible(d) <=> Promise!Compatible(d)
                   /\ Core!Compatible(d) <=> Facts!Compatible(d)
<1>1. \A i : /\ Core!ScopeOf(i) = Promise!ScopeOf(i)
             /\ Core!ScopeOf(i) = Facts!ScopeOf(i)
  BY DEF Core!ScopeOf, Promise!ScopeOf, Facts!ScopeOf
<1>2. \A l, i, at : /\ Core!Authorises(l, i, at) <=> Promise!Authorises(l, i, at)
                    /\ Core!Authorises(l, i, at) <=> Facts!Authorises(l, i, at)
  BY DEF Core!Authorises, Promise!Authorises, Facts!Authorises, Core!Standing,
      Promise!Standing, Facts!Standing, Core!Unexpired, Promise!Unexpired, Facts!Unexpired,
      Core!ScopeOf, Promise!ScopeOf, Facts!ScopeOf
<1>3. \A s, at : /\ Core!Covering(s, at) = Promise!Covering(s, at)
                 /\ Core!Covering(s, at) = Facts!Covering(s, at)
  BY DEF Core!Covering, Promise!Covering, Facts!Covering, Core!Unexpired, Promise!Unexpired,
      Facts!Unexpired
<1>4. \A at : /\ Core!Pruned(at) = Promise!Pruned(at)
              /\ Core!Pruned(at) = Facts!Pruned(at)
  BY SameCount DEF
      Core!Pruned, Promise!Pruned, Facts!Pruned, Core!Excess, Promise!Excess, Facts!Excess,
      Core!Prunable, Promise!Prunable, Facts!Prunable, Core!Unexpired, Promise!Unexpired,
      Facts!Unexpired
<1>5. \A at : /\ Core!Room(at) <=> Promise!Room(at)
              /\ Core!Room(at) <=> Facts!Room(at)
  BY SameCount DEF
      Core!Room, Promise!Room, Facts!Room, Core!Excess, Promise!Excess, Facts!Excess,
      Core!Prunable, Promise!Prunable, Facts!Prunable, Core!Unexpired, Promise!Unexpired,
      Facts!Unexpired
<1>6. \A s : /\ Core!Advance(s) = Promise!Advance(s)
             /\ Core!Advance(s) = Facts!Advance(s)
  BY DEF Core!Advance, Promise!Advance, Facts!Advance
<1>7. \A s, i, at, ttl : /\ Core!Grant(s, i, at, ttl) = Promise!Grant(s, i, at, ttl)
                         /\ Core!Grant(s, i, at, ttl) = Facts!Grant(s, i, at, ttl)
  BY <1>4 DEF Core!Grant, Promise!Grant, Facts!Grant
<1>8. \A doomed : /\ Core!Revoke(doomed) = Promise!Revoke(doomed)
                  /\ Core!Revoke(doomed) = Facts!Revoke(doomed)
  BY DEF Core!Revoke, Promise!Revoke, Facts!Revoke
<1>9. \A i : /\ Core!InFlight(i) = Promise!InFlight(i)
             /\ Core!InFlight(i) = Facts!InFlight(i)
  BY DEF Core!InFlight, Promise!InFlight, Facts!InFlight, Core!InFlightPhase,
      Promise!InFlightPhase, Facts!InFlightPhase
<1>10. \A i : /\ Core!NextAttemptId(i) = Promise!NextAttemptId(i)
              /\ Core!NextAttemptId(i) = Facts!NextAttemptId(i)
  BY DEF Core!NextAttemptId, Promise!NextAttemptId, Facts!NextAttemptId
<1>11. \A i : /\ Core!Current(i) = Promise!Current(i)
              /\ Core!Current(i) = Facts!Current(i)
  BY DEF Core!Current, Promise!Current, Facts!Current
<1>12. \A s, self, at : /\ Core!ScopeFree(s, self, at) <=> Promise!ScopeFree(s, self, at)
                        /\ Core!ScopeFree(s, self, at) <=> Facts!ScopeFree(s, self, at)
  BY DEF Core!ScopeFree, Promise!ScopeFree, Facts!ScopeFree, Core!Covering, Promise!Covering,
      Facts!Covering, Core!Unexpired, Promise!Unexpired, Facts!Unexpired, Core!ScopeOf,
      Promise!ScopeOf, Facts!ScopeOf
<1>13. \A d : /\ Core!Compatible(d) <=> Promise!Compatible(d)
              /\ Core!Compatible(d) <=> Facts!Compatible(d)
  BY DEF Core!Compatible, Promise!Compatible, Facts!Compatible
<1> QED BY <1>1, <1>2, <1>3, <1>4, <1>5, <1>6, <1>7, <1>8, <1>9, <1>10, <1>11, <1>12, <1>13

(* So an operation of the core is the same operation seen from outside.    *)
LEMMA SameOperations ==
  ASSUME Serving, Serving'
  PROVE  /\ \A d, n :
              Core!RegisterDevice(d, n)
              => Promise!RegisterDevice(d, n)
                 /\ Facts!RegisterDevice(d, n)
         /\ \A i, at, ttl :
              Core!Acquire(i, at, ttl)
              => Promise!Acquire(i, at, ttl)
                 /\ Facts!Acquire(i, at, ttl)
         /\ \A l : Core!Release(l) => Promise!Release(l) /\ Facts!Release(l)
         /\ \A d, port, pkg, at, ttl :
              Core!ActivateNew(d, port, pkg, at, ttl)
              => Promise!ActivateNew(d, port, pkg, at, ttl)
                 /\ Facts!ActivateNew(d, port, pkg, at, ttl)
         /\ \A i, port, pkg, l, at :
              Core!ActivateExisting(i, port, pkg, l, at)
              => Promise!ActivateExisting(i, port, pkg, l, at)
                 /\ Facts!ActivateExisting(i, port, pkg, l, at)
         /\ \A i, l, at :
              Core!Rollback(i, l, at)
              => Promise!Rollback(i, l, at)
                 /\ Facts!Rollback(i, l, at)
         /\ \A i, want, l, at :
              Core!Drain(i, want, l, at)
              => Promise!Drain(i, want, l, at)
                 /\ Facts!Drain(i, want, l, at)
         /\ \A i : Core!Acknowledge(i) => Promise!Acknowledge(i) /\ Facts!Acknowledge(i)
         /\ \A i, outcome :
              Core!ReportEffect(i, outcome)
              => Promise!ReportEffect(i, outcome)
                 /\ Facts!ReportEffect(i, outcome)
<1>1. ASSUME NEW d, NEW n, Core!RegisterDevice(d, n)
      PROVE  /\ Promise!RegisterDevice(d, n)
             /\ Facts!RegisterDevice(d, n)
  <2>1. Promise!RegisterDevice(d, n)
    <3>1. /\ \A i : Core!ScopeOf(i) = Promise!ScopeOf(i)
          /\ Core!Scope = Promise!Scope
          /\ Core!NoLease = Promise!NoLease
          /\ \A doomed : Core!Revoke(doomed) = Promise!Revoke(doomed)
      BY SameConstants, SameView
    <3> QED BY <1>1, <3>1, SameCount DEF Core!RegisterDevice, Promise!RegisterDevice
  <2>2. Facts!RegisterDevice(d, n)
    <3>1. /\ \A i : Core!ScopeOf(i) = Facts!ScopeOf(i)
          /\ Core!Scope = Facts!Scope
          /\ Core!NoLease = Facts!NoLease
          /\ \A doomed : Core!Revoke(doomed) = Facts!Revoke(doomed)
      BY SameConstants, SameView
    <3> QED BY <1>1, <3>1, SameCount DEF Core!RegisterDevice, Facts!RegisterDevice
  <2> QED BY <2>1, <2>2
<1>2. ASSUME NEW i, NEW at, NEW ttl, Core!Acquire(i, at, ttl)
      PROVE  /\ Promise!Acquire(i, at, ttl)
             /\ Facts!Acquire(i, at, ttl)
  <2>1. Promise!Acquire(i, at, ttl)
    <3>1. /\ Core!ScopeOf(i) = Promise!ScopeOf(i)
          /\ \A x : Core!PermitsMutation(x) <=> Promise!PermitsMutation(x)
          /\ \A s : Core!Covering(s, at) = Promise!Covering(s, at)
          /\ Core!Room(at) <=> Promise!Room(at)
          /\ \A s : Core!Grant(s, i, at, ttl) = Promise!Grant(s, i, at, ttl)
          /\ \A s : Core!Advance(s) = Promise!Advance(s)
      BY SameConstants, SameView
    <3> QED BY <1>2, <3>1 DEF Core!Acquire, Promise!Acquire
  <2>2. Facts!Acquire(i, at, ttl)
    <3>1. /\ Core!ScopeOf(i) = Facts!ScopeOf(i)
          /\ \A x : Core!PermitsMutation(x) <=> Facts!PermitsMutation(x)
          /\ \A s : Core!Covering(s, at) = Facts!Covering(s, at)
          /\ Core!Room(at) <=> Facts!Room(at)
          /\ \A s : Core!Grant(s, i, at, ttl) = Facts!Grant(s, i, at, ttl)
          /\ \A s : Core!Advance(s) = Facts!Advance(s)
      BY SameConstants, SameView
    <3> QED BY <1>2, <3>1 DEF Core!Acquire, Facts!Acquire
  <2> QED BY <2>1, <2>2
<1>3. ASSUME NEW l, Core!Release(l)
      PROVE  /\ Promise!Release(l)
             /\ Facts!Release(l)
  <2>1. Promise!Release(l)
    <3>1. /\ Core!NoLease = Promise!NoLease
          /\ \A doomed : Core!Revoke(doomed) = Promise!Revoke(doomed)
      BY SameConstants, SameView
    <3> QED BY <1>3, <3>1 DEF Core!Release, Promise!Release
  <2>2. Facts!Release(l)
    <3>1. /\ Core!NoLease = Facts!NoLease
          /\ \A doomed : Core!Revoke(doomed) = Facts!Revoke(doomed)
      BY SameConstants, SameView
    <3> QED BY <1>3, <3>1 DEF Core!Release, Facts!Release
  <2> QED BY <2>1, <2>2
<1>4. ASSUME NEW d, NEW port, NEW pkg, NEW at, NEW ttl, Core!ActivateNew(d, port, pkg, at, ttl)
      PROVE  /\ Promise!ActivateNew(d, port, pkg, at, ttl)
             /\ Facts!ActivateNew(d, port, pkg, at, ttl)
  <2>1. Promise!ActivateNew(d, port, pkg, at, ttl)
    <3>1. /\ Core!PackageScope(d, port, pkg) = Promise!PackageScope(d, port, pkg)
          /\ \A s : Core!ScopeFree(s, {}, at) <=> Promise!ScopeFree(s, {}, at)
          /\ Core!Compatible(d) <=> Promise!Compatible(d)
          /\ Core!Room(at) <=> Promise!Room(at)
          /\ \A s, i : Core!Grant(s, i, at, ttl) = Promise!Grant(s, i, at, ttl)
          /\ \A s : Core!Advance(s) = Promise!Advance(s)
          /\ \A h, x, y, z : Core!Dispatch(h, x, y, z) = Promise!Dispatch(h, x, y, z)
      BY SameConstants, SameView
    <3> QED BY <1>4, <3>1, SameCount DEF Core!ActivateNew, Promise!ActivateNew
  <2>2. Facts!ActivateNew(d, port, pkg, at, ttl)
    <3>1. /\ Core!PackageScope(d, port, pkg) = Facts!PackageScope(d, port, pkg)
          /\ \A s : Core!ScopeFree(s, {}, at) <=> Facts!ScopeFree(s, {}, at)
          /\ Core!Compatible(d) <=> Facts!Compatible(d)
          /\ Core!Room(at) <=> Facts!Room(at)
          /\ \A s, i : Core!Grant(s, i, at, ttl) = Facts!Grant(s, i, at, ttl)
          /\ \A s : Core!Advance(s) = Facts!Advance(s)
          /\ \A h, x, y, z : Core!Dispatch(h, x, y, z) = Facts!Dispatch(h, x, y, z)
      BY SameConstants, SameView
    <3> QED BY <1>4, <3>1, SameCount DEF Core!ActivateNew, Facts!ActivateNew
  <2> QED BY <2>1, <2>2
<1>5. ASSUME NEW i, NEW port, NEW pkg, NEW l, NEW at, Core!ActivateExisting(i, port, pkg, l, at)
      PROVE  /\ Promise!ActivateExisting(i, port, pkg, l, at)
             /\ Facts!ActivateExisting(i, port, pkg, l, at)
  <2>1. Promise!ActivateExisting(i, port, pkg, l, at)
    <3>1. /\ \A d : Core!PackageScope(d, port, pkg) = Promise!PackageScope(d, port, pkg)
          /\ \A s : Core!ScopeFree(s, {i}, at) <=> Promise!ScopeFree(s, {i}, at)
          /\ Core!Authorises(l, i, at) <=> Promise!Authorises(l, i, at)
          /\ \A x : Core!PermitsMutation(x) <=> Promise!PermitsMutation(x)
          /\ Core!InFlight(i) = Promise!InFlight(i)
          /\ \A d : Core!Compatible(d) <=> Promise!Compatible(d)
          /\ Core!NextAttemptId(i) = Promise!NextAttemptId(i)
          /\ \A h, x, y, z : Core!Dispatch(h, x, y, z) = Promise!Dispatch(h, x, y, z)
      BY SameConstants, SameView
    <3> QED BY <1>5, <3>1, SameCount DEF Core!ActivateExisting, Promise!ActivateExisting
  <2>2. Facts!ActivateExisting(i, port, pkg, l, at)
    <3>1. /\ \A d : Core!PackageScope(d, port, pkg) = Facts!PackageScope(d, port, pkg)
          /\ \A s : Core!ScopeFree(s, {i}, at) <=> Facts!ScopeFree(s, {i}, at)
          /\ Core!Authorises(l, i, at) <=> Facts!Authorises(l, i, at)
          /\ \A x : Core!PermitsMutation(x) <=> Facts!PermitsMutation(x)
          /\ Core!InFlight(i) = Facts!InFlight(i)
          /\ \A d : Core!Compatible(d) <=> Facts!Compatible(d)
          /\ Core!NextAttemptId(i) = Facts!NextAttemptId(i)
          /\ \A h, x, y, z : Core!Dispatch(h, x, y, z) = Facts!Dispatch(h, x, y, z)
      BY SameConstants, SameView
    <3> QED BY <1>5, <3>1, SameCount DEF Core!ActivateExisting, Facts!ActivateExisting
  <2> QED BY <2>1, <2>2
<1>6. ASSUME NEW i, NEW l, NEW at, Core!Rollback(i, l, at)
      PROVE  /\ Promise!Rollback(i, l, at)
             /\ Facts!Rollback(i, l, at)
  <2>1. Promise!Rollback(i, l, at)
    <3>1. /\ Core!Authorises(l, i, at) <=> Promise!Authorises(l, i, at)
          /\ \A x : Core!IsEffectClaim(x) <=> Promise!IsEffectClaim(x)
          /\ Core!NextAttemptId(i) = Promise!NextAttemptId(i)
          /\ \A d : Core!Compatible(d) <=> Promise!Compatible(d)
          /\ \A h, x, y, z : Core!Dispatch(h, x, y, z) = Promise!Dispatch(h, x, y, z)
      BY SameConstants, SameView
    <3> QED BY <1>6, <3>1 DEF Core!Rollback, Promise!Rollback
  <2>2. Facts!Rollback(i, l, at)
    <3>1. /\ Core!Authorises(l, i, at) <=> Facts!Authorises(l, i, at)
          /\ \A x : Core!IsEffectClaim(x) <=> Facts!IsEffectClaim(x)
          /\ Core!NextAttemptId(i) = Facts!NextAttemptId(i)
          /\ \A d : Core!Compatible(d) <=> Facts!Compatible(d)
          /\ \A h, x, y, z : Core!Dispatch(h, x, y, z) = Facts!Dispatch(h, x, y, z)
      BY SameConstants, SameView
    <3> QED BY <1>6, <3>1 DEF Core!Rollback, Facts!Rollback
  <2> QED BY <2>1, <2>2
<1>7. ASSUME NEW i, NEW want, NEW l, NEW at, Core!Drain(i, want, l, at)
      PROVE  /\ Promise!Drain(i, want, l, at)
             /\ Facts!Drain(i, want, l, at)
  <2>1. Promise!Drain(i, want, l, at)
    <3>1. /\ Core!Authorises(l, i, at) <=> Promise!Authorises(l, i, at)
          /\ Core!NextAttemptId(i) = Promise!NextAttemptId(i)
          /\ \A doomed : Core!Revoke(doomed) = Promise!Revoke(doomed)
          /\ \A h, x, y, z : Core!Dispatch(h, x, y, z) = Promise!Dispatch(h, x, y, z)
          /\ Core!NoLease = Promise!NoLease
      BY SameConstants, SameView
    <3> QED BY <1>7, <3>1 DEF Core!Drain, Promise!Drain
  <2>2. Facts!Drain(i, want, l, at)
    <3>1. /\ Core!Authorises(l, i, at) <=> Facts!Authorises(l, i, at)
          /\ Core!NextAttemptId(i) = Facts!NextAttemptId(i)
          /\ \A doomed : Core!Revoke(doomed) = Facts!Revoke(doomed)
          /\ \A h, x, y, z : Core!Dispatch(h, x, y, z) = Facts!Dispatch(h, x, y, z)
          /\ Core!NoLease = Facts!NoLease
      BY SameConstants, SameView
    <3> QED BY <1>7, <3>1 DEF Core!Drain, Facts!Drain
  <2> QED BY <2>1, <2>2
<1>8. ASSUME NEW i, Core!Acknowledge(i)
      PROVE  /\ Promise!Acknowledge(i)
             /\ Facts!Acknowledge(i)
  <2>1. Promise!Acknowledge(i)
    <3>1. /\ Core!Current(i) = Promise!Current(i)
          /\ \A h, p : Core!SetPhase(h, p) = Promise!SetPhase(h, p)
      BY SameConstants, SameView
    <3> QED BY <1>8, <3>1 DEF Core!Acknowledge, Promise!Acknowledge
  <2>2. Facts!Acknowledge(i)
    <3>1. /\ Core!Current(i) = Facts!Current(i)
          /\ \A h, p : Core!SetPhase(h, p) = Facts!SetPhase(h, p)
      BY SameConstants, SameView
    <3> QED BY <1>8, <3>1 DEF Core!Acknowledge, Facts!Acknowledge
  <2> QED BY <2>1, <2>2
<1>9. ASSUME NEW i, NEW outcome, Core!ReportEffect(i, outcome)
      PROVE  /\ Promise!ReportEffect(i, outcome)
             /\ Facts!ReportEffect(i, outcome)
  <2>1. Promise!ReportEffect(i, outcome)
    <3>1. /\ Core!Current(i) = Promise!Current(i)
          /\ Core!OutcomePhase(outcome) = Promise!OutcomePhase(outcome)
          /\ Core!EndsAuthority(outcome) <=> Promise!EndsAuthority(outcome)
          /\ \A x, y : Core!LegalAttempt(x, y) <=> Promise!LegalAttempt(x, y)
          /\ \A x, y : Core!LegalLifecycle(x, y) <=> Promise!LegalLifecycle(x, y)
          /\ \A h, p : Core!SetPhase(h, p) = Promise!SetPhase(h, p)
          /\ Core!NoLease = Promise!NoLease
          /\ \A doomed : Core!Revoke(doomed) = Promise!Revoke(doomed)
      BY SameConstants, SameView
    <3> QED BY <1>9, <3>1 DEF Core!ReportEffect, Promise!ReportEffect
  <2>2. Facts!ReportEffect(i, outcome)
    <3>1. /\ Core!Current(i) = Facts!Current(i)
          /\ Core!OutcomePhase(outcome) = Facts!OutcomePhase(outcome)
          /\ Core!EndsAuthority(outcome) <=> Facts!EndsAuthority(outcome)
          /\ \A x, y : Core!LegalAttempt(x, y) <=> Facts!LegalAttempt(x, y)
          /\ \A x, y : Core!LegalLifecycle(x, y) <=> Facts!LegalLifecycle(x, y)
          /\ \A h, p : Core!SetPhase(h, p) = Facts!SetPhase(h, p)
          /\ Core!NoLease = Facts!NoLease
          /\ \A doomed : Core!Revoke(doomed) = Facts!Revoke(doomed)
      BY SameConstants, SameView
    <3> QED BY <1>9, <3>1 DEF Core!ReportEffect, Facts!ReportEffect
  <2> QED BY <2>1, <2>2
<1> QED BY <1>1, <1>2, <1>3, <1>4, <1>5, <1>6, <1>7, <1>8, <1>9

(* A step of the coordinator, seen from outside: one of ControlFabric, or  *)
(* nothing.                                                                *)
Promised == [Promise!Next]_Promise!vars /\ [Facts!Next]_Facts!vars

(* An operation of the core.                                               *)
LEMMA CommandPromised ==
  ASSUME Command, TablesFinite
  PROVE  Promised
<1>0. Serving /\ Serving'
  BY CommandKeeps DEF Command, Decide, Serving
<1>10. /\ Core!PortOrNil = Promise!PortOrNil /\ Core!PortOrNil = Facts!PortOrNil
      /\ EffectOutcome = Promise!EffectOutcome /\ EffectOutcome = Facts!EffectOutcome
  BY SameConstants DEF EffectOutcome, Promise!EffectOutcome, Facts!EffectOutcome
<1>1. ASSUME NEW d \in Device, NEW port \in Core!PortOrNil, NEW pkg \in Package,
             NEW at \in Times, NEW ttl \in Lifetimes,
             Decide(Core!ActivateNew(d, port, pkg, at, ttl))
      PROVE  Promise!Next /\ Facts!Next
  <2>1. Promise!ActivateNew(d, port, pkg, at, ttl) /\ Facts!ActivateNew(d, port, pkg, at, ttl)
    BY <1>0, <1>1, SameOperations DEF Decide
  <2> QED BY <1>10, <2>1 DEF Promise!Next, Facts!Next
<1>2. ASSUME NEW i \in DOMAIN instances, NEW at \in Times, NEW ttl \in Lifetimes,
             Decide(Core!Acquire(i, at, ttl))
      PROVE  Promise!Next /\ Facts!Next
  <2>1. Promise!Acquire(i, at, ttl) /\ Facts!Acquire(i, at, ttl)
    BY <1>0, <1>2, SameOperations DEF Decide
  <2> QED BY <1>0, <2>1 DEF Promise!Next, Facts!Next
<1>3. ASSUME NEW i \in DOMAIN instances, NEW at \in Times, NEW l \in DOMAIN leases,
             NEW port \in Core!PortOrNil, NEW pkg \in Package,
             Decide(Core!ActivateExisting(i, port, pkg, l, at))
      PROVE  Promise!Next /\ Facts!Next
  <2>1. /\ Promise!ActivateExisting(i, port, pkg, l, at)
        /\ Facts!ActivateExisting(i, port, pkg, l, at)
    BY <1>0, <1>3, SameOperations DEF Decide
  <2> QED BY <1>0, <1>10, <2>1 DEF Promise!Next, Facts!Next
<1>4. ASSUME NEW i \in DOMAIN instances, NEW at \in Times, NEW l \in DOMAIN leases,
             Decide(Core!Rollback(i, l, at))
      PROVE  Promise!Next /\ Facts!Next
  <2>1. Promise!Rollback(i, l, at) /\ Facts!Rollback(i, l, at)
    BY <1>0, <1>4, SameOperations DEF Decide
  <2> QED BY <1>0, <2>1 DEF Promise!Next, Facts!Next
<1>5. ASSUME NEW i \in DOMAIN instances, NEW at \in Times, NEW l \in DOMAIN leases,
             NEW want \in {"quiesced", "withdrawn"}, Decide(Core!Drain(i, want, l, at))
      PROVE  Promise!Next /\ Facts!Next
  <2>1. Promise!Drain(i, want, l, at) /\ Facts!Drain(i, want, l, at)
    BY <1>0, <1>5, SameOperations DEF Decide
  <2> QED BY <1>0, <2>1 DEF Promise!Next, Facts!Next
<1>6. ASSUME NEW l \in DOMAIN leases, Decide(Core!Release(l))
      PROVE  Promise!Next /\ Facts!Next
  <2>1. Promise!Release(l) /\ Facts!Release(l)
    BY <1>0, <1>6, SameOperations DEF Decide
  <2> QED BY <1>0, <2>1 DEF Promise!Next, Facts!Next
<1>7. ASSUME NEW i \in DOMAIN instances, Decide(Core!Acknowledge(i))
      PROVE  Promise!Next /\ Facts!Next
  <2>1. Promise!Acknowledge(i) /\ Facts!Acknowledge(i)
    BY <1>0, <1>7, SameOperations DEF Decide
  <2> QED BY <1>0, <2>1 DEF Promise!Next, Facts!Next
<1>8. ASSUME NEW i \in DOMAIN instances, NEW outcome \in EffectOutcome,
             Decide(Core!ReportEffect(i, outcome))
      PROVE  Promise!Next /\ Facts!Next
  <2>1. Promise!ReportEffect(i, outcome) /\ Facts!ReportEffect(i, outcome)
    BY <1>0, <1>8, SameOperations DEF Decide
  <2> QED BY <1>0, <1>10, <2>1 DEF Promise!Next, Facts!Next
<1>9. Promise!Next /\ Facts!Next
  BY <1>1, <1>2, <1>3, <1>4, <1>5, <1>6, <1>7, <1>8 DEF Command
<1> QED BY <1>9 DEF Promised

(* What a report about a device does to the flag of the device.            *)
LEMMA EvidenceMoves ==
  ASSUME Serving, Serving', UNCHANGED authority, ReportsTyped', EvidenceLives',
         NEW d \in Device,
         \A e \in Device \ {d} : /\ capability'[e] = capability[e]
                                 /\ observation'[e] = observation[e]
                                 /\ present'[e] = present[e]
  PROVE  Promised
<1>1. /\ UNCHANGED <<epoch, incarnation, instances, leases, nextLease, fence>>
  BY DEF authority
<1>2. \A e \in Device \ {d} : Evident'[e] = Evident[e]
  <2>1. \A e \in Device \ {d}, pkg \in Package : Supported(e, pkg)' <=> Supported(e, pkg)
    BY <1>1 DEF Supported
  <2> QED BY <2>1 DEF Evident
<1>3. CASE Evident'[d] = Evident[d]
  <2>1. Evident' = Evident
    BY <1>2, <1>3 DEF Evident
  <2> QED BY <1>1, <2>1 DEF Promise!vars, Facts!vars, Promised
<1>4. CASE Evident'[d] # Evident[d]
  <2>1. Evident \in [Device -> BOOLEAN] /\ Evident' \in [Device -> BOOLEAN]
    BY DEF Evident
  <2>2. Evident' = [Evident EXCEPT ![d] = ~Evident[d]]
    BY <1>2, <1>4, <2>1
  <2>3. CASE Evident'[d]
    <3>1. PICK pkg \in Package : Supported(d, pkg)'
      BY <2>3 DEF Evident
    <3>2. incarnation[d] # 0
      BY <3>1, <1>1 DEF Supported, EvidenceLives
    <3>3. Promise!EvidenceArrives(d) /\ Facts!EvidenceArrives(d)
      BY <1>1, <1>4, <2>1, <2>2, <2>3, <3>2 DEF Promise!EvidenceArrives, Facts!EvidenceArrives
    <3> QED BY <3>3 DEF Promise!Next, Facts!Next, Promised
  <2>4. CASE ~Evident'[d]
    <3>1. Promise!EvidenceLapses(d) /\ Facts!EvidenceLapses(d)
      BY <1>1, <1>4, <2>1, <2>2, <2>4 DEF Promise!EvidenceLapses, Facts!EvidenceLapses
    <3> QED BY <3>1 DEF Promise!Next, Facts!Next, Promised
  <2> QED BY <2>3, <2>4
<1> QED BY <1>3, <1>4

(* A report moves its device's flag, or registers the device.              *)
LEMMA ReportPromised ==
  ASSUME NEW d \in Device, Report(d), ReportsTyped, ReportsTyped', EvidenceLives'
  PROVE  Promised /\ Serving'
<1>1. ASSUME NEW n \in 1..MaxIncarnation, RegisterDevice(d, n)
      PROVE  Promised /\ Serving'
  <2>1. Serving /\ Serving' /\ Core!RegisterDevice(d, n)
    BY <1>1 DEF RegisterDevice, Serving
  <2>2. Promise!RegisterDevice(d, n) /\ Facts!RegisterDevice(d, n)
    BY <2>1, SameOperations
  <2> QED BY <2>1, <2>2 DEF Promise!Next, Facts!Next, Promised
<1>2. ASSUME NEW g \in 0..MaxGeneration, NEW fits \in Fits, SubmitCapability(d, g, fits)
      PROVE  Promised /\ Serving'
  <2>1. /\ Serving /\ Serving' /\ UNCHANGED <<authority, present, observation>>
        /\ \A e \in Device \ {d} : capability'[e] = capability[e]
    BY <1>2 DEF SubmitCapability, Serving
  <2> QED BY <2>1, EvidenceMoves
<1>3. ASSUME NEW there \in BOOLEAN, NEW observed \in ReportTimes, NEW at \in Times,
             SubmitObservation(d, there, observed, at)
      PROVE  Promised /\ Serving'
  <2>1. /\ Serving /\ Serving' /\ UNCHANGED <<authority, capability>>
        /\ \A e \in Device \ {d} : observation'[e] = observation[e] /\ present'[e] = present[e]
    BY <1>3 DEF SubmitObservation, Serving
  <2> QED BY <2>1, EvidenceMoves
<1>4. ASSUME Reverify(d)
      PROVE  Promised /\ Serving'
  <2>1. capability' = [capability EXCEPT ![d] =
              [[capability[d] EXCEPT !.freshness = "fresh"] EXCEPT !.epoch = epoch]]
    BY <1>4 DEF Reverify, ReportsTyped, Capability
  <2>2. /\ Serving /\ Serving' /\ UNCHANGED <<authority, present, observation>>
        /\ \A e \in Device \ {d} : capability'[e] = capability[e]
    BY <1>4, <2>1 DEF Reverify, Serving, ReportsTyped
  <2> QED BY <2>2, EvidenceMoves
<1> QED BY <1>1, <1>2, <1>3, <1>4 DEF Report

------------------------------------------------------------------------------
(* A pass, seen from what the store held before it.                        *)

FlightOf(history) == {k \in DOMAIN history : history[k].phase \in Core!InFlightPhase}

(* What a pass leaves of a record (Core!AfterRestart).                     *)
Marked(r) ==
  [r EXCEPT !.authority = IF @ = "granted" THEN "superseded" ELSE @,
            !.attempts = Core!Ambiguous(@),
            !.pending = @ \/ FlightOf(r.attempts) # {},
            !.lifecycle = IF @ = "unknown" /\ FlightOf(r.attempts) # {} THEN "stale" ELSE @,
            !.lease = Core!NoLease]

SweptIn(b) ==
  {i \in DOMAIN b.instances : \/ b.instances[i].authority = "granted"
                              \/ b.instances[i].pending
                              \/ b.instances[i].lease # Core!NoLease}

CarriedIn(b, s) ==
  \/ \E l \in DOMAIN b.leases : b.leases[l].scope = s
  \/ \E i \in DOMAIN b.instances : <<b.instances[i].device, b.instances[i].port>> = s

(* What a store held is well typed.                                        *)
Held(b) ==
  /\ b.epoch \in Nat
  /\ b.leases \in [DOMAIN b.leases -> Facts!Lease]
  /\ b.instances \in [DOMAIN b.instances -> Facts!Instance]
  /\ b.fence \in [Scope -> Nat]

(* Every record is what it was or what a pass makes of it, and marks have  *)
(* moved by no more than there were openings.                              *)
Toward(b) ==
  /\ epoch \in Nat /\ b.epoch <= epoch
  /\ DOMAIN leases = DOMAIN b.leases
  /\ leases = [l \in DOMAIN leases |-> leases[l]]
  /\ \A l \in DOMAIN leases : \/ leases[l] = b.leases[l]
                              \/ leases[l] = [b.leases[l] EXCEPT !.revoked = TRUE]
  /\ DOMAIN instances = DOMAIN b.instances
  /\ instances = [i \in DOMAIN instances |-> instances[i]]
  /\ \A i \in DOMAIN instances : \/ instances[i] = b.instances[i]
                                 \/ i \in SweptIn(b) /\ instances[i] = Marked(b.instances[i])
  /\ fence \in [Scope -> Nat]
  /\ \A s \in Scope :
       \/ fence[s] = b.fence[s]
       \/ CarriedIn(b, s) /\ fence[s] - b.fence[s] \in 0..(epoch - b.epoch)
  /\ \A d \in Device : capability[d].epoch <= epoch

(* And what is not yet what the pass makes of it waits in its list.        *)
Underway(b) ==
  /\ b.epoch < epoch /\ epoch <= MaxEpoch
  /\ \A l \in DOMAIN leases : \/ leases[l] = [b.leases[l] EXCEPT !.revoked = TRUE]
                              \/ Waits("lease", l)
  /\ \A i \in SweptIn(b) : instances[i] = Marked(b.instances[i]) \/ Waits("instance", i)
  /\ \A i : Waits("instance", i) => i \in SweptIn(b)
  /\ \A s \in Scope :
       IF Waits("scope", s)
         THEN CarriedIn(b, s) /\ fence[s] - b.fence[s] < epoch - b.epoch
         ELSE CarriedIn(b, s) => fence[s] > b.fence[s]
  /\ \A d \in Device : capability[d].epoch < epoch

(* A pass that finds a record marked leaves it as it is.                   *)
LEMMA MarkedTwice ==
  ASSUME NEW r \in Facts!Instance
  PROVE  Marked(Marked(r)) = Marked(r)
<1> DEFINE h == r.attempts
           m == Marked(r)
<1>1. h \in Seq(Facts!Attempt)
  BY DEF Facts!Instance
<1>2. \A k \in DOMAIN h : h[k] \in Facts!Attempt
  BY <1>1
<1>3. /\ DOMAIN Core!Ambiguous(h) = DOMAIN h
      /\ \A k \in DOMAIN h : Core!Ambiguous(h)[k].phase \notin Core!InFlightPhase
  BY <1>2 DEF Core!Ambiguous, Core!InFlightPhase, Facts!Attempt
<1>4. FlightOf(Core!Ambiguous(h)) = {}
  BY <1>3 DEF FlightOf
<1>5. Core!Ambiguous(Core!Ambiguous(h)) = Core!Ambiguous(h)
  BY <1>3 DEF Core!Ambiguous
<1>6. /\ m.authority = IF r.authority = "granted" THEN "superseded" ELSE r.authority
      /\ m.attempts = Core!Ambiguous(h)
      /\ m.pending = (r.pending \/ FlightOf(h) # {})
      /\ m.lease = Core!NoLease
  BY DEF Marked, Facts!Instance
<1>7. m = [m EXCEPT !.authority = m.authority, !.attempts = m.attempts, !.pending = m.pending,
                    !.lifecycle = m.lifecycle, !.lease = m.lease]
  BY DEF Marked, Facts!Instance
<1>8. Marked(m) =
        [m EXCEPT !.authority = IF m.authority = "granted" THEN "superseded" ELSE m.authority,
                  !.attempts = Core!Ambiguous(m.attempts),
                  !.pending = m.pending \/ FlightOf(m.attempts) # {},
                  !.lifecycle = IF m.lifecycle = "unknown" /\ FlightOf(m.attempts) # {}
                                  THEN "stale" ELSE m.lifecycle,
                  !.lease = Core!NoLease]
  BY DEF Marked
<1> HIDE DEF m
<1>9. /\ m.authority # "granted" /\ FlightOf(m.attempts) = {}
      /\ Core!Ambiguous(m.attempts) = m.attempts
      /\ m.pending \in BOOLEAN
  BY <1>4, <1>5, <1>6
<1>10. /\ (IF m.authority = "granted" THEN "superseded" ELSE m.authority) = m.authority
       /\ (m.pending \/ FlightOf(m.attempts) # {}) = m.pending
       /\ (IF m.lifecycle = "unknown" /\ FlightOf(m.attempts) # {}
             THEN "stale" ELSE m.lifecycle) = m.lifecycle
  BY <1>9
<1>11. Marked(m) = m
  BY <1>6, <1>7, <1>8, <1>9, <1>10
<1> QED BY <1>11 DEF m

(* It names the same scope.                                                *)
LEMMA MarkedScope ==
  ASSUME NEW r \in Facts!Instance
  PROVE  Marked(r).device = r.device /\ Marked(r).port = r.port
BY DEF Marked, Facts!Instance

(* A row revoked twice is a row revoked.                                   *)
LEMMA RevokedRow ==
  ASSUME NEW r \in Facts!Lease
  PROVE  /\ r.revoked => r = [r EXCEPT !.revoked = TRUE]
         /\ [r EXCEPT !.revoked = TRUE].revoked
         /\ [r EXCEPT !.revoked = TRUE].scope = r.scope
         /\ [[r EXCEPT !.revoked = TRUE] EXCEPT !.revoked = TRUE] = [r EXCEPT !.revoked = TRUE]
BY DEF Facts!Lease

(* The scopes that could carry authority are those of before.              *)
LEMMA SameCarried ==
  ASSUME NEW b, Held(b), Toward(b), NEW s
  PROVE  Core!CouldCarry(s) <=> CarriedIn(b, s)
<1>1. \A l \in DOMAIN leases : leases[l].scope = b.leases[l].scope
  BY RevokedRow DEF Held, Toward
<1>2. \A i \in DOMAIN instances : /\ instances[i].device = b.instances[i].device
                                  /\ instances[i].port = b.instances[i].port
  BY MarkedScope DEF Held, Toward
<1>3. DOMAIN leases = DOMAIN b.leases /\ DOMAIN instances = DOMAIN b.instances
  BY DEF Toward
<1> QED BY <1>1, <1>2, <1>3 DEF Core!CouldCarry, Core!ScopeOf, CarriedIn

(* An opening starts a pass, also when it cuts one short.                  *)
LEMMA OpenLeads ==
  ASSUME NEW b, Held(b), Toward(b), TablesFinite, ReportsTyped, Open
  PROVE  Toward(b)' /\ Underway(b)'
<1>1. /\ epoch < MaxEpoch /\ epoch' = epoch + 1 /\ MaxEpoch \in Nat
      /\ UNCHANGED <<reports, incarnation, instances, leases, nextLease, fence>>
  BY CoreAssumption DEF Open
<1>2. Awaited' = DueRecords
  BY OpenStep
<1>3. /\ \A l : Waits("lease", l)' <=> l \in LiveLeases
      /\ \A i : Waits("instance", i)' <=> i \in Core!Swept
      /\ \A s : Waits("scope", s)' <=> s \in Scope /\ Core!CouldCarry(s)
  BY <1>2 DEF Waits, DueRecords
<1>4. Toward(b)'
  <2>1. \A s \in Scope : fence[s] \in Nat /\ b.fence[s] \in Nat
    BY DEF Toward, Held
  <2>2. b.epoch \in Nat /\ epoch \in Nat /\ b.epoch <= epoch
    BY DEF Toward, Held
  <2>3. \A s \in Scope : \/ fence'[s] = b.fence[s]
                         \/ CarriedIn(b, s) /\ fence'[s] - b.fence[s] \in 0..(epoch' - b.epoch)
    BY <1>1, <2>1, <2>2 DEF Toward
  <2>4. \A d \in Device : capability'[d].epoch <= epoch'
    BY <1>1, <2>2 DEF Toward, reports, ReportsTyped, Capability
  <2>5. UNCHANGED <<instances, leases, fence>> /\ epoch' \in Nat /\ b.epoch <= epoch'
    BY <1>1, <2>2
  <2>6. /\ DOMAIN leases' = DOMAIN b.leases
        /\ leases' = [l \in DOMAIN leases' |-> leases'[l]]
        /\ \A l \in DOMAIN leases' : \/ leases'[l] = b.leases[l]
                                     \/ leases'[l] = [b.leases[l] EXCEPT !.revoked = TRUE]
    BY <2>5, Zenon DEF Toward
  <2>7. /\ DOMAIN instances' = DOMAIN b.instances
        /\ instances' = [i \in DOMAIN instances' |-> instances'[i]]
        /\ \A i \in DOMAIN instances' : \/ instances'[i] = b.instances[i]
                                        \/ i \in SweptIn(b) /\ instances'[i] = Marked(b.instances[i])
    BY <2>5, Zenon DEF Toward
  <2>8. fence' \in [Scope -> Nat]
    BY <2>5 DEF Toward
  <2> QED BY <2>3, <2>4, <2>5, <2>6, <2>7, <2>8, Zenon DEF Toward
<1>5. \A l \in DOMAIN leases : \/ leases[l] = [b.leases[l] EXCEPT !.revoked = TRUE]
                               \/ l \in LiveLeases
  BY RevokedRow DEF Toward, Held, LiveLeases
<1>6. \A i \in DOMAIN instances : i \in SweptIn(b) =>
        instances[i] = Marked(b.instances[i]) \/ i \in Core!Swept
  BY DEF Toward, Core!Swept, SweptIn
<1>7. \A i \in Core!Swept : i \in SweptIn(b)
  BY DEF Toward, Core!Swept, SweptIn
<1>8. ASSUME NEW s \in Scope
      PROVE  IF Core!CouldCarry(s) THEN CarriedIn(b, s) /\ fence[s] - b.fence[s] < epoch' - b.epoch
                                   ELSE ~CarriedIn(b, s)
  <2>1. /\ fence[s] \in Nat /\ b.fence[s] \in Nat
        /\ b.epoch \in Nat /\ epoch \in Nat /\ b.epoch <= epoch
    BY DEF Toward, Held
  <2>2. fence[s] - b.fence[s] <= epoch - b.epoch
    BY <2>1 DEF Toward
  <2> QED BY <1>1, <2>1, <2>2, SameCarried
<1>9. \A d \in Device : capability'[d].epoch < epoch'
  BY <1>1 DEF Toward, reports, ReportsTyped, Capability
<1>10. b.epoch < epoch' /\ epoch' <= MaxEpoch
  BY <1>1 DEF Toward, Held
<1>11. SweptIn(b) \subseteq DOMAIN instances
  BY DEF SweptIn, Toward
<1> QED BY <1>1, <1>3, <1>4, <1>5, <1>6, <1>7, <1>8, <1>9, <1>10, <1>11 DEF Underway

(* What a record of the pass does to the list.                             *)
LEMMA OthersWait ==
  ASSUME TodoListed, NEW kind, NEW subject, Due(kind, subject)
  PROVE  \A k, x : Waits(k, x)' <=> Waits(k, x) /\ ~(k = kind /\ x = subject)
<1>1. Awaited' = Awaited \ {<<kind, subject>>}
  BY DueStep
<1>2. \A k, x : <<k, x>> = <<kind, subject>> <=> k = kind /\ x = subject
  OBVIOUS
<1> QED BY <1>1, <1>2 DEF Waits

(* Each record takes its part to where the pass is going.                  *)
LEMMA RecordLeads ==
  ASSUME NEW b, Held(b), Toward(b), Underway(b), TodoListed, ReportsTyped, Recovery, ~Open
  PROVE  Toward(b)' /\ Underway(b)'
<1>0. /\ b.epoch \in Nat /\ epoch \in Nat /\ b.epoch < epoch
      /\ \A s \in Scope : fence[s] \in Nat /\ b.fence[s] \in Nat
  BY DEF Toward, Underway, Held
<1>1. ASSUME NEW l \in DOMAIN leases, SupersedeLease(l)
      PROVE  Toward(b)' /\ Underway(b)'
  <2>1. /\ leases' = [k \in DOMAIN leases |->
              IF k = l THEN [leases[l] EXCEPT !.revoked = TRUE] ELSE leases[k]]
        /\ UNCHANGED <<reports, epoch, incarnation, instances, nextLease, fence>>
    BY <1>1 DEF SupersedeLease, Core!Revoke
  <2>2. \A k, x : Waits(k, x)' <=> Waits(k, x) /\ ~(k = "lease" /\ x = l)
    BY <1>1, OthersWait DEF SupersedeLease
  <2>3. leases'[l] = [b.leases[l] EXCEPT !.revoked = TRUE]
    BY <2>1, RevokedRow DEF Toward, Held
  <2>4. DOMAIN leases' = DOMAIN leases /\ \A k \in DOMAIN leases \ {l} : leases'[k] = leases[k]
    BY <2>1
  <2>5. leases' = [k \in DOMAIN leases' |-> leases'[k]]
    BY <2>1
  <2>6. Toward(b)'
    BY <2>1, <2>3, <2>4, <2>5 DEF Toward, reports
  <2>7. Underway(b)'
    BY <2>1, <2>2, <2>3, <2>4 DEF Underway, reports
  <2> QED BY <2>6, <2>7
<1>2. ASSUME NEW i \in DOMAIN instances, SupersedeInstance(i)
      PROVE  Toward(b)' /\ Underway(b)'
  <2>1. /\ instances' = [instances EXCEPT ![i] = Core!AfterRestart(i)]
        /\ UNCHANGED <<reports, epoch, incarnation, leases, nextLease, fence>>
    BY <1>2 DEF SupersedeInstance
  <2>2. \A k, x : Waits(k, x)' <=> Waits(k, x) /\ ~(k = "instance" /\ x = i)
    BY <1>2, OthersWait DEF SupersedeInstance
  <2>3. i \in SweptIn(b)
    BY <1>2, DueStep DEF SupersedeInstance, Underway
  <2>4. Core!AfterRestart(i) = Marked(instances[i])
    BY DEF Core!AfterRestart, Marked, Core!InFlight, FlightOf
  <2>5. Marked(instances[i]) = Marked(b.instances[i])
    BY MarkedTwice DEF Toward, Held
  <2>6. /\ DOMAIN instances' = DOMAIN instances /\ instances'[i] = Marked(b.instances[i])
        /\ \A j \in DOMAIN instances \ {i} : instances'[j] = instances[j]
        /\ instances' = [j \in DOMAIN instances' |-> instances'[j]]
    BY <2>1, <2>4, <2>5
  <2>7. Toward(b)'
    BY <2>1, <2>3, <2>6 DEF Toward, reports
  <2>8. SweptIn(b) \subseteq DOMAIN instances
    BY DEF SweptIn, Toward
  <2>9. Underway(b)'
    BY <2>1, <2>2, <2>3, <2>6, <2>8 DEF Underway, reports
  <2> QED BY <2>7, <2>9
<1>3. ASSUME NEW d \in Device, AgeCapability(d)
      PROVE  Toward(b)' /\ Underway(b)'
  <2>1. /\ UNCHANGED <<epoch, instances, leases, fence>>
        /\ capability' = [capability EXCEPT ![d] =
             [capability[d] EXCEPT !.freshness = Refreshed(d)]]
    BY <1>3 DEF AgeCapability, authority
  <2>2. \A k, x : k # "capability" => (Waits(k, x)' <=> Waits(k, x))
    BY <1>3, OthersWait DEF AgeCapability
  <2>3. [capability[d] EXCEPT !.freshness = Refreshed(d)].epoch = capability[d].epoch
    BY DEF ReportsTyped, Capability
  <2>4. \A e \in Device : capability'[e].epoch = capability[e].epoch
    BY <2>1, <2>3 DEF ReportsTyped
  <2>5. Toward(b)'
    BY <2>1, <2>4 DEF Toward
  <2>6. Underway(b)'
    BY <2>1, <2>2, <2>4 DEF Underway
  <2> QED BY <2>5, <2>6
<1>4. ASSUME NEW d \in Device, ForgetPresence(d)
      PROVE  Toward(b)' /\ Underway(b)'
  <2>1. UNCHANGED <<epoch, instances, leases, fence, capability>>
    BY <1>4 DEF ForgetPresence, authority
  <2>2. \A k, x : k # "observation" => (Waits(k, x)' <=> Waits(k, x))
    BY <1>4, OthersWait DEF ForgetPresence
  <2>5. Toward(b)'
    BY <2>1 DEF Toward
  <2>6. Underway(b)'
    BY <2>1, <2>2 DEF Underway
  <2> QED BY <2>5, <2>6
<1>5. ASSUME NEW s \in Scope, FenceScope(s)
      PROVE  Toward(b)' /\ Underway(b)'
  <2>1. /\ fence' = [fence EXCEPT ![s] = fence[s] + 1]
        /\ UNCHANGED <<reports, epoch, incarnation, instances, leases, nextLease>>
    BY <1>5 DEF FenceScope, Core!Advance
  <2>2. \A k, x : Waits(k, x)' <=> Waits(k, x) /\ ~(k = "scope" /\ x = s)
    BY <1>5, OthersWait DEF FenceScope
  <2>3. CarriedIn(b, s) /\ fence[s] - b.fence[s] < epoch - b.epoch
    BY <1>5, DueStep DEF FenceScope, Underway
  <2>4. fence[s] = b.fence[s] \/ fence[s] - b.fence[s] \in 0..(epoch - b.epoch)
    BY DEF Toward
  <2>5. /\ fence' \in [Scope -> Nat] /\ fence'[s] = fence[s] + 1
        /\ \A t \in Scope \ {s} : fence'[t] = fence[t]
    BY <1>0, <2>1 DEF Toward
  <2>6. fence'[s] - b.fence[s] \in 1..(epoch - b.epoch)
    BY <1>0, <2>3, <2>4, <2>5
  <2>7. fence'[s] > b.fence[s]
    BY <1>0, <2>4, <2>5
  <2>8. \A t \in Scope : \/ fence'[t] = b.fence[t]
                         \/ CarriedIn(b, t) /\ fence'[t] - b.fence[t] \in 0..(epoch - b.epoch)
    BY <1>0, <2>3, <2>5, <2>6 DEF Toward
  <2>9. Toward(b)'
    BY <2>1, <2>5, <2>8 DEF Toward, reports
  <2>10. Underway(b)'
    BY <2>1, <2>2, <2>5, <2>7 DEF Underway, reports
  <2> QED BY <2>9, <2>10
<1> QED BY <1>1, <1>2, <1>3, <1>4, <1>5 DEF Recovery

(* A pass with nothing left to write was one restart.                      *)
LEMMA PassEnds ==
  ASSUME NEW b, b = (IF Serving THEN Now ELSE before), Held(b),
         UNCHANGED <<incarnation, nextLease>>,
         Toward(b)', Underway(b)', EvidenceLives', Serving'
  PROVE  Promise!Restart /\ Facts!Restart
<1>1. /\ (IF Serving THEN epoch ELSE before.epoch) = b.epoch
      /\ (IF Serving THEN instances ELSE before.instances) = b.instances
      /\ (IF Serving THEN leases ELSE before.leases) = b.leases
      /\ (IF Serving THEN fence ELSE before.fence) = b.fence
  BY DEF Now
<1>2. \A k, x : ~Waits(k, x)'
  BY DEF Waits, Awaited, ToSet, Serving
<1>3. b.epoch \in Nat /\ epoch' \in Nat /\ epoch' \in (b.epoch + 1)..MaxEpoch
  BY CoreAssumption DEF Held, Toward, Underway
<1>4. leases' = [l \in DOMAIN b.leases |-> [b.leases[l] EXCEPT !.revoked = TRUE]]
  <2>1. /\ DOMAIN leases' = DOMAIN b.leases
        /\ leases' = [l \in DOMAIN leases' |-> leases'[l]]
        /\ \A l \in DOMAIN leases' : leases'[l] = [b.leases[l] EXCEPT !.revoked = TRUE]
    BY <1>2 DEF Toward, Underway
  <2> QED BY <2>1
<1>5. instances' = [i \in DOMAIN b.instances |->
                      IF i \in SweptIn(b) THEN Marked(b.instances[i]) ELSE b.instances[i]]
  <2>1. /\ DOMAIN instances' = DOMAIN b.instances
        /\ instances' = [i \in DOMAIN instances' |-> instances'[i]]
        /\ \A i \in DOMAIN instances' :
             instances'[i] = IF i \in SweptIn(b) THEN Marked(b.instances[i]) ELSE b.instances[i]
    BY <1>2 DEF Toward, Underway
  <2> QED BY <2>1
<1>6. Evident' = [d \in Device |-> FALSE]
  <2>1. \A d \in Device : capability'[d].freshness # "fresh"
    BY <1>2 DEF EvidenceLives, Underway, Toward, Held
  <2> QED BY <2>1 DEF Evident, Supported
<1>7. \E extra \in [Scope -> 0..(epoch' - b.epoch - 1)] :
        fence' = [s \in Scope |-> IF CarriedIn(b, s) THEN b.fence[s] + 1 + extra[s] ELSE b.fence[s]]
  <2> DEFINE extra == [s \in Scope |-> IF CarriedIn(b, s) THEN fence'[s] - b.fence[s] - 1 ELSE 0]
  <2>1. fence' \in [Scope -> Nat] /\ b.fence \in [Scope -> Nat]
    BY DEF Toward, Held
  <2>2. ASSUME NEW s \in Scope
        PROVE  /\ extra[s] \in 0..(epoch' - b.epoch - 1)
               /\ fence'[s] = IF CarriedIn(b, s) THEN b.fence[s] + 1 + extra[s] ELSE b.fence[s]
    <3>1. fence'[s] \in Nat /\ b.fence[s] \in Nat
      BY <2>1
    <3>2. CASE CarriedIn(b, s)
      <4>1. fence'[s] > b.fence[s] /\ fence'[s] - b.fence[s] \in 0..(epoch' - b.epoch)
        BY <1>2, <1>3, <3>1, <3>2 DEF Toward, Underway
      <4> QED BY <1>3, <3>1, <3>2, <4>1
    <3>3. CASE ~CarriedIn(b, s)
      <4>1. fence'[s] = b.fence[s]
        BY <3>3 DEF Toward
      <4> QED BY <1>3, <3>3, <4>1
    <3> QED BY <3>2, <3>3
  <2>3. extra \in [Scope -> 0..(epoch' - b.epoch - 1)]
    BY <2>2
  <2>4. fence' = [s \in Scope |-> IF CarriedIn(b, s) THEN b.fence[s] + 1 + extra[s] ELSE b.fence[s]]
    BY <2>1, <2>2
  <2> HIDE DEF extra
  <2> QED BY <2>3, <2>4
<1>8. Promise!Restart
  <2>1. Promise!Revoke(DOMAIN b.leases)
          = [l \in DOMAIN b.leases |-> [b.leases[l] EXCEPT !.revoked = TRUE]]
    BY <1>1 DEF Promise!Revoke
  <2>2. Promise!Swept = SweptIn(b)
    BY <1>1 DEF Promise!Swept, SweptIn, Promise!NoLease, Core!NoLease
  <2>3. \A i : Promise!AfterRestart(i) = Marked(b.instances[i])
    <3>1. \A h : Promise!Ambiguous(h) = Core!Ambiguous(h)
      BY DEF Promise!Ambiguous, Core!Ambiguous, Promise!InFlightPhase, Core!InFlightPhase
    <3>2. \A i : Promise!InFlight(i) = FlightOf(b.instances[i].attempts)
      BY <1>1 DEF Promise!InFlight, FlightOf, Promise!InFlightPhase, Core!InFlightPhase
    <3> QED BY <1>1, <3>1, <3>2 DEF Promise!AfterRestart, Marked, Promise!NoLease, Core!NoLease
  <2>4. \A s : Promise!CouldCarry(s) <=> CarriedIn(b, s)
    BY <1>1 DEF Promise!CouldCarry, CarriedIn, Promise!ScopeOf
  <2>5. Promise!Scope = Scope
    BY SameConstants DEF Scope
  <2> QED BY <1>1, <1>3, <1>4, <1>5, <1>6, <1>7, <2>1, <2>2, <2>3, <2>4, <2>5 DEF Promise!Restart
<1>9. Promise!Restart => Facts!Restart
  BY Zenon DEF Promise!Restart, Facts!Restart,
               Promise!Revoke, Facts!Revoke,
               Promise!Swept, Facts!Swept,
               Promise!NoLease, Facts!NoLease,
               Promise!AfterRestart, Facts!AfterRestart,
               Promise!InFlight, Facts!InFlight,
               Promise!InFlightPhase, Facts!InFlightPhase,
               Promise!Ambiguous, Facts!Ambiguous,
               Promise!CouldCarry, Facts!CouldCarry,
               Promise!ScopeOf, Facts!ScopeOf,
               Promise!Scope, Facts!Scope,
               Promise!PortOrNil, Facts!PortOrNil
<1> QED BY <1>8, <1>9

------------------------------------------------------------------------------
(* The refinement.                                                         *)

(* What is seen from outside is well typed, and a pass is on its way from  *)
(* what is seen.                                                           *)
SeenWell == Facts!TypeOK /\ (~Serving => Toward(before) /\ Underway(before))

(* What is seen, whether a pass is under way or not.                       *)
LEMMA SeenNow ==
  ASSUME SeenWell, ReportsBehind, ReportsTyped, NEW b, b = (IF Serving THEN Now ELSE before)
  PROVE  Held(b) /\ Toward(b) /\ (~Serving => Underway(b))
<1>1. /\ (IF Serving THEN epoch ELSE before.epoch) = b.epoch
      /\ (IF Serving THEN instances ELSE before.instances) = b.instances
      /\ (IF Serving THEN leases ELSE before.leases) = b.leases
      /\ (IF Serving THEN fence ELSE before.fence) = b.fence
  BY DEF Now
<1>2. Held(b)
  <2>1. Facts!Scope = Scope
    BY SameConstants DEF Scope
  <2> QED BY <1>1, <2>1 DEF SeenWell, Facts!TypeOK, Held
<1>3. CASE Serving
  <2>1. /\ epoch = b.epoch /\ instances = b.instances /\ leases = b.leases /\ fence = b.fence
    BY <1>1, <1>3
  <2>2. /\ leases = [l \in DOMAIN leases |-> leases[l]]
        /\ instances = [i \in DOMAIN instances |-> instances[i]]
    BY <1>2, <2>1 DEF Held
  <2>3. epoch \in Nat /\ b.epoch <= epoch /\ fence \in [Scope -> Nat]
    BY <1>2, <2>1 DEF Held
  <2>4. \A d \in Device : capability[d].epoch <= epoch
    BY DEF ReportsBehind
  <2>5. Toward(b)
    BY <2>1, <2>2, <2>3, <2>4, Zenon DEF Toward
  <2> QED BY <1>2, <1>3, <2>5
<1>4. CASE ~Serving
  <2>1. b = before /\ Toward(before) /\ Underway(before)
    BY <1>4 DEF SeenWell
  <2> QED BY <1>2, <2>1
<1> QED BY <1>3, <1>4

(* A record of the pass is a restart if it is the last, and nothing        *)
(* otherwise.                                                              *)
LEMMA RecoveryPromised ==
  ASSUME SeenWell, ReportsBehind, ReportsTyped, TablesFinite, TodoListed, EvidenceLives', Recovery
  PROVE  Promised /\ (~Serving => Toward(before) /\ Underway(before))'
<1>1. PICK b : b = (IF Serving THEN Now ELSE before)
  OBVIOUS
<1>2. Held(b) /\ Toward(b) /\ (~Serving => Underway(b))
  BY <1>1, SeenNow
<1>3. Toward(b)' /\ Underway(b)'
  <2>1. CASE Open
    BY <1>2, <2>1, OpenLeads
  <2>2. CASE ~Open
    <3>1. ~Serving
      BY <2>2 DEF Recovery, SupersedeLease, SupersedeInstance, AgeCapability, ForgetPresence,
                  FenceScope, Due
    <3> QED BY <1>2, <2>2, <3>1, RecordLeads
  <2> QED BY <2>1, <2>2
<1>4. /\ UNCHANGED <<incarnation, nextLease>>
      /\ \E rest : Proceed(rest)
  BY DEF Recovery, Open, SupersedeLease, SupersedeInstance, AgeCapability, ForgetPresence,
         FenceScope, Due, authority
<1>5. CASE Serving'
  <2>1. Promise!Restart /\ Facts!Restart
    BY <1>1, <1>2, <1>3, <1>4, <1>5, PassEnds
  <2> QED BY <1>5, <2>1 DEF Promised, Promise!Next, Facts!Next
<1>6. CASE ~Serving'
  <2>1. before' = b
    BY <1>1, <1>4, <1>6 DEF Proceed, Serving
  <2>2. /\ b.epoch = (IF Serving THEN epoch ELSE before.epoch)
        /\ b.instances = (IF Serving THEN instances ELSE before.instances)
        /\ b.leases = (IF Serving THEN leases ELSE before.leases)
        /\ b.fence = (IF Serving THEN fence ELSE before.fence)
        /\ b.evidence = (IF Serving THEN Evident ELSE before.evidence)
    BY <1>1 DEF Now
  <2>3. UNCHANGED Promise!vars /\ UNCHANGED Facts!vars
    BY <1>4, <1>6, <2>1, <2>2 DEF Promise!vars, Facts!vars
  <2>4. (Toward(before) /\ Underway(before))'
    BY <1>3, <2>1 DEF Toward, Underway
  <2> QED BY <2>3, <2>4 DEF Promised
<1> QED BY <1>5, <1>6

(* Every step keeps the invariant and is one that ControlFabric knows.     *)
LEMMA PromisedStep ==
  ASSUME ReportsTyped, ReportsBehind, TablesFinite, TodoListed, EvidenceLives,
         SeenWell, [Next]_vars
  PROVE  Promised /\ SeenWell'
<1>1. ReportsTyped' /\ EvidenceLives'
  BY ReportsStep, EvidenceStep
<1>2. Promised /\ (~Serving => Toward(before) /\ Underway(before))'
  <2>1. ASSUME NEW d \in Device, Report(d)
        PROVE  Promised /\ Serving'
    BY <1>1, <2>1, ReportPromised
  <2>2. ASSUME Command
        PROVE  Promised /\ Serving'
    <3>1. Serving'
      BY <2>2, CommandKeeps DEF Command, Decide, Serving
    <3> QED BY <2>2, <3>1, CommandPromised
  <2>3. ASSUME Recovery
        PROVE  Promised /\ (~Serving => Toward(before) /\ Underway(before))'
    BY <1>1, <2>3, RecoveryPromised
  <2>4. ASSUME UNCHANGED vars
        PROVE  Promised /\ (~Serving => Toward(before) /\ Underway(before))'
    <3>1. UNCHANGED <<epoch, incarnation, instances, leases, nextLease, fence, generation,
                      present, capability, observation, todo, before>>
      BY <2>4 DEF vars, authority, reports
    <3>2. Evident' = Evident /\ Serving' = Serving /\ Awaited' = Awaited
      BY <3>1 DEF Evident, Supported, Serving, Awaited
    <3>3. UNCHANGED Promise!vars /\ UNCHANGED Facts!vars
      BY <3>1, <3>2 DEF Promise!vars, Facts!vars
    <3>4. Toward(before) /\ Underway(before) => (Toward(before) /\ Underway(before))'
      BY <3>1, <3>2 DEF Toward, Underway, Waits, SweptIn, CarriedIn
    <3> QED BY <3>2, <3>3, <3>4 DEF Promised, SeenWell
  <2> QED BY <2>1, <2>2, <2>3, <2>4 DEF Next
<1>3. Facts!TypeOK'
  BY <1>2, Facts!TypeStep, CoreAssumption DEF Promised, SeenWell
<1> QED BY <1>2, <1>3 DEF SeenWell

(* What PromisedStep starts from.                                          *)
Sound ==
  ReportsTyped /\ ReportsBehind /\ TablesFinite /\ TodoListed /\ EvidenceLives /\ SeenWell

(* Behaviours of the coordinator are behaviours of ControlFabric.          *)
LEMMA BothImplemented == Spec => []Sound /\ Promise!Spec /\ Facts!Spec
<1>1. Init => Sound /\ Promise!Init /\ Facts!Init
  <2> SUFFICES ASSUME Init
               PROVE  Sound /\ Promise!Init /\ Facts!Init
    OBVIOUS
  <2>1. ReportsTyped /\ ReportsBehind /\ TablesFinite
    BY ReportsInit
  <2>2. Serving /\ \A d \in Device : ~present[d] /\ capability[d].freshness = "pending"
    BY DEF Init, NoCapability, Serving
  <2>3. TodoListed
    BY DEF Init, TodoListed, Lists, Awaited, ToSet, IsInjective
  <2>4. EvidenceLives
    BY <2>2 DEF EvidenceLives
  <2>5. Evident = [d \in Device |-> FALSE]
    BY <2>2 DEF Evident, Supported
  <2>6. Promise!Scope = Scope /\ Facts!Scope = Scope
    BY SameConstants DEF Scope
  <2>7. Promise!Init /\ Facts!Init
    BY <2>2, <2>5, <2>6 DEF Init, Promise!Init, Facts!Init
  <2>8. Facts!TypeOK
    BY <2>2, <2>5, <2>6, CoreAssumption DEF Init, Facts!TypeOK
  <2> QED BY <2>1, <2>2, <2>3, <2>4, <2>7, <2>8 DEF Sound, SeenWell
<1>2. Sound /\ [Next]_vars => Sound' /\ [Promise!Next]_Promise!vars /\ [Facts!Next]_Facts!vars
  <2> SUFFICES ASSUME Sound, [Next]_vars
               PROVE  Sound' /\ [Promise!Next]_Promise!vars /\ [Facts!Next]_Facts!vars
    OBVIOUS
  <2>1. ReportsTyped' /\ ReportsBehind' /\ TablesFinite'
    BY ReportsStep DEF Sound
  <2>2. TodoListed' /\ EvidenceLives'
    BY EvidenceStep DEF Sound
  <2>3. Promised /\ SeenWell'
    BY PromisedStep DEF Sound
  <2> QED BY <2>1, <2>2, <2>3 DEF Promised, Sound
<1> QED BY <1>1, <1>2, PTL DEF Spec, Promise!Spec, Facts!Spec

(* The coordinator implements the authority core: whatever record a pass   *)
(* of recovery is cut short after, and however often, the pass that        *)
(* completes leaves what one restart leaves, and a device's evidence, put  *)
(* together from three records, is as good as one flag.                    *)
THEOREM CoordinatorImplementsCore == Spec => PromiseKept
BY BothImplemented, PTL DEF PromiseKept

(* So what is proved of the core holds of the coordinator as it runs: at   *)
(* no moment it serves can two leases be accepted on one scope, wherever   *)
(* the passes of recovery were cut short.                                  *)
THEOREM OneHolderInService == Spec => [](Serving => Core!OneHolderPerScope)
<1>1. Facts!Spec => []Facts!OneHolderPerScope
  BY Facts!OneHolder, CoreAssumption
<1>2. Facts!OneHolderPerScope => (Serving => Core!OneHolderPerScope)
  BY DEF Facts!OneHolderPerScope, Core!OneHolderPerScope, Facts!Stands, Core!Stands,
         Facts!Standing, Core!Standing, Facts!ScopeOf, Core!ScopeOf
<1> QED BY <1>1, <1>2, BothImplemented, PTL

(* What may be asked of a lease, seen from outside while the coordinator   *)
(* serves.                                                                 *)
LEMMA SameStanding ==
  ASSUME Serving
  PROVE  /\ \A l, i : Facts!Standing(l, i) <=> Core!Standing(l, i)
         /\ \A l : Facts!Stands(l) <=> Core!Stands(l)
<1>1. \A i : Facts!ScopeOf(i) = Core!ScopeOf(i)
  BY DEF Facts!ScopeOf, Core!ScopeOf
<1>2. \A l, i : Facts!Standing(l, i) <=> Core!Standing(l, i)
  BY <1>1 DEF Facts!Standing, Core!Standing
<1> QED BY <1>2 DEF Facts!Stands, Core!Stands

(* Seen from outside, record and lease part only when an activation moves  *)
(* an instance: a pass of recovery, cut short or not, and reports that     *)
(* come and go between commands never make the coordinator accept a lease  *)
(* its records do not name.                                                *)
THEOREM AgreementInService == Spec => Facts!OnlyMovesBreakAgreement
<1>1. Facts!Spec => Facts!OnlyMovesBreakAgreement
  BY Facts!OnlyMovesDisagree, CoreAssumption
<1> QED BY <1>1, BothImplemented, PTL

(* Whenever the coordinator serves, the record of an instance that is      *)
(* stopped, of an earlier incarnation of its device, or of an outcome      *)
(* nobody knows, does not say "granted", and of the last two no lease is   *)
(* accepted, wherever earlier passes of recovery were cut short.           *)
THEOREM AtRestInService == Spec => [](Serving => Core!NoAuthorityAtRest)
<1>1. Facts!Spec => []Facts!NoAuthorityAtRest
  BY Facts!AtRestWithoutAuthority, CoreAssumption
<1>2. Facts!NoAuthorityAtRest => (Serving => Core!NoAuthorityAtRest)
  BY SameStanding DEF Facts!NoAuthorityAtRest, Core!NoAuthorityAtRest, Facts!Retired,
     Core!Retired, Facts!Outdated, Core!Outdated
<1> QED BY <1>1, <1>2, BothImplemented, PTL

(* Seen from outside each scope is a fenced lock, passes of recovery cut   *)
(* short included: no pass brings a superseded or revoked lease back into  *)
(* force.                                                                  *)
THEOREM LockInService == Spec => Facts!FencedScopeSpec
<1>1. Facts!Spec => Facts!FencedScopeSpec
  BY Facts!CoreImplementsFencedScope, CoreAssumption
<1> QED BY <1>1, BothImplemented, PTL

------------------------------------------------------------------------------
(* What holds of the store itself, in the middle of a pass too: a crash    *)
(* there leaves nothing weaker than what was there before.                 *)

(* A step is one of the core's, one that touches neither marks nor         *)
(* instances, a record that stops an instance's claims, or a mark's rise.  *)
LEMMA StepsOfTheStore ==
  ASSUME Sound, [Next]_vars
  PROVE  \/ Serving /\ Serving' /\ [Facts!Next]_Facts!vars
         \/ UNCHANGED <<instances, fence>>
         \/ \E i \in DOMAIN instances : ~Serving /\ SupersedeInstance(i)
         \/ \E s \in Scope : ~Serving /\ FenceScope(s)
<1>1. [Facts!Next]_Facts!vars
  BY PromisedStep DEF Sound, Promised
<1>2. ASSUME NEW d \in Device, Report(d), ~(Serving /\ Serving')
      PROVE  FALSE
  BY <1>2 DEF Report, RegisterDevice, SubmitCapability, SubmitObservation, Reverify, Serving
<1>3. ASSUME Command, ~(Serving /\ Serving')
      PROVE  FALSE
  BY <1>3, CommandKeeps DEF Command, Decide, Serving
<1>4. ASSUME Recovery
      PROVE  \/ UNCHANGED <<instances, fence>>
             \/ \E i \in DOMAIN instances : ~Serving /\ SupersedeInstance(i)
             \/ \E s \in Scope : ~Serving /\ FenceScope(s)
  <2>1. ASSUME NEW i \in DOMAIN instances, SupersedeInstance(i)
        PROVE  ~Serving
    BY <2>1 DEF SupersedeInstance, Due
  <2>2. ASSUME NEW s \in Scope, FenceScope(s)
        PROVE  ~Serving
    BY <2>2 DEF FenceScope, Due
  <2>3. CASE \/ Open
             \/ \E l \in DOMAIN leases : SupersedeLease(l)
             \/ \E d \in Device : AgeCapability(d) \/ ForgetPresence(d)
    BY <2>3 DEF Open, SupersedeLease, AgeCapability, ForgetPresence, authority
  <2> QED BY <1>4, <2>1, <2>2, <2>3 DEF Recovery
<1>5. ASSUME UNCHANGED vars
      PROVE  UNCHANGED <<instances, fence>>
  BY <1>5 DEF vars, authority
<1> QED BY <1>1, <1>2, <1>3, <1>4, <1>5 DEF Next

(* No step lowers the fencing mark of a scope, in service or in any pass   *)
(* of recovery: cutting a pass short never opens the door to a token that  *)
(* was fenced out.                                                         *)
THEOREM MarksNeverFall == Spec => [][\A s \in Scope : fence'[s] >= fence[s]]_vars
<1>1. ASSUME Sound, [Next]_vars, NEW s \in Scope
      PROVE  fence'[s] >= fence[s]
  <2>1. fence \in [Scope -> Nat]
    <3>1. PICK b : b = (IF Serving THEN Now ELSE before)
      OBVIOUS
    <3>2. Toward(b)
      BY <1>1, <3>1, SeenNow DEF Sound
    <3> QED BY <3>2 DEF Toward
  <2>2. CASE Serving /\ Serving' /\ [Facts!Next]_Facts!vars
    <3>1. Facts!TypeOK /\ Facts!Scope = Scope
      BY <1>1, SameConstants DEF Sound, SeenWell, Scope
    <3>2. CASE Facts!Next
      BY <2>2, <3>1, <3>2, Facts!FenceStep, CoreAssumption
    <3>3. CASE UNCHANGED Facts!vars
      BY <2>1, <2>2, <3>3 DEF Facts!vars
    <3> QED BY <2>2, <3>2, <3>3
  <2>3. CASE UNCHANGED <<instances, fence>>
    BY <2>1, <2>3
  <2>4. CASE \E i \in DOMAIN instances : SupersedeInstance(i)
    BY <2>1, <2>4 DEF SupersedeInstance
  <2>5. ASSUME NEW t \in Scope, FenceScope(t)
        PROVE  fence'[s] >= fence[s]
    <3>1. fence' = [fence EXCEPT ![t] = fence[t] + 1]
      BY <2>5 DEF FenceScope, Core!Advance
    <3> QED BY <2>1, <3>1
  <2> QED BY <1>1, <2>2, <2>3, <2>4, <2>5, StepsOfTheStore
<1>2. Sound /\ [Next]_vars => [\A s \in Scope : fence'[s] >= fence[s]]_vars
  BY <1>1
<1> QED BY <1>2, BothImplemented, PTL DEF Spec

(* Instances the coordinator stopped, or whose incarnation ended, stay     *)
(* retired in the store, in service and through any pass of recovery, cut  *)
(* short or not: what recovery writes of a record never revives it.        *)
THEOREM StoppedInTheStore ==
  Spec => [][\A i \in DOMAIN instances :
               instances[i].lifecycle \in Core!Retired
                 => instances'[i].lifecycle \in Core!Retired]_vars
<1>1. ASSUME Sound, Serving => Facts!Numbered, [Next]_vars,
             NEW i \in DOMAIN instances, instances[i].lifecycle \in Core!Retired
      PROVE  instances'[i].lifecycle \in Core!Retired
  <2>1. Facts!TypeOK /\ Facts!Retired = Core!Retired
    BY <1>1 DEF Sound, SeenWell, Facts!Retired, Core!Retired
  <2>2. CASE Serving /\ Serving' /\ [Facts!Next]_Facts!vars
    <3>1. CASE Facts!Next
      BY <1>1, <2>1, <2>2, <3>1, Facts!RetiredStep, CoreAssumption
    <3>2. CASE UNCHANGED Facts!vars
      BY <1>1, <2>2, <3>2 DEF Facts!vars
    <3> QED BY <2>2, <3>1, <3>2
  <2>3. CASE UNCHANGED <<instances, fence>>
    BY <1>1, <2>3
  <2>4. ASSUME NEW j \in DOMAIN instances, ~Serving, SupersedeInstance(j)
        PROVE  instances'[i].lifecycle \in Core!Retired
    <3>1. instances' = [instances EXCEPT ![j] = Core!AfterRestart(j)]
      BY <2>4 DEF SupersedeInstance
    <3>2. instances = [k \in DOMAIN instances |-> instances[k]]
      BY <1>1, <2>4 DEF Sound, SeenWell, Toward
    <3>3. CASE i # j
      BY <1>1, <3>1, <3>2, <3>3
    <3>4. CASE i = j
      <4>1. Core!AfterRestart(i).lifecycle
              = IF instances[i].lifecycle = "unknown" /\ Core!InFlight(i) # {}
                  THEN "stale" ELSE instances[i].lifecycle
        <5>1. "lifecycle" \in DOMAIN instances[i]
          <6>1. PICK b : b = (IF Serving THEN Now ELSE before)
            OBVIOUS
          <6>2. Held(b) /\ Toward(b)
            BY <1>1, <6>1, SeenNow DEF Sound
          <6>3. b.instances[i] \in Facts!Instance
            BY <6>2 DEF Held, Toward
          <6>4. instances[i] = b.instances[i] \/ instances[i] = Marked(b.instances[i])
            BY <6>2 DEF Toward
          <6> QED BY <6>3, <6>4 DEF Facts!Instance, Marked
        <5> QED BY <5>1 DEF Core!AfterRestart
      <4>2. instances'[i] = Core!AfterRestart(i)
        BY <3>1, <3>2, <3>4
      <4>3. instances[i].lifecycle # "unknown"
        BY <1>1 DEF Core!Retired
      <4> QED BY <1>1, <4>1, <4>2, <4>3
    <3> QED BY <3>3, <3>4
  <2>5. CASE \E s \in Scope : FenceScope(s)
    BY <1>1, <2>5 DEF FenceScope
  <2> QED BY <1>1, <2>2, <2>3, <2>4, <2>5, StepsOfTheStore
<1>2. Sound /\ (Serving => Facts!Numbered) /\ [Next]_vars
        => [\A i \in DOMAIN instances :
              instances[i].lifecycle \in Core!Retired
                => instances'[i].lifecycle \in Core!Retired]_vars
  BY <1>1
<1>3. Facts!Spec => []Facts!Numbered
  BY Facts!InstancesNumbered, CoreAssumption
<1> QED BY <1>2, <1>3, BothImplemented, PTL DEF Spec

==============================================================================
