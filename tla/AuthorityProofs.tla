--------------------------- MODULE AuthorityProofs ---------------------------
(***************************************************************************)
(* What the authority core guarantees beyond the fencing mark, with        *)
(* instances that may move between ports.  A lease the coordinator would   *)
(* accept is the one the instance record names, except where a move has    *)
(* brought an instance back to a lease it left behind; what is stopped,    *)
(* outdated or of unknown outcome does not say it is granted, and of the   *)
(* last two no lease whatever is accepted; and the core implements         *)
(* FencedScope: each scope is a lock that is held under ever higher        *)
(* tokens.  They rest on the types, the minted tokens and the owners of    *)
(* the lease rows.                                                         *)
(***************************************************************************)
EXTENDS ControlFabricProofs

------------------------------------------------------------------------------
(* Lemmas.                                                                 *)

(* Every row belongs to a registered instance, so that a new instance      *)
(* finds no row that already names it.                                     *)
LeasesOwned == \A l \in DOMAIN leases : leases[l].instance \in DOMAIN instances

(* A row that a step carries over and that stands after it, stood before.  *)
LEMMA StoodBefore ==
  ASSUME TypeOK, TypeOK', NEW l \in DOMAIN leases, l \in DOMAIN leases',
         leases'[l].scope = leases[l].scope, leases'[l].instance = leases[l].instance,
         leases'[l].epoch = leases[l].epoch, leases'[l].token = leases[l].token,
         leases[l].revoked => leases'[l].revoked,
         epoch' = epoch, \A s \in Scope : fence'[s] >= fence[s],
         leases[l].instance \in DOMAIN instances,
         instances'[leases[l].instance].device = instances[leases[l].instance].device,
         instances'[leases[l].instance].port = instances[leases[l].instance].port,
         Stands(l)'
  PROVE  Stands(l)
<1> DEFINE i == leases[l].instance
<1>1. ScopeOf(i) \in Scope
  BY ScopeOfType
<1>2. <<instances'[i].device, instances'[i].port>> = ScopeOf(i)
  BY DEF ScopeOf
<1>3. /\ leases'[l].scope = ScopeOf(i)
      /\ ~leases'[l].revoked
      /\ leases'[l].epoch = epoch'
      /\ leases'[l].token >= fence'[ScopeOf(i)]
  BY <1>2 DEF Stands, Standing, ScopeOf
<1>4. leases[l] \in Lease
  BY DEF TypeOK
<1>5. leases[l].token \in Nat /\ fence[ScopeOf(i)] \in Nat /\ fence'[ScopeOf(i)] \in Nat
  BY <1>1, <1>4 DEF TypeOK, Lease
<1>6. leases[l].token >= fence[ScopeOf(i)]
  BY <1>1, <1>3, <1>5
<1> QED BY <1>3, <1>6 DEF Stands, Standing

(* Revoking leaves of a row all but the flag, and sets that for the doomed.*)
LEMMA RevokeRows ==
  ASSUME TypeOK, NEW doomed, leases' = Revoke(doomed)
  PROVE  /\ DOMAIN leases' = DOMAIN leases
         /\ \A l \in DOMAIN leases :
              /\ leases'[l].scope = leases[l].scope
              /\ leases'[l].instance = leases[l].instance
              /\ leases'[l].epoch = leases[l].epoch
              /\ leases'[l].token = leases[l].token
              /\ leases[l].revoked => leases'[l].revoked
              /\ l \in doomed => leases'[l].revoked
<1>1. \A l \in DOMAIN leases : leases[l] \in Lease
  BY DEF TypeOK
<1> QED BY <1>1 DEF Revoke, Lease

(* A grant adds the row described, and carries rows over as they are.      *)
LEMMA GrantRows ==
  ASSUME TypeOK, NEW s, NEW i, NEW at, NEW ttl, leases' = Grant(s, i, at, ttl)
  PROVE  /\ nextLease \in DOMAIN leases' /\ nextLease \notin DOMAIN leases
         /\ leases'[nextLease].scope = s
         /\ leases'[nextLease].instance = i
         /\ leases'[nextLease].token = fence[s] + 1
         /\ \A l \in DOMAIN leases' :
              l # nextLease => l \in DOMAIN leases /\ leases'[l] = leases[l]
<1>1. nextLease \notin DOMAIN leases
  <2>1. nextLease \in Nat /\ nextLease \notin 1..(nextLease - 1)
    BY BoundAssumption DEF TypeOK
  <2> QED BY <2>1 DEF TypeOK
<1> QED BY <1>1 DEF Grant

(* The owners of rows.                                                     *)
LEMMA OwnerStep == TypeOK /\ LeasesOwned /\ [Next]_vars => LeasesOwned'
<1> SUFFICES ASSUME TypeOK, LeasesOwned, [Next]_vars
             PROVE  LeasesOwned'
  OBVIOUS
<1>1. DOMAIN instances \subseteq DOMAIN instances'
  BY DomainStep
<1>2. ASSUME NEW doomed, leases' = Revoke(doomed)
      PROVE  LeasesOwned'
  BY <1>1, <1>2, RevokeRows DEF LeasesOwned
<1>3. CASE UNCHANGED leases
  BY <1>1, <1>3 DEF LeasesOwned
<1>4. ASSUME NEW s, NEW i \in DOMAIN instances', NEW at, NEW ttl, leases' = Grant(s, i, at, ttl)
      PROVE  LeasesOwned'
  BY <1>1, <1>4, GrantRows DEF LeasesOwned
<1>5. ASSUME NEW d \in Device, NEW port \in PortOrNil, NEW pkg \in Package,
             NEW at \in Times, NEW ttl \in Lifetimes, ActivateNew(d, port, pkg, at, ttl)
      PROVE  LeasesOwned'
  <2> DEFINE i == Cardinality(DOMAIN instances) + 1
             s == PackageScope(d, port, pkg)
  <2>1. i \in DOMAIN instances' /\ leases' = Grant(s, i, at, ttl)
    BY <1>5 DEF ActivateNew
  <2> HIDE DEF i, s
  <2> QED BY <1>4, <2>1
<1>6. ASSUME NEW i \in DOMAIN instances, NEW at \in Times, NEW ttl \in Lifetimes,
             Acquire(i, at, ttl)
      PROVE  LeasesOwned'
  <2>1. leases' = Grant(ScopeOf(i), i, at, ttl)
    BY <1>6 DEF Acquire
  <2> QED BY <1>1, <1>4, <2>1
<1>7. ASSUME NEW d \in Device, NEW n \in 1..MaxIncarnation, RegisterDevice(d, n)
      PROVE  LeasesOwned'
  BY <1>2, <1>7 DEF RegisterDevice
<1>8. CASE Restart
  BY <1>2, <1>8 DEF Restart
<1> QED
  BY <1>2, <1>3, <1>5, <1>6, <1>7, <1>8, MintsNothing, RevokesOnly DEF Next

------------------------------------------------------------------------------
(* Record and lease agree.                                                 *)

(* What OnlyMovesBreakAgreement says of one step.                          *)
StepKeepsTrack ==
  \A l \in DOMAIN leases' :
    LET i == leases'[l].instance IN
    Stands(l)' /\ ~Named(l)' =>
      \/ l \in DOMAIN leases /\ Stands(l) /\ ~Named(l)
      \/ i \in DOMAIN instances /\ instances'[i].port # instances[i].port

(* A step that grants nothing and revokes at most some doomed rows keeps   *)
(* track, if every record that holds a grant keeps it or names a doomed    *)
(* row.                                                                    *)
LEMMA TrackKept ==
  ASSUME TypeOK, TypeOK', LeasesOwned, [Next]_vars, epoch' = epoch,
         NEW doomed, leases' = Revoke(doomed) \/ UNCHANGED leases,
         \A i \in DOMAIN instances :
           /\ instances'[i].device = instances[i].device
           /\ instances'[i].token = instances[i].token
           /\ instances[i].authority = "granted" =>
                \/ instances'[i].authority = "granted" /\ instances'[i].lease = instances[i].lease
                \/ instances[i].lease \in doomed /\ leases' = Revoke(doomed)
  PROVE  StepKeepsTrack
<1>1. /\ DOMAIN leases' = DOMAIN leases
      /\ \A l \in DOMAIN leases :
           /\ leases'[l].scope = leases[l].scope
           /\ leases'[l].instance = leases[l].instance
           /\ leases'[l].epoch = leases[l].epoch
           /\ leases'[l].token = leases[l].token
           /\ leases[l].revoked => leases'[l].revoked
           /\ leases' = Revoke(doomed) /\ l \in doomed => leases'[l].revoked
  BY RevokeRows
<1>2. \A s \in Scope : fence'[s] >= fence[s]
  BY FenceStep
<1>3. ASSUME NEW l \in DOMAIN leases, Stands(l)', ~Named(l)',
             instances'[leases[l].instance].port = instances[leases[l].instance].port
      PROVE  Stands(l) /\ ~Named(l)
  <2>1. leases[l].instance \in DOMAIN instances
    BY DEF LeasesOwned
  <2>2. Stands(l)
    BY <1>1, <1>2, <1>3, <2>1, StoodBefore
  <2>3. ~leases'[l].revoked
    BY <1>3 DEF Stands, Standing
  <2>4. ~Named(l)
    BY <1>1, <1>3, <2>1, <2>3 DEF Named
  <2> QED BY <2>2, <2>4
<1> QED BY <1>1, <1>3 DEF StepKeepsTrack, LeasesOwned

(* A grant fences every earlier row of the scope, and the record of the    *)
(* grantee names the new one.                                              *)
LEMMA TrackGranted ==
  ASSUME TypeOK, TypeOK', TokensMinted, LeasesOwned, epoch' = epoch,
         NEW s \in Scope, NEW i, NEW at, NEW ttl,
         leases' = Grant(s, i, at, ttl), fence' = Advance(s),
         instances'[i].authority = "granted", instances'[i].lease = nextLease,
         instances'[i].token = fence[s] + 1,
         i \in DOMAIN instances => s = ScopeOf(i) /\ ScopeOf(i)' = ScopeOf(i),
         \A j \in DOMAIN instances : j # i => instances'[j] = instances[j]
  PROVE  StepKeepsTrack
<1>1. /\ nextLease \in DOMAIN leases' /\ nextLease \notin DOMAIN leases
      /\ leases'[nextLease].instance = i
      /\ leases'[nextLease].token = fence[s] + 1
      /\ \A l \in DOMAIN leases' :
           l # nextLease => l \in DOMAIN leases /\ leases'[l] = leases[l]
  BY GrantRows
<1>2. /\ fence[s] \in Nat
      /\ fence'[s] = fence[s] + 1
      /\ \A t \in Scope : t # s => fence'[t] = fence[t]
  BY DEF Advance, TypeOK
<1>3. \A t \in Scope : fence[t] \in Nat /\ fence'[t] >= fence[t]
  BY <1>2 DEF TypeOK
<1>4. ASSUME NEW l \in DOMAIN leases', l # nextLease, Stands(l)', ~Named(l)'
      PROVE  l \in DOMAIN leases /\ Stands(l) /\ ~Named(l)
  <2> DEFINE j == leases[l].instance
  <2>1. /\ l \in DOMAIN leases /\ leases'[l] = leases[l]
        /\ j \in DOMAIN instances
    BY <1>1, <1>4 DEF LeasesOwned
  <2>2. leases[l] \in Lease
    BY <2>1 DEF TypeOK
  <2>3. CASE j = i
    <3>1. leases'[l].scope = s /\ leases'[l].token >= fence'[s]
      BY <1>4, <2>1, <2>3 DEF Stands, Standing
    <3>2. leases[l].token <= fence[s]
      BY <2>1, <3>1 DEF TokensMinted
    <3>3. leases[l].token \in Nat
      BY <2>2 DEF Lease
    <3> QED BY <1>2, <2>1, <3>1, <3>2, <3>3
  <2>4. CASE j # i
    <3>1. instances'[j] = instances[j]
      BY <2>1, <2>4
    <3>2. Stands(l)
      BY <1>3, <1>4, <2>1, <3>1, StoodBefore
    <3>3. ~Named(l)
      BY <1>4, <2>1, <3>1 DEF Named
    <3> QED BY <2>1, <3>2, <3>3
  <2> QED BY <2>3, <2>4
<1>5. \A l : l = nextLease => Named(l)'
  BY <1>1 DEF Named
<1> QED BY <1>4, <1>5 DEF StepKeepsTrack

(* Every step keeps track of the leases, or moves the instance.            *)
LEMMA TrackStep ==
  ASSUME TypeOK, TypeOK', TokensMinted, LeasesOwned, Numbered, [Next]_vars
  PROVE  StepKeepsTrack
<1>1. \A i \in DOMAIN instances : instances[i] \in Instance
  BY DEF TypeOK
<1>2. ASSUME NEW d \in Device, NEW n \in 1..MaxIncarnation, RegisterDevice(d, n)
      PROVE  StepKeepsTrack
  <2> DEFINE doomed == {l \in DOMAIN leases : leases[l].scope[1] = d}
  <2>1. /\ leases' = Revoke(doomed) /\ epoch' = epoch
        /\ DOMAIN leases' = DOMAIN leases
        /\ \A l \in doomed : leases'[l].revoked
    BY <1>2, RevokeRows DEF RegisterDevice
  <2>2. ASSUME NEW i \in DOMAIN instances
        PROVE  /\ instances'[i].device = instances[i].device
               /\ instances'[i].token = instances[i].token
               /\ instances[i].device # d => instances'[i] = instances[i]
    <3>1. \/ instances'[i] = instances[i]
          \/ /\ instances[i].device = d
             /\ instances'[i] = [instances[i] EXCEPT !.lifecycle = "stale",
                                   !.authority = "revoked", !.lease = NoLease]
      BY <1>2 DEF RegisterDevice
    <3> QED BY <1>1, <3>1 DEF Instance
  <2>3. ASSUME NEW l \in DOMAIN leases, ~leases'[l].revoked, Stands(l)', ~Named(l)'
        PROVE  Stands(l) /\ ~Named(l)
    <3> DEFINE i == leases[l].instance
    <3>1. /\ i \in DOMAIN instances
          /\ leases'[l].scope = leases[l].scope /\ leases'[l].instance = i
          /\ leases'[l].epoch = leases[l].epoch /\ leases'[l].token = leases[l].token
          /\ leases[l].revoked => leases'[l].revoked
      BY <2>1, RevokeRows DEF LeasesOwned
    <3>2. leases[l].scope[1] # d
      BY <2>1, <2>3
    <3>3. leases[l].scope[1] = instances[i].device
      <4>1. leases'[l].scope = <<instances'[i].device, instances'[i].port>>
        BY <2>3, <3>1 DEF Stands, Standing, ScopeOf
      <4> QED BY <2>2, <3>1, <4>1
    <3>4. instances'[i] = instances[i]
      BY <2>2, <3>1, <3>2, <3>3
    <3>5. \A s \in Scope : fence'[s] >= fence[s]
      BY FenceStep
    <3>6. Stands(l)
      BY <2>1, <2>3, <3>1, <3>4, <3>5, StoodBefore
    <3>7. ~Named(l)
      BY <2>3, <3>1, <3>4 DEF Named
    <3> QED BY <3>6, <3>7
  <2>4. \A l \in DOMAIN leases' : Stands(l)' => ~leases'[l].revoked
    BY DEF Stands, Standing
  <2> QED BY <2>1, <2>3, <2>4 DEF StepKeepsTrack
<1>3. ASSUME UNCHANGED <<epoch, leases>>,
             \A i \in DOMAIN instances :
               /\ instances'[i].device = instances[i].device
               /\ instances'[i].token = instances[i].token
               /\ instances'[i].lease = instances[i].lease
               /\ instances[i].authority = "granted" => instances'[i].authority = "granted"
      PROVE  StepKeepsTrack
  BY <1>3, TrackKept
<1>4. ASSUME NEW l, UNCHANGED epoch, leases' = Revoke({l}),
             \A i \in DOMAIN instances :
               /\ instances'[i].device = instances[i].device
               /\ instances'[i].token = instances[i].token
               /\ \/ instances'[i].authority = instances[i].authority /\ instances'[i].lease = instances[i].lease
                  \/ instances[i].authority = "granted" => instances[i].lease = l
      PROVE  StepKeepsTrack
  BY <1>4, TrackKept
<1>5. ASSUME NEW d \in Device, NEW port \in PortOrNil, NEW pkg \in Package,
             NEW at \in Times, NEW ttl \in Lifetimes, ActivateNew(d, port, pkg, at, ttl)
      PROVE  StepKeepsTrack
  <2> DEFINE i == Cardinality(DOMAIN instances) + 1
             s == PackageScope(d, port, pkg)
  <2>1. i \notin DOMAIN instances
    <3>1. PICK n \in Nat : DOMAIN instances = 1..n
      BY DEF Numbered
    <3> QED BY <3>1, NextInstance
  <2>2. s \in Scope
    BY DEF PackageScope, Scope, PortOrNil
  <2>3. /\ leases' = Grant(s, i, at, ttl) /\ fence' = Advance(s) /\ epoch' = epoch
        /\ instances'[i].authority = "granted" /\ instances'[i].lease = nextLease
        /\ instances'[i].token = fence[s] + 1
        /\ \A j \in DOMAIN instances : j # i => instances'[j] = instances[j]
    BY <1>5 DEF ActivateNew
  <2> HIDE DEF i, s
  <2> QED BY <2>1, <2>2, <2>3, TrackGranted
<1>6. ASSUME NEW i \in DOMAIN instances, NEW at \in Times, NEW ttl \in Lifetimes,
             Acquire(i, at, ttl)
      PROVE  StepKeepsTrack
  <2> DEFINE s == ScopeOf(i)
  <2>1. s \in Scope
    BY ScopeOfType
  <2>2. /\ leases' = Grant(s, i, at, ttl) /\ fence' = Advance(s) /\ epoch' = epoch
        /\ \A j \in DOMAIN instances : j # i => instances'[j] = instances[j]
    BY <1>6 DEF Acquire
  <2>3. /\ instances'[i].authority = "granted" /\ instances'[i].lease = nextLease
        /\ instances'[i].token = fence[s] + 1
        /\ instances'[i].device = instances[i].device
        /\ instances'[i].port = instances[i].port
    BY <1>1, <1>6 DEF Acquire, Instance
  <2>4. s = ScopeOf(i) /\ ScopeOf(i)' = ScopeOf(i)
    BY <2>3 DEF ScopeOf
  <2> HIDE DEF s
  <2> QED BY <2>1, <2>2, <2>3, <2>4, TrackGranted
<1>7. ASSUME NEW i \in DOMAIN instances, NEW l \in DOMAIN leases, NEW at \in Times,
             NEW port \in PortOrNil, NEW pkg \in Package, ActivateExisting(i, port, pkg, l, at)
      PROVE  StepKeepsTrack
  <2>1. /\ instances'[i].device = instances[i].device
        /\ instances'[i].token = instances[i].token /\ instances'[i].lease = instances[i].lease
        /\ instances'[i].authority = "granted"
    BY <1>1, <1>7 DEF ActivateExisting, Instance
  <2>2. \A j \in DOMAIN instances : j # i => instances'[j] = instances[j]
    BY <1>7 DEF ActivateExisting
  <2>3. epoch' = epoch /\ UNCHANGED leases
    BY <1>7 DEF ActivateExisting
  <2> QED BY <1>3, <2>1, <2>2, <2>3
<1>8. ASSUME NEW i \in DOMAIN instances, NEW l \in DOMAIN leases, NEW at \in Times,
             Rollback(i, l, at)
      PROVE  StepKeepsTrack
  <2>1. /\ instances'[i].device = instances[i].device
        /\ instances'[i].token = instances[i].token /\ instances'[i].lease = instances[i].lease
        /\ instances'[i].authority = instances[i].authority
    BY <1>1, <1>8 DEF Rollback, Instance
  <2>2. \A j \in DOMAIN instances : j # i => instances'[j] = instances[j]
    BY <1>8 DEF Rollback
  <2>3. UNCHANGED <<epoch, leases>>
    BY <1>8 DEF Rollback
  <2> QED BY <1>3, <2>1, <2>2, <2>3
<1>9. ASSUME NEW i \in DOMAIN instances, NEW l \in DOMAIN leases, NEW at \in Times,
             NEW want \in {"quiesced", "withdrawn"}, Drain(i, want, l, at)
      PROVE  StepKeepsTrack
  <2>1. /\ instances'[i].device = instances[i].device
        /\ instances'[i].token = instances[i].token
    BY <1>1, <1>9 DEF Drain, Instance
  <2>2. \A j \in DOMAIN instances : j # i => instances'[j] = instances[j]
    BY <1>9 DEF Drain
  <2>3. UNCHANGED epoch /\ leases' = Revoke({instances[i].lease})
    BY <1>9 DEF Drain
  <2> QED BY <1>4, <2>1, <2>2, <2>3
<1>10. ASSUME NEW l \in DOMAIN leases, Release(l)
       PROVE  StepKeepsTrack
  <2> DEFINE i == leases[l].instance
  <2>1. i \in DOMAIN instances
    BY DEF LeasesOwned
  <2>2. UNCHANGED epoch /\ leases' = Revoke({l})
    BY <1>10 DEF Release
  <2>3. \A j \in DOMAIN instances : j # i => instances'[j] = instances[j]
    BY <1>10 DEF Release
  <2>4. /\ instances'[i].device = instances[i].device
        /\ instances'[i].token = instances[i].token
        /\ \/ instances'[i] = instances[i]
           \/ instances[i].lease = l
    BY <1>1, <1>10, <2>1 DEF Release, Instance
  <2> QED BY <1>4, <2>2, <2>3, <2>4
<1>11. ASSUME NEW i \in DOMAIN instances, Acknowledge(i)
       PROVE  StepKeepsTrack
  <2>1. /\ instances'[i].device = instances[i].device
        /\ instances'[i].token = instances[i].token /\ instances'[i].lease = instances[i].lease
        /\ instances'[i].authority = instances[i].authority
    BY <1>1, <1>11 DEF Acknowledge, Instance
  <2>2. \A j \in DOMAIN instances : j # i => instances'[j] = instances[j]
    BY <1>11 DEF Acknowledge
  <2>3. UNCHANGED <<epoch, leases>>
    BY <1>11 DEF Acknowledge
  <2> QED BY <1>3, <2>1, <2>2, <2>3
<1>12. ASSUME NEW i \in DOMAIN instances, NEW outcome \in EffectOutcome,
              ReportEffect(i, outcome)
       PROVE  StepKeepsTrack
  <2>1. /\ instances'[i].device = instances[i].device
        /\ instances'[i].token = instances[i].token
        /\ ~EndsAuthority(outcome) => /\ instances'[i].lease = instances[i].lease
                                      /\ instances'[i].authority = instances[i].authority
    BY <1>1, <1>12 DEF ReportEffect, Instance
  <2>2. \A j \in DOMAIN instances : j # i => instances'[j] = instances[j]
    BY <1>12 DEF ReportEffect
  <2>3. /\ UNCHANGED epoch
        /\ leases' = IF EndsAuthority(outcome) THEN Revoke({instances[i].lease}) ELSE leases
    BY <1>12 DEF ReportEffect
  <2>4. CASE EndsAuthority(outcome)
    BY <1>4, <2>1, <2>2, <2>3, <2>4
  <2>5. CASE ~EndsAuthority(outcome)
    BY <1>3, <2>1, <2>2, <2>3, <2>5
  <2> QED BY <2>4, <2>5
<1>13. CASE Restart
  <2>1. leases' = Revoke(DOMAIN leases)
    BY <1>13 DEF Restart
  <2>2. \A l \in DOMAIN leases' : leases'[l].revoked
    BY <2>1, RevokeRows
  <2> QED BY <2>2 DEF StepKeepsTrack, Stands, Standing
<1>14. ASSUME NEW d \in Device, EvidenceArrives(d) \/ EvidenceLapses(d)
       PROVE  StepKeepsTrack
  BY <1>3, <1>14 DEF EvidenceArrives, EvidenceLapses
<1>15. CASE UNCHANGED vars
  BY <1>3, <1>15 DEF vars
<1> QED BY <1>2, <1>5, <1>6, <1>7, <1>8, <1>9, <1>10, <1>11, <1>12, <1>13, <1>14, <1>15
        DEF Next

(* A lease that would be accepted is the one its record names until an     *)
(* activation moves its instance, for any number of everything and any     *)
(* clock: no expiry, pruning, grant, report, registration or restart of    *)
(* fabric_ops.cpp and fabric.cpp makes record and lease disagree.          *)
THEOREM OnlyMovesDisagree == Spec => OnlyMovesBreakAgreement
<1>1. Init => LeasesOwned
  BY DEF Init, LeasesOwned
<1>2. TypeOK /\ LeasesOwned /\ [Next]_vars => LeasesOwned'
  BY OwnerStep
<1>3. TypeOK /\ TypeOK' /\ TokensMinted /\ LeasesOwned /\ Numbered /\ [Next]_vars
        => [StepKeepsTrack]_vars
  BY TrackStep
<1>4. Spec => [][StepKeepsTrack]_vars
  BY <1>1, <1>2, <1>3, TypeCorrect, TokensAlwaysMinted, InstancesNumbered, PTL DEF Spec
<1> QED BY <1>4 DEF OnlyMovesBreakAgreement, StepKeepsTrack

------------------------------------------------------------------------------
(* What is at rest.                                                        *)

(* The instance is stopped, of an earlier incarnation, or of an unknown    *)
(* outcome.                                                                *)
AtRest(i) ==
  \/ instances[i].lifecycle \in Retired
  \/ Outdated(i)
  \/ instances[i].pending

RecordsAtRest == \A i \in DOMAIN instances : AtRest(i) => instances[i].authority # "granted"

(* A step that keeps the incarnations, takes no instance to rest without   *)
(* taking its authority, and grants nothing to what is at rest, keeps the  *)
(* records at rest.                                                        *)
LEMMA RestKept ==
  ASSUME RecordsAtRest, incarnation' = incarnation,
         DOMAIN instances' = DOMAIN instances,
         NEW i \in DOMAIN instances,
         \A j \in DOMAIN instances : j # i => instances'[j] = instances[j],
         instances'[i].device = instances[i].device,
         instances'[i].incarnation = instances[i].incarnation,
         \/ instances'[i].authority # "granted"
         \/ ~Outdated(i) /\ instances'[i].lifecycle \notin Retired /\ ~instances'[i].pending
         \/ /\ instances'[i].authority = instances[i].authority
            /\ instances'[i].lifecycle = instances[i].lifecycle
            /\ instances'[i].pending = instances[i].pending
  PROVE  RecordsAtRest'
<1>1. ASSUME NEW j \in DOMAIN instances, AtRest(j)', instances'[j].authority = "granted"
      PROVE  FALSE
  <2>1. CASE j # i
    <3>1. instances'[j] = instances[j]
      BY <2>1
    <3> QED BY <1>1, <3>1 DEF RecordsAtRest, AtRest, Outdated
  <2>2. CASE j = i
    BY <1>1, <2>2 DEF RecordsAtRest, AtRest, Outdated
  <2> QED BY <2>1, <2>2
<1> QED BY <1>1 DEF RecordsAtRest

(* Every step keeps the records at rest.                                   *)
LEMMA RestStep ==
  TypeOK /\ RecordsAtRest /\ [Next]_vars => RecordsAtRest'
<1> SUFFICES ASSUME TypeOK, RecordsAtRest, [Next]_vars
             PROVE  RecordsAtRest'
  OBVIOUS
<1>1. \A i \in DOMAIN instances : instances[i] \in Instance
  BY DEF TypeOK
<1>2. CASE UNCHANGED <<instances, incarnation>>
  BY <1>2 DEF RecordsAtRest, AtRest, Outdated
<1>3. ASSUME NEW d \in Device, NEW n \in 1..MaxIncarnation, RegisterDevice(d, n)
      PROVE  RecordsAtRest'
  <2>1. /\ incarnation'[d] = n /\ incarnation[d] # n
        /\ \A e \in Device : e # d => incarnation'[e] = incarnation[e]
        /\ DOMAIN instances' = DOMAIN instances
    <3>1. /\ n > incarnation[d]
          /\ incarnation' = [incarnation EXCEPT ![d] = n]
          /\ DOMAIN instances' = DOMAIN instances
      BY <1>3 DEF RegisterDevice
    <3>2. incarnation \in [Device -> Nat] /\ incarnation[d] \in Nat /\ n \in Nat
      BY BoundAssumption DEF TypeOK
    <3> QED BY <3>1, <3>2
  <2>2. ASSUME NEW i \in DOMAIN instances, AtRest(i)'
        PROVE  instances'[i].authority # "granted"
    <3>1. instances[i].device \in Device
      BY <1>1 DEF Instance
    <3>2. CASE instances[i].device = d /\ instances[i].incarnation # n
      <4>1. instances'[i] = [instances[i] EXCEPT !.lifecycle = "stale",
                               !.authority = "revoked", !.lease = NoLease]
        BY <1>3, <3>2 DEF RegisterDevice
      <4> QED BY <1>1, <4>1 DEF Instance
    <3>3. CASE ~(instances[i].device = d /\ instances[i].incarnation # n)
      <4>1. instances'[i] = instances[i]
        BY <1>3, <3>3 DEF RegisterDevice
      <4>2. CASE instances[i].device = d
        <5>1. AtRest(i)
          BY <2>1, <3>3, <4>2 DEF AtRest, Outdated
        <5> QED BY <4>1, <5>1 DEF RecordsAtRest
      <4>3. CASE instances[i].device # d
        <5>1. AtRest(i)
          BY <2>1, <2>2, <3>1, <4>1, <4>3 DEF AtRest, Outdated
        <5> QED BY <4>1, <5>1 DEF RecordsAtRest
      <4> QED BY <4>2, <4>3
    <3> QED BY <3>2, <3>3
  <2> QED BY <2>1, <2>2 DEF RecordsAtRest
<1>4. ASSUME NEW d \in Device, NEW port \in PortOrNil, NEW pkg \in Package,
             NEW at \in Times, NEW ttl \in Lifetimes, ActivateNew(d, port, pkg, at, ttl)
      PROVE  RecordsAtRest'
  <2> DEFINE i == Cardinality(DOMAIN instances) + 1
  <2>1. /\ DOMAIN instances' = DOMAIN instances \cup {i}
        /\ \A j \in DOMAIN instances : j # i => instances'[j] = instances[j]
        /\ instances'[i].device = d /\ instances'[i].incarnation = incarnation[d]
        /\ instances'[i].lifecycle = "authorized" /\ instances'[i].pending = FALSE
        /\ incarnation' = incarnation
    BY <1>4 DEF ActivateNew
  <2> HIDE DEF i
  <2>2. ASSUME NEW j \in DOMAIN instances', AtRest(j)'
        PROVE  instances'[j].authority # "granted"
    <3>1. j # i
      BY <2>1, <2>2 DEF AtRest, Outdated, Retired
    <3>2. j \in DOMAIN instances /\ instances'[j] = instances[j]
      BY <2>1, <3>1
    <3>3. AtRest(j)
      BY <2>1, <2>2, <3>2 DEF AtRest, Outdated
    <3> QED BY <3>2, <3>3 DEF RecordsAtRest
  <2> QED BY <2>2 DEF RecordsAtRest
<1>5. ASSUME NEW i \in DOMAIN instances, NEW at \in Times, NEW ttl \in Lifetimes,
             Acquire(i, at, ttl)
      PROVE  RecordsAtRest'
  <2>1. ~AtRest(i)
    BY <1>5 DEF Acquire, AtRest, Outdated, PermitsMutation, Retired
  <2>2. /\ incarnation' = incarnation /\ DOMAIN instances' = DOMAIN instances
        /\ \A j \in DOMAIN instances : j # i => instances'[j] = instances[j]
    BY <1>5 DEF Acquire
  <2>3. /\ instances'[i].device = instances[i].device
        /\ instances'[i].incarnation = instances[i].incarnation
        /\ instances'[i].lifecycle \in {instances[i].lifecycle, "authorized"}
        /\ instances'[i].pending = instances[i].pending
    BY <1>1, <1>5 DEF Acquire, Instance
  <2>4. instances'[i].lifecycle \notin Retired /\ ~instances'[i].pending
    BY <2>1, <2>3 DEF AtRest, Outdated, Retired
  <2> QED BY <2>1, <2>2, <2>3, <2>4, RestKept DEF AtRest
<1>6. ASSUME NEW i \in DOMAIN instances, NEW l \in DOMAIN leases, NEW at \in Times,
             NEW port \in PortOrNil, NEW pkg \in Package, ActivateExisting(i, port, pkg, l, at)
      PROVE  RecordsAtRest'
  <2>1. ~AtRest(i)
    BY <1>6 DEF ActivateExisting, AtRest, Outdated, PermitsMutation, Retired
  <2>2. /\ incarnation' = incarnation /\ DOMAIN instances' = DOMAIN instances
        /\ \A j \in DOMAIN instances : j # i => instances'[j] = instances[j]
    BY <1>6 DEF ActivateExisting
  <2>3. /\ instances'[i].device = instances[i].device
        /\ instances'[i].incarnation = instances[i].incarnation
        /\ instances'[i].lifecycle = "authorized" /\ instances'[i].pending = FALSE
    BY <1>1, <1>6 DEF ActivateExisting, Instance
  <2>4. instances'[i].lifecycle \notin Retired /\ ~instances'[i].pending
    BY <2>3 DEF Retired
  <2> QED BY <2>1, <2>2, <2>3, <2>4, RestKept DEF AtRest
<1>7. ASSUME NEW i \in DOMAIN instances, NEW l \in DOMAIN leases, NEW at \in Times,
             Rollback(i, l, at)
      PROVE  RecordsAtRest'
  <2>1. ~Outdated(i)
    BY <1>7 DEF Rollback, Outdated
  <2>2. /\ incarnation' = incarnation /\ DOMAIN instances' = DOMAIN instances
        /\ \A j \in DOMAIN instances : j # i => instances'[j] = instances[j]
    BY <1>7 DEF Rollback
  <2>3. /\ instances'[i].device = instances[i].device
        /\ instances'[i].incarnation = instances[i].incarnation
        /\ instances'[i].lifecycle = "authorized" /\ instances'[i].pending = FALSE
    BY <1>1, <1>7 DEF Rollback, Instance
  <2>4. instances'[i].lifecycle \notin Retired /\ ~instances'[i].pending
    BY <2>3 DEF Retired
  <2> QED BY <2>1, <2>2, <2>3, <2>4, RestKept DEF AtRest
<1>8. ASSUME NEW i \in DOMAIN instances, NEW l \in DOMAIN leases, NEW at \in Times,
             NEW want \in {"quiesced", "withdrawn"}, Drain(i, want, l, at)
      PROVE  RecordsAtRest'
  <2>1. /\ incarnation' = incarnation /\ DOMAIN instances' = DOMAIN instances
        /\ \A j \in DOMAIN instances : j # i => instances'[j] = instances[j]
    BY <1>8 DEF Drain
  <2>2. /\ instances'[i].device = instances[i].device
        /\ instances'[i].incarnation = instances[i].incarnation
        /\ instances'[i].authority = "revoked"
    BY <1>1, <1>8 DEF Drain, Instance
  <2>3. instances'[i].authority # "granted"
    BY <2>2
  <2> QED BY <2>1, <2>2, <2>3, RestKept
<1>9. ASSUME NEW l \in DOMAIN leases, Release(l)
      PROVE  RecordsAtRest'
  <2> DEFINE i == leases[l].instance
  <2>1. CASE instances[i].authority = "granted" /\ instances[i].lease = l
    <3>1. /\ instances' = [instances EXCEPT ![i].authority = "revoked", ![i].lease = NoLease]
          /\ incarnation' = incarnation
      BY <1>9, <2>1 DEF Release
    <3>2. ASSUME NEW j \in DOMAIN instances
          PROVE  /\ instances'[j].authority \in {instances[j].authority, "revoked"}
                 /\ instances'[j].device = instances[j].device
                 /\ instances'[j].incarnation = instances[j].incarnation
                 /\ instances'[j].lifecycle = instances[j].lifecycle
                 /\ instances'[j].pending = instances[j].pending
      BY <1>1, <3>1 DEF Instance
    <3>3. DOMAIN instances' = DOMAIN instances
      BY <3>1
    <3> QED BY <3>1, <3>2, <3>3 DEF RecordsAtRest, AtRest, Outdated
  <2>2. CASE ~(instances[i].authority = "granted" /\ instances[i].lease = l)
    BY <1>2, <1>9, <2>2 DEF Release
  <2> QED BY <2>1, <2>2
<1>10. ASSUME NEW i \in DOMAIN instances, Acknowledge(i)
       PROVE  RecordsAtRest'
  <2>1. /\ incarnation' = incarnation /\ DOMAIN instances' = DOMAIN instances
        /\ \A j \in DOMAIN instances : j # i => instances'[j] = instances[j]
    BY <1>10 DEF Acknowledge
  <2>2. /\ instances'[i].device = instances[i].device
        /\ instances'[i].incarnation = instances[i].incarnation
        /\ instances'[i].authority = instances[i].authority
        /\ instances'[i].pending = instances[i].pending
        /\ \/ instances'[i].lifecycle = instances[i].lifecycle
           \/ instances'[i].lifecycle = "acknowledged"
    BY <1>1, <1>10 DEF Acknowledge, Instance
  <2>3. CASE instances'[i].lifecycle = instances[i].lifecycle
    BY <2>1, <2>2, <2>3, RestKept
  <2>4. CASE instances'[i].lifecycle = "acknowledged"
    <3>1. instances'[i].lifecycle \notin Retired
      BY <2>4 DEF Retired
    <3>2. CASE AtRest(i)
      <4>1. instances'[i].authority # "granted"
        BY <2>2, <3>2 DEF RecordsAtRest
      <4> QED BY <2>1, <2>2, <4>1, RestKept
    <3>3. CASE ~AtRest(i)
      <4>1. ~instances'[i].pending
        BY <2>2, <3>3 DEF AtRest, Outdated
      <4> QED BY <2>1, <2>2, <3>1, <3>3, <4>1, RestKept DEF AtRest
    <3> QED BY <3>2, <3>3
  <2> QED BY <2>2, <2>3, <2>4
<1>11. ASSUME NEW i \in DOMAIN instances, NEW outcome \in EffectOutcome,
              ReportEffect(i, outcome)
       PROVE  RecordsAtRest'
  <2>1. /\ incarnation' = incarnation /\ DOMAIN instances' = DOMAIN instances
        /\ \A j \in DOMAIN instances : j # i => instances'[j] = instances[j]
    BY <1>11 DEF ReportEffect
  <2>2. /\ instances'[i].device = instances[i].device
        /\ instances'[i].incarnation = instances[i].incarnation
        /\ instances'[i].pending = FALSE
        /\ instances'[i].lifecycle = OutcomePhase(outcome)
        /\ instances'[i].authority = IF EndsAuthority(outcome) THEN "revoked"
                                                             ELSE instances[i].authority
    BY <1>1, <1>11 DEF ReportEffect, Instance
  <2>3. CASE EndsAuthority(outcome) \/ AtRest(i)
    <3>1. instances'[i].authority # "granted"
      BY <2>2, <2>3 DEF RecordsAtRest
    <3> QED BY <2>1, <2>2, <3>1, RestKept
  <2>4. CASE ~EndsAuthority(outcome) /\ ~AtRest(i)
    <3>1. instances'[i].lifecycle \notin Retired
      BY <2>2, <2>4 DEF EndsAuthority, OutcomePhase, Retired
    <3> QED BY <2>1, <2>2, <2>4, <3>1, RestKept DEF AtRest
  <2> QED BY <2>3, <2>4
<1>12. CASE Restart
  <2>1. incarnation' = incarnation /\ DOMAIN instances' = DOMAIN instances
    BY <1>12 DEF Restart
  <2>2. ASSUME NEW i \in DOMAIN instances, AtRest(i)'
        PROVE  instances'[i].authority # "granted"
    <3>1. CASE i \in Swept
      <4>1. instances'[i].authority = IF instances[i].authority = "granted" THEN "superseded"
                                                                         ELSE instances[i].authority
        BY <1>1, <1>12, <3>1 DEF Restart, AfterRestart, Instance
      <4> QED BY <4>1
    <3>2. CASE i \notin Swept
      <4>1. instances'[i] = instances[i]
        BY <1>12, <3>2 DEF Restart
      <4> QED BY <3>2, <4>1 DEF Swept
    <3> QED BY <3>1, <3>2
  <2> QED BY <2>1, <2>2 DEF RecordsAtRest
<1>13. ASSUME NEW d \in Device, EvidenceArrives(d) \/ EvidenceLapses(d)
       PROVE  RecordsAtRest'
  BY <1>2, <1>13 DEF EvidenceArrives, EvidenceLapses
<1>14. CASE UNCHANGED vars
  BY <1>2, <1>14 DEF vars
<1> QED BY <1>3, <1>4, <1>5, <1>6, <1>7, <1>8, <1>9, <1>10, <1>11, <1>12, <1>13, <1>14
        DEF Next

(* The instance's device has moved on, or nobody knows what became of its  *)
(* last attempt.                                                           *)
Lost(i) == Outdated(i) \/ instances[i].pending

NoneAccepted ==
  \A i \in DOMAIN instances : Lost(i) => \A l \in DOMAIN leases : ~Standing(l, i)

(* A row carried over does not become acceptable for an instance that was  *)
(* lost before.                                                            *)
LEMMA StillUnaccepted ==
  ASSUME TypeOK, TypeOK', NoneAccepted, epoch' = epoch,
         \A s \in Scope : fence'[s] >= fence[s],
         NEW i \in DOMAIN instances, Lost(i),
         instances'[i].device = instances[i].device, instances'[i].port = instances[i].port,
         NEW l \in DOMAIN leases, l \in DOMAIN leases',
         leases'[l].scope = leases[l].scope, leases'[l].instance = leases[l].instance,
         leases'[l].epoch = leases[l].epoch, leases'[l].token = leases[l].token,
         leases[l].revoked => leases'[l].revoked
  PROVE  ~Standing(l, i)'
<1> SUFFICES ASSUME Standing(l, i)'
             PROVE  FALSE
  OBVIOUS
<1>1. leases[l].instance = i /\ Stands(l)'
  BY DEF Standing, Stands
<1>2. Stands(l)
  BY <1>1, StoodBefore
<1> QED BY <1>1, <1>2 DEF Stands, NoneAccepted

(* A step that neither moves what is lost nor grants it anything.          *)
LEMMA NoneAcceptedKept ==
  ASSUME TypeOK, TypeOK', NoneAccepted, [Next]_vars, epoch' = epoch,
         \A i \in DOMAIN instances' : Lost(i)' =>
           /\ i \in DOMAIN instances /\ Lost(i)
           /\ instances'[i].device = instances[i].device
           /\ instances'[i].port = instances[i].port,
         \/ UNCHANGED leases
         \/ \E doomed : leases' = Revoke(doomed)
         \/ \E s, i, at, ttl : leases' = Grant(s, i, at, ttl) /\ ~Lost(i)'
  PROVE  NoneAccepted'
<1> SUFFICES ASSUME NEW i \in DOMAIN instances', Lost(i)', NEW l \in DOMAIN leases',
                    Standing(l, i)'
             PROVE  FALSE
  BY DEF NoneAccepted
<1>1. \A s \in Scope : fence'[s] >= fence[s]
  BY FenceStep
<1>2. CASE UNCHANGED leases
  BY <1>1, <1>2, StillUnaccepted
<1>3. ASSUME NEW doomed, leases' = Revoke(doomed)
      PROVE  FALSE
  BY <1>1, <1>3, RevokeRows, StillUnaccepted
<1>4. ASSUME NEW s, NEW j, NEW at, NEW ttl, leases' = Grant(s, j, at, ttl), ~Lost(j)'
      PROVE  FALSE
  <2>1. leases'[l].instance = i
    BY DEF Standing
  <2>2. l # nextLease
    BY <1>4, <2>1, GrantRows
  <2>3. l \in DOMAIN leases /\ leases'[l] = leases[l]
    BY <1>4, <2>2, GrantRows
  <2> QED BY <1>1, <2>3, StillUnaccepted
<1> QED BY <1>2, <1>3, <1>4

(* Every step leaves what is lost without an acceptable lease.             *)
LEMMA NoneAcceptedStep ==
  ASSUME TypeOK, TypeOK', NoneAccepted, [Next]_vars
  PROVE  NoneAccepted'
<1>1. \A i \in DOMAIN instances : instances[i] \in Instance
  BY DEF TypeOK
<1>2. ASSUME UNCHANGED <<epoch, incarnation, leases>>, DOMAIN instances' = DOMAIN instances,
             NEW i \in DOMAIN instances,
             \A j \in DOMAIN instances : j # i => instances'[j] = instances[j],
             \/ ~Lost(i)'
             \/ /\ instances'[i].device = instances[i].device
                /\ instances'[i].port = instances[i].port
                /\ instances'[i].incarnation = instances[i].incarnation
                /\ instances'[i].pending => instances[i].pending
      PROVE  NoneAccepted'
  <2>1. \A j \in DOMAIN instances' : Lost(j)' =>
          /\ j \in DOMAIN instances /\ Lost(j)
          /\ instances'[j].device = instances[j].device
          /\ instances'[j].port = instances[j].port
    BY <1>2 DEF Lost, Outdated
  <2> QED BY <1>2, <2>1, NoneAcceptedKept
<1>3. ASSUME UNCHANGED <<epoch, incarnation>>, DOMAIN instances' = DOMAIN instances,
             NEW doomed, leases' = Revoke(doomed) \/ UNCHANGED leases,
             \A i \in DOMAIN instances :
               /\ instances'[i].device = instances[i].device
               /\ instances'[i].port = instances[i].port
               /\ instances'[i].incarnation = instances[i].incarnation
               /\ instances'[i].pending => instances[i].pending
      PROVE  NoneAccepted'
  <2>1. \A j \in DOMAIN instances' : Lost(j)' =>
          /\ j \in DOMAIN instances /\ Lost(j)
          /\ instances'[j].device = instances[j].device
          /\ instances'[j].port = instances[j].port
    BY <1>3 DEF Lost, Outdated
  <2> QED BY <1>3, <2>1, NoneAcceptedKept
<1>4. ASSUME NEW d \in Device, NEW n \in 1..MaxIncarnation, RegisterDevice(d, n)
      PROVE  NoneAccepted'
  <2> DEFINE doomed == {l \in DOMAIN leases : leases[l].scope[1] = d}
  <2>1. /\ leases' = Revoke(doomed) /\ epoch' = epoch
        /\ DOMAIN instances' = DOMAIN instances
        /\ \A e \in Device : e # d => incarnation'[e] = incarnation[e]
    BY <1>4 DEF RegisterDevice, TypeOK
  <2>2. ASSUME NEW i \in DOMAIN instances
        PROVE  /\ instances'[i].device = instances[i].device
               /\ instances[i].device # d => instances'[i] = instances[i]
    <3>1. \/ instances'[i] = instances[i]
          \/ /\ instances[i].device = d
             /\ instances'[i] = [instances[i] EXCEPT !.lifecycle = "stale",
                                   !.authority = "revoked", !.lease = NoLease]
      BY <1>4 DEF RegisterDevice
    <3> QED BY <1>1, <3>1 DEF Instance
  <2>3. ASSUME NEW i \in DOMAIN instances, Lost(i)', NEW l \in DOMAIN leases, Standing(l, i)'
        PROVE  FALSE
    <3>1. /\ leases'[l].scope = leases[l].scope /\ leases'[l].instance = leases[l].instance
          /\ leases'[l].epoch = leases[l].epoch /\ leases'[l].token = leases[l].token
          /\ leases[l].revoked => leases'[l].revoked
          /\ l \in doomed => leases'[l].revoked
          /\ DOMAIN leases' = DOMAIN leases
      BY <2>1, RevokeRows
    <3>2. leases[l].scope[1] = instances[i].device /\ leases[l].scope[1] # d
      <4>1. leases'[l].scope = <<instances'[i].device, instances'[i].port>> /\ ~leases'[l].revoked
        BY <2>3 DEF Standing, ScopeOf
      <4>2. leases[l].scope[1] = instances[i].device
        BY <2>2, <3>1, <4>1
      <4> QED BY <3>1, <4>1, <4>2
    <3>3. instances'[i] = instances[i] /\ instances[i].device \in Device
      BY <1>1, <2>2, <3>2 DEF Instance
    <3>4. Lost(i)
      BY <2>1, <2>3, <3>2, <3>3 DEF Lost, Outdated
    <3>5. \A s \in Scope : fence'[s] >= fence[s]
      BY FenceStep
    <3> QED BY <2>1, <2>3, <3>1, <3>3, <3>4, <3>5, StillUnaccepted
  <2>4. DOMAIN leases' = DOMAIN leases
    BY <2>1, RevokeRows
  <2> QED BY <2>1, <2>3, <2>4 DEF NoneAccepted
<1>5. ASSUME NEW d \in Device, NEW port \in PortOrNil, NEW pkg \in Package,
             NEW at \in Times, NEW ttl \in Lifetimes, ActivateNew(d, port, pkg, at, ttl)
      PROVE  NoneAccepted'
  <2> DEFINE i == Cardinality(DOMAIN instances) + 1
             s == PackageScope(d, port, pkg)
  <2>1. /\ DOMAIN instances' = DOMAIN instances \cup {i}
        /\ \A j \in DOMAIN instances : j # i => instances'[j] = instances[j]
        /\ instances'[i].device = d /\ instances'[i].incarnation = incarnation[d]
        /\ instances'[i].pending = FALSE
        /\ incarnation' = incarnation /\ epoch' = epoch
        /\ leases' = Grant(s, i, at, ttl)
    BY <1>5 DEF ActivateNew
  <2> HIDE DEF i, s
  <2>2. \A j : j = i => ~Lost(j)'
    BY <2>1 DEF Lost, Outdated
  <2>3. \A j \in DOMAIN instances' : Lost(j)' =>
          /\ j \in DOMAIN instances /\ Lost(j)
          /\ instances'[j].device = instances[j].device
          /\ instances'[j].port = instances[j].port
    BY <2>1, <2>2 DEF Lost, Outdated
  <2>4. \E s1, i1, at1, ttl1 : leases' = Grant(s1, i1, at1, ttl1) /\ ~Lost(i1)'
    BY <2>1, <2>2
  <2> QED BY <2>1, <2>3, <2>4, NoneAcceptedKept
<1>6. ASSUME NEW i \in DOMAIN instances, NEW at \in Times, NEW ttl \in Lifetimes,
             Acquire(i, at, ttl)
      PROVE  NoneAccepted'
  <2>1. /\ incarnation' = incarnation /\ epoch' = epoch
        /\ DOMAIN instances' = DOMAIN instances
        /\ \A j \in DOMAIN instances : j # i => instances'[j] = instances[j]
        /\ leases' = Grant(ScopeOf(i), i, at, ttl)
        /\ ~instances[i].pending /\ incarnation[instances[i].device] = instances[i].incarnation
    BY <1>6 DEF Acquire
  <2>2. /\ instances'[i].device = instances[i].device
        /\ instances'[i].incarnation = instances[i].incarnation
        /\ instances'[i].pending = instances[i].pending
    BY <1>1, <1>6 DEF Acquire, Instance
  <2>3. ~Lost(i)'
    BY <2>1, <2>2 DEF Lost, Outdated
  <2>4. \A j \in DOMAIN instances' : Lost(j)' =>
          /\ j \in DOMAIN instances /\ Lost(j)
          /\ instances'[j].device = instances[j].device
          /\ instances'[j].port = instances[j].port
    BY <2>1, <2>3 DEF Lost, Outdated
  <2> QED BY <2>1, <2>3, <2>4, NoneAcceptedKept
<1>7. ASSUME NEW i \in DOMAIN instances, NEW l \in DOMAIN leases, NEW at \in Times,
             NEW port \in PortOrNil, NEW pkg \in Package, ActivateExisting(i, port, pkg, l, at)
      PROVE  NoneAccepted'
  <2>1. /\ UNCHANGED <<epoch, incarnation, leases>> /\ DOMAIN instances' = DOMAIN instances
        /\ \A j \in DOMAIN instances : j # i => instances'[j] = instances[j]
        /\ instances[i].incarnation = incarnation[instances[i].device]
    BY <1>7 DEF ActivateExisting
  <2>2. /\ instances'[i].device = instances[i].device
        /\ instances'[i].incarnation = instances[i].incarnation
        /\ instances'[i].pending = FALSE
    BY <1>1, <1>7 DEF ActivateExisting, Instance
  <2>3. ~Lost(i)'
    BY <2>1, <2>2 DEF Lost, Outdated
  <2> QED BY <1>2, <2>1, <2>3
<1>8. ASSUME NEW i \in DOMAIN instances, NEW l \in DOMAIN leases, NEW at \in Times,
             Rollback(i, l, at)
      PROVE  NoneAccepted'
  <2>1. /\ UNCHANGED <<epoch, incarnation, leases>> /\ DOMAIN instances' = DOMAIN instances
        /\ \A j \in DOMAIN instances : j # i => instances'[j] = instances[j]
        /\ instances[i].incarnation = incarnation[instances[i].device]
    BY <1>8 DEF Rollback
  <2>2. /\ instances'[i].device = instances[i].device
        /\ instances'[i].incarnation = instances[i].incarnation
        /\ instances'[i].pending = FALSE
    BY <1>1, <1>8 DEF Rollback, Instance
  <2>3. ~Lost(i)'
    BY <2>1, <2>2 DEF Lost, Outdated
  <2> QED BY <1>2, <2>1, <2>3
<1>9. ASSUME NEW i \in DOMAIN instances, NEW l \in DOMAIN leases, NEW at \in Times,
             NEW want \in {"quiesced", "withdrawn"}, Drain(i, want, l, at)
      PROVE  NoneAccepted'
  <2>1. /\ UNCHANGED <<epoch, incarnation>> /\ DOMAIN instances' = DOMAIN instances
        /\ \A j \in DOMAIN instances : j # i => instances'[j] = instances[j]
        /\ leases' = Revoke({instances[i].lease})
    BY <1>9 DEF Drain
  <2>2. /\ instances'[i].device = instances[i].device
        /\ instances'[i].port = instances[i].port
        /\ instances'[i].incarnation = instances[i].incarnation
        /\ instances'[i].pending = instances[i].pending
    BY <1>1, <1>9 DEF Drain, Instance
  <2> QED BY <1>3, <2>1, <2>2
<1>10. ASSUME NEW l \in DOMAIN leases, Release(l)
       PROVE  NoneAccepted'
  <2>1. UNCHANGED <<epoch, incarnation>> /\ leases' = Revoke({l})
    BY <1>10 DEF Release
  <2>2. /\ DOMAIN instances' = DOMAIN instances
        /\ \A i \in DOMAIN instances :
             /\ instances'[i].device = instances[i].device
             /\ instances'[i].port = instances[i].port
             /\ instances'[i].incarnation = instances[i].incarnation
             /\ instances'[i].pending = instances[i].pending
    BY <1>1, <1>10 DEF Release, Instance
  <2> QED BY <1>3, <2>1, <2>2
<1>11. ASSUME NEW i \in DOMAIN instances, Acknowledge(i)
       PROVE  NoneAccepted'
  <2>1. /\ UNCHANGED <<epoch, incarnation, leases>> /\ DOMAIN instances' = DOMAIN instances
        /\ \A j \in DOMAIN instances : j # i => instances'[j] = instances[j]
    BY <1>11 DEF Acknowledge
  <2>2. /\ instances'[i].device = instances[i].device
        /\ instances'[i].port = instances[i].port
        /\ instances'[i].incarnation = instances[i].incarnation
        /\ instances'[i].pending = instances[i].pending
    BY <1>1, <1>11 DEF Acknowledge, Instance
  <2> QED BY <1>2, <2>1, <2>2
<1>12. ASSUME NEW i \in DOMAIN instances, NEW outcome \in EffectOutcome,
              ReportEffect(i, outcome)
       PROVE  NoneAccepted'
  <2>1. /\ UNCHANGED <<epoch, incarnation>> /\ DOMAIN instances' = DOMAIN instances
        /\ \A j \in DOMAIN instances : j # i => instances'[j] = instances[j]
        /\ leases' = Revoke({instances[i].lease}) \/ UNCHANGED leases
    BY <1>12 DEF ReportEffect
  <2>2. /\ instances'[i].device = instances[i].device
        /\ instances'[i].port = instances[i].port
        /\ instances'[i].incarnation = instances[i].incarnation
        /\ instances'[i].pending = FALSE
    BY <1>1, <1>12 DEF ReportEffect, Instance
  <2> QED BY <1>3, <2>1, <2>2
<1>13. CASE Restart
  <2>1. leases' = Revoke(DOMAIN leases)
    BY <1>13 DEF Restart
  <2>2. \A l \in DOMAIN leases' : leases'[l].revoked
    BY <2>1, RevokeRows
  <2> QED BY <2>2 DEF NoneAccepted, Standing
<1>14. ASSUME NEW d \in Device, EvidenceArrives(d) \/ EvidenceLapses(d)
       PROVE  NoneAccepted'
  BY <1>3, <1>14 DEF EvidenceArrives, EvidenceLapses
<1>15. CASE UNCHANGED vars
  BY <1>3, <1>15 DEF vars
<1> QED BY <1>4, <1>5, <1>6, <1>7, <1>8, <1>9, <1>10, <1>11, <1>12, <1>13, <1>14, <1>15
        DEF Next

(* The record of what is stopped, outdated or of unknown outcome does not  *)
(* say "granted", and of the last two no lease is accepted, whatever moves *)
(* between ports went before: a registration (fabric_ops.cpp:445) and      *)
(* recovery revoke by device and by table, not by what the records name.   *)
THEOREM AtRestWithoutAuthority == Spec => []NoAuthorityAtRest
<1>1. Init => RecordsAtRest /\ NoneAccepted
  BY DEF Init, RecordsAtRest, NoneAccepted
<1>2. TypeOK /\ RecordsAtRest /\ [Next]_vars => RecordsAtRest'
  BY RestStep
<1>3. TypeOK /\ TypeOK' /\ NoneAccepted /\ [Next]_vars => NoneAccepted'
  BY NoneAcceptedStep
<1>4. RecordsAtRest /\ NoneAccepted => NoAuthorityAtRest
  BY DEF RecordsAtRest, AtRest, NoneAccepted, Lost, NoAuthorityAtRest
<1> QED
  BY <1>1, <1>2, <1>3, <1>4, TypeCorrect, PTL DEF Spec

------------------------------------------------------------------------------
(* Making room in the lease table.                                         *)

(* The rows a grant drops were revoked, or had expired when it was made.   *)
LEMMA GrantDrops ==
  ASSUME TypeOK, NEW s, NEW i, NEW at, NEW ttl, leases' = Grant(s, i, at, ttl),
         NEW l \in DOMAIN leases, l \notin DOMAIN leases'
  PROVE  /\ leases[l].revoked \/ ~Unexpired(l, at)
         /\ leases'[nextLease].expires = at + ttl
<1>1. l \in Pruned(at)
  BY DEF Grant
<1>2. l \in Prunable(at)
  BY <1>1 DEF Pruned
<1>3. leases'[nextLease].expires = at + ttl
  BY DEF Grant
<1> QED BY <1>2, <1>3 DEF Prunable

(* No grant makes room by dropping a lease that is unrevoked and has time  *)
(* left (fabric_ops.cpp:119), whatever the size of the table and however   *)
(* the clock moved since the lease was granted.                            *)
THEOREM PruningSparesLiveLeases == Spec => OnlyDeadLeasesDropped
<1> DEFINE StepSpares ==
      \A l \in DOMAIN leases \ DOMAIN leases' :
        \/ leases[l].revoked
        \/ \E at \in Times, ttl \in Lifetimes :
             leases'[nextLease].expires = at + ttl /\ ~Unexpired(l, at)
<1>1. ASSUME TypeOK, [Next]_vars
      PROVE  StepSpares
  <2>1. ASSUME NEW doomed, leases' = Revoke(doomed)
        PROVE  StepSpares
    BY <1>1, <2>1, RevokeRows
  <2>2. CASE UNCHANGED leases
    BY <2>2
  <2>3. ASSUME NEW s, NEW i, NEW at \in Times, NEW ttl \in Lifetimes,
               leases' = Grant(s, i, at, ttl)
        PROVE  StepSpares
    BY <1>1, <2>3, GrantDrops
  <2>4. ASSUME NEW d \in Device, NEW port \in PortOrNil, NEW pkg \in Package,
               NEW at \in Times, NEW ttl \in Lifetimes, ActivateNew(d, port, pkg, at, ttl)
        PROVE  StepSpares
    <3>1. \E s, i : leases' = Grant(s, i, at, ttl)
      BY <2>4 DEF ActivateNew
    <3> HIDE DEF StepSpares
    <3> QED BY <2>3, <3>1
  <2>5. ASSUME NEW i \in DOMAIN instances, NEW at \in Times, NEW ttl \in Lifetimes,
               Acquire(i, at, ttl)
        PROVE  StepSpares
    <3>1. leases' = Grant(ScopeOf(i), i, at, ttl)
      BY <2>5 DEF Acquire
    <3> HIDE DEF StepSpares
    <3> QED BY <2>3, <3>1
  <2> HIDE DEF StepSpares
  <2>6. ASSUME NEW d \in Device, NEW n \in 1..MaxIncarnation, RegisterDevice(d, n)
        PROVE  StepSpares
    BY <2>1, <2>6 DEF RegisterDevice
  <2>7. CASE Restart
    BY <2>1, <2>7 DEF Restart
  <2> QED
    BY <1>1, <2>1, <2>2, <2>4, <2>5, <2>6, <2>7, MintsNothing, RevokesOnly DEF Next
<1>2. TypeOK /\ [Next]_vars => [StepSpares]_vars
  BY <1>1
<1> HIDE DEF StepSpares
<1>3. Spec => [][StepSpares]_vars
  BY <1>2, TypeCorrect, PTL DEF Spec
<1> QED BY <1>3 DEF OnlyDeadLeasesDropped, StepSpares

------------------------------------------------------------------------------
(* Scopes as locks: the authority core implements FencedScope.             *)
(* OneHolderPerScope speaks of one moment; this is about a holder over     *)
(* time, who may lose the scope but not come back under the token it lost. *)

(* What a step does to the lease table.                                    *)
LEMMA LeaseStep ==
  ASSUME TypeOK, [Next]_vars
  PROVE  \/ Restart
         \/ /\ epoch' = epoch
            /\ \/ UNCHANGED leases
               \/ \E doomed : leases' = Revoke(doomed)
               \/ \E s \in Scope : \E i, at, ttl : leases' = Grant(s, i, at, ttl) /\ fence' = Advance(s)
<1> DEFINE done == \/ Restart
                   \/ /\ epoch' = epoch
                      /\ \/ UNCHANGED leases
                         \/ \E doomed : leases' = Revoke(doomed)
                         \/ \E s \in Scope : \E i, at, ttl :
                              leases' = Grant(s, i, at, ttl) /\ fence' = Advance(s)
<1>1. ASSUME NEW d \in Device, NEW n \in 1..MaxIncarnation, RegisterDevice(d, n)
      PROVE  done
  BY <1>1 DEF RegisterDevice
<1>2. ASSUME NEW d \in Device, EvidenceArrives(d) \/ EvidenceLapses(d)
      PROVE  done
  BY <1>2 DEF EvidenceArrives, EvidenceLapses
<1>3. ASSUME NEW d \in Device, NEW port \in PortOrNil, NEW pkg \in Package,
             NEW at \in Times, NEW ttl \in Lifetimes, ActivateNew(d, port, pkg, at, ttl)
      PROVE  done
  <2>1. PackageScope(d, port, pkg) \in Scope
    BY DEF PackageScope, Scope, PortOrNil
  <2> QED BY <1>3, <2>1 DEF ActivateNew
<1>4. ASSUME NEW i \in DOMAIN instances, NEW at \in Times, NEW ttl \in Lifetimes,
             Acquire(i, at, ttl)
      PROVE  done
  BY <1>4, ScopeOfType DEF Acquire
<1>5. ASSUME NEW i \in DOMAIN instances, NEW at \in Times, NEW l \in DOMAIN leases,
             NEW port \in PortOrNil, NEW pkg \in Package, ActivateExisting(i, port, pkg, l, at)
      PROVE  done
  BY <1>5 DEF ActivateExisting
<1>6. ASSUME NEW i \in DOMAIN instances, NEW at \in Times, NEW l \in DOMAIN leases,
             Rollback(i, l, at)
      PROVE  done
  BY <1>6 DEF Rollback
<1>10. ASSUME NEW i \in DOMAIN instances, NEW at \in Times, NEW l \in DOMAIN leases,
              NEW want \in {"quiesced", "withdrawn"}, Drain(i, want, l, at)
       PROVE  done
  BY <1>10 DEF Drain
<1>7. ASSUME NEW l \in DOMAIN leases, Release(l)
      PROVE  done
  BY <1>7 DEF Release
<1>8. ASSUME NEW i \in DOMAIN instances, Acknowledge(i)
      PROVE  done
  BY <1>8 DEF Acknowledge
<1>11. ASSUME NEW i \in DOMAIN instances, NEW outcome \in EffectOutcome, ReportEffect(i, outcome)
       PROVE  done
  BY <1>11 DEF ReportEffect
<1>9. ASSUME UNCHANGED vars
      PROVE  done
  BY <1>9 DEF vars
<1>12. ASSUME Restart
       PROVE  done
  BY <1>12
<1> HIDE DEF done
<1>13. done
  BY <1>1, <1>2, <1>3, <1>4, <1>5, <1>6, <1>7, <1>8, <1>9, <1>10, <1>11, <1>12 DEF Next
<1> QED BY <1>13 DEF done

(* A lease in force after a step was in force before it on the same scope, *)
(* or its scope has a higher mark.                                         *)
LEMMA NothingReturns ==
  ASSUME TypeOK, TypeOK', [Next]_vars, NEW l \in DOMAIN leases', InForce(l)'
  PROVE  \/ l \in DOMAIN leases /\ InForce(l) /\ leases'[l].scope = leases[l].scope
         \/ /\ leases'[l].scope \in Scope
            /\ fence'[leases'[l].scope] > fence[leases'[l].scope]
<1>1. \A s \in Scope : fence[s] \in Nat /\ fence'[s] \in Nat /\ fence'[s] >= fence[s]
  BY FenceStep DEF TypeOK
<1>2. ASSUME epoch' = epoch, l \in DOMAIN leases,
             leases'[l].scope = leases[l].scope,
             leases'[l].epoch = leases[l].epoch, leases'[l].token = leases[l].token,
             leases[l].revoked => leases'[l].revoked
      PROVE  InForce(l)
  <2>1. leases[l].scope \in Scope /\ leases[l].token \in Nat
    BY <1>2 DEF TypeOK, Lease
  <2>2. leases[l].token >= fence'[leases[l].scope]
    BY <1>2 DEF InForce
  <2>3. leases[l].token >= fence[leases[l].scope]
    BY <1>1, <2>1, <2>2
  <2> QED BY <1>2, <2>3 DEF InForce
<1>3. ASSUME NEW doomed, epoch' = epoch, leases' = Revoke(doomed)
      PROVE  l \in DOMAIN leases /\ InForce(l) /\ leases'[l].scope = leases[l].scope
  BY <1>2, <1>3, RevokeRows
<1>4. ASSUME NEW s \in Scope, NEW i, NEW at, NEW ttl, epoch' = epoch,
             leases' = Grant(s, i, at, ttl), fence' = Advance(s)
      PROVE  \/ l \in DOMAIN leases /\ InForce(l) /\ leases'[l].scope = leases[l].scope
             \/ leases'[l].scope = s /\ fence'[s] > fence[s]
  <2>1. CASE l = nextLease
    <3>1. leases'[l].scope = s
      BY <1>4, <2>1, GrantRows
    <3>2. fence[s] \in Nat /\ fence'[s] = fence[s] + 1
      BY <1>4 DEF Advance, TypeOK
    <3> QED BY <3>1, <3>2
  <2>2. CASE l # nextLease
    <3>1. l \in DOMAIN leases /\ leases'[l] = leases[l]
      BY <1>4, <2>2, GrantRows
    <3> QED BY <1>2, <1>4, <3>1
  <2> QED BY <2>1, <2>2
<1>5. CASE Restart
  <2>1. leases' = Revoke(DOMAIN leases)
    BY <1>5 DEF Restart
  <2>2. leases'[l].revoked
    BY <2>1, RevokeRows
  <2> QED BY <2>2 DEF InForce
<1>6. CASE epoch' = epoch /\ UNCHANGED leases
  BY <1>2, <1>6
<1> QED BY <1>3, <1>4, <1>5, <1>6, LeaseStep

------------------------------------------------------------------------------
(* The refinement.                                                         *)

Held(s) == \E l \in DOMAIN leases : InForce(l) /\ leases[l].scope = s

(* Whoever holds a scope holds it under the scope's mark.                  *)
LEMMA HolderIsMark ==
  TypeOK /\ TokensMinted => \A s \in Scope : Holder(s) = IF Held(s) THEN fence[s] ELSE 0
<1> SUFFICES ASSUME TypeOK, TokensMinted, NEW s \in Scope
             PROVE  Holder(s) = IF Held(s) THEN fence[s] ELSE 0
  OBVIOUS
<1> DEFINE standing == {k \in DOMAIN leases : InForce(k) /\ leases[k].scope = s}
           tokens == {leases[l].token : l \in standing}
<1>1. ASSUME NEW l \in standing
      PROVE  leases[l].token = fence[s]
  <2>1. leases[l] \in Lease /\ fence[s] \in Nat
    BY DEF TypeOK
  <2>2. leases[l].token >= fence[s] /\ leases[l].token <= fence[s]
    BY DEF InForce, TokensMinted
  <2> QED BY <2>1, <2>2 DEF Lease
<1>2. CASE Held(s)
  <2>1. PICK l : l \in standing
    BY <1>2 DEF Held
  <2>2. tokens = {fence[s]}
    BY <1>1, <2>1
  <2> HIDE DEF tokens
  <2>3. (IF tokens = {} THEN 0 ELSE CHOOSE t \in tokens : TRUE) = fence[s]
    BY <2>2
  <2> QED BY <1>2, <2>3 DEF Holder, tokens
<1>3. CASE ~Held(s)
  <2>1. tokens = {}
    BY <1>3 DEF Held
  <2> QED BY <1>3, <2>1 DEF Holder
<1> QED BY <1>2, <1>3

ScopeInv == TypeOK /\ TokensMinted

LEMMA ScopeStep ==
  ASSUME ScopeInv, ScopeInv', [Next]_vars
  PROVE  [Fenced!Next]_(Fenced!vars)
<1> DEFINE holder == [s \in Scope |-> Holder(s)]
<1>1. /\ TypeOK /\ TokensMinted /\ TypeOK' /\ TokensMinted'
  BY DEF ScopeInv
<1>2. \A s \in Scope : /\ fence[s] \in Nat /\ fence'[s] \in Nat /\ fence'[s] >= fence[s]
  BY <1>1, FenceStep DEF TypeOK
<1>3. \A s \in Scope : Holder(s) = IF Held(s) THEN fence[s] ELSE 0
  BY <1>1, HolderIsMark
<1>4. \A s \in Scope : Holder(s)' = IF Held(s)' THEN fence'[s] ELSE 0
  <2>1. (\A s \in Scope : Holder(s) = IF Held(s) THEN fence[s] ELSE 0)'
    BY <1>1, HolderIsMark, PTL
  <2> QED BY <2>1
<1>5. ASSUME NEW s \in Scope, Held(s)'
      PROVE  Held(s) \/ fence'[s] > fence[s]
  <2>1. PICK l \in DOMAIN leases' : InForce(l)' /\ leases'[l].scope = s
    BY <1>5 DEF Held
  <2> QED BY <1>1, <2>1, NothingReturns DEF Held
<1>6. ASSUME NEW s \in Scope
      PROVE  Fenced!Grant(s) \/ Fenced!Withdraw(s) \/ Fenced!Keep(s)
  <2>1. holder[s] = Holder(s) /\ holder'[s] = Holder(s)'
    OBVIOUS
  <2> HIDE DEF holder
  <2>2. CASE ~Held(s)'
    BY <1>2, <1>4, <2>2 DEF Fenced!Withdraw
  <2>3. CASE Held(s)' /\ fence'[s] > fence[s]
    BY <1>4, <2>3 DEF Fenced!Grant
  <2>4. CASE Held(s)' /\ ~(fence'[s] > fence[s])
    <3>1. Held(s) /\ fence'[s] = fence[s]
      BY <1>2, <1>5, <2>4
    <3> QED BY <1>3, <1>4, <2>4, <3>1 DEF Fenced!Keep
  <2> QED BY <2>2, <2>3, <2>4
<1>7. fence' \in [Scope -> Nat] /\ holder' \in [Scope -> Nat]
  BY <1>1, <1>2, <1>4 DEF TypeOK
<1> QED BY <1>6, <1>7 DEF Fenced!Next

LEMMA ScopeInit == Init => Fenced!Init
<1> SUFFICES ASSUME Init
             PROVE  Fenced!Init
  OBVIOUS
<1>1. leases = <<>> /\ fence = [s \in Scope |-> 0]
  BY DEF Init
<1>2. \A s \in Scope : Holder(s) = 0
  BY <1>1 DEF Holder
<1> QED BY <1>1, <1>2 DEF Fenced!Init

(* Seen from one scope the coordinator is a fenced lock, for any number of *)
(* everything, any clock, any moves between ports and any restarts: a      *)
(* lease comes into force only with a token above every earlier one, and   *)
(* one that has been superseded or revoked is never in force again         *)
(* (fabric_ops.cpp:68).                                                    *)
THEOREM CoreImplementsFencedScope == Spec => FencedScopeSpec
<1>1. Spec => []ScopeInv
  BY TypeCorrect, TokensAlwaysMinted, PTL DEF ScopeInv
<1>2. ScopeInv /\ ScopeInv' /\ [Next]_vars => [Fenced!Next]_(Fenced!vars)
  BY ScopeStep
<1> QED BY <1>1, <1>2, ScopeInit, PTL DEF Spec, FencedScopeSpec, Fenced!Spec

==============================================================================
