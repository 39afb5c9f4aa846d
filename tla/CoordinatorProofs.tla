--------------------------- MODULE CoordinatorProofs ---------------------------
(***************************************************************************)
(* Evidence, for any number of devices, packages, restarts and passes of   *)
(* the recovery that are cut short: a stored report never goes back to an  *)
(* older generation, and nothing accepted under an earlier epoch counts    *)
(* while the coordinator serves.                                           *)
(***************************************************************************)
EXTENDS Coordinator, FiniteSetTheorems, TLAPS

------------------------------------------------------------------------------
(* Types of what reports write.                                            *)
ReportsTyped ==
  /\ epoch \in Nat
  /\ incarnation \in [Device -> Nat]
  /\ generation \in [Device -> Nat]
  /\ present \in [Device -> BOOLEAN]
  /\ capability \in [Device -> Capability]
  /\ observation \in [Device -> Observation]

(* The tables are finite, so that a pass has finitely many records.        *)
TablesFinite == IsFiniteSet(DOMAIN leases) /\ IsFiniteSet(DOMAIN instances)

(* The operations of the core write no report, no epoch and no             *)
(* incarnation, and extend its tables by one row at most.                  *)
LEMMA CommandKeeps ==
  ASSUME Command, TablesFinite
  PROVE  UNCHANGED <<epoch, incarnation, reports, todo, before>> /\ TablesFinite'
<1> DEFINE Kept == UNCHANGED <<epoch, incarnation, reports, todo, before>> /\ TablesFinite'
<1>1. ASSUME NEW d \in Device, NEW port \in Core!PortOrNil, NEW pkg \in Package,
             NEW at \in Times, NEW ttl \in Lifetimes,
             Decide(Core!ActivateNew(d, port, pkg, at, ttl))
      PROVE  Kept
  <2>0. Core!ActivateNew(d, port, pkg, at, ttl) /\ UNCHANGED <<reports, todo, before>>
    BY <1>1 DEF Decide
  <2>2. DOMAIN leases' = (DOMAIN leases \ Core!Pruned(at)) \cup {nextLease}
    BY <2>0 DEF Core!ActivateNew, Core!Grant
  <2>3. \E i : DOMAIN instances' = DOMAIN instances \cup {i}
    BY <2>0 DEF Core!ActivateNew
  <2>4. IsFiniteSet(DOMAIN leases \ Core!Pruned(at))
    BY FS_Subset DEF TablesFinite
  <2>5. TablesFinite'
    BY <2>2, <2>3, <2>4, FS_AddElement DEF TablesFinite
  <2> QED BY <2>0, <2>5 DEF Core!ActivateNew
<1>2. ASSUME NEW i \in DOMAIN instances, NEW at \in Times, NEW ttl \in Lifetimes,
             Decide(Core!Acquire(i, at, ttl))
      PROVE  Kept
  <2>0. Core!Acquire(i, at, ttl) /\ UNCHANGED <<reports, todo, before>>
    BY <1>2 DEF Decide
  <2>2. DOMAIN leases' = (DOMAIN leases \ Core!Pruned(at)) \cup {nextLease}
    BY <2>0 DEF Core!Acquire, Core!Grant
  <2>3. DOMAIN instances' = DOMAIN instances
    BY <2>0 DEF Core!Acquire
  <2>4. IsFiniteSet(DOMAIN leases \ Core!Pruned(at))
    BY FS_Subset DEF TablesFinite
  <2>5. TablesFinite'
    BY <2>2, <2>3, <2>4, FS_AddElement DEF TablesFinite
  <2> QED BY <2>0, <2>5 DEF Core!Acquire
<1>3. ASSUME NEW i \in DOMAIN instances, NEW at \in Times, NEW l \in DOMAIN leases,
             NEW port \in Core!PortOrNil, NEW pkg \in Package,
             Decide(Core!ActivateExisting(i, port, pkg, l, at))
      PROVE  Kept
  BY <1>3 DEF Decide, Core!ActivateExisting, TablesFinite
<1>4. ASSUME NEW i \in DOMAIN instances, NEW at \in Times, NEW l \in DOMAIN leases,
             Decide(Core!Rollback(i, l, at))
      PROVE  Kept
  BY <1>4 DEF Decide, Core!Rollback, TablesFinite
<1>5. ASSUME NEW i \in DOMAIN instances, NEW at \in Times, NEW l \in DOMAIN leases,
             NEW want \in {"quiesced", "withdrawn"}, Decide(Core!Drain(i, want, l, at))
      PROVE  Kept
  BY <1>5 DEF Decide, Core!Drain, Core!Revoke, TablesFinite
<1>6. ASSUME NEW l \in DOMAIN leases, Decide(Core!Release(l))
      PROVE  Kept
  BY <1>6 DEF Decide, Core!Release, Core!Revoke, TablesFinite
<1>7. ASSUME NEW i \in DOMAIN instances, Decide(Core!Acknowledge(i))
      PROVE  Kept
  BY <1>7 DEF Decide, Core!Acknowledge, TablesFinite
<1>8. ASSUME NEW i \in DOMAIN instances, NEW outcome \in EffectOutcome,
             Decide(Core!ReportEffect(i, outcome))
      PROVE  Kept
  BY <1>8 DEF Decide, Core!ReportEffect, Core!Revoke, TablesFinite
<1> HIDE DEF Kept
<1>9. Kept
  BY <1>1, <1>2, <1>3, <1>4, <1>5, <1>6, <1>7, <1>8 DEF Command
<1> QED BY <1>9 DEF Kept


------------------------------------------------------------------------------
(* Reports only move forward.                                              *)

(* A report is not of an epoch and not about an incarnation that are yet   *)
(* to come, and the device record's generation is at least that of a       *)
(* report about the device as it is.                                       *)
ReportsBehind ==
  \A d \in Device :
    /\ capability[d].epoch <= epoch
    /\ capability[d].incarnation <= incarnation[d]
    /\ capability[d].incarnation = incarnation[d] => capability[d].generation <= generation[d]

(* What each step does to the report of one device.                        *)
LEMMA ReportsStep ==
  ASSUME ReportsTyped, ReportsBehind, TablesFinite, [Next]_vars
  PROVE  /\ ReportsTyped' /\ ReportsBehind' /\ TablesFinite'
         /\ \A d \in Device : capability'[d].incarnation = capability[d].incarnation =>
                                capability'[d].generation >= capability[d].generation
<1> DEFINE Goal ==
      /\ ReportsTyped' /\ ReportsBehind' /\ TablesFinite'
      /\ \A d \in Device : capability'[d].incarnation = capability[d].incarnation =>
                             capability'[d].generation >= capability[d].generation
<1> USE DEF ReportsTyped, ReportsBehind
<1>1. ASSUME UNCHANGED <<epoch, incarnation, reports>>, TablesFinite'
      PROVE  Goal
  BY <1>1 DEF reports, Capability
<1>2. ASSUME NEW d \in Device, NEW n \in 1..MaxIncarnation, RegisterDevice(d, n)
      PROVE  Goal
  <2>1. n \in Nat /\ n > incarnation[d]
    <3>1. n > incarnation[d]
      BY <1>2, Zenon DEF RegisterDevice, Core!RegisterDevice
    <3> QED BY <3>1, CoreAssumption
  <2>2. TablesFinite'
    BY <1>2 DEF RegisterDevice, Core!RegisterDevice, Core!Revoke, TablesFinite
  <2> QED BY <1>2, <2>1, <2>2 DEF RegisterDevice, Capability
<1>3. ASSUME NEW d \in Device, NEW g \in 0..MaxGeneration, NEW fits \in Fits,
             SubmitCapability(d, g, fits)
      PROVE  Goal
  <2> DEFINE report == [incarnation |-> incarnation[d], generation |-> g, fits |-> fits,
                        freshness |-> "fresh", epoch |-> epoch]
  <2>1. report \in Capability /\ g \in Nat
    BY ReportAssumption DEF Capability
  <2>2. capability' = [capability EXCEPT ![d] = report] /\ g >= generation[d]
        /\ generation' = [generation EXCEPT ![d] = g]
        /\ UNCHANGED <<epoch, incarnation, present, observation, leases, instances>>
    BY <1>3 DEF SubmitCapability, authority
  <2>3. TablesFinite'
    BY <2>2 DEF TablesFinite
  <2>4. /\ capability' \in [Device -> Capability] /\ generation' \in [Device -> Nat]
        /\ capability'[d] = report /\ generation'[d] = g
        /\ \A e \in Device \ {d} : capability'[e] = capability[e] /\ generation'[e] = generation[e]
    BY <2>1, <2>2
  <2>5. report.incarnation = incarnation[d] /\ report.generation = g /\ report.epoch = epoch
    OBVIOUS
  <2> HIDE DEF report
  <2>6. \A e \in Device : /\ capability[e].incarnation \in Nat /\ capability[e].generation \in Nat
                          /\ capability[e].epoch \in Nat
    BY DEF Capability
  <2> QED BY <2>1, <2>2, <2>3, <2>4, <2>5, <2>6
<1>4. ASSUME NEW d \in Device, NEW there \in BOOLEAN, NEW observed \in ReportTimes, NEW at \in Times,
             SubmitObservation(d, there, observed, at)
      PROVE  Goal
  <2> DEFINE report == [incarnation |-> incarnation[d], present |-> there,
                        observed |-> observed, epoch |-> epoch]
  <2>1. report \in Observation
    BY ReportAssumption DEF Observation
  <2>2. /\ observation' = [observation EXCEPT ![d] = report]
        /\ present' = [present EXCEPT ![d] = there]
        /\ UNCHANGED <<epoch, incarnation, generation, capability, leases, instances>>
    BY <1>4 DEF SubmitObservation, authority
  <2>3. TablesFinite'
    BY <2>2 DEF TablesFinite
  <2> QED BY <2>1, <2>2, <2>3 DEF Capability
<1>5. ASSUME NEW d \in Device, Reverify(d)
      PROVE  Goal
  <2>1. /\ capability' = [capability EXCEPT ![d] =
              [[capability[d] EXCEPT !.freshness = "fresh"] EXCEPT !.epoch = epoch]]
        /\ UNCHANGED <<epoch, incarnation, generation, present, observation, leases, instances>>
    BY <1>5 DEF Reverify, Capability, authority
  <2>2. TablesFinite'
    BY <2>1 DEF TablesFinite
  <2> DEFINE report == [[capability[d] EXCEPT !.freshness = "fresh"] EXCEPT !.epoch = epoch]
  <2>3. /\ report \in Capability
        /\ report.incarnation = capability[d].incarnation
        /\ report.generation = capability[d].generation
    BY DEF Capability
  <2>5. report.epoch = epoch
    BY DEF Capability
  <2> HIDE DEF report
  <2>4. \A e \in Device : capability[e].incarnation \in Nat /\ capability[e].generation \in Nat
    BY DEF Capability
  <2> QED BY <2>1, <2>2, <2>3, <2>4, <2>5 DEF report
<1>6. ASSUME Command
      PROVE  Goal
  BY <1>1, <1>6, CommandKeeps
<1>7. ASSUME Open
      PROVE  Goal
  <2>1. epoch' = epoch + 1 /\ UNCHANGED <<incarnation, reports, leases, instances>>
    BY <1>7 DEF Open
  <2> QED BY <2>1 DEF reports, Capability, TablesFinite
<1>8. ASSUME NEW l, SupersedeLease(l)
      PROVE  Goal
  <2>1. UNCHANGED <<epoch, incarnation, reports>> /\ TablesFinite'
    BY <1>8 DEF SupersedeLease, Core!Revoke, TablesFinite
  <2> QED BY <1>1, <2>1
<1>9. ASSUME NEW i, SupersedeInstance(i)
      PROVE  Goal
  <2>1. UNCHANGED <<epoch, incarnation, reports>> /\ TablesFinite'
    BY <1>9 DEF SupersedeInstance, TablesFinite
  <2> QED BY <1>1, <2>1
<1>10. ASSUME NEW d \in Device, AgeCapability(d)
       PROVE  Goal
  <2>1. Refreshed(d) \in {"fresh", "pending"}
    BY DEF Refreshed, Capability
  <2> QED BY <1>10, <2>1 DEF AgeCapability, Capability, authority, TablesFinite
<1>11. ASSUME NEW d \in Device, ForgetPresence(d)
       PROVE  Goal
  BY <1>11 DEF ForgetPresence, Capability, authority, TablesFinite
<1>12. ASSUME NEW s, FenceScope(s)
       PROVE  Goal
  <2>1. UNCHANGED <<epoch, incarnation, reports>> /\ TablesFinite'
    BY <1>12 DEF FenceScope, TablesFinite
  <2> QED BY <1>1, <2>1
<1>13. ASSUME UNCHANGED vars
       PROVE  Goal
  <2>1. UNCHANGED <<epoch, incarnation, reports>> /\ TablesFinite'
    BY <1>13 DEF vars, authority, TablesFinite
  <2> QED BY <1>1, <2>1
<1> HIDE DEF Goal
<1>14. Goal
  BY <1>2, <1>3, <1>4, <1>5, <1>6, <1>7, <1>8, <1>9, <1>10, <1>11, <1>12, <1>13
     DEF Next, Report, Recovery
<1> QED BY <1>14 DEF Goal

(* The store starts without reports.                                       *)
LEMMA ReportsInit == Init => ReportsTyped /\ ReportsBehind /\ TablesFinite
<1> SUFFICES ASSUME Init PROVE ReportsTyped /\ ReportsBehind /\ TablesFinite
  OBVIOUS
<1>1. NoCapability \in Capability /\ NoObservation \in Observation
  BY DEF NoCapability, NoObservation, Capability, Observation
<1>2. DOMAIN leases = {} /\ DOMAIN instances = {}
  BY DEF Init
<1>3. TablesFinite
  BY <1>2, FS_EmptySet DEF TablesFinite
<1>4. \A d \in Device : capability[d] = NoCapability /\ incarnation[d] = 0 /\ generation[d] = 0
  BY DEF Init
<1> QED BY <1>1, <1>3, <1>4 DEF Init, ReportsTyped, ReportsBehind, NoCapability

(* A stored report never goes back to an older generation while the device *)
(* keeps its incarnation: registration starts a new incarnation with       *)
(* generation 0 and the old report is then about another one.              *)
THEOREM ReportsOnlyAdvance == Spec => ReportsAdvance
<1>1. Spec => [](ReportsTyped /\ ReportsBehind /\ TablesFinite)
  <2>1. Init => ReportsTyped /\ ReportsBehind /\ TablesFinite
    BY ReportsInit
  <2>2. ReportsTyped /\ ReportsBehind /\ TablesFinite /\ [Next]_vars
        => (ReportsTyped /\ ReportsBehind /\ TablesFinite)'
    BY ReportsStep
  <2> QED BY <2>1, <2>2, PTL DEF Spec
<1>2. ReportsTyped /\ ReportsBehind /\ TablesFinite /\ [Next]_vars
      => [\A d \in Device : capability'[d].incarnation = capability[d].incarnation =>
                              capability'[d].generation >= capability[d].generation]_vars
  BY ReportsStep
<1> QED BY <1>1, <1>2, PTL DEF Spec, ReportsAdvance

------------------------------------------------------------------------------
(* What a pass has yet to write.                                           *)

(* A sequence that has each member of a set, and each once.                *)
Lists(s, S) == s \in Seq(S) /\ IsInjective(s) /\ \A x \in S : \E k \in DOMAIN s : s[k] = x

(* A batch of the pass has a record for each subject.                      *)
LEMMA BatchLists ==
  ASSUME NEW kind, NEW S, IsFiniteSet(S)
  PROVE  Lists(Batch(kind, S), {kind} \X S)
<1> DEFINE n == Cardinality(S)
           D == 1..n
           order == SetToSeq(S)
<1>1. n \in Nat /\ ExistsBijection(D, S)
  BY FS_CardinalityType
<1>2. PICK f \in [D -> S] : IsInjective(f)
  BY <1>1 DEF ExistsBijection, Bijection, Injection
<1>3. order \in [D -> S] /\ IsInjective(order)
  BY <1>2 DEF SetToSeq
<1>4. order \in Injection(D, S)
  BY <1>3 DEF Injection
<1>5. IsFiniteSet(D) /\ Cardinality(D) = n
  BY <1>1, FS_Interval
<1>6. order \in Surjection(D, S)
  BY <1>4, <1>5, FS_Injection
<1>7. \A x \in S : \E k \in D : order[k] = x
  BY <1>6 DEF Surjection
<1>8. Batch(kind, S) = [k \in D |-> <<kind, order[k]>>]
  BY <1>3 DEF Batch
<1>9. Batch(kind, S) \in [D -> {kind} \X S]
  BY <1>3, <1>8
<1>10. Batch(kind, S) \in Seq({kind} \X S)
  BY <1>1, <1>9
<1>11. IsInjective(Batch(kind, S))
  BY <1>3, <1>8 DEF IsInjective
<1>12. ASSUME NEW x \in {kind} \X S
       PROVE  \E k \in DOMAIN Batch(kind, S) : Batch(kind, S)[k] = x
  <2>1. PICK y \in S : x = <<kind, y>>
    OBVIOUS
  <2> QED BY <1>7, <1>8, <2>1
<1> QED BY <1>10, <1>11, <1>12 DEF Lists

(* Lists of sets that have nothing in common, one after the other.         *)
LEMMA ListsJoin ==
  ASSUME NEW S, NEW T, NEW s, NEW t, Lists(s, S), Lists(t, T), S \cap T = {}
  PROVE  Lists(s \o t, S \cup T)
<1>1. /\ s \in Seq(S) /\ t \in Seq(T)
      /\ s \in Seq(S \cup T) /\ t \in Seq(S \cup T)
  BY DEF Lists
<1>2. s \o t \in Seq(S \cup T) /\ Len(s \o t) = Len(s) + Len(t)
  BY <1>1
<1>3. \A k \in 1..Len(s) : (s \o t)[k] = s[k] /\ s[k] \in S
  BY <1>1
<1>4. \A k \in 1..Len(t) : (s \o t)[Len(s) + k] = t[k] /\ t[k] \in T
  BY <1>1
<1>5. \A k \in 1..(Len(s) + Len(t)) : k \in 1..Len(s) \/ (k - Len(s) \in 1..Len(t) /\ k = Len(s) + (k - Len(s)))
  BY <1>1
<1>6. ASSUME NEW j \in 1..(Len(s) + Len(t)), NEW k \in 1..(Len(s) + Len(t)), (s \o t)[j] = (s \o t)[k]
      PROVE  j = k
  <2>1. \A x, y \in 1..Len(s) : s[x] = s[y] => x = y
    BY <1>1 DEF Lists, IsInjective
  <2>2. \A x, y \in 1..Len(t) : t[x] = t[y] => x = y
    BY <1>1 DEF Lists, IsInjective
  <2>3. CASE j \in 1..Len(s) /\ k \in 1..Len(s)
    BY <1>3, <1>6, <2>1, <2>3
  <2>4. CASE j \notin 1..Len(s) /\ k \notin 1..Len(s)
    <3>1. /\ j - Len(s) \in 1..Len(t) /\ j = Len(s) + (j - Len(s))
          /\ k - Len(s) \in 1..Len(t) /\ k = Len(s) + (k - Len(s))
      BY <1>5, <2>4
    <3>2. (s \o t)[j] = t[j - Len(s)] /\ (s \o t)[k] = t[k - Len(s)]
      BY <1>4, <3>1
    <3> QED BY <1>6, <2>2, <3>1, <3>2
  <2>5. CASE j \in 1..Len(s) /\ k \notin 1..Len(s)
    BY <1>3, <1>4, <1>5, <1>6, <2>5
  <2>6. CASE j \notin 1..Len(s) /\ k \in 1..Len(s)
    BY <1>3, <1>4, <1>5, <1>6, <2>6
  <2> QED BY <2>3, <2>4, <2>5, <2>6
<1>7. IsInjective(s \o t)
  BY <1>2, <1>6 DEF IsInjective
<1>8. ASSUME NEW x \in S \cup T
      PROVE  \E k \in DOMAIN (s \o t) : (s \o t)[k] = x
  <2>1. CASE x \in S
    <3>1. PICK k \in 1..Len(s) : s[k] = x
      BY <1>1, <2>1 DEF Lists
    <3> QED BY <1>1, <1>2, <1>3, <3>1
  <2>2. CASE x \in T
    <3>1. PICK k \in 1..Len(t) : t[k] = x
      BY <1>1, <2>2 DEF Lists
    <3>2. Len(s) + k \in DOMAIN (s \o t)
      BY <1>1, <1>2, <3>1
    <3> QED BY <1>4, <3>1, <3>2
  <2> QED BY <2>1, <2>2
<1> QED BY <1>2, <1>7, <1>8 DEF Lists

(* A sequence is one over any set its elements are in.                     *)
LEMMA MembersOf ==
  ASSUME NEW S, NEW T, NEW s \in Seq(S), \A k \in 1..Len(s) : s[k] \in T
  PROVE  s \in Seq(T)
OBVIOUS

(* What is taken from a list without repetition does not come again.       *)
LEMMA ListsTail ==
  ASSUME NEW S, NEW s, Lists(s, S), s # <<>>
  PROVE  Lists(Tail(s), S \ {Head(s)})
<1>1. /\ s \in Seq(S) /\ Len(s) \in Nat \ {0}
      /\ \A j, k \in 1..Len(s) : s[j] = s[k] => j = k
      /\ \A x \in S : \E k \in 1..Len(s) : s[k] = x
  BY DEF Lists, IsInjective
<1>2. /\ Tail(s) \in Seq(S) /\ Len(Tail(s)) = Len(s) - 1 /\ Head(s) = s[1]
      /\ DOMAIN Tail(s) = 1..(Len(s) - 1)
      /\ \A k \in 1..(Len(s) - 1) : Tail(s)[k] = s[k + 1]
  BY <1>1
<1>3. \A k \in 1..(Len(s) - 1) : s[k + 1] # s[1] /\ s[k + 1] \in S
  BY <1>1
<1>4. Tail(s) \in Seq(S \ {Head(s)})
  <2>1. \A k \in 1..(Len(s) - 1) : Tail(s)[k] \in S \ {Head(s)}
    BY <1>2, <1>3
  <2> QED BY <1>2, <2>1, MembersOf
<1>5. IsInjective(Tail(s))
  <2>1. \A j, k \in 1..(Len(s) - 1) : s[j + 1] = s[k + 1] => j = k
    BY <1>1
  <2> QED BY <1>2, <2>1 DEF IsInjective
<1>6. ASSUME NEW x \in S \ {Head(s)}
      PROVE  \E k \in DOMAIN Tail(s) : Tail(s)[k] = x
  <2>1. PICK k \in 1..Len(s) : s[k] = x
    BY <1>1
  <2>2. k # 1 /\ k - 1 \in 1..(Len(s) - 1) /\ s[(k - 1) + 1] = x
    BY <1>1, <1>2, <2>1
  <2> QED BY <1>2, <2>2
<1> QED BY <1>4, <1>5, <1>6 DEF Lists

(* The records a pass that starts now has to write.                        *)
DueRecords ==
  {"lease"} \X LiveLeases \cup {"instance"} \X Core!Swept
    \cup {"capability"} \X {d \in Device : capability[d].incarnation # 0}
    \cup {"observation"} \X {d \in Device : observation[d].incarnation # 0}
    \cup {"scope"} \X {s \in Scope : Core!CouldCarry(s)}

(* Unwritten lists them.                                                   *)
LEMMA AllUnwritten ==
  ASSUME TablesFinite
  PROVE  Lists(Unwritten, DueRecords)
<1> DEFINE A == {"lease"} \X LiveLeases
           B == {"instance"} \X Core!Swept
           C == {"capability"} \X {d \in Device : capability[d].incarnation # 0}
           D == {"observation"} \X {d \in Device : observation[d].incarnation # 0}
           E == {"scope"} \X {s \in Scope : Core!CouldCarry(s)}
           a == Batch("lease", LiveLeases)
           b == Batch("instance", Core!Swept)
           c == Batch("capability", {d \in Device : capability[d].incarnation # 0})
           e == Batch("observation", {d \in Device : observation[d].incarnation # 0})
           f == Batch("scope", {s \in Scope : Core!CouldCarry(s)})
<1>1. IsFiniteSet(Scope)
  <2>1. IsFiniteSet(Port \cup {NoPort})
    BY ReportAssumption, FS_AddElement
  <2>2. IsFiniteSet(Device \X (Port \cup {NoPort}))
    BY <2>1, ReportAssumption, FS_Product
  <2> QED BY <2>2 DEF Scope, Core!Scope, Core!PortOrNil
<1>2. IsFiniteSet(LiveLeases) /\ IsFiniteSet(Core!Swept)
  BY FS_Subset DEF LiveLeases, Core!Swept, TablesFinite
<1>3. /\ IsFiniteSet({d \in Device : capability[d].incarnation # 0})
      /\ IsFiniteSet({d \in Device : observation[d].incarnation # 0})
      /\ IsFiniteSet({s \in Scope : Core!CouldCarry(s)})
  BY <1>1, FS_Subset, ReportAssumption
<1>4. /\ Lists(a, A) /\ Lists(b, B) /\ Lists(c, C) /\ Lists(e, D) /\ Lists(f, E)
  BY <1>2, <1>3, BatchLists
<1>5. /\ A \cap B = {} /\ (A \cup B) \cap C = {} /\ (A \cup B \cup C) \cap D = {}
      /\ (A \cup B \cup C \cup D) \cap E = {}
  OBVIOUS
<1>6. Unwritten = (((a \o b) \o c) \o e) \o f /\ DueRecords = (((A \cup B) \cup C) \cup D) \cup E
  BY DEF Unwritten, DueRecords
<1> HIDE DEF A, B, C, D, E, a, b, c, e, f
<1>7. Lists(a \o b, A \cup B)
  BY <1>4, <1>5, ListsJoin
<1>8. Lists((a \o b) \o c, (A \cup B) \cup C)
  BY <1>4, <1>5, <1>7, ListsJoin
<1>9. Lists(((a \o b) \o c) \o e, ((A \cup B) \cup C) \cup D)
  BY <1>4, <1>5, <1>8, ListsJoin
<1> QED BY <1>4, <1>5, <1>6, <1>9, ListsJoin

------------------------------------------------------------------------------
(* Nothing of an earlier epoch counts.                                     *)

Awaited == ToSet(todo)

Waits(kind, subject) == <<kind, subject>> \in Awaited

(* What is to be written is listed, and once.                              *)
TodoListed == Lists(todo, Awaited)

(* A report that counts was accepted under this epoch, or the pass has yet *)
(* to age it; and so for the presence of a device.                         *)
EvidenceLives ==
  \A d \in Device :
    /\ capability[d].freshness = "fresh" =>
         /\ capability[d].incarnation # 0
         /\ capability[d].epoch = epoch \/ Waits("capability", d)
    /\ present[d] =>
         /\ observation[d].incarnation # 0
         /\ observation[d].epoch = epoch \/ Waits("observation", d)

(* A list of a set is a list of its members.                               *)
LEMMA ListedMembers ==
  ASSUME NEW s, NEW S, Lists(s, S)
  PROVE  ToSet(s) = S
<1>1. s \in Seq(S) /\ \A x \in S : \E k \in DOMAIN s : s[k] = x
  BY DEF Lists
<1>2. \A k \in DOMAIN s : s[k] \in S
  BY <1>1
<1> QED BY <1>1, <1>2 DEF ToSet

(* Writing one record leaves the others to be written.                     *)
LEMMA DueStep ==
  ASSUME TodoListed, NEW kind, NEW subject, Due(kind, subject)
  PROVE  /\ TodoListed' /\ Waits(kind, subject)
         /\ Awaited' = Awaited \ {<<kind, subject>>}
<1>1. todo # <<>> /\ Head(todo) = <<kind, subject>> /\ todo' = Tail(todo)
  BY DEF Due, Serving, Proceed
<1>2. Lists(todo', Awaited \ {<<kind, subject>>})
  BY <1>1, ListsTail DEF TodoListed
<1>3. Awaited' = Awaited \ {<<kind, subject>>}
  BY <1>2, ListedMembers DEF Awaited
<1>4. 1 \in DOMAIN todo /\ todo[1] = <<kind, subject>>
  BY <1>1 DEF TodoListed, Lists
<1> QED BY <1>2, <1>3, <1>4 DEF TodoListed, Waits, Awaited, ToSet

(* A pass that starts now.                                                 *)
LEMMA OpenStep ==
  ASSUME TablesFinite, Open
  PROVE  TodoListed' /\ Awaited' = DueRecords
<1>1. todo' = Unwritten
  BY DEF Open, Proceed
<1>2. Lists(todo', DueRecords)
  BY <1>1, AllUnwritten
<1>3. Awaited' = DueRecords
  BY <1>2, ListedMembers DEF Awaited
<1> QED BY <1>2, <1>3 DEF TodoListed

(* A record of the pass that touches no evidence.                          *)
LEMMA OtherRecord ==
  ASSUME TodoListed, EvidenceLives, UNCHANGED <<epoch, reports>>,
         NEW kind \in {"lease", "instance", "scope"}, NEW subject, Due(kind, subject)
  PROVE  EvidenceLives'
<1>1. Awaited' = Awaited \ {<<kind, subject>>}
  BY DueStep
<1>2. \A d : /\ Waits("capability", d) => Waits("capability", d)'
             /\ Waits("observation", d) => Waits("observation", d)'
  BY <1>1 DEF Waits
<1> QED BY <1>2 DEF EvidenceLives, reports

(* An operation while the coordinator serves.                              *)
LEMMA ServingStep ==
  ASSUME EvidenceLives, Serving, todo' = todo, epoch' = epoch,
         \A d \in Device :
           /\ \/ capability'[d].freshness # "fresh"
              \/ capability'[d] = capability[d]
              \/ capability'[d].incarnation # 0 /\ capability'[d].epoch = epoch
           /\ \/ ~present'[d]
              \/ present'[d] = present[d] /\ observation'[d] = observation[d]
              \/ observation'[d].incarnation # 0 /\ observation'[d].epoch = epoch
  PROVE  EvidenceLives'
<1>1. \A kind, d : ~Waits(kind, d)
  BY DEF Waits, Awaited, ToSet, Serving
<1> QED BY <1>1 DEF EvidenceLives

(* Every step keeps it.                                                    *)
LEMMA EvidenceStep ==
  ASSUME ReportsTyped, TablesFinite, TodoListed, EvidenceLives, [Next]_vars
  PROVE  TodoListed' /\ EvidenceLives'
<1> USE DEF ReportsTyped
<1>2. ASSUME NEW d \in Device, NEW n \in 1..MaxIncarnation, RegisterDevice(d, n)
      PROVE  EvidenceLives'
  <2>1. /\ Serving /\ todo' = todo /\ epoch' = epoch /\ UNCHANGED <<capability, observation>>
        /\ present' = [present EXCEPT ![d] = FALSE]
    BY <1>2 DEF RegisterDevice
  <2> QED BY <2>1, ServingStep
<1>3. ASSUME NEW d \in Device, NEW g \in 0..MaxGeneration, NEW fits \in Fits,
             SubmitCapability(d, g, fits)
      PROVE  EvidenceLives'
  <2>1. /\ Serving /\ todo' = todo /\ epoch' = epoch /\ UNCHANGED <<present, observation>>
        /\ incarnation[d] # 0
        /\ capability' = [capability EXCEPT ![d] =
             [incarnation |-> incarnation[d], generation |-> g, fits |-> fits,
              freshness |-> "fresh", epoch |-> epoch]]
    BY <1>3 DEF SubmitCapability, authority
  <2> QED BY <2>1, ServingStep
<1>4. ASSUME NEW d \in Device, NEW there \in BOOLEAN, NEW observed \in ReportTimes, NEW at \in Times,
             SubmitObservation(d, there, observed, at)
      PROVE  EvidenceLives'
  <2>1. /\ Serving /\ todo' = todo /\ epoch' = epoch /\ UNCHANGED capability
        /\ incarnation[d] # 0
        /\ observation' = [observation EXCEPT ![d] =
             [incarnation |-> incarnation[d], present |-> there,
              observed |-> observed, epoch |-> epoch]]
        /\ present' = [present EXCEPT ![d] = there]
    BY <1>4 DEF SubmitObservation, authority
  <2> QED BY <2>1, ServingStep
<1>5. ASSUME NEW d \in Device, Reverify(d)
      PROVE  EvidenceLives'
  <2>1. /\ Serving /\ todo' = todo /\ epoch' = epoch /\ UNCHANGED <<present, observation>>
        /\ capability[d].incarnation # 0
        /\ capability' = [capability EXCEPT ![d] =
              [[capability[d] EXCEPT !.freshness = "fresh"] EXCEPT !.epoch = epoch]]
    BY <1>5 DEF Reverify, authority
  <2> DEFINE report == [[capability[d] EXCEPT !.freshness = "fresh"] EXCEPT !.epoch = epoch]
  <2>2. report.incarnation = capability[d].incarnation /\ report.epoch = epoch
    BY DEF Capability
  <2>3. capability'[d] = report /\ \A e \in Device \ {d} : capability'[e] = capability[e]
    BY <2>1
  <2> HIDE DEF report
  <2> QED BY <2>1, <2>2, <2>3, ServingStep
<1>6. ASSUME Command
      PROVE  EvidenceLives'
  <2>1. UNCHANGED <<epoch, reports, todo>>
    BY <1>6, CommandKeeps
  <2>2. Serving
    BY <1>6 DEF Command, Decide
  <2> QED BY <2>1, <2>2, ServingStep DEF reports
<1>7. ASSUME Open
      PROVE  EvidenceLives'
  <2>1. UNCHANGED reports
    BY <1>7 DEF Open
  <2>2. \A d \in Device : /\ capability[d].incarnation # 0 => Waits("capability", d)'
                          /\ observation[d].incarnation # 0 => Waits("observation", d)'
    BY <1>7, OpenStep DEF Waits, DueRecords
  <2> QED BY <2>1, <2>2 DEF EvidenceLives, reports
<1>8. ASSUME NEW l, SupersedeLease(l)
      PROVE  EvidenceLives'
  BY <1>8, OtherRecord DEF SupersedeLease
<1>9. ASSUME NEW i, SupersedeInstance(i)
      PROVE  EvidenceLives'
  BY <1>9, OtherRecord DEF SupersedeInstance
<1>10. ASSUME NEW d \in Device, AgeCapability(d)
       PROVE  EvidenceLives'
  <2>1. /\ Due("capability", d) /\ UNCHANGED <<epoch, present, observation, leases, instances>>
        /\ capability' = [capability EXCEPT ![d] = [capability[d] EXCEPT !.freshness = Refreshed(d)]]
    BY <1>10 DEF AgeCapability, authority
  <2>2. Awaited' = Awaited \ {<<"capability", d>>}
    BY <2>1, DueStep
  <2>3. /\ \A e \in Device \ {d} : Waits("capability", e) => Waits("capability", e)'
        /\ \A e \in Device : Waits("observation", e) => Waits("observation", e)'
    BY <2>2 DEF Waits
  <2> DEFINE report == [capability[d] EXCEPT !.freshness = Refreshed(d)]
  <2>4. /\ report.incarnation = capability[d].incarnation /\ report.epoch = capability[d].epoch
        /\ report.freshness = Refreshed(d)
    BY DEF Capability
  <2>5. capability'[d] = report /\ \A e \in Device \ {d} : capability'[e] = capability[e]
    BY <2>1
  <2>6. Refreshed(d) = "fresh" => capability[d].epoch = epoch /\ capability[d].freshness = "fresh"
    BY DEF Refreshed
  <2> HIDE DEF report
  <2> QED BY <2>1, <2>3, <2>4, <2>5, <2>6 DEF EvidenceLives
<1>11. ASSUME NEW d \in Device, ForgetPresence(d)
       PROVE  EvidenceLives'
  <2>1. /\ Due("observation", d) /\ UNCHANGED <<epoch, capability, observation, leases, instances>>
        /\ present' = [present EXCEPT ![d] = FALSE]
    BY <1>11 DEF ForgetPresence, authority
  <2>2. Awaited' = Awaited \ {<<"observation", d>>}
    BY <2>1, DueStep
  <2>3. /\ \A e \in Device : Waits("capability", e) => Waits("capability", e)'
        /\ \A e \in Device \ {d} : Waits("observation", e) => Waits("observation", e)'
    BY <2>2 DEF Waits
  <2> QED BY <2>1, <2>3 DEF EvidenceLives
<1>12. ASSUME NEW s, FenceScope(s)
       PROVE  EvidenceLives'
  BY <1>12, OtherRecord DEF FenceScope
<1>13. ASSUME UNCHANGED vars
       PROVE  EvidenceLives'
  BY <1>13 DEF vars, authority, reports, EvidenceLives, Waits, Awaited
<1>14. TodoListed'
  <2>1. CASE todo' = todo
    BY <2>1 DEF TodoListed, Awaited
  <2>2. CASE Open
    BY <2>2, OpenStep
  <2>3. ASSUME NEW kind, NEW subject, Due(kind, subject)
        PROVE  TodoListed'
    BY <2>3, DueStep
  <2>4. Command => todo' = todo
    BY CommandKeeps
  <2>5. \A d \in Device : Report(d) => todo' = todo
    BY DEF Report, RegisterDevice, SubmitCapability, SubmitObservation, Reverify
  <2> QED BY <2>1, <2>2, <2>3, <2>4, <2>5
             DEF Next, Recovery, vars, SupersedeLease, SupersedeInstance, AgeCapability,
                 ForgetPresence, FenceScope
<1> QED
  BY <1>14, <1>2, <1>3, <1>4, <1>5, <1>6, <1>7, <1>8, <1>9, <1>10, <1>11, <1>12, <1>13
     DEF Next, Report, Recovery

(* While the coordinator serves, what a decision relies on was accepted or *)
(* revalidated under the epoch it is made in, wherever the passes before   *)
(* were cut short.                                                         *)
THEOREM OnlyLiveEvidence == Spec => []LiveEvidenceOnly
<1> DEFINE Inv == ReportsTyped /\ ReportsBehind /\ TablesFinite /\ TodoListed /\ EvidenceLives
<1>1. Init => Inv
  <2> SUFFICES ASSUME Init PROVE TodoListed /\ EvidenceLives
    BY ReportsInit
  <2>1. todo = <<>> /\ \A d \in Device : ~present[d] /\ capability[d].freshness = "pending"
    BY DEF Init, NoCapability
  <2>2. TodoListed
    BY <2>1 DEF TodoListed, Lists, Awaited, ToSet, IsInjective
  <2> QED BY <2>1, <2>2 DEF EvidenceLives
<1>2. Inv /\ [Next]_vars => Inv'
  BY ReportsStep, EvidenceStep
<1>3. Inv => LiveEvidenceOnly
  BY DEF EvidenceLives, LiveEvidenceOnly, Supported, Serving, Waits, Awaited, ToSet
<1> QED BY <1>1, <1>2, <1>3, PTL DEF Spec

================================================================================
