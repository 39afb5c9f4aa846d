------------------------------ MODULE Coordinator ------------------------------
(***************************************************************************)
(* The coordinator as it runs: the authority core of ControlFabric put     *)
(* together with the evidence its decisions read and with the opening pass *)
(* that makes a reopened store safe.                                       *)
(*                                                                         *)
(* Two things that are one step or one flag in ControlFabric are spelled   *)
(* out here, and Promise shows that they may be thought of that way:       *)
(*  - the opening pass writes one durable record after another, and the    *)
(*    process may die between any two of them; the next opening starts a   *)
(*    pass of its own from what it finds;                                  *)
(*  - a device's evidence is a capability report, an observation and the   *)
(*    device's own record, each written by its own operation, and a        *)
(*    decision combines the three.                                         *)
(*                                                                         *)
(* Of a capability report only what decisions read is kept: the            *)
(* incarnation and generation it is about, the packages whose requirements *)
(* it meets, whether it is fresh and the epoch it was accepted under.      *)
(* Its age is looked at when it arrives and never again, so the report     *)
(* that arrives is one that passes.                                        *)
(***************************************************************************)
EXTENDS Integers, Sequences, FiniteSets, SequencesExt, Lifecycle

CONSTANTS
  Device, Port, Package, Exclusive, NoPort, NoPackage, Times, Lifetimes,
  MaxInstances, MaxLeases, MaxAttempts, MaxConcurrent,
  MaxLeaseId, MaxAttemptId, MaxEpoch, MaxIncarnation,
  MaxGeneration,   \* bound on the capability generations devices report
  ReportTimes,     \* when observations may claim to have been made
  Fits,            \* the sets of packages a capability report may speak for
  Window           \* FreshnessConfig::observation_max_age

ASSUME CoreAssumption ==
  /\ NoPort \notin Port /\ NoPackage \notin Package
  /\ Exclusive \subseteq Package
  /\ Times \subseteq Nat /\ Lifetimes \subseteq Nat \ {0}
  /\ MaxInstances \in Nat /\ MaxLeases \in Nat
  /\ MaxAttempts \in Nat \ {0} /\ MaxConcurrent \in Nat
  /\ MaxLeaseId \in Nat /\ MaxAttemptId \in Nat
  /\ MaxEpoch \in Nat /\ MaxIncarnation \in Nat
ASSUME ReportAssumption ==
  /\ IsFiniteSet(Device) /\ IsFiniteSet(Port)
  /\ MaxGeneration \in Nat
  /\ ReportTimes \subseteq Nat
  /\ Fits \subseteq SUBSET Package

VARIABLES
  epoch, incarnation, instances, leases, nextLease, fence, \* as in ControlFabric
  generation,   \* DeviceRecord::capability_generation
  present,      \* DeviceRecord::present
  capability,   \* the stored capability report of each device
  observation,  \* the stored observation of each device
  todo,         \* records the opening pass has yet to write; <<>> while serving
  before        \* what the store held when the last serving process stopped

authority == <<epoch, incarnation, instances, leases, nextLease, fence>>
reports == <<generation, present, capability, observation>>
vars == <<authority, reports, todo, before>>

------------------------------------------------------------------------------
(* Evidence.                                                               *)

Capability == [incarnation: Nat, generation: Nat, fits: SUBSET Package,
               freshness: {"fresh", "pending"}, epoch: Nat]

Observation == [incarnation: Nat, present: BOOLEAN, observed: Nat, epoch: Nat]

(* Incarnation 0 stands for the report that has not been made: no          *)
(* registered device has it.                                               *)
NoCapability == [incarnation |-> 0, generation |-> 0, fits |-> {},
                 freshness |-> "pending", epoch |-> 0]
NoObservation == [incarnation |-> 0, present |-> FALSE, observed |-> 0, epoch |-> 0]

(* evaluate_freshness: not from the future, and not too old.               *)
FreshAt(observed, at) == observed <= at /\ at - observed <= Window

(* check_compatibility, clock aside: a package may run on the device.  The *)
(* observation's own freshness flag is not looked at: the presence of the  *)
(* device stands in for it.                                                *)
Supported(d, pkg) ==
  /\ capability[d].incarnation = incarnation[d]
  /\ capability[d].freshness = "fresh"
  /\ observation[d].incarnation = incarnation[d]
  /\ observation[d].present
  /\ present[d]
  /\ pkg \in capability[d].fits

(* check_compatibility as a decision at `at' makes it.                     *)
Acceptable(d, pkg, at) == Supported(d, pkg) /\ FreshAt(observation[d].observed, at)

(* The authority core's flag: some package may run at some moment.         *)
Evident == [d \in Device |-> \E pkg \in Package : Supported(d, pkg)]

Core == INSTANCE ControlFabric WITH evidence <- Evident

------------------------------------------------------------------------------
(* Operations, while the store is open.                                    *)

Serving == todo = <<>>

(* register_device: the new record starts without presence and without a   *)
(* generation; the stored reports stay, about the old incarnation.         *)
RegisterDevice(d, n) ==
  /\ Serving
  /\ generation' = [generation EXCEPT ![d] = 0]
  /\ present' = [present EXCEPT ![d] = FALSE]
  /\ UNCHANGED <<capability, observation, todo, before, epoch, nextLease>>
  /\ incarnation' = [incarnation EXCEPT ![d] = n]
  /\ Core!RegisterDevice(d, n)

(* Mutant of SubmitCapability: the device record keeps its generation.     *)
SubmitReportOnly(d, g, fits) ==
  /\ Serving
  /\ incarnation[d] # 0
  /\ g >= generation[d]
  /\ capability' = [capability EXCEPT ![d] =
       [incarnation |-> incarnation[d], generation |-> g, fits |-> fits,
        freshness |-> "fresh", epoch |-> epoch]]
  /\ UNCHANGED <<authority, generation, present, observation, todo, before>>

(* submit_capability_evidence: a report about the device's incarnation, of *)
(* a generation not older than the recorded one.                           *)
SubmitCapability(d, g, fits) ==
  /\ Serving
  /\ incarnation[d] # 0
  /\ g >= generation[d]
  /\ capability' = [capability EXCEPT ![d] =
       [incarnation |-> incarnation[d], generation |-> g, fits |-> fits,
        freshness |-> "fresh", epoch |-> epoch]]
  /\ generation' = [generation EXCEPT ![d] = g]
  /\ UNCHANGED <<authority, present, observation, todo, before>>

(* submit_observation: the device was, or was not, there at `observed'.    *)
(* The generation an observation carries must not be older than the        *)
(* recorded one either, and is not read again.                             *)
SubmitObservation(d, there, observed, at) ==
  /\ Serving
  /\ incarnation[d] # 0
  /\ FreshAt(observed, at)
  /\ observation' = [observation EXCEPT ![d] =
       [incarnation |-> incarnation[d], present |-> there,
        observed |-> observed, epoch |-> epoch]]
  /\ present' = [present EXCEPT ![d] = there]
  /\ UNCHANGED <<authority, generation, capability, todo, before>>

(* reverify_evidence: the stored report counts again, unless it is current.*)
(* The incarnation the request names is compared with the device's and     *)
(* not with that of the report.                                            *)
Reverify(d) ==
  /\ Serving
  /\ capability[d].incarnation # 0
  /\ ~(capability[d].freshness = "fresh" /\ capability[d].epoch = epoch)
  /\ capability' = [capability EXCEPT ![d].freshness = "fresh", ![d].epoch = epoch]
  /\ UNCHANGED <<authority, generation, present, observation, todo, before>>

(* The operations of the authority core, which read evidence and leave it  *)
(* alone.                                                                  *)
Decide(operation) == Serving /\ UNCHANGED <<reports, todo, before>> /\ operation

------------------------------------------------------------------------------
(* Opening the store: conservative_recovery.                               *)

Scope == Core!Scope

Batch(kind, subjects) ==
  LET order == SetToSeq(subjects) IN [k \in DOMAIN order |-> <<kind, order[k]>>]

(* Mutant of LiveLeases: only the leases of the epoch that ended.          *)
LiveLeasesOfLastEpoch ==
  {l \in DOMAIN leases : ~leases[l].revoked /\ leases[l].epoch = epoch}

(* Every row that is not revoked, whatever epoch granted it.               *)
LiveLeases == {l \in DOMAIN leases : ~leases[l].revoked}

(* What a pass that starts now has to write, in the order of the code.     *)
Unwritten ==
  Batch("lease", LiveLeases)
    \o Batch("instance", Core!Swept)
    \o Batch("capability", {d \in Device : capability[d].incarnation # 0})
    \o Batch("observation", {d \in Device : observation[d].incarnation # 0})
    \o Batch("scope", {s \in Scope : Core!CouldCarry(s)})

Nothing == <<>>

Now == [epoch |-> epoch, instances |-> instances, leases |-> leases,
        fence |-> fence, evidence |-> Evident]

(* The pass has `rest' left to write.  While it lasts, `before' remembers  *)
(* what the last serving process left.                                     *)
Proceed(rest) ==
  /\ todo' = rest
  /\ before' = IF rest = <<>> THEN Nothing ELSE IF Serving THEN Now ELSE before

(* The process stops, in service or in the middle of a pass, and the store *)
(* is opened again: the first record of the pass advances the epoch.       *)
Open ==
  /\ epoch < MaxEpoch
  /\ epoch' = epoch + 1
  /\ Proceed(Unwritten)
  /\ UNCHANGED <<reports, incarnation, instances, leases, nextLease, fence>>

Due(kind, subject) == /\ ~Serving
                      /\ Head(todo) = <<kind, subject>>
                      /\ Proceed(Tail(todo))

(* RecoverySupersededAuthority.                                            *)
SupersedeLease(l) ==
  /\ Due("lease", l)
  /\ leases' = Core!Revoke({l})
  /\ UNCHANGED <<reports, epoch, incarnation, instances, nextLease, fence>>

(* RecoveryAmbiguousAttempt.                                               *)
SupersedeInstance(i) ==
  /\ Due("instance", i)
  /\ instances' = [instances EXCEPT ![i] = Core!AfterRestart(i)]
  /\ UNCHANGED <<reports, epoch, incarnation, leases, nextLease, fence>>

(* refresh_after_restart.                                                  *)
Refreshed(d) == IF capability[d].epoch = epoch THEN capability[d].freshness ELSE "pending"

(* RecoveryEvidencePendingReverification.                                  *)
AgeCapability(d) ==
  /\ Due("capability", d)
  /\ capability' = [capability EXCEPT ![d].freshness = Refreshed(d)]
  /\ UNCHANGED <<authority, generation, present, observation>>

(* Mutant of ForgetPresence: the record is about the observation alone.    *)
KeepPresence(d) == Due("observation", d) /\ UNCHANGED <<authority, reports>>

(* RecoveryObservationInvalidated: of what the record changes, only the    *)
(* device's presence is ever read.                                         *)
ForgetPresence(d) ==
  /\ Due("observation", d)
  /\ present' = [present EXCEPT ![d] = FALSE]
  /\ UNCHANGED <<authority, generation, capability, observation>>

(* FencingAdvanced.                                                        *)
FenceScope(s) ==
  /\ Due("scope", s)
  /\ fence' = Core!Advance(s)
  /\ UNCHANGED <<reports, epoch, incarnation, instances, leases, nextLease>>

------------------------------------------------------------------------------
Init ==
  /\ epoch = 1
  /\ incarnation = [d \in Device |-> 0]
  /\ instances = <<>>
  /\ leases = <<>>
  /\ nextLease = 1
  /\ fence = [s \in Scope |-> 0]
  /\ generation = [d \in Device |-> 0]
  /\ present = [d \in Device |-> FALSE]
  /\ capability = [d \in Device |-> NoCapability]
  /\ observation = [d \in Device |-> NoObservation]
  /\ todo = <<>>
  /\ before = Nothing

Report(d) ==
  \/ \E n \in 1..MaxIncarnation : RegisterDevice(d, n)
  \/ \E g \in 0..MaxGeneration, fits \in Fits : SubmitCapability(d, g, fits)
  \/ \E there \in BOOLEAN, observed \in ReportTimes, at \in Times :
       SubmitObservation(d, there, observed, at)
  \/ Reverify(d)

Command ==
  \/ \E d \in Device, port \in Core!PortOrNil, pkg \in Package, at \in Times, ttl \in Lifetimes :
       Acceptable(d, pkg, at) /\ Decide(Core!ActivateNew(d, port, pkg, at, ttl))
  \/ \E i \in DOMAIN instances, at \in Times :
       \/ \E ttl \in Lifetimes : Decide(Core!Acquire(i, at, ttl))
       \/ \E l \in DOMAIN leases :
            \/ \E port \in Core!PortOrNil, pkg \in Package :
                 /\ Acceptable(instances[i].device, pkg, at)
                 /\ Decide(Core!ActivateExisting(i, port, pkg, l, at))
            \/ /\ instances[i].previous # NoPackage
               /\ Acceptable(instances[i].device, instances[i].previous, at)
               /\ Decide(Core!Rollback(i, l, at))
            \/ \E want \in {"quiesced", "withdrawn"} : Decide(Core!Drain(i, want, l, at))
  \/ \E l \in DOMAIN leases : Decide(Core!Release(l))
  \/ \E i \in DOMAIN instances :
       \/ Decide(Core!Acknowledge(i))
       \/ \E outcome \in EffectOutcome : Decide(Core!ReportEffect(i, outcome))

Recovery ==
  \/ Open
  \/ \E l \in DOMAIN leases : SupersedeLease(l)
  \/ \E i \in DOMAIN instances : SupersedeInstance(i)
  \/ \E d \in Device : AgeCapability(d) \/ ForgetPresence(d)
  \/ \E s \in Scope : FenceScope(s)

Next == (\E d \in Device : Report(d)) \/ Command \/ Recovery

Spec == Init /\ [][Next]_vars

------------------------------------------------------------------------------
(* What the composition promises.                                          *)

(* From outside, a pass has not happened until it is complete.             *)
Promise ==
  INSTANCE ControlFabric WITH
    epoch <- IF Serving THEN epoch ELSE before.epoch,
    instances <- IF Serving THEN instances ELSE before.instances,
    leases <- IF Serving THEN leases ELSE before.leases,
    fence <- IF Serving THEN fence ELSE before.fence,
    evidence <- IF Serving THEN Evident ELSE before.evidence

(* Whatever record a pass was cut short after, and however often, the pass *)
(* that completes leaves the state one restart of ControlFabric leaves;    *)
(* and a device's evidence, put together from three records, behaves as    *)
(* the one flag the authority core is checked and proved with.             *)
PromiseKept == Promise!Spec

(* fabric.cpp:655: "Persisted evidence never returns to Fresh by itself";  *)
(* fabric.cpp:685: "liveness never survives a coordinator restart".        *)
(* Whatever a decision relies on was accepted, or revalidated, under the   *)
(* epoch it is made in, by this process.                                   *)
LiveEvidenceOnly ==
  Serving =>
    \A d \in Device, pkg \in Package :
      Supported(d, pkg) => /\ capability[d].epoch = epoch
                           /\ observation[d].epoch = epoch

(* As long as a device keeps its incarnation the stored report never goes  *)
(* back to an older capability generation, over registrations, restarts    *)
(* and revalidations.                                                      *)
ReportsAdvance ==
  [][\A d \in Device :
       capability'[d].incarnation = capability[d].incarnation =>
         capability'[d].generation >= capability[d].generation]_vars

==============================================================================
