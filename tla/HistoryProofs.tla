---------------------------- MODULE HistoryProofs ----------------------------
(***************************************************************************)
(* The attempt histories of the authority core, and the bound of its lease *)
(* table.  What the decoder of a snapshot requires of a history            *)
(* (HistoryCoherent) and what a late report may do to it                   *)
(* (AttemptsSettleOnce) both follow from one fact: the identities in a     *)
(* history count up to that of its last attempt.                           *)
(***************************************************************************)
EXTENDS ControlFabricProofs

------------------------------------------------------------------------------
(* Lemmas about histories.                                                 *)

(* HistoryCoherent of one history, with the identities in closed form.     *)
Chronicle(h, generation) ==
  /\ Len(h) \in 1..MaxAttempts
  /\ \A k \in 1..Len(h) : h[k].id = h[Len(h)].id - (Len(h) - k)
  /\ \A k \in 1..(Len(h) - 1) : h[k + 1].generation >= h[k].generation
  /\ h[Len(h)].generation = generation

(* What an attempt is when it is dispatched.                               *)
Fresh(id, generation, token) ==
  [id |-> id, phase |-> "dispatched", generation |-> generation, token |-> token]

(* A dispatch moves every remembered attempt forward by one place at most  *)
(* and puts the new one last.                                              *)
LEMMA DispatchRows ==
  ASSUME NEW h \in Seq(Attempt), NEW id \in 1..MaxAttemptId,
         NEW generation \in Nat, NEW token \in Nat, Len(h) <= MaxAttempts
  PROVE  \E drop \in {0, 1} :
           LET new == Dispatch(h, id, generation, token) IN
           /\ new \in Seq(Attempt)
           /\ Len(new) = Len(h) + 1 - drop
           /\ Len(new) \in 1..MaxAttempts
           /\ \A k \in 1..(Len(new) - 1) : new[k] = h[k + drop]
           /\ new[Len(new)] = Fresh(id, generation, token)
<1> DEFINE a == Fresh(id, generation, token)
           long == Append(h, a)
           new == Dispatch(h, id, generation, token)
<1>1. a \in Attempt
  BY DEF Fresh, Attempt, AttemptPhase
<1> HIDE DEF a
<1>2. /\ long \in Seq(Attempt) /\ Len(long) = Len(h) + 1 /\ long # <<>>
      /\ long[Len(long)] = a
      /\ \A k \in 1..Len(h) : long[k] = h[k]
  BY <1>1
<1>3. new = IF Len(long) > MaxAttempts THEN Tail(long) ELSE long
  BY DEF Dispatch, Capped, a, Fresh
<1>4. MaxAttempts \in Nat \ {0} /\ Len(h) \in Nat
  BY BoundAssumption
<1> HIDE DEF long, new
<1>5. CASE Len(long) > MaxAttempts
  <2>1. new = Tail(long)
    BY <1>3, <1>5
  <2>2. /\ new \in Seq(Attempt) /\ Len(new) = Len(long) - 1
        /\ \A k \in 1..Len(new) : new[k] = long[k + 1]
    BY <1>2, <2>1
  <2>3. Len(new) = Len(h) /\ Len(new) \in 1..MaxAttempts
    BY <1>2, <1>4, <1>5, <2>2
  <2>4. \A k \in 1..(Len(new) - 1) : new[k] = h[k + 1]
    <3> TAKE k \in 1..(Len(new) - 1)
    <3>1. k \in 1..Len(new) /\ k + 1 \in 1..Len(h)
      BY <1>4, <2>3
    <3> QED BY <1>2, <2>2, <3>1
  <2>5. new[Len(new)] = a
    BY <1>2, <1>4, <2>2, <2>3
  <2>6. Len(new) = Len(h) + 1 - 1
    BY <1>4, <2>3
  <2> QED BY <2>2, <2>3, <2>4, <2>5, <2>6 DEF new, a
<1>6. CASE ~(Len(long) > MaxAttempts)
  <2>1. new = long
    BY <1>3, <1>6
  <2>2. Len(new) \in 1..MaxAttempts /\ Len(new) = Len(h) + 1 - 0
    BY <1>2, <1>4, <1>6, <2>1
  <2>3. \A k \in 1..(Len(new) - 1) : new[k] = h[k + 0]
    BY <1>2, <1>4, <2>1, <2>2
  <2> QED BY <1>2, <2>1, <2>2, <2>3 DEF new, a
<1> QED BY <1>5, <1>6

(* Dispatching the next attempt keeps a chronicle ...                      *)
LEMMA DispatchChronicle ==
  ASSUME NEW h \in Seq(Attempt), NEW old \in Nat, Chronicle(h, old),
         NEW id \in 1..MaxAttemptId, id = h[Len(h)].id + 1,
         NEW generation \in Nat, generation >= old, NEW token \in Nat
  PROVE  Chronicle(Dispatch(h, id, generation, token), generation)
<1> DEFINE new == Dispatch(h, id, generation, token)
<1>1. MaxAttempts \in Nat \ {0} /\ Len(h) \in 1..MaxAttempts /\ h \in Seq(Attempt)
  BY BoundAssumption DEF Chronicle
<1>2. PICK drop \in {0, 1} :
        /\ Len(new) = Len(h) + 1 - drop
        /\ Len(new) \in 1..MaxAttempts
        /\ \A k \in 1..(Len(new) - 1) : new[k] = h[k + drop]
        /\ new[Len(new)] = Fresh(id, generation, token)
  BY <1>1, DispatchRows
<1> HIDE DEF new
<1>3. /\ new[Len(new)].id = h[Len(h)].id + 1
      /\ new[Len(new)].generation = generation
  BY <1>2 DEF Fresh
<1>4. \A k \in 1..Len(h) : h[k].id \in Nat /\ h[k].generation \in Nat
  <2>1. \A k \in 1..Len(h) : h[k] \in Attempt
    OBVIOUS
  <2> QED BY <2>1 DEF Attempt
<1>5. \A k \in 1..Len(new) : new[k].id = new[Len(new)].id - (Len(new) - k)
  <2> TAKE k \in 1..Len(new)
  <2>1. CASE k = Len(new)
    BY <1>1, <1>2, <1>3, <1>4, <2>1
  <2>2. CASE k # Len(new)
    <3>1. k \in 1..(Len(new) - 1) /\ k + drop \in 1..Len(h) /\ Len(h) \in 1..Len(h)
      BY <1>1, <1>2, <2>2
    <3>2. new[k].id = h[Len(h)].id - (Len(h) - (k + drop))
      BY <1>2, <3>1 DEF Chronicle
    <3>3. h[Len(h)].id \in Nat /\ Len(h) \in Nat /\ k \in Nat /\ drop \in Nat
      BY <1>1, <1>4, <3>1
    <3>4. Len(new) \in Nat
      BY <1>1, <1>2
    <3>5. Len(h) - (k + drop) = Len(new) - k - 1
      BY <1>2, <3>3, <3>4
    <3>6. new[k].id = h[Len(h)].id - (Len(new) - k - 1)
      BY <3>2, <3>5
    <3>7. \A top, n, at \in Nat : top - (n - at - 1) = (top + 1) - (n - at)
      OBVIOUS
    <3>8. new[k].id = (h[Len(h)].id + 1) - (Len(new) - k)
      BY <3>3, <3>4, <3>6, <3>7
    <3> QED BY <1>3, <3>8
  <2> QED BY <2>1, <2>2
<1>6. \A k \in 1..(Len(new) - 1) : new[k + 1].generation >= new[k].generation
  <2> TAKE k \in 1..(Len(new) - 1)
  <2>1. new[k] = h[k + drop] /\ k + drop \in 1..Len(h)
    BY <1>1, <1>2
  <2>2. CASE k = Len(new) - 1
    <3>1. k + drop = Len(h) /\ k + 1 = Len(new)
      BY <1>1, <1>2, <2>2
    <3> QED BY <1>3, <2>1, <3>1 DEF Chronicle
  <2>3. CASE k # Len(new) - 1
    <3>1. k + 1 \in 1..(Len(new) - 1) /\ k + drop \in 1..(Len(h) - 1)
      BY <1>1, <1>2, <2>3
    <3>2. new[k + 1] = h[(k + 1) + drop] /\ (k + 1) + drop = (k + drop) + 1
      BY <1>2, <3>1
    <3> QED BY <2>1, <3>1, <3>2 DEF Chronicle
  <2> QED BY <2>2, <2>3
<1> QED BY <1>2, <1>3, <1>5, <1>6 DEF Chronicle, new

(* ... and starts one.                                                     *)
LEMMA FirstChronicle ==
  ASSUME NEW generation \in Nat, NEW token \in Nat, MaxAttemptId >= 1
  PROVE  Chronicle(Dispatch(<<>>, 1, generation, token), generation)
<1> DEFINE new == Dispatch(<<>>, 1, generation, token)
<1>1. <<>> \in Seq(Attempt) /\ Len(<<>>) = 0 /\ 1 \in 1..MaxAttemptId /\ 0 <= MaxAttempts
  BY BoundAssumption
<1>2. PICK drop \in {0, 1} :
        /\ Len(new) = Len(<<>>) + 1 - drop
        /\ Len(new) \in 1..MaxAttempts
        /\ new[Len(new)] = Fresh(1, generation, token)
  BY <1>1, DispatchRows
<1> HIDE DEF new
<1>3. Len(new) = 1
  BY <1>1, <1>2
<1>4. new[1].id = 1 /\ new[1].generation = generation
  BY <1>2, <1>3 DEF Fresh
<1> QED BY <1>2, <1>3, <1>4 DEF Chronicle, new

(* Steps that change phases only keep it too.                              *)
LEMMA PhasesOnly ==
  ASSUME NEW h \in Seq(Attempt), NEW generation, Chronicle(h, generation),
         NEW new \in Seq(Attempt), Len(new) = Len(h),
         \A k \in 1..Len(h) : new[k].id = h[k].id /\ new[k].generation = h[k].generation
  PROVE  Chronicle(new, generation)
<1>1. Len(h) \in Nat \ {0} /\ Len(h) \in 1..MaxAttempts
  BY BoundAssumption DEF Chronicle
<1>2. \A k \in 1..(Len(h) - 1) : k \in 1..Len(h) /\ k + 1 \in 1..Len(h)
  BY <1>1
<1>3. Len(h) \in 1..Len(h)
  BY <1>1
<1> QED BY <1>1, <1>2, <1>3 DEF Chronicle

(* What settling the last attempt does to the rows.                        *)
LEMMA SetPhaseRows ==
  ASSUME NEW h \in Seq(Attempt), NEW phase \in AttemptPhase
  PROVE  /\ SetPhase(h, phase) \in Seq(Attempt)
         /\ Len(SetPhase(h, phase)) = Len(h)
         /\ \A k \in 1..Len(h) :
              SetPhase(h, phase)[k] = IF k = Len(h) THEN [h[k] EXCEPT !.phase = phase] ELSE h[k]
<1>1. SetPhase(h, phase) \in Seq(Attempt)
  BY SetPhaseType
<1>2. DOMAIN SetPhase(h, phase) = DOMAIN h
  BY DEF SetPhase
<1>3. Len(SetPhase(h, phase)) = Len(h)
  BY <1>1, <1>2
<1> QED BY <1>1, <1>3 DEF SetPhase

(* What a restart does to the rows.                                        *)
LEMMA AmbiguousRows ==
  ASSUME NEW h \in Seq(Attempt)
  PROVE  /\ Ambiguous(h) \in Seq(Attempt)
         /\ Len(Ambiguous(h)) = Len(h)
         /\ \A k \in 1..Len(h) :
              Ambiguous(h)[k] = IF h[k].phase \in InFlightPhase
                                  THEN [h[k] EXCEPT !.phase = "ambiguous"] ELSE h[k]
<1>1. Ambiguous(h) \in Seq(Attempt)
  BY AmbiguousType
<1>2. DOMAIN Ambiguous(h) = DOMAIN h
  BY DEF Ambiguous
<1>3. Len(Ambiguous(h)) = Len(h)
  BY <1>1, <1>2
<1>4. DOMAIN h = 1..Len(h)
  OBVIOUS
<1>5. \A k \in 1..Len(h) :
        Ambiguous(h)[k] = IF h[k].phase \in InFlightPhase
                            THEN [h[k] EXCEPT !.phase = "ambiguous"] ELSE h[k]
  BY <1>4 DEF Ambiguous
<1> QED BY <1>1, <1>3, <1>5

------------------------------------------------------------------------------
(* What a step does to a history.                                          *)

(* The attempts and the generation of a record stay ...                    *)
HistoryStays(i) ==
  /\ instances'[i].attempts = instances[i].attempts
  /\ instances'[i].generation = instances[i].generation

(* ... or the current attempt is settled, as the table of phases allows ...*)
CurrentSettled(i) ==
  \E phase \in AttemptPhase :
    /\ instances'[i].attempts = SetPhase(instances[i].attempts, phase)
    /\ instances'[i].generation = instances[i].generation
    /\ LegalAttempt(Current(i).phase, phase)
    /\ Current(i).phase \in TerminalPhase => phase = Current(i).phase

(* ... or the next attempt is dispatched ...                               *)
NextDispatched(i) ==
  \E generation, token \in Nat :
    /\ generation >= instances[i].generation
    /\ instances'[i].generation = generation
    /\ NextAttemptId(i) \in 1..MaxAttemptId
    /\ instances'[i].attempts =
         Dispatch(instances[i].attempts, NextAttemptId(i), generation, token)

(* ... or a restart has made what was in flight ambiguous.                 *)
MadeAmbiguous(i) ==
  /\ instances'[i].attempts = Ambiguous(instances[i].attempts)
  /\ instances'[i].generation = instances[i].generation
  /\ epoch' # epoch

LEMMA RecordStep ==
  ASSUME TypeOK, Numbered, [Next]_vars, NEW i \in DOMAIN instances
  PROVE  HistoryStays(i) \/ CurrentSettled(i) \/ NextDispatched(i) \/ MadeAmbiguous(i)
<1> DEFINE explained == HistoryStays(i) \/ CurrentSettled(i) \/ NextDispatched(i) \/ MadeAmbiguous(i)
<1>t. \A j \in DOMAIN instances : instances[j] \in Instance
  BY DEF TypeOK
<1>g. instances[i].generation \in Nat /\ instances[i].token \in Nat
  BY <1>t DEF Instance
<1>1. ASSUME NEW d \in Device, NEW n \in 1..MaxIncarnation, RegisterDevice(d, n)
      PROVE  explained
  <2>1. \/ instances'[i] = instances[i]
        \/ instances'[i] = [instances[i] EXCEPT !.lifecycle = "stale", !.authority = "revoked",
                                               !.lease = NoLease]
    BY <1>1 DEF RegisterDevice
  <2> QED BY <1>t, <2>1 DEF Instance, HistoryStays
<1>2. ASSUME NEW d \in Device, EvidenceArrives(d) \/ EvidenceLapses(d)
      PROVE  explained
  BY <1>2 DEF EvidenceArrives, EvidenceLapses, HistoryStays
<1>3. ASSUME NEW d \in Device, NEW port \in PortOrNil, NEW pkg \in Package,
             NEW at \in Times, NEW ttl \in Lifetimes, ActivateNew(d, port, pkg, at, ttl)
      PROVE  explained
  <2>1. PICK n \in Nat : DOMAIN instances = 1..n
    BY DEF Numbered
  <2>2. i # Cardinality(DOMAIN instances) + 1
    BY <2>1, NextInstance
  <2>3. instances'[i] = instances[i]
    BY <1>3, <2>2 DEF ActivateNew
  <2> QED BY <2>3 DEF HistoryStays
<1>4. ASSUME NEW j \in DOMAIN instances, NEW at \in Times, NEW ttl \in Lifetimes,
             Acquire(j, at, ttl)
      PROVE  explained
  BY <1>t, <1>4 DEF Acquire, Instance, HistoryStays
<1>5. ASSUME NEW j \in DOMAIN instances, NEW at \in Times, NEW l \in DOMAIN leases,
             NEW port \in PortOrNil, NEW pkg \in Package, ActivateExisting(j, port, pkg, l, at)
      PROVE  explained
  <2>1. CASE j # i
    BY <1>t, <1>5, <2>1 DEF ActivateExisting, HistoryStays
  <2>2. CASE j = i
    <3>1. NextAttemptId(i) \in 1..MaxAttemptId
      BY <1>5, <2>2, NextAttemptIdType DEF ActivateExisting
    <3>2. /\ instances'[i].generation = instances[i].generation + 1
          /\ instances'[i].attempts =
               Dispatch(instances[i].attempts, NextAttemptId(i), instances[i].generation + 1,
                        instances[i].token)
      BY <1>t, <1>5, <2>2 DEF ActivateExisting, Instance
    <3>3. instances[i].generation + 1 \in Nat /\ instances[i].generation + 1 >= instances[i].generation
      BY <1>g
    <3> QED BY <1>g, <3>1, <3>2, <3>3 DEF NextDispatched
  <2> QED BY <2>1, <2>2
<1>6. ASSUME NEW j \in DOMAIN instances, NEW at \in Times, NEW l \in DOMAIN leases,
             Rollback(j, l, at)
      PROVE  explained
  <2>1. CASE j # i
    BY <1>t, <1>6, <2>1 DEF Rollback, HistoryStays
  <2>2. CASE j = i
    <3>1. NextAttemptId(i) \in 1..MaxAttemptId
      BY <1>6, <2>2, NextAttemptIdType DEF Rollback
    <3>2. /\ instances'[i].generation = instances[i].generation + 1
          /\ instances'[i].attempts =
               Dispatch(instances[i].attempts, NextAttemptId(i), instances[i].generation + 1,
                        instances[i].token)
      BY <1>t, <1>6, <2>2 DEF Rollback, Instance
    <3>3. instances[i].generation + 1 \in Nat /\ instances[i].generation + 1 >= instances[i].generation
      BY <1>g
    <3> QED BY <1>g, <3>1, <3>2, <3>3 DEF NextDispatched
  <2> QED BY <2>1, <2>2
<1>7. ASSUME NEW j \in DOMAIN instances, NEW at \in Times, NEW l \in DOMAIN leases,
             NEW want \in {"quiesced", "withdrawn"}, Drain(j, want, l, at)
      PROVE  explained
  <2>1. CASE j # i
    BY <1>t, <1>7, <2>1 DEF Drain, HistoryStays
  <2>2. CASE j = i
    <3>1. NextAttemptId(i) \in 1..MaxAttemptId
      BY <1>7, <2>2, NextAttemptIdType DEF Drain
    <3>2. /\ instances'[i].generation = instances[i].generation
          /\ instances'[i].attempts =
               Dispatch(instances[i].attempts, NextAttemptId(i), instances[i].generation,
                        instances[i].token)
      BY <1>t, <1>7, <2>2 DEF Drain, Instance
    <3>3. instances[i].generation >= instances[i].generation
      BY <1>g
    <3> QED BY <1>g, <3>1, <3>2, <3>3 DEF NextDispatched
  <2> QED BY <2>1, <2>2
<1>8. ASSUME NEW l \in DOMAIN leases, Release(l)
      PROVE  explained
  BY <1>t, <1>8 DEF Release, Instance, HistoryStays
<1>9. ASSUME NEW j \in DOMAIN instances, Acknowledge(j)
      PROVE  explained
  <2>1. CASE j # i
    BY <1>t, <1>9, <2>1 DEF Acknowledge, HistoryStays
  <2>2. CASE j = i
    <3>1. /\ instances'[i].attempts = SetPhase(instances[i].attempts, "acknowledged")
          /\ instances'[i].generation = instances[i].generation
          /\ Current(i).phase = "dispatched"
      BY <1>t, <1>9, <2>2 DEF Acknowledge, Instance
    <3>2. LegalAttempt("dispatched", "acknowledged")
      BY DEF LegalAttempt, AttemptSuccessors
    <3>3. "dispatched" \notin TerminalPhase /\ "acknowledged" \in AttemptPhase
      BY DEF TerminalPhase, AttemptPhase
    <3> QED BY <3>1, <3>2, <3>3 DEF CurrentSettled
  <2> QED BY <2>1, <2>2
<1>10. ASSUME NEW j \in DOMAIN instances, NEW outcome \in EffectOutcome,
              ReportEffect(j, outcome)
       PROVE  explained
  <2>1. CASE j # i
    BY <1>t, <1>10, <2>1 DEF ReportEffect, HistoryStays
  <2>2. CASE j = i
    <3> DEFINE phase == OutcomePhase(outcome)
    <3>1. phase \in AttemptPhase
      BY DEF OutcomePhase, EffectOutcome, AttemptPhase
    <3>2. /\ Current(i).phase \notin {"failed", "aborted", "quiesced", "withdrawn"}
          /\ LegalAttempt(Current(i).phase, phase)
      BY <1>10, <2>2 DEF ReportEffect
    <3>3. /\ instances'[i].attempts = SetPhase(instances[i].attempts, phase)
          /\ instances'[i].generation = instances[i].generation
      BY <1>t, <1>10, <2>2 DEF ReportEffect, Instance
    <3> HIDE DEF phase
    <3>4. Current(i).phase \in TerminalPhase => Current(i).phase = "verified"
      BY <3>2 DEF TerminalPhase
    <3>5. AttemptSuccessors["verified"] = {}
      BY DEF AttemptSuccessors
    <3>6. Current(i).phase \in TerminalPhase => phase = Current(i).phase
      BY <3>2, <3>4, <3>5 DEF LegalAttempt
    <3> QED BY <3>1, <3>2, <3>3, <3>6 DEF CurrentSettled
  <2> QED BY <2>1, <2>2
<1>11. ASSUME Restart
       PROVE  explained
  <2>1. epoch' # epoch
    BY <1>11, BoundAssumption DEF Restart, TypeOK
  <2>2. instances'[i] = IF i \in Swept THEN AfterRestart(i) ELSE instances[i]
    BY <1>11 DEF Restart
  <2>3. /\ AfterRestart(i).attempts = Ambiguous(instances[i].attempts)
        /\ AfterRestart(i).generation = instances[i].generation
    BY <1>t DEF AfterRestart, Instance
  <2> QED BY <2>1, <2>2, <2>3 DEF HistoryStays, MadeAmbiguous
<1>12. ASSUME UNCHANGED vars
       PROVE  explained
  BY <1>12 DEF vars, HistoryStays
<1> HIDE DEF explained
<1>13. explained
  BY <1>1, <1>2, <1>3, <1>4, <1>5, <1>6, <1>7, <1>8, <1>9, <1>10, <1>11, <1>12 DEF Next
<1> QED BY <1>13 DEF explained

(* The record of a new instance starts with one attempt.                   *)
LEMMA NewRecord ==
  ASSUME TypeOK, [Next]_vars, NEW i \in DOMAIN instances', i \notin DOMAIN instances
  PROVE  /\ MaxAttemptId >= 1
         /\ instances'[i].generation = 1
         /\ \E token \in Nat : instances'[i].attempts = Dispatch(<<>>, 1, 1, token)
<1> DEFINE started == /\ MaxAttemptId >= 1
                      /\ instances'[i].generation = 1
                      /\ \E token \in Nat : instances'[i].attempts = Dispatch(<<>>, 1, 1, token)
           stays == DOMAIN instances' = DOMAIN instances
<1>1. ASSUME NEW d \in Device, NEW n \in 1..MaxIncarnation, RegisterDevice(d, n)
      PROVE  stays
  BY <1>1 DEF RegisterDevice
<1>2. ASSUME NEW d \in Device, EvidenceArrives(d) \/ EvidenceLapses(d)
      PROVE  stays
  BY <1>2 DEF EvidenceArrives, EvidenceLapses
<1>3. ASSUME NEW d \in Device, NEW port \in PortOrNil, NEW pkg \in Package,
             NEW at \in Times, NEW ttl \in Lifetimes, ActivateNew(d, port, pkg, at, ttl)
      PROVE  started
  <2>1. PackageScope(d, port, pkg) \in Scope
    BY DEF PackageScope, Scope, PortOrNil
  <2>2. fence[PackageScope(d, port, pkg)] + 1 \in Nat
    BY <2>1 DEF TypeOK
  <2>3. i = Cardinality(DOMAIN instances) + 1
    BY <1>3 DEF ActivateNew
  <2>4. /\ instances'[i].generation = 1
        /\ instances'[i].attempts =
             Dispatch(<<>>, 1, 1, fence[PackageScope(d, port, pkg)] + 1)
    BY <1>3, <2>3 DEF ActivateNew
  <2>5. MaxAttemptId >= 1
    BY <1>3 DEF ActivateNew
  <2> QED BY <2>2, <2>4, <2>5
<1>4. ASSUME NEW j \in DOMAIN instances, NEW at \in Times, NEW ttl \in Lifetimes,
             Acquire(j, at, ttl)
      PROVE  stays
  BY <1>4 DEF Acquire
<1>5. ASSUME NEW j \in DOMAIN instances, NEW at \in Times, NEW l \in DOMAIN leases,
             NEW port \in PortOrNil, NEW pkg \in Package, ActivateExisting(j, port, pkg, l, at)
      PROVE  stays
  BY <1>5 DEF ActivateExisting
<1>6. ASSUME NEW j \in DOMAIN instances, NEW at \in Times, NEW l \in DOMAIN leases,
             Rollback(j, l, at)
      PROVE  stays
  BY <1>6 DEF Rollback
<1>7. ASSUME NEW j \in DOMAIN instances, NEW at \in Times, NEW l \in DOMAIN leases,
             NEW want \in {"quiesced", "withdrawn"}, Drain(j, want, l, at)
      PROVE  stays
  BY <1>7 DEF Drain
<1>8. ASSUME NEW l \in DOMAIN leases, Release(l)
      PROVE  stays
  BY <1>8 DEF Release
<1>9. ASSUME NEW j \in DOMAIN instances, Acknowledge(j)
      PROVE  stays
  BY <1>9 DEF Acknowledge
<1>10. ASSUME NEW j \in DOMAIN instances, NEW outcome \in EffectOutcome,
              ReportEffect(j, outcome)
       PROVE  stays
  BY <1>10 DEF ReportEffect
<1>11. ASSUME Restart
       PROVE  stays
  BY <1>11 DEF Restart
<1>12. ASSUME UNCHANGED vars
       PROVE  stays
  BY <1>12 DEF vars
<1>13. ~stays
  OBVIOUS
<1> HIDE DEF started, stays
<1>14. started
  BY <1>1, <1>2, <1>3, <1>4, <1>5, <1>6, <1>7, <1>8, <1>9, <1>10, <1>11, <1>12, <1>13 DEF Next
<1> QED BY <1>14 DEF started

------------------------------------------------------------------------------
(* Histories are coherent.                                                 *)

(* The inductive invariant: every history is a chronicle.  HistoryCoherent *)
(* compares neighbours only; that two attempts never share an identity     *)
(* would take an induction over the history from there.                    *)
Chronicles ==
  \A i \in DOMAIN instances : Chronicle(instances[i].attempts, instances[i].generation)

(* The next identity follows that of the current attempt.                  *)
LEMMA NextIdFollows ==
  ASSUME TypeOK, Chronicles, NEW i \in DOMAIN instances
  PROVE  /\ instances[i].attempts \in Seq(Attempt)
         /\ Len(instances[i].attempts) \in 1..Len(instances[i].attempts)
         /\ NextAttemptId(i) = instances[i].attempts[Len(instances[i].attempts)].id + 1
<1> DEFINE h == instances[i].attempts
<1>1. h \in Seq(Attempt)
  BY DEF TypeOK, Instance
<1>2. Len(h) \in 1..MaxAttempts
  BY DEF Chronicles, Chronicle
<1>3. h # <<>>
  BY <1>1, <1>2
<1>4. Len(h) \in 1..Len(h)
  BY <1>2, BoundAssumption
<1> QED BY <1>1, <1>3, <1>4 DEF NextAttemptId

LEMMA ChronicleStep ==
  ASSUME TypeOK, Numbered, Chronicles, [Next]_vars
  PROVE  Chronicles'
<1> SUFFICES ASSUME NEW i \in DOMAIN instances'
             PROVE  Chronicle(instances'[i].attempts, instances'[i].generation)
  BY DEF Chronicles
<1>1. CASE i \notin DOMAIN instances
  <2>1. PICK token \in Nat : instances'[i].attempts = Dispatch(<<>>, 1, 1, token)
    BY <1>1, NewRecord
  <2>2. MaxAttemptId >= 1 /\ instances'[i].generation = 1
    BY <1>1, NewRecord
  <2> QED BY <2>1, <2>2, FirstChronicle
<1>2. CASE i \in DOMAIN instances
  <2> DEFINE h == instances[i].attempts
             g == instances[i].generation
  <2>1. Chronicle(h, g) /\ h \in Seq(Attempt) /\ g \in Nat
    BY <1>2 DEF Chronicles, TypeOK, Instance
  <2>2. CASE HistoryStays(i)
    BY <2>1, <2>2 DEF HistoryStays
  <2>3. CASE CurrentSettled(i)
    <3>1. PICK phase \in AttemptPhase : /\ instances'[i].attempts = SetPhase(h, phase)
                                        /\ instances'[i].generation = g
      BY <2>3 DEF CurrentSettled
    <3> DEFINE new == SetPhase(h, phase)
    <3>2. \A k \in 1..Len(h) : h[k] \in Attempt
      BY <2>1
    <3>3. /\ new \in Seq(Attempt) /\ Len(new) = Len(h)
          /\ \A k \in 1..Len(h) :
               new[k] = IF k = Len(h) THEN [h[k] EXCEPT !.phase = phase] ELSE h[k]
      BY <2>1, SetPhaseRows
    <3>4. \A k \in 1..Len(h) : new[k].id = h[k].id /\ new[k].generation = h[k].generation
      BY <3>2, <3>3 DEF Attempt
    <3> HIDE DEF new
    <3>5. Chronicle(new, g)
      BY <2>1, <3>3, <3>4, PhasesOnly
    <3> QED BY <3>1, <3>5 DEF new
  <2>4. CASE NextDispatched(i)
    <3>1. PICK generation \in Nat, token \in Nat :
            /\ generation >= g
            /\ instances'[i].generation = generation
            /\ NextAttemptId(i) \in 1..MaxAttemptId
            /\ instances'[i].attempts = Dispatch(h, NextAttemptId(i), generation, token)
      BY <2>4 DEF NextDispatched
    <3>2. NextAttemptId(i) = h[Len(h)].id + 1
      BY <1>2, NextIdFollows
    <3>3. Chronicle(Dispatch(h, NextAttemptId(i), generation, token), generation)
      BY <2>1, <3>1, <3>2, DispatchChronicle
    <3> QED BY <3>1, <3>3
  <2>5. CASE MadeAmbiguous(i)
    <3> DEFINE new == Ambiguous(h)
    <3>1. instances'[i].attempts = new /\ instances'[i].generation = g
      BY <2>5 DEF MadeAmbiguous
    <3>2. \A k \in 1..Len(h) : h[k] \in Attempt
      BY <2>1
    <3>3. /\ new \in Seq(Attempt) /\ Len(new) = Len(h)
          /\ \A k \in 1..Len(h) :
               new[k] = IF h[k].phase \in InFlightPhase
                          THEN [h[k] EXCEPT !.phase = "ambiguous"] ELSE h[k]
      BY <2>1, AmbiguousRows
    <3>4. \A k \in 1..Len(h) : new[k].id = h[k].id /\ new[k].generation = h[k].generation
      BY <3>2, <3>3 DEF Attempt
    <3> HIDE DEF new
    <3>5. Chronicle(new, g)
      BY <2>1, <3>3, <3>4, PhasesOnly
    <3> QED BY <3>1, <3>5
  <2> QED BY <1>2, <2>2, <2>3, <2>4, <2>5, RecordStep
<1> QED BY <1>1, <1>2

(* A chronicle is what a snapshot's decoder requires.                      *)
LEMMA ChroniclesCohere == TypeOK /\ Chronicles => HistoryCoherent
<1> SUFFICES ASSUME TypeOK, Chronicles, NEW i \in DOMAIN instances
             PROVE  LET h == instances[i].attempts IN
                    /\ Len(h) \in 1..MaxAttempts
                    /\ \A k \in 1..(Len(h) - 1) : /\ h[k + 1].id = h[k].id + 1
                                                  /\ h[k + 1].generation >= h[k].generation
                    /\ h[Len(h)].generation = instances[i].generation
  BY DEF HistoryCoherent
<1> DEFINE h == instances[i].attempts
<1>1. Chronicle(h, instances[i].generation)
  BY DEF Chronicles
<1>2. h \in Seq(Attempt) /\ Len(h) \in 1..Len(h)
  BY NextIdFollows
<1>3. h[Len(h)].id \in Nat
  <2>1. h[Len(h)] \in Attempt
    BY <1>2
  <2> QED BY <2>1 DEF Attempt
<1> HIDE DEF h
<1>4. \A k \in 1..(Len(h) - 1) : h[k + 1].id = h[k].id + 1
  <2> TAKE k \in 1..(Len(h) - 1)
  <2>1. k \in 1..Len(h) /\ k + 1 \in 1..Len(h) /\ Len(h) \in Nat
    BY <1>2
  <2>2. /\ h[k].id = h[Len(h)].id - (Len(h) - k)
        /\ h[k + 1].id = h[Len(h)].id - (Len(h) - (k + 1))
    BY <1>1, <2>1 DEF Chronicle
  <2>3. \A top, n, at \in Nat : top - (n - (at + 1)) = (top - (n - at)) + 1
    OBVIOUS
  <2> QED BY <1>3, <2>1, <2>2, <2>3
<1> QED BY <1>1, <1>4 DEF Chronicle, h

LEMMA AlwaysChronicles == Spec => []Chronicles
<1>1. Init => Chronicles
  BY DEF Init, Chronicles
<1>2. TypeOK /\ Numbered /\ Chronicles /\ [Next]_vars => Chronicles'
  BY ChronicleStep
<1> QED BY <1>1, <1>2, TypeCorrect, InstancesNumbered, PTL DEF Spec

(* Every history of attempts keeps its bound, numbers its attempts without *)
(* a gap and ends in the generation that reports must match, through any   *)
(* dispatches, late reports, evictions and restarts.                       *)
THEOREM HistoriesCohere == Spec => []HistoryCoherent
BY AlwaysChronicles, TypeCorrect, ChroniclesCohere, PTL

------------------------------------------------------------------------------
(* Attempts are settled once.                                              *)

(* Two remembered attempts with one identity are the same.                 *)
LEMMA OneAttemptPerId ==
  ASSUME NEW h \in Seq(Attempt), NEW generation, Chronicle(h, generation),
         NEW a \in 1..Len(h), NEW b \in 1..Len(h), h[a].id = h[b].id
  PROVE  a = b
<1>1. Len(h) \in Nat /\ Len(h) \in 1..Len(h)
  BY BoundAssumption DEF Chronicle
<1>2. h[Len(h)].id \in Nat
  <2>1. h[Len(h)] \in Attempt
    BY <1>1
  <2> QED BY <2>1 DEF Attempt
<1>3. h[Len(h)].id - (Len(h) - a) = h[Len(h)].id - (Len(h) - b)
  BY DEF Chronicle
<1>4. \A top, n, x, y \in Nat : top - (n - x) = top - (n - y) => x = y
  OBVIOUS
<1> QED BY <1>1, <1>2, <1>3, <1>4

(* No remembered attempt is later than the current one.                    *)
LEMMA CurrentIsLatest ==
  ASSUME NEW h \in Seq(Attempt), NEW generation, Chronicle(h, generation),
         NEW a \in 1..Len(h)
  PROVE  h[a].id <= h[Len(h)].id /\ h[a].id \in Nat /\ h[Len(h)].id \in Nat
<1>1. Len(h) \in Nat /\ Len(h) \in 1..Len(h)
  BY BoundAssumption DEF Chronicle
<1>2. h[Len(h)].id \in Nat /\ h[a].id \in Nat
  <2>1. h[Len(h)] \in Attempt /\ h[a] \in Attempt
    BY <1>1
  <2> QED BY <2>1 DEF Attempt
<1>3. h[a].id = h[Len(h)].id - (Len(h) - a)
  BY DEF Chronicle
<1>4. \A top, n, x \in Nat : x <= n => top - (n - x) <= top
  OBVIOUS
<1>5. a \in Nat /\ a <= Len(h)
  BY <1>1
<1> QED BY <1>1, <1>2, <1>3, <1>4, <1>5

(* AttemptsSettleOnce, of one instance.                                    *)
SettledOnce(old, new) ==
  /\ \A b \in DOMAIN new :
       \/ new[b].id > old[Len(old)].id
       \/ \E a \in DOMAIN old : old[a].id = new[b].id
  /\ \A a \in DOMAIN old, b \in DOMAIN new :
       old[a].id = new[b].id =>
         /\ new[b].generation = old[a].generation
         /\ new[b].token = old[a].token
         /\ LegalAttempt(old[a].phase, new[b].phase)
         /\ old[a].phase \in TerminalPhase => new[b].phase = old[a].phase
         /\ (a # Len(old) /\ new[b].phase # old[a].phase) =>
              new[b].phase = "ambiguous" /\ epoch' # epoch

(* A step that leaves every attempt in its place need only be looked at    *)
(* place by place.                                                         *)
LEMMA SettledInPlace ==
  ASSUME NEW old \in Seq(Attempt), NEW generation, Chronicle(old, generation),
         NEW new \in Seq(Attempt), Len(new) = Len(old),
         \A k \in 1..Len(old) :
           /\ new[k].id = old[k].id
           /\ new[k].generation = old[k].generation
           /\ new[k].token = old[k].token
           /\ LegalAttempt(old[k].phase, new[k].phase)
           /\ old[k].phase \in TerminalPhase => new[k].phase = old[k].phase
           /\ (k # Len(old) /\ new[k].phase # old[k].phase) =>
                new[k].phase = "ambiguous" /\ epoch' # epoch
  PROVE  SettledOnce(old, new)
<1>1. DOMAIN old = 1..Len(old) /\ DOMAIN new = 1..Len(old)
  OBVIOUS
<1>2. ASSUME NEW a \in 1..Len(old), NEW b \in 1..Len(old), old[a].id = new[b].id
      PROVE  a = b
  <2>1. old[a].id = old[b].id
    BY <1>2
  <2> QED BY <2>1, OneAttemptPerId
<1>3. \A b \in DOMAIN new : \E a \in DOMAIN old : old[a].id = new[b].id
  BY <1>1
<1> QED BY <1>1, <1>2, <1>3 DEF SettledOnce

LEMMA SettleStep ==
  ASSUME TypeOK, TypeOK', Numbered, Chronicles, [Next]_vars, NEW i \in DOMAIN instances
  PROVE  SettledOnce(instances[i].attempts, instances'[i].attempts)
<1> DEFINE old == instances[i].attempts
           g == instances[i].generation
           new == instances'[i].attempts
<1>1. Chronicle(old, g) /\ old \in Seq(Attempt) /\ g \in Nat /\ DOMAIN old = 1..Len(old)
  BY DEF Chronicles, TypeOK, Instance
<1>2. \A k \in 1..Len(old) : old[k] \in Attempt
  BY <1>1
<1>3. \A phase : LegalAttempt(phase, phase)
  BY DEF LegalAttempt
<1>4. CASE HistoryStays(i)
  <2>1. new = old
    BY <1>4 DEF HistoryStays
  <2>2. SettledOnce(old, old)
    BY <1>1, <1>3, SettledInPlace
  <2> QED BY <2>1, <2>2
<1>5. CASE CurrentSettled(i)
  <2>1. PICK phase \in AttemptPhase :
          /\ new = SetPhase(old, phase)
          /\ LegalAttempt(Current(i).phase, phase)
          /\ Current(i).phase \in TerminalPhase => phase = Current(i).phase
    BY <1>5 DEF CurrentSettled
  <2>2. /\ new \in Seq(Attempt) /\ Len(new) = Len(old)
        /\ \A k \in 1..Len(old) :
             new[k] = IF k = Len(old) THEN [old[k] EXCEPT !.phase = phase] ELSE old[k]
    BY <1>1, <2>1, SetPhaseRows
  <2>3. Current(i) = old[Len(old)]
    BY DEF Current
  <2> HIDE DEF new, old
  <2>4. ASSUME NEW k \in 1..Len(old)
        PROVE  /\ new[k].id = old[k].id
               /\ new[k].generation = old[k].generation
               /\ new[k].token = old[k].token
               /\ LegalAttempt(old[k].phase, new[k].phase)
               /\ old[k].phase \in TerminalPhase => new[k].phase = old[k].phase
               /\ k # Len(old) => new[k].phase = old[k].phase
    <3>1. CASE k = Len(old)
      <4>1. new[k] = [old[k] EXCEPT !.phase = phase] /\ old[k] \in Attempt
        BY <1>2, <2>2, <3>1
      <4>2. /\ new[k].id = old[k].id /\ new[k].generation = old[k].generation
            /\ new[k].token = old[k].token /\ new[k].phase = phase
        BY <4>1 DEF Attempt
      <4>3. Current(i).phase = old[k].phase
        BY <2>3, <3>1
      <4> QED BY <2>1, <3>1, <4>2, <4>3
    <3>2. CASE k # Len(old)
      <4>1. new[k] = old[k]
        BY <2>2, <3>2
      <4> QED BY <1>3, <4>1
    <3> QED BY <3>1, <3>2
  <2>5. SettledOnce(old, new)
    BY <1>1, <2>2, <2>4, SettledInPlace
  <2> QED BY <2>5 DEF old, new
<1>6. CASE NextDispatched(i)
  <2>1. PICK generation \in Nat, token \in Nat :
          /\ NextAttemptId(i) \in 1..MaxAttemptId
          /\ new = Dispatch(old, NextAttemptId(i), generation, token)
    BY <1>6 DEF NextDispatched
  <2>2. NextAttemptId(i) = old[Len(old)].id + 1 /\ Len(old) \in 1..Len(old)
    BY NextIdFollows
  <2>3. MaxAttempts \in Nat /\ Len(old) \in Nat /\ Len(old) <= MaxAttempts
    BY <1>1, BoundAssumption DEF Chronicle
  <2>4. PICK drop \in {0, 1} :
          /\ new \in Seq(Attempt)
          /\ Len(new) = Len(old) + 1 - drop
          /\ Len(new) \in 1..MaxAttempts
          /\ \A k \in 1..(Len(new) - 1) : new[k] = old[k + drop]
          /\ new[Len(new)] = Fresh(NextAttemptId(i), generation, token)
    BY <1>1, <2>1, <2>3, DispatchRows
  <2>5. DOMAIN new = 1..Len(new)
    BY <2>4
  <2>6. new[Len(new)].id = old[Len(old)].id + 1
    BY <2>2, <2>4 DEF Fresh
  <2>7. \A a \in 1..Len(old) : /\ old[a].id <= old[Len(old)].id
                               /\ old[a].id \in Nat /\ old[Len(old)].id \in Nat
    BY <1>1, CurrentIsLatest
  <2> HIDE DEF new, old
  <2>8. ASSUME NEW b \in 1..Len(new), b # Len(new)
        PROVE  b + drop \in 1..Len(old) /\ new[b] = old[b + drop]
    <3>1. b \in 1..(Len(new) - 1)
      BY <2>3, <2>4, <2>8
    <3> QED BY <2>3, <2>4, <3>1
  <2>9. \A b \in DOMAIN new :
          \/ new[b].id > old[Len(old)].id
          \/ \E a \in DOMAIN old : old[a].id = new[b].id
    <3> TAKE b \in DOMAIN new
    <3>1. CASE b = Len(new)
      BY <2>2, <2>6, <2>7, <3>1
    <3>2. CASE b # Len(new)
      <4>1. b + drop \in DOMAIN old /\ old[b + drop].id = new[b].id
        BY <1>1, <2>5, <2>8, <3>2
      <4> QED BY <4>1
    <3> QED BY <3>1, <3>2
  <2>10. ASSUME NEW a \in DOMAIN old, NEW b \in DOMAIN new, old[a].id = new[b].id
         PROVE  new[b] = old[a]
    <3>1. a \in 1..Len(old) /\ b \in 1..Len(new)
      BY <1>1, <2>5
    <3>2. b # Len(new)
      <4>1. old[a].id # old[Len(old)].id + 1
        BY <2>7, <3>1
      <4> QED BY <2>6, <2>10, <4>1
    <3>3. b + drop \in 1..Len(old) /\ new[b] = old[b + drop]
      BY <2>8, <3>1, <3>2
    <3>4. a = b + drop
      BY <1>1, <2>10, <3>1, <3>3, OneAttemptPerId
    <3> QED BY <3>3, <3>4
  <2>11. SettledOnce(old, new)
    BY <1>3, <2>9, <2>10 DEF SettledOnce
  <2> QED BY <2>11 DEF old, new
<1>7. CASE MadeAmbiguous(i)
  <2>1. new = Ambiguous(old) /\ epoch' # epoch
    BY <1>7 DEF MadeAmbiguous
  <2>2. /\ new \in Seq(Attempt) /\ Len(new) = Len(old)
        /\ \A k \in 1..Len(old) :
             new[k] = IF old[k].phase \in InFlightPhase
                        THEN [old[k] EXCEPT !.phase = "ambiguous"] ELSE old[k]
    BY <1>1, <2>1, AmbiguousRows
  <2> HIDE DEF new, old
  <2>3. \A phase \in InFlightPhase : /\ LegalAttempt(phase, "ambiguous")
                                    /\ phase \notin TerminalPhase
    BY DEF InFlightPhase, LegalAttempt, AttemptSuccessors, TerminalPhase
  <2>4. ASSUME NEW k \in 1..Len(old)
        PROVE  /\ new[k].id = old[k].id
               /\ new[k].generation = old[k].generation
               /\ new[k].token = old[k].token
               /\ LegalAttempt(old[k].phase, new[k].phase)
               /\ old[k].phase \in TerminalPhase => new[k].phase = old[k].phase
               /\ new[k].phase # old[k].phase => new[k].phase = "ambiguous"
    <3>1. CASE old[k].phase \in InFlightPhase
      <4>1. new[k] = [old[k] EXCEPT !.phase = "ambiguous"] /\ old[k] \in Attempt
        BY <1>2, <2>2, <3>1
      <4>2. /\ new[k].id = old[k].id /\ new[k].generation = old[k].generation
            /\ new[k].token = old[k].token /\ new[k].phase = "ambiguous"
        BY <4>1 DEF Attempt
      <4> QED BY <2>3, <3>1, <4>2
    <3>2. CASE old[k].phase \notin InFlightPhase
      <4>1. new[k] = old[k]
        BY <2>2, <3>2
      <4> QED BY <1>3, <4>1
    <3> QED BY <3>1, <3>2
  <2>5. SettledOnce(old, new)
    BY <1>1, <2>1, <2>2, <2>4, SettledInPlace
  <2> QED BY <2>5 DEF old, new
<1> QED BY <1>4, <1>5, <1>6, <1>7, RecordStep

(* Whatever reports arrive late, again or for attempts long superseded, an *)
(* attempt keeps its identity, generation and token, moves along the       *)
(* declared table, and is settled once.                                    *)
THEOREM AttemptsAreSettledOnce == Spec => AttemptsSettleOnce
<1>1. TypeOK /\ TypeOK' /\ Numbered /\ Chronicles /\ [Next]_vars =>
        [\A i \in DOMAIN instances : SettledOnce(instances[i].attempts, instances'[i].attempts)]_vars
  BY SettleStep
<1>2. Spec => [][\A i \in DOMAIN instances :
                   SettledOnce(instances[i].attempts, instances'[i].attempts)]_vars
  BY <1>1, TypeCorrect, InstancesNumbered, AlwaysChronicles, PTL DEF Spec
<1> QED BY <1>2 DEF AttemptsSettleOnce, SettledOnce

------------------------------------------------------------------------------
(* The bound of the lease table.                                           *)

(* A finite set of numbers that is not empty has a least element: counting *)
(* the smaller ones is an injection into as many numbers, so it reaches 0. *)
LEMMA SomeLeast ==
  ASSUME NEW S \in SUBSET Nat, IsFiniteSet(S), S # {}
  PROVE  \E l \in S : {k \in S : k < l} = {}
<1> DEFINE below(l) == {k \in S : k < l}
           rank == [l \in S |-> Cardinality(below(l))]
           places == 0..(Cardinality(S) - 1)
<1>1. Cardinality(S) \in Nat /\ Cardinality(S) # 0
  BY FS_CardinalityType, FS_EmptySet
<1>2. ASSUME NEW l \in S
      PROVE  IsFiniteSet(below(l)) /\ Cardinality(below(l)) \in places
  <2>1. below(l) \in SUBSET S /\ l \notin below(l)
    OBVIOUS
  <2>2. /\ IsFiniteSet(below(l))
        /\ Cardinality(below(l)) <= Cardinality(S)
        /\ Cardinality(below(l)) # Cardinality(S)
    BY <2>1, FS_Subset
  <2>3. Cardinality(below(l)) \in Nat
    BY <2>2, FS_CardinalityType
  <2> QED BY <1>1, <2>2, <2>3
<1>3. ASSUME NEW l \in S, NEW k \in S, k < l
      PROVE  Cardinality(below(k)) < Cardinality(below(l))
  <2>1. below(k) \in SUBSET below(l) /\ k \in below(l) /\ k \notin below(k)
    <3>1. l \in Nat /\ k \in Nat /\ \A j \in S : j \in Nat
      OBVIOUS
    <3>2. \A j \in below(k) : j \in below(l)
      BY <1>3, <3>1
    <3>3. below(k) \in SUBSET below(l)
      BY <3>2
    <3>4. ~(k < k)
      BY <3>1
    <3> QED BY <1>3, <3>3, <3>4
  <2> HIDE DEF below
  <2>2. /\ Cardinality(below(k)) <= Cardinality(below(l))
        /\ Cardinality(below(k)) # Cardinality(below(l))
    BY <1>2, <2>1, FS_Subset
  <2>3. Cardinality(below(k)) \in Nat /\ Cardinality(below(l)) \in Nat
    BY <1>2, FS_CardinalityType
  <2> QED BY <2>2, <2>3
<1>4. rank \in Injection(S, places)
  <2>1. rank \in [S -> places]
    BY <1>2
  <2>2. ASSUME NEW l \in S, NEW k \in S, rank[l] = rank[k]
        PROVE  l = k
    <3>1. Cardinality(below(l)) = Cardinality(below(k))
      BY <2>2
    <3>2. Cardinality(below(l)) \in Nat
      BY <1>2, FS_CardinalityType
    <3>3. ~(k < l) /\ ~(l < k)
      BY <1>3, <3>1, <3>2
    <3> QED BY <3>3
  <2> HIDE DEF rank
  <2> QED BY <2>1, <2>2 DEF Injection, IsInjective
<1>5. IsFiniteSet(places) /\ Cardinality(places) = Cardinality(S)
  BY <1>1, FS_Interval
<1>6. rank \in Surjection(S, places)
  BY <1>4, <1>5, FS_Injection
<1>7. 0 \in places
  BY <1>1
<1>8. PICK l \in S : rank[l] = 0
  BY <1>6, <1>7 DEF Surjection
<1>9. Cardinality(below(l)) = 0
  BY <1>8
<1>10. below(l) = {}
  BY <1>2, <1>9, FS_EmptySet
<1> QED BY <1>10

(* A grant finds a free row, or pruning makes one.                         *)
LEMMA GrantFits ==
  ASSUME TypeOK, LeaseTableBounded, NEW s, NEW i, NEW at, NEW ttl, Room(at),
         leases' = Grant(s, i, at, ttl)
  PROVE  LeaseTableBounded'
<1> DEFINE rows == DOMAIN leases
           kept == rows \ Pruned(at)
<1>1. /\ IsFiniteSet(rows) /\ rows \in SUBSET Nat /\ nextLease \in Nat
      /\ nextLease \notin rows
  <2>1. nextLease \in 1..(MaxLeaseId + 1) /\ rows \subseteq 1..(nextLease - 1)
    BY DEF TypeOK
  <2>2. nextLease - 1 \in Nat
    BY <2>1, BoundAssumption
  <2>3. IsFiniteSet(1..(nextLease - 1))
    BY <2>2, FS_Interval
  <2> QED BY <2>1, <2>2, <2>3, BoundAssumption, FS_Subset
<1>2. Cardinality(rows) \in Nat /\ Cardinality(rows) <= MaxLeases /\ MaxLeases \in Nat
  BY <1>1, FS_CardinalityType, BoundAssumption DEF LeaseTableBounded
<1>3. DOMAIN leases' = kept \cup {nextLease}
  BY DEF Grant
<1>4. IsFiniteSet(kept)
  BY <1>1, FS_Subset
<1>5. Cardinality(kept) \in Nat
  BY <1>4, FS_CardinalityType
<1>6. Cardinality(kept) <= MaxLeases - 1
  <2>1. CASE Excess <= 0
    <3>1. kept = rows
      BY <2>1 DEF Pruned
    <3>2. Cardinality(rows) - MaxLeases + 1 <= 0
      BY <2>1 DEF Excess
    <3> QED BY <1>2, <3>1, <3>2
  <2>2. CASE ~(Excess <= 0)
    <3>1. Excess = 1 /\ Cardinality(rows) = MaxLeases
      BY <1>2, <2>2 DEF Excess
    <3>2. Cardinality(rows \ Prunable(at)) < MaxLeases
      BY <2>2 DEF Room
    <3>3. /\ Prunable(at) # {} /\ Prunable(at) \in SUBSET rows
          /\ IsFiniteSet(Prunable(at))
      <4>1. Prunable(at) \in SUBSET rows
        BY DEF Prunable
      <4>2. Prunable(at) # {}
        BY <1>2, <3>1, <3>2
      <4> QED BY <1>1, <4>1, <4>2, FS_Subset
    <3>4. PICK l \in Prunable(at) : {k \in Prunable(at) : k < l} = {}
      BY <1>1, <3>3, SomeLeast
    <3>5. l \in Pruned(at)
      <4>1. Cardinality({k \in Prunable(at) : k < l}) < Excess
        BY <3>1, <3>4, FS_EmptySet
      <4> QED BY <2>2, <4>1 DEF Pruned
    <3>6. kept \in SUBSET rows /\ l \in rows /\ l \notin kept
      BY <3>3, <3>5
    <3>7. Cardinality(kept) <= Cardinality(rows) /\ Cardinality(kept) # Cardinality(rows)
      BY <1>1, <3>6, FS_Subset
    <3> QED BY <1>2, <1>5, <3>1, <3>7
  <2> QED BY <2>1, <2>2
<1>7. Cardinality(kept \cup {nextLease}) <= Cardinality(kept) + 1
  BY <1>4, <1>5, FS_AddElement
<1>8. Cardinality(kept \cup {nextLease}) \in Nat
  BY <1>4, FS_AddElement, FS_CardinalityType
<1>9. Cardinality(kept \cup {nextLease}) <= MaxLeases
  BY <1>2, <1>5, <1>6, <1>7, <1>8
<1> QED BY <1>3, <1>9 DEF LeaseTableBounded

LEMMA TableStep == TypeOK /\ LeaseTableBounded /\ [Next]_vars => LeaseTableBounded'
<1> SUFFICES ASSUME TypeOK, LeaseTableBounded, [Next]_vars
             PROVE  LeaseTableBounded'
  OBVIOUS
<1>r. ASSUME NEW doomed, leases' = Revoke(doomed) \/ leases' = leases
      PROVE  LeaseTableBounded'
  <2>1. DOMAIN leases' = DOMAIN leases
    BY <1>r DEF Revoke
  <2> QED BY <2>1 DEF LeaseTableBounded
<1>1. ASSUME NEW d \in Device, NEW n \in 1..MaxIncarnation, RegisterDevice(d, n)
      PROVE  LeaseTableBounded'
  BY <1>1, <1>r DEF RegisterDevice
<1>2. ASSUME NEW d \in Device, EvidenceArrives(d) \/ EvidenceLapses(d)
      PROVE  LeaseTableBounded'
  BY <1>2, <1>r DEF EvidenceArrives, EvidenceLapses
<1>3. ASSUME NEW d \in Device, NEW port \in PortOrNil, NEW pkg \in Package,
             NEW at \in Times, NEW ttl \in Lifetimes, ActivateNew(d, port, pkg, at, ttl)
      PROVE  LeaseTableBounded'
  BY <1>3, GrantFits DEF ActivateNew
<1>4. ASSUME NEW i \in DOMAIN instances, NEW at \in Times, NEW ttl \in Lifetimes,
             Acquire(i, at, ttl)
      PROVE  LeaseTableBounded'
  <2>1. Room(at) /\ leases' = Grant(ScopeOf(i), i, at, ttl)
    BY <1>4 DEF Acquire
  <2> QED BY <2>1, GrantFits
<1>5. ASSUME NEW i \in DOMAIN instances, NEW at \in Times, NEW l \in DOMAIN leases,
             NEW port \in PortOrNil, NEW pkg \in Package, ActivateExisting(i, port, pkg, l, at)
      PROVE  LeaseTableBounded'
  BY <1>5, <1>r DEF ActivateExisting
<1>6. ASSUME NEW i \in DOMAIN instances, NEW at \in Times, NEW l \in DOMAIN leases,
             Rollback(i, l, at)
      PROVE  LeaseTableBounded'
  BY <1>6, <1>r DEF Rollback
<1>7. ASSUME NEW i \in DOMAIN instances, NEW at \in Times, NEW l \in DOMAIN leases,
             NEW want \in {"quiesced", "withdrawn"}, Drain(i, want, l, at)
      PROVE  LeaseTableBounded'
  BY <1>7, <1>r DEF Drain
<1>8. ASSUME NEW l \in DOMAIN leases, Release(l)
      PROVE  LeaseTableBounded'
  BY <1>8, <1>r DEF Release
<1>9. ASSUME NEW i \in DOMAIN instances, Acknowledge(i)
      PROVE  LeaseTableBounded'
  BY <1>9, <1>r DEF Acknowledge
<1>10. ASSUME NEW i \in DOMAIN instances, NEW outcome \in EffectOutcome,
              ReportEffect(i, outcome)
       PROVE  LeaseTableBounded'
  BY <1>10, <1>r DEF ReportEffect
<1>11. CASE Restart
  BY <1>11, <1>r DEF Restart
<1>12. CASE UNCHANGED vars
  BY <1>12, <1>r DEF vars
<1> QED BY <1>1, <1>2, <1>3, <1>4, <1>5, <1>6, <1>7, <1>8, <1>9, <1>10, <1>11, <1>12 DEF Next

(* The lease table never outgrows its bound: a grant that finds the table  *)
(* full drops a row that is no longer in force or is refused               *)
(* (fabric_ops.cpp:119), whatever the clock reads.                         *)
THEOREM LeaseTableStaysBounded == Spec => []LeaseTableBounded
<1>1. Init => LeaseTableBounded
  <2>1. ASSUME Init
        PROVE  LeaseTableBounded
    <3>1. DOMAIN leases = {}
      BY <2>1 DEF Init
    <3>2. Cardinality(DOMAIN leases) = 0
      BY <3>1, FS_EmptySet
    <3> QED BY <3>2, BoundAssumption DEF LeaseTableBounded
  <2> QED BY <2>1
<1> QED BY <1>1, TableStep, TypeCorrect, PTL DEF Spec

==============================================================================
