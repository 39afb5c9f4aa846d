-------------------------- MODULE IdempotencyProofs --------------------------
(***************************************************************************)
(* What the idempotency window guarantees for any number of principals and *)
(* commands.  The inductive invariant says that a command that was         *)
(* executed is remembered: it is in the table, fenced by the floor of its  *)
(* principal, or not above a floor its principal has lost to the bound.    *)
(***************************************************************************)
EXTENDS Idempotency, FiniteSetTheorems, WellFoundedInduction, TLAPS

(* A command that was executed is in the table, at or below the floor, or  *)
(* at or below a floor that was given up.                                  *)
Remembered ==
  \A e \in Entry :
    runs[e] > 0 => Replay(e) \/ BelowFloor(e) \/ e.command <= forgotten[e.principal]

IdempotencyInv == TypeOK /\ OnlyForgettingRepeats /\ Remembered

(* A set of principals has a first one.                                    *)
LEMMA FirstPrincipal ==
  ASSUME NEW S, S \subseteq Principal, S # {}
  PROVE  Min(S) \in S
<1>1. S \subseteq Nat
  BY PrincipalAssumption
<1>2. PICK x \in S : \A y \in S : ~(<<y, x>> \in OpToRel(<, Nat))
  BY <1>1, NatLessThanWellFounded, WFMin
<1>3. ASSUME NEW y \in S PROVE x <= y
  <2>1. x \in Nat /\ y \in Nat
    BY <1>1, <1>3
  <2>2. ~(y < x)
    BY <1>2, <1>3, <2>1 DEF OpToRel
  <2> QED BY <2>1, <2>2
<1> QED BY <1>3 DEF Min

(* Cutting a table of floors that may have one too many: it keeps its      *)
(* types and its bound, and at most one principal loses its floor.         *)
LEMMA BoundedTable ==
  ASSUME NEW table, table \in [DOMAIN table -> Command], DOMAIN table \subseteq Principal,
         IsFiniteSet(DOMAIN table), Cardinality(DOMAIN table) <= Window + 1
  PROVE  /\ DOMAIN Bounded(table) \subseteq DOMAIN table
         /\ Bounded(table) \in [DOMAIN Bounded(table) -> Command]
         /\ IsFiniteSet(DOMAIN Bounded(table)) /\ Cardinality(DOMAIN Bounded(table)) <= Window
         /\ \A p \in DOMAIN Bounded(table) : Bounded(table)[p] = table[p]
         /\ \/ Bounded(table) = table
            \/ /\ Cardinality(DOMAIN table) = Window + 1
               /\ \E p \in DOMAIN table : DOMAIN Bounded(table) = DOMAIN table \ {p}
<1>1. Window \in Nat \ {0} /\ Cardinality(DOMAIN table) \in Nat
  BY BoundAssumption, FS_CardinalityType
<1>2. CASE Cardinality(DOMAIN table) <= Window
  BY <1>2 DEF Bounded
<1>3. CASE ~(Cardinality(DOMAIN table) <= Window)
  <2> DEFINE first == Min(DOMAIN table)
             cut == [p \in DOMAIN table \ {first} |-> table[p]]
  <2>1. Cardinality(DOMAIN table) = Window + 1 /\ DOMAIN table # {}
    BY <1>1, <1>3, FS_EmptySet
  <2>2. first \in DOMAIN table
    BY <2>1, FirstPrincipal
  <2>3. Bounded(table) = cut
    BY <1>3 DEF Bounded
  <2> HIDE DEF first
  <2>4. /\ DOMAIN cut = DOMAIN table \ {first}
        /\ cut \in [DOMAIN table \ {first} -> Command]
        /\ \A p \in DOMAIN cut : cut[p] = table[p]
    OBVIOUS
  <2> HIDE DEF cut
  <2>5. /\ IsFiniteSet(DOMAIN table \ {first})
        /\ Cardinality(DOMAIN table \ {first}) = Window
    <3>1. /\ IsFiniteSet(DOMAIN table \ {first})
          /\ Cardinality(DOMAIN table \ {first}) = Cardinality(DOMAIN table) - 1
      BY <2>2, FS_RemoveElement
    <3> QED BY <1>1, <2>1, <3>1
  <2> QED BY <1>1, <2>1, <2>2, <2>3, <2>4, <2>5
<1> QED BY <1>2, <1>3

(* Pushing keeps the table a bounded sequence, holds the new entry, and    *)
(* lets go of the oldest entry alone, and only when the table is full.     *)
LEMMA PushedEntries ==
  ASSUME NEW e \in Entry, TypeOK
  PROVE  /\ Pushed(e) \in Seq(Entry)
         /\ Len(Pushed(e)) <= Window
         /\ \E k \in DOMAIN Pushed(e) : Pushed(e)[k] = e
         /\ \A f \in Entry :
              Replay(f) => \/ \E k \in DOMAIN Pushed(e) : Pushed(e)[k] = f
                           \/ ~(Len(dedupe) < Window) /\ f = dedupe[1]
<1> DEFINE longer == Append(dedupe, e)
<1>1. /\ dedupe \in Seq(Entry) /\ Len(dedupe) <= Window /\ Len(dedupe) \in Nat
      /\ Window \in Nat \ {0}
  BY BoundAssumption DEF TypeOK
<1>2. /\ longer \in Seq(Entry) /\ Len(longer) = Len(dedupe) + 1
      /\ longer[Len(longer)] = e
      /\ \A k \in 1..Len(dedupe) : longer[k] = dedupe[k]
      /\ DOMAIN longer = 1..Len(longer) /\ DOMAIN dedupe = 1..Len(dedupe)
  BY <1>1
<1>3. CASE Len(longer) > Window
  <2>1. /\ Pushed(e) = Tail(longer) /\ Len(dedupe) = Window
    BY <1>1, <1>2, <1>3 DEF Pushed
  <2>2. /\ Tail(longer) \in Seq(Entry) /\ Len(Tail(longer)) = Len(dedupe)
        /\ DOMAIN Tail(longer) = 1..Len(dedupe)
        /\ \A k \in 1..Len(dedupe) : Tail(longer)[k] = longer[k + 1]
    BY <1>1, <1>2
  <2>3. Tail(longer)[Len(dedupe)] = e /\ Len(dedupe) \in DOMAIN Tail(longer)
    BY <1>1, <1>2, <2>1, <2>2
  <2>4. ASSUME NEW f \in Entry, Replay(f), f # dedupe[1]
        PROVE  \E k \in DOMAIN Tail(longer) : Tail(longer)[k] = f
    <3>1. PICK k \in 1..Len(dedupe) : dedupe[k] = f
      BY <1>2, <2>4 DEF Replay
    <3>2. k - 1 \in 1..Len(dedupe) /\ k = (k - 1) + 1
      BY <1>1, <2>4, <3>1
    <3>3. Tail(longer)[k - 1] = f
      BY <1>2, <2>2, <3>1, <3>2
    <3> QED BY <2>2, <3>2, <3>3
  <2> HIDE DEF longer
  <2> QED BY <1>1, <2>1, <2>2, <2>3, <2>4
<1>4. CASE ~(Len(longer) > Window)
  <2>1. Pushed(e) = longer
    BY <1>4 DEF Pushed
  <2>2. ASSUME NEW f \in Entry, Replay(f)
        PROVE  \E k \in DOMAIN longer : longer[k] = f
    BY <1>1, <1>2, <2>2 DEF Replay
  <2> QED BY <1>1, <1>2, <1>4, <2>1, <2>2
<1> QED BY <1>3, <1>4

(* Raising a floor keeps the table typed, lowers nobody's floor, and       *)
(* fences the evicted entry.                                               *)
LEMMA RaisedFloors ==
  ASSUME TypeOK, NEW e \in Entry
  PROVE  /\ DOMAIN Raised(e) = DOMAIN floor \cup {e.principal}
         /\ Raised(e) \in [DOMAIN Raised(e) -> Command]
         /\ e.command <= Raised(e)[e.principal]
         /\ \A p \in DOMAIN floor : Raised(e)[p] >= floor[p]
<1>1. e.principal \in Principal /\ e.command \in Command /\ Command \subseteq Nat
  BY DEF Entry, Command
<1>2. \A p \in DOMAIN floor : floor[p] \in Command
  BY DEF TypeOK
<1>3. ASSUME NEW p \in DOMAIN Raised(e) PROVE Raised(e)[p] \in Command
  BY <1>1, <1>2 DEF Raised, BelowFloor
<1>4. DOMAIN Raised(e) = DOMAIN floor \cup {e.principal}
  BY DEF Raised
<1>5. Raised(e) \in [DOMAIN Raised(e) -> Command]
  BY <1>3 DEF Raised
<1>6. e.command \in Nat /\ \A p \in DOMAIN floor : floor[p] \in Nat
  BY <1>1, <1>2
<1>7. /\ BelowFloor(e) => Raised(e)[e.principal] = floor[e.principal]
      /\ ~BelowFloor(e) => Raised(e)[e.principal] = e.command
      /\ \A p \in DOMAIN floor : p # e.principal => Raised(e)[p] = floor[p]
  BY DEF Raised
<1>8. e.command <= Raised(e)[e.principal]
  <2>1. CASE BelowFloor(e)
    BY <1>7, <2>1 DEF BelowFloor
  <2>2. CASE ~BelowFloor(e)
    BY <1>6, <1>7, <2>2
  <2> QED BY <2>1, <2>2
<1>9. ASSUME NEW p \in DOMAIN floor PROVE Raised(e)[p] >= floor[p]
  <2>1. CASE p # e.principal \/ BelowFloor(e)
    BY <1>6, <1>7, <2>1
  <2>2. CASE p = e.principal /\ ~BelowFloor(e)
    BY <1>6, <1>7, <2>2 DEF BelowFloor
  <2> QED BY <2>1, <2>2
<1> QED BY <1>4, <1>5, <1>8, <1>9

(* The larger of two numbers.                                              *)
LEMMA MaxOfTwo ==
  ASSUME NEW a \in Nat, NEW b \in Nat
  PROVE  Max({a, b}) \in Nat /\ Max({a, b}) >= a /\ Max({a, b}) >= b
<1>1. \E x \in {a, b} : \A y \in {a, b} : x >= y
  OBVIOUS
<1>2. Max({a, b}) \in {a, b} /\ \A y \in {a, b} : Max({a, b}) >= y
  BY <1>1 DEF Max
<1> QED BY <1>2

(* The effect of an execution on the floors: typed and bounded; a floor is *)
(* kept and not lowered, or given up for another and what it fenced is     *)
(* noted as forgotten; and the entry evicted is fenced or noted.           *)
LEMMA FloorStep ==
  ASSUME TypeOK, NEW e \in Entry, Execute(e)
  PROVE  /\ DOMAIN floor' \subseteq Principal
         /\ floor' \in [DOMAIN floor' -> Command]
         /\ IsFiniteSet(DOMAIN floor') /\ Cardinality(DOMAIN floor') <= Window
         /\ forgotten' \in [Principal -> Nat]
         /\ \A p \in Principal : forgotten'[p] >= forgotten[p]
         /\ \A p \in DOMAIN floor :
              \/ p \in DOMAIN floor' /\ floor'[p] >= floor[p]
              \/ /\ p \notin DOMAIN floor' /\ forgotten'[p] >= floor[p]
                 /\ Cardinality(DOMAIN floor) = Window
                 /\ \E q \in Principal \ DOMAIN floor : DOMAIN floor' = (DOMAIN floor \ {p}) \cup {q}
         /\ ~(Len(dedupe) < Window) =>
              \/ /\ dedupe[1].principal \in DOMAIN floor'
                 /\ dedupe[1].command <= floor'[dedupe[1].principal]
              \/ dedupe[1].command <= forgotten'[dedupe[1].principal]
<1>1. /\ \A p \in DOMAIN floor : floor[p] \in Nat
      /\ \A p \in Principal : forgotten[p] \in Nat
      /\ Command \subseteq Nat
      /\ Len(dedupe) \in Nat /\ Window \in Nat \ {0} /\ Len(dedupe) <= Window
  BY BoundAssumption DEF TypeOK, Command
<1>2. CASE Len(dedupe) < Window
  <2>1. floor' = floor
    BY <1>2 DEF Execute, FloorsAfter
  <2>2. forgotten' = [p \in Principal |-> forgotten[p]]
    BY <1>1, <1>2 DEF Execute
  <2>3. forgotten' = forgotten
    BY <2>2 DEF TypeOK
  <2> QED BY <1>1, <1>2, <2>1, <2>3 DEF TypeOK
<1>3. CASE ~(Len(dedupe) < Window)
  <2> DEFINE out == dedupe[1]
             raised == Raised(out)
  <2>1. out \in Entry
    <3>1. dedupe \in Seq(Entry)
      BY DEF TypeOK
    <3> QED BY <1>1, <1>3, <3>1
  <2>2. out.principal \in Principal /\ out.command \in Nat
    BY <1>1, <2>1 DEF Entry
  <2>3. /\ DOMAIN raised = DOMAIN floor \cup {out.principal}
        /\ raised \in [DOMAIN raised -> Command]
        /\ out.command <= raised[out.principal]
        /\ \A p \in DOMAIN floor : raised[p] >= floor[p]
    BY <2>1, RaisedFloors
  <2>4. /\ IsFiniteSet(DOMAIN floor) /\ Cardinality(DOMAIN floor) <= Window
        /\ Cardinality(DOMAIN floor) \in Nat
        /\ DOMAIN floor \subseteq Principal
    BY FS_CardinalityType DEF TypeOK
  <2>5. /\ DOMAIN raised \subseteq Principal /\ IsFiniteSet(DOMAIN raised)
        /\ Cardinality(DOMAIN raised) =
             IF out.principal \in DOMAIN floor THEN Cardinality(DOMAIN floor)
             ELSE Cardinality(DOMAIN floor) + 1
    BY <2>2, <2>3, <2>4, FS_AddElement
  <2>6. Cardinality(DOMAIN raised) <= Window + 1
    BY <1>1, <2>4, <2>5
  <2>7. floor' = Bounded(raised)
    BY <1>3 DEF Execute, FloorsAfter
  <2>8. FloorsAfter = Bounded(raised)
    BY <1>3 DEF FloorsAfter
  <2> HIDE DEF raised, out
  <2>9. /\ DOMAIN floor' \subseteq DOMAIN raised
        /\ floor' \in [DOMAIN floor' -> Command]
        /\ IsFiniteSet(DOMAIN floor') /\ Cardinality(DOMAIN floor') <= Window
        /\ \A p \in DOMAIN floor' : floor'[p] = raised[p]
        /\ \/ floor' = raised
           \/ /\ Cardinality(DOMAIN raised) = Window + 1
              /\ \E p \in DOMAIN raised : DOMAIN floor' = DOMAIN raised \ {p}
    BY <2>3, <2>5, <2>6, <2>7, BoundedTable
  <2>10. forgotten' = [p \in Principal |->
           IF p \in DOMAIN raised \ DOMAIN floor' THEN Max({forgotten[p], raised[p]})
           ELSE forgotten[p]]
    <3>1. Len(dedupe) = Window
      BY <1>1, <1>3
    <3> QED BY <2>7, <2>8, <3>1 DEF Execute, raised, out
  <2>11. \A p \in DOMAIN raised : raised[p] \in Nat
    BY <1>1, <2>3
  <2>12. ASSUME NEW p \in Principal
         PROVE  /\ forgotten'[p] \in Nat /\ forgotten'[p] >= forgotten[p]
                /\ p \in DOMAIN raised \ DOMAIN floor' => forgotten'[p] >= raised[p]
    <3>1. CASE p \in DOMAIN raised \ DOMAIN floor'
      <4>1. forgotten'[p] = Max({forgotten[p], raised[p]})
        BY <2>10, <3>1
      <4> QED BY <1>1, <2>11, <3>1, <4>1, MaxOfTwo
    <3>2. CASE ~(p \in DOMAIN raised \ DOMAIN floor')
      BY <1>1, <2>10, <3>2
    <3> QED BY <3>1, <3>2
  <2>13. forgotten' \in [Principal -> Nat]
    <3>1. DOMAIN forgotten' = Principal /\ forgotten' = [p \in Principal |-> forgotten'[p]]
      BY <2>10
    <3> QED BY <2>12, <3>1
  <2>14. ASSUME NEW p \in DOMAIN floor
         PROVE  \/ p \in DOMAIN floor' /\ floor'[p] >= floor[p]
                \/ /\ p \notin DOMAIN floor' /\ forgotten'[p] >= floor[p]
                   /\ Cardinality(DOMAIN floor) = Window
                   /\ \E q \in Principal \ DOMAIN floor :
                        DOMAIN floor' = (DOMAIN floor \ {p}) \cup {q}
    <3>1. p \in DOMAIN raised /\ raised[p] >= floor[p] /\ p \in Principal
      BY <2>3, <2>4
    <3>2. CASE p \in DOMAIN floor'
      BY <2>9, <3>1, <3>2
    <3>3. CASE p \notin DOMAIN floor'
      <4>1. forgotten'[p] >= raised[p] /\ forgotten'[p] \in Nat /\ raised[p] \in Nat /\ floor[p] \in Nat
        BY <1>1, <2>11, <2>12, <3>1, <3>3
      <4>2. /\ Cardinality(DOMAIN raised) = Window + 1
            /\ DOMAIN floor' = DOMAIN raised \ {p}
        BY <2>9, <3>1, <3>3
      <4>3. out.principal \notin DOMAIN floor /\ Cardinality(DOMAIN floor) = Window
        BY <1>1, <2>4, <2>5, <4>2
      <4>4. DOMAIN floor' = (DOMAIN floor \ {p}) \cup {out.principal}
        BY <2>3, <4>2, <4>3
      <4> QED BY <2>2, <3>1, <3>3, <4>1, <4>3, <4>4
    <3> QED BY <3>2, <3>3
  <2>15. \/ out.principal \in DOMAIN floor' /\ out.command <= floor'[out.principal]
         \/ out.command <= forgotten'[out.principal]
    <3>1. out.principal \in DOMAIN raised
      BY <2>3
    <3>2. CASE out.principal \in DOMAIN floor'
      BY <2>3, <2>9, <3>2
    <3>3. CASE out.principal \notin DOMAIN floor'
      <4>1. /\ forgotten'[out.principal] >= raised[out.principal]
            /\ forgotten'[out.principal] \in Nat /\ raised[out.principal] \in Nat
        BY <2>2, <2>11, <2>12, <3>1, <3>3
      <4> QED BY <2>2, <2>3, <4>1
    <3> QED BY <3>2, <3>3
  <2>16. DOMAIN floor' \subseteq Principal
    BY <2>5, <2>9
  <2> QED BY <2>9, <2>12, <2>13, <2>14, <2>15, <2>16 DEF out
<1> QED BY <1>2, <1>3

(* Both tables keep their types and their bounds in every step.            *)
LEMMA TypeStep ==
  ASSUME TypeOK, [Next]_vars
  PROVE  TypeOK'
<1>1. CASE UNCHANGED vars
  BY <1>1 DEF TypeOK, vars
<1>2. ASSUME NEW e \in Entry, Execute(e) PROVE TypeOK'
  <2>1. dedupe' = Pushed(e) /\ runs' = [runs EXCEPT ![e] = @ + 1] /\ runs[e] < MaxRuns
    BY <1>2 DEF Execute
  <2>2. runs' \in [Entry -> 0..MaxRuns]
    BY <2>1, BoundAssumption DEF TypeOK
  <2> QED BY <1>2, <2>1, <2>2, FloorStep, PushedEntries DEF TypeOK
<1> QED BY <1>1, <1>2 DEF Next

(* An execution of a command that looks new leaves every command that was  *)
(* executed remembered.                                                    *)
LEMMA IdempotencyStep ==
  ASSUME IdempotencyInv, [Next]_vars
  PROVE  IdempotencyInv'
<1>1. CASE UNCHANGED vars
  BY <1>1 DEF IdempotencyInv, vars, TypeOK, OnlyForgettingRepeats, Remembered, Replay, BelowFloor
<1>2. ASSUME NEW e \in Entry, Execute(e) PROVE IdempotencyInv'
  <2>1. /\ TypeOK /\ OnlyForgettingRepeats /\ Remembered
        /\ runs \in [Entry -> 0..MaxRuns] /\ MaxRuns \in Nat
    BY BoundAssumption DEF IdempotencyInv, TypeOK
  <2>2. TypeOK'
    BY <1>2, <2>1, TypeStep DEF Next
  <2>3. dedupe' = Pushed(e) /\ runs' = [runs EXCEPT ![e] = @ + 1]
    BY <1>2 DEF Execute
  <2>4. runs'[e] = runs[e] + 1 /\ \A f \in Entry : f # e => runs'[f] = runs[f]
    BY <2>1, <2>3
  <2>5. runs[e] \in Nat /\ (runs[e] = 0 \/ e.command <= forgotten[e.principal])
    BY <1>2, <2>1 DEF Execute, Remembered
  <2>6. ASSUME NEW f \in Entry, f.command <= forgotten[f.principal]
        PROVE  f.command <= forgotten'[f.principal]
    <3>1. f.principal \in Principal /\ f.command \in Nat
      BY DEF Entry, Command
    <3>2. /\ forgotten'[f.principal] >= forgotten[f.principal]
          /\ forgotten[f.principal] \in Nat /\ forgotten'[f.principal] \in Nat
      BY <1>2, <2>1, <2>2, <3>1, FloorStep DEF TypeOK
    <3> QED BY <2>6, <3>1, <3>2
  <2>7. OnlyForgettingRepeats'
    <3>1. ASSUME NEW f \in Entry, runs'[f] > 1 PROVE f.command <= forgotten[f.principal]
      <4>1. CASE f = e
        BY <2>4, <2>5, <3>1, <4>1
      <4>2. CASE f # e
        BY <2>1, <2>4, <3>1, <4>2 DEF OnlyForgettingRepeats
      <4> QED BY <4>1, <4>2
    <3> QED BY <2>6, <3>1 DEF OnlyForgettingRepeats
  <2>8. ASSUME NEW f \in Entry, runs'[f] > 0
        PROVE  Replay(f)' \/ BelowFloor(f)' \/ f.command <= forgotten'[f.principal]
    <3>1. CASE f = e
      BY <2>1, <2>3, <3>1, PushedEntries DEF Replay
    <3>2. CASE f # e /\ Replay(f)
      <4>1. CASE \E k \in DOMAIN Pushed(e) : Pushed(e)[k] = f
        BY <2>3, <4>1 DEF Replay
      <4>2. CASE ~(Len(dedupe) < Window) /\ f = dedupe[1]
        BY <1>2, <2>1, <4>2, FloorStep DEF BelowFloor
      <4> QED BY <2>1, <3>2, <4>1, <4>2, PushedEntries
    <3>3. CASE BelowFloor(f)
      <4>1. f.principal \in DOMAIN floor /\ f.command <= floor[f.principal]
        BY <3>3 DEF BelowFloor
      <4>2. \/ f.principal \in DOMAIN floor' /\ floor'[f.principal] >= floor[f.principal]
            \/ forgotten'[f.principal] >= floor[f.principal]
        BY <1>2, <2>1, <4>1, FloorStep
      <4>3. /\ f.command \in Nat /\ floor[f.principal] \in Nat
            /\ forgotten'[f.principal] \in Nat
            /\ f.principal \in DOMAIN floor' => floor'[f.principal] \in Nat
        BY <2>1, <2>2, <4>1 DEF TypeOK, Entry, Command
      <4> QED BY <4>1, <4>2, <4>3 DEF BelowFloor
    <3>4. CASE f.command <= forgotten[f.principal]
      BY <2>6, <3>4
    <3>5. f # e => runs[f] > 0
      BY <2>4, <2>8
    <3> QED BY <2>1, <3>1, <3>2, <3>3, <3>4, <3>5 DEF Remembered
  <2> QED BY <2>2, <2>7, <2>8 DEF IdempotencyInv, Remembered
<1> QED BY <1>1, <1>2 DEF Next

LEMMA IdempotencyInit == Init => IdempotencyInv
<1>1. ASSUME Init PROVE TypeOK
  <2>1. DOMAIN floor = {} /\ IsFiniteSet({}) /\ Cardinality({}) = 0
    BY <1>1, FS_EmptySet DEF Init
  <2> QED BY <1>1, <2>1, BoundAssumption DEF Init, TypeOK
<1>2. ASSUME Init PROVE OnlyForgettingRepeats /\ Remembered
  BY <1>2 DEF Init, OnlyForgettingRepeats, Remembered
<1> QED BY <1>1, <1>2 DEF IdempotencyInv

(* The command table and the table of floors keep to their types and their *)
(* bounds, however many principals and commands there are, so that what is *)
(* written to a snapshot can be read back.                                 *)
THEOREM TablesBounded == Spec => []TypeOK
<1>1. Init => TypeOK
  BY IdempotencyInit DEF IdempotencyInv
<1>2. TypeOK /\ [Next]_vars => TypeOK'
  BY TypeStep
<1> QED BY <1>1, <1>2, PTL DEF Spec

(* A command takes effect twice only if a floor at or above it was given   *)
(* up, for any window, any number of principals and commands and any order *)
(* of delivery.                                                            *)
THEOREM AtMostOnce == Spec => []OnlyForgettingRepeats
<1>1. IdempotencyInv /\ [Next]_vars => IdempotencyInv'
  BY IdempotencyStep
<1>2. IdempotencyInv => OnlyForgettingRepeats
  BY DEF IdempotencyInv
<1> QED BY IdempotencyInit, <1>1, <1>2, PTL DEF Spec

(* A floor that is kept never falls, and one is given up only by a full    *)
(* table to the floor of another principal.                                *)
THEOREM FloorsHold == Spec => FloorsGiveWay
<1> DEFINE GivesWay ==
      \A p \in DOMAIN floor :
        \/ p \in DOMAIN floor' /\ floor'[p] >= floor[p]
        \/ /\ p \notin DOMAIN floor'
           /\ Cardinality(DOMAIN floor) = Window
           /\ \E q \in Principal \ DOMAIN floor : DOMAIN floor' = (DOMAIN floor \ {p}) \cup {q}
<1>1. TypeOK /\ [Next]_vars => [GivesWay]_vars
  BY FloorStep DEF Next
<1> QED BY <1>1, TablesBounded, PTL DEF Spec, FloorsGiveWay

==============================================================================
