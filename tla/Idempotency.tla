----------------------------- MODULE Idempotency -----------------------------
(***************************************************************************)
(* The idempotency window of the coordinator (src/src/fabric.cpp): the     *)
(* table of the last commands executed, and for each principal a floor     *)
(* below which a command can no longer be told from a redelivered one.     *)
(*                                                                         *)
(* A transport delivers commands in any order and any number of times; a   *)
(* caller chooses their identities.  A delivery that finds its command in  *)
(* the table is answered with the recorded outcome, one at or below the    *)
(* floor of its principal is refused, and one the decision refuses leaves  *)
(* no record: none of these changes the tables, so the only step is the    *)
(* execution of a command that looks new.  Both tables are rebuilt from    *)
(* the journal by the code that filled them and are part of the snapshot,  *)
(* so a restart leaves them as they are.                                   *)
(*                                                                         *)
(* The table of floors is bounded like the other one, and a principal      *)
(* whose floor does not fit is forgotten.  The history variable `forgotten'*)
(* remembers, for the properties alone, how high the floor was.            *)
(***************************************************************************)
EXTENDS Naturals, Sequences, FiniteSetsExt

CONSTANTS
  Principal,   \* the principals, ordered as their identities are
  MaxCommand,  \* command identities are 1..MaxCommand
  Window,      \* FabricConfig::max_dedupe_entries
  MaxRuns      \* executions of one command the model follows

ASSUME PrincipalAssumption == Principal \subseteq Nat
ASSUME BoundAssumption == MaxCommand \in Nat /\ Window \in Nat \ {0} /\ MaxRuns \in Nat

VARIABLES
  dedupe,   \* FabricState::dedupe, oldest entry first
  floor,    \* FabricState::dedupe_floor, a function on the principals that have one
  runs,     \* how often each command was executed
  forgotten \* the highest floor given up of each principal; 0 for none

vars == <<dedupe, floor, runs, forgotten>>

Command == 1..MaxCommand

Entry == [principal: Principal, command: Command]

(* The tables stay within the bound their decoder enforces.                *)
TypeOK ==
  /\ dedupe \in Seq(Entry) /\ Len(dedupe) <= Window
  /\ DOMAIN floor \subseteq Principal
  /\ floor \in [DOMAIN floor -> Command]
  /\ IsFiniteSet(DOMAIN floor) /\ Cardinality(DOMAIN floor) <= Window
  /\ forgotten \in [Principal -> Nat]
  /\ runs \in [Entry -> 0..MaxRuns]

(* dedupe_state: the entry is in the table ...                             *)
Replay(e) == \E k \in DOMAIN dedupe : dedupe[k] = e

(* ... or at or below the floor of its principal.                          *)
BelowFloor(e) == e.principal \in DOMAIN floor /\ e.command <= floor[e.principal]

(* Mutant of Raised: the floor follows the last command evicted.           *)
RaisedToLast(e) ==
  [p \in DOMAIN floor \cup {e.principal} |->
     IF p = e.principal THEN e.command ELSE floor[p]]

(* raise_dedupe_floor, the entry: a floor never falls.                     *)
Raised(e) ==
  [p \in DOMAIN floor \cup {e.principal} |->
     IF p = e.principal /\ ~BelowFloor(e) THEN e.command ELSE floor[p]]

(* Mutant of Bounded: a full table, not only an overfull one, gives way.   *)
BoundedTooEarly(table) ==
  IF Cardinality(DOMAIN table) < Window THEN table
  ELSE [p \in DOMAIN table \ {Min(DOMAIN table)} |-> table[p]]

(* raise_dedupe_floor, the bound: the floor of the first principal goes.   *)
Bounded(table) ==
  IF Cardinality(DOMAIN table) <= Window THEN table
  ELSE [p \in DOMAIN table \ {Min(DOMAIN table)} |-> table[p]]

(* Mutant of Pushed: the table keeps an entry more than its bound.         *)
PushedPastBound(e) ==
  LET longer == Append(dedupe, e)
  IN IF Len(longer) > Window + 1 THEN Tail(longer) ELSE longer

(* push_dedupe: the new entry goes to the back, the oldest is evicted.     *)
Pushed(e) ==
  LET longer == Append(dedupe, e)
  IN IF Len(longer) > Window THEN Tail(longer) ELSE longer

(* The floors as an eviction leaves them.                                  *)
FloorsAfter == IF Len(dedupe) < Window THEN floor ELSE Bounded(Raised(dedupe[1]))

(* A delivered command that looks new is executed and recorded; the entry  *)
(* evicted for it raises the floor of its principal, and the floor that    *)
(* does not fit is given up, be it the one just raised.                    *)
Execute(e) ==
  /\ ~Replay(e)
  /\ ~BelowFloor(e)
  /\ runs[e] < MaxRuns
  /\ runs' = [runs EXCEPT ![e] = @ + 1]
  /\ dedupe' = Pushed(e)
  /\ floor' = FloorsAfter
  /\ forgotten' = [p \in Principal |->
       IF Len(dedupe) = Window /\ p \in DOMAIN Raised(dedupe[1]) \ DOMAIN FloorsAfter
         THEN Max({forgotten[p], Raised(dedupe[1])[p]}) ELSE forgotten[p]]

Init ==
  /\ dedupe = <<>>
  /\ floor = <<>>
  /\ runs = [e \in Entry |-> 0]
  /\ forgotten = [p \in Principal |-> 0]

Next == \E e \in Entry : Execute(e)

Spec == Init /\ [][Next]_vars

------------------------------------------------------------------------------
(* README.md:86: whatever is delivered, in whatever order and however      *)
(* often, no command takes effect twice: "a retry can degrade to a refusal *)
(* but never to a second deployment".                                      *)
ExecutedOnce == \A e \in Entry : runs[e] <= 1

(* What the code keeps of that promise: a command takes effect twice only  *)
(* if a floor that stood at or above it was given up.  One above every     *)
(* floor its principal ever lost is executed once for ever, also when the  *)
(* principal is forgotten and comes back.                                  *)
OnlyForgettingRepeats ==
  \A e \in Entry : runs[e] > 1 => e.command <= forgotten[e.principal]

(* A floor that is kept never falls; and a floor is given up only when the *)
(* table is full and the floor of another principal needs its place.       *)
FloorsGiveWay ==
  [][\A p \in DOMAIN floor :
       \/ p \in DOMAIN floor' /\ floor'[p] >= floor[p]
       \/ /\ p \notin DOMAIN floor'
          /\ Cardinality(DOMAIN floor) = Window
          /\ \E q \in Principal \ DOMAIN floor : DOMAIN floor' = (DOMAIN floor \ {p}) \cup {q}]_vars

==============================================================================
