----------------------------- MODULE FencedScope -----------------------------
(***************************************************************************)
(* What the authority core promises of exclusive scopes, and nothing else: *)
(* each scope is a lock whose holder is known by a fencing token, and a    *)
(* token is worth something only until a higher one is minted.             *)
(***************************************************************************)
EXTENDS Naturals

CONSTANT Scope

VARIABLES
  high,    \* the highest token minted for each scope
  holder   \* the token of the lease in force on each scope; 0 when there is none

vars == <<high, holder>>

Init ==
  /\ high = [s \in Scope |-> 0]
  /\ holder = [s \in Scope |-> 0]

(* A lease is granted: its token is above every earlier one, and whoever   *)
(* held the scope holds it no longer.                                      *)
Grant(s) == high'[s] > high[s] /\ holder'[s] = high'[s]

(* The lease in force is given up or taken away, and the mark may rise so  *)
(* that no token minted before can be presented again.                     *)
Withdraw(s) == high'[s] >= high[s] /\ holder'[s] = 0

Keep(s) == high'[s] = high[s] /\ holder'[s] = holder[s]

(* One step of the coordinator may touch several scopes (a restart, a      *)
(* device registration).                                                   *)
Next ==
  /\ high' \in [Scope -> Nat]
  /\ holder' \in [Scope -> Nat]
  /\ \A s \in Scope : Grant(s) \/ Withdraw(s) \/ Keep(s)

Spec == Init /\ [][Next]_vars

==============================================================================
