------------------------------ MODULE Lifecycle ------------------------------
(***************************************************************************)
(* The declared state machines of src/src/lifecycle.cpp: which lifecycle   *)
(* state may follow which, which attempt phase may follow which, and the   *)
(* classifications the decisions consult.  Constant operators only.        *)
(***************************************************************************)

(* The twelve lifecycle states a function instance can be classified as.   *)
LifecycleState ==
  {"unknown", "desired", "eligible", "authorized", "acknowledged", "applied",
   "verified", "quiesced", "failed", "unsupported", "stale", "withdrawn"}

(* The twelve phases of one activation attempt.                            *)
AttemptPhase ==
  {"unknown", "staged", "authorized", "dispatched", "acknowledged", "applied",
   "verified", "failed", "aborted", "ambiguous", "quiesced", "withdrawn"}

DesiredState == {"none", "deployed", "active", "quiesced", "withdrawn"}

AuthorityState == {"none", "granted", "revoked", "expired", "superseded"}

(* What an execution runtime may report of an attempt.  "unknown" is       *)
(* refused before anything else is looked at, so it is not an outcome here.*)
EffectOutcome ==
  {"applied", "verified", "failed", "refused_by_executor", "quiesced", "removed"}

(* make_transitions: the successors of each lifecycle state, itself aside. *)
LifecycleSuccessors ==
  LET ends == {"failed", "stale", "withdrawn"}
  IN [unknown      |-> {"desired"},
      desired      |-> ends \cup {"eligible", "unsupported", "quiesced"},
      eligible     |-> ends \cup {"authorized", "unsupported"},
      authorized   |-> ends \cup {"acknowledged", "applied", "verified", "quiesced"},
      acknowledged |-> ends \cup {"applied", "verified", "quiesced"},
      applied      |-> ends \cup {"verified", "quiesced"},
      verified     |-> ends \cup {"applied", "quiesced"},
      quiesced     |-> {"withdrawn", "desired", "stale"},
      failed       |-> {"desired", "withdrawn"},
      unsupported  |-> {"desired", "withdrawn"},
      stale        |-> {"desired", "withdrawn"},
      withdrawn    |-> {"desired"}]

(* make_attempt_transitions: the successors of each attempt phase.         *)
AttemptSuccessors ==
  LET settled == {"applied", "verified", "failed", "quiesced", "withdrawn"}
  IN [unknown      |-> {"staged", "aborted"},
      staged       |-> {"authorized", "aborted", "ambiguous", "failed"},
      authorized   |-> {"dispatched", "ambiguous", "aborted", "failed"},
      dispatched   |-> settled \cup {"acknowledged", "ambiguous"},
      acknowledged |-> settled \cup {"ambiguous"},
      applied      |-> (settled \ {"applied"}) \cup {"ambiguous"},
      verified     |-> {},
      failed       |-> {},
      aborted      |-> {},
      ambiguous    |-> settled \cup {"aborted"},
      quiesced     |-> {},
      withdrawn    |-> {}]

(* Re-observing the state one is in is always legal.                       *)
LegalLifecycle(from, to) == to = from \/ to \in LifecycleSuccessors[from]

LegalAttempt(from, to) == to = from \/ to \in AttemptSuccessors[from]

(* is_terminal_attempt_phase.                                              *)
TerminalPhase == {"failed", "aborted", "quiesced", "withdrawn", "verified"}

(* Mutant of PermitsMutation: only a withdrawn instance is out of use.     *)
PermitsUnlessWithdrawn(state) == state # "withdrawn"

(* permits_mutation: the states under which new authority may be used.     *)
PermitsMutation(state) ==
  state \in {"unknown", "desired", "eligible", "authorized", "acknowledged",
             "applied", "verified"}

(* is_effect_claim: the states that claim something happened on the card.  *)
IsEffectClaim(state) == state \in {"applied", "verified"}

(* The phases that wait for a report of the enforcement side; the decision *)
(* of activate and the recovery pass list the same four.                   *)
InFlightPhase == {"staged", "authorized", "dispatched", "acknowledged"}

==============================================================================
