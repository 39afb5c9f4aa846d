----------------------------- MODULE DurableLog ------------------------------
(***************************************************************************)
(* What the store promises of the decisions written to it: they form a log *)
(* that only grows at its end, what was acknowledged is in it, and what    *)
(* was refused never is.                                                   *)
(***************************************************************************)
EXTENDS Sequences, SequencesExt

CONSTANT Record

VARIABLES
  log,     \* the records a machine failure at this moment would leave
  acked,   \* the records whose commit was reported as accepted
  refused  \* the records whose commit was refused and undone

vars == <<log, acked, refused>>

Init == log = <<>> /\ acked = {} /\ refused = {}

Next ==
  /\ log' \in Seq(Record) /\ IsPrefix(log, log') /\ IsInjective(log')
  /\ acked \subseteq acked' /\ acked' \subseteq ToSet(log')
  /\ refused \subseteq refused' /\ refused' \cap ToSet(log') = {}

Spec == Init /\ [][Next]_vars

==============================================================================
