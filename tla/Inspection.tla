----------------------------- MODULE Inspection -----------------------------
(***************************************************************************)
(* A read-only open of a store beside the coordinator that serves it:      *)
(* `sncf verify', `inspect', `export' and `explain' run Journal::open in a *)
(* process of their own, and nothing keeps two processes apart.  The open  *)
(* classifies the journal it has read and then truncates a tail it found   *)
(* torn, whatever has been written since.                                  *)
(*                                                                         *)
(* The behaviours end with the inspection: the handle of a coordinator     *)
(* that goes on keeps its offset, and what it writes next lies past a hole.*)
(***************************************************************************)
EXTENDS Journal

VARIABLE keep   \* how many frames the inspection read as whole, or where it is

NotStarted == MaxRecord + 1
Finished == MaxRecord + 2

inspectedVars == <<vars, keep>>

(* Journal::open reads the file while the last frame is being written.     *)
InspectorReads ==
  /\ keep = NotStarted
  /\ journal.header = "whole"
  /\ Continuous /\ TailOnly /\ Consecutive
  /\ Bad # {}
  /\ keep' = Len(Cut)
  /\ UNCHANGED vars

Zeros == [kind |-> "damaged", seq |-> 0, id |-> 1]

(* resize_file: the journal, by now perhaps longer or another file, gets   *)
(* the length that was read as whole; a shorter file is filled with zeros. *)
InspectorTruncates ==
  /\ keep < NotStarted
  /\ journal' = [journal EXCEPT
       !.frames = [k \in 1..keep |-> IF k <= Len(@) THEN @[k] ELSE Zeros],
       !.synced = IF @ > keep THEN keep ELSE @]
  /\ keep' = Finished
  /\ UNCHANGED <<snapshot, pc, serving, memory, handle, count, minted, acked, refused, verdict, unnoticed>>

InspectedInit == Init /\ keep = NotStarted

InspectedNext ==
  \/ keep # Finished /\ Next /\ UNCHANGED keep
  \/ InspectorReads
  \/ InspectorTruncates

InspectedSpec == InspectedInit /\ [][InspectedNext]_inspectedVars

------------------------------------------------------------------------------
(* README.md:98 "Inspection never mutates", fabric.cpp:753 "change nothing *)
(* durable": with an inspection at any moment every acknowledged record is *)
(* still durable.                                                          *)
AcknowledgedStaysDurable == acked \subseteq ToSet(Durable)

=============================================================================
