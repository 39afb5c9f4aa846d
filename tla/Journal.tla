------------------------------- MODULE Journal -------------------------------
(***************************************************************************)
(* The durable store of src/src/persistence.cpp and the parts of           *)
(* src/src/fabric.cpp that drive it: opening a store and replaying it, the *)
(* conservative recovery records every open appends, committing a record,  *)
(* undoing a failed append, and compaction, with a process that may stop   *)
(* between any two steps and a machine that may lose what was not synced.  *)
(*                                                                         *)
(* Abstractions.                                                           *)
(*  - A record is an identity of Record; what it patches is the business   *)
(*    of ControlFabric.  The state a store serves is the sequence of the   *)
(*    records applied to it, and a snapshot is such a sequence.            *)
(*  - A frame is whole, torn (fewer bytes than its length field says) or   *)
(*    damaged (its checksum fails).                                        *)
(*  - sync_on_commit has its default, TRUE.  A rename or a truncation is   *)
(*    durable when it returns, and unsynced bytes reach the disk in the    *)
(*    order of the file, so that a machine failure leaves a prefix whose   *)
(*    last frame may be torn or damaged.                                   *)
(*  - Temporary files are never read, so they are not in the model: the    *)
(*    step that replaces a file is the rename.                             *)
(***************************************************************************)
EXTENDS Naturals, Sequences, FiniteSets, SequencesExt

CONSTANTS
  MaxRecord,   \* how many records may be written in all
  MaxJournal   \* FabricConfig::max_journal_records

ASSUME BoundAssumption == MaxRecord \in Nat /\ MaxJournal \in Nat

Record == 1..MaxRecord

VARIABLES
  journal,   \* the journal file
  snapshot,  \* the snapshot file
  pc,        \* where the coordinator process is
  serving,   \* Fabric::open has returned
  memory,    \* FabricState: the records applied and last_sequence
  handle,    \* Journal::file_ and unusable_
  count,     \* Journal::record_count_
  minted,    \* the number of records written so far
  acked,     \* the records whose append succeeded
  refused,   \* the records whose append failed and was rolled back
  verdict,   \* what the last open reported
  unnoticed  \* was the snapshot damaged where no open looks for damage?

(* unnoticed is a history variable: no action reads it.                    *)
vars == <<journal, snapshot, pc, serving, memory, handle, count, minted,
          acked, refused, verdict, unnoticed>>

------------------------------------------------------------------------------
(* Types.                                                                  *)

Frame == [kind: {"whole", "torn", "damaged"}, seq: Nat, id: Record]

(* header: is the file there, and with all of its header?  synced: the     *)
(* number of frames that a machine failure cannot take.                    *)
JournalFile ==
  [header: {"absent", "partial", "whole"}, first: Nat,
   frames: Seq(Frame), synced: Nat]

(* seq is 0 when there is no snapshot.                                     *)
SnapshotFile == [seq: Nat, log: Seq(Record), sound: BOOLEAN]

PC == {"down", "creating", "idle", "writing", "flushed", "snapshot_renamed"}

Verdict == {"none", "usable", "truncated", "history_incomplete", "corrupt",
            "sequence_gap", "snapshot_rejected", "store_full"}

NoState == [log |-> <<>>, last |-> 0]
NoSnapshot == [seq |-> 0, log |-> <<>>, sound |-> TRUE]

(* Every variable has its type, no more frames are synced than written,    *)
(* and the journal never holds more records than its bound.                *)
TypeOK ==
  /\ journal \in JournalFile /\ journal.synced <= Len(journal.frames)
  /\ snapshot \in SnapshotFile
  /\ pc \in PC /\ serving \in BOOLEAN
  /\ memory \in [log: Seq(Record), last: Nat]
  /\ handle \in {"open", "closed", "unusable"}
  /\ count \in 0..MaxJournal
  /\ minted \in 0..MaxRecord
  /\ acked \subseteq Record /\ refused \subseteq Record
  /\ verdict \in Verdict /\ unnoticed \in BOOLEAN

------------------------------------------------------------------------------
(* Opening a store.                                                        *)

(* Journal::open, history continuity.                                      *)
Continuous ==
  \/ journal.first = 1
  \/ snapshot.seq > 0 /\ journal.first = snapshot.seq + 1

Bad == {k \in DOMAIN journal.frames : journal.frames[k].kind # "whole"}

(* Only the last frame may be bad: it is then cut off.                     *)
TailOnly == Bad \subseteq {Len(journal.frames)}

(* The frame loop: sequence numbers count up from the header's.            *)
Consecutive ==
  \A k \in DOMAIN journal.frames \ Bad : journal.frames[k].seq = journal.first + k - 1

(* Journal::open and Fabric::Impl::initialize: how the store is classified.*)
Classified ==
  CASE journal.header = "partial" -> "truncated"
    [] journal.header = "whole" /\ ~Continuous -> "history_incomplete"
    [] ~TailOnly -> "corrupt"
    [] ~Consecutive -> "sequence_gap"
    [] ~snapshot.sound /\ journal.first > 1 -> "snapshot_rejected"
    [] OTHER -> "usable"

Cut == IF Bad = {} THEN journal.frames ELSE Front(journal.frames)

Ids(frames) == [k \in DOMAIN frames |-> frames[k].id]

(* std::remove_if: the members of s at the positions P, in their order.    *)
(* (SelectSeq, without its recursion: JournalProofs reasons about it.)     *)
Remaining(s, P) ==
  [j \in 1..Cardinality(P) |-> s[CHOOSE k \in P : Cardinality(P \cap (1..k)) = j]]

(* Mutant of Covered: the filter drops one record too many.                *)
CoveredAndOneMore(r) == r.seq <= snapshot.seq + 1 /\ snapshot.seq > 0

(* The records the snapshot already contains are skipped.                  *)
Covered(r) == r.seq <= snapshot.seq

(* load_snapshot_state, then replay; an unsound snapshot is put aside when *)
(* the journal starts at sequence 1.                                       *)
Replayed ==
  LET kept == Remaining(Cut, {k \in DOMAIN Cut : ~Covered(Cut[k])})
      base == IF snapshot.sound THEN [log |-> snapshot.log, last |-> snapshot.seq]
                                ELSE NoState
  IN [log |-> base.log \o Ids(kept),
      last |-> IF kept = <<>> THEN base.last ELSE kept[Len(kept)].seq]

(* A refused store is left as it is.                                       *)
OpenRefused ==
  /\ pc = "down"
  /\ Classified # "usable"
  /\ verdict' = Classified
  /\ UNCHANGED <<journal, snapshot, pc, serving, memory, handle, count, minted,
                 acked, refused, unnoticed>>

(* A store whose journal is there is replayed: a bad tail is truncated,    *)
(* and record_count_ counts the covered records too.                       *)
OpenExisting ==
  /\ pc = "down"
  /\ Classified = "usable"
  /\ journal.header = "whole"
  /\ journal' = [journal EXCEPT
                   !.frames = Cut,
                   !.synced = IF @ > Len(Cut) THEN Len(Cut) ELSE @]
  /\ memory' = Replayed
  /\ count' = Len(Cut)
  /\ handle' = "open"
  /\ pc' = "idle"
  /\ verdict' = "usable"
  /\ UNCHANGED <<snapshot, serving, minted, acked, refused, unnoticed>>

(* Without a journal one is created in place: the file exists before its   *)
(* header does.                                                            *)
OpenFresh ==
  /\ pc = "down"
  /\ journal.header = "absent"
  /\ journal' = [journal EXCEPT !.header = "partial"]
  /\ pc' = "creating"
  /\ UNCHANGED <<snapshot, serving, memory, handle, count, minted, acked, refused, verdict, unnoticed>>

HeaderWritten ==
  /\ pc = "creating"
  /\ journal' = [header |-> "whole", first |-> snapshot.seq + 1,
                 frames |-> <<>>, synced |-> 0]
  /\ memory' = Replayed
  /\ count' = 0
  /\ handle' = "open"
  /\ pc' = "idle"
  /\ verdict' = "usable"
  /\ UNCHANGED <<snapshot, serving, minted, acked, refused, unnoticed>>

------------------------------------------------------------------------------
(* Committing a record: of a command when the store is serving, of the     *)
(* conservative recovery pass before.                                      *)

(* Mutant of NeedsCompaction: the bound is tested a record too late.       *)
OneTooLate == count > MaxJournal

(* needs_compaction.                                                       *)
NeedsCompaction == count >= MaxJournal

(* The process leaves the store: nothing of it remains in memory.          *)
Down ==
  /\ pc' = "down"
  /\ serving' = FALSE
  /\ memory' = NoState
  /\ handle' = "closed"
  /\ count' = 0

(* append, up to the write: some bytes of the frame are in the file.  A    *)
(* handle that is not open, and a full journal, refuse without a trace.    *)
AppendBegins ==
  /\ pc = "idle"
  /\ handle = "open"
  /\ ~NeedsCompaction
  /\ minted < MaxRecord
  /\ minted' = minted + 1
  /\ journal' = [journal EXCEPT
       !.frames = Append(@, [kind |-> "torn", seq |-> memory.last + 1, id |-> minted + 1])]
  /\ pc' = "writing"
  /\ UNCHANGED <<snapshot, serving, memory, handle, count, acked, refused, verdict, unnoticed>>

(* fwrite and fflush are through: the operating system has the frame.      *)
AppendFlushed ==
  /\ pc = "writing"
  /\ journal' = [journal EXCEPT !.frames[Len(journal.frames)].kind = "whole"]
  /\ pc' = "flushed"
  /\ UNCHANGED <<snapshot, serving, memory, handle, count, minted, acked, refused, verdict, unnoticed>>

(* Mutant of SyncedFrames: the commit returns without synchronising.       *)
NotSynced == journal.synced

(* sync: every frame in the file is durable.                               *)
SyncedFrames == Len(journal.frames)

(* Fabric::Impl::apply: the patches of the record are made, and it is the  *)
(* last one.                                                               *)
Applied(r) == [log |-> Append(memory.log, r.id), last |-> r.seq]

(* The record is synchronised, applied and acknowledged.  Fabric::open     *)
(* returns once the recovery pass has written its records, the epoch       *)
(* record at least.                                                        *)
Committed ==
  LET r == Last(journal.frames) IN
  /\ pc = "flushed"
  /\ journal' = [journal EXCEPT !.synced = SyncedFrames]
  /\ memory' = Applied(r)
  /\ count' = count + 1
  /\ acked' = acked \cup {r.id}
  /\ pc' = "idle"
  /\ serving' \in {TRUE, serving}
  /\ UNCHANGED <<snapshot, handle, minted, refused, verdict, unnoticed>>

(* Mutant of RolledBack: the bytes of the failed append stay.              *)
NotRolledBack(frames) == frames

(* rollback_to: the file has the length it had before the append.          *)
RolledBack(frames) == Front(frames)

(* A short write, a failed flush or a failed synchronise is rolled back;   *)
(* an append of the recovery pass that fails ends the open.                *)
AppendUndone ==
  /\ pc \in {"writing", "flushed"}
  /\ journal' = [journal EXCEPT !.frames = RolledBack(@)]
  /\ refused' = refused \cup {Last(journal.frames).id}
  /\ IF serving THEN pc' = "idle" /\ UNCHANGED <<serving, memory, handle, count>> ELSE Down
  /\ UNCHANGED <<snapshot, minted, acked, verdict, unnoticed>>

(* When the roll-back fails too, no later append is accepted.              *)
AppendStuck ==
  /\ pc \in {"writing", "flushed"}
  /\ IF serving THEN pc' = "idle" /\ handle' = "unusable" /\ UNCHANGED <<serving, memory, count>>
                ELSE Down
  /\ UNCHANGED <<journal, snapshot, minted, acked, refused, verdict, unnoticed>>

(* The recovery pass of an open meets a full journal: the open fails.      *)
OpenFull ==
  /\ pc = "idle" /\ ~serving
  /\ NeedsCompaction
  /\ Down
  /\ verdict' = "store_full"
  /\ UNCHANGED <<journal, snapshot, minted, acked, refused, unnoticed>>

------------------------------------------------------------------------------
(* Compaction.                                                             *)

(* write_snapshot, up to and including the rename; a failure before the    *)
(* rename changes nothing.                                                 *)
SnapshotRenamed ==
  /\ pc = "idle" /\ serving
  /\ snapshot' = [seq |-> memory.last, log |-> memory.log, sound |-> TRUE]
  /\ pc' = "snapshot_renamed"
  /\ UNCHANGED <<journal, serving, memory, handle, count, minted, acked, refused, verdict, unnoticed>>

(* rewrite: the handle is closed, an empty journal replaces the old one,   *)
(* and is opened.  Either may fail, and the handle then stays closed; a    *)
(* journal once unusable stays so.                                         *)
JournalRewritten(replaced, reopened) ==
  /\ pc = "snapshot_renamed"
  /\ IF replaced
       THEN /\ journal' = [header |-> "whole", first |-> snapshot.seq + 1,
                           frames |-> <<>>, synced |-> 0]
            /\ count' = 0
       ELSE UNCHANGED <<journal, count>>
  /\ handle' = IF handle = "unusable" THEN "unusable"
               ELSE IF replaced /\ reopened THEN "open" ELSE "closed"
  /\ pc' = "idle"
  /\ UNCHANGED <<snapshot, serving, memory, minted, acked, refused, verdict, unnoticed>>

------------------------------------------------------------------------------
(* Failures.                                                               *)

(* The process stops, by a crash at any point or by shutdown; the operating*)
(* system keeps what it was given.                                         *)
ProcessStops ==
  /\ pc # "down"
  /\ Down
  /\ UNCHANGED <<journal, snapshot, minted, acked, refused, verdict, unnoticed>>

(* The machine fails: of the unsynced frames a prefix survives, the last   *)
(* of it in whatever condition, and a header being written may be lost.    *)
MachineFails ==
  /\ \E n \in journal.synced..Len(journal.frames),
        kind \in {"whole", "torn", "damaged"} :
       journal' = [journal EXCEPT
         !.header = IF pc = "creating" THEN "absent" ELSE @,
         !.frames = [k \in 1..n |->
                       IF k = n /\ k > journal.synced /\ @[k].kind = "whole"
                         THEN [@[k] EXCEPT !.kind = kind] ELSE @[k]],
         !.synced = n]
  /\ Down
  /\ UNCHANGED <<snapshot, minted, acked, refused, verdict, unnoticed>>

(* The payload of the snapshot is damaged where it lies.  An open believes *)
(* the sequence number in its header all the same, and looks no further    *)
(* when the journal starts at 1, as it does between the two renames of the *)
(* first compaction or when the rewrite of the journal failed.             *)
SnapshotRots ==
  /\ pc = "down"
  /\ snapshot.seq > 0 /\ snapshot.sound
  /\ snapshot' = [snapshot EXCEPT !.sound = FALSE]
  /\ unnoticed' = (unnoticed \/ journal.first = 1)
  /\ UNCHANGED <<journal, pc, serving, memory, handle, count, minted, acked, refused, verdict>>

------------------------------------------------------------------------------
Init ==
  /\ journal = [header |-> "absent", first |-> 1, frames |-> <<>>, synced |-> 0]
  /\ snapshot = NoSnapshot
  /\ pc = "down"
  /\ serving = FALSE
  /\ memory = NoState
  /\ handle = "closed"
  /\ count = 0
  /\ minted = 0
  /\ acked = {}
  /\ refused = {}
  /\ verdict = "none"
  /\ unnoticed = FALSE

Next ==
  \/ OpenRefused \/ OpenExisting \/ OpenFresh \/ HeaderWritten \/ OpenFull
  \/ AppendBegins \/ AppendFlushed \/ Committed \/ AppendUndone \/ AppendStuck
  \/ SnapshotRenamed
  \/ \E replaced, reopened \in BOOLEAN : JournalRewritten(replaced, reopened)
  \/ ProcessStops \/ MachineFails \/ SnapshotRots

Spec == Init /\ [][Next]_vars

------------------------------------------------------------------------------
(* What the store promises.                                                *)

(* What a machine failure at this moment would leave: the state of the     *)
(* snapshot and the synchronised records after it.                         *)
Durable ==
  LET safe == {k \in 1..journal.synced :
                 journal.frames[k].kind = "whole" /\ journal.frames[k].seq > snapshot.seq}
  IN snapshot.log \o Ids(Remaining(journal.frames, safe))

(* A coordinator that serves has applied every durable record and nothing  *)
(* else, wherever an earlier process stopped and whatever it left behind,  *)
(* unless the snapshot was damaged while the journal started at 1.         *)
ServesWholeHistory == serving /\ ~unnoticed => memory.log = Durable

(* What the process does to its own store is never taken for damage: no    *)
(* sequence of failed appends, failed roll-backs, interrupted compactions  *)
(* and stops makes an open report corruption or a gap, and a store refused *)
(* for its header holds nothing.  (A store served past unnoticed damage    *)
(* numbers its records from 1 again.)                                      *)
OnlyTheTailIsLost ==
  ~unnoticed => /\ verdict \notin {"corrupt", "sequence_gap"}
                /\ verdict = "truncated" => Durable = <<>>

Log == INSTANCE DurableLog WITH log <- Durable

(* The durable records form a log that only grows, holds all that was      *)
(* acknowledged and nothing of what was refused and rolled back, for as    *)
(* long as no snapshot is damaged unnoticed.                               *)
DurableLogSpec == Log!Init /\ [][~unnoticed' => Log!Next]_(Log!vars)

(* PERSISTENCE.md:49-51: the order of snapshot and journal rewrite "makes  *)
(* every interruption safe"; README.md:178-179.                            *)
CompactionIsInterruptible == verdict # "history_incomplete"

(* PERSISTENCE.md:73, 89-92: every first record is in the journal or in a  *)
(* snapshot that is there, which "is what makes deleting or damaging a     *)
(* snapshot a detectable fault rather than a silent loss of every entity   *)
(* recorded before it".  What is served is the whole history.              *)
DamageIsDetected == serving => memory.log = Durable

==============================================================================
