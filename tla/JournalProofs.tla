---------------------------- MODULE JournalProofs ----------------------------
(***************************************************************************)
(* The store keeps its types and its bound whatever happens to it and,     *)
(* until its snapshot is damaged where no open looks for damage, serves    *)
(* its whole durable history, takes none of its own stops for damage, and  *)
(* implements DurableLog.  Everything is said about one numbering: record  *)
(* number q of the store is the one the snapshot holds there, or, past the *)
(* snapshot, the one in the frame that carries q.                          *)
(***************************************************************************)
EXTENDS Journal, FiniteSetTheorems, WellFoundedInduction, TLAPS

------------------------------------------------------------------------------
(* The inductive invariant.                                                *)

(* A journal whose header is not whole is that of a store never used.      *)
HeaderComesFirst ==
  /\ journal.header # "whole" =>
       /\ journal.frames = <<>> /\ journal.first = 1 /\ journal.synced = 0
       /\ snapshot = NoSnapshot
       /\ pc \in {"down", "creating"}
  /\ pc = "creating" => journal.header = "partial"

(* While the handle is open the process knows how many frames the file     *)
(* has, but for the one it is writing.                                     *)
CountFits ==
  /\ Len(journal.frames) <= MaxJournal
  /\ pc = "idle" /\ handle = "open" => count = Len(journal.frames)
  /\ pc \in {"writing", "flushed"} =>
       journal.synced < Len(journal.frames) /\ count = Len(journal.frames) - 1

(* What holds of the store even when its snapshot was damaged unnoticed.   *)
StoreTyped == TypeOK /\ HeaderComesFirst /\ CountFits

RecordAt(q) ==
  IF q <= snapshot.seq THEN snapshot.log[q] ELSE journal.frames[q - journal.first + 1].id

History(last) == [q \in 1..last |-> RecordAt(q)]

(* The number of the last record in the file.                              *)
LastWritten == journal.first + Len(journal.frames) - 1

(* How many synchronised frames an open would keep, and the number of the  *)
(* last record a machine failure cannot take.                              *)
Held ==
  IF journal.synced > 0 /\ journal.frames[journal.synced].kind # "whole"
    THEN journal.synced - 1 ELSE journal.synced

LastHeld == journal.first + Held - 1

(* Frames are numbered from the header's number on, and all but the last   *)
(* are whole.                                                              *)
FramesInOrder ==
  /\ \A k \in DOMAIN journal.frames : journal.frames[k].seq = journal.first + k - 1
  /\ \A k \in DOMAIN journal.frames :
       k < Len(journal.frames) => journal.frames[k].kind = "whole"

(* The snapshot holds a record for each number up to its own and leaves no *)
(* gap before the journal; what it covers was synchronised, and is whole.  *)
SnapshotFits ==
  /\ Len(snapshot.log) = snapshot.seq
  /\ journal.first >= 1 /\ journal.first <= snapshot.seq + 1
  /\ snapshot.seq < journal.first + journal.synced
  /\ \A k \in DOMAIN journal.frames :
       journal.frames[k].seq <= snapshot.seq => journal.frames[k].kind = "whole"
  /\ ~snapshot.sound => pc = "down" /\ journal.first > 1

(* The process has a state in memory.                                      *)
Loaded == pc \in {"idle", "writing", "flushed", "snapshot_renamed"}

(* What the process has in memory is a history of the store: all of the    *)
(* file while its handle is open, and between two appends; all that is     *)
(* synchronised once it serves.                                            *)
MemoryFits ==
  /\ Loaded => /\ memory.last \in Nat
               /\ memory.last >= snapshot.seq
               /\ memory.log = History(memory.last)
  /\ pc = "idle" /\ handle = "open" =>
       Bad = {} /\ memory.last = LastWritten
  /\ pc \in {"writing", "flushed"} =>
       handle = "open" /\ memory.last = LastWritten - 1
  /\ pc = "flushed" => Bad = {}
  /\ Loaded /\ ~serving => handle = "open" /\ pc # "snapshot_renamed"
  /\ serving => Loaded /\ Held = journal.synced /\ memory.last = LastHeld
  /\ pc = "snapshot_renamed" => memory.last = snapshot.seq

(* No record is in the store twice or was refused, and what was            *)
(* acknowledged is held.                                                   *)
RecordsOnce ==
  /\ \A p, q \in 1..LastWritten : p < q => RecordAt(p) < RecordAt(q)
  /\ \A q \in 1..LastWritten : RecordAt(q) \in 1..minted /\ RecordAt(q) \notin refused
  /\ refused \subseteq 1..minted
  /\ \A r \in acked : \E q \in 1..LastHeld : RecordAt(q) = r

(* A verdict of truncation is that of a store without a header.            *)
VerdictFits ==
  /\ verdict \notin {"corrupt", "sequence_gap"}
  /\ verdict = "truncated" => journal.header = "partial" /\ pc = "down"

(* What holds until then.                                                  *)
HistoryInv ==
  /\ FramesInOrder /\ SnapshotFits /\ MemoryFits /\ RecordsOnce /\ VerdictFits

JournalInv == StoreTyped /\ (~unnoticed => HistoryInv)

------------------------------------------------------------------------------
(* The types, whatever happens to the store.                               *)

(* A part of an interval is finite.                                        *)
LEMMA PartFinite ==
  ASSUME NEW n \in Nat, NEW P, P \subseteq 1..n
  PROVE  IsFiniteSet(P) /\ Cardinality(P) \in Nat
<1>1. IsFiniteSet(1..n)
  BY FS_Interval
<1>2. IsFiniteSet(P)
  BY <1>1, FS_Subset
<1> QED BY <1>2, FS_CardinalityType

(* Counting the members of P from below meets every number.                *)
LEMMA PlaceExists ==
  ASSUME NEW n \in Nat, NEW P, P \subseteq 1..n, NEW j \in 1..Cardinality(P)
  PROVE  \E k \in P : Cardinality(P \cap (1..k)) = j
<1> DEFINE below(m) == Cardinality(P \cap (1..m))
           enough == {m \in 0..n : below(m) >= j}
<1>1. IsFiniteSet(P) /\ Cardinality(P) \in Nat
  BY PartFinite
<1>2. ASSUME NEW m
      PROVE  IsFiniteSet(P \cap (1..m)) /\ below(m) \in Nat
  BY <1>1, FS_Subset, FS_CardinalityType
<1>3. n \in enough
  <2>1. P \cap (1..n) = P
    OBVIOUS
  <2> QED BY <1>1, <2>1
<1>4. PICK k \in enough : \A m \in enough : ~(<<m, k>> \in OpToRel(<, Nat))
  <2>1. enough \subseteq Nat
    OBVIOUS
  <2> HIDE DEF enough
  <2> QED BY <1>3, <2>1, NatLessThanWellFounded, WFMin
<1>5. k # 0
  <2>1. P \cap (1..0) = {}
    OBVIOUS
  <2>2. below(0) = 0
    BY <2>1, FS_EmptySet
  <2> QED BY <2>2
<1>6. k - 1 \in 0..n /\ k - 1 < k
  BY <1>5
<1>7. ~(below(k - 1) >= j)
  <2>1. k - 1 \in Nat /\ k \in Nat
    BY <1>6
  <2>2. <<k - 1, k>> \in OpToRel(<, Nat)
    BY <1>6, <2>1 DEF OpToRel
  <2>3. k - 1 \notin enough
    BY <1>4, <2>2
  <2> QED BY <1>6, <2>3
<1>8. k \in P
  <2>1. ASSUME k \notin P
        PROVE  FALSE
    <3>1. P \cap (1..k) = P \cap (1..(k - 1))
      BY <2>1
    <3>2. below(k) >= j
      OBVIOUS
    <3> QED BY <1>7, <3>1, <3>2
  <2> QED BY <2>1
<1>9. below(k) = below(k - 1) + 1
  <2>1. P \cap (1..k) = (P \cap (1..(k - 1))) \cup {k}
    BY <1>6, <1>8
  <2>2. k \notin P \cap (1..(k - 1))
    OBVIOUS
  <2> HIDE DEF enough
  <2> QED BY <1>2, <2>1, <2>2, FS_AddElement
<1>10. below(k) = j
  <2>1. below(k) >= j /\ below(k) \in Nat /\ below(k - 1) \in Nat
    BY <1>2
  <2> HIDE DEF below, enough
  <2> QED BY <1>1, <1>7, <1>9, <2>1
<1> QED BY <1>8, <1>10

(* What remains of a sequence of records or frames is one.                 *)
LEMMA RemainingType ==
  ASSUME NEW S, NEW s \in Seq(S), NEW P, P \subseteq 1..Len(s)
  PROVE  /\ Remaining(s, P) \in Seq(S) /\ Len(Remaining(s, P)) = Cardinality(P)
         /\ Cardinality(P) \in Nat
<1> DEFINE place(j) == CHOOSE k \in P : Cardinality(P \cap (1..k)) = j
<1>1. Cardinality(P) \in Nat
  <2>1. Len(s) \in Nat
    OBVIOUS
  <2> QED BY <2>1, PartFinite
<1>2. ASSUME NEW j \in 1..Cardinality(P)
      PROVE  s[place(j)] \in S
  <2>1. \E k \in P : Cardinality(P \cap (1..k)) = j
    <3>1. Len(s) \in Nat
      OBVIOUS
    <3> QED BY <3>1, PlaceExists
  <2>2. place(j) \in P
    BY <2>1
  <2>3. place(j) \in 1..Len(s)
    BY <2>2
  <2> HIDE DEF place
  <2> QED BY <2>3
<1>3. Remaining(s, P) = [j \in 1..Cardinality(P) |-> s[place(j)]]
  BY Zenon DEF Remaining
<1> HIDE DEF place
<1> QED BY <1>1, <1>2, <1>3

(* An open keeps the frames but for a bad last one.                        *)
LEMMA CutType ==
  ASSUME TypeOK
  PROVE  Cut \in Seq(Frame) /\ Len(Cut) \in Nat /\ Len(Cut) <= Len(journal.frames)
<1>1. journal.frames \in Seq(Frame) /\ Len(journal.frames) \in Nat
  BY DEF TypeOK, JournalFile
<1>2. CASE Bad = {}
  BY <1>1, <1>2 DEF Cut
<1>3. CASE Bad # {}
  <2>1. journal.frames # <<>> /\ Len(journal.frames) - 1 \in Nat
    <3>1. PICK k \in DOMAIN journal.frames : TRUE
      BY <1>3 DEF Bad
    <3> QED BY <1>1, <3>1
  <2>2. Cut = [k \in 1..(Len(journal.frames) - 1) |-> journal.frames[k]]
    BY <1>3 DEF Cut, Front
  <2>3. \A k \in 1..(Len(journal.frames) - 1) : journal.frames[k] \in Frame
    BY <1>1, <2>1
  <2> QED BY <1>1, <2>1, <2>2, <2>3
<1> QED BY <1>2, <1>3

(* What an open has in memory after replaying the store.                   *)
LEMMA ReplayedType ==
  ASSUME TypeOK
  PROVE  Replayed \in [log: Seq(Record), last: Nat]
<1> DEFINE kept == Remaining(Cut, {k \in DOMAIN Cut : ~Covered(Cut[k])})
           base == IF snapshot.sound THEN [log |-> snapshot.log, last |-> snapshot.seq] ELSE NoState
<1>1. kept \in Seq(Frame) /\ Len(kept) \in Nat
  <2>1. Cut \in Seq(Frame)
    BY CutType
  <2>2. {k \in DOMAIN Cut : ~Covered(Cut[k])} \subseteq 1..Len(Cut)
    BY <2>1
  <2> QED BY <2>1, <2>2, RemainingType
<1>2. base \in [log: Seq(Record), last: Nat]
  <2>1. <<>> \in Seq(Record) /\ 0 \in Nat
    OBVIOUS
  <2> QED BY <2>1 DEF TypeOK, SnapshotFile, NoState
<1> HIDE DEF kept
<1>3. \A k \in 1..Len(kept) : kept[k].id \in Record /\ kept[k].seq \in Nat
  <2>1. \A k \in 1..Len(kept) : kept[k] \in Frame
    BY <1>1
  <2> QED BY <2>1 DEF Frame
<1>4. Ids(kept) \in Seq(Record)
  <2>1. Ids(kept) = [k \in 1..Len(kept) |-> kept[k].id]
    BY <1>1 DEF Ids
  <2> QED BY <1>1, <1>3, <2>1
<1>5. kept # <<>> => kept[Len(kept)].seq \in Nat
  <2>1. kept # <<>> => Len(kept) \in 1..Len(kept)
    BY <1>1
  <2> QED BY <1>3, <2>1
<1> HIDE DEF base
<1>6. base.log \o Ids(kept) \in Seq(Record) /\ base.last \in Nat
  BY <1>2, <1>4
<1>7. Replayed = [log |-> base.log \o Ids(kept),
                  last |-> IF kept = <<>> THEN base.last ELSE kept[Len(kept)].seq]
  BY Zenon DEF Replayed, kept, base
<1> QED BY <1>5, <1>6, <1>7

(* A process that is gone has nothing in memory.                           *)
LEMMA DownType ==
  ASSUME Down
  PROVE  /\ pc' = "down" /\ serving' = FALSE /\ handle' = "closed"
         /\ memory' \in [log: Seq(Record), last: Nat] /\ count' \in 0..MaxJournal
<1>1. <<>> \in Seq(Record) /\ 0 \in Nat
  OBVIOUS
<1>2. memory' \in [log: Seq(Record), last: Nat]
  BY <1>1 DEF Down, NoState
<1> QED BY <1>2, BoundAssumption DEF Down

(* Every step keeps the types and the bound, even where records were lost. *)
LEMMA TypeStep ==
  ASSUME StoreTyped, [Next]_vars
  PROVE  StoreTyped'
<1> USE DEF StoreTyped
<1> DEFINE n == Len(journal.frames)
<1>1. /\ journal \in JournalFile /\ journal.frames \in Seq(Frame) /\ n \in Nat
      /\ journal.first \in Nat /\ journal.synced \in Nat /\ journal.synced <= n
      /\ snapshot \in SnapshotFile /\ snapshot.seq \in Nat
      /\ n <= MaxJournal /\ MaxJournal \in Nat /\ MaxRecord \in Nat
  BY BoundAssumption DEF TypeOK, JournalFile, SnapshotFile, CountFits
<1>2. CASE OpenRefused
  <2>1. Classified \in Verdict
    BY DEF Classified, Verdict
  <2>2. TypeOK'
    BY <1>2, <2>1 DEF TypeOK, OpenRefused
  <2> QED BY <1>2, <2>2 DEF OpenRefused, HeaderComesFirst, CountFits
<1>3. CASE OpenExisting
  <2>1. Cut \in Seq(Frame) /\ Len(Cut) \in Nat /\ Len(Cut) <= n
    BY CutType
  <2>2. /\ journal' \in JournalFile /\ journal'.header = "whole" /\ journal'.frames = Cut
        /\ journal'.synced <= Len(Cut)
    <3> DEFINE left == IF journal.synced > Len(Cut) THEN Len(Cut) ELSE journal.synced
    <3>1. journal' = [journal EXCEPT !.frames = Cut, !.synced = left]
      BY <1>3 DEF OpenExisting
    <3>2. left \in Nat /\ left <= Len(Cut)
      BY <1>1, <2>1
    <3>3. journal.header = "whole"
      BY <1>3 DEF OpenExisting
    <3> HIDE DEF left
    <3> QED BY <1>1, <2>1, <3>1, <3>2, <3>3 DEF JournalFile
  <2>3. memory' \in [log: Seq(Record), last: Nat]
    BY <1>3, ReplayedType DEF OpenExisting
  <2>4. count' = Len(Cut) /\ count' \in 0..MaxJournal
    BY <1>1, <1>3, <2>1 DEF OpenExisting
  <2>5. TypeOK'
    BY <1>3, <2>2, <2>3, <2>4 DEF OpenExisting, TypeOK, PC, Verdict
  <2> QED BY <1>1, <1>3, <2>1, <2>2, <2>4, <2>5 DEF OpenExisting, HeaderComesFirst, CountFits
<1>4. CASE OpenFresh
  <2>1. /\ journal' \in JournalFile /\ journal'.header = "partial" /\ journal.header = "absent"
        /\ journal'.frames = journal.frames /\ journal'.first = journal.first
        /\ journal'.synced = journal.synced
    BY <1>1, <1>4 DEF OpenFresh, JournalFile
  <2>2. TypeOK'
    BY <1>4, <2>1 DEF OpenFresh, TypeOK, PC
  <2> QED BY <1>4, <2>1, <2>2 DEF OpenFresh, HeaderComesFirst, CountFits
<1>5. CASE HeaderWritten
  <2>1. <<>> \in Seq(Frame) /\ Len(<<>>) = 0
    OBVIOUS
  <2>2. /\ journal' \in JournalFile /\ journal'.header = "whole" /\ journal'.frames = <<>>
        /\ journal'.synced = 0
    BY <1>1, <1>5, <2>1 DEF HeaderWritten, JournalFile
  <2>3. memory' \in [log: Seq(Record), last: Nat]
    BY <1>5, ReplayedType DEF HeaderWritten
  <2>4. TypeOK'
    BY <1>1, <1>5, <2>1, <2>2, <2>3 DEF HeaderWritten, TypeOK, PC, Verdict
  <2> QED BY <1>1, <1>5, <2>1, <2>2, <2>4 DEF HeaderWritten, HeaderComesFirst, CountFits
<1>6. CASE OpenFull
  <2>1. TypeOK'
    BY <1>6, DownType DEF OpenFull, TypeOK, PC, Verdict
  <2> QED BY <1>1, <1>6, <2>1, DownType DEF OpenFull, HeaderComesFirst, CountFits
<1>7. CASE AppendBegins
  <2> DEFINE r == [kind |-> "torn", seq |-> memory.last + 1, id |-> minted + 1]
  <2>1. pc = "idle" /\ handle = "open" /\ count = n /\ n + 1 <= MaxJournal
    BY <1>1, <1>7 DEF AppendBegins, NeedsCompaction, CountFits
  <2>2. r \in Frame /\ minted' \in 0..MaxRecord
    BY <1>1, <1>7 DEF AppendBegins, TypeOK, Frame, Record
  <2>3. Append(journal.frames, r) \in Seq(Frame) /\ Len(Append(journal.frames, r)) = n + 1
    <3> HIDE DEF r
    <3> QED BY <1>1, <2>2
  <2>4. /\ journal' \in JournalFile /\ journal'.header = journal.header
        /\ Len(journal'.frames) = n + 1 /\ journal'.synced = journal.synced
    <3>1. journal' = [journal EXCEPT !.frames = Append(journal.frames, r)]
      BY <1>7 DEF AppendBegins
    <3> HIDE DEF r, n
    <3> QED BY <1>1, <2>3, <3>1 DEF JournalFile
  <2>5. TypeOK'
    <3> HIDE DEF n
    <3> QED BY <1>1, <1>7, <2>2, <2>4 DEF AppendBegins, TypeOK, PC
  <2>6. CountFits'
    <3> HIDE DEF n
    <3> QED BY <1>1, <1>7, <2>1, <2>4 DEF AppendBegins, CountFits
  <2> QED BY <1>7, <2>4, <2>5, <2>6 DEF AppendBegins, HeaderComesFirst
<1>8. CASE AppendFlushed
  <2>1. journal.synced < n /\ count = n - 1 /\ n \in DOMAIN journal.frames
    BY <1>1, <1>8 DEF AppendFlushed, CountFits
  <2>2. [journal.frames[n] EXCEPT !.kind = "whole"] \in Frame
    <3>1. journal.frames[n] \in Frame
      BY <1>1, <2>1
    <3> QED BY <3>1 DEF Frame
  <2>3. /\ [journal.frames EXCEPT ![n].kind = "whole"] \in Seq(Frame)
        /\ Len([journal.frames EXCEPT ![n].kind = "whole"]) = n
    BY <1>1, <2>1, <2>2
  <2>4. /\ journal' \in JournalFile /\ journal'.header = journal.header
        /\ Len(journal'.frames) = n /\ journal'.synced = journal.synced
    BY <1>1, <1>8, <2>3 DEF AppendFlushed, JournalFile
  <2>5. TypeOK'
    BY <1>1, <1>8, <2>4 DEF AppendFlushed, TypeOK, PC
  <2>6. CountFits'
    BY <1>1, <1>8, <2>1, <2>4 DEF AppendFlushed, CountFits
  <2> QED BY <1>8, <2>4, <2>5, <2>6 DEF AppendFlushed, HeaderComesFirst
<1>9. CASE Committed
  <2>1. /\ journal.synced < n /\ count = n - 1 /\ n \in 1..n
        /\ journal.frames[n] \in Frame
    BY <1>1, <1>9 DEF Committed, CountFits
  <2> DEFINE r == journal.frames[n]
  <2>2. r.id \in Record /\ r.seq \in Nat
    BY <2>1 DEF Frame
  <2> HIDE DEF r
  <2>3. memory.log \in Seq(Record) /\ Append(memory.log, r.id) \in Seq(Record)
    BY <2>2 DEF TypeOK
  <2>4. memory' \in [log: Seq(Record), last: Nat] /\ acked' \subseteq Record
    BY <1>9, <2>2, <2>3 DEF Committed, Applied, Last, TypeOK, r
  <2>5. /\ journal' \in JournalFile /\ journal'.header = journal.header
        /\ journal'.frames = journal.frames /\ journal'.synced = n
    BY <1>1, <1>9 DEF Committed, SyncedFrames, JournalFile
  <2>6. count' = n /\ count' \in 0..MaxJournal
    BY <1>1, <1>9, <2>1 DEF Committed
  <2>7. TypeOK'
    <3>1. /\ pc' = "idle" /\ serving' \in BOOLEAN
          /\ UNCHANGED <<snapshot, handle, minted, refused, verdict, unnoticed>>
      BY <1>9 DEF Committed, TypeOK
    <3> QED BY <1>1, <2>4, <2>5, <2>6, <3>1 DEF TypeOK, PC
  <2>8. CountFits'
    BY <1>1, <1>9, <2>5, <2>6 DEF Committed, CountFits
  <2> QED BY <1>9, <2>5, <2>7, <2>8 DEF Committed, HeaderComesFirst
<1>10. CASE AppendUndone
  <2>1. journal.synced < n /\ count = n - 1 /\ n \in 1..n /\ n - 1 \in Nat /\ journal.synced <= n - 1
    BY <1>1, <1>10 DEF AppendUndone, CountFits
  <2>2. Last(journal.frames).id \in Record
    <3>1. Last(journal.frames) \in Frame
      BY <1>1, <2>1 DEF Last
    <3> QED BY <3>1 DEF Frame
  <2>3. Front(journal.frames) \in Seq(Frame) /\ Len(Front(journal.frames)) = n - 1
    <3>1. Front(journal.frames) = [k \in 1..(n - 1) |-> journal.frames[k]]
      BY DEF Front
    <3>2. \A k \in 1..(n - 1) : journal.frames[k] \in Frame
      BY <1>1, <2>1
    <3> HIDE DEF n
    <3> QED BY <2>1, <3>1, <3>2
  <2>4. /\ journal' \in JournalFile /\ journal'.header = journal.header
        /\ Len(journal'.frames) = n - 1 /\ journal'.synced = journal.synced
    <3>1. journal' = [journal EXCEPT !.frames = Front(journal.frames)]
      BY <1>10 DEF AppendUndone, RolledBack
    <3> HIDE DEF n
    <3> QED BY <1>1, <2>3, <3>1 DEF JournalFile
  <2>5. \/ pc' = "idle" /\ UNCHANGED <<serving, memory, handle, count>>
        \/ Down
    BY <1>10 DEF AppendUndone
  <2>6. /\ pc' \in {"idle", "down"}
        /\ pc' = "idle" => count' = n - 1
        /\ serving' \in BOOLEAN /\ handle' \in {"open", "closed", "unusable"}
        /\ memory' \in [log: Seq(Record), last: Nat] /\ count' \in 0..MaxJournal
    BY <2>1, <2>5, DownType DEF TypeOK
  <2>7. TypeOK'
    <3> HIDE DEF n
    <3>1. refused' \subseteq Record /\ UNCHANGED <<snapshot, minted, acked, verdict, unnoticed>>
      BY <1>10, <2>2 DEF AppendUndone, TypeOK
    <3> QED BY <2>1, <2>4, <2>6, <3>1 DEF TypeOK, PC
  <2>8. CountFits'
    <3> HIDE DEF n
    <3> QED BY <1>1, <2>1, <2>4, <2>6 DEF CountFits
  <2>9. journal.header = "whole"
    BY <1>10 DEF AppendUndone, HeaderComesFirst
  <2>10. HeaderComesFirst'
    BY <2>4, <2>6, <2>9 DEF HeaderComesFirst
  <2> QED BY <2>7, <2>8, <2>10
<1>11. CASE AppendStuck
  <2>1. \/ pc' = "idle" /\ handle' = "unusable" /\ UNCHANGED <<serving, memory, count>>
        \/ Down
    BY <1>11 DEF AppendStuck
  <2>2. /\ pc' \in {"idle", "down"}
        /\ pc' = "idle" => handle' # "open"
        /\ serving' \in BOOLEAN /\ handle' \in {"open", "closed", "unusable"}
        /\ memory' \in [log: Seq(Record), last: Nat] /\ count' \in 0..MaxJournal
    BY <2>1, DownType DEF TypeOK
  <2>3. TypeOK'
    BY <1>11, <2>2 DEF AppendStuck, TypeOK, PC
  <2>4. journal.header = "whole"
    BY <1>11 DEF AppendStuck, HeaderComesFirst
  <2> QED BY <1>1, <1>11, <2>2, <2>3, <2>4 DEF AppendStuck, HeaderComesFirst, CountFits
<1>12. CASE SnapshotRenamed
  <2>1. TypeOK'
    BY <1>12 DEF SnapshotRenamed, TypeOK, SnapshotFile, PC
  <2> QED BY <1>12, <2>1 DEF SnapshotRenamed, HeaderComesFirst, CountFits
<1>13. ASSUME NEW replaced \in BOOLEAN, NEW reopened \in BOOLEAN,
              JournalRewritten(replaced, reopened)
       PROVE  StoreTyped'
  <2>1. CASE replaced
    <3>1. <<>> \in Seq(Frame) /\ Len(<<>>) = 0
      OBVIOUS
    <3>2. /\ journal' \in JournalFile /\ journal'.header = "whole" /\ journal'.frames = <<>>
          /\ journal'.synced = 0 /\ count' = 0 /\ pc' = "idle"
      <4>1. /\ journal' = [header |-> "whole", first |-> snapshot.seq + 1,
                           frames |-> <<>>, synced |-> 0]
            /\ count' = 0 /\ pc' = "idle"
        BY <1>13, <2>1 DEF JournalRewritten
      <4> QED BY <1>1, <3>1, <4>1 DEF JournalFile
    <3>3. TypeOK'
      BY <1>1, <1>13, <3>1, <3>2 DEF JournalRewritten, TypeOK, PC
    <3> QED BY <1>1, <3>1, <3>2, <3>3 DEF HeaderComesFirst, CountFits
  <2>2. CASE ~replaced
    <3>1. /\ UNCHANGED <<journal, snapshot, count>> /\ handle' \in {"unusable", "closed"}
          /\ pc = "snapshot_renamed" /\ pc' = "idle"
      BY <1>13, <2>2 DEF JournalRewritten
    <3>2. TypeOK'
      BY <1>13, <3>1 DEF JournalRewritten, TypeOK, PC
    <3> QED BY <3>1, <3>2 DEF HeaderComesFirst, CountFits
  <2> QED BY <2>1, <2>2
<1>14. CASE ProcessStops
  <2>1. TypeOK'
    BY <1>14, DownType DEF ProcessStops, TypeOK, PC
  <2> QED BY <1>1, <1>14, <2>1, DownType DEF ProcessStops, HeaderComesFirst, CountFits
<1>15. CASE MachineFails
  <2>1. PICK m \in journal.synced..n, kind \in {"whole", "torn", "damaged"} :
          journal' = [journal EXCEPT
            !.header = IF pc = "creating" THEN "absent" ELSE journal.header,
            !.frames = [k \in 1..m |->
                          IF k = m /\ k > journal.synced /\ journal.frames[k].kind = "whole"
                            THEN [journal.frames[k] EXCEPT !.kind = kind] ELSE journal.frames[k]],
            !.synced = m]
    BY <1>15, Zenon DEF MachineFails
  <2>2. m \in Nat /\ m <= n
    BY <1>1
  <2> DEFINE left == [k \in 1..m |->
                        IF k = m /\ k > journal.synced /\ journal.frames[k].kind = "whole"
                          THEN [journal.frames[k] EXCEPT !.kind = kind] ELSE journal.frames[k]]
  <2>3. ASSUME NEW k \in 1..m
        PROVE  left[k] \in Frame
    <3>1. journal.frames[k] \in Frame
      BY <1>1, <2>2
    <3>2. [journal.frames[k] EXCEPT !.kind = kind] \in Frame
      BY <3>1 DEF Frame
    <3> QED BY <3>1, <3>2
  <2>4. left \in Seq(Frame) /\ Len(left) = m
    <3>1. left = [k \in 1..m |-> left[k]]
      OBVIOUS
    <3> HIDE DEF left
    <3> QED BY <2>2, <2>3, <3>1
  <2>5. /\ journal' \in JournalFile /\ journal'.frames = left /\ journal'.synced = m
        /\ journal'.first = journal.first
        /\ journal'.header = IF pc = "creating" THEN "absent" ELSE journal.header
    <3>1. journal' = [journal EXCEPT
            !.header = IF pc = "creating" THEN "absent" ELSE journal.header,
            !.frames = left, !.synced = m]
      BY <2>1
    <3> HIDE DEF left
    <3> QED BY <1>1, <2>2, <2>4, <3>1 DEF JournalFile
  <2> HIDE DEF left
  <2>6. Down /\ UNCHANGED <<snapshot, minted, acked, refused, verdict, unnoticed>>
    BY <1>15 DEF MachineFails
  <2>7. TypeOK'
    BY <2>2, <2>4, <2>5, <2>6, DownType DEF TypeOK, PC
  <2>8. CountFits'
    BY <1>1, <2>2, <2>4, <2>5, <2>6, DownType DEF CountFits
  <2>9. HeaderComesFirst'
    <3>1. CASE journal.header # "whole"
      <4>1. journal.frames = <<>> /\ journal.first = 1 /\ snapshot = NoSnapshot
        BY <3>1 DEF HeaderComesFirst
      <4>2. m = 0
        BY <2>2, <4>1
      <4>3. left = <<>>
        BY <2>4, <4>2
      <4> QED BY <2>5, <2>6, <4>1, <4>2, <4>3, DownType DEF HeaderComesFirst
    <3>2. CASE journal.header = "whole"
      BY <2>5, <2>6, <3>2, DownType DEF HeaderComesFirst
    <3> QED BY <3>1, <3>2
  <2> QED BY <2>7, <2>8, <2>9
<1>16. CASE SnapshotRots
  <2>1. snapshot' \in SnapshotFile /\ UNCHANGED <<journal, pc, handle, count>>
    BY <1>1, <1>16 DEF SnapshotRots, SnapshotFile
  <2>2. TypeOK'
    BY <1>16, <2>1 DEF SnapshotRots, TypeOK
  <2>3. journal.header = "whole"
    BY <1>16 DEF SnapshotRots, HeaderComesFirst, NoSnapshot
  <2> QED BY <2>1, <2>2, <2>3 DEF HeaderComesFirst, CountFits
<1>17. CASE UNCHANGED vars
  BY <1>17 DEF vars, TypeOK, HeaderComesFirst, CountFits
<1> QED BY <1>2, <1>3, <1>4, <1>5, <1>6, <1>7, <1>8, <1>9, <1>10, <1>11,
           <1>12, <1>13, <1>14, <1>15, <1>16, <1>17 DEF Next
------------------------------------------------------------------------------
(* The numbering of the records.                                           *)

(* What stands in s after place a, up to place b.                          *)
Stretch(s, a, b) == [j \in 1..(b - a) |-> s[a + j]]

(* Keeping the positions a + 1 to b keeps that stretch.                    *)
LEMMA RemainingInterval ==
  ASSUME NEW s, NEW a \in Nat, NEW b \in Nat, a <= b
  PROVE  Remaining(s, (a + 1)..b) = Stretch(s, a, b)
<1> DEFINE P == (a + 1)..b
           place(j) == CHOOSE k \in P : Cardinality(P \cap (1..k)) = j
<1>1. Cardinality(P) = b - a
  <2>1. CASE a + 1 <= b
    BY <2>1, FS_Interval
  <2>2. CASE a = b
    BY <2>2, FS_Interval
  <2> QED BY <2>1, <2>2
<1>2. ASSUME NEW k \in P
      PROVE  Cardinality(P \cap (1..k)) = k - a
  <2>1. P \cap (1..k) = (a + 1)..k
    OBVIOUS
  <2>2. k \in Int /\ k >= a + 1
    OBVIOUS
  <2>3. Cardinality((a + 1)..k) = k - (a + 1) + 1
    BY <2>2, FS_Interval
  <2>4. Cardinality((a + 1)..k) = k - a
    BY <2>2, <2>3
  <2> QED BY <2>1, <2>4
<1>3. ASSUME NEW j \in 1..(b - a)
      PROVE  place(j) = a + j
  <2>1. a + j \in P /\ \A k \in P : k \in Int
    OBVIOUS
  <2> HIDE DEF P
  <2>2. \A k \in P : Cardinality(P \cap (1..k)) = j <=> k = a + j
    BY <1>2, <2>1
  <2> QED BY <2>1, <2>2
<1>4. Remaining(s, P) = [j \in 1..Cardinality(P) |-> s[place(j)]]
  BY Zenon DEF Remaining
<1> HIDE DEF P, place
<1>5. Remaining(s, P) = Stretch(s, a, b)
  BY <1>1, <1>3, <1>4 DEF Stretch
<1> QED BY <1>5 DEF P

(* A sequence followed by more records, place by place.                    *)
LEMMA Joined ==
  ASSUME NEW u \in Seq(Record), NEW m \in Nat, NEW v \in [1..m -> Record]
  PROVE  u \o v = [q \in 1..(Len(u) + m) |-> IF q <= Len(u) THEN u[q] ELSE v[q - Len(u)]]
<1>1. v \in Seq(Record) /\ Len(v) = m /\ Len(u) \in Nat
  OBVIOUS
<1>2. /\ u \o v \in Seq(Record) /\ Len(u \o v) = Len(u) + m
      /\ \A q \in 1..(Len(u) + m) :
           (u \o v)[q] = IF q <= Len(u) THEN u[q] ELSE v[q - Len(u)]
  BY <1>1
<1> DEFINE w == u \o v
<1>3. w \in Seq(Record) /\ Len(w) = Len(u) + m /\ Len(u) + m \in Nat
  BY <1>1, <1>2
<1> HIDE DEF w
<1>4. w = [q \in 1..(Len(u) + m) |-> w[q]]
  BY <1>3
<1> QED BY <1>2, <1>4 DEF w

(* Records past the snapshot are in frames.                                *)
LEMMA FrameOf ==
  ASSUME NEW first \in Nat, NEW n \in Nat, NEW seq \in Nat, first <= seq + 1,
         NEW q \in 1..(first + n - 1), ~(q <= seq)
  PROVE  q - first + 1 \in 1..n
OBVIOUS

(* Frames further on carry higher numbers.                                 *)
LEMMA NumbersOrdered ==
  ASSUME NEW first \in Nat \ {0}, NEW a \in Nat, NEW b \in Nat, a <= b
  PROVE  /\ first + a - 1 \in Nat /\ first + b - 1 \in Nat
         /\ first + a - 1 <= first + b - 1
OBVIOUS

(* What the later lemmas use of the types and of the numbering.            *)
LEMMA Shapes ==
  ASSUME TypeOK, FramesInOrder, SnapshotFits
  PROVE  /\ journal.frames \in Seq(Frame) /\ Len(journal.frames) \in Nat
         /\ DOMAIN journal.frames = 1..Len(journal.frames)
         /\ \A k \in 1..Len(journal.frames) :
              /\ journal.frames[k].kind \in {"whole", "torn", "damaged"}
              /\ journal.frames[k].seq = journal.first + k - 1
              /\ journal.frames[k].id \in Record
         /\ journal.first \in Nat \ {0} /\ journal.synced \in 0..Len(journal.frames)
         /\ snapshot.seq \in Nat /\ snapshot.log \in Seq(Record)
         /\ Len(snapshot.log) = snapshot.seq
         /\ journal.first <= snapshot.seq + 1
         /\ Held \in Nat /\ Held <= journal.synced /\ snapshot.seq < journal.first + Held
         /\ LastHeld \in Nat /\ LastWritten \in Nat /\ LastHeld <= LastWritten
<1>1. /\ journal.frames \in Seq(Frame) /\ Len(journal.frames) \in Nat
      /\ DOMAIN journal.frames = 1..Len(journal.frames)
      /\ journal.first \in Nat /\ journal.synced \in Nat
      /\ journal.synced <= Len(journal.frames)
      /\ snapshot.seq \in Nat /\ snapshot.log \in Seq(Record)
  BY DEF TypeOK, JournalFile, SnapshotFile
<1>2. \A k \in 1..Len(journal.frames) : journal.frames[k] \in Frame
  BY <1>1
<1>3. /\ Len(snapshot.log) = snapshot.seq
      /\ journal.first \in Nat \ {0} /\ journal.first <= snapshot.seq + 1
      /\ snapshot.seq < journal.first + journal.synced
  BY <1>1 DEF SnapshotFits
<1>4. \A k \in 1..Len(journal.frames) :
        /\ journal.frames[k].kind \in {"whole", "torn", "damaged"}
        /\ journal.frames[k].seq = journal.first + k - 1
        /\ journal.frames[k].id \in Record
  BY <1>1, <1>2 DEF Frame, FramesInOrder
<1>5. Held \in Nat /\ Held <= journal.synced
  BY <1>1 DEF Held
<1>6. snapshot.seq < journal.first + Held
  <2>1. CASE journal.synced > 0 /\ journal.frames[journal.synced].kind # "whole"
    <3>1. journal.synced \in DOMAIN journal.frames /\ Held = journal.synced - 1
      BY <1>1, <2>1 DEF Held
    <3>2. ~(journal.frames[journal.synced].seq <= snapshot.seq)
      BY <2>1, <3>1 DEF SnapshotFits
    <3>3. /\ journal.synced \in 1..Len(journal.frames)
          /\ journal.frames[journal.synced].seq = journal.first + journal.synced - 1
      BY <1>1, <1>4, <3>1
    <3> QED BY <1>1, <1>3, <3>1, <3>2, <3>3
  <2>2. CASE ~(journal.synced > 0 /\ journal.frames[journal.synced].kind # "whole")
    BY <1>3, <2>2 DEF Held
  <2> QED BY <2>1, <2>2
<1>7. LastHeld \in Nat /\ LastWritten \in Nat /\ LastHeld <= LastWritten
  <2>1. Held \in Nat /\ Len(journal.frames) \in Nat /\ Held <= Len(journal.frames)
    BY <1>1, <1>5
  <2> QED BY <1>3, <2>1, NumbersOrdered DEF LastHeld, LastWritten
<1> QED BY <1>1, <1>3, <1>4, <1>5, <1>6, <1>7

(* The frames past the snapshot, up to frame b, carry on where it ends.    *)
LEMMA HistoryInFrames ==
  ASSUME TypeOK, FramesInOrder, SnapshotFits,
         NEW b \in 0..Len(journal.frames), snapshot.seq < journal.first + b
  PROVE  snapshot.log \o [j \in 1..(b - (snapshot.seq - journal.first + 1)) |->
                            journal.frames[(snapshot.seq - journal.first + 1) + j].id]
           = History(journal.first + b - 1)
<1> DEFINE a == snapshot.seq - journal.first + 1
           m == b - a
           v == [j \in 1..m |-> journal.frames[a + j].id]
<1>1. /\ journal.first \in Nat \ {0} /\ snapshot.seq \in Nat
      /\ journal.first <= snapshot.seq + 1
      /\ Len(journal.frames) \in Nat
  BY Shapes
<1>2. a \in Nat /\ m \in Nat /\ a + m = b
      /\ snapshot.seq + m = journal.first + b - 1
  BY <1>1
<1>3. v \in [1..m -> Record]
  <2>1. \A j \in 1..m : a + j \in 1..Len(journal.frames)
    <3> HIDE DEF a, m
    <3> QED BY <1>1, <1>2
  <2>2. \A k \in 1..Len(journal.frames) : journal.frames[k].id \in Record
    BY Shapes
  <2> HIDE DEF a, m
  <2>3. \A j \in 1..m : journal.frames[a + j].id \in Record
    BY <2>1, <2>2
  <2> QED BY <2>3
<1>4. snapshot.log \in Seq(Record) /\ Len(snapshot.log) = snapshot.seq
  BY Shapes
<1>5. snapshot.log \o v
        = [q \in 1..(snapshot.seq + m) |->
             IF q <= snapshot.seq THEN snapshot.log[q] ELSE v[q - snapshot.seq]]
  <2> HIDE DEF v, m
  <2>1. snapshot.log \o v
          = [q \in 1..(Len(snapshot.log) + m) |->
               IF q <= Len(snapshot.log) THEN snapshot.log[q] ELSE v[q - Len(snapshot.log)]]
    BY <1>2, <1>3, <1>4, Joined
  <2> QED BY <1>4, <2>1
<1>6. ASSUME NEW q \in 1..(snapshot.seq + m)
      PROVE  (IF q <= snapshot.seq THEN snapshot.log[q] ELSE v[q - snapshot.seq]) = RecordAt(q)
  <2>1. CASE q <= snapshot.seq
    BY <2>1 DEF RecordAt
  <2>2. CASE ~(q <= snapshot.seq)
    <3>1. q \in Int /\ q - snapshot.seq \in 1..m
      <4> HIDE DEF a, m
      <4> QED BY <1>1, <1>2, <2>2
    <3>2. a + (q - snapshot.seq) = q - journal.first + 1
      <4> HIDE DEF m
      <4> QED BY <1>1, <3>1
    <3>3. v[q - snapshot.seq] = journal.frames[q - journal.first + 1].id
      <4> HIDE DEF a, m
      <4> QED BY <3>1, <3>2
    <3> QED BY <2>2, <3>3 DEF RecordAt
  <2> QED BY <2>1, <2>2
<1>7. snapshot.log \o v = [q \in 1..(snapshot.seq + m) |-> RecordAt(q)]
  <2> HIDE DEF v, m
  <2> QED BY <1>5, <1>6
<1> QED BY <1>2, <1>7 DEF History


(* The durable records are those up to the last one held.                  *)
LEMMA DurableIsHeld ==
  ASSUME TypeOK, FramesInOrder, SnapshotFits
  PROVE  Durable = History(LastHeld)
<1> DEFINE safe == {k \in 1..journal.synced :
                      journal.frames[k].kind = "whole" /\ journal.frames[k].seq > snapshot.seq}
<1>1. /\ journal.synced \in Nat /\ journal.synced <= Len(journal.frames)
      /\ Len(journal.frames) \in Nat /\ DOMAIN journal.frames = 1..Len(journal.frames)
      /\ Held \in Nat /\ Held <= journal.synced
      /\ journal.first \in Nat \ {0} /\ snapshot.seq \in Nat
      /\ journal.first <= snapshot.seq + 1 /\ snapshot.seq < journal.first + Held
  BY Shapes
<1> DEFINE a == snapshot.seq - journal.first + 1
<1>2. ASSUME NEW k \in 1..journal.synced
      PROVE  k \in safe <=> k \in (a + 1)..Held
  <2>1. k \in DOMAIN journal.frames
    BY <1>1
  <2>2. journal.frames[k].kind = "whole" <=> k <= Held
    <3>1. CASE k < Len(journal.frames)
      BY <1>1, <2>1, <3>1 DEF FramesInOrder, Held
    <3>2. CASE k = Len(journal.frames)
      BY <1>1, <2>1, <3>2 DEF Held
    <3> QED BY <1>1, <3>1, <3>2
  <2>3. journal.frames[k].seq = journal.first + k - 1
    BY <2>1 DEF FramesInOrder
  <2> QED BY <1>1, <2>2, <2>3
<1>3. (a + 1)..Held \subseteq 1..journal.synced
  BY <1>1
<1>4. safe = (a + 1)..Held
  BY <1>2, <1>3
<1>5. a \in Nat /\ a <= Held
  BY <1>1
<1>6. Remaining(journal.frames, safe) = [j \in 1..(Held - a) |-> journal.frames[a + j]]
  <2> HIDE DEF a, safe
  <2>1. Held \in Nat
    BY <1>1
  <2>2. Remaining(journal.frames, (a + 1)..Held)
          = Stretch(journal.frames, a, Held)
    BY <1>5, <2>1, RemainingInterval
  <2> QED BY <1>4, <2>2 DEF Stretch
<1>7. Durable = snapshot.log \o Ids(Remaining(journal.frames, safe))
  BY Zenon DEF Durable
<1>8. Durable = snapshot.log \o [j \in 1..(Held - a) |-> journal.frames[a + j].id]
  <2> HIDE DEF a, safe
  <2> QED BY <1>6, <1>7 DEF Ids
<1>9. Held \in 0..Len(journal.frames)
  BY <1>1
<1> QED BY <1>1, <1>8, <1>9, HistoryInFrames DEF LastHeld

(* The frames an open keeps, and the state it has after replaying them.    *)
LEMMA ReplayedIsHistory ==
  ASSUME TypeOK, FramesInOrder, SnapshotFits, snapshot.sound
  PROVE  /\ Cut \in Seq(Frame) /\ Len(Cut) \in 0..Len(journal.frames)
         /\ \A k \in 1..Len(Cut) : Cut[k] = journal.frames[k] /\ Cut[k].kind = "whole"
         /\ Len(Cut) = IF Bad = {} THEN Len(journal.frames) ELSE Len(journal.frames) - 1
         /\ Held <= Len(Cut)
         /\ Replayed = [log |-> History(journal.first + Len(Cut) - 1),
                        last |-> journal.first + Len(Cut) - 1]
<1>1. /\ journal.frames \in Seq(Frame)
      /\ Len(journal.frames) \in Nat /\ DOMAIN journal.frames = 1..Len(journal.frames)
      /\ journal.synced \in Nat /\ journal.synced <= Len(journal.frames)
      /\ Held \in Nat /\ Held <= journal.synced
      /\ journal.first \in Nat \ {0} /\ snapshot.seq \in Nat
      /\ journal.first <= snapshot.seq + 1 /\ snapshot.seq < journal.first + Held
  BY Shapes
<1>2. Bad \subseteq {Len(journal.frames)} /\ Bad \subseteq 1..Len(journal.frames)
  BY <1>1 DEF Bad, FramesInOrder
<1>3. /\ Cut \in Seq(Frame) /\ Len(Cut) \in 0..Len(journal.frames)
      /\ \A k \in 1..Len(Cut) : Cut[k] = journal.frames[k] /\ Cut[k].kind = "whole"
      /\ Len(Cut) = IF Bad = {} THEN Len(journal.frames) ELSE Len(journal.frames) - 1
  <2>1. CASE Bad = {}
    BY <1>1, <2>1 DEF Bad, Cut
  <2>2. CASE Bad # {}
    <3>1. Len(journal.frames) \in 1..Len(journal.frames) /\ journal.frames # <<>>
      <4>1. PICK k \in Bad : TRUE
        BY <2>2
      <4> QED BY <1>1, <1>2, <4>1
    <3>2. Cut = [k \in 1..(Len(journal.frames) - 1) |-> journal.frames[k]]
      BY <2>2 DEF Cut, Front
    <3>3. Len(journal.frames) - 1 \in Nat /\ 1..(Len(journal.frames) - 1) \subseteq 1..Len(journal.frames)
      BY <1>1, <3>1
    <3>4. /\ Cut \in Seq(Frame) /\ Len(Cut) = Len(journal.frames) - 1
          /\ \A k \in 1..Len(Cut) : Cut[k] = journal.frames[k]
      BY <1>1, <3>2, <3>3
    <3>5. ASSUME NEW k \in 1..Len(Cut)
          PROVE  journal.frames[k].kind = "whole"
      <4>1. k \in DOMAIN journal.frames /\ k < Len(journal.frames)
        BY <1>1, <3>4
      <4> QED BY <4>1 DEF FramesInOrder
    <3> QED BY <1>1, <2>2, <3>1, <3>4, <3>5
  <2> QED BY <2>1, <2>2
<1>4. Held <= Len(Cut)
  <2>1. CASE Bad = {}
    BY <1>1, <1>3, <2>1
  <2>2. CASE Bad # {}
    <3>1. Len(journal.frames) \in Bad
      BY <1>2, <2>2
    <3>2. journal.frames[Len(journal.frames)].kind # "whole"
      BY <3>1 DEF Bad
    <3> QED BY <1>1, <1>2, <1>3, <2>2, <3>2 DEF Held
  <2> QED BY <2>1, <2>2
<1> DEFINE kept == {k \in DOMAIN Cut : ~Covered(Cut[k])}
           a == snapshot.seq - journal.first + 1
           rest == Remaining(Cut, kept)
<1>5. a \in Nat /\ a <= Len(Cut) /\ Len(Cut) \in Nat
  <2>1. Len(Cut) \in Nat
    BY <1>1, <1>3
  <2> QED BY <1>1, <1>4, <2>1
<1>6. kept = (a + 1)..Len(Cut)
  <2>1. DOMAIN Cut = 1..Len(Cut)
    BY <1>3
  <2>2. ASSUME NEW k \in 1..Len(Cut)
        PROVE  k \in kept <=> k \in (a + 1)..Len(Cut)
    <3>1. k \in DOMAIN journal.frames /\ Cut[k] = journal.frames[k] /\ k \in DOMAIN Cut
      <4>1. k \in 1..Len(journal.frames)
        <5>1. Len(Cut) \in 0..Len(journal.frames) /\ Len(journal.frames) \in Nat
          BY <1>1, <1>3
        <5> QED BY <5>1
      <4>2. Cut[k] = journal.frames[k]
        BY <1>3
      <4> QED BY <1>1, <2>1, <4>1, <4>2
    <3>2. Cut[k].seq = journal.first + k - 1
      BY <3>1 DEF FramesInOrder
    <3>3. k \in kept <=> ~(journal.first + k - 1 <= snapshot.seq)
      BY <3>1, <3>2 DEF Covered
    <3> HIDE DEF kept
    <3> QED BY <1>1, <1>5, <3>3
  <2>3. (a + 1)..Len(Cut) \subseteq 1..Len(Cut)
    BY <1>5
  <2> QED BY <2>1, <2>2, <2>3
<1>7. rest = [j \in 1..(Len(Cut) - a) |-> Cut[a + j]]
  <2> HIDE DEF a, kept
  <2>1. Remaining(Cut, (a + 1)..Len(Cut)) = Stretch(Cut, a, Len(Cut))
    BY <1>5, RemainingInterval
  <2> QED BY <1>6, <2>1 DEF Stretch
<1>8. Ids(rest) = [j \in 1..(Len(Cut) - a) |-> journal.frames[a + j].id]
  <2>1. \A j \in 1..(Len(Cut) - a) : Cut[a + j] = journal.frames[a + j]
    <3> HIDE DEF a
    <3> QED BY <1>3, <1>5
  <2> HIDE DEF a, rest
  <2>2. Ids(rest) = [j \in 1..(Len(Cut) - a) |-> rest[j].id]
    BY <1>7 DEF Ids
  <2> QED BY <1>7, <2>1, <2>2
<1>9. snapshot.log \o Ids(rest) = History(journal.first + Len(Cut) - 1)
  <2> HIDE DEF rest
  <2>1. Len(Cut) \in 0..Len(journal.frames) /\ snapshot.seq < journal.first + Len(Cut)
    <3>1. Len(Cut) \in 0..Len(journal.frames)
      BY <1>3
    <3>2. Held <= Len(Cut) /\ Len(Cut) \in Nat
      BY <1>4, <1>5
    <3>3. snapshot.seq < journal.first + Len(Cut)
      <4> HIDE DEF a, kept
      <4> QED BY <1>1, <3>2
    <3> QED BY <3>1, <3>3
  <2> QED BY <1>8, <2>1, HistoryInFrames
<1>10. (IF rest = <<>> THEN snapshot.seq ELSE rest[Len(rest)].seq) = journal.first + Len(Cut) - 1
  <2>1. CASE a = Len(Cut)
    <3>1. rest = <<>>
      <4> HIDE DEF a, rest
      <4> QED BY <1>5, <1>7, <2>1
    <3>2. snapshot.seq = journal.first + Len(Cut) - 1
      <4>1. snapshot.seq - journal.first + 1 = Len(Cut)
        BY <2>1
      <4> HIDE DEF a, rest, kept
      <4> QED BY <1>1, <1>5, <4>1
    <3> HIDE DEF rest
    <3> QED BY <3>1, <3>2
  <2>2. CASE a < Len(Cut)
    <3>1. Len(rest) = Len(Cut) - a /\ rest # <<>> /\ rest[Len(rest)] = Cut[Len(Cut)]
      <4> HIDE DEF a, rest
      <4>1. Len(Cut) - a \in Nat \ {0} /\ a + (Len(Cut) - a) = Len(Cut)
        BY <1>5, <2>2
      <4>2. Len(rest) = Len(Cut) - a
        BY <1>7, <4>1
      <4>3. rest[Len(rest)] = Cut[Len(Cut)]
        BY <1>7, <4>1, <4>2
      <4> QED BY <4>1, <4>2, <4>3
    <3>2. Len(Cut) \in DOMAIN journal.frames /\ Cut[Len(Cut)] = journal.frames[Len(Cut)]
      <4> HIDE DEF a
      <4>1. Len(Cut) \in 1..Len(Cut) /\ Len(Cut) \in 1..Len(journal.frames)
        <5>1. Len(Cut) \in Nat /\ Len(Cut) > 0
          BY <1>5, <2>2
        <5>2. Len(Cut) \in 0..Len(journal.frames)
          BY <1>3
        <5> QED BY <5>1, <5>2
      <4> QED BY <1>1, <1>3, <4>1
    <3>3. journal.frames[Len(Cut)].seq = journal.first + Len(Cut) - 1
      BY <3>2 DEF FramesInOrder
    <3> HIDE DEF rest
    <3> QED BY <3>1, <3>2, <3>3
  <2> QED BY <1>5, <2>1, <2>2
<1>11. Replayed = [log |-> snapshot.log \o Ids(rest),
                   last |-> IF rest = <<>> THEN snapshot.seq ELSE rest[Len(rest)].seq]
  BY DEF Replayed
<1> HIDE DEF rest
<1> QED BY <1>3, <1>4, <1>9, <1>10, <1>11
------------------------------------------------------------------------------
(* The steps keep the invariant.                                           *)

(* The records held stay held, under the numbers they have.                *)
HistoryGrows ==
  /\ LastHeld <= LastHeld'
  /\ \A q \in 1..LastHeld : RecordAt(q)' = RecordAt(q)

(* Records that stay where they are keep what is said of them.             *)
LEMMA RecordsKept ==
  ASSUME RecordsOnce,
         LastWritten \in Nat, LastWritten' \in Nat, LastWritten' <= LastWritten,
         LastHeld \in Nat, LastHeld' \in Nat, LastHeld <= LastHeld', LastHeld' <= LastWritten',
         \A q \in 1..LastWritten' : RecordAt(q)' = RecordAt(q),
         minted' = minted, refused' \subseteq 1..minted,
         \A q \in 1..LastWritten' : RecordAt(q) \notin refused',
         \A r \in acked' : r \in acked \/ \E q \in 1..LastHeld' : RecordAt(q) = r
  PROVE  RecordsOnce'
<1>1. ASSUME NEW p \in 1..LastWritten', NEW q \in 1..LastWritten', p < q
      PROVE  RecordAt(p)' < RecordAt(q)'
  BY <1>1 DEF RecordsOnce
<1>2. ASSUME NEW q \in 1..LastWritten'
      PROVE  RecordAt(q)' \in 1..minted' /\ RecordAt(q)' \notin refused'
  BY DEF RecordsOnce
<1>3. ASSUME NEW r \in acked'
      PROVE  \E q \in 1..LastHeld' : RecordAt(q)' = r
  <2>1. PICK q \in 1..LastHeld' : RecordAt(q) = r
    <3>1. CASE r \in acked
      BY <3>1 DEF RecordsOnce
    <3> QED BY <1>3, <3>1
  <2> QED BY <2>1
<1> QED BY <1>1, <1>2, <1>3 DEF RecordsOnce

(* What a step that leaves both files alone leaves in place.               *)
LEMMA FilesKept ==
  ASSUME UNCHANGED <<journal, snapshot>>
  PROVE  /\ LastWritten' = LastWritten /\ Held' = Held /\ LastHeld' = LastHeld /\ Bad' = Bad
         /\ \A q : RecordAt(q)' = RecordAt(q)
         /\ \A q : History(q)' = History(q)
         /\ FramesInOrder => FramesInOrder'
         /\ LastHeld \in Nat => HistoryGrows
<1>1. LastWritten' = LastWritten /\ Held' = Held /\ Bad' = Bad
  BY DEF LastWritten, Held, Bad
<1>2. LastHeld' = LastHeld
  BY <1>1 DEF LastHeld
<1>3. \A q : RecordAt(q)' = RecordAt(q)
  BY DEF RecordAt
<1>4. \A q : History(q)' = History(q)
  BY <1>3, Zenon DEF History
<1>5. FramesInOrder => FramesInOrder'
  BY Zenon DEF FramesInOrder
<1>6. LastHeld \in Nat => HistoryGrows
  BY <1>2, <1>3 DEF HistoryGrows
<1> QED BY <1>1, <1>2, <1>3, <1>4, <1>5, <1>6

(* The process is gone and the files are as they were.                     *)
LEMMA DownKept ==
  ASSUME StoreTyped, HistoryInv, Down, UNCHANGED <<journal, snapshot, minted, acked, refused>>,
         verdict' = verdict \/ verdict' = "store_full",
         pc # "down"
  PROVE  HistoryInv' /\ HistoryGrows
<1> USE DEF StoreTyped, HistoryInv, Down
<1>1. FramesInOrder'
  BY FilesKept
<1>2. SnapshotFits'
  BY DEF SnapshotFits
<1>3. MemoryFits'
  BY DEF MemoryFits, Loaded
<1>4. RecordsOnce'
  BY FilesKept DEF RecordsOnce
<1>5. VerdictFits'
  BY DEF VerdictFits
<1>6. HistoryGrows
  BY FilesKept, Shapes
<1> QED BY <1>1, <1>2, <1>3, <1>4, <1>5, <1>6

LEMMA StutterStep ==
  ASSUME StoreTyped, HistoryInv, UNCHANGED vars
  PROVE  HistoryInv' /\ HistoryGrows
<1> USE DEF StoreTyped, HistoryInv, vars
<1>1. FramesInOrder'
  BY FilesKept
<1>2. SnapshotFits'
  BY DEF SnapshotFits
<1>3. MemoryFits'
  <2>1. UNCHANGED <<journal, snapshot>>
    OBVIOUS
  <2>2. /\ LastWritten' = LastWritten /\ Held' = Held /\ LastHeld' = LastHeld /\ Bad' = Bad
        /\ History(memory.last)' = History(memory.last)
    BY <2>1, FilesKept DEF History
  <2> QED BY <2>2 DEF MemoryFits, Loaded
<1>4. RecordsOnce'
  BY FilesKept DEF RecordsOnce
<1>5. VerdictFits'
  BY DEF VerdictFits
<1>6. HistoryGrows
  BY FilesKept, Shapes
<1> QED BY <1>1, <1>2, <1>3, <1>4, <1>5, <1>6

(* No store that the process wrote looks damaged.                          *)
LEMMA RefusedStep ==
  ASSUME StoreTyped, HistoryInv, OpenRefused
  PROVE  HistoryInv' /\ HistoryGrows
<1> USE DEF StoreTyped, HistoryInv
<1>1. TailOnly
  <2>1. ASSUME NEW k \in Bad
        PROVE  k = Len(journal.frames)
    <3>1. k \in 1..Len(journal.frames) /\ Len(journal.frames) \in Nat
      BY Shapes DEF Bad
    <3> QED BY <3>1 DEF Bad, FramesInOrder
  <2> QED BY <2>1 DEF TailOnly
<1>2. Consecutive
  BY DEF Consecutive, FramesInOrder
<1>3. /\ Classified \in Verdict /\ Classified \notin {"corrupt", "sequence_gap"}
      /\ Classified = "truncated" => journal.header = "partial"
  BY <1>1, <1>2 DEF Classified, Verdict
<1>4. FramesInOrder'
  BY FilesKept DEF OpenRefused
<1>5. SnapshotFits'
  BY DEF SnapshotFits, OpenRefused
<1>6. MemoryFits'
  BY DEF MemoryFits, Loaded, OpenRefused
<1>7. RecordsOnce'
  BY FilesKept DEF RecordsOnce, OpenRefused
<1>8. VerdictFits'
  BY <1>3 DEF VerdictFits, OpenRefused
<1>9. HistoryGrows
  BY FilesKept, Shapes DEF OpenRefused
<1> QED BY <1>4, <1>5, <1>6, <1>7, <1>8, <1>9

(* A file without a header is a store without records.                     *)
LEMMA FreshStep ==
  ASSUME StoreTyped, HistoryInv, OpenFresh
  PROVE  HistoryInv' /\ HistoryGrows
<1> USE DEF StoreTyped, HistoryInv
<1>1. /\ journal' = [journal EXCEPT !.header = "partial"] /\ journal \in JournalFile
      /\ journal.header = "absent" /\ pc = "down" /\ pc' = "creating"
      /\ UNCHANGED <<snapshot, serving, memory, handle, minted, acked, refused, verdict>>
  BY DEF OpenFresh, TypeOK
<1>2. /\ journal' \in JournalFile /\ journal'.header = "partial"
      /\ journal'.first = journal.first /\ journal'.frames = journal.frames
      /\ journal'.synced = journal.synced
  BY <1>1 DEF JournalFile
<1>3. LastWritten' = LastWritten /\ Held' = Held /\ LastHeld' = LastHeld
  BY <1>2 DEF LastWritten, Held, LastHeld
<1>4. \A q : RecordAt(q)' = RecordAt(q)
  BY <1>1, <1>2 DEF RecordAt
<1>5. FramesInOrder'
  BY <1>2 DEF FramesInOrder
<1>6. SnapshotFits'
  BY <1>1, <1>2 DEF SnapshotFits, HeaderComesFirst, NoSnapshot
<1>7. MemoryFits'
  BY <1>1 DEF MemoryFits, Loaded
<1>8. RecordsOnce'
  BY <1>1, <1>3, <1>4 DEF RecordsOnce
<1>9. VerdictFits'
  BY <1>1 DEF VerdictFits
<1>10. HistoryGrows
  BY <1>3, <1>4, Shapes DEF HistoryGrows
<1> QED BY <1>5, <1>6, <1>7, <1>8, <1>9, <1>10

(* The process stops, of itself or because its recovery pass cannot write. *)
LEMMA StopStep ==
  ASSUME StoreTyped, HistoryInv, ProcessStops \/ OpenFull
  PROVE  HistoryInv' /\ HistoryGrows
<1>1. /\ Down /\ UNCHANGED <<journal, snapshot, minted, acked, refused>> /\ pc # "down"
      /\ verdict' = verdict \/ verdict' = "store_full"
  BY DEF ProcessStops, OpenFull
<1> QED BY <1>1, DownKept

(* A failed roll-back leaves the frame, and the handle refuses from then on.*)
LEMMA StuckStep ==
  ASSUME StoreTyped, HistoryInv, AppendStuck
  PROVE  HistoryInv' /\ HistoryGrows
<1>1. CASE ~serving
  BY <1>1, DownKept DEF AppendStuck
<1>2. CASE serving
  <2> USE DEF StoreTyped, HistoryInv
  <2>1. /\ pc' = "idle" /\ handle' = "unusable" /\ pc \in {"writing", "flushed"}
        /\ UNCHANGED <<journal, snapshot, serving, memory, minted, acked, refused, verdict>>
    BY <1>2 DEF AppendStuck
  <2>2. FramesInOrder'
    BY <2>1, FilesKept
  <2>3. SnapshotFits'
    BY <2>1 DEF SnapshotFits
  <2>4. MemoryFits'
    <3>1. /\ LastWritten' = LastWritten /\ Held' = Held /\ LastHeld' = LastHeld /\ Bad' = Bad
          /\ History(memory.last)' = History(memory.last)
      BY <2>1, FilesKept DEF History
    <3> QED BY <1>2, <2>1, <3>1 DEF MemoryFits, Loaded
  <2>5. RecordsOnce'
    BY <2>1, FilesKept DEF RecordsOnce
  <2>6. VerdictFits'
    BY <2>1 DEF VerdictFits
  <2>7. HistoryGrows
    BY <2>1, FilesKept, Shapes
  <2> QED BY <2>2, <2>3, <2>4, <2>5, <2>6, <2>7
<1> QED BY <1>1, <1>2 DEF StoreTyped, TypeOK
(* A new file has a header and nothing else, and no record is before it.   *)
LEMMA HeaderStep ==
  ASSUME StoreTyped, HistoryInv, HeaderWritten
  PROVE  HistoryInv' /\ HistoryGrows
<1> USE DEF StoreTyped, HistoryInv
<1>1. /\ pc = "creating" /\ pc' = "idle" /\ handle' = "open"
      /\ verdict' = "usable" /\ memory' = Replayed
      /\ UNCHANGED <<snapshot, serving, minted, acked, refused>>
      /\ journal' = [header |-> "whole", first |-> snapshot.seq + 1, frames |-> <<>>, synced |-> 0]
  BY DEF HeaderWritten
<1>2. /\ journal.frames = <<>> /\ journal.first = 1 /\ journal.synced = 0
      /\ snapshot = NoSnapshot /\ snapshot.seq = 0 /\ snapshot.sound
  BY <1>1 DEF HeaderComesFirst, NoSnapshot
<1>3. /\ journal'.header = "whole" /\ journal'.first = 1 /\ journal'.frames = <<>>
      /\ journal'.synced = 0 /\ journal' \in JournalFile
  BY <1>1, <1>2 DEF JournalFile
<1>4. Replayed = [log |-> History(0), last |-> 0]
  <2>1. Len(Cut) = 0
    BY <1>2, ReplayedIsHistory
  <2> QED BY <1>2, <2>1, ReplayedIsHistory
<1>5. /\ LastWritten = 0 /\ LastWritten' = 0 /\ Held = 0 /\ Held' = 0
      /\ LastHeld = 0 /\ LastHeld' = 0 /\ Bad' = {}
  BY <1>2, <1>3 DEF LastWritten, Held, LastHeld, Bad
<1>6. /\ memory'.last = 0 /\ memory'.log = <<>> /\ History(0)' = <<>>
  BY <1>1, <1>4 DEF History
<1>7. ~serving
  BY <1>1 DEF MemoryFits, Loaded
<1>8. FramesInOrder'
  BY <1>3, BoundAssumption DEF FramesInOrder
<1>9. SnapshotFits'
  BY <1>1, <1>2, <1>3 DEF SnapshotFits, NoSnapshot
<1>10. MemoryFits'
  BY <1>1, <1>2, <1>3, <1>5, <1>6, <1>7 DEF MemoryFits, Loaded
<1>11. RecordsOnce'
  BY <1>1, <1>5 DEF RecordsOnce
<1>12. VerdictFits'
  BY <1>1 DEF VerdictFits
<1>13. HistoryGrows
  BY <1>5 DEF HistoryGrows
<1> QED BY <1>8, <1>9, <1>10, <1>11, <1>12, <1>13

(* An open cuts off a tail nothing rests on and has the rest in memory.    *)
LEMMA ExistingStep ==
  ASSUME StoreTyped, HistoryInv, OpenExisting
  PROVE  HistoryInv' /\ HistoryGrows
<1> USE DEF StoreTyped, HistoryInv
<1> DEFINE n == Len(Cut)
<1>1. /\ pc = "down" /\ pc' = "idle" /\ handle' = "open"
      /\ Classified = "usable" /\ journal.header = "whole"
      /\ verdict' = "usable" /\ memory' = Replayed
      /\ UNCHANGED <<snapshot, serving, minted, acked, refused>>
      /\ journal' = [journal EXCEPT !.frames = Cut,
                                    !.synced = IF journal.synced > n THEN n ELSE journal.synced]
  BY DEF OpenExisting
<1>2. snapshot.sound
  <2>1. ~(~snapshot.sound /\ journal.first > 1)
    BY <1>1, Zenon DEF Classified
  <2> QED BY <2>1 DEF SnapshotFits
<1>3. /\ Cut \in Seq(Frame) /\ n \in Nat /\ n <= Len(journal.frames) /\ Held <= n
      /\ \A k \in 1..n : Cut[k] = journal.frames[k] /\ Cut[k].kind = "whole"
      /\ Replayed = [log |-> History(journal.first + n - 1), last |-> journal.first + n - 1]
  BY <1>2, ReplayedIsHistory, Shapes
<1>4. /\ journal.frames \in Seq(Frame) /\ Len(journal.frames) \in Nat
      /\ DOMAIN journal.frames = 1..Len(journal.frames)
      /\ journal.first \in Nat \ {0} /\ journal.synced \in Nat
      /\ snapshot.seq \in Nat /\ journal.first <= snapshot.seq + 1
      /\ Held \in Nat /\ Held <= journal.synced /\ snapshot.seq < journal.first + Held
      /\ LastHeld \in Nat /\ LastWritten \in Nat
  BY Shapes
<1>5. /\ journal'.header = "whole" /\ journal'.first = journal.first
      /\ journal'.frames = Cut
      /\ journal'.synced = IF journal.synced > n THEN n ELSE journal.synced
      /\ journal'.synced \in 0..n /\ Held <= journal'.synced
  <2> HIDE DEF n
  <2>1. journal \in JournalFile
    BY DEF TypeOK
  <2>2. /\ journal'.header = "whole" /\ journal'.first = journal.first
        /\ journal'.frames = Cut
        /\ journal'.synced = IF journal.synced > n THEN n ELSE journal.synced
    BY <1>1, <2>1 DEF JournalFile
  <2>3. n \in Nat /\ Held <= n
    BY <1>3
  <2>4. journal'.synced \in 0..n /\ Held <= journal'.synced
    BY <1>4, <2>2, <2>3
  <2> QED BY <2>2, <2>4
<1>6. DOMAIN Cut = 1..n /\ Bad' = {}
  BY <1>3, <1>5 DEF Bad
<1>7. Held' = journal'.synced
  <2>1. journal'.synced > 0 => journal'.frames[journal'.synced].kind = "whole"
    BY <1>3, <1>5
  <2> QED BY <2>1 DEF Held
<1>8. /\ LastWritten' = journal.first + n - 1 /\ LastWritten' \in Nat
      /\ LastHeld' = journal.first + journal'.synced - 1 /\ LastHeld' \in Nat
      /\ LastWritten' <= LastWritten /\ LastHeld <= LastHeld' /\ LastHeld' <= LastWritten'
  <2> HIDE DEF n
  <2>1. Len(journal'.frames) = n
    BY <1>5 DEF n
  <2>2. n \in Nat /\ n <= Len(journal.frames)
    BY <1>3
  <2>3. journal'.first = journal.first /\ journal'.synced \in 0..n /\ Held <= journal'.synced
    BY <1>5
  <2>4. LastWritten' = journal.first + n - 1 /\ LastHeld' = journal.first + journal'.synced - 1
    BY <1>7, <2>1, <2>3 DEF LastWritten, LastHeld
  <2>5. LastWritten = journal.first + Len(journal.frames) - 1 /\ LastHeld = journal.first + Held - 1
    BY DEF LastWritten, LastHeld
  <2>6. journal.first \in Nat \ {0} /\ Held \in Nat /\ Len(journal.frames) \in Nat
    BY <1>4
  <2>7. journal'.synced \in Nat /\ journal'.synced <= n
    BY <2>2, <2>3
  <2>8. LastWritten' \in Nat /\ LastWritten' <= LastWritten
    BY <2>2, <2>4, <2>5, <2>6, NumbersOrdered
  <2>9. LastHeld' \in Nat /\ LastHeld <= LastHeld'
    BY <2>3, <2>4, <2>5, <2>6, <2>7, NumbersOrdered
  <2>10. LastHeld' <= LastWritten'
    BY <2>2, <2>4, <2>6, <2>7, NumbersOrdered
  <2> QED BY <2>4, <2>8, <2>9, <2>10
<1>9. ASSUME NEW q \in 1..LastWritten'
      PROVE  RecordAt(q)' = RecordAt(q)
  <2>1. q \in 1..(journal.first + n - 1)
    BY <1>8
  <2>2. CASE q <= snapshot.seq
    BY <1>1, <2>2 DEF RecordAt
  <2>3. CASE ~(q <= snapshot.seq)
    <3>1. q - journal.first + 1 \in 1..n
      <4>1. n \in Nat
        BY <1>3
      <4> HIDE DEF n
      <4> QED BY <1>4, <2>1, <2>3, <4>1, FrameOf
    <3> QED BY <1>1, <1>3, <1>5, <2>3, <3>1 DEF RecordAt
  <2> QED BY <2>2, <2>3
<1>10. /\ memory'.last = LastWritten' /\ memory'.log = History(memory'.last)
       /\ History(memory.last)' = History(memory'.last)
  <2>1. memory'.last = LastWritten' /\ memory'.log = History(memory'.last)
    BY <1>1, <1>3, <1>8
  <2> QED BY <1>9, <2>1 DEF History
<1>11. ~serving
  BY <1>1 DEF MemoryFits, Loaded
<1>12. FramesInOrder'
  <2>1. ASSUME NEW k \in DOMAIN Cut
        PROVE  Cut[k].seq = journal.first + k - 1 /\ Cut[k].kind = "whole"
    <3>1. k \in 1..n /\ k \in DOMAIN journal.frames
      BY <1>3, <1>4, <1>6
    <3> QED BY <1>3, <3>1 DEF FramesInOrder
  <2> QED BY <1>5, <2>1 DEF FramesInOrder
<1>13. SnapshotFits'
  <2>1. \A k \in DOMAIN Cut : Cut[k].kind = "whole"
    BY <1>3, <1>6
  <2>2. snapshot.seq < journal.first + journal'.synced
    <3>1. journal'.synced \in Nat /\ Held <= journal'.synced
      BY <1>3, <1>5
    <3> QED BY <1>4, <3>1
  <2> QED BY <1>1, <1>2, <1>5, <2>1, <2>2 DEF SnapshotFits
<1>14. MemoryFits'
  <2>1. memory'.last \in Nat /\ memory'.last >= snapshot.seq
    <3> HIDE DEF n
    <3> QED BY <1>3, <1>4, <1>8, <1>10
  <2> QED BY <1>1, <1>5, <1>6, <1>10, <1>11, <2>1 DEF MemoryFits, Loaded
<1>15. RecordsOnce'
  <2>1. refused' \subseteq 1..minted /\ \A q \in 1..LastWritten' : RecordAt(q) \notin refused'
    <3>1. \A q \in 1..LastWritten' : q \in 1..LastWritten
      BY <1>4, <1>8
    <3> QED BY <1>1, <3>1 DEF RecordsOnce
  <2>2. acked' = acked /\ minted' = minted
    BY <1>1
  <2> QED BY <1>4, <1>8, <1>9, <2>1, <2>2, RecordsKept
<1>16. VerdictFits'
  BY <1>1 DEF VerdictFits
<1>17. HistoryGrows
  <2>1. \A q \in 1..LastHeld : q \in 1..LastWritten'
    BY <1>4, <1>8
  <2> QED BY <1>8, <1>9, <2>1 DEF HistoryGrows
<1> QED BY <1>12, <1>13, <1>14, <1>15, <1>16, <1>17
(* An append puts a frame with the next number behind whole frames.        *)
LEMMA BeginsStep ==
  ASSUME StoreTyped, HistoryInv, AppendBegins
  PROVE  HistoryInv' /\ HistoryGrows
<1> USE DEF StoreTyped, HistoryInv
<1> DEFINE n == Len(journal.frames)
           r == [kind |-> "torn", seq |-> memory.last + 1, id |-> minted + 1]
<1>1. /\ pc = "idle" /\ pc' = "writing" /\ handle = "open"
      /\ minted < MaxRecord /\ minted' = minted + 1
      /\ UNCHANGED <<snapshot, serving, memory, handle, acked, refused, verdict>>
      /\ journal' = [journal EXCEPT !.frames = Append(journal.frames, r)]
  BY DEF AppendBegins
<1>2. /\ journal.frames \in Seq(Frame) /\ n \in Nat /\ DOMAIN journal.frames = 1..n
      /\ journal.first \in Nat \ {0} /\ journal.synced \in Nat /\ journal.synced <= n
      /\ snapshot.seq \in Nat /\ journal.first <= snapshot.seq + 1
      /\ Held \in Nat /\ Held <= journal.synced /\ snapshot.seq < journal.first + Held
      /\ LastHeld \in Nat /\ LastWritten \in Nat /\ LastHeld <= LastWritten
  BY Shapes
<1>3. /\ Bad = {} /\ memory.last = LastWritten
      /\ memory.log = History(memory.last) /\ memory.last >= snapshot.seq
      /\ serving => Held = journal.synced /\ memory.last = LastHeld
  BY <1>1 DEF MemoryFits, Loaded
<1>4. r \in Frame /\ minted \in Nat /\ minted + 1 \in Record
  <2>1. minted + 1 \in Record /\ minted \in Nat
    BY <1>1, BoundAssumption DEF TypeOK, Record
  <2> QED BY <1>2, <1>3, <2>1 DEF Frame
<1>5. /\ journal'.frames \in Seq(Frame) /\ Len(journal'.frames) = n + 1
      /\ DOMAIN journal'.frames = 1..(n + 1)
      /\ journal'.frames[n + 1] = r
      /\ \A k \in 1..n : journal'.frames[k] = journal.frames[k]
      /\ journal'.header = journal.header /\ journal'.first = journal.first
      /\ journal'.synced = journal.synced /\ journal' \in JournalFile
  <2>1. journal \in JournalFile
    BY DEF TypeOK
  <2>2. /\ Append(journal.frames, r) \in Seq(Frame) /\ Len(Append(journal.frames, r)) = n + 1
        /\ DOMAIN Append(journal.frames, r) = 1..(n + 1)
        /\ Append(journal.frames, r)[n + 1] = r
        /\ \A k \in 1..n : Append(journal.frames, r)[k] = journal.frames[k]
    <3> HIDE DEF r
    <3> QED BY <1>2, <1>4
  <2> HIDE DEF r, n
  <2> QED BY <1>1, <2>1, <2>2 DEF JournalFile
<1>6. r.seq = LastWritten + 1 /\ r.kind = "torn" /\ r.id = minted + 1
      /\ LastWritten + 1 = journal.first + n
  BY <1>2, <1>3 DEF LastWritten
<1> HIDE DEF r
<1>7. /\ LastWritten' = LastWritten + 1 /\ Held' = Held /\ LastHeld' = LastHeld
  <2>1. LastWritten' = LastWritten + 1
    <3> HIDE DEF n
    <3> QED BY <1>2, <1>5, <1>6 DEF LastWritten
  <2>2. journal.synced > 0 => journal'.frames[journal.synced] = journal.frames[journal.synced]
    BY <1>2, <1>5
  <2>3. Held' = Held
    BY <1>2, <1>5, <2>2 DEF Held
  <2> QED BY <1>5, <2>1, <2>3 DEF LastHeld
<1>8. ASSUME NEW q \in 1..LastWritten
      PROVE  RecordAt(q)' = RecordAt(q)
  <2>1. CASE q <= snapshot.seq
    BY <1>1, <2>1 DEF RecordAt
  <2>2. CASE ~(q <= snapshot.seq)
    <3>1. q - journal.first + 1 \in 1..n
      <4> HIDE DEF n
      <4>1. LastWritten = journal.first + n - 1
        BY DEF LastWritten, n
      <4>2. q \in 1..(journal.first + n - 1)
        BY <4>1
      <4> QED BY <1>2, <2>2, <4>2, FrameOf
    <3> QED BY <1>1, <1>5, <2>2, <3>1 DEF RecordAt
  <2> QED BY <2>1, <2>2
<1>9. RecordAt(LastWritten)' = minted + 1
  <2>1. PICK w : w = LastWritten'
    OBVIOUS
  <2>2. w = journal.first + n
    BY <1>6, <1>7, <2>1
  <2>3. ~(w <= snapshot.seq) /\ w - journal.first + 1 = n + 1
    <3> HIDE DEF n
    <3>1. snapshot.seq <= LastWritten /\ snapshot.seq \in Nat /\ LastWritten \in Nat
      BY <1>2, <1>3
    <3>2. w = LastWritten + 1
      BY <1>6, <2>2
    <3>3. w - journal.first + 1 = n + 1
      BY <1>2, <2>2
    <3> QED BY <3>1, <3>2, <3>3
  <2>4. RecordAt(w)' = journal'.frames[n + 1].id
    BY <1>1, <1>5, <2>3 DEF RecordAt
  <2>5. RecordAt(LastWritten)' = RecordAt(w)'
    BY <2>1 DEF RecordAt
  <2> QED BY <1>5, <1>6, <2>4, <2>5
<1>10. FramesInOrder'
  <2>1. ASSUME NEW k \in 1..(n + 1)
        PROVE  /\ journal'.frames[k].seq = journal.first + k - 1
               /\ k < n + 1 => journal'.frames[k].kind = "whole"
    <3>1. CASE k = n + 1
      <4> HIDE DEF n
      <4> QED BY <1>2, <1>5, <1>6, <3>1
    <3>2. CASE k \in 1..n
      BY <1>2, <1>3, <1>5, <3>2 DEF FramesInOrder, Bad
    <3>3. n \in Nat
      BY <1>2
    <3> HIDE DEF n
    <3> QED BY <3>1, <3>2, <3>3
  <2> HIDE DEF n
  <2> QED BY <1>5, <2>1 DEF FramesInOrder
<1>11. SnapshotFits'
  <2>1. ASSUME NEW k \in 1..(n + 1), journal'.frames[k].seq <= snapshot.seq
        PROVE  journal'.frames[k].kind = "whole"
    <3>1. CASE k = n + 1
      <4> HIDE DEF n
      <4> QED BY <1>2, <1>3, <1>5, <1>6, <2>1, <3>1
    <3>2. CASE k \in 1..n
      BY <1>2, <1>5, <2>1, <3>2 DEF SnapshotFits
    <3> QED BY <1>2, <3>1, <3>2
  <2> HIDE DEF n
  <2> QED BY <1>1, <1>5, <2>1 DEF SnapshotFits
<1>12. MemoryFits'
  <2>1. memory'.log = History(memory.last)'
    <3>1. PICK w : w = memory.last
      OBVIOUS
    <3>2. History(w)' = History(w)
      BY <1>3, <1>8, <3>1 DEF History
    <3>3. History(w)' = History(memory.last)' /\ History(w) = History(memory.last)
      BY <1>1, <3>1 DEF History
    <3>4. memory'.log = memory.log /\ memory.log = History(memory.last)
      BY <1>1, <1>3
    <3> QED BY <3>2, <3>3, <3>4
  <2>2. memory'.last = LastWritten' - 1
    <3> HIDE DEF n
    <3> QED BY <1>1, <1>2, <1>3, <1>5, <1>7
  <2>3. memory'.last \in Nat /\ memory'.last >= snapshot'.seq
    BY <1>1, <1>2, <1>3
  <2>4. serving' => Held' = journal'.synced /\ memory'.last = LastHeld'
    BY <1>1, <1>3, <1>5, <1>7
  <2> HIDE DEF n
  <2> QED BY <1>1, <2>1, <2>2, <2>3, <2>4 DEF MemoryFits, Loaded
<1>13. RecordsOnce'
  <2>1. /\ LastWritten' \in Nat /\ LastHeld' = LastHeld
        /\ 1..LastWritten' = 1..LastWritten \cup {LastWritten'}
        /\ \A q \in 1..LastWritten : q < LastWritten'
    BY <1>2, <1>7
  <2>2. ASSUME NEW q \in 1..LastWritten
        PROVE  RecordAt(q)' \in 1..minted /\ RecordAt(q)' \notin refused
    BY <1>8 DEF RecordsOnce
  <2>3. PICK w : w = LastWritten'
    OBVIOUS
  <2>4. RecordAt(w)' = minted + 1
    BY <1>9, <2>3 DEF RecordAt
  <2>5. ASSUME NEW p \in 1..w, NEW q \in 1..w, p < q
        PROVE  RecordAt(p)' < RecordAt(q)'
    <3>1. p \in 1..LastWritten
      BY <1>2, <1>7, <2>3, <2>5
    <3>2. CASE q = w
      BY <1>4, <2>2, <2>4, <3>1, <3>2
    <3>3. CASE q \in 1..LastWritten
      BY <1>8, <2>5, <3>1, <3>3 DEF RecordsOnce
    <3> QED BY <2>1, <2>3, <3>2, <3>3
  <2>6. ASSUME NEW q \in 1..w
        PROVE  RecordAt(q)' \in 1..minted' /\ RecordAt(q)' \notin refused'
    <3>1. refused \subseteq 1..minted
      BY DEF RecordsOnce
    <3>2. CASE q = w
      BY <1>1, <1>4, <2>4, <3>1, <3>2
    <3>3. CASE q \in 1..LastWritten
      BY <1>1, <1>4, <2>2, <3>3
    <3> QED BY <2>1, <2>3, <3>2, <3>3
  <2>7. refused' \subseteq 1..minted'
    BY <1>1, <1>4 DEF RecordsOnce
  <2>8. \A s \in acked' : \E q \in 1..LastHeld' : RecordAt(q)' = s
    <3>1. \A q \in 1..LastHeld : q \in 1..LastWritten
      BY <1>2
    <3> QED BY <1>1, <1>7, <1>8, <3>1 DEF RecordsOnce
  <2> QED BY <2>3, <2>5, <2>6, <2>7, <2>8 DEF RecordsOnce
<1>14. VerdictFits'
  BY <1>1 DEF VerdictFits
<1>15. HistoryGrows
  <2>1. \A q \in 1..LastHeld : q \in 1..LastWritten
    BY <1>2
  <2> QED BY <1>2, <1>7, <1>8, <2>1 DEF HistoryGrows
<1> QED BY <1>10, <1>11, <1>12, <1>13, <1>14, <1>15
(* The frame is complete in the file; nothing else changes.                *)
LEMMA FlushedStep ==
  ASSUME StoreTyped, HistoryInv, AppendFlushed
  PROVE  HistoryInv' /\ HistoryGrows
<1> USE DEF StoreTyped, HistoryInv
<1> DEFINE n == Len(journal.frames)
<1>1. /\ pc = "writing" /\ pc' = "flushed"
      /\ UNCHANGED <<snapshot, serving, memory, handle, minted, acked, refused, verdict>>
      /\ journal' = [journal EXCEPT !.frames[n].kind = "whole"]
  BY DEF AppendFlushed
<1>2. /\ journal.frames \in Seq(Frame) /\ n \in Nat /\ DOMAIN journal.frames = 1..n
      /\ journal.first \in Nat \ {0} /\ journal.synced \in Nat /\ journal.synced <= n
      /\ Held \in Nat /\ Held <= journal.synced
      /\ LastHeld \in Nat /\ LastWritten \in Nat /\ LastHeld <= LastWritten
  BY Shapes
<1>3. /\ handle = "open" /\ journal.synced < n /\ memory.last = LastWritten - 1
      /\ memory.last \in Nat /\ memory.last >= snapshot.seq /\ memory.log = History(memory.last)
      /\ serving => Held = journal.synced /\ memory.last = LastHeld
  BY <1>1 DEF MemoryFits, Loaded, CountFits
<1>4. /\ journal'.frames = [journal.frames EXCEPT ![n].kind = "whole"]
      /\ journal'.header = journal.header /\ journal'.first = journal.first
      /\ journal'.synced = journal.synced
  BY <1>1 DEF TypeOK, JournalFile
<1>5. /\ journal'.frames \in Seq(Frame) /\ Len(journal'.frames) = n
      /\ DOMAIN journal'.frames = 1..n
      /\ \A k \in 1..n : /\ journal'.frames[k].id = journal.frames[k].id
                         /\ journal'.frames[k].seq = journal.frames[k].seq
                         /\ k < n => journal'.frames[k] = journal.frames[k]
      /\ journal'.frames[n].kind = "whole"
  <2>1. /\ n \in 1..n
        /\ \A k \in 1..n : journal.frames[k] \in Frame
    BY <1>2, <1>3
  <2>2. [journal.frames[n] EXCEPT !.kind = "whole"]
          = [kind |-> "whole", seq |-> journal.frames[n].seq, id |-> journal.frames[n].id]
    BY <2>1 DEF Frame
  <2>3. journal'.frames = [k \in 1..n |->
                             IF k = n THEN [kind |-> "whole", seq |-> journal.frames[n].seq,
                                            id |-> journal.frames[n].id]
                                      ELSE journal.frames[k]]
    BY <1>2, <1>4, <2>1, <2>2
  <2>4. [kind |-> "whole", seq |-> journal.frames[n].seq, id |-> journal.frames[n].id] \in Frame
    BY <2>1 DEF Frame
  <2> HIDE DEF n
  <2> QED BY <1>2, <2>1, <2>3, <2>4
<1>6. LastWritten' = LastWritten /\ Held' = Held /\ LastHeld' = LastHeld /\ Bad' = {}
  <2>1. LastWritten' = LastWritten
    BY <1>4, <1>5 DEF LastWritten
  <2>2. journal.synced > 0 => journal'.frames[journal.synced] = journal.frames[journal.synced]
    BY <1>2, <1>3, <1>5
  <2>3. Held' = Held
    BY <1>4, <2>2 DEF Held
  <2>4. ASSUME NEW k \in 1..n
        PROVE  journal'.frames[k].kind = "whole"
    <3>1. CASE k = n
      BY <1>5, <3>1
    <3>2. CASE k < n
      BY <1>2, <1>5, <3>2 DEF FramesInOrder
    <3> QED BY <1>2, <3>1, <3>2
  <2> QED BY <1>4, <1>5, <2>1, <2>3, <2>4 DEF LastHeld, Bad
<1>7. ASSUME NEW q \in 1..LastWritten
      PROVE  RecordAt(q)' = RecordAt(q)
  <2>1. CASE q <= snapshot.seq
    BY <1>1, <2>1 DEF RecordAt
  <2>2. CASE ~(q <= snapshot.seq)
    <3>1. q - journal.first + 1 \in 1..n
      <4>1. /\ journal.first \in Nat /\ n \in Nat
            /\ journal.first <= snapshot.seq + 1 /\ snapshot.seq \in Nat
        BY Shapes
      <4>2. q \in 1..(journal.first + n - 1)
        BY DEF LastWritten
      <4> HIDE DEF n
      <4> QED BY <2>2, <4>1, <4>2, FrameOf
    <3> QED BY <1>1, <1>4, <1>5, <2>2, <3>1 DEF RecordAt
  <2> QED BY <2>1, <2>2
<1>8. FramesInOrder'
  <2>1. \A k \in 1..n : /\ journal'.frames[k].seq = journal.first + k - 1
                        /\ k < n => journal'.frames[k].kind = "whole"
    BY <1>2, <1>5 DEF FramesInOrder
  <2> HIDE DEF n
  <2> QED BY <1>4, <1>5, <2>1 DEF FramesInOrder
<1>9. SnapshotFits'
  <2>1. \A k \in DOMAIN journal'.frames : journal'.frames[k].kind = "whole"
    BY <1>6 DEF Bad
  <2> QED BY <1>1, <1>4, <2>1 DEF SnapshotFits
<1>10. MemoryFits'
  <2>1. memory'.log = History(memory.last)'
    <3>1. PICK w : w = memory.last
      OBVIOUS
    <3>2. \A q \in 1..w : RecordAt(q)' = RecordAt(q)
      BY <1>2, <1>3, <1>7, <3>1
    <3>3. History(w)' = History(w)
      BY <3>2 DEF History
    <3>4. History(w)' = History(memory.last)' /\ History(w) = History(memory.last)
      BY <1>1, <3>1 DEF History
    <3>5. memory'.log = memory.log /\ memory.log = History(memory.last)
      BY <1>1, <1>3
    <3> QED BY <3>3, <3>4, <3>5
  <2> HIDE DEF n
  <2> QED BY <1>1, <1>3, <1>4, <1>5, <1>6, <2>1 DEF MemoryFits, Loaded, n
<1>11. RecordsOnce'
  <2>1. \A r \in acked : \E q \in 1..LastHeld : RecordAt(q) = r
    BY DEF RecordsOnce
  <2>2. refused \subseteq 1..minted /\ \A q \in 1..LastWritten : RecordAt(q) \notin refused
    BY DEF RecordsOnce
  <2> QED BY <1>1, <1>2, <1>6, <1>7, <2>1, <2>2, RecordsKept
<1>12. VerdictFits'
  BY <1>1 DEF VerdictFits
<1>13. HistoryGrows
  BY <1>2, <1>6, <1>7 DEF HistoryGrows
<1> QED BY <1>8, <1>9, <1>10, <1>11, <1>12, <1>13

(* The record is durable, in memory and acknowledged.                      *)
LEMMA CommittedStep ==
  ASSUME StoreTyped, HistoryInv, Committed
  PROVE  HistoryInv' /\ HistoryGrows
<1> USE DEF StoreTyped, HistoryInv
<1> DEFINE n == Len(journal.frames)
           r == journal.frames[n]
<1>1. /\ pc = "flushed" /\ pc' = "idle" /\ serving' \in {TRUE, serving}
      /\ memory' = [log |-> Append(memory.log, r.id), last |-> r.seq]
      /\ acked' = acked \cup {r.id}
      /\ UNCHANGED <<snapshot, handle, minted, refused, verdict>>
      /\ journal' = [journal EXCEPT !.synced = n]
  BY DEF Committed, SyncedFrames, Applied, Last
<1>2. /\ journal.frames \in Seq(Frame) /\ n \in Nat /\ DOMAIN journal.frames = 1..n
      /\ journal.first \in Nat \ {0} /\ journal.synced \in Nat /\ journal.synced <= n
      /\ snapshot.seq \in Nat
      /\ LastHeld \in Nat /\ LastWritten \in Nat /\ LastHeld <= LastWritten
  BY Shapes
<1>3. /\ handle = "open" /\ journal.synced < n /\ memory.last = LastWritten - 1
      /\ memory.last \in Nat /\ memory.last >= snapshot.seq /\ memory.log = History(memory.last)
      /\ Bad = {}
  BY <1>1 DEF MemoryFits, Loaded, CountFits
<1>4. /\ journal'.frames = journal.frames /\ journal'.synced = n
      /\ journal'.header = journal.header /\ journal'.first = journal.first
      /\ journal' \in JournalFile
  BY <1>1, <1>2 DEF TypeOK, JournalFile
<1>5. n \in 1..n /\ r \in Frame /\ r.kind = "whole" /\ r.seq = LastWritten
  <2>1. n \in 1..n
    BY <1>2, <1>3
  <2>2. r.kind = "whole"
    BY <1>2, <1>3, <2>1 DEF Bad
  <2>3. r.seq = LastWritten
    BY <1>2, <2>1 DEF FramesInOrder, LastWritten
  <2> QED BY <1>2, <2>1, <2>2, <2>3
<1>6. /\ LastWritten' = LastWritten /\ Held' = n /\ LastHeld' = LastWritten /\ Bad' = {}
  <2>1. LastWritten' = LastWritten /\ Held' = n
    BY <1>4, <1>5 DEF LastWritten, Held
  <2> QED BY <1>3, <1>4, <2>1 DEF LastWritten, LastHeld, Bad
<1>7. \A q : RecordAt(q)' = RecordAt(q)
  BY <1>1, <1>4 DEF RecordAt
<1>8. RecordAt(LastWritten) = r.id /\ LastWritten \in 1..LastWritten
  <2>1. ~(LastWritten <= snapshot.seq) /\ LastWritten - journal.first + 1 = n
        /\ LastWritten \in 1..LastWritten
    <3> HIDE DEF n
    <3>1. LastWritten = journal.first + n - 1
      BY DEF LastWritten, n
    <3>2. snapshot.seq < LastWritten /\ snapshot.seq \in Nat /\ LastWritten \in Nat
      BY <1>2, <1>3
    <3>3. n \in Nat /\ journal.first \in Nat
      BY <1>2
    <3>4. LastWritten - journal.first + 1 = n
      BY <3>1, <3>3
    <3> QED BY <3>2, <3>4
  <2> QED BY <2>1 DEF RecordAt
<1>9. /\ memory' \in [log: Seq(Record), last: Nat]
      /\ memory'.last = LastWritten /\ memory'.log = History(LastWritten)
  <2>1. memory.log \in Seq(Record) /\ r.id \in Record
    BY <1>5 DEF TypeOK, Frame
  <2>2. /\ Len(memory.log) = LastWritten - 1
        /\ \A q \in 1..(LastWritten - 1) : memory.log[q] = RecordAt(q)
    BY <1>3 DEF History
  <2> DEFINE longer == Append(memory.log, r.id)
  <2>3. /\ longer \in Seq(Record) /\ Len(longer) = LastWritten
        /\ \A q \in 1..LastWritten : longer[q] = RecordAt(q)
    <3> HIDE DEF r
    <3> QED BY <1>2, <1>3, <1>8, <2>1, <2>2
  <2> HIDE DEF longer
  <2>4. longer = [q \in 1..LastWritten |-> longer[q]]
    BY <1>2, <2>3
  <2>5. longer = History(LastWritten)
    BY <2>3, <2>4 DEF History
  <2>6. memory' = [log |-> longer, last |-> LastWritten]
    BY <1>1, <1>5 DEF longer
  <2> QED BY <1>2, <2>3, <2>5, <2>6
<1>10. FramesInOrder'
  BY <1>4 DEF FramesInOrder
<1>11. SnapshotFits'
  <2>1. snapshot.seq < journal.first + n
    <3> HIDE DEF n
    <3>1. LastWritten = journal.first + n - 1
      BY DEF LastWritten, n
    <3> QED BY <1>2, <1>3, <3>1
  <2>2. \A k \in DOMAIN journal'.frames : journal'.frames[k].kind = "whole"
    BY <1>6 DEF Bad
  <2> QED BY <1>1, <1>4, <2>1, <2>2 DEF SnapshotFits
<1>12. MemoryFits'
  <2>1. memory'.log = History(memory.last)'
    <3>1. PICK w : w = LastWritten
      OBVIOUS
    <3>2. History(w)' = History(w)
      BY <1>7, Zenon DEF History
    <3>3. History(w)' = History(memory.last)' /\ History(w) = History(LastWritten)
      BY <1>9, <3>1 DEF History
    <3> QED BY <1>9, <3>2, <3>3
  <2>2. memory'.last \in Nat /\ memory'.last >= snapshot'.seq
    <3>1. memory'.last = LastWritten /\ snapshot'.seq = snapshot.seq
      BY <1>1, <1>9
    <3>2. LastWritten \in Nat /\ LastWritten >= snapshot.seq
      BY <1>2, <1>3
    <3> QED BY <3>1, <3>2
  <2> QED BY <1>1, <1>3, <1>4, <1>6, <1>9, <2>1, <2>2 DEF MemoryFits, Loaded
<1>13. RecordsOnce'
  <2>1. \A s \in acked' : s \in acked \/ \E q \in 1..LastHeld' : RecordAt(q) = s
    BY <1>1, <1>6, <1>8
  <2>2. refused \subseteq 1..minted /\ \A q \in 1..LastWritten : RecordAt(q) \notin refused
    BY DEF RecordsOnce
  <2> QED BY <1>1, <1>2, <1>6, <1>7, <2>1, <2>2, RecordsKept
<1>14. VerdictFits'
  BY <1>1 DEF VerdictFits
<1>15. HistoryGrows
  BY <1>2, <1>6, <1>7 DEF HistoryGrows
<1> QED BY <1>10, <1>11, <1>12, <1>13, <1>14, <1>15
(* A rolled-back append takes its frame with it.                           *)
LEMMA UndoneStep ==
  ASSUME StoreTyped, HistoryInv, AppendUndone
  PROVE  HistoryInv' /\ HistoryGrows
<1> USE DEF StoreTyped, HistoryInv
<1> DEFINE n == Len(journal.frames)
           r == journal.frames[n]
<1>1. /\ pc \in {"writing", "flushed"}
      /\ \/ serving /\ pc' = "idle" /\ UNCHANGED <<serving, memory, handle>>
         \/ Down
      /\ refused' = refused \cup {r.id}
      /\ UNCHANGED <<snapshot, minted, acked, verdict>>
      /\ journal' = [journal EXCEPT !.frames = Front(journal.frames)]
  BY DEF AppendUndone, RolledBack, Last
<1>2. /\ journal.frames \in Seq(Frame) /\ n \in Nat /\ DOMAIN journal.frames = 1..n
      /\ journal.first \in Nat \ {0} /\ journal.synced \in Nat /\ journal.synced <= n
      /\ snapshot.seq \in Nat /\ journal.first <= snapshot.seq + 1
      /\ LastHeld \in Nat /\ LastWritten \in Nat /\ Held \in Nat /\ Held <= journal.synced
  BY Shapes
<1>3. /\ handle = "open" /\ journal.synced < n /\ memory.last = LastWritten - 1
      /\ memory.last \in Nat /\ memory.last >= snapshot.seq /\ memory.log = History(memory.last)
      /\ serving => Held = journal.synced /\ memory.last = LastHeld
  BY <1>1 DEF MemoryFits, Loaded, CountFits
<1>4. n \in 1..n /\ n - 1 \in Nat /\ journal.synced <= n - 1
  BY <1>2, <1>3
<1>5. /\ journal'.frames \in Seq(Frame) /\ Len(journal'.frames) = n - 1
      /\ DOMAIN journal'.frames = 1..(n - 1)
      /\ \A k \in 1..(n - 1) : journal'.frames[k] = journal.frames[k]
      /\ journal'.synced = journal.synced /\ journal'.header = journal.header
      /\ journal'.first = journal.first /\ journal' \in JournalFile
  <2>1. Front(journal.frames) = [k \in 1..(n - 1) |-> journal.frames[k]]
    BY DEF Front
  <2>2. \A k \in 1..(n - 1) : journal.frames[k] \in Frame
    BY <1>2, <1>4
  <2>3. Front(journal.frames) \in Seq(Frame) /\ Len(Front(journal.frames)) = n - 1
    <3> HIDE DEF n
    <3> QED BY <1>4, <2>1, <2>2
  <2>4. journal \in JournalFile
    BY DEF TypeOK
  <2>5. /\ journal'.frames = Front(journal.frames) /\ journal' \in JournalFile
        /\ journal'.synced = journal.synced /\ journal'.header = journal.header
        /\ journal'.first = journal.first
    <3> HIDE DEF n
    <3> QED BY <1>1, <2>3, <2>4 DEF JournalFile
  <2> HIDE DEF n
  <2> QED BY <2>1, <2>3, <2>5
<1>6. LastWritten = journal.first + n - 1
  BY DEF LastWritten
<1>7. /\ LastWritten' = LastWritten - 1 /\ Held' = Held /\ LastHeld' = LastHeld /\ Bad' = {}
      /\ LastWritten' \in Nat /\ LastHeld' <= LastWritten'
  <2>1. LastWritten' = LastWritten - 1
    <3>1. LastWritten' = journal.first + (n - 1) - 1
      BY <1>5 DEF LastWritten
    <3>2. n \in Nat /\ journal.first \in Nat
      BY <1>2
    <3> HIDE DEF n
    <3> QED BY <1>6, <3>1, <3>2
  <2>2. journal.synced > 0 => journal'.frames[journal.synced] = journal.frames[journal.synced]
    <3> HIDE DEF n
    <3>1. journal.synced > 0 => journal.synced \in 1..(n - 1)
      BY <1>2, <1>4
    <3> QED BY <1>5, <3>1
  <2>3. Held' = Held
    BY <1>5, <2>2 DEF Held
  <2>4. \A k \in 1..(n - 1) : journal'.frames[k].kind = "whole"
    <3> SUFFICES ASSUME NEW k \in 1..(n - 1)
                 PROVE  journal'.frames[k].kind = "whole"
      OBVIOUS
    <3>1. k \in DOMAIN journal.frames /\ k < n /\ journal'.frames[k] = journal.frames[k]
      <4> HIDE DEF n
      <4> QED BY <1>2, <1>4, <1>5
    <3> QED BY <3>1 DEF FramesInOrder
  <2>5. LastHeld' = LastHeld /\ LastHeld = journal.first + Held - 1
    BY <1>5, <2>3 DEF LastHeld
  <2>6. LastWritten' \in Nat /\ LastHeld' <= LastWritten'
    <3> HIDE DEF n
    <3>1. LastWritten' = journal.first + n - 2 /\ n >= 1
      <4>1. n \in Nat /\ n >= 1
        BY <1>2, <1>4
      <4>2. LastWritten' = (journal.first + n - 1) - 1
        BY <1>6, <2>1
      <4> QED BY <1>2, <4>1, <4>2
    <3>2. Held <= n - 1 /\ n - 1 \in Nat
      BY <1>2, <1>4
    <3>3. LastWritten' = journal.first + (n - 1) - 1
      BY <1>2, <3>1
    <3> QED BY <1>2, <2>5, <3>2, <3>3, NumbersOrdered
  <2> HIDE DEF n
  <2> QED BY <1>5, <2>1, <2>3, <2>4, <2>5, <2>6 DEF Bad
<1>8. ASSUME NEW q \in 1..LastWritten'
      PROVE  RecordAt(q)' = RecordAt(q) /\ q \in 1..LastWritten /\ q < LastWritten
  <2>1. q \in 1..LastWritten /\ q < LastWritten
    BY <1>2, <1>7
  <2>2. CASE q <= snapshot.seq
    BY <1>1, <2>1, <2>2 DEF RecordAt
  <2>3. CASE ~(q <= snapshot.seq)
    <3>1. q - journal.first + 1 \in 1..(n - 1)
      <4> HIDE DEF n
      <4>1. journal.first \in Nat /\ n \in Nat /\ snapshot.seq \in Nat
            /\ journal.first <= snapshot.seq + 1
        BY <1>2
      <4>2. q - journal.first + 1 \in 1..n
        BY <1>6, <2>1, <2>3, <4>1, FrameOf
      <4>3. q # journal.first + n - 1 /\ q \in Nat
        BY <1>6, <2>1, <4>1
      <4> QED BY <4>1, <4>2, <4>3
    <3> HIDE DEF n
    <3> QED BY <1>1, <1>5, <2>1, <2>3, <3>1 DEF RecordAt
  <2> QED BY <2>2, <2>3
<1>9. RecordAt(LastWritten) = r.id /\ LastWritten \in 1..LastWritten
  <2>1. ~(LastWritten <= snapshot.seq) /\ LastWritten - journal.first + 1 = n
        /\ LastWritten \in 1..LastWritten
    <3> HIDE DEF n, r
    <3>1. LastWritten - journal.first + 1 = n
      <4>1. n \in Nat /\ journal.first \in Nat
        BY <1>2
      <4> QED BY <1>6, <4>1
    <3>2. ~(LastWritten <= snapshot.seq) /\ LastWritten >= 1
      BY <1>2, <1>3
    <3> QED BY <1>2, <3>1, <3>2
  <2> QED BY <2>1 DEF RecordAt
<1>10. FramesInOrder'
  <2>1. \A k \in 1..(n - 1) : /\ journal'.frames[k].seq = journal.first + k - 1
                              /\ journal'.frames[k].kind = "whole"
    <3> SUFFICES ASSUME NEW k \in 1..(n - 1)
                 PROVE  /\ journal'.frames[k].seq = journal.first + k - 1
                        /\ journal'.frames[k].kind = "whole"
      OBVIOUS
    <3>1. k \in DOMAIN journal.frames /\ k < n /\ journal'.frames[k] = journal.frames[k]
      <4> HIDE DEF n
      <4> QED BY <1>2, <1>4, <1>5
    <3> QED BY <3>1 DEF FramesInOrder
  <2> HIDE DEF n
  <2> QED BY <1>5, <2>1 DEF FramesInOrder
<1>11. SnapshotFits'
  <2>1. \A k \in DOMAIN journal'.frames : journal'.frames[k].kind = "whole"
    BY <1>7 DEF Bad
  <2>2. snapshot.sound
    BY <1>1 DEF SnapshotFits
  <2> QED BY <1>1, <1>5, <2>1, <2>2 DEF SnapshotFits
<1>12. MemoryFits'
  <2>1. CASE Down
    BY <2>1 DEF Down, MemoryFits, Loaded
  <2>2. CASE ~Down
    <3>1. memory'.log = History(memory.last)'
      <4>1. PICK w : w = memory.last
        OBVIOUS
      <4>2. \A q \in 1..w : RecordAt(q)' = RecordAt(q)
        BY <1>3, <1>7, <1>8, <4>1
      <4>3. History(w)' = History(w)
        BY <4>2 DEF History
      <4>4. History(w)' = History(memory.last)' /\ History(w) = History(memory.last)
        BY <1>1, <2>2, <4>1 DEF History
      <4>5. memory'.log = memory.log /\ memory.log = History(memory.last)
        BY <1>1, <1>3, <2>2
      <4> QED BY <4>3, <4>4, <4>5
    <3> HIDE DEF n
    <3> QED BY <1>1, <1>3, <1>5, <1>7, <2>2, <3>1 DEF MemoryFits, Loaded
  <2> QED BY <2>1, <2>2
<1>13. RecordsOnce'
  <2>1. r.id \in 1..minted /\ \A q \in 1..LastWritten' : RecordAt(q) # r.id
    <3>1. \A q \in 1..LastWritten : RecordAt(q) \in 1..minted
      BY DEF RecordsOnce
    <3>2. ASSUME NEW q \in 1..LastWritten'
          PROVE  RecordAt(q) # r.id
      <4>1. q \in 1..LastWritten /\ q < LastWritten
        BY <1>8
      <4>2. RecordAt(q) < RecordAt(LastWritten)
        BY <1>9, <4>1 DEF RecordsOnce
      <4>3. RecordAt(q) \in Int
        BY <3>1, <4>1
      <4> HIDE DEF r
      <4> QED BY <1>9, <4>2, <4>3
    <3> HIDE DEF r
    <3> QED BY <1>9, <3>1, <3>2
  <2>2. refused' \subseteq 1..minted
    BY <1>1, <2>1 DEF RecordsOnce
  <2>3. \A q \in 1..LastWritten' : RecordAt(q) \notin refused'
    BY <1>1, <1>8, <2>1 DEF RecordsOnce
  <2>4. /\ LastWritten' <= LastWritten /\ LastHeld <= LastHeld' /\ LastHeld' \in Nat
        /\ \A q \in 1..LastWritten' : RecordAt(q)' = RecordAt(q)
    BY <1>2, <1>7, <1>8
  <2>5. \A s \in acked' : s \in acked \/ \E q \in 1..LastHeld' : RecordAt(q) = s
    BY <1>1
  <2> QED BY <1>1, <1>2, <1>7, <2>2, <2>3, <2>4, <2>5, RecordsKept
<1>14. VerdictFits'
  BY <1>1 DEF VerdictFits
<1>15. HistoryGrows
  <2>1. \A q \in 1..LastHeld : q \in 1..LastWritten'
    BY <1>2, <1>7
  <2> QED BY <1>2, <1>7, <1>8, <2>1 DEF HistoryGrows
<1> QED BY <1>10, <1>11, <1>12, <1>13, <1>14, <1>15

(* A snapshot holds what is in memory, which is what it would be replayed  *)
(* from anyway.                                                            *)
LEMMA SnapshotStep ==
  ASSUME StoreTyped, HistoryInv, SnapshotRenamed
  PROVE  HistoryInv' /\ HistoryGrows
<1> USE DEF StoreTyped, HistoryInv
<1> DEFINE n == Len(journal.frames)
<1>1. /\ pc = "idle" /\ pc' = "snapshot_renamed" /\ serving
      /\ snapshot' = [seq |-> memory.last, log |-> memory.log, sound |-> TRUE]
      /\ UNCHANGED <<journal, serving, memory, handle, minted, acked, refused, verdict>>
  BY DEF SnapshotRenamed
<1>2. /\ journal.frames \in Seq(Frame) /\ n \in Nat /\ DOMAIN journal.frames = 1..n
      /\ journal.first \in Nat \ {0} /\ journal.synced \in Nat /\ journal.synced <= n
      /\ snapshot.seq \in Nat /\ journal.first <= snapshot.seq + 1
      /\ LastHeld \in Nat /\ LastWritten \in Nat /\ LastHeld <= LastWritten
  BY Shapes
<1>3. /\ memory.last \in Nat /\ memory.last >= snapshot.seq /\ memory.log = History(memory.last)
      /\ Held = journal.synced /\ memory.last = LastHeld
  BY <1>1 DEF MemoryFits, Loaded
<1>4. memory.last = journal.first + journal.synced - 1
  BY <1>3 DEF LastHeld
<1>5. LastWritten' = LastWritten /\ Held' = Held /\ LastHeld' = LastHeld /\ Bad' = Bad
  BY <1>1 DEF LastWritten, Held, LastHeld, Bad
<1>6. snapshot'.seq = memory.last /\ snapshot'.log = memory.log /\ snapshot'.sound
  BY <1>1
<1>7. ASSUME NEW q \in 1..LastWritten
      PROVE  RecordAt(q)' = RecordAt(q)
  <2>1. CASE q <= memory.last
    <3>1. RecordAt(q)' = memory.log[q]
      BY <1>6, <2>1 DEF RecordAt
    <3>2. q \in 1..memory.last
      BY <1>2, <1>3, <2>1
    <3> QED BY <1>3, <3>1, <3>2 DEF History
  <2>2. CASE ~(q <= memory.last)
    <3>1. ~(q <= snapshot.seq)
      BY <1>2, <1>3, <2>2
    <3> QED BY <1>1, <1>6, <2>2, <3>1 DEF RecordAt
  <2> QED BY <2>1, <2>2
<1>8. memory.log \in Seq(Record) /\ Len(memory.log) = memory.last
  <2>1. memory.log \in Seq(Record)
    BY DEF TypeOK
  <2>2. DOMAIN memory.log = 1..memory.last
    BY <1>3 DEF History
  <2> QED BY <1>3, <2>1, <2>2
<1>9. FramesInOrder'
  BY <1>1 DEF FramesInOrder
<1>10. SnapshotFits'
  <2>1. ASSUME NEW k \in 1..n, journal.frames[k].seq <= memory.last
        PROVE  journal.frames[k].kind = "whole"
    <3>1. journal.frames[k].seq = journal.first + k - 1
      BY <1>2 DEF FramesInOrder
    <3>2. k <= journal.synced
      <4> HIDE DEF n
      <4> QED BY <1>2, <1>4, <2>1, <3>1
    <3>3. CASE k < n
      BY <1>2, <3>3 DEF FramesInOrder
    <3>4. CASE k = n
      <4>1. k = journal.synced /\ journal.synced > 0
        <5> HIDE DEF n
        <5> QED BY <1>2, <3>2, <3>4
      <4>2. Held = journal.synced
        BY <1>3
      <4> QED BY <1>2, <4>1, <4>2 DEF Held
    <3> QED BY <1>2, <3>3, <3>4
  <2>2. journal.first <= memory.last + 1 /\ memory.last < journal.first + journal.synced
    BY <1>2, <1>3, <1>4
  <2>3. \A k \in DOMAIN journal'.frames :
          journal'.frames[k].seq <= snapshot'.seq => journal'.frames[k].kind = "whole"
    BY <1>1, <1>2, <1>6, <2>1
  <2>4. journal'.first >= 1
    BY <1>1, <1>2
  <2> QED BY <1>1, <1>6, <1>8, <2>2, <2>3, <2>4 DEF SnapshotFits
<1>11. MemoryFits'
  <2>1. memory'.log = History(memory.last)'
    <3>1. PICK w : w = memory.last
      OBVIOUS
    <3>2. \A q \in 1..w : RecordAt(q)' = RecordAt(q)
      BY <1>2, <1>3, <1>7, <3>1
    <3>3. History(w)' = History(w)
      BY <3>2 DEF History
    <3>4. History(w)' = History(memory.last)' /\ History(w) = History(memory.last)
      BY <1>1, <3>1 DEF History
    <3>5. memory'.log = memory.log /\ memory.log = History(memory.last)
      BY <1>1, <1>3
    <3> QED BY <3>3, <3>4, <3>5
  <2>2. memory'.last >= snapshot'.seq
    BY <1>1, <1>3, <1>6
  <2> QED BY <1>1, <1>3, <1>5, <1>6, <2>1, <2>2 DEF MemoryFits, Loaded
<1>12. RecordsOnce'
  <2>1. \A r \in acked : \E q \in 1..LastHeld : RecordAt(q) = r
    BY DEF RecordsOnce
  <2>2. refused \subseteq 1..minted /\ \A q \in 1..LastWritten : RecordAt(q) \notin refused
    BY DEF RecordsOnce
  <2> QED BY <1>1, <1>2, <1>5, <1>7, <2>1, <2>2, RecordsKept
<1>13. VerdictFits'
  BY <1>1 DEF VerdictFits
<1>14. HistoryGrows
  BY <1>2, <1>5, <1>7 DEF HistoryGrows
<1> QED BY <1>9, <1>10, <1>11, <1>12, <1>13, <1>14

(* The journal gives up nothing that the snapshot does not hold.           *)
LEMMA RewrittenStep ==
  ASSUME StoreTyped, HistoryInv, NEW replaced \in BOOLEAN, NEW reopened \in BOOLEAN,
         JournalRewritten(replaced, reopened)
  PROVE  HistoryInv' /\ HistoryGrows
<1> USE DEF StoreTyped, HistoryInv
<1>1. /\ pc = "snapshot_renamed" /\ pc' = "idle"
      /\ handle' = IF handle = "unusable" THEN "unusable"
                   ELSE IF replaced /\ reopened THEN "open" ELSE "closed"
      /\ UNCHANGED <<snapshot, serving, memory, minted, acked, refused, verdict>>
  BY DEF JournalRewritten
<1>2. /\ journal.first \in Nat \ {0} /\ snapshot.seq \in Nat
      /\ LastHeld \in Nat /\ LastWritten \in Nat /\ LastHeld <= LastWritten
  BY Shapes
<1>3. /\ serving /\ memory.last = snapshot.seq /\ memory.log = History(memory.last)
      /\ Held = journal.synced /\ memory.last = LastHeld
  BY <1>1 DEF MemoryFits, Loaded
<1>4. journal.header = "whole" /\ snapshot.sound
  BY <1>1 DEF HeaderComesFirst, SnapshotFits
<1>5. CASE replaced
  <2>1. journal' = [header |-> "whole", first |-> snapshot.seq + 1,
                    frames |-> <<>>, synced |-> 0]
    BY <1>5 DEF JournalRewritten
  <2>2. /\ journal'.header = "whole" /\ journal'.first = snapshot.seq + 1
        /\ journal'.frames = <<>> /\ journal'.synced = 0
        /\ Len(journal'.frames) = 0 /\ DOMAIN journal'.frames = {}
    BY <2>1
  <2>3. /\ LastWritten' = snapshot.seq /\ Held' = 0 /\ LastHeld' = snapshot.seq /\ Bad' = {}
    <3>1. Held' = 0 /\ Bad' = {}
      BY <2>2 DEF Held, Bad
    <3> QED BY <1>2, <2>2, <3>1 DEF LastWritten, LastHeld
  <2>4. ASSUME NEW q \in 1..snapshot.seq
        PROVE  RecordAt(q)' = RecordAt(q)
    BY <1>1, <1>2 DEF RecordAt
  <2>5. FramesInOrder'
    BY <2>2, BoundAssumption DEF FramesInOrder
  <2>6. SnapshotFits'
    BY <1>1, <1>2, <1>4, <2>2 DEF SnapshotFits
  <2>7. MemoryFits'
    <3>1. memory'.log = History(memory.last)'
      <4>1. PICK w : w = memory.last
        OBVIOUS
      <4>2. History(w)' = History(w)
        BY <1>3, <2>4, <4>1 DEF History
      <4>3. History(w)' = History(memory.last)' /\ History(w) = History(memory.last)
        BY <1>1, <4>1 DEF History
      <4>4. memory'.log = memory.log /\ memory.log = History(memory.last)
        BY <1>1, <1>3
      <4> QED BY <4>2, <4>3, <4>4
    <3>2. memory'.last = snapshot'.seq /\ memory'.last \in Nat
      BY <1>1, <1>2, <1>3
    <3> QED BY <1>1, <1>2, <1>3, <2>1, <2>2, <2>3, <3>1, <3>2 DEF MemoryFits, Loaded
  <2>8. RecordsOnce'
    <3>1. \A q \in 1..snapshot.seq : q \in 1..LastWritten
      BY <1>2, <1>3
    <3>2. refused \subseteq 1..minted /\ \A q \in 1..snapshot.seq : RecordAt(q) \notin refused
      BY <3>1 DEF RecordsOnce
    <3>3. /\ LastWritten' = snapshot.seq /\ LastHeld' = snapshot.seq /\ LastHeld = snapshot.seq
          /\ LastWritten' \in Nat /\ LastHeld' \in Nat /\ LastWritten' <= LastWritten
          /\ LastHeld <= LastHeld' /\ LastHeld' <= LastWritten'
      <4>1. LastWritten' = snapshot.seq /\ LastHeld' = snapshot.seq /\ LastHeld = snapshot.seq
        BY <1>3, <2>3
      <4>2. snapshot.seq \in Nat /\ LastHeld <= LastWritten /\ snapshot.seq <= snapshot.seq
        BY <1>2
      <4> QED BY <4>1, <4>2
    <3>4. /\ \A q \in 1..LastWritten' : RecordAt(q)' = RecordAt(q)
          /\ \A q \in 1..LastWritten' : RecordAt(q) \notin refused'
      BY <1>1, <2>4, <3>2, <3>3
    <3>5. minted' = minted /\ refused' \subseteq 1..minted /\ acked' = acked
      BY <1>1, <3>2
    <3> QED BY <1>2, <3>3, <3>4, <3>5, RecordsKept
  <2>9. HistoryGrows
    <3>1. LastHeld = snapshot.seq
      BY <1>3
    <3> QED BY <1>2, <2>3, <2>4, <3>1 DEF HistoryGrows
  <2> QED BY <1>1, <2>5, <2>6, <2>7, <2>8, <2>9 DEF VerdictFits
<1>6. CASE ~replaced
  <2>1. UNCHANGED journal /\ handle' # "open"
    BY <1>1, <1>6 DEF JournalRewritten
  <2>2. /\ LastWritten' = LastWritten /\ Held' = Held /\ LastHeld' = LastHeld /\ Bad' = Bad
        /\ History(memory.last)' = History(memory.last)
    BY <1>1, <2>1, FilesKept DEF History
  <2>3. FramesInOrder'
    BY <1>1, <2>1, FilesKept
  <2>4. SnapshotFits'
    BY <1>1, <1>4, <2>1 DEF SnapshotFits
  <2>5. MemoryFits'
    BY <1>1, <1>3, <2>1, <2>2 DEF MemoryFits, Loaded
  <2>6. RecordsOnce'
    BY <1>1, <2>1, FilesKept DEF RecordsOnce
  <2>7. HistoryGrows
    BY <1>1, <1>2, <2>1, FilesKept
  <2> QED BY <1>1, <2>3, <2>4, <2>5, <2>6, <2>7 DEF VerdictFits
<1> QED BY <1>5, <1>6

(* A machine failure takes nothing that was held.                          *)
LEMMA FailureStep ==
  ASSUME StoreTyped, HistoryInv, MachineFails
  PROVE  HistoryInv' /\ HistoryGrows
<1> USE DEF StoreTyped, HistoryInv
<1> DEFINE n == Len(journal.frames)
<1>1. PICK m \in journal.synced..n, kind \in {"whole", "torn", "damaged"} :
        journal' = [journal EXCEPT
          !.header = IF pc = "creating" THEN "absent" ELSE journal.header,
          !.frames = [k \in 1..m |->
                        IF k = m /\ k > journal.synced /\ journal.frames[k].kind = "whole"
                          THEN [journal.frames[k] EXCEPT !.kind = kind] ELSE journal.frames[k]],
          !.synced = m]
  BY Zenon DEF MachineFails
<1>2. Down /\ UNCHANGED <<snapshot, minted, acked, refused, verdict>>
  BY DEF MachineFails
<1>3. /\ journal.frames \in Seq(Frame) /\ n \in Nat /\ DOMAIN journal.frames = 1..n
      /\ journal.first \in Nat \ {0} /\ journal.synced \in Nat /\ journal.synced <= n
      /\ snapshot.seq \in Nat /\ journal.first <= snapshot.seq + 1
      /\ Held \in Nat /\ Held <= journal.synced /\ snapshot.seq < journal.first + Held
      /\ LastHeld \in Nat /\ LastWritten \in Nat
  BY Shapes
<1>4. m \in Nat /\ journal.synced <= m /\ m <= n
  <2> HIDE DEF n
  <2> QED BY <1>3
<1> DEFINE left == [k \in 1..m |->
                      IF k = m /\ k > journal.synced /\ journal.frames[k].kind = "whole"
                        THEN [journal.frames[k] EXCEPT !.kind = kind] ELSE journal.frames[k]]
<1>5. ASSUME NEW k \in 1..m
      PROVE  /\ left[k] \in Frame /\ left[k].id = journal.frames[k].id
             /\ left[k].seq = journal.frames[k].seq
             /\ k < m \/ k <= journal.synced => left[k] = journal.frames[k]
             /\ k \in DOMAIN journal.frames
  <2>1. k \in DOMAIN journal.frames /\ journal.frames[k] \in Frame
    <3>1. k \in 1..n
      <4> HIDE DEF n
      <4> QED BY <1>3, <1>4
    <3> QED BY <1>3, <3>1
  <2>2. /\ [journal.frames[k] EXCEPT !.kind = kind] \in Frame
        /\ [journal.frames[k] EXCEPT !.kind = kind].id = journal.frames[k].id
        /\ [journal.frames[k] EXCEPT !.kind = kind].seq = journal.frames[k].seq
    BY <2>1 DEF Frame
  <2>3. k < m \/ k <= journal.synced => ~(k = m /\ k > journal.synced)
    BY <1>3, <1>4
  <2> QED BY <2>1, <2>2, <2>3
<1>6. left \in Seq(Frame) /\ Len(left) = m /\ DOMAIN left = 1..m
  <2>1. left = [k \in 1..m |-> left[k]]
    OBVIOUS
  <2> HIDE DEF left
  <2> QED BY <1>4, <1>5, <2>1
<1>7. /\ journal'.frames = left /\ journal'.synced = m /\ journal'.first = journal.first
      /\ journal'.header = IF pc = "creating" THEN "absent" ELSE journal.header
      /\ journal' \in JournalFile
  <2>1. journal \in JournalFile
    BY DEF TypeOK
  <2>2. journal' = [journal EXCEPT
          !.header = IF pc = "creating" THEN "absent" ELSE journal.header,
          !.frames = left, !.synced = m]
    BY <1>1
  <2> HIDE DEF left
  <2> QED BY <1>4, <1>6, <2>1, <2>2 DEF JournalFile
<1> HIDE DEF left
<1>8. Held <= Held' /\ Held' \in Nat /\ Held' <= m
  <2>1. CASE journal.synced > 0 /\ journal.frames[journal.synced].kind # "whole"
    <3>1. Held = journal.synced - 1
      BY <2>1 DEF Held
    <3>2. Held' \in {m, m - 1}
      BY <1>7 DEF Held
    <3> QED BY <1>3, <1>4, <2>1, <3>1, <3>2
  <2>2. CASE ~(journal.synced > 0 /\ journal.frames[journal.synced].kind # "whole")
    <3>1. Held = journal.synced
      BY <2>2 DEF Held
    <3>2. CASE m > 0 /\ left[m].kind # "whole"
      <4>1. Held' = m - 1
        BY <1>7, <3>2 DEF Held
      <4>2. m # journal.synced
        BY <1>4, <1>5, <2>2, <3>2
      <4> QED BY <1>3, <1>4, <3>1, <3>2, <4>1, <4>2
    <3>3. CASE ~(m > 0 /\ left[m].kind # "whole")
      <4>1. Held' = m
        BY <1>7, <3>3 DEF Held
      <4> QED BY <1>4, <3>1, <4>1
    <3> QED BY <3>2, <3>3
  <2> QED BY <2>1, <2>2
<1>9. /\ LastWritten' = journal.first + m - 1 /\ LastWritten' \in Nat /\ LastHeld' \in Nat
      /\ LastWritten' <= LastWritten /\ LastHeld <= LastHeld' /\ LastHeld' <= LastWritten'
  <2>1. /\ LastWritten' = journal.first + m - 1 /\ LastHeld' = journal.first + Held' - 1
        /\ LastWritten = journal.first + n - 1 /\ LastHeld = journal.first + Held - 1
    BY <1>6, <1>7 DEF LastWritten, LastHeld
  <2>2. LastWritten' \in Nat /\ LastWritten' <= LastWritten
    <3> HIDE DEF n
    <3> QED BY <1>3, <1>4, <2>1, NumbersOrdered
  <2>3. LastHeld' \in Nat /\ LastHeld <= LastHeld'
    BY <1>3, <1>8, <2>1, NumbersOrdered
  <2>4. LastHeld' <= LastWritten'
    BY <1>3, <1>4, <1>8, <2>1, NumbersOrdered
  <2> QED BY <2>1, <2>2, <2>3, <2>4
<1>10. ASSUME NEW q \in 1..LastWritten'
       PROVE  RecordAt(q)' = RecordAt(q) /\ q \in 1..LastWritten
  <2>1. q \in 1..LastWritten
    BY <1>3, <1>9
  <2>2. CASE q <= snapshot.seq
    BY <1>2, <2>1, <2>2 DEF RecordAt
  <2>3. CASE ~(q <= snapshot.seq)
    <3>1. q - journal.first + 1 \in 1..m
      <4> DEFINE first == journal.first
                 seq == snapshot.seq
      <4>1. first \in Nat \ {0} /\ seq \in Nat /\ first <= seq + 1 /\ m \in Nat
        BY <1>3, <1>4
      <4>2. LastWritten' = first + m - 1 /\ LastWritten' \in Nat
        BY <1>9
      <4>3. q \in Int /\ q <= first + m - 1 /\ ~(q <= seq)
        <5> HIDE DEF first, seq
        <5>1. q \in 1..(first + m - 1)
          BY <4>2
        <5>2. q \in Int /\ q <= first + m - 1
          BY <4>1, <5>1
        <5> QED BY <2>3, <5>2 DEF seq
      <4>4. q - first + 1 \in 1..m
        <5> HIDE DEF first, seq
        <5> QED BY <4>1, <4>3
      <4> QED BY <4>4
    <3> QED BY <1>2, <1>5, <1>7, <2>1, <2>3, <3>1 DEF RecordAt
  <2> QED BY <2>2, <2>3
<1>11. FramesInOrder'
  <2>1. ASSUME NEW k \in 1..m
        PROVE  /\ left[k].seq = journal.first + k - 1
               /\ k < m => left[k].kind = "whole"
    <3>1. k \in DOMAIN journal.frames /\ left[k].seq = journal.frames[k].seq
      BY <1>5
    <3>2. ASSUME k < m
          PROVE  left[k].kind = "whole"
      <4>1. left[k] = journal.frames[k]
        BY <1>5, <3>2
      <4>2. k < n
        <5> HIDE DEF n
        <5> QED BY <1>3, <1>4, <3>2
      <4> QED BY <3>1, <4>1, <4>2 DEF FramesInOrder
    <3>3. left[k].seq = journal.first + k - 1
      BY <3>1 DEF FramesInOrder
    <3> QED BY <3>2, <3>3
  <2> QED BY <1>6, <1>7, <2>1 DEF FramesInOrder
<1>12. SnapshotFits'
  <2>1. ASSUME NEW k \in 1..m, left[k].seq <= snapshot.seq
        PROVE  left[k].kind = "whole"
    <3>1. k \in DOMAIN journal.frames /\ journal.frames[k].seq <= snapshot.seq
      BY <1>5, <2>1
    <3>2. journal.frames[k].kind = "whole" /\ journal.frames[k].seq = journal.first + k - 1
      BY <3>1 DEF SnapshotFits, FramesInOrder
    <3>3. k <= journal.synced
      BY <1>3, <1>4, <3>1, <3>2
    <3> QED BY <1>5, <3>2, <3>3
  <2>2. snapshot.seq < journal.first + m
    BY <1>3, <1>4
  <2>3. /\ Len(snapshot.log) = snapshot.seq /\ journal.first >= 1
        /\ journal.first <= snapshot.seq + 1 /\ ~snapshot.sound => journal.first > 1
    BY DEF SnapshotFits
  <2> QED BY <1>2, <1>6, <1>7, <2>1, <2>2, <2>3 DEF SnapshotFits, Down
<1>13. MemoryFits'
  BY <1>2 DEF MemoryFits, Loaded, Down
<1>14. RecordsOnce'
  <2>1. refused \subseteq 1..minted /\ \A q \in 1..LastWritten' : RecordAt(q) \notin refused
    BY <1>10 DEF RecordsOnce
  <2>2. \A q \in 1..LastWritten' : RecordAt(q)' = RecordAt(q)
    BY <1>10
  <2> QED BY <1>2, <1>3, <1>9, <2>1, <2>2, RecordsKept
<1>15. VerdictFits'
  BY <1>2, <1>7 DEF VerdictFits, Down
<1>16. HistoryGrows
  <2>1. \A q \in 1..LastHeld : q \in 1..LastWritten'
    BY <1>3, <1>9
  <2> QED BY <1>9, <1>10, <2>1 DEF HistoryGrows
<1> HIDE DEF StoreTyped, HistoryInv
<1>17. HistoryInv'
  BY <1>11, <1>12, <1>13, <1>14, <1>15 DEF HistoryInv
<1> QED BY <1>16, <1>17

(* Damage that will be noticed: no process that has loaded reads it.       *)
LEMMA RotsStep ==
  ASSUME StoreTyped, HistoryInv, SnapshotRots, ~unnoticed'
  PROVE  HistoryInv' /\ HistoryGrows
<1> USE DEF StoreTyped, HistoryInv
<1>1. /\ pc = "down" /\ journal.first > 1
      /\ snapshot' = [snapshot EXCEPT !.sound = FALSE] /\ snapshot \in SnapshotFile
      /\ UNCHANGED <<journal, pc, serving, memory, handle, minted, acked, refused, verdict>>
  <2>1. journal.first # 1
    BY DEF SnapshotRots
  <2>2. journal.first > 1
    BY <2>1, Shapes
  <2> QED BY <2>2 DEF SnapshotRots, TypeOK
<1>2. /\ snapshot'.seq = snapshot.seq /\ snapshot'.log = snapshot.log
      /\ snapshot' \in SnapshotFile
  BY <1>1 DEF SnapshotFile
<1>3. LastWritten' = LastWritten /\ Held' = Held /\ LastHeld' = LastHeld
  BY <1>1 DEF LastWritten, Held, LastHeld
<1>4. \A q : RecordAt(q)' = RecordAt(q)
  BY <1>1, <1>2 DEF RecordAt
<1>5. FramesInOrder'
  BY <1>1 DEF FramesInOrder
<1>6. SnapshotFits'
  BY <1>1, <1>2 DEF SnapshotFits
<1>7. MemoryFits'
  BY <1>1 DEF MemoryFits, Loaded
<1>8. RecordsOnce'
  BY <1>1, <1>3, <1>4 DEF RecordsOnce
<1>9. VerdictFits'
  BY <1>1 DEF VerdictFits
<1>10. HistoryGrows
  BY <1>3, <1>4, Shapes DEF HistoryGrows
<1> QED BY <1>5, <1>6, <1>7, <1>8, <1>9, <1>10

------------------------------------------------------------------------------
(* The invariant holds.                                                    *)

(* A new store has no record, and no process.                              *)
LEMMA Initially ==
  ASSUME Init
  PROVE  StoreTyped /\ HistoryInv /\ ~unnoticed
<1>1. TypeOK
  <2>1. <<>> \in Seq(Frame) /\ <<>> \in Seq(Record) /\ Len(<<>>) = 0
    OBVIOUS
  <2>2. journal \in JournalFile /\ journal.synced <= Len(journal.frames)
    BY <2>1 DEF Init, JournalFile
  <2>3. snapshot \in SnapshotFile /\ memory \in [log: Seq(Record), last: Nat]
    BY <2>1 DEF Init, SnapshotFile, NoSnapshot, NoState
  <2>4. count \in 0..MaxJournal /\ minted \in 0..MaxRecord
    BY BoundAssumption DEF Init
  <2> QED BY <2>2, <2>3, <2>4 DEF Init, TypeOK, PC, Verdict
<1>2. /\ journal.header = "absent" /\ journal.first = 1 /\ journal.frames = <<>>
      /\ journal.synced = 0 /\ Len(journal.frames) = 0 /\ DOMAIN journal.frames = {}
  BY DEF Init
<1>3. snapshot.seq = 0 /\ snapshot.log = <<>> /\ snapshot.sound /\ snapshot = NoSnapshot
  BY DEF Init, NoSnapshot
<1>4. HeaderComesFirst
  BY <1>2, <1>3 DEF Init, HeaderComesFirst
<1>5. FramesInOrder
  BY <1>2, BoundAssumption DEF FramesInOrder
<1>6. SnapshotFits
  BY <1>2, <1>3 DEF SnapshotFits
<1>7. MemoryFits
  BY DEF Init, MemoryFits, Loaded
<1>8. RecordsOnce
  <2>1. LastWritten = 0
    BY <1>2 DEF LastWritten
  <2> QED BY <2>1 DEF Init, RecordsOnce
<1>9. VerdictFits
  BY DEF Init, VerdictFits
<1>10. CountFits
  BY <1>2, BoundAssumption DEF Init, CountFits
<1> QED BY <1>1, <1>4, <1>5, <1>6, <1>7, <1>8, <1>9, <1>10 DEF Init, StoreTyped, HistoryInv

(* Every step keeps it, and every record held, that is not unnoticed       *)
(* damage.                                                                 *)
LEMMA EveryStep ==
  ASSUME StoreTyped, HistoryInv, ~unnoticed', [Next]_vars
  PROVE  HistoryInv' /\ HistoryGrows
<1>1. CASE OpenRefused
  BY <1>1, RefusedStep
<1>2. CASE OpenExisting
  BY <1>2, ExistingStep
<1>3. CASE OpenFresh
  BY <1>3, FreshStep
<1>4. CASE HeaderWritten
  BY <1>4, HeaderStep
<1>5. CASE OpenFull
  BY <1>5, StopStep
<1>6. CASE AppendBegins
  BY <1>6, BeginsStep
<1>7. CASE AppendFlushed
  BY <1>7, FlushedStep
<1>8. CASE Committed
  BY <1>8, CommittedStep
<1>9. CASE AppendUndone
  BY <1>9, UndoneStep
<1>10. CASE AppendStuck
  BY <1>10, StuckStep
<1>11. CASE SnapshotRenamed
  BY <1>11, SnapshotStep
<1>12. CASE \E replaced, reopened \in BOOLEAN : JournalRewritten(replaced, reopened)
  BY <1>12, RewrittenStep
<1>13. CASE ProcessStops
  BY <1>13, StopStep
<1>14. CASE MachineFails
  BY <1>14, FailureStep
<1>15. CASE SnapshotRots
  BY <1>15, RotsStep
<1>16. CASE UNCHANGED vars
  BY <1>16, StutterStep
<1> QED BY <1>1, <1>2, <1>3, <1>4, <1>5, <1>6, <1>7, <1>8, <1>9, <1>10, <1>11,
           <1>12, <1>13, <1>14, <1>15, <1>16 DEF Next

(* Damage that was not noticed stays unnoticed.                            *)
LEMMA DamageStays ==
  ASSUME [Next]_vars
  PROVE  unnoticed => unnoticed'
BY Zenon DEF Next, vars, OpenRefused, OpenExisting, OpenFresh, HeaderWritten, OpenFull, AppendBegins,
       AppendFlushed, Committed, AppendUndone, AppendStuck, SnapshotRenamed, JournalRewritten,
       ProcessStops, MachineFails, SnapshotRots

LEMMA InvariantHolds == Spec => []JournalInv
<1>1. Init => JournalInv
  BY Initially DEF JournalInv
<1>2. JournalInv /\ [Next]_vars => JournalInv'
  <2> SUFFICES ASSUME JournalInv, [Next]_vars
               PROVE  JournalInv'
    OBVIOUS
  <2>1. StoreTyped'
    BY TypeStep DEF JournalInv
  <2>2. ASSUME ~unnoticed'
        PROVE  HistoryInv'
    BY <2>2, DamageStays, EveryStep DEF JournalInv
  <2> QED BY <2>1, <2>2 DEF JournalInv
<1> QED BY <1>1, <1>2, PTL DEF Spec

(* The files and the process of the store keep their types: no more frames *)
(* are counted as synchronised than are written, and the journal never     *)
(* holds more records than max_journal_records, whatever fails, whatever is*)
(* damaged and whenever the process stops.                                 *)
THEOREM TypeCorrect == Spec => []TypeOK
<1>1. JournalInv => TypeOK
  BY DEF JournalInv, StoreTyped
<1> QED BY <1>1, InvariantHolds, PTL

(* A coordinator that serves has in memory every durable record and nothing*)
(* else: Journal::open, replay, append, rollback_to and compaction never   *)
(* lose, repeat or invent one, wherever an earlier process stopped, unless *)
(* the snapshot was damaged while the journal started at record 1, where   *)
(* Journal::open does not look and load_snapshot_state starts anew.        *)
THEOREM WholeHistoryServed == Spec => []ServesWholeHistory
<1>1. JournalInv => ServesWholeHistory
  <2> SUFFICES ASSUME JournalInv, serving, ~unnoticed
               PROVE  memory.log = Durable
    BY DEF ServesWholeHistory
  <2> USE DEF JournalInv, StoreTyped, HistoryInv
  <2>1. Durable = History(LastHeld)
    BY DurableIsHeld
  <2>2. memory.log = History(memory.last) /\ memory.last = LastHeld
    BY DEF MemoryFits
  <2> QED BY <2>1, <2>2
<1> QED BY <1>1, InvariantHolds, PTL

(* What the coordinator does to its own store is never taken for damage:   *)
(* no sequence of failed appends, failed roll-backs, interrupted           *)
(* compactions and stops makes Journal::open report corruption or a gap,   *)
(* and a store it refuses for its header holds no record.  Only a store    *)
(* served past an unnoticed damage, whose records are numbered from 1      *)
(* again, may come to show a gap.                                          *)
THEOREM StopsAreNotDamage == Spec => []OnlyTheTailIsLost
<1>1. JournalInv => OnlyTheTailIsLost
  <2> SUFFICES ASSUME JournalInv, ~unnoticed
               PROVE  /\ verdict \notin {"corrupt", "sequence_gap"}
                      /\ verdict = "truncated" => Durable = <<>>
    BY DEF OnlyTheTailIsLost
  <2> USE DEF JournalInv, StoreTyped, HistoryInv
  <2>1. verdict \notin {"corrupt", "sequence_gap"}
    BY DEF VerdictFits
  <2>2. ASSUME verdict = "truncated"
        PROVE  Durable = <<>>
    <3>1. journal.header = "partial"
      BY <2>2 DEF VerdictFits
    <3>2. journal.first = 1 /\ journal.synced = 0
      BY <3>1 DEF HeaderComesFirst
    <3>3. LastHeld = 0
      BY <3>2 DEF LastHeld, Held
    <3>4. Durable = History(LastHeld)
      BY DurableIsHeld
    <3>5. History(0) = <<>>
      BY DEF History
    <3> QED BY <3>3, <3>4, <3>5
  <2> QED BY <2>1, <2>2
<1> QED BY <1>1, InvariantHolds, PTL

------------------------------------------------------------------------------
(* The store implements DurableLog.                                        *)

(* The durable records are a sequence without repetition, of all that was  *)
(* acknowledged and nothing that was refused.                              *)
DurableFits ==
  /\ Durable \in Seq(Record) /\ Len(Durable) = LastHeld /\ LastHeld \in Nat
  /\ \A q \in 1..LastHeld : Durable[q] = RecordAt(q)
  /\ IsInjective(Durable)
  /\ acked \subseteq ToSet(Durable) /\ refused \cap ToSet(Durable) = {}

LEMMA DurableRecords ==
  ASSUME StoreTyped, HistoryInv
  PROVE  DurableFits
<1> USE DEF StoreTyped, HistoryInv
<1>1. LastHeld \in Nat /\ LastWritten \in Nat /\ LastHeld <= LastWritten
  BY Shapes
<1>2. ASSUME NEW q \in 1..LastHeld
      PROVE  q \in 1..LastWritten /\ RecordAt(q) \in Record /\ RecordAt(q) \notin refused
  <2>1. q \in 1..LastWritten
    BY <1>1
  <2>2. RecordAt(q) \in 1..minted /\ RecordAt(q) \notin refused
    BY <2>1 DEF RecordsOnce
  <2>3. minted \in 0..MaxRecord
    BY DEF TypeOK
  <2> QED BY <2>1, <2>2, <2>3, BoundAssumption DEF Record
<1>3. Durable = History(LastHeld)
  BY DurableIsHeld
<1>4. /\ Durable \in Seq(Record) /\ Len(Durable) = LastHeld
      /\ DOMAIN Durable = 1..LastHeld
      /\ \A q \in 1..LastHeld : Durable[q] = RecordAt(q)
  <2>1. History(LastHeld) \in [1..LastHeld -> Record]
    BY <1>2 DEF History
  <2> QED BY <1>1, <1>3, <2>1 DEF History
<1>5. IsInjective(Durable)
  <2>1. ASSUME NEW p \in 1..LastHeld, NEW q \in 1..LastHeld, p < q
        PROVE  RecordAt(p) < RecordAt(q) /\ RecordAt(p) \in Nat /\ RecordAt(q) \in Nat
    <3>1. RecordAt(p) \in Nat /\ RecordAt(q) \in Nat
      BY <1>2 DEF Record
    <3> QED BY <1>2, <2>1, <3>1 DEF RecordsOnce
  <2>2. ASSUME NEW p \in 1..LastHeld, NEW q \in 1..LastHeld, RecordAt(p) = RecordAt(q)
        PROVE  p = q
    <3>1. CASE p < q
      BY <2>1, <2>2, <3>1
    <3>2. CASE q < p
      BY <2>1, <2>2, <3>2
    <3> QED BY <1>1, <3>1, <3>2
  <2> QED BY <1>4, <2>2 DEF IsInjective
<1>6. ToSet(Durable) = {RecordAt(q) : q \in 1..LastHeld}
  BY <1>4 DEF ToSet
<1>7. acked \subseteq ToSet(Durable)
  BY <1>6 DEF RecordsOnce
<1>8. refused \cap ToSet(Durable) = {}
  <2>1. \A q \in 1..LastHeld : RecordAt(q) \notin refused
    BY <1>2
  <2> QED BY <1>6, <2>1, Zenon
<1> QED BY <1>1, <1>4, <1>5, <1>7, <1>8 DEF DurableFits

(* What was said of a record is never taken back.                          *)
LEMMA AnswersStand ==
  ASSUME [Next]_vars
  PROVE  acked \subseteq acked' /\ refused \subseteq refused'
BY Zenon DEF Next, vars, OpenRefused, OpenExisting, OpenFresh, HeaderWritten, OpenFull, AppendBegins,
       AppendFlushed, Committed, AppendUndone, AppendStuck, SnapshotRenamed, JournalRewritten,
       ProcessStops, MachineFails, SnapshotRots

LEMMA LogStep ==
  ASSUME DurableFits, DurableFits', HistoryGrows, [Next]_vars
  PROVE  Log!Next
<1>1. /\ Durable \in Seq(Record) /\ Len(Durable) = LastHeld /\ LastHeld \in Nat
      /\ \A q \in 1..LastHeld : Durable[q] = RecordAt(q)
  BY DEF DurableFits
<1>2. /\ Durable' \in Seq(Record) /\ Len(Durable') = LastHeld' /\ LastHeld' \in Nat
      /\ \A q \in 1..LastHeld' : Durable'[q] = RecordAt(q)'
      /\ IsInjective(Durable')
      /\ acked' \subseteq ToSet(Durable') /\ refused' \cap ToSet(Durable') = {}
  BY DEF DurableFits
<1>3. IsPrefix(Durable, Durable')
  <2>1. Len(Durable) <= Len(Durable')
    BY <1>1, <1>2 DEF HistoryGrows
  <2>2. ASSUME NEW q \in 1..Len(Durable)
        PROVE  Durable[q] = Durable'[q]
    <3>1. q \in 1..LastHeld /\ q \in 1..LastHeld'
      BY <1>1, <1>2 DEF HistoryGrows
    <3> QED BY <1>1, <1>2, <3>1 DEF HistoryGrows
  <2>3. SubSeq(Durable, 1, Len(Durable)) = SubSeq(Durable', 1, Len(Durable))
    <3> DEFINE s == Durable
               t == Durable'
    <3>1. s \in Seq(Record) /\ t \in Seq(Record) /\ Len(s) <= Len(t)
          /\ \A q \in 1..Len(s) : s[q] = t[q]
      BY <1>1, <1>2, <2>1, <2>2
    <3> HIDE DEF s, t
    <3>2. SubSeq(s, 1, Len(s)) = SubSeq(t, 1, Len(s))
      BY <3>1
    <3> QED BY <3>2 DEF s, t
  <2> QED BY <2>1, <2>3 DEF IsPrefix
<1>4. acked \subseteq acked' /\ refused \subseteq refused'
  BY AnswersStand
<1>5. /\ Log!IsPrefix(Durable, Durable') /\ Log!IsInjective(Durable')
      /\ Log!ToSet(Durable') = ToSet(Durable')
  BY <1>2, <1>3, Zenon DEF IsPrefix, IsInjective, ToSet, Log!IsPrefix, Log!IsInjective, Log!ToSet
<1> QED BY <1>2, <1>4, <1>5 DEF Log!Next

(* Whatever fails, the durable records form a log that only grows at its   *)
(* end and holds no record twice; an append that was acknowledged stays in *)
(* it, and one that was refused and rolled back never enters it.  This is  *)
(* so up to the step, if there is one, that damages a snapshot where no    *)
(* open will look for damage.                                              *)
THEOREM JournalImplementsLog == Spec => DurableLogSpec
<1>1. Init => Log!Init
  <2> SUFFICES ASSUME Init
               PROVE  Log!Init
    OBVIOUS
  <2>1. Durable \in Seq(Record) /\ Len(Durable) = LastHeld
    BY Initially, DurableRecords DEF DurableFits
  <2>2. LastHeld = 0
    BY DEF Init, LastHeld, Held
  <2>3. Durable = <<>>
    BY <2>1, <2>2
  <2> QED BY <2>3 DEF Init, Log!Init
<1>2. JournalInv => (~unnoticed => DurableFits)
  BY DurableRecords DEF JournalInv
<1>3. JournalInv /\ (~unnoticed => DurableFits) /\ (~unnoticed => DurableFits)' /\ [Next]_vars
        => [~unnoticed' => Log!Next]_(Log!vars)
  <2> SUFFICES ASSUME JournalInv, ~unnoticed => DurableFits, (~unnoticed => DurableFits)',
                      [Next]_vars, ~unnoticed'
               PROVE  Log!Next
    OBVIOUS
  <2>1. ~unnoticed
    BY DamageStays
  <2>2. HistoryGrows
    BY <2>1, EveryStep DEF JournalInv
  <2> QED BY <2>1, <2>2, LogStep
<1> QED BY <1>1, <1>2, <1>3, InvariantHolds, PTL DEF Spec, DurableLogSpec

==============================================================================
