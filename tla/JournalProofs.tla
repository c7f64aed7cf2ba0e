---------------------------- MODULE JournalProofs ----------------------------
(***************************************************************************)
(* Proofs about Journal for every number of records, crashes and faults,    *)
(* with and without power losses.                                           *)
(***************************************************************************)
EXTENDS Journal, Integers, FiniteSetTheorems, FunctionTheorems, TLAPS

(* Every directory that may be found on boot can be opened, and any two of  *)
(* them agree on the records they both have.                                *)
WellFormed(d) == \E n \in 0..MaxRecords : CanOpen(d, n)
Older(d, e) == \A i \in Ids : d.record[i] # NoFile => d.record[i] = e.record[i]

DiskInv ==
  /\ dir \in versions
  /\ \A d \in versions : WellFormed(d) /\ Older(d, dir)
  /\ \A d \in versions : Entries(d, 1..d.saved) \subseteq db

(* What the running service believes about the directory.  A failed rename  *)
(* may leave one record it does not know of; then the journal is unwritable. *)
MemoryInv ==
  mode = "up" =>
    /\ Present(dir) = 1..Last \/ (~writable /\ Present(dir) = 1..next)
    /\ writable => write = Idle /\ Present(dir) = 1..Last
    /\ saved <= Last
    /\ Entries(dir, 1..saved) \subseteq db

WriteInv ==
  /\ write # Idle => mode = "up" /\ ~writable
  /\ (write # Idle /\ write.stage = "temporary") => Present(dir) = 1..Last
  /\ (write # Idle /\ write.name = "record") =>
        /\ write.id = next
        /\ write.stage = "renamed" => dir.record[write.id] = write.record
  /\ (write # Idle /\ write.name = "saved") =>
        /\ uploader = "acknowledging"
        /\ saved < write.id /\ write.id <= Last
        /\ Entries(dir, 1..write.id) \subseteq db
        /\ Present(dir) = 1..Last

UploaderInv ==
  uploader \in {"sending", "committed", "acknowledging"} =>
    /\ mode = "up"
    /\ \E n \in (saved + 1)..Last : batch = Entries(dir, (saved + 1)..n)
    /\ uploader = "committed" => batch \subseteq db
    /\ uploader = "acknowledging" => write # Idle /\ write.name = "saved"

IInv ==
  /\ TypeOK /\ DiskInv /\ MemoryInv /\ WriteInv /\ UploaderInv
  /\ AcceptedSurvives

-----------------------------------------------------------------------------
(* The last record of a batch read from the directory is the highest of the *)
(* ids it was read for.                                                     *)
LEMMA BatchLastIsLast ==
  ASSUME NEW a \in Nat, NEW n \in (a + 1)..MaxRecords, MaxRecords \in Nat,
         batch = Entries(dir, (a + 1)..n)
  PROVE  BatchLast = n
<1> DEFINE S == {e.seq : e \in batch}
<1> DEFINE E(i) == [seq |-> i, record |-> dir.record[i]]
<1>1. \A e \in batch : e.seq \in (a + 1)..n
  BY DEF Entries
<1>2. n \in S
  <2>1. E(n) \in batch /\ E(n).seq = n
    BY DEF Entries
  <2> QED  BY <2>1
<1>3. \A i \in S : (\A e \in batch : e.seq <= i) => i = n
  <2> TAKE i \in S
  <2> HAVE \A e \in batch : e.seq <= i
  <2>0. PICK e \in batch : i = e.seq
    OBVIOUS
  <2>1. n <= i
    BY <1>2
  <2>2. i <= n /\ i \in Int /\ n \in Int
    BY <1>1, <2>0
  <2> QED  BY <2>1, <2>2
<1>4. \A e \in batch : e.seq <= n
  BY <1>1
<1> QED  BY <1>2, <1>3, <1>4 DEF BatchLast

(* The empty directory of the first boot satisfies the invariant.           *)
LEMMA InitInv == Init => IInv
<1> USE JournalAssumption DEF JournalAssumption
<1> SUFFICES ASSUME Init PROVE IInv  OBVIOUS
<1>1. EmptyDirectory \in Directory /\ Present(EmptyDirectory) = {}
  BY DEF EmptyDirectory, Directory, Present, Ids, Records
<1>2. TypeOK
  <2>1. dir \in Directory /\ versions \subseteq Directory
    BY <1>1 DEF Init
  <2>2. /\ next \in 1..(MaxRecords + 1) /\ saved \in 0..MaxRecords
        /\ crashes \in 0..MaxCrashes /\ faults \in 0..MaxFaults
    BY DEF Init
  <2>3. /\ mode \in {"down", "up"} /\ writable \in BOOLEAN
        /\ write \in {Idle} \cup RecordWrites \cup SavedWrites
        /\ uploader \in {"idle", "sending", "committed", "acknowledging", "stopped"}
    BY DEF Init
  <2>4. batch \subseteq Entry /\ inflight \subseteq SUBSET Entry /\ db \subseteq Entry
        /\ accepted \subseteq Entry
    BY DEF Init
  <2> QED  BY <2>1, <2>2, <2>3, <2>4 DEF TypeOK
<1>3. Entries(EmptyDirectory, 1..EmptyDirectory.saved) = {}
  BY DEF Entries, EmptyDirectory
<1>4. CanOpen(EmptyDirectory, 0)
  BY <1>1 DEF CanOpen, EmptyDirectory
<1>5. DiskInv
  BY <1>3, <1>4 DEF Init, DiskInv, WellFormed, Older
<1> QED
  BY <1>2, <1>5 DEF Init, IInv, MemoryInv, WriteInv, UploaderInv, AcceptedSurvives

-----------------------------------------------------------------------------
(* A read of the directory yields entries when every file read exists.      *)
LEMMA EntriesType ==
  ASSUME NEW d \in Directory, NEW ids \in SUBSET Present(d)
  PROVE  Entries(d, ids) \in SUBSET Entry
BY DEF Directory, Present, Entries, Entry, Records

(* The two changes a rename makes.                                          *)
LEMMA WithRecordFacts ==
  ASSUME NEW d \in Directory, NEW id \in Ids, NEW r \in Records
  PROVE  /\ WithRecord(d, id, r) \in Directory
         /\ WithRecord(d, id, r).saved = d.saved
         /\ WithRecord(d, id, r).record[id] = r
         /\ \A i \in Ids \ {id} : WithRecord(d, id, r).record[i] = d.record[i]
         /\ Present(WithRecord(d, id, r)) = Present(d) \cup {id}
<1>0. NoFile \notin Records
  BY JournalAssumption DEF JournalAssumption, Records
<1>1. /\ WithRecord(d, id, r) \in Directory
      /\ WithRecord(d, id, r).saved = d.saved
      /\ WithRecord(d, id, r).record[id] = r
      /\ \A i \in Ids \ {id} : WithRecord(d, id, r).record[i] = d.record[i]
  BY DEF WithRecord, Directory
<1>2. Present(WithRecord(d, id, r)) = Present(d) \cup {id}
  BY <1>0, <1>1 DEF Present
<1> QED  BY <1>1, <1>2

(* Writing the saved file leaves the records alone.                         *)
LEMMA WithSavedFacts ==
  ASSUME NEW d \in Directory, NEW id \in Ids, MaxRecords \in Nat
  PROVE  /\ WithSaved(d, id) \in Directory
         /\ WithSaved(d, id).saved = id
         /\ WithSaved(d, id).record = d.record
         /\ Present(WithSaved(d, id)) = Present(d)
<1>1. /\ WithSaved(d, id) \in Directory
      /\ WithSaved(d, id).saved = id
      /\ WithSaved(d, id).record = d.record
  BY DEF WithSaved, Directory, Ids
<1> QED  BY <1>1 DEF Present

(* Entries read from directories that agree on the ids are the same.        *)
LEMMA EntriesAgree ==
  ASSUME NEW d, NEW e, NEW ids, \A i \in ids : d.record[i] = e.record[i]
  PROVE  Entries(d, ids) = Entries(e, ids)
BY DEF Entries

(* Ranges from one are equal when their ends are.                           *)
LEMMA RangesEqual ==
  ASSUME NEW a \in Nat, NEW b \in Nat, 1..a = 1..b
  PROVE  a = b
<1>1. a \in 1..a \/ a = 0
  OBVIOUS
<1>2. b \in 1..b \/ b = 0
  OBVIOUS
<1> QED  BY <1>1, <1>2

(* When the record files are 1..n, the cursor of the directory is at most n. *)
LEMMA CursorBound ==
  ASSUME NEW d \in Directory, NEW n \in Nat, WellFormed(d), Present(d) = 1..n,
         MaxRecords \in Nat
  PROVE  d.saved <= n
BY RangesEqual DEF WellFormed, CanOpen

-----------------------------------------------------------------------------
(* Each step of write_atomic preserves the invariant.                       *)

(* A record file takes its name: the record survives from here on.          *)
LEMMA RenameRecordInv ==
  ASSUME IInv, Rename, write.name = "record"
  PROVE  IInv'
<1> USE JournalAssumption DEF JournalAssumption
<1> DEFINE id == write.id
           r  == write.record
<1>1. write # Idle /\ mode = "up" /\ ~writable /\ id = next /\ Present(dir) = 1..Last
  BY DEF IInv, WriteInv, Rename, Idle
<1>2. write \in RecordWrites /\ id \in Ids /\ r \in Records
  BY <1>1 DEF IInv, TypeOK, RecordWrites, SavedWrites
<1>3. dir \in Directory /\ dir \in versions /\ versions \subseteq Directory
      /\ saved \in Nat /\ next \in Nat /\ Last \in Nat /\ id = Last + 1
  BY <1>1, <1>2 DEF IInv, TypeOK, DiskInv, Last, Ids
<1>4. dir' = WithRecord(dir, id, r)
  BY DEF Rename
<1>5. /\ dir' \in Directory /\ dir'.saved = dir.saved /\ dir'.record[id] = r
      /\ \A i \in Ids \ {id} : dir'.record[i] = dir.record[i]
      /\ Present(dir') = Present(dir) \cup {id}
  BY <1>2, <1>3, <1>4, WithRecordFacts
<1>6. Present(dir') = 1..next
  BY <1>1, <1>3, <1>5
<1>7. dir.saved <= Last /\ dir.saved \in Nat
  BY <1>1, <1>3, CursorBound DEF IInv, DiskInv, Directory
<1>8. \A i \in 1..Last : dir'.record[i] = dir.record[i]
  BY <1>2, <1>3, <1>5 DEF Ids
<1>9. \A n \in 0..Last : \A m \in Nat : Entries(dir', (m + 1)..n) = Entries(dir, (m + 1)..n)
  <2> TAKE n \in 0..Last, m \in Nat
  <2>1. \A i \in (m + 1)..n : dir'.record[i] = dir.record[i]
    BY <1>3, <1>8
  <2> QED  BY <2>1, EntriesAgree
<1>10. Entries(dir', 1..dir.saved) = Entries(dir, 1..dir.saved)
       /\ (saved <= Last => Entries(dir', 1..saved) = Entries(dir, 1..saved))
  BY <1>3, <1>7, <1>8, EntriesAgree
<1>11. versions' = versions \cup {dir'}
       /\ UNCHANGED <<mode, next, saved, writable, uploader, batch, inflight, db, accepted,
                      crashes, faults>>
  BY DEF Rename, uploadVars
<1>12. write' = [write EXCEPT !.stage = "renamed"]
  BY DEF Rename
<1>13. write' \in RecordWrites /\ write'.stage = "renamed" /\ write'.name = "record"
       /\ write'.id = id /\ write'.record = r
  BY <1>2, <1>12 DEF RecordWrites, Stages
<1>14. write' # Idle
  BY <1>13 DEF Idle
<1>15. TypeOK'
  BY <1>3, <1>5, <1>11, <1>13 DEF IInv, TypeOK
<1>16. DiskInv'
  <2>1. WellFormed(dir')
    <3>1. dir'.saved <= next
      BY <1>3, <1>1, <1>5, <1>7
    <3>2. next \in 0..MaxRecords
      BY <1>1, <1>2 DEF Ids
    <3> QED  BY <1>6, <3>1, <3>2 DEF WellFormed, CanOpen
  <2>2. \A d \in versions : Older(d, dir')
    <3> TAKE d \in versions
    <3> SUFFICES ASSUME NEW i \in Ids, d.record[i] # NoFile
                 PROVE  d.record[i] = dir'.record[i]
      BY DEF Older
    <3>1. d.record[i] = dir.record[i]
      BY DEF IInv, DiskInv, Older
    <3>2. i \in 1..Last
      BY <1>1, <3>1 DEF Present
    <3> QED  BY <1>8, <3>1, <3>2
  <2>3. Older(dir', dir')
    BY DEF Older
  <2>4. Entries(dir', 1..dir'.saved) \subseteq db
    BY <1>3, <1>5, <1>10 DEF IInv, DiskInv
  <2> QED  BY <1>11, <2>1, <2>2, <2>3, <2>4 DEF IInv, DiskInv
<1>17. MemoryInv'
  BY <1>1, <1>3, <1>6, <1>10, <1>11 DEF IInv, MemoryInv, Last
<1>18. WriteInv'
  BY <1>1, <1>5, <1>11, <1>13, <1>14 DEF WriteInv
<1>19. UploaderInv'
  <2> SUFFICES ASSUME uploader \in {"sending", "committed", "acknowledging"}
               PROVE  UploaderInv'
    BY <1>11 DEF UploaderInv
  <2>1. uploader # "acknowledging"
    BY <1>2 DEF IInv, UploaderInv, WriteInv, RecordWrites
  <2>2. PICK n \in (saved + 1)..Last : batch = Entries(dir, (saved + 1)..n)
    BY DEF IInv, UploaderInv
  <2>3. batch = Entries(dir', (saved + 1)..n)
    BY <1>3, <1>9, <2>2
  <2>4. \E k \in (saved + 1)..Last : batch = Entries(dir', (saved + 1)..k)
    BY <2>3
  <2>5. Last' = Last
    BY <1>11 DEF Last
  <2> QED  BY <1>1, <1>11, <2>1, <2>4, <2>5 DEF IInv, UploaderInv
<1>20. AcceptedSurvives'
  <2> SUFFICES ASSUME NEW e \in accepted
               PROVE  dir'.record[e.seq] = e.record
    BY <1>11 DEF IInv, AcceptedSurvives
  <2>1. e \in Entry /\ dir.record[e.seq] = e.record
    BY <1>3 DEF IInv, AcceptedSurvives, TypeOK
  <2>2. e.seq \in Ids /\ e.record # NoFile
    BY <2>1 DEF Entry, Records
  <2>3. e.seq \in 1..Last
    BY <1>1, <2>1, <2>2 DEF Present
  <2> QED  BY <1>8, <2>1, <2>3
<1> QED
  BY <1>11, <1>15, <1>16, <1>17, <1>18, <1>19, <1>20 DEF IInv

(* The saved file takes its name, which allows record files to be removed.  *)
LEMMA RenameSavedInv ==
  ASSUME IInv, Rename, write.name # "record"
  PROVE  IInv'
<1> USE JournalAssumption DEF JournalAssumption
<1> DEFINE id == write.id
<1>1. write # Idle /\ mode = "up" /\ ~writable
  BY DEF IInv, WriteInv, Rename, Idle
<1>2. write \in SavedWrites /\ id \in Ids /\ write.name = "saved"
  BY <1>1 DEF IInv, TypeOK, RecordWrites, SavedWrites
<1>3. /\ uploader = "acknowledging" /\ saved < id /\ id <= Last
      /\ Entries(dir, 1..id) \subseteq db /\ Present(dir) = 1..Last
  BY <1>1, <1>2 DEF IInv, WriteInv
<1>4. dir \in Directory /\ dir \in versions /\ versions \subseteq Directory
      /\ saved \in Nat /\ next \in Nat /\ Last \in Nat
  BY <1>2, <1>3 DEF IInv, TypeOK, DiskInv, Last, Ids
<1>5. dir' = WithSaved(dir, id)
  BY <1>2 DEF Rename
<1>6. /\ dir' \in Directory /\ dir'.saved = id /\ dir'.record = dir.record
      /\ Present(dir') = Present(dir)
  BY <1>2, <1>4, <1>5, WithSavedFacts
<1>7. \A ids : Entries(dir', ids) = Entries(dir, ids)
  BY <1>6 DEF Entries
<1>8. versions' = versions \cup {dir'}
       /\ UNCHANGED <<mode, next, saved, writable, uploader, batch, inflight, db, accepted,
                      crashes, faults>>
  BY DEF Rename, uploadVars
<1>9. write' \in SavedWrites /\ write'.stage = "renamed" /\ write'.name = "saved"
       /\ write'.id = id
  BY <1>2 DEF SavedWrites, Stages, Rename
<1>10. write' # Idle
  BY <1>9 DEF Idle
<1>11. TypeOK'
  BY <1>4, <1>6, <1>8, <1>9 DEF IInv, TypeOK
<1>12. DiskInv'
  <2>1. WellFormed(dir')
    <3>1. Last \in 0..MaxRecords
      BY <1>4 DEF Last, IInv, TypeOK
    <3> QED  BY <1>3, <1>6, <3>1 DEF WellFormed, CanOpen
  <2>2. \A d \in versions' : Older(d, dir')
    BY <1>6, <1>8 DEF IInv, DiskInv, Older
  <2>3. Entries(dir', 1..dir'.saved) \subseteq db
    BY <1>3, <1>6, <1>7
  <2> QED  BY <1>8, <2>1, <2>2, <2>3 DEF IInv, DiskInv
<1>13. MemoryInv'
  BY <1>1, <1>3, <1>6, <1>7, <1>8 DEF IInv, MemoryInv, Last
<1>14. WriteInv'
  BY <1>1, <1>3, <1>6, <1>7, <1>8, <1>9, <1>10 DEF WriteInv, Last
<1>15. UploaderInv'
  BY <1>1, <1>7, <1>8, <1>9, <1>10 DEF IInv, UploaderInv, Last
<1>16. AcceptedSurvives'
  BY <1>4, <1>6, <1>8 DEF IInv, AcceptedSurvives
<1> QED
  BY <1>8, <1>11, <1>12, <1>13, <1>14, <1>15, <1>16 DEF IInv

(* An append begins or returns.                                             *)
LEMMA AppendInv ==
  ASSUME IInv, \/ \E r \in Records : BeginAppend(r)
               \/ AppendDone
  PROVE  IInv'
<1> USE JournalAssumption DEF JournalAssumption
<1>1. ASSUME NEW r \in Records, BeginAppend(r)
      PROVE  IInv'
  <2>1. next \in Ids /\ write = Idle /\ writable /\ mode = "up" /\ Present(dir) = 1..Last
    BY <1>1 DEF BeginAppend, Unlocked, IInv, TypeOK, Ids, MemoryInv
  <2>2. write' \in RecordWrites /\ write'.stage = "temporary" /\ write'.name = "record"
        /\ write'.id = next
    BY <1>1, <2>1 DEF BeginAppend, RecordWrites, Stages
  <2>3. write' # Idle
    BY <2>2 DEF Idle
  <2>4. UNCHANGED <<dir, versions, mode, next, saved, uploader, batch, inflight, db,
                    accepted, crashes, faults>> /\ writable' = FALSE
    BY <1>1 DEF BeginAppend, diskVars, uploadVars
  <2>5. uploader # "acknowledging"
    BY <2>1 DEF IInv, UploaderInv
  <2>6. TypeOK'
    BY <2>2, <2>4 DEF IInv, TypeOK
  <2>7. DiskInv' /\ AcceptedSurvives'
    BY <2>4 DEF IInv, DiskInv, AcceptedSurvives
  <2>8. MemoryInv' /\ WriteInv' /\ UploaderInv'
    BY <2>1, <2>2, <2>3, <2>4, <2>5 DEF IInv, MemoryInv, WriteInv, UploaderInv, Last
  <2> QED  BY <2>4, <2>6, <2>7, <2>8 DEF IInv
<1>2. CASE AppendDone
  <2>1. write # Idle /\ write.stage = "renamed" /\ write.name = "record" /\ mode = "up"
        /\ ~writable
    BY <1>2 DEF AppendDone, Idle, IInv, WriteInv
  <2>2. write \in RecordWrites /\ write.id = next /\ next \in Ids /\ write.record \in Records
        /\ dir.record[write.id] = write.record
    BY <2>1 DEF IInv, TypeOK, RecordWrites, SavedWrites, WriteInv
  <2>3. dir \in Directory /\ dir \in versions /\ next \in Nat /\ saved \in Nat
        /\ Last = next - 1
    BY <2>2 DEF IInv, TypeOK, DiskInv, Ids, Last
  <2>4. /\ versions' = {dir} /\ next' = next + 1 /\ writable' = TRUE /\ write' = Idle
        /\ accepted' = accepted \cup {[seq |-> write.id, record |-> write.record]}
        /\ UNCHANGED <<dir, mode, saved, uploader, batch, inflight, db, crashes, faults>>
    BY <1>2 DEF AppendDone, uploadVars
  <2>5. Present(dir) = 1..next
    <3>1. next \in Present(dir)
      BY <2>2, JournalAssumption DEF Present, Records
    <3> QED  BY <2>1, <2>3, <3>1 DEF IInv, MemoryInv
  <2>6. Last' = next
    BY <2>3, <2>4 DEF Last
  <2>7. [seq |-> write.id, record |-> write.record] \in Entry
    BY <2>2 DEF Entry
  <2>8. next' \in 1..(MaxRecords + 1)
    BY <2>2, <2>4 DEF Ids
  <2>9. TypeOK'
    BY <2>3, <2>4, <2>7, <2>8 DEF IInv, TypeOK
  <2>10. DiskInv'
    BY <2>3, <2>4 DEF IInv, DiskInv
  <2>11. AcceptedSurvives'
    BY <2>2, <2>3, <2>4 DEF IInv, AcceptedSurvives
  <2>12. MemoryInv'
    BY <2>1, <2>3, <2>4, <2>5, <2>6 DEF IInv, MemoryInv
  <2>13. UploaderInv'
    <3>1. uploader # "acknowledging"
      BY <2>2 DEF IInv, UploaderInv, RecordWrites
    <3>2. \A n \in (saved + 1)..Last : n \in (saved + 1)..Last'
      BY <2>3, <2>6
    <3>3. \A n : Entries(dir, (saved + 1)..n)' = Entries(dir, (saved + 1)..n)
      BY <2>4 DEF Entries
    <3> QED  BY <2>1, <2>4, <3>1, <3>2, <3>3 DEF IInv, UploaderInv
  <2> QED
    BY <2>4, <2>9, <2>10, <2>11, <2>12, <2>13, <2>1 DEF IInv, WriteInv
<1> QED  BY <1>1, <1>2

(* The uploader acknowledges what the database holds.                       *)
LEMMA AcknowledgeInv ==
  ASSUME IInv, Acknowledge \/ AcknowledgeRefused \/ AcknowledgeDone
  PROVE  IInv'
<1> USE JournalAssumption DEF JournalAssumption
<1>1. CASE Acknowledge
  <2>1. /\ write = Idle /\ writable /\ mode = "up" /\ uploader = "committed"
        /\ Present(dir) = 1..Last /\ saved <= Last /\ Entries(dir, 1..saved) \subseteq db
        /\ batch \subseteq db
    BY <1>1 DEF Acknowledge, MayAcknowledge, Unlocked, IInv, MemoryInv, UploaderInv
  <2>2. saved \in Nat /\ next \in Nat /\ Last \in 0..MaxRecords
    BY DEF IInv, TypeOK, Last
  <2>3. PICK n \in (saved + 1)..Last : batch = Entries(dir, (saved + 1)..n)
    BY <2>1 DEF IInv, UploaderInv
  <2>4. n \in (saved + 1)..MaxRecords /\ n \in Ids
    BY <2>2, <2>3 DEF Ids
  <2>5. BatchLast = n
    BY <2>2, <2>3, <2>4, BatchLastIsLast
  <2>6. Entries(dir, 1..n) \subseteq db
    <3>1. 1..n = 1..saved \cup ((saved + 1)..n)
      BY <2>2, <2>3
    <3>2. Entries(dir, 1..n) = Entries(dir, 1..saved) \cup Entries(dir, (saved + 1)..n)
      BY <3>1 DEF Entries
    <3> QED  BY <2>1, <2>3, <3>2
  <2>7. write' \in SavedWrites /\ write'.stage = "temporary" /\ write'.name = "saved"
        /\ write'.id = n
    BY <1>1, <2>4, <2>5 DEF Acknowledge, SavedWrites, Stages
  <2>8. write' # Idle
    BY <2>7 DEF Idle
  <2>9. UNCHANGED <<dir, versions, mode, next, saved, batch, inflight, db,
                    accepted, crashes, faults>>
        /\ writable' = FALSE /\ uploader' = "acknowledging"
    BY <1>1 DEF Acknowledge, diskVars
  <2>10. TypeOK'
    BY <2>7, <2>9 DEF IInv, TypeOK
  <2>11. DiskInv' /\ AcceptedSurvives'
    BY <2>9 DEF IInv, DiskInv, AcceptedSurvives
  <2>12. Last' = Last /\ \A ids : Entries(dir, ids)' = Entries(dir, ids)
    BY <2>9 DEF Last, Entries
  <2>13. MemoryInv'
    BY <2>1, <2>9, <2>12 DEF IInv, MemoryInv
  <2>14. WriteInv'
    <3>1. saved < n /\ n <= Last
      BY <2>2, <2>3
    <3> QED  BY <2>1, <2>6, <2>7, <2>8, <2>9, <2>12, <3>1 DEF WriteInv
  <2>15. UploaderInv'
    BY <2>1, <2>3, <2>7, <2>8, <2>9, <2>12 DEF UploaderInv
  <2> QED  BY <2>9, <2>10, <2>11, <2>13, <2>14, <2>15 DEF IInv
<1>2. CASE AcknowledgeRefused
  <2>1. UNCHANGED <<dir, versions, mode, next, saved, writable, write, batch, inflight, db,
                    accepted, crashes, faults>> /\ uploader' = "stopped"
    BY <1>2 DEF AcknowledgeRefused, diskVars, memVars
  <2>2. write = Idle
    BY <1>2 DEF AcknowledgeRefused, Unlocked
  <2> QED
    BY <2>1, <2>2 DEF IInv, TypeOK, DiskInv, MemoryInv, WriteInv, UploaderInv, AcceptedSurvives,
                      Last
<1>3. CASE AcknowledgeDone
  <2>1. write # Idle /\ write.name = "saved" /\ mode = "up"
    BY <1>3 DEF AcknowledgeDone, Idle
  <2>2. /\ saved < write.id /\ write.id <= Last /\ Entries(dir, 1..write.id) \subseteq db
        /\ Present(dir) = 1..Last
    BY <2>1 DEF IInv, WriteInv
  <2>3. write.id \in Ids
    BY <2>1 DEF IInv, TypeOK, RecordWrites, SavedWrites
  <2>4. /\ versions' = {dir} /\ saved' = write.id /\ writable' = TRUE /\ write' = Idle
        /\ uploader' = "idle" /\ batch' = {}
        /\ UNCHANGED <<dir, mode, next, inflight, db, accepted, crashes, faults>>
    BY <1>3 DEF AcknowledgeDone
  <2>5. dir \in Directory /\ dir \in versions /\ saved' \in 0..MaxRecords
    BY <2>3, <2>4 DEF IInv, TypeOK, DiskInv, Ids
  <2>6. TypeOK'
    BY <2>4, <2>5 DEF IInv, TypeOK
  <2>7. DiskInv' /\ AcceptedSurvives'
    BY <2>4, <2>5 DEF IInv, DiskInv, AcceptedSurvives
  <2>8. MemoryInv' /\ WriteInv' /\ UploaderInv'
    BY <2>1, <2>2, <2>4 DEF IInv, MemoryInv, WriteInv, UploaderInv, Last
  <2> QED  BY <2>4, <2>6, <2>7, <2>8 DEF IInv
<1> QED  BY <1>1, <1>2, <1>3

(* A failed file operation leaves whatever the directory then holds.        *)
LEMMA WriteFailsInv ==
  ASSUME IInv, WriteFails
  PROVE  IInv'
<1> USE JournalAssumption DEF JournalAssumption
<1>1. write # Idle /\ mode = "up" /\ ~writable
  BY DEF WriteFails, IInv, WriteInv
<1>2. /\ write' = Idle /\ faults' \in 0..MaxFaults
      /\ uploader' = IF write.name = "saved" THEN "stopped" ELSE uploader
      /\ UNCHANGED <<dir, versions, mode, next, saved, writable, batch, inflight, db,
                     accepted, crashes>>
  BY DEF WriteFails, diskVars, IInv, TypeOK
<1>3. uploader' # "acknowledging"
  BY <1>1, <1>2 DEF IInv, UploaderInv, TypeOK, RecordWrites, SavedWrites
<1>4. TypeOK'
  BY <1>2 DEF IInv, TypeOK
<1>5. DiskInv' /\ AcceptedSurvives'
  BY <1>2 DEF IInv, DiskInv, AcceptedSurvives
<1>6. MemoryInv' /\ WriteInv' /\ UploaderInv'
  BY <1>1, <1>2, <1>3 DEF IInv, MemoryInv, WriteInv, UploaderInv, Last
<1> QED  BY <1>2, <1>4, <1>5, <1>6 DEF IInv

-----------------------------------------------------------------------------
(* The uploader's and the database's steps.                                 *)

(* The uploader reads, sends and learns what was committed.                 *)
LEMMA UploaderStepInv ==
  ASSUME IInv,
         \/ TakeBatch \/ ReadPendingFails \/ UploadFails
         \/ \E tx \in inflight : Commit(tx) \/ Conflict(tx)
  PROVE  IInv'
<1> USE JournalAssumption DEF JournalAssumption
<1>0. UNCHANGED <<dir, versions, mode, next, saved, writable, write, accepted, crashes>>
  BY DEF TakeBatch, ReadPendingFails, UploadFails, Commit, Conflict, diskVars, memVars
<1>1. Last' = Last /\ \A ids : Entries(dir, ids)' = Entries(dir, ids)
  BY <1>0 DEF Last, Entries
<1>2. saved \in Nat /\ next \in Nat /\ Last \in 0..MaxRecords /\ dir \in Directory
  BY DEF IInv, TypeOK, Last
<1>3. ASSUME db \subseteq db'
      PROVE  DiskInv' /\ MemoryInv' /\ AcceptedSurvives'
  <2>1. \A d \in versions : Entries(d, 1..d.saved)' = Entries(d, 1..d.saved)
    BY DEF Entries
  <2>2. DiskInv' /\ AcceptedSurvives'
    BY <1>0, <1>3, <2>1 DEF IInv, DiskInv, AcceptedSurvives, WellFormed, CanOpen, Present, Older
  <2>3. MemoryInv'
    BY <1>0, <1>1, <1>3 DEF IInv, MemoryInv
  <2> QED  BY <2>2, <2>3
<1>4. CASE TakeBatch
  <2>1. /\ mode = "up" /\ write = Idle /\ BatchIds # {}
        /\ batch' = Entries(dir, BatchIds) /\ inflight' = inflight \cup {batch'}
        /\ uploader' = "sending" /\ UNCHANGED <<db, faults>>
    BY <1>4 DEF TakeBatch, Unlocked
  <2>2. PICK n \in (saved + 1)..Last : BatchIds = (saved + 1)..n
    <3> DEFINE m == IF saved + BatchSize <= Last THEN saved + BatchSize ELSE Last
    <3>1. m \in (saved + 1)..Last
      BY <1>2, <2>1 DEF BatchIds, Ids
    <3>2. BatchIds = (saved + 1)..m
      BY <1>2 DEF BatchIds, Ids
    <3> QED  BY <3>1, <3>2
  <2>3. batch' \in SUBSET Entry
    <3>1. 1..Last \subseteq Present(dir)
      BY <1>2, <2>1 DEF IInv, MemoryInv, Last
    <3>2. BatchIds \subseteq 1..Last
      BY <1>2, <2>2
    <3> QED  BY <1>2, <2>1, <3>1, <3>2, EntriesType
  <2>4. TypeOK'
    BY <1>0, <2>1, <2>3 DEF IInv, TypeOK
  <2>5. WriteInv'
    BY <1>0, <1>1, <2>1 DEF WriteInv
  <2>6. UploaderInv'
    BY <1>0, <1>1, <2>1, <2>2 DEF UploaderInv
  <2> QED  BY <1>0, <1>3, <2>1, <2>4, <2>5, <2>6 DEF IInv
<1>5. CASE ReadPendingFails \/ UploadFails
  <2>1. /\ uploader' \in {"stopped", "idle"} /\ db' = db
        /\ batch' \in {batch, {}} /\ inflight' \subseteq inflight /\ faults' \in 0..MaxFaults
        /\ uploader # "acknowledging"
    BY <1>5 DEF ReadPendingFails, UploadFails, IInv, TypeOK
  <2>2. TypeOK'
    BY <1>0, <2>1 DEF IInv, TypeOK
  <2>3. WriteInv'
    BY <1>0, <1>1, <2>1 DEF IInv, WriteInv
  <2> QED  BY <1>0, <1>3, <2>1, <2>2, <2>3 DEF IInv, UploaderInv
<1>6. ASSUME NEW tx \in inflight, Commit(tx) \/ Conflict(tx)
      PROVE  IInv'
  <2>1. /\ db \subseteq db' /\ db' \subseteq Entry /\ inflight' \subseteq inflight
        /\ faults' = faults /\ batch' \in {batch, {}}
        /\ uploader' \in {uploader, "idle", "committed"}
    BY <1>6 DEF Commit, Conflict, IInv, TypeOK
  <2>2. (uploader' # uploader \/ batch' # batch) => uploader = "sending"
    BY <1>6 DEF Commit, Conflict
  <2>3. (uploader' = "committed" /\ uploader # "committed") => batch' = batch /\ batch \subseteq db'
    BY <1>6 DEF Commit, Conflict
  <2>4. (uploader' \in {"sending", "committed", "acknowledging"}) => batch' = batch
    BY <1>6 DEF Commit, Conflict
  <2>5. TypeOK'
    BY <1>0, <2>1 DEF IInv, TypeOK
  <2>6. WriteInv'
    BY <1>0, <1>1, <2>1, <2>2 DEF IInv, WriteInv
  <2>7. UploaderInv'
    BY <1>0, <1>1, <2>1, <2>2, <2>3, <2>4 DEF IInv, UploaderInv
  <2> QED  BY <1>0, <1>3, <2>1, <2>5, <2>6, <2>7 DEF IInv
<1> QED  BY <1>4, <1>5, <1>6

-----------------------------------------------------------------------------
(* Boots, crashes and power losses.                                         *)

(* The journal is opened, or the process or the machine goes down.          *)
LEMMA BootInv ==
  ASSUME IInv, Open \/ Crash \/ LosePower
  PROVE  IInv'
<1> USE JournalAssumption DEF JournalAssumption
<1>1. dir \in Directory /\ versions \subseteq Directory /\ dir \in versions /\ WellFormed(dir)
  BY DEF IInv, TypeOK, DiskInv
<1>2. CASE Open
  <2>1. PICK n \in 0..MaxRecords : CanOpen(dir, n) /\ next' = n + 1
    BY <1>2 DEF Open
  <2>2. /\ saved' = dir.saved /\ mode = "down" /\ mode' = "up" /\ writable' = TRUE
        /\ uploader' = "idle"
        /\ UNCHANGED <<dir, versions, write, batch, inflight, db, accepted, crashes, faults>>
    BY <1>2 DEF Open, diskVars
  <2>3. write = Idle
    BY <2>2 DEF IInv, WriteInv
  <2>4. saved' \in 0..MaxRecords /\ next' \in 1..(MaxRecords + 1) /\ Last' = n
    BY <1>1, <2>1, <2>2 DEF Directory, Last
  <2>5. TypeOK'
    BY <2>2, <2>4 DEF IInv, TypeOK
  <2>6. DiskInv' /\ AcceptedSurvives'
    BY <2>2 DEF IInv, DiskInv, AcceptedSurvives
  <2>7. MemoryInv'
    <3>1. Entries(dir, 1..dir.saved) \subseteq db
      BY <1>1 DEF IInv, DiskInv
    <3>2. Present(dir)' = Present(dir) /\ Entries(dir, 1..saved)' = Entries(dir, 1..dir.saved)
      BY <2>2 DEF Present, Entries
    <3> QED  BY <2>1, <2>2, <2>3, <2>4, <3>1, <3>2 DEF MemoryInv, CanOpen
  <2>8. WriteInv' /\ UploaderInv'
    BY <2>2, <2>3 DEF WriteInv, UploaderInv
  <2> QED  BY <2>2, <2>5, <2>6, <2>7, <2>8 DEF IInv
<1>3. CASE Crash \/ LosePower
  <2>1. /\ mode' = "down" /\ writable' = FALSE /\ write' = Idle /\ uploader' = "stopped"
        /\ batch' = {} /\ crashes' \in 0..MaxCrashes
        /\ UNCHANGED <<next, saved, inflight, db, accepted, faults>>
    BY <1>3 DEF Crash, LosePower, Die, IInv, TypeOK
  <2>2. dir' \in versions /\ dir' \in versions' /\ versions' \subseteq versions
        /\ (versions' = {dir'} \/ (versions' = versions /\ dir' = dir))
    BY <1>1, <1>3 DEF Crash, LosePower, diskVars
  <2>3. TypeOK'
    BY <1>1, <2>1, <2>2 DEF IInv, TypeOK
  <2>4. DiskInv'
    BY <2>1, <2>2 DEF IInv, DiskInv, Older
  <2> QED
    BY <2>1, <2>2, <2>3, <2>4 DEF IInv, AcceptedSurvives, MemoryInv, WriteInv, UploaderInv
<1> QED  BY <1>2, <1>3

(* Every step keeps the invariant.                                          *)
LEMMA StepInv == IInv /\ [Next]_vars => IInv'
<1> SUFFICES ASSUME IInv, [Next]_vars PROVE IInv'  OBVIOUS
<1>1. CASE Next
  BY <1>1, RenameRecordInv, RenameSavedInv, AppendInv, AcknowledgeInv, WriteFailsInv,
     UploaderStepInv, BootInv DEF Next
<1>2. CASE UNCHANGED vars
  <2>1. UNCHANGED <<dir, versions, mode, next, saved, writable, write, uploader, batch, inflight,
                    db, accepted, crashes, faults>>
    BY <1>2 DEF vars, diskVars, memVars, uploadVars
  <2> QED
    BY <2>1 DEF IInv, TypeOK, DiskInv, MemoryInv, WriteInv, UploaderInv, AcceptedSurvives,
                Last, WellFormed, CanOpen, Present, Older, Entries
<1> QED  BY <1>1, <1>2

(* The invariant holds in every reachable state.                            *)
THEOREM Inductive == Spec => []IInv
<1>1. Init => IInv
  BY InitInv
<1>2. IInv /\ [Next]_vars => IInv'
  BY StepInv
<1> QED  BY <1>1, <1>2, PTL DEF Spec

(* Every variable of the journal keeps its type.                            *)
THEOREM TypeCorrect == Spec => []TypeOK
BY Inductive, PTL DEF IInv

(* A record append answered Ok to survives every crash and power loss.      *)
THEOREM AcceptedRecordsSurvive == Spec => []AcceptedSurvives
BY Inductive, PTL DEF IInv

(* The journal can open every directory that may be found on boot.          *)
THEOREM JournalReopens == Spec => []NeverRefused
<1>1. IInv => NeverRefused
  BY DEF IInv, DiskInv, WellFormed, NeverRefused
<1> QED  BY <1>1, Inductive, PTL

(* Nothing at or below the saved cursor is missing from the database.       *)
THEOREM SavedRecordsReplicated == Spec => []SavedIsReplicated
<1>1. IInv => SavedIsReplicated
  BY DEF IInv, DiskInv, MemoryInv, SavedIsReplicated
<1> QED  BY <1>1, Inductive, PTL


-----------------------------------------------------------------------------
(* The replica, while the machine keeps its power.                          *)

(* The cursor file is the cursor in memory, but for an acknowledge that has  *)
(* renamed the file and not returned; one that failed there ends the loop.  *)
CursorInv ==
  mode = "up" /\ uploader # "stopped" =>
    dir.saved = IF write # Idle /\ write.name = "saved" /\ write.stage = "renamed"
                  THEN write.id ELSE saved

(* The table holds the first k records, k not before the cursor file, and   *)
(* each commit still on its way starts at or before the row k + 1.          *)
Stored(k) ==
  /\ dir.saved <= k /\ 1..k \subseteq Present(dir)
  /\ db = Entries(dir, 1..k)
  /\ \A tx \in inflight : \E a \in 0..k, m \in 0..MaxRecords :
       1..m \subseteq Present(dir) /\ tx = Entries(dir, (a + 1)..m)

ReplicaInv == ~PowerLoss => \E k \in 0..MaxRecords : Stored(k)

RInv == IInv /\ CursorInv /\ ReplicaInv

(* A step of the abstract store, or none.                                   *)
StoreStep == [Store!Next]_(Store!hvars)

(* There are as many entries as ids they are read for.                      *)
LEMMA EntriesCount ==
  ASSUME NEW d, NEW k \in Nat
  PROVE  Cardinality(Entries(d, 1..k)) = k
<1> DEFINE f == [i \in 1..k |-> [seq |-> i, record |-> d.record[i]]]
<1>1. f \in [1..k -> Entries(d, 1..k)]
  BY DEF Entries
<1>2. \A i, j \in 1..k : f[i] = f[j] => i = j
  OBVIOUS
<1>3. \A e \in Entries(d, 1..k) : \E i \in 1..k : f[i] = e
  BY DEF Entries
<1>4. f \in Bijection(1..k, Entries(d, 1..k))
  BY <1>1, <1>2, <1>3, Fun_IsBij
<1> HIDE DEF f
<1> QED  BY <1>4, FS_CountingElements DEF ExistsBijection

(* The history is the content of the record files.                          *)
LEMMA HistoryLength ==
  ASSUME NEW n \in Nat, Present(dir) = 1..n
  PROVE  History = [i \in 1..n |-> dir.record[i]] /\ Len(History) = n
<1>1. Cardinality(1..n) = n
  BY FS_Interval
<1>2. History = [i \in 1..n |-> dir.record[i]]
  BY <1>1 DEF History
<1> QED  BY <1>2

(* Entries of one directory are among each other's exactly when their ids are. *)
LEMMA EntriesOrder ==
  ASSUME NEW d, NEW a \in Nat, NEW b \in Nat, Entries(d, 1..a) \subseteq Entries(d, 1..b)
  PROVE  a <= b
<1>1. CASE a = 0
  BY <1>1
<1>2. CASE a # 0
  <2>1. [seq |-> a, record |-> d.record[a]] \in Entries(d, 1..a)
    BY <1>2 DEF Entries
  <2>2. PICK i \in 1..b : [seq |-> a, record |-> d.record[a]] = [seq |-> i, record |-> d.record[i]]
    BY <2>1 DEF Entries
  <2> QED  BY <2>2
<1> QED  BY <1>1, <1>2

(* What the abstract store sees of a step that writes no file and commits   *)
(* nothing.                                                                 *)
LEMMA StoreStutters ==
  ASSUME UNCHANGED <<dir, db>>
  PROVE  StoreStep
BY DEF StoreStep, Store!hvars, History, Present

(* Each step keeps the cursor file and the cursor in memory together.       *)
LEMMA CursorStep ==
  ASSUME IInv, CursorInv, [Next]_vars
  PROVE  CursorInv'
<1> USE DEF CursorInv
<1>1. ASSUME NEW r \in Records, BeginAppend(r)
      PROVE  CursorInv'
  BY <1>1 DEF BeginAppend, Unlocked, diskVars, uploadVars, Idle
<1>2. CASE Rename /\ write.name = "record"
  <2>1. write # Idle /\ mode = "up"
    BY <1>2 DEF Rename, IInv, WriteInv, Idle
  <2>2. write \in RecordWrites /\ write.id \in Ids /\ write.record \in Records
    BY <1>2, <2>1 DEF IInv, TypeOK, RecordWrites, SavedWrites
  <2>3. dir'.saved = dir.saved
    BY <1>2, <2>2, WithRecordFacts DEF Rename, IInv, TypeOK
  <2>4. write'.name = "record"
    BY <1>2, <2>2 DEF Rename, RecordWrites
  <2>5. UNCHANGED <<mode, uploader, saved>>
    BY <1>2 DEF Rename, uploadVars
  <2> QED  BY <1>2, <2>1, <2>3, <2>4, <2>5
<1>3. CASE Rename /\ write.name # "record"
  <2>1. write # Idle
    BY <1>3 DEF Rename, IInv, WriteInv, Idle
  <2>2. write \in SavedWrites /\ write.id \in Ids
    BY <1>3, <2>1 DEF IInv, TypeOK, RecordWrites, SavedWrites
  <2>3. dir'.saved = write.id
    BY <1>3, <2>2, WithSavedFacts, JournalAssumption DEF Rename, IInv, TypeOK, JournalAssumption
  <2>4. write'.name = "saved" /\ write'.stage = "renamed" /\ write'.id = write.id /\ write' # Idle
    BY <1>3, <2>2 DEF Rename, SavedWrites, Idle
  <2> QED  BY <2>3, <2>4
<1>4. CASE AppendDone
  BY <1>4 DEF AppendDone, uploadVars, Idle
<1>5. CASE AcknowledgeDone
  <2>1. write # Idle /\ uploader = "acknowledging"
    BY <1>5 DEF AcknowledgeDone, IInv, WriteInv, Idle
  <2> QED  BY <1>5, <2>1 DEF AcknowledgeDone, Idle
<1>6. CASE WriteFails
  BY <1>6 DEF WriteFails, diskVars, Idle
<1>7. CASE TakeBatch \/ ReadPendingFails \/ UploadFails \/ AcknowledgeRefused
           \/ \E tx \in inflight : Commit(tx) \/ Conflict(tx)
  <2>1. \/ UNCHANGED <<dir, mode, saved, write>> /\ uploader # "stopped"
        \/ UNCHANGED <<dir, mode, saved, write, uploader>>
    BY <1>7 DEF TakeBatch, ReadPendingFails, UploadFails, AcknowledgeRefused, Commit, Conflict,
                diskVars, memVars
  <2> QED  BY <2>1
<1>8. CASE Acknowledge
  <2>1. /\ write = Idle /\ uploader = "committed"
        /\ write' = [stage |-> "temporary", name |-> "saved", id |-> BatchLast]
        /\ UNCHANGED <<dir, mode, saved>>
    BY <1>8 DEF Acknowledge, Unlocked, diskVars
  <2> QED  BY <2>1
<1>9. CASE Open
  <2>1. write = Idle /\ write' = write /\ saved' = dir.saved /\ dir' = dir
    BY <1>9 DEF Open, IInv, WriteInv, diskVars
  <2> QED  BY <2>1
<1>10. CASE Crash \/ LosePower
  BY <1>10 DEF Crash, LosePower, Die
<1>11. CASE UNCHANGED vars
  BY <1>11 DEF vars, diskVars, memVars, uploadVars
<1> QED  BY <1>1, <1>2, <1>3, <1>4, <1>5, <1>6, <1>7, <1>8, <1>9, <1>10, <1>11 DEF Next

(* A step that leaves the files and the rows alone, and sends nothing, keeps *)
(* what the table holds.                                                    *)
LEMMA StoredKept ==
  ASSUME NEW k, Stored(k), UNCHANGED <<dir, db>>, inflight' \subseteq inflight
  PROVE  Stored(k)'
BY DEF Stored, Present, Entries

(* A record file takes its name: the history grows by its record.           *)
LEMMA RenameRecordStore ==
  ASSUME IInv, Rename, write.name = "record", NEW k \in 0..MaxRecords, Stored(k)
  PROVE  Stored(k)' /\ StoreStep
<1> USE JournalAssumption DEF JournalAssumption
<1> DEFINE n == Last
           r == write.record
<1>1. write # Idle /\ mode = "up" /\ write.id = next /\ Present(dir) = 1..n
  BY DEF IInv, WriteInv, Rename, Idle
<1>2. write \in RecordWrites /\ next \in Ids /\ r \in Records
  BY <1>1 DEF IInv, TypeOK, RecordWrites, SavedWrites
<1>3. n \in Nat /\ next = n + 1 /\ next \in Nat /\ dir \in Directory
  BY <1>2 DEF IInv, TypeOK, Last, Ids
<1> HIDE DEF n
<1>4. dir' = WithRecord(dir, next, r) /\ UNCHANGED <<db, inflight>>
  BY <1>1 DEF Rename, uploadVars
<1>5. /\ dir'.saved = dir.saved /\ dir'.record[next] = r
      /\ \A i \in Ids \ {next} : dir'.record[i] = dir.record[i]
      /\ Present(dir') = Present(dir) \cup {next}
  BY <1>2, <1>3, <1>4, WithRecordFacts
<1>6. Present(dir)' = 1..next
  BY <1>1, <1>3, <1>5 DEF Present
<1>7. \A i \in 1..n : dir'.record[i] = dir.record[i]
  BY <1>2, <1>3, <1>5 DEF Ids
<1>8. \A a, m \in Nat : 1..m \subseteq Present(dir) =>
        /\ 1..m \subseteq Present(dir)'
        /\ Entries(dir, (a + 1)..m)' = Entries(dir, (a + 1)..m)
  <2> TAKE a, m \in Nat
  <2> HAVE 1..m \subseteq Present(dir)
  <2>1. m <= n
    BY <1>1, <1>3
  <2>2. \A i \in (a + 1)..m : dir'.record[i] = dir.record[i]
    BY <1>3, <1>7, <2>1
  <2>3. Entries(dir', (a + 1)..m) = Entries(dir, (a + 1)..m)
    BY <2>2, EntriesAgree
  <2> QED  BY <1>1, <1>3, <1>6, <2>1, <2>3 DEF Entries
<1>9. Stored(k)'
  <2>1. 1..k \subseteq Present(dir)' /\ Entries(dir, 1..k)' = Entries(dir, 1..k)
    <3>1. k \in Nat /\ 1..k \subseteq Present(dir) /\ 0 + 1 = 1 /\ 0 \in Nat
      BY DEF Stored
    <3> QED  BY <1>8, <3>1
  <2>2. ASSUME NEW tx \in inflight
        PROVE  \E a \in 0..k, m \in 0..MaxRecords :
                 1..m \subseteq Present(dir)' /\ tx = Entries(dir, (a + 1)..m)'
    <3>1. PICK a \in 0..k, m \in 0..MaxRecords :
            1..m \subseteq Present(dir) /\ tx = Entries(dir, (a + 1)..m)
      BY DEF Stored
    <3>2. a \in Nat /\ m \in Nat
      OBVIOUS
    <3>3. 1..m \subseteq Present(dir)' /\ Entries(dir, (a + 1)..m)' = Entries(dir, (a + 1)..m)
      BY <1>8, <3>1, <3>2
    <3> QED  BY <3>1, <3>3
  <2> QED  BY <1>4, <1>5, <2>1, <2>2 DEF Stored
<1>10. Store!Accept(r)
  <2>1. History = [i \in 1..n |-> dir.record[i]] /\ Len(History) = n
    BY <1>1, <1>3, HistoryLength
  <2>2. History' = [i \in 1..next |-> dir'.record[i]]
    <3>1. Cardinality(1..next) = next
      BY <1>3, FS_Interval
    <3> QED  BY <1>6, <3>1 DEF History
  <2>3. Append(History, r) = [i \in 1..next |-> IF i = next THEN r ELSE dir.record[i]]
    BY <1>3, <2>1
  <2>4. History' = Append(History, r)
    BY <1>3, <1>5, <1>7, <2>2, <2>3
  <2> QED  BY <1>4, <1>5, <2>4 DEF Store!Accept
<1> QED  BY <1>2, <1>9, <1>10 DEF StoreStep, Store!Next

(* The cursor file takes its name: the cursor is confirmed, never passing    *)
(* the replica.                                                             *)
LEMMA RenameSavedStore ==
  ASSUME IInv, CursorInv, Rename, write.name # "record", NEW k \in 0..MaxRecords, Stored(k)
  PROVE  Stored(k)' /\ StoreStep
<1> USE JournalAssumption DEF JournalAssumption
<1> DEFINE id == write.id
           n == Last
<1>1. write # Idle /\ mode = "up"
  BY DEF IInv, WriteInv, Rename, Idle
<1>2. write \in SavedWrites /\ id \in Ids /\ write.name = "saved" /\ write.stage = "temporary"
  BY <1>1 DEF IInv, TypeOK, RecordWrites, SavedWrites, Rename
<1>3. /\ uploader = "acknowledging" /\ saved < id /\ id <= n
      /\ Entries(dir, 1..id) \subseteq db /\ Present(dir) = 1..n
  BY <1>1, <1>2 DEF IInv, WriteInv
<1>4. dir \in Directory /\ id \in Nat /\ n \in Nat
  BY <1>2, <1>3 DEF IInv, TypeOK, Last, Ids
<1> HIDE DEF n
<1>5. dir' = WithSaved(dir, id) /\ UNCHANGED <<db, inflight>>
  BY <1>2 DEF Rename, uploadVars
<1>6. dir'.saved = id /\ dir'.record = dir.record /\ Present(dir)' = Present(dir)
  BY <1>2, <1>4, <1>5, WithSavedFacts DEF Present
<1>7. \A ids : Entries(dir, ids)' = Entries(dir, ids)
  BY <1>6 DEF Entries
<1>8. id <= k
  BY <1>3, <1>4, EntriesOrder DEF Stored
<1>9. Stored(k)'
  BY <1>5, <1>6, <1>7, <1>8 DEF Stored
<1>10. dir.saved = saved
  BY <1>1, <1>2, <1>3 DEF CursorInv
<1>11. Cardinality(db) = k
  BY EntriesCount DEF Stored
<1>12. Len(History) = n
  BY <1>3, <1>4, HistoryLength
<1>13. History' = History
  BY <1>6 DEF History
<1>14. Store!Confirm(id)
  BY <1>3, <1>5, <1>6, <1>8, <1>10, <1>11, <1>13 DEF Store!Confirm
<1>15. id \in 1..Len(History)
  BY <1>2, <1>3, <1>4, <1>12 DEF Ids
<1> QED  BY <1>9, <1>14, <1>15 DEF StoreStep, Store!Next

(* The uploader sends the records after its cursor, which the table holds.  *)
LEMMA TakeBatchStore ==
  ASSUME IInv, TakeBatch, NEW k \in 0..MaxRecords, Stored(k)
  PROVE  Stored(k)' /\ StoreStep
<1> USE JournalAssumption DEF JournalAssumption
<1>1. /\ mode = "up" /\ writable \in BOOLEAN /\ BatchIds # {}
      /\ inflight' = inflight \cup {Entries(dir, BatchIds)}
      /\ UNCHANGED <<dir, db>>
  BY DEF TakeBatch, Unlocked, IInv, TypeOK, diskVars
<1>2. saved \in Nat /\ next \in Nat /\ Last \in 0..MaxRecords /\ 1..Last \subseteq Present(dir)
  BY <1>1 DEF IInv, TypeOK, Last, MemoryInv
<1>3. PICK m \in (saved + 1)..Last : BatchIds = (saved + 1)..m
  <2> DEFINE m == IF saved + BatchSize <= Last THEN saved + BatchSize ELSE Last
  <2>1. m \in (saved + 1)..Last
    BY <1>1, <1>2 DEF BatchIds, Ids
  <2>2. BatchIds = (saved + 1)..m
    BY <1>2 DEF BatchIds, Ids
  <2> QED  BY <2>1, <2>2
<1>4. saved <= k
  <2>1. Entries(dir, 1..saved) \subseteq Entries(dir, 1..k) /\ k \in Nat
    BY <1>1 DEF Stored, IInv, MemoryInv
  <2> QED  BY <1>2, <2>1, EntriesOrder
<1>5. saved \in 0..k /\ m \in 0..MaxRecords /\ 1..m \subseteq Present(dir)
  BY <1>2, <1>3, <1>4
<1>6. \A tx \in inflight' : \E a \in 0..k, j \in 0..MaxRecords :
        1..j \subseteq Present(dir) /\ tx = Entries(dir, (a + 1)..j)
  BY <1>1, <1>3, <1>5 DEF Stored
<1>7. \A ids : Entries(dir, ids)' = Entries(dir, ids)
  BY <1>1 DEF Entries
<1>8. Present(dir)' = Present(dir)
  BY <1>1 DEF Present
<1>9. Stored(k)'
  BY <1>1, <1>6, <1>7, <1>8 DEF Stored
<1> QED  BY <1>1, <1>9, StoreStutters

(* A transaction commits, however late: the table grows to its end, or      *)
(* holds its rows already.                                                  *)
LEMMA CommitStore ==
  ASSUME IInv, NEW tx \in inflight, Commit(tx), NEW k \in 0..MaxRecords, Stored(k)
  PROVE  /\ \E n \in 0..MaxRecords : Stored(n)'
         /\ StoreStep
<1> USE JournalAssumption DEF JournalAssumption
<1>1. db' = db \cup tx /\ inflight' \subseteq inflight /\ UNCHANGED dir
  BY DEF Commit, diskVars
<1>2. PICK a \in 0..k, m \in 0..MaxRecords :
        1..m \subseteq Present(dir) /\ tx = Entries(dir, (a + 1)..m)
  BY DEF Stored
<1>3. \A ids : Entries(dir, ids)' = Entries(dir, ids)
  BY <1>1 DEF Entries
<1>4. Present(dir)' = Present(dir) /\ History' = History
  BY <1>1 DEF Present, History
<1>5. CASE m <= k
  <2>1. (a + 1)..m \subseteq 1..k
    BY <1>2, <1>5
  <2>2. db' = db
    BY <1>1, <1>2, <2>1 DEF Stored, Entries
  <2> QED  BY <1>1, <2>2, StoredKept, StoreStutters
<1>6. CASE k < m
  <2>1. 1..m = 1..k \cup ((a + 1)..m)
    BY <1>2, <1>6
  <2>2. db' = Entries(dir, 1..m)
    BY <1>1, <1>2, <2>1 DEF Stored, Entries
  <2>3. \A t \in inflight' : \E b \in 0..m, j \in 0..MaxRecords :
          1..j \subseteq Present(dir) /\ t = Entries(dir, (b + 1)..j)
    <3> TAKE t \in inflight'
    <3>1. PICK b \in 0..k, j \in 0..MaxRecords :
            1..j \subseteq Present(dir) /\ t = Entries(dir, (b + 1)..j)
      BY <1>1 DEF Stored
    <3>2. b \in 0..m
      BY <1>6
    <3> QED  BY <3>1, <3>2
  <2>4. dir.saved \in Nat /\ dir.saved <= m
    BY <1>6 DEF Stored, IInv, TypeOK, Directory
  <2>5. Stored(m)'
    BY <1>1, <1>2, <1>3, <1>4, <2>2, <2>3, <2>4 DEF Stored
  <2>6. Cardinality(db) = k /\ Cardinality(db') = m
    BY <2>2, EntriesCount DEF Stored
  <2>7. PICK n \in 0..MaxRecords : Present(dir) = 1..n
    BY DEF IInv, DiskInv, WellFormed, CanOpen
  <2>8. Len(History) = n /\ m <= n
    BY <1>2, <1>6, <2>7, HistoryLength
  <2>9. Store!Replicate(m)
    BY <1>1, <1>4, <1>6, <2>6, <2>8 DEF Store!Replicate
  <2>10. m \in 1..Len(History)
    BY <1>6, <2>8
  <2> QED  BY <2>5, <2>9, <2>10 DEF StoreStep, Store!Next
<1> QED  BY <1>2, <1>5, <1>6

(* Without power losses every step of the journal is a step of the abstract *)
(* store or leaves it alone.                                                *)
LEMMA ReplicaStep ==
  ASSUME IInv, CursorInv, ~PowerLoss, [Next]_vars, NEW k \in 0..MaxRecords, Stored(k)
  PROVE  /\ \E n \in 0..MaxRecords : Stored(n)'
         /\ StoreStep
<1>1. CASE Rename
  BY <1>1, RenameRecordStore, RenameSavedStore
<1>2. CASE TakeBatch
  BY <1>2, TakeBatchStore
<1>3. ASSUME NEW tx \in inflight, Commit(tx)
      PROVE  (\E n \in 0..MaxRecords : Stored(n)') /\ StoreStep
  BY <1>3, CommitStore
<1>4. ASSUME UNCHANGED <<dir, db>>, inflight' \subseteq inflight
      PROVE  (\E n \in 0..MaxRecords : Stored(n)') /\ StoreStep
  BY <1>4, StoredKept, StoreStutters
<1>5. CASE Open \/ AppendDone \/ AcknowledgeDone \/ WriteFails \/ (\E r \in Records : BeginAppend(r))
  BY <1>4, <1>5 DEF Open, AppendDone, AcknowledgeDone, WriteFails, BeginAppend, diskVars, uploadVars
<1>6. CASE ReadPendingFails \/ UploadFails \/ Acknowledge \/ AcknowledgeRefused
           \/ \E tx \in inflight : Conflict(tx)
  BY <1>4, <1>6 DEF ReadPendingFails, UploadFails, Acknowledge, AcknowledgeRefused, Conflict,
                    diskVars, memVars
<1>7. CASE Crash \/ UNCHANGED vars
  BY <1>4, <1>7 DEF Crash, Die, vars, diskVars, uploadVars
<1>8. ~LosePower
  BY DEF LosePower
<1> QED  BY <1>1, <1>2, <1>3, <1>5, <1>6, <1>7, <1>8 DEF Next

(* ... and the replica stays a prefix of the history.                       *)
LEMMA ReplicaStays == RInv /\ [Next]_vars => RInv' /\ (~PowerLoss => StoreStep)
<1> SUFFICES ASSUME RInv, [Next]_vars
             PROVE  RInv' /\ (~PowerLoss => StoreStep)
  OBVIOUS
<1>1. IInv' /\ CursorInv'
  BY StepInv, CursorStep DEF RInv
<1>2. ASSUME ~PowerLoss
      PROVE  (\E n \in 0..MaxRecords : Stored(n)') /\ StoreStep
  BY <1>2, ReplicaStep DEF RInv, ReplicaInv
<1> QED  BY <1>1, <1>2 DEF RInv, ReplicaInv

(* The first boot finds nothing on either side.                             *)
LEMMA ReplicaInit == Init => RInv /\ (~PowerLoss => Store!Init)
<1> USE JournalAssumption DEF JournalAssumption
<1> SUFFICES ASSUME Init
             PROVE  RInv /\ Store!Init
  OBVIOUS
<1>1. IInv
  BY InitInv
<1>2. /\ dir.saved = 0 /\ Present(dir) = 1..0 /\ db = {} /\ inflight = {}
      /\ mode = "down" /\ 0 \in 0..MaxRecords
  BY DEF Init, EmptyDirectory, Present
<1>3. Stored(0)
  BY <1>2 DEF Stored, Entries
<1>4. Store!Init
  <2>1. History = <<>>
    BY <1>2, HistoryLength
  <2> QED  BY <1>2, <2>1, FS_EmptySet DEF Store!Init
<1> QED  BY <1>1, <1>2, <1>3, <1>4 DEF RInv, CursorInv, ReplicaInv

(* The replica invariant holds in every reachable state.                    *)
LEMMA ReplicaInductive == Spec => []RInv
<1>1. Init => RInv
  BY ReplicaInit
<1>2. RInv /\ [Next]_vars => RInv'
  BY ReplicaStays
<1> QED  BY <1>1, <1>2, PTL DEF Spec

(* While the machine keeps its power, no row contradicts the journal, and no *)
(* upload, however late, meets a conflicting row.                           *)
THEOREM ReplicaNeverContradicts == Spec => []ReplicaAgrees
<1>1. RInv => ReplicaAgrees
  <2> SUFFICES ASSUME RInv, ~PowerLoss
               PROVE  db \subseteq Entries(dir, Ids) /\ \A tx \in inflight : ~Conflicts(tx)
    BY DEF ReplicaAgrees
  <2>1. PICK k \in 0..MaxRecords : Stored(k)
    BY DEF RInv, ReplicaInv
  <2>2. \A a, m : 1..m \subseteq Present(dir) /\ a \in Nat /\ m \in Nat
                    => Entries(dir, (a + 1)..m) \subseteq Entries(dir, Ids)
    BY DEF Entries, Present
  <2>3. db \subseteq Entries(dir, Ids)
    BY <2>1 DEF Stored, Entries, Present
  <2>4. \A tx \in inflight : tx \subseteq Entries(dir, Ids)
    <3> TAKE tx \in inflight
    <3>1. PICK a \in 0..k, m \in 0..MaxRecords :
            1..m \subseteq Present(dir) /\ tx = Entries(dir, (a + 1)..m)
      BY <2>1 DEF Stored
    <3>2. a \in Nat /\ m \in Nat
      OBVIOUS
    <3> QED  BY <2>2, <3>1, <3>2
  <2> QED  BY <2>3, <2>4 DEF Conflicts, Entries
<1> QED  BY <1>1, ReplicaInductive, PTL

(* While the machine keeps its power, the journal, its uploader and the     *)
(* table implement one append-only history with a replica that is a prefix  *)
(* of it, whatever crashes, failed writes, lost replies and late commits.   *)
THEOREM JournalRefinesHistoryStore ==
  ASSUME ~PowerLoss
  PROVE  Spec => RefinesHistoryStore
<1>1. Init => Store!Init
  BY ReplicaInit
<1>2. RInv /\ [Next]_vars => [Store!Next]_(Store!hvars)
  BY ReplicaStays DEF StoreStep
<1> QED  BY <1>1, <1>2, ReplicaInductive, PTL DEF Spec, RefinesHistoryStore, Store!Spec
=============================================================================
