------------------------------ MODULE Journal ------------------------------
(***************************************************************************)
(* The durable journal of a cloudroom service (src/session/outbox.rs), the *)
(* uploader that copies it to PostgreSQL (start_uploader in                *)
(* src/session/guard.rs) and the insert-only history table it writes to    *)
(* (upload in src/session/history.rs).                                     *)
(*                                                                         *)
(* The journal is a directory: one file per record, a cursor file "saved", *)
(* and a temporary file that is synced and renamed over either of them.    *)
(* A rename is visible at once but survives a power loss only once the     *)
(* directory is synced, so `versions' keeps every directory that a power   *)
(* loss could leave behind.  Renames reach the disk in the order they were *)
(* made (a journalling file system).                                       *)
(***************************************************************************)
EXTENDS Naturals, FiniteSets, Sequences

CONSTANTS
  Sessions,      \* session ids, part of the primary key of a stored record
  Bodies,        \* what a record says; two bodies tell records apart
  NoFile,        \* the content of a record file that does not exist
  MaxRecords,    \* bound: the highest sequence number the model reaches
  BatchSize,     \* the uploader's take(128)
  MaxCrashes,    \* bound: process deaths and power losses
  MaxFaults,     \* bound: failed file operations and failed uploads
  PowerLoss      \* TRUE when the machine, and not only the process, may stop

ASSUME JournalAssumption ==
  /\ MaxRecords \in Nat /\ MaxCrashes \in Nat /\ MaxFaults \in Nat
  /\ BatchSize \in Nat \ {0}
  /\ PowerLoss \in BOOLEAN
  /\ NoFile \notin [session : Sessions, body : Bodies]

Ids     == 1..MaxRecords
Records == [session : Sessions, body : Bodies]

(* The name space of the directory: each record file and the cursor file.   *)
Directory == [record : [Ids -> Records \cup {NoFile}], saved : 0..MaxRecords]
Entry     == [seq : Ids, record : Records]

Present(d)     == {i \in Ids : d.record[i] # NoFile}
EmptyDirectory == [record |-> [i \in Ids |-> NoFile], saved |-> 0]
WithRecord(d, id, r) == [d EXCEPT !.record[id] = r]
WithSaved(d, id)     == [d EXCEPT !.saved = id]

VARIABLES
  dir,        \* the directory as every process on the machine sees it
  versions,   \* the directories a power loss may leave (dir is one of them)
  mode,       \* "down" or "up"
  next,       \* Journal.next
  saved,      \* Journal.saved
  writable,   \* Journal.writable
  write,      \* the write_atomic call in progress, under the service's lock
  uploader,   \* phase of the uploader task
  batch,      \* the records it read and is sending
  inflight,   \* transactions the database may still commit
  db,         \* rows of cloudroom_records
  accepted,   \* ghost: entries whose append returned Ok
  crashes, faults

diskVars   == <<dir, versions>>
memVars    == <<mode, next, saved, writable, write>>
uploadVars == <<uploader, batch, inflight, db>>
vars == <<diskVars, memVars, uploadVars, accepted, crashes, faults>>

(* A write_atomic call: of a record or of the cursor file, before or after   *)
(* its rename.                                                              *)
Idle         == [stage |-> "none"]
Stages       == {"temporary", "renamed"}
RecordWrites == [stage : Stages, name : {"record"}, id : Ids, record : Records]
SavedWrites  == [stage : Stages, name : {"saved"}, id : Ids]

Last  == next - 1
Entries(d, ids) == {[seq |-> i, record |-> d.record[i]] : i \in ids}

TypeOK ==
  /\ dir \in Directory
  /\ versions \subseteq Directory
  /\ mode \in {"down", "up"}
  /\ next \in 1..(MaxRecords + 1)
  /\ saved \in 0..MaxRecords
  /\ writable \in BOOLEAN
  /\ write \in {Idle} \cup RecordWrites \cup SavedWrites
  /\ uploader \in {"idle", "sending", "committed", "acknowledging", "stopped"}
  /\ batch \subseteq Entry
  /\ inflight \subseteq SUBSET Entry
  /\ db \subseteq Entry
  /\ accepted \subseteq Entry
  /\ crashes \in 0..MaxCrashes /\ faults \in 0..MaxFaults

Init ==
  /\ dir = EmptyDirectory /\ versions = {EmptyDirectory}
  /\ mode = "down" /\ next = 1 /\ saved = 0 /\ writable = FALSE
  /\ write = Idle
  /\ uploader = "stopped" /\ batch = {} /\ inflight = {}
  /\ db = {} /\ accepted = {}
  /\ crashes = 0 /\ faults = 0

-----------------------------------------------------------------------------
(* Journal::open: the record files must be numbered 1..n and the cursor     *)
(* must not pass them.  Nothing is synced here.  (Any other directory is an *)
(* error, after which the service does not start: NeverRefused.)            *)

CanOpen(d, n) == Present(d) = 1..n /\ d.saved <= n

(* Mutant: number the next record after the cursor, not after the files.    *)
OpenAtCursor ==
  /\ mode = "down" /\ \E n \in 0..MaxRecords : CanOpen(dir, n)
  /\ next' = dir.saved + 1 /\ saved' = dir.saved
  /\ mode' = "up" /\ writable' = TRUE /\ uploader' = "idle"
  /\ UNCHANGED <<diskVars, write, batch, inflight, db, accepted, crashes, faults>>

Open ==
  /\ mode = "down"
  /\ \E n \in 0..MaxRecords :
       /\ CanOpen(dir, n)
       /\ next' = n + 1
  /\ saved' = dir.saved
  /\ mode' = "up" /\ writable' = TRUE /\ uploader' = "idle"
  /\ UNCHANGED <<diskVars, write, batch, inflight, db, accepted, crashes, faults>>

-----------------------------------------------------------------------------
(* write_atomic.  The service's lock is held from Begin to the last step,   *)
(* but a crash may fall between any two of them.                            *)

Unlocked == mode = "up" /\ write = Idle

(* append(record): the id is taken from `next' before anything is written.  *)
BeginAppend(r) ==
  /\ Unlocked /\ writable
  /\ next <= MaxRecords
  /\ writable' = FALSE
  /\ write' = [stage |-> "temporary", name |-> "record", id |-> next, record |-> r]
  /\ UNCHANGED <<diskVars, mode, next, saved, uploadVars, accepted, crashes, faults>>

(* pending.tmp is complete and synced: rename it over its target.           *)
Rename ==
  /\ mode = "up" /\ write.stage = "temporary"
  /\ dir' = IF write.name = "record" THEN WithRecord(dir, write.id, write.record)
                                     ELSE WithSaved(dir, write.id)
  /\ versions' = versions \cup {dir'}
  /\ write' = [write EXCEPT !.stage = "renamed"]
  /\ UNCHANGED <<mode, next, saved, writable, uploadVars, accepted, crashes, faults>>

(* Mutants of AppendDone: a number is skipped; the directory is not synced.  *)
AppendDoneSkips ==
  /\ mode = "up" /\ write.stage = "renamed" /\ write.name = "record"
  /\ versions' = {dir}
  /\ next' = next + 2 /\ writable' = TRUE /\ write' = Idle
  /\ accepted' = accepted \cup {[seq |-> write.id, record |-> write.record]}
  /\ UNCHANGED <<dir, mode, saved, uploadVars, crashes, faults>>

AppendDoneUnsynced ==
  /\ mode = "up" /\ write.stage = "renamed" /\ write.name = "record"
  /\ next' = next + 1 /\ writable' = TRUE /\ write' = Idle
  /\ accepted' = accepted \cup {[seq |-> write.id, record |-> write.record]}
  /\ UNCHANGED <<diskVars, mode, saved, uploadVars, crashes, faults>>

(* The directory sync that ends an append: the record is accepted.          *)
AppendDone ==
  /\ mode = "up" /\ write.stage = "renamed" /\ write.name = "record"
  /\ versions' = {dir}
  /\ next' = next + 1 /\ writable' = TRUE /\ write' = Idle
  /\ accepted' = accepted \cup {[seq |-> write.id, record |-> write.record]}
  /\ UNCHANGED <<dir, mode, saved, uploadVars, crashes, faults>>

(* ... and the one that ends an acknowledge, after which the uploader goes  *)
(* back to sleep.                                                           *)
AcknowledgeDone ==
  /\ mode = "up" /\ write.stage = "renamed" /\ write.name = "saved"
  /\ versions' = {dir}
  /\ saved' = write.id /\ writable' = TRUE /\ write' = Idle
  /\ uploader' = "idle" /\ batch' = {}
  /\ UNCHANGED <<dir, mode, next, inflight, db, accepted, crashes, faults>>

(* Mutant: a failed write leaves the journal writable.                      *)
WriteFailsOpen ==
  /\ mode = "up" /\ write # Idle
  /\ faults < MaxFaults /\ faults' = faults + 1
  /\ write' = Idle /\ writable' = TRUE
  /\ uploader' = IF write.name = "saved" THEN "stopped" ELSE uploader
  /\ UNCHANGED <<diskVars, mode, next, saved, batch, inflight, db, accepted, crashes>>

(* Any operation of write_atomic fails: the journal stays unwritable until  *)
(* it is opened again; a failed acknowledge ends the uploader's loop.       *)
WriteFails ==
  /\ mode = "up" /\ write # Idle
  /\ faults < MaxFaults /\ faults' = faults + 1
  /\ write' = Idle
  /\ uploader' = IF write.name = "saved" THEN "stopped" ELSE uploader
  /\ UNCHANGED <<diskVars, mode, next, saved, writable, batch, inflight, db,
                 accepted, crashes>>

-----------------------------------------------------------------------------
(* start_uploader: read a batch under the lock, send it without the lock,   *)
(* acknowledge its last record under the lock.                              *)

(* Mutant: the last record waits for another one.                           *)
BatchIdsBefore == {i \in Ids : saved < i /\ i < Last /\ i <= saved + BatchSize}

BatchIds == {i \in Ids : saved < i /\ i <= Last /\ i <= saved + BatchSize}

TakeBatch ==
  /\ Unlocked /\ uploader = "idle" /\ BatchIds # {}
  /\ batch' = Entries(dir, BatchIds)
  /\ inflight' = inflight \cup {batch'}
  /\ uploader' = "sending"
  /\ UNCHANGED <<diskVars, memVars, db, accepted, crashes, faults>>

(* A record file cannot be read: the loop ends for good.                    *)
ReadPendingFails ==
  /\ Unlocked /\ uploader = "idle" /\ BatchIds # {}
  /\ faults < MaxFaults /\ faults' = faults + 1
  /\ uploader' = "stopped"
  /\ UNCHANGED <<diskVars, memVars, batch, inflight, db, accepted, crashes>>

(* History::upload: one transaction of INSERT ... ON CONFLICT DO NOTHING;   *)
(* a row that is already there must have the same content.  A retry of a    *)
(* batch that is still in flight is the same transaction.                   *)
Conflicts(tx) ==
  \E e \in tx, row \in db :
    e.seq = row.seq /\ e.record.session = row.record.session /\ e.record # row.record

Commit(tx) ==
  /\ tx \in inflight /\ ~Conflicts(tx)
  /\ db' = db \cup tx
  /\ inflight' = inflight \ {tx}
  /\ uploader' = IF uploader = "sending" /\ tx = batch THEN "committed" ELSE uploader
  /\ UNCHANGED <<diskVars, memVars, batch, accepted, crashes, faults>>

(* The insert finds other content: rolled back, and upload returns an       *)
(* error; the loop sleeps and retries.                                      *)
Conflict(tx) ==
  /\ tx \in inflight /\ Conflicts(tx)
  /\ inflight' = inflight \ {tx}
  /\ IF uploader = "sending" /\ tx = batch
       THEN uploader' = "idle" /\ batch' = {}
       ELSE UNCHANGED <<uploader, batch>>
  /\ UNCHANGED <<diskVars, memVars, db, accepted, crashes, faults>>

(* upload returns an error: the transaction was not sent, its commit is     *)
(* still on its way, or it was committed and only the reply is lost.        *)
UploadFails ==
  /\ mode = "up" /\ uploader \in {"sending", "committed"}
  /\ faults < MaxFaults /\ faults' = faults + 1
  /\ inflight' \in {inflight, inflight \ {batch}}
  /\ uploader' = "idle" /\ batch' = {}
  /\ UNCHANGED <<diskVars, memVars, db, accepted, crashes>>

(* acknowledge(batch.last): refused outside saved..Last, and by an          *)
(* unwritable journal; both end the uploader.                               *)
(* (Mutant of BatchLast: whatever the journal holds by now.)                *)
JournalLast == Last
BatchLast == CHOOSE i \in {e.seq : e \in batch} : \A e \in batch : e.seq <= i
MayAcknowledge(id) == saved <= id /\ id < next /\ writable

Acknowledge ==
  /\ Unlocked /\ uploader = "committed"
  /\ MayAcknowledge(BatchLast)
  /\ writable' = FALSE
  /\ write' = [stage |-> "temporary", name |-> "saved", id |-> BatchLast]
  /\ uploader' = "acknowledging"
  /\ UNCHANGED <<diskVars, mode, next, saved, batch, inflight, db, accepted,
                 crashes, faults>>

AcknowledgeRefused ==
  /\ Unlocked /\ uploader = "committed"
  /\ ~MayAcknowledge(BatchLast)
  /\ uploader' = "stopped"
  /\ UNCHANGED <<diskVars, memVars, batch, inflight, db, accepted, crashes, faults>>

-----------------------------------------------------------------------------
(* The process dies: memory goes, the page cache and the database stay, and *)
(* a commit that is on its way still arrives.                               *)
Die ==
  /\ crashes < MaxCrashes /\ crashes' = crashes + 1
  /\ mode' = "down" /\ writable' = FALSE /\ write' = Idle
  /\ uploader' = "stopped" /\ batch' = {}
  /\ UNCHANGED <<next, saved, inflight, db, accepted, faults>>

Crash     == mode = "up" /\ Die /\ UNCHANGED diskVars
LosePower ==
  /\ PowerLoss /\ Die
  /\ \E d \in versions : dir' = d /\ versions' = {d}

Next ==
  \/ Open
  \/ \E r \in Records : BeginAppend(r)
  \/ Rename \/ AppendDone \/ AcknowledgeDone \/ WriteFails
  \/ TakeBatch \/ ReadPendingFails
  \/ \E tx \in inflight : Commit(tx) \/ Conflict(tx)
  \/ UploadFails \/ Acknowledge \/ AcknowledgeRefused
  \/ Crash \/ LosePower

Spec == Init /\ [][Next]_vars

(* The service is restarted, a write ends, the uploader's loop runs and the *)
(* database answers.                                                        *)
Fairness ==
  /\ WF_vars(Open) /\ WF_vars(Rename)
  /\ WF_vars(AppendDone) /\ WF_vars(AcknowledgeDone)
  /\ WF_vars(TakeBatch) /\ WF_vars(Acknowledge)
  /\ WF_vars(\E tx \in inflight : Commit(tx) \/ Conflict(tx))

FairSpec == Spec /\ Fairness

-----------------------------------------------------------------------------
(* Properties.                                                              *)

(* What append answered Ok to is never lost, renumbered or overwritten,     *)
(* whatever crash or power loss follows: it is in every directory that may  *)
(* be found on the next boot.                                               *)
AcceptedSurvives ==
  \A e \in accepted : \A d \in versions : d.record[e.seq] = e.record

(* The saved cursor, in memory or in any directory that may be found on the *)
(* next boot, only covers records that are rows of the database with the    *)
(* content of the local file: a record is never dropped from the upload     *)
(* because of a reply that was lost, a retry, or a crash around acknowledge. *)
SavedIsReplicated ==
  /\ mode = "up" => Entries(dir, 1..saved) \subseteq db
  /\ \A d \in versions : Entries(d, 1..d.saved) \subseteq db

(* Journal::open never refuses what the journal itself wrote: every         *)
(* directory that may be found on the next boot has the files 1..n and a    *)
(* cursor among them.                                                       *)
NeverRefused == \A d \in versions : \E n \in 0..MaxRecords : CanOpen(d, n)

(* Without a power loss the table holds only what the journal holds: no     *)
(* record of the history was replaced after it was uploaded, and an upload  *)
(* never meets "conflicting history record".                                *)
ReplicaAgrees ==
  ~PowerLoss => /\ db \subseteq Entries(dir, Ids)
                /\ \A tx \in inflight : ~Conflicts(tx)

(* A record the running service serves is on disk for good                  *)
(* (docs/session-lifecycle.md: accepted records are fsynced before          *)
(* subscribers are notified).                                               *)
VisibleIsDurable ==
  mode = "up" => \A i \in 1..Last : \A d \in versions : d.record[i] # NoFile

(* The uploader catches up: once the service stays up with a writable       *)
(* journal and an uploader that has not ended, every record is acknowledged. *)
CatchesUp ==
  <>[](mode = "up" /\ (writable \/ write # Idle) /\ uploader # "stopped" /\ ~PowerLoss)
    => <>[](saved = Last)

(* The abstract history is what the visible record files hold, the replica  *)
(* the rows of the database, the cursor the visible cursor file.            *)
History == [i \in 1..Cardinality(Present(dir)) |-> dir.record[i]]

Store == INSTANCE HistoryStore WITH
  Record <- Records, history <- History, replica <- Cardinality(db), cursor <- dir.saved

(* While the machine keeps its power, the journal and its uploader          *)
(* implement the append-only replicated history: crashes, lost replies,     *)
(* retries and late commits are stutters.                                   *)
RefinesHistoryStore == Store!Spec

=============================================================================
