--------------------------- MODULE ServicesProofs ---------------------------
(***************************************************************************)
(* Proofs about StorageGuard, MacBridge and Workspaces, for any writers,    *)
(* harnesses, amounts of space, commands, workspaces, names and agents, and *)
(* any number of failures, restarts and lost connections; then about the    *)
(* four components side by side (MCServices).                               *)
(***************************************************************************)
EXTENDS MCServices, TeleportProofs

-----------------------------------------------------------------------------
(* Part 1: the storage guard.                                                *)

GroupRecord == [live : BOOLEAN, used : BOOLEAN, gate : BOOLEAN, rest : BOOLEAN,
                paused : BOOLEAN]
LoopRecord  ==
  [at : {"asleep", "warning", "deciding", "writers", "harness", "cleaning"},
   seen : {"normal", "low", "blocked"}, todo : SUBSET Groups,
   handles : SUBSET Harnesses, now : Groups \cup {NoProgram}, ok : BOOLEAN]
ThreadRecord == [handle : Harnesses \cup {NoProgram}, native : BOOLEAN, warned : BOOLEAN,
                 paused : BOOLEAN]

(* A program is started once, and the loop works on started ones.            *)
UsedInv ==
  /\ \A g \in Groups : group[g].live => group[g].used
  /\ \A g \in guardLoop.todo \cup guardLoop.handles : group[g].used
  /\ thread.handle # NoProgram => group[thread.handle].used

(* A pass that freezes: the level it saw holds until it ends, so nothing is  *)
(* admitted; what it has done rests, unless it met a failure.                *)
Passing == guardLoop.at \in {"writers", "harness", "cleaning"} /\ Freezing
Covered == IF guardLoop.at = "writers" THEN Writers ELSE Writers \cup guardLoop.handles
Still(g) == group[g].rest /\ group[g].gate

PassInv ==
  /\ guardLoop.at # "asleep" => level = guardLoop.seen
  /\ guardLoop.now # NoProgram => guardLoop.now \in guardLoop.todo
  /\ guardLoop.at \in {"asleep", "warning", "deciding"} => guardLoop.todo = {}
  /\ Passing =>
       /\ admitting = NoProgram
       /\ guardLoop.now # NoProgram => group[guardLoop.now].gate
       /\ guardLoop.ok =>
            \A g \in Covered : group[g].live => g \in guardLoop.todo \/ Still(g)
  /\ guardLoop.at = "cleaning" => Freezing /\ guardLoop.ok /\ guardLoop.todo = {}

GuardInv == StorageTypeOK /\ UsedInv /\ PassInv

-----------------------------------------------------------------------------
LEMMA Types ==
  ASSUME StorageTypeOK
  PROVE  /\ group \in [Groups -> GroupRecord] /\ guardLoop \in LoopRecord
         /\ thread \in ThreadRecord /\ \A g \in Groups : group[g] \in GroupRecord
BY DEF StorageTypeOK, GroupRecord, LoopRecord, ThreadRecord

LEMMA GuardInitInv == StorageInit => GuardInv
<1> USE StorageAssumption
<1> SUFFICES ASSUME StorageInit PROVE GuardInv
  OBVIOUS
<1>0. Resting \in LoopRecord /\ Resting.at = "asleep" /\ Resting.now = NoProgram
      /\ Resting.todo = {} /\ Resting.handles = {}
  BY DEF Resting, LoopRecord
<1>1. group \in [Groups -> GroupRecord] /\ \A g \in Groups : ~group[g].live
  <2>1. NoGroup \in GroupRecord /\ ~NoGroup.live
    BY DEF NoGroup, GroupRecord
  <2>2. \A g \in Groups : Ended(g) \in GroupRecord /\ ~Ended(g).live
    BY <2>1 DEF Ended, GroupRecord, NoGroup
  <2>3. PICK plan \in StoragePlans :
          group = [g \in Groups |-> IF g \in plan THEN NoGroup ELSE Ended(g)]
    BY DEF StorageInit
  <2> QED  BY <2>1, <2>2, <2>3
<1>2. StorageTypeOK
  <2>1. thread \in ThreadRecord
    BY DEF StorageInit, ThreadRecord
  <2>2. mishaps \in 0..MaxMishaps
    BY DEF StorageInit, StorageAssumption
  <2>3. /\ space \in Spaces /\ level \in {"normal", "low", "blocked"} /\ fresh \in BOOLEAN
        /\ admitting \in Writers \cup {NoProgram} /\ launching \in BOOLEAN
        /\ wasBlocked \in BOOLEAN /\ guardLoop \in LoopRecord
    BY <1>0 DEF StorageInit
  <2> QED  BY <1>1, <2>1, <2>2, <2>3 DEF StorageTypeOK, GroupRecord, LoopRecord, ThreadRecord
<1>3. UsedInv
  BY <1>0, <1>1 DEF StorageInit, UsedInv
<1>4. PassInv
  BY <1>0 DEF StorageInit, PassInv, Passing
<1> QED  BY <1>2, <1>3, <1>4 DEF GuardInv

(* Space, samples and the mishap count do not matter to a pass.              *)
LEMMA AsideInv ==
  ASSUME GuardInv, SpaceMoves \/ SampleAges \/ LaunchLooks PROVE GuardInv'
<1>1. /\ UNCHANGED <<level, admitting, group, thread, guardLoop, wasBlocked, mishaps>>
      /\ space' \in Spaces /\ fresh' \in BOOLEAN /\ launching' \in BOOLEAN
  BY DEF GuardInv, StorageTypeOK, SpaceMoves, SampleAges, LaunchLooks
<1>2. StorageTypeOK'
  BY <1>1 DEF GuardInv, StorageTypeOK
<1>3. UsedInv' /\ PassInv'
  BY <1>1 DEF GuardInv, UsedInv, PassInv, Passing, Freezing, Covered, Still
<1> QED  BY <1>2, <1>3 DEF GuardInv

(* Changes to the workloads that undo nothing the pass has done.             *)
LEMMA GroupInv ==
  ASSUME GuardInv, UNCHANGED <<level, guardLoop>>,
         group' \in [Groups -> GroupRecord],
         \A g \in Groups : group'[g].live => group'[g].used,
         \A g \in Groups : group[g].used => group'[g].used,
         Passing => \A g \in Groups : group[g].gate /\ group[g].used => group'[g].gate,
         Passing => \A g \in Covered : group[g].live /\ Still(g) => Still(g)',
         Passing => \A g \in Covered : group'[g].live => group[g].live,
         Passing => admitting' = NoProgram,
         thread'.handle # NoProgram => group'[thread'.handle].used,
         thread'.handle \in Groups \cup {NoProgram}
  PROVE  UsedInv' /\ PassInv'
<1>1. guardLoop \in LoopRecord /\ UsedInv /\ PassInv
  BY Types DEF GuardInv
<1>2. guardLoop.todo \subseteq Groups /\ guardLoop.handles \subseteq Groups
      /\ Covered \subseteq Groups /\ Covered' = Covered
  BY <1>1 DEF LoopRecord, Groups, Covered
<1>3. UsedInv'
  BY <1>1, <1>2 DEF UsedInv
<1>4. ASSUME Passing
      PROVE  /\ guardLoop.now # NoProgram => group'[guardLoop.now].gate
             /\ guardLoop.ok =>
                  \A g \in Covered : group'[g].live => g \in guardLoop.todo \/ Still(g)'
  <2>1. guardLoop.now # NoProgram =>
          guardLoop.now \in Groups /\ group[guardLoop.now].gate /\ group[guardLoop.now].used
    BY <1>1, <1>2, <1>4 DEF PassInv, UsedInv
  <2>2. guardLoop.ok =>
          \A g \in Covered : group[g].live => g \in guardLoop.todo \/ Still(g)
    BY <1>1, <1>4 DEF PassInv
  <2> QED  BY <1>2, <1>4, <2>1, <2>2
<1>5. Passing' <=> Passing
  BY DEF Passing, Freezing
<1>6. PassInv'
  BY <1>1, <1>2, <1>4, <1>5 DEF PassInv, Freezing
<1> QED  BY <1>3, <1>6

(* A workload that changes: typed, and the others as they were.              *)
LEMMA OneGroup ==
  ASSUME StorageTypeOK, NEW g \in Groups, NEW r \in GroupRecord,
         group' = [group EXCEPT ![g] = r]
  PROVE  /\ group' \in [Groups -> GroupRecord] /\ group'[g] = r
         /\ \A o \in Groups \ {g} : group'[o] = group[o]
BY Types

LEMMA FollowsInv ==
  ASSUME GuardInv, NEW g \in Groups, KernelFollows(g) PROVE GuardInv'
<1> DEFINE r == [group[g] EXCEPT !.rest = group[g].gate]
<1>1. r \in GroupRecord /\ r.live = group[g].live /\ r.used = group[g].used
      /\ r.gate = group[g].gate /\ r.rest = group[g].gate
  BY Types DEF GuardInv, GroupRecord
<1>2. group' = [group EXCEPT ![g] = r]
  BY DEF KernelFollows
<1> HIDE DEF r
<1>3. /\ group' \in [Groups -> GroupRecord] /\ group'[g] = r
      /\ \A o \in Groups \ {g} : group'[o] = group[o]
  BY <1>1, <1>2, OneGroup DEF GuardInv
<1>4. UNCHANGED <<space, level, fresh, admitting, thread, launching, guardLoop,
                  wasBlocked, mishaps>> /\ group[g].rest # group[g].gate
  BY DEF KernelFollows
<1>5. Covered \subseteq Groups /\ thread.handle \in Groups \cup {NoProgram}
  BY Types DEF GuardInv, LoopRecord, ThreadRecord, Covered, Groups
<1>6. Passing => admitting = NoProgram
  BY DEF GuardInv, PassInv
<1>7. \A o \in Groups : /\ group'[o].live = group[o].live /\ group'[o].used = group[o].used
                        /\ group'[o].gate = group[o].gate
  BY <1>1, <1>3
<1>8. \A o \in Covered : group[o].live /\ Still(o) => Still(o)'
  BY <1>1, <1>3, <1>4, <1>5 DEF Still
<1>9. thread.handle # NoProgram => group[thread.handle].used
  BY DEF GuardInv, UsedInv
<1>10. \A o \in Groups : group[o].live => group[o].used
  BY DEF GuardInv, UsedInv
<1>11. UsedInv' /\ PassInv'
  BY <1>3, <1>4, <1>5, <1>6, <1>7, <1>8, <1>9, <1>10, GroupInv
<1>12. StorageTypeOK'
  BY <1>3, <1>4 DEF GuardInv, StorageTypeOK, GroupRecord
<1> QED  BY <1>11, <1>12 DEF GuardInv

LEMMA EndsInv ==
  ASSUME GuardInv, NEW g \in Groups, GroupEnds(g) PROVE GuardInv'
<1> DEFINE r == [group[g] EXCEPT !.live = FALSE]
<1>1. r \in GroupRecord /\ r.live = FALSE /\ r.used = group[g].used
      /\ r.gate = group[g].gate /\ r.rest = group[g].rest
  BY Types DEF GuardInv, GroupRecord
<1>2. group' = [group EXCEPT ![g] = r]
  BY DEF GroupEnds
<1> HIDE DEF r
<1>3. /\ group' \in [Groups -> GroupRecord] /\ group'[g] = r
      /\ \A o \in Groups \ {g} : group'[o] = group[o]
  BY <1>1, <1>2, OneGroup DEF GuardInv
<1>4. UNCHANGED <<space, level, fresh, admitting, launching, guardLoop, wasBlocked, mishaps>>
  BY DEF GroupEnds
<1>5. Covered \subseteq Groups /\ thread.handle \in Groups \cup {NoProgram}
  BY Types DEF GuardInv, LoopRecord, ThreadRecord, Covered, Groups
<1>6. thread' \in ThreadRecord /\ thread'.handle \in {thread.handle, NoProgram}
  BY Types DEF GroupEnds, GuardInv, ThreadRecord
<1>7. Passing => admitting = NoProgram
  BY DEF GuardInv, PassInv
<1>8. \A o \in Groups : /\ group'[o].live => group[o].live
                        /\ group'[o].used = group[o].used /\ group'[o].gate = group[o].gate
                        /\ group'[o].rest = group[o].rest
  BY <1>1, <1>3
<1>9. thread.handle # NoProgram => group[thread.handle].used
  BY DEF GuardInv, UsedInv
<1>10. \A o \in Groups : group[o].live => group[o].used
  BY DEF GuardInv, UsedInv
<1>11. \A o \in Covered : Still(o) => Still(o)'
  BY <1>5, <1>8 DEF Still
<1>12. /\ \A o \in Groups : group'[o].live => group'[o].used
       /\ \A o \in Groups : group[o].used => group'[o].used
       /\ \A o \in Groups : group[o].gate /\ group[o].used => group'[o].gate
       /\ \A o \in Covered : group'[o].live => group[o].live
       /\ thread'.handle # NoProgram => group'[thread'.handle].used
       /\ thread'.handle \in Groups \cup {NoProgram}
  BY <1>5, <1>6, <1>8, <1>9, <1>10
<1>13. UsedInv' /\ PassInv'
  BY <1>3, <1>4, <1>7, <1>11, <1>12, GroupInv
<1>14. StorageTypeOK'
  BY <1>3, <1>4, <1>6 DEF GuardInv, StorageTypeOK, GroupRecord, ThreadRecord
<1> QED  BY <1>13, <1>14 DEF GuardInv

(* A writer is admitted only while the level allows it, so never in a pass   *)
(* that freezes, and started only after it was admitted.                     *)
LEMMA AdmitInv ==
  ASSUME GuardInv, NEW w \in Writers, AdmitWriter(w) PROVE GuardInv'
<1>1. UNCHANGED <<space, level, fresh, group, thread, launching, guardLoop, wasBlocked, mishaps>>
      /\ admitting' = w
  BY DEF AdmitWriter
<1>2. ~Passing
  <2>1. level # "blocked"
    BY DEF AdmitWriter, Blocks
  <2>2. Passing => level = "blocked"
    BY DEF GuardInv, PassInv, Passing, Freezing
  <2> QED  BY <2>1, <2>2
<1>3. StorageTypeOK'
  BY <1>1 DEF GuardInv, StorageTypeOK
<1>4. UsedInv'
  BY <1>1 DEF GuardInv, UsedInv
<1>5. PassInv'
  BY <1>1, <1>2 DEF GuardInv, PassInv, Passing, Freezing
<1> QED  BY <1>3, <1>4, <1>5 DEF GuardInv

LEMMA SpawnedFields ==
  ASSUME NEW g PROVE Spawned(g) \in GroupRecord /\ Spawned(g).live /\ Spawned(g).used
<1>1. NoGroup \in GroupRecord
  BY DEF NoGroup, GroupRecord
<1> QED  BY <1>1 DEF Spawned, GroupRecord

LEMMA StartInv ==
  ASSUME GuardInv, NEW w \in Writers, StartWriter(w) PROVE GuardInv'
<1> USE StorageAssumption
<1>1. w \in Groups
  BY DEF Groups
<1>2. group' = [group EXCEPT ![w] = Spawned(w)]
  BY DEF StartWriter
<1>3. /\ group' \in [Groups -> GroupRecord] /\ group'[w] = Spawned(w)
      /\ \A o \in Groups \ {w} : group'[o] = group[o]
  BY <1>1, <1>2, OneGroup, SpawnedFields DEF GuardInv
<1>4. UNCHANGED <<space, level, fresh, thread, launching, guardLoop, wasBlocked, mishaps>>
      /\ admitting = w /\ admitting' = NoProgram
  BY DEF StartWriter
<1>5. ~Passing
  <2>1. w # NoProgram
    BY <1>1 DEF Groups
  <2> QED  BY <1>4, <2>1 DEF GuardInv, PassInv
<1>6. thread.handle \in Groups \cup {NoProgram}
  BY Types DEF GuardInv, ThreadRecord, Groups
<1>7. \A o \in Groups : /\ group'[o].live => group'[o].used
                        /\ group[o].used => group'[o].used
  BY <1>3, SpawnedFields DEF GuardInv, UsedInv
<1>8. thread.handle # NoProgram => group'[thread.handle].used
  BY <1>6, <1>7 DEF GuardInv, UsedInv
<1>9. UsedInv' /\ PassInv'
  BY <1>3, <1>4, <1>5, <1>6, <1>7, <1>8, GroupInv
<1>10. StorageTypeOK'
  BY <1>3, <1>4 DEF GuardInv, StorageTypeOK, GroupRecord
<1> QED  BY <1>9, <1>10 DEF GuardInv

(* A harness may be spawned during a pass, but none the pass has listed.     *)
LEMMA SpawnInv ==
  ASSUME GuardInv, NEW h \in Harnesses, LaunchSpawns(h) PROVE GuardInv'
<1> USE StorageAssumption
<1>1. h \in Groups /\ h \notin Writers /\ ~group[h].used
  BY DEF Groups, LaunchSpawns
<1>2. group' = [group EXCEPT ![h] = Spawned(h)]
  BY DEF LaunchSpawns
<1>3. /\ group' \in [Groups -> GroupRecord] /\ group'[h] = Spawned(h)
      /\ \A o \in Groups \ {h} : group'[o] = group[o]
  BY <1>1, <1>2, OneGroup, SpawnedFields DEF GuardInv
<1>4. UNCHANGED <<space, level, fresh, admitting, guardLoop, wasBlocked, mishaps>>
      /\ launching' = FALSE /\ thread' = [thread EXCEPT !.handle = h]
  BY DEF LaunchSpawns
<1>5. h \notin guardLoop.handles
  BY <1>1 DEF GuardInv, UsedInv
<1>6. Covered \subseteq Groups \ {h}
  <2>1. guardLoop.handles \subseteq Groups /\ Writers \subseteq Groups
    BY Types DEF GuardInv, LoopRecord, Groups
  <2> QED  BY <1>1, <1>5, <2>1 DEF Covered
<1>7. thread' \in ThreadRecord /\ thread'.handle = h
  BY <1>4, Types DEF GuardInv, ThreadRecord
<1>8. \A o \in Groups : /\ group'[o].live => group'[o].used
                        /\ group[o].used => group'[o].used
  BY <1>3, SpawnedFields DEF GuardInv, UsedInv
<1>9. \A o \in Groups : group[o].gate /\ group[o].used => group'[o].gate
  BY <1>1, <1>3
<1>10. \A o \in Covered : group'[o] = group[o] /\ (Still(o) => Still(o)')
  BY <1>3, <1>6 DEF Still
<1>11. Passing => admitting' = NoProgram
  BY <1>4 DEF GuardInv, PassInv
<1>12. thread'.handle \in Groups \cup {NoProgram} /\ group'[thread'.handle].used
  BY <1>1, <1>3, <1>7, SpawnedFields
<1>13. UsedInv' /\ PassInv'
  BY <1>3, <1>4, <1>8, <1>9, <1>10, <1>11, <1>12, GroupInv
<1>14. StorageTypeOK'
  BY <1>3, <1>4, <1>7 DEF GuardInv, StorageTypeOK, GroupRecord, ThreadRecord
<1> QED  BY <1>13, <1>14 DEF GuardInv

LEMMA ReadyInv ==
  ASSUME GuardInv, HarnessReady PROVE GuardInv'
<1>1. UNCHANGED <<space, level, fresh, admitting, group, launching, guardLoop, wasBlocked,
                  mishaps>>
  BY DEF HarnessReady
<1>2. thread' \in ThreadRecord /\ thread'.handle = thread.handle
  BY Types DEF HarnessReady, GuardInv, ThreadRecord
<1>3. StorageTypeOK'
  BY <1>1, <1>2 DEF GuardInv, StorageTypeOK, ThreadRecord
<1>4. UsedInv' /\ PassInv'
  BY <1>1, <1>2 DEF GuardInv, UsedInv, PassInv, Passing, Freezing, Covered, Still
<1> QED  BY <1>3, <1>4 DEF GuardInv

-----------------------------------------------------------------------------
(* The steps of the loop.                                                    *)
LEMMA RestingFields ==
  /\ Resting \in LoopRecord /\ Resting.at = "asleep" /\ Resting.now = NoProgram
  /\ Resting.todo = {} /\ Resting.handles = {}
BY DEF Resting, LoopRecord

LEMMA DoneFields ==
  ASSUME guardLoop \in LoopRecord, NEW g, NEW ok \in BOOLEAN
  PROVE  /\ Done(g, ok) \in LoopRecord /\ Done(g, ok).at = guardLoop.at
         /\ Done(g, ok).seen = guardLoop.seen /\ Done(g, ok).handles = guardLoop.handles
         /\ Done(g, ok).todo = guardLoop.todo \ {g} /\ Done(g, ok).now = NoProgram
         /\ Done(g, ok).ok = (guardLoop.ok /\ ok)
BY DEF Done, LoopRecord

(* Back to sleep: nothing is claimed of a pass that is over.                 *)
LEMMA SleepInv ==
  ASSUME GuardInv, guardLoop' = Resting, UNCHANGED <<unchangedStorage, group, thread, mishaps>>,
         wasBlocked' \in BOOLEAN
  PROVE  GuardInv'
<1>1. StorageTypeOK'
  BY RestingFields DEF GuardInv, StorageTypeOK, LoopRecord, unchangedStorage
<1>2. UsedInv' /\ PassInv'
  BY RestingFields DEF GuardInv, UsedInv, PassInv, Passing, unchangedStorage
<1> QED  BY <1>1, <1>2 DEF GuardInv

LEMMA MeasureInv == ASSUME GuardInv, Measure PROVE GuardInv'
<1>1. /\ UNCHANGED <<space, admitting, group, thread, launching, wasBlocked>> /\ fresh' = TRUE
      /\ guardLoop' = [Resting EXCEPT !.at = "warning", !.seen = level']
  BY DEF Measure
<1>2. level' \in {"normal", "low", "blocked"}
  BY DEF Measure, Level
<1>3. mishaps' \in 0..MaxMishaps
  BY StorageAssumption DEF Measure, Mishap, GuardInv, StorageTypeOK
<1>4. /\ guardLoop' \in LoopRecord /\ guardLoop'.at = "warning" /\ guardLoop'.seen = level'
      /\ guardLoop'.now = NoProgram /\ guardLoop'.todo = {} /\ guardLoop'.handles = {}
  BY <1>1, <1>2, RestingFields DEF LoopRecord
<1>5. StorageTypeOK'
  BY <1>1, <1>2, <1>3, <1>4 DEF GuardInv, StorageTypeOK, LoopRecord
<1>6. UsedInv' /\ PassInv'
  BY <1>1, <1>4 DEF GuardInv, UsedInv, PassInv, Passing
<1> QED  BY <1>5, <1>6 DEF GuardInv

LEMMA WarnInv == ASSUME GuardInv, Warn PROVE GuardInv'
<1>1. UNCHANGED <<space, level, fresh, admitting, launching, group, wasBlocked>>
      /\ guardLoop.at = "warning" /\ guardLoop' = [guardLoop EXCEPT !.at = "deciding"]
  BY DEF Warn, unchangedStorage
<1>2. thread' \in ThreadRecord /\ thread'.handle = thread.handle
  BY Types DEF Warn, GuardInv, ThreadRecord
<1>3. mishaps' \in 0..MaxMishaps
  BY StorageAssumption DEF Warn, Mishap, GuardInv, StorageTypeOK
<1>4. /\ guardLoop' \in LoopRecord /\ guardLoop'.at = "deciding"
      /\ guardLoop'.seen = guardLoop.seen /\ guardLoop'.now = guardLoop.now
      /\ guardLoop'.todo = guardLoop.todo /\ guardLoop'.handles = guardLoop.handles
  BY <1>1, Types DEF GuardInv, LoopRecord
<1>5. StorageTypeOK'
  BY <1>1, <1>2, <1>3, <1>4 DEF GuardInv, StorageTypeOK, LoopRecord, ThreadRecord
<1>6. UsedInv' /\ PassInv'
  BY <1>1, <1>2, <1>4 DEF GuardInv, UsedInv, PassInv, Passing
<1> QED  BY <1>5, <1>6 DEF GuardInv

(* The writers are listed under the lock, when none is being admitted.       *)
LEMMA DecideInv == ASSUME GuardInv, Decide PROVE GuardInv'
<1>1. UNCHANGED <<unchangedStorage, group, thread, wasBlocked, mishaps>>
      /\ admitting = NoProgram /\ guardLoop.at = "deciding"
      /\ (guardLoop' = Resting \/ ToWork)
  BY DEF Decide, DecideUnlocked
<1>2. CASE guardLoop' = Resting
  BY <1>1, <1>2, SleepInv DEF GuardInv, StorageTypeOK
<1>3. CASE ToWork
  <2>1. LiveWriters \subseteq Writers /\ Writers \subseteq Groups
        /\ Handles \subseteq Harnesses /\ Handles \subseteq {thread.handle}
        /\ NoProgram \notin Handles
    BY Types DEF LiveWriters, Handles, Groups, GuardInv, ThreadRecord
  <2>2. /\ guardLoop' \in LoopRecord /\ guardLoop'.at = "writers"
        /\ guardLoop'.seen = guardLoop.seen /\ guardLoop'.now = guardLoop.now
        /\ guardLoop'.todo = LiveWriters /\ guardLoop'.handles \subseteq Handles
    BY <1>3, <2>1, Types DEF ToWork, GuardInv, LoopRecord
  <2>3. guardLoop.now = NoProgram
    BY <1>1 DEF GuardInv, PassInv
  <2>4. StorageTypeOK'
    BY <1>1, <2>2 DEF GuardInv, StorageTypeOK, LoopRecord, unchangedStorage
  <2>5. \A g \in guardLoop'.todo \cup guardLoop'.handles : group[g].used
    BY <2>1, <2>2 DEF GuardInv, UsedInv, LiveWriters
  <2>6. UsedInv'
    BY <1>1, <2>5 DEF GuardInv, UsedInv
  <2>7. \A g \in Writers : group[g].live => g \in guardLoop'.todo
    BY <2>2 DEF LiveWriters
  <2>8. PassInv'
    BY <1>1, <2>2, <2>3, <2>7 DEF GuardInv, PassInv, Passing, Covered, unchangedStorage
  <2> QED  BY <2>4, <2>6, <2>8 DEF GuardInv
<1> QED  BY <1>1, <1>2, <1>3

LEMMA WritersDoneInv == ASSUME GuardInv, WritersDone PROVE GuardInv'
<1>1. /\ UNCHANGED <<unchangedStorage, group, thread, mishaps>>
      /\ guardLoop.at = "writers" /\ guardLoop.todo = {}
      /\ guardLoop' = [guardLoop EXCEPT !.at = "harness",
                         !.todo = IF Freezing THEN guardLoop.handles ELSE Handles]
  BY DEF WritersDone
<1>2. guardLoop \in LoopRecord /\ guardLoop.handles \subseteq Harnesses
      /\ Handles \subseteq Harnesses /\ Harnesses \subseteq Groups
      /\ Handles \subseteq {thread.handle} /\ NoProgram \notin Handles
  BY Types DEF GuardInv, LoopRecord, ThreadRecord, Handles, Groups
<1>3. /\ guardLoop' \in LoopRecord /\ guardLoop'.at = "harness"
      /\ guardLoop'.seen = guardLoop.seen /\ guardLoop'.now = guardLoop.now
      /\ guardLoop'.handles = guardLoop.handles /\ guardLoop'.ok = guardLoop.ok
      /\ guardLoop'.todo = IF Freezing THEN guardLoop.handles ELSE Handles
  BY <1>1, <1>2 DEF LoopRecord
<1>4. wasBlocked' \in BOOLEAN
  BY <1>2 DEF WritersDone, LoopRecord, Freezing
<1>5. StorageTypeOK'
  BY <1>1, <1>3, <1>4 DEF GuardInv, StorageTypeOK, LoopRecord, unchangedStorage
<1>6. UsedInv'
  BY <1>1, <1>2, <1>3 DEF GuardInv, UsedInv
<1>7. guardLoop.now = NoProgram
  BY <1>1 DEF GuardInv, PassInv
<1>8. ASSUME Passing' PROVE /\ Passing /\ admitting = NoProgram
                            /\ guardLoop.ok => \A g \in Writers : group[g].live => Still(g)
                            /\ guardLoop'.todo = guardLoop.handles
  BY <1>1, <1>3, <1>8 DEF GuardInv, PassInv, Passing, Freezing, Covered
<1>9. PassInv'
  BY <1>1, <1>3, <1>7, <1>8
     DEF GuardInv, PassInv, Passing, Covered, Still, unchangedStorage
<1> QED  BY <1>5, <1>6, <1>9 DEF GuardInv

LEMMA HarnessDoneInv == ASSUME GuardInv, HarnessDone PROVE GuardInv'
<1>1. /\ UNCHANGED <<unchangedStorage, group, thread, wasBlocked, mishaps>>
      /\ guardLoop.at = "harness" /\ guardLoop.todo = {}
      /\ \/ guardLoop' = Resting
         \/ Freezing /\ guardLoop.ok /\ guardLoop' = [guardLoop EXCEPT !.at = "cleaning"]
  BY DEF HarnessDone
<1>2. CASE guardLoop' = Resting
  BY <1>1, <1>2, SleepInv DEF GuardInv, StorageTypeOK
<1>3. CASE Freezing /\ guardLoop.ok /\ guardLoop' = [guardLoop EXCEPT !.at = "cleaning"]
  <2>1. /\ guardLoop' \in LoopRecord /\ guardLoop'.at = "cleaning"
        /\ guardLoop'.seen = guardLoop.seen /\ guardLoop'.now = guardLoop.now
        /\ guardLoop'.handles = guardLoop.handles /\ guardLoop'.ok = guardLoop.ok
        /\ guardLoop'.todo = {}
    BY <1>1, <1>3, Types DEF GuardInv, LoopRecord
  <2>2. StorageTypeOK'
    BY <1>1, <2>1 DEF GuardInv, StorageTypeOK, LoopRecord, unchangedStorage
  <2>3. UsedInv'
    BY <1>1, <2>1 DEF GuardInv, UsedInv
  <2>4. Passing /\ Covered = Writers \cup guardLoop.handles /\ guardLoop.now = NoProgram
    BY <1>1, <1>3 DEF Passing, Covered, GuardInv, PassInv
  <2>5. admitting = NoProgram /\ \A g \in Covered : group[g].live => Still(g)
    BY <1>1, <1>3, <2>4 DEF GuardInv, PassInv
  <2>6. PassInv'
    BY <1>1, <1>3, <2>1, <2>4, <2>5
       DEF GuardInv, PassInv, Passing, Freezing, Covered, Still, unchangedStorage
  <2> QED  BY <2>2, <2>3, <2>6 DEF GuardInv
<1> QED  BY <1>1, <1>2, <1>3

LEMMA CleanInv == ASSUME GuardInv, Clean PROVE GuardInv'
BY SleepInv DEF Clean, GuardInv, StorageTypeOK

(* A workload is done with: one fewer to do, and if that is all right it     *)
(* rests.                                                                    *)
LEMMA DoneInv ==
  ASSUME GuardInv, NEW g \in guardLoop.todo, NEW ok \in BOOLEAN, guardLoop' = Done(g, ok),
         UNCHANGED <<unchangedStorage, wasBlocked>>, mishaps' \in 0..MaxMishaps,
         thread' \in ThreadRecord, thread'.handle = thread.handle,
         group' \in [Groups -> GroupRecord],
         \A o \in Groups : /\ group'[o].live = group[o].live /\ group'[o].used = group[o].used
                           /\ group'[o].gate = group[o].gate /\ group'[o].rest = group[o].rest,
         Passing /\ ok => (group[g].live => Still(g)),
         guardLoop.at \in {"writers", "harness"}
  PROVE  GuardInv'
<1>1. /\ guardLoop' \in LoopRecord /\ guardLoop'.at = guardLoop.at
      /\ guardLoop'.seen = guardLoop.seen /\ guardLoop'.handles = guardLoop.handles
      /\ guardLoop'.todo = guardLoop.todo \ {g} /\ guardLoop'.now = NoProgram
      /\ guardLoop'.ok = (guardLoop.ok /\ ok)
  BY DoneFields, Types DEF GuardInv
<1>2. Covered \subseteq Groups /\ guardLoop.todo \subseteq Groups
      /\ guardLoop.handles \subseteq Groups /\ Covered' = Covered
      /\ thread.handle \in Groups \cup {NoProgram}
  BY <1>1, Types DEF GuardInv, LoopRecord, ThreadRecord, Covered, Groups
<1>3. StorageTypeOK'
  BY <1>1 DEF GuardInv, StorageTypeOK, LoopRecord, ThreadRecord, GroupRecord, unchangedStorage
<1>4. UsedInv'
  BY <1>1, <1>2 DEF GuardInv, UsedInv
<1>5. ASSUME Passing', guardLoop'.ok
      PROVE  \A o \in Covered : group'[o].live => o \in guardLoop'.todo \/ Still(o)'
  <2>1. Passing /\ guardLoop.ok /\ ok
    BY <1>1, <1>5 DEF Passing, Freezing, LoopRecord
  <2>2. \A o \in Covered : group[o].live => o \in guardLoop.todo \/ Still(o)
    BY <2>1 DEF GuardInv, PassInv
  <2>3. group[g].live => Still(g)
    BY <2>1
  <2>4. \A o \in Groups : Still(o) => Still(o)'
    BY DEF Still
  <2> QED  BY <1>1, <1>2, <2>2, <2>3, <2>4
<1>6. Passing' => admitting' = NoProgram
  BY <1>1 DEF GuardInv, PassInv, Passing, Freezing, unchangedStorage
<1>7. guardLoop'.at # "asleep" => level' = guardLoop'.seen
  BY <1>1 DEF GuardInv, PassInv, unchangedStorage
<1>8. PassInv'
  BY <1>1, <1>2, <1>5, <1>6, <1>7 DEF PassInv
<1> QED  BY <1>3, <1>4, <1>8 DEF GuardInv

LEMMA WritesInv ==
  ASSUME GuardInv, NEW g \in Groups, FreezeWrites(g) PROVE GuardInv'
<1>1. /\ guardLoop.at \in {"writers", "harness"} /\ guardLoop.now = NoProgram
      /\ g \in guardLoop.todo
      /\ UNCHANGED <<unchangedStorage, thread, wasBlocked>>
  BY DEF FreezeWrites
<1>2. thread' \in ThreadRecord /\ thread'.handle = thread.handle
      /\ mishaps \in 0..MaxMishaps /\ group \in [Groups -> GroupRecord]
  BY <1>1, Types DEF GuardInv, StorageTypeOK
<1>3. CASE ~Freezing /\ guardLoop' = Done(g, TRUE) /\ UNCHANGED <<group, mishaps>>
  BY <1>1, <1>2, <1>3, DoneInv DEF Passing
<1>4. CASE Mishap /\ guardLoop' = Done(g, FALSE) /\ UNCHANGED group
  <2>1. mishaps' \in 0..MaxMishaps
    BY <1>2, <1>4, StorageAssumption DEF Mishap
  <2> QED  BY <1>1, <1>2, <1>4, <2>1, DoneInv
<1>5. CASE /\ group' = [group EXCEPT ![g].gate = Freezing, ![g].paused = TRUE]
           /\ guardLoop' = [guardLoop EXCEPT !.now = g] /\ UNCHANGED mishaps
  <2> DEFINE r == [group[g] EXCEPT !.gate = Freezing, !.paused = TRUE]
  <2>1. r \in GroupRecord /\ r.live = group[g].live /\ r.used = group[g].used
        /\ r.gate = Freezing /\ r.rest = group[g].rest
    BY Types DEF GuardInv, GroupRecord, Freezing
  <2>2. group' = [group EXCEPT ![g] = r]
    BY <1>2, <1>5
  <2> HIDE DEF r
  <2>3. /\ group' \in [Groups -> GroupRecord] /\ group'[g] = r
        /\ \A o \in Groups \ {g} : group'[o] = group[o]
    BY <2>1, <2>2, OneGroup DEF GuardInv
  <2>4. /\ guardLoop' \in LoopRecord /\ guardLoop'.at = guardLoop.at
        /\ guardLoop'.seen = guardLoop.seen /\ guardLoop'.handles = guardLoop.handles
        /\ guardLoop'.todo = guardLoop.todo /\ guardLoop'.now = g
        /\ guardLoop'.ok = guardLoop.ok
    BY <1>5, Types DEF GuardInv, LoopRecord
  <2>5. Covered \subseteq Groups /\ guardLoop.todo \subseteq Groups
        /\ guardLoop.handles \subseteq Groups /\ Covered' = Covered
        /\ thread.handle \in Groups \cup {NoProgram}
    BY <2>4, Types DEF GuardInv, LoopRecord, ThreadRecord, Covered, Groups
  <2>6. StorageTypeOK'
    BY <1>1, <1>5, <2>3, <2>4
       DEF GuardInv, StorageTypeOK, LoopRecord, GroupRecord, unchangedStorage
  <2>7. \A o \in Groups : group'[o].live = group[o].live /\ group'[o].used = group[o].used
    BY <2>1, <2>3
  <2>8. UsedInv'
    BY <1>1, <2>4, <2>5, <2>7 DEF GuardInv, UsedInv
  <2>9. ASSUME Passing' PROVE /\ Passing /\ group'[g].gate
                              /\ \A o \in Groups : Still(o) => Still(o)'
    <3>1. Passing /\ Freezing
      BY <2>4, <2>9 DEF Passing, Freezing
    <3> QED  BY <2>1, <2>3, <3>1 DEF Still
  <2>10. ASSUME Passing', guardLoop'.ok
         PROVE  \A o \in Covered : group'[o].live => o \in guardLoop'.todo \/ Still(o)'
    <3>1. \A o \in Covered : group[o].live => o \in guardLoop.todo \/ Still(o)
      BY <2>4, <2>9, <2>10 DEF GuardInv, PassInv
    <3> QED  BY <2>4, <2>5, <2>7, <2>9, <2>10, <3>1
  <2>11. Passing' => admitting' = NoProgram
    BY <1>1, <2>9 DEF GuardInv, PassInv, unchangedStorage
  <2>12. guardLoop'.at # "asleep" => level' = guardLoop'.seen
    BY <1>1, <2>4 DEF GuardInv, PassInv, unchangedStorage
  <2>13. PassInv'
    BY <1>1, <2>4, <2>5, <2>9, <2>10, <2>11, <2>12 DEF PassInv
  <2> QED  BY <2>6, <2>8, <2>13 DEF GuardInv
<1> QED  BY <1>3, <1>4, <1>5 DEF FreezeWrites

LEMMA ConfirmedInv ==
  ASSUME GuardInv, NEW g \in Groups, FreezeConfirmed(g) PROVE GuardInv'
<1>0. g # NoProgram
  BY StorageAssumption DEF Groups
<1>1. /\ guardLoop.now = g /\ Confirmed(g) /\ guardLoop' = Done(g, TRUE)
      /\ group' = [group EXCEPT ![g].paused = Freezing]
      /\ UNCHANGED <<unchangedStorage, wasBlocked>>
  BY DEF FreezeConfirmed
<1>2. g \in guardLoop.todo /\ guardLoop.at \in {"writers", "harness"}
  BY <1>0, <1>1, Types DEF GuardInv, PassInv, LoopRecord
<1>3. thread \in ThreadRecord /\ Recorded \in ThreadRecord
      /\ Recorded.handle = thread.handle
  <2>1. thread \in ThreadRecord
    BY Types DEF GuardInv
  <2> QED  BY <2>1 DEF Recorded, ThreadRecord
<1>4. thread' \in ThreadRecord /\ thread'.handle = thread.handle
  BY <1>3 DEF FreezeConfirmed
<1>5. mishaps' \in 0..MaxMishaps
  BY StorageAssumption DEF FreezeConfirmed, Mishap, GuardInv, StorageTypeOK
<1> DEFINE r == [group[g] EXCEPT !.paused = Freezing]
<1>6. r \in GroupRecord /\ r.live = group[g].live /\ r.used = group[g].used
      /\ r.gate = group[g].gate /\ r.rest = group[g].rest
  BY Types DEF GuardInv, GroupRecord, Freezing
<1>7. group' = [group EXCEPT ![g] = r]
  BY <1>1
<1> HIDE DEF r
<1>8. /\ group' \in [Groups -> GroupRecord] /\ group'[g] = r
      /\ \A o \in Groups \ {g} : group'[o] = group[o]
  BY <1>6, <1>7, OneGroup DEF GuardInv
<1>9. Passing => (group[g].live => Still(g))
  <2>1. group[g].rest \in BOOLEAN
    BY Types DEF GuardInv, GroupRecord
  <2>2. Passing => Freezing /\ group[g].gate
    BY <1>0, <1>1 DEF GuardInv, PassInv, Passing
  <2> QED  BY <1>1, <2>1, <2>2 DEF Confirmed, Still, Freezing
<1>10. \A o \in Groups : /\ group'[o].live = group[o].live /\ group'[o].used = group[o].used
                         /\ group'[o].gate = group[o].gate /\ group'[o].rest = group[o].rest
  BY <1>6, <1>8
<1> QED  BY <1>1, <1>2, <1>4, <1>5, <1>8, <1>9, <1>10, DoneInv

LEMMA TimesOutInv ==
  ASSUME GuardInv, NEW g \in Groups, FreezeTimesOut(g) PROVE GuardInv'
<1>0. g # NoProgram
  BY StorageAssumption DEF Groups
<1>1. /\ guardLoop.now = g /\ guardLoop' = Done(g, FALSE)
      /\ UNCHANGED <<unchangedStorage, group, thread, wasBlocked>>
  BY DEF FreezeTimesOut
<1>2. g \in guardLoop.todo /\ guardLoop.at \in {"writers", "harness"}
  BY <1>0, <1>1, Types DEF GuardInv, PassInv, LoopRecord
<1>3. thread' \in ThreadRecord /\ thread'.handle = thread.handle
      /\ group' \in [Groups -> GroupRecord]
  BY <1>1, Types DEF GuardInv
<1>4. mishaps' \in 0..MaxMishaps
  BY StorageAssumption DEF FreezeTimesOut, Mishap, GuardInv, StorageTypeOK
<1> QED  BY <1>1, <1>2, <1>3, <1>4, DoneInv

LEMMA GuardStepInv == ASSUME GuardInv, [StorageNext]_storageVars PROVE GuardInv'
<1>1. CASE UNCHANGED storageVars
  BY <1>1 DEF storageVars, GuardInv, StorageTypeOK, UsedInv, PassInv, Passing, Freezing,
              Covered, Still
<1>2. CASE StorageNext
  <2>1. CASE SpaceMoves \/ SampleAges \/ LaunchLooks
    BY <2>1, AsideInv
  <2>2. CASE \E g \in Groups : KernelFollows(g) \/ GroupEnds(g) \/ FreezeTimesOut(g)
    BY <2>2, FollowsInv, EndsInv, TimesOutInv
  <2>3. CASE \E w \in Writers : AdmitWriter(w) \/ StartWriter(w)
    BY <2>3, AdmitInv, StartInv
  <2>4. CASE (\E h \in Harnesses : LaunchSpawns(h)) \/ HarnessReady
    BY <2>4, SpawnInv, ReadyInv
  <2>5. CASE GuardRuns
    BY <2>5, MeasureInv, WarnInv, DecideInv, WritersDoneInv, HarnessDoneInv, CleanInv,
       WritesInv, ConfirmedInv DEF GuardRuns
  <2> QED  BY <1>2, <2>1, <2>2, <2>3, <2>4, <2>5 DEF StorageNext
<1> QED  BY <1>1, <1>2

-----------------------------------------------------------------------------
(* The strengthened invariant holds for every behaviour.                     *)
THEOREM GuardInductive == StorageSpec => []GuardInv
<1>1. StorageInit => GuardInv
  BY GuardInitInv
<1>2. GuardInv /\ [StorageNext]_storageVars => GuardInv'
  BY GuardStepInv
<1> QED  BY <1>1, <1>2, PTL DEF StorageSpec

(* While the guard cleans the cache, nothing that writes files runs or is    *)
(* about to start (workspace/storage.rs, pause_writers and spawn_writer).    *)
THEOREM NothingWritesWhileCleaned == StorageSpec => []RestWhileCleaned
<1>1. GuardInv => RestWhileCleaned
  <2> SUFFICES ASSUME GuardInv, guardLoop.at = "cleaning"
               PROVE  /\ admitting = NoProgram
                      /\ \A g \in Writers \cup guardLoop.handles :
                           group[g].live => group[g].rest
    BY DEF RestWhileCleaned
  <2>1. Passing /\ guardLoop.ok /\ guardLoop.todo = {}
        /\ Covered = Writers \cup guardLoop.handles
    BY DEF GuardInv, PassInv, Passing, Covered
  <2> QED  BY <2>1 DEF GuardInv, PassInv, Still
<1> QED  BY <1>1, GuardInductive, PTL

(* The guard, its programs and the thread keep their types.                  *)
THEOREM GuardTypeCorrect == StorageSpec => []StorageTypeOK
<1>1. GuardInv => StorageTypeOK
  BY DEF GuardInv
<1> QED  BY <1>1, GuardInductive, PTL

-----------------------------------------------------------------------------
(* Part 2: the Mac bridge.                                                   *)

Message    == [what : {"job", "cancel"}, id : JobIds, command : Commands]
CallRecord == [at : {"none", "sending", "waiting", "told"}, id : JobIds \cup {Nil},
               stream : Slots \cup {Nil}, late : BOOLEAN,
               told : Commands \cup Answers \cup {Nil}]

(* What says that a job id is of a command: a thread of the Mac, a message   *)
(* on its way, the call of the command, and a result.                        *)
WorkNames(id, c)    == \E w \in work : w.id = id /\ w.command = c
ChannelNames(id, c) ==
  \E g \in Slots : \E k \in 1..Len(channel[g]) :
    channel[g][k].id = id /\ channel[g][k].command = c
CallerNames(id, c)  == caller[c].id = id
JobNames(id, c)     == jobs[id].result = c
Says(id, c) ==
  WorkNames(id, c) \/ ChannelNames(id, c) \/ CallerNames(id, c) \/ JobNames(id, c)

(* The ids this service and those before it have drawn.                      *)
Drawn(id) == id[1] < pid \/ (id[1] = pid /\ id[2] < counter)

BridgeTypes == MacTypeOK /\ pid <= losses

CallInv ==
  \A c \in Commands :
    /\ caller[c].at \in {"sending", "waiting"} =>
         caller[c].id \in JobIds /\ caller[c].stream \in Slots
    /\ caller[c].told = "unknown" => caller[c].id \in JobIds
    /\ caller[c].told \in Commands => caller[c].told = c

NamesInv ==
  /\ \A id \in JobIds, c, d \in Commands : Says(id, c) /\ Says(id, d) => c = d
  /\ \A id \in JobIds, c \in Commands : Says(id, c) => Drawn(id)

BridgeInv == BridgeTypes /\ CallInv /\ NamesInv

-----------------------------------------------------------------------------
LEMMA BridgeInitInv == MacInit => BridgeInv
<1> USE MacAssumption, IdsAssumption
<1> SUFFICES ASSUME MacInit PROVE BridgeInv
  OBVIOUS
<1>1. BridgeTypes
  BY DEF MacInit, BridgeTypes, MacTypeOK, Pids, Slots, NoJob, NoCall
<1>2. CallInv
  BY DEF MacInit, CallInv, NoCall, Answers
<1>3. NamesInv
  <2>1. \A id \in JobIds, c \in Commands : ~CallerNames(id, c)
    BY DEF MacInit, CallerNames, NoCall
  <2>2. \A id \in JobIds, c \in Commands : ~JobNames(id, c)
    BY DEF MacInit, JobNames, NoJob
  <2>3. \A id \in JobIds, c \in Commands : ~WorkNames(id, c)
    BY DEF MacInit, WorkNames
  <2>4. \A id \in JobIds, c \in Commands : ~ChannelNames(id, c)
    <3>1. \A g \in Slots : 1..Len(channel[g]) = {}
      BY DEF MacInit
    <3> QED  BY <3>1 DEF ChannelNames
  <2> QED  BY <2>1, <2>2, <2>3, <2>4 DEF NamesInv, Says
<1> QED  BY <1>1, <1>2, <1>3 DEF BridgeInv

-----------------------------------------------------------------------------
(* A step that says nothing new of a job, and undraws no id.                 *)
LEMMA NothingNew ==
  ASSUME NamesInv,
         \A id \in JobIds, c \in Commands : Says(id, c)' => Says(id, c),
         \A id \in JobIds : Drawn(id) => Drawn(id)'
  PROVE  NamesInv'
BY DEF NamesInv

LEMMA StillDrawn ==
  ASSUME BridgeTypes, pid' = pid, counter' \in {counter, counter + 1}
  PROVE  \A id \in JobIds : Drawn(id) => Drawn(id)'
BY DEF BridgeTypes, MacTypeOK, Drawn, JobIds, Pids, Slots

(* A message of a job that its call, or a thread, already speaks of.         *)
LEMMA PostSays ==
  ASSUME BridgeTypes, NEW g, NEW m \in Message,
         channel' = Post(g, m)
  PROVE  /\ channel' \in [Slots -> Seq(Message)]
         /\ \A id \in JobIds, c \in Commands :
              ChannelNames(id, c)' => ChannelNames(id, c) \/ (m.id = id /\ m.command = c)
<1>1. channel \in [Slots -> Seq(Message)] /\ open \subseteq Slots
  BY DEF BridgeTypes, MacTypeOK, Message, CallRecord
<1>2. CASE g \notin open
  <2>1. channel' = channel
    BY <1>2 DEF Post
  <2> QED  BY <1>1, <2>1 DEF ChannelNames
<1>3. CASE g \in open
  <2>1. g \in Slots /\ channel' = [channel EXCEPT ![g] = Append(channel[g], m)]
    BY <1>1, <1>3 DEF Post
  <2>2. channel[g] \in Seq(Message) /\ m \in Message
    BY <1>1, <2>1
  <2>3. channel'[g] = Append(channel[g], m) /\ \A h \in Slots \ {g} : channel'[h] = channel[h]
    BY <1>1, <2>1
  <2>4. /\ Append(channel[g], m) \in Seq(Message)
        /\ Len(Append(channel[g], m)) = Len(channel[g]) + 1
        /\ Append(channel[g], m)[Len(channel[g]) + 1] = m
        /\ \A k \in 1..Len(channel[g]) : Append(channel[g], m)[k] = channel[g][k]
        /\ Len(channel[g]) \in Nat
    BY <2>2
  <2>5. channel' \in [Slots -> Seq(Message)]
    BY <1>1, <2>1, <2>4
  <2>6. ASSUME NEW id \in JobIds, NEW c \in Commands, ChannelNames(id, c)',
               ~(m.id = id /\ m.command = c)
        PROVE  ChannelNames(id, c)
    <3>1. PICK h \in Slots : \E k \in 1..Len(channel'[h]) :
            channel'[h][k].id = id /\ channel'[h][k].command = c
      BY <2>6 DEF ChannelNames
    <3>2. CASE h = g
      <4>1. PICK k \in 1..(Len(channel[g]) + 1) :
              channel'[g][k].id = id /\ channel'[g][k].command = c
        BY <2>3, <2>4, <3>1, <3>2
      <4>2. k # Len(channel[g]) + 1
        BY <2>3, <2>4, <2>6, <4>1
      <4>3. k \in 1..Len(channel[g])
        BY <2>4, <4>1, <4>2
      <4> QED  BY <2>1, <2>3, <2>4, <4>1, <4>3 DEF ChannelNames
    <3>3. CASE h # g
      BY <2>3, <3>1, <3>3 DEF ChannelNames
    <3> QED  BY <3>2, <3>3
  <2> QED  BY <2>5, <2>6
<1> QED  BY <1>2, <1>3

LEMMA EmptiedSays ==
  ASSUME BridgeTypes, NEW g \in Slots, channel' = [channel EXCEPT ![g] = <<>>]
  PROVE  /\ channel' \in [Slots -> Seq(Message)]
         /\ \A id \in JobIds, c \in Commands : ChannelNames(id, c)' => ChannelNames(id, c)
<1>1. channel \in [Slots -> Seq(Message)]
  BY DEF BridgeTypes, MacTypeOK, Message, CallRecord
<1>2. channel' \in [Slots -> Seq(Message)]
  BY <1>1
<1>3. 1..Len(channel'[g]) = {} /\ \A h \in Slots \ {g} : channel'[h] = channel[h]
  BY <1>1
<1>4. \A id \in JobIds, c \in Commands : ChannelNames(id, c)' => ChannelNames(id, c)
  BY <1>3 DEF ChannelNames
<1> QED  BY <1>2, <1>4

(* The call of c is answered.                                                *)
LEMMA ToldInv ==
  ASSUME BridgeTypes, CallInv, NEW c \in Commands, NEW answer \in Commands \cup Answers,
         caller' = Told(c, answer),
         answer \in Commands => answer = c,
         answer = "unknown" => caller[c].id \in JobIds
  PROVE  /\ caller' \in [Commands -> CallRecord]
         /\ CallInv'
         /\ \A id \in JobIds, d \in Commands : CallerNames(id, d)' = CallerNames(id, d)
<1>1. caller \in [Commands -> CallRecord]
  BY DEF BridgeTypes, MacTypeOK, Message, CallRecord
<1> DEFINE told == [caller[c] EXCEPT !.at = "told", !.told = answer]
<1>2. caller' = [caller EXCEPT ![c] = told]
  BY <1>1 DEF Told
<1>3. /\ told.at = "told" /\ told.told = answer /\ told.id = caller[c].id
      /\ told.stream = caller[c].stream /\ told \in CallRecord
  <2>1. caller[c] \in CallRecord
    BY <1>1
  <2> QED  BY <2>1 DEF CallRecord
<1> HIDE DEF told
<1>4. /\ caller' \in [Commands -> CallRecord] /\ caller'[c] = told
      /\ \A d \in Commands \ {c} : caller'[d] = caller[d]
  BY <1>1, <1>2, <1>3
<1>5. CallInv'
  <2> SUFFICES ASSUME NEW d \in Commands
               PROVE  /\ caller'[d].at \in {"sending", "waiting"} =>
                           caller'[d].id \in JobIds /\ caller'[d].stream \in Slots
                      /\ caller'[d].told = "unknown" => caller'[d].id \in JobIds
                      /\ caller'[d].told \in Commands => caller'[d].told = d
    BY DEF CallInv, JobIds, Pids, Slots
  <2>1. CASE d = c
    BY <1>3, <1>4, <2>1 DEF CallInv
  <2>2. CASE d # c
    BY <1>4, <2>2 DEF CallInv
  <2> QED  BY <2>1, <2>2
<1>6. \A id \in JobIds, d \in Commands : CallerNames(id, d)' = CallerNames(id, d)
  BY <1>3, <1>4 DEF CallerNames
<1> QED  BY <1>4, <1>5, <1>6

LEMMA QuietInv ==
  ASSUME BridgeInv, MacTypeOK', (pid <= losses)', CallInv',
         pid' = pid, counter' \in {counter, counter + 1},
         \A id \in JobIds, c \in Commands : Says(id, c)' => Says(id, c)
  PROVE  BridgeInv'
<1>1. \A id \in JobIds : Drawn(id) => Drawn(id)'
  BY StillDrawn DEF BridgeInv
<1>2. NamesInv'
  BY <1>1, NothingNew DEF BridgeInv
<1> QED  BY <1>2 DEF BridgeInv, BridgeTypes

-----------------------------------------------------------------------------
(* Streams come and go: what they had not delivered is lost.                 *)
LEMMA StreamsInv ==
  ASSUME BridgeInv, MacConnects \/ LinkBreaks \/ \E g \in Slots : StreamEnds(g)
  PROVE  BridgeInv'
<1> USE MacAssumption
<1>1. /\ UNCHANGED <<pid, jobs, caller, work, excused>>
      /\ counter' \in {counter, counter + 1} /\ counter' \in 0..MaxNext
      /\ losses' \in {losses, losses + 1} /\ losses' \in 0..MaxLosses
      /\ {helper', link'} \subseteq Slots \cup {Nil} /\ open' \subseteq Slots
      /\ \/ channel' = channel
         \/ \E g \in Slots : channel' = [channel EXCEPT ![g] = <<>>]
  <2>0. /\ counter \in 0..MaxNext /\ losses \in 0..MaxLosses
        /\ {helper, link} \subseteq Slots \cup {Nil} /\ open \subseteq Slots
    BY DEF BridgeInv, BridgeTypes, MacTypeOK
  <2>1. CASE MacConnects
    <3>1. counter \in Slots /\ counter + 1 \in 0..MaxNext
      BY <2>0, <2>1 DEF MacConnects, Slots
    <3> QED  BY <2>0, <2>1, <3>1 DEF MacConnects
  <2>2. CASE LinkBreaks
    BY <2>0, <2>2 DEF LinkBreaks, Loss
  <2>3. ASSUME NEW g \in Slots, StreamEnds(g) PROVE <1>1!:
    BY <2>0, <2>3 DEF StreamEnds, ReceiverDropped, StreamClosed
  <2> QED  BY <2>1, <2>2, <2>3
<1>2. /\ channel' \in [Slots -> Seq(Message)]
      /\ \A id \in JobIds, c \in Commands : ChannelNames(id, c)' => ChannelNames(id, c)
  <2>1. CASE channel' = channel
    BY <2>1 DEF ChannelNames, BridgeInv, BridgeTypes, MacTypeOK, Message
  <2>2. ASSUME NEW g \in Slots, channel' = [channel EXCEPT ![g] = <<>>] PROVE <1>2!:
    BY <2>2, EmptiedSays DEF BridgeInv
  <2> QED  BY <1>1, <2>1, <2>2
<1>3. MacTypeOK'
  BY <1>1, <1>2 DEF BridgeInv, BridgeTypes, MacTypeOK, Message
<1>4. (pid <= losses)'
  BY <1>1 DEF BridgeInv, BridgeTypes, MacTypeOK, Pids
<1>5. CallInv'
  BY <1>1 DEF BridgeInv, CallInv
<1>6. \A id \in JobIds, c \in Commands : Says(id, c)' => Says(id, c)
  BY <1>1, <1>2 DEF Says, WorkNames, CallerNames, JobNames
<1> QED  BY <1>1, <1>3, <1>4, <1>5, <1>6, QuietInv

-----------------------------------------------------------------------------
JobRecord == [known : BOOLEAN, acked : BOOLEAN, result : Commands \cup {Nil}]

LEMMA JobGone ==
  ASSUME BridgeTypes, NEW id, jobs' = [jobs EXCEPT ![id] = NoJob]
  PROVE  /\ jobs' \in [JobIds -> JobRecord]
         /\ \A i \in JobIds, c \in Commands : JobNames(i, c)' => JobNames(i, c)
<1>1. jobs \in [JobIds -> JobRecord] /\ NoJob \in JobRecord /\ NoJob.result = Nil
  BY DEF BridgeTypes, MacTypeOK, JobRecord, NoJob
<1>2. jobs' \in [JobIds -> JobRecord]
  BY <1>1
<1>3. \A i \in JobIds : jobs'[i] = jobs[i] \/ jobs'[i].result = Nil
  BY <1>1
<1>4. \A i \in JobIds, c \in Commands : JobNames(i, c)' => JobNames(i, c)
  BY <1>3, MacAssumption DEF JobNames
<1> QED  BY <1>2, <1>4

(* A call is answered; its job may be withdrawn, and the helper told.        *)
LEMMA AnswerInv ==
  ASSUME BridgeInv, NEW c \in Commands, NEW answer \in Commands \cup Answers,
         caller' = Told(c, answer),
         answer \in Commands => answer = c,
         answer = "unknown" => caller[c].id \in JobIds,
         jobs' = jobs \/ \E id \in JobIds : jobs' = [jobs EXCEPT ![id] = NoJob],
         \/ channel' = channel
         \/ caller[c].id \in JobIds /\ channel' = Cancelled(c),
         UNCHANGED <<pid, macStreams, work, excused, losses>>
  PROVE  BridgeInv'
<1>0. BridgeTypes /\ CallInv
  BY DEF BridgeInv
<1>1. /\ caller' \in [Commands -> CallRecord] /\ CallInv'
      /\ \A id \in JobIds, d \in Commands : CallerNames(id, d)' = CallerNames(id, d)
  BY <1>0, ToldInv
<1>2. /\ jobs' \in [JobIds -> JobRecord]
      /\ \A id \in JobIds, d \in Commands : JobNames(id, d)' => JobNames(id, d)
  <2>1. CASE jobs' = jobs
    BY <1>0, <2>1 DEF JobNames, BridgeTypes, MacTypeOK, JobRecord
  <2>2. ASSUME NEW id \in JobIds, jobs' = [jobs EXCEPT ![id] = NoJob] PROVE <1>2!:
    BY <1>0, <2>2, JobGone
  <2> QED  BY <2>1, <2>2
<1>3. /\ channel' \in [Slots -> Seq(Message)]
      /\ \A id \in JobIds, d \in Commands :
           ChannelNames(id, d)' => ChannelNames(id, d) \/ CallerNames(id, d)
  <2>1. CASE channel' = channel
    BY <1>0, <2>1 DEF ChannelNames, BridgeTypes, MacTypeOK, Message
  <2>2. CASE caller[c].id \in JobIds /\ channel' = Cancelled(c)
    <3> DEFINE m == [what |-> "cancel", id |-> caller[c].id, command |-> c]
    <3>1. m \in Message /\ m.id = caller[c].id /\ m.command = c
      BY <2>2 DEF Message
    <3>2. channel' = Post(caller[c].stream, m)
      BY <2>2 DEF Cancelled
    <3> HIDE DEF m
    <3> QED  BY <1>0, <3>1, <3>2, PostSays DEF CallerNames
  <2> QED  BY <2>1, <2>2
<1>4. MacTypeOK' /\ (pid <= losses)'
  BY <1>0, <1>1, <1>2, <1>3
  DEF BridgeTypes, MacTypeOK, macStreams, CallRecord, JobRecord, Message
<1>5. \A id \in JobIds, d \in Commands : Says(id, d)' => Says(id, d)
  BY <1>1, <1>2, <1>3 DEF Says, WorkNames
<1>6. pid' = pid /\ counter' \in {counter, counter + 1}
  BY DEF macStreams
<1> QED  BY <1>1, <1>4, <1>5, <1>6, QuietInv

LEMMA RunOfflineInv ==
  ASSUME BridgeInv, NEW c \in Commands, RunOffline(c) PROVE BridgeInv'
BY AnswerInv, MacAssumption DEF RunOffline, Answers

(* The result that is there is of the command, as both say their id.         *)
LEMMA LookResultInv ==
  ASSUME BridgeInv, NEW c \in Commands, LookResult(c) PROVE BridgeInv'
<1>1. caller[c].id \in JobIds
  BY DEF BridgeInv, CallInv, LookResult, Call
<1>2. Job(c).result \in Commands
  BY <1>1 DEF BridgeInv, BridgeTypes, MacTypeOK, LookResult, Job
<1>3. Job(c).result = c
  BY <1>1, <1>2 DEF BridgeInv, NamesInv, Says, CallerNames, JobNames, Job
<1> QED  BY <1>1, <1>3, AnswerInv, MacAssumption DEF LookResult, Answers

LEMMA LookWithdrawsInv ==
  ASSUME BridgeInv, NEW c \in Commands, LookWithdraws(c) PROVE BridgeInv'
<1>1. caller[c].id \in JobIds
  BY DEF BridgeInv, CallInv, LookWithdraws, Call
<1> QED  BY <1>1, AnswerInv, MacAssumption DEF LookWithdraws, Answers

LEMMA LookUnknownInv ==
  ASSUME BridgeInv, NEW c \in Commands, LookUnknown(c) PROVE BridgeInv'
<1>1. caller[c].id \in JobIds
  BY DEF BridgeInv, CallInv, LookUnknown, Call
<1> QED  BY <1>1, AnswerInv, MacAssumption DEF LookUnknown, Answers

LEMMA AgentLeavesInv ==
  ASSUME BridgeInv, NEW c \in Commands, AgentLeaves(c) PROVE BridgeInv'
<1>1. caller[c].id \in JobIds
  BY DEF BridgeInv, CallInv, AgentLeaves, Call
<1> QED  BY <1>1, AnswerInv, MacAssumption DEF AgentLeaves, Answers

(* A call goes on, with the id it has.                                       *)
LEMMA CallerMovesInv ==
  ASSUME BridgeTypes, CallInv, NEW c \in Commands,
         NEW at \in {"sending", "waiting"}, NEW late \in BOOLEAN,
         caller[c].at \in {"sending", "waiting"},
         caller' = [caller EXCEPT ![c] = [caller[c] EXCEPT !.at = at, !.late = late]]
  PROVE  /\ caller' \in [Commands -> CallRecord] /\ CallInv'
         /\ \A id \in JobIds, d \in Commands : CallerNames(id, d)' = CallerNames(id, d)
<1>1. caller \in [Commands -> CallRecord] /\ caller[c] \in CallRecord
  BY DEF BridgeTypes, MacTypeOK, CallRecord
<1> DEFINE moved == [caller[c] EXCEPT !.at = at, !.late = late]
<1>2. /\ moved.id = caller[c].id /\ moved.stream = caller[c].stream
      /\ moved.told = caller[c].told /\ moved \in CallRecord
  BY <1>1 DEF CallRecord
<1> HIDE DEF moved
<1>3. /\ caller' \in [Commands -> CallRecord] /\ caller'[c] = moved
      /\ \A d \in Commands \ {c} : caller'[d] = caller[d]
  BY <1>1, <1>2 DEF moved
<1>4. CallInv'
  <2>1. ASSUME NEW d \in Commands
        PROVE  /\ caller'[d].at \in {"sending", "waiting"} =>
                    caller'[d].id \in JobIds /\ caller'[d].stream \in Slots
               /\ caller'[d].told = "unknown" => caller'[d].id \in JobIds
               /\ caller'[d].told \in Commands => caller'[d].told = d
    <3>1. CASE d = c
      BY <1>2, <1>3, <3>1 DEF CallInv
    <3>2. CASE d # c
      BY <1>3, <3>2 DEF CallInv
    <3> QED  BY <3>1, <3>2
  <2> QED  BY <2>1 DEF CallInv, JobIds, Pids, Slots
<1>5. \A id \in JobIds, d \in Commands : CallerNames(id, d)' = CallerNames(id, d)
  BY <1>2, <1>3 DEF CallerNames
<1> QED  BY <1>3, <1>4, <1>5

LEMMA AckPassesInv ==
  ASSUME BridgeInv, NEW c \in Commands, AckPasses(c) PROVE BridgeInv'
<1>0. BridgeTypes /\ CallInv /\ caller[c] \in CallRecord /\ caller[c].at = "waiting"
  BY DEF BridgeInv, BridgeTypes, MacTypeOK, CallRecord, AckPasses, Call
<1>1. caller' = [caller EXCEPT ![c] = [caller[c] EXCEPT !.at = "waiting", !.late = TRUE]]
  <2>1. [caller[c] EXCEPT !.late = TRUE] = [caller[c] EXCEPT !.at = "waiting", !.late = TRUE]
    BY <1>0 DEF CallRecord
  <2> QED  BY <2>1 DEF AckPasses
<1>2. /\ caller' \in [Commands -> CallRecord] /\ CallInv'
      /\ \A id \in JobIds, d \in Commands : CallerNames(id, d)' = CallerNames(id, d)
  BY <1>0, <1>1, CallerMovesInv
<1>3. MacTypeOK' /\ (pid <= losses)'
  BY <1>0, <1>2 DEF AckPasses, BridgeTypes, MacTypeOK, macStreams, CallRecord
<1>4. \A id \in JobIds, d \in Commands : Says(id, d)' => Says(id, d)
  BY <1>2 DEF AckPasses, Says, WorkNames, ChannelNames, JobNames
<1>5. pid' = pid /\ counter' \in {counter, counter + 1}
  BY DEF AckPasses, macStreams
<1> QED  BY <1>2, <1>3, <1>4, <1>5, QuietInv

LEMMA SendJobInv ==
  ASSUME BridgeInv, NEW c \in Commands, SendJob(c) PROVE BridgeInv'
<1>0. /\ BridgeTypes /\ CallInv /\ caller[c] \in CallRecord /\ caller[c].at = "sending"
      /\ caller[c].id \in JobIds
  BY DEF BridgeInv, BridgeTypes, MacTypeOK, CallInv, CallRecord, SendJob, Call
<1>1. CASE caller[c].stream \notin open
  BY <1>0, <1>1, AnswerInv, MacAssumption DEF SendJob, Answers
<1>2. CASE caller[c].stream \in open
  <2> DEFINE m == [what |-> "job", id |-> caller[c].id, command |-> c]
  <2>1. /\ channel' = Post(caller[c].stream, m)
        /\ caller' = [caller EXCEPT ![c].at = "waiting"]
        /\ UNCHANGED <<pid, macStreams, jobs, work, excused, losses>>
    BY <1>2 DEF SendJob
  <2>2. m \in Message /\ m.id = caller[c].id /\ m.command = c
    BY <1>0 DEF Message
  <2> HIDE DEF m
  <2>3. /\ channel' \in [Slots -> Seq(Message)]
        /\ \A id \in JobIds, d \in Commands :
             ChannelNames(id, d)' => ChannelNames(id, d) \/ CallerNames(id, d)
    BY <1>0, <2>1, <2>2, PostSays DEF CallerNames
  <2>4. /\ caller' \in [Commands -> CallRecord] /\ CallInv'
        /\ \A id \in JobIds, d \in Commands : CallerNames(id, d)' = CallerNames(id, d)
    <3>1. caller[c].late \in BOOLEAN
          /\ [caller[c] EXCEPT !.at = "waiting"]
               = [caller[c] EXCEPT !.at = "waiting", !.late = caller[c].late]
      BY <1>0 DEF CallRecord
    <3>2. caller' = [caller EXCEPT ![c] =
                       [caller[c] EXCEPT !.at = "waiting", !.late = caller[c].late]]
      BY <2>1, <3>1
    <3> QED  BY <1>0, <3>1, <3>2, CallerMovesInv
  <2>5. MacTypeOK' /\ (pid <= losses)'
    BY <1>0, <2>1, <2>3, <2>4 DEF BridgeTypes, MacTypeOK, macStreams, CallRecord, Message
  <2>6. \A id \in JobIds, d \in Commands : Says(id, d)' => Says(id, d)
    BY <2>1, <2>3, <2>4 DEF Says, WorkNames, JobNames
  <2>7. pid' = pid /\ counter' \in {counter, counter + 1}
    BY <2>1 DEF macStreams
  <2> QED  BY <2>4, <2>5, <2>6, <2>7, QuietInv
<1> QED  BY <1>1, <1>2

(* The id that is drawn was never drawn before, so nothing speaks of it.     *)
LEMMA RunInv ==
  ASSUME BridgeInv, NEW c \in Commands, Run(c) PROVE BridgeInv'
<1> USE MacAssumption
<1>a. PICK new : new = JobId(pid, counter)
  OBVIOUS
<1> DEFINE call == [NoCall EXCEPT !.at = "sending", !.id = new, !.stream = helper]
<1>0. /\ BridgeTypes /\ CallInv /\ NamesInv /\ caller \in [Commands -> CallRecord]
      /\ jobs \in [JobIds -> JobRecord] /\ counter \in Slots /\ pid \in Pids
      /\ helper \in Slots
  BY DEF BridgeInv, BridgeTypes, MacTypeOK, CallRecord, JobRecord, Run, Slots
<1>1. new \in JobIds /\ ~Drawn(new) /\ new[1] = pid /\ new[2] = counter
  BY <1>0, <1>a DEF JobId, JobIds, Drawn, Slots, Pids
<1>2. NoCall \in CallRecord /\ NoCall.told = Nil
  BY DEF CallRecord, NoCall
<1>3. /\ jobs' = [jobs EXCEPT ![new] = NewJob]
      /\ caller' = [caller EXCEPT ![c] = call] /\ counter' = counter + 1
      /\ UNCHANGED <<pid, helper, open, channel, link, work, excused, losses>>
  BY <1>a DEF Run
<1>4. NewJob \in JobRecord /\ NewJob.result = Nil
  BY DEF NewJob, NoJob, JobRecord
<1>5. /\ call.id = new /\ call.stream = helper /\ call.told = Nil /\ call.at = "sending"
      /\ call \in CallRecord
  BY <1>0, <1>1, <1>2 DEF CallRecord
<1> HIDE DEF call
<1>6. /\ caller' \in [Commands -> CallRecord] /\ caller'[c] = call
      /\ \A d \in Commands \ {c} : caller'[d] = caller[d]
      /\ jobs' \in [JobIds -> JobRecord]
      /\ \A id \in JobIds : jobs'[id] = jobs[id] \/ jobs'[id].result = Nil
  BY <1>0, <1>1, <1>3, <1>4, <1>5
<1>7. MacTypeOK' /\ (pid <= losses)'
  <2>1. counter' \in 0..MaxNext
    BY <1>0, <1>3 DEF Slots
  <2>2. /\ pid' \in Pids /\ losses' \in 0..MaxLosses /\ pid' <= losses'
        /\ {helper', link'} \subseteq Slots \cup {Nil} /\ open' \subseteq Slots
        /\ channel' \in [Slots -> Seq(Message)]
    BY <1>0, <1>3 DEF BridgeTypes, MacTypeOK, Message
  <2>3. /\ work' \subseteq [id : JobIds, command : Commands,
                            at : {"starting", "running", "ended"}]
        /\ excused' \subseteq JobIds
    BY <1>0, <1>3 DEF BridgeTypes, MacTypeOK
  <2> QED  BY <1>6, <2>1, <2>2, <2>3 DEF MacTypeOK, CallRecord, JobRecord, Message
<1>8. CallInv'
  <2>1. ASSUME NEW d \in Commands
        PROVE  /\ caller'[d].at \in {"sending", "waiting"} =>
                    caller'[d].id \in JobIds /\ caller'[d].stream \in Slots
               /\ caller'[d].told = "unknown" => caller'[d].id \in JobIds
               /\ caller'[d].told \in Commands => caller'[d].told = d
    <3>1. CASE d = c
      BY <1>0, <1>1, <1>5, <1>6, <3>1 DEF Answers
    <3>2. CASE d # c
      BY <1>6, <3>2 DEF CallInv, BridgeInv
    <3> QED  BY <3>1, <3>2
  <2> QED  BY <2>1 DEF CallInv, JobIds, Pids, Slots
<1>9. NamesInv'
  <2>1. \A id \in JobIds, d \in Commands : Says(id, d)' => Says(id, d) \/ (id = new /\ d = c)
    <3>1. \A id \in JobIds, d \in Commands :
            CallerNames(id, d)' => CallerNames(id, d) \/ (id = new /\ d = c)
      BY <1>5, <1>6 DEF CallerNames
    <3>2. \A id \in JobIds, d \in Commands : JobNames(id, d)' => JobNames(id, d)
      BY <1>6 DEF JobNames
    <3> QED  BY <1>3, <3>1, <3>2 DEF Says, WorkNames, ChannelNames
  <2>2. \A d \in Commands : ~Says(new, d)
    BY <1>0, <1>1 DEF NamesInv
  <2>3. \A id \in JobIds : Drawn(id) => Drawn(id)'
    BY <1>0, <1>3, StillDrawn
  <2>4. Drawn(new)'
    <3>1. new[1] = pid' /\ new[2] < counter'
      BY <1>0, <1>1, <1>3 DEF Slots
    <3> QED  BY <3>1 DEF Drawn
  <2> QED  BY <1>0, <2>1, <2>2, <2>3, <2>4 DEF NamesInv
<1> QED  BY <1>7, <1>8, <1>9 DEF BridgeInv, BridgeTypes

LEMMA ExpireInv ==
  ASSUME BridgeInv, NEW id \in JobIds, Expire(id) PROVE BridgeInv'
<1>1. /\ BridgeTypes /\ losses < MaxLosses /\ losses' = losses + 1
      /\ jobs' = [jobs EXCEPT ![id] = NoJob] /\ excused' = excused \cup {id}
      /\ UNCHANGED <<pid, macStreams, channel, caller, work>>
  BY DEF BridgeInv, Expire, Loss
<1>2. /\ jobs' \in [JobIds -> JobRecord]
      /\ \A i \in JobIds, c \in Commands : JobNames(i, c)' => JobNames(i, c)
  BY <1>1, JobGone
<1>3. MacTypeOK' /\ (pid <= losses)'
  <2>1. losses' \in 0..MaxLosses /\ pid' \in Pids /\ pid' <= losses'
    BY <1>1, MacAssumption DEF BridgeTypes, MacTypeOK, Pids
  <2>2. /\ counter' \in 0..MaxNext
        /\ {helper', link'} \subseteq Slots \cup {Nil} /\ open' \subseteq Slots
        /\ channel' \in [Slots -> Seq(Message)]
    BY <1>1 DEF BridgeTypes, MacTypeOK, macStreams, Message
  <2>3. /\ caller' \in [Commands -> CallRecord] /\ excused' \subseteq JobIds
        /\ work' \subseteq [id : JobIds, command : Commands,
                            at : {"starting", "running", "ended"}]
    BY <1>1 DEF BridgeTypes, MacTypeOK, CallRecord
  <2> QED  BY <1>2, <2>1, <2>2, <2>3 DEF MacTypeOK, CallRecord, JobRecord, Message
<1>4. CallInv'
  BY <1>1 DEF BridgeInv, CallInv
<1>5. \A i \in JobIds, c \in Commands : Says(i, c)' => Says(i, c)
  BY <1>1, <1>2 DEF Says, WorkNames, ChannelNames, CallerNames
<1>6. pid' = pid /\ counter' \in {counter, counter + 1}
  BY <1>1 DEF macStreams
<1> QED  BY <1>3, <1>4, <1>5, <1>6, QuietInv

-----------------------------------------------------------------------------
WorkThread == [id : JobIds, command : Commands, at : {"starting", "running", "ended"}]

(* The Mac's threads move, and what they report is of their own command.     *)
LEMMA WorkInv ==
  ASSUME BridgeInv, pid' = pid, UNCHANGED <<macStreams, caller>>,
         work' \subseteq WorkThread, jobs' \in [JobIds -> JobRecord],
         channel' \in [Slots -> Seq(Message)], excused' \subseteq JobIds,
         losses' = losses \/ Loss,
         \A id \in JobIds, c \in Commands : WorkNames(id, c)' => Says(id, c),
         \A id \in JobIds, c \in Commands : ChannelNames(id, c)' => Says(id, c),
         \A id \in JobIds, c \in Commands : JobNames(id, c)' => Says(id, c)
  PROVE  BridgeInv'
<1>0. BridgeTypes
  BY DEF BridgeInv
<1>1. pid' \in Pids /\ losses' \in 0..MaxLosses /\ pid' <= losses'
  BY <1>0, MacAssumption DEF BridgeTypes, MacTypeOK, Pids, Loss
<1>2. /\ counter' \in 0..MaxNext
      /\ {helper', link'} \subseteq Slots \cup {Nil} /\ open' \subseteq Slots
      /\ caller' \in [Commands -> CallRecord]
  BY <1>0 DEF BridgeTypes, MacTypeOK, macStreams, CallRecord
<1>3. MacTypeOK'
  BY <1>1, <1>2 DEF MacTypeOK, CallRecord, JobRecord, Message, WorkThread
<1>4. CallInv'
  BY DEF BridgeInv, CallInv
<1>5. \A id \in JobIds, c \in Commands : Says(id, c)' => Says(id, c)
  <2>1. \A id \in JobIds, c \in Commands : CallerNames(id, c)' => Says(id, c)
    BY DEF CallerNames, Says
  <2> QED  BY <2>1 DEF Says
<1>6. counter' \in {counter, counter + 1}
  BY DEF macStreams
<1> QED  BY <1>1, <1>3, <1>4, <1>5, <1>6, QuietInv

LEMMA SameNames ==
  /\ work' = work => \A id \in JobIds, c \in Commands : WorkNames(id, c)' => Says(id, c)
  /\ channel' = channel => \A id \in JobIds, c \in Commands : ChannelNames(id, c)' => Says(id, c)
  /\ jobs' = jobs => \A id \in JobIds, c \in Commands : JobNames(id, c)' => Says(id, c)
BY DEF WorkNames, ChannelNames, JobNames, Says

LEMMA OldTypes ==
  ASSUME BridgeInv
  PROVE  /\ work \subseteq WorkThread /\ jobs \in [JobIds -> JobRecord]
         /\ channel \in [Slots -> Seq(Message)] /\ excused \subseteq JobIds
BY DEF BridgeInv, BridgeTypes, MacTypeOK, WorkThread, JobRecord, Message

LEMMA TurnedNames ==
  ASSUME BridgeInv, NEW w \in work, NEW at \in {"starting", "running", "ended"}, Turned(w, at)
  PROVE  /\ work' \subseteq WorkThread
         /\ \A id \in JobIds, c \in Commands : WorkNames(id, c)' => Says(id, c)
<1>1. w \in WorkThread /\ work \subseteq WorkThread
  BY OldTypes
<1> DEFINE x == [w EXCEPT !.at = at]
<1>2. x \in WorkThread /\ x.id = w.id /\ x.command = w.command
  BY <1>1 DEF WorkThread
<1>3. work' = (work \ {w}) \cup {x}
  BY DEF Turned
<1> HIDE DEF x
<1> QED  BY <1>1, <1>2, <1>3 DEF WorkNames, Says

LEMMA MacStartsInv ==
  ASSUME BridgeInv, NEW w \in work, MacStarts(w) PROVE BridgeInv'
<1>1. w \in WorkThread /\ jobs \in [JobIds -> JobRecord]
  BY OldTypes
<1> DEFINE j == [jobs[w.id] EXCEPT !.acked = TRUE]
<1>2. w.id \in JobIds /\ jobs[w.id] \in JobRecord
  BY <1>1 DEF WorkThread
<1>3. j \in JobRecord /\ j.result = jobs[w.id].result
  BY <1>2 DEF JobRecord
<1>4. jobs' = jobs \/ jobs' = [jobs EXCEPT ![w.id] = j]
  BY DEF MacStarts
<1> HIDE DEF j
<1>5. /\ jobs' \in [JobIds -> JobRecord]
      /\ \A id \in JobIds : jobs'[id].result = jobs[id].result
  BY <1>1, <1>2, <1>3, <1>4
<1>6. \A id \in JobIds, c \in Commands : JobNames(id, c)' => Says(id, c)
  BY <1>5 DEF JobNames, Says
<1> QED
  BY <1>5, <1>6, TurnedNames, SameNames, OldTypes, WorkInv DEF MacStarts

LEMMA MacStartsUnheardInv ==
  ASSUME BridgeInv, NEW w \in work, MacStartsUnheard(w) PROVE BridgeInv'
BY TurnedNames, SameNames, OldTypes, WorkInv DEF MacStartsUnheard

LEMMA CommandEndsInv ==
  ASSUME BridgeInv, NEW w \in work, CommandEnds(w) PROVE BridgeInv'
BY TurnedNames, SameNames, OldTypes, WorkInv DEF CommandEnds

LEMMA ReportedNames ==
  ASSUME BridgeInv, NEW w \in work, jobs' = Reported(w)
  PROVE  /\ jobs' \in [JobIds -> JobRecord]
         /\ \A id \in JobIds, c \in Commands : JobNames(id, c)' => Says(id, c)
<1>1. w \in WorkThread /\ jobs \in [JobIds -> JobRecord]
  BY OldTypes
<1> DEFINE j == [jobs[w.id] EXCEPT !.acked = TRUE, !.result = w.command]
<1>2. w.id \in JobIds /\ w.command \in Commands /\ jobs[w.id] \in JobRecord
  BY <1>1 DEF WorkThread
<1>3. j \in JobRecord /\ j.result = w.command
  BY <1>2 DEF JobRecord
<1>4. jobs' = jobs \/ jobs' = [jobs EXCEPT ![w.id] = j]
  BY DEF Reported
<1> HIDE DEF j
<1>5. /\ jobs' \in [JobIds -> JobRecord]
      /\ \A id \in JobIds : jobs'[id] = jobs[id] \/ (id = w.id /\ jobs'[id].result = w.command)
  BY <1>1, <1>2, <1>3, <1>4
<1>6. \A id \in JobIds, c \in Commands : JobNames(id, c)' => Says(id, c)
  BY <1>5 DEF JobNames, WorkNames, Says
<1> QED  BY <1>5, <1>6

LEMMA MacReportsInv ==
  ASSUME BridgeInv, NEW w \in work, MacReports(w) PROVE BridgeInv'
<1>1. work' \subseteq work
  BY DEF MacReports
<1>2. \A id \in JobIds, c \in Commands : WorkNames(id, c)' => Says(id, c)
  BY <1>1 DEF WorkNames, Says
<1> QED
  BY <1>1, <1>2, ReportedNames, SameNames, OldTypes, WorkInv DEF MacReports

LEMMA ReplyLostInv ==
  ASSUME BridgeInv, NEW w \in work, ReplyLost(w) PROVE BridgeInv'
BY ReportedNames, SameNames, OldTypes, WorkInv DEF ReplyLost

LEMMA MacGivesUpInv ==
  ASSUME BridgeInv, NEW w \in work, MacGivesUp(w) PROVE BridgeInv'
<1>1. work' \subseteq work /\ w.id \in JobIds
  BY OldTypes DEF MacGivesUp, WorkThread
<1>2. \A id \in JobIds, c \in Commands : WorkNames(id, c)' => Says(id, c)
  BY <1>1 DEF WorkNames, Says
<1> QED  BY <1>1, <1>2, SameNames, OldTypes, WorkInv DEF MacGivesUp

(* A thread starts for a job as its message named it, or one is killed.      *)
LEMMA ReadMessageInv ==
  ASSUME BridgeInv, ReadMessage PROVE BridgeInv'
<1> DEFINE m == Head(channel[link])
<1>1. link \in Slots /\ channel \in [Slots -> Seq(Message)] /\ channel[link] # <<>>
  BY OldTypes DEF BridgeInv, BridgeTypes, MacTypeOK, ReadMessage
<1>2. channel[link] \in Seq(Message)
  BY <1>1
<1>3. /\ Len(channel[link]) \in Nat \ {0} /\ m = channel[link][1] /\ m \in Message
      /\ Tail(channel[link]) \in Seq(Message)
      /\ Len(Tail(channel[link])) = Len(channel[link]) - 1
      /\ \A k \in 1..(Len(channel[link]) - 1) : Tail(channel[link])[k] = channel[link][k + 1]
  BY <1>1, <1>2
<1>4. \A id \in JobIds, c \in Commands : m.id = id /\ m.command = c => ChannelNames(id, c)
  BY <1>1, <1>3 DEF ChannelNames
<1>5. /\ channel' = [channel EXCEPT ![link] = Tail(channel[link])]
      /\ UNCHANGED <<pid, macStreams, jobs, caller, excused, losses>>
  BY DEF ReadMessage
<1>6. /\ channel' \in [Slots -> Seq(Message)] /\ channel'[link] = Tail(channel[link])
      /\ \A g \in Slots \ {link} : channel'[g] = channel[g]
  BY <1>1, <1>3, <1>5
<1>7. \A id \in JobIds, c \in Commands : ChannelNames(id, c)' => Says(id, c)
  <2> SUFFICES ASSUME NEW id \in JobIds, NEW c \in Commands, ChannelNames(id, c)'
               PROVE  ChannelNames(id, c)
    BY DEF Says
  <2>1. PICK g \in Slots : \E k \in 1..Len(channel'[g]) :
          channel'[g][k].id = id /\ channel'[g][k].command = c
    BY DEF ChannelNames
  <2>2. CASE g = link
    <3> DEFINE n == Len(channel[link])
    <3>1. PICK k \in 1..Len(Tail(channel[link])) :
            Tail(channel[link])[k].id = id /\ Tail(channel[link])[k].command = c
      BY <1>6, <2>1, <2>2
    <3>2. n \in Nat /\ k \in 1..(n - 1)
      BY <1>3, <3>1
    <3>3. Tail(channel[link])[k] = channel[link][k + 1]
      BY <1>3, <3>2
    <3>4. k + 1 \in 1..n
      BY <3>2
    <3> QED  BY <1>1, <3>1, <3>3, <3>4 DEF ChannelNames
  <2>3. CASE g # link
    BY <1>6, <2>1, <2>3 DEF ChannelNames
  <2> QED  BY <2>2, <2>3
<1>8. CASE m.what = "job"
  <2> DEFINE w == [id |-> m.id, command |-> m.command, at |-> "starting"]
  <2>1. work' = work \cup {w}
    BY <1>8 DEF ReadMessage
  <2>2. w \in WorkThread /\ w.id = m.id /\ w.command = m.command
    BY <1>3 DEF WorkThread, Message
  <2> HIDE DEF w, m
  <2>3. work' \subseteq WorkThread
    BY <2>1, <2>2, OldTypes
  <2>4. \A id \in JobIds, c \in Commands : WorkNames(id, c)' => Says(id, c)
    BY <1>4, <2>1, <2>2 DEF WorkNames, Says
  <2> QED  BY <1>5, <1>6, <1>7, <2>3, <2>4, SameNames, OldTypes, WorkInv
<1>9. CASE m.what # "job"
  <2>1. \A x \in work' : x \in work \/ \E w \in work : x = [w EXCEPT !.at = "ended"]
    BY <1>9 DEF ReadMessage
  <2>2. \A w \in work : /\ [w EXCEPT !.at = "ended"] \in WorkThread
                        /\ [w EXCEPT !.at = "ended"].id = w.id
                        /\ [w EXCEPT !.at = "ended"].command = w.command
    BY OldTypes DEF WorkThread
  <2>3. work' \subseteq WorkThread
    BY <2>1, <2>2, OldTypes
  <2>4. \A id \in JobIds, c \in Commands : WorkNames(id, c)' => Says(id, c)
    <3>1. \A x \in work' : \E w \in work : x.id = w.id /\ x.command = w.command
      BY <2>1, <2>2
    <3> QED  BY <3>1 DEF WorkNames, Says
  <2> QED  BY <1>5, <1>6, <1>7, <2>3, <2>4, SameNames, OldTypes, WorkInv
<1> QED  BY <1>8, <1>9

(* The pid of the service that restarts is in no id drawn before.            *)
LEMMA MacRestartInv ==
  ASSUME BridgeInv, MacRestart PROVE BridgeInv'
<1> USE MacAssumption
<1>0. /\ BridgeTypes /\ CallInv /\ NamesInv /\ losses < MaxLosses /\ losses' = losses + 1
      /\ pid' = pid + 1 /\ counter' = 0 /\ helper' = Nil /\ open' = {} /\ link' = Nil
      /\ channel' = [g \in Slots |-> <<>>] /\ jobs' = [id \in JobIds |-> NoJob]
      /\ excused' = excused \cup {id \in JobIds : jobs[id].known} /\ work' = work
  BY DEF BridgeInv, MacRestart, Loss
<1>1. \A c \in Commands :
        \/ caller'[c] = caller[c] /\ caller[c].at \notin {"sending", "waiting"}
        \/ caller'[c] = [caller[c] EXCEPT !.at = "told", !.told = "gone"]
  BY DEF MacRestart, Call
<1>2. caller \in [Commands -> CallRecord]
  BY <1>0 DEF BridgeTypes, MacTypeOK, CallRecord
<1>3. \A c \in Commands :
        LET x == [caller[c] EXCEPT !.at = "told", !.told = "gone"]
        IN  x \in CallRecord /\ x.at = "told" /\ x.told = "gone" /\ x.id = caller[c].id
  <2> TAKE c \in Commands
  <2>1. caller[c] \in CallRecord
    BY <1>2
  <2> QED  BY <2>1 DEF CallRecord, Answers
<1>4. caller' \in [Commands -> CallRecord]
  <2>1. caller' = [c \in Commands |-> caller'[c]]
    BY DEF MacRestart
  <2>2. \A c \in Commands : caller'[c] \in CallRecord
    BY <1>1, <1>2, <1>3
  <2> QED  BY <2>1, <2>2
<1>5. MacTypeOK' /\ (pid <= losses)'
  <2>1. pid' \in Pids /\ pid' <= losses' /\ losses' \in 0..MaxLosses
    BY <1>0 DEF BridgeTypes, MacTypeOK, Pids
  <2>2. /\ counter' \in 0..MaxNext /\ {helper', link'} \subseteq Slots \cup {Nil}
        /\ open' \subseteq Slots /\ excused' \subseteq JobIds /\ work' \subseteq WorkThread
        /\ channel' \in [Slots -> Seq(Message)]
    BY <1>0, OldTypes
  <2>3. jobs' \in [JobIds -> JobRecord]
    BY <1>0 DEF NoJob, JobRecord
  <2> QED  BY <1>4, <2>1, <2>2, <2>3 DEF MacTypeOK, CallRecord, JobRecord, Message, WorkThread
<1>6. CallInv'
  <2>1. ASSUME NEW c \in Commands
        PROVE  /\ caller'[c].at \notin {"sending", "waiting"}
               /\ caller'[c].told = "unknown" => caller'[c].id \in JobIds
               /\ caller'[c].told \in Commands => caller'[c].told = c
    BY <1>0, <1>1, <1>3 DEF CallInv, Answers
  <2> QED  BY <2>1 DEF CallInv, JobIds, Pids, Slots
<1>7. \A id \in JobIds, c \in Commands : Says(id, c)' => Says(id, c)
  <2>1. \A id \in JobIds, c \in Commands : ~JobNames(id, c)'
    BY <1>0 DEF JobNames, NoJob
  <2>2. \A id \in JobIds, c \in Commands : ~ChannelNames(id, c)'
    <3>1. \A g \in Slots : 1..Len(channel'[g]) = {}
      BY <1>0
    <3> QED  BY <3>1 DEF ChannelNames
  <2>3. \A id \in JobIds, c \in Commands : CallerNames(id, c)' => CallerNames(id, c)
    BY <1>1, <1>3 DEF CallerNames
  <2> QED  BY <1>0, <2>1, <2>2, <2>3 DEF Says, WorkNames
<1>8. \A id \in JobIds : Drawn(id) => Drawn(id)'
  BY <1>0 DEF BridgeTypes, MacTypeOK, Drawn, JobIds, Pids, Slots
<1> QED  BY <1>0, <1>5, <1>6, <1>7, <1>8, NothingNew DEF BridgeInv, BridgeTypes

-----------------------------------------------------------------------------
LEMMA BridgeStepInv == BridgeInv /\ [MacNext]_macVars => BridgeInv'
<1> SUFFICES ASSUME BridgeInv, [MacNext]_macVars PROVE BridgeInv'
  OBVIOUS
<1>1. CASE UNCHANGED macVars
  <2>1. /\ BridgeTypes' /\ CallInv'
        /\ \A id \in JobIds, c \in Commands : Says(id, c)' => Says(id, c)
        /\ \A id \in JobIds : Drawn(id) => Drawn(id)'
    BY <1>1 DEF macVars, BridgeInv, BridgeTypes, MacTypeOK, CallInv, Says, WorkNames, ChannelNames,
                CallerNames, JobNames, Drawn
  <2> QED  BY <2>1, NothingNew DEF BridgeInv
<1>2. ASSUME NEW c \in Commands, Looks(c) PROVE BridgeInv'
  BY <1>2, SendJobInv, LookResultInv, LookWithdrawsInv, LookUnknownInv DEF Looks
<1>3. ASSUME NEW w \in work, WorkMoves(w) PROVE BridgeInv'
  BY <1>3, MacStartsInv, CommandEndsInv, MacReportsInv DEF WorkMoves
<1> QED
  BY <1>1, <1>2, <1>3, StreamsInv, RunOfflineInv, RunInv, AckPassesInv, AgentLeavesInv,
     ExpireInv, ReadMessageInv, MacStartsUnheardInv, ReplyLostInv, MacGivesUpInv,
     MacRestartInv
  DEF MacNext

(* The strengthened invariant holds for every behaviour.                     *)
THEOREM MacInductive == MacSpec => []BridgeInv
BY BridgeInitInv, BridgeStepInv, PTL DEF MacSpec

(* Jobs, calls, streams and threads keep their types.                        *)
THEOREM MacTypeCorrect == MacSpec => []MacTypeOK
BY MacInductive, PTL DEF BridgeInv, BridgeTypes

(* No agent is ever given the result of another command, whichever streams   *)
(* break, reports come late and services restart.                            *)
THEOREM ResultsAreOwn == MacSpec => []ResultIsOwn
<1>1. ASSUME BridgeInv PROVE ResultIsOwn
  <2> SUFFICES ASSUME NEW c \in Commands
               PROVE  /\ caller[c].told \in Commands => caller[c].told = c
                      /\ caller[c].told = "unknown" => Job(c).result \in {c, Nil}
    BY DEF ResultIsOwn
  <2>1. caller[c].told \in Commands => caller[c].told = c
    BY <1>1 DEF BridgeInv, CallInv
  <2>2. ASSUME caller[c].told = "unknown" PROVE Job(c).result \in {c, Nil}
    <3>1. caller[c].id \in JobIds
      BY <1>1, <2>2 DEF BridgeInv, CallInv
    <3>2. Job(c).result \in Commands \cup {Nil}
      BY <1>1, <3>1, OldTypes DEF Job, JobRecord
    <3> QED
      BY <1>1, <3>1, <3>2 DEF BridgeInv, NamesInv, Says, CallerNames, JobNames, Job
  <2> QED  BY <2>1, <2>2
<1> QED  BY <1>1, MacInductive, PTL

-----------------------------------------------------------------------------
(* Part 3: workspaces.                                                       *)

(* Every registry a power loss may leave gives no path twice and has the     *)
(* paths that sessions and transfers recorded.                               *)
DiskInv ==
  \A v \in versions :
    /\ \A i, j \in WorkspaceIds : v[i] = v[j] /\ v[i] # NoPath => i = j
    /\ \A x \in held : v[x[1]] = x[2]

(* What a command was told is registered, and the resolve at work has a path *)
(* that is nobody's, then its own.                                           *)
MemoryInv ==
  /\ \A x \in returned : registry[x[1]] = x[2]
  /\ resolving.at # "none" =>
       resolving.id \in WorkspaceIds /\ resolving.path \in FolderPaths
  /\ resolving.at = "writing" =>
       /\ registry[resolving.id] = NoPath
       /\ \A j \in WorkspaceIds : registry[j] # resolving.path
  /\ resolving.at = "syncing" => registry[resolving.id] = resolving.path

WorkspaceInv == WorkspacesTypeOK /\ DiskInv /\ MemoryInv

-----------------------------------------------------------------------------
LEMMA FolderInitInv == WorkspacesInit => WorkspaceInv
<1> USE FoldersAssumption, WorkspacesAssumption
<1> SUFFICES ASSUME WorkspacesInit PROVE WorkspaceInv
  OBVIOUS
<1>1. PICK x \in WorkspaceIds \cup {NoPath}, p \in FolderPaths :
        registry = [id \in WorkspaceIds |-> IF id = x THEN p ELSE NoPath]
  BY DEF WorkspacesInit
<1>2. WorkspacesTypeOK
  BY <1>1 DEF WorkspacesInit, WorkspacesTypeOK, NotResolving
<1>3. DiskInv
  BY <1>1 DEF WorkspacesInit, DiskInv
<1>4. MemoryInv
  BY DEF WorkspacesInit, MemoryInv, NotResolving
<1> QED  BY <1>2, <1>3, <1>4 DEF WorkspaceInv

(* Whatever path resolve chooses is below the root.                          *)
LEMMA ChosenIsFolder ==
  \A id \in WorkspaceIds, name \in Names : Chosen(id, name) \in FolderPaths
BY DEF Chosen, FolderPaths

LEMMA ResolveKnownInv ==
  ASSUME WorkspaceInv, NEW id \in WorkspaceIds, ResolveKnown(id) PROVE WorkspaceInv'
<1>1. registry[id] \in FolderPaths
  BY DEF WorkspaceInv, WorkspacesTypeOK, ResolveKnown, Registered
<1>2. WorkspacesTypeOK'
  BY <1>1 DEF WorkspaceInv, WorkspacesTypeOK, ResolveKnown
<1>3. DiskInv'
  BY DEF WorkspaceInv, DiskInv, ResolveKnown
<1>4. MemoryInv'
  BY DEF WorkspaceInv, MemoryInv, ResolveKnown
<1> QED  BY <1>2, <1>3, <1>4 DEF WorkspaceInv

LEMMA ResolveNewInv ==
  ASSUME WorkspaceInv, NEW id \in WorkspaceIds, NEW name \in Names, ResolveNew(id, name)
  PROVE  WorkspaceInv'
<1>1. WorkspacesTypeOK'
  BY ChosenIsFolder DEF WorkspaceInv, WorkspacesTypeOK, ResolveNew
<1>2. DiskInv'
  BY DEF WorkspaceInv, DiskInv, ResolveNew
<1>3. registry[id] = NoPath /\ \A j \in WorkspaceIds : registry[j] # Chosen(id, name)
  BY DEF ResolveNew, Registered, Unavailable
<1>4. MemoryInv'
  BY <1>3, ChosenIsFolder DEF WorkspaceInv, MemoryInv, ResolveNew
<1> QED  BY <1>1, <1>2, <1>4 DEF WorkspaceInv

(* The path that is renamed into place was nobody's, so the new registry     *)
(* gives no path twice, and it keeps what was registered.                    *)
LEMMA RegistrationRenamedInv ==
  ASSUME WorkspaceInv, RegistrationRenamed PROVE WorkspaceInv'
<1> USE FoldersAssumption
<1> DEFINE r == [registry EXCEPT ![resolving.id] = resolving.path]
<1>1. /\ registry' = r /\ versions' = versions \cup {r}
      /\ resolving' = [resolving EXCEPT !.at = "syncing"]
      /\ UNCHANGED <<folder, returned, held, stops>>
  BY DEF RegistrationRenamed
<1>2. /\ resolving.id \in WorkspaceIds /\ resolving.path \in FolderPaths
      /\ registry[resolving.id] = NoPath
      /\ \A j \in WorkspaceIds : registry[j] # resolving.path
  BY DEF WorkspaceInv, MemoryInv, RegistrationRenamed
<1>3. /\ registry \in [WorkspaceIds -> FolderPaths \cup {NoPath}] /\ registry \in versions
      /\ returned \cup held \subseteq WorkspaceIds \X FolderPaths
  BY DEF WorkspaceInv, WorkspacesTypeOK
<1>4. /\ r \in [WorkspaceIds -> FolderPaths \cup {NoPath}]
      /\ r[resolving.id] = resolving.path
      /\ \A j \in WorkspaceIds \ {resolving.id} : r[j] = registry[j]
  BY <1>2, <1>3
<1>5. \A x \in returned \cup held : registry[x[1]] = x[2] /\ x[1] # resolving.id
  BY <1>2, <1>3 DEF WorkspaceInv, DiskInv, MemoryInv
<1>6. \A x \in returned \cup held : r[x[1]] = x[2]
  BY <1>3, <1>4, <1>5
<1>7. \A i, j \in WorkspaceIds : r[i] = r[j] /\ r[i] # NoPath => i = j
  <2>1. \A i, j \in WorkspaceIds :
          registry[i] = registry[j] /\ registry[i] # NoPath => i = j
    BY <1>3 DEF WorkspaceInv, DiskInv
  <2> QED  BY <1>2, <1>4, <2>1
<1> HIDE DEF r
<1>8. WorkspacesTypeOK'
  BY <1>1, <1>4 DEF WorkspaceInv, WorkspacesTypeOK
<1>9. DiskInv'
  BY <1>1, <1>6, <1>7 DEF WorkspaceInv, DiskInv
<1>10. MemoryInv'
  <2>1. resolving'.id = resolving.id /\ resolving'.path = resolving.path
        /\ resolving'.at = "syncing"
    BY <1>1 DEF WorkspaceInv, WorkspacesTypeOK
  <2> QED  BY <1>1, <1>2, <1>4, <1>6, <2>1 DEF MemoryInv
<1> QED  BY <1>8, <1>9, <1>10 DEF WorkspaceInv

LEMMA RegistrationSyncedInv ==
  ASSUME WorkspaceInv, RegistrationSynced PROVE WorkspaceInv'
<1>1. /\ resolving.id \in WorkspaceIds /\ resolving.path \in FolderPaths
      /\ registry[resolving.id] = resolving.path
  BY DEF WorkspaceInv, MemoryInv, RegistrationSynced
<1>2. WorkspacesTypeOK'
  BY <1>1 DEF WorkspaceInv, WorkspacesTypeOK, RegistrationSynced, NotResolving
<1>3. DiskInv'
  BY DEF WorkspaceInv, WorkspacesTypeOK, DiskInv, RegistrationSynced
<1>4. MemoryInv'
  BY <1>1 DEF WorkspaceInv, MemoryInv, RegistrationSynced, NotResolving
<1> QED  BY <1>2, <1>3, <1>4 DEF WorkspaceInv

LEMMA ResolveFailsInv ==
  ASSUME WorkspaceInv, ResolveFails PROVE WorkspaceInv'
<1> USE WorkspacesAssumption
<1>1. WorkspacesTypeOK'
  BY DEF WorkspaceInv, WorkspacesTypeOK, ResolveFails, NotResolving
<1>2. DiskInv' /\ MemoryInv'
  BY DEF WorkspaceInv, DiskInv, MemoryInv, ResolveFails, NotResolving
<1> QED  BY <1>1, <1>2 DEF WorkspaceInv

(* What a session records was registered, and is on disk from then on.       *)
LEMMA HoldPathInv ==
  ASSUME WorkspaceInv, NEW x, HoldPath(x) PROVE WorkspaceInv'
<1>1. WorkspacesTypeOK'
  BY DEF WorkspaceInv, WorkspacesTypeOK, HoldPath
<1>2. DiskInv'
  <2>1. registry \in versions /\ registry[x[1]] = x[2]
    BY DEF WorkspaceInv, WorkspacesTypeOK, MemoryInv, HoldPath
  <2> QED  BY <2>1 DEF WorkspaceInv, DiskInv, HoldPath
<1>3. MemoryInv'
  BY DEF WorkspaceInv, MemoryInv, HoldPath
<1> QED  BY <1>1, <1>2, <1>3 DEF WorkspaceInv

LEMMA FolderInv ==
  ASSUME WorkspaceInv, folder' \in [FolderPaths -> {"absent", "directory", "link"}],
         UNCHANGED <<registry, versions, resolving, returned, held, stops>>
  PROVE  WorkspaceInv'
BY DEF WorkspaceInv, WorkspacesTypeOK, DiskInv, MemoryInv

LEMMA ServiceDiesInv ==
  ASSUME WorkspaceInv, ServiceDies PROVE WorkspaceInv'
<1> USE WorkspacesAssumption
<1>1. WorkspacesTypeOK'
  BY DEF WorkspaceInv, WorkspacesTypeOK, ServiceDies, NotResolving
<1>2. DiskInv' /\ MemoryInv'
  BY DEF WorkspaceInv, DiskInv, MemoryInv, ServiceDies, NotResolving
<1> QED  BY <1>1, <1>2 DEF WorkspaceInv

LEMMA PowerFailsInv ==
  ASSUME WorkspaceInv, PowerFails PROVE WorkspaceInv'
<1> USE WorkspacesAssumption
<1>1. WorkspacesTypeOK'
  <2>1. folder' \in [FolderPaths -> {"absent", "directory", "link"}]
    BY DEF WorkspaceInv, WorkspacesTypeOK, PowerFails
  <2> QED  BY <2>1 DEF WorkspaceInv, WorkspacesTypeOK, PowerFails, NotResolving
<1>2. DiskInv'
  BY DEF WorkspaceInv, DiskInv, PowerFails
<1>3. MemoryInv'
  BY DEF MemoryInv, PowerFails, NotResolving
<1> QED  BY <1>1, <1>2, <1>3 DEF WorkspaceInv

-----------------------------------------------------------------------------
LEMMA FolderStepInv == WorkspaceInv /\ [WorkspacesNext]_workspaceVars => WorkspaceInv'
<1> SUFFICES ASSUME WorkspaceInv, [WorkspacesNext]_workspaceVars PROVE WorkspaceInv'
  OBVIOUS
<1>1. ASSUME NEW x \in returned \cup held, EnsureDirectory(x) PROVE WorkspaceInv'
  <2>1. folder' \in [FolderPaths -> {"absent", "directory", "link"}]
    BY <1>1 DEF WorkspaceInv, WorkspacesTypeOK, EnsureDirectory
  <2> QED  BY <1>1, <2>1, FolderInv DEF EnsureDirectory
<1>2. ASSUME NEW path \in AgentPaths, AgentChanges(path) PROVE WorkspaceInv'
  <2>1. folder' \in [FolderPaths -> {"absent", "directory", "link"}]
    BY <1>2, FoldersAssumption DEF WorkspaceInv, WorkspacesTypeOK, AgentChanges
  <2> QED  BY <1>2, <2>1, FolderInv DEF AgentChanges
<1>3. CASE UNCHANGED workspaceVars
  BY <1>3 DEF workspaceVars, WorkspaceInv, WorkspacesTypeOK, DiskInv, MemoryInv
<1> QED
  BY <1>1, <1>2, <1>3, ResolveKnownInv, ResolveNewInv, RegistrationRenamedInv,
     RegistrationSyncedInv, ResolveFailsInv, HoldPathInv, ServiceDiesInv, PowerFailsInv
  DEF WorkspacesNext

(* The strengthened invariant holds for every behaviour.                     *)
THEOREM WorkspacesInductive == WorkspacesSpec => []WorkspaceInv
BY FolderInitInv, FolderStepInv, PTL DEF WorkspacesSpec

(* The registry and its files keep their types.                              *)
THEOREM WorkspacesTypeCorrect == WorkspacesSpec => []WorkspacesTypeOK
BY WorkspacesInductive, PTL DEF WorkspaceInv

(* No two workspaces ever share a folder, and none changes its own, in       *)
(* whatever a resolve returned and a session or a transfer recorded.         *)
THEOREM PathsAreHeld == WorkspacesSpec => []PathsHeld
<1>1. ASSUME WorkspaceInv PROVE PathsHeld
  <2>1. \A x \in returned \cup held :
          x[1] \in WorkspaceIds /\ x[2] \in FolderPaths /\ registry[x[1]] = x[2]
    BY <1>1 DEF WorkspaceInv, WorkspacesTypeOK, DiskInv, MemoryInv
  <2>2. \A i, j \in WorkspaceIds :
          registry[i] = registry[j] /\ registry[i] # NoPath => i = j
    BY <1>1 DEF WorkspaceInv, WorkspacesTypeOK, DiskInv
  <2> QED  BY <2>1, <2>2, FoldersAssumption DEF PathsHeld
<1> QED  BY <1>1, WorkspacesInductive, PTL
-----------------------------------------------------------------------------
(* Part 4: the four components side by side.                                 *)

ServicesInv == TransferInv /\ GuardInv /\ BridgeInv /\ WorkspaceInv

(* Whichever component a behaviour moves, the others keep their states.      *)
LEMMA ServicesInit == Init => ServicesInv
BY TransferInit, GuardInitInv, BridgeInitInv, FolderInitInv DEF Init, ServicesInv

LEMMA ServicesStep == ServicesInv /\ [Next]_services => ServicesInv'
<1> SUFFICES ASSUME ServicesInv, [Next]_services PROVE ServicesInv'
  OBVIOUS
<1>1. /\ [TeleportNext]_teleportVars /\ [StorageNext]_storageVars
      /\ [MacNext]_macVars /\ [WorkspacesNext]_workspaceVars
  BY DEF Next, services
<1> QED
  BY <1>1, TransferStep, GuardStepInv, BridgeStepInv, FolderStepInv DEF ServicesInv

(* The states of the four components have their types, for whatever the      *)
(* instance gives them to work with.                                         *)
THEOREM ServicesTypeCorrect == FairSpec => []TypeOK
<1>1. ServicesInv => TypeOK
  BY TransferTyped
  DEF ServicesInv, GuardInv, BridgeInv, BridgeTypes, WorkspaceInv, TypeOK
<1> QED  BY <1>1, ServicesInit, ServicesStep, PTL DEF FairSpec
=============================================================================
