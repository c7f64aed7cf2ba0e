----------------------------- MODULE StorageGuard ---------------------------
(* Disk protection: the measured level (workspace/storage.rs), the admission *)
(* of programs that write files, and the loop that freezes and thaws them    *)
(* and the harness of a session (session/guard.rs, runtime/linux.rs).        *)
EXTENDS Integers

CONSTANTS
  Pause, Recover, Warning,  \* pause_bytes, resume_bytes, warning_bytes
  Spaces,                   \* amounts of free space worth telling apart
  Writers, Harnesses,       \* cgroups of one program each
  StoragePlans,             \* sets of them: those one behaviour may start
  MaxMishaps,               \* measurements, freezes and records that fail
  NoProgram

ASSUME StorageAssumption ==
  /\ {Pause, Recover, Warning} \cup Spaces \subseteq Nat
  /\ 0 < Pause /\ Pause < Recover /\ Recover < Warning
  /\ StoragePlans \subseteq SUBSET (Writers \cup Harnesses)
  /\ Writers \cap Harnesses = {} /\ NoProgram \notin Writers \cup Harnesses
  /\ MaxMishaps \in Nat

VARIABLES
  space,       \* what is free
  level,       \* Guard::value's level
  fresh,       \* sampled within the last five seconds
  admitting,   \* the writer whose spawn_writer holds the list's lock
  group,       \* the workloads: process, cgroup.freeze, kernel, paused flag
  thread,      \* what the session's records and its handle say
  launching,   \* a launch that has passed its look at the disk
  guardLoop,   \* where the loop is
  wasBlocked,
  mishaps

storageVars == <<space, level, fresh, admitting, group, thread, launching, guardLoop,
                 wasBlocked, mishaps>>

Groups == Writers \cup Harnesses
NoGroup == [live |-> FALSE, used |-> FALSE, gate |-> FALSE, rest |-> FALSE, paused |-> FALSE]
Spawned(g) == [NoGroup EXCEPT !.live = TRUE, !.used = TRUE]
Ended(g)   == [NoGroup EXCEPT !.used = TRUE]

Mishap == mishaps < MaxMishaps /\ mishaps' = mishaps + 1

-----------------------------------------------------------------------------
(* Policy::level and Guard::blocks.                                          *)

Level(available, previous) ==
  CASE available < Pause \/ (previous = "blocked" /\ available <= Recover) -> "blocked"
    [] ~(available < Pause \/ (previous = "blocked" /\ available <= Recover))
       /\ available <= Warning -> "low"
    [] OTHER -> "normal"

Blocks == level = "blocked" \/ ~fresh

(* The world: space comes and goes, a sample grows old, the kernel follows   *)
(* what is written to cgroup.freeze, and a program that runs may end.        *)
SpaceMoves ==
  /\ space' \in Spaces \ {space}
  /\ UNCHANGED <<level, fresh, admitting, group, thread, launching, guardLoop,
                 wasBlocked, mishaps>>
SampleAges ==
  /\ fresh /\ fresh' = FALSE
  /\ UNCHANGED <<space, level, admitting, group, thread, launching, guardLoop,
                 wasBlocked, mishaps>>
KernelFollows(g) ==
  /\ group[g].live /\ group[g].rest # group[g].gate
  /\ group' = [group EXCEPT ![g].rest = group[g].gate]
  /\ UNCHANGED <<space, level, fresh, admitting, thread, launching, guardLoop,
                 wasBlocked, mishaps>>
GroupEnds(g) ==
  /\ group[g].live /\ ~group[g].rest
  /\ group' = [group EXCEPT ![g].live = FALSE]
  /\ thread' = IF thread.handle = g THEN [thread EXCEPT !.handle = NoProgram] ELSE thread
  /\ UNCHANGED <<space, level, fresh, admitting, launching, guardLoop, wasBlocked, mishaps>>

-----------------------------------------------------------------------------
(* spawn_writer looks at the level and starts the program under the lock of  *)
(* the list; another thread may measure in between.                          *)

AdmitWriter(w) ==
  /\ admitting = NoProgram /\ ~group[w].used /\ ~Blocks
  /\ admitting' = w
  /\ UNCHANGED <<space, level, fresh, group, thread, launching, guardLoop, wasBlocked,
                 mishaps>>
StartWriter(w) ==
  /\ admitting = w /\ admitting' = NoProgram
  /\ group' = [group EXCEPT ![w] = Spawned(w)]
  /\ UNCHANGED <<space, level, fresh, thread, launching, guardLoop, wasBlocked, mishaps>>

(* launch and relaunch look first, await a directory or an old process, and  *)
(* spawn later; the native id comes with the first handshake.                *)
LaunchLooks ==
  /\ thread.handle = NoProgram /\ ~launching /\ ~Blocks /\ launching' = TRUE
  /\ UNCHANGED <<space, level, fresh, admitting, group, thread, guardLoop, wasBlocked,
                 mishaps>>
LaunchSpawns(h) ==
  /\ launching /\ ~group[h].used
  /\ launching' = FALSE
  /\ group' = [group EXCEPT ![h] = Spawned(h)]
  /\ thread' = [thread EXCEPT !.handle = h]
  /\ UNCHANGED <<space, level, fresh, admitting, guardLoop, wasBlocked, mishaps>>
(* ... after which a session that was paused is recorded as recovered.       *)
HarnessReady ==
  /\ thread.handle # NoProgram /\ ~group[thread.handle].rest
  /\ thread' = [thread EXCEPT !.native = TRUE, !.warned = @ /\ ~thread.paused,
                              !.paused = FALSE]
  /\ thread' # thread
  /\ UNCHANGED <<space, level, fresh, admitting, group, launching, guardLoop, wasBlocked,
                 mishaps>>

-----------------------------------------------------------------------------
(* The loop: measure, warn, then freeze or thaw, one workload at a time,     *)
(* writers before the harness.                                               *)

Resting == [at |-> "asleep", seen |-> "normal", todo |-> {}, handles |-> {},
            now |-> NoProgram, ok |-> TRUE]
Handles == {thread.handle} \ {NoProgram}
LiveWriters == {w \in Writers : group[w].live}
Freezing == guardLoop.seen = "blocked"

unchangedStorage == <<space, level, fresh, admitting, launching>>

Measure ==
  /\ guardLoop.at = "asleep" /\ fresh' = TRUE
  /\ \/ level' = Level(space, level) /\ UNCHANGED mishaps
     \/ level' = "blocked" /\ Mishap
  /\ guardLoop' = [Resting EXCEPT !.at = "warning", !.seen = level']
  /\ UNCHANGED <<space, admitting, group, thread, launching, wasBlocked>>

(* A warning is recorded before it is delivered.                             *)
Warn ==
  /\ guardLoop.at = "warning"
  /\ LET due == guardLoop.seen # "normal" /\ thread.handle # NoProgram /\ thread.native
                  /\ ~thread.warned
     IN  \/ /\ thread' = IF due THEN [thread EXCEPT !.warned = TRUE] ELSE thread
            /\ UNCHANGED mishaps
         \/ due /\ Mishap /\ UNCHANGED thread
  /\ guardLoop' = [guardLoop EXCEPT !.at = "deciding"]
  /\ UNCHANGED <<unchangedStorage, group, wasBlocked>>

(* While blocked the handles are listed before the writers, else after them. *)
(* (Mutant: the list is read without its lock.)                              *)
ToWork ==
  guardLoop' = [guardLoop EXCEPT !.at = "writers", !.todo = LiveWriters,
                                 !.handles = IF Freezing THEN Handles ELSE {}]
DecideUnlocked ==
  /\ guardLoop.at = "deciding"
  /\ IF Freezing \/ wasBlocked \/ (guardLoop.seen = "normal" /\ thread.warned
                                   /\ thread.handle # NoProgram)
       THEN ToWork
       ELSE guardLoop' = Resting
  /\ UNCHANGED <<unchangedStorage, group, thread, wasBlocked, mishaps>>
Decide == admitting = NoProgram /\ DecideUnlocked

(* Workload::freeze: write, note, and wait until the kernel has followed; a  *)
(* group that was not paused is not thawed.                                  *)
Done(g, ok) == [guardLoop EXCEPT !.todo = @ \ {g}, !.now = NoProgram, !.ok = @ /\ ok]

FreezeWrites(g) ==
  /\ guardLoop.at \in {"writers", "harness"} /\ guardLoop.now = NoProgram
  /\ g \in guardLoop.todo
  /\ \/ /\ ~Freezing /\ ~group[g].paused
        /\ guardLoop' = Done(g, TRUE) /\ UNCHANGED <<group, mishaps>>
     \/ /\ Freezing \/ group[g].paused
        /\ group' = [group EXCEPT ![g].gate = Freezing, ![g].paused = TRUE]
        /\ guardLoop' = [guardLoop EXCEPT !.now = g] /\ UNCHANGED mishaps
     \/ /\ Freezing \/ group[g].paused
        /\ Mishap /\ guardLoop' = Done(g, FALSE) /\ UNCHANGED group
  /\ UNCHANGED <<unchangedStorage, thread, wasBlocked>>

Confirmed(g) == group[g].rest = Freezing \/ ~group[g].live

(* What the session records when its own harness was frozen or thawed.       *)
Recorded ==
  CASE Freezing                     -> [thread EXCEPT !.paused = TRUE]
    [] guardLoop.seen = "normal"    -> [thread EXCEPT !.paused = FALSE, !.warned = FALSE]
    [] OTHER                        -> [thread EXCEPT !.paused = FALSE]

FreezeConfirmed(g) ==
  /\ guardLoop.now = g /\ Confirmed(g)
  /\ group' = [group EXCEPT ![g].paused = Freezing]
  /\ guardLoop' = Done(g, TRUE)
  /\ \/ /\ thread' = IF g \in Harnesses THEN Recorded ELSE thread
        /\ UNCHANGED mishaps
     \/ g \in Harnesses /\ Mishap /\ UNCHANGED thread
  /\ UNCHANGED <<unchangedStorage, wasBlocked>>
FreezeTimesOut(g) ==
  /\ guardLoop.now = g /\ ~Confirmed(g) /\ Mishap
  /\ guardLoop' = Done(g, FALSE)
  /\ UNCHANGED <<unchangedStorage, group, thread, wasBlocked>>

(* A harness that was not paused has nothing to thaw, and is recorded too.   *)
(* (Mutant: a thaw that failed is not remembered.)                           *)
WritersDoneOnce ==
  /\ guardLoop.at = "writers" /\ guardLoop.todo = {}
  /\ guardLoop' = [guardLoop EXCEPT !.at = "harness",
                     !.todo = IF Freezing THEN guardLoop.handles ELSE Handles]
  /\ wasBlocked' = Freezing
  /\ UNCHANGED <<unchangedStorage, group, thread, mishaps>>
WritersDone ==
  /\ guardLoop.at = "writers" /\ guardLoop.todo = {}
  /\ guardLoop' = [guardLoop EXCEPT !.at = "harness",
                     !.todo = IF Freezing THEN guardLoop.handles ELSE Handles]
  (* was_blocked = !writers_resumed                                          *)
  /\ wasBlocked' = (Freezing \/ ~guardLoop.ok)
  /\ UNCHANGED <<unchangedStorage, group, thread, mishaps>>

(* The cache is cleaned, at most every thirty seconds, if all are paused.    *)
HarnessDone ==
  /\ guardLoop.at = "harness" /\ guardLoop.todo = {}
  /\ \/ guardLoop' = Resting
     \/ Freezing /\ guardLoop.ok /\ guardLoop' = [guardLoop EXCEPT !.at = "cleaning"]
  /\ UNCHANGED <<unchangedStorage, group, thread, wasBlocked, mishaps>>
Clean ==
  /\ guardLoop.at = "cleaning" /\ guardLoop' = Resting
  /\ UNCHANGED <<unchangedStorage, group, thread, wasBlocked, mishaps>>

-----------------------------------------------------------------------------
StorageInit ==
  /\ space \in Spaces /\ level = "blocked" /\ fresh = TRUE
  /\ admitting = NoProgram
  /\ \E plan \in StoragePlans :
       group = [g \in Groups |-> IF g \in plan THEN NoGroup ELSE Ended(g)]
  /\ thread = [handle |-> NoProgram, native |-> FALSE, warned |-> FALSE, paused |-> FALSE]
  /\ launching = FALSE /\ guardLoop = Resting /\ wasBlocked = TRUE /\ mishaps = 0

GuardRuns ==
  \/ Measure \/ Warn \/ Decide \/ WritersDone \/ HarnessDone \/ Clean
  \/ \E g \in Groups : FreezeWrites(g) \/ FreezeConfirmed(g)

StorageNext ==
  \/ SpaceMoves \/ SampleAges
  \/ \E g \in Groups : KernelFollows(g) \/ GroupEnds(g) \/ FreezeTimesOut(g)
  \/ \E w \in Writers : AdmitWriter(w) \/ StartWriter(w)
  \/ LaunchLooks \/ (\E h \in Harnesses : LaunchSpawns(h)) \/ HarnessReady
  \/ GuardRuns

(* The loop runs, the kernel follows, and an admitted program is started.    *)
Follows ==
  \/ \E g \in Groups : KernelFollows(g)
  \/ \E w \in Writers : StartWriter(w)
StorageFairness == WF_storageVars(GuardRuns) /\ WF_storageVars(Follows)

StorageSpec == StorageInit /\ [][StorageNext]_storageVars /\ StorageFairness

-----------------------------------------------------------------------------
StorageTypeOK ==
  /\ space \in Spaces /\ level \in {"normal", "low", "blocked"} /\ fresh \in BOOLEAN
  /\ admitting \in Writers \cup {NoProgram}
  /\ group \in [Groups -> [live : BOOLEAN, used : BOOLEAN, gate : BOOLEAN,
                           rest : BOOLEAN, paused : BOOLEAN]]
  /\ thread \in [handle : Harnesses \cup {NoProgram}, native : BOOLEAN, warned : BOOLEAN,
                 paused : BOOLEAN]
  /\ guardLoop \in [at : {"asleep", "warning", "deciding", "writers", "harness", "cleaning"},
                    seen : {"normal", "low", "blocked"}, todo : SUBSET Groups,
                    handles : SUBSET Harnesses, now : Groups \cup {NoProgram}, ok : BOOLEAN]
  /\ launching \in BOOLEAN /\ wasBlocked \in BOOLEAN /\ mishaps \in 0..MaxMishaps

(* While the guard cleans the cache, no program that writes files is about   *)
(* to start or runs, nor does the harness the pass had listed: a writer      *)
(* admitted on the old level is never missed by the pause (storage.rs:247).  *)
RestWhileCleaned ==
  guardLoop.at = "cleaning" =>
    /\ admitting = NoProgram
    /\ \A g \in Writers \cup guardLoop.handles : group[g].live => group[g].rest

(* Once space has come back for good, every paused writer runs again, and so *)
(* does the harness of a session that was warned, although freezes, thaws    *)
(* and records may fail on the way (guard.rs:141).                           *)
Held(g) == group[g].live /\ group[g].gate
WorkResumes ==
  <>[](space > Warning) =>
    /\ \A w \in Writers : []<>~Held(w)
    /\ []<>(thread.handle # NoProgram /\ thread.warned => ~Held(thread.handle))
=============================================================================
