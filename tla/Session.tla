------------------------------ MODULE Session ------------------------------
(***************************************************************************)
(* One conversation of a cloudroom service: what its journal records fold  *)
(* to (src/session/state.rs), the commands, background tasks and harness   *)
(* events that append them (src/session/mod.rs, sleep.rs, guard.rs), and   *)
(* the harness process behind it (src/runtime/process.rs).                 *)
(*                                                                         *)
(* Every handler runs under the service's one lock, so an action is one    *)
(* critical section.  Inside it the journal is appended record by record:  *)
(* Commit(partial, final, effect) ends in `final', unless the service dies *)
(* or the journal stops accepting writes after any shorter prefix, which   *)
(* leaves one of the states in `partial'.                                  *)
(***************************************************************************)
EXTENDS SessionRecords, FiniteSets

CONSTANTS
  MaxRequests,    \* bound: requests accepted, the start included
  MaxHarnesses,   \* bound: harness processes spawned
  MaxRestarts,    \* bound: ends of the service, planned or not
  MaxFaults,      \* bound: lost replies, failed calls, unplanned exits, full disks
  MayIdle,        \* TRUE when thirty idle minutes may pass
  MayFill,        \* TRUE when the disk may fill up
  MayStall,       \* TRUE when the guard's loop may take longer than five seconds
  MayFork         \* TRUE when background jobs are counted and may start

ASSUME SessionAssumption ==
  /\ MaxRequests \in Nat /\ MaxHarnesses \in Nat
  /\ MaxRestarts \in Nat /\ MaxFaults \in Nat
  /\ MayIdle \in BOOLEAN /\ MayFill \in BOOLEAN
  /\ MayStall \in BOOLEAN /\ MayFork \in BOOLEAN

VARIABLES
  session,    \* the persisted Session: what replaying the journal gives
  mode,       \* the service: "down", "opened" (journal replayed), "up", or
              \* "wedged" (up, but the journal refuses writes)
  handle,     \* Session.handle: the harness it names, 0 for None
  ready, releasing,            \* Session.ready, Session.releasing
  stopping, draining,          \* Manager.stopping, Local.draining
  blocked,    \* Guard::blocks(): the last sample is critically low, or too old
  guard,      \* the storage guard's loop
  tasks,      \* spawned tasks that wait for a reply, a permit or the lock
  harness,    \* the harness process spawned last
  orphan,     \* a harness nobody holds a handle to may still run
  events,     \* harness events not yet recorded, in order
  sent,       \* ghost: prompts that reached a harness, in order
  dropped,    \* ghost: prompts that left the queue without being dispatched
  arrived,    \* ghost: prompts in the order of their acceptance
  restarts, faults

serviceVars == <<mode, handle, ready, releasing, stopping, draining, guard>>
worldVars   == <<blocked, harness, orphan, events>>
ghostVars   == <<sent, dropped, arrived>>
vars == <<session, serviceVars, tasks, worldVars, ghostVars, restarts, faults>>

-----------------------------------------------------------------------------
(* Tasks, the harness process and the guard.                                *)

Task(kind, r, target, h) ==
  [kind |-> kind, request |-> r, target |-> target, harness |-> h, step |-> "waiting"]
Launch        == Task("launch", Start, None, 0)
Relaunch      == Task("relaunch", None, None, 0)
Deliver(p, h) == Task("deliver", p, None, h)
Become(t, step) == (tasks \ {t}) \cup {[t EXCEPT !.step = step]}

NoHarness == [id |-> 0, live |-> FALSE, closing |-> FALSE, frozen |-> FALSE,
              turn |-> None, compacting |-> FALSE, jobs |-> FALSE]
Running(h) == harness.id = h /\ harness.live
Reachable(t) == Running(t.harness) /\ ~harness.closing
Heard(t)     == Reachable(t) /\ ~harness.frozen
Fault        == faults < MaxFaults /\ faults' = faults + 1

(* Handle::request_shutdown, for the handle the session holds.              *)
AskExit(h) == IF h # 0 /\ harness.id = h THEN [harness EXCEPT !.closing = TRUE] ELSE harness

Event(kind, r, status) ==
  [kind |-> kind, harness |-> harness.id, request |-> r, status |-> status, cleaned |-> TRUE]

KeepService == UNCHANGED <<handle, ready, releasing, stopping, draining, guard>>
KeepWorld   == UNCHANGED <<blocked, harness, orphan, events>>

Samples == {low \in BOOLEAN : low => MayFill}   \* of check_storage
Watching(was) == [phase |-> "watching", harness |-> 0, was |-> was]

-----------------------------------------------------------------------------
(* Ends of the service, and the journal records that precede them.          *)

New(t) == {p \in Prompts : session.receipts[p] = "none" /\ t.receipts[p] # "none"}
Observe(t) ==
  /\ dropped' = dropped \cup
       {p \in Elements(session.queue) : p \notin Elements(t.queue) /\ t.current # p}
  /\ arrived' = IF New(t) = {} THEN arrived ELSE Append(arrived, CHOOSE p \in New(t) : TRUE)

ServiceGone ==
  /\ mode' = "down" /\ handle' = 0
  /\ ready' = FALSE /\ releasing' = FALSE /\ stopping' = FALSE /\ draining' = FALSE
  /\ guard' = Watching(FALSE) /\ tasks' = {}
  /\ harness' = [NoHarness EXCEPT !.id = harness.id] /\ events' = <<>>
  /\ restarts' = restarts + 1 /\ restarts < MaxRestarts
  /\ UNCHANGED <<blocked, sent, faults>>

(* The handler stops between two appends: the process dies, or the write    *)
(* fails and every later one is refused.  The record being written may or   *)
(* may not be found on the next boot.                                       *)
Torn(possible, orphaned) ==
  \E t \in possible :
    /\ session' = t /\ Observe(t)
    /\ \/ /\ ServiceGone /\ orphan' = (orphan \/ harness.live \/ orphaned)
       \/ /\ faults < MaxFaults /\ faults' = faults + 1
          /\ mode = "up" /\ mode' = "wedged"
          /\ ~orphaned
          /\ UNCHANGED <<handle, ready, releasing, stopping, draining, guard, tasks,
                         worldVars, sent, restarts>>

Commit(partial, final, effect) ==
  \/ /\ session' = final /\ Observe(final) /\ effect
     /\ UNCHANGED <<mode, sent, restarts>>
  \/ Torn(partial \cup {final}, FALSE)

(* The process dies, or a planned stop ends, between two handlers.          *)
Crash ==
  /\ mode # "down"
  /\ session' = session /\ Observe(session)
  /\ ServiceGone /\ orphan' = (orphan \/ harness.live)
Stopped == stopping /\ Crash

(* A handler's first write fails: nothing is recorded, and nothing will be. *)
Wedge ==
  /\ mode = "up" /\ mode' = "wedged"
  /\ faults < MaxFaults /\ faults' = faults + 1
  /\ UNCHANGED <<session, handle, ready, releasing, stopping, draining, guard, tasks,
                 worldVars, ghostVars, restarts>>

-----------------------------------------------------------------------------
(* advance: dispatch the next prompt, wait out an interrupt, or go idle.    *)
(* It appends one record at most and spawns one task at most.               *)

Wakes(s, h) == s.state = "sleeping" /\ h = 0 /\ HasWork(s) /\ CanResume(s)
Held(s)     == blocked \/ s.storage \/ s.paused \/ s.compact
(* Mutant: the queue only moves when a turn ends.                           *)
AdvancesOnEnd(s, rdy, ended) ==
  s.state # "sleeping" /\ ~s.closing /\ rdy /\ ~stopping /\ ended
Advances(s, rdy, ended) ==
  s.state # "sleeping" /\ ~s.closing /\ rdy /\ ~stopping /\ (ended \/ s.current = None)
Dispatches(s, rdy, ended) ==
  Advances(s, rdy, ended) /\ ~InterruptPending(s) /\ ~Held(s) /\ s.queue # <<>>

(* The front of the queue.  (Mutant: the back.)                             *)
LastPrompt(s) == s.queue[Len(s.queue)]
NextPrompt(s) == Head(s.queue)

Rests(s) == IF InterruptPending(s) THEN "interrupting"
            ELSE IF s.compact THEN "running" ELSE "idle"
Advanced(s, h, rdy, ended) ==
  IF Wakes(s, h) THEN State(s, "resuming", None)
  ELSE IF Dispatches(s, rdy, ended) THEN State(s, "starting_turn", NextPrompt(s))
  ELSE IF Advances(s, rdy, ended) THEN State(s, Rests(s), None)
  ELSE s

AdvanceTasks(s, h, rdy, ended) ==
  CASE Wakes(s, h)                 -> {Relaunch}
    [] Dispatches(s, rdy, ended)   -> {Deliver(NextPrompt(s), h)}
    [] OTHER                       -> {}

-----------------------------------------------------------------------------
(* Manager::open replays the journal, settles what a previous service left  *)
(* unfinished, and reads back native history that was not recorded.  (The   *)
(* receipts are appended one by one; a crash between two of them is settled *)
(* the same way on the next boot.)                                          *)

(* Mutants: of Eligible, without a look at what can resume; of Unsettled,   *)
(* for prompts alone.                                                       *)
EligibleAlways(s) == s.state # "closed"
UnsettledPrompt(s, r) ==
  r \in Prompts /\ s.receipts[r] \notin Terminal \cup {"none", "unknown"}

Eligible(s) ==
  \/ CanResume(s) \/ s.startup = "startup_timeout"
  \/ s.state = "resuming" /\ ~s.dispatched /\ s.native

Unsettled(s, r) == s.receipts[r] \notin Terminal \cup {"none", "unknown"}

Settled(s) ==
  LET open(r)   == Unsettled(s, r)
      queued(r) == r \in Elements(s.queue)
  IN  [s EXCEPT
        !.receipts = [r \in Requests |->
           IF ~open(r) \/ (queued(r) /\ Eligible(s)) THEN @[r]
           ELSE IF queued(r) THEN "failed" ELSE "unknown_after_restart"],
        !.queue   = IF Eligible(s) THEN @ ELSE <<>>,
        !.compact = FALSE]

Reopened(s) ==
  IF s.state \in {"closed", "process_lost", "failed", "sleeping"} THEN Settled(s)
  ELSE State(Settled(s), IF Eligible(s) THEN "suspended" ELSE "process_lost", None)

Open ==
  /\ mode = "down" /\ mode' = "opened"
  /\ session' = IF session.state = "absent" \/ WaitingStart(session)
                  THEN session ELSE Reopened(session)
  /\ Observe(session')
  /\ KeepService /\ KeepWorld /\ UNCHANGED <<tasks, sent, restarts, faults>>

(* ... the native history is missing or changed: what could be resumed is   *)
(* lost, with its queue.                                                    *)
OpenUnreadable ==
  /\ mode = "opened" /\ session.native /\ CanResume(session)
  /\ faults < MaxFaults /\ faults' = faults + 1
  /\ session' = FailPending(State(session, "process_lost", None))
  /\ Observe(session')
  /\ KeepService /\ KeepWorld /\ UNCHANGED <<mode, tasks, sent, restarts>>

(* restore_all: clear the workloads of the previous service, then relaunch  *)
(* what has work or was active, and let the rest sleep.                     *)
Restore ==
  /\ mode = "opened" /\ mode' = "up"
  /\ orphan' = FALSE
  /\ \E awake \in BOOLEAN :
       /\ HasWork(session) => awake
       /\ ~HasWork(session) /\ session.state = "sleeping" => ~awake
       /\ ~HasWork(session) /\ session.state # "sleeping" => awake \/ MayIdle
       /\ session' = IF CanResume(session)
                       THEN State(session, IF awake THEN "resuming" ELSE "sleeping", None)
                       ELSE session
       /\ tasks' = CASE WaitingStart(session)        -> {Launch}
                     [] awake /\ CanResume(session) -> {Relaunch}
                     [] OTHER                       -> {}
  /\ \E low \in Samples : blocked' = low /\ guard' = Watching(low)
  /\ UNCHANGED <<handle, ready, releasing, stopping, draining, harness, events,
                 ghostVars, restarts, faults>>

-----------------------------------------------------------------------------
(* Commands.  A request id that is already known answers with its receipt   *)
(* and changes nothing.                                                     *)

Quiet == KeepService /\ KeepWorld /\ UNCHANGED faults

StartSession ==
  /\ mode = "up" /\ session.state = "absent"
  /\ ~stopping /\ ~draining /\ ~blocked
  /\ Commit({session}, Accept(session, Start),
            /\ tasks' = tasks \cup {Launch}
            /\ Quiet)

Issued == {r \in Requests : session.receipts[r] # "none"}
Reaches(r) ==
  /\ mode = "up" /\ ~stopping /\ session.state # "absent" /\ session.receipts[r] = "none"
  /\ Cardinality(Issued) < MaxRequests
Undisturbed == ~session.closing /\ ~InterruptPending(session)

(* The turn starts at once only when the harness is idle and nothing waits. *)
DeliverNow ==
  /\ ready /\ session.state = "idle" /\ ~session.paused /\ ~session.compact
  /\ session.queue = <<>>

Prompt(p) ==
  /\ Reaches(p) /\ ~draining /\ Undisturbed /\ ~Unavailable(session) /\ ~blocked
  /\ LET s1    == Accept(session, p)
         final == CASE DeliverNow        -> State(s1, "starting_turn", p)
                    [] Wakes(s1, handle) -> State(s1, "resuming", None)
                    [] OTHER             -> s1
     IN  Commit({session, s1}, final,
           /\ tasks' = tasks \cup (CASE DeliverNow        -> {Deliver(p, handle)}
                                     [] Wakes(s1, handle) -> {Relaunch}
                                     [] OTHER             -> {})
           /\ Quiet)

InterruptTask(r) == Task("interrupt", r, session.current, handle)

InterruptTurn(r) ==
  /\ Reaches(r) /\ Undisturbed /\ ~Unavailable(session) /\ ~session.storage
  /\ ready /\ handle # 0 /\ session.current # None
  /\ Commit({session}, Accept(session, r),
            tasks' = tasks \cup {InterruptTask(r)} /\ Quiet)

(* Pause the queue, and interrupt the turn there is.                        *)
StopTurn(r) ==
  /\ Reaches(r) /\ Undisturbed /\ ~Unavailable(session)
  /\ LET s1 == Accept(session, r)
     IN  IF session.current = None \/ handle = 0
           THEN Commit({session, s1}, Finish(s1, r, "completed"),
                       UNCHANGED tasks /\ Quiet)
           ELSE Commit({session}, s1, tasks' = tasks \cup {InterruptTask(r)} /\ Quiet)

(* Unpause the queue, or retry a startup that failed.                       *)
(* (Mutant of RetryStartup: the old process is not asked about.)            *)
RetryStartupBlind ==
  /\ session.state = "process_lost" /\ session.startup # "none"
  /\ session.current = None /\ handle = 0
RetryStartup ==
  /\ session.state = "process_lost" /\ session.startup # "none"
  /\ session.current = None /\ handle = 0 /\ ~session.pid

ResumeQueue(r) ==
  /\ Reaches(r) /\ ~draining /\ Undisturbed
  /\ LET s1 == Accept(session, r)
     IN  IF RetryStartup
           THEN /\ session.native
                /\ Commit({session, s1}, State(s1, "resuming", None),
                          tasks' = tasks \cup {Relaunch} /\ Quiet)
           ELSE /\ ~Unavailable(session)
                /\ Commit({session, s1}, Finish(s1, r, "completed"),
                          tasks' = tasks \cup {Task("advance", None, None, 0)} /\ Quiet)

Cancel(r, p) ==
  /\ Reaches(r) /\ Undisturbed /\ ~Unavailable(session)
  /\ \/ p \in session.cancelled
     \/ p \in Elements(session.queue) /\ session.current # p
  /\ LET s1 == AcceptCancel(session, r, p)
     IN  Commit({session, s1}, Finish(s1, r, "completed"), UNCHANGED tasks /\ Quiet)

(* A compaction of a sleeping session wakes it and is refused.              *)
CompactWakes ==
  /\ \E r \in Compacts : Reaches(r)
  /\ ~draining /\ session.state = "sleeping"
  /\ Commit({session}, State(session, "resuming", None),
            tasks' = tasks \cup {Relaunch} /\ Quiet)

Compact(r) ==
  /\ Reaches(r) /\ ~draining /\ Undisturbed
  /\ session.state = "idle" /\ session.current = None /\ ~session.compact
  /\ ready /\ handle # 0
  /\ LET s1 == Accept(session, r)
     IN  Commit({session, s1}, State(s1, "running", None),
                tasks' = tasks \cup {Task("compact", r, None, handle)} /\ Quiet)

Close(r) ==
  /\ Reaches(r) /\ ~session.closing /\ session.state # "starting"
  /\ ~Unavailable(session)
  /\ LET s1 == Accept(session, r)
         s2 == State(s1, "closing", session.current)
         s3 == FailPending(s2)
         s4 == State(s3, "closed", None)
     IN  Commit({session, s1} \cup PartlyFailed(s2) \cup {s4},
                IF handle = 0 THEN Finish(s4, r, "completed") ELSE s3,
                /\ harness' = AskExit(handle)
                /\ KeepService
                /\ UNCHANGED <<tasks, blocked, orphan, events, faults>>)

-----------------------------------------------------------------------------
(* Sleep and drain.                                                         *)

(* New background jobs keep the harness awake.                              *)
CanSleep(s) ==
  /\ handle # 0 /\ ready /\ ~releasing
  /\ s.state = "idle" /\ ~Busy(s) /\ ~s.compact /\ ~s.closing
  /\ ~InterruptPending(s) /\ ~s.storage /\ ~harness.jobs

(* release: the idle harness is asked to exit; no turn starts meanwhile.    *)
Release ==
  /\ ready' = FALSE /\ releasing' = TRUE
  /\ harness' = AskExit(handle)
  /\ UNCHANGED <<handle, stopping, draining, guard, blocked, orphan, events, faults>>

Sleep(r) ==
  /\ Reaches(r)
  /\ LET s1    == Accept(session, r)
         s2    == IF CanResume(s1) /\ s1.state # "sleeping"
                    THEN State(s1, "sleeping", None) ELSE s1
         rests == handle = 0 /\ ~Busy(s1)
     IN  Commit({session, s1, IF rests THEN s2 ELSE s1},
                IF rests THEN Finish(s2, r, "completed") ELSE s1,
                /\ UNCHANGED tasks
                /\ IF CanSleep(s1) THEN Release ELSE Quiet)

SleepPending == \E r \in Sleeps : session.receipts[r] = "accepted"
SleepDue ==
  /\ mode = "up" /\ ~stopping /\ CanSleep(session)
  /\ MayIdle \/ SleepPending
  /\ Release
  /\ UNCHANGED <<session, mode, tasks, ghostVars, restarts>>

Drain ==
  /\ mode = "up" /\ ~draining /\ draining' = TRUE
  /\ \/ session.state \in {"absent", "closed"}
     \/ /\ ~Busy(session) /\ ~session.compact /\ ~session.closing
        /\ ~InterruptPending(session)
  /\ KeepWorld
  /\ UNCHANGED <<session, mode, handle, ready, releasing, stopping, guard, tasks,
                 ghostVars, restarts, faults>>

Undrain ==
  /\ mode = "up" /\ draining /\ draining' = FALSE
  /\ KeepWorld
  /\ UNCHANGED <<session, mode, handle, ready, releasing, stopping, guard, tasks,
                 ghostVars, restarts, faults>>

(* shutdown: a planned stop; the process ends (Crash) once the harness has  *)
(* exited, or when the grace period is over.                                *)
Shutdown ==
  /\ mode = "up" /\ ~stopping /\ restarts < MaxRestarts
  /\ LET waiting == session.state = "resuming" /\ handle = 0
     IN  Commit({session},
                IF waiting THEN State(session, "suspended", None) ELSE session,
                /\ stopping' = TRUE
                /\ harness' = AskExit(handle)
                /\ UNCHANGED <<handle, ready, releasing, draining, guard, tasks,
                               blocked, orphan, events, faults>>)

-----------------------------------------------------------------------------
(* launch and relaunch: wait for room on the disk, spawn a harness under    *)
(* the lock, shake hands with it without the lock, then let the session     *)
(* run.  An error of any step ends in one handler.                          *)

Starts(t, steps) == t \in tasks /\ t.kind \in {"launch", "relaunch"} /\ t.step \in steps
Retire(t) == tasks' = tasks \ {t}
Same      == UNCHANGED <<session, mode, ghostVars, restarts>>
Gone      == session.closing \/ stopping

Admit(t) ==
  /\ mode = "up" /\ Starts(t, {"waiting"})
  /\ \/ /\ Gone
        /\ Commit({session},
                  IF t.kind = "relaunch" /\ ~session.closing
                    THEN State(session, "suspended", None) ELSE session,
                  Retire(t) /\ Quiet)
     \/ ~Gone /\ ~blocked /\ tasks' = Become(t, "admitted") /\ Quiet /\ Same

(* The lock is taken again: the service may be stopping, or the session     *)
(* closing, by now.                                                         *)
SpawnDropped(t) ==
  /\ mode = "up" /\ Starts(t, {"admitted"})
  /\ Gone /\ (t.kind = "launch" => ~stopping)
  /\ Retire(t) /\ Quiet /\ Same

(* The service stops, the folder cannot be opened, the native history       *)
(* cannot be read, or the process cannot be spawned.                        *)
SpawnFails(t) ==
  /\ mode = "up" /\ Starts(t, {"admitted"})
  /\ \/ t.kind = "launch" /\ stopping /\ UNCHANGED <<session, faults>>
     \/ t.kind = "launch" /\ Fault /\ UNCHANGED session
     \/ t.kind = "launch" /\ ~Gone /\ Fault /\ session' = State(session, "starting", None)
     \/ t.kind = "relaunch" /\ ~Gone /\ Fault /\ UNCHANGED session
  /\ tasks' = Become(t, "error")
  /\ KeepService /\ KeepWorld /\ UNCHANGED <<mode, ghostVars, restarts>>

(* relaunch never asks whether the session has a harness already.  Events   *)
(* of one that is replaced would be dropped by record_native.               *)
Spawn(t) ==
  /\ mode = "up" /\ Starts(t, {"admitted"}) /\ ~Gone
  /\ harness.id < MaxHarnesses
  /\ LET claimed == IF t.kind = "launch" THEN State(session, "starting", None) ELSE session
         id      == harness.id + 1
     IN  \/ Commit({session, claimed}, Pid(claimed, TRUE),
               /\ harness' = [NoHarness EXCEPT !.id = id, !.live = TRUE]
               /\ orphan' = (orphan \/ harness.live)
               /\ handle' = id /\ events' = <<>>
               /\ tasks' = (tasks \ {t}) \cup {[t EXCEPT !.step = "starting", !.harness = id]}
               /\ UNCHANGED <<ready, releasing, stopping, draining, guard, blocked,
                              faults>>)
         \/ Torn({claimed}, TRUE)

(* start_session: the handshake.                                            *)
Handshake(t) ==
  /\ mode # "down" /\ Starts(t, {"starting"})
  /\ \/ Heard(t) /\ tasks' = Become(t, "ready") /\ UNCHANGED faults
     \/ ~Reachable(t) /\ tasks' = Become(t, "error") /\ UNCHANGED faults
     \/ Fault /\ \E step \in {"error", "timeout"} : tasks' = Become(t, step)
  /\ KeepService /\ KeepWorld /\ Same

(* Mutant: looks for the wrong receipt state.                               *)
AcceptedNone(commands) == {r \in commands : session.receipts[r] = "delivered"}
Accepted(commands) == {r \in commands : session.receipts[r] = "accepted"}

(* The session, recorded as `now', goes on with its queue.                  *)
Runs(t, partial, now) ==
  Commit(partial \cup {now}, Advanced(now, handle, TRUE, TRUE),
    /\ ready' = TRUE
    /\ tasks' = (tasks \ {t}) \cup AdvanceTasks(now, handle, TRUE, TRUE)
    /\ KeepWorld
    /\ UNCHANGED <<handle, releasing, stopping, draining, guard, faults>>)

(* An error handler also asks the harness, if there is one, to exit.        *)
GiveUp(t) ==
  /\ Retire(t) /\ harness' = AskExit(handle)
  /\ KeepService /\ UNCHANGED <<blocked, orphan, events, faults>>

LaunchReady(t) ==
  /\ mode = "up" /\ t.kind = "launch" /\ Starts(t, {"ready"})
  /\ LET s1 == Native(session)
         s2 == State(s1, "idle", None)
         s3 == Finish(s2, Start, "completed")
         s4 == FinishAll(s3, Accepted(Stops), "completed")
     IN  IF handle = 0
           THEN Commit({session}, s1, tasks' = Become(t, "error") /\ Quiet)
           ELSE Runs(t, {session, s1, s2, s3}, s4)

LaunchError(t) ==
  /\ mode = "up" /\ t.kind = "launch" /\ Starts(t, {"error", "timeout"})
  /\ LET s1 == Finish(session, Start, "failed")
         s2 == State(s1, "failed", None)
     IN  Commit({session, s1} \cup PartlyFailed(s2), FailPending(s2), GiveUp(t))

RelaunchDropped(t) ==
  /\ mode = "up" /\ t.kind = "relaunch"
  /\ \/ Starts(t, {"ready"}) /\ Gone
     \/ Starts(t, {"error", "timeout"}) /\ stopping
  /\ Retire(t) /\ Quiet /\ Same

RelaunchReady(t) ==
  /\ mode = "up" /\ t.kind = "relaunch" /\ Starts(t, {"ready"}) /\ ~Gone
  /\ LET s1 == State(session, "idle", None)
         s2 == FinishAll(s1, Accepted(Resumes), "completed")
     IN  IF handle = 0
           THEN tasks' = Become(t, "error") /\ Quiet /\ Same
           ELSE Runs(t, {session, s1, s2}, StoragePaused(s2, FALSE))

(* A timeout keeps the queue for an explicit retry; other errors fail it.   *)
RelaunchError(t) ==
  /\ mode = "up" /\ t.kind = "relaunch" /\ Starts(t, {"error", "timeout"}) /\ ~stopping
  /\ LET timeout == t.step = "timeout"
         s1 == Lost(session, IF timeout THEN "startup_timeout" ELSE "resume_failed")
         s2 == IF timeout THEN s1 ELSE FailPending(s1)
         s3 == FinishAll(s2, Accepted(Resumes), "failed")
     IN  IF session.closing
           THEN Commit({}, session, GiveUp(t))
           ELSE Commit({session, s2} \cup (IF timeout THEN {} ELSE PartlyFailed(s1)),
                       s3, GiveUp(t))

-----------------------------------------------------------------------------
(* deliver, interrupt, compact: call the harness without the lock, then     *)
(* record the outcome under it.                                             *)

Calls(t, kind) == mode # "down" /\ t \in tasks /\ t.kind = kind /\ t.step = "waiting"
NoEffect == UNCHANGED <<harness, events, sent>>
KeepRest == KeepService /\ UNCHANGED <<session, mode, blocked, orphan, dropped,
                                          arrived, restarts>>

(* The harness is gone or closing, or the call never reaches it.            *)
Unanswered(t) ==
  /\ \/ ~Reachable(t) /\ UNCHANGED faults
     \/ Heard(t) /\ Fault
  /\ tasks' = Become(t, "unknown") /\ NoEffect

(* It refuses: a turn is active, the target is not, or it rejects the call. *)
Refused(t, refuses) ==
  /\ Heard(t)
  /\ \/ refuses /\ UNCHANGED faults
     \/ Fault
  /\ tasks' = Become(t, "failed") /\ NoEffect

(* It takes the call; the reply may be lost.                                *)
Taken(t, step) ==
  /\ Heard(t)
  /\ \/ tasks' = Become(t, step) /\ UNCHANGED faults
     \/ tasks' = Become(t, "unknown") /\ Fault

SendPrompt(t) ==
  /\ Calls(t, "deliver") /\ KeepRest
  /\ \/ Unanswered(t)
     \/ Refused(t, harness.turn # None)
     \/ /\ harness.turn = None /\ Taken(t, "delivered")
        /\ harness' = [harness EXCEPT !.turn = t.request]
        /\ events' = Append(events, Event("started", t.request, ""))
        /\ sent' = Append(sent, t.request)

SendInterrupt(t) ==
  /\ Calls(t, "interrupt") /\ KeepRest
  /\ \/ Unanswered(t)
     \/ Refused(t, harness.turn # t.target)
     \/ harness.turn = t.target /\ Taken(t, "completed") /\ NoEffect

SendCompact(t) ==
  /\ Calls(t, "compact") /\ KeepRest
  /\ \/ Unanswered(t)
     \/ Refused(t, FALSE)
     \/ /\ Taken(t, "delivered")
        /\ harness' = [harness EXCEPT !.compacting = TRUE] /\ UNCHANGED <<events, sent>>

(* Mutant: a lost reply to a prompt counts as a refusal.                    *)
MovesOnUnknown(t, s) ==
  \/ /\ t.kind = "deliver" /\ t.step \in {"failed", "unknown"}
     /\ s.current = t.request /\ ~s.closing
  \/ t.kind = "interrupt" /\ t.step \in {"completed", "failed"}
  \/ t.kind = "compact" /\ t.step = "failed"

(* Only a definite refusal of a turn, or a settled interrupt, lets the      *)
(* queue move; an answer of a harness that is not the session's any more    *)
(* is dropped.                                                              *)
Moves(t, s) ==
  \/ t.kind = "deliver" /\ t.step = "failed" /\ s.current = t.request /\ ~s.closing
  \/ t.kind = "interrupt" /\ t.step \in {"completed", "failed"}
  \/ t.kind = "compact" /\ t.step = "failed"

RecordReply(t) ==
  /\ mode = "up" /\ t \in tasks /\ t.kind \in {"deliver", "interrupt", "compact"}
  /\ t.step # "waiting"
  /\ LET s1 == Finish(session, t.request, t.step)
         ended == t.kind = "deliver"
     IN  IF handle # t.harness THEN Retire(t) /\ Quiet /\ Same
         ELSE IF ~Moves(t, s1) THEN Commit({session}, s1, Retire(t) /\ Quiet)
         ELSE Commit({session, s1}, Advanced(s1, handle, ready, ended),
                /\ tasks' = (tasks \ {t}) \cup AdvanceTasks(s1, handle, ready, ended)
                /\ Quiet)

(* The second critical section of a resume command.                         *)
AdvanceLater(t) ==
  /\ mode = "up" /\ t \in tasks /\ t.kind = "advance"
  /\ Commit({session}, Advanced(session, handle, ready, FALSE),
            /\ tasks' = (tasks \ {t}) \cup AdvanceTasks(session, handle, ready, FALSE)
            /\ Quiet)

-----------------------------------------------------------------------------
(* The harness process.  A turn ends by itself or because it was            *)
(* interrupted; a frozen process does nothing, but can be killed.           *)

Emit(e) == events' = Append(events, e)
Acts == harness.live /\ ~harness.frozen
KeepAll == KeepService /\ Same /\ UNCHANGED <<tasks, blocked>>

HarnessFinishes ==
  /\ Acts /\ harness.turn # None
  /\ \E status \in {"completed", "interrupted", "failed"} :
       Emit(Event("finished", harness.turn, status))
  /\ harness' = [harness EXCEPT !.turn = None]
  /\ KeepAll /\ UNCHANGED <<orphan, faults>>

HarnessCompacts ==
  /\ Acts /\ harness.compacting
  /\ \E status \in {"completed", "failed"} : Emit(Event("compacted", None, status))
  /\ harness' = [harness EXCEPT !.compacting = FALSE]
  /\ KeepAll /\ UNCHANGED <<orphan, faults>>

(* Background jobs begin and end in the workload.  What counts is whether   *)
(* it has more processes than awaken saw as the session became ready; a     *)
(* count that cannot be read shows no more.                                 *)
HarnessForks ==
  /\ MayFork /\ ready /\ Running(handle)
  /\ harness' = [harness EXCEPT !.jobs = ~@]
  /\ KeepAll /\ UNCHANGED <<orphan, events, faults>>

Exit(expected, cleaned) ==
  /\ harness.live
  /\ Emit([Event("exited", None, IF expected THEN "expected" ELSE "unexpected")
            EXCEPT !.cleaned = cleaned])
  /\ harness' = [NoHarness EXCEPT !.id = harness.id]
  /\ orphan' = (orphan \/ ~cleaned)
  /\ KeepAll

(* A graceful exit after a request to shut down; a frozen process is killed *)
(* instead (request_shutdown, or the grace period).                         *)
HarnessExits   == harness.closing /\ Exit(~harness.frozen, TRUE) /\ UNCHANGED faults
HarnessCrashes == Fault /\ \E cleaned \in BOOLEAN : Exit(FALSE, cleaned)

-----------------------------------------------------------------------------
(* record_native: the session records the events of its own harness, in     *)
(* the order the harness produced them.  (Those of any other are dropped;   *)
(* ReadyHasHandle says that there are none.)                                *)

Front   == Head(events)
Records(kind) == mode = "up" /\ events # <<>> /\ Front.kind = kind
Heed    == events' = Tail(events) /\ UNCHANGED <<blocked, harness, orphan, faults>>
Ours    == handle = Front.harness

RecordStarted ==
  /\ Records("started") /\ Ours
  /\ Commit({session},
            IF ready /\ session.current = Front.request
              THEN State(session, IF session.closing THEN "closing" ELSE "running",
                         Front.request)
              ELSE session,
            UNCHANGED tasks /\ KeepService /\ Heed)

RecordFinished ==
  /\ Records("finished") /\ Ours
  /\ LET s1 == Finish(session, Front.request, Front.status)
     IN  IF session.current = Front.request
           THEN Commit({session, s1}, Advanced(s1, handle, ready, TRUE),
                  /\ tasks' = tasks \cup AdvanceTasks(s1, handle, ready, TRUE)
                  /\ KeepService /\ Heed)
           ELSE KeepService /\ Heed /\ Same /\ UNCHANGED tasks

Compacting(s) == CHOOSE r \in Compacts : s.receipts[r] \in {"accepted", "delivered"}

RecordCompacted ==
  /\ Records("compacted") /\ Ours
  /\ LET s1 == Finish(session, Compacting(session), Front.status)
     IN  IF session.compact
           THEN Commit({session, s1}, Advanced(s1, handle, ready, FALSE),
                  /\ tasks' = tasks \cup AdvanceTasks(s1, handle, ready, FALSE)
                  /\ KeepService /\ Heed)
           ELSE KeepService /\ Heed /\ Same /\ UNCHANGED tasks

(* Mutant: the session stays ready.                                         *)
LetGoReady ==
  /\ handle' = 0 /\ releasing' = FALSE
  /\ UNCHANGED <<ready, stopping, draining, guard>> /\ Heed

LetGo ==
  /\ handle' = 0 /\ ready' = FALSE /\ releasing' = FALSE
  /\ UNCHANGED <<stopping, draining, guard>> /\ Heed

(* slept: the harness exited because the idle session released it.          *)
Slept == releasing /\ Front.cleaned /\ ~session.closing

RecordSlept ==
  /\ Records("exited") /\ Ours /\ Slept
  /\ LET s1 == Pid(session, FALSE)
         s2 == State(s1, "sleeping", None)
         s3 == FinishAll(s2, Accepted(Sleeps), "completed")
     IN  Commit({session, s1, s2, s3},
                IF Wakes(s3, 0) THEN State(s3, "resuming", None) ELSE s3,
                /\ tasks' = tasks \cup (IF Wakes(s3, 0) THEN {Relaunch} ELSE {})
                /\ LetGo)

(* Any other exit: what was running is unknown, what can be resumed is, and *)
(* what cannot be fails with its queue.                                     *)
RecordExited ==
  /\ Records("exited") /\ Ours /\ ~Slept
  /\ LET expected  == Front.status = "expected"
         restoring == session.state = "resuming" /\ session.native
         resumable == /\ Front.cleaned
                      /\ \/ ready /\ CanResume(session)
                         \/ stopping /\ restoring
         recover   == resumable /\ ~stopping /\ ~session.recovery
         asked     == {r \in Interrupts \cup Stops :
                         session.receipts[r] \in {"accepted", "delivered", "unknown"}}
         state == IF expected /\ session.closing THEN "closed"
                  ELSE IF resumable /\ (stopping \/ recover) THEN "suspended"
                  ELSE "process_lost"
         s1 == IF session.current = None THEN session
               ELSE Finish(session, session.current,
                           IF Gone THEN "unknown" ELSE "unknown_after_restart")
         s2 == FinishAll(s1, asked, "unknown_after_restart")
         s3 == IF Front.cleaned THEN Pid(s2, FALSE) ELSE s2
         s4 == State(s3, state, None)
         s5 == IF session.closing
                 THEN Finish(s4, CloseRequest(s4), IF expected THEN "completed" ELSE "unknown")
                 ELSE s4
         fails == state # "suspended" /\ session.startup # "startup_timeout"
         s6 == IF fails THEN FailPending(s5) ELSE s5
     IN  Commit({session, s1, s2, s3, s4, s6} \cup (IF fails THEN PartlyFailed(s5) ELSE {}),
                IF recover THEN State(s6, "resuming", None) ELSE s6,
                /\ tasks' = tasks \cup (IF recover THEN {Relaunch} ELSE {})
                /\ LetGo)

-----------------------------------------------------------------------------
(* start_storage_guard: sample the disk, freeze the harness while space is  *)
(* critically low, thaw it when there is room again.  The harness is looked *)
(* up under the lock, frozen or thawed without it, and the session records  *)
(* that under the lock again.                                               *)

(* blocks() does not trust a sample older than five seconds.                *)
SampleExpires ==
  /\ MayStall /\ mode = "up" /\ ~blocked /\ blocked' = TRUE
  /\ KeepService /\ Same /\ UNCHANGED <<tasks, harness, orphan, events, faults>>

GuardLooks ==
  /\ mode = "up" /\ ~stopping /\ guard.phase = "watching"
  /\ \E low \in Samples :
       /\ blocked' = low
       /\ guard' = IF handle = 0 \/ ~(low \/ guard.was) THEN Watching(low)
                   ELSE [phase |-> IF low THEN "pausing" ELSE "thawing",
                         harness |-> handle, was |-> TRUE]
  /\ Same
  /\ UNCHANGED <<handle, ready, releasing, stopping, draining, tasks, harness, orphan,
                 events, faults>>

Freeze(h, frozen) ==
  /\ harness' = IF Running(h) THEN [harness EXCEPT !.frozen = frozen] ELSE harness
  /\ UNCHANGED <<handle, ready, releasing, stopping, draining, blocked, orphan, events, faults>>

GuardPauses ==
  /\ mode = "up" /\ guard.phase = "pausing"
  /\ Commit({session}, StoragePaused(session, TRUE),
            /\ guard' = Watching(TRUE) /\ UNCHANGED tasks
            /\ Freeze(guard.harness, TRUE))

GuardResumes ==
  /\ mode = "up" /\ guard.phase = "thawing"
  /\ LET s1 == StoragePaused(session, FALSE)
     IN  Commit({session, s1}, Advanced(s1, handle, ready, FALSE),
            /\ guard' = Watching(FALSE)
            /\ tasks' = tasks \cup AdvanceTasks(s1, handle, ready, FALSE)
            /\ Freeze(guard.harness, FALSE))

-----------------------------------------------------------------------------

Init ==
  /\ session = Absent /\ mode = "down" /\ handle = 0
  /\ ready = FALSE /\ releasing = FALSE /\ stopping = FALSE /\ draining = FALSE
  /\ blocked = FALSE /\ guard = Watching(FALSE) /\ tasks = {}
  /\ harness = NoHarness /\ orphan = FALSE /\ events = <<>>
  /\ sent = <<>> /\ dropped = {} /\ arrived = <<>>
  /\ restarts = 0 /\ faults = 0

Boots == Open \/ OpenUnreadable \/ Restore

Commands ==
  \/ StartSession \/ CompactWakes
  \/ \E p \in Prompts : Prompt(p)
  \/ \E r \in Interrupts : InterruptTurn(r)
  \/ \E r \in Stops : StopTurn(r)
  \/ \E r \in Resumes : ResumeQueue(r)
  \/ \E r \in Cancels, p \in Prompts : Cancel(r, p)
  \/ \E r \in Compacts : Compact(r)
  \/ \E r \in Sleeps : Sleep(r)
  \/ \E r \in Closes : Close(r)

Starting(t) ==
  \/ Admit(t) \/ SpawnDropped(t) \/ SpawnFails(t) \/ Spawn(t) \/ Handshake(t)
  \/ LaunchReady(t) \/ LaunchError(t)
  \/ RelaunchDropped(t) \/ RelaunchReady(t) \/ RelaunchError(t)

Calling(t) ==
  \/ SendPrompt(t) \/ SendInterrupt(t) \/ SendCompact(t)
  \/ RecordReply(t) \/ AdvanceLater(t)

Harness ==
  HarnessFinishes \/ HarnessCompacts \/ HarnessForks \/ HarnessExits \/ HarnessCrashes

RecordNative ==
  \/ RecordStarted \/ RecordFinished \/ RecordCompacted \/ RecordSlept \/ RecordExited

GuardLoop == GuardLooks \/ GuardPauses \/ GuardResumes

Next ==
  \/ Boots \/ Commands \/ RecordNative \/ GuardLoop \/ SampleExpires \/ Harness
  \/ \E t \in tasks : Starting(t) \/ Calling(t)
  \/ SleepDue \/ Drain \/ Undrain \/ Shutdown \/ Crash \/ Wedge

Spec == Init /\ [][Next]_vars

(* The service is restarted; its tasks run, and their calls answer or time  *)
(* out; turns, compactions and shutdowns end; the guard keeps looking, and  *)
(* acts on the room it sees.  (Nothing makes the disk fill up.)              *)
GuardSeesRoom == GuardLooks /\ ~blocked'
Fairness ==
  /\ WF_vars(Boots \/ Stopped) /\ WF_vars(SleepPending /\ SleepDue)
  /\ WF_vars(\E t \in tasks : Starting(t) \/ Calling(t))
  /\ WF_vars(HarnessFinishes \/ HarnessCompacts \/ HarnessExits)
  /\ WF_vars(RecordNative) /\ WF_vars(GuardSeesRoom \/ GuardPauses \/ GuardResumes)

FairSpec == Spec /\ Fairness

-----------------------------------------------------------------------------
(* Properties.                                                              *)

HarnessIds == 0..MaxHarnesses
Steps == {"waiting", "admitted", "starting", "ready", "error", "timeout",
          "delivered", "completed", "failed", "unknown"}
Tasks == [kind : {"launch", "relaunch", "deliver", "interrupt", "compact", "advance"},
          request : Requests \cup {None}, target : Prompts \cup {None},
          harness : HarnessIds, step : Steps]
Events == [kind : {"started", "finished", "compacted", "exited"}, harness : HarnessIds,
           request : Prompts \cup {None},
           status : {"", "completed", "interrupted", "failed", "expected", "unexpected"},
           cleaned : BOOLEAN]
Guards == [phase : {"watching", "pausing", "thawing"}, harness : HarnessIds, was : BOOLEAN]
Processes == [id : HarnessIds, live : BOOLEAN, closing : BOOLEAN, frozen : BOOLEAN,
              turn : Prompts \cup {None}, compacting : BOOLEAN, jobs : BOOLEAN]

ServiceType ==
  /\ handle \in HarnessIds /\ guard \in Guards
  /\ ready \in BOOLEAN /\ releasing \in BOOLEAN
  /\ stopping \in BOOLEAN /\ draining \in BOOLEAN
WorldType ==
  /\ blocked \in BOOLEAN /\ harness \in Processes /\ orphan \in BOOLEAN
  /\ events \in Seq(Events)
GhostType == sent \in Seq(Prompts) /\ dropped \subseteq Prompts /\ arrived \in Seq(Prompts)

TypeOK ==
  /\ session \in Sessions /\ tasks \subseteq Tasks
  /\ mode \in {"down", "opened", "up", "wedged"}
  /\ ServiceType /\ WorldType /\ GhostType
  /\ restarts \in 0..MaxRestarts /\ faults \in 0..MaxFaults

(* No prompt reaches a harness twice, whatever is retried, restarted or     *)
(* lost: the claim is on disk before the prompt is sent.                    *)
AtMostOnce == \A i, j \in DOMAIN sent : sent[i] = sent[j] => i = j

(* A prompt that was cancelled, or failed while it was queued, never runs.  *)
DroppedNeverRuns == (dropped \cup session.cancelled) \cap Elements(sent) = {}

(* Resumes may retry a failed startup, and several retries may overlap:     *)
(* what CleanBeforeRetry shows, and what four of the properties leave out.  *)
RetriedOnce ==
  \A r, q \in Resumes :
    session.receipts[r] # "none" /\ session.receipts[q] # "none" => r = q

(* Prompts run in the order they were accepted, across restarts, wakes and  *)
(* refused deliveries (docs/session-lifecycle.md).                          *)
InOrder ==
  RetriedOnce => \A i, j \in DOMAIN sent :
    i < j => Position(arrived, sent[i]) < Position(arrived, sent[j])

(* The queue a restart would find holds each prompt once, and only prompts  *)
(* that are still owed a turn.                                              *)
QueueSound ==
  /\ \A i, j \in DOMAIN session.queue : session.queue[i] = session.queue[j] => i = j
  /\ \A p \in Elements(session.queue) :
       session.receipts[p] = "accepted" /\ p # session.current /\ p \notin Elements(sent)

(* A second harness never runs beside one that may still be alive: not      *)
(* after an exit that could not be confirmed, a crash, a wake or the retry  *)
(* of a failed startup.                                                     *)
OneHarness == RetriedOnce => ~(harness.live /\ orphan)

(* A ready session holds the handle of the harness spawned last, which      *)
(* command unwraps, and what it has not recorded yet is of that harness.    *)
ReadyHasHandle ==
  /\ ready => handle # 0
  /\ mode = "up" /\ handle # 0 => handle = harness.id
  /\ mode = "up" /\ events # <<>> => Ours

(* The session never sends a prompt to a harness that has an active turn:   *)
(* its own record of the turn is never behind.                              *)
OneTurn ==
  RetriedOnce =>
    \A t \in tasks : Calls(t, "deliver") /\ Heard(t) => harness.turn = None

(* A receipt that has ended never changes, across restarts too.             *)
ReceiptsEnd ==
  [][\A r \in Requests :
       session.receipts[r] \in Terminal => session'.receipts[r] = session.receipts[r]]_vars

(* A compaction whose reply is lost may still run, but the session has      *)
(* forgotten it (Finish): the event that ends it then ends the compaction   *)
(* accepted after it, before that one is sent.                              *)
CompactsAnswered == \A k \in Compacts : session.receipts[k] # "unknown"

(* While a drain holds, nothing starts: the machine may be stopped.         *)
DrainHolds ==
  [][RetriedOnce /\ CompactsAnswered /\ draining /\ draining' =>
       sent' = sent /\ (harness'.compacting => harness.compacting)]_vars

(* A reply was lost and no event may ever tell more: what EventsOwnProgress *)
(* shows, and a prompt that may not have arrived, which only an interrupt   *)
(* ends.                                                                    *)
Stranded ==
  /\ faults > 0
  /\ session.state \in {"starting_turn", "running", "interrupting"}
  /\ session.current # None => session.receipts[session.current] = "unknown"

(* What no fairness of the service mends: a disk that keeps filling up, a   *)
(* reply that was lost for good, a journal that refuses writes.             *)
Mended == <>[]~blocked /\ []<>~Stranded /\ []<>(mode # "wedged")

(* A queue waits for the client while it is paused, after a startup that    *)
(* timed out, and after a close that was cut off.                           *)
QueueWaits ==
  \/ session.paused \/ session.closing
  \/ session.state = "process_lost" /\ session.startup = "startup_timeout"

(* Queued prompts are not forgotten: each is dispatched or its receipt      *)
(* ends, unless the queue waits for the client.                             *)
QueueMoves ==
  Mended => \A p \in Prompts : []<>(p \notin Elements(session.queue) \/ QueueWaits)

(* Every accepted prompt and control request gets an answer; a sleep gets   *)
(* it once no background jobs are left.  Nobody answers a sleep, a          *)
(* compaction or a stop of a session that closed or was lost meanwhile.     *)
Answered == Prompts \cup Interrupts \cup Stops \cup Compacts \cup Closes
Excused(r) ==
  \/ r \in Elements(session.queue) /\ QueueWaits
  \/ /\ r \in Stops \cup Compacts \cup Sleeps
     /\ session.closing \/ session.state \in {"failed", "process_lost"}
Owed(r) == session.receipts[r] \in {"accepted", "delivered"}
Resolves(r) == []<>(~Owed(r) \/ Excused(r))
RequestsSettle ==
  Mended =>
    /\ \A r \in Answered : Resolves(r)
    /\ <>[]~harness.jobs => \A r \in Sleeps : Resolves(r)

-----------------------------------------------------------------------------
(* The promise to whoever sends prompts: what is accepted waits, is claimed *)
(* for a turn or dropped, and what reached a harness ran.                   *)

Claimed ==
  {p \in Prompts : session.receipts[p] # "none"} \ (Elements(session.queue) \cup dropped)

Ledger == INSTANCE PromptLedger WITH
  Item <- Prompts, waiting <- Elements(session.queue), claimed <- Claimed,
  ran <- Elements(sent)

(* The session, its tasks, crashes and restarts implement the ledger.       *)
RefinesPromptLedger == Ledger!Spec

-----------------------------------------------------------------------------
(* What the documentation says, and the code does not keep.                 *)

(* docs/session-lifecycle.md: a failed startup is retried only after the    *)
(* old process has been cleaned up.                                         *)
CleanBeforeRetry == ~(harness.live /\ orphan)

(* docs/session-lifecycle.md: native events, and not replies, own progress: *)
(* once a turn or a compaction has ended the session goes on.               *)
Awaiting ==
  /\ mode = "up" /\ ~draining
  /\ session.state \in {"running", "interrupting"} /\ session.current = None
EventsOwnProgress == Awaiting ~> ~Awaiting

=============================================================================
