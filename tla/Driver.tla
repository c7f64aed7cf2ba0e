------------------------------- MODULE Driver -------------------------------
(* The harness driver (runtime/process.rs) with the adapter of one harness,  *)
(* the Handle its callers hold (runtime/mod.rs), the workload that can be    *)
(* frozen (runtime/linux.rs), the native program at the other end of the     *)
(* pipes, and the session as far as it drives them: it sends one prompt at a *)
(* time, records the events and asks for the exit.                           *)
EXTENDS Wire, FiniteSets

CONSTANTS Plans,       \* what may happen in a behaviour: records with the harness (kind),
                       \* the prompts, controls and shutdown used (uses), how often the workload is
                       \* frozen (freezes), and how many calls time out, programs crash
                       \* or frames break (faults)
          EventsMax,   \* room in the channel to the session (128 in the code)
          PipeMax      \* messages in stdout before the program waits for the driver

ASSUME DriverAssumption ==
  /\ \A plan \in Plans : plan.kind \in {"codex", "claude", "pi", "cursor"}
  /\ EventsMax \in Nat \ {0} /\ PipeMax \in Nat \ {0}

Codex  == INSTANCE Codex
Claude == INSTANCE Claude
Pi     == INSTANCE Pi
Cursor == INSTANCE Cursor

VARIABLES
  kind,         \* the harness: "codex", "claude", "pi" or "cursor"
  adapter,      \* the adapter's state
  progress,     \* the turn the driver works on, as published to the Handle
  ops,          \* what each operation is doing: its state, its step, its target
  calls,        \* the channel from the Handle to the driver
  outbox,       \* events of the last message not sent yet
  after,        \* the message whose answers are due once they are
  events,       \* the channel from the driver to the session
  phase,        \* running, stopping, ending, gone
  closePending, \* a close was sent and is not confirmed
  stdin, stdout,\* the two pipes
  open,         \* stdin is not closed yet
  native,       \* the native program
  exit,         \* its exit code; None while it runs
  paused,       \* the workload is frozen
  quit,         \* the session asked for the exit
  turn,         \* what the session knows of each prompt
  compaction,   \* what it knows of the compaction
  copied,       \* prompts whose chat was copied after their end (cursor)
  exited,       \* it recorded the exit
  uses, freezes, faults  \* what is left of the plan

driverVars  == <<adapter, progress, outbox, after, phase, closePending, open>>
pipeVars    == <<stdin, stdout>>
nativeVars  == <<native, exit>>
sessionVars == <<turn, compaction, copied, exited>>
boundVars   == <<uses, freezes, faults>>
vars == <<kind, driverVars, ops, calls, events, pipeVars, nativeVars, paused, quit,
          sessionVars, boundVars>>

-----------------------------------------------------------------------------
(* The adapter of the harness at hand.                                       *)

Script(op) ==
  CASE kind = "codex" -> Codex!Script(op) [] kind = "claude" -> Claude!Script(op)
    [] kind = "pi"    -> Pi!Script(op)    [] kind = "cursor" -> Cursor!Script(op)
Encode(id, method, request) ==
  CASE kind = "codex"  -> Codex!Encode(adapter, id, method, request)
    [] kind = "claude" -> Claude!Encode(adapter, id, method, request)
    [] kind = "pi"     -> Pi!Encode(adapter, id, method, request)
    [] kind = "cursor" -> Cursor!Encode(adapter, id, method, request)
Outgoing(id, method, ref) ==
  IF kind = "cursor" THEN Cursor!Outgoing(id, method, ref) ELSE Frame(method, id, ref)
Receive(m) ==
  CASE kind = "codex"  -> Codex!Receive(adapter, progress, m)
    [] kind = "claude" -> Claude!Receive(adapter, progress, m)
    [] kind = "pi"     -> Pi!Receive(adapter, progress, m)
    [] kind = "cursor" -> Cursor!Receive(adapter, progress, m)
Reply(a, m) ==
  CASE kind = "codex"  -> Codex!Reply(a, m)  [] kind = "claude" -> Claude!Reply(a, m)
    [] kind = "pi"     -> Pi!Reply(a, m)     [] kind = "cursor" -> Cursor!Reply(a, m)
Responds(a, m) ==
  CASE kind = "pi" -> Pi!Responds(a, m) [] kind = "cursor" -> Cursor!Responds(a, m)
    [] OTHER -> <<>>
CloseFrames ==
  CASE kind = "claude" -> Claude!CloseFrames(adapter)
    [] kind = "pi"     -> Pi!CloseFrames(adapter)
    [] kind = "cursor" -> Cursor!CloseFrames(adapter)
    [] OTHER -> <<>>
AtClose ==
  CASE kind = "pi" -> Pi!AtClose(adapter) [] kind = "cursor" -> Cursor!AtClose(adapter)
    [] OTHER -> adapter
Closing(a, m) ==
  CASE kind = "claude" -> Claude!Closing(a, m) [] kind = "pi" -> Pi!Closing(a, m)
    [] OTHER -> a
Closed(a) ==
  CASE kind = "claude" -> Claude!Closed(a) [] kind = "pi" -> Pi!Closed(a)
    [] kind = "cursor" -> Cursor!Closed(a) [] OTHER -> FALSE
Capture == IF kind = "cursor" THEN Cursor!Capture(adapter)
           ELSE {[adapter |-> adapter, events |-> <<>>]}
CapturePending == kind = "cursor" /\ Cursor!CapturePending(adapter)
CleanExit(code) == IF kind = "claude" THEN Claude!CleanExit(adapter, code) ELSE code = 0

Takes(m) ==
  CASE kind = "codex" -> Codex!Takes(native, m) [] kind = "claude" -> Claude!Takes(native, m)
    [] kind = "pi"    -> Pi!Takes(native, m)    [] kind = "cursor" -> Cursor!Takes(native, m)
Works ==
  CASE kind = "codex" -> Codex!Works(native) [] kind = "claude" -> Claude!Works(native)
    [] kind = "pi"    -> Pi!Works(native)    [] kind = "cursor" -> Cursor!Works(native)

Adapter0 == [codex |-> Codex!Adapter0, claude |-> Claude!Adapter0,
             pi |-> Pi!Adapter0, cursor |-> Cursor!Adapter0]
Native0  == [codex |-> Codex!Native0, claude |-> Claude!Native0,
             pi |-> Pi!Native0, cursor |-> Cursor!Native0]

-----------------------------------------------------------------------------
Open(op)    == ops[op].state \in {"ready", "queued", "pending", "settling"}
IsControl(op) == op \in {"interrupt", "steer"}
Current     == {p \in Prompts : turn[p] \in {"sent", "started"}}
Gone        == phase = "gone"

Init ==
  /\ \E plan \in Plans : /\ kind = plan.kind /\ uses = plan.uses
                          /\ freezes = plan.freezes /\ faults = plan.faults
  /\ adapter = Adapter0[kind] /\ native = Native0[kind]
  /\ progress = Resting
  /\ ops = [op \in Ops |-> [state |-> IF op = "start" THEN "ready" ELSE "idle",
                            step |-> 1, target |-> None]]
  /\ calls = <<>> /\ outbox = <<>> /\ after = None /\ events = <<>>
  /\ phase = "running" /\ closePending = FALSE /\ open = TRUE
  /\ stdin = <<>> /\ stdout = <<>> /\ exit = None
  /\ paused = FALSE /\ quit = FALSE
  /\ turn = [p \in Prompts |-> "none"] /\ compaction = "none" /\ copied = {}
  /\ exited = FALSE

-----------------------------------------------------------------------------
(* The session.  The next prompt in acceptance order is sent when none is in *)
(* flight, no interrupt is and no compaction is; controls aim at the prompt  *)
(* in flight.                                                                *)

(* (Mutant: an interrupt at work does not hold the next prompt back.)        *)
IdleSoon == /\ ops["start"].state = "ok" /\ ~quit /\ ~exited
            /\ Current = {} /\ compaction # "asked"
Idle == /\ ops["start"].state = "ok" /\ ~quit /\ ~exited
        /\ Current = {} /\ ~Open("interrupt") /\ compaction # "asked"
At(op, state, target) == ops' = [ops EXCEPT ![op].state = state, ![op].target = target]

Unsent == {p \in Prompts \cap uses : turn[p] = "none"}
SendPrompt(p) ==
  /\ Idle /\ p \in Unsent /\ p = CHOOSE q \in Unsent : TRUE
  /\ turn' = [turn EXCEPT ![p] = "sent"]
  /\ At(p, "ready", p)
  /\ UNCHANGED <<kind, driverVars, calls, events, pipeVars, nativeVars, paused, quit,
                 compaction, copied, exited, boundVars>>

(* Handle::interrupt and Handle::steer look at the published progress first. *)
Targetable(p) ==
  /\ progress.request = p /\ ~progress.finished
  /\ kind = "codex" => Codex!Targetable(progress)
Control(op) ==
  /\ op \in uses /\ IsControl(op) /\ ops[op].state = "idle" /\ ~quit /\ ~exited
  /\ \E p \in Current :
       At(op, IF Targetable(p) /\ Script(op) # <<>> THEN "ready" ELSE "refused", p)
  /\ UNCHANGED <<kind, driverVars, calls, events, pipeVars, nativeVars, paused, quit,
                 sessionVars, boundVars>>

Compact ==
  /\ "compact" \in uses /\ ops["compact"].state = "idle" /\ Idle
  /\ IF Script("compact") = <<>>
       THEN At("compact", "refused", None) /\ UNCHANGED compaction
       ELSE At("compact", "ready", None) /\ compaction' = "asked"
  /\ UNCHANGED <<kind, driverVars, calls, events, pipeVars, nativeVars, paused, quit,
                 turn, copied, exited, boundVars>>

(* deliver, compact: a refused prompt never began, a refused compaction is   *)
(* over; anything else waits for the events.                                 *)
Refused ==
  \/ \E p \in Prompts :
       /\ ops[p].state = "refused" /\ turn[p] \in {"sent", "started"}
       /\ turn' = [turn EXCEPT ![p] = "refused"]
       /\ UNCHANGED <<compaction, copied, exited>>
  \/ /\ ops["compact"].state = "refused" /\ compaction = "asked"
     /\ compaction' = "ended" /\ UNCHANGED <<turn, copied, exited>>
SessionLearns ==
  /\ ~exited /\ Refused
  /\ UNCHANGED <<kind, driverVars, ops, calls, events, pipeVars, nativeVars, paused, quit,
                 boundVars>>

(* The session records events in the order in which they arrive.             *)
Lost == [p \in Prompts |-> IF turn[p] \in {"sent", "started"} THEN "lost" ELSE turn[p]]
Record ==
  /\ events # <<>>
  /\ LET e == Head(events) IN
       /\ events' = Tail(events)
       /\ turn' = CASE e.type = "started"  -> [turn EXCEPT ![e.request] = "started"]
                    [] e.type = "finished" -> [turn EXCEPT ![e.request] = "finished"]
                    [] e.type = "exited"   -> Lost
                    [] OTHER               -> turn
       /\ compaction' = IF \/ e.type = "compacted"
                           \/ e.type = "exited" /\ compaction = "asked"
                          THEN "ended" ELSE compaction
       /\ exited' = (exited \/ e.type = "exited")
       /\ copied' = IF e.type = "copied" THEN copied \cup {e.request} ELSE copied
  /\ UNCHANGED <<kind, driverVars, ops, calls, pipeVars, nativeVars, paused, quit, boundVars>>

(* request_shutdown: a frozen workload is killed.                            *)
Shutdown ==
  /\ "shutdown" \in uses /\ ~quit /\ quit' = TRUE
  /\ exit' = IF paused /\ exit = None THEN 9 ELSE exit
  /\ UNCHANGED <<kind, driverVars, ops, calls, events, pipeVars, native, paused,
                 sessionVars, boundVars>>

Freeze ==
  /\ ~paused /\ freezes > 0 /\ freezes' = freezes - 1 /\ paused' = TRUE
  /\ UNCHANGED <<kind, driverVars, ops, calls, events, pipeVars, nativeVars, quit,
                 sessionVars, uses, faults>>
Thaw ==
  /\ paused /\ paused' = FALSE
  /\ UNCHANGED <<kind, driverVars, ops, calls, events, pipeVars, nativeVars, quit,
                 sessionVars, boundVars>>

-----------------------------------------------------------------------------
(* The Handle: each step of an operation is a call whose answer it awaits.   *)

Last(op) == ops[op].step = Len(Script(op))
Done(o, op)    == [o EXCEPT ![op].state = "ok"]
Forward(o, op) == IF Last(op) THEN Done(o, op)
                  ELSE [o EXCEPT ![op].state = "ready", ![op].step = @ + 1]

(* The controls of an ACP harness exclude each other (Handle::controls).     *)
ControlFree(op) ==
  kind = "cursor" /\ IsControl(op) =>
    \A other \in {"interrupt", "steer"} \ {op} : ops[other].state \notin {"queued", "pending"}

CallStep(op) ==
  /\ ops[op].state = "ready" /\ ControlFree(op)
  /\ LET step == Script(op)[ops[op].step]
         call == [op |-> op, step |-> ops[op].step, mode |-> step.mode,
                  method |-> step.method]
     IN  CASE step.mode = "settle" ->
                ops' = [ops EXCEPT ![op].state = "settling"] /\ UNCHANGED calls
           [] step.mode # "settle" /\ (Gone \/ (quit /\ step.mode # "notify")) ->
                ops' = [ops EXCEPT ![op].state = "failed"] /\ UNCHANGED calls
           [] OTHER ->
                /\ calls' = Append(calls, call)
                /\ ops' = IF step.mode = "notify" THEN Forward(ops, op)
                          ELSE [ops EXCEPT ![op].state = "queued"]
  /\ UNCHANGED <<kind, driverVars, events, pipeVars, nativeVars, paused, quit,
                 sessionVars, boundVars>>

(* An interrupted Codex turn has ended: what it left running is terminated.  *)
TurnSettled(op) == progress.request = ops[op].target /\ progress.finished
Settle(op) ==
  /\ ops[op].state = "settling"
  /\ \/ /\ TurnSettled(op)
        /\ ops' = IF progress.shell THEN Forward(ops, op) ELSE Done(ops, op)
     \/ Gone /\ ~TurnSettled(op) /\ ops' = [ops EXCEPT ![op].state = "failed"]
  /\ UNCHANGED <<kind, driverVars, calls, events, pipeVars, nativeVars, paused, quit,
                 sessionVars, boundVars>>

(* linux::reply: the deadline of a call stands still while the workload is   *)
(* frozen; that of a settling interrupt does not.                            *)
TimeOut(op) ==
  /\ faults > 0 /\ faults' = faults - 1
  /\ \/ ops[op].state \in {"queued", "pending"} /\ ~paused
     \/ ops[op].state = "settling"
  /\ ops' = [ops EXCEPT ![op].state = "failed"]
  /\ UNCHANGED <<kind, driverVars, calls, events, pipeVars, nativeVars, paused, quit,
                 sessionVars, uses, freezes>>

-----------------------------------------------------------------------------
(* The driver's loop.                                                        *)

Waiting(c) == ops[c.op].state = "queued" /\ ops[c.op].step = c.step
Tell(c, state) ==
  ops' = IF Waiting(c) THEN [ops EXCEPT ![c.op].state = state] ELSE ops

(* A call is refused when its target is over, when the adapter does not      *)
(* allow it, or, for a prompt, while the last one is not finished.           *)
CarriesPrompt(c) == c.mode \in {"request", "dispatch"}
Missed(c) == c.mode = "control" /\ (progress.request # ops[c.op].target \/ progress.finished)
Barred(c) == kind = "cursor" /\ ~Cursor!Valid(adapter, c.method)
IsBusy(c) == CarriesPrompt(c) /\ Unfinished(progress)
Denied(c) == Missed(c) \/ Barred(c) \/ IsBusy(c)

Takeable == phase = "running" /\ ~paused /\ outbox = <<>> /\ calls # <<>>

DenyCall ==
  /\ Takeable /\ Denied(Head(calls))
  /\ calls' = Tail(calls) /\ Tell(Head(calls), "refused")
  /\ UNCHANGED <<kind, driverVars, events, pipeVars, nativeVars, paused, quit,
                 sessionVars, boundVars>>

AcceptCall ==
  /\ Takeable /\ ~Denied(Head(calls))
  /\ LET c       == Head(calls)
         id      == <<c.op, c.step>>
         request == IF CarriesPrompt(c) THEN c.op ELSE None
     IN  /\ calls' = Tail(calls)
         /\ progress' = IF request # None THEN Fresh(request) ELSE progress
         /\ adapter' = Encode(id, c.method, request)
         /\ stdin' = Append(stdin, Outgoing(id, c.method,
                              IF CarriesPrompt(c) THEN c.op ELSE ops[c.op].target))
         /\ CASE c.mode = "notify"   -> UNCHANGED ops
              [] c.mode = "dispatch" -> ops' = IF Waiting(c) THEN Forward(ops, c.op) ELSE ops
              [] OTHER               -> Tell(c, "pending")
  /\ UNCHANGED <<kind, outbox, after, phase, closePending, open, events, stdout, nativeVars,
                 paused, quit, sessionVars, boundVars>>

(* The answers a message gives once its events are sent: frames the adapter  *)
(* owes, the end of a close, the reply to a call.                            *)
Answered(a, m) ==
  LET reply == Reply(a, m)
      b     == IF closePending THEN Closing(a, m) ELSE a
      shuts == closePending /\ Closed(b)
      heard == {op \in Ops : /\ reply # NoAnswer /\ ops[op].state = "pending"
                             /\ reply[1].id = <<op, ops[op].step>>}
  IN  /\ adapter' = b
      /\ stdin' = IF open THEN stdin \o Responds(a, m) ELSE stdin
      /\ closePending' = (closePending /\ ~shuts)
      /\ open' = (open /\ ~shuts)
      /\ ops' = IF heard = {} THEN ops
                ELSE LET op == CHOOSE op \in heard : TRUE
                     IN  IF reply[1].ok THEN Forward(ops, op)
                         ELSE [ops EXCEPT ![op].state = "refused"]
      /\ after' = None

ReadLine ==
  /\ phase \in {"running", "stopping"} /\ outbox = <<>> /\ stdout # <<>>
  /\ stdout' = Tail(stdout)
  /\ LET m == Head(stdout)
         r == Receive(m)
     IN  /\ progress' = r.progress
         /\ IF r.events = <<>>
              THEN Answered(r.adapter, m) /\ outbox' = <<>>
              ELSE /\ adapter' = r.adapter /\ outbox' = r.events /\ after' = m
                   /\ UNCHANGED <<stdin, closePending, open, ops>>
  /\ UNCHANGED <<kind, phase, calls, events, nativeVars, paused, quit, sessionVars, boundVars>>

(* The driver does nothing else while the session leaves no room.            *)
RoomSoon == Len(events) <= EventsMax     \* Mutant: one event too many
HasRoom  == Len(events) < EventsMax
SendEvent ==
  /\ outbox # <<>> /\ HasRoom
  /\ events' = Append(events, Head(outbox)) /\ outbox' = Tail(outbox)
  /\ IF Tail(outbox) = <<>> /\ after # None
       THEN Answered(adapter, after)
       ELSE UNCHANGED <<adapter, after, stdin, closePending, open, ops>>
  /\ UNCHANGED <<kind, progress, phase, calls, stdout, nativeVars, paused, quit,
                 sessionVars, boundVars>>

(* Every quarter of a second, and until nothing is due once the loop ended.  *)
Tick ==
  /\ ~Gone /\ outbox = <<>> /\ CapturePending
  /\ \E c \in Capture : adapter' = c.adapter /\ outbox' = c.events
  /\ UNCHANGED <<kind, progress, after, phase, closePending, open, ops, calls, events,
                 pipeVars, nativeVars, paused, quit, sessionVars, boundVars>>

(* The exit was asked for: no call is taken any more, the close is written,  *)
(* and stdin is closed at once when there is none.                           *)
Stop ==
  /\ quit /\ phase = "running" /\ outbox = <<>>
  /\ phase' = "stopping"
  /\ adapter' = AtClose
  /\ stdin' = stdin \o CloseFrames
  /\ closePending' = (CloseFrames # <<>>) /\ open' = (CloseFrames # <<>>)
  /\ UNCHANGED <<kind, progress, outbox, after, ops, calls, events, stdout, nativeVars,
                 paused, quit, sessionVars, boundVars>>

(* The loop ends when the program has exited, when the grace period is over, *)
(* or on a broken frame; unread lines are lost then.                         *)
LoopEnds ==
  /\ phase \in {"running", "stopping"} /\ outbox = <<>>
  /\ \/ exit # None /\ UNCHANGED <<exit, faults>>
     \/ phase = "stopping" /\ exit = None /\ exit' = 9 /\ UNCHANGED faults
     \/ faults > 0 /\ faults' = faults - 1 /\ exit = None /\ exit' = 9
  /\ phase' = IF phase = "stopping" /\ exit # None THEN "served" ELSE "ending"
  /\ open' = FALSE
  /\ UNCHANGED <<kind, adapter, progress, outbox, after, closePending, ops, calls, events,
                 pipeVars, native, paused, quit, sessionVars, uses, freezes>>

Leave ==
  /\ phase \in {"ending", "served"} /\ outbox = <<>> /\ ~CapturePending /\ HasRoom
  /\ LET expected == phase = "served" /\ CleanExit(exit) /\ ~closePending
     IN  events' = Append(events, Event("exited", None, IF expected THEN "expected" ELSE None))
  /\ phase' = "gone" /\ calls' = <<>>
  /\ ops' = [op \in Ops |-> IF ops[op].state \in {"queued", "pending"}
                              THEN [ops[op] EXCEPT !.state = "failed"] ELSE ops[op]]
  /\ UNCHANGED <<kind, adapter, progress, outbox, after, closePending, open, pipeVars,
                 nativeVars, paused, quit, sessionVars, boundVars>>

-----------------------------------------------------------------------------
(* The native program.                                                       *)

Alive == exit = None /\ ~paused
Room  == Len(stdout) < PipeMax

NativeTakes ==
  /\ Alive /\ Room /\ stdin # <<>>
  /\ stdin' = Tail(stdin)
  /\ \E r \in Takes(Head(stdin)) : native' = r.native /\ stdout' = stdout \o r.out
  /\ UNCHANGED <<kind, driverVars, ops, calls, events, exit, paused, quit, sessionVars,
                 boundVars>>

NativeWorks ==
  /\ Alive /\ Room
  /\ \E r \in Works : native' = r.native /\ stdout' = stdout \o r.out
  /\ UNCHANGED <<kind, driverVars, ops, calls, events, stdin, exit, paused, quit,
                 sessionVars, boundVars>>

(* It exits when its stdin is closed; a failed turn may show in the code.    *)
NativeExits ==
  /\ Alive
  /\ \/ ~open /\ stdin = <<>> /\ exit' \in {0, 1} /\ UNCHANGED faults
     \/ faults > 0 /\ faults' = faults - 1 /\ exit' = 9
  /\ UNCHANGED <<kind, driverVars, ops, calls, events, pipeVars, native, paused, quit,
                 sessionVars, uses, freezes>>

-----------------------------------------------------------------------------
HandleStep(op) == CallStep(op) \/ Settle(op)
DriverStep == \/ DenyCall \/ AcceptCall \/ ReadLine \/ SendEvent \/ Tick \/ Stop \/ Leave
              \/ LoopEnds

Next ==
  \/ \E p \in Prompts : SendPrompt(p)
  \/ \E op \in Ops : Control(op) \/ HandleStep(op) \/ TimeOut(op)
  \/ Compact \/ SessionLearns \/ Record \/ Shutdown \/ Freeze \/ Thaw
  \/ DriverStep \/ NativeTakes \/ NativeWorks \/ NativeExits

Spec == Init /\ [][Next]_vars

(* Everything the driver, the session and the program owe goes on.  The      *)
(* workload is thawed in the end, and a program whose stdin is closed exits. *)
(* Only what the environment may never do is left out: prompts, controls,    *)
(* shutdowns, freezes and faults.                                            *)
Fairness ==
  /\ WF_vars(DriverStep) /\ WF_vars(Record) /\ WF_vars(SessionLearns) /\ WF_vars(Thaw)
  /\ \A op \in Ops : WF_vars(HandleStep(op))
  /\ WF_vars(NativeTakes) /\ WF_vars(NativeWorks) /\ WF_vars(NativeExits)
FairSpec == Spec /\ Fairness

-----------------------------------------------------------------------------
(* Properties.                                                               *)

Calling == {"idle", "ready", "queued", "pending", "settling", "ok", "refused", "failed"}

(* The driver's channels, pipes and records hold what the code puts there,   *)
(* and the channel to the session never holds more than it has room for.     *)
TypeOK ==
  /\ \E plan \in Plans : kind = plan.kind /\ uses = plan.uses
  /\ progress.request \in Prompts \cup {None}
  /\ \A op \in Ops : /\ ops[op].state \in Calling
                      /\ ops[op].target \in Prompts \cup {None}
                      /\ Open(op) => ops[op].step \in DOMAIN Script(op)
  /\ \A i \in DOMAIN calls : calls[i].op \in Ops
  /\ \A i \in DOMAIN stdin : stdin[i].ref \in Prompts \cup {None}
  /\ Len(events) <= EventsMax
  /\ phase \in {"running", "stopping", "ending", "served", "gone"}
  /\ turn \in [Prompts -> {"none", "sent", "started", "finished", "refused", "lost"}]
  /\ compaction \in {"none", "asked", "ended"}
  /\ closePending /\ phase = "stopping" => open

(* Whatever the program, the session sees one turn at a time, each with one  *)
(* outcome, a start only before it, and nothing after the exit: events,      *)
(* answers and the exit reach it by different ways and still agree.          *)
Promise == INSTANCE Turns
RefinesTurns == Promise!Spec

NativeTurns ==
  CASE kind = "codex"  -> {native.turn}
    [] kind = "claude" -> {u.ref : u \in ({native.turn} \ {None}) \cup
                             {native.queue[i] : i \in DOMAIN native.queue}}
    [] kind \in {"pi", "cursor"} -> {native.ref}
Written(p) == \E i \in DOMAIN stdin :
                /\ stdin[i].ref = p
                /\ stdin[i].method \in {"turn/start", "prompt", "session/prompt"}

(* Once the session takes a prompt for finished or refused, the program does *)
(* not run it and never will: no prompt is on its way, none is queued, and   *)
(* no compaction, retry or steered prompt goes on with it.                   *)
TurnSound ==
  \A p \in Prompts : turn[p] \in {"finished", "refused"} /\ exit = None =>
    p \notin NativeTurns /\ ~Written(p)

(* An interrupt of Codex waits for the end of its own turn: the progress it  *)
(* watches is not replaced by the next prompt's before it has looked.        *)
InterruptSeesItsTurn ==
  \A op \in Ops : ops[op].state = "settling" => progress.request = ops[op].target

(* The end of a Cursor turn is recorded after a copy of the chat that was    *)
(* begun after that end: no turn's history is missing when it is over.       *)
HistoryBeforeEnd ==
  kind = "cursor" => \A p \in Prompts : turn[p] = "finished" => p \in copied

(* Between turns the driver takes a prompt: none is denied as busy.  Claude  *)
(* is left out: a message that it rejects stays unfinished in the driver,    *)
(* and every later prompt is denied (README, "What the runs show").          *)
FreeBetweenTurns == kind # "claude" /\ Idle => ~Unfinished(progress)

(* Every turn that was sent ends for the session: it finishes, is refused or *)
(* is lost with the harness, unless its call timed out.  Each prompt is sent *)
(* once, so "in the end" says it of every turn.                              *)
TurnsEnd ==
  <>[](\A p \in Current : ops[p].state = "failed")

(* Every operation of the Handle returns, whether it meets another control,  *)
(* the end of its turn, a full channel, a freeze or the exit.                *)
CallsReturn == <>[](\A op \in Ops : ~Open(op))
=============================================================================
