-------------------------- MODULE DriverRefinementProofs -------------------------
(***************************************************************************)
(* Driver implements Turns, for any plans and any room in the channels:     *)
(* whatever the program, the session sees one turn at a time, each with one *)
(* outcome, and nothing after the exit.                                     *)
(***************************************************************************)
EXTENDS DriverTurnProofs

-----------------------------------------------------------------------------
(* The exit is the last event that there is.                                 *)
ExitLast ==
  /\ \A i \in DOMAIN Queue : Queue[i].type = "exited" => i = Len(Queue)
  /\ exited => Queue = <<>>

(* Before the session asks for a compaction nobody knows of one.             *)
PackUnknown ==
  /\ ops["compact"].state \in {"idle", "refused"}
  /\ \A i \in DOMAIN calls : calls[i].op # "compact"
  /\ kind \in {"codex", "pi"} => adapter.compaction = None
  /\ kind = "claude" => \A u \in adapter.users : u.kind # "compact"
  /\ \A i \in DOMAIN Queue : Queue[i].type # "compacted"
PackKnown ==
  /\ ops["compact"].state = "idle" => compaction = "none"
  /\ compaction = "none" => PackUnknown

(* The events that tell of a prompt.  Its start is the first and comes when  *)
(* the session has only sent it; its end is the last and comes when it is    *)
(* not over.                                                                 *)
IsStart(e, p) == e.type = "started" /\ e.request = p
IsEnd(e, p)   == e.type = "finished" /\ e.request = p
EndsLater(p)  == kind = "cursor" /\ adapter.terminal # None /\ adapter.terminal.request = p
StartTold(p) ==
  \A i \in DOMAIN Queue : IsStart(Queue[i], p) =>
    turn[p] = "sent" /\ \A j \in DOMAIN Queue : Tells(Queue[j], p) => i <= j
EndTold(p) ==
  \A i \in DOMAIN Queue : IsEnd(Queue[i], p) =>
    /\ turn[p] \in {"sent", "started"} /\ ~EndsLater(p)
    /\ \A j \in DOMAIN Queue : Tells(Queue[j], p) => j <= i
(* What the driver has not told of its turn nobody was told.                 *)
Untold(p) ==
  progress.request = p =>
    /\ ~progress.started =>
         turn[p] # "started" /\ \A i \in DOMAIN Queue : ~IsStart(Queue[i], p)
    /\ ~progress.finished =>
         /\ turn[p] \notin {"none", "finished"} /\ ~EndsLater(p)
         /\ \A i \in DOMAIN Queue : ~IsEnd(Queue[i], p)
ToldOf(p) ==
  /\ StartTold(p) /\ EndTold(p) /\ Untold(p)
  /\ EndsLater(p) => turn[p] \in {"sent", "started", "lost"}
  /\ turn[p] = "refused" => ops[p].state = "refused"
TellInv == \A p \in Prompts : ToldOf(p)

(* A message that declines a prompt, and one that says that it runs or ran.  *)
Declines(m, p) ==
  \/ kind \in {"codex", "pi"} /\ m.type = "response" /\ m.id = PromptCall(p) /\ m.status # "ok"
  \/ /\ kind = "claude" /\ m.id = PromptCall(p)
     /\ \/ m.type = "control_response"
        \/ m.type = "lifecycle" /\ m.status \in {"rejected", "cancelled"}
Concerns(m, p) ==
  \/ kind = "codex" /\ m.type \in {"turn/started", "turn/completed"} /\ m.ref = p
  \/ kind = "pi" /\ m.type = "response" /\ m.id = PromptCall(p) /\ m.status = "ok"
  \/ /\ kind = "claude" /\ m.id = PromptCall(p)
     /\ \/ m.type = "result"
        \/ m.type = "lifecycle" /\ m.status = "started"
(* A prompt that is not heard: it may still be accepted, it is on its way to *)
(* the program, or it was declined.                                          *)
Declined(p) == \/ Written(p)
               \/ \E i \in DOMAIN stdout : Declines(stdout[i], p)
               \/ kind = "claude" /\ SaysNo(adapter, p)
Unheard(p)  == \/ Coming(p) \/ ops[p].state = "refused"
               \/ kind # "cursor" /\ Declined(p)
(* Nothing tells of such a prompt, and nothing will.                         *)
Unspoken(p) ==
  /\ turn[p] \notin {"started", "finished"}
  /\ \A i \in DOMAIN Queue : ~Tells(Queue[i], p)
  /\ ~EndsLater(p)
Hushed(p) ==
  /\ \A i \in DOMAIN stdout : ~Concerns(stdout[i], p)
  /\ kind = "pi" /\ progress.request = p =>
       ~adapter.accepted /\ \A i \in DOMAIN stdout : stdout[i].type # "agent_start"
QuietInv == \A p \in Prompts : Unheard(p) => Unspoken(p) /\ Hushed(p)

(* Pi's agent is at work on a prompt, and says that it starts before its     *)
(* turn is over.  Claude's adapter knows its messages by their kinds.        *)
AgentInv ==
  kind = "pi" =>
    /\ native.run # "idle" => native.ref \in Prompts
    /\ \A i \in DOMAIN stdout : stdout[i].type = "agent_start" =>
         /\ Unfinished(progress)
         /\ \A j \in DOMAIN stdout : Final(stdout[j], progress.request) => i < j
UsersInv ==
  kind = "claude" =>
    \A u \in adapter.users : \A p \in Prompts : u.id = PromptCall(p) => u.kind # "bootstrap"

(* Cursor's driver answers the call of a prompt as it takes it.              *)
WaitInv ==
  kind = "cursor" =>
    \A p \in Prompts : ops[p].state = "pending" => ops[p].step < Len(Script(p))

RInv == ExitLast /\ PackKnown /\ TellInv /\ QuietInv /\ AgentInv /\ UsersInv

-----------------------------------------------------------------------------
(* The words do not depend on more than the harness.                         *)
LEMMA SameTerms ==
  ASSUME kind' = kind
  PROVE  /\ \A m, p : Declines(m, p)' <=> Declines(m, p)
         /\ \A m, p : Concerns(m, p)' <=> Concerns(m, p)
         /\ \A m, p : Final(m, p)' <=> Final(m, p)
         /\ \A p : PromptCall(p)' = PromptCall(p)
<1>1. /\ \A p : PromptCall(p)' = PromptCall(p)
      /\ \A m, p : Final(m, p)' <=> Final(m, p)
  BY SameWords
<1> QED  BY <1>1 DEF Declines, Concerns

(* The channel and the outbox make the events on their way.                  *)
LEMMA QueueSeq ==
  ASSUME EventsOK
  PROVE  Queue \in Seq(Reports) /\ Len(Queue) \in Nat /\ DOMAIN Queue = 1..Len(Queue)
<1>1. Queue \in Seq(Reports)
  BY ConcatProperties DEF EventsOK, Queue
<1> QED  BY <1>1, LenProperties

(* A step that makes no prompt refused but one that was not heard, and none  *)
(* that was refused anything else.                                           *)
Refusals ==
  \A p \in Prompts :
    /\ ops[p].state = "refused" => ops'[p].state = "refused"
    /\ ops'[p].state = "refused" => Unheard(p)

(* One operation moves, which was not refused.                               *)
LEMMA OpRefusals ==
  ASSUME NEW op \in Ops, \A x \in Ops : x # op => ops'[x] = ops[x],
         op \in Prompts => /\ ops[op].state # "refused"
                           /\ ops'[op].state = "refused" => Unheard(op)
  PROVE  Refusals
BY OpsKnown DEF Refusals, Unheard

(* What is told stays so while no more is told.                              *)
FewerTold ==
  \A i \in DOMAIN Queue' : TurnEvent(Queue'[i]) => i \in DOMAIN Queue /\ Queue'[i] = Queue[i]
SameTurnNow ==
  /\ kind' = kind /\ turn' = turn
  /\ progress'.request = progress.request
  /\ progress'.started = progress.started /\ progress'.finished = progress.finished
  /\ \A p \in Prompts : EndsLater(p)' => EndsLater(p)

(* The session and the driver agree on the turns as they did.                *)
LEMMA TellSame ==
  ASSUME TellInv, FewerTold, SameTurnNow, Refusals
  PROVE  TellInv'
<1> SUFFICES ASSUME NEW p \in Prompts PROVE ToldOf(p)'
  BY DEF TellInv
<1>1. ToldOf(p)
  BY DEF TellInv
<1>2. \A i \in DOMAIN Queue' : Tells(Queue'[i], p) =>
        i \in DOMAIN Queue /\ Queue'[i] = Queue[i] /\ Tells(Queue[i], p)
  BY DEF FewerTold, TurnEvent, Tells
<1>3. \A e : IsStart(e, p) \/ IsEnd(e, p) => Tells(e, p)
  BY DEF IsStart, IsEnd, Tells
<1>4. StartTold(p)'
  BY <1>1, <1>2, <1>3 DEF ToldOf, StartTold, SameTurnNow
<1>5. EndTold(p)'
  BY <1>1, <1>2, <1>3 DEF ToldOf, EndTold, SameTurnNow
<1>6. Untold(p)'
  BY <1>1, <1>2, <1>3 DEF ToldOf, Untold, SameTurnNow
<1> QED  BY <1>1, <1>4, <1>5, <1>6 DEF ToldOf, SameTurnNow, Refusals

-----------------------------------------------------------------------------
(* A step that leaves the driver's turn, the pipes and the program alone,    *)
(* and of which the session learns only what it was told.                    *)
QueueFrom ==
  \A i \in DOMAIN Queue' : TurnEvent(Queue'[i]) => \E j \in DOMAIN Queue : Queue[j] = Queue'[i]
TurnFrom ==
  \A p \in Prompts : turn'[p] \in {"started", "finished"} =>
    \/ turn[p] \in {"started", "finished"}
    \/ \E i \in DOMAIN Queue : Tells(Queue[i], p)

(* Such a step keeps quiet about the prompts that are not heard,             *)
LEMMA CalmQuiet ==
  ASSUME QuietInv, Calm, Steady, Refusals, QueueFrom, TurnFrom
  PROVE  QuietInv'
<1>1. /\ kind' = kind /\ adapter' = adapter /\ progress' = progress
      /\ stdin' = stdin /\ stdout' = stdout
  BY DEF Calm
<1> SUFFICES ASSUME NEW p \in Prompts, Unheard(p)' PROVE Unspoken(p)' /\ Hushed(p)'
  BY DEF QuietInv
<1>2. Unheard(p)
  <2>1. Declined(p)' => Declined(p)
    BY <1>1, SameTerms DEF Declined, Written, SaysNo, PromptCall
  <2> QED  BY <1>1, <2>1 DEF Unheard, Steady, Refusals
<1>3. Unspoken(p) /\ Hushed(p)
  BY <1>2 DEF QuietInv
<1>4. Unspoken(p)'
  <2>1. \A i \in DOMAIN Queue' : ~Tells(Queue'[i], p)
    BY <1>3 DEF Unspoken, QueueFrom, Tells, TurnEvent
  <2>2. EndsLater(p)' <=> EndsLater(p)
    BY <1>1 DEF EndsLater
  <2> QED  BY <1>3, <2>1, <2>2 DEF Unspoken, TurnFrom
<1>5. Hushed(p)'
  BY <1>1, <1>3, SameTerms DEF Hushed
<1> QED  BY <1>4, <1>5

(* and what Pi's agent and Claude's adapter do.                              *)
LEMMA CalmAgents ==
  ASSUME Calm PROVE (AgentInv => AgentInv') /\ (UsersInv => UsersInv')
BY SameTerms DEF Calm, AgentInv, UsersInv, Unfinished

(* The exit stays the last event unless the driver has just left.            *)
LEMMA ExitStays ==
  ASSUME IInv', ExitLast, Gone' => Queue' = Queue /\ exited' = exited
  PROVE  ExitLast'
BY DEF ExitLast, IInv, ExitInv

(* What the Handle and the driver do with one operation, which was open, or  *)
(* with none.                                                                *)
Handles(op) ==
  /\ Calm /\ UNCHANGED <<turn, compaction, exited, events, outbox, phase>>
  /\ \A x \in Ops : x # op => ops'[x] = ops[x]
  /\ \/ ops'[op] = ops[op]
     \/ /\ ops[op].state \in {"ready", "queued", "pending", "settling"}
        /\ ops'[op].state # "idle"
        /\ ops'[op].state = "refused" /\ op \in Prompts => Unheard(op)
  /\ \A i \in DOMAIN calls' :
       \/ ops[op].state = "ready" /\ calls'[i].op = op
       \/ \E j \in DOMAIN calls : calls[j] = calls'[i]

(* Then all stays as it was.                                                 *)
LEMMA HandlesKeeps ==
  ASSUME IInv, IInv', RInv, Steady, NEW op \in Ops, Handles(op)
  PROVE  RInv'
<1>1. Queue' = Queue
  BY SameQueue DEF Handles
<1>2. Refusals
  BY OpRefusals, OpsKnown DEF Handles, Refusals, Unheard
<1>3. ExitLast'
  BY <1>1, ExitStays DEF RInv, Handles
<1>4. PackKnown'
  <2>1. "compact" \in Ops
    BY OpsKnown
  <2>2. /\ compaction' = compaction /\ kind' = kind /\ adapter' = adapter
    BY DEF Handles, Calm
  <2>3. ops'["compact"].state = "idle" => ops["compact"].state = "idle"
    BY <2>1 DEF Handles
  <2>4. ASSUME PackUnknown PROVE PackUnknown'
    <3>1. ops'["compact"] = ops["compact"]
      BY <2>1, <2>4 DEF Handles, PackUnknown
    <3>2. \A i \in DOMAIN calls' : calls'[i].op # "compact"
      BY <2>4 DEF Handles, PackUnknown
    <3> QED  BY <1>1, <2>2, <2>4, <3>1, <3>2 DEF PackUnknown
  <2> QED  BY <2>2, <2>3, <2>4 DEF PackKnown, RInv
<1>5. TellInv'
  <2>1. FewerTold /\ SameTurnNow
    BY <1>1 DEF FewerTold, SameTurnNow, Handles, Calm, EndsLater
  <2> QED  BY <1>2, <2>1, TellSame DEF RInv
<1>6. QuietInv'
  <2>1. Calm /\ QueueFrom /\ TurnFrom
    BY <1>1 DEF QueueFrom, TurnFrom, Handles
  <2> QED  BY <1>2, <2>1, CalmQuiet DEF RInv
<1> QED  BY <1>3, <1>4, <1>5, <1>6, CalmAgents DEF RInv, Handles

(* The same when no operation but a control moves.                           *)
LEMMA ControlsKeep ==
  ASSUME IInv, IInv', RInv, Steady, Calm, UNCHANGED <<turn, compaction, exited, events, outbox, calls>>,
         \A x \in Prompts \cup {"compact"} : ops'[x] = ops[x]
  PROVE  RInv'
<1>1. Queue' = Queue
  BY SameQueue
<1>2. Refusals
  BY DEF Refusals, Unheard
<1>3. ExitLast'
  BY <1>1, ExitStays DEF RInv
<1>4. PackKnown'
  <2>1. compaction' = compaction /\ kind' = kind /\ adapter' = adapter /\ ops'["compact"] = ops["compact"]
    BY DEF Calm
  <2> QED  BY <1>1, <2>1 DEF PackKnown, PackUnknown, RInv
<1>5. TellInv'
  <2>1. FewerTold /\ SameTurnNow
    BY <1>1 DEF FewerTold, SameTurnNow, Calm, EndsLater
  <2> QED  BY <1>2, <2>1, TellSame DEF RInv
<1>6. QuietInv'
  <2>1. QueueFrom /\ TurnFrom
    BY <1>1 DEF QueueFrom, TurnFrom
  <2> QED  BY <1>2, <2>1, CalmQuiet DEF RInv
<1> QED  BY <1>3, <1>4, <1>5, <1>6, CalmAgents DEF RInv

(* A call times out, and an interrupt settles.                               *)
LEMMA WaitTells ==
  ASSUME IInv, IInv', RInv, Steady, NEW op \in Ops, TimeOut(op) \/ Settle(op)
  PROVE  RInv'
<1>1. /\ Calm /\ UNCHANGED <<turn, compaction, exited, events, outbox, phase>> /\ calls' = calls
      /\ ops[op].state \in {"queued", "pending", "settling"}
      /\ \/ ops' = [ops EXCEPT ![op].state = "failed"]
         \/ ops' = Forward(ops, op) \/ ops' = Done(ops, op)
  BY DEF TimeOut, Settle, Calm, sessionVars, driverVars, pipeVars, nativeVars
<1>2. ops \in [Ops -> Operation]
  BY DEF IInv, TypeInv, OpsOK
<1>3. OpStep(op) /\ ops'[op].state \notin {"refused", "idle"}
  <2>1. CASE ops' = [ops EXCEPT ![op].state = "failed"]
    BY <1>2, <2>1, SetState DEF Calling
  <2>2. CASE ops' = Forward(ops, op)
    BY <1>2, <2>2, SetForward
  <2>3. CASE ops' = Done(ops, op)
    BY <1>2, <2>3, SetState DEF Done, Calling
  <2> QED  BY <1>1, <2>1, <2>2, <2>3
<1>4. Handles(op)
  BY <1>1, <1>3 DEF Handles, OpStep
<1> QED  BY <1>4, HandlesKeeps

(* The Handle makes a call.                                                  *)
LEMMA CallTells ==
  ASSUME IInv, IInv', RInv, Steady, NEW op \in Ops, CallStep(op)
  PROVE  RInv'
<1> DEFINE step == Script(op)[ops[op].step]
           call == [op |-> op, step |-> ops[op].step, mode |-> step.mode,
                    method |-> step.method]
           lost == Gone \/ (quit /\ step.mode # "notify")
<1>1. /\ Calm /\ UNCHANGED <<turn, compaction, exited, events, outbox, phase>>
      /\ ops[op].state = "ready"
  BY DEF CallStep, Calm, sessionVars, driverVars, pipeVars, nativeVars
<1>2. /\ ops \in [Ops -> Operation] /\ calls \in Seq(Handed) /\ calls' \in Seq(Handed)
  BY DEF IInv, TypeInv, OpsOK, CallsOK
<1>3. /\ \/ ops' = [ops EXCEPT ![op].state = "settling"]
         \/ ops' = [ops EXCEPT ![op].state = "failed"]
         \/ ops' = [ops EXCEPT ![op].state = "queued"]
         \/ ops' = Forward(ops, op)
      /\ calls' = calls \/ calls' = Append(calls, call)
  <2>1. CASE step.mode = "settle"
    BY <2>1 DEF CallStep
  <2>2. CASE step.mode # "settle" /\ lost
    BY <2>2 DEF CallStep
  <2>3. CASE step.mode # "settle" /\ ~lost
    BY <2>3 DEF CallStep
  <2> QED  BY <2>1, <2>2, <2>3
<1>4. call.op = op
  OBVIOUS
<1> HIDE DEF call
<1>5. OpStep(op) /\ ops'[op].state \notin {"refused", "idle"}
  <2>1. CASE ops' = Forward(ops, op)
    BY <1>2, <2>1, SetForward
  <2>2. CASE \E s \in {"settling", "failed", "queued"} : ops' = [ops EXCEPT ![op].state = s]
    BY <1>2, <2>2, SetState DEF Calling
  <2> QED  BY <1>3, <2>1, <2>2
<1>6. \A i \in DOMAIN calls' : calls'[i].op = op \/ \E j \in DOMAIN calls : calls[j] = calls'[i]
  <2>1. CASE calls' = calls
    BY <2>1
  <2>2. CASE calls' = Append(calls, call)
    <3>1. DOMAIN calls' = 1..(Len(calls) + 1) /\ DOMAIN calls = 1..Len(calls) /\ Len(calls) \in Nat
      BY <1>2, <2>2, AppendProperties, LenProperties
    <3>2. \A i \in 1..(Len(calls) + 1) : calls'[i] = IF i = Len(calls) + 1 THEN call ELSE calls[i]
      BY <1>2, <2>2
    <3> QED  BY <1>4, <3>1, <3>2
  <2> QED  BY <1>3, <2>1, <2>2
<1>7. Handles(op)
  BY <1>1, <1>5, <1>6 DEF Handles, OpStep
<1> QED  BY <1>7, HandlesKeeps

(* The driver denies a call: the prompt's was not accepted.                  *)
LEMMA DenyTells ==
  ASSUME IInv, IInv', RInv, Steady, DenyCall
  PROVE  RInv'
<1> DEFINE c == Head(calls)
           op == c.op
<1>1. /\ Calm /\ UNCHANGED <<turn, compaction, exited, events, outbox, phase>>
      /\ calls # <<>> /\ calls' = Tail(calls)
      /\ ops' = IF Waiting(c) THEN [ops EXCEPT ![op].state = "refused"] ELSE ops
  BY DEF DenyCall, Calm, Takeable, Tell, sessionVars, driverVars, pipeVars, nativeVars
<1>2. ops \in [Ops -> Operation] /\ CallsOK
  BY DEF IInv, TypeInv, OpsOK
<1>3. /\ 1 \in DOMAIN calls /\ c = calls[1]
      /\ \A i \in DOMAIN calls' : i + 1 \in DOMAIN calls /\ calls'[i] = calls[i + 1]
  BY <1>1, <1>2, HeadDropped
<1>4. op \in Ops
  BY <1>2, <1>3 DEF CallsOK, CallOK, Handed
<1>5. op \in Prompts /\ Waiting(c) => Unheard(op)
  BY <1>1, CalledComing DEF Unheard
<1>6. Waiting(c) => ops[op].state = "queued"
  BY DEF Waiting
<1> HIDE DEF op, c
<1>7. CASE Waiting(c)
  <2>1. OpStep(op) /\ ops'[op].state = "refused"
    BY <1>1, <1>2, <1>4, <1>7, SetState DEF Calling
  <2>2. Handles(op)
    BY <1>1, <1>3, <1>5, <1>6, <1>7, <2>1 DEF Handles, OpStep
  <2> QED  BY <1>4, <2>2, HandlesKeeps
<1>8. CASE ~Waiting(c)
  <2>1. ops' = ops
    BY <1>1, <1>8
  <2>2. Handles(op)
    BY <1>1, <1>3, <2>1 DEF Handles
  <2> QED  BY <1>4, <2>2, HandlesKeeps
<1> QED  BY <1>7, <1>8

(* The session controls a turn; the workload and the exit concern no turn.   *)
LEMMA RestTells ==
  ASSUME IInv, IInv', RInv, Steady,
         \/ \E op \in Ops : Control(op)
         \/ Shutdown \/ Freeze \/ Thaw \/ NativeExits \/ LoopEnds \/ UNCHANGED vars
  PROVE  RInv'
<1>1. CASE \E op \in Ops : Control(op)
  <2>1. PICK op \in Ops : Control(op)
    BY <1>1
  <2>2. /\ Calm /\ UNCHANGED <<turn, compaction, exited, events, outbox, calls>> /\ IsControl(op)
    BY <2>1 DEF Control, Calm, sessionVars, driverVars, pipeVars, nativeVars
  <2>3. \A x \in Ops : x # op => ops'[x] = ops[x]
    <3>1. PICK p \in Current :
            At(op, IF Targetable(p) /\ Script(op) # <<>> THEN "ready" ELSE "refused", p)
      BY <2>1 DEF Control
    <3>2. ops \in [Ops -> Operation]
      BY DEF IInv, TypeInv, OpsOK
    <3> QED  BY <3>1, <3>2 DEF At
  <2>4. \A x \in Prompts \cup {"compact"} : ops'[x] = ops[x]
    BY <2>2, <2>3, OpsKnown DEF IsControl
  <2> QED  BY <2>2, <2>4, ControlsKeep
<1>2. CASE Shutdown \/ Freeze \/ Thaw \/ NativeExits \/ LoopEnds \/ UNCHANGED vars
  <2>1. Calm /\ UNCHANGED <<turn, compaction, exited, events, outbox, calls, ops>>
    BY <1>2 DEF Shutdown, Freeze, Thaw, NativeExits, LoopEnds, Calm, vars, driverVars, pipeVars,
                nativeVars, sessionVars
  <2> QED  BY <2>1, ControlsKeep
<1> QED  BY <1>1, <1>2

-----------------------------------------------------------------------------
(* The session sends a prompt that nobody knows of.                          *)
LEMMA SendPromptTells ==
  ASSUME IInv, IInv', RInv, Steady, NEW p \in Prompts, SendPrompt(p)
  PROVE  RInv'
<1>1. /\ Calm /\ UNCHANGED <<compaction, exited, events, outbox, calls>>
      /\ turn' = [turn EXCEPT ![p] = "sent"] /\ At(p, "ready", p) /\ turn[p] = "none"
  BY DEF SendPrompt, Unsent, Calm, driverVars, pipeVars, nativeVars
<1>2. /\ ops \in [Ops -> Operation] /\ p \in Ops /\ "ready" \in Calling /\ p \in Refs
      /\ turn \in [Prompts -> {"none", "sent", "started", "finished", "refused", "lost"}]
  BY OpsKnown DEF IInv, TypeInv, OpsOK, SessionOK, Calling, Refs
<1>3. /\ \A x \in Ops : x # p => ops'[x] = ops[x]
      /\ ops'[p].state = "ready"
  BY <1>1, <1>2, SetAt
<1>4. "compact" \in Ops /\ "compact" # p
  BY OpsKnown
<1>5. Queue' = Queue
  BY <1>1, SameQueue
<1>6. ops[p].state = "idle" /\ Untouched(p)
  BY <1>1 DEF IInv, CallsOnce, ComingInv, Coming
<1>7. Refusals
  BY <1>2, <1>3, <1>6, OpRefusals
<1>8. ExitLast'
  BY <1>1, <1>5, ExitStays DEF RInv
<1>9. PackKnown'
  <2>1. compaction' = compaction /\ kind' = kind /\ adapter' = adapter /\ ops'["compact"] = ops["compact"]
    BY <1>1, <1>3, <1>4 DEF Calm
  <2> QED  BY <1>1, <1>5, <2>1 DEF PackKnown, PackUnknown, RInv
<1>10. TellInv'
  <2> SUFFICES ASSUME NEW q \in Prompts PROVE ToldOf(q)'
    BY DEF TellInv
  <2>1. progress' = progress /\ (EndsLater(q)' <=> EndsLater(q))
    BY <1>1 DEF Calm, EndsLater
  <2>2. CASE q # p
    <3>1. turn'[q] = turn[q] /\ ops'[q] = ops[q]
      BY <1>1, <1>2, <1>3, <2>2, OpsKnown
    <3> QED  BY <1>5, <2>1, <3>1 DEF RInv, TellInv, ToldOf, StartTold, EndTold, Untold
  <2>3. CASE q = p
    <3>1. /\ turn'[q] = "sent" /\ progress.request # q /\ ~EndsLater(q)
          /\ \A i \in DOMAIN Queue : ~IsStart(Queue[i], q) /\ ~IsEnd(Queue[i], q)
      BY <1>1, <1>2, <1>6, <2>3 DEF Untouched, EndsLater, IsStart, IsEnd, Tells
    <3> QED  BY <1>5, <2>1, <3>1 DEF ToldOf, StartTold, EndTold, Untold
  <2> QED  BY <2>2, <2>3
<1>11. QuietInv'
  <2>1. QueueFrom /\ TurnFrom
    BY <1>1, <1>2, <1>5 DEF QueueFrom, TurnFrom
  <2> QED  BY <1>1, <1>7, <2>1, CalmQuiet DEF RInv
<1> QED  BY <1>1, <1>8, <1>9, <1>10, <1>11, CalmAgents DEF RInv

(* It asks for a compaction, which nobody knows of.                          *)
LEMMA CompactTells ==
  ASSUME IInv, IInv', RInv, Steady, Compact
  PROVE  RInv'
<1>1. /\ Calm /\ UNCHANGED <<turn, exited, events, outbox, calls>> /\ ops["compact"].state = "idle"
      /\ \/ At("compact", "refused", None) /\ compaction' = compaction
         \/ At("compact", "ready", None) /\ compaction' = "asked"
  BY DEF Compact, Calm, driverVars, pipeVars, nativeVars
<1>2. ops \in [Ops -> Operation] /\ "compact" \in Ops /\ {"ready", "refused"} \subseteq Calling /\ None \in Refs
  BY OpsKnown DEF IInv, TypeInv, OpsOK, Calling, Refs, Absent
<1>3. /\ \A x \in Ops : x # "compact" => ops'[x] = ops[x]
      /\ \/ ops'["compact"].state = "refused" /\ compaction' = compaction
         \/ ops'["compact"].state = "ready" /\ compaction' = "asked"
  <2>1. CASE At("compact", "refused", None) /\ compaction' = compaction
    BY <1>2, <2>1, SetAt
  <2>2. CASE At("compact", "ready", None) /\ compaction' = "asked"
    BY <1>2, <2>2, SetAt
  <2> QED  BY <1>1, <2>1, <2>2
<1>4. Queue' = Queue
  BY <1>1, SameQueue
<1>5. Refusals
  BY <1>2, <1>3, OpRefusals, OpsKnown
<1>6. ExitLast'
  BY <1>1, <1>4, ExitStays DEF RInv
<1>7. PackKnown'
  <2>1. PackUnknown /\ kind' = kind /\ adapter' = adapter
    BY <1>1 DEF RInv, PackKnown, Calm
  <2> QED  BY <1>1, <1>3, <1>4, <2>1 DEF PackKnown, PackUnknown
<1>8. TellInv'
  <2>1. FewerTold /\ SameTurnNow
    BY <1>1, <1>4 DEF FewerTold, SameTurnNow, Calm, EndsLater
  <2> QED  BY <1>5, <2>1, TellSame DEF RInv
<1>9. QuietInv'
  <2>1. QueueFrom /\ TurnFrom
    BY <1>1, <1>4 DEF QueueFrom, TurnFrom
  <2> QED  BY <1>1, <1>5, <2>1, CalmQuiet DEF RInv
<1> QED  BY <1>1, <1>6, <1>7, <1>8, <1>9, CalmAgents DEF RInv

(* It learns that a prompt was refused, of which nothing tells, or that the  *)
(* compaction was.                                                           *)
LEMMA LearnTells ==
  ASSUME IInv, IInv', RInv, Steady, SessionLearns
  PROVE  RInv'
<1>1. Calm /\ UNCHANGED <<exited, events, outbox, calls, ops>> /\ Refused
  BY DEF SessionLearns, Refused, Calm, driverVars, pipeVars, nativeVars
<1>2. turn \in [Prompts -> {"none", "sent", "started", "finished", "refused", "lost"}]
  BY DEF IInv, TypeInv, SessionOK
<1>3. Queue' = Queue
  BY <1>1, SameQueue
<1>4. Refusals
  BY <1>1 DEF Refusals, Unheard
<1>5. ExitLast'
  BY <1>1, <1>3, ExitStays DEF RInv
<1>6. PackKnown'
  <2>1. kind' = kind /\ adapter' = adapter
    BY <1>1 DEF Calm
  <2>2. compaction' = compaction \/ (ops["compact"].state = "refused" /\ compaction' = "ended")
    BY <1>1 DEF Refused
  <2> QED  BY <1>1, <1>3, <2>1, <2>2 DEF PackKnown, PackUnknown, RInv
<1>7. TellInv'
  <2> SUFFICES ASSUME NEW q \in Prompts PROVE ToldOf(q)'
    BY DEF TellInv
  <2>1. progress' = progress /\ (EndsLater(q)' <=> EndsLater(q)) /\ ops' = ops
    BY <1>1 DEF Calm, EndsLater
  <2>2. turn'[q] = turn[q] \/ (turn'[q] = "refused" /\ ops[q].state = "refused")
    BY <1>1, <1>2 DEF Refused
  <2>3. CASE turn'[q] = turn[q]
    BY <1>3, <2>1, <2>3 DEF RInv, TellInv, ToldOf, StartTold, EndTold, Untold
  <2>4. CASE turn'[q] = "refused" /\ ops[q].state = "refused"
    <3>1. Unspoken(q)
      BY <2>4 DEF RInv, QuietInv, Unheard
    <3>2. ~EndsLater(q) /\ \A i \in DOMAIN Queue : ~IsStart(Queue[i], q) /\ ~IsEnd(Queue[i], q)
      BY <3>1 DEF Unspoken, IsStart, IsEnd, Tells
    <3> QED  BY <1>3, <2>1, <2>4, <3>2 DEF ToldOf, StartTold, EndTold, Untold
  <2> QED  BY <2>2, <2>3, <2>4
<1>8. QuietInv'
  <2>1. QueueFrom /\ TurnFrom
    BY <1>1, <1>2, <1>3 DEF QueueFrom, TurnFrom, Refused
  <2> QED  BY <1>1, <1>4, <2>1, CalmQuiet DEF RInv
<1> QED  BY <1>1, <1>5, <1>6, <1>7, <1>8, CalmAgents DEF RInv

(* It records an event.                                                      *)
LEMMA RecordTells ==
  ASSUME IInv, IInv', RInv, Steady, Record
  PROVE  RInv'
<1>0. PICK e : e = Head(events)
  OBVIOUS
<1>1. /\ Calm /\ UNCHANGED <<outbox, calls, ops>>
      /\ events # <<>> /\ events' = Tail(events)
      /\ turn' = CASE e.type = "started"  -> [turn EXCEPT ![e.request] = "started"]
                   [] e.type = "finished" -> [turn EXCEPT ![e.request] = "finished"]
                   [] e.type = "exited"   -> Lost
                   [] OTHER               -> turn
      /\ \/ compaction' = compaction
         \/ compaction' = "ended" /\ (e.type = "compacted" \/ compaction = "asked")
      /\ exited' = (exited \/ e.type = "exited")
  BY <1>0 DEF Record, Calm, driverVars, pipeVars, nativeVars
<1>2. EventsOK /\ EventsOK' /\ turn \in [Prompts -> {"none", "sent", "started", "finished", "refused", "lost"}]
  BY DEF IInv, TypeInv, SessionOK
<1>3. /\ 1 \in DOMAIN Queue /\ Queue[1] = e /\ DOMAIN Queue \subseteq Nat \ {0}
      /\ DOMAIN Queue' \subseteq Nat \ {0}
      /\ \A i \in DOMAIN Queue' : i + 1 \in DOMAIN Queue /\ Queue'[i] = Queue[i + 1]
      /\ \A i \in DOMAIN Queue : i # 1 => i - 1 \in DOMAIN Queue' /\ Queue'[i - 1] = Queue[i]
  BY <1>0, <1>1, <1>2, QueueShrinks
<1>4. /\ Queue \in Seq(Reports) /\ Len(Queue) \in Nat /\ DOMAIN Queue = 1..Len(Queue)
  BY <1>2, QueueSeq
<1>5. /\ Queue' \in Seq(Reports) /\ Len(Queue') \in Nat /\ DOMAIN Queue' = 1..Len(Queue')
  <2>1. events' \in Seq(Reports) /\ outbox' \in Seq(Reports)
    BY <1>2 DEF EventsOK
  <2>2. Queue' = events' \o outbox'
    BY DEF Queue
  <2>3. Queue' \in Seq(Reports)
    BY <2>1, <2>2, ConcatProperties
  <2> QED  BY <2>3, LenProperties
<1>6. ~exited /\ (e.type = "exited" => Queue' = <<>>)
  <2>1. ~exited
    BY <1>3, <1>4 DEF RInv, ExitLast
  <2>2. e.type = "exited" => Len(Queue) = 1
    BY <1>3 DEF RInv, ExitLast
  <2>3. ASSUME e.type = "exited" PROVE Queue' = <<>>
    <3>1. Len(Queue') = 0
      BY <1>3, <1>4, <1>5, <2>2, <2>3
    <3> QED  BY <1>5, <3>1, EmptySeq
  <2> QED  BY <2>1, <2>3
<1>7. \A p \in Prompts :
        \/ e.type = "started" /\ e.request = p /\ turn'[p] = "started"
        \/ e.type = "finished" /\ e.request = p /\ turn'[p] = "finished"
        \/ /\ e.type = "exited"
           /\ turn'[p] = IF turn[p] \in {"sent", "started"} THEN "lost" ELSE turn[p]
        \/ ~Tells(e, p) /\ e.type # "exited" /\ turn'[p] = turn[p]
  <2>1. CASE e.type = "started"
    <3>1. turn' = [turn EXCEPT ![e.request] = "started"]
      BY <1>1, <2>1
    <3> QED  BY <1>2, <2>1, <3>1 DEF Tells
  <2>2. CASE e.type = "finished"
    <3>1. turn' = [turn EXCEPT ![e.request] = "finished"]
      BY <1>1, <2>2
    <3> QED  BY <1>2, <2>2, <3>1 DEF Tells
  <2>3. CASE e.type = "exited"
    <3>1. turn' = Lost
      BY <1>1, <2>3
    <3> QED  BY <2>3, <3>1 DEF Lost
  <2>4. CASE e.type \notin {"started", "finished", "exited"}
    <3>1. turn' = turn
      BY <1>1, <2>4
    <3> QED  BY <2>4, <3>1 DEF Tells
  <2> QED  BY <2>1, <2>2, <2>3, <2>4
<1>8. ExitLast'
  <2>1. ASSUME NEW i \in DOMAIN Queue', Queue'[i].type = "exited" PROVE i = Len(Queue')
    <3>1. i + 1 = Len(Queue)
      BY <1>3, <2>1 DEF RInv, ExitLast
    <3>2. i # Len(Queue') => i + 1 \in DOMAIN Queue'
      BY <1>5
    <3> QED  BY <1>3, <1>4, <1>5, <3>1, <3>2
  <2> QED  BY <1>1, <1>6, <2>1 DEF ExitLast
<1>9. PackKnown'
  <2>1. kind' = kind /\ adapter' = adapter
    BY <1>1 DEF Calm
  <2>2. compaction = "none" => compaction' = "none"
    BY <1>1, <1>3 DEF RInv, PackKnown, PackUnknown
  <2>3. compaction' = "none" => compaction = "none"
    BY <1>1
  <2> QED  BY <1>1, <1>3, <2>1, <2>2, <2>3 DEF PackKnown, PackUnknown, RInv
<1>10. TellInv'
  <2> SUFFICES ASSUME NEW p \in Prompts PROVE ToldOf(p)'
    BY DEF TellInv
  <2>1. ToldOf(p)
    BY DEF RInv, TellInv
  <2>2. progress' = progress /\ (EndsLater(p)' <=> EndsLater(p)) /\ ops' = ops
    BY <1>1 DEF Calm, EndsLater
  <2>3. \A x : IsStart(x, p) \/ IsEnd(x, p) <=> Tells(x, p)
    BY DEF IsStart, IsEnd, Tells
  <2>4. CASE e.type = "started" /\ e.request = p /\ turn'[p] = "started"
    <3>1. IsStart(Queue[1], p)
      BY <1>3, <2>4 DEF IsStart
    <3>2. /\ turn[p] = "sent" /\ \A i \in DOMAIN Queue' : ~IsStart(Queue'[i], p)
      BY <1>3, <2>1, <2>3, <3>1 DEF ToldOf, StartTold
    <3>3. /\ StartTold(p)' /\ Untold(p)'
      BY <1>3, <2>1, <2>2, <2>4, <3>1, <3>2 DEF ToldOf, StartTold, Untold
    <3>4. EndTold(p)'
      <4> SUFFICES ASSUME NEW i \in DOMAIN Queue', IsEnd(Queue'[i], p)
                   PROVE  ~EndsLater(p) /\ \A j \in DOMAIN Queue' : Tells(Queue'[j], p) => j <= i
        BY <2>2, <2>4 DEF EndTold
      <4>1. i + 1 \in DOMAIN Queue /\ IsEnd(Queue[i + 1], p)
        BY <1>3
      <4>2. ~EndsLater(p) /\ \A j \in DOMAIN Queue : Tells(Queue[j], p) => j <= i + 1
        BY <2>1, <4>1 DEF ToldOf, EndTold
      <4> QED  BY <1>3, <4>2
    <3> QED  BY <2>1, <2>2, <2>4, <3>3, <3>4 DEF ToldOf
  <2>5. CASE e.type = "finished" /\ e.request = p /\ turn'[p] = "finished"
    <3>1. IsEnd(Queue[1], p)
      BY <1>3, <2>5 DEF IsEnd
    <3>2. ~EndsLater(p) /\ \A i \in DOMAIN Queue' : ~Tells(Queue'[i], p)
      BY <1>3, <2>1, <3>1 DEF ToldOf, EndTold
    <3>3. \A i \in DOMAIN Queue' : ~IsStart(Queue'[i], p) /\ ~IsEnd(Queue'[i], p)
      BY <2>3, <3>2
    <3> QED  BY <1>3, <2>1, <2>2, <2>5, <3>1, <3>2, <3>3 DEF ToldOf, StartTold, EndTold, Untold
  <2>6. CASE e.type = "exited"
    <3>1. DOMAIN Queue' = {}
      BY <1>6, <2>6, Elements
    <3>2. turn'[p] = IF turn[p] \in {"sent", "started"} THEN "lost" ELSE turn[p]
      BY <1>7, <2>6
    <3> QED  BY <2>1, <2>2, <3>1, <3>2 DEF ToldOf, StartTold, EndTold, Untold
  <2>7. CASE ~Tells(e, p) /\ turn'[p] = turn[p]
    <3>1. StartTold(p)'
      <4> SUFFICES ASSUME NEW i \in DOMAIN Queue', IsStart(Queue'[i], p)
                   PROVE  turn[p] = "sent" /\ \A j \in DOMAIN Queue' : Tells(Queue'[j], p) => i <= j
        BY <2>7 DEF StartTold
      <4>1. i + 1 \in DOMAIN Queue /\ IsStart(Queue[i + 1], p)
        BY <1>3
      <4>2. turn[p] = "sent" /\ \A j \in DOMAIN Queue : Tells(Queue[j], p) => i + 1 <= j
        BY <2>1, <4>1 DEF ToldOf, StartTold
      <4> QED  BY <1>3, <4>2
    <3>2. EndTold(p)'
      <4> SUFFICES ASSUME NEW i \in DOMAIN Queue', IsEnd(Queue'[i], p)
                   PROVE  /\ turn[p] \in {"sent", "started"} /\ ~EndsLater(p)
                          /\ \A j \in DOMAIN Queue' : Tells(Queue'[j], p) => j <= i
        BY <2>2, <2>7 DEF EndTold
      <4>1. i + 1 \in DOMAIN Queue /\ IsEnd(Queue[i + 1], p)
        BY <1>3
      <4>2. /\ turn[p] \in {"sent", "started"} /\ ~EndsLater(p)
            /\ \A j \in DOMAIN Queue : Tells(Queue[j], p) => j <= i + 1
        BY <2>1, <4>1 DEF ToldOf, EndTold
      <4> QED  BY <1>3, <4>2
    <3>3. Untold(p)'
      BY <1>3, <2>1, <2>2, <2>7 DEF ToldOf, Untold
    <3> QED  BY <2>1, <2>2, <2>7, <3>1, <3>2, <3>3 DEF ToldOf
  <2> QED  BY <1>7, <2>4, <2>5, <2>6, <2>7
<1>11. QuietInv'
  <2>1. Refusals
    BY <1>1 DEF Refusals, Unheard
  <2>2. QueueFrom
    BY <1>3 DEF QueueFrom
  <2>3. TurnFrom
    BY <1>3, <1>7 DEF TurnFrom, Tells
  <2> QED  BY <1>1, <2>1, <2>2, <2>3, CalmQuiet DEF RInv
<1> QED  BY <1>1, <1>8, <1>9, <1>10, <1>11, CalmAgents DEF RInv

(* The driver leaves, and tells that last.                                   *)
LEMMA LeaveTells ==
  ASSUME IInv, IInv', RInv, Steady, Leave
  PROVE  RInv'
<1>1. /\ Calm /\ UNCHANGED <<turn, compaction, exited>>
      /\ calls' = <<>> /\ outbox = <<>> /\ outbox' = outbox /\ ~Gone
      /\ ops' = [op \in Ops |-> IF ops[op].state \in {"queued", "pending"}
                                  THEN [ops[op] EXCEPT !.state = "failed"] ELSE ops[op]]
  BY DEF Leave, Calm, sessionVars, pipeVars, nativeVars, Gone
<1>2. ops \in [Ops -> Operation] /\ events \in Seq(Reports) /\ events' \in Seq(Reports)
  BY DEF IInv, TypeInv, OpsOK, EventsOK
<1>3. \A op \in Ops : ops'[op].state = IF ops[op].state \in {"queued", "pending"} THEN "failed"
                                       ELSE ops[op].state
  <2> SUFFICES ASSUME NEW op \in Ops
               PROVE  ops'[op].state = IF ops[op].state \in {"queued", "pending"} THEN "failed"
                                       ELSE ops[op].state
    OBVIOUS
  <2>1. ops[op] \in Operation
    BY <1>2
  <2> QED  BY <1>1, <2>1 DEF Operation
<1>4. PICK e : /\ e \in Reports /\ e.type = "exited" /\ events' = Append(events, e)
  <2>1. PICK expected :
          events' = Append(events, Event("exited", None, IF expected THEN "expected" ELSE None))
    BY DEF Leave
  <2> DEFINE s == IF expected THEN "expected" ELSE None
  <2>2. s \in Names
    BY DEF Names, Absent
  <2> HIDE DEF s
  <2>3. Event("exited", None, s) \in Reports /\ Event("exited", None, s).type = "exited"
    BY <2>2 DEF Event, Reports, Happens, Refs, Absent
  <2> QED  BY <2>1, <2>3 DEF s
<1>5. Queue = events /\ Queue' = events'
  BY <1>1, <1>2, ConcatEmptySeq DEF Queue
<1>6. /\ DOMAIN Queue = 1..Len(Queue) /\ Len(Queue) \in Nat
      /\ Len(Queue') = Len(Queue) + 1 /\ DOMAIN Queue' = 1..(Len(Queue) + 1)
      /\ \A i \in DOMAIN Queue' :
           \/ i \in DOMAIN Queue /\ Queue'[i] = Queue[i]
           \/ i = Len(Queue') /\ Queue'[i] = e
  BY <1>2, <1>4, <1>5, AppendProperties, LenProperties
<1>7. Refusals
  BY <1>3, OpsKnown DEF Refusals, Unheard
<1>8. ExitLast'
  BY <1>1, <1>6 DEF ExitLast, IInv, ExitInv
<1>9. PackKnown'
  <2>1. "compact" \in Ops /\ DOMAIN calls' = {}
    BY <1>1, OpsKnown, Elements
  <2>2. kind' = kind /\ adapter' = adapter
    BY <1>1 DEF Calm
  <2> QED  BY <1>1, <1>3, <1>4, <1>6, <2>1, <2>2 DEF PackKnown, PackUnknown, RInv
<1>10. FewerTold /\ SameTurnNow
  BY <1>1, <1>4, <1>6 DEF FewerTold, TurnEvent, SameTurnNow, Calm, EndsLater
<1>11. TellInv'
  BY <1>7, <1>10, TellSame DEF RInv
<1>12. QuietInv'
  <2>1. QueueFrom /\ TurnFrom
    BY <1>1, <1>10 DEF QueueFrom, FewerTold, TurnFrom
  <2> QED  BY <1>1, <1>7, <2>1, CalmQuiet DEF RInv
<1> QED  BY <1>1, <1>8, <1>9, <1>11, <1>12, CalmAgents DEF RInv

-----------------------------------------------------------------------------
(* What the adapter of a harness notes of a call: a compaction that is asked *)
(* for, a prompt that Pi has not accepted, and what a message of Claude is.  *)
LEMMA CallNoted ==
  ASSUME IInv, NEW c, Accepted(c)
  PROVE  /\ kind \in {"codex", "pi"} /\ c.op # "compact" => adapter'.compaction = adapter.compaction
         /\ kind = "pi" => (adapter'.accepted <=> adapter.accepted /\ ~CarriesPrompt(c))
         /\ kind = "claude" =>
              /\ adapter'.reply = adapter.reply
              /\ \A u \in adapter'.users :
                   \/ u \in adapter.users
                   \/ /\ u.kind = "compact" => c.op = "compact"
                      /\ \A p \in Prompts : u.id = PromptCall(p) => u.kind # "bootstrap"
<1> DEFINE request == IF CarriesPrompt(c) THEN c.op ELSE None
           id == <<c.op, c.step>>
<1>1. /\ PlanOK /\ c.op \in Ops /\ c.step \in DOMAIN Script(c.op) /\ CallOK(c)
      /\ c.method = Script(c.op)[c.step].method
  BY DEF Accepted, Accepts, CallOK, IInv, TypeInv
<1>2. adapter' = Encode(id, c.method, request)
  BY DEF Accepted
<1>3. request = None <=> ~CarriesPrompt(c)
  BY NamesAssumption DEF Accepted
<1>4. id[1] = c.op /\ id[2] = c.step
  OBVIOUS
<1> HIDE DEF request, id
<1>5. ASSUME kind = "codex", c.op # "compact" PROVE adapter'.compaction = adapter.compaction
  <2>1. adapter' = Codex!Encode(adapter, id, c.method, request) /\ adapter \in CodexAdapters
    BY <1>2, <1>5 DEF Encode, IInv, TypeInv, AdapterOK
  <2>2. c.method # "thread/compact/start"
    BY <1>1, <1>5, ScriptMethods
  <2> QED  BY <2>1, <2>2 DEF Codex!Encode, CodexAdapters
<1>6. ASSUME kind = "pi"
      PROVE  /\ c.op # "compact" => adapter'.compaction = adapter.compaction
             /\ adapter'.accepted <=> adapter.accepted /\ ~CarriesPrompt(c)
  <2>1. adapter' = Pi!Encode(adapter, id, c.method, request) /\ adapter \in PiAdapters
    BY <1>2, <1>6 DEF Encode, IInv, TypeInv, AdapterOK
  <2>2. c.method = "compact" => c.op = "compact"
    BY <1>1, <1>6, Carrier
  <2>3. /\ adapter'.compaction = IF c.method = "compact" THEN id ELSE adapter.compaction
        /\ adapter'.accepted = (adapter.accepted /\ request = None)
    BY <2>1 DEF Pi!Encode, PiAdapters
  <2> QED  BY <1>3, <2>2, <2>3
<1>7. ASSUME kind = "claude"
      PROVE  /\ adapter'.reply = adapter.reply
             /\ \A u \in adapter'.users :
                  \/ u \in adapter.users
                  \/ /\ u.kind = "compact" => c.op = "compact"
                     /\ \A p \in Prompts : u.id = PromptCall(p) => u.kind # "bootstrap"
  <2>1. adapter' = Claude!Encode(adapter, id, c.method, request) /\ adapter \in ClaudeAdapters
    BY <1>2, <1>7 DEF Encode, IInv, TypeInv, AdapterOK
  <2>2. /\ adapter'.reply = adapter.reply
        /\ adapter'.users = IF c.method \in {"prompt", "bootstrap", "compact"}
                              THEN adapter.users \cup {[id |-> id, kind |-> c.method]}
                              ELSE adapter.users
    BY <2>1 DEF Claude!Encode, ClaudeAdapters
  <2>3. c.method = "compact" => c.op = "compact"
    <3>1. Script(c.op)[c.step].method = "compact" <=> c.op = "compact"
      BY <1>1, <1>7, ScriptMethods
    <3> QED  BY <1>1, <3>1
  <2>4. ASSUME NEW p \in Prompts, id = PromptCall(p) PROVE c.method # "bootstrap"
    <3>1. c.op = p /\ c.step = Len(Script(p))
      BY <1>4, <2>4 DEF PromptCall
    <3>2. CarriesPrompt(c)
      BY <3>1 DEF Accepted
    <3>3. c.method \in {"turn/start", "prompt", "session/prompt"}
      BY <1>1, <3>1, ScriptMethods
    <3> QED  BY <3>3
  <2> QED  BY <2>2, <2>3, <2>4
<1> QED  BY <1>5, <1>6, <1>7

(* A prompt that is taken was not heard.                                     *)
LEMMA AcceptTells ==
  ASSUME IInv, IInv', SInv, RInv, Steady, AcceptCall
  PROVE  RInv'
<1>0. PICK c : c = Head(calls) /\ Accepted(c)
  BY AcceptedCall
<1>1. /\ UNCHANGED <<kind, turn, compaction, exited, events, outbox, stdout, native>>
      /\ progress' = IF CarriesPrompt(c) THEN Fresh(c.op) ELSE progress
      /\ CarriesPrompt(c) => /\ ~Unfinished(progress) /\ turn[c.op] = "sent" /\ Untouched(c.op)
                             /\ Coming(c.op) /\ c.op \in Prompts
      /\ c.op \in Ops /\ OpStep(c.op)
      /\ ops' = ops \/ (ops[c.op].state = "queued" /\ ops'[c.op].state \in {"ok", "pending"})
      /\ 1 \in DOMAIN calls /\ c = calls[1]
      /\ \A i \in DOMAIN calls' : i + 1 \in DOMAIN calls /\ calls'[i] = calls[i + 1]
      /\ kind = "cursor" => adapter'.terminal = adapter.terminal
  BY <1>0 DEF Accepted, Accepts
<1>2. /\ kind \in {"codex", "pi"} /\ c.op # "compact" => adapter'.compaction = adapter.compaction
      /\ kind = "pi" => (adapter'.accepted <=> adapter.accepted /\ ~CarriesPrompt(c))
      /\ kind = "claude" =>
           /\ adapter'.reply = adapter.reply
           /\ \A u \in adapter'.users :
                \/ u \in adapter.users
                \/ /\ u.kind = "compact" => c.op = "compact"
                   /\ \A p \in Prompts : u.id = PromptCall(p) => u.kind # "bootstrap"
  BY <1>0, CallNoted
<1>3. /\ Queue' = Queue /\ \A p \in Prompts : EndsLater(p)' <=> EndsLater(p)
      /\ \A p : PromptCall(p)' = PromptCall(p)
  BY <1>1, SameQueue, SameTerms DEF EndsLater
<1>4. /\ CarriesPrompt(c) => progress'.request = c.op /\ ~progress'.started /\ ~progress'.finished
      /\ ~CarriesPrompt(c) => progress' = progress
  BY <1>1 DEF Fresh, Resting
<1>5. Refusals
  <2>1. CASE ops' = ops
    BY <2>1 DEF Refusals, Unheard
  <2>2. CASE ops[c.op].state = "queued" /\ ops'[c.op].state \in {"ok", "pending"}
    BY <1>1, <2>2, OpRefusals DEF OpStep
  <2> QED  BY <1>1, <2>1, <2>2
<1>6. ExitLast'
  BY <1>1, <1>3, ExitStays DEF RInv
<1>7. PackKnown'
  <2>1. ops'["compact"].state = "idle" => ops["compact"].state = "idle"
    BY <1>1, OpsKnown DEF OpStep
  <2>2. ASSUME PackUnknown PROVE PackUnknown'
    <3>1. c.op # "compact" /\ ops'["compact"] = ops["compact"]
      BY <1>1, <2>2, OpsKnown DEF PackUnknown, OpStep
    <3>2. \A i \in DOMAIN calls' : calls'[i].op # "compact"
      BY <1>1, <2>2 DEF PackUnknown
    <3> QED  BY <1>1, <1>2, <1>3, <2>2, <3>1, <3>2 DEF PackUnknown
  <2> QED  BY <1>1, <2>1, <2>2 DEF PackKnown, RInv
<1>8. TellInv'
  <2> SUFFICES ASSUME NEW q \in Prompts PROVE ToldOf(q)'
    BY DEF TellInv
  <2>1. ToldOf(q)
    BY DEF RInv, TellInv
  <2>2. StartTold(q)' /\ EndTold(q)'
    BY <1>1, <1>3, <2>1 DEF ToldOf, StartTold, EndTold
  <2>3. Untold(q)'
    <3>1. CASE CarriesPrompt(c) /\ q = c.op
      <4>1. /\ turn[q] = "sent" /\ ~EndsLater(q)
            /\ \A i \in DOMAIN Queue : ~IsStart(Queue[i], q) /\ ~IsEnd(Queue[i], q)
        BY <1>1, <3>1 DEF Untouched, EndsLater, IsStart, IsEnd, Tells
      <4> QED  BY <1>1, <1>3, <4>1 DEF Untold
    <3>2. CASE CarriesPrompt(c) /\ q # c.op
      BY <1>4, <3>2 DEF Untold
    <3>3. CASE ~CarriesPrompt(c)
      BY <1>1, <1>3, <1>4, <2>1, <3>3 DEF ToldOf, Untold
    <3> QED  BY <3>1, <3>2, <3>3
  <2> QED  BY <1>1, <1>3, <1>5, <2>1, <2>2, <2>3 DEF ToldOf, Refusals
<1>9. QuietInv'
  <2> SUFFICES ASSUME NEW p \in Prompts, Unheard(p)' PROVE Unspoken(p)' /\ Hushed(p)'
    BY DEF QuietInv
  <2>1. Unheard(p)
    <3>1. CASE Coming(p)' \/ ops'[p].state = "refused"
      BY <1>5, <3>1 DEF Steady, Refusals, Unheard
    <3>2. CASE kind # "cursor" /\ Declined(p)'
      <4>1. Written(p)' => Written(p) \/ Coming(p)
        <5>1. /\ Carries(Sends(c)) <=> CarriesPrompt(c)
              /\ CarriesPrompt(c) => Sends(c).ref = c.op
          BY <1>0, <3>2, SentFrame
        <5>2. \A i \in DOMAIN stdin' : (i \in DOMAIN stdin /\ stdin'[i] = stdin[i]) \/ stdin'[i] = Sends(c)
          BY <1>0 DEF Accepted, Joins
        <5>3. Written(p)' => \E i \in DOMAIN stdin' : Carries(stdin'[i]) /\ stdin'[i].ref = p
          BY DEF Written, Carries
        <5> QED  BY <1>1, <5>1, <5>2, <5>3, WrittenCarries
      <4>2. Declined(p)' => Declined(p) \/ Coming(p)
        BY <1>1, <1>2, <1>3, <4>1, SameTerms DEF Declined, SaysNo
      <4> QED  BY <1>1, <3>2, <4>2 DEF Unheard
    <3> QED  BY <1>1, <3>1, <3>2 DEF Unheard
  <2>2. Unspoken(p) /\ Hushed(p)
    BY <2>1 DEF RInv, QuietInv
  <2>3. Unspoken(p)'
    BY <1>1, <1>3, <2>2 DEF Unspoken
  <2>4. Hushed(p)'
    <3>2. ASSUME kind = "pi", progress'.request = p
          PROVE  ~adapter'.accepted /\ \A i \in DOMAIN stdout : stdout[i].type # "agent_start"
      <4>1. CASE CarriesPrompt(c)
        BY <1>1, <1>2, <3>2, <4>1 DEF RInv, AgentInv
      <4>2. CASE ~CarriesPrompt(c)
        BY <1>1, <1>2, <1>4, <2>2, <3>2, <4>2 DEF Hushed
      <4> QED  BY <4>1, <4>2
    <3> QED  BY <1>1, <2>2, <3>2, SameTerms DEF Hushed
  <2> QED  BY <2>3, <2>4
<1>10. AgentInv'
  <2>1. CASE CarriesPrompt(c)
    BY <1>1, <2>1 DEF RInv, AgentInv
  <2>2. CASE ~CarriesPrompt(c)
    BY <1>1, <1>4, <2>2, SameTerms DEF RInv, AgentInv, Unfinished
  <2> QED  BY <2>1, <2>2
<1>11. UsersInv'
  BY <1>1, <1>2, <1>3 DEF RInv, UsersInv
<1> QED  BY <1>6, <1>7, <1>8, <1>9, <1>10, <1>11 DEF RInv

-----------------------------------------------------------------------------
(* What the events of a message are about.  Codex tells of a turn when it    *)
(* starts, and when the native turn that its adapter knows is over.          *)
LEMMA CodexTells ==
  ASSUME kind = "codex", adapter \in CodexAdapters, progress \in Turned, NEW m \in Messages,
         NEW i \in DOMAIN Receive(m).events, TurnEvent(Receive(m).events[i])
  PROVE  \/ m.type = "turn/started"
         \/ m.type = "turn/completed" /\ progress.turn # None /\ m.ref = progress.turn
<1> DEFINE q == Codex!Rejected(adapter, progress, m)
           c == Codex!CompactionEvents(adapter, m)
           r == Receive(m)
<1> SUFFICES ASSUME m.type # "turn/started",
                    ~(m.type = "turn/completed" /\ progress.turn # None /\ m.ref = progress.turn)
             PROVE  FALSE
  OBVIOUS
<1>1. q.turn = progress.turn
  BY DEF Codex!Rejected, Turned
<1>2. r.events = c \o <<>>
  <2>1. CASE m.type = "item/started" /\ m.ref = q.turn
    BY <2>1 DEF Receive, Codex!Receive
  <2>2. CASE ~(m.type = "item/started" /\ m.ref = q.turn)
    BY <1>1, <2>2 DEF Receive, Codex!Receive
  <2> QED  BY <2>1, <2>2
<1> DEFINE e == Event("compacted", None, IF m.type = "turn/completed" THEN m.status ELSE "completed")
<1>3. c = <<>> \/ c = <<e>>
  BY CodexWords DEF Codex!CompactionEvents
<1>4. ~TurnEvent(e)
  BY DEF TurnEvent, Event
<1>5. r.events = c
  <2> HIDE DEF e, c
  <2>1. <<>> \o <<>> = <<>> /\ <<e>> \o <<>> = <<e>>
    OBVIOUS
  <2> QED  BY <1>2, <1>3, <2>1
<1> HIDE DEF e, c, r
<1>6. i \in DOMAIN c /\ TurnEvent(c[i])
  BY <1>5 DEF r
<1> QED  BY <1>3, <1>4, <1>6, Elements

(* Pi tells of one when its agent starts or is found idle, and of a          *)
(* compaction when it answers that call.                                     *)
LEMMA PiTells ==
  ASSUME kind = "pi", adapter \in PiAdapters, progress \in Turned, NEW m \in Messages
  PROVE  LET r == Receive(m)
         IN  /\ \A i \in DOMAIN r.events :
                  /\ TurnEvent(r.events[i]) => Pi!IdleProbe(adapter, m) \/ m.type = "agent_start"
                  /\ r.events[i].type = "compacted" => adapter.compaction # None
             /\ r.adapter.accepted =>
                  adapter.accepted \/ (Pi!Response(m, adapter.prompt) /\ m.status = "ok")
<1> DEFINE a == adapter
           b == [a EXCEPT !.compaction = IF Pi!Response(m, a.compaction) THEN None ELSE @,
                          !.accepted   = IF Pi!Response(m, a.prompt) THEN m.status = "ok" ELSE @]
           e == Event("compacted", None, IF m.status = "ok" THEN "completed" ELSE "failed")
           g == Event("finished", progress.request, Pi!Outcome(a, progress))
           h == Event("started", progress.request, None)
           c == IF Pi!Response(m, a.compaction) THEN <<e>> ELSE <<>>
           f == IF Pi!IdleProbe(a, m) THEN FinishEvents(progress, Pi!Outcome(a, progress)) ELSE <<>>
           s == IF m.type = "agent_start" THEN StartEvents(progress) ELSE <<>>
           q == Pi!TurnAfter(a, progress, m)
           r == Receive(m)
<1>1. r.adapter = b /\ r.events = c \o f \o s
  BY PiWords DEF Receive, Pi!Receive
<1>2. r.adapter.accepted => adapter.accepted \/ (Pi!Response(m, adapter.prompt) /\ m.status = "ok")
  BY <1>1 DEF PiAdapters
<1>3. /\ c = <<>> \/ (c = <<e>> /\ adapter.compaction # None)
      /\ f = <<>> \/ (f = <<g>> /\ Pi!IdleProbe(adapter, m))
      /\ s = <<>> \/ (s = <<h>> /\ m.type = "agent_start")
  BY DEF Pi!Response, FinishEvents, StartEvents
<1>4. ~TurnEvent(e) /\ e.type = "compacted" /\ g.type # "compacted" /\ h.type # "compacted"
  BY DEF TurnEvent, Event
<1> DEFINE S == {e, g, h}
<1>5. c \in Seq(S) /\ f \in Seq(S) /\ s \in Seq(S)
  <2>1. <<>> \in Seq(S) /\ <<e>> \in Seq(S) /\ <<g>> \in Seq(S) /\ <<h>> \in Seq(S)
    <3> HIDE DEF e, g, h
    <3> QED  BY EmptySeq
  <2> HIDE DEF e, g, h, c, f, s, S
  <2> QED  BY <1>3, <2>1
<1>6. /\ Joins(c, f, c \o f) /\ c \o f \in Seq(S) /\ Joins(c \o f, s, c \o f \o s)
  <2> HIDE DEF c, f, s, S
  <2>1. c \o f \in Seq(S)
    BY <1>5, ConcatProperties
  <2> QED  BY <1>5, <2>1, Joined
<1> HIDE DEF e, g, h, c, f, s, S, b
<1>7. /\ \A i \in DOMAIN c : c[i] = e /\ adapter.compaction # None
      /\ \A i \in DOMAIN f : f[i] = g /\ Pi!IdleProbe(adapter, m)
      /\ \A i \in DOMAIN s : s[i] = h /\ m.type = "agent_start"
  BY <1>3, Elements
<1>8. \A i \in DOMAIN (c \o f) : \/ (c \o f)[i] = e /\ adapter.compaction # None
                                 \/ (c \o f)[i] = g /\ Pi!IdleProbe(adapter, m)
  BY <1>6, <1>7 DEF Joins
<1>9. \A i \in DOMAIN r.events : \/ r.events[i] = e /\ adapter.compaction # None
                                 \/ r.events[i] = g /\ Pi!IdleProbe(adapter, m)
                                 \/ r.events[i] = h /\ m.type = "agent_start"
  BY <1>1, <1>6, <1>7, <1>8 DEF Joins
<1> HIDE DEF r
<1>10. \A i \in DOMAIN r.events :
         /\ TurnEvent(r.events[i]) => Pi!IdleProbe(adapter, m) \/ m.type = "agent_start"
         /\ r.events[i].type = "compacted" => adapter.compaction # None
  BY <1>4, <1>9
<1> QED  BY <1>2, <1>10 DEF r

(* Claude tells of one when a message of the active prompt starts or ends,   *)
(* and of a compaction that it was sent; it denies what it was sent.         *)
LEMMA ClaudeTells ==
  ASSUME kind = "claude", adapter \in ClaudeAdapters, progress \in Turned, NEW m \in Messages
  PROVE  LET r == Receive(m)
         IN  /\ \A i \in DOMAIN r.events :
                  /\ TurnEvent(r.events[i]) =>
                       /\ Claude!IsActive(adapter, m)
                       /\ m.type = "result" \/ (m.type = "lifecycle" /\ m.status = "started")
                  /\ r.events[i].type = "compacted" => \E u \in adapter.users : u.kind = "compact"
             /\ r.adapter.users \subseteq adapter.users
             /\ \A p : SaysNo(r.adapter, p) /\ m.type = "result" =>
                  \E u \in adapter.users : u.id = PromptCall(p) /\ u.kind = "bootstrap"
<1> DEFINE a == adapter
           quiet == [a EXCEPT !.reply = NoAnswer]
           r == Receive(m)
           packs == \E u \in adapter.users : u.kind = "compact"
<1>1. /\ quiet \in ClaudeAdapters /\ quiet.users = a.users
      /\ Claude!IsActive(quiet, m) <=> Claude!IsActive(a, m)
      /\ quiet.reply = NoAnswer
  <2>1. NoAnswer \in Replies
    BY EmptySeq DEF NoAnswer, Replies
  <2> QED  BY <2>1 DEF ClaudeAdapters, Claude!IsActive
<1> HIDE DEF quiet
<1>2. CASE m.type = "result"
  <2> DEFINE well == m.status = "success"
             boots == \E u \in Claude!Called(quiet, m) : u.kind = "bootstrap"
             packed == \E u \in Claude!Called(quiet, m) : u.kind = "compact"
             x == IF boots THEN Answer(m.id, well) ELSE NoAnswer
             y == IF Claude!IsActive(quiet, m) THEN None ELSE quiet.active
             u == quiet.users \ Claude!Called(quiet, m)
             z == ~well
             st == IF quiet.interrupting THEN "interrupted" ELSE IF well THEN "completed" ELSE "failed"
             e == Event("compacted", None, IF quiet.compacted /\ well THEN "completed" ELSE "failed")
             g == Event("finished", progress.request, st)
             c == IF packed THEN <<e>> ELSE <<>>
             f == IF Claude!IsActive(quiet, m) THEN FinishEvents(progress, st) ELSE <<>>
  <2>1. /\ r.adapter = [quiet EXCEPT !.users = u, !.failed = z, !.reply = x, !.active = y]
        /\ r.events = c \o f
    BY <1>2, ClaudeWords DEF Receive, Claude!Receive, Claude!OnResult, quiet
  <2>2. /\ c = <<>> \/ (c = <<e>> /\ packed)
        /\ f = <<>> \/ (f = <<g>> /\ Claude!IsActive(a, m))
        /\ ~TurnEvent(e) /\ e.type = "compacted" /\ g.type # "compacted"
    BY <1>1 DEF FinishEvents, TurnEvent, Event
  <2>3. packed => packs
    BY <1>1 DEF Claude!Called
  <2>4. u \subseteq a.users
    BY <1>1
  <2>5. boots /\ (\E p : m.id = PromptCall(p)) =>
          \E v \in adapter.users : v.id = m.id /\ v.kind = "bootstrap"
    BY <1>1 DEF Claude!Called
  <2> HIDE DEF r, e, g, c, f, u, z, y, packed, boots
  <2>6. r.adapter.users = u /\ r.adapter.reply = x
    <3> HIDE DEF x
    <3> QED  BY <1>1, <2>1 DEF ClaudeAdapters
  <2>7. \A i \in DOMAIN r.events : /\ TurnEvent(r.events[i]) => Claude!IsActive(a, m)
                                   /\ r.events[i].type = "compacted" => packed
    <3> DEFINE S == {e, g}
    <3>1. c \in Seq(S) /\ f \in Seq(S)
      <4>1. <<>> \in Seq(S) /\ <<e>> \in Seq(S) /\ <<g>> \in Seq(S)
        BY EmptySeq
      <4> HIDE DEF S
      <4> QED  BY <2>2, <4>1
    <3> HIDE DEF S
    <3>2. Joins(c, f, c \o f)
      BY <3>1, Joined
    <3>3. /\ \A i \in DOMAIN c : c[i] = e /\ packed
          /\ \A i \in DOMAIN f : f[i] = g /\ Claude!IsActive(a, m)
      BY <2>2, Elements
    <3>4. \A i \in DOMAIN r.events : \/ r.events[i] = e /\ packed
                                     \/ r.events[i] = g /\ Claude!IsActive(a, m)
      BY <2>1, <3>2, <3>3 DEF Joins
    <3> QED  BY <2>2, <3>4
  <2>8. ASSUME NEW p, SaysNo(r.adapter, p)
        PROVE  \E v \in adapter.users : v.id = PromptCall(p) /\ v.kind = "bootstrap"
    <3>1. x # NoAnswer /\ x[1].id = PromptCall(p)
      <4> HIDE DEF x
      <4> QED  BY <2>6, <2>8 DEF SaysNo
    <3>2. boots /\ Answer(m.id, well)[1].id = m.id
      BY <3>1, AnswerParts
    <3>3. m.id = PromptCall(p)
      <4> HIDE DEF well
      <4> QED  BY <3>1, <3>2
    <3> QED  BY <2>5, <3>2, <3>3
  <2> QED  BY <1>2, <2>3, <2>4, <2>6, <2>7, <2>8 DEF r
<1>3. CASE m.type = "lifecycle"
  <2> DEFINE x == Claude!LifecycleReply(quiet, m)
             begins == m.status = "started" /\ Claude!IsActive(quiet, m) /\ Claude!Called(quiet, m) # {}
             h == Event("started", progress.request, None)
  <2>1. r.adapter = [quiet EXCEPT !.reply = x] /\ r.events = IF begins THEN StartEvents(progress) ELSE <<>>
    BY <1>3, ClaudeWords DEF Receive, Claude!Receive, Claude!OnLifecycle, quiet
  <2>2. r.events = <<>> \/ (r.events = <<h>> /\ begins)
    BY <2>1 DEF StartEvents
  <2>3. h.type # "compacted"
    BY DEF Event
  <2>4. begins => m.status = "started" /\ Claude!IsActive(a, m)
    BY <1>1
  <2> HIDE DEF r, x, begins, h
  <2>5. r.adapter.users = a.users
    BY <1>1, <2>1 DEF ClaudeAdapters
  <2>6. \A i \in DOMAIN r.events : r.events[i] = h /\ begins
    BY <2>2, Elements
  <2> QED  BY <1>3, <2>3, <2>4, <2>5, <2>6 DEF r
<1>4. CASE m.type = "control_response"
  <2> DEFINE x == IF m.id = <<"close", 1>> THEN NoAnswer ELSE Answer(m.id, m.status = "success")
  <2>1. r.adapter = [a EXCEPT !.reply = x] /\ r.events = <<>>
    BY <1>4, ClaudeWords DEF Receive, Claude!Receive
  <2> HIDE DEF r, x
  <2>2. r.adapter.users = a.users
    BY <2>1 DEF ClaudeAdapters
  <2> QED  BY <1>4, <2>1, <2>2, Elements DEF r
<1>5. CASE m.type \notin {"control_response", "lifecycle", "result"}
  <2> DEFINE x == quiet.compacted \/ m.type = "compact_boundary"
  <2>1. r.adapter = [quiet EXCEPT !.compacted = x] /\ r.events = <<>>
    BY <1>5, ClaudeWords DEF Receive, Claude!Receive, quiet
  <2> HIDE DEF r, x
  <2>2. r.adapter.users = a.users
    BY <1>1, <2>1 DEF ClaudeAdapters
  <2> QED  BY <1>5, <2>1, <2>2, Elements DEF r
<1> QED  BY <1>2, <1>3, <1>4, <1>5

(* Cursor tells of no compaction, and keeps an end back only while a turn is *)
(* at work.                                                                  *)
LEMMA CursorTells ==
  ASSUME kind = "cursor", adapter \in CursorAdapters, progress \in Turned, NEW m \in Messages
  PROVE  LET r == Receive(m)
         IN  /\ \A i \in DOMAIN r.events : r.events[i].type # "compacted"
             /\ r.adapter.terminal = adapter.terminal \/ adapter.prompt # None
<1> DEFINE a == adapter
           b == [a EXCEPT !.ack = None, !.responses = <<>>]
           h == Event("started", progress.request, None)
           r == Receive(m)
<1>1. b.prompt = a.prompt /\ b.terminal = a.terminal
  BY DEF CursorAdapters
<1>2. StartEvents(progress) \in {<<>>, <<h>>} /\ h.type # "compacted"
  BY DEF StartEvents, Event
<1> HIDE DEF b, h
<1>3. CASE Cursor!AnswersPrompt(b, m)
  <2>0. m.type = "response"
    BY <1>3 DEF Cursor!AnswersPrompt
  <2>1. r.events \in {<<>>, StartEvents(progress)}
    <3>1. CASE Cursor!Restarts(b, m)
      BY <1>3, <2>0, <3>1 DEF Receive, Cursor!Receive, Cursor!Restarted, b
    <3>2. CASE ~Cursor!Restarts(b, m)
      BY <1>3, <2>0, <3>2, CursorWords DEF Receive, Cursor!Receive, Cursor!Over, b
    <3> QED  BY <3>1, <3>2
  <2>2. adapter.prompt # None
    BY <1>1, <1>3 DEF Cursor!AnswersPrompt
  <2> HIDE DEF r
  <2> QED  BY <1>2, <2>1, <2>2, Elements DEF r
<1>4. CASE ~Cursor!AnswersPrompt(b, m) /\ m.type \in {"update", "tool"} /\ b.prompt # None
  <2>1. r.events = StartEvents(progress)
    BY <1>4, CursorWords DEF Receive, Cursor!Receive, b
  <2> HIDE DEF r
  <2> QED  BY <1>1, <1>2, <1>4, <2>1, Elements DEF r
<1>5. CASE ~Cursor!AnswersPrompt(b, m) /\ ~(m.type \in {"update", "tool"} /\ b.prompt # None)
  <2>1. r.events = <<>> /\ r.adapter = b
    BY <1>5 DEF Receive, Cursor!Receive, b
  <2> HIDE DEF r
  <2> QED  BY <1>1, <2>1, Elements DEF r
<1> QED  BY <1>3, <1>4, <1>5
-----------------------------------------------------------------------------
(* What the driver hears in a message m, received as r: of the turn that it  *)
(* works on only when that is heard, of a compaction when one may have been  *)
(* asked for, and of a refusal what the message says.                        *)
Hearing(m, r) ==
  /\ \A i \in DOMAIN r.events :
       /\ TurnEvent(r.events[i]) => ~Unheard(progress.request)
       /\ r.events[i].type = "compacted" => ~PackUnknown
  /\ kind \in {"codex", "pi"} => r.adapter.compaction \in {adapter.compaction, None}
  /\ kind = "claude" => /\ r.adapter.users \subseteq adapter.users
                        /\ \A p \in Prompts : SaysNo(r.adapter, p) => Declines(m, p)
  /\ kind = "pi" /\ progress.request # None =>
       /\ r.adapter.accepted => adapter.accepted \/ Concerns(m, progress.request)
       /\ r.progress.finished => progress.finished \/ Final(m, progress.request)
  /\ kind = "cursor" => \/ r.adapter.terminal = adapter.terminal
                        \/ Unfinished(progress) /\ ~Unheard(progress.request)

(* The turn that events tell of is that of a prompt.                         *)
LEMMA ToldPrompt ==
  ASSUME IInv, NEW m, NEW r, Reading(m, r), NEW i \in DOMAIN r.events, TurnEvent(r.events[i])
  PROVE  progress.request \in Prompts /\ Unfinished(progress) /\ r.events[i].request = progress.request
BY DEF Reading, Speaks, Telling, Unfinished, IInv, TypeInv, DriverOK, Turned, Refs, Absent

(* A prompt that a message concerns is heard.                                *)
LEMMA ConcernHeard ==
  ASSUME RInv, NEW p \in Prompts, NEW i \in DOMAIN stdout, Concerns(stdout[i], p)
  PROVE  ~Unheard(p)
BY DEF RInv, QuietInv, Hushed

(* So it is with Codex,                                                      *)
LEMMA CodexHearing ==
  ASSUME IInv, SInv, RInv, kind = "codex", NEW m, NEW r, Reading(m, r)
  PROVE  Hearing(m, r)
<1>1. /\ adapter \in CodexAdapters /\ progress \in Turned /\ m \in Messages /\ r = Receive(m)
      /\ 1 \in DOMAIN stdout /\ m = stdout[1]
  BY DEF IInv, TypeInv, AdapterOK, DriverOK, Reading
<1>2. ASSUME NEW i \in DOMAIN r.events, TurnEvent(r.events[i]) PROVE ~Unheard(progress.request)
  <2>1. progress.request \in Prompts /\ Unfinished(progress)
    BY <1>2, ToldPrompt
  <2>2. \/ m.type = "turn/started"
        \/ m.type = "turn/completed" /\ progress.turn # None /\ m.ref = progress.turn
    BY <1>1, <1>2, CodexTells
  <2>3. ~PackStart(m)
    <3>1. PackStart(m) => adapter.compaction # None
      BY <1>1 DEF SInv, PackInv, PackPipes
    <3>2. adapter.compaction # None => ~PackComing
      BY DEF SInv, PackInv, PackCalls
    <3>3. ~PackComing => ops["compact"].state # "idle"
      BY DEF PackComing
    <3>4. adapter.compaction # None => PackLive
      BY DEF PackLive
    <3>5. PackLive /\ ops["compact"].state # "idle" => ~Unfinished(progress)
      BY DEF SInv, PackInv, PackSession
    <3> QED  BY <2>1, <3>1, <3>2, <3>3, <3>4, <3>5
  <2>4. m.type = "turn/started" => m.ref = progress.request
    BY <1>1, <2>3 DEF SInv, CodexInv, PackStart
  <2>5. m.type = "turn/completed" /\ progress.turn # None /\ m.ref = progress.turn => m.ref = progress.request
    BY <2>1 DEF SInv, CodexInv
  <2>6. Concerns(m, progress.request)
    BY <2>2, <2>4, <2>5 DEF Concerns
  <2> QED  BY <1>1, <2>1, <2>6, ConcernHeard
<1>3. /\ \A i \in DOMAIN r.events : r.events[i].type = "compacted" => Codex!CompactionEnds(adapter, m)
      /\ r.adapter.compaction \in {adapter.compaction, None}
  BY <1>1, CodexHeard
<1>4. Codex!CompactionEnds(adapter, m) => ~PackUnknown
  BY DEF Codex!CompactionEnds, PackUnknown
<1> QED  BY <1>2, <1>3, <1>4 DEF Hearing

(* with Pi,                                                                  *)
LEMMA PiHearing ==
  ASSUME IInv, SInv, RInv, kind = "pi", NEW m, NEW r, Reading(m, r)
  PROVE  Hearing(m, r)
<1>1. /\ adapter \in PiAdapters /\ progress \in Turned /\ m \in Messages /\ r = Receive(m)
      /\ 1 \in DOMAIN stdout /\ m = stdout[1] /\ r.adapter.compaction \in {adapter.compaction, None}
      /\ progress.request # None => adapter.prompt = PromptCall(progress.request)
  <2>1. adapter.compaction # None => adapter.compaction[1] = "compact"
    BY DEF IInv, BusyInv
  <2> QED  BY <2>1, PiReceives DEF IInv, TypeInv, AdapterOK, DriverOK, Reading, BusyInv
<1>2. /\ \A i \in DOMAIN r.events :
           /\ TurnEvent(r.events[i]) => Pi!IdleProbe(adapter, m) \/ m.type = "agent_start"
           /\ r.events[i].type = "compacted" => adapter.compaction # None
      /\ r.adapter.accepted =>
           adapter.accepted \/ (Pi!Response(m, adapter.prompt) /\ m.status = "ok")
  BY <1>1, PiTells
<1>3. ASSUME NEW i \in DOMAIN r.events, TurnEvent(r.events[i]) PROVE ~Unheard(progress.request)
  <2>1. progress.request \in Prompts
    BY <1>3, ToldPrompt
  <2>2. adapter.accepted \/ m.type = "agent_start"
    BY <1>2, <1>3 DEF Pi!IdleProbe
  <2>3. Unheard(progress.request) => Hushed(progress.request)
    BY <2>1 DEF RInv, QuietInv
  <2> QED  BY <1>1, <2>2, <2>3 DEF Hushed
<1>4. r.progress.finished => \/ progress.finished \/ Pi!IdleProbe(adapter, m)
                             \/ Pi!Response(m, adapter.prompt) /\ m.status # "ok"
  BY <1>1, PiHeard
<1>5. ASSUME progress.request # None
      PROVE  /\ r.adapter.accepted => adapter.accepted \/ Concerns(m, progress.request)
             /\ r.progress.finished => progress.finished \/ Final(m, progress.request)
  BY <1>1, <1>2, <1>4, <1>5 DEF Pi!IdleProbe, Pi!Response, Concerns, Final
<1>6. adapter.compaction # None => ~PackUnknown
  BY DEF PackUnknown
<1> QED  BY <1>1, <1>2, <1>3, <1>5, <1>6 DEF Hearing

(* with Claude                                                               *)
LEMMA ClaudeHearing ==
  ASSUME IInv, SInv, RInv, kind = "claude", NEW m, NEW r, Reading(m, r)
  PROVE  Hearing(m, r)
<1>1. /\ adapter \in ClaudeAdapters /\ progress \in Turned /\ m \in Messages /\ r = Receive(m)
      /\ 1 \in DOMAIN stdout /\ m = stdout[1]
  BY DEF IInv, TypeInv, AdapterOK, DriverOK, Reading
<1>2. /\ \A i \in DOMAIN r.events :
           /\ TurnEvent(r.events[i]) =>
                /\ Claude!IsActive(adapter, m)
                /\ m.type = "result" \/ (m.type = "lifecycle" /\ m.status = "started")
           /\ r.events[i].type = "compacted" => \E u \in adapter.users : u.kind = "compact"
      /\ r.adapter.users \subseteq adapter.users
      /\ \A p : SaysNo(r.adapter, p) /\ m.type = "result" =>
           \E u \in adapter.users : u.id = PromptCall(p) /\ u.kind = "bootstrap"
  BY <1>1, ClaudeTells
<1>3. ASSUME NEW i \in DOMAIN r.events, TurnEvent(r.events[i]) PROVE ~Unheard(progress.request)
  <2>1. progress.request \in Prompts
    BY <1>3, ToldPrompt
  <2>2. m.id = PromptCall(progress.request)
    BY <1>2, <1>3 DEF Claude!IsActive, SInv, ReplyInv
  <2>3. Concerns(m, progress.request)
    BY <1>2, <1>3, <2>2 DEF Concerns
  <2> QED  BY <1>1, <2>1, <2>3, ConcernHeard
<1>4. ASSUME NEW p \in Prompts, SaysNo(r.adapter, p) PROVE Declines(m, p)
  <2>1. m.id = PromptCall(p) /\ Denies(m)
    BY <1>1, <1>4, ClaudeHeard
  <2>2. m.type # "result"
    BY <1>2, <1>4 DEF RInv, UsersInv
  <2> QED  BY <2>1, <2>2 DEF Denies, Declines
<1>5. (\E u \in adapter.users : u.kind = "compact") => ~PackUnknown
  BY DEF PackUnknown
<1> QED  BY <1>2, <1>3, <1>4, <1>5 DEF Hearing

(* and with Cursor.                                                          *)
LEMMA CursorHearing ==
  ASSUME IInv, SInv, RInv, kind = "cursor", NEW m, NEW r, Reading(m, r)
  PROVE  Hearing(m, r)
<1>1. /\ adapter \in CursorAdapters /\ progress \in Turned /\ m \in Messages /\ r = Receive(m)
  BY DEF IInv, TypeInv, AdapterOK, DriverOK, Reading
<1>2. /\ \A i \in DOMAIN r.events : r.events[i].type # "compacted"
      /\ r.adapter.terminal = adapter.terminal \/ adapter.prompt # None
  BY <1>1, CursorTells
<1>3. progress.request \in Prompts => ~Unheard(progress.request)
  <2>1. progress.request \in Prompts => ~Coming(progress.request)
    BY DEF IInv, ComingInv, Untouched
  <2>2. progress.request \in Prompts => ops[progress.request].state # "refused"
    BY NamesAssumption DEF IInv, BusyInv
  <2> QED  BY <2>1, <2>2 DEF Unheard
<1>4. adapter.prompt # None => Unfinished(progress) /\ progress.request \in Prompts
  BY <1>1 DEF SInv, CursorInv, Unfinished, Turned, Refs, Absent
<1>5. \A i \in DOMAIN r.events : TurnEvent(r.events[i]) => ~Unheard(progress.request)
  BY <1>3, ToldPrompt
<1> QED  BY <1>2, <1>3, <1>4, <1>5 DEF Hearing

(* Every harness taken together.                                             *)
LEMMA Heard ==
  ASSUME IInv, SInv, RInv, NEW m, NEW r, Reading(m, r)
  PROVE  Hearing(m, r)
BY KindKnown, CodexHearing, PiHearing, ClaudeHearing, CursorHearing DEF IInv, TypeInv
-----------------------------------------------------------------------------
(* What the answers to a message may do to the calls: a prompt is refused    *)
(* that was not heard, and the compaction goes on only when it waits.        *)
CallsKept ==
  /\ Refusals
  /\ ops["compact"].state \in {"idle", "refused"} => ops'["compact"].state = ops["compact"].state
  /\ ops'["compact"].state = "idle" => ops["compact"].state = "idle"

(* The call of a prompt that is refused is not its last, or was declined.    *)
LEMMA ToldRefusals ==
  ASSUME IInv, WaitInv, NEW a, NEW m, Told(a, m),
         kind # "cursor" =>
           \A p \in Prompts : /\ Reply(a, m) # NoAnswer /\ Reply(a, m)[1].id = PromptCall(p)
                              /\ ~Reply(a, m)[1].ok
                              => Unheard(p)
  PROVE  CallsKept
<1>1. /\ ops \in [Ops -> Operation] /\ PlanOK /\ OpsOK
      /\ Prompts \subseteq Ops /\ "compact" \in Ops /\ "compact" \notin Prompts
  BY OpsKnown DEF IInv, TypeInv, OpsOK
<1>2. CASE ops' = ops
  BY <1>2 DEF CallsKept, Refusals, Unheard
<1>3. ASSUME NEW op \in Ops, ops[op].state = "pending", OpStep(op), ops'[op].state # "idle",
             op \in Prompts /\ ops'[op].state = "refused" => Unheard(op)
      PROVE  CallsKept
  <2>1. Refusals
    BY <1>3, OpRefusals DEF OpStep
  <2>2. op # "compact" => ops'["compact"] = ops["compact"]
    BY <1>1, <1>3 DEF OpStep
  <2> QED  BY <1>3, <2>1, <2>2 DEF CallsKept
<1>4. ASSUME NEW op \in Ops, Advances(op) PROVE CallsKept
  <2>1. OpStep(op) /\ ops'[op].state \in {"ok", "ready"}
    BY <1>1, <1>4, SetForward DEF Advances
  <2> QED  BY <1>3, <1>4, <2>1 DEF Advances
<1>5. ASSUME NEW op \in Ops, Rejects(op), Reply(a, m) # NoAnswer,
             Reply(a, m)[1].id = <<op, ops[op].step>>, ~Reply(a, m)[1].ok
      PROVE  CallsKept
  <2>1. OpStep(op) /\ ops'[op].state = "refused" /\ ops[op].state = "pending"
    BY <1>1, <1>5, SetState DEF Rejects, Calling
  <2>2. ASSUME op \in Prompts PROVE Unheard(op)
    <3>1. ops[op].step \in 1..Len(Script(op)) /\ Len(Script(op)) \in Nat
      BY <1>1, <2>1, <2>2, PromptScript DEF OpsOK, Open
    <3>2. CASE ops[op].step < Len(Script(op))
      BY <2>1, <3>2 DEF Unheard, Coming
    <3>3. CASE ops[op].step = Len(Script(op))
      <4>1. kind # "cursor"
        BY <2>1, <2>2, <3>1, <3>3 DEF WaitInv
      <4>2. Reply(a, m)[1].id = PromptCall(op)
        BY <1>5, <3>3 DEF PromptCall
      <4> QED  BY <1>5, <2>2, <4>1, <4>2
    <3> QED  BY <3>1, <3>2, <3>3
  <2> QED  BY <1>3, <2>1, <2>2
<1> QED  BY <1>2, <1>4, <1>5 DEF Told

(* What the answers to a message leave of the adapter.                       *)
LEMMA ToldAdapter ==
  ASSUME PlanOK, NEW a, AdapterOK(a), NEW m \in Messages, Told(a, m)
  PROVE  /\ kind \in {"codex", "pi"} => adapter'.compaction = a.compaction
         /\ kind = "pi" => (adapter'.accepted <=> a.accepted)
         /\ kind = "claude" => adapter'.users = a.users /\ adapter'.reply = a.reply
         /\ kind = "cursor" => adapter'.terminal = a.terminal
<1>1. adapter' \in {a, Closing(a, m)} /\ SameTurn(a, Closing(a, m))
  BY ClosingOK DEF Told
<1>2. CASE kind = "claude"
  <2>1. \E x : Closing(a, m) = [a EXCEPT !.confirmed = x]
    BY <1>2 DEF Closing, Claude!Closing
  <2>2. Closing(a, m).users = a.users /\ Closing(a, m).reply = a.reply
    BY <1>2, <2>1 DEF AdapterOK, ClaudeAdapters
  <2> QED  BY <1>1, <1>2, <2>2
<1>3. CASE kind = "pi"
  <2>1. Closing(a, m) = a \/ \E x : Closing(a, m) = [a EXCEPT !.mask = x]
    BY <1>3 DEF Closing, Pi!Closing
  <2>2. Closing(a, m).accepted <=> a.accepted
    BY <1>3, <2>1 DEF AdapterOK, PiAdapters
  <2> QED  BY <1>1, <1>3, <2>2 DEF SameTurn
<1>4. CASE kind \in {"codex", "cursor"}
  BY <1>1, <1>4 DEF SameTurn
<1> QED  BY <1>2, <1>3, <1>4, KindKnown

(* They write no prompt but Cursor's.                                        *)
LEMMA ToldWritten ==
  ASSUME IInv, kind # "cursor", NEW a, AdapterOK(a), NEW m, Told(a, m), kind' = kind
  PROVE  \A p : Written(p)' => Written(p)
<1>1. stdin \in Seq(Frames) /\ PlanOK
  BY DEF IInv, TypeInv, PipesOK
<1>2. ASSUME stdin' = stdin \o Responds(a, m), NEW p, Written(p)' PROVE Written(p)
  <2>1. Responds(a, m) \in Seq(Frames)
    BY <1>1, RespondsOK
  <2>2. Joins(stdin, Responds(a, m), stdin')
    BY <1>1, <1>2, <2>1, Joined
  <2>3. \A i \in DOMAIN Responds(a, m) : ~Carries(Responds(a, m)[i])
    <3>0. PICK f : f = Pi!Probe(a)
      OBVIOUS
    <3>1. Responds(a, m) = <<>> \/ Responds(a, m) = <<f>>
      BY <3>0 DEF Responds, Pi!Responds
    <3>2. ~Carries(f)
      BY <3>0, PiWords DEF Pi!Probe, Frame, Carries
    <3> QED  BY <3>1, <3>2, Elements
  <2>4. \E i \in DOMAIN stdin' : Carries(stdin'[i]) /\ stdin'[i].ref = p
    BY <1>2 DEF Written, Carries
  <2> QED  BY <2>2, <2>3, <2>4, WrittenCarries DEF Joins
<1> QED  BY <1>2 DEF Told, Written

(* The messages that are left.                                               *)
LEMMA LinesLeft ==
  ASSUME kind' = kind, stdout' = stdout \/ Drops(stdout, stdout')
  PROVE  /\ \A i \in DOMAIN stdout' : \E j \in DOMAIN stdout : stdout[j] = stdout'[i]
         /\ \A p : (\A i \in DOMAIN stdout : ~Concerns(stdout[i], p))
                   => (\A i \in DOMAIN stdout' : ~Concerns(stdout'[i], p))
<1>1. \A i \in DOMAIN stdout' : \E j \in DOMAIN stdout : stdout[j] = stdout'[i]
  BY DEF Drops
<1> QED  BY <1>1
-----------------------------------------------------------------------------
(* The driver reads a message.  What it does with it: the facts that the     *)
(* parts of the invariant rest on.                                           *)
Hearsay(m, r) ==
  /\ Reading(m, r) /\ Hearing(m, r) /\ CallsKept /\ ~Gone
  /\ kind \in {"codex", "pi"} => adapter'.compaction = r.adapter.compaction
  /\ kind = "pi" => (adapter'.accepted <=> r.adapter.accepted)
  /\ kind = "claude" => adapter'.users = r.adapter.users /\ adapter'.reply = r.adapter.reply
  /\ kind = "cursor" => adapter'.terminal = r.adapter.terminal
  /\ kind # "cursor" => \A p : Written(p)' => Written(p)

(* Reading a line is that.                                                   *)
LEMMA ReadHearsay ==
  ASSUME IInv, SInv, RInv, WaitInv, ReadLine
  PROVE  \E m, r : Hearsay(m, r)
<1>0. PICK m, r : Reading(m, r) /\ m = Head(stdout) /\ r = Receive(Head(stdout))
  BY ReadReading
<1>1. /\ Told(r.adapter, m) /\ AdapterOK(r.adapter) /\ m \in Messages /\ Hearing(m, r)
      /\ kind' = kind /\ m = stdout[1] /\ 1 \in DOMAIN stdout
  BY <1>0, Heard DEF Reading, Speaks
<1>2. ~Gone
  BY DEF ReadLine, Gone
<1>3. ASSUME NEW p \in Prompts, kind # "cursor", Reply(r.adapter, m) # NoAnswer,
             Reply(r.adapter, m)[1].id = PromptCall(p), ~Reply(r.adapter, m)[1].ok
      PROVE  Unheard(p)
  <2>1. CASE kind = "codex"
    <3> DEFINE ok == m.status = "ok"
               x == Reply(r.adapter, m)
    <3>1. m.type = "response" /\ x = Answer(m.id, ok)
      BY <1>3, <2>1, CodexWords DEF Reply, Codex!Reply
    <3>2. m.id = PromptCall(p) /\ ~ok
      <4>1. Answer(m.id, ok)[1].id = m.id /\ Answer(m.id, ok)[1].ok = ok
        BY AnswerParts
      <4>2. x[1].id = PromptCall(p) /\ ~x[1].ok
        BY <1>3
      <4> HIDE DEF x, ok
      <4> QED  BY <3>1, <4>1, <4>2
    <3> QED  BY <1>1, <2>1, <3>1, <3>2 DEF Unheard, Declined, Declines
  <2>2. CASE kind = "pi"
    <3> DEFINE ok == m.status = "ok"
               x == Reply(r.adapter, m)
    <3>1. m.type = "response" /\ x = Answer(m.id, ok)
      BY <1>3, <2>2, PiWords DEF Reply, Pi!Reply
    <3>2. m.id = PromptCall(p) /\ ~ok
      <4>1. Answer(m.id, ok)[1].id = m.id /\ Answer(m.id, ok)[1].ok = ok
        BY AnswerParts
      <4>2. x[1].id = PromptCall(p) /\ ~x[1].ok
        BY <1>3
      <4> HIDE DEF x, ok
      <4> QED  BY <3>1, <4>1, <4>2
    <3> QED  BY <1>1, <2>2, <3>1, <3>2 DEF Unheard, Declined, Declines
  <2>3. CASE kind = "claude"
    <3>1. Reply(r.adapter, m) = r.adapter.reply
      BY <2>3 DEF Reply, Claude!Reply
    <3>2. SaysNo(r.adapter, p)
      BY <1>3, <3>1 DEF SaysNo
    <3>3. Declines(m, p)
      BY <1>1, <2>3, <3>2 DEF Hearing
    <3> QED  BY <1>1, <2>3, <3>3 DEF Unheard, Declined
  <2> QED  BY <1>3, <2>1, <2>2, <2>3, KindKnown DEF IInv, TypeInv
<1>4. CallsKept
  BY <1>1, <1>3, ToldRefusals
<1>5. PlanOK
  BY DEF IInv, TypeInv
<1>6. kind # "cursor" => \A p : Written(p)' => Written(p)
  BY <1>1, ToldWritten
<1>7. Hearsay(m, r)
  BY <1>0, <1>1, <1>2, <1>4, <1>5, <1>6, ToldAdapter DEF Hearsay
<1> QED  BY <1>7

(* The session and the driver agree on the turns: what is told of one comes  *)
(* last, once, and is of a turn that is heard and not over.                  *)
LEMMA ReadTold ==
  ASSUME IInv, RInv, NEW m, NEW r, Hearsay(m, r)
  PROVE  TellInv'
<1> DEFINE es == r.events
           q == progress.request
<1>1. /\ UNCHANGED <<kind, turn>> /\ Grown(es) /\ progress' = r.progress
      /\ Kept(r.progress) /\ Telling(es, r.progress)
      /\ kind = "cursor" => CursorKept(r.adapter, r.progress) /\ adapter'.terminal = r.adapter.terminal
      /\ Refusals /\ ~exited /\ Len(Queue) \in Nat /\ DOMAIN Queue = 1..Len(Queue)
  BY QueueSeq DEF Hearsay, CallsKept, Reading, Speaks, IInv, ExitInv, TypeInv
<1>2. \A j \in DOMAIN es : /\ TurnEvent(es[j]) => /\ q \in Prompts /\ Unfinished(progress) /\ ~Unheard(q)
                                                  /\ es[j].request = q
                           /\ es[j].type = "started" => ~progress.started /\ r.progress.started
                           /\ es[j].type = "finished" => r.progress.finished /\ kind # "cursor"
  BY <1>1, ToldPrompt DEF Hearsay, Hearing, Telling
<1>3. \A i, j \in DOMAIN es : TurnEvent(es[i]) /\ TurnEvent(es[j]) => i = j
  BY <1>1 DEF Telling
<1>4. \A j \in DOMAIN es : j \in Nat \ {0}
  <2>1. es \in Seq(Reports)
    BY <1>1 DEF Telling
  <2> QED  BY <2>1
(* A turn that is heard and not over is current.                             *)
<1>5. ASSUME NEW p \in Prompts, p = q, Unfinished(progress), ~Unheard(p)
      PROVE  /\ turn[p] \in {"sent", "started"} /\ ~EndsLater(p)
             /\ \A i \in DOMAIN Queue : ~IsEnd(Queue[i], p)
             /\ ~progress.started => turn[p] = "sent" /\ \A i \in DOMAIN Queue : ~IsStart(Queue[i], p)
  <2>1. ToldOf(p)
    BY DEF RInv, TellInv
  <2>2. turn[p] # "lost" /\ turn[p] \in {"none", "sent", "started", "finished", "refused", "lost"}
    BY <1>1 DEF IInv, ExitInv, TypeInv, SessionOK
  <2>3. turn[p] # "refused"
    BY <1>5, <2>1 DEF ToldOf, Unheard
  <2>4. /\ turn[p] \notin {"none", "finished"} /\ ~EndsLater(p)
        /\ \A i \in DOMAIN Queue : ~IsEnd(Queue[i], p)
        /\ ~progress.started =>
             turn[p] # "started" /\ \A i \in DOMAIN Queue : ~IsStart(Queue[i], p)
    BY <1>5, <2>1 DEF ToldOf, Untold, Unfinished
  <2> QED  BY <2>2, <2>3, <2>4
<1>6. \A p \in Prompts : EndsLater(p)' => EndsLater(p) \/ (/\ kind = "cursor" /\ p = q /\ r.progress.finished
                                                          /\ Unfinished(progress) /\ ~Unheard(p))
  BY <1>1 DEF EndsLater, CursorKept, Kept, Hearsay, Hearing
<1> SUFFICES ASSUME NEW p \in Prompts PROVE ToldOf(p)'
  BY DEF TellInv
<1>7. ToldOf(p)
  BY DEF RInv, TellInv
<1>8. \A e : (IsStart(e, p) \/ IsEnd(e, p) <=> Tells(e, p)) /\ (Tells(e, p) => TurnEvent(e) /\ e.request = p)
  BY DEF IsStart, IsEnd, Tells, TurnEvent
<1> HIDE DEF es, q
(* The events that tell of it: those that did, and the new one.              *)
<1>9. \A i \in DOMAIN Queue' : Tells(Queue'[i], p) =>
        \/ i \in DOMAIN Queue /\ Queue'[i] = Queue[i]
        \/ \E j \in DOMAIN es : i = Len(Queue) + j /\ Queue'[i] = es[j] /\ Tells(es[j], p)
  BY <1>1 DEF Grown
<1>10. \A j \in DOMAIN es : Tells(es[j], p) => p = q /\ Unfinished(progress) /\ ~Unheard(p)
  BY <1>2, <1>8 DEF q
<1>11. StartTold(p)'
  <2> SUFFICES ASSUME NEW i \in DOMAIN Queue', IsStart(Queue'[i], p)
               PROVE  turn[p] = "sent" /\ \A j \in DOMAIN Queue' : Tells(Queue'[j], p) => i <= j
    BY <1>1 DEF StartTold, IsStart, Tells
  <2>1. CASE i \in DOMAIN Queue /\ Queue'[i] = Queue[i]
    <3>1. turn[p] = "sent" /\ \A j \in DOMAIN Queue : Tells(Queue[j], p) => i <= j
      BY <1>7, <2>1 DEF ToldOf, StartTold
    <3> QED  BY <1>1, <1>4, <1>9, <2>1, <3>1
  <2>2. ASSUME NEW k \in DOMAIN es, i = Len(Queue) + k, Queue'[i] = es[k], Tells(es[k], p)
        PROVE  turn[p] = "sent" /\ \A j \in DOMAIN Queue' : Tells(Queue'[j], p) => i <= j
    <3>1. es[k].type = "started" /\ ~progress.started
      BY <1>2, <2>2 DEF IsStart
    <3>2. turn[p] = "sent" /\ \A j \in DOMAIN Queue : ~IsStart(Queue[j], p) /\ ~IsEnd(Queue[j], p)
      BY <1>5, <1>10, <2>2, <3>1
    <3>3. \A j \in DOMAIN es : Tells(es[j], p) => j = k
      BY <1>3, <1>8, <2>2
    <3> QED  BY <1>8, <1>9, <2>2, <3>2, <3>3, <1>1, <1>4
  <2> QED  BY <1>8, <1>9, <2>1, <2>2
<1>12. EndTold(p)'
  <2> SUFFICES ASSUME NEW i \in DOMAIN Queue', IsEnd(Queue'[i], p)
               PROVE  /\ turn[p] \in {"sent", "started"} /\ ~EndsLater(p)'
                      /\ \A j \in DOMAIN Queue' : Tells(Queue'[j], p) => j <= i
    BY <1>1 DEF EndTold, IsEnd, Tells
  <2>1. CASE i \in DOMAIN Queue /\ Queue'[i] = Queue[i]
    <3>1. /\ turn[p] \in {"sent", "started"} /\ ~EndsLater(p)
          /\ \A j \in DOMAIN Queue : Tells(Queue[j], p) => j <= i
      BY <1>7, <2>1 DEF ToldOf, EndTold
    <3>2. ~(p = q /\ Unfinished(progress) /\ ~Unheard(p))
      BY <1>5, <2>1
    <3> QED  BY <1>6, <1>9, <1>10, <3>1, <3>2
  <2>2. ASSUME NEW k \in DOMAIN es, i = Len(Queue) + k, Queue'[i] = es[k], Tells(es[k], p)
        PROVE  /\ turn[p] \in {"sent", "started"} /\ ~EndsLater(p)'
               /\ \A j \in DOMAIN Queue' : Tells(Queue'[j], p) => j <= i
    <3>1. kind # "cursor"
      BY <1>2, <2>2 DEF IsEnd
    <3>2. turn[p] \in {"sent", "started"} /\ ~EndsLater(p)
      BY <1>5, <1>10, <2>2
    <3>3. \A j \in DOMAIN es : Tells(es[j], p) => j = k
      BY <1>3, <1>8, <2>2
    <3> QED  BY <1>1, <1>4, <1>6, <1>9, <2>2, <3>1, <3>2, <3>3
  <2> QED  BY <1>8, <1>9, <2>1, <2>2
<1>13. Untold(p)'
  <2> SUFFICES ASSUME r.progress.request = p
               PROVE  /\ ~r.progress.started =>
                           turn[p] # "started" /\ \A i \in DOMAIN Queue' : ~IsStart(Queue'[i], p)
                      /\ ~r.progress.finished =>
                           /\ turn[p] \notin {"none", "finished"} /\ ~EndsLater(p)'
                           /\ \A i \in DOMAIN Queue' : ~IsEnd(Queue'[i], p)
    BY <1>1 DEF Untold, IsStart, IsEnd
  <2>1. /\ progress.request = p
        /\ ~r.progress.started => ~progress.started
        /\ ~r.progress.finished => ~progress.finished
    BY <1>1 DEF Kept
  <2>2. /\ ~progress.started =>
              turn[p] # "started" /\ \A i \in DOMAIN Queue : ~IsStart(Queue[i], p)
        /\ ~progress.finished =>
              /\ turn[p] \notin {"none", "finished"} /\ ~EndsLater(p)
              /\ \A i \in DOMAIN Queue : ~IsEnd(Queue[i], p)
    BY <1>7, <2>1 DEF ToldOf, Untold
  <2>3. /\ ~r.progress.started => \A j \in DOMAIN es : ~IsStart(es[j], p)
        /\ ~r.progress.finished => \A j \in DOMAIN es : ~IsEnd(es[j], p)
    BY <1>2 DEF IsStart, IsEnd
  <2>4. \A i \in DOMAIN Queue' : (IsStart(Queue'[i], p) \/ IsEnd(Queue'[i], p)) =>
          \/ i \in DOMAIN Queue /\ Queue'[i] = Queue[i]
          \/ \E j \in DOMAIN es : Queue'[i] = es[j]
    BY <1>8, <1>9
  <2>5. ~r.progress.finished => (EndsLater(p)' => EndsLater(p))
    BY <1>6
  <2> QED  BY <2>1, <2>2, <2>3, <2>4, <2>5
<1>14. EndsLater(p)' => turn[p] \in {"sent", "started", "lost"}
  BY <1>5, <1>6, <1>7 DEF ToldOf
<1> QED  BY <1>1, <1>7, <1>11, <1>12, <1>13, <1>14 DEF ToldOf, Refusals
(* Of a prompt that is not heard nothing is told: the message is about none  *)
(* such.                                                                     *)
LEMMA ReadQuiet ==
  ASSUME IInv, SInv, RInv, Steady, NEW m, NEW r, Hearsay(m, r)
  PROVE  QuietInv'
<1> DEFINE es == r.events
           q == progress.request
<1>1. /\ UNCHANGED <<kind, turn>> /\ Grown(es) /\ progress' = r.progress
      /\ Kept(r.progress) /\ Refusals
      /\ 1 \in DOMAIN stdout /\ m = stdout[1] /\ Drops(stdout, stdout')
      /\ kind # "cursor" => \A p : Written(p)' => Written(p)
  BY DEF Hearsay, CallsKept, Reading, Speaks
<1>2. \A i \in DOMAIN stdout' : \E j \in DOMAIN stdout : stdout[j] = stdout'[i]
  BY <1>1, LinesLeft
<1>3. \A j \in DOMAIN es : TurnEvent(es[j]) => ~Unheard(q) /\ es[j].request = q
  BY ToldPrompt DEF Hearsay, Hearing
<1>4. \A p \in Prompts : EndsLater(p)' => EndsLater(p) \/ (p = q /\ ~Unheard(p))
  BY <1>1 DEF EndsLater, CursorKept, Kept, Hearsay, Hearing, Reading, Speaks
<1>5. kind = "claude" => \A p \in Prompts : SaysNo(adapter', p) => Declines(m, p)
  BY <1>1 DEF Hearsay, Hearing, SaysNo
<1>6. kind = "pi" /\ q # None =>
        (adapter'.accepted => adapter.accepted \/ Concerns(m, q))
  BY DEF Hearsay, Hearing
<1> SUFFICES ASSUME NEW p \in Prompts, Unheard(p)' PROVE Unspoken(p)' /\ Hushed(p)'
  BY DEF QuietInv
<1> HIDE DEF es, q
<1>7. Unheard(p)
  <2>1. CASE Coming(p)' \/ ops'[p].state = "refused"
    BY <1>1, <2>1 DEF Steady, Refusals, Unheard
  <2>2. CASE kind # "cursor" /\ Declined(p)'
    <3>1. Declined(p)' => Written(p)' \/ (\E i \in DOMAIN stdout' : Declines(stdout'[i], p))
                          \/ (kind = "claude" /\ SaysNo(adapter', p))
      BY <1>1, SameTerms DEF Declined, SaysNo
    <3>2. Declined(p)
      BY <1>1, <1>2, <1>5, <2>2, <3>1 DEF Declined
    <3> QED  BY <2>2, <3>2 DEF Unheard
  <2> QED  BY <1>1, <2>1, <2>2 DEF Unheard
<1>8. Unspoken(p) /\ Hushed(p)
  BY <1>7 DEF RInv, QuietInv
<1>9. Unspoken(p)'
  <2>1. \A i \in DOMAIN Queue' : ~Tells(Queue'[i], p)
    <3>1. \A j \in DOMAIN es : ~Tells(es[j], p)
      BY <1>3, <1>7 DEF Tells, TurnEvent
    <3> QED  BY <1>1, <1>8, <3>1 DEF Grown, Unspoken
  <2>2. ~EndsLater(p)'
    BY <1>4, <1>7, <1>8 DEF Unspoken
  <2> QED  BY <1>1, <1>8, <2>1, <2>2 DEF Unspoken
<1>10. Hushed(p)'
  <2>1. \A i \in DOMAIN stdout' : ~Concerns(stdout'[i], p)
    BY <1>2, <1>8 DEF Hushed
  <2>2. ASSUME kind = "pi", progress'.request = p
        PROVE  ~adapter'.accepted /\ \A i \in DOMAIN stdout' : stdout'[i].type # "agent_start"
    <3>1. p = q /\ q # None
      BY <1>1, <2>2, NamesAssumption DEF Kept, q
    <3>2. ~adapter.accepted /\ ~Concerns(m, q) /\ \A i \in DOMAIN stdout : stdout[i].type # "agent_start"
      BY <1>1, <1>8, <2>2, <3>1 DEF Hushed, q
    <3> QED  BY <1>2, <1>6, <2>2, <3>1, <3>2
  <2> QED  BY <1>1, <2>1, <2>2, SameTerms DEF Hushed
<1> QED  BY <1>9, <1>10

(* The driver reads a message.                                               *)
LEMMA ReadTells ==
  ASSUME IInv, IInv', SInv, RInv, WaitInv, Steady, ReadLine
  PROVE  RInv'
<1>0. PICK m, r : Hearsay(m, r)
  BY ReadHearsay
<1>1. /\ UNCHANGED <<kind, phase, calls, native, compaction>> /\ Grown(r.events) /\ progress' = r.progress
      /\ Kept(r.progress) /\ CallsKept /\ ~Gone
      /\ 1 \in DOMAIN stdout /\ m = stdout[1] /\ Drops(stdout, stdout')
  BY <1>0 DEF Hearsay, Reading, Speaks
<1>2. ExitLast'
  <2>1. ~Gone'
    BY <1>1 DEF Gone
  <2> QED  BY <2>1, ExitStays DEF RInv
<1>3. PackKnown'
  <2> SUFFICES ASSUME PackUnknown PROVE PackUnknown'
    BY <1>1 DEF PackKnown, CallsKept, RInv
  <2>1. ops'["compact"].state \in {"idle", "refused"}
    BY <1>1 DEF PackUnknown, CallsKept
  <2>2. /\ kind \in {"codex", "pi"} => adapter'.compaction = None
        /\ kind = "claude" => \A u \in adapter'.users : u.kind # "compact"
    BY <1>0 DEF Hearsay, Hearing, PackUnknown
  <2>3. \A i \in DOMAIN Queue' : Queue'[i].type # "compacted"
    <3>1. \A j \in DOMAIN r.events : r.events[j].type # "compacted"
      BY <1>0 DEF Hearsay, Hearing
    <3> QED  BY <1>1, <3>1 DEF Grown, PackUnknown
  <2> QED  BY <1>1, <2>1, <2>2, <2>3 DEF PackUnknown
<1>4. TellInv' /\ QuietInv'
  BY <1>0, ReadTold, ReadQuiet
<1>5. AgentInv'
  <2> SUFFICES ASSUME kind = "pi", NEW i \in DOMAIN stdout', stdout'[i].type = "agent_start"
               PROVE  /\ Unfinished(progress')
                      /\ \A j \in DOMAIN stdout' : Final(stdout'[j], progress'.request) => i < j
    BY <1>1, SameTerms DEF RInv, AgentInv, Unfinished
  <2>1. /\ i + 1 \in DOMAIN stdout /\ stdout'[i] = stdout[i + 1] /\ i \in Nat
        /\ \A j \in DOMAIN stdout' : j \in Nat /\ j + 1 \in DOMAIN stdout /\ stdout'[j] = stdout[j + 1]
    BY <1>1 DEF Drops
  <2>2. /\ Unfinished(progress)
        /\ \A j \in DOMAIN stdout : Final(stdout[j], progress.request) => i + 1 < j
    BY <2>1 DEF RInv, AgentInv
  <2>3. progress'.request = progress.request /\ progress.request # None
    BY <1>1, <2>2 DEF Kept, Unfinished
  <2>4. ~Final(m, progress.request)
    BY <1>1, <2>1, <2>2
  <2>5. ~progress'.finished
    BY <1>0, <1>1, <2>2, <2>3, <2>4 DEF Hearsay, Hearing, Unfinished
  <2> QED  BY <2>1, <2>2, <2>3, <2>5 DEF Unfinished
<1>6. UsersInv'
  <2>1. kind = "claude" => adapter'.users \subseteq adapter.users
    BY <1>0 DEF Hearsay, Hearing
  <2> QED  BY <1>1, <2>1, SameTerms DEF RInv, UsersInv
<1> QED  BY <1>2, <1>3, <1>4, <1>5, <1>6 DEF RInv
-----------------------------------------------------------------------------
(* A step of the driver that tells nothing and reads nothing: what the       *)
(* adapter has noted stays, and at most a call that waits moves.             *)
Mute ==
  /\ UNCHANGED <<kind, progress, stdout, native, calls, turn, compaction, exited>>
  /\ Queue' = Queue /\ CallsKept
  /\ kind \in {"codex", "pi"} => adapter'.compaction = adapter.compaction
  /\ kind = "pi" => (adapter'.accepted <=> adapter.accepted)
  /\ kind = "claude" => adapter'.users = adapter.users /\ adapter'.reply = adapter.reply
  /\ kind = "cursor" => adapter'.terminal = adapter.terminal
  /\ kind # "cursor" => \A p : Written(p)' => Written(p)

(* Such a step keeps all.                                                    *)
LEMMA MuteKeeps ==
  ASSUME IInv, IInv', RInv, Steady, Mute
  PROVE  RInv'
<1>1. /\ kind' = kind /\ progress' = progress /\ stdout' = stdout /\ native' = native
      /\ calls' = calls /\ turn' = turn /\ compaction' = compaction /\ exited' = exited
      /\ Queue' = Queue /\ CallsKept /\ Refusals
  BY DEF Mute, CallsKept
<1>2. ExitLast'
  BY <1>1, ExitStays DEF RInv
<1>3. PackKnown'
  <2> SUFFICES ASSUME PackUnknown PROVE PackUnknown'
    BY <1>1 DEF PackKnown, CallsKept, RInv
  <2>1. ops'["compact"].state \in {"idle", "refused"}
    BY <1>1 DEF PackUnknown, CallsKept
  <2>2. /\ kind \in {"codex", "pi"} => adapter'.compaction = None
        /\ kind = "claude" => \A u \in adapter'.users : u.kind # "compact"
    BY DEF Mute, PackUnknown
  <2> QED  BY <1>1, <2>1, <2>2 DEF PackUnknown
<1>4. \A p : EndsLater(p)' => EndsLater(p)
  BY <1>1 DEF EndsLater, Mute
<1>5. TellInv'
  <2>1. FewerTold /\ SameTurnNow
    BY <1>1, <1>4 DEF FewerTold, SameTurnNow
  <2> QED  BY <1>1, <2>1, TellSame DEF RInv
<1>6. QuietInv'
  <2> SUFFICES ASSUME NEW p \in Prompts, Unheard(p)' PROVE Unspoken(p)' /\ Hushed(p)'
    BY DEF QuietInv
  <2>1. Unheard(p)
    <3>1. CASE Coming(p)' \/ ops'[p].state = "refused"
      BY <1>1, <3>1 DEF Steady, Refusals, Unheard
    <3>2. CASE kind # "cursor" /\ Declined(p)'
      <4>1. SaysNo(adapter', p) /\ kind = "claude" => SaysNo(adapter, p)
        BY DEF SaysNo, Mute
      <4>2. Declined(p)' => Written(p)' \/ (\E i \in DOMAIN stdout : Declines(stdout[i], p))
                            \/ (kind = "claude" /\ SaysNo(adapter', p))
        BY <1>1, SameTerms DEF Declined, SaysNo
      <4>3. Declined(p)
        BY <3>2, <4>1, <4>2 DEF Declined, Mute
      <4> QED  BY <3>2, <4>3 DEF Unheard
    <3> QED  BY <1>1, <3>1, <3>2 DEF Unheard
  <2>2. Unspoken(p) /\ Hushed(p)
    BY <2>1 DEF RInv, QuietInv
  <2>3. Unspoken(p)'
    BY <1>1, <1>4, <2>2 DEF Unspoken
  <2>4. Hushed(p)'
    <3>1. kind = "pi" => (adapter'.accepted <=> adapter.accepted)
      BY DEF Mute
    <3> QED  BY <1>1, <2>2, <3>1, SameTerms DEF Hushed
  <2> QED  BY <2>3, <2>4
<1>7. AgentInv'
  BY <1>1, SameTerms DEF RInv, AgentInv, Unfinished
<1>8. UsersInv'
  <2>1. kind = "claude" => adapter'.users = adapter.users
    BY DEF Mute
  <2> QED  BY <1>1, <2>1, SameTerms DEF RInv, UsersInv
<1> QED  BY <1>2, <1>3, <1>5, <1>6, <1>7, <1>8 DEF RInv

(* The driver sends an event.  A message that waited for that refuses no     *)
(* prompt but one that Claude's adapter denies.                              *)
LEMMA SendTells ==
  ASSUME IInv, IInv', RInv, WaitInv, Steady, SendEvent
  PROVE  RInv'
<1>1. /\ UNCHANGED <<kind, progress, stdout, native, calls, turn, compaction, exited>>
      /\ Queue' = Queue /\ Told(adapter, after) /\ AdapterOK(adapter) /\ PlanOK
      /\ after = None => UNCHANGED <<adapter, stdin, ops>>
      /\ after \in Messages \cup {None}
  BY SendSending DEF Sending, IInv, TypeInv, DriverOK, Absent
<1>2. CASE after = None
  <2>1. CallsKept
    BY <1>1, <1>2 DEF CallsKept, Refusals, Unheard
  <2>2. \A p : Written(p)' => Written(p)
    BY <1>1, <1>2 DEF Written
  <2>3. Mute
    BY <1>1, <1>2, <2>1, <2>2 DEF Mute
  <2> QED  BY <2>3, MuteKeeps
<1>3. CASE after # None
  <2>1. ASSUME NEW p \in Prompts, kind # "cursor", Reply(adapter, after) # NoAnswer,
               Reply(adapter, after)[1].id = PromptCall(p), ~Reply(adapter, after)[1].ok
        PROVE  Unheard(p)
    <3>1. CASE kind \in {"codex", "pi"}
      <4> DEFINE ok == after.status = "ok"
                 x == Reply(adapter, after)
      <4>1. after.type = "response" /\ x = Answer(after.id, ok)
        <5>1. CASE kind = "codex"
          BY <2>1, <5>1, CodexWords DEF Reply, Codex!Reply
        <5>2. CASE kind = "pi"
          BY <2>1, <5>2, PiWords DEF Reply, Pi!Reply
        <5> QED  BY <3>1, <5>1, <5>2
      <4>2. after.id = PromptCall(p)
        <5>1. Answer(after.id, ok)[1].id = after.id
          BY AnswerParts
        <5>2. x[1].id = PromptCall(p)
          BY <2>1
        <5> HIDE DEF x, ok
        <5> QED  BY <4>1, <5>1, <5>2
      <4>3. after.id[1] \notin Prompts
        BY <1>3, <3>1, <4>1 DEF IInv, BusyInv
      <4> QED  BY <4>2, <4>3 DEF PromptCall
    <3>2. CASE kind = "claude"
      <4>1. Reply(adapter, after) = adapter.reply
        BY <3>2 DEF Reply, Claude!Reply
      <4>2. SaysNo(adapter, p)
        BY <2>1, <4>1 DEF SaysNo
      <4> QED  BY <3>2, <4>2 DEF Unheard, Declined
    <3> QED  BY <2>1, <3>1, <3>2, KindKnown DEF IInv, TypeInv
  <2>2. CallsKept
    BY <1>1, <2>1, ToldRefusals
  <2>3. kind # "cursor" => \A p : Written(p)' => Written(p)
    BY <1>1, ToldWritten
  <2>4. Mute
    BY <1>1, <1>3, <2>2, <2>3, ToldAdapter DEF Mute
  <2> QED  BY <2>4, MuteKeeps
<1> QED  BY <1>2, <1>3

(* The close is written: it carries no prompt.                               *)
LEMMA StopTells ==
  ASSUME IInv, IInv', RInv, Steady, Stop
  PROVE  RInv'
<1>1. /\ UNCHANGED <<kind, progress, outbox, ops, calls, events, stdout, native, turn,
                     compaction, exited>>
      /\ adapter' = AtClose /\ stdin' = stdin \o CloseFrames
  BY DEF Stop, nativeVars, sessionVars
<1>2. /\ PlanOK /\ stdin \in Seq(Frames) /\ AdapterOK(adapter)
      /\ kind \in {"codex", "claude", "pi", "cursor"}
  BY KindKnown DEF IInv, TypeInv, PipesOK
<1>3. CloseFrames \in Seq(Frames) /\ SameTurn(adapter, adapter')
  BY <1>1, <1>2, AtCloseOK
<1>4. Queue' = Queue
  BY <1>1, SameQueue
<1>5. CallsKept
  BY <1>1 DEF CallsKept, Refusals, Unheard
<1>6. /\ kind = "pi" => (adapter'.accepted <=> adapter.accepted)
      /\ kind \in {"claude", "codex"} => adapter' = adapter
  <2>1. CASE kind = "pi"
    <3>1. adapter' = [adapter EXCEPT !.interrupting = TRUE] /\ adapter \in PiAdapters
      BY <1>1, <1>2, <2>1 DEF AtClose, Pi!AtClose, AdapterOK
    <3> QED  BY <2>1, <3>1 DEF PiAdapters
  <2>2. CASE kind # "pi"
    BY <1>1, <2>2 DEF AtClose
  <2> QED  BY <2>1, <2>2
<1>7. ASSUME kind # "cursor", NEW p, Written(p)' PROVE Written(p)
  <2>1. CASE kind = "codex"
    <3>1. CloseFrames = <<>>
      BY <2>1 DEF CloseFrames
    <3>2. stdin' = stdin
      BY <1>1, <1>2, <3>1, NothingJoined
    <3> QED  BY <1>7, <3>2 DEF Written
  <2>2. CASE kind \in {"claude", "pi"}
    <3>1. \A i \in DOMAIN CloseFrames : ~Carries(CloseFrames[i])
      BY <1>2, <2>2, CloseFramed
    <3>2. PICK fs : fs = CloseFrames
      OBVIOUS
    <3>3. Joins(stdin, fs, stdin')
      BY <1>1, <1>2, <1>3, <3>2, Joined
    <3>4. PICK i \in DOMAIN stdin' : Carries(stdin'[i]) /\ stdin'[i].ref = p
      BY <1>7 DEF Written, Carries
    <3>5. i \in DOMAIN stdin /\ stdin[i] = stdin'[i]
      <4>1. \A j \in DOMAIN fs : ~Carries(fs[j])
        BY <3>1, <3>2
      <4> QED  BY <3>3, <3>4, <4>1 DEF Joins
    <3> QED  BY <3>4, <3>5, WrittenCarries
  <2> QED  BY <1>2, <1>7, <2>1, <2>2
<1>8. Mute
  BY <1>1, <1>3, <1>4, <1>5, <1>6, <1>7 DEF Mute, SameTurn
<1> QED  BY <1>8, MuteKeeps
-----------------------------------------------------------------------------
(* What Cursor's driver tells when it looks after the copy: that it was made *)
(* and, after that, the end that it kept back, once.                         *)
CaptureTells(es) ==
  /\ es \in Seq(Reports)
  /\ \A j \in DOMAIN es : es[j].type \in {"copied", "finished"}
  /\ \A j \in DOMAIN es : \A p : es[j].type = "finished" /\ es[j].request = p =>
       j = 2 /\ EndsLater(p) /\ adapter'.terminal = None
  /\ \A p : EndsLater(p)' => EndsLater(p)

(* A tick is that.                                                           *)
LEMMA TickNews ==
  ASSUME IInv, IInv', Tick
  PROVE  \E es : CaptureTells(es) /\ Grown(es)
<1>1. /\ kind = "cursor" /\ kind' = kind /\ outbox = <<>> /\ events' = events /\ EventsOK
      /\ adapter \in CursorAdapters /\ outbox' \in Seq(Reports)
      /\ adapter.terminal # None => adapter.dirty \/ adapter.worker = adapter.terminal.request
  BY DEF Tick, CapturePending, IInv, TypeInv, CopyInv, AdapterOK, EventsOK
<1>2. PICK c \in Capture : adapter' = c.adapter /\ outbox' = c.events
  BY DEF Tick
<1>3. \/ adapter'.terminal = adapter.terminal
         /\ (outbox' = <<>> \/ outbox' = <<Event("copied", adapter.worker, None)>>)
      \/ /\ adapter'.terminal = None /\ adapter.terminal \in Ends /\ adapter.terminal # None
         /\ outbox' = <<Event("copied", adapter.worker, None), adapter.terminal>>
  BY <1>1, <1>2, CaptureOK
<1>0. PICK es : es = outbox'
  OBVIOUS
<1>4. Grown(es)
  BY <1>1, <1>0, OutboxFilled
<1>5. PICK x : x = Event("copied", adapter.worker, None)
  OBVIOUS
<1>6. x.type = "copied"
  BY <1>5 DEF Event
<1>7. CASE adapter'.terminal = adapter.terminal /\ (outbox' = <<>> \/ outbox' = <<x>>)
  <2>1. \A j \in DOMAIN es : es[j].type = "copied"
    BY <1>0, <1>6, <1>7, Elements
  <2>2. \A p : EndsLater(p)' => EndsLater(p)
    BY <1>1, <1>7 DEF EndsLater
  <2> QED  BY <1>0, <1>1, <1>4, <2>1, <2>2 DEF CaptureTells
<1>8. CASE /\ adapter'.terminal = None /\ adapter.terminal \in Ends /\ adapter.terminal # None
           /\ outbox' = <<x, adapter.terminal>>
  <2>0. PICK t : t = adapter.terminal
    OBVIOUS
  <2>1. t.type = "finished" /\ \A p : t.request = p => EndsLater(p)
    BY <1>1, <1>8, <2>0 DEF Ends, EndsLater
  <2>2. \A j \in DOMAIN es : (j = 1 /\ es[j] = x) \/ (j = 2 /\ es[j] = t)
    <3>1. DOMAIN <<x, t>> = 1..2 /\ <<x, t>>[1] = x /\ <<x, t>>[2] = t
      BY Tuples
    <3>2. es = <<x, t>>
      BY <1>0, <1>8, <2>0
    <3> QED  BY <3>1, <3>2
  <2>3. \A p : ~EndsLater(p)'
    BY <1>8 DEF EndsLater
  <2> QED  BY <1>0, <1>1, <1>4, <1>6, <1>8, <2>1, <2>2, <2>3 DEF CaptureTells
<1> QED  BY <1>3, <1>4, <1>5, <1>7, <1>8

(* Cursor's driver looks after the copy: the end that it kept back is told   *)
(* when it is the last word on a turn that is current.                       *)
LEMMA TickTells ==
  ASSUME IInv, IInv', RInv, Steady, Tick
  PROVE  RInv'
<1>0. PICK es : CaptureTells(es) /\ Grown(es)
  BY TickNews
<1>1. /\ UNCHANGED <<kind, progress, ops, calls, stdin, stdout, native, phase, turn, compaction, exited>>
      /\ kind = "cursor" /\ ~Gone /\ ~exited
      /\ Len(Queue) \in Nat /\ DOMAIN Queue = 1..Len(Queue)
  BY QueueSeq DEF Tick, CapturePending, pipeVars, nativeVars, sessionVars, IInv, ExitInv, TypeInv
<1>2. Refusals
  BY <1>1 DEF Refusals, Unheard
<1>3. /\ \A j \in DOMAIN es : es[j].type \in {"copied", "finished"} /\ j \in Nat \ {0}
      /\ \A j \in DOMAIN es : \A p : Tells(es[j], p) =>
           /\ j = 2 /\ EndsLater(p) /\ ~EndsLater(p)' /\ IsEnd(es[j], p) /\ ~IsStart(es[j], p)
      /\ \A p : EndsLater(p)' => EndsLater(p)
  <2>1. es \in Seq(Reports)
    BY <1>0 DEF CaptureTells
  <2>2. \A j \in DOMAIN es : j \in Nat \ {0}
    BY <2>1
  <2>3. \A p : adapter'.terminal = None => ~EndsLater(p)'
    BY DEF EndsLater
  <2> QED  BY <1>0, <2>2, <2>3 DEF CaptureTells, Tells, IsEnd, IsStart
<1>4. \A i \in DOMAIN Queue' : \A p : Tells(Queue'[i], p) =>
        \/ i \in DOMAIN Queue /\ Queue'[i] = Queue[i]
        \/ i = Len(Queue) + 2 /\ EndsLater(p) /\ ~EndsLater(p)' /\ IsEnd(Queue'[i], p)
           /\ ~IsStart(Queue'[i], p)
  BY <1>0, <1>3 DEF Grown
<1>5. \A e, p : (IsStart(e, p) \/ IsEnd(e, p)) <=> Tells(e, p)
  BY DEF IsStart, IsEnd, Tells
<1>6. ExitLast'
  <2>1. ~Gone'
    BY <1>1 DEF Gone
  <2> QED  BY <2>1, ExitStays DEF RInv
<1>7. PackKnown'
  <2> SUFFICES ASSUME PackUnknown PROVE PackUnknown'
    BY <1>1 DEF PackKnown, RInv
  <2>1. \A i \in DOMAIN Queue' : Queue'[i].type # "compacted"
    BY <1>0, <1>3 DEF Grown, PackUnknown
  <2> QED  BY <1>1, <2>1 DEF PackUnknown
<1>8. TellInv'
  <2> SUFFICES ASSUME NEW p \in Prompts PROVE ToldOf(p)'
    BY DEF TellInv
  <2>1. ToldOf(p)
    BY DEF RInv, TellInv
  <2>2. turn[p] # "lost"
    BY <1>1 DEF IInv, ExitInv
  <2>3. StartTold(p)'
    <3> SUFFICES ASSUME NEW i \in DOMAIN Queue', IsStart(Queue'[i], p)
                 PROVE  turn[p] = "sent" /\ \A j \in DOMAIN Queue' : Tells(Queue'[j], p) => i <= j
      BY <1>1 DEF StartTold, IsStart, Tells
    <3>1. i \in DOMAIN Queue /\ Queue'[i] = Queue[i]
      BY <1>4, <1>5
    <3>2. turn[p] = "sent" /\ \A j \in DOMAIN Queue : Tells(Queue[j], p) => i <= j
      BY <2>1, <3>1 DEF ToldOf, StartTold
    <3> QED  BY <1>1, <1>4, <3>1, <3>2
  <2>4. EndTold(p)'
    <3> SUFFICES ASSUME NEW i \in DOMAIN Queue', IsEnd(Queue'[i], p)
                 PROVE  /\ turn[p] \in {"sent", "started"} /\ ~EndsLater(p)'
                        /\ \A j \in DOMAIN Queue' : Tells(Queue'[j], p) => j <= i
      BY <1>1 DEF EndTold, IsEnd, Tells
    <3>1. CASE i \in DOMAIN Queue /\ Queue'[i] = Queue[i]
      <4>1. /\ turn[p] \in {"sent", "started"} /\ ~EndsLater(p)
            /\ \A j \in DOMAIN Queue : Tells(Queue[j], p) => j <= i
        BY <2>1, <3>1 DEF ToldOf, EndTold
      <4> QED  BY <1>3, <1>4, <4>1
    <3>2. CASE i = Len(Queue) + 2 /\ EndsLater(p) /\ ~EndsLater(p)'
      <4>1. turn[p] \in {"sent", "started"}
        BY <2>1, <2>2, <3>2 DEF ToldOf
      <4> QED  BY <1>1, <1>4, <3>2, <4>1
    <3> QED  BY <1>4, <1>5, <3>1, <3>2
  <2>5. Untold(p)'
    <3> SUFFICES ASSUME progress.request = p
                 PROVE  /\ ~progress.started =>
                             turn[p] # "started" /\ \A i \in DOMAIN Queue' : ~IsStart(Queue'[i], p)
                        /\ ~progress.finished =>
                             /\ turn[p] \notin {"none", "finished"} /\ ~EndsLater(p)'
                             /\ \A i \in DOMAIN Queue' : ~IsEnd(Queue'[i], p)
      BY <1>1 DEF Untold, IsStart, IsEnd
    <3>1. /\ ~progress.started =>
               turn[p] # "started" /\ \A i \in DOMAIN Queue : ~IsStart(Queue[i], p)
          /\ ~progress.finished =>
               /\ turn[p] \notin {"none", "finished"} /\ ~EndsLater(p)
               /\ \A i \in DOMAIN Queue : ~IsEnd(Queue[i], p)
      BY <2>1 DEF ToldOf, Untold
    <3> QED  BY <1>3, <1>4, <1>5, <3>1
  <2>6. EndsLater(p)' => turn[p] \in {"sent", "started", "lost"}
    BY <1>3, <2>1 DEF ToldOf
  <2> QED  BY <1>1, <2>1, <2>3, <2>4, <2>5, <2>6 DEF ToldOf
<1>9. QuietInv'
  <2> SUFFICES ASSUME NEW p \in Prompts, Unheard(p)' PROVE Unspoken(p)' /\ Hushed(p)'
    BY DEF QuietInv
  <2>1. Unheard(p)
    BY <1>1 DEF Unheard, Steady
  <2>2. Unspoken(p) /\ Hushed(p)
    BY <2>1 DEF RInv, QuietInv
  <2>3. Unspoken(p)'
    <3>1. \A i \in DOMAIN Queue' : ~Tells(Queue'[i], p)
      BY <1>4, <2>2 DEF Unspoken
    <3> QED  BY <1>1, <1>3, <2>2, <3>1 DEF Unspoken
  <2>4. Hushed(p)'
    BY <1>1, <2>2, SameTerms DEF Hushed
  <2> QED  BY <2>3, <2>4
<1>10. AgentInv' /\ UsersInv'
  BY <1>1 DEF AgentInv, UsersInv
<1> QED  BY <1>6, <1>7, <1>8, <1>9, <1>10 DEF RInv
-----------------------------------------------------------------------------
(* What the programs say of the prompts that they have.  Claude's answers to *)
(* a frame name its call; its ends name a message that it had, or the        *)
(* bootstrap.                                                                *)
Ran(m) == m.type = "result" \/ (m.type = "lifecycle" /\ m.status = "started")
ClaudeAnswers(m, r) ==
  \A i \in DOMAIN r.out :
    \/ r.out[i].id = m.id /\ ~Ran(r.out[i])
    \/ /\ r.out[i].type = "result"
       /\ \/ r.out[i].id = m.id /\ m.method = "bootstrap"
          \/ \E u : Has(u) /\ r.out[i].id = u.id
ClaudeSays(r) ==
  \A i \in DOMAIN r.out :
    \/ r.out[i].type = "compact_boundary"
    \/ Ran(r.out[i]) /\ \E u : Has(u) /\ r.out[i].id = u.id

(* The results with which Claude answers an interrupt are results.           *)
LEMMA EndingResults ==
  ASSUME kind = "claude", native \in ClaudeNatives
  PROVE  \A i \in DOMAIN Ending : Ending[i].type = "result"
<1>1. \A x : Claude!Result(x, "error").type = "result"
  BY ClaudeWords DEF Claude!Result, Msg
<1>2. PICK opened : opened = Opened
  OBVIOUS
<1>3. Ending = [i \in DOMAIN opened |-> Claude!Result(opened[i], "error")]
  BY <1>2 DEF Ending
<1> QED  BY <1>1, <1>3

(* Claude taking a frame                                                     *)
LEMMA ClaudeReplies ==
  ASSUME kind = "claude", native \in ClaudeNatives, NEW m \in Frames, NEW r \in Takes(m)
  PROVE  ClaudeAnswers(m, r)
<1> DEFINE n == native
           user == [id |-> m.id, ref |-> m.ref, method |-> m.method]
           rests == [n EXCEPT !.queue = <<>>, !.turn = None]
           ends == Ending
           longer == [n EXCEPT !.queue = Append(@, user)]
           control(s) == Claude!Control(m, s)
           life(s) == Claude!Lifecycle(user, s)
           result(s) == Claude!Result(user, s)
<1>1. /\ \A s : /\ control(s).id = m.id /\ life(s).id = m.id /\ result(s).id = m.id
                /\ result(s).type = "result" /\ ~Ran(control(s))
      /\ ~Ran(life("queued")) /\ ~Ran(life("rejected"))
      /\ control("success") \in Messages
  BY ClaudeWords DEF Claude!Control, Claude!Lifecycle, Claude!Result, Msg, Messages, Lines, Frames,
     Names, Types, TurnRefs, Refs, Absent, Ran
<1>2. /\ ends \in Seq(Messages)
      /\ \A i \in DOMAIN ends : ends[i].type = "result" /\ \E u : Has(u) /\ ends[i].id = u.id
  BY Endings, EndingResults
<1>3. r \in Claude!Takes(n, m)
  BY DEF Takes
<1>4. CASE m.method \in {"prompt", "compact"}
  <2>1. r.out \in {<<life("queued")>>, <<life("rejected")>>}
    <3>1. \/ r = [native |-> longer, out |-> <<life("queued")>>]
          \/ r = [native |-> n, out |-> <<life("rejected")>>]
      BY <1>3, <1>4 DEF Claude!Takes, Claude!Only
    <3> HIDE DEF life, longer
    <3> QED  BY <3>1
  <2> HIDE DEF life
  <2>2. \A i \in DOMAIN r.out : r.out[i] \in {life("queued"), life("rejected")}
    BY <2>1, Elements
  <2> QED  BY <1>1, <2>2 DEF ClaudeAnswers
<1>5. CASE m.method = "bootstrap"
  <2>1. \E s : r.out = <<result(s)>>
    <3>1. r \in {[native |-> n, out |-> <<result("success")>>],
                 [native |-> n, out |-> <<result("error")>>]}
      BY <1>3, <1>5 DEF Claude!Takes, Claude!Only
    <3> HIDE DEF n, result
    <3> QED  BY <3>1
  <2> HIDE DEF result
  <2>2. PICK s : r.out = <<result(s)>>
    BY <2>1
  <2>3. \A i \in DOMAIN r.out : r.out[i] = result(s)
    BY <2>2, Elements
  <2> QED  BY <1>1, <1>5, <2>3 DEF ClaudeAnswers
<1>6. CASE m.method = "interrupt"
  <2>1. r.out = Append(ends, control("success")) \/ r.out = <<control("success")>> \o ends
    <3>1. r \in {[native |-> rests, out |-> Append(ends, control("success"))],
                 [native |-> rests, out |-> <<control("success")>> \o ends]}
      BY <1>3, <1>6 DEF Claude!Takes, Claude!Only, Ending, Opened
    <3> HIDE DEF rests, ends, control
    <3> QED  BY <3>1
  <2>0. control("success").id = m.id /\ ~Ran(control("success"))
    BY <1>1
  <2> HIDE DEF ends, control
  <2>2. \A i \in DOMAIN r.out : \/ r.out[i] = control("success")
                                \/ \E j \in DOMAIN ends : r.out[i] = ends[j]
    <3> DEFINE one == <<control("success")>>
    <3>1. one \in Seq(Messages)
      BY <1>1, PairOK
    <3>2. Joins(ends, one, Append(ends, control("success"))) /\ Joins(one, ends, one \o ends)
      BY <1>1, <1>2, <3>1, Appended, Joined
    <3>3. \A i \in DOMAIN one : one[i] = control("success")
      BY Elements
    <3>4. r.out = Append(ends, control("success")) \/ r.out = one \o ends
      BY <2>1
    <3> HIDE DEF one
    <3>5. Joins(ends, one, r.out) \/ Joins(one, ends, r.out)
      BY <3>2, <3>4
    <3> QED  BY <3>3, <3>5 DEF Joins
  <2> QED  BY <1>2, <2>0, <2>2 DEF ClaudeAnswers
<1>7. CASE m.method \notin {"prompt", "compact", "bootstrap", "interrupt"}
  <2>1. \E s : r.out = <<control(s)>>
    <3>1. r \in {[native |-> n, out |-> <<control("success")>>],
                 [native |-> n, out |-> <<control("error")>>]}
      BY <1>3, <1>7 DEF Claude!Takes, Claude!Only
    <3> HIDE DEF n, control
    <3> QED  BY <3>1
  <2> HIDE DEF control
  <2>2. PICK s : r.out = <<control(s)>>
    BY <2>1
  <2>3. \A i \in DOMAIN r.out : r.out[i] = control(s)
    BY <2>2, Elements
  <2> QED  BY <1>1, <2>3 DEF ClaudeAnswers
<1> QED  BY <1>4, <1>5, <1>6, <1>7

(* and by itself.                                                            *)
LEMMA ClaudeMurmurs ==
  ASSUME kind = "claude", native \in ClaudeNatives, NEW r \in Works
  PROVE  ClaudeSays(r)
<1> DEFINE n == native
<1>1. CASE n.turn = None
  <2> DEFINE next == [queue |-> Tail(n.queue), turn |-> Head(n.queue), packed |-> FALSE]
             started == Msg("lifecycle", Head(n.queue).id, None, "started")
  <2>1. n.queue # <<>> /\ r = [native |-> next, out |-> <<started>>]
    BY <1>1, ClaudeWords DEF Works, Claude!Works, Claude!Only, Claude!Lifecycle
  <2>2. Ran(started) /\ started.id = Head(n.queue).id
    BY DEF Msg, Ran
  <2>3. Has(Head(n.queue))
    <3>1. n.queue \in Seq(Users)
      BY DEF ClaudeNatives
    <3>2. 1 \in DOMAIN n.queue /\ Head(n.queue) = n.queue[1]
      BY <2>1, <3>1
    <3> QED  BY <3>2 DEF Has
  <2> HIDE DEF next, started
  <2>4. \A i \in DOMAIN r.out : r.out[i] = started
    BY <2>1, Elements
  <2> QED  BY <2>2, <2>3, <2>4 DEF ClaudeSays
<1>2. CASE n.turn # None
  <2> DEFINE rests == [n EXCEPT !.turn = None]
             packs == [n EXCEPT !.packed = TRUE]
             result(x) == Msg("result", n.turn.id, None, x)
             packed == Msg("compact_boundary", None, None, None)
  <2>1. \/ \E x \in {"success", "error"} : r = [native |-> rests, out |-> <<result(x)>>]
        \/ r = [native |-> packs, out |-> <<packed>>]
    <3>1. r \in Claude!Works(n)
      BY DEF Works
    <3> HIDE DEF n
    <3>2. \/ \E x \in {"success", "error"} :
               r = Claude!Only(rests, <<Claude!Result(n.turn, x)>>)
          \/ r = Claude!Only(packs, <<Claude!Msg("compact_boundary", None, None, None)>>)
      BY <1>2, <3>1 DEF Claude!Works
    <3> QED  BY <3>2, ClaudeWords DEF Claude!Only, Claude!Result
  <2>2. /\ packed.type = "compact_boundary" /\ \A x : result(x).id = n.turn.id /\ Ran(result(x))
        /\ Has(n.turn)
    BY <1>2 DEF Msg, Ran, Has
  <2> HIDE DEF rests, packs, result, packed
  <2>3. CASE \E x \in {"success", "error"} : r = [native |-> rests, out |-> <<result(x)>>]
    <3>1. PICK x : r = [native |-> rests, out |-> <<result(x)>>]
      BY <2>3
    <3>2. \A i \in DOMAIN r.out : r.out[i] = result(x)
      BY <3>1, Elements
    <3> QED  BY <2>2, <3>2 DEF ClaudeSays
  <2>4. CASE r = [native |-> packs, out |-> <<packed>>]
    <3>1. \A i \in DOMAIN r.out : r.out[i] = packed
      BY <2>4, Elements
    <3> QED  BY <2>2, <3>1 DEF ClaudeSays
  <2> QED  BY <2>1, <2>3, <2>4
<1> QED  BY <1>1, <1>2

(* Pi gives a frame one answer at most, and its agent works only on a prompt *)
(* that it had or has just taken; only then it says that the agent starts.   *)
PiGoes(r)    == native.run # "idle" /\ r.native.ref = native.ref
PiTook(m, r) == m.method = "prompt" /\ r.native.ref = m.ref
PiTalks(m, r) ==
  /\ \E x : \A i \in DOMAIN r.out : r.out[i].type = "response" => r.out[i] = x
  /\ r.native.run # "idle" => PiGoes(r) \/ PiTook(m, r)
  /\ \A i \in DOMAIN r.out : r.out[i].type = "agent_start" => PiTook(m, r)
PiMurmurs(r) ==
  /\ r.native.run # "idle" => PiGoes(r)
  /\ \A i \in DOMAIN r.out : r.out[i].type = "agent_start" => PiGoes(r)

(* Pi taking a frame,                                                        *)
LEMMA PiReplies ==
  ASSUME kind = "pi", native \in PiNatives, NEW m \in Frames, NEW r \in Takes(m)
  PROVE  PiTalks(m, r)
<1> DEFINE n == native
           said(t) == Msg(t, None, None, None)
           last == Msg("message_end", None, None, "interrupted")
           ok == Msg("response", m.id, None, "ok")
           error == Msg("response", m.id, None, "error")
           state(w) == Msg("response", m.id, w, "ok")
           only(k, out) == [native |-> k, out |-> out]
<1>1. r \in Pi!Takes(n, m)
  BY DEF Takes
<1>2. /\ Pi!Ok(m) = ok /\ Pi!Error(m) = error /\ \A t : Pi!Says(t) = said(t)
      /\ Pi!Said("interrupted") = last
      /\ Pi!Msg("response", m.id, "busy", "ok") = state("busy")
      /\ Pi!Msg("response", m.id, "idle", "ok") = state("idle")
  BY PiWords DEF Pi!Ok, Pi!Error, Pi!Says, Pi!Said
<1>3. \A k, out : Pi!Only(k, out) = only(k, out)
  BY DEF Pi!Only
<1>4. /\ ok.type = "response" /\ error.type = "response" /\ \A w : state(w).type = "response"
      /\ last.type = "message_end" /\ \A t : said(t).type = t
  BY DEF Msg
<1> HIDE DEF said, last, ok, error, state
<1>5. CASE m.method = "prompt"
  <2> DEFINE begun == [n EXCEPT !.run = "running", !.ref = m.ref, !.retried = FALSE]
  <2>0. begun.ref = m.ref
    BY DEF PiNatives
  <2>1. \/ r.native = n /\ r.out \in {<<error>>, <<ok>>, <<said("extension_error"), ok>>}
        \/ r.native = begun /\ r.out = <<ok, said("agent_start")>>
    BY <1>1, <1>2, <1>3, <1>5 DEF Pi!Takes, Pi!TakesPrompt
  <2> HIDE DEF begun
  <2>2. CASE r.native = n /\ r.out = <<error>>
    <3>1. \A i \in DOMAIN r.out : r.out[i] = error
      BY <2>2, Elements
    <3> QED  BY <1>4, <2>2, <3>1 DEF PiTalks, PiGoes
  <2>3. CASE r.native = n /\ r.out \in {<<ok>>, <<said("extension_error"), ok>>}
    <3>1. \A i \in DOMAIN r.out : r.out[i] \in {ok, said("extension_error")}
      BY <2>3, Elements
    <3> QED  BY <1>4, <2>3, <3>1 DEF PiTalks, PiGoes
  <2>4. CASE r.native = begun /\ r.out = <<ok, said("agent_start")>>
    <3>1. \A i \in DOMAIN r.out : r.out[i] \in {ok, said("agent_start")}
      BY <2>4, Elements
    <3> QED  BY <1>4, <1>5, <2>0, <2>4, <3>1 DEF PiTalks, PiTook
  <2> QED  BY <2>1, <2>2, <2>3, <2>4
<1>6. CASE m.method \in {"steer", "clear_queue", "compact"}
  <2>0. /\ [n EXCEPT !.queued = TRUE].ref = n.ref /\ [n EXCEPT !.queued = TRUE].run = n.run
        /\ [n EXCEPT !.queued = FALSE].ref = n.ref /\ [n EXCEPT !.queued = FALSE].run = n.run
        /\ [n EXCEPT !.compact = m.id].ref = n.ref /\ [n EXCEPT !.compact = m.id].run = n.run
    BY DEF PiNatives
  <2>1. /\ r.native \in {n, [n EXCEPT !.queued = TRUE], [n EXCEPT !.queued = FALSE],
                         [n EXCEPT !.compact = m.id]}
        /\ r.out \in {<<error>>, <<ok>>, <<>>}
    BY <1>1, <1>2, <1>3, <1>6 DEF Pi!Takes
  <2>2. r.native.run # "idle" => PiGoes(r)
    BY <2>0, <2>1 DEF PiGoes
  <2>3. \E x \in {ok, error} : \A i \in DOMAIN r.out : r.out[i] = x
    BY <2>1, Elements
  <2> QED  BY <1>4, <2>2, <2>3 DEF PiTalks
<1>7. CASE m.method = "abort"
  <2>0. /\ [n EXCEPT !.run = "running", !.queued = FALSE].ref = n.ref
        /\ Pi!Rest(n).run = "idle"
    BY DEF PiNatives, Pi!Rest
  <2>1. /\ \/ r.native = n
           \/ r.native = [n EXCEPT !.run = "running", !.queued = FALSE] /\ n.run # "idle"
           \/ r.native = Pi!Rest(n)
        /\ r.out \in {<<ok>>, <<said("agent_settled"), ok>>, <<last, said("agent_settled"), ok>>}
    BY <1>1, <1>2, <1>3, <1>7 DEF Pi!Takes
  <2>2. r.native.run # "idle" => PiGoes(r)
    BY <2>0, <2>1 DEF PiGoes
  <2>3. \A i \in DOMAIN r.out : r.out[i] \in {ok, last, said("agent_settled")}
    BY <2>1, Elements
  <2> QED  BY <1>4, <2>2, <2>3 DEF PiTalks
<1>8. CASE m.method \notin {"prompt", "steer", "clear_queue", "compact", "abort"}
  <2>1. /\ r.native = n
        /\ r.out \in {<<ok>>, <<state("busy")>>, <<state("idle")>>}
    BY <1>1, <1>2, <1>3, <1>8 DEF Pi!Takes
  <2>2. \E x \in {ok, state("busy"), state("idle")} : \A i \in DOMAIN r.out : r.out[i] = x
    BY <2>1, Elements
  <2> QED  BY <1>4, <2>1, <2>2 DEF PiTalks, PiGoes
<1> QED  BY <1>5, <1>6, <1>7, <1>8

(* and by itself.                                                            *)
LEMMA PiAlone ==
  ASSUME kind = "pi", native \in PiNatives, NEW r \in Works
  PROVE  PiMurmurs(r)
<1> DEFINE n == native
           emptier == [n EXCEPT !.queued = FALSE]
           rests == [n EXCEPT !.run = "idle", !.ref = None]
           packing == [n EXCEPT !.run = "compacting", !.retried = TRUE]
           again == [n EXCEPT !.run = "running"]
           packed == [n EXCEPT !.compact = None]
           said(t) == Msg(t, None, None, None)
           last(x) == Msg("message_end", None, None, x)
           answer(x) == Msg("response", n.compact, None, x)
           only(k, out) == [native |-> k, out |-> out]
<1>1. /\ emptier.ref = n.ref /\ emptier.run = n.run
      /\ rests.run = "idle" /\ packing.ref = n.ref /\ again.ref = n.ref
      /\ packed.ref = n.ref /\ packed.run = n.run
  BY DEF PiNatives
<1>2. /\ \A x : last(x).type = "message_end" /\ answer(x).type = "response"
      /\ \A t : said(t).type = t
  BY DEF Msg
<1>3. \/ r = only(emptier, <<>>)
      \/ \E x \in {"completed", "failed"} : r = only(rests, <<last(x), said("agent_settled")>>)
      \/ n.run = "running" /\ r = only(packing, <<said("agent_settled")>>)
      \/ n.run = "compacting" /\ r = only(again, <<said("agent_start")>>)
      \/ \E x \in {"ok", "error"} : r = only(packed, <<answer(x)>>)
  <2>1. r \in Pi!Works(n)
    BY DEF Works
  <2>2. /\ Pi!Rest(n) = rests /\ \A t : Pi!Says(t) = said(t) /\ \A x : Pi!Said(x) = last(x)
        /\ \A x : Pi!Msg("response", n.compact, None, x) = answer(x)
    BY PiWords DEF Pi!Says, Pi!Said, Pi!Rest
  <2>3. \A k, out : Pi!Only(k, out) = only(k, out)
    BY DEF Pi!Only
  <2> HIDE DEF only, said, last, answer, rests
  <2>4. \/ r = only([n EXCEPT !.queued = FALSE], <<>>)
        \/ n.run = "running" /\ r = only(packing, <<said("agent_settled")>>)
        \/ n.run = "compacting" /\ r = only(again, <<said("agent_start")>>)
        \/ r \in {only(rests, <<last(x), said("agent_settled")>>) : x \in {"completed", "failed"}}
        \/ r \in {only(packed, <<answer(x)>>) : x \in {"ok", "error"}}
    BY <2>1, <2>2, <2>3 DEF Pi!Works
  <2> QED  BY <2>4
<1> HIDE DEF emptier, rests, packing, again, packed, said, last, answer
<1>4. CASE r = only(emptier, <<>>)
  <2>1. r.native = emptier /\ r.out = <<>>
    BY <1>4
  <2> QED  BY <1>1, <2>1, Elements DEF PiMurmurs, PiGoes
<1>5. CASE \E x \in {"completed", "failed"} : r = only(rests, <<last(x), said("agent_settled")>>)
  <2>1. PICK x : r.native = rests /\ r.out = <<last(x), said("agent_settled")>>
    BY <1>5
  <2>2. \A i \in DOMAIN r.out : r.out[i] \in {last(x), said("agent_settled")}
    BY <2>1, Elements
  <2> QED  BY <1>1, <1>2, <2>1, <2>2 DEF PiMurmurs, PiGoes
<1>6. CASE n.run = "running" /\ r = only(packing, <<said("agent_settled")>>)
  <2>1. r.native = packing /\ \A i \in DOMAIN r.out : r.out[i] = said("agent_settled")
    BY <1>6, Elements
  <2> QED  BY <1>1, <1>2, <1>6, <2>1 DEF PiMurmurs, PiGoes
<1>7. CASE n.run = "compacting" /\ r = only(again, <<said("agent_start")>>)
  <2>1. r.native = again
    BY <1>7
  <2> QED  BY <1>1, <1>7, <2>1 DEF PiMurmurs, PiGoes
<1>8. CASE \E x \in {"ok", "error"} : r = only(packed, <<answer(x)>>)
  <2>1. PICK x : r.native = packed /\ r.out = <<answer(x)>>
    BY <1>8
  <2>2. \A i \in DOMAIN r.out : r.out[i] = answer(x)
    BY <2>1, Elements
  <2> QED  BY <1>1, <1>2, <2>1, <2>2 DEF PiMurmurs, PiGoes
<1> QED  BY <1>3, <1>4, <1>5, <1>6, <1>7, <1>8

-----------------------------------------------------------------------------
(* A prompt runs after a step of the program when it ran before or was taken *)
(* and not declined.                                                         *)
Runs(out, p) ==
  p \in NativeTurns \/ (Took(p) /\ \A k \in DOMAIN out : ~Declines(out[k], p))

(* What a program says of the prompts: it speaks of those that run and       *)
(* declines what it has just taken.  Pi's agent works on one that runs.      *)
Voice(out) ==
  \A p \in Prompts :
    /\ \A i \in DOMAIN out : Concerns(out[i], p) => Runs(out, p)
    /\ \A i \in DOMAIN out : Declines(out[i], p) => Took(p)
PiVoice(out) ==
  native'.run # "idle" \/ (\E i \in DOMAIN out : out[i].type = "agent_start") =>
    native'.ref \in Prompts /\ Runs(out, native'.ref)

(* A prompt that the program holds was not refused or declined, and the      *)
(* driver has accepted it.                                                   *)
LEMMA HeldSpared ==
  ASSUME IInv, SInv, kind # "cursor", NEW p \in Prompts, Holds(p)
  PROVE  /\ ~Coming(p) /\ ops[p].state # "refused"
         /\ \A i \in DOMAIN stdout : ~Declines(stdout[i], p)
         /\ ~(kind = "claude" /\ SaysNo(adapter, p))
<1>1. progress.request = p /\ Unfinished(progress) /\ ~Coming(p) /\ ~Past(p)
  BY Held DEF SInv
<1>2. ops[p].state # "refused"
  <2>1. CASE kind = "claude"
    BY <2>1 DEF SInv, OverInv, Over
  <2>2. CASE kind # "claude"
    BY <1>1, <2>2 DEF IInv, BusyInv, NotOver
  <2> QED  BY <2>1, <2>2
<1>3. \A i \in DOMAIN stdout : Declines(stdout[i], p) => Final(stdout[i], p)
  BY DEF Declines, Final, IInv, BusyInv
<1> QED  BY <1>1, <1>2, <1>3 DEF SInv, DoneInv, ReplyInv

(* A prompt that a program says to run, or that it goes on with, is heard.   *)
LEMMA RunsHeard ==
  ASSUME IInv, SInv, Steady, kind # "cursor", NEW r, Acts(r), Moves(r.out), Voice(r.out),
         NEW p \in Prompts, Runs(r.out, p)
  PROVE  ~Unheard(p)'
<1>1. /\ kind' = kind /\ adapter' = adapter /\ ops' = ops /\ stdout' = stdout \o r.out
      /\ r.out \in Seq(Messages) /\ stdout \in Seq(Messages) /\ stdin \in Seq(Frames) /\ Fewer
      /\ TokenInv
  BY DEF Acts, IInv, TypeInv, PipesOK, SInv, Moves
<1>2. Joins(stdout, r.out, stdout')
  BY <1>1, Joined
<1>3. Took(p) => Written(p)
  BY <1>1, FewerLeft DEF Took, Written, Carries
<1>4. Holds(p)
  BY <1>3 DEF Runs, Holds
<1>5. /\ ~Coming(p) /\ ops[p].state # "refused"
      /\ \A i \in DOMAIN stdout : ~Declines(stdout[i], p)
      /\ ~(kind = "claude" /\ SaysNo(adapter, p))
  BY <1>4, HeldSpared
<1>6. ~Written(p)'
  <2>1. PICK k \in 0..1 : \A i \in DOMAIN stdin' : i + k \in DOMAIN stdin /\ stdin'[i] = stdin[i + k]
    BY <1>1, FewerLeft
  <2>2. CASE p \in NativeTurns
    BY <1>1, <2>1, <2>2 DEF TokenInv, Written, Carries
  <2>3. CASE Took(p)
    <3>1. /\ 1 \in DOMAIN stdin /\ Carries(stdin[1])
          /\ \A i \in DOMAIN stdin' : /\ i + 1 \in DOMAIN stdin /\ i + 1 # 1
                                      /\ stdin'[i] = stdin[i + 1]
      BY <1>1, <2>3, FewerLeft DEF Took
    <3> QED  BY <1>1, <3>1 DEF TokenInv, Written, Carries
  <2> QED  BY <2>2, <2>3 DEF Runs
<1>7. \A i \in DOMAIN r.out : ~Declines(r.out[i], p)
  <2>1. p \in NativeTurns => ~Took(p)
    BY <1>1, FewerLeft DEF TokenInv, Took
  <2> QED  BY <2>1 DEF Runs, Voice
<1>8. \A i \in DOMAIN stdout' : ~Declines(stdout'[i], p)
  BY <1>2, <1>5, <1>7 DEF Joins
<1>9. ~Coming(p)'
  BY <1>5 DEF Steady
<1>10. SaysNo(adapter', p) /\ kind = "claude" => FALSE
  BY <1>1, <1>5
<1>11. ~Declined(p)'
  BY <1>1, <1>6, <1>8, <1>10, SameTerms DEF Declined, SaysNo
<1> QED  BY <1>1, <1>5, <1>9, <1>11 DEF Unheard

(* A program that speaks so tells the driver nothing of a prompt that is not *)
(* heard.                                                                    *)
LEMMA VoiceTells ==
  ASSUME IInv, SInv, RInv, Steady, kind # "cursor", NEW r, Acts(r), Moves(r.out), Voice(r.out),
         kind = "pi" => PiVoice(r.out)
  PROVE  QuietInv'
<1>1. /\ kind' = kind /\ adapter' = adapter /\ progress' = progress /\ ops' = ops /\ turn' = turn
      /\ stdout' = stdout \o r.out /\ r.out \in Seq(Messages)
      /\ stdout \in Seq(Messages) /\ stdin \in Seq(Frames) /\ Fewer
  BY DEF Acts, IInv, TypeInv, PipesOK, Moves
<1>2. Joins(stdout, r.out, stdout') /\ Queue' = Queue
  BY <1>1, Joined, ActsKeep
<1> SUFFICES ASSUME NEW p \in Prompts, Unheard(p)' PROVE Unspoken(p)' /\ Hushed(p)'
  BY DEF QuietInv
<1>3. ~Runs(r.out, p)
  BY RunsHeard
<1>4. Unheard(p)
  <2>1. Written(p)' => Written(p)
    BY <1>1, FewerLeft DEF Written
  <2>2. Took(p) => Written(p)
    BY <1>1, FewerLeft DEF Took, Written, Carries
  <2>3. (\E i \in DOMAIN stdout' : Declines(stdout'[i], p)) => Declined(p)
    BY <1>2, <2>2 DEF Joins, Voice, Declined
  <2>4. Declined(p)' => Declined(p)
    <3>1. Declined(p)' => Written(p)' \/ (\E i \in DOMAIN stdout' : Declines(stdout'[i], p))
                          \/ (kind = "claude" /\ SaysNo(adapter, p))
      BY <1>1, SameTerms DEF Declined, SaysNo
    <3> QED  BY <2>1, <2>3, <3>1 DEF Declined
  <2> QED  BY <1>1, <2>4 DEF Unheard, Steady
<1>5. Unspoken(p) /\ Hushed(p)
  BY <1>4 DEF RInv, QuietInv
<1>6. Unspoken(p)'
  BY <1>1, <1>2, <1>5 DEF Unspoken, EndsLater
<1>7. \A i \in DOMAIN stdout' : ~Concerns(stdout'[i], p)
  BY <1>2, <1>3, <1>5 DEF Joins, Voice, Hushed
<1>8. ASSUME kind = "pi", progress.request = p
      PROVE  \A i \in DOMAIN stdout' : stdout'[i].type # "agent_start"
  <2>1. \A i \in DOMAIN stdout : stdout[i].type # "agent_start"
    BY <1>5, <1>8 DEF Hushed
  <2>2. \A i \in DOMAIN r.out : r.out[i].type # "agent_start"
    <3> SUFFICES ASSUME NEW i \in DOMAIN r.out, r.out[i].type = "agent_start" PROVE FALSE
      OBVIOUS
    <3> DEFINE q == native'.ref
    <3>1. q \in Prompts /\ Runs(r.out, q)
      BY <1>8 DEF PiVoice
    <3> HIDE DEF q
    <3>2. Holds(q)
      BY <1>1, <3>1, FewerLeft DEF Runs, Took, Holds, Written, Carries
    <3>3. progress.request = q
      BY <3>1, <3>2, Held DEF SInv
    <3> QED  BY <1>3, <1>8, <3>1, <3>3
  <2> QED  BY <1>2, <2>1, <2>2 DEF Joins
<1>9. Hushed(p)'
  BY <1>1, <1>5, <1>7, <1>8, SameTerms DEF Hushed
<1> QED  BY <1>6, <1>9

(* Pi's agent works on the turn of the driver.                               *)
LEMMA PiAgents ==
  ASSUME IInv, SInv, RInv, Steady, kind = "pi", NEW r, Acts(r), Moves(r.out), PiVoice(r.out)
  PROVE  AgentInv'
<1>1. /\ kind' = kind /\ progress' = progress /\ native' = r.native /\ NativeTurns' = {native'.ref}
      /\ stdout' = stdout \o r.out /\ r.out \in Seq(Messages) /\ stdout \in Seq(Messages)
      /\ stdin \in Seq(Frames) /\ Fewer
  BY DEF Acts, IInv, TypeInv, PipesOK, Moves, NativeTurns
<1>2. Joins(stdout, r.out, stdout')
  BY <1>1, Joined
<1>3. native'.run # "idle" => native'.ref \in Prompts
  BY DEF PiVoice
<1>4. ASSUME NEW i \in DOMAIN stdout', stdout'[i].type = "agent_start"
      PROVE  /\ Unfinished(progress)
             /\ \A j \in DOMAIN stdout' : Final(stdout'[j], progress.request) => i < j
  <2>1. CASE i \in DOMAIN stdout
    <3>1. stdout'[i] = stdout[i]
      BY <1>2, <2>1 DEF Joins
    <3>2. /\ Unfinished(progress)
          /\ \A j \in DOMAIN stdout : Final(stdout[j], progress.request) => i < j
      BY <1>4, <2>1, <3>1 DEF RInv, AgentInv
    <3>3. \A j \in DOMAIN stdout' : i < j \/ (j \in DOMAIN stdout /\ stdout'[j] = stdout[j])
      BY <1>2, <2>1 DEF Joins
    <3> QED  BY <3>2, <3>3
  <2>2. CASE i \notin DOMAIN stdout
    <3>1. \E j \in DOMAIN r.out : r.out[j].type = "agent_start"
      BY <1>2, <1>4, <2>2 DEF Joins
    <3> DEFINE q == native'.ref
    <3>2. q \in Prompts /\ Runs(r.out, q) /\ q \in NativeTurns'
      BY <1>1, <3>1 DEF PiVoice
    <3> HIDE DEF q
    <3>3. Holds(q)
      BY <1>1, <3>2, FewerLeft DEF Runs, Took, Holds, Written, Carries
    <3>4. progress.request = q /\ Unfinished(progress) /\ ~Past(q)
      BY <3>2, <3>3, Held DEF SInv
    <3>5. \A j \in DOMAIN r.out : ~Final(r.out[j], q)
      BY <3>2 DEF Moves
    <3>6. \A j \in DOMAIN stdout : ~Final(stdout[j], q)
      BY <3>2, <3>4 DEF SInv, DoneInv
    <3>7. \A j \in DOMAIN stdout' : ~Final(stdout'[j], q)
      BY <1>2, <3>5, <3>6 DEF Joins
    <3> QED  BY <3>4, <3>7
  <2> QED  BY <2>1, <2>2
<1> QED  BY <1>1, <1>3, <1>4, SameTerms DEF AgentInv, Unfinished

-----------------------------------------------------------------------------
(* So speaks Codex,                                                          *)
LEMMA CodexVoice ==
  ASSUME IInv, SInv, kind = "codex", NEW r, Acts(r)
  PROVE  Voice(r.out)
<1>1. /\ native \in CodexNatives /\ TokenInv /\ FramesInv /\ "compaction" \notin Prompts
      /\ None \notin Prompts /\ NativeTurns = {native.turn}
  BY NamesAssumption DEF IInv, TypeInv, NativeOK, SInv, NativeTurns
<1>2. \A x, p : /\ Concerns(x, p) => x.type \in {"turn/started", "turn/completed"} /\ x.ref = p
                /\ Declines(x, p) =>
                     x.type = "response" /\ x.id = PromptCall(p) /\ x.status # "ok"
  BY DEF Concerns, Declines
<1> DEFINE m == stdin[1]
<1> SUFFICES ASSUME NEW p \in Prompts, NEW i \in DOMAIN r.out
             PROVE  /\ Concerns(r.out[i], p) => Runs(r.out, p)
                    /\ Declines(r.out[i], p) => Took(p)
  BY DEF Voice
<1>3. CASE /\ stdin # <<>> /\ stdin' = Tail(stdin) /\ m \in Frames /\ 1 \in DOMAIN stdin
           /\ r \in Takes(m)
  <2>1. Framed(m) /\ (Carries(m) /\ m.ref = p => Took(p))
    BY <1>1, <1>3 DEF FramesInv, Took
  <2>2. m.id = PromptCall(p) => Took(p)
    BY <2>1, Named
  <2>3. CASE CodexRests(m, r) \/ CodexPacks(m, r)
    <3>1. r.out[i].type = "response" /\ r.out[i].id = m.id
      BY <2>3 DEF CodexRests, CodexPacks, OkTo, ErrorTo, Msg
    <3> QED  BY <1>2, <2>2, <3>1
  <2>4. CASE CodexBegins(m, r)
    <3>1. \A k \in DOMAIN r.out : ~Declines(r.out[k], p)
      BY <1>2, <2>4 DEF CodexBegins, OkTo, Msg
    <3>2. Concerns(r.out[i], p) => m.ref = p
      BY <1>2, <2>4 DEF CodexBegins, OkTo, Msg
    <3>3. Carries(m)
      BY <2>4 DEF CodexBegins, Carries
    <3> QED  BY <2>1, <3>1, <3>2, <3>3 DEF Runs
  <2>5. CASE CodexStops(m, r)
    <3>1. ~Declines(r.out[i], p) /\ (Concerns(r.out[i], p) => m.ref = p)
      BY <1>2, <2>5 DEF CodexStops, OkTo, Msg
    <3> QED  BY <1>1, <2>5, <3>1 DEF CodexStops, Runs
  <2> QED  BY <1>1, <1>3, <2>3, <2>4, <2>5, CodexTaking
<1>4. CASE stdin' = stdin /\ r \in Works
  <2>1. CASE CodexShells(r) \/ CodexStarts(r)
    <3>1. r.out[i].type # "response" /\ (r.out[i].type = "item/started" \/ r.out[i].ref = "compaction")
      BY <2>1, Elements DEF CodexShells, CodexStarts, Msg
    <3> QED  BY <1>1, <1>2, <3>1
  <2>2. CASE CodexEnds(r)
    <3>1. r.out[i].type = "turn/completed" /\ r.out[i].ref = native.turn
      BY <2>2, Elements DEF CodexEnds, Msg
    <3> QED  BY <1>1, <1>2, <3>1 DEF Runs
  <2>3. CASE CodexPacked(r)
    <3>1. ASSUME NEW x, r.out = <<x>> PROVE r.out[i] = x
      BY <3>1, Elements
    <3>2. \/ r.out = <<Msg("thread/compacted", None, None, None)>>
          \/ \E s \in Names : r.out = <<Msg("turn/completed", None, "compaction", s)>>
      BY <2>3 DEF CodexPacked
    <3>3. \/ r.out[i] = Msg("thread/compacted", None, None, None)
          \/ \E s \in Names : r.out[i] = Msg("turn/completed", None, "compaction", s)
      BY <3>1, <3>2
    <3>4. \/ r.out[i].type = "thread/compacted"
          \/ r.out[i].type = "turn/completed" /\ r.out[i].ref = "compaction"
      <4>1. /\ Msg("thread/compacted", None, None, None).type = "thread/compacted"
            /\ \A s : /\ Msg("turn/completed", None, "compaction", s).type = "turn/completed"
                      /\ Msg("turn/completed", None, "compaction", s).ref = "compaction"
        BY DEF Msg
      <4> QED  BY <3>3, <4>1
    <3> QED  BY <1>1, <1>2, <3>4
  <2> QED  BY <1>1, <1>4, <2>1, <2>2, <2>3, CodexWorking
<1> QED  BY <1>3, <1>4 DEF Acts

(* Pi,                                                                       *)
LEMMA PiVoices ==
  ASSUME IInv, SInv, RInv, kind = "pi", NEW r, Acts(r)
  PROVE  Voice(r.out) /\ PiVoice(r.out)
<1>1. /\ native \in PiNatives /\ TokenInv /\ FramesInv /\ PiInv /\ None \notin Prompts
      /\ NativeTurns = {native.ref} /\ native' = r.native
      /\ native.run # "idle" => native.ref \in Prompts
  BY NamesAssumption DEF IInv, TypeInv, NativeOK, SInv, NativeTurns, Acts, RInv, AgentInv
<1>2. \A x, p : /\ Concerns(x, p) =>
                     x.type = "response" /\ x.id = PromptCall(p) /\ x.status = "ok"
                /\ Declines(x, p) =>
                     x.type = "response" /\ x.id = PromptCall(p) /\ x.status # "ok"
  BY DEF Concerns, Declines
<1>3. PiGoes(r) => native'.ref \in Prompts /\ Runs(r.out, native'.ref)
  BY <1>1 DEF PiGoes, Runs
<1> DEFINE m == stdin[1]
<1>4. CASE /\ stdin # <<>> /\ stdin' = Tail(stdin) /\ m \in Frames /\ 1 \in DOMAIN stdin
           /\ r \in Takes(m)
  <2>1. Framed(m) /\ \A p : Carries(m) /\ m.ref = p => Took(p)
    BY <1>1, <1>4 DEF FramesInv, Took
  <2>2. \A p \in Prompts : m.id = PromptCall(p) => Took(p)
    BY <2>1, Named
  <2>3. PiTalks(m, r) /\ PiAnswers(m, r)
    BY <1>1, <1>4, PiReplies, PiTaking
  <2>4. \A i \in DOMAIN r.out : r.out[i].type = "response" => r.out[i].id = m.id
    BY <2>3 DEF PiAnswers
  <2>5. Voice(r.out)
    <3> SUFFICES ASSUME NEW p \in Prompts, NEW i \in DOMAIN r.out
                 PROVE  /\ Concerns(r.out[i], p) => Runs(r.out, p)
                        /\ Declines(r.out[i], p) => Took(p)
      BY DEF Voice
    <3>1. Declines(r.out[i], p) => Took(p)
      BY <1>2, <2>2, <2>4
    <3>2. ASSUME Concerns(r.out[i], p) PROVE Runs(r.out, p)
      <4>1. Took(p)
        BY <1>2, <2>2, <2>4, <3>2
      <4>2. PICK x : \A k \in DOMAIN r.out : r.out[k].type = "response" => r.out[k] = x
        BY <2>3 DEF PiTalks
      <4>3. r.out[i] = x /\ x.status = "ok"
        BY <1>2, <3>2, <4>2
      <4>4. \A k \in DOMAIN r.out : ~Declines(r.out[k], p)
        BY <1>2, <4>2, <4>3
      <4> QED  BY <4>1, <4>4 DEF Runs
    <3> QED  BY <3>1, <3>2
  <2>6. PiTook(m, r) => native'.ref \in Prompts /\ Runs(r.out, native'.ref)
    <3> SUFFICES ASSUME PiTook(m, r) PROVE m.ref \in Prompts /\ Runs(r.out, m.ref)
      BY <1>1 DEF PiTook
    <3>1. Carries(m) /\ m.ref \in Prompts /\ Took(m.ref)
      BY <2>1 DEF PiTook, Carries, Framed
    <3>2. r.native # native
      BY <1>1, <1>4, <3>1 DEF PiTook, TokenInv
    <3>3. \A k \in DOMAIN r.out : ~Declines(r.out[k], m.ref)
      BY <1>2, <2>3, <3>1, <3>2 DEF PiAnswers
    <3> QED  BY <3>1, <3>3 DEF Runs
  <2>7. PiVoice(r.out)
    BY <1>1, <1>3, <2>3, <2>6 DEF PiVoice, PiTalks
  <2> QED  BY <2>5, <2>7
<1>5. CASE stdin' = stdin /\ r \in Works
  <2>1. PiVoice(r.out)
    <3>1. PiMurmurs(r)
      BY <1>1, <1>5, PiAlone
    <3> QED  BY <1>1, <1>3, <3>1 DEF PiVoice, PiMurmurs
  <2>2. \A i \in DOMAIN r.out : r.out[i].type = "response" =>
          native.compact # None /\ r.out[i].id = native.compact
    BY <1>1, <1>5, PiWorking
  <2>3. Voice(r.out)
    BY <1>1, <1>2, <2>2 DEF Voice, PiInv
  <2> QED  BY <2>1, <2>3
<1> QED  BY <1>4, <1>5 DEF Acts

(* and Claude.                                                               *)
LEMMA ClaudeVoice ==
  ASSUME IInv, SInv, kind = "claude", NEW r, Acts(r)
  PROVE  Voice(r.out)
<1>1. /\ native \in ClaudeNatives /\ TokenInv /\ FramesInv /\ QueueInv
      /\ \A p : p \in NativeTurns <=> \E u : Has(u) /\ u.ref = p
  BY ClaudeHolds DEF IInv, TypeInv, NativeOK, SInv
<1>2. \A x, p : /\ Concerns(x, p) => x.id = PromptCall(p) /\ Ran(x)
                /\ Declines(x, p) => x.id = PromptCall(p) /\ ~Ran(x)
                /\ Ran(x) => x.type \in {"result", "lifecycle"}
  BY DEF Concerns, Declines, Ran
<1>3. \A u : \A p \in Prompts : Has(u) /\ u.id = PromptCall(p) => p \in NativeTurns
  BY <1>1, UserNamed
<1> DEFINE m == stdin[1]
<1> SUFFICES ASSUME NEW p \in Prompts, NEW i \in DOMAIN r.out
             PROVE  /\ Concerns(r.out[i], p) => Runs(r.out, p)
                    /\ Declines(r.out[i], p) => Took(p)
  BY DEF Voice
<1>4. CASE /\ stdin # <<>> /\ stdin' = Tail(stdin) /\ m \in Frames /\ 1 \in DOMAIN stdin
           /\ r \in Takes(m)
  <2>1. Framed(m) /\ (Carries(m) /\ m.ref = p => Took(p))
    BY <1>1, <1>4 DEF FramesInv, Took
  <2>2. m.id = PromptCall(p) => Took(p) /\ m.method # "bootstrap"
    BY <2>1, Named DEF Carries
  <2>3. \/ r.out[i].id = m.id /\ ~Ran(r.out[i])
        \/ /\ r.out[i].type = "result"
           /\ \/ r.out[i].id = m.id /\ m.method = "bootstrap"
              \/ \E u : Has(u) /\ r.out[i].id = u.id
    BY <1>1, <1>4, ClaudeReplies DEF ClaudeAnswers
  <2>4. r.out[i].type = "result" => Ran(r.out[i])
    BY DEF Ran
  <2> QED  BY <1>2, <1>3, <2>2, <2>3, <2>4 DEF Runs
<1>5. CASE stdin' = stdin /\ r \in Works
  <2>1. \/ r.out[i].type = "compact_boundary"
        \/ Ran(r.out[i]) /\ \E u : Has(u) /\ r.out[i].id = u.id
    BY <1>1, <1>5, ClaudeMurmurs DEF ClaudeSays
  <2>2. Declines(r.out[i], p) => r.out[i].type # "compact_boundary"
    BY DEF Declines
  <2> QED  BY <1>2, <1>3, <2>1, <2>2 DEF Runs
<1> QED  BY <1>4, <1>5 DEF Acts

(* Cursor speaks of prompts in no such message; what of it the driver tells  *)
(* is of the turn that it works on.                                          *)
LEMMA CursorQuiet ==
  ASSUME IInv, SInv, RInv, Steady, kind = "cursor", NEW r, Acts(r)
  PROVE  QuietInv'
<1>1. /\ kind' = kind /\ adapter' = adapter /\ ops' = ops /\ turn' = turn /\ Queue' = Queue
  BY ActsKeep DEF Acts
<1> SUFFICES ASSUME NEW p \in Prompts, Unheard(p)' PROVE Unspoken(p)' /\ Hushed(p)'
  BY DEF QuietInv
<1>2. Unheard(p)
  BY <1>1 DEF Unheard, Steady
<1>3. Unspoken(p)'
  BY <1>1, <1>2 DEF RInv, QuietInv, Unspoken, EndsLater
<1>4. Hushed(p)'
  BY <1>1 DEF Hushed, Concerns
<1> QED  BY <1>3, <1>4

(* Every program at work.                                                    *)
LEMMA NativeTells ==
  ASSUME IInv, IInv', SInv, RInv, Steady, NativeTakes \/ NativeWorks
  PROVE  RInv'
<1>1. PICK r : Acts(r)
  BY Acting
<1>2. /\ kind' = kind /\ adapter' = adapter /\ progress' = progress /\ ops' = ops
      /\ calls' = calls /\ turn' = turn /\ compaction' = compaction /\ exited' = exited
      /\ Queue' = Queue
  BY <1>1, ActsKeep DEF Acts
<1>3. ExitLast'
  BY <1>2, ExitStays DEF RInv
<1>4. PackKnown'
  BY <1>2 DEF RInv, PackKnown, PackUnknown
<1>5. TellInv'
  <2>1. FewerTold /\ SameTurnNow /\ Refusals
    BY <1>2 DEF FewerTold, SameTurnNow, Refusals, EndsLater, Unheard
  <2> QED  BY <2>1, TellSame DEF RInv
<1>6. UsersInv'
  BY <1>2, SameTerms DEF RInv, UsersInv
<1>7. QuietInv' /\ AgentInv'
  <2>1. CASE kind = "codex"
    <3>1. QuietInv'
      BY <1>1, <2>1, CodexMoves, CodexVoice, VoiceTells
    <3> QED  BY <1>2, <2>1, <3>1 DEF AgentInv
  <2>2. CASE kind = "pi"
    BY <1>1, <2>2, PiMoves, PiVoices, VoiceTells, PiAgents
  <2>3. CASE kind = "claude"
    <3>1. QuietInv'
      BY <1>1, <2>3, ClaudeMoves, ClaudeVoice, VoiceTells
    <3> QED  BY <1>2, <2>3, <3>1 DEF AgentInv
  <2>4. CASE kind = "cursor"
    BY <1>1, <1>2, <2>4, CursorQuiet DEF AgentInv
  <2> QED  BY <2>1, <2>2, <2>3, <2>4, KindKnown DEF IInv, TypeInv
<1> QED  BY <1>3, <1>4, <1>5, <1>6, <1>7 DEF RInv

-----------------------------------------------------------------------------
(* A step that makes no prompt wait for an answer but one that does.         *)
WaitsOn == \A p \in Prompts : ops'[p].state = "pending" =>
             ops[p].state = "pending" /\ ops'[p].step = ops[p].step
Tamed(op) == ops'[op].state # "pending" /\ \A x \in Ops : x # op => ops'[x] = ops[x]

(* Then those that wait are not waiting for their last call.                 *)
LEMMA WaitsKeep ==
  ASSUME WaitInv, kind' = kind, WaitsOn
  PROVE  WaitInv'
BY SameScript DEF WaitInv, WaitsOn

(* An operation that does not wait makes no other wait.                      *)
LEMMA TamedWaits ==
  ASSUME NEW op \in Ops, Tamed(op) PROVE WaitsOn
BY OpsKnown DEF Tamed, WaitsOn

(* One that gets a new state or its next call is such an operation.          *)
LEMMA SetTamed ==
  ASSUME IInv, NEW op \in Ops,
         \/ \E s \in Calling \ {"pending"} : ops' = [ops EXCEPT ![op].state = s]
         \/ ops' = Forward(ops, op)
  PROVE  Tamed(op)
<1>1. ops \in [Ops -> Operation]
  BY DEF IInv, TypeInv, OpsOK
<1>2. CASE ops' = Forward(ops, op)
  BY <1>1, <1>2, SetForward DEF OpStep, Tamed
<1>3. CASE \E s \in Calling \ {"pending"} : ops' = [ops EXCEPT ![op].state = s]
  BY <1>1, <1>3, SetState DEF OpStep, Tamed
<1> QED  BY <1>2, <1>3

(* The session gives an operation its state and target.                      *)
LEMMA AtTamed ==
  ASSUME IInv, NEW op \in Ops, NEW s \in Calling \ {"pending"}, NEW t \in Refs, At(op, s, t)
  PROVE  Tamed(op)
<1>1. ops \in [Ops -> Operation]
  BY DEF IInv, TypeInv, OpsOK
<1> QED  BY <1>1, SetAt DEF Tamed

(* What the Handle and the session do makes no prompt wait,                  *)
LEMMA HandleWaits ==
  ASSUME IInv, NEW op \in Ops, Control(op) \/ HandleStep(op) \/ TimeOut(op)
  PROVE  WaitsOn /\ kind' = kind
<1>1. ops \in [Ops -> Operation]
  BY DEF IInv, TypeInv, OpsOK
<1>2. CASE Control(op)
  <2>1. PICK p \in Current : At(op, IF Targetable(p) /\ Script(op) # <<>> THEN "ready" ELSE "refused", p)
    BY <1>2 DEF Control
  <2>2. \E s \in {"ready", "refused"} : At(op, s, p)
    BY <2>1
  <2>3. p \in Refs
    BY DEF Current, Refs
  <2> QED  BY <1>2, <2>2, <2>3, AtTamed, TamedWaits DEF Control, Calling
<1>3. CASE CallStep(op)
  <2> DEFINE step == Script(op)[ops[op].step]
  <2>1. \/ ops' = [ops EXCEPT ![op].state = "settling"]
        \/ ops' = [ops EXCEPT ![op].state = "failed"]
        \/ ops' = [ops EXCEPT ![op].state = "queued"]
        \/ ops' = Forward(ops, op)
    <3>1. CASE step.mode = "settle"
      BY <1>3, <3>1 DEF CallStep
    <3>2. CASE step.mode # "settle" /\ (Gone \/ (quit /\ step.mode # "notify"))
      BY <1>3, <3>2 DEF CallStep
    <3>3. CASE step.mode # "settle" /\ ~(Gone \/ (quit /\ step.mode # "notify"))
      BY <1>3, <3>3 DEF CallStep
    <3> QED  BY <3>1, <3>2, <3>3
  <2>2. \/ \E s \in Calling \ {"pending"} : ops' = [ops EXCEPT ![op].state = s]
        \/ ops' = Forward(ops, op)
    BY <2>1 DEF Calling
  <2> QED  BY <1>3, <2>2, SetTamed, TamedWaits DEF CallStep
<1>4. CASE Settle(op) \/ TimeOut(op)
  <2>1. \/ ops' = [ops EXCEPT ![op].state = "failed"]
        \/ ops' = [ops EXCEPT ![op].state = "ok"]
        \/ ops' = Forward(ops, op)
    BY <1>4 DEF TimeOut, Settle, Done
  <2>2. \/ \E s \in Calling \ {"pending"} : ops' = [ops EXCEPT ![op].state = s]
        \/ ops' = Forward(ops, op)
    BY <2>1 DEF Calling
  <2> QED  BY <1>4, <2>2, SetTamed, TamedWaits DEF TimeOut, Settle
<1> QED  BY <1>2, <1>3, <1>4 DEF HandleStep

(* neither does what the driver answers or denies, or its leave.             *)
LEMMA DriverWaits ==
  ASSUME IInv, DenyCall \/ ReadLine \/ SendEvent \/ Leave
  PROVE  WaitsOn /\ kind' = kind
<1>1. ops \in [Ops -> Operation] /\ CallsOK
  BY DEF IInv, TypeInv, OpsOK
<1>2. CASE DenyCall
  <2>1. /\ calls # <<>>
        /\ ops' = IF Waiting(Head(calls)) THEN [ops EXCEPT ![Head(calls).op].state = "refused"]
                  ELSE ops
    BY <1>2 DEF DenyCall, Takeable, Tell
  <2>2. Head(calls).op \in Ops
    BY <1>1, <2>1, HeadDropped DEF CallsOK, CallOK, Handed
  <2>3. CASE ops' = ops
    BY <1>2, <2>3 DEF DenyCall, WaitsOn
  <2>4. CASE ops' = [ops EXCEPT ![Head(calls).op].state = "refused"]
    <3>1. \E s \in Calling \ {"pending"} : ops' = [ops EXCEPT ![Head(calls).op].state = s]
      BY <2>4 DEF Calling
    <3> QED  BY <1>2, <2>2, <3>1, SetTamed, TamedWaits DEF DenyCall
  <2> QED  BY <2>1, <2>3, <2>4
<1>3. ASSUME NEW a, NEW m, Told(a, m) PROVE WaitsOn
  <2>1. \/ ops' = ops
        \/ \E op \in Ops : ops' = Forward(ops, op)
        \/ \E op \in Ops : ops' = [ops EXCEPT ![op].state = "refused"]
    BY <1>3 DEF Told, Advances, Rejects
  <2>2. \/ ops' = ops
        \/ \E op \in Ops : \/ \E s \in Calling \ {"pending"} : ops' = [ops EXCEPT ![op].state = s]
                           \/ ops' = Forward(ops, op)
    BY <2>1 DEF Calling
  <2> QED  BY <2>2, SetTamed, TamedWaits DEF WaitsOn
<1>4. CASE ReadLine
  <2>1. Reading(Head(stdout), Receive(Head(stdout)))
    BY <1>4, ReadReading
  <2> QED  BY <1>3, <2>1 DEF Reading
<1>5. CASE SendEvent
  <2>1. Sending
    BY <1>5, SendSending
  <2> QED  BY <1>3, <2>1 DEF Sending
<1>6. CASE Leave
  <2>1. ops' = [op \in Ops |-> IF ops[op].state \in {"queued", "pending"}
                                 THEN [ops[op] EXCEPT !.state = "failed"] ELSE ops[op]]
    BY <1>6 DEF Leave
  <2>2. ASSUME NEW p \in Prompts PROVE ops'[p].state # "pending"
    <3>1. p \in Ops /\ ops[p] \in Operation
      BY <1>1, OpsKnown
    <3> QED  BY <2>1, <3>1 DEF Operation
  <2> QED  BY <1>6, <2>2 DEF Leave, WaitsOn
<1> QED  BY <1>2, <1>4, <1>5, <1>6

(* Cursor's driver takes the call of a prompt without making it wait.        *)
LEMMA AcceptWaits ==
  ASSUME IInv, WaitInv, AcceptCall
  PROVE  WaitInv'
<1>1. PICK c : c = Head(calls) /\ Accepted(c)
  BY AcceptedCall
<1>2. /\ Accepts(c) /\ CallOK(c) /\ kind' = kind /\ PlanOK
      /\ CarriesPrompt(c) <=> c.op \in Prompts /\ c.step = Len(Script(c.op))
  BY <1>1 DEF Accepted, Accepts, IInv, TypeInv
<1> SUFFICES ASSUME kind = "cursor", NEW p \in Prompts, ops'[p].state = "pending"
             PROVE  ops'[p].step < Len(Script(p))
  BY <1>2, SameScript DEF WaitInv
<1>3. CASE ops'[p] = ops[p]
  BY <1>3 DEF WaitInv
<1>4. CASE ops'[p] # ops[p]
  <2>1. p = c.op /\ ops'[p].step = c.step
    BY <1>2, <1>4, OpsKnown DEF Accepts, OpStep
  <2>2. ~CarriesPrompt(c)
    BY <1>2, <2>1 DEF Accepts
  <2>3. c.step \in DOMAIN Script(p) /\ c.step # Len(Script(p))
    BY <1>2, <2>1, <2>2 DEF CallOK
  <2> QED  BY <1>2, <2>1, <2>3, PromptScript
<1> QED  BY <1>3, <1>4

(* So no step does.                                                          *)
LEMMA WaitNext ==
  ASSUME IInv, WaitInv, [Next]_vars
  PROVE  WaitInv'
<1>1. ASSUME NEW p \in Prompts, SendPrompt(p) PROVE WaitInv'
  <2>1. At(p, "ready", p) /\ kind' = kind /\ p \in Ops /\ p \in Refs
    BY <1>1, OpsKnown DEF SendPrompt, Refs
  <2> QED  BY <2>1, AtTamed, TamedWaits, WaitsKeep DEF Calling
<1>2. ASSUME NEW op \in Ops, Control(op) \/ HandleStep(op) \/ TimeOut(op) PROVE WaitInv'
  BY <1>2, HandleWaits, WaitsKeep
<1>3. CASE Compact
  <2>1. kind' = kind /\ \E s \in {"ready", "refused"} : At("compact", s, None)
    BY <1>3 DEF Compact
  <2>2. "compact" \in Ops /\ None \in Refs
    BY OpsKnown DEF Refs, Absent
  <2> QED  BY <2>1, <2>2, AtTamed, TamedWaits, WaitsKeep DEF Calling
<1>4. CASE \/ SessionLearns \/ Record \/ Shutdown \/ Freeze \/ Thaw \/ NativeTakes \/ NativeWorks
           \/ NativeExits \/ Tick \/ Stop \/ LoopEnds \/ UNCHANGED vars
  <2>1. kind' = kind /\ ops' = ops
    BY <1>4 DEF SessionLearns, Record, Shutdown, Freeze, Thaw, NativeTakes, NativeWorks,
       NativeExits, Tick, Stop, LoopEnds, vars
  <2> QED  BY <2>1, WaitsKeep DEF WaitsOn
<1>5. CASE DenyCall \/ ReadLine \/ SendEvent \/ Leave
  BY <1>5, DriverWaits, WaitsKeep
<1>6. CASE AcceptCall
  BY <1>6, AcceptWaits
<1> QED  BY <1>1, <1>2, <1>3, <1>4, <1>5, <1>6 DEF Next, DriverStep

-----------------------------------------------------------------------------
(* In the beginning nobody knows of anything.                                *)
LEMMA FirstKnown ==
  ASSUME PlanOK, adapter = Adapter0[kind], native = Native0[kind]
  PROVE  /\ kind \in {"codex", "pi"} => adapter.compaction = None
         /\ kind = "claude" => adapter.users = {}
         /\ kind = "pi" => native.run = "idle"
         /\ kind = "cursor" => adapter.terminal = None
<1>1. CASE kind = "codex"
  BY <1>1 DEF Adapter0, Codex!Adapter0
<1>2. CASE kind = "claude"
  BY <1>2 DEF Adapter0, Claude!Adapter0
<1>3. CASE kind = "pi"
  BY <1>3 DEF Adapter0, Native0, Pi!Adapter0, Pi!Native0
<1>4. CASE kind = "cursor"
  BY <1>4 DEF Adapter0, Cursor!Adapter0
<1> QED  BY <1>1, <1>2, <1>3, <1>4, KindKnown

(* So the driver has told nothing that the session does not know.            *)
LEMMA RInit == Init => RInv /\ WaitInv
<1> SUFFICES ASSUME Init PROVE RInv /\ WaitInv
  OBVIOUS
<1>1. /\ PlanOK /\ adapter = Adapter0[kind] /\ native = Native0[kind]
      /\ turn = [p \in Prompts |-> "none"] /\ exited = FALSE
  BY DEF Init, PlanOK
<1>2. /\ DOMAIN stdout = {} /\ DOMAIN calls = {} /\ DOMAIN Queue = {} /\ Queue = <<>>
      /\ progress.request = None
  BY DEF Init, Queue, Resting
<1>3. ops["compact"].state = "idle" /\ compaction = "none" /\ \A p \in Prompts : ops[p].state = "idle"
  BY OpsKnown DEF Init
<1>4. /\ kind \in {"codex", "pi"} => adapter.compaction = None
      /\ kind = "claude" => adapter.users = {}
      /\ kind = "pi" => native.run = "idle"
      /\ \A p \in Prompts : p # None /\ ~EndsLater(p) /\ turn[p] = "none"
  BY <1>1, FirstKnown, NamesAssumption DEF EndsLater
<1>5. ExitLast /\ PackKnown
  BY <1>1, <1>2, <1>3, <1>4 DEF ExitLast, PackKnown, PackUnknown
<1>6. TellInv
  BY <1>2, <1>4 DEF TellInv, ToldOf, StartTold, EndTold, Untold
<1>7. QuietInv
  BY <1>2, <1>4 DEF QuietInv, Unspoken, Hushed
<1>8. AgentInv /\ UsersInv
  BY <1>2, <1>4 DEF AgentInv, UsersInv
<1>9. WaitInv
  BY <1>3 DEF WaitInv
<1> QED  BY <1>5, <1>6, <1>7, <1>8, <1>9 DEF RInv

(* Every step of the session, of the Handle, of the driver and of the        *)
(* program keeps what they agree on.                                         *)
LEMMA RNext == IInv /\ SInv /\ RInv /\ WaitInv /\ [Next]_vars => RInv' /\ WaitInv'
<1> SUFFICES ASSUME IInv, SInv, RInv, WaitInv, [Next]_vars PROVE RInv' /\ WaitInv'
  OBVIOUS
<1>0. IInv' /\ Steady /\ WaitInv'
  BY NextStep, WaitNext
<1>1. ASSUME NEW p \in Prompts, SendPrompt(p) PROVE RInv'
  BY <1>0, <1>1, SendPromptTells
<1>2. ASSUME NEW op \in Ops, Control(op) PROVE RInv'
  BY <1>0, <1>2, RestTells
<1>3. ASSUME NEW op \in Ops, HandleStep(op) PROVE RInv'
  BY <1>0, <1>3, CallTells, WaitTells DEF HandleStep
<1>4. ASSUME NEW op \in Ops, TimeOut(op) PROVE RInv'
  BY <1>0, <1>4, WaitTells
<1>5. CASE Compact
  BY <1>0, <1>5, CompactTells
<1>6. CASE SessionLearns
  BY <1>0, <1>6, LearnTells
<1>7. CASE Record
  BY <1>0, <1>7, RecordTells
<1>8. CASE Shutdown \/ Freeze \/ Thaw \/ NativeExits \/ LoopEnds \/ UNCHANGED vars
  BY <1>0, <1>8, RestTells
<1>9. CASE DriverStep
  BY <1>0, <1>8, <1>9, DenyTells, AcceptTells, ReadTells, SendTells, TickTells, StopTells,
     LeaveTells DEF DriverStep
<1>10. CASE NativeTakes \/ NativeWorks
  BY <1>0, <1>10, NativeTells
<1> QED  BY <1>0, <1>1, <1>2, <1>3, <1>4, <1>5, <1>6, <1>7, <1>8, <1>9, <1>10 DEF Next

(* What the driver tells the session, in every reachable state.              *)
THEOREM TellInvariant == Spec => [](RInv /\ WaitInv)
BY InitStep, NextStep, SInit, SNext, RInit, RNext, PTL DEF Spec

-----------------------------------------------------------------------------
(* A step of the session that is one of the promise, or changes nothing.     *)
Promised == [Promise!Next]_(Promise!vars)

(* The session sends a prompt or asks for a compaction when nothing is at    *)
(* work.                                                                     *)
LEMMA PromisedAsk ==
  ASSUME IInv, RInv, Compact \/ \E p \in Prompts : SendPrompt(p)
  PROVE  Promised
<1>1. Current = Promise!InFlight
  BY DEF Current, Promise!InFlight
<1>2. CASE Compact
  <2>1. /\ turn' = turn /\ exited' = exited /\ ~exited /\ Current = {}
        /\ compaction' = compaction \/ compaction' = "asked"
        /\ ops["compact"].state = "idle"
    BY <1>2 DEF Compact, Idle
  <2>2. compaction = "none"
    BY <2>1 DEF RInv, PackKnown
  <2>3. CASE compaction' = compaction
    BY <2>1, <2>3 DEF Promised, Promise!vars
  <2>4. CASE compaction' = "asked"
    <3>1. Promise!Ask
      BY <1>1, <2>1, <2>2, <2>4 DEF Promise!Ask
    <3> QED  BY <3>1 DEF Promised, Promise!Next
  <2> QED  BY <2>1, <2>3, <2>4
<1>3. ASSUME NEW p \in Prompts, SendPrompt(p) PROVE Promised
  <2>1. Promise!Send(p)
    BY <1>1, <1>3 DEF SendPrompt, Idle, Unsent, Promise!Send
  <2> QED  BY <2>1 DEF Promised, Promise!Next
<1> QED  BY <1>2, <1>3

(* It learns of the refusal of a prompt that never began.                    *)
LEMMA PromisedRefusal ==
  ASSUME IInv, RInv, SessionLearns
  PROVE  Promised
<1>1. CASE \E p \in Prompts : /\ ops[p].state = "refused" /\ turn[p] \in {"sent", "started"}
                              /\ turn' = [turn EXCEPT ![p] = "refused"]
                              /\ UNCHANGED <<compaction, copied, exited>>
  <2>1. PICK p \in Prompts : /\ ops[p].state = "refused" /\ turn[p] \in {"sent", "started"}
                             /\ turn' = [turn EXCEPT ![p] = "refused"]
                             /\ UNCHANGED <<compaction, exited>>
    BY <1>1
  <2>2. turn[p] # "started"
    BY <2>1 DEF RInv, QuietInv, Unheard, Unspoken
  <2>3. Promise!Refuse(p)
    BY <2>1, <2>2 DEF SessionLearns, Promise!Refuse
  <2> QED  BY <2>3 DEF Promised, Promise!Next
<1>2. CASE /\ ops["compact"].state = "refused" /\ compaction = "asked"
           /\ compaction' = "ended" /\ UNCHANGED <<turn, copied, exited>>
  <2>1. Promise!Packed
    BY <1>2 DEF SessionLearns, Promise!Packed
  <2> QED  BY <2>1 DEF Promised, Promise!Next
<1> QED  BY <1>1, <1>2 DEF SessionLearns, Refused

(* It records what comes at its time: the start of a turn that it sent, the  *)
(* end of one in flight, the end of a compaction that it asked for, and the  *)
(* exit once.                                                                *)
LEMMA PromisedRecord ==
  ASSUME IInv, RInv, Record
  PROVE  Promised
<1>0. PICK e : e = Head(events)
  OBVIOUS
<1>1. /\ events # <<>> /\ events' = Tail(events) /\ outbox' = outbox
      /\ turn' = CASE e.type = "started"  -> [turn EXCEPT ![e.request] = "started"]
                   [] e.type = "finished" -> [turn EXCEPT ![e.request] = "finished"]
                   [] e.type = "exited"   -> Lost
                   [] OTHER               -> turn
      /\ compaction' = IF \/ e.type = "compacted"
                          \/ e.type = "exited" /\ compaction = "asked"
                         THEN "ended" ELSE compaction
      /\ exited' = (exited \/ e.type = "exited")
  BY <1>0 DEF Record, driverVars
<1>2. /\ EventsOK /\ compaction \in {"none", "asked", "ended"}
      /\ turn \in [Prompts -> {"none", "sent", "started", "finished", "refused", "lost"}]
  BY DEF IInv, TypeInv, SessionOK
<1>3. 1 \in DOMAIN Queue /\ Queue[1] = e /\ e \in Reports
  BY <1>0, <1>1, <1>2, QueueShrinks
<1>4. ~exited
  BY <1>3, <1>2, QueueSeq, EmptySeq DEF RInv, ExitLast
<1>11. e.type # "exited" => exited' = exited
  <2>1. exited \in BOOLEAN /\ exited' = (exited \/ e.type = "exited")
    BY <1>1 DEF IInv, TypeInv, SessionOK
  <2> QED  BY ONLY <2>1
<1>5. ASSUME e.request \notin Prompts, e.type \in {"started", "finished"} PROVE Promised
  <2>1. turn' = turn
    <3>1. turn' = [turn EXCEPT ![e.request] = "started"] \/ turn' = [turn EXCEPT ![e.request] = "finished"]
      BY <1>1, <1>5
    <3> QED  BY <1>2, <1>5, <3>1
  <2>2. exited' = exited /\ compaction' = compaction
    BY <1>1, <1>11, <1>5
  <2> QED  BY <2>1, <2>2 DEF Promised, Promise!vars
<1>6. CASE e.type = "started" /\ e.request \in Prompts
  <2> DEFINE p == e.request
  <2>1. turn' = [turn EXCEPT ![p] = "started"] /\ compaction' = compaction /\ exited' = exited
    BY <1>1, <1>11, <1>6
  <2>2. turn[p] = "sent"
    BY <1>3, <1>6 DEF RInv, TellInv, ToldOf, StartTold, IsStart
  <2>3. Promise!Begin(p)
    BY <1>4, <2>1, <2>2 DEF Promise!Begin
  <2> QED  BY <1>6, <2>3 DEF Promised, Promise!Next
<1>7. CASE e.type = "finished" /\ e.request \in Prompts
  <2> DEFINE p == e.request
  <2>1. turn' = [turn EXCEPT ![p] = "finished"] /\ compaction' = compaction /\ exited' = exited
    BY <1>1, <1>11, <1>7
  <2>2. turn[p] \in {"sent", "started"}
    BY <1>3, <1>7 DEF RInv, TellInv, ToldOf, EndTold, IsEnd
  <2>3. Promise!Finish(p)
    BY <1>4, <1>7, <2>1, <2>2 DEF Promise!Finish, Promise!InFlight
  <2> QED  BY <1>7, <2>3 DEF Promised, Promise!Next
<1>8. CASE e.type = "exited"
  <2>1. turn' = Lost /\ exited' = TRUE
    BY <1>1, <1>8
  <2>2. Lost = [p \in Prompts |-> IF p \in Promise!InFlight THEN "lost" ELSE turn[p]]
    BY DEF Lost, Promise!InFlight
  <2>3. compaction' = IF compaction = "asked" THEN "ended" ELSE compaction
    BY <1>1, <1>8
  <2>4. Promise!Exit
    BY <1>4, <2>1, <2>2, <2>3 DEF Promise!Exit
  <2> QED  BY <2>4 DEF Promised, Promise!Next
<1>9. CASE e.type = "compacted"
  <2>1. turn' = turn /\ exited' = exited /\ compaction' = "ended"
    BY <1>1, <1>11, <1>9
  <2>2. compaction # "none"
    BY <1>3, <1>9 DEF RInv, PackKnown, PackUnknown
  <2>3. CASE compaction = "asked"
    <3>1. Promise!Packed
      BY <1>4, <2>1, <2>3 DEF Promise!Packed
    <3> QED  BY <3>1 DEF Promised, Promise!Next
  <2>4. CASE compaction = "ended"
    BY <2>1, <2>4 DEF Promised, Promise!vars
  <2> QED  BY <1>2, <2>2, <2>3, <2>4
<1>10. CASE e.type \notin {"started", "finished", "exited", "compacted"}
  <2>1. turn' = turn /\ exited' = exited /\ compaction' = compaction
    BY <1>1, <1>11, <1>10
  <2> QED  BY <2>1 DEF Promised, Promise!vars
<1> QED  BY <1>5, <1>6, <1>7, <1>8, <1>9, <1>10

(* Every step of Driver is one of Turns, or one that the session does not    *)
(* see.                                                                      *)
LEMMA RefStep == IInv /\ RInv /\ [Next]_vars => [Promise!Next]_(Promise!vars)
<1> SUFFICES ASSUME IInv, RInv, [Next]_vars PROVE Promised
  BY DEF Promised
<1>1. CASE Compact \/ \E p \in Prompts : SendPrompt(p)
  BY <1>1, PromisedAsk
<1>2. CASE SessionLearns
  BY <1>2, PromisedRefusal
<1>3. CASE Record
  BY <1>3, PromisedRecord
<1>4. ASSUME UNCHANGED <<turn, compaction, exited>> PROVE Promised
  BY <1>4 DEF Promised, Promise!vars
<1>5. ASSUME NEW op \in Ops, Control(op) \/ HandleStep(op) \/ TimeOut(op) PROVE Promised
  <2>1. UNCHANGED <<turn, compaction, exited>>
    BY <1>5 DEF Control, HandleStep, CallStep, Settle, TimeOut, sessionVars
  <2> QED  BY <1>4, <2>1
<1>6. CASE \/ Shutdown \/ Freeze \/ Thaw \/ NativeTakes \/ NativeWorks \/ NativeExits
           \/ UNCHANGED vars
  <2>1. UNCHANGED <<turn, compaction, exited>>
    BY <1>6 DEF Shutdown, Freeze, Thaw, NativeTakes, NativeWorks, NativeExits, sessionVars, vars
  <2> QED  BY <1>4, <2>1
<1>7. CASE DriverStep
  <2>1. UNCHANGED <<turn, compaction, exited>>
    BY <1>7 DEF DriverStep, DenyCall, AcceptCall, ReadLine, SendEvent, Tick, Stop, Leave, LoopEnds,
       sessionVars
  <2> QED  BY <1>4, <2>1
<1> QED  BY <1>1, <1>2, <1>3, <1>5, <1>6, <1>7 DEF Next

(* Driver implements Turns: whatever the program, the session sees one turn  *)
(* at a time, each with one outcome and a start only before it, one          *)
(* compaction, and nothing after the exit.                                   *)
THEOREM RefinementHolds == Spec => RefinesTurns
<1>1. Init => Promise!Init
  BY DEF Init, Promise!Init
<1> QED  BY <1>1, RefStep, Invariant, TellInvariant, PTL DEF Spec, RefinesTurns, Promise!Spec
=============================================================================
