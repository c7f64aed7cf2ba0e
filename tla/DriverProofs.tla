---------------------------- MODULE DriverProofs ----------------------------
(* Proofs about Driver for any prompts, plans, harness, number of faults and *)
(* freezes, and any size of the channel and of the pipes.                    *)
EXTENDS Driver, SequenceTheorems, TLAPS

(* What the variables range over.  A call is named by its operation and its  *)
(* step; Pi's probes and the frames of a close have names of their own.      *)
Absent    == {None}
Callers   == Ops \X (Nat \ {0})
Tags      == Callers \cup ({"settled"} \X Callers) \cup ({"close"} \X Nat)
Refs      == Prompts \cup Absent
TurnRefs  == Refs \cup {"compaction", "idle", "busy"}
Modes     == {"call", "notify", "control", "settle", "request", "dispatch"}
Methods   ==
  {"initialize", "initialized", "thread/start", "turn/start", "turn/interrupt", "turn",
   "terminate", "turn/steer", "thread/compact/start", "apply_flag_settings", "bootstrap",
   "prompt", "interrupt", "compact", "get_state", "get_commands", "get_fork_messages",
   "clear_queue", "abort", "abort_bash", "steer", "get_available_thinking_levels",
   "set_thinking_level", "session/new", "session/set_config_option", "session/cancel",
   "cloudroom/steer", "session/prompt"}
Types     ==
  {"response", "turn/started", "item/started", "turn/completed", "thread/compacted",
   "agent_start", "agent_settled", "message_end", "extension_error", "control_response",
   "lifecycle", "result", "compact_boundary", "update", "tool"}
Names     ==
  {"completed", "failed", "interrupted", "unknown", "ok", "error", "success", "queued",
   "started", "rejected", "cancelled", "end_turn", "expected"} \cup Absent
Happens   == {"started", "finished", "compacted", "copied", "exited"}
Frames    == [method : Methods, id : Tags, ref : Refs]
Lines     == [type : Types, id : Tags \cup Absent, ref : TurnRefs, status : Names]
Messages  == {m \in Lines : m.type = "response" => m.id \in Tags}
Reports   == [type : Happens, request : Refs \cup {"partial"}, status : Names]
Ends      == [type : {"finished"}, request : Prompts, status : Names]
Turned    == [request : Refs, turn : TurnRefs, started : BOOLEAN, finished : BOOLEAN,
              status : Names, shell : BOOLEAN]
Replies   == Seq([id : Tags \cup Absent, ok : BOOLEAN])
Operation == [state : Calling, step : Nat \ {0}, target : Refs]
Handed    == [op : Ops, step : Nat \ {0}, mode : Modes, method : Methods]

CodexAdapters  == [prompt : Callers \cup Absent, compaction : Callers \cup Absent,
                   turn : TurnRefs]
ClaudeAdapters ==
  [active : [id : Callers, request : Prompts] \cup Absent,
   users : SUBSET [id : Callers, kind : Methods], reply : Replies,
   interrupting : BOOLEAN, compacted : BOOLEAN, confirmed : BOOLEAN, failed : BOOLEAN]
PiAdapters     == [prompt : Callers \cup Absent, compaction : Callers \cup Absent,
                   accepted : BOOLEAN, interrupting : BOOLEAN, mask : SUBSET Nat]
CursorAdapters ==
  [prompt : Callers \cup Absent, cancel : Callers \cup Absent,
   restart : Callers \cup Absent, ack : [source : Tags, id : Callers] \cup Absent,
   responses : Seq(Frames), closing : BOOLEAN, dirty : BOOLEAN,
   worker : Refs \cup {"partial"}, terminal : Ends \cup Absent]

Users          == [id : Tags, ref : Refs, method : Methods]
CodexNatives   == [turn : Refs \cup {"compaction"}, shell : BOOLEAN,
                   compacting : {"no", "asked", "turn"}]
ClaudeNatives  == [queue : Seq(Users), turn : Users \cup Absent, packed : BOOLEAN]
PiNatives      == [run : {"idle", "running", "compacting"}, ref : Refs, queued : BOOLEAN,
                   retried : BOOLEAN, compact : Tags \cup Absent]
CursorNatives  == [turn : Tags \cup Absent, ref : Refs, cancelled : BOOLEAN,
                   leaving : Messages \cup Absent, said : BOOLEAN, tooled : BOOLEAN]

AdapterOK(a) ==
  /\ kind = "codex"  => a \in CodexAdapters
  /\ kind = "claude" => a \in ClaudeAdapters
  /\ kind = "pi"     => a \in PiAdapters
  /\ kind = "cursor" => a \in CursorAdapters
NativeOK(n) ==
  /\ kind = "codex"  => n \in CodexNatives
  /\ kind = "claude" => n \in ClaudeNatives
  /\ kind = "pi"     => n \in PiNatives
  /\ kind = "cursor" => n \in CursorNatives

(* Each variable is in its place.                                            *)
PlanOK == \E plan \in Plans : kind = plan.kind /\ uses = plan.uses
OpsOK ==
  /\ ops \in [Ops -> Operation]
  /\ \A op \in Ops : /\ Open(op) => ops[op].step \in DOMAIN Script(op)
                     /\ ops[op].state = "idle" => ops[op].step = 1
                     /\ ops[op].state = "settling" => kind = "codex" /\ op = "interrupt"
CallOK(c) ==
  /\ c \in Handed /\ c.step \in DOMAIN Script(c.op)
  /\ c.mode = Script(c.op)[c.step].mode /\ c.method = Script(c.op)[c.step].method
CallsOK == calls \in Seq(Handed) /\ \A i \in DOMAIN calls : CallOK(calls[i])
PipesOK == stdin \in Seq(Frames) /\ stdout \in Seq(Messages)
EventsOK == events \in Seq(Reports) /\ outbox \in Seq(Reports) /\ Len(events) <= EventsMax
DriverOK ==
  /\ progress \in Turned /\ after \in Messages \cup Absent
  /\ phase \in {"running", "stopping", "ending", "served", "gone"}
  /\ closePending \in BOOLEAN /\ open \in BOOLEAN
  /\ closePending /\ phase = "stopping" => open
SessionOK ==
  /\ turn \in [Prompts -> {"none", "sent", "started", "finished", "refused", "lost"}]
  /\ compaction \in {"none", "asked", "ended"} /\ exited \in BOOLEAN /\ quit \in BOOLEAN
TypeInv == /\ PlanOK /\ OpsOK /\ CallsOK /\ PipesOK /\ EventsOK /\ DriverOK /\ SessionOK
           /\ AdapterOK(adapter) /\ NativeOK(native)

(* The events on their way, in the order in which they will be recorded.     *)
Queue == events \o outbox
Tells(e, p) == e.type \in {"started", "finished"} /\ e.request = p

(* A prompt that the driver may still accept.                                *)
Coming(p) ==
  \/ turn[p] = "none" \/ ops[p].state = "ready"
  \/ ops[p].state \in {"queued", "pending"} /\ ops[p].step < Len(Script(p))
  \/ \E i \in DOMAIN calls : calls[i].op = p /\ calls[i].step = Len(Script(p))

(* No step makes a prompt come that was not.                                 *)
Steady == \A p \in Prompts : Coming(p)' => Coming(p)

(* The calls of a prompt are made one at a time and each is taken once.      *)
CallsOnce ==
  /\ \A i \in DOMAIN calls : calls[i].op \in Prompts =>
       /\ ops[calls[i].op].state \in {"queued", "failed"}
       /\ ops[calls[i].op].step = calls[i].step
  /\ \A i, j \in DOMAIN calls : calls[i].op \in Prompts /\ calls[j].op = calls[i].op => i = j
  /\ \A p \in Prompts : turn[p] = "none" <=> ops[p].state = "idle"
(* Nothing is known of a prompt before it is accepted.                       *)
Untouched(p) ==
  /\ progress.request # p
  /\ kind = "cursor" /\ adapter.terminal # None => adapter.terminal.request # p
  /\ \A i \in DOMAIN Queue : ~Tells(Queue[i], p)
ComingInv ==
  \A p \in Prompts : Coming(p) => /\ turn[p] \in {"none", "sent", "lost"}
                                  /\ Untouched(p)
(* A prompt is sent when none is in flight; when it is accepted the driver   *)
(* is done with the last one.                                                *)
SentOnce == \A p, q \in Prompts : turn[p] = "sent" /\ turn[q] = "sent" => p = q
FreeInv  == \A p \in Prompts :
  kind # "claude" /\ Coming(p) /\ turn[p] = "sent" => ~Unfinished(progress)
ExitInv ==
  /\ exited => Gone
  /\ \A i \in DOMAIN Queue : Queue[i].type = "exited" => Gone
  /\ \A p \in Prompts : turn[p] = "lost" => exited

(* An interrupt that was allowed is about the turn the driver works on.      *)
Aims ==
  /\ kind = "codex"
  /\ \/ ops["interrupt"].state = "settling"
     \/ ops["interrupt"].state = "pending" /\ ops["interrupt"].step = 1
     \/ ops["interrupt"].state = "ready" /\ ops["interrupt"].step = 2
InterruptInv ==
  /\ kind # "claude" /\ Open("interrupt") =>
       \A p \in Prompts : Coming(p) => turn[p] # "sent"
  /\ Aims => progress.request = ops["interrupt"].target

(* A turn that the driver has not ended has not ended for the session.       *)
NotOver(p) ==
  /\ turn[p] \in {"sent", "started", "lost"} /\ ops[p].state # "refused"
  /\ \A i \in DOMAIN Queue : ~(Queue[i].type = "finished" /\ Queue[i].request = p)
  /\ kind = "cursor" /\ adapter.terminal # None => adapter.terminal.request # p
PromptCall(p) == <<p, Len(Script(p))>>
BusyInv ==
  /\ kind # "claude" /\ Unfinished(progress) => NotOver(progress.request)
  /\ kind \in {"codex", "pi"} /\ progress.request # None =>
       adapter.prompt = PromptCall(progress.request)
  /\ kind = "pi" /\ adapter.compaction # None => adapter.compaction[1] = "compact"
  /\ kind = "cursor" /\ progress.request # None =>
       ops[progress.request].state \in {"ok", "failed"}
  /\ kind = "cursor" /\ adapter.prompt # None => progress.request # None
  /\ kind = "codex" => \A i \in DOMAIN stdout :
       stdout[i].type = "response" => stdout[i].status \in {"ok", "error"}
  /\ kind \in {"codex", "pi"} /\ after # None /\ after.type = "response" =>
       after.id[1] \notin Prompts

(* The copy of the chat that a finished turn waits for is due, being made or *)
(* reported.                                                                 *)
CopyInv ==
  kind = "cursor" =>
    /\ adapter.terminal # None => adapter.dirty \/ adapter.worker = adapter.terminal.request
    /\ \A j \in DOMAIN Queue : Queue[j].type = "finished" =>
         \/ Queue[j].request \in copied
         \/ \E i \in 1..(j - 1) : Queue[i].type = "copied" /\ Queue[i].request = Queue[j].request
    /\ \A p \in Prompts : turn[p] = "finished" => p \in copied

IInv == /\ TypeInv /\ CallsOnce /\ ComingInv /\ SentOnce /\ FreeInv /\ ExitInv
        /\ InterruptInv /\ BusyInv /\ CopyInv
-----------------------------------------------------------------------------
(* The scripts.  Only the last call of a prompt carries it.                  *)
LEMMA KindKnown == PlanOK => kind \in {"codex", "claude", "pi", "cursor"}
BY DriverAssumption DEF PlanOK

(* A prompt is an operation of its own, and none of the other four.          *)
LEMMA OpsKnown ==
  /\ Prompts \subseteq Ops /\ {"start", "interrupt", "steer", "compact"} \subseteq Ops
  /\ \A op \in Ops : op \in Prompts <=> op \notin {"start", "interrupt", "steer", "compact"}
BY NamesAssumption DEF Ops

(* The names of Pi's probes and of a close's frames are no operations.       *)
LEMMA SpareNames ==
  "settled" \notin Ops /\ "close" \notin Ops
BY NamesAssumption DEF Ops

(* Short sequences have their length, their indices and their elements.      *)
LEMMA Tuples ==
  ASSUME NEW a, NEW b, NEW c, NEW d
  PROVE  /\ Len(<<>>) = 0 /\ DOMAIN <<>> = 1..0
         /\ Len(<<a>>) = 1 /\ DOMAIN <<a>> = 1..1 /\ <<a>>[1] = a
         /\ Len(<<a, b>>) = 2 /\ DOMAIN <<a, b>> = 1..2
         /\ <<a, b>>[1] = a /\ <<a, b>>[2] = b
         /\ Len(<<a, b, c>>) = 3 /\ DOMAIN <<a, b, c>> = 1..3
         /\ <<a, b, c>>[1] = a /\ <<a, b, c>>[2] = b /\ <<a, b, c>>[3] = c
         /\ Len(<<a, b, c, d>>) = 4 /\ DOMAIN <<a, b, c, d>> = 1..4
         /\ <<a, b, c, d>>[1] = a /\ <<a, b, c, d>>[2] = b
         /\ <<a, b, c, d>>[3] = c /\ <<a, b, c, d>>[4] = d
OBVIOUS

(* The calls of a prompt: only the last one carries it.                      *)
LEMMA PromptScript ==
  ASSUME PlanOK, NEW p \in Prompts
  PROVE  /\ Len(Script(p)) \in Nat \ {0} /\ DOMAIN Script(p) = 1..Len(Script(p))
         /\ \A i \in DOMAIN Script(p) :
              /\ Script(p)[i].mode \in Modes /\ Script(p)[i].method \in Methods
              /\ kind = "pi" => Script(p)[i].method # "compact"
              /\ i < Len(Script(p)) => Script(p)[i].mode = "call"
              /\ i = Len(Script(p)) =>
                   Script(p)[i].mode = (IF kind = "cursor" THEN "dispatch" ELSE "request")
<1>0. p \notin {"start", "interrupt", "steer", "compact"}
  BY NamesAssumption
<1>1. CASE kind = "codex"
  <2>1. Script(p) = <<Step("request", "turn/start")>>
    BY <1>0, <1>1 DEF Script, Codex!Script, Codex!Step, Step
  <2> QED  BY <1>1, <2>1, Tuples DEF Step, Modes, Methods
<1>2. CASE kind = "claude"
  <2>1. Script(p) = <<Step("call", "apply_flag_settings"), Step("request", "prompt")>>
    BY <1>0, <1>2 DEF Script, Claude!Script, Claude!Step, Step
  <2> QED  BY <1>2, <2>1, Tuples DEF Step, Modes, Methods
<1>3. CASE kind = "pi"
  <2>1. Script(p) = <<Step("call", "get_available_thinking_levels"),
                      Step("call", "set_thinking_level"), Step("call", "get_state"),
                      Step("request", "prompt")>>
    BY <1>0, <1>3 DEF Script, Pi!Script, Pi!Step, Step
  <2> QED  BY <1>3, <2>1, Tuples DEF Step, Modes, Methods
<1>4. CASE kind = "cursor"
  <2>1. Script(p) = <<Step("call", "session/set_config_option"),
                      Step("dispatch", "session/prompt")>>
    BY <1>0, <1>4 DEF Script, Cursor!Script, Cursor!Step, Step
  <2> QED  BY <1>4, <2>1, Tuples DEF Step, Modes, Methods
<1> QED  BY <1>1, <1>2, <1>3, <1>4, KindKnown

(* The calls of the other operations: none carries a prompt, and only an     *)
(* interrupt of Codex waits for the end of a turn, as its second step.       *)
LEMMA ControlScript ==
  ASSUME PlanOK, NEW op \in {"start", "interrupt", "steer", "compact"}
  PROVE  /\ Len(Script(op)) \in Nat /\ DOMAIN Script(op) = 1..Len(Script(op))
         /\ op = "start" \/ Script(op) # <<>> => 1 \in DOMAIN Script(op)
         /\ \A i \in DOMAIN Script(op) :
              /\ Script(op)[i].mode \in {"call", "notify", "control", "settle"}
              /\ Script(op)[i].method \in Methods
              /\ kind = "pi" /\ Script(op)[i].method = "compact" => op = "compact"
              /\ Script(op)[i].mode = "settle" => kind = "codex" /\ op = "interrupt" /\ i = 2
              /\ kind = "codex" /\ op = "interrupt" /\ i # 2 => Script(op)[i].mode # "notify"
              /\ kind = "codex" /\ op = "interrupt" /\ i = 1 => Script(op)[i].mode = "control"
<1>1. CASE kind = "codex"
  <2>1. CASE op = "start"
    <3>1. Script(op) = <<Step("call", "initialize"), Step("notify", "initialized"),
                         Step("call", "thread/start")>>
      BY <1>1, <2>1 DEF Script, Codex!Script, Codex!Step, Step
    <3> QED  BY <1>1, <2>1, <3>1, Tuples DEF Step, Methods
  <2>2. CASE op = "interrupt"
    <3>1. Script(op) = <<Step("control", "turn/interrupt"), Step("settle", "turn"),
                         Step("call", "terminate")>>
      BY <1>1, <2>2 DEF Script, Codex!Script, Codex!Step, Step
    <3> QED  BY <1>1, <2>2, <3>1, Tuples DEF Step, Methods
  <2>3. CASE op = "steer"
    <3>1. Script(op) = <<Step("control", "turn/steer")>>
      BY <1>1, <2>3 DEF Script, Codex!Script, Codex!Step, Step
    <3> QED  BY <1>1, <2>3, <3>1, Tuples DEF Step, Methods
  <2>4. CASE op = "compact"
    <3>1. Script(op) = <<Step("call", "thread/compact/start")>>
      BY <1>1, <2>4 DEF Script, Codex!Script, Codex!Step, Step
    <3> QED  BY <1>1, <2>4, <3>1, Tuples DEF Step, Methods
  <2> QED  BY <2>1, <2>2, <2>3, <2>4
<1>2. CASE kind = "claude"
  <2>1. CASE op = "start"
    <3>1. Script(op) = <<Step("call", "initialize"), Step("call", "apply_flag_settings"),
                         Step("call", "bootstrap")>>
      BY <1>2, <2>1 DEF Script, Claude!Script, Claude!Step, Step
    <3> QED  BY <1>2, <2>1, <3>1, Tuples DEF Step, Methods
  <2>2. CASE op = "interrupt"
    <3>1. Script(op) = <<Step("control", "interrupt")>>
      BY <1>2, <2>2 DEF Script, Claude!Script, Claude!Step, Step
    <3> QED  BY <1>2, <2>2, <3>1, Tuples DEF Step, Methods
  <2>3. CASE op = "steer"
    <3>1. Script(op) = <<>>
      BY <1>2, <2>3 DEF Script, Claude!Script, Claude!Step, Step
    <3> QED  BY <1>2, <2>3, <3>1, Tuples DEF Step, Methods
  <2>4. CASE op = "compact"
    <3>1. Script(op) = <<Step("call", "compact")>>
      BY <1>2, <2>4 DEF Script, Claude!Script, Claude!Step, Step
    <3> QED  BY <1>2, <2>4, <3>1, Tuples DEF Step, Methods
  <2> QED  BY <2>1, <2>2, <2>3, <2>4
<1>3. CASE kind = "pi"
  <2>1. CASE op = "start"
    <3>1. Script(op) = <<Step("call", "get_state"), Step("call", "get_commands"),
                         Step("call", "get_fork_messages")>>
      BY <1>3, <2>1 DEF Script, Pi!Script, Pi!Step, Step
    <3> QED  BY <1>3, <2>1, <3>1, Tuples DEF Step, Methods
  <2>2. CASE op = "interrupt"
    <3>1. Script(op) = <<Step("control", "clear_queue"), Step("control", "abort")>>
      BY <1>3, <2>2 DEF Script, Pi!Script, Pi!Step, Step
    <3> QED  BY <1>3, <2>2, <3>1, Tuples DEF Step, Methods
  <2>3. CASE op = "steer"
    <3>1. Script(op) = <<Step("control", "steer")>>
      BY <1>3, <2>3 DEF Script, Pi!Script, Pi!Step, Step
    <3> QED  BY <1>3, <2>3, <3>1, Tuples DEF Step, Methods
  <2>4. CASE op = "compact"
    <3>1. Script(op) = <<Step("call", "compact")>>
      BY <1>3, <2>4 DEF Script, Pi!Script, Pi!Step, Step
    <3> QED  BY <1>3, <2>4, <3>1, Tuples DEF Step, Methods
  <2> QED  BY <2>1, <2>2, <2>3, <2>4
<1>4. CASE kind = "cursor"
  <2>1. CASE op = "start"
    <3>1. Script(op) = <<Step("call", "initialize"), Step("call", "session/new"),
                         Step("call", "session/set_config_option")>>
      BY <1>4, <2>1 DEF Script, Cursor!Script, Cursor!Step, Step
    <3> QED  BY <1>4, <2>1, <3>1, Tuples DEF Step, Methods
  <2>2. CASE op = "interrupt"
    <3>1. Script(op) = <<Step("control", "session/cancel")>>
      BY <1>4, <2>2 DEF Script, Cursor!Script, Cursor!Step, Step
    <3> QED  BY <1>4, <2>2, <3>1, Tuples DEF Step, Methods
  <2>3. CASE op = "steer"
    <3>1. Script(op) = <<Step("control", "cloudroom/steer")>>
      BY <1>4, <2>3 DEF Script, Cursor!Script, Cursor!Step, Step
    <3> QED  BY <1>4, <2>3, <3>1, Tuples DEF Step, Methods
  <2>4. CASE op = "compact"
    <3>1. Script(op) = <<>>
      BY <1>4, <2>4 DEF Script, Cursor!Script, Cursor!Step, Step
    <3> QED  BY <1>4, <2>4, <3>1, Tuples DEF Step, Methods
  <2> QED  BY <2>1, <2>2, <2>3, <2>4
<1> QED  BY <1>1, <1>2, <1>3, <1>4, KindKnown
-----------------------------------------------------------------------------
(* What receiving a message may do: the adapter stays an adapter, the turn   *)
(* the driver works on stays the same, and at most one event tells of it,    *)
(* and only while it is not over.                                            *)
TurnEvent(e) == e.type \in {"started", "finished"}
Telling(es, q) ==
  /\ es \in Seq(Reports)
  /\ \A i \in DOMAIN es :
       /\ es[i].type \in {"started", "finished", "compacted"}
       /\ TurnEvent(es[i]) => es[i].request = progress.request /\ Unfinished(progress)
       /\ es[i].type = "started" => ~progress.started /\ q.started
       /\ es[i].type = "finished" => q.finished /\ kind # "cursor"
  /\ \A i, j \in DOMAIN es : TurnEvent(es[i]) /\ TurnEvent(es[j]) => i = j
Kept(q) ==
  /\ q \in Turned /\ q.request = progress.request
  /\ progress.finished => q.finished
  /\ progress.started => q.started
PackPart(c) == c = <<>> \/ \E e \in Reports : e.type = "compacted" /\ c = <<e>>
TurnPart(t, q) ==
  t = <<>> \/ \E e \in Reports :
    /\ t = <<e>> /\ TurnEvent(e) /\ e.request = progress.request /\ Unfinished(progress)
    /\ e.type = "started" => ~progress.started /\ q.started
    /\ e.type = "finished" => q.finished /\ kind # "cursor"
CursorKept(b, q) ==
  /\ b.worker = adapter.worker /\ (adapter.dirty => b.dirty)
  /\ \/ b.terminal = adapter.terminal
     \/ b.terminal \in Ends /\ b.terminal.request = q.request /\ b.dirty /\ q.finished
  /\ b.prompt # None => adapter.prompt # None
Speaks(r) ==
  /\ AdapterOK(r.adapter) /\ Kept(r.progress) /\ Telling(r.events, r.progress)
  /\ kind = "cursor" => CursorKept(r.adapter, r.progress)

(* A message that causes no event tells nothing wrong.                       *)
LEMMA SilentTelling ==
  ASSUME NEW q PROVE Telling(<<>>, q)
<1>1. <<>> \in Seq(Reports) /\ DOMAIN <<>> = {}
  OBVIOUS
<1> QED  BY <1>1 DEF Telling

(* One element makes a sequence of one.                                      *)
LEMMA Single ==
  ASSUME NEW S, NEW e \in S
  PROVE  <<e>> \in Seq(S) /\ Len(<<e>>) = 1 /\ <<e>>[1] = e
OBVIOUS

(* Two elements make a sequence of two.                                      *)
LEMMA PairAppended ==
  ASSUME NEW S, NEW x \in S, NEW y \in S
  PROVE  Append(<<x>>, y) = <<x, y>> /\ <<x, y>> \in Seq(S)
<1>1. <<x>> \in Seq(S) /\ Len(<<x>>) = 1 /\ <<x>>[1] = x
  OBVIOUS
<1>2. /\ Append(<<x>>, y) \in Seq(S) /\ Len(Append(<<x>>, y)) = 2
      /\ Append(<<x>>, y)[1] = x /\ Append(<<x>>, y)[2] = y
  BY <1>1, AppendProperties
<1>3. <<x, y>> \in Seq(S) /\ Len(<<x, y>>) = 2 /\ <<x, y>>[1] = x /\ <<x, y>>[2] = y
  OBVIOUS
<1>4. \A i \in 1..Len(<<x, y>>) : i = 1 \/ i = 2
  BY <1>3
<1> QED  BY <1>2, <1>3, <1>4, SeqEqual

(* A part about the compaction and a part about the turn.                    *)
LEMMA PartsTelling ==
  ASSUME NEW q, NEW c, NEW t,
         PackPart(c), TurnPart(t, q)
  PROVE  Telling(c \o t, q)
<1>1. c \in Seq(Reports) /\ Len(c) \in 0..1 /\ \A i \in 1..Len(c) : c[i].type = "compacted"
  <2>1. CASE c = <<>>
    BY <2>1
  <2>2. CASE \E e \in Reports : e.type = "compacted" /\ c = <<e>>
    BY <2>2, Single
  <2> QED  BY <2>1, <2>2 DEF PackPart
<1>2. /\ t \in Seq(Reports) /\ Len(t) \in 0..1
      /\ \A i \in 1..Len(t) :
           /\ TurnEvent(t[i]) /\ t[i].request = progress.request /\ Unfinished(progress)
           /\ t[i].type = "started" => ~progress.started /\ q.started
           /\ t[i].type = "finished" => q.finished /\ kind # "cursor"
  <2>1. CASE t = <<>>
    BY <2>1
  <2>2. CASE t # <<>>
    <3>1. PICK e \in Reports :
            /\ t = <<e>> /\ TurnEvent(e) /\ e.request = progress.request /\ Unfinished(progress)
            /\ e.type = "started" => ~progress.started /\ q.started
            /\ e.type = "finished" => q.finished /\ kind # "cursor"
      BY <2>2 DEF TurnPart
    <3>2. t \in Seq(Reports) /\ Len(t) = 1 /\ t[1] = e
      BY <3>1, Single
    <3> QED  BY <3>1, <3>2
  <2> QED  BY <2>1, <2>2
<1> DEFINE s == c \o t
<1>3. /\ s \in Seq(Reports) /\ Len(s) = Len(c) + Len(t)
      /\ \A i \in 1 .. Len(c) + Len(t) : s[i] = IF i <= Len(c) THEN c[i] ELSE t[i - Len(c)]
  BY <1>1, <1>2, ConcatProperties
<1>4. DOMAIN s = 1..(Len(c) + Len(t))
  BY <1>3, LenProperties
<1> HIDE DEF s
<1>5. \A i \in DOMAIN s : \/ i <= Len(c) /\ i \in 1..Len(c) /\ s[i] = c[i]
                          \/ i = Len(c) + 1 /\ Len(t) = 1 /\ 1 \in 1..Len(t) /\ s[i] = t[1]
  BY <1>1, <1>2, <1>3, <1>4
<1>6. \A i \in DOMAIN s : \/ ~TurnEvent(s[i]) /\ s[i].type = "compacted"
                          \/ i = Len(c) + 1 /\ s[i] = t[1] /\ 1 \in 1..Len(t)
  BY <1>1, <1>5 DEF TurnEvent
<1>7. \A i \in DOMAIN s :
       /\ s[i].type \in {"started", "finished", "compacted"}
       /\ TurnEvent(s[i]) => s[i].request = progress.request /\ Unfinished(progress)
       /\ s[i].type = "started" => ~progress.started /\ q.started
       /\ s[i].type = "finished" => q.finished /\ kind # "cursor"
  BY <1>2, <1>6 DEF TurnEvent
<1>8. \A i, j \in DOMAIN s : TurnEvent(s[i]) /\ TurnEvent(s[j]) => i = j
  BY <1>6
<1>9. Telling(s, q)
  BY <1>3, <1>7, <1>8 DEF Telling
<1> QED  BY <1>9 DEF s

(* Marking a turn as begun or ended does not change whose turn it is.        *)
LEMMA BegunKept ==
  ASSUME NEW q, Kept(q)
  PROVE  Kept(Begun(q)) /\ Kept(Ended(q)) /\ q \in Turned
<1>1. q \in Turned
  BY DEF Kept
<1> QED  BY <1>1 DEF Kept, Begun, Ended, Turned

(* The start of a turn is told only while the turn is not over.              *)
LEMMA StartPart ==
  ASSUME NEW q, Kept(q), progress \in Turned
  PROVE  TurnPart(StartEvents(q), Begun(q))
<1>1. q \in Turned
  BY DEF Kept
<1>2. CASE CanStart(q)
  <2> DEFINE e == Event("started", q.request, None)
  <2>1. e \in Reports /\ e.type = "started" /\ e.request = progress.request
    BY <1>1 DEF Event, Reports, Turned, Happens, Names, Absent, Refs, Kept
  <2>2. Begun(q).started /\ Unfinished(progress) /\ ~progress.started
    BY <1>1, <1>2 DEF Begun, CanStart, Turned, Kept, Unfinished
  <2>3. StartEvents(q) = <<e>>
    BY <1>2 DEF StartEvents
  <2> HIDE DEF e
  <2> QED  BY <2>1, <2>2, <2>3 DEF TurnPart, TurnEvent
<1>3. CASE ~CanStart(q)
  BY <1>3 DEF StartEvents, TurnPart
<1> QED  BY <1>2, <1>3

(* The end of a turn is told once, and the turn is over then.                *)
LEMMA FinishPart ==
  ASSUME NEW q, Kept(q), progress \in Turned, NEW s \in Names, kind # "cursor"
  PROVE  TurnPart(FinishEvents(q, s), Ended(q))
<1>1. q \in Turned
  BY DEF Kept
<1>2. CASE Unfinished(q)
  <2> DEFINE e == Event("finished", q.request, s)
  <2>1. e \in Reports /\ e.type = "finished" /\ e.request = progress.request
    BY <1>1 DEF Event, Reports, Turned, Happens, Refs, Kept
  <2>2. Ended(q).finished /\ Unfinished(progress)
    BY <1>1, <1>2 DEF Ended, Turned, Kept, Unfinished
  <2>3. FinishEvents(q, s) = <<e>>
    BY <1>2 DEF FinishEvents
  <2> HIDE DEF e
  <2> QED  BY <2>1, <2>2, <2>3 DEF TurnPart, TurnEvent
<1>3. CASE ~Unfinished(q)
  BY <1>3 DEF FinishEvents, TurnPart
<1> QED  BY <1>2, <1>3
(* The names of Wire mean the same in Codex's adapter,                       *)
LEMMA CodexWords ==
  /\ \A q : Codex!Begun(q) = Begun(q) /\ Codex!Ended(q) = Ended(q)
           /\ Codex!StartEvents(q) = StartEvents(q)
  /\ \A q, s : Codex!FinishEvents(q, s) = FinishEvents(q, s)
  /\ \A t, r, s : Codex!Event(t, r, s) = Event(t, r, s)
  /\ \A i, b : Codex!Answer(i, b) = Answer(i, b)
  /\ Codex!NoAnswer = NoAnswer
  /\ \A w, i, r : Codex!Frame(w, i, r) = Frame(w, i, r)
  /\ \A t, i, r, s : Codex!Msg(t, i, r, s) = Msg(t, i, r, s)
BY DEF Codex!Begun, Codex!Ended, Codex!StartEvents, Codex!FinishEvents, Codex!Event, Codex!CanStart,
       Codex!Unfinished, Codex!Answer, Codex!NoAnswer, Codex!Frame, Codex!Msg,
       Begun, Ended, StartEvents, FinishEvents, Event, CanStart, Unfinished,
       Answer, NoAnswer, Frame, Msg

(* in Claude's,                                                              *)
LEMMA ClaudeWords ==
  /\ \A q : Claude!Begun(q) = Begun(q) /\ Claude!Ended(q) = Ended(q)
           /\ Claude!StartEvents(q) = StartEvents(q)
  /\ \A q, s : Claude!FinishEvents(q, s) = FinishEvents(q, s)
  /\ \A t, r, s : Claude!Event(t, r, s) = Event(t, r, s)
  /\ \A i, b : Claude!Answer(i, b) = Answer(i, b)
  /\ Claude!NoAnswer = NoAnswer
  /\ \A w, i, r : Claude!Frame(w, i, r) = Frame(w, i, r)
  /\ \A t, i, r, s : Claude!Msg(t, i, r, s) = Msg(t, i, r, s)
BY DEF Claude!Begun, Claude!Ended, Claude!StartEvents, Claude!FinishEvents, Claude!Event, Claude!CanStart,
       Claude!Unfinished, Claude!Answer, Claude!NoAnswer, Claude!Frame, Claude!Msg,
       Begun, Ended, StartEvents, FinishEvents, Event, CanStart, Unfinished,
       Answer, NoAnswer, Frame, Msg

(* in Pi's                                                                   *)
LEMMA PiWords ==
  /\ \A q : Pi!Begun(q) = Begun(q) /\ Pi!Ended(q) = Ended(q)
           /\ Pi!StartEvents(q) = StartEvents(q)
  /\ \A q, s : Pi!FinishEvents(q, s) = FinishEvents(q, s)
  /\ \A t, r, s : Pi!Event(t, r, s) = Event(t, r, s)
  /\ \A i, b : Pi!Answer(i, b) = Answer(i, b)
  /\ Pi!NoAnswer = NoAnswer
  /\ \A w, i, r : Pi!Frame(w, i, r) = Frame(w, i, r)
  /\ \A t, i, r, s : Pi!Msg(t, i, r, s) = Msg(t, i, r, s)
BY DEF Pi!Begun, Pi!Ended, Pi!StartEvents, Pi!FinishEvents, Pi!Event, Pi!CanStart,
       Pi!Unfinished, Pi!Answer, Pi!NoAnswer, Pi!Frame, Pi!Msg,
       Begun, Ended, StartEvents, FinishEvents, Event, CanStart, Unfinished,
       Answer, NoAnswer, Frame, Msg

(* and in Cursor's.                                                          *)
LEMMA CursorWords ==
  /\ \A q : Cursor!Begun(q) = Begun(q) /\ Cursor!Ended(q) = Ended(q)
           /\ Cursor!StartEvents(q) = StartEvents(q)
  /\ \A q, s : Cursor!FinishEvents(q, s) = FinishEvents(q, s)
  /\ \A t, r, s : Cursor!Event(t, r, s) = Event(t, r, s)
  /\ \A i, b : Cursor!Answer(i, b) = Answer(i, b)
  /\ Cursor!NoAnswer = NoAnswer
  /\ \A w, i, r : Cursor!Frame(w, i, r) = Frame(w, i, r)
  /\ \A t, i, r, s : Cursor!Msg(t, i, r, s) = Msg(t, i, r, s)
BY DEF Cursor!Begun, Cursor!Ended, Cursor!StartEvents, Cursor!FinishEvents, Cursor!Event, Cursor!CanStart,
       Cursor!Unfinished, Cursor!Answer, Cursor!NoAnswer, Cursor!Frame, Cursor!Msg,
       Begun, Ended, StartEvents, FinishEvents, Event, CanStart, Unfinished,
       Answer, NoAnswer, Frame, Msg

(* Whatever Codex says, its adapter tells of the turn in hand only,          *)
LEMMA CodexSpeaks ==
  ASSUME kind = "codex", adapter \in CodexAdapters, progress \in Turned, NEW m \in Messages
  PROVE  Speaks(Receive(m))
<1> DEFINE q == Codex!Rejected(adapter, progress, m)
           u == [q EXCEPT !.turn = m.ref]
           b == Codex!AfterCompaction(adapter, m)
           c == Codex!CompactionEvents(adapter, m)
           r == Receive(m)
<1>1. Kept(q)
  BY DEF Codex!Rejected, Kept, Turned
<1>2. Kept(u)
  BY <1>1 DEF Kept, Turned, Messages, Lines
<1>3. b \in CodexAdapters
  BY DEF Codex!AfterCompaction, CodexAdapters, Messages, Lines, Absent, TurnRefs, Refs
<1>4. PackPart(c)
  <2>1. ASSUME NEW s \in Names PROVE PackPart(<<Event("compacted", None, s)>>)
    BY DEF PackPart, Event, Reports, Happens, Refs, Absent
  <2>2. c = <<>> \/ \E s \in Names : c = <<Event("compacted", None, s)>>
    BY CodexWords DEF Codex!CompactionEvents, Messages, Lines, Names
  <2> QED  BY <2>1, <2>2 DEF PackPart
<1>5. /\ r.adapter = b
      /\ r.progress = (CASE m.type = "turn/started" -> Begun(u)
                        [] m.type = "item/started" /\ m.ref = q.turn -> [q EXCEPT !.shell = TRUE]
                        [] m.type = "turn/completed" /\ q.turn # None /\ m.ref = q.turn -> Ended(q)
                        [] OTHER -> q)
      /\ r.events = c \o (CASE m.type = "turn/started" -> StartEvents(u)
                        [] m.type = "item/started" /\ m.ref = q.turn -> <<>>
                        [] m.type = "turn/completed" /\ q.turn # None /\ m.ref = q.turn
                             -> FinishEvents(q, m.status)
                        [] OTHER -> <<>>)
  <2>1. CASE m.type = "turn/started"
    BY <2>1, CodexWords DEF Receive, Codex!Receive
  <2>2. CASE m.type = "item/started" /\ m.ref = q.turn
    BY <2>2, CodexWords DEF Receive, Codex!Receive
  <2>3. CASE m.type = "turn/completed" /\ q.turn # None /\ m.ref = q.turn
    BY <2>3, CodexWords DEF Receive, Codex!Receive
  <2>4. CASE /\ m.type # "turn/started" /\ ~(m.type = "item/started" /\ m.ref = q.turn)
             /\ ~(m.type = "turn/completed" /\ q.turn # None /\ m.ref = q.turn)
    BY <2>4, CodexWords DEF Receive, Codex!Receive
  <2> QED  BY <2>1, <2>2, <2>3, <2>4
<1> HIDE DEF q, u, b, c, r
<1>6. CASE m.type = "turn/started"
  <2>1. Kept(r.progress) /\ TurnPart(StartEvents(u), r.progress)
    BY <1>2, <1>5, <1>6, BegunKept, StartPart
  <2>2. Telling(c \o StartEvents(u), r.progress)
    BY <2>1, <1>4, PartsTelling
  <2> QED  BY <1>3, <1>5, <1>6, <2>1, <2>2 DEF Speaks, AdapterOK, r
<1>7. CASE m.type = "item/started" /\ m.ref = q.turn
  <2>1. Kept(r.progress)
    BY <1>1, <1>5, <1>7 DEF Kept, Turned
  <2>2. Telling(c \o <<>>, r.progress)
    BY <1>4, PartsTelling DEF TurnPart
  <2> QED  BY <1>3, <1>5, <1>7, <2>1, <2>2 DEF Speaks, AdapterOK, r
<1>8. CASE m.type = "turn/completed" /\ q.turn # None /\ m.ref = q.turn
  <2>1. Kept(r.progress) /\ TurnPart(FinishEvents(q, m.status), r.progress)
    BY <1>1, <1>5, <1>8, BegunKept, FinishPart DEF Messages, Lines
  <2>2. Telling(c \o FinishEvents(q, m.status), r.progress)
    BY <2>1, <1>4, PartsTelling
  <2> QED  BY <1>3, <1>5, <1>8, <2>1, <2>2 DEF Speaks, AdapterOK, r
<1>9. CASE /\ m.type # "turn/started" /\ ~(m.type = "item/started" /\ m.ref = q.turn)
           /\ ~(m.type = "turn/completed" /\ q.turn # None /\ m.ref = q.turn)
  <2>1. Kept(r.progress)
    BY <1>1, <1>5, <1>9
  <2>2. Telling(c \o <<>>, r.progress)
    BY <1>4, PartsTelling DEF TurnPart
  <2>3. r.events = c \o <<>>
    BY <1>5, <1>9
  <2> QED  BY <1>3, <1>5, <2>1, <2>2, <2>3 DEF Speaks, AdapterOK, r
<1> QED  BY <1>6, <1>7, <1>8, <1>9

(* as does Pi's,                                                             *)
LEMMA PiSpeaks ==
  ASSUME kind = "pi", adapter \in PiAdapters, progress \in Turned, NEW m \in Messages
  PROVE  Speaks(Receive(m))
<1> DEFINE a == adapter
           b == [a EXCEPT !.compaction = IF Pi!Response(m, a.compaction) THEN None ELSE @,
                          !.accepted   = IF Pi!Response(m, a.prompt) THEN m.status = "ok" ELSE @]
           c == IF Pi!Response(m, a.compaction)
                  THEN <<Event("compacted", None, IF m.status = "ok" THEN "completed" ELSE "failed")>>
                  ELSE <<>>
           f == IF Pi!IdleProbe(a, m) THEN FinishEvents(progress, Pi!Outcome(a, progress)) ELSE <<>>
           s == IF m.type = "agent_start" THEN StartEvents(progress) ELSE <<>>
           q == Pi!TurnAfter(a, progress, m)
           r == Receive(m)
<1>1. r = [adapter |-> b, progress |-> q, events |-> c \o f \o s]
  BY PiWords DEF Receive, Pi!Receive
<1>2. b \in PiAdapters
  BY DEF PiAdapters, Absent
<1>3. PackPart(c)
  <2>1. ASSUME NEW t \in Names PROVE PackPart(<<Event("compacted", None, t)>>)
    BY DEF PackPart, Event, Reports, Happens, Refs, Absent
  <2>2. c = <<>> \/ \E t \in Names : c = <<Event("compacted", None, t)>>
    BY DEF Names
  <2> QED  BY <2>1, <2>2 DEF PackPart
<1>4. Pi!Outcome(a, progress) \in Names
  BY DEF Pi!Outcome, Turned, Names
<1>5. Kept(progress)
  BY DEF Kept
<1>6. r.adapter = b /\ r.progress = q /\ r.events = c \o f \o s
  <2> HIDE DEF b, c, f, s, q, r
  <2> QED  BY <1>1
<1>7. c \in Seq(Reports)
  BY <1>3, Single DEF PackPart
<1>8. CASE Pi!IdleProbe(a, m)
  <2>1. q = Ended(progress) /\ f = FinishEvents(progress, Pi!Outcome(a, progress)) /\ s = <<>>
    <3>1. m.type = "response" /\ m.id = <<"settled", a.prompt>>
      BY <1>8 DEF Pi!IdleProbe
    <3>2. a.prompt # None => a.prompt[1] \in Ops /\ m.id[1] = "settled"
      BY <3>1 DEF PiAdapters, Callers, Absent
    <3>3. ~Pi!Response(m, a.prompt)
      BY <3>1, <3>2, SpareNames DEF Pi!Response
    <3>4. q = Ended(progress)
      BY <1>8, <3>1, <3>3, PiWords DEF Pi!TurnAfter
    <3> QED  BY <1>8, <3>1, <3>4
  <2>2. Kept(q) /\ TurnPart(f, q)
    <3> HIDE DEF f, q
    <3> QED  BY <1>4, <1>5, <2>1, BegunKept, FinishPart
  <2>3. Telling(c \o f, q)
    <3> HIDE DEF c, f, s, q
    <3> QED  BY <1>3, <2>2, PartsTelling
  <2>4. c \o f \o s = c \o f
    <3> HIDE DEF c, f, s
    <3> QED  BY <2>1, <2>3, ConcatEmptySeq DEF Telling
  <2>5. Speaks(r)
    <3> HIDE DEF a, b, c, f, s, q, r
    <3> QED  BY <1>2, <1>6, <2>2, <2>3, <2>4 DEF Speaks, AdapterOK
  <2> QED  BY <2>5
<1>9. CASE ~Pi!IdleProbe(a, m) /\ m.type = "agent_start"
  <2>1. q = Begun(progress) /\ f = <<>> /\ s = StartEvents(progress)
    BY <1>9, PiWords DEF Pi!TurnAfter, Pi!Response
  <2>2. Kept(q) /\ TurnPart(s, q)
    <3> HIDE DEF s, q
    <3> QED  BY <1>5, <2>1, BegunKept, StartPart
  <2>3. Telling(c \o s, q) /\ Telling(c \o <<>>, q)
    <3> HIDE DEF c, f, s, q
    <3> QED  BY <1>3, <2>2, PartsTelling DEF TurnPart
  <2>4. c \o f \o s = c \o s
    <3> HIDE DEF c, f, s
    <3> QED  BY <1>7, <2>1, ConcatEmptySeq
  <2>5. Speaks(r)
    <3> HIDE DEF a, b, c, f, s, q, r
    <3> QED  BY <1>2, <1>6, <2>2, <2>3, <2>4 DEF Speaks, AdapterOK
  <2> QED  BY <2>5
<1>10. CASE ~Pi!IdleProbe(a, m) /\ m.type # "agent_start"
  <2>1. f = <<>> /\ s = <<>>
    BY <1>10
  <2>2. Kept(q)
    BY <1>10, PiWords DEF Pi!TurnAfter, Kept, Turned, Messages, Lines, Names
  <2>3. Telling(c \o <<>>, q)
    <3> HIDE DEF c, f, s, q
    <3> QED  BY <1>3, PartsTelling DEF TurnPart
  <2>4. c \o f \o s = c \o <<>>
    <3> HIDE DEF c, f, s
    <3> QED  BY <1>7, <2>1, ConcatEmptySeq
  <2>5. Speaks(r)
    <3> HIDE DEF a, b, c, f, s, q, r
    <3> QED  BY <1>2, <1>6, <2>2, <2>3, <2>4 DEF Speaks, AdapterOK
  <2> QED  BY <2>5
<1> QED  BY <1>8, <1>9, <1>10

(* Claude's                                                                  *)
LEMMA ClaudeSpeaks ==
  ASSUME kind = "claude", adapter \in ClaudeAdapters, progress \in Turned, NEW m \in Messages
  PROVE  Speaks(Receive(m))
<1> DEFINE a == adapter
           z == [a EXCEPT !.reply = NoAnswer]
           r == Receive(m)
<1>0. /\ NoAnswer \in Replies
      /\ \A ok \in BOOLEAN : Answer(m.id, ok) \in Replies
  <2>1. \A ok \in BOOLEAN : [id |-> m.id, ok |-> ok] \in [id : Tags \cup Absent, ok : BOOLEAN]
    BY DEF Messages, Lines
  <2> QED  BY <2>1, Single DEF Answer, NoAnswer, Replies
<1>1. z \in ClaudeAdapters
  BY <1>0 DEF ClaudeAdapters
<1>2. Kept(progress)
  BY DEF Kept
<1>3. TurnPart(<<>>, progress) /\ PackPart(<<>>) /\ Telling(<<>> \o <<>>, progress)
  BY PartsTelling DEF TurnPart, PackPart
<1>4. Telling(<<>>, progress)
  BY SilentTelling
<1>5. CASE m.type = "lifecycle"
  <2> DEFINE t == Claude!OnLifecycle(z, progress, m)
             begins == m.status = "started" /\ Claude!IsActive(z, m) /\ Claude!Called(z, m) # {}
  <2>1. r = t
    BY <1>5, ClaudeWords DEF Receive, Claude!Receive
  <2>2. Claude!LifecycleReply(z, m) \in Replies
    BY <1>0, ClaudeWords DEF Claude!LifecycleReply
  <2>3. t.adapter \in ClaudeAdapters
    <3>1. t.adapter = [z EXCEPT !.reply = Claude!LifecycleReply(z, m)]
      BY DEF Claude!OnLifecycle
    <3> HIDE DEF z, t
    <3> QED  BY <1>1, <2>2, <3>1 DEF ClaudeAdapters
  <2>4. /\ t.progress = IF begins THEN Begun(progress) ELSE progress
        /\ t.events = IF begins THEN StartEvents(progress) ELSE <<>>
    BY ClaudeWords DEF Claude!OnLifecycle
  <2> HIDE DEF t, begins
  <2>5. CASE begins
    <3>1. Kept(t.progress) /\ TurnPart(t.events, t.progress)
      BY <1>2, <2>4, <2>5, BegunKept, StartPart
    <3>2. Telling(<<>> \o t.events, t.progress)
      BY <1>3, <3>1, PartsTelling
    <3>3. <<>> \o t.events = t.events
      BY <3>1, Single, ConcatEmptySeq DEF TurnPart
    <3> QED  BY <1>5, <2>1, <2>3, <3>1, <3>2, <3>3 DEF Speaks, AdapterOK
  <2>6. CASE ~begins
    BY <1>2, <1>4, <2>1, <2>3, <2>4, <2>6 DEF Speaks, AdapterOK
  <2> QED  BY <2>5, <2>6
<1>6. CASE m.type = "result"
  <2> DEFINE t == Claude!OnResult(z, progress, m)
             c == IF \E u \in Claude!Called(z, m) : u.kind = "compact"
                    THEN <<Event("compacted", None, IF z.compacted /\ m.status = "success"
                                                      THEN "completed" ELSE "failed")>>
                    ELSE <<>>
             s == IF z.interrupting THEN "interrupted"
                  ELSE IF m.status = "success" THEN "completed" ELSE "failed"
             f == IF Claude!IsActive(z, m) THEN FinishEvents(progress, s) ELSE <<>>
             q == IF Claude!IsActive(z, m) THEN Ended(progress) ELSE progress
  <2>1. r = t
    BY <1>6, ClaudeWords DEF Receive, Claude!Receive
  <2>2. t.adapter \in ClaudeAdapters
    <3>1. \E y \in Replies, w \in BOOLEAN :
            t.adapter = [z EXCEPT !.users = @ \ Claude!Called(z, m), !.failed = w, !.reply = y,
                           !.active = IF Claude!IsActive(z, m) THEN None ELSE @]
      BY <1>0, ClaudeWords DEF Claude!OnResult
    <3> HIDE DEF z, t
    <3> QED  BY <1>1, <3>1 DEF ClaudeAdapters, Absent
  <2>3. t.progress = q /\ t.events = c \o f
    BY ClaudeWords DEF Claude!OnResult
  <2>4. PackPart(c)
    <3>1. ASSUME NEW x \in Names PROVE PackPart(<<Event("compacted", None, x)>>)
      BY DEF PackPart, Event, Reports, Happens, Refs, Absent
    <3>2. c = <<>> \/ \E x \in Names : c = <<Event("compacted", None, x)>>
      BY DEF Names
    <3> QED  BY <3>1, <3>2 DEF PackPart
  <2>5. s \in Names
    BY DEF Names
  <2>6. Kept(q) /\ TurnPart(f, q)
    <3> HIDE DEF s, z
    <3>1. CASE Claude!IsActive(z, m)
      BY <1>2, <1>6, <2>5, <3>1, BegunKept, FinishPart
    <3>2. CASE ~Claude!IsActive(z, m)
      BY <1>2, <1>3, <3>2
    <3> QED  BY <3>1, <3>2
  <2> HIDE DEF t, c, s, f, q
  <2>7. Telling(c \o f, q)
    BY <2>4, <2>6, PartsTelling
  <2> QED  BY <1>6, <2>1, <2>2, <2>3, <2>6, <2>7 DEF Speaks, AdapterOK
<1>7. CASE m.type \notin {"lifecycle", "result"}
  <2>1. r.adapter \in ClaudeAdapters
    <3>1. \/ \E y \in Replies : r.adapter = [a EXCEPT !.reply = y]
          \/ \E w \in BOOLEAN : r.adapter = [z EXCEPT !.compacted = w]
      <4>1. CASE m.type = "control_response"
        BY <1>0, <4>1, ClaudeWords DEF Receive, Claude!Receive
      <4>2. CASE m.type # "control_response"
        <5>1. r.adapter = [z EXCEPT !.compacted = @ \/ m.type = "compact_boundary"]
          BY <1>7, <4>2, ClaudeWords DEF Receive, Claude!Receive
        <5>2. z.compacted \in BOOLEAN
          BY <1>1 DEF ClaudeAdapters
        <5> HIDE DEF z, r
        <5> QED  BY <5>1, <5>2
      <4> QED  BY <4>1, <4>2
    <3> HIDE DEF z, r
    <3> QED  BY <1>1, <3>1 DEF ClaudeAdapters
  <2>2. r.progress = progress /\ r.events = <<>>
    BY <1>7 DEF Receive, Claude!Receive
  <2> QED  BY <1>2, <1>4, <2>1, <2>2 DEF Speaks, AdapterOK
<1> QED  BY <1>5, <1>6, <1>7

(* and Cursor's, which tells of no end itself.                               *)
LEMMA CursorSpeaks ==
  ASSUME kind = "cursor", adapter \in CursorAdapters, progress \in Turned, NEW m \in Messages,
         adapter.prompt # None => progress.request # None
  PROVE  Speaks(Receive(m))
<1> DEFINE a == adapter
           z == [a EXCEPT !.ack = None, !.responses = <<>>]
           r == Receive(m)
<1>1. z \in CursorAdapters /\ z.prompt = a.prompt /\ z.worker = a.worker
      /\ z.terminal = a.terminal /\ z.dirty = a.dirty
  <2>1. <<>> \in Seq(Frames)
    OBVIOUS
  <2> QED  BY <2>1 DEF CursorAdapters, Absent
<1>2. Kept(progress)
  BY DEF Kept
<1>3. Telling(<<>>, progress)
  BY SilentTelling
<1>4. Telling(StartEvents(progress), Begun(progress)) /\ Kept(Begun(progress))
  <2>1. TurnPart(StartEvents(progress), Begun(progress)) /\ Kept(Begun(progress))
    BY <1>2, StartPart, BegunKept
  <2>2. Telling(<<>> \o StartEvents(progress), Begun(progress))
    BY <2>1, PartsTelling DEF PackPart
  <2>3. <<>> \o StartEvents(progress) = StartEvents(progress)
    BY <2>1, Single, ConcatEmptySeq DEF TurnPart
  <2> QED  BY <2>1, <2>2, <2>3
<1>5. CASE Cursor!AnswersPrompt(z, m) /\ Cursor!Restarts(z, m)
  <2> DEFINE t == Cursor!Restarted(z, progress, m)
             y == [z EXCEPT !.responses = <<Frame("session/prompt", z.restart, progress.request)>>,
                            !.ack = [source |-> m.id, id |-> z.restart],
                            !.prompt = z.restart, !.restart = None, !.dirty = TRUE]
  <2>1. r = t
    <3>1. m.type = "response"
      BY <1>5 DEF Cursor!AnswersPrompt
    <3> QED  BY <1>5, <3>1 DEF Receive, Cursor!Receive
  <2>2. t.adapter = y /\ t.progress = progress /\ t.events = <<>>
    BY CursorWords DEF Cursor!Restarted
  <2>3. m.id = z.prompt /\ z.prompt # None /\ z.restart # None
    BY <1>5 DEF Cursor!AnswersPrompt, Cursor!Restarts
  <2>4. <<Frame("session/prompt", z.restart, progress.request)>> \in Seq(Frames)
    <3>1. z.restart \in Callers
      BY <1>1, <2>3 DEF CursorAdapters, Absent
    <3>2. Frame("session/prompt", z.restart, progress.request) \in Frames
      BY <3>1 DEF Frame, Frames, Methods, Tags, Turned
    <3> QED  BY <3>2, Single
  <2>5. z.restart \in Callers /\ m.id \in Tags
    BY <1>1, <2>3 DEF CursorAdapters, Absent, Tags
  <2>6. y \in CursorAdapters /\ y.worker = z.worker /\ y.dirty /\ y.terminal = z.terminal
    <3> HIDE DEF z
    <3> QED  BY <1>1, <2>4, <2>5 DEF CursorAdapters, Absent
  <2>7. CursorKept(y, progress)
    <3> HIDE DEF z, y
    <3> QED  BY <1>1, <2>3, <2>6 DEF CursorKept
  <2> HIDE DEF t, y
  <2> QED  BY <1>2, <1>3, <2>1, <2>2, <2>6, <2>7 DEF Speaks, AdapterOK
<1>6. CASE Cursor!AnswersPrompt(z, m) /\ ~Cursor!Restarts(z, m)
  <2> DEFINE t == Cursor!Over(z, progress, m)
             w == Cursor!Waiting(z)
             s == CASE m.status = "end_turn"  -> "completed"
                   [] m.status = "cancelled" -> "interrupted"
                   [] OTHER                  -> "failed"
             e == Event("finished", progress.request, s)
             x == IF z.cancel # None THEN z.restart ELSE None
             k == IF w = None THEN None ELSE [source |-> m.id, id |-> w]
             y == [z EXCEPT !.prompt = None, !.cancel = None, !.restart = x, !.ack = k,
                            !.dirty = TRUE, !.terminal = e]
  <2>1. r = t
    <3>1. m.type = "response"
      BY <1>6 DEF Cursor!AnswersPrompt
    <3> QED  BY <1>6, <3>1 DEF Receive, Cursor!Receive
  <2>2. t.adapter = y /\ t.progress = [Begun(progress) EXCEPT !.finished = TRUE]
        /\ t.events = StartEvents(progress)
    BY CursorWords DEF Cursor!Over
  <2>3. m.id = z.prompt /\ z.prompt # None
    BY <1>6 DEF Cursor!AnswersPrompt
  <2>4. progress.request \in Prompts
    BY <1>1, <2>3 DEF Turned, Refs, Absent
  <2>5. e \in Ends /\ e.request = progress.request
    BY <2>4 DEF Event, Ends, Names
  <2>6. /\ x \in Callers \cup Absent
        /\ k \in [source : Tags, id : Callers] \cup Absent
    <3>1. w \in Callers \cup Absent /\ m.id \in Tags
      BY <1>1, <2>3 DEF Cursor!Waiting, CursorAdapters, Absent, Tags
    <3>2. k \in [source : Tags, id : Callers] \cup Absent
      <4> HIDE DEF w
      <4> QED  BY <3>1 DEF Absent
    <3>3. x \in Callers \cup Absent
      <4> HIDE DEF z
      <4> QED  BY <1>1 DEF CursorAdapters, Absent
    <3> QED  BY <3>2, <3>3
  <2>7. y \in CursorAdapters /\ y.worker = z.worker /\ y.dirty /\ y.prompt = None
        /\ y.terminal = e
    <3> HIDE DEF z, w, s, e, x, k
    <3> QED  BY <1>1, <2>5, <2>6 DEF CursorAdapters, Absent
  <2>8. y.terminal \in Ends /\ y.terminal.request = progress.request
    <3> HIDE DEF y, e
    <3> QED  BY <2>5, <2>7
  <2> DEFINE q == [Begun(progress) EXCEPT !.finished = TRUE]
  <2>9. Kept(q) /\ q.finished /\ q.request = progress.request /\ q.started = Begun(progress).started
    <3>1. Begun(progress) \in Turned
      BY <1>4, BegunKept DEF Kept
    <3> QED  BY <1>4, <3>1 DEF Kept, Turned
  <2>10. Telling(StartEvents(progress), q)
    <3> HIDE DEF q
    <3> QED  BY <1>4, <2>9 DEF Telling
  <2>11. CursorKept(y, q)
    <3> HIDE DEF z, y, q
    <3> QED  BY <1>1, <2>7, <2>8, <2>9 DEF CursorKept
  <2> HIDE DEF t, y, q
  <2>12. r.progress = q
    BY <2>1, <2>2 DEF q
  <2> QED  BY <2>1, <2>2, <2>7, <2>9, <2>10, <2>11, <2>12 DEF Speaks, AdapterOK
<1>7. CASE ~Cursor!AnswersPrompt(z, m) /\ m.type \in {"update", "tool"} /\ z.prompt # None
  <2> DEFINE y == [z EXCEPT !.dirty = @ \/ m.type = "tool"]
  <2>1. r.adapter = y /\ r.progress = Begun(progress) /\ r.events = StartEvents(progress)
    BY <1>7, CursorWords DEF Receive, Cursor!Receive
  <2>2. y \in CursorAdapters /\ CursorKept(y, Begun(progress))
    <3> HIDE DEF z
    <3> QED  BY <1>1 DEF CursorAdapters, CursorKept
  <2> HIDE DEF y, r
  <2> QED  BY <1>4, <2>1, <2>2 DEF Speaks, AdapterOK, r
<1>8. CASE ~Cursor!AnswersPrompt(z, m) /\ ~(m.type \in {"update", "tool"} /\ z.prompt # None)
  <2>1. r.adapter = z /\ r.progress = progress /\ r.events = <<>>
    BY <1>8, CursorWords DEF Receive, Cursor!Receive
  <2>2. CursorKept(z, progress)
    <3> HIDE DEF z
    <3> QED  BY <1>1 DEF CursorKept
  <2> HIDE DEF z, r
  <2> QED  BY <1>1, <1>2, <1>3, <2>1, <2>2 DEF Speaks, AdapterOK, r
<1> QED  BY <1>5, <1>6, <1>7, <1>8

(* The adapter of any harness tells of the turn in hand only.                *)
LEMMA ReceiveSpeaks ==
  ASSUME PlanOK, AdapterOK(adapter), progress \in Turned, NEW m \in Messages,
         kind = "cursor" /\ adapter.prompt # None => progress.request # None
  PROVE  Speaks(Receive(m))
BY KindKnown, CodexSpeaks, ClaudeSpeaks, PiSpeaks, CursorSpeaks DEF AdapterOK

-----------------------------------------------------------------------------
(* What the adapter writes: a call, the answers it owes and the close.       *)
LEMMA EncodeOK ==
  ASSUME PlanOK, AdapterOK(adapter), NEW id \in Callers, NEW method \in Methods,
         NEW request \in Refs
  PROVE  LET b == Encode(id, method, request)
         IN  /\ AdapterOK(b)
             /\ kind \in {"codex", "pi"} =>
                  b.prompt = (IF request # None THEN id ELSE adapter.prompt)
             /\ kind = "pi" =>
                  b.compaction = (IF method = "compact" THEN id ELSE adapter.compaction)
             /\ kind = "cursor" =>
                  /\ b.worker = adapter.worker /\ b.dirty = adapter.dirty
                  /\ b.terminal = adapter.terminal
                  /\ b.prompt = (IF request # None THEN id ELSE adapter.prompt)
<1> DEFINE b == Encode(id, method, request)
<1>1. CASE kind = "codex"
  <2>1. b = [adapter EXCEPT !.prompt     = IF request # None THEN id ELSE @,
                            !.compaction = IF method = "thread/compact/start" THEN id ELSE @,
                            !.turn       = IF method = "thread/compact/start" THEN None ELSE @]
    BY <1>1 DEF Encode, Codex!Encode
  <2> HIDE DEF b
  <2>2. adapter \in CodexAdapters
    BY <1>1 DEF AdapterOK
  <2>3. b \in CodexAdapters /\ b.prompt = (IF request # None THEN id ELSE adapter.prompt)
    BY <2>1, <2>2 DEF CodexAdapters, Absent, TurnRefs, Refs
  <2> QED  BY <1>1, <2>3 DEF AdapterOK, b
<1>2. CASE kind = "claude"
  <2> DEFINE u == IF method \in {"prompt", "bootstrap", "compact"}
                    THEN adapter.users \cup {[id |-> id, kind |-> method]} ELSE adapter.users
             x == IF request # None THEN [id |-> id, request |-> request] ELSE adapter.active
             y == IF request # None THEN FALSE ELSE adapter.interrupting \/ method = "interrupt"
             w == IF method = "compact" THEN FALSE ELSE adapter.compacted
  <2>1. b = [adapter EXCEPT !.users = u, !.active = x, !.interrupting = y, !.compacted = w]
    BY <1>2 DEF Encode, Claude!Encode
  <2>2. adapter \in ClaudeAdapters
    BY <1>2 DEF AdapterOK
  <2>3. u \in SUBSET [id : Callers, kind : Methods]
    BY <2>2 DEF ClaudeAdapters
  <2>4. x \in [id : Callers, request : Prompts] \cup Absent
    BY <2>2 DEF ClaudeAdapters, Refs, Absent
  <2>5. y \in BOOLEAN /\ w \in BOOLEAN
    BY <2>2 DEF ClaudeAdapters
  <2> HIDE DEF b, u, x, y, w
  <2>6. b \in ClaudeAdapters
    BY <2>1, <2>2, <2>3, <2>4, <2>5 DEF ClaudeAdapters
  <2> QED  BY <1>2, <2>6 DEF AdapterOK, b
<1>3. CASE kind = "pi"
  <2>1. b = [adapter EXCEPT !.prompt       = IF request # None THEN id ELSE @,
                            !.accepted     = @ /\ request = None,
                            !.interrupting = (@ /\ request = None) \/ method = "abort",
                            !.compaction   = IF method = "compact" THEN id ELSE @]
    BY <1>3 DEF Encode, Pi!Encode
  <2> HIDE DEF b
  <2>2. adapter \in PiAdapters
    BY <1>3 DEF AdapterOK
  <2>3. /\ b \in PiAdapters /\ b.prompt = (IF request # None THEN id ELSE adapter.prompt)
        /\ b.compaction = (IF method = "compact" THEN id ELSE adapter.compaction)
    BY <2>1, <2>2 DEF PiAdapters, Absent
  <2> QED  BY <1>3, <2>3 DEF AdapterOK, b
<1>4. CASE kind = "cursor"
  <2>1. b = [adapter EXCEPT !.prompt  = IF request # None THEN id ELSE @,
                            !.restart = IF method = "cloudroom/steer" THEN id ELSE @,
                            !.cancel  = IF method = "session/cancel" THEN id ELSE @]
    BY <1>4 DEF Encode, Cursor!Encode
  <2> HIDE DEF b
  <2>2. adapter \in CursorAdapters
    BY <1>4 DEF AdapterOK
  <2>3. /\ b \in CursorAdapters /\ b.worker = adapter.worker /\ b.dirty = adapter.dirty
        /\ b.terminal = adapter.terminal
        /\ b.prompt = (IF request # None THEN id ELSE adapter.prompt)
    BY <2>1, <2>2 DEF CursorAdapters, Absent
  <2> QED  BY <1>4, <2>3 DEF AdapterOK, b
<1> QED  BY <1>1, <1>2, <1>3, <1>4, KindKnown

(* What a call writes is a frame.                                            *)
LEMMA OutgoingOK ==
  ASSUME PlanOK, NEW id \in Callers, NEW method \in Methods, NEW ref \in Refs
  PROVE  Outgoing(id, method, ref) \in Frames
BY CursorWords DEF Outgoing, Cursor!Outgoing, Frame, Frames, Methods, Tags

(* What is done with a close leaves the adapter, as far as turns and copies  *)
(* go, as it was.                                                            *)
SameTurn(a, b) ==
  /\ kind \in {"codex", "pi"} => b.prompt = a.prompt /\ b.compaction = a.compaction
  /\ kind = "cursor" => /\ b.worker = a.worker /\ b.dirty = a.dirty
                        /\ b.terminal = a.terminal /\ b.prompt = a.prompt

(* A message that confirms a close does not change the turn.                 *)
LEMMA ClosingOK ==
  ASSUME PlanOK, NEW a, AdapterOK(a), NEW m \in Messages
  PROVE  AdapterOK(Closing(a, m)) /\ SameTurn(a, Closing(a, m))
<1>1. CASE kind = "claude"
  <2>1. a \in ClaudeAdapters
    BY <1>1 DEF AdapterOK
  <2>2. \E x \in BOOLEAN : Closing(a, m) = [a EXCEPT !.confirmed = x]
    BY <1>1 DEF Closing, Claude!Closing
  <2>3. Closing(a, m) \in ClaudeAdapters
    BY <2>1, <2>2 DEF ClaudeAdapters
  <2> QED  BY <1>1, <2>3 DEF AdapterOK, SameTurn
<1>2. CASE kind = "pi"
  <2>1. a \in PiAdapters
    BY <1>2 DEF AdapterOK
  <2>2. \/ Closing(a, m) = a
        \/ /\ m.id[1] = "close" /\ m.type = "response"
           /\ Closing(a, m) = [a EXCEPT !.mask = @ \cup {m.id[2]}]
    BY <1>2 DEF Closing, Pi!Closing
  <2>3. m.id[1] = "close" /\ m.type = "response" => m.id[2] \in Nat
    BY SpareNames DEF Messages, Tags, Callers
  <2>4. Closing(a, m) \in PiAdapters
    BY <2>1, <2>2, <2>3 DEF PiAdapters
  <2>5. /\ Closing(a, m).prompt = a.prompt
        /\ Closing(a, m).compaction = a.compaction
    BY <2>1, <2>2 DEF PiAdapters
  <2> QED  BY <1>2, <2>4, <2>5 DEF AdapterOK, SameTurn
<1>3. CASE kind \in {"codex", "cursor"}
  BY <1>3 DEF Closing, SameTurn
<1> QED  BY <1>1, <1>2, <1>3, KindKnown

(* A close writes frames and does not change the turn.                       *)
LEMMA AtCloseOK ==
  ASSUME PlanOK, AdapterOK(adapter)
  PROVE  AdapterOK(AtClose) /\ SameTurn(adapter, AtClose) /\ CloseFrames \in Seq(Frames)
<1>1. CASE kind = "codex"
  BY <1>1 DEF AtClose, CloseFrames, SameTurn
<1>2. CASE kind = "claude"
  <2>1. Frame("interrupt", <<"close", 1>>, None) \in Frames
    BY DEF Frame, Frames, Methods, Tags, Refs, Absent
  <2> QED  BY <1>2, <2>1, Single, ClaudeWords DEF AtClose, CloseFrames, Claude!CloseFrames, SameTurn
<1>3. CASE kind = "pi"
  <2>1. /\ Frame("clear_queue", <<"close", 1>>, None) \in Frames
        /\ Frame("abort_bash", <<"close", 2>>, None) \in Frames
        /\ Frame("abort", <<"close", 3>>, None) \in Frames
    BY DEF Frame, Frames, Methods, Tags, Refs, Absent
  <2>2. CloseFrames \in Seq(Frames)
    BY <1>3, <2>1, PiWords DEF CloseFrames, Pi!CloseFrames
  <2>3. adapter \in PiAdapters /\ AtClose = [adapter EXCEPT !.interrupting = TRUE]
    BY <1>3 DEF AdapterOK, AtClose, Pi!AtClose
  <2>4. AtClose \in PiAdapters /\ AtClose.prompt = adapter.prompt
        /\ AtClose.compaction = adapter.compaction
    BY <2>3 DEF PiAdapters
  <2> QED  BY <1>3, <2>2, <2>4 DEF AdapterOK, SameTurn
<1>4. CASE kind = "cursor"
  <2>1. Frame("session/cancel", <<"close", 1>>, None) \in Frames
    BY DEF Frame, Frames, Methods, Tags, Refs, Absent
  <2>2. CloseFrames \in Seq(Frames)
    BY <1>4, <2>1, Single, CursorWords DEF CloseFrames, Cursor!CloseFrames
  <2>3. adapter \in CursorAdapters /\ AtClose = [adapter EXCEPT !.closing = TRUE, !.restart = None]
    BY <1>4 DEF AdapterOK, AtClose, Cursor!AtClose
  <2>4. /\ AtClose \in CursorAdapters /\ AtClose.worker = adapter.worker
        /\ AtClose.dirty = adapter.dirty /\ AtClose.terminal = adapter.terminal
        /\ AtClose.prompt = adapter.prompt
    BY <2>3 DEF CursorAdapters, Absent
  <2> QED  BY <1>4, <2>2, <2>4 DEF AdapterOK, SameTurn
<1> QED  BY <1>1, <1>2, <1>3, <1>4, KindKnown

(* What an adapter owes after a message is frames.                           *)
LEMMA RespondsOK ==
  ASSUME PlanOK, NEW a, AdapterOK(a), NEW m
  PROVE  Responds(a, m) \in Seq(Frames)
<1>1. CASE kind = "pi"
  <2>1. a \in PiAdapters
    BY <1>1 DEF AdapterOK
  <2>2. CASE a.prompt # None
    <3>1. Pi!Probe(a) \in Frames
      BY <2>1, <2>2, PiWords DEF Pi!Probe, Frame, Frames, Methods, Tags, Refs, Absent, PiAdapters
    <3> QED  BY <1>1, <3>1, Single DEF Responds, Pi!Responds
  <2>3. CASE a.prompt = None
    BY <1>1, <2>3 DEF Responds, Pi!Responds
  <2> QED  BY <2>2, <2>3
<1>2. CASE kind = "cursor"
  BY <1>2 DEF AdapterOK, CursorAdapters, Responds, Cursor!Responds
<1>3. CASE kind \in {"codex", "claude"}
  BY <1>3 DEF Responds
<1> QED  BY <1>1, <1>2, <1>3, KindKnown

(* A poll reports the copy that was made, and after it the end that waited   *)
(* for that copy.                                                            *)
LEMMA CaptureOK ==
  ASSUME kind = "cursor", adapter \in CursorAdapters, NEW c \in Capture,
         adapter.terminal # None =>
           adapter.dirty \/ adapter.worker = adapter.terminal.request
  PROVE  /\ c.adapter \in CursorAdapters /\ c.adapter.prompt = adapter.prompt
         /\ c.adapter.terminal # None =>
              c.adapter.dirty \/ c.adapter.worker = c.adapter.terminal.request
         /\ \/ /\ c.adapter.terminal = adapter.terminal
               /\ \/ c.events = <<>>
                  \/ c.events = <<Event("copied", adapter.worker, None)>>
            \/ /\ c.adapter.terminal = None /\ adapter.terminal \in Ends
               /\ adapter.terminal # None /\ adapter.terminal.request = adapter.worker
               /\ c.events = <<Event("copied", adapter.worker, None), adapter.terminal>>
<1> DEFINE a == adapter
           next(x) == Cursor!NextCopy(x)
           gone == [a EXCEPT !.worker = None]
<1>1. PICK d \in Cursor!Polls(a) : c = Cursor!Released(d)
  BY DEF Capture, Cursor!Capture
<1>2. \A x \in CursorAdapters :
        /\ next(x) \in CursorAdapters /\ next(x).prompt = x.prompt
        /\ next(x).terminal = x.terminal
        /\ x.worker = None /\ x.dirty =>
             /\ ~next(x).dirty
             /\ next(x).worker = IF x.terminal # None THEN x.terminal.request ELSE "partial"
        /\ ~(x.worker = None /\ x.dirty) => next(x) = x
  <2> SUFFICES ASSUME NEW x \in CursorAdapters
               PROVE  /\ next(x) \in CursorAdapters /\ next(x).prompt = x.prompt
                      /\ next(x).terminal = x.terminal
                      /\ x.worker = None /\ x.dirty =>
                           /\ ~next(x).dirty
                           /\ next(x).worker = IF x.terminal # None THEN x.terminal.request ELSE "partial"
                      /\ ~(x.worker = None /\ x.dirty) => next(x) = x
    OBVIOUS
  <2> DEFINE w == IF x.terminal # None THEN x.terminal.request ELSE "partial"
  <2>1. w \in Refs \cup {"partial"}
    BY DEF CursorAdapters, Ends, Refs, Absent
  <2>2. x.worker = None /\ x.dirty => next(x) = [x EXCEPT !.dirty = FALSE, !.worker = w]
    BY DEF Cursor!NextCopy
  <2>3. ~(x.worker = None /\ x.dirty) => next(x) = x
    BY DEF Cursor!NextCopy
  <2> HIDE DEF next, w
  <2>4. CASE x.worker = None /\ x.dirty
    <3>1. [x EXCEPT !.dirty = FALSE, !.worker = w] \in CursorAdapters
      BY <2>1 DEF CursorAdapters
    <3>2. next(x).prompt = x.prompt /\ next(x).terminal = x.terminal /\ ~next(x).dirty
          /\ next(x).worker = w
      BY <2>2, <2>4 DEF CursorAdapters
    <3> QED  BY <2>2, <2>4, <3>1, <3>2 DEF w
  <2> QED  BY <2>3, <2>4
<1>3. gone \in CursorAdapters /\ gone.prompt = a.prompt /\ gone.terminal = a.terminal
      /\ gone.dirty = a.dirty /\ gone.worker = None
  BY DEF CursorAdapters, Refs, Absent
<1>4. a.terminal \in Ends \cup Absent /\ a.dirty \in BOOLEAN
  BY DEF CursorAdapters
<1>5. a.terminal # None => a.terminal \in Ends /\ a.terminal.request \in Prompts
                           /\ a.terminal.request # None
  BY <1>4, NamesAssumption DEF Ends, Absent
<1>6. /\ Event("copied", a.worker, None) \in Reports
      /\ a.terminal \in Ends => a.terminal \in Reports
  BY DEF Event, Reports, Ends, Happens, CursorAdapters, Names, Refs, Absent
<1>7. \/ d = [adapter |-> next(a), events |-> <<>>]
      \/ /\ a.worker # None
         /\ d = [adapter |-> next(gone), events |-> <<Event("copied", a.worker, None)>>]
  BY CursorWords DEF Cursor!Polls
<1>8. c = IF Cursor!Pending(d.adapter) \/ d.adapter.terminal = None THEN d
          ELSE [adapter |-> [d.adapter EXCEPT !.terminal = None],
                events |-> Append(d.events, d.adapter.terminal)]
  BY <1>1 DEF Cursor!Released
<1>9. Cursor!Pending(d.adapter) <=> d.adapter.worker # None \/ d.adapter.dirty
  BY DEF Cursor!Pending
<1> HIDE DEF next, gone
<1>10. CASE d = [adapter |-> next(a), events |-> <<>>]
  <2>1. a.terminal # None => next(a).worker # None \/ next(a).dirty
    BY <1>2, <1>5
  <2>2. c = d
    BY <1>2, <1>8, <1>9, <1>10, <2>1
  <2>3. next(a).terminal # None =>
          next(a).dirty \/ next(a).worker = next(a).terminal.request
    BY <1>2
  <2> QED  BY <1>2, <1>10, <2>2, <2>3
<1>11. CASE /\ a.worker # None
            /\ d = [adapter |-> next(gone), events |-> <<Event("copied", a.worker, None)>>]
  <2>1. CASE a.dirty
    <3>1. /\ next(gone).terminal = a.terminal /\ next(gone).prompt = a.prompt
          /\ next(gone).worker = IF a.terminal # None THEN a.terminal.request ELSE "partial"
          /\ next(gone) \in CursorAdapters
      BY <1>2, <1>3, <2>1
    <3>2. c = d
      BY <1>5, <1>8, <1>9, <1>11, <3>1
    <3> QED  BY <1>11, <3>1, <3>2
  <2>2. CASE ~a.dirty
    <3>1. next(gone) = gone
      BY <1>2, <1>3, <2>2
    <3>2. CASE a.terminal = None
      <4>1. c = d
        BY <1>3, <1>8, <1>11, <3>1, <3>2
      <4> QED  BY <1>3, <1>11, <3>1, <3>2, <4>1
    <3>3. CASE a.terminal # None
      <4>1. c = [adapter |-> [gone EXCEPT !.terminal = None],
                 events |-> Append(<<Event("copied", a.worker, None)>>, a.terminal)]
        BY <1>3, <1>8, <1>9, <1>11, <2>2, <3>1, <3>3
      <4>2. Append(<<Event("copied", a.worker, None)>>, a.terminal)
              = <<Event("copied", a.worker, None), a.terminal>>
        BY <1>5, <1>6, <3>3, PairAppended
      <4>3. /\ [gone EXCEPT !.terminal = None] \in CursorAdapters
            /\ [gone EXCEPT !.terminal = None].prompt = a.prompt
            /\ [gone EXCEPT !.terminal = None].terminal = None
        BY <1>3 DEF CursorAdapters, Absent
      <4> QED  BY <1>5, <2>2, <3>3, <4>1, <4>2, <4>3
    <3> QED  BY <3>2, <3>3
  <2> QED  BY <2>1, <2>2
<1> QED  BY <1>7, <1>10, <1>11

(* What the programs say.                                                    *)
Says(r) ==
  /\ NativeOK(r.native) /\ r.out \in Seq(Messages)
  /\ kind = "codex" => \A i \in DOMAIN r.out :
       r.out[i].type = "response" => r.out[i].status \in {"ok", "error"}

(* A message that answers no call is one of the messages.                    *)
LEMMA NewsOK ==
  ASSUME NEW t \in Types \ {"response"}, NEW ref \in TurnRefs, NEW s \in Names
  PROVE  Msg(t, None, ref, s) \in Messages /\ Msg(t, None, ref, s).type # "response"
BY DEF Msg, Messages, Lines, Absent

(* So is an answer to a call.                                                *)
LEMMA AnswerOK ==
  ASSUME NEW id \in Tags, NEW ref \in TurnRefs, NEW s \in Names
  PROVE  /\ Msg("response", id, ref, s) \in Messages
         /\ Msg("response", id, ref, s).status = s
BY DEF Msg, Messages, Lines, Types

(* One or two elements of a set make a sequence over it.                     *)
LEMMA PairOK ==
  ASSUME NEW S, NEW x \in S, NEW y \in S
  PROVE  /\ <<x>> \in Seq(S) /\ <<x, y>> \in Seq(S)
         /\ \A i \in DOMAIN <<x>> : <<x>>[i] = x
         /\ \A i \in DOMAIN <<x, y>> : <<x, y>>[i] = x \/ <<x, y>>[i] = y
OBVIOUS

(* The program stays in its states and says only messages: Codex taking a    *)
(* frame,                                                                    *)
LEMMA CodexTakesOK ==
  ASSUME kind = "codex", native \in CodexNatives, NEW m \in Frames, NEW r \in Takes(m)
  PROVE  Says(r)
<1> DEFINE n == native
           ok == Codex!Ok(m)
           error == Codex!Error(m)
           news == Msg("turn/started", None, m.ref, None)
           aborted == Msg("turn/completed", None, m.ref, "interrupted")
<1>1. /\ ok \in Messages /\ ok.status = "ok" /\ error \in Messages /\ error.status = "error"
      /\ news \in Messages /\ news.type = "turn/started"
      /\ aborted \in Messages /\ aborted.type = "turn/completed"
  <2>1. /\ m.id \in Tags /\ m.ref \in TurnRefs /\ None \in TurnRefs
        /\ {"ok", "error", "interrupted", None} \subseteq Names
        /\ {"turn/started", "turn/completed"} \subseteq Types \ {"response"}
    BY DEF Frames, TurnRefs, Refs, Absent, Names, Types
  <2>2. ok = Msg("response", m.id, None, "ok") /\ error = Msg("response", m.id, None, "error")
    BY CodexWords DEF Codex!Ok, Codex!Error
  <2>3. ok \in Messages /\ ok.status = "ok"
    BY <2>1, <2>2, AnswerOK
  <2>4. error \in Messages /\ error.status = "error"
    BY <2>1, <2>2, AnswerOK
  <2>5. news \in Messages /\ news.type = "turn/started"
    BY <2>1, NewsOK DEF Msg
  <2>6. aborted \in Messages /\ aborted.type = "turn/completed"
    BY <2>1, NewsOK DEF Msg
  <2> QED  BY <2>3, <2>4, <2>5, <2>6
<1>2. m.ref \in Refs
  BY DEF Frames
<1>3. /\ [n EXCEPT !.turn = m.ref, !.shell = FALSE] \in CodexNatives
      /\ [n EXCEPT !.turn = None] \in CodexNatives
      /\ [n EXCEPT !.compacting = "asked"] \in CodexNatives
  BY <1>2 DEF CodexNatives, Refs, Absent
<1> DEFINE outs == {<<>>, <<ok>>, <<error>>, <<ok, news>>, <<news, ok>>, <<ok, aborted>>,
                    <<aborted, ok>>}
<1>4. /\ r.native \in {n, [n EXCEPT !.turn = m.ref, !.shell = FALSE], [n EXCEPT !.turn = None],
                       [n EXCEPT !.compacting = "asked"]}
      /\ r.out \in outs
  <2>1. r \in Codex!Takes(n, m)
    BY DEF Takes
  <2> HIDE DEF n, ok, error, news, aborted
  <2>2. CASE m.method = "turn/start"
    BY <2>1, <2>2, CodexWords DEF Codex!Takes, Codex!Only, ok, error, news
  <2>3. CASE m.method = "turn/interrupt"
    BY <2>1, <2>3, CodexWords DEF Codex!Takes, Codex!Only, ok, error, aborted
  <2>4. CASE m.method \in {"turn/steer", "thread/compact/start", "initialized"}
    BY <2>1, <2>4, CodexWords DEF Codex!Takes, Codex!Only, ok, error
  <2>5. CASE m.method \notin {"turn/start", "turn/interrupt", "turn/steer",
                              "thread/compact/start", "initialized"}
    BY <2>1, <2>5, CodexWords DEF Codex!Takes, Codex!Only, ok, error
  <2> QED  BY <2>2, <2>3, <2>4, <2>5
<1> HIDE DEF ok, error, news, aborted
<1>5. \A o \in outs : /\ o \in Seq(Messages)
                      /\ \A i \in DOMAIN o : o[i].type = "response" => o[i].status \in {"ok", "error"}
  <2> DEFINE Good(o) == /\ o \in Seq(Messages)
                        /\ \A i \in DOMAIN o : o[i].type = "response" => o[i].status \in {"ok", "error"}
  <2>1. Good(<<>>)
    OBVIOUS
  <2>2. \A x \in {ok, error, news, aborted} :
          x \in Messages /\ (x.type = "response" => x.status \in {"ok", "error"})
    BY <1>1
  <2>3. \A x, y \in {ok, error, news, aborted} : Good(<<x>>) /\ Good(<<x, y>>)
    BY <2>2, PairOK
  <2> HIDE DEF Good
  <2>4. \A o \in outs : Good(o)
    BY <2>1, <2>3
  <2> QED  BY <2>4 DEF Good
<1> QED  BY <1>3, <1>4, <1>5 DEF Says, NativeOK

(* Codex working,                                                            *)
LEMMA CodexWorksOK ==
  ASSUME kind = "codex", native \in CodexNatives, NEW r \in Works
  PROVE  Says(r)
<1> DEFINE n == native
<1>1. n.turn \in TurnRefs
  BY DEF CodexNatives, TurnRefs
<1>2. \E t \in Types \ {"response"}, ref \in TurnRefs, s \in Names :
        r.out = <<Msg(t, None, ref, s)>>
  <2>1. r.out \in {<<Msg("item/started", None, n.turn, None)>>,
                   <<Msg("turn/completed", None, n.turn, "completed")>>,
                   <<Msg("turn/completed", None, n.turn, "failed")>>,
                   <<Msg("turn/started", None, "compaction", None)>>,
                   <<Msg("thread/compacted", None, None, None)>>,
                   <<Msg("turn/completed", None, "compaction", "completed")>>,
                   <<Msg("turn/completed", None, "compaction", "failed")>>}
    BY CodexWords DEF Works, Codex!Works, Codex!Only
  <2>2. /\ {"item/started", "turn/completed", "turn/started", "thread/compacted"}
             \subseteq Types \ {"response"}
        /\ {None, "completed", "failed"} \subseteq Names
        /\ {None, "compaction"} \subseteq TurnRefs
    BY DEF Types, Names, TurnRefs, Refs, Absent
  <2> QED  BY <1>1, <2>1, <2>2
<1>3. r.native \in {[n EXCEPT !.shell = TRUE], [n EXCEPT !.turn = None],
                    [n EXCEPT !.turn = "compaction", !.compacting = "turn"],
                    [n EXCEPT !.compacting = "no"], [n EXCEPT !.turn = None, !.compacting = "no"]}
  BY DEF Works, Codex!Works, Codex!Only
<1>4. r.native \in CodexNatives
  BY <1>3 DEF CodexNatives, Refs, Absent
<1>5. PICK t \in Types \ {"response"}, ref \in TurnRefs, s \in Names :
        r.out = <<Msg(t, None, ref, s)>>
  BY <1>2
<1>6. Msg(t, None, ref, s) \in Messages /\ Msg(t, None, ref, s).type # "response"
  BY NewsOK
<1> QED  BY <1>4, <1>5, <1>6, PairOK DEF Says, NativeOK

(* Claude taking a frame,                                                    *)
LEMMA ClaudeTakesOK ==
  ASSUME kind = "claude", native \in ClaudeNatives, NEW m \in Frames, NEW r \in Takes(m)
  PROVE  Says(r)
<1> DEFINE n == native
           user == [id |-> m.id, ref |-> m.ref, method |-> m.method]
           rests == [n EXCEPT !.queue = <<>>, !.turn = None]
           opened == (IF n.turn = None THEN <<>> ELSE <<n.turn>>) \o n.queue
           ends == [i \in DOMAIN opened |-> Claude!Result(opened[i], "error")]
           longer == [n EXCEPT !.queue = Append(@, user)]
           control(s) == Claude!Control(m, s)
           life(s) == Claude!Lifecycle(user, s)
           result(s) == Claude!Result(user, s)
<1>0. /\ {None, "queued", "rejected", "success", "error"} \subseteq Names
      /\ {"control_response", "lifecycle", "result"} \subseteq Types \ {"response"}
      /\ m.id \in Tags /\ None \in TurnRefs
  BY DEF Names, Types, Frames, TurnRefs, Refs, Absent
<1>1. user \in Users /\ user.id = m.id
  BY DEF Users, Frames
<1>2. \A u \in Users, s \in Names, t \in Types \ {"response"} : Msg(t, u.id, None, s) \in Messages
  BY <1>0 DEF Msg, Messages, Lines, Users
<1>3. \A s \in Names : control(s) \in Messages /\ life(s) \in Messages /\ result(s) \in Messages
  BY <1>0, <1>1, <1>2, ClaudeWords DEF Claude!Control, Claude!Lifecycle, Claude!Result
<1>4. /\ rests \in ClaudeNatives /\ n \in ClaudeNatives
      /\ n.queue \in Seq(Users) /\ n.turn \in Users \cup Absent
  <2>1. <<>> \in Seq(Users)
    OBVIOUS
  <2> QED  BY <2>1 DEF ClaudeNatives, Absent
<1>5. longer \in ClaudeNatives
  <2>1. Append(n.queue, user) \in Seq(Users)
    BY <1>1, <1>4, AppendProperties
  <2> HIDE DEF user
  <2> QED  BY <2>1 DEF ClaudeNatives
<1>6. opened \in Seq(Users)
  <2>1. (IF n.turn = None THEN <<>> ELSE <<n.turn>>) \in Seq(Users)
    BY <1>4 DEF Absent
  <2> QED  BY <1>4, <2>1, ConcatProperties
<1>7. ends \in Seq(Messages)
  <2> HIDE DEF opened
  <2>1. DOMAIN opened = 1..Len(opened) /\ Len(opened) \in Nat /\ \A i \in 1..Len(opened) : opened[i] \in Users
    BY <1>6, LenProperties
  <2>2. \A i \in 1..Len(opened) : Claude!Result(opened[i], "error") \in Messages
    BY <1>0, <1>2, <2>1, ClaudeWords DEF Claude!Result
  <2>3. ends \in [1..Len(opened) -> Messages]
    BY <2>1, <2>2
  <2> HIDE DEF ends
  <2> QED  BY <2>1, <2>3, SeqDef
<1>8. /\ r.native \in {n, rests, longer}
      /\ \/ \E s \in Names : r.out \in {<<control(s)>>, <<life(s)>>, <<result(s)>>}
         \/ r.out = Append(ends, control("success"))
         \/ r.out = <<control("success")>> \o ends
  <2>1. r \in Claude!Takes(n, m)
    BY DEF Takes
  <2>2. CASE m.method \in {"prompt", "compact"}
    <3>1. r \in {[native |-> longer, out |-> <<life("queued")>>],
                 [native |-> n, out |-> <<life("rejected")>>]}
      BY <2>1, <2>2 DEF Claude!Takes, Claude!Only
    <3> HIDE DEF n, longer, life
    <3>2. CASE r = [native |-> longer, out |-> <<life("queued")>>]
      <4>1. r.native = longer /\ r.out = <<life("queued")>> /\ "queued" \in Names
        BY <1>0, <3>2
      <4> QED  BY <4>1
    <3>3. CASE r = [native |-> n, out |-> <<life("rejected")>>]
      <4>1. r.native = n /\ r.out = <<life("rejected")>> /\ "rejected" \in Names
        BY <1>0, <3>3
      <4> QED  BY <4>1
    <3> QED  BY <3>1, <3>2, <3>3
  <2>3. CASE m.method = "bootstrap"
    <3>1. r \in {[native |-> n, out |-> <<result("success")>>],
                 [native |-> n, out |-> <<result("error")>>]}
      BY <2>1, <2>3 DEF Claude!Takes, Claude!Only
    <3> HIDE DEF n, result
    <3>2. PICK s \in {"success", "error"} : r = [native |-> n, out |-> <<result(s)>>]
      BY <3>1
    <3>3. r.native = n /\ r.out = <<result(s)>> /\ s \in Names
      BY <1>0, <3>2
    <3> QED  BY <3>3
  <2>4. CASE m.method = "interrupt"
    <3>1. r \in {[native |-> rests, out |-> Append(ends, control("success"))],
                 [native |-> rests, out |-> <<control("success")>> \o ends]}
      BY <2>1, <2>4 DEF Claude!Takes, Claude!Only
    <3> HIDE DEF rests, ends, control
    <3> QED  BY <3>1
  <2>5. CASE m.method \notin {"prompt", "compact", "bootstrap", "interrupt"}
    <3>1. r \in {[native |-> n, out |-> <<control("success")>>],
                 [native |-> n, out |-> <<control("error")>>]}
      BY <2>1, <2>5 DEF Claude!Takes, Claude!Only
    <3> HIDE DEF n, control
    <3>2. PICK s \in {"success", "error"} : r = [native |-> n, out |-> <<control(s)>>]
      BY <3>1
    <3>3. r.native = n /\ r.out = <<control(s)>> /\ s \in Names
      BY <1>0, <3>2
    <3> QED  BY <3>3
  <2> QED  BY <2>2, <2>3, <2>4, <2>5
<1>9. r.out \in Seq(Messages)
  <2> HIDE DEF control, life, result, ends
  <2>1. <<control("success")>> \in Seq(Messages) /\ control("success") \in Messages
    BY <1>0, <1>3, PairOK
  <2>2. Append(ends, control("success")) \in Seq(Messages)
        /\ <<control("success")>> \o ends \in Seq(Messages)
    BY <1>7, <2>1, AppendProperties, ConcatProperties
  <2>3. \A s \in Names : <<control(s)>> \in Seq(Messages) /\ <<life(s)>> \in Seq(Messages)
                         /\ <<result(s)>> \in Seq(Messages)
    BY <1>3, PairOK
  <2> QED  BY <1>8, <2>2, <2>3
<1>10. r.native \in ClaudeNatives
  <2> HIDE DEF n, rests, longer
  <2> QED  BY <1>4, <1>5, <1>8
<1> QED  BY <1>9, <1>10 DEF Says, NativeOK

(* Claude working,                                                           *)
LEMMA ClaudeWorksOK ==
  ASSUME kind = "claude", native \in ClaudeNatives, NEW r \in Works
  PROVE  Says(r)
<1> DEFINE n == native
<1>0. /\ {None, "started", "success", "error"} \subseteq Names
      /\ {"lifecycle", "result", "compact_boundary"} \subseteq Types \ {"response"}
      /\ None \in TurnRefs
  BY DEF Names, Types, TurnRefs, Refs, Absent
<1>1. n.queue \in Seq(Users) /\ n.turn \in Users \cup Absent
  BY DEF ClaudeNatives
<1>2. \A u \in Users, s \in Names, t \in Types \ {"response"} : Msg(t, u.id, None, s) \in Messages
  BY <1>0 DEF Msg, Messages, Lines, Users
<1>3. CASE n.turn = None
  <2> DEFINE next == [queue |-> Tail(n.queue), turn |-> Head(n.queue), packed |-> FALSE]
  <2>1. n.queue # <<>>
        /\ r = [native |-> next, out |-> <<Msg("lifecycle", Head(n.queue).id, None, "started")>>]
    BY <1>3, ClaudeWords DEF Works, Claude!Works, Claude!Only, Claude!Lifecycle
  <2>2. Head(n.queue) \in Users /\ Tail(n.queue) \in Seq(Users)
    BY <1>1, <2>1, HeadTailProperties
  <2>3. next \in ClaudeNatives
    BY <2>2 DEF ClaudeNatives
  <2>4. <<Msg("lifecycle", Head(n.queue).id, None, "started")>> \in Seq(Messages)
    BY <1>0, <1>2, <2>2, PairOK
  <2> HIDE DEF next
  <2> QED  BY <2>1, <2>3, <2>4 DEF Says, NativeOK
<1>4. CASE n.turn # None
  <2> DEFINE rests == [n EXCEPT !.turn = None]
             packs == [n EXCEPT !.packed = TRUE]
             result(x) == <<Msg("result", n.turn.id, None, x)>>
             packed == <<Msg("compact_boundary", None, None, None)>>
  <2>1. \/ \E x \in {"success", "error"} : r = [native |-> rests, out |-> result(x)]
        \/ r = [native |-> packs, out |-> packed]
    <3>1. r \in Claude!Works(n)
      BY DEF Works
    <3> HIDE DEF n
    <3>2. \/ \E x \in {"success", "error"} :
               r = Claude!Only(rests, <<Claude!Result(n.turn, x)>>)
          \/ r = Claude!Only(packs, <<Claude!Msg("compact_boundary", None, None, None)>>)
      BY <1>4, <3>1 DEF Claude!Works
    <3> QED  BY <3>2, ClaudeWords DEF Claude!Only, Claude!Result
  <2>2. n.turn \in Users
    BY <1>1, <1>4 DEF Absent
  <2>3. packed \in Seq(Messages)
    BY <1>0, NewsOK, PairOK
  <2>4. \A x \in {"success", "error"} : result(x) \in Seq(Messages)
    BY <1>0, <1>2, <2>2, PairOK
  <2>5. rests \in ClaudeNatives /\ packs \in ClaudeNatives
    BY DEF ClaudeNatives, Absent
  <2> HIDE DEF rests, packs, result, packed
  <2> QED  BY <2>1, <2>3, <2>4, <2>5 DEF Says, NativeOK
<1> QED  BY <1>3, <1>4

(* Cursor taking a frame,                                                    *)
LEMMA CursorTakesOK ==
  ASSUME kind = "cursor", native \in CursorNatives, NEW m \in Frames, NEW r \in Takes(m)
  PROVE  Says(r)
<1> DEFINE n == native
           begun == [n EXCEPT !.turn = m.id, !.ref = m.ref, !.cancelled = FALSE,
                              !.said = FALSE, !.tooled = FALSE]
<1>0. m.id \in Tags /\ m.ref \in Refs /\ {"ok", "error"} \subseteq Names /\ None \in TurnRefs
  BY DEF Frames, Names, TurnRefs, Refs, Absent
<1>1. \/ r.native = n /\ \E s \in {"ok", "error"} : r.out = <<Msg("response", m.id, None, s)>>
      \/ (\E y \in BOOLEAN : r.native = [n EXCEPT !.cancelled = y]) /\ r.out = <<>>
      \/ r.native = begun /\ r.out = <<>>
  <2>1. CASE m.method = "session/cancel"
    <3> DEFINE x == n.cancelled \/ n.turn # None
    <3>1. r.native = [n EXCEPT !.cancelled = x] /\ r.out = <<>>
      BY <2>1 DEF Takes, Cursor!Takes, Cursor!Only
    <3>2. x \in BOOLEAN
      OBVIOUS
    <3> HIDE DEF x
    <3>3. \E y \in BOOLEAN : r.native = [n EXCEPT !.cancelled = y]
      BY <3>1, <3>2
    <3> QED  BY <3>1, <3>3
  <2>2. CASE m.method = "session/prompt"
    BY <2>2, CursorWords DEF Takes, Cursor!Takes, Cursor!Only, Cursor!Answered
  <2>3. CASE m.method \notin {"session/cancel", "session/prompt"}
    BY <2>3, CursorWords DEF Takes, Cursor!Takes, Cursor!Only, Cursor!Answered
  <2> QED  BY <2>1, <2>2, <2>3
<1>2. begun \in CursorNatives /\ \A x \in BOOLEAN : [n EXCEPT !.cancelled = x] \in CursorNatives
  BY <1>0 DEF CursorNatives
<1>3. r.out \in Seq(Messages)
  <2> HIDE DEF begun
  <2>1. \A s \in {"ok", "error"} : Msg("response", m.id, None, s) \in Messages
    BY <1>0, AnswerOK
  <2>2. \A s \in {"ok", "error"} : <<Msg("response", m.id, None, s)>> \in Seq(Messages)
    BY <2>1, PairOK
  <2>3. <<>> \in Seq(Messages)
    OBVIOUS
  <2>4. (\E s \in {"ok", "error"} : r.out = <<Msg("response", m.id, None, s)>>) \/ r.out = <<>>
    <3> HIDE DEF n
    <3> QED  BY <1>1
  <2> QED  BY <2>2, <2>3, <2>4
<1> HIDE DEF begun
<1>4. r.native \in CursorNatives
  BY <1>1, <1>2
<1> QED  BY <1>3, <1>4 DEF Says, NativeOK

(* Cursor working,                                                           *)
LEMMA CursorWorksOK ==
  ASSUME kind = "cursor", native \in CursorNatives, NEW r \in Works
  PROVE  Says(r)
<1> DEFINE n == native
<1>0. /\ {"end_turn", "error", "cancelled", None} \subseteq Names /\ None \in TurnRefs
      /\ {"update", "tool"} \subseteq Types \ {"response"}
  BY DEF Names, Types, TurnRefs, Refs, Absent
<1>1. n.turn \in Tags \cup Absent /\ n.leaving \in Messages \cup Absent
  BY DEF CursorNatives
<1>2. \/ /\ n.turn # None /\ r.out = <<>>
         /\ \E s \in {"end_turn", "error", "cancelled"} :
              r.native = [n EXCEPT !.turn = None, !.ref = None, !.cancelled = FALSE,
                                   !.leaving = Msg("response", n.turn, None, s)]
      \/ r.native = [n EXCEPT !.said = TRUE] /\ r.out = <<Msg("update", None, None, None)>>
      \/ r.native = [n EXCEPT !.tooled = TRUE] /\ r.out = <<Msg("tool", None, None, None)>>
      \/ r.native = [n EXCEPT !.leaving = None] /\ r.out = <<n.leaving>> /\ n.leaving # None
  <2> DEFINE left(s) == [n EXCEPT !.turn = None, !.ref = None, !.cancelled = FALSE,
                                  !.leaving = Msg("response", n.turn, None, s)]
             said == [n EXCEPT !.said = TRUE]
             tooled == [n EXCEPT !.tooled = TRUE]
             gone == [n EXCEPT !.leaving = None]
  <2>1. \/ /\ n.turn # None
           /\ \E s \in {"end_turn", "error"} :
                r = [native |-> left(IF n.cancelled THEN "cancelled" ELSE s), out |-> <<>>]
        \/ r = [native |-> said, out |-> <<Msg("update", None, None, None)>>]
        \/ r = [native |-> tooled, out |-> <<Msg("tool", None, None, None)>>]
        \/ n.leaving # None /\ r = [native |-> gone, out |-> <<n.leaving>>]
    BY CursorWords DEF Works, Cursor!Works, Cursor!Only, Cursor!Leaves, Cursor!Answered
  <2>2. \A s \in {"end_turn", "error"} :
          (IF n.cancelled THEN "cancelled" ELSE s) \in {"end_turn", "error", "cancelled"}
    OBVIOUS
  <2> HIDE DEF left, said, tooled, gone
  <2>3. \/ n.turn # None /\ r.out = <<>> /\ \E s \in {"end_turn", "error", "cancelled"} : r.native = left(s)
        \/ r.native = said /\ r.out = <<Msg("update", None, None, None)>>
        \/ r.native = tooled /\ r.out = <<Msg("tool", None, None, None)>>
        \/ r.native = gone /\ r.out = <<n.leaving>> /\ n.leaving # None
    BY <2>1, <2>2
  <2> QED  BY <2>3 DEF left, said, tooled, gone
<1>3. r.out \in Seq(Messages)
  <2>1. <<>> \in Seq(Messages)
    OBVIOUS
  <2>2. /\ <<Msg("update", None, None, None)>> \in Seq(Messages)
        /\ <<Msg("tool", None, None, None)>> \in Seq(Messages)
    BY <1>0, NewsOK, PairOK
  <2>3. n.leaving # None => <<n.leaving>> \in Seq(Messages)
    BY <1>1, PairOK DEF Absent
  <2> QED  BY <1>2, <2>1, <2>2, <2>3
<1>4. r.native \in CursorNatives
  <2>1. \A s \in {"end_turn", "error", "cancelled"} :
          n.turn # None => Msg("response", n.turn, None, s) \in Messages
    BY <1>0, <1>1, AnswerOK DEF Absent
  <2> QED  BY <1>2, <2>1 DEF CursorNatives, Refs, Absent
<1> QED  BY <1>3, <1>4 DEF Says, NativeOK

(* Pi taking a frame,                                                        *)
LEMMA PiTakesOK ==
  ASSUME kind = "pi", native \in PiNatives, NEW m \in Frames, NEW r \in Takes(m)
  PROVE  Says(r)
<1> DEFINE n == native
           begun == [n EXCEPT !.run = "running", !.ref = m.ref, !.retried = FALSE]
           fuller == [n EXCEPT !.queued = TRUE]
           emptier == [n EXCEPT !.queued = FALSE]
           again == [n EXCEPT !.run = "running", !.queued = FALSE]
           rests == [n EXCEPT !.run = "idle", !.ref = None]
           packs == [n EXCEPT !.compact = m.id]
           said(t) == Msg(t, None, None, None)
           last == Msg("message_end", None, None, "interrupted")
           ok == Msg("response", m.id, None, "ok")
           error == Msg("response", m.id, None, "error")
           state(w) == Msg("response", m.id, w, "ok")
           natives == {n, begun, fuller, emptier, again, rests, packs}
           outs == {<<>>, <<ok>>, <<error>>, <<said("extension_error"), ok>>,
                    <<ok, said("agent_start")>>, <<said("agent_settled"), ok>>,
                    <<last, said("agent_settled"), ok>>, <<state("busy")>>, <<state("idle")>>}
<1>0. /\ m.id \in Tags /\ m.ref \in Refs /\ {None, "busy", "idle"} \subseteq TurnRefs
      /\ {None, "ok", "error", "interrupted"} \subseteq Names
      /\ {"message_end", "extension_error", "agent_start", "agent_settled"}
           \subseteq Types \ {"response"}
  BY DEF Frames, Names, Types, TurnRefs, Refs, Absent
<1>1. natives \subseteq PiNatives
  BY <1>0 DEF PiNatives, Refs, Absent
<1>2. /\ ok \in Messages /\ error \in Messages
      /\ state("busy") \in Messages /\ state("idle") \in Messages
  BY <1>0, AnswerOK
<1>3. /\ last \in Messages /\ said("extension_error") \in Messages
      /\ said("agent_start") \in Messages /\ said("agent_settled") \in Messages
  BY <1>0, NewsOK
<1>4. r.native \in natives /\ r.out \in outs
  <2>1. r \in Pi!Takes(n, m)
    BY DEF Takes
  <2>2. /\ Pi!Ok(m) = ok /\ Pi!Error(m) = error /\ \A t : Pi!Says(t) = said(t)
        /\ Pi!Said("interrupted") = last /\ Pi!Rest(n) = rests
        /\ Pi!Msg("response", m.id, "busy", "ok") = state("busy")
        /\ Pi!Msg("response", m.id, "idle", "ok") = state("idle")
    BY PiWords DEF Pi!Ok, Pi!Error, Pi!Says, Pi!Said, Pi!Rest
  <2> DEFINE only(k, out) == [native |-> k, out |-> out]
  <2>3. \A k, out : Pi!Only(k, out) = only(k, out)
    BY DEF Pi!Only
  <2> SUFFICES \E k \in natives, out \in outs : r = only(k, out)
    OBVIOUS
  <2>4. CASE m.method = "prompt"
    <3>1. r \in {only(n, <<error>>), only(n, <<ok>>), only(n, <<said("extension_error"), ok>>),
                 only(begun, <<ok, said("agent_start")>>)}
      BY <2>1, <2>2, <2>3, <2>4 DEF Pi!Takes, Pi!TakesPrompt
    <3> HIDE DEF n, begun, fuller, emptier, again, rests, packs, said, last, ok, error, state, only
    <3> QED  BY <3>1
  <2>5. CASE m.method \in {"steer", "clear_queue", "compact"}
    <3>1. r \in {only(n, <<error>>), only(fuller, <<ok>>), only(emptier, <<ok>>), only(packs, <<>>)}
      BY <2>1, <2>2, <2>3, <2>5 DEF Pi!Takes
    <3> HIDE DEF n, begun, fuller, emptier, again, rests, packs, said, last, ok, error, state, only
    <3> QED  BY <3>1
  <2>6. CASE m.method = "abort"
    <3>1. r \in {only(n, <<ok>>), only(again, <<ok>>), only(rests, <<said("agent_settled"), ok>>),
                 only(rests, <<last, said("agent_settled"), ok>>)}
      BY <2>1, <2>2, <2>3, <2>6 DEF Pi!Takes
    <3> HIDE DEF n, begun, fuller, emptier, again, rests, packs, said, last, ok, error, state, only
    <3> QED  BY <3>1
  <2>7. CASE m.method \notin {"prompt", "steer", "clear_queue", "compact", "abort"}
    <3>1. r \in {only(n, <<ok>>), only(n, <<state("busy")>>), only(n, <<state("idle")>>)}
      <4>1. CASE m.method = "get_state"
        BY <2>1, <2>2, <2>3, <4>1 DEF Pi!Takes
      <4>2. CASE m.method # "get_state"
        BY <2>1, <2>2, <2>3, <2>7, <4>2 DEF Pi!Takes
      <4> QED  BY <4>1, <4>2
    <3> HIDE DEF n, begun, fuller, emptier, again, rests, packs, said, last, ok, error, state, only
    <3> QED  BY <3>1
  <2> QED  BY <2>4, <2>5, <2>6, <2>7
<1>5. outs \subseteq Seq(Messages)
  <2> HIDE DEF said, last, ok, error, state
  <2> QED  BY <1>2, <1>3
<1> HIDE DEF natives, outs
<1> QED  BY <1>1, <1>4, <1>5 DEF Says, NativeOK

(* Pi working,                                                               *)
LEMMA PiWorksOK ==
  ASSUME kind = "pi", native \in PiNatives, NEW r \in Works
  PROVE  Says(r)
<1> DEFINE n == native
           emptier == [n EXCEPT !.queued = FALSE]
           rests == [n EXCEPT !.run = "idle", !.ref = None]
           packing == [n EXCEPT !.run = "compacting", !.retried = TRUE]
           again == [n EXCEPT !.run = "running"]
           packed == [n EXCEPT !.compact = None]
           said(t) == Msg(t, None, None, None)
           last(x) == Msg("message_end", None, None, x)
           answer(x) == Msg("response", n.compact, None, x)
           only(k, out) == [native |-> k, out |-> out]
<1>0. /\ {None, "ok", "error", "completed", "failed"} \subseteq Names /\ None \in TurnRefs
      /\ {"message_end", "agent_start", "agent_settled"} \subseteq Types \ {"response"}
  BY DEF Names, Types, TurnRefs, Refs, Absent
<1>1. {emptier, rests, packing, again, packed} \subseteq PiNatives
  BY DEF PiNatives, Refs, Absent
<1>2. n.compact # None => n.compact \in Tags
  BY DEF PiNatives, Absent
<1>3. /\ \A x \in {"completed", "failed"} : last(x) \in Messages
      /\ said("agent_settled") \in Messages /\ said("agent_start") \in Messages
  BY <1>0, NewsOK
<1>4. n.compact # None => \A x \in {"ok", "error"} : answer(x) \in Messages
  BY <1>0, <1>2, AnswerOK
<1>5. \/ r = only(emptier, <<>>)
      \/ \E x \in {"completed", "failed"} : r = only(rests, <<last(x), said("agent_settled")>>)
      \/ r = only(packing, <<said("agent_settled")>>)
      \/ r = only(again, <<said("agent_start")>>)
      \/ n.compact # None /\ \E x \in {"ok", "error"} : r = only(packed, <<answer(x)>>)
  <2>1. r \in Pi!Works(n)
    BY DEF Works
  <2>2. /\ Pi!Rest(n) = rests /\ \A t : Pi!Says(t) = said(t) /\ \A x : Pi!Said(x) = last(x)
        /\ \A x : Pi!Msg("response", n.compact, None, x) = answer(x)
    BY PiWords DEF Pi!Says, Pi!Said, Pi!Rest
  <2>3. \A k, out : Pi!Only(k, out) = only(k, out)
    BY DEF Pi!Only
  <2> HIDE DEF only, said, last, answer, rests
  <2>4. \/ r \in {only([n EXCEPT !.queued = FALSE], <<>>), only(packing, <<said("agent_settled")>>),
                  only(again, <<said("agent_start")>>)}
        \/ r \in {only(rests, <<last(x), said("agent_settled")>>) : x \in {"completed", "failed"}}
        \/ n.compact # None /\ r \in {only(packed, <<answer(x)>>) : x \in {"ok", "error"}}
    BY <2>1, <2>2, <2>3 DEF Pi!Works
  <2> QED  BY <2>4
<1>6. /\ \A x \in {"completed", "failed"} : <<last(x), said("agent_settled")>> \in Seq(Messages)
      /\ <<said("agent_settled")>> \in Seq(Messages) /\ <<said("agent_start")>> \in Seq(Messages)
      /\ n.compact # None => \A x \in {"ok", "error"} : <<answer(x)>> \in Seq(Messages)
      /\ <<>> \in Seq(Messages)
  <2> HIDE DEF said, last, answer
  <2> QED  BY <1>3, <1>4, PairOK
<1> HIDE DEF emptier, rests, packing, again, packed, said, last, answer
<1>7. r.native \in PiNatives /\ r.out \in Seq(Messages)
  <2>1. \A k \in PiNatives, o \in Seq(Messages) :
          r = only(k, o) => r.native \in PiNatives /\ r.out \in Seq(Messages)
    OBVIOUS
  <2>2. /\ emptier \in PiNatives /\ rests \in PiNatives /\ packing \in PiNatives
        /\ again \in PiNatives /\ packed \in PiNatives
    BY <1>1
  <2> HIDE DEF only, n
  <2>3. CASE r = only(emptier, <<>>)
    BY <1>6, <2>1, <2>2, <2>3
  <2>4. CASE r = only(packing, <<said("agent_settled")>>)
    BY <1>6, <2>1, <2>2, <2>4
  <2>5. CASE r = only(again, <<said("agent_start")>>)
    BY <1>6, <2>1, <2>2, <2>5
  <2>6. CASE \E x \in {"completed", "failed"} : r = only(rests, <<last(x), said("agent_settled")>>)
    BY <1>6, <2>1, <2>2, <2>6
  <2>7. CASE n.compact # None /\ \E x \in {"ok", "error"} : r = only(packed, <<answer(x)>>)
    BY <1>6, <2>1, <2>2, <2>7
  <2> QED  BY <1>5, <2>3, <2>4, <2>5, <2>6, <2>7
<1> QED  BY <1>7 DEF Says, NativeOK

(* so any program taking a frame                                             *)
LEMMA TakesOK ==
  ASSUME PlanOK, NativeOK(native), NEW m \in Frames, NEW r \in Takes(m)
  PROVE  Says(r)
BY KindKnown, CodexTakesOK, ClaudeTakesOK, PiTakesOK, CursorTakesOK DEF NativeOK

(* and any program working.                                                  *)
LEMMA WorksOK ==
  ASSUME PlanOK, NativeOK(native), NEW r \in Works
  PROVE  Says(r)
BY KindKnown, CodexWorksOK, ClaudeWorksOK, PiWorksOK, CursorWorksOK DEF NativeOK

-----------------------------------------------------------------------------
(* One operation at a time.                                                  *)
OpStep(op) ==
  /\ ops' \in [Ops -> Operation] /\ ops'[op].target = ops[op].target
  /\ \A x \in Ops : x # op => ops'[x] = ops[x]

(* An operation gets a new state and keeps its step.                         *)
LEMMA SetState ==
  ASSUME ops \in [Ops -> Operation], NEW op \in Ops, NEW s \in Calling,
         ops' = [ops EXCEPT ![op].state = s]
  PROVE  OpStep(op) /\ ops'[op].state = s /\ ops'[op].step = ops[op].step
<1>1. ops[op] \in Operation
  OBVIOUS
<1>2. [ops[op] EXCEPT !.state = s] \in Operation
  BY <1>1 DEF Operation
<1>3. ops'[op] = [ops[op] EXCEPT !.state = s]
  OBVIOUS
<1>4. ops' \in [Ops -> Operation]
  BY <1>2
<1> QED  BY <1>1, <1>3, <1>4 DEF OpStep, Operation

(* An operation gets a new state and a target.                               *)
LEMMA SetAt ==
  ASSUME ops \in [Ops -> Operation], NEW op \in Ops, NEW s \in Calling, NEW t \in Refs,
         At(op, s, t)
  PROVE  /\ ops' \in [Ops -> Operation] /\ ops'[op].target = t
         /\ \A x \in Ops : x # op => ops'[x] = ops[x]
         /\ ops'[op].state = s /\ ops'[op].step = ops[op].step
<1>1. ops[op] \in Operation
  OBVIOUS
<1>2. [ops[op] EXCEPT !.state = s, !.target = t] \in Operation
  BY <1>1 DEF Operation
<1>3. ops'[op] = [ops[op] EXCEPT !.state = s, !.target = t]
  BY DEF At
<1>4. ops' \in [Ops -> Operation]
  BY <1>2, <1>3 DEF At
<1>5. \A x \in Ops : x # op => ops'[x] = ops[x]
  BY DEF At
<1> QED  BY <1>1, <1>3, <1>4, <1>5 DEF Operation

(* An operation is done after its last step and ready for the next after any *)
(* other.                                                                    *)
LEMMA SetForward ==
  ASSUME ops \in [Ops -> Operation], NEW op \in Ops, ops' = Forward(ops, op)
  PROVE  /\ OpStep(op)
         /\ Last(op) => ops'[op].state = "ok" /\ ops'[op].step = ops[op].step
         /\ ~Last(op) => ops'[op].state = "ready" /\ ops'[op].step = ops[op].step + 1
<1>1. ops[op] \in Operation
  OBVIOUS
<1>2. CASE Last(op)
  <2>1. ops' = [ops EXCEPT ![op].state = "ok"]
    BY <1>2 DEF Forward, Done
  <2> QED  BY <1>2, <2>1, SetState DEF Calling
<1>3. CASE ~Last(op)
  <2>1. ops'[op] = [ops[op] EXCEPT !.state = "ready", !.step = ops[op].step + 1]
    BY <1>3 DEF Forward
  <2> DEFINE k == ops[op].step + 1
  <2>0. k \in Nat \ {0} /\ "ready" \in Calling
    BY <1>1 DEF Operation, Calling
  <2> HIDE DEF k
  <2>2. [ops[op] EXCEPT !.state = "ready", !.step = k] \in Operation
    BY <1>1, <2>0 DEF Operation
  <2>3. /\ ops' \in [Ops -> Operation]
        /\ \A x \in Ops : x # op => ops'[x] = ops[x]
    BY <1>3, <2>2 DEF Forward, k
  <2> QED  BY <1>1, <1>3, <2>1, <2>3 DEF OpStep, Operation
<1> QED  BY <1>2, <1>3

(* The scripts and the judgements about a state follow their variables.      *)
LEMMA SameScript ==
  ASSUME kind' = kind PROVE \A op : Script(op)' = Script(op)
BY DEF Script

(* A call is judged by its script alone.                                     *)
LEMMA SameCallOK ==
  ASSUME kind' = kind PROVE \A c : CallOK(c)' <=> CallOK(c)
BY SameScript DEF CallOK

(* The events on their way are those of the channel and of the outbox.       *)
LEMMA SameQueue ==
  ASSUME UNCHANGED <<events, outbox>> PROVE Queue' = Queue
BY DEF Queue

-----------------------------------------------------------------------------
(* Codex and Pi keep the call of the prompt; what they answer to it ends a   *)
(* rejected turn at once, and an answer that has events first is of another  *)
(* call.                                                                     *)
LEMMA CodexReceives ==
  ASSUME kind = "codex", adapter \in CodexAdapters, progress \in Turned, NEW m \in Messages
  PROVE  LET r == Receive(m)
         IN  /\ r.adapter.prompt = adapter.prompt
             /\ m.type = "response" => r.events = <<>>
             /\ m.type = "response" /\ m.id = adapter.prompt /\ m.status = "error"
                  => r.progress.finished
<1> DEFINE r == Receive(m)
<1>1. r = Codex!Receive(adapter, progress, m)
  BY DEF Receive
<1>2. r.adapter = Codex!AfterCompaction(adapter, m)
  BY <1>1 DEF Codex!Receive
<1>3. Codex!AfterCompaction(adapter, m).prompt = adapter.prompt
  BY DEF Codex!AfterCompaction, CodexAdapters
<1>4. CASE m.type = "response"
  <2>1. Codex!CompactionEvents(adapter, m) = <<>>
    BY <1>4 DEF Codex!CompactionEvents, Codex!CompactionEnds
  <2>2. r.events = <<>> \o <<>> /\ r.progress = Codex!Rejected(adapter, progress, m)
    BY <1>1, <1>4, <2>1 DEF Codex!Receive
  <2>3. m.id = adapter.prompt /\ m.status = "error" => Codex!Rejected(adapter, progress, m).finished
    BY <1>4 DEF Codex!Rejected, Turned
  <2>4. <<>> \o <<>> = <<>>
    OBVIOUS
  <2> QED  BY <1>2, <1>3, <2>2, <2>3, <2>4
<1> QED  BY <1>2, <1>3, <1>4

(* The same of Pi, whose compaction is a call of the operation of that name. *)
LEMMA PiReceives ==
  ASSUME kind = "pi", adapter \in PiAdapters, progress \in Turned, NEW m \in Messages,
         adapter.compaction # None => adapter.compaction[1] = "compact"
  PROVE  LET r == Receive(m)
         IN  /\ r.adapter.prompt = adapter.prompt
             /\ r.adapter.compaction \in {adapter.compaction, None}
             /\ m.type = "response" /\ r.events # <<>> => m.id[1] \notin Prompts
             /\ m.type = "response" /\ adapter.prompt # None /\ m.id = adapter.prompt
                  /\ m.status # "ok" => r.progress.finished
<1> DEFINE r == Receive(m)
           a == adapter
           c == IF Pi!Response(m, a.compaction)
                  THEN <<Event("compacted", None, IF m.status = "ok" THEN "completed" ELSE "failed")>>
                  ELSE <<>>
           f == IF Pi!IdleProbe(a, m) THEN FinishEvents(progress, Pi!Outcome(a, progress)) ELSE <<>>
           s == IF m.type = "agent_start" THEN StartEvents(progress) ELSE <<>>
           x == IF Pi!Response(m, a.compaction) THEN None ELSE a.compaction
           y == IF Pi!Response(m, a.prompt) THEN m.status = "ok" ELSE a.accepted
<1>1. /\ r.adapter = [a EXCEPT !.compaction = x, !.accepted = y]
      /\ r.progress = Pi!TurnAfter(a, progress, m)
      /\ r.events = c \o f \o s
  BY PiWords DEF Receive, Pi!Receive
<1>2. r.adapter.prompt = a.prompt /\ r.adapter.compaction \in {a.compaction, None}
  <2>1. r.adapter.prompt = a.prompt /\ r.adapter.compaction = x
    <3> HIDE DEF r, x, y
    <3> QED  BY <1>1 DEF PiAdapters
  <2> QED  BY <2>1
<1>3. m.type = "response" /\ r.events # <<>> => m.id[1] \notin Prompts
  <2> SUFFICES ASSUME m.type = "response", m.id[1] \in Prompts
               PROVE  r.events = <<>>
    OBVIOUS
  <2>1. ~Pi!Response(m, a.compaction)
    BY NamesAssumption DEF Pi!Response
  <2>2. ~Pi!IdleProbe(a, m)
    BY NamesAssumption DEF Pi!IdleProbe
  <2>3. c = <<>> /\ f = <<>> /\ s = <<>>
    BY <2>1, <2>2
  <2>4. <<>> \o <<>> \o <<>> = <<>>
    OBVIOUS
  <2> HIDE DEF c, f, s
  <2> QED  BY <1>1, <2>3, <2>4
<1>4. ASSUME m.type = "response", a.prompt # None, m.id = a.prompt, m.status # "ok"
      PROVE  r.progress.finished
  <2>1. a.prompt \in Callers /\ m.id # None
    BY <1>4 DEF PiAdapters, Absent
  <2>2. m.id[1] \in Ops
    BY <1>4, <2>1 DEF Callers
  <2>3. ~Pi!IdleProbe(a, m)
    BY <2>2, SpareNames DEF Pi!IdleProbe
  <2>4. Pi!Response(m, a.prompt)
    BY <1>4, <2>1 DEF Pi!Response
  <2>5. Pi!TurnAfter(a, progress, m) = [progress EXCEPT !.finished = TRUE]
    BY <1>4, <2>3, <2>4 DEF Pi!TurnAfter
  <2> QED  BY <1>1, <2>5 DEF Turned
<1> QED  BY <1>2, <1>3, <1>4

(* What the answers to a message may do: at most one call that was pending   *)
(* moves on, and a refusal of Codex and of Pi is the answer to that call.    *)
Refusal(m, op) ==
  m.type = "response" /\ m.id = <<op, ops[op].step>> /\ m.status # "ok"
Advances(op) == ops[op].state = "pending" /\ ops' = Forward(ops, op)
Rejects(op) ==
  ops[op].state = "pending" /\ ops' = [ops EXCEPT ![op].state = "refused"]
Hears(a, m) ==
  /\ AdapterOK(adapter') /\ SameTurn(a, adapter') /\ stdin' \in Seq(Frames)
  /\ closePending' \in BOOLEAN /\ open' \in BOOLEAN
  /\ (closePending => open) => (closePending' => open')
  /\ \/ ops' = ops
     \/ \E op \in Ops : Advances(op)
     \/ \E op \in Ops : Rejects(op) /\ (kind \in {"codex", "pi"} => Refusal(m, op))

(* Answering a message closes stdin at most once, writes only frames and     *)
(* moves at most one operation, which waited for that answer.                *)
LEMMA AnsweredHears ==
  ASSUME TypeInv, NEW a, AdapterOK(a), NEW m \in Messages, Answered(a, m)
  PROVE  Hears(a, m) /\ after' = None
<1> DEFINE reply == Reply(a, m)
           b == IF closePending THEN Closing(a, m) ELSE a
           shuts == closePending /\ Closed(b)
           heard == {op \in Ops : /\ reply # NoAnswer /\ ops[op].state = "pending"
                                  /\ reply[1].id = <<op, ops[op].step>>}
           op == CHOOSE o \in heard : TRUE
<1>0. PlanOK /\ closePending \in BOOLEAN /\ open \in BOOLEAN /\ stdin \in Seq(Frames)
  BY DEF TypeInv, DriverOK, PipesOK
<1>1. AdapterOK(b) /\ SameTurn(a, b)
  BY <1>0, ClosingOK DEF SameTurn
<1>2. adapter' = b /\ closePending' = (closePending /\ ~shuts) /\ open' = (open /\ ~shuts)
      /\ after' = None
  BY DEF Answered
<1>3. stdin' \in Seq(Frames)
  <2>1. Responds(a, m) \in Seq(Frames)
    BY <1>0, RespondsOK
  <2>2. stdin' = IF open THEN stdin \o Responds(a, m) ELSE stdin
    BY DEF Answered
  <2> QED  BY <1>0, <2>1, <2>2, ConcatProperties
<1>4. \/ ops' = ops
      \/ \E o \in Ops : Advances(o)
      \/ \E o \in Ops : Rejects(o) /\ (kind \in {"codex", "pi"} => Refusal(m, o))
  <2>1. CASE heard = {}
    BY <2>1 DEF Answered
  <2>2. CASE heard # {}
    <3>1. op \in heard
      BY <2>2
    <3>2. op \in Ops /\ reply # NoAnswer /\ ops[op].state = "pending"
          /\ reply[1].id = <<op, ops[op].step>>
      BY <3>1
    <3>3. ops' = IF reply[1].ok THEN Forward(ops, op) ELSE [ops EXCEPT ![op].state = "refused"]
      BY <2>2 DEF Answered
    <3>4. kind \in {"codex", "pi"} /\ ~reply[1].ok => Refusal(m, op)
      <4>1. ASSUME kind \in {"codex", "pi"}, ~reply[1].ok PROVE Refusal(m, op)
        <5>1. m.type = "response" /\ reply = <<[id |-> m.id, ok |-> m.status = "ok"]>>
          <6>1. CASE kind = "codex"
            BY <3>2, <6>1, CodexWords DEF Reply, Codex!Reply, Answer, NoAnswer
          <6>2. CASE kind = "pi"
            BY <3>2, <6>2, PiWords DEF Reply, Pi!Reply, Answer, NoAnswer
          <6> QED  BY <4>1, <6>1, <6>2
        <5>2. reply[1].id = m.id /\ (reply[1].ok <=> m.status = "ok")
          <6> DEFINE v == m.status = "ok"
                     e == [id |-> m.id, ok |-> v]
          <6>1. reply = <<e>>
            BY <5>1
          <6>2. reply[1] = e
            <7> HIDE DEF e, reply
            <7> QED  BY <6>1
          <6>3. e.id = m.id /\ e.ok = v
            <7> HIDE DEF v
            <7> QED  OBVIOUS
          <6> HIDE DEF e, reply, v
          <6>4. reply[1].id = m.id /\ reply[1].ok = v
            BY <6>2, <6>3
          <6> QED  BY <6>4 DEF v
        <5> QED  BY <3>2, <4>1, <5>1, <5>2 DEF Refusal
      <4> QED  BY <4>1
    <3> HIDE DEF heard, op, reply
    <3>5. CASE reply[1].ok
      BY <3>2, <3>3, <3>5 DEF Advances
    <3>6. CASE ~reply[1].ok
      BY <3>2, <3>3, <3>4, <3>6 DEF Rejects
    <3> QED  BY <3>5, <3>6
  <2> QED  BY <2>1, <2>2
<1> HIDE DEF b, shuts, heard, op, reply
<1>5. closePending' \in BOOLEAN /\ open' \in BOOLEAN
  BY <1>0, <1>2
<1>6. (closePending => open) => (closePending' => open')
  BY <1>2
<1> QED  BY <1>1, <1>2, <1>3, <1>4, <1>5, <1>6 DEF Hears

-----------------------------------------------------------------------------
(* A step of a caller or of the session leaves the driver as it is.          *)
Still == UNCHANGED <<kind, uses, driverVars, events, pipeVars, nativeVars>>

(* What a step of the session or of the Handle leaves alone.                 *)
LEMMA DriverStill ==
  ASSUME IInv, Still
  PROVE  /\ PlanOK' /\ PipesOK' /\ EventsOK' /\ DriverOK' /\ AdapterOK(adapter') /\ NativeOK(native')
         /\ AdapterOK(adapter)' /\ NativeOK(native)'
         /\ Queue' = Queue /\ (Unfinished(progress)' <=> Unfinished(progress))
         /\ \A p \in Prompts : Untouched(p) => Untouched(p)'
<1>1. /\ kind' = kind /\ uses' = uses /\ adapter' = adapter /\ progress' = progress
      /\ outbox' = outbox /\ after' = after /\ phase' = phase /\ closePending' = closePending
      /\ open' = open /\ events' = events /\ stdin' = stdin /\ stdout' = stdout
      /\ native' = native
  BY DEF Still, driverVars, pipeVars, nativeVars
<1>2. PlanOK' /\ PipesOK' /\ EventsOK' /\ DriverOK'
  BY <1>1 DEF IInv, TypeInv, PlanOK, PipesOK, EventsOK, DriverOK
<1>3. AdapterOK(adapter') /\ NativeOK(native')
  BY <1>1 DEF IInv, TypeInv
<1>4. AdapterOK(adapter)' /\ NativeOK(native)'
  BY <1>1, <1>3 DEF AdapterOK, NativeOK
<1>5. Queue' = Queue
  BY <1>1, SameQueue
<1>6. Unfinished(progress)' <=> Unfinished(progress)
  BY <1>1 DEF Unfinished
<1>7. \A p \in Prompts : Untouched(p) => Untouched(p)'
  BY <1>1, <1>5 DEF Untouched, Tells
<1> QED  BY <1>2, <1>3, <1>4, <1>5, <1>6, <1>7

(* Such a step keeps the turn in hand when it keeps its prompt's state,      *)
LEMMA BusyStill ==
  ASSUME IInv, Still,
         kind # "claude" /\ Unfinished(progress) =>
           /\ turn'[progress.request] \in {"sent", "started", "lost"}
           /\ ops'[progress.request].state # "refused",
         kind = "cursor" /\ progress.request # None =>
           ops'[progress.request].state \in {"ok", "failed"}
  PROVE  BusyInv'
<1>1. /\ kind' = kind /\ adapter' = adapter /\ progress' = progress /\ after' = after
      /\ stdout' = stdout
  BY DEF Still, driverVars, pipeVars, nativeVars
<1>2. Queue' = Queue /\ (Unfinished(progress)' <=> Unfinished(progress))
  BY DriverStill
<1>3. kind # "claude" /\ Unfinished(progress) => NotOver(progress.request)'
  BY <1>1, <1>2 DEF IInv, BusyInv, NotOver
<1>4. \A p : PromptCall(p)' = PromptCall(p)
  BY <1>1, SameScript DEF PromptCall
<1> QED  BY <1>1, <1>2, <1>3, <1>4 DEF IInv, BusyInv, NotOver

(* the copies when it keeps what the session knows of them,                  *)
LEMMA CopyStill ==
  ASSUME IInv, Still, UNCHANGED <<turn, copied>> PROVE CopyInv'
<1>1. kind' = kind /\ adapter' = adapter
  BY DEF Still, driverVars
<1> QED  BY <1>1, DriverStill DEF IInv, CopyInv

(* and the exit.                                                             *)
LEMMA ExitStill ==
  ASSUME IInv, Still, UNCHANGED exited,
         \A p \in Prompts : turn'[p] = "lost" => turn[p] = "lost"
  PROVE  ExitInv'
<1>1. phase' = phase
  BY DEF Still, driverVars
<1> QED  BY <1>1, DriverStill DEF IInv, ExitInv, Gone

(* While the session learns nothing, a prompt that is coming stays the same. *)
LEMMA TurnsStill ==
  ASSUME IInv, UNCHANGED <<kind, turn>>,
         \A p \in Prompts : Coming(p)' => Coming(p),
         Open("interrupt")' => Open("interrupt"),
         Aims' => progress'.request = ops'["interrupt"].target
  PROVE  /\ SentOnce' /\ InterruptInv'
         /\ (Unfinished(progress)' => Unfinished(progress)) => FreeInv'
         /\ (\A p \in Prompts : Coming(p)' /\ Untouched(p) => Untouched(p)') => ComingInv'
<1>1. SentOnce'
  BY DEF IInv, SentOnce
<1>2. InterruptInv'
  BY DEF IInv, InterruptInv
<1>3. (Unfinished(progress)' => Unfinished(progress)) => FreeInv'
  BY DEF IInv, FreeInv
<1>4. (\A p \in Prompts : Coming(p)' /\ Untouched(p) => Untouched(p)') => ComingInv'
  BY DEF IInv, ComingInv
<1> QED  BY <1>1, <1>2, <1>3, <1>4

(* Calls that are still there were there before.                             *)
Dropped ==
  /\ calls' \in Seq(Handed)
  /\ \E k \in 0..1 : \A i \in DOMAIN calls' : i + k \in DOMAIN calls /\ calls'[i] = calls[i + k]

(* No call is taken,                                                         *)
LEMMA NoneDropped ==
  ASSUME CallsOK, UNCHANGED calls PROVE Dropped
<1>1. \A i \in DOMAIN calls' : i + 0 \in DOMAIN calls /\ calls'[i] = calls[i + 0]
  BY LenProperties DEF CallsOK
<1> QED  BY <1>1 DEF Dropped, CallsOK

(* or the first one is:                                                      *)
LEMMA HeadDropped ==
  ASSUME CallsOK, calls # <<>>, calls' = Tail(calls)
  PROVE  /\ Dropped /\ 1 \in DOMAIN calls /\ Head(calls) = calls[1]
         /\ \A i \in DOMAIN calls' : i + 1 \in DOMAIN calls /\ i + 1 # 1 /\ calls'[i] = calls[i + 1]
<1>1. /\ calls \in Seq(Handed) /\ DOMAIN calls = 1..Len(calls) /\ Len(calls) \in Nat
      /\ Len(calls) # 0
  BY LenProperties, EmptySeq DEF CallsOK
<1>2. /\ calls' \in Seq(Handed) /\ Len(calls') = Len(calls) - 1
      /\ \A i \in 1..(Len(calls) - 1) : calls'[i] = calls[i + 1]
  BY <1>1, HeadTailProperties
<1>3. DOMAIN calls' = 1..(Len(calls) - 1)
  BY <1>2, LenProperties
<1>4. \A i \in DOMAIN calls' : i + 1 \in DOMAIN calls /\ i + 1 # 1 /\ calls'[i] = calls[i + 1]
  BY <1>1, <1>2, <1>3
<1>5. Head(calls) = calls[1] /\ 1 \in DOMAIN calls
  BY <1>1
<1> QED  BY <1>2, <1>4, <1>5 DEF Dropped

(* the calls that are left are calls still.                                  *)
LEMMA DroppedOK ==
  ASSUME CallsOK, Dropped, kind' = kind PROVE CallsOK'
<1>1. \A i \in DOMAIN calls' : CallOK(calls'[i])
  BY DEF CallsOK, Dropped
<1>2. \A c : CallOK(c)' <=> CallOK(c)
  BY SameCallOK
<1> QED  BY <1>1, <1>2 DEF CallsOK, Dropped

(* One operation moves, maybe because its call was taken.                    *)
LEMMA OpComing ==
  ASSUME IInv, UNCHANGED <<kind, turn>>, NEW op \in Ops, OpStep(op), Dropped,
         op \in Prompts =>
           \/ ops'[op].state \in {"ok", "refused", "failed"}
           \/ /\ ops[op].state \in {"queued", "pending"} /\ ops'[op].state \in {"queued", "pending"}
              /\ ops'[op].step = ops[op].step
           \/ ops[op].state \in {"queued", "pending"} /\ ops'[op].state = "ready" /\ ~Last(op)
  PROVE  \A p \in Prompts : Coming(p)' => Coming(p)
<1> SUFFICES ASSUME NEW p \in Prompts, Coming(p)' PROVE Coming(p)
  OBVIOUS
<1>1. Script(p)' = Script(p)
  BY SameScript
<1>2. CASE \E i \in DOMAIN calls' : calls'[i].op = p /\ calls'[i].step = Len(Script(p))
  BY <1>2 DEF Dropped, Coming
<1>3. CASE turn'[p] = "none"
  BY <1>3 DEF Coming
<1>4. CASE \/ ops'[p].state = "ready"
           \/ ops'[p].state \in {"queued", "pending"} /\ ops'[p].step < Len(Script(p))
  <2>1. CASE p # op
    <3>1. p \in Ops
      BY OpsKnown
    <3>2. ops'[p] = ops[p]
      BY <2>1, <3>1 DEF OpStep
    <3> QED  BY <1>4, <3>2 DEF Coming
  <2>2. CASE p = op
    <3>1. ASSUME ops[op].state \in {"queued", "pending"} PROVE ops[p].step \in 1..Len(Script(p))
      <4>1. PlanOK /\ OpsOK
        BY DEF IInv, TypeInv
      <4>2. Open(op)
        BY <3>1 DEF Open
      <4> QED  BY <2>2, <4>1, <4>2, PromptScript DEF OpsOK
    <3>2. CASE ops[op].state \in {"queued", "pending"} /\ ops'[op].state = "ready" /\ ~Last(op)
      <4>1. ops[p].step < Len(Script(p))
        <5>1. PlanOK
          BY DEF IInv, TypeInv
        <5>2. Len(Script(p)) \in Nat
          BY <5>1, PromptScript
        <5> QED  BY <2>2, <3>1, <3>2, <5>2 DEF Last
      <4> QED  BY <2>2, <3>2, <4>1 DEF Coming
    <3> QED  BY <1>4, <2>2, <3>2 DEF Coming
  <2> QED  BY <2>1, <2>2
<1> QED  BY <1>1, <1>2, <1>3, <1>4 DEF Coming

(* Such a move leaves a prompt one call at most.                             *)
LEMMA OpCallsOnce ==
  ASSUME IInv, UNCHANGED turn, NEW op \in Ops, OpStep(op), Dropped,
         op \in Prompts =>
           /\ ops[op].state # "idle" /\ ops'[op].state # "idle"
           /\ \/ ops'[op].state \in {"queued", "failed"} /\ ops'[op].step = ops[op].step
              \/ \A i \in DOMAIN calls' : calls'[i].op # op
  PROVE  CallsOnce'
<1>1. PICK k \in 0..1 : \A i \in DOMAIN calls' : i + k \in DOMAIN calls /\ calls'[i] = calls[i + k]
  BY DEF Dropped
<1>2. DOMAIN calls' \subseteq Nat
  BY LenProperties DEF Dropped
<1>3. \A i, j \in DOMAIN calls' :
        calls'[i].op \in Prompts /\ calls'[j].op = calls'[i].op => i = j
  BY <1>1, <1>2 DEF IInv, CallsOnce
<1>4. \A i \in DOMAIN calls' : calls'[i].op \in Prompts =>
        /\ ops'[calls'[i].op].state \in {"queued", "failed"}
        /\ ops'[calls'[i].op].step = calls'[i].step
  <2> SUFFICES ASSUME NEW i \in DOMAIN calls', calls'[i].op \in Prompts
               PROVE  /\ ops'[calls'[i].op].state \in {"queued", "failed"}
                      /\ ops'[calls'[i].op].step = calls'[i].step
    OBVIOUS
  <2>1. /\ ops[calls'[i].op].state \in {"queued", "failed"}
        /\ ops[calls'[i].op].step = calls'[i].step
    BY <1>1 DEF IInv, CallsOnce
  <2>2. calls'[i].op \in Ops
    BY OpsKnown
  <2> QED  BY <2>1, <2>2 DEF OpStep
<1>5. \A p \in Prompts : turn'[p] = "none" <=> ops'[p].state = "idle"
  BY OpsKnown DEF IInv, CallsOnce, OpStep
<1> QED  BY <1>3, <1>4, <1>5 DEF CallsOnce

(* Such a move keeps the operations in their places.                         *)
LEMMA OpOK ==
  ASSUME IInv, kind' = kind, NEW op \in Ops, OpStep(op),
         ops'[op].state \notin {"idle", "settling"},
         Open(op)' => ops'[op].step \in DOMAIN Script(op)
  PROVE  OpsOK'
<1>1. OpsOK
  BY DEF IInv, TypeInv
<1>2. \A x \in Ops : /\ Open(x)' => ops'[x].step \in DOMAIN Script(x)
                     /\ ops'[x].state = "idle" => ops'[x].step = 1
                     /\ ops'[x].state = "settling" => kind = "codex" /\ x = "interrupt"
  BY <1>1 DEF OpsOK, OpStep, Open
<1> QED  BY <1>2, SameScript DEF OpsOK, OpStep

(* The session knows of its turns what it knew.                              *)
LEMMA SameSession ==
  ASSUME IInv, UNCHANGED <<turn, compaction, exited>>, quit' \in BOOLEAN PROVE SessionOK'
BY DEF IInv, TypeInv, SessionOK

(* A step of one operation in which nothing else but the calls changes.      *)
LEMMA KeepsAll ==
  ASSUME IInv, Still, UNCHANGED <<sessionVars, quit>>, NEW op \in Ops, OpStep(op),
         OpsOK', CallsOK', CallsOnce', \A p \in Prompts : Coming(p)' => Coming(p),
         Open("interrupt")' => Open("interrupt"),
         Aims' => progress.request = ops'["interrupt"].target,
         kind = "cursor" /\ ops'[op] # ops[op] => ops[op].state \notin {"ok", "failed"},
         kind # "claude" /\ ops'[op] # ops[op] /\ ops'[op].state = "refused" =>
           op # progress.request \/ ~Unfinished(progress)
  PROVE  IInv' /\ Steady
<1>1. /\ kind' = kind /\ progress' = progress /\ UNCHANGED <<turn, compaction, copied, exited>>
  BY DEF Still, driverVars, sessionVars
<1>2. SessionOK'
  BY <1>1, SameSession DEF IInv, TypeInv, SessionOK
<1>3. TypeInv'
  BY <1>2, DriverStill DEF TypeInv
<1>4. SentOnce' /\ InterruptInv' /\ FreeInv' /\ ComingInv'
  BY <1>1, TurnsStill, DriverStill
<1>5. ExitInv' /\ CopyInv'
  BY <1>1, ExitStill, CopyStill
<1>6. BusyInv'
  <2>1. progress.request # None => progress.request \in Prompts /\ progress.request \in Ops
    BY OpsKnown DEF IInv, TypeInv, DriverOK, Turned, Refs, Absent
  <2>2. ASSUME kind # "claude", Unfinished(progress)
        PROVE  /\ turn'[progress.request] \in {"sent", "started", "lost"}
               /\ ops'[progress.request].state # "refused"
    <3>1. NotOver(progress.request) /\ progress.request # None
      BY <2>2 DEF IInv, BusyInv, Unfinished
    <3> QED  BY <1>1, <2>1, <2>2, <3>1 DEF NotOver, OpStep
  <2>3. ASSUME kind = "cursor", progress.request # None
        PROVE  ops'[progress.request].state \in {"ok", "failed"}
    <3>1. ops[progress.request].state \in {"ok", "failed"}
      BY <2>3 DEF IInv, BusyInv
    <3> QED  BY <2>1, <2>3, <3>1 DEF OpStep
  <2> QED  BY <2>2, <2>3, BusyStill
<1> QED  BY <1>3, <1>4, <1>5, <1>6 DEF IInv, Steady

(* The same when the operation moved as its call was taken, timed out or     *)
(* settled.                                                                  *)
LEMMA MoveKeeps ==
  ASSUME IInv, Still, UNCHANGED <<sessionVars, quit>>, NEW op \in Ops, OpStep(op), Dropped,
         ops'[op].state \notin {"idle", "settling"}, ops[op].state \notin {"idle", "ok"},
         kind = "cursor" => ops[op].state # "failed",
         Open(op)' => ops'[op].step \in DOMAIN Script(op),
         op \in Prompts =>
           \/ ops'[op].state \in {"ok", "refused", "failed"}
           \/ /\ ops[op].state \in {"queued", "pending"} /\ ops'[op].state \in {"queued", "pending"}
              /\ ops'[op].step = ops[op].step
           \/ ops[op].state \in {"queued", "pending"} /\ ops'[op].state = "ready" /\ ~Last(op),
         op \in Prompts =>
           \/ ops'[op].state \in {"queued", "failed"} /\ ops'[op].step = ops[op].step
           \/ \A i \in DOMAIN calls' : calls'[i].op # op,
         Open("interrupt")' => Open("interrupt"),
         Aims' => progress.request = ops'["interrupt"].target,
         kind # "claude" /\ Unfinished(progress) /\ op = progress.request =>
           ops'[op].state # "refused"
  PROVE  IInv' /\ Steady
<1>1. kind' = kind /\ turn' = turn
  BY DEF Still, sessionVars
<1>2. OpsOK' /\ CallsOK' /\ CallsOnce'
  BY <1>1, OpOK, DroppedOK, OpCallsOnce DEF IInv, TypeInv
<1>3. \A p \in Prompts : Coming(p)' => Coming(p)
  BY <1>1, OpComing
<1> QED  BY <1>2, <1>3, KeepsAll

(* A call times out.                                                         *)
LEMMA TimeOutStep ==
  ASSUME IInv, NEW op \in Ops, TimeOut(op) PROVE IInv' /\ Steady
<1>1. /\ Still /\ UNCHANGED <<sessionVars, quit, calls>>
      /\ ops[op].state \in {"queued", "pending", "settling"}
      /\ ops' = [ops EXCEPT ![op].state = "failed"]
  BY DEF TimeOut, Still, boundVars
<1>2. ops \in [Ops -> Operation] /\ CallsOK
  BY DEF IInv, TypeInv, OpsOK
<1>3. OpStep(op) /\ ops'[op].state = "failed" /\ ops'[op].step = ops[op].step
  BY <1>1, <1>2, SetState DEF Calling
<1>4. Dropped
  BY <1>1, <1>2, NoneDropped
<1>5. Open("interrupt")' => Open("interrupt")
  BY <1>3, OpsKnown DEF OpStep, Open
<1>6. Aims' => Aims /\ ops'["interrupt"].target = ops["interrupt"].target
  BY <1>1, <1>3, OpsKnown DEF OpStep, Aims, Still
<1>7. Aims' => progress.request = ops'["interrupt"].target
  BY <1>6 DEF IInv, InterruptInv
<1> QED  BY <1>1, <1>3, <1>4, <1>5, <1>7, MoveKeeps DEF Open

(* Only an interrupt of Codex settles: its script is that of one.            *)
LEMMA SettleStep ==
  ASSUME IInv, NEW op \in Ops, Settle(op) PROVE IInv' /\ Steady
<1>1. /\ Still /\ UNCHANGED <<sessionVars, quit, calls>> /\ ops[op].state = "settling"
      /\ \/ ops' = Forward(ops, op) \/ ops' = Done(ops, op)
         \/ ops' = [ops EXCEPT ![op].state = "failed"]
  BY DEF Settle, Still, boundVars
<1>2. ops \in [Ops -> Operation] /\ CallsOK /\ PlanOK /\ OpsOK
  BY DEF IInv, TypeInv, OpsOK
<1>3. kind = "codex" /\ op = "interrupt" /\ op \notin Prompts /\ kind' = kind
  BY <1>1, <1>2, OpsKnown DEF OpsOK, Still
<1>4. Dropped
  BY <1>1, <1>2, NoneDropped
<1>5. ops[op].step \in DOMAIN Script(op)
  BY <1>1, <1>2 DEF OpsOK, Open
<1>6. progress.request = ops[op].target
  BY <1>1, <1>3 DEF IInv, InterruptInv, Aims
<1>7. /\ OpStep(op) /\ ops'[op].state \in {"ok", "ready", "failed"}
      /\ Open(op)' => ops'[op].step \in DOMAIN Script(op)
  <2>1. CASE ops' = Forward(ops, op) /\ ~Last(op)
    <3>1. OpStep(op) /\ ops'[op].state = "ready" /\ ops'[op].step = ops[op].step + 1
      BY <1>2, <2>1, SetForward
    <3>2. Len(Script(op)) \in Nat /\ DOMAIN Script(op) = 1..Len(Script(op))
      BY <1>2, <1>3, ControlScript
    <3>3. ops[op].step + 1 \in DOMAIN Script(op)
      BY <1>5, <2>1, <3>2 DEF Last
    <3> QED  BY <3>1, <3>3
  <2>2. CASE ops' = Forward(ops, op) /\ Last(op)
    BY <1>2, <2>2, SetForward DEF Open
  <2>3. CASE ops' = Done(ops, op)
    BY <1>2, <2>3, SetState DEF Open, Done, Calling
  <2>4. CASE ops' = [ops EXCEPT ![op].state = "failed"]
    BY <1>2, <2>4, SetState DEF Open, Calling
  <2> QED  BY <1>1, <2>1, <2>2, <2>3, <2>4
<1>8. Aims' => progress.request = ops'["interrupt"].target
  BY <1>3, <1>6, <1>7 DEF OpStep
<1>9. Open("interrupt")' => Open("interrupt")
  BY <1>1, <1>3 DEF Open
<1> QED  BY <1>1, <1>3, <1>4, <1>7, <1>8, <1>9, MoveKeeps

(* A turn the driver has not ended was lost with the harness, or it is       *)
(* current: between turns there is neither.                                  *)
LEMMA Free == IInv => FreeBetweenTurns
<1> SUFFICES ASSUME IInv, kind # "claude", Idle, Unfinished(progress) PROVE FALSE
  BY DEF FreeBetweenTurns
<1>1. NotOver(progress.request) /\ progress.request \in Prompts
  BY DEF IInv, BusyInv, Unfinished, TypeInv, DriverOK, Turned, Refs, Absent
<1>2. turn[progress.request] = "lost"
  BY <1>1 DEF NotOver, Idle, Current
<1>3. exited
  BY <1>1, <1>2 DEF IInv, ExitInv
<1> QED  BY <1>3 DEF Idle

(* The session sends the next prompt: the driver is free, and no interrupt   *)
(* is open.                                                                  *)
LEMMA SendPromptStep ==
  ASSUME IInv, NEW p \in Prompts, SendPrompt(p) PROVE IInv' /\ Steady
<1>1. /\ Still /\ UNCHANGED <<quit, calls, compaction, copied, exited>>
      /\ Idle /\ turn[p] = "none" /\ turn' = [turn EXCEPT ![p] = "sent"] /\ At(p, "ready", p)
  BY DEF SendPrompt, Still, boundVars, Unsent
<1>2. /\ ops \in [Ops -> Operation] /\ PlanOK /\ OpsOK /\ CallsOK /\ p \in Ops
      /\ turn \in [Prompts -> {"none", "sent", "started", "finished", "refused", "lost"}]
  BY OpsKnown DEF IInv, TypeInv, OpsOK, SessionOK
<1>3. /\ ops' \in [Ops -> Operation] /\ ops'[p].state = "ready" /\ ops'[p].step = ops[p].step
      /\ ops'[p].target = p /\ \A x \in Ops : x # p => ops'[x] = ops[x]
  BY <1>1, <1>2, SetAt DEF Calling, Refs
<1>4. ops[p].state = "idle" /\ ops[p].step = 1 /\ 1 \in DOMAIN Script(p)
  BY <1>1, <1>2, PromptScript DEF IInv, CallsOnce, OpsOK
<1>5. kind' = kind /\ progress' = progress
  BY <1>1 DEF Still, driverVars
<1>6. /\ turn'[p] = "sent" /\ \A q \in Prompts : q # p => turn'[q] = turn[q]
      /\ turn' \in [Prompts -> {"none", "sent", "started", "finished", "refused", "lost"}]
  BY <1>1, <1>2
<1>7. \A q \in Prompts : turn[q] \notin {"sent", "started"}
  BY <1>1 DEF Idle, Current
<1>8. "interrupt" \in Ops /\ "interrupt" # p
  BY OpsKnown
<1>9. TypeInv'
  <2>1. OpsOK'
    BY <1>2, <1>3, <1>4, <1>5, SameScript DEF OpsOK, Open
  <2>2. SessionOK'
    BY <1>1, <1>6 DEF IInv, TypeInv, SessionOK
  <2>3. CallsOK'
    BY <1>1, <1>2, <1>5, NoneDropped, DroppedOK
  <2> QED  BY <1>1, <2>1, <2>2, <2>3, DriverStill DEF TypeInv
<1>10. CallsOnce'
  <2>1. \A i \in DOMAIN calls : calls[i].op # p
    BY <1>4 DEF IInv, CallsOnce
  <2>2. \A i \in DOMAIN calls : calls[i].op \in Prompts => ops'[calls[i].op] = ops[calls[i].op]
    BY <1>3, <2>1, OpsKnown
  <2>3. \A q \in Prompts : turn'[q] = "none" <=> ops'[q].state = "idle"
    BY <1>3, <1>6, OpsKnown DEF IInv, CallsOnce
  <2> QED  BY <1>1, <2>2, <2>3 DEF IInv, CallsOnce
<1>11. \A q \in Prompts : Coming(q)' => Coming(q)
  <2>1. \A q \in Prompts : q # p => (Coming(q)' <=> Coming(q))
    BY <1>1, <1>3, <1>5, <1>6, OpsKnown, SameScript DEF Coming
  <2>2. Coming(p)
    BY <1>1 DEF Coming
  <2> QED  BY <2>1, <2>2
<1>12. SentOnce'
  BY <1>6, <1>7 DEF SentOnce
<1>13. ComingInv'
  <2> SUFFICES ASSUME NEW q \in Prompts, Coming(q)'
               PROVE  turn'[q] \in {"none", "sent", "lost"} /\ Untouched(q)'
    BY DEF ComingInv
  <2>1. turn[q] \in {"none", "sent", "lost"} /\ Untouched(q)
    BY <1>11 DEF IInv, ComingInv
  <2> QED  BY <1>1, <1>6, <2>1, DriverStill
<1>14. kind # "claude" => ~Unfinished(progress)
  BY <1>1, Free DEF FreeBetweenTurns
<1>15. FreeInv'
  BY <1>1, <1>5, <1>14, DriverStill DEF FreeInv
<1>16. InterruptInv'
  <2>1. ops'["interrupt"] = ops["interrupt"]
    BY <1>3, <1>8
  <2>2. ~Open("interrupt")'
    BY <1>1, <2>1 DEF Idle, Open
  <2>3. Aims' => Aims
    BY <1>5, <2>1 DEF Aims
  <2> QED  BY <1>5, <2>1, <2>2, <2>3 DEF IInv, InterruptInv
<1>17. ExitInv' /\ CopyInv'
  <2>1. \A q \in Prompts : turn'[q] = "lost" => turn[q] = "lost"
    BY <1>6
  <2>2. CopyInv'
    <3>1. \A q \in Prompts : turn'[q] = "finished" => turn[q] = "finished"
      BY <1>6
    <3>2. adapter' = adapter
      BY <1>1 DEF Still, driverVars
    <3> QED  BY <1>1, <1>5, <3>1, <3>2, DriverStill DEF IInv, CopyInv
  <2> QED  BY <1>1, <2>1, <2>2, ExitStill
<1>18. BusyInv'
  <2>1. kind = "cursor" /\ progress.request # None =>
          ops'[progress.request].state \in {"ok", "failed"}
    <3>1. progress.request # None => progress.request \in Ops
      BY OpsKnown DEF IInv, TypeInv, DriverOK, Turned, Refs, Absent
    <3> QED  BY <1>3, <1>4, <3>1 DEF IInv, BusyInv
  <2> QED  BY <1>1, <1>14, <2>1, BusyStill
<1> QED  BY <1>11, <1>9, <1>10, <1>12, <1>13, <1>15, <1>16, <1>17, <1>18 DEF IInv, Steady

(* A step that moves no prompt's operation, no call and no turn.             *)
LEMMA PromptsStill ==
  ASSUME IInv, UNCHANGED <<kind, calls, turn>>, \A p \in Prompts : ops'[p] = ops[p]
  PROVE  CallsOnce' /\ \A p \in Prompts : Coming(p)' <=> Coming(p)
<1>1. CallsOnce'
  BY DEF IInv, CallsOnce
<1>2. \A p \in Prompts : Coming(p)' <=> Coming(p)
  BY SameScript DEF Coming
<1> QED  BY <1>1, <1>2

(* An interrupt or a steer aims at the turn in hand, or is refused.          *)
LEMMA ControlStep ==
  ASSUME IInv, NEW op \in Ops, Control(op) PROVE IInv' /\ Steady
<1>1. /\ Still /\ UNCHANGED <<sessionVars, quit, calls>> /\ IsControl(op)
      /\ ops[op].state = "idle"
  BY DEF Control, Still, boundVars
<1>2. PICK p \in Current :
        At(op, IF Targetable(p) /\ Script(op) # <<>> THEN "ready" ELSE "refused", p)
  BY DEF Control
<1> DEFINE s == IF Targetable(p) /\ Script(op) # <<>> THEN "ready" ELSE "refused"
<1>3. /\ ops \in [Ops -> Operation] /\ PlanOK /\ OpsOK /\ CallsOK /\ p \in Prompts
      /\ op \in {"interrupt", "steer"} /\ op \notin Prompts /\ p \in Refs /\ s \in Calling
  BY <1>1, OpsKnown DEF IInv, TypeInv, OpsOK, SessionOK, IsControl, Refs, Calling, Current
<1>4. /\ ops' \in [Ops -> Operation] /\ ops'[op].state = s /\ ops'[op].step = 1
      /\ ops'[op].target = p /\ \A x \in Ops : x # op => ops'[x] = ops[x]
  <2>1. At(op, s, p) /\ ops[op].step = 1
    BY <1>1, <1>2, <1>3 DEF OpsOK
  <2> HIDE DEF s
  <2> QED  BY <1>3, <2>1, SetAt
<1>5. s = "ready" => 1 \in DOMAIN Script(op)
  BY <1>3, ControlScript
<1>6. /\ kind' = kind /\ progress' = progress
      /\ UNCHANGED <<turn, compaction, copied, exited>>
  BY <1>1 DEF Still, driverVars, sessionVars
<1>7. s \in {"ready", "refused"}
  OBVIOUS
<1>8. kind # "claude" /\ s = "ready" => Unfinished(progress)
  BY <1>3, NamesAssumption DEF Targetable, Unfinished
<1> HIDE DEF s
<1>9. TypeInv'
  <2>1. OpsOK'
    BY <1>3, <1>4, <1>5, <1>6, <1>7, SameScript DEF OpsOK, Open
  <2>2. CallsOK'
    BY <1>1, <1>3, <1>6, NoneDropped, DroppedOK
  <2>3. SessionOK'
    BY <1>1, <1>6, SameSession DEF IInv, TypeInv, SessionOK
  <2> QED  BY <1>1, <2>1, <2>2, <2>3, DriverStill DEF TypeInv
<1>10. \A q \in Prompts : ops'[q] = ops[q]
  BY <1>3, <1>4, OpsKnown
<1>11. CallsOnce' /\ \A q \in Prompts : Coming(q)' <=> Coming(q)
  BY <1>1, <1>6, <1>10, PromptsStill
<1>12. SentOnce' /\ ComingInv' /\ FreeInv'
  <2>1. SentOnce'
    BY <1>6 DEF IInv, SentOnce
  <2>2. ComingInv'
    BY <1>1, <1>6, <1>11, DriverStill DEF IInv, ComingInv
  <2>3. FreeInv'
    BY <1>1, <1>6, <1>11, DriverStill DEF IInv, FreeInv
  <2> QED  BY <2>1, <2>2, <2>3
<1>13. InterruptInv'
  <2>1. CASE op # "interrupt"
    <3>1. ops'["interrupt"] = ops["interrupt"]
      BY <1>4, <2>1, OpsKnown
    <3>2. (Open("interrupt")' <=> Open("interrupt")) /\ (Aims' <=> Aims)
      BY <1>6, <3>1 DEF Open, Aims
    <3> QED  BY <1>6, <1>11, <3>1, <3>2 DEF IInv, InterruptInv
  <2>2. CASE op = "interrupt"
    <3>1. ~Aims'
      BY <1>4, <1>7, <2>2 DEF Aims
    <3>2. Open("interrupt")' => s = "ready"
      BY <1>4, <1>7, <2>2 DEF Open
    <3>3. kind # "claude" /\ s = "ready" => \A q \in Prompts : Coming(q) => turn[q] # "sent"
      BY <1>8 DEF IInv, FreeInv
    <3> QED  BY <1>6, <1>11, <3>1, <3>2, <3>3 DEF InterruptInv
  <2> QED  BY <2>1, <2>2
<1>14. ExitInv' /\ CopyInv'
  BY <1>1, <1>6, ExitStill, CopyStill
<1>15. BusyInv'
  <2>1. progress.request # None => progress.request \in Prompts
    BY DEF IInv, TypeInv, DriverOK, Turned, Refs, Absent
  <2> QED  BY <1>1, <1>6, <1>10, <2>1, BusyStill DEF IInv, BusyInv, NotOver, Unfinished
<1> QED  BY <1>9, <1>11, <1>12, <1>13, <1>14, <1>15 DEF IInv, Steady

(* The session asks for a compaction.                                        *)
LEMMA CompactStep ==
  ASSUME IInv, Compact PROVE IInv' /\ Steady
<1> DEFINE s == IF Script("compact") = <<>> THEN "refused" ELSE "ready"
<1>1. /\ Still /\ UNCHANGED <<quit, calls, turn, copied, exited>>
      /\ ops["compact"].state = "idle" /\ compaction' \in {compaction, "asked"}
      /\ At("compact", s, None)
  BY DEF Compact, Still, boundVars
<1>2. /\ ops \in [Ops -> Operation] /\ PlanOK /\ OpsOK /\ CallsOK
      /\ "compact" \in Ops /\ "compact" \notin Prompts /\ None \in Refs /\ s \in Calling
      /\ ops["compact"].step = 1
  BY <1>1, OpsKnown DEF IInv, TypeInv, OpsOK, Refs, Absent, Calling
<1>3. s = "ready" => 1 \in DOMAIN Script("compact")
  BY <1>2, ControlScript
<1>4. s \in {"ready", "refused"}
  OBVIOUS
<1> HIDE DEF s
<1>5. /\ ops' \in [Ops -> Operation] /\ ops'["compact"].state = s /\ ops'["compact"].step = 1
      /\ \A x \in Ops : x # "compact" => ops'[x] = ops[x]
  BY <1>1, <1>2, SetAt
<1>6. kind' = kind /\ progress' = progress
  BY <1>1 DEF Still, driverVars
<1>7. TypeInv'
  <2>1. OpsOK'
    BY <1>2, <1>3, <1>4, <1>5, <1>6, SameScript DEF OpsOK, Open
  <2>2. CallsOK'
    BY <1>1, <1>2, <1>6, NoneDropped, DroppedOK
  <2>3. SessionOK'
    BY <1>1 DEF IInv, TypeInv, SessionOK
  <2> QED  BY <1>1, <2>1, <2>2, <2>3, DriverStill DEF TypeInv
<1>8. \A q \in Prompts : ops'[q] = ops[q]
  BY <1>2, <1>5, OpsKnown
<1>9. CallsOnce' /\ \A q \in Prompts : Coming(q)' <=> Coming(q)
  BY <1>1, <1>6, <1>8, PromptsStill
<1>10. SentOnce' /\ ComingInv' /\ FreeInv'
  <2>1. SentOnce'
    BY <1>1 DEF IInv, SentOnce
  <2>2. ComingInv'
    BY <1>1, <1>9, DriverStill DEF IInv, ComingInv
  <2>3. FreeInv'
    BY <1>1, <1>6, <1>9, DriverStill DEF IInv, FreeInv
  <2> QED  BY <2>1, <2>2, <2>3
<1>11. InterruptInv'
  <2>1. ops'["interrupt"] = ops["interrupt"]
    BY <1>5, OpsKnown
  <2>2. (Open("interrupt")' <=> Open("interrupt")) /\ (Aims' <=> Aims)
    BY <1>6, <2>1 DEF Open, Aims
  <2> QED  BY <1>1, <1>6, <1>9, <2>1, <2>2 DEF IInv, InterruptInv
<1>12. ExitInv' /\ CopyInv'
  BY <1>1, ExitStill, CopyStill
<1>13. BusyInv'
  <2>1. progress.request # None => progress.request \in Prompts
    BY DEF IInv, TypeInv, DriverOK, Turned, Refs, Absent
  <2> QED  BY <1>1, <1>6, <1>8, <2>1, BusyStill DEF IInv, BusyInv, NotOver, Unfinished
<1> QED  BY <1>7, <1>9, <1>10, <1>11, <1>12, <1>13 DEF IInv, Steady

(* The session learns that a prompt or a compaction was refused.             *)
LEMMA LearnStep ==
  ASSUME IInv, SessionLearns PROVE IInv' /\ Steady
<1>1. Still /\ UNCHANGED <<quit, calls, ops, copied, exited>>
  BY DEF SessionLearns, Refused, Still, boundVars
<1>2. /\ kind' = kind /\ progress' = progress
      /\ turn \in [Prompts -> {"none", "sent", "started", "finished", "refused", "lost"}]
  BY <1>1 DEF Still, driverVars, IInv, TypeInv, SessionOK
<1>3. /\ turn' \in [Prompts -> {"none", "sent", "started", "finished", "refused", "lost"}]
      /\ compaction' \in {compaction, "ended"}
      /\ \A p \in Prompts :
           \/ turn'[p] = turn[p]
           \/ /\ ops[p].state = "refused" /\ turn[p] \in {"sent", "started"}
              /\ turn'[p] = "refused"
  <2>1. CASE \E p \in Prompts :
               /\ ops[p].state = "refused" /\ turn[p] \in {"sent", "started"}
               /\ turn' = [turn EXCEPT ![p] = "refused"]
               /\ UNCHANGED <<compaction, copied, exited>>
    BY <1>2, <2>1
  <2>2. CASE UNCHANGED turn /\ compaction' = "ended"
    BY <1>2, <2>2
  <2> QED  BY <2>1, <2>2 DEF SessionLearns, Refused
<1>4. TypeInv'
  <2>1. OpsOK'
    BY <1>1, <1>2, SameScript DEF IInv, TypeInv, OpsOK, Open
  <2>2. CallsOK'
    BY <1>1, <1>2, NoneDropped, DroppedOK DEF IInv, TypeInv
  <2>3. SessionOK'
    BY <1>1, <1>3 DEF IInv, TypeInv, SessionOK
  <2> QED  BY <1>1, <2>1, <2>2, <2>3, DriverStill DEF TypeInv
<1>5. CallsOnce'
  BY <1>1, <1>3 DEF IInv, CallsOnce
<1>6. \A p \in Prompts : Coming(p)' => Coming(p) /\ ops[p].state # "refused"
  <2> SUFFICES ASSUME NEW p \in Prompts, Coming(p)'
               PROVE  Coming(p) /\ ops[p].state # "refused"
    OBVIOUS
  <2>1. Coming(p)
    BY <1>1, <1>2, <1>3, SameScript DEF Coming
  <2>2. turn[p] = "none" => ops[p].state = "idle"
    BY DEF IInv, CallsOnce
  <2>3. \A i \in DOMAIN calls : calls[i].op = p => ops[p].state \in {"queued", "failed"}
    BY DEF IInv, CallsOnce
  <2> QED  BY <2>1, <2>2, <2>3 DEF Coming
<1>7. SentOnce' /\ FreeInv' /\ ComingInv'
  <2>1. SentOnce'
    BY <1>3 DEF IInv, SentOnce
  <2>2. FreeInv'
    BY <1>1, <1>2, <1>3, <1>6, DriverStill DEF IInv, FreeInv
  <2>3. ComingInv'
    BY <1>1, <1>3, <1>6, DriverStill DEF IInv, ComingInv
  <2> QED  BY <2>1, <2>2, <2>3
<1>8. InterruptInv'
  <2>1. (Open("interrupt")' <=> Open("interrupt")) /\ (Aims' <=> Aims)
    BY <1>1, <1>2 DEF Open, Aims
  <2> QED  BY <1>1, <1>2, <1>3, <1>6, <2>1 DEF IInv, InterruptInv
<1>9. ExitInv'
  BY <1>1, <1>3, ExitStill
<1>10. CopyInv'
  <2>1. kind' = kind /\ adapter' = adapter
    BY <1>1 DEF Still, driverVars
  <2> QED  BY <1>1, <1>3, <2>1, DriverStill DEF IInv, CopyInv
<1>11. BusyInv'
  <2>1. progress.request # None => progress.request \in Prompts
    BY DEF IInv, TypeInv, DriverOK, Turned, Refs, Absent
  <2> QED  BY <1>1, <1>3, <2>1, BusyStill DEF IInv, BusyInv, NotOver, Unfinished
<1> QED  BY <1>6, <1>4, <1>5, <1>7, <1>8, <1>9, <1>10, <1>11 DEF IInv, Steady

(* Nothing that IInv speaks of but the shutdown flag.                        *)
LEMMA RestStep ==
  ASSUME IInv, Shutdown \/ Freeze \/ Thaw \/ NativeExits \/ UNCHANGED vars PROVE IInv' /\ Steady
<1>1. /\ UNCHANGED <<kind, uses, driverVars, events, pipeVars, native>>
      /\ UNCHANGED <<sessionVars, ops, calls>> /\ quit' \in BOOLEAN
  BY DEF Shutdown, Freeze, Thaw, NativeExits, vars, boundVars, nativeVars, IInv, TypeInv, SessionOK
<1>2. /\ kind' = kind /\ uses' = uses /\ adapter' = adapter /\ progress' = progress
      /\ outbox' = outbox /\ after' = after /\ phase' = phase /\ closePending' = closePending
      /\ open' = open /\ events' = events /\ stdin' = stdin /\ stdout' = stdout
      /\ native' = native /\ turn' = turn /\ compaction' = compaction /\ copied' = copied
      /\ exited' = exited /\ ops' = ops /\ calls' = calls
  BY <1>1 DEF driverVars, pipeVars, sessionVars
<1>3. /\ PlanOK' /\ PipesOK' /\ EventsOK' /\ DriverOK'
      /\ AdapterOK(adapter)' /\ NativeOK(native)'
  BY <1>2 DEF IInv, TypeInv, PlanOK, PipesOK, EventsOK, DriverOK, AdapterOK, NativeOK
<1>4. TypeInv'
  <2>1. OpsOK'
    BY <1>2, SameScript DEF IInv, TypeInv, OpsOK, Open
  <2>2. CallsOK'
    BY <1>2, NoneDropped, DroppedOK DEF IInv, TypeInv
  <2>3. SessionOK'
    BY <1>1, <1>2 DEF IInv, TypeInv, SessionOK
  <2> QED  BY <1>3, <2>1, <2>2, <2>3 DEF TypeInv
<1>5. Queue' = Queue /\ (Unfinished(progress)' <=> Unfinished(progress))
  BY <1>2, SameQueue DEF Unfinished
<1>6. CallsOnce' /\ \A p \in Prompts : Coming(p)' <=> Coming(p)
  BY <1>2, PromptsStill
<1>7. \A p \in Prompts : Untouched(p)' <=> Untouched(p)
  BY <1>2, <1>5 DEF Untouched, Tells
<1>8. SentOnce' /\ FreeInv' /\ ComingInv' /\ ExitInv'
  BY <1>2, <1>5, <1>6, <1>7 DEF IInv, SentOnce, FreeInv, ComingInv, ExitInv, Gone
<1>9. InterruptInv'
  <2>1. (Open("interrupt")' <=> Open("interrupt")) /\ (Aims' <=> Aims)
    BY <1>2 DEF Open, Aims
  <2> QED  BY <1>2, <1>6, <2>1 DEF IInv, InterruptInv
<1>10. BusyInv' /\ CopyInv'
  <2>1. \A p : PromptCall(p)' = PromptCall(p)
    BY <1>2, SameScript DEF PromptCall
  <2>2. \A p : NotOver(p)' <=> NotOver(p)
    BY <1>2, <1>5 DEF NotOver
  <2>3. BusyInv'
    BY <1>2, <1>5, <2>1, <2>2 DEF IInv, BusyInv
  <2>4. CopyInv'
    BY <1>2, <1>5 DEF IInv, CopyInv
  <2> QED  BY <2>3, <2>4
<1> QED  BY <1>4, <1>6, <1>8, <1>9, <1>10 DEF IInv, Steady

(* The Handle makes a call, waits for the end of the turn, or finds that the *)
(* driver is gone.                                                           *)
LEMMA CallStepStep ==
  ASSUME IInv, NEW op \in Ops, CallStep(op) PROVE IInv' /\ Steady
<1> DEFINE step == Script(op)[ops[op].step]
           call == [op |-> op, step |-> ops[op].step, mode |-> step.mode,
                    method |-> step.method]
<1>1. /\ Still /\ UNCHANGED <<sessionVars, quit>> /\ ops[op].state = "ready"
  BY DEF CallStep, Still, boundVars
<1>2. /\ ops \in [Ops -> Operation] /\ PlanOK /\ OpsOK /\ CallsOK
      /\ ops[op].step \in DOMAIN Script(op) /\ ops[op].step \in Nat \ {0}
  BY <1>1 DEF IInv, TypeInv, OpsOK, Open, Operation
<1>3. kind' = kind /\ progress' = progress /\ turn' = turn
  BY <1>1 DEF Still, driverVars, sessionVars
<1>4. /\ op \in Prompts => step.mode \in {"call", "request", "dispatch"}
      /\ op \notin Prompts => step.mode \in {"call", "notify", "control", "settle"}
      /\ step.mode \in Modes /\ step.method \in Methods
      /\ step.mode = "settle" => kind = "codex" /\ op = "interrupt" /\ ops[op].step = 2
      /\ kind = "codex" /\ op = "interrupt" /\ ops[op].step # 2 => step.mode # "notify"
  <2>1. CASE op \in Prompts
    BY <1>2, <2>1, OpsKnown, PromptScript DEF Modes
  <2>2. CASE op \notin Prompts
    <3>1. op \in {"start", "interrupt", "steer", "compact"}
      BY <2>2, OpsKnown
    <3> QED  BY <1>2, <2>2, <3>1, ControlScript DEF Modes
  <2> QED  BY <2>1, <2>2
<1>5. \/ step.mode = "settle" /\ ops' = [ops EXCEPT ![op].state = "settling"] /\ calls' = calls
      \/ ops' = [ops EXCEPT ![op].state = "failed"] /\ calls' = calls
      \/ /\ step.mode # "settle" /\ calls' = Append(calls, call)
         /\ ops' = IF step.mode = "notify" THEN Forward(ops, op)
                   ELSE [ops EXCEPT ![op].state = "queued"]
  <2> DEFINE lost == Gone \/ (quit /\ step.mode # "notify")
  <2>1. CASE step.mode = "settle"
    BY <2>1 DEF CallStep
  <2>2. CASE step.mode # "settle" /\ lost
    BY <2>2 DEF CallStep
  <2>3. CASE step.mode # "settle" /\ ~lost
    BY <2>3 DEF CallStep
  <2> QED  BY <2>1, <2>2, <2>3
<1> HIDE DEF step
<1>6. Coming(op) \/ op \notin Prompts
  BY <1>1 DEF Coming
<1>7. Open("interrupt")' => Open("interrupt")
  <2>1. OpStep(op)
    <3>1. CASE ops' = Forward(ops, op)
      BY <1>2, <3>1, SetForward
    <3>2. CASE \E s \in Calling : ops' = [ops EXCEPT ![op].state = s]
      BY <1>2, <3>2, SetState
    <3> QED  BY <1>5, <3>1, <3>2 DEF Calling
  <2> QED  BY <1>1, <2>1, OpsKnown DEF OpStep, Open
<1>8. CASE step.mode = "settle" /\ ops' = [ops EXCEPT ![op].state = "settling"] /\ calls' = calls
  <2>1. OpStep(op) /\ ops'[op].state = "settling" /\ ops'[op].step = ops[op].step
    BY <1>2, <1>8, SetState DEF Calling
  <2>2. kind = "codex" /\ op = "interrupt" /\ ops[op].step = 2 /\ op \notin Prompts
    BY <1>4, <1>8, OpsKnown
  <2>3. \A p \in Prompts : ops'[p] = ops[p]
    BY <2>1, <2>2, OpsKnown DEF OpStep
  <2>4. CallsOnce' /\ \A p \in Prompts : Coming(p)' => Coming(p)
    BY <1>3, <1>8, <2>3, PromptsStill
  <2>5. CallsOK'
    BY <1>2, <1>3, <1>8, NoneDropped, DroppedOK
  <2>6. OpsOK'
    <3>1. \A x \in Ops : /\ Open(x)' => ops'[x].step \in DOMAIN Script(x)
                         /\ ops'[x].state = "idle" => ops'[x].step = 1
                         /\ ops'[x].state = "settling" => kind = "codex" /\ x = "interrupt"
      BY <1>2, <2>1, <2>2 DEF OpsOK, OpStep, Open
    <3> QED  BY <1>3, <2>1, <3>1, SameScript DEF OpsOK, OpStep
  <2>7. Aims' => progress.request = ops'["interrupt"].target
    <3>1. Aims
      BY <1>1, <2>2 DEF Aims
    <3> QED  BY <2>1, <2>2, <3>1 DEF IInv, InterruptInv, OpStep
  <2> QED  BY <1>1, <1>7, <2>1, <2>2, <2>4, <2>5, <2>6, <2>7, KeepsAll
<1>9. CASE ops' = [ops EXCEPT ![op].state = "failed"] /\ calls' = calls
  <2>1. OpStep(op) /\ ops'[op].state = "failed" /\ ops'[op].step = ops[op].step
    BY <1>2, <1>9, SetState DEF Calling
  <2>2. Dropped
    BY <1>2, <1>9, NoneDropped
  <2>3. Aims' => Aims /\ ops'["interrupt"].target = ops["interrupt"].target
    BY <1>3, <2>1, OpsKnown DEF OpStep, Aims
  <2>4. Aims' => progress.request = ops'["interrupt"].target
    BY <2>3 DEF IInv, InterruptInv
  <2> QED  BY <1>1, <1>7, <2>1, <2>2, <2>4, MoveKeeps DEF Open
<1>10. CASE /\ step.mode # "settle" /\ calls' = Append(calls, call)
            /\ ops' = IF step.mode = "notify" THEN Forward(ops, op)
                      ELSE [ops EXCEPT ![op].state = "queued"]
  <2>1. call \in Handed /\ CallOK(call)
    <3>1. call \in Handed
      BY <1>2, <1>4 DEF Handed
    <3> QED  BY <1>2, <3>1 DEF CallOK, step
  <2>0. call.op = op /\ call.step = ops[op].step
    OBVIOUS
  <2> HIDE DEF call
  <2>2. /\ calls' \in Seq(Handed) /\ Len(calls') = Len(calls) + 1 /\ Len(calls) \in Nat
        /\ DOMAIN calls = 1..Len(calls) /\ DOMAIN calls' = 1..(Len(calls) + 1)
        /\ calls'[Len(calls) + 1] = call /\ \A i \in 1..Len(calls) : calls'[i] = calls[i]
    BY <1>2, <1>10, <2>1, AppendProperties, LenProperties DEF CallsOK
  <2>3. \A i \in DOMAIN calls' : \/ i \in DOMAIN calls /\ calls'[i] = calls[i]
                                 \/ i = Len(calls) + 1 /\ calls'[i] = call
    BY <2>2
  <2>4. CallsOK'
    <3>1. \A i \in DOMAIN calls' : CallOK(calls'[i])
      BY <1>2, <2>1, <2>3 DEF CallsOK
    <3> QED  BY <1>3, <2>2, <3>1, SameCallOK DEF CallsOK
  <2>5. /\ OpStep(op) /\ ops'[op].state \in {"queued", "ready", "ok"}
        /\ ops'[op].state = "queued" => ops'[op].step = ops[op].step
        /\ ops'[op].state # "queued" => op \notin Prompts
        /\ Open(op)' => ops'[op].step \in DOMAIN Script(op)
        /\ ops'[op].state = "ready" => step.mode = "notify" /\ ops'[op].step = ops[op].step + 1
    <3>1. CASE step.mode # "notify"
      BY <1>2, <1>10, <3>1, SetState DEF Calling
    <3>2. CASE step.mode = "notify" /\ Last(op)
      BY <1>2, <1>4, <1>10, <3>2, SetForward DEF Open
    <3>3. CASE step.mode = "notify" /\ ~Last(op)
      <4>1. OpStep(op) /\ ops'[op].state = "ready" /\ ops'[op].step = ops[op].step + 1
        BY <1>2, <1>10, <3>3, SetForward
      <4>2. op \notin Prompts /\ op \in {"start", "interrupt", "steer", "compact"}
        BY <1>4, <3>3, OpsKnown
      <4>3. Len(Script(op)) \in Nat /\ DOMAIN Script(op) = 1..Len(Script(op))
        BY <1>2, <4>2, ControlScript
      <4>4. ops[op].step + 1 \in DOMAIN Script(op)
        BY <1>2, <3>3, <4>3 DEF Last
      <4> QED  BY <3>3, <4>1, <4>2, <4>4
    <3> QED  BY <3>1, <3>2, <3>3
  <2>6. OpsOK'
    BY <1>3, <2>5, OpOK
  <2>7. \A p \in Prompts : Coming(p)' => Coming(p)
    <3> SUFFICES ASSUME NEW p \in Prompts, Coming(p)', p # op PROVE Coming(p)
      BY <1>6
    <3>1. ops'[p] = ops[p]
      BY <2>5, OpsKnown DEF OpStep
    <3>2. \A i \in DOMAIN calls' : calls'[i].op = p => i \in DOMAIN calls /\ calls'[i] = calls[i]
      BY <2>0, <2>3
    <3> QED  BY <1>3, <3>1, <3>2, SameScript DEF Coming
  <2>8. CallsOnce'
    <3>1. \A i \in DOMAIN calls : op \in Prompts => calls[i].op # op
      BY <1>1 DEF IInv, CallsOnce
    <3>2. \A i \in DOMAIN calls' : calls'[i].op \in Prompts =>
            /\ ops'[calls'[i].op].state \in {"queued", "failed"}
            /\ ops'[calls'[i].op].step = calls'[i].step
      <4> SUFFICES ASSUME NEW i \in DOMAIN calls', calls'[i].op \in Prompts
                   PROVE  /\ ops'[calls'[i].op].state \in {"queued", "failed"}
                          /\ ops'[calls'[i].op].step = calls'[i].step
        OBVIOUS
      <4>1. CASE i = Len(calls) + 1 /\ calls'[i] = call
        BY <2>0, <2>5, <4>1
      <4>2. CASE i \in DOMAIN calls /\ calls'[i] = calls[i]
        <5>1. calls[i].op # op /\ calls[i].op \in Ops
          BY <3>1, <4>2, OpsKnown
        <5> QED  BY <2>5, <4>2, <5>1 DEF IInv, CallsOnce, OpStep
      <4> QED  BY <2>3, <4>1, <4>2
    <3>3. \A i, j \in DOMAIN calls' :
            calls'[i].op \in Prompts /\ calls'[j].op = calls'[i].op => i = j
      BY <2>0, <2>3, <3>1 DEF IInv, CallsOnce
    <3>4. \A p \in Prompts : turn'[p] = "none" <=> ops'[p].state = "idle"
      BY <1>1, <1>3, <2>5, OpsKnown DEF IInv, CallsOnce, OpStep
    <3> QED  BY <3>2, <3>3, <3>4 DEF CallsOnce
  <2>9. Aims' => progress.request = ops'["interrupt"].target
    <3>1. CASE op # "interrupt"
      <4>1. ops'["interrupt"] = ops["interrupt"]
        BY <2>5, <3>1, OpsKnown DEF OpStep
      <4> QED  BY <1>3, <4>1 DEF IInv, InterruptInv, Aims
    <3>2. CASE op = "interrupt"
      <4>1. kind = "codex" /\ ops'[op].state = "ready" => ops[op].step = 2
        BY <1>4, <2>5, <3>2
      <4> QED  BY <1>2, <1>3, <2>5, <3>2, <4>1 DEF Aims
    <3> QED  BY <3>1, <3>2
  <2> QED  BY <1>1, <1>7, <2>4, <2>5, <2>6, <2>7, <2>8, <2>9, KeepsAll
<1> QED  BY <1>5, <1>8, <1>9, <1>10

(* The call at the head of the channel.                                      *)
LEMMA CalledComing ==
  ASSUME IInv, calls # <<>>, Head(calls).op \in Prompts,
         Waiting(Head(calls)) \/ Head(calls).step = Len(Script(Head(calls).op))
  PROVE  Coming(Head(calls).op)
<1> DEFINE c == Head(calls)
<1>1. /\ calls \in Seq(Handed) /\ DOMAIN calls = 1..Len(calls) /\ Len(calls) \in Nat
      /\ Len(calls) # 0 /\ PlanOK
  BY LenProperties, EmptySeq DEF IInv, TypeInv, CallsOK
<1>2. 1 \in DOMAIN calls /\ c = calls[1]
  BY <1>1
<1>3. c.step \in DOMAIN Script(c.op)
  BY <1>2 DEF IInv, TypeInv, CallsOK, CallOK
<1>4. Len(Script(c.op)) \in Nat /\ DOMAIN Script(c.op) = 1..Len(Script(c.op))
  BY <1>1, PromptScript
<1>5. CASE c.step = Len(Script(c.op))
  BY <1>2, <1>5 DEF Coming
<1>6. CASE c.step # Len(Script(c.op))
  BY <1>3, <1>4, <1>6 DEF Coming, Waiting
<1> QED  BY <1>5, <1>6

(* The driver denies a call.                                                 *)
LEMMA DenyStep ==
  ASSUME IInv, DenyCall PROVE IInv' /\ Steady
<1> DEFINE c == Head(calls)
           op == c.op
<1>1. /\ Still /\ UNCHANGED <<sessionVars, quit>> /\ calls # <<>> /\ calls' = Tail(calls)
      /\ ops' = IF Waiting(c) THEN [ops EXCEPT ![op].state = "refused"] ELSE ops
  BY DEF DenyCall, Still, boundVars, Takeable, Tell
<1>2. /\ ops \in [Ops -> Operation] /\ PlanOK /\ OpsOK /\ CallsOK
  BY DEF IInv, TypeInv, OpsOK
<1>3. kind' = kind /\ progress' = progress /\ turn' = turn
  BY <1>1 DEF Still, driverVars, sessionVars
<1>4. /\ Dropped /\ 1 \in DOMAIN calls /\ c = calls[1]
      /\ \A i \in DOMAIN calls' : i + 1 \in DOMAIN calls /\ i + 1 # 1 /\ calls'[i] = calls[i + 1]
  BY <1>1, <1>2, HeadDropped
<1>5. c \in Handed /\ op \in Ops
  BY <1>2, <1>4 DEF CallsOK, CallOK, Handed
<1>6. op \in Prompts => /\ ops[op].state \in {"queued", "failed"} /\ ops[op].step = c.step
                        /\ \A i \in DOMAIN calls' : calls'[i].op # op
  BY <1>4 DEF IInv, CallsOnce
<1> HIDE DEF op
<1>7. /\ OpStep(op)
      /\ \/ ops' = ops
         \/ /\ ops[op].state = "queued" /\ ops[op].step = c.step
            /\ ops'[op].state = "refused" /\ ops'[op].step = ops[op].step
  <2>1. CASE Waiting(c)
    <3>1. ops' = [ops EXCEPT ![op].state = "refused"]
      BY <1>1, <2>1
    <3> QED  BY <1>2, <1>5, <2>1, <3>1, SetState DEF Calling, Waiting, op
  <2>2. CASE ~Waiting(c)
    BY <1>1, <1>2, <2>2 DEF OpStep
  <2> QED  BY <2>1, <2>2
<1>8. OpsOK'
  <2>1. CASE ops' = ops
    BY <1>2, <1>3, <2>1, SameScript DEF OpsOK, Open
  <2>2. CASE ops'[op].state = "refused"
    BY <1>3, <1>5, <1>7, <2>2, OpOK DEF Open
  <2> QED  BY <1>7, <2>1, <2>2
<1>9. CallsOK' /\ CallsOnce'
  BY <1>2, <1>3, <1>4, <1>5, <1>6, <1>7, DroppedOK, OpCallsOnce
<1>10. \A p \in Prompts : Coming(p)' => Coming(p)
  <2>1. op \in Prompts =>
           \/ ops'[op].state \in {"ok", "refused", "failed"}
           \/ /\ ops[op].state \in {"queued", "pending"} /\ ops'[op].state \in {"queued", "pending"}
              /\ ops'[op].step = ops[op].step
    BY <1>6, <1>7
  <2> QED  BY <1>3, <1>4, <1>5, <1>7, <2>1, OpComing
<1>11. Open("interrupt")' => Open("interrupt")
  BY <1>7, OpsKnown DEF OpStep, Open
<1>12. Aims' => progress.request = ops'["interrupt"].target
  <2>1. Aims' => Aims /\ ops'["interrupt"].target = ops["interrupt"].target
    BY <1>3, <1>7, OpsKnown DEF OpStep, Aims
  <2> QED  BY <2>1 DEF IInv, InterruptInv
<1>13. kind = "cursor" /\ ops'[op] # ops[op] => ops[op].state \notin {"ok", "failed"}
  BY <1>7
<1>14. ops'[op] # ops[op] /\ ops'[op].state = "refused" =>
         op # progress.request \/ ~Unfinished(progress)
  <2> SUFFICES ASSUME ops'[op] # ops[op], op = progress.request, Unfinished(progress)
               PROVE  FALSE
    OBVIOUS
  <2>1. ops[op].state = "queued" /\ ops[op].step = c.step
    BY <1>7
  <2>2. op \in Prompts
    BY DEF IInv, TypeInv, DriverOK, Turned, Unfinished, Refs, Absent
  <2>3. Waiting(c)
    BY <2>1 DEF Waiting, op
  <2>4. Coming(op)
    BY <1>1, <2>2, <2>3, CalledComing DEF op
  <2> QED  BY <2>2, <2>4 DEF IInv, ComingInv, Untouched
<1> QED  BY <1>1, <1>5, <1>7, <1>8, <1>9, <1>10, <1>11, <1>12, <1>13, <1>14, KeepsAll

(* The driver takes a call.  Only the last call of a prompt carries it.      *)
LEMMA Carrier ==
  ASSUME PlanOK, NEW c, CallOK(c)
  PROVE  /\ CarriesPrompt(c) <=> c.op \in Prompts /\ c.step = Len(Script(c.op))
         /\ CarriesPrompt(c) => c.mode = IF kind = "cursor" THEN "dispatch" ELSE "request"
         /\ c.mode = "dispatch" => CarriesPrompt(c)
         /\ kind = "pi" /\ c.method = "compact" => c.op = "compact"
         /\ kind = "codex" /\ c.op = "interrupt" /\ c.step = 1 => c.mode = "control"
<1>1. c.op \in Ops /\ c.step \in DOMAIN Script(c.op) /\ c.mode = Script(c.op)[c.step].mode
      /\ c.method = Script(c.op)[c.step].method
  BY DEF CallOK, Handed
<1>2. CASE c.op \in Prompts
  <2>1. Len(Script(c.op)) \in Nat /\ DOMAIN Script(c.op) = 1..Len(Script(c.op))
    BY <1>2, PromptScript
  <2>2. /\ c.step < Len(Script(c.op)) => c.mode = "call"
        /\ c.step = Len(Script(c.op)) => c.mode = IF kind = "cursor" THEN "dispatch" ELSE "request"
        /\ kind = "pi" => c.method # "compact"
    BY <1>1, <1>2, PromptScript
  <2>3. c.step < Len(Script(c.op)) \/ c.step = Len(Script(c.op))
    BY <1>1, <2>1
  <2>4. c.op # "interrupt"
    BY <1>2, OpsKnown
  <2> QED  BY <1>2, <2>2, <2>3, <2>4 DEF CarriesPrompt
<1>3. CASE c.op \notin Prompts
  <2>1. c.op \in {"start", "interrupt", "steer", "compact"}
    BY <1>1, <1>3, OpsKnown
  <2>2. /\ c.mode \in {"call", "notify", "control", "settle"}
        /\ kind = "pi" /\ c.method = "compact" => c.op = "compact"
        /\ kind = "codex" /\ c.op = "interrupt" /\ c.step = 1 => c.mode = "control"
    BY <1>1, <2>1, ControlScript
  <2> QED  BY <1>3, <2>2 DEF CarriesPrompt
<1> QED  BY <1>2, <1>3

(* What taking the call changes.                                             *)
Accepts(c) ==
  /\ UNCHANGED <<kind, uses, outbox, after, phase, closePending, open, events, stdout, native,
                 turn, compaction, copied, exited, quit>>
  /\ c.op \in Ops /\ OpStep(c.op) /\ Dropped
  /\ \A i \in DOMAIN calls' : c.op \in Prompts => calls'[i].op # c.op
  /\ progress' = IF CarriesPrompt(c) THEN Fresh(c.op) ELSE progress
  /\ stdin' \in Seq(Frames) /\ AdapterOK(adapter')
  /\ kind \in {"codex", "pi"} => adapter'.prompt =
       (IF CarriesPrompt(c) THEN PromptCall(c.op) ELSE adapter.prompt)
  /\ kind = "pi" /\ adapter'.compaction # None => adapter'.compaction[1] = "compact"
  /\ kind = "cursor" => /\ adapter'.worker = adapter.worker /\ adapter'.dirty = adapter.dirty
                        /\ adapter'.terminal = adapter.terminal
                        /\ adapter'.prompt # None => adapter.prompt # None \/ CarriesPrompt(c)
  /\ \/ ops' = ops
     \/ /\ ops[c.op].state = "queued" /\ ops[c.op].step = c.step
        /\ ops'[c.op].step = c.step
        /\ ops'[c.op].state = IF c.mode = "dispatch" THEN "ok" ELSE "pending"
  /\ kind = "cursor" /\ CarriesPrompt(c) => ops'[c.op].state \in {"ok", "failed"}

(* What taking a call changes, without the harness's details.                *)
LEMMA AcceptChanges ==
  ASSUME IInv, AcceptCall
  PROVE  Accepts(Head(calls))
<1> DEFINE c == Head(calls)
           id == <<c.op, c.step>>
           request == IF CarriesPrompt(c) THEN c.op ELSE None
           ref == IF CarriesPrompt(c) THEN c.op ELSE ops[c.op].target
           b == Encode(id, c.method, request)
<1>1. UNCHANGED <<kind, uses, outbox, after, phase, closePending, open, events, stdout, native,
                  turn, compaction, copied, exited, quit>>
  BY DEF AcceptCall, nativeVars, sessionVars, boundVars
<1>2. /\ calls # <<>> /\ calls' = Tail(calls) /\ adapter' = b
      /\ progress' = IF request # None THEN Fresh(request) ELSE progress
      /\ stdin' = Append(stdin, Outgoing(id, c.method, ref))
  BY DEF AcceptCall, Takeable
<1>3. /\ ops \in [Ops -> Operation] /\ PlanOK /\ OpsOK /\ CallsOK /\ stdin \in Seq(Frames)
      /\ AdapterOK(adapter)
  BY DEF IInv, TypeInv, OpsOK, PipesOK
<1>4. /\ Dropped /\ 1 \in DOMAIN calls /\ c = calls[1]
      /\ \A i \in DOMAIN calls' : i + 1 \in DOMAIN calls /\ i + 1 # 1 /\ calls'[i] = calls[i + 1]
  BY <1>2, <1>3, HeadDropped
<1>5. c \in Handed /\ c.op \in Ops /\ CallOK(c) /\ c.method \in Methods /\ c.step \in Nat \ {0}
  BY <1>3, <1>4 DEF CallsOK, CallOK, Handed
<1>6. /\ CarriesPrompt(c) <=> c.op \in Prompts /\ c.step = Len(Script(c.op))
      /\ CarriesPrompt(c) => c.mode = IF kind = "cursor" THEN "dispatch" ELSE "request"
      /\ c.mode = "dispatch" => CarriesPrompt(c)
      /\ kind = "pi" /\ c.method = "compact" => c.op = "compact"
  BY <1>3, <1>5, Carrier
<1>7. /\ request \in Refs /\ id \in Callers /\ ref \in Refs
      /\ request # None <=> CarriesPrompt(c)
  <2>1. ops[c.op].target \in Refs
    BY <1>3, <1>5 DEF Operation
  <2> QED  BY <1>5, <1>6, <2>1, NamesAssumption DEF Refs, Absent, Callers
<1>8. c.op \in Prompts => /\ ops[c.op].state \in {"queued", "failed"} /\ ops[c.op].step = c.step
                          /\ \A i \in DOMAIN calls' : calls'[i].op # c.op
  BY <1>4 DEF IInv, CallsOnce
<1>9. /\ AdapterOK(b)
      /\ kind \in {"codex", "pi"} => b.prompt = (IF request # None THEN id ELSE adapter.prompt)
      /\ kind = "pi" => b.compaction = (IF c.method = "compact" THEN id ELSE adapter.compaction)
      /\ kind = "cursor" => /\ b.worker = adapter.worker /\ b.dirty = adapter.dirty
                            /\ b.terminal = adapter.terminal
                            /\ b.prompt = (IF request # None THEN id ELSE adapter.prompt)
  <2> HIDE DEF c, id, request
  <2> QED  BY <1>3, <1>5, <1>7, EncodeOK
<1>10. stdin' \in Seq(Frames)
  <2>1. Outgoing(id, c.method, ref) \in Frames
    <3> HIDE DEF c, id, ref
    <3> QED  BY <1>3, <1>5, <1>7, OutgoingOK
  <2> QED  BY <1>2, <1>3, <2>1, AppendProperties
<1>11. CarriesPrompt(c) => id = PromptCall(c.op)
  BY <1>6 DEF PromptCall
<1>12. id[1] = c.op
  OBVIOUS
<1>13. kind = "pi" /\ b.compaction # None => b.compaction[1] = "compact"
  BY <1>6, <1>9, <1>12 DEF IInv, BusyInv
<1>14. \/ ops' = ops
       \/ /\ Waiting(c) /\ c.mode = "dispatch" /\ ops' = Forward(ops, c.op)
       \/ /\ Waiting(c) /\ c.mode # "dispatch" /\ ops' = [ops EXCEPT ![c.op].state = "pending"]
  BY DEF AcceptCall, Tell
<1>15. c.mode = "dispatch" /\ Waiting(c) => ops' = Forward(ops, c.op)
  BY DEF AcceptCall
<1> HIDE DEF c, b
<1>16. /\ OpStep(c.op)
       /\ \/ ops' = ops
          \/ /\ ops[c.op].state = "queued" /\ ops[c.op].step = c.step
             /\ ops'[c.op].step = c.step
             /\ ops'[c.op].state = IF c.mode = "dispatch" THEN "ok" ELSE "pending"
  <2>1. CASE ops' = ops
    BY <1>3, <1>5, <2>1 DEF OpStep
  <2>2. CASE Waiting(c) /\ c.mode = "dispatch" /\ ops' = Forward(ops, c.op)
    <3>1. Last(c.op)
      BY <1>6, <2>2 DEF Last, Waiting
    <3> QED  BY <1>3, <1>5, <2>2, <3>1, SetForward DEF Waiting
  <2>3. CASE Waiting(c) /\ c.mode # "dispatch" /\ ops' = [ops EXCEPT ![c.op].state = "pending"]
    BY <1>3, <1>5, <2>3, SetState DEF Waiting, Calling
  <2> QED  BY <1>14, <2>1, <2>2, <2>3
<1>17. kind = "cursor" /\ CarriesPrompt(c) => ops'[c.op].state \in {"ok", "failed"}
  <2> SUFFICES ASSUME kind = "cursor", CarriesPrompt(c)
               PROVE  ops'[c.op].state \in {"ok", "failed"}
    OBVIOUS
  <2>1. CASE Waiting(c)
    <3>1. ops' = Forward(ops, c.op) /\ Last(c.op)
      BY <1>6, <1>15, <2>1 DEF Last, Waiting
    <3> QED  BY <1>3, <1>5, <3>1, SetForward
  <2>2. CASE ~Waiting(c)
    <3>1. ops[c.op].state = "failed"
      BY <1>6, <1>8, <2>2 DEF Waiting
    <3>2. ops' = ops
      BY <1>14, <2>2
    <3> QED  BY <3>1, <3>2
  <2> QED  BY <2>1, <2>2
<1>18. Accepts(c)
  <2> HIDE DEF id, request
  <2>1. progress' = IF CarriesPrompt(c) THEN Fresh(c.op) ELSE progress
    BY <1>2, <1>7 DEF request
  <2>2. kind \in {"codex", "pi"} => adapter'.prompt =
         (IF CarriesPrompt(c) THEN PromptCall(c.op) ELSE adapter.prompt)
    BY <1>2, <1>7, <1>9, <1>11
  <2>3. AdapterOK(adapter') /\ (kind = "pi" /\ adapter'.compaction # None => adapter'.compaction[1] = "compact")
    BY <1>2, <1>9, <1>13
  <2>4. kind = "cursor" => /\ adapter'.worker = adapter.worker /\ adapter'.dirty = adapter.dirty
                           /\ adapter'.terminal = adapter.terminal
                           /\ adapter'.prompt # None => adapter.prompt # None \/ CarriesPrompt(c)
    BY <1>2, <1>7, <1>9
  <2> QED  BY <1>1, <1>4, <1>5, <1>8, <1>10, <1>16, <1>17, <2>1, <2>2, <2>3, <2>4 DEF Accepts
<1> QED  BY <1>18 DEF c

(* A prompt that is taken finds the last turn over, and nothing is known of  *)
(* it.                                                                       *)
LEMMA AcceptStep ==
  ASSUME IInv, AcceptCall PROVE IInv' /\ Steady
<1>0. PICK c : c = Head(calls)
  OBVIOUS
<1> DEFINE p == c.op
<1>1. /\ Accepts(c) /\ calls # <<>> /\ phase = "running" /\ ~Missed(c)
      /\ CarriesPrompt(c) => ~Unfinished(progress)
  BY <1>0, AcceptChanges DEF AcceptCall, Takeable, Denied, IsBusy
<1>2. /\ PlanOK /\ OpsOK /\ CallsOK /\ 1 \in DOMAIN calls /\ c = calls[1] /\ CallOK(c)
      /\ c.step \in Nat
  BY <1>0, <1>1, HeadDropped DEF IInv, TypeInv, CallsOK, CallOK, Handed
<1>3. /\ CarriesPrompt(c) <=> p \in Prompts /\ c.step = Len(Script(p))
      /\ c.mode = "dispatch" => CarriesPrompt(c)
      /\ kind = "codex" /\ p = "interrupt" /\ c.step = 1 => c.mode = "control"
  BY <1>2, Carrier
<1>4. p \in Prompts => ops[p].state \in {"queued", "failed"} /\ ops[p].step = c.step
  BY <1>2 DEF IInv, CallsOnce
<1>5. CarriesPrompt(c) => /\ Coming(p) /\ turn[p] = "sent" /\ Untouched(p) /\ p \in Prompts
                          /\ kind # "claude" => ~Open("interrupt")
  <2> SUFFICES ASSUME CarriesPrompt(c)
               PROVE  /\ Coming(p) /\ turn[p] = "sent" /\ Untouched(p) /\ p \in Prompts
                      /\ kind # "claude" => ~Open("interrupt")
    OBVIOUS
  <2>1. Coming(p) /\ p \in Prompts
    BY <1>0, <1>1, <1>3, CalledComing
  <2>2. turn[p] \in {"none", "sent", "lost"} /\ Untouched(p)
    BY <2>1 DEF IInv, ComingInv
  <2>3. turn[p] # "none"
    BY <1>4, <2>1 DEF IInv, CallsOnce
  <2>4. turn[p] # "lost"
    BY <1>1, <2>1 DEF IInv, ExitInv, Gone
  <2>5. kind # "claude" => ~Open("interrupt")
    BY <2>1, <2>2, <2>3, <2>4 DEF IInv, InterruptInv
  <2> QED  BY <2>1, <2>2, <2>3, <2>4, <2>5
<1>6. /\ UNCHANGED <<kind, uses, outbox, after, phase, closePending, open, events, stdout, native,
                     turn, compaction, copied, exited, quit>>
      /\ p \in Ops /\ OpStep(p) /\ Dropped
      /\ \A i \in DOMAIN calls' : p \in Prompts => calls'[i].op # p
      /\ progress' = IF CarriesPrompt(c) THEN Fresh(p) ELSE progress
      /\ \/ ops' = ops
         \/ /\ ops[p].state = "queued" /\ ops[p].step = c.step
            /\ ops'[p].step = c.step
            /\ ops'[p].state = IF c.mode = "dispatch" THEN "ok" ELSE "pending"
  BY <1>1 DEF Accepts
<1>7. /\ progress' \in Turned
      /\ CarriesPrompt(c) => progress'.request = p /\ ~progress'.finished
      /\ ~CarriesPrompt(c) => progress' = progress
  <2>1. CASE CarriesPrompt(c)
    <3>1. progress' = [Resting EXCEPT !.request = p] /\ p \in Prompts
      BY <1>5, <1>6, <2>1 DEF Fresh
    <3> HIDE DEF p
    <3> QED  BY <2>1, <3>1 DEF Resting, Turned, Refs, Absent, TurnRefs, Names
  <2>2. CASE ~CarriesPrompt(c)
    BY <1>6, <2>2 DEF IInv, TypeInv, DriverOK
  <2> QED  BY <2>1, <2>2
<1>8. /\ \A q \in Prompts : Coming(q)' => Coming(q)
      /\ CarriesPrompt(c) => ~Coming(p)'
  <2>1. p \in Prompts =>
           \/ ops'[p].state \in {"ok", "refused", "failed"}
           \/ /\ ops[p].state \in {"queued", "pending"} /\ ops'[p].state \in {"queued", "pending"}
              /\ ops'[p].step = ops[p].step
    BY <1>4, <1>6
  <2>2. \A q \in Prompts : Coming(q)' => Coming(q)
    <3> HIDE DEF p
    <3> QED  BY <1>6, <2>1, OpComing
  <2>3. CarriesPrompt(c) => ~Coming(p)'
    <3> SUFFICES ASSUME CarriesPrompt(c) PROVE ~Coming(p)'
      OBVIOUS
    <3>1. turn'[p] # "none" /\ p \in Prompts
      BY <1>5, <1>6
    <3>2. ops'[p].state # "ready" /\ ops'[p].step = Len(Script(p))
      BY <1>3, <1>4, <1>6
    <3>3. ~(ops'[p].step < Len(Script(p)))
      BY <1>2, <1>3, <3>2
    <3> QED  BY <1>6, <3>1, <3>2, <3>3, SameScript DEF Coming
  <2> QED  BY <2>2, <2>3
<1>9. Queue' = Queue /\ kind' = kind
  BY <1>6, SameQueue
<1>10. OpsOK'
  <2>1. CASE ops' = ops
    BY <1>2, <1>6, <2>1, SameScript DEF OpsOK, Open
  <2>2. CASE ops'[p].step = c.step /\ ops'[p].state \in {"ok", "pending"}
    <3>1. c.step \in DOMAIN Script(p)
      BY <1>2 DEF CallOK
    <3> HIDE DEF p
    <3> QED  BY <1>6, <2>2, <3>1, OpOK
  <2> QED  BY <1>6, <2>1, <2>2
<1>11. TypeInv'
  <2>1. CallsOK'
    BY <1>2, <1>6, DroppedOK
  <2>2. PipesOK' /\ PlanOK' /\ EventsOK' /\ DriverOK'
    BY <1>1, <1>6, <1>7 DEF Accepts, IInv, TypeInv, PipesOK, PlanOK, EventsOK, DriverOK
  <2>3. SessionOK'
    BY <1>6, SameSession DEF IInv, TypeInv, SessionOK
  <2>4. AdapterOK(adapter)' /\ NativeOK(native)'
    BY <1>1, <1>6 DEF Accepts, IInv, TypeInv, AdapterOK, NativeOK
  <2> QED  BY <1>10, <2>1, <2>2, <2>3, <2>4 DEF TypeInv
<1>12. CallsOnce'
  <2>1. p \in Prompts => ops[p].state # "idle" /\ ops'[p].state # "idle"
    BY <1>4, <1>6
  <2> HIDE DEF p
  <2> QED  BY <1>6, <2>1, OpCallsOnce
<1>13. Open("interrupt")' => Open("interrupt")
  BY <1>6, OpsKnown DEF OpStep, Open
<1>14. Aims' => progress'.request = ops'["interrupt"].target
  <2> SUFFICES ASSUME Aims' PROVE progress'.request = ops'["interrupt"].target
    OBVIOUS
  <2>0. kind = "codex" /\ Open("interrupt")'
    BY <1>9 DEF Aims, Open
  <2>1. progress' = progress
    BY <1>5, <1>7, <1>13, <2>0
  <2>2. ops'["interrupt"].target = ops["interrupt"].target
    BY <1>6, OpsKnown DEF OpStep
  <2>3. CASE ops'["interrupt"] = ops["interrupt"]
    <3>1. Aims
      BY <1>9, <2>3 DEF Aims
    <3> QED  BY <2>1, <2>2, <3>1 DEF IInv, InterruptInv
  <2>4. CASE ops'["interrupt"] # ops["interrupt"]
    <3>1. p = "interrupt" /\ ops'[p].step = c.step /\ ops'[p].state = "pending"
      <4>1. p = "interrupt"
        BY <1>6, <2>4, OpsKnown DEF OpStep
      <4>2. c.mode # "dispatch"
        BY <1>3, <4>1, OpsKnown
      <4> QED  BY <1>6, <2>4, <4>1, <4>2
    <3>2. c.step = 1
      BY <3>1 DEF Aims
    <3>3. progress.request = ops[p].target
      BY <1>1, <1>3, <2>0, <3>1, <3>2 DEF Missed
    <3> QED  BY <2>1, <2>2, <3>1, <3>3
  <2> QED  BY <2>3, <2>4
<1>15. \A q \in Prompts : Coming(q)' /\ Untouched(q) => Untouched(q)'
  <2> SUFFICES ASSUME NEW q \in Prompts, Coming(q)', Untouched(q) PROVE Untouched(q)'
    OBVIOUS
  <2>1. progress'.request # q
    BY <1>7, <1>8 DEF Untouched
  <2>2. kind = "cursor" => adapter'.terminal = adapter.terminal
    BY <1>1 DEF Accepts
  <2> QED  BY <1>9, <2>1, <2>2 DEF Untouched, Tells
<1>16. SentOnce' /\ InterruptInv' /\ ComingInv'
  BY <1>6, <1>8, <1>13, <1>14, <1>15, TurnsStill
<1>17. FreeInv'
  <2> SUFFICES ASSUME NEW q \in Prompts, kind # "claude", Coming(q)', turn[q] = "sent"
               PROVE  ~Unfinished(progress)'
    BY <1>6 DEF FreeInv
  <2>1. ~CarriesPrompt(c)
    <3>1. ASSUME CarriesPrompt(c) PROVE q = p
      BY <1>5, <3>1 DEF IInv, SentOnce
    <3> QED  BY <1>8, <3>1
  <2> QED  BY <1>7, <1>8, <2>1 DEF IInv, FreeInv, Unfinished
<1>18. ExitInv' /\ CopyInv'
  <2>1. ExitInv'
    BY <1>6, <1>9 DEF IInv, ExitInv, Gone
  <2>2. CopyInv'
    BY <1>1, <1>6, <1>9 DEF Accepts, IInv, CopyInv
  <2> QED  BY <2>1, <2>2
<1>19. BusyInv'
  <2>1. progress.request # None => progress.request \in Prompts /\ progress.request \in Ops
    BY OpsKnown DEF IInv, TypeInv, DriverOK, Turned, Refs, Absent
  <2>2. kind # "claude" /\ Unfinished(progress)' => NotOver(progress.request)'
    <3> SUFFICES ASSUME kind # "claude", Unfinished(progress)'
                 PROVE  NotOver(progress.request)'
      OBVIOUS
    <3>1. CASE CarriesPrompt(c)
      <4>1. turn'[p] = "sent" /\ ops'[p].state # "refused" /\ progress'.request = p
        BY <1>4, <1>5, <1>6, <1>7, <3>1
      <4>2. \A i \in DOMAIN Queue : ~(Queue[i].type = "finished" /\ Queue[i].request = p)
        BY <1>5, <3>1 DEF Untouched, Tells
      <4>3. kind = "cursor" /\ adapter'.terminal # None => adapter'.terminal.request # p
        BY <1>1, <1>5, <3>1 DEF Accepts, Untouched
      <4> HIDE DEF p
      <4> QED  BY <1>9, <4>1, <4>2, <4>3 DEF NotOver
    <3>2. CASE ~CarriesPrompt(c)
      <4>1. progress' = progress
        BY <1>7, <3>2
      <4>2. Unfinished(progress) /\ NotOver(progress.request) /\ progress.request \in Ops
        BY <2>1, <4>1 DEF IInv, BusyInv, Unfinished
      <4>3. ops'[progress.request].state # "refused"
        BY <1>6, <4>2 DEF NotOver, OpStep
      <4>4. kind = "cursor" => adapter'.terminal = adapter.terminal
        BY <1>1 DEF Accepts
      <4> QED  BY <1>6, <1>9, <4>1, <4>2, <4>3, <4>4 DEF NotOver
    <3> QED  BY <3>1, <3>2
  <2>3. kind \in {"codex", "pi"} /\ progress'.request # None =>
          adapter'.prompt = PromptCall(progress'.request)
    BY <1>1, <1>7 DEF Accepts, IInv, BusyInv
  <2>4. kind = "cursor" /\ progress'.request # None =>
          ops'[progress'.request].state \in {"ok", "failed"}
    <3>1. CASE CarriesPrompt(c)
      BY <1>1, <1>7, <3>1 DEF Accepts
    <3>2. CASE ~CarriesPrompt(c)
      <4> SUFFICES ASSUME kind = "cursor", progress.request # None
                   PROVE  ops'[progress.request].state \in {"ok", "failed"}
        BY <1>7, <3>2
      <4>1. ops[progress.request].state \in {"ok", "failed"}
        BY DEF IInv, BusyInv
      <4> QED  BY <1>6, <2>1, <4>1 DEF OpStep
    <3> QED  BY <3>1, <3>2
  <2>5. kind = "cursor" /\ adapter'.prompt # None => progress'.request # None
    <3>1. CarriesPrompt(c) => progress'.request # None
      BY <1>5, <1>7, NamesAssumption
    <3> QED  BY <1>1, <1>7, <3>1 DEF Accepts, IInv, BusyInv
  <2>6. \A q : PromptCall(q)' = PromptCall(q)
    BY <1>9, SameScript DEF PromptCall
  <2>7. kind = "pi" /\ adapter'.compaction # None => adapter'.compaction[1] = "compact"
    BY <1>1 DEF Accepts
  <2> QED  BY <1>6, <1>9, <2>2, <2>3, <2>4, <2>5, <2>6, <2>7 DEF IInv, BusyInv
<1> QED  BY <1>8, <1>11, <1>12, <1>16, <1>17, <1>18, <1>19 DEF IInv, Steady

-----------------------------------------------------------------------------
(* Steps of the driver: what is said of them together.                       *)
LEMMA Assemble ==
  ASSUME IInv, UNCHANGED <<kind, uses, sessionVars, quit>>,
         OpsOK', CallsOK', CallsOnce', PipesOK', EventsOK', DriverOK',
         AdapterOK(adapter'), NativeOK(native'),
         \A p \in Prompts : Coming(p)' => Coming(p),
         \A p \in Prompts : Coming(p)' /\ Untouched(p) => Untouched(p)',
         Open("interrupt")' => Open("interrupt"),
         Aims' => progress'.request = ops'["interrupt"].target,
         Unfinished(progress)' => Unfinished(progress),
         ExitInv', BusyInv', CopyInv'
  PROVE  IInv' /\ Steady
<1>1. kind' = kind /\ uses' = uses /\ quit' = quit
      /\ UNCHANGED <<turn, compaction, copied, exited>>
  BY DEF sessionVars
<1>2. SessionOK'
  BY <1>1, SameSession DEF IInv, TypeInv, SessionOK
<1>3. PlanOK' /\ AdapterOK(adapter)' /\ NativeOK(native)'
  BY <1>1 DEF IInv, TypeInv, PlanOK, AdapterOK, NativeOK
<1>4. TypeInv'
  BY <1>2, <1>3 DEF TypeInv
<1>5. SentOnce' /\ InterruptInv' /\ FreeInv' /\ ComingInv'
  BY <1>1, TurnsStill
<1> QED  BY <1>4, <1>5 DEF IInv, Steady

(* No operation moves.                                                       *)
LEMMA OpsStill ==
  ASSUME IInv, UNCHANGED <<kind, turn, ops, calls>>
  PROVE  /\ OpsOK' /\ CallsOK' /\ CallsOnce'
         /\ \A p \in Prompts : Coming(p)' => Coming(p)
         /\ Open("interrupt")' => Open("interrupt")
         /\ Aims' => progress.request = ops'["interrupt"].target
<1>1. OpsOK'
  BY SameScript DEF IInv, TypeInv, OpsOK, Open
<1>2. CallsOK'
  BY NoneDropped, DroppedOK DEF IInv, TypeInv
<1>3. CallsOnce' /\ \A p \in Prompts : Coming(p)' <=> Coming(p)
  BY PromptsStill
<1>4. (Open("interrupt")' <=> Open("interrupt")) /\ (Aims' <=> Aims)
  BY DEF Open, Aims
<1> QED  BY <1>1, <1>2, <1>3, <1>4 DEF IInv, InterruptInv

(* An answer moves one call that was pending, or none.                       *)
LEMMA HeardOps ==
  ASSUME IInv, UNCHANGED <<kind, turn, calls>>,
         \/ ops' = ops
         \/ \E op \in Ops : Advances(op)
         \/ \E op \in Ops : Rejects(op)
  PROVE  /\ OpsOK' /\ CallsOK' /\ CallsOnce'
         /\ \A p \in Prompts : Coming(p)' => Coming(p)
         /\ Open("interrupt")' => Open("interrupt")
         /\ Aims' => progress.request = ops'["interrupt"].target
<1>1. CASE ops' = ops
  BY <1>1, OpsStill
<1>2. ASSUME NEW op \in Ops, Advances(op) \/ Rejects(op)
      PROVE  /\ OpsOK' /\ CallsOK' /\ CallsOnce'
             /\ \A p \in Prompts : Coming(p)' => Coming(p)
             /\ Open("interrupt")' => Open("interrupt")
             /\ Aims' => progress.request = ops'["interrupt"].target
  <2>1. /\ ops \in [Ops -> Operation] /\ PlanOK /\ CallsOK /\ ops[op].state = "pending"
        /\ ops[op].step \in DOMAIN Script(op)
    BY <1>2 DEF IInv, TypeInv, OpsOK, Open, Advances, Rejects
  <2>2. /\ OpStep(op)
        /\ \/ ops'[op].state \in {"ok", "refused"} /\ ops'[op].step = ops[op].step
           \/ /\ ~Last(op) /\ ops'[op].state = "ready" /\ ops'[op].step = ops[op].step + 1
              /\ ops'[op].step \in DOMAIN Script(op)
    <3>1. CASE Advances(op) /\ Last(op)
      BY <2>1, <3>1, SetForward DEF Advances
    <3>2. CASE Advances(op) /\ ~Last(op)
      <4>1. OpStep(op) /\ ops'[op].state = "ready" /\ ops'[op].step = ops[op].step + 1
        BY <2>1, <3>2, SetForward DEF Advances
      <4>2. Len(Script(op)) \in Nat /\ DOMAIN Script(op) = 1..Len(Script(op))
        BY <2>1, OpsKnown, PromptScript, ControlScript
      <4>3. ops[op].step + 1 \in DOMAIN Script(op)
        BY <2>1, <3>2, <4>2 DEF Last
      <4> QED  BY <3>2, <4>1, <4>3
    <3>3. CASE Rejects(op)
      BY <2>1, <3>3, SetState DEF Rejects, Calling
    <3> QED  BY <1>2, <3>1, <3>2, <3>3
  <2>3. Dropped
    BY <2>1, NoneDropped
  <2>4. OpsOK'
    BY <2>1, <2>2, OpOK
  <2>5. CallsOK'
    BY <2>1, <2>3, DroppedOK
  <2>6. CallsOnce'
    <3>1. op \in Prompts => \A i \in DOMAIN calls' : calls'[i].op # op
      BY <2>1 DEF IInv, CallsOnce
    <3> QED  BY <2>1, <2>2, <2>3, <3>1, OpCallsOnce
  <2>7. \A p \in Prompts : Coming(p)' => Coming(p)
    BY <2>1, <2>2, <2>3, OpComing
  <2>8. Open("interrupt")' => Open("interrupt")
    BY <2>1, <2>2, OpsKnown DEF OpStep, Open
  <2>9. Aims' => Aims /\ ops'["interrupt"].target = ops["interrupt"].target
    <3>1. "interrupt" \in Ops /\ ops'["interrupt"].target = ops["interrupt"].target
      BY <2>2, OpsKnown DEF OpStep
    <3>2. CASE op = "interrupt"
      BY <2>1, <2>2, <3>1, <3>2 DEF Aims, Operation
    <3>3. CASE op # "interrupt"
      BY <2>2, <3>1, <3>3 DEF Aims, OpStep
    <3> QED  BY <3>1, <3>2, <3>3
  <2> QED  BY <2>4, <2>5, <2>6, <2>7, <2>8, <2>9 DEF IInv, InterruptInv
<1> QED  BY <1>1, <1>2

(* A rejection is not one of the turn in flight, unless it ends that turn.   *)
LEMMA RejectedOps ==
  ASSUME IInv, NEW m,
         kind # "claude",
         \/ ops' = ops
         \/ \E op \in Ops : Advances(op)
         \/ \E op \in Ops : Rejects(op) /\ (kind \in {"codex", "pi"} => Refusal(m, op)),
         progress.request # None,
         kind \in {"codex", "pi"} =>
           ~(m.type = "response" /\ m.id = PromptCall(progress.request) /\ m.status # "ok")
  PROVE  /\ ops[progress.request].state # "refused" => ops'[progress.request].state # "refused"
         /\ kind = "cursor" => ops'[progress.request].state \in {"ok", "failed"}
<1>1. ops \in [Ops -> Operation] /\ PlanOK /\ OpsOK
  BY DEF IInv, TypeInv, OpsOK
<1>2. PICK p \in Prompts : p = progress.request
  BY DEF IInv, TypeInv, DriverOK, Turned, Refs, Absent
<1>3. p \in Ops
  BY OpsKnown
<1>4. CASE ops' = ops
  BY <1>4 DEF IInv, BusyInv
<1>5. ASSUME NEW op \in Ops, Advances(op)
      PROVE  /\ ops[p].state # "refused" => ops'[p].state # "refused"
             /\ kind = "cursor" => ops'[p].state \in {"ok", "failed"}
  <2>1. /\ OpStep(op) /\ ops[op].state = "pending" /\ ops'[op].state # "refused"
    BY <1>1, <1>5, SetForward DEF Advances
  <2>2. kind = "cursor" => ops[p].state \in {"ok", "failed"}
    BY <1>2 DEF IInv, BusyInv
  <2> QED  BY <1>3, <2>1, <2>2 DEF OpStep
<1>6. ASSUME NEW op \in Ops, Rejects(op), kind \in {"codex", "pi"} => Refusal(m, op)
      PROVE  /\ ops[p].state # "refused" => ops'[p].state # "refused"
             /\ kind = "cursor" => ops'[p].state \in {"ok", "failed"}
  <2>1. OpStep(op) /\ ops[op].state = "pending"
    BY <1>1, <1>6, SetState DEF Rejects, Calling
  <2>2. kind = "cursor" => ops[p].state \in {"ok", "failed"}
    BY <1>2 DEF IInv, BusyInv
  <2>3. CASE op # p
    BY <1>3, <2>1, <2>2, <2>3 DEF OpStep
  <2>4. CASE op = p
    <3>1. kind \in {"codex", "pi"}
      BY <1>1, <2>1, <2>2, <2>4, KindKnown
    <3>2. m.type = "response" /\ m.id = <<p, ops[p].step>> /\ m.status # "ok"
      BY <1>6, <2>4, <3>1 DEF Refusal
    <3>3. Len(Script(p)) \in Nat /\ ops[p].step \in 1..Len(Script(p))
      BY <1>1, <2>1, <2>4, PromptScript DEF OpsOK, Open
    <3>4. ops[p].step # Len(Script(p))
      BY <1>2, <3>1, <3>2 DEF PromptCall
    <3>5. Coming(p)
      BY <2>1, <2>4, <3>3, <3>4 DEF Coming
    <3> QED  BY <1>2, <3>5 DEF IInv, ComingInv, Untouched
  <2> QED  BY <2>3, <2>4
<1> QED  BY <1>2, <1>4, <1>5, <1>6

-----------------------------------------------------------------------------
(* The events on their way after a step: more of them, the same, or all but  *)
(* the first.                                                                *)
Grown(es) ==
  /\ \A i \in DOMAIN Queue : i \in DOMAIN Queue' /\ Queue'[i] = Queue[i]
  /\ \A i \in DOMAIN Queue' :
       i \in DOMAIN Queue \/ \E j \in DOMAIN es : i = Len(Queue) + j /\ Queue'[i] = es[j]
  /\ \A j \in DOMAIN es :
       Len(Queue) + j \in DOMAIN Queue' /\ Queue'[Len(Queue) + j] = es[j]

(* More events are on their way, after those that were.                      *)
LEMMA QueueGrown ==
  ASSUME EventsOK, NEW es \in Seq(Reports), Queue' = Queue \o es
  PROVE  Grown(es)
<1>1. Queue \in Seq(Reports)
  BY ConcatProperties DEF EventsOK, Queue
<1>2. /\ Len(Queue) \in Nat /\ DOMAIN Queue = 1..Len(Queue)
      /\ Len(es) \in Nat /\ DOMAIN es = 1..Len(es)
  BY <1>1, LenProperties
<1>3. /\ Queue' \in Seq(Reports) /\ Len(Queue') = Len(Queue) + Len(es)
      /\ \A i \in 1..(Len(Queue) + Len(es)) :
           Queue'[i] = IF i <= Len(Queue) THEN Queue[i] ELSE es[i - Len(Queue)]
  BY <1>1, ConcatProperties
<1>4. DOMAIN Queue' = 1..(Len(Queue) + Len(es))
  BY <1>3, LenProperties
<1>5. \A i \in DOMAIN Queue : i \in DOMAIN Queue' /\ Queue'[i] = Queue[i]
  BY <1>2, <1>3, <1>4
<1>6. ASSUME NEW i \in DOMAIN Queue', i \notin DOMAIN Queue
      PROVE  \E j \in DOMAIN es : i = Len(Queue) + j /\ Queue'[i] = es[j]
  <2>1. i - Len(Queue) \in DOMAIN es /\ i = Len(Queue) + (i - Len(Queue))
        /\ Queue'[i] = es[i - Len(Queue)]
    BY <1>2, <1>3, <1>4, <1>6
  <2> QED  BY <2>1
<1>7. \A j \in DOMAIN es :
        Len(Queue) + j \in DOMAIN Queue' /\ Queue'[Len(Queue) + j] = es[j]
  BY <1>2, <1>3, <1>4
<1> QED  BY <1>5, <1>6, <1>7 DEF Grown

(* A message leaves its events in the empty outbox.                          *)
LEMMA OutboxFilled ==
  ASSUME EventsOK, outbox = <<>>, events' = events, outbox' \in Seq(Reports)
  PROVE  EventsOK' /\ Grown(outbox')
<1>1. events \in Seq(Reports) /\ Queue = events
  BY ConcatEmptySeq DEF EventsOK, Queue
<1>2. Queue' = Queue \o outbox'
  BY <1>1 DEF Queue
<1> QED  BY <1>2, QueueGrown DEF EventsOK


(* What more events leave as it was.                                         *)
LEMMA GrownKeeps ==
  ASSUME IInv, UNCHANGED <<kind, turn, copied, exited>>, NEW es, Grown(es), Gone => Gone',
         \A i \in DOMAIN es : es[i].type = "exited" => Gone'
  PROVE  /\ ExitInv'
         /\ \A p : (\A i \in DOMAIN Queue : ~Tells(Queue[i], p)) /\ (\A j \in DOMAIN es : ~Tells(es[j], p))
                   => \A i \in DOMAIN Queue' : ~Tells(Queue'[i], p)
         /\ \A p : /\ \A i \in DOMAIN Queue : ~(Queue[i].type = "finished" /\ Queue[i].request = p)
                   /\ \A j \in DOMAIN es : ~(es[j].type = "finished" /\ es[j].request = p)
                   => \A i \in DOMAIN Queue' : ~(Queue'[i].type = "finished" /\ Queue'[i].request = p)
<1>1. \A i \in DOMAIN Queue' :
        \/ i \in DOMAIN Queue /\ Queue'[i] = Queue[i]
        \/ \E j \in DOMAIN es : Queue'[i] = es[j]
  BY DEF Grown
<1>2. ExitInv'
  BY <1>1 DEF IInv, ExitInv
<1> QED  BY <1>1, <1>2

(* A finished turn among the new events comes after its copy among them.     *)
LEMMA GrownCopies ==
  ASSUME IInv, kind = "cursor", UNCHANGED <<kind, turn, copied>>, NEW es, Grown(es),
         adapter'.terminal # None => adapter'.dirty \/ adapter'.worker = adapter'.terminal.request,
         \A j \in DOMAIN es : es[j].type = "finished" =>
           \E i \in DOMAIN es : i < j /\ es[i].type = "copied" /\ es[i].request = es[j].request,
         DOMAIN es \subseteq Nat \ {0}
  PROVE  CopyInv'
<1>0. EventsOK
  BY DEF IInv, TypeInv
<1>1. Len(Queue) \in Nat /\ DOMAIN Queue = 1..Len(Queue)
  <2>1. Queue \in Seq(Reports)
    BY <1>0, ConcatProperties DEF EventsOK, Queue
  <2> QED  BY <2>1, LenProperties
<1>2. ASSUME NEW j \in DOMAIN Queue', Queue'[j].type = "finished"
      PROVE  \/ Queue'[j].request \in copied
             \/ \E i \in 1..(j - 1) : Queue'[i].type = "copied" /\ Queue'[i].request = Queue'[j].request
  <2>1. CASE j \in DOMAIN Queue
    <3>1. Queue'[j] = Queue[j]
      BY <2>1 DEF Grown
    <3>2. CASE Queue[j].request \in copied
      BY <3>1, <3>2
    <3>3. CASE \E i \in 1..(j - 1) : Queue[i].type = "copied" /\ Queue[i].request = Queue[j].request
      <4>1. PICK i \in 1..(j - 1) : Queue[i].type = "copied" /\ Queue[i].request = Queue[j].request
        BY <3>3
      <4>2. i \in DOMAIN Queue
        BY <1>1, <2>1
      <4>3. Queue'[i] = Queue[i]
        BY <4>2 DEF Grown
      <4> QED  BY <3>1, <4>1, <4>3
    <3> QED  BY <1>2, <2>1, <3>1, <3>2, <3>3 DEF IInv, CopyInv
  <2>2. CASE j \notin DOMAIN Queue
    <3>1. PICK k \in DOMAIN es : j = Len(Queue) + k /\ Queue'[j] = es[k]
      BY <2>2 DEF Grown
    <3>2. PICK n \in DOMAIN es : n < k /\ es[n].type = "copied" /\ es[n].request = es[k].request
      BY <1>2, <3>1
    <3>3. Len(Queue) + n \in DOMAIN Queue' /\ Queue'[Len(Queue) + n] = es[n]
          /\ Len(Queue) + n \in 1..(j - 1)
      BY <1>1, <3>1, <3>2 DEF Grown
    <3> QED  BY <3>1, <3>2, <3>3
  <2> QED  BY <2>1, <2>2
<1> QED  BY <1>2 DEF IInv, CopyInv

(* The driver reads a message: what it does about it it does at once or,     *)
(* when there are events to send first, after them.                          *)
LEMMA NothingHeard ==
  ASSUME TypeInv, UNCHANGED <<stdin, closePending, open, ops>>, NEW a, AdapterOK(a), NEW m,
         adapter' = a
  PROVE  Hears(a, m)
<1>1. SameTurn(a, adapter')
  BY DEF SameTurn
<1> QED  BY <1>1 DEF Hears, TypeInv, PipesOK, DriverOK

(* What reading a message changes, without the harness's details.            *)
LEMMA ReadChanges ==
  ASSUME IInv, ReadLine
  PROVE  LET m == Head(stdout)
             r == Receive(m)
         IN  /\ UNCHANGED <<kind, uses, phase, calls, events, native, quit, sessionVars>>
             /\ outbox = <<>> /\ stdout # <<>> /\ stdout' = Tail(stdout) /\ m \in Messages
             /\ progress' = r.progress /\ outbox' = r.events /\ Speaks(r) /\ Hears(r.adapter, m)
             /\ after' \in {m, None} /\ (r.events = <<>> => after' = None)
<1> DEFINE m == Head(stdout)
           r == Receive(m)
<1>1. /\ UNCHANGED <<kind, uses, phase, calls, events, native, quit, sessionVars>>
      /\ outbox = <<>> /\ stdout # <<>> /\ stdout' = Tail(stdout) /\ progress' = r.progress
  BY DEF ReadLine, nativeVars, boundVars
<1>2. m \in Messages
  BY <1>1, HeadTailProperties DEF IInv, TypeInv, PipesOK
<1>3. TypeInv /\ PlanOK /\ AdapterOK(adapter) /\ progress \in Turned
      /\ (kind = "cursor" /\ adapter.prompt # None => progress.request # None)
  BY DEF IInv, TypeInv, DriverOK, BusyInv
<1>4. Speaks(r) /\ AdapterOK(r.adapter)
  <2>1. Speaks(r)
    BY <1>2, <1>3, ReceiveSpeaks
  <2> QED  BY <2>1 DEF Speaks
<1>5. CASE r.events = <<>>
  <2>1. Answered(r.adapter, m) /\ outbox' = <<>>
    BY <1>5 DEF ReadLine
  <2> HIDE DEF m, r
  <2> QED  BY <1>1, <1>2, <1>3, <1>4, <1>5, <2>1, AnsweredHears DEF m, r
<1>6. CASE r.events # <<>>
  <2>1. /\ adapter' = r.adapter /\ outbox' = r.events /\ after' = m
        /\ UNCHANGED <<stdin, closePending, open, ops>>
    BY <1>6 DEF ReadLine
  <2>2. Hears(r.adapter, m)
    <3> HIDE DEF m, r
    <3> QED  BY <1>3, <1>4, <2>1, NothingHeard
  <2> QED  BY <1>1, <1>2, <1>4, <1>6, <2>1, <2>2
<1> QED  BY <1>5, <1>6

(* The driver reads a message.                                               *)
LEMMA ReadStep ==
  ASSUME IInv, ReadLine PROVE IInv' /\ Steady
<1>0. PICK m, r : m = Head(stdout) /\ r = Receive(m)
  OBVIOUS
<1>1. /\ UNCHANGED <<kind, uses, phase, calls, events, native, quit, turn, compaction, copied, exited>>
      /\ outbox = <<>> /\ stdout # <<>> /\ stdout' = Tail(stdout) /\ m \in Messages
      /\ progress' = r.progress /\ outbox' = r.events /\ Speaks(r) /\ Hears(r.adapter, m)
      /\ after' \in {m, None} /\ (r.events = <<>> => after' = None)
  BY <1>0, ReadChanges DEF sessionVars
<1>2. /\ TypeInv /\ PlanOK /\ EventsOK /\ AdapterOK(adapter) /\ progress \in Turned
      /\ stdout \in Seq(Messages)
  BY DEF IInv, TypeInv, DriverOK, PipesOK
<1>3. /\ Kept(r.progress) /\ Telling(r.events, r.progress) /\ AdapterOK(r.adapter)
      /\ kind = "cursor" => CursorKept(r.adapter, r.progress)
  BY <1>1 DEF Speaks
<1>4. /\ AdapterOK(adapter') /\ SameTurn(r.adapter, adapter') /\ stdin' \in Seq(Frames)
      /\ closePending' \in BOOLEAN /\ open' \in BOOLEAN
      /\ (closePending => open) => (closePending' => open')
      /\ \/ ops' = ops
         \/ \E op \in Ops : Advances(op)
         \/ \E op \in Ops : Rejects(op) /\ (kind \in {"codex", "pi"} => Refusal(m, op))
  BY <1>1 DEF Hears
<1>5. /\ progress' \in Turned /\ progress'.request = progress.request
      /\ Unfinished(progress)' => Unfinished(progress)
  BY <1>1, <1>3 DEF Kept, Unfinished
<1>6. EventsOK' /\ Grown(outbox')
  BY <1>1, <1>2, <1>3, OutboxFilled DEF Telling
<1>7. /\ OpsOK' /\ CallsOK' /\ CallsOnce'
      /\ \A p \in Prompts : Coming(p)' => Coming(p)
      /\ Open("interrupt")' => Open("interrupt")
      /\ Aims' => progress.request = ops'["interrupt"].target
  BY <1>1, <1>4, HeardOps
<1>8. /\ stdout' \in Seq(Messages)
      /\ kind = "codex" /\ m.type = "response" => m.status \in {"ok", "error"}
      /\ kind = "codex" => \A i \in DOMAIN stdout' :
           stdout'[i].type = "response" => stdout'[i].status \in {"ok", "error"}
  <2>1. /\ stdout' \in Seq(Messages) /\ Len(stdout') = Len(stdout) - 1
        /\ \A i \in 1..Len(stdout') : stdout'[i] = stdout[i + 1]
        /\ Len(stdout) \in Nat /\ DOMAIN stdout = 1..Len(stdout) /\ DOMAIN stdout' = 1..Len(stdout')
        /\ Len(stdout) # 0
    BY <1>1, <1>2, HeadTailProperties, LenProperties, EmptySeq
  <2>2. m = stdout[1] /\ 1 \in DOMAIN stdout
    BY <1>0, <2>1
  <2>3. \A i \in DOMAIN stdout' : i + 1 \in DOMAIN stdout
    BY <2>1
  <2> QED  BY <2>1, <2>2, <2>3 DEF IInv, BusyInv
<1>9. /\ \A i \in DOMAIN outbox' :
           /\ outbox'[i].type # "exited"
           /\ TurnEvent(outbox'[i]) => outbox'[i].request = progress.request
           /\ outbox'[i].type = "finished" => progress'.finished /\ kind # "cursor"
      /\ DOMAIN outbox' \subseteq Nat \ {0}
  <2>1. outbox' \in Seq(Reports)
    BY <1>1, <1>3 DEF Telling
  <2> QED  BY <1>1, <1>3, <2>1, LenProperties DEF Telling
<1>10. DriverOK' /\ PipesOK' /\ NativeOK(native')
  BY <1>1, <1>2, <1>4, <1>5, <1>8 DEF TypeInv, DriverOK, PipesOK, Absent
<1>11. kind = "cursor" =>
         /\ adapter'.worker = adapter.worker /\ (adapter.dirty => adapter'.dirty)
         /\ \/ adapter'.terminal = adapter.terminal
            \/ /\ adapter'.terminal.request = progress.request /\ adapter'.dirty
               /\ progress'.finished
         /\ adapter'.prompt # None => adapter.prompt # None
  BY <1>1, <1>3, <1>4, <1>5 DEF CursorKept, SameTurn
<1>12. ExitInv'
  BY <1>1, <1>6, <1>9, GrownKeeps DEF Gone
<1>13. CopyInv'
  <2>1. CASE kind = "cursor"
    <3>1. adapter'.terminal # None => adapter'.dirty \/ adapter'.worker = adapter'.terminal.request
      BY <1>11, <2>1 DEF IInv, CopyInv
    <3>2. \A j \in DOMAIN outbox' : outbox'[j].type # "finished"
      BY <1>9, <2>1
    <3> QED  BY <1>1, <1>6, <1>9, <2>1, <3>1, <3>2, GrownCopies
  <2>2. CASE kind # "cursor"
    BY <1>1, <2>2 DEF CopyInv
  <2> QED  BY <2>1, <2>2
<1>14. \A p \in Prompts : Coming(p)' /\ Untouched(p) => Untouched(p)'
  <2> SUFFICES ASSUME NEW p \in Prompts, Untouched(p) PROVE Untouched(p)'
    OBVIOUS
  <2>1. p # progress.request /\ \A i \in DOMAIN Queue : ~Tells(Queue[i], p)
    BY DEF Untouched
  <2>2. \A i \in DOMAIN outbox' : ~Tells(outbox'[i], p)
    BY <1>9, <2>1 DEF Tells, TurnEvent
  <2>3. \A i \in DOMAIN Queue' : ~Tells(Queue'[i], p)
    BY <1>1, <1>6, <1>9, <2>1, <2>2, GrownKeeps DEF Gone
  <2>4. kind = "cursor" /\ adapter'.terminal # None => adapter'.terminal.request # p
    BY <1>11, <2>1 DEF Untouched
  <2> QED  BY <1>1, <1>5, <2>1, <2>3, <2>4 DEF Untouched, Tells
<1>15. kind \in {"codex", "pi"} =>
         /\ adapter'.prompt = adapter.prompt
         /\ m.type = "response" /\ m.id = adapter.prompt /\ adapter.prompt # None /\ m.status # "ok"
              => progress'.finished
         /\ m.type = "response" /\ r.events # <<>> => m.id[1] \notin Prompts
  <2>1. CASE kind = "codex"
    BY <1>0, <1>1, <1>2, <1>4, <1>8, <2>1, CodexReceives DEF AdapterOK, SameTurn
  <2>2. CASE kind = "pi"
    BY <1>0, <1>1, <1>2, <1>4, <2>2, PiReceives DEF AdapterOK, SameTurn, IInv, BusyInv
  <2> QED  BY <2>1, <2>2
<1>16. kind = "pi" /\ adapter'.compaction # None => adapter'.compaction[1] = "compact"
  BY <1>0, <1>1, <1>2, <1>4, PiReceives DEF AdapterOK, SameTurn, IInv, BusyInv
<1>17. kind # "claude" /\ Unfinished(progress)' => NotOver(progress.request)'
  <2> SUFFICES ASSUME kind # "claude", Unfinished(progress)' PROVE NotOver(progress.request)'
    OBVIOUS
  <2>0. Unfinished(progress) /\ ~progress'.finished /\ NotOver(progress.request)
        /\ progress.request # None
    BY <1>5 DEF Unfinished, IInv, BusyInv
  <2>1. kind \in {"codex", "pi"} =>
          ~(m.type = "response" /\ m.id = PromptCall(progress.request) /\ m.status # "ok")
    <3>1. kind \in {"codex", "pi"} => adapter.prompt = PromptCall(progress.request)
      BY <2>0 DEF IInv, BusyInv
    <3>2. PromptCall(progress.request) # None
      <4>1. progress.request \in Prompts
        BY <1>2, <2>0 DEF Turned, Refs, Absent
      <4>2. Len(Script(progress.request)) \in Nat
        BY <1>2, <4>1, PromptScript
      <4> QED  BY <4>1, <4>2, NamesAssumption DEF PromptCall
    <3> QED  BY <1>15, <2>0, <3>1, <3>2
  <2>2. ops'[progress.request].state # "refused"
    BY <1>4, <2>0, <2>1, RejectedOps DEF NotOver
  <2>3. \A i \in DOMAIN outbox' : outbox'[i].type # "finished"
    BY <1>9, <2>0
  <2>4. \A i \in DOMAIN Queue' : ~(Queue'[i].type = "finished" /\ Queue'[i].request = progress.request)
    BY <1>1, <1>6, <1>9, <2>0, <2>3, GrownKeeps DEF Gone, NotOver
  <2>5. kind = "cursor" /\ adapter'.terminal # None => adapter'.terminal.request # progress.request
    BY <1>11, <2>0 DEF NotOver
  <2> QED  BY <1>1, <1>5, <2>0, <2>2, <2>4, <2>5 DEF NotOver
<1>18. BusyInv'
  <2>1. kind = "cursor" /\ progress.request # None => ops'[progress.request].state \in {"ok", "failed"}
    BY <1>4, RejectedOps
  <2>2. \A p : PromptCall(p)' = PromptCall(p)
    BY <1>1, SameScript DEF PromptCall
  <2>3. kind \in {"codex", "pi"} /\ progress'.request # None =>
          adapter'.prompt = PromptCall(progress'.request)
    BY <1>5, <1>15 DEF IInv, BusyInv
  <2>4. kind = "cursor" /\ adapter'.prompt # None => progress'.request # None
    BY <1>5, <1>11 DEF IInv, BusyInv
  <2>5. kind \in {"codex", "pi"} /\ after' # None /\ after'.type = "response" =>
          after'.id[1] \notin Prompts
    BY <1>1, <1>15
  <2> QED  BY <1>1, <1>5, <1>8, <1>16, <1>17, <2>1, <2>2, <2>3, <2>4, <2>5 DEF BusyInv
<1> QED  BY <1>1, <1>4, <1>5, <1>6, <1>7, <1>10, <1>12, <1>13, <1>14, <1>18, Assemble DEF sessionVars

(* Sending an event leaves the events on their way as they are.              *)
LEMMA SendSameQueue ==
  ASSUME EventsOK, outbox # <<>>, HasRoom,
         events' = Append(events, Head(outbox)), outbox' = Tail(outbox)
  PROVE  EventsOK' /\ Queue' = Queue
<1> DEFINE h == Head(outbox)
           t == Tail(outbox)
<1>1. events \in Seq(Reports) /\ outbox \in Seq(Reports) /\ Len(events) < EventsMax
      /\ Len(events) \in Nat /\ EventsMax \in Nat
  BY LenProperties, DriverAssumption DEF EventsOK, HasRoom
<1>2. /\ h \in Reports /\ t \in Seq(Reports) /\ h = outbox[1]
      /\ Len(outbox) \in Nat /\ Len(outbox) # 0 /\ Len(t) = Len(outbox) - 1
      /\ \A i \in 1..Len(t) : t[i] = outbox[i + 1]
  BY <1>1, HeadTailProperties, LenProperties, EmptySeq
<1>3. /\ Append(events, h) \in Seq(Reports) /\ Len(Append(events, h)) = Len(events) + 1
      /\ \A i \in 1..Len(events) : Append(events, h)[i] = events[i]
      /\ Append(events, h)[Len(events) + 1] = h
  BY <1>1, <1>2, AppendProperties
<1> HIDE DEF h, t
<1>4. /\ events \o outbox \in Seq(Reports) /\ Len(events \o outbox) = Len(events) + Len(outbox)
      /\ \A i \in 1..(Len(events) + Len(outbox)) : (events \o outbox)[i] =
           IF i <= Len(events) THEN events[i] ELSE outbox[i - Len(events)]
  BY <1>1, ConcatProperties
<1> DEFINE s == Append(events, h)
<1>0. s \in Seq(Reports)
  BY <1>3
<1> HIDE DEF s
<1>5. /\ s \o t \in Seq(Reports) /\ Len(s \o t) = Len(s) + Len(t)
      /\ \A i \in 1..(Len(s) + Len(t)) : (s \o t)[i] = IF i <= Len(s) THEN s[i] ELSE t[i - Len(s)]
  BY <1>0, <1>2, ConcatProperties
<1>6. Len(s \o t) = Len(events \o outbox)
  BY <1>1, <1>2, <1>3, <1>4, <1>5 DEF s
<1>7. ASSUME NEW i \in 1..Len(events \o outbox) PROVE (s \o t)[i] = (events \o outbox)[i]
  <2>0. /\ i \in Nat /\ i >= 1 /\ i <= Len(events) + Len(outbox) /\ Len(s) = Len(events) + 1
        /\ i \in 1..(Len(events) + Len(outbox)) /\ i \in 1..(Len(s) + Len(t))
    BY <1>1, <1>2, <1>3, <1>4, <1>5, <1>6, <1>7 DEF s
  <2>1. CASE i <= Len(events)
    BY <1>1, <1>3, <1>4, <1>5, <2>0, <2>1 DEF s
  <2>2. CASE i = Len(events) + 1
    BY <1>1, <1>2, <1>3, <1>4, <1>5, <2>0, <2>2 DEF s
  <2>3. CASE i > Len(events) + 1
    <3>1. (s \o t)[i] = t[i - Len(s)] /\ (events \o outbox)[i] = outbox[i - Len(events)]
      BY <1>1, <1>4, <1>5, <2>0, <2>3
    <3>2. i - Len(s) \in 1..Len(t) /\ (i - Len(s)) + 1 = i - Len(events)
      BY <1>1, <1>2, <2>0, <2>3
    <3> QED  BY <1>2, <3>1, <3>2
  <2> QED  BY <1>1, <2>0, <2>1, <2>2, <2>3
<1>8. s \o t = events \o outbox
  BY <1>4, <1>5, <1>6, <1>7, SeqEqual
<1>9. events' = s /\ outbox' = t
  BY DEF h, s, t
<1>10. Len(events') <= EventsMax /\ events' \in Seq(Reports) /\ outbox' \in Seq(Reports)
  BY <1>1, <1>2, <1>3, <1>9 DEF s
<1> QED  BY <1>8, <1>9, <1>10 DEF EventsOK, Queue

(* The driver sends an event; what the message answers follows the last one. *)
LEMMA SendStep ==
  ASSUME IInv, SendEvent PROVE IInv' /\ Steady
<1>1. /\ UNCHANGED <<kind, uses, progress, phase, calls, stdout, native, quit>>
      /\ UNCHANGED <<turn, compaction, copied, exited>>
      /\ outbox # <<>> /\ HasRoom /\ events' = Append(events, Head(outbox)) /\ outbox' = Tail(outbox)
  BY DEF SendEvent, nativeVars, sessionVars, boundVars
<1>2. /\ TypeInv /\ PlanOK /\ EventsOK /\ AdapterOK(adapter) /\ progress \in Turned
      /\ after \in Messages \cup Absent
  BY DEF IInv, TypeInv, DriverOK
<1>3. EventsOK' /\ Queue' = Queue
  BY <1>1, <1>2, SendSameQueue
<1>4. PICK m : /\ Hears(adapter, m) /\ after' \in {after, None}
               /\ ops' = ops \/ (m = after /\ after # None)
  <2>1. CASE Tail(outbox) = <<>> /\ after # None
    <3>1. Answered(adapter, after) /\ after \in Messages
      BY <1>2, <2>1 DEF SendEvent, Absent
    <3>2. Hears(adapter, after) /\ after' = None
      BY <1>2, <3>1, AnsweredHears
    <3> QED  BY <2>1, <3>2
  <2>2. CASE ~(Tail(outbox) = <<>> /\ after # None)
    <3>1. UNCHANGED <<adapter, after, stdin, closePending, open, ops>>
      BY <2>2 DEF SendEvent
    <3>2. Hears(adapter, None)
      BY <1>2, <3>1, NothingHeard
    <3>3. after' = after /\ ops' = ops
      BY <3>1
    <3> QED  BY <3>2, <3>3
  <2> QED  BY <2>1, <2>2
<1>5. /\ AdapterOK(adapter') /\ SameTurn(adapter, adapter') /\ stdin' \in Seq(Frames)
      /\ closePending' \in BOOLEAN /\ open' \in BOOLEAN
      /\ (closePending => open) => (closePending' => open')
      /\ \/ ops' = ops
         \/ \E op \in Ops : Advances(op)
         \/ \E op \in Ops : Rejects(op) /\ (kind \in {"codex", "pi"} => Refusal(m, op))
  BY <1>4 DEF Hears
<1>6. /\ OpsOK' /\ CallsOK' /\ CallsOnce'
      /\ \A p \in Prompts : Coming(p)' => Coming(p)
      /\ Open("interrupt")' => Open("interrupt")
      /\ Aims' => progress.request = ops'["interrupt"].target
  BY <1>1, <1>5, HeardOps
<1>7. DriverOK' /\ PipesOK' /\ NativeOK(native')
  BY <1>1, <1>2, <1>4, <1>5 DEF TypeInv, DriverOK, PipesOK, Absent
<1>8. kind = "cursor" => /\ adapter'.worker = adapter.worker /\ adapter'.dirty = adapter.dirty
                         /\ adapter'.terminal = adapter.terminal /\ adapter'.prompt = adapter.prompt
  BY <1>5 DEF SameTurn
<1>9. ExitInv' /\ CopyInv'
  BY <1>1, <1>3, <1>8 DEF IInv, ExitInv, CopyInv, Gone
<1>10. \A p \in Prompts : Untouched(p) => Untouched(p)'
  BY <1>1, <1>3, <1>8 DEF Untouched, Tells
<1>11. kind # "claude" /\ progress.request # None =>
         /\ ops[progress.request].state # "refused" => ops'[progress.request].state # "refused"
         /\ kind = "cursor" => ops'[progress.request].state \in {"ok", "failed"}
  <2> SUFFICES ASSUME kind # "claude", progress.request # None
               PROVE  /\ ops[progress.request].state # "refused" => ops'[progress.request].state # "refused"
                      /\ kind = "cursor" => ops'[progress.request].state \in {"ok", "failed"}
    OBVIOUS
  <2>1. progress.request \in Prompts
    BY <1>2 DEF Turned, Refs, Absent
  <2>2. CASE ops' = ops
    BY <2>2 DEF IInv, BusyInv
  <2>3. CASE m = after /\ after # None
    <3>1. kind \in {"codex", "pi"} =>
            ~(m.type = "response" /\ m.id = PromptCall(progress.request) /\ m.status # "ok")
      <4>1. PromptCall(progress.request)[1] = progress.request
        BY DEF PromptCall
      <4> QED  BY <2>1, <2>3, <4>1 DEF IInv, BusyInv
    <3> QED  BY <1>5, <3>1, RejectedOps
  <2> QED  BY <1>4, <2>2, <2>3
<1>12. BusyInv'
  <2>1. \A p : PromptCall(p)' = PromptCall(p)
    BY <1>1, SameScript DEF PromptCall
  <2>2. kind # "claude" /\ Unfinished(progress)' => NotOver(progress.request)'
    BY <1>1, <1>3, <1>8, <1>11 DEF IInv, BusyInv, NotOver, Unfinished
  <2>3. kind \in {"codex", "pi"} => adapter'.prompt = adapter.prompt /\ adapter'.compaction = adapter.compaction
    BY <1>5 DEF SameTurn
  <2> QED  BY <1>1, <1>4, <1>8, <1>11, <2>1, <2>2, <2>3 DEF IInv, BusyInv
<1>13. Unfinished(progress)' => Unfinished(progress)
  BY <1>1 DEF Unfinished
<1> QED  BY <1>1, <1>3, <1>5, <1>6, <1>7, <1>9, <1>10, <1>12, <1>13, Assemble DEF sessionVars

(* The driver looks after the copy of Cursor's chat.                         *)
LEMMA TickStep ==
  ASSUME IInv, Tick PROVE IInv' /\ Steady
<1>1. PICK c \in Capture : adapter' = c.adapter /\ outbox' = c.events
  BY DEF Tick
<1>2. /\ UNCHANGED <<kind, uses, progress, after, phase, closePending, open, ops, calls, events,
                     stdin, stdout, native, quit, turn, compaction, copied, exited>>
      /\ kind = "cursor" /\ outbox = <<>>
  BY DEF Tick, CapturePending, pipeVars, nativeVars, sessionVars, boundVars
<1>3. /\ TypeInv /\ EventsOK /\ adapter \in CursorAdapters
  BY <1>2 DEF IInv, TypeInv, AdapterOK
<1> DEFINE w == adapter.worker
           e == Event("copied", w, None)
<1>4. /\ c.adapter \in CursorAdapters /\ c.adapter.prompt = adapter.prompt
      /\ c.adapter.terminal # None =>
           c.adapter.dirty \/ c.adapter.worker = c.adapter.terminal.request
      /\ \/ /\ c.adapter.terminal = adapter.terminal
            /\ c.events = <<>> \/ c.events = <<e>>
         \/ /\ c.adapter.terminal = None /\ adapter.terminal \in Ends
            /\ adapter.terminal # None /\ adapter.terminal.request = w
            /\ c.events = <<e, adapter.terminal>>
  BY <1>2, <1>3, CaptureOK DEF IInv, CopyInv
<1>5. e \in Reports /\ e.type = "copied" /\ e.request = w
  <2>1. w \in Refs \cup {"partial"}
    BY <1>3 DEF CursorAdapters
  <2> QED  BY <2>1 DEF Event, Reports, Happens, Names, Absent
<1> HIDE DEF e, w
<1>6. /\ outbox' \in Seq(Reports) /\ DOMAIN outbox' \subseteq Nat \ {0}
      /\ \A j \in DOMAIN outbox' :
           /\ outbox'[j].type \in {"copied", "finished"}
           /\ outbox'[j].type = "finished" =>
                /\ adapter.terminal # None /\ outbox'[j].request = adapter.terminal.request
                /\ \E i \in DOMAIN outbox' : i < j /\ outbox'[i].type = "copied" /\ outbox'[i].request = outbox'[j].request
  <2>1. CASE c.events = <<>>
    BY <1>1, <2>1
  <2>2. CASE c.events = <<e>>
    BY <1>1, <1>5, <2>2
  <2>3. CASE /\ adapter.terminal \in Ends /\ adapter.terminal # None
             /\ adapter.terminal.request = w /\ c.events = <<e, adapter.terminal>>
    <3> DEFINE t == adapter.terminal
    <3>1. t \in Reports /\ t.type = "finished" /\ t.request = w /\ t # None
      BY <2>3 DEF Ends, Reports, Happens, Refs
    <3> HIDE DEF t
    <3>2. outbox' = <<e, t>>
      BY <1>1, <2>3 DEF t
    <3>3. outbox' \in Seq(Reports) /\ DOMAIN outbox' = 1..2 /\ outbox'[1] = e /\ outbox'[2] = t
      BY <1>5, <3>1, <3>2
    <3> QED  BY <1>5, <3>1, <3>3 DEF t
  <2> QED  BY <1>4, <2>1, <2>2, <2>3
<1>7. adapter' \in CursorAdapters /\ adapter'.prompt = adapter.prompt
      /\ (adapter'.terminal # None =>
            adapter'.dirty \/ adapter'.worker = adapter'.terminal.request)
      /\ adapter'.terminal \in {adapter.terminal, None}
  BY <1>1, <1>4
<1>8. EventsOK' /\ Grown(outbox')
  BY <1>2, <1>3, <1>6, OutboxFilled
<1>9. ExitInv' /\ CopyInv'
  <2>1. \A i \in DOMAIN outbox' : outbox'[i].type # "exited"
    BY <1>6
  <2> QED  BY <1>2, <1>6, <1>7, <1>8, <2>1, GrownKeeps, GrownCopies DEF Gone
<1>10. ASSUME NEW p, \A i \in DOMAIN Queue : ~Tells(Queue[i], p),
              adapter.terminal # None => adapter.terminal.request # p
       PROVE  \A i \in DOMAIN Queue' : ~Tells(Queue'[i], p)
  <2>1. \A i \in DOMAIN outbox' : ~Tells(outbox'[i], p) /\ outbox'[i].type # "exited"
    BY <1>6, <1>10 DEF Tells
  <2> QED  BY <1>2, <1>8, <1>10, <2>1, GrownKeeps DEF Gone
<1>11. \A p \in Prompts : Untouched(p) => Untouched(p)'
  BY <1>2, <1>7, <1>10 DEF Untouched, Tells
<1>12. BusyInv'
  <2>1. Unfinished(progress)' => NotOver(progress.request)'
    <3> SUFFICES ASSUME Unfinished(progress) PROVE NotOver(progress.request)'
      BY <1>2 DEF Unfinished
    <3>1. NotOver(progress.request)
      BY <1>2 DEF IInv, BusyInv
    <3>2. \A i \in DOMAIN outbox' :
            ~(outbox'[i].type = "finished" /\ outbox'[i].request = progress.request) /\ outbox'[i].type # "exited"
      BY <1>2, <1>6, <3>1 DEF NotOver
    <3>3. \A i \in DOMAIN Queue' : ~(Queue'[i].type = "finished" /\ Queue'[i].request = progress.request)
      BY <1>2, <1>8, <3>1, <3>2, GrownKeeps DEF NotOver, Gone
    <3> QED  BY <1>2, <1>7, <3>1, <3>3 DEF NotOver
  <2> QED  BY <1>2, <1>7, <2>1 DEF IInv, BusyInv
<1>13. /\ OpsOK' /\ CallsOK' /\ CallsOnce'
       /\ \A p \in Prompts : Coming(p)' => Coming(p)
       /\ Open("interrupt")' => Open("interrupt")
       /\ Aims' => progress.request = ops'["interrupt"].target
  BY <1>2, OpsStill
<1>14. DriverOK' /\ PipesOK' /\ NativeOK(native') /\ AdapterOK(adapter')
       /\ (Unfinished(progress)' => Unfinished(progress))
  BY <1>2, <1>3, <1>7 DEF TypeInv, DriverOK, PipesOK, AdapterOK, Unfinished
<1> QED  BY <1>2, <1>8, <1>9, <1>11, <1>12, <1>13, <1>14, Assemble DEF sessionVars

(* The exit is asked for, or the loop ends: the turn stays as it is.         *)
LEMMA EndStep ==
  ASSUME IInv, Stop \/ LoopEnds PROVE IInv' /\ Steady
<1>1. /\ UNCHANGED <<kind, uses, progress, outbox, after, ops, calls, events, stdout, native,
                     quit, turn, compaction, copied, exited>>
      /\ phase \in {"running", "stopping"} /\ phase' \in {"stopping", "ending", "served"}
  BY DEF Stop, LoopEnds, pipeVars, nativeVars, sessionVars, boundVars
<1>2. /\ TypeInv /\ PlanOK /\ AdapterOK(adapter) /\ stdin \in Seq(Frames) /\ DriverOK
  BY DEF IInv, TypeInv, PipesOK
<1>3. /\ AdapterOK(adapter') /\ SameTurn(adapter, adapter') /\ stdin' \in Seq(Frames)
      /\ closePending' \in BOOLEAN /\ open' \in BOOLEAN
      /\ phase' = "stopping" => (closePending' => open')
  <2>1. CASE Stop
    <3>1. /\ adapter' = AtClose /\ stdin' = stdin \o CloseFrames
          /\ closePending' = (CloseFrames # <<>>) /\ open' = (CloseFrames # <<>>)
      BY <2>1 DEF Stop
    <3>2. AdapterOK(AtClose) /\ SameTurn(adapter, AtClose) /\ CloseFrames \in Seq(Frames)
      BY <1>2, AtCloseOK
    <3> HIDE DEF AtClose
    <3> QED  BY <1>2, <3>1, <3>2, ConcatProperties
  <2>2. CASE LoopEnds
    <3>1. UNCHANGED <<adapter, stdin, closePending>> /\ open' = FALSE /\ phase' # "stopping"
      BY <2>2 DEF LoopEnds, pipeVars
    <3> QED  BY <1>2, <3>1 DEF SameTurn, DriverOK
  <2> QED  BY <2>1, <2>2
<1>4. Queue' = Queue
  BY <1>1, SameQueue
<1>5. kind = "cursor" => /\ adapter'.worker = adapter.worker /\ adapter'.dirty = adapter.dirty
                         /\ adapter'.terminal = adapter.terminal /\ adapter'.prompt = adapter.prompt
  BY <1>3 DEF SameTurn
<1>6. ExitInv' /\ CopyInv'
  <2>1. ~Gone
    BY <1>1 DEF Gone
  <2>2. ExitInv'
    BY <1>1, <1>4, <2>1 DEF IInv, ExitInv
  <2> QED  BY <1>1, <1>4, <1>5, <2>2 DEF IInv, CopyInv
<1>7. \A p \in Prompts : Untouched(p) => Untouched(p)'
  BY <1>1, <1>4, <1>5 DEF Untouched, Tells
<1>8. BusyInv'
  <2>1. \A p : PromptCall(p)' = PromptCall(p)
    BY <1>1, SameScript DEF PromptCall
  <2>2. kind # "claude" /\ Unfinished(progress)' => NotOver(progress.request)'
    BY <1>1, <1>4, <1>5 DEF IInv, BusyInv, NotOver, Unfinished
  <2>3. kind \in {"codex", "pi"} => adapter'.prompt = adapter.prompt /\ adapter'.compaction = adapter.compaction
    BY <1>3 DEF SameTurn
  <2> QED  BY <1>1, <1>5, <2>1, <2>2, <2>3 DEF IInv, BusyInv
<1>9. /\ OpsOK' /\ CallsOK' /\ CallsOnce'
      /\ \A p \in Prompts : Coming(p)' => Coming(p)
      /\ Open("interrupt")' => Open("interrupt")
      /\ Aims' => progress.request = ops'["interrupt"].target
  BY <1>1, OpsStill
<1>10. DriverOK' /\ PipesOK' /\ NativeOK(native') /\ EventsOK'
       /\ (Unfinished(progress)' => Unfinished(progress))
  BY <1>1, <1>2, <1>3 DEF TypeInv, DriverOK, PipesOK, EventsOK, Unfinished
<1> QED  BY <1>1, <1>3, <1>6, <1>7, <1>8, <1>9, <1>10, Assemble DEF sessionVars

(* The driver leaves: the calls that wait fail, and the exit is told last.   *)
LEMMA LeaveStep ==
  ASSUME IInv, Leave PROVE IInv' /\ Steady
<1>1. /\ UNCHANGED <<kind, uses, adapter, progress, outbox, after, closePending, open,
                     stdin, stdout, native, quit, turn, compaction, copied, exited>>
      /\ phase' = "gone" /\ calls' = <<>> /\ outbox = <<>> /\ HasRoom
      /\ ops' = [op \in Ops |-> IF ops[op].state \in {"queued", "pending"}
                                  THEN [ops[op] EXCEPT !.state = "failed"] ELSE ops[op]]
  BY DEF Leave, pipeVars, nativeVars, sessionVars, boundVars
<1>2. PICK e : /\ e \in Reports /\ e.type = "exited" /\ events' = Append(events, e)
  <2>1. PICK expected : events' = Append(events, Event("exited", None, IF expected THEN "expected" ELSE None))
    BY DEF Leave
  <2> DEFINE s == IF expected THEN "expected" ELSE None
  <2>2. s \in Names
    BY DEF Names, Absent
  <2> HIDE DEF s
  <2>3. Event("exited", None, s) \in Reports /\ Event("exited", None, s).type = "exited"
    BY <2>2 DEF Event, Reports, Happens, Refs, Absent
  <2> QED  BY <2>1, <2>3 DEF s
<1>3. TypeInv /\ EventsOK /\ OpsOK /\ ops \in [Ops -> Operation] /\ AdapterOK(adapter) /\ kind' = kind
  BY <1>1 DEF IInv, TypeInv, OpsOK
<1>4. EventsOK' /\ Grown(<<e>>)
  <2>1. /\ events \in Seq(Reports) /\ Len(events) < EventsMax /\ Len(events) \in Nat
        /\ EventsMax \in Nat
    BY <1>1, <1>3, LenProperties, DriverAssumption DEF EventsOK, HasRoom
  <2>2. events' \in Seq(Reports) /\ Len(events') = Len(events) + 1
    BY <1>2, <2>1, AppendProperties
  <2>3. Queue = events /\ Queue' = events'
    BY <1>1, <2>1, <2>2, ConcatEmptySeq DEF Queue
  <2>4. Queue' = Queue \o <<e>> /\ <<e>> \in Seq(Reports)
    BY <1>2, <2>1, <2>3, AppendIsConcat, Single
  <2>5. Grown(<<e>>)
    BY <1>3, <2>4, QueueGrown
  <2>6. Len(events') <= EventsMax
    BY <2>1, <2>2
  <2> QED  BY <1>1, <1>3, <2>2, <2>5, <2>6 DEF EventsOK
<1>5. DOMAIN <<e>> = 1..1 /\ <<e>>[1] = e
  OBVIOUS
<1>6. /\ ops' \in [Ops -> Operation]
      /\ \A op \in Ops :
           /\ ops'[op].step = ops[op].step /\ ops'[op].target = ops[op].target
           /\ ops'[op].state = IF ops[op].state \in {"queued", "pending"} THEN "failed"
                               ELSE ops[op].state
  <2>1. ASSUME NEW op \in Ops
        PROVE  /\ ops'[op] \in Operation
               /\ ops'[op].step = ops[op].step /\ ops'[op].target = ops[op].target
               /\ ops'[op].state = IF ops[op].state \in {"queued", "pending"} THEN "failed"
                                   ELSE ops[op].state
    <3>1. ops[op] \in Operation /\ "failed" \in Calling
      BY <1>3 DEF Calling
    <3> QED  BY <1>1, <3>1 DEF Operation
  <2> QED  BY <1>1, <2>1
<1>7. OpsOK'
  BY <1>3, <1>6, SameScript DEF OpsOK, Open
<1>8. CallsOK' /\ CallsOnce'
  <2>1. calls' \in Seq(Handed) /\ DOMAIN calls' = {}
    BY <1>1, EmptySeq
  <2>2. \A p \in Prompts : turn'[p] = "none" <=> ops'[p].state = "idle"
    BY <1>1, <1>6, OpsKnown DEF IInv, CallsOnce
  <2> QED  BY <2>1, <2>2 DEF CallsOK, CallsOnce
<1>9. \A p \in Prompts : Coming(p)' => Coming(p)
  <2>1. DOMAIN calls' = {}
    BY <1>1
  <2> QED  BY <1>1, <1>6, <2>1, OpsKnown DEF Coming
<1>10. /\ Open("interrupt")' => Open("interrupt")
       /\ Aims' => progress'.request = ops'["interrupt"].target
  <2>1. "interrupt" \in Ops
    BY OpsKnown
  <2>2. Aims' => Aims
    BY <1>3, <1>6, <2>1 DEF Aims
  <2> QED  BY <1>1, <1>6, <2>1, <2>2 DEF Open, IInv, InterruptInv
<1>11. ExitInv' /\ CopyInv'
  <2>1. ExitInv'
    BY <1>1, <1>4, <1>5, GrownKeeps DEF Gone
  <2>2. CASE kind = "cursor"
    <3>1. adapter'.terminal # None => adapter'.dirty \/ adapter'.worker = adapter'.terminal.request
      BY <1>1, <2>2 DEF IInv, CopyInv
    <3>2. \A j \in DOMAIN <<e>> : <<e>>[j].type # "finished"
      BY <1>2, <1>5
    <3>3. CopyInv'
      BY <1>1, <1>4, <1>5, <2>2, <3>1, <3>2, GrownCopies
    <3> QED  BY <2>1, <3>3
  <2>3. CASE kind # "cursor"
    BY <1>3, <2>1, <2>3 DEF CopyInv
  <2> QED  BY <2>2, <2>3
<1>12. \A p \in Prompts : Untouched(p) => Untouched(p)'
  <2>1. \A p, i : i \in DOMAIN <<e>> => ~Tells(<<e>>[i], p)
    BY <1>2, <1>5 DEF Tells
  <2>2. \A p : (\A i \in DOMAIN Queue : ~Tells(Queue[i], p)) => \A i \in DOMAIN Queue' : ~Tells(Queue'[i], p)
    BY <1>1, <1>4, <2>1, GrownKeeps DEF Gone
  <2> QED  BY <1>1, <2>2 DEF Untouched, Tells
<1>13. BusyInv'
  <2>1. kind # "claude" /\ Unfinished(progress)' => NotOver(progress.request)'
    <3> SUFFICES ASSUME kind # "claude", Unfinished(progress) PROVE NotOver(progress.request)'
      BY <1>1 DEF Unfinished
    <3>1. NotOver(progress.request) /\ progress.request \in Ops
      BY OpsKnown DEF IInv, BusyInv, TypeInv, DriverOK, Turned, Unfinished, Refs, Absent
    <3>2. \A i \in DOMAIN <<e>> : <<e>>[i].type # "finished"
      BY <1>2, <1>5
    <3>3. \A i \in DOMAIN Queue' : ~(Queue'[i].type = "finished" /\ Queue'[i].request = progress.request)
      BY <1>1, <1>4, <3>1, <3>2, GrownKeeps DEF NotOver, Gone
    <3> QED  BY <1>1, <1>6, <3>1, <3>3 DEF NotOver
  <2>2. kind = "cursor" /\ progress'.request # None =>
          ops'[progress'.request].state \in {"ok", "failed"}
    <3>1. progress.request # None => progress.request \in Ops
      BY OpsKnown DEF IInv, TypeInv, DriverOK, Turned, Refs, Absent
    <3> QED  BY <1>1, <1>6, <3>1 DEF IInv, BusyInv
  <2>3. \A p : PromptCall(p)' = PromptCall(p)
    BY <1>3, SameScript DEF PromptCall
  <2> QED  BY <1>1, <2>1, <2>2, <2>3 DEF IInv, BusyInv
<1>14. DriverOK' /\ PipesOK' /\ NativeOK(native') /\ AdapterOK(adapter')
       /\ (Unfinished(progress)' => Unfinished(progress))
  BY <1>1, <1>3 DEF TypeInv, DriverOK, PipesOK, Unfinished
<1> QED  BY <1>1, <1>4, <1>7, <1>8, <1>9, <1>10, <1>11, <1>12, <1>13, <1>14, Assemble DEF sessionVars

(* The session takes the first of the events on their way.                   *)
LEMMA QueueShrinks ==
  ASSUME EventsOK, events # <<>>, events' = Tail(events), outbox' = outbox
  PROVE  /\ EventsOK' /\ Head(events) \in Reports
         /\ 1 \in DOMAIN Queue /\ Queue[1] = Head(events)
         /\ DOMAIN Queue' \subseteq Nat \ {0} /\ DOMAIN Queue \subseteq Nat \ {0}
         /\ \A i \in DOMAIN Queue' : i + 1 \in DOMAIN Queue /\ Queue'[i] = Queue[i + 1]
         /\ \A i \in DOMAIN Queue : i # 1 => i - 1 \in DOMAIN Queue' /\ Queue'[i - 1] = Queue[i]
<1>1. /\ events \in Seq(Reports) /\ outbox \in Seq(Reports) /\ Len(events) \in Nat
      /\ Len(outbox) \in Nat /\ Len(events) # 0 /\ Len(events) <= EventsMax /\ EventsMax \in Nat
  BY LenProperties, EmptySeq, DriverAssumption DEF EventsOK
<1> DEFINE t == Tail(events)
<1>2. /\ t \in Seq(Reports) /\ Len(t) = Len(events) - 1 /\ Head(events) \in Reports
      /\ \A i \in 1..Len(t) : t[i] = events[i + 1]
      /\ Head(events) = events[1]
  BY <1>1, HeadTailProperties
<1> HIDE DEF t
<1>3. /\ Queue \in Seq(Reports) /\ Len(Queue) = Len(events) + Len(outbox)
      /\ \A i \in 1..(Len(events) + Len(outbox)) : Queue[i] =
           IF i <= Len(events) THEN events[i] ELSE outbox[i - Len(events)]
  BY <1>1, ConcatProperties DEF Queue
<1>4. /\ t \o outbox \in Seq(Reports) /\ Len(t \o outbox) = Len(t) + Len(outbox)
      /\ \A i \in 1..(Len(t) + Len(outbox)) : (t \o outbox)[i] =
           IF i <= Len(t) THEN t[i] ELSE outbox[i - Len(t)]
  BY <1>1, <1>2, ConcatProperties
<1>5. Queue' = t \o outbox
  BY DEF Queue, t
<1>6. /\ DOMAIN Queue = 1..(Len(events) + Len(outbox))
      /\ DOMAIN Queue' = 1..((Len(events) - 1) + Len(outbox))
  BY <1>2, <1>3, <1>4, <1>5, LenProperties
<1>7. 1 \in DOMAIN Queue /\ Queue[1] = Head(events)
  BY <1>1, <1>2, <1>3, <1>6
<1>8. ASSUME NEW i \in DOMAIN Queue'
      PROVE  i + 1 \in DOMAIN Queue /\ Queue'[i] = Queue[i + 1]
  <2>1. i \in 1..(Len(t) + Len(outbox)) /\ i + 1 \in 1..(Len(events) + Len(outbox))
    BY <1>1, <1>2, <1>6
  <2>2. CASE i <= Len(t)
    <3>1. i \in 1..Len(t) /\ i + 1 <= Len(events)
      BY <1>1, <1>2, <2>1, <2>2
    <3> QED  BY <1>2, <1>3, <1>4, <1>5, <1>6, <2>1, <2>2, <3>1
  <2>3. CASE ~(i <= Len(t))
    <3>1. ~(i + 1 <= Len(events)) /\ i - Len(t) = (i + 1) - Len(events)
      <4>1. Len(t) = Len(events) - 1 /\ Len(events) \in Nat /\ i \in Nat
        BY <1>1, <1>2, <2>1
      <4> QED  BY <2>3, <4>1
    <3> QED  BY <1>3, <1>4, <1>5, <1>6, <2>1, <2>3, <3>1
  <2> QED  BY <2>2, <2>3
<1>9. \A i \in DOMAIN Queue : i # 1 => i - 1 \in DOMAIN Queue' /\ Queue'[i - 1] = Queue[i]
  <2> SUFFICES ASSUME NEW i \in DOMAIN Queue, i # 1
               PROVE  i - 1 \in DOMAIN Queue' /\ Queue'[i - 1] = Queue[i]
    OBVIOUS
  <2>1. i - 1 \in DOMAIN Queue' /\ (i - 1) + 1 = i
    BY <1>1, <1>6
  <2> QED  BY <1>8, <2>1
<1>10. EventsOK'
  <2>1. events' = t /\ Len(t) <= EventsMax
    BY <1>1, <1>2 DEF t
  <2> QED  BY <1>1, <1>2, <2>1 DEF EventsOK
<1> QED  BY <1>1, <1>2, <1>6, <1>7, <1>8, <1>9, <1>10

(* The session records an event: a turn begins or ends for it, or all are    *)
(* lost.                                                                     *)
LEMMA RecordStep ==
  ASSUME IInv, Record PROVE IInv' /\ Steady
<1>0. PICK e : e = Head(events)
  OBVIOUS
<1>1. /\ UNCHANGED <<kind, uses, adapter, progress, outbox, after, phase, closePending, open, ops,
                     calls, stdin, stdout, native, quit>>
      /\ events # <<>> /\ events' = Tail(events)
      /\ turn' = CASE e.type = "started"  -> [turn EXCEPT ![e.request] = "started"]
                   [] e.type = "finished" -> [turn EXCEPT ![e.request] = "finished"]
                   [] e.type = "exited"   -> Lost
                   [] OTHER               -> turn
      /\ compaction' \in {compaction, "ended"}
      /\ exited' = (exited \/ e.type = "exited")
      /\ copied' = IF e.type = "copied" THEN copied \cup {e.request} ELSE copied
  BY <1>0 DEF Record, driverVars, pipeVars, nativeVars, boundVars
<1>2. /\ TypeInv /\ PlanOK /\ EventsOK /\ OpsOK /\ CallsOK /\ kind' = kind
      /\ turn \in [Prompts -> {"none", "sent", "started", "finished", "refused", "lost"}]
      /\ exited \in BOOLEAN
  BY <1>1 DEF IInv, TypeInv, SessionOK
<1>3. /\ EventsOK' /\ e \in Reports /\ 1 \in DOMAIN Queue /\ Queue[1] = e
      /\ DOMAIN Queue' \subseteq Nat \ {0} /\ DOMAIN Queue \subseteq Nat \ {0}
      /\ \A i \in DOMAIN Queue' : i + 1 \in DOMAIN Queue /\ Queue'[i] = Queue[i + 1]
      /\ \A i \in DOMAIN Queue : i # 1 => i - 1 \in DOMAIN Queue' /\ Queue'[i - 1] = Queue[i]
  BY <1>0, <1>1, <1>2, QueueShrinks
<1>4. /\ turn' \in [Prompts -> {"none", "sent", "started", "finished", "refused", "lost"}]
      /\ \A p \in Prompts :
           \/ turn'[p] = turn[p] /\ ~Tells(e, p)
           \/ e.type \in {"started", "finished"} /\ e.request = p /\ turn'[p] = e.type
           \/ e.type = "exited" /\ turn[p] \in {"sent", "started"} /\ turn'[p] = "lost"
  <2>1. CASE e.type = "started"
    <3>1. turn' = [turn EXCEPT ![e.request] = "started"]
      BY <1>1, <2>1
    <3> QED  BY <1>2, <2>1, <3>1 DEF Tells
  <2>2. CASE e.type = "finished"
    <3>1. turn' = [turn EXCEPT ![e.request] = "finished"]
      BY <1>1, <2>2
    <3> QED  BY <1>2, <2>2, <3>1 DEF Tells
  <2>3. CASE e.type = "exited"
    <3>1. turn' = Lost
      BY <1>1, <2>3
    <3> QED  BY <1>2, <2>3, <3>1 DEF Tells, Lost
  <2>4. CASE e.type \notin {"started", "finished", "exited"}
    <3>1. turn' = turn
      BY <1>1, <2>4
    <3> QED  BY <1>2, <2>4, <3>1 DEF Tells
  <2> QED  BY <2>1, <2>2, <2>3, <2>4
<1>5. \A p \in Prompts : Coming(p) => /\ ~Tells(e, p) /\ Untouched(p)'
                                      /\ turn[p] \in {"none", "sent", "lost"}
  <2> SUFFICES ASSUME NEW p \in Prompts, Coming(p)
               PROVE  ~Tells(e, p) /\ Untouched(p)' /\ turn[p] \in {"none", "sent", "lost"}
    OBVIOUS
  <2>1. Untouched(p) /\ turn[p] \in {"none", "sent", "lost"}
    BY DEF IInv, ComingInv
  <2>2. ~Tells(e, p) /\ \A i \in DOMAIN Queue' : ~Tells(Queue'[i], p)
    BY <1>3, <2>1 DEF Untouched
  <2> QED  BY <1>1, <2>1, <2>2 DEF Untouched, Tells
<1>6. \A p \in Prompts : /\ turn'[p] = "none" <=> turn[p] = "none"
                         /\ turn'[p] = "sent" => turn[p] = "sent"
  <2> SUFFICES ASSUME NEW p \in Prompts
               PROVE  /\ turn'[p] = "none" <=> turn[p] = "none"
                      /\ turn'[p] = "sent" => turn[p] = "sent"
    OBVIOUS
  <2>1. turn[p] = "none" => ~Tells(e, p)
    BY <1>5 DEF Coming
  <2> QED  BY <1>4, <2>1 DEF Tells
<1>7. \A p \in Prompts : Coming(p)' => Coming(p)
  BY <1>1, <1>6, SameScript DEF Coming
<1>8. OpsOK' /\ CallsOK' /\ CallsOnce'
  <2>1. OpsOK'
    BY <1>1, <1>2, SameScript DEF OpsOK, Open
  <2>2. CallsOK'
    BY <1>1, <1>2, NoneDropped, DroppedOK
  <2> QED  BY <1>1, <1>6, <2>1, <2>2 DEF IInv, CallsOnce
<1>9. TypeInv'
  <2>1. PlanOK' /\ PipesOK' /\ DriverOK' /\ AdapterOK(adapter)' /\ NativeOK(native)'
    BY <1>1, <1>2 DEF TypeInv, PlanOK, PipesOK, DriverOK, AdapterOK, NativeOK
  <2>2. SessionOK'
    BY <1>1, <1>2, <1>4 DEF TypeInv, SessionOK
  <2> QED  BY <1>3, <1>8, <2>1, <2>2 DEF TypeInv
<1>10. ComingInv' /\ SentOnce' /\ FreeInv'
  <2>1. ComingInv'
    <3> SUFFICES ASSUME NEW p \in Prompts, Coming(p)
                 PROVE  turn'[p] \in {"none", "sent", "lost"} /\ Untouched(p)'
      BY <1>7 DEF ComingInv
    <3> QED  BY <1>4, <1>5 DEF Tells
  <2>2. SentOnce'
    BY <1>6 DEF IInv, SentOnce
  <2>3. FreeInv'
    BY <1>1, <1>6, <1>7 DEF IInv, FreeInv, Unfinished
  <2> QED  BY <2>1, <2>2, <2>3
<1>11. InterruptInv'
  <2>1. (Open("interrupt")' <=> Open("interrupt")) /\ (Aims' <=> Aims)
    BY <1>1 DEF Open, Aims
  <2> QED  BY <1>1, <1>6, <1>7, <2>1 DEF IInv, InterruptInv
<1>12. ExitInv'
  <2>1. e.type = "exited" => Gone
    BY <1>3 DEF IInv, ExitInv
  <2>2. Gone' <=> Gone
    BY <1>1 DEF Gone
  <2>3. \A i \in DOMAIN Queue' : Queue'[i].type = "exited" => Gone'
    BY <1>3, <2>2 DEF IInv, ExitInv
  <2>4. \A p \in Prompts : turn'[p] = "lost" => exited'
    BY <1>1, <1>2, <1>4 DEF IInv, ExitInv
  <2> QED  BY <1>1, <1>2, <2>1, <2>2, <2>3, <2>4 DEF IInv, ExitInv
<1>13. BusyInv'
  <2>1. kind # "claude" /\ Unfinished(progress)' => NotOver(progress.request)'
    <3> SUFFICES ASSUME kind # "claude", Unfinished(progress) PROVE NotOver(progress.request)'
      BY <1>1 DEF Unfinished
    <3>1. NotOver(progress.request) /\ progress.request \in Prompts
      BY DEF IInv, BusyInv, TypeInv, DriverOK, Turned, Unfinished, Refs, Absent
    <3>2. ~(e.type = "finished" /\ e.request = progress.request)
      BY <1>3, <3>1 DEF NotOver
    <3>3. turn'[progress.request] \in {"sent", "started", "lost"}
      BY <1>4, <3>1, <3>2 DEF NotOver
    <3>4. \A i \in DOMAIN Queue' : ~(Queue'[i].type = "finished" /\ Queue'[i].request = progress.request)
      BY <1>3, <3>1 DEF NotOver
    <3> QED  BY <1>1, <3>1, <3>3, <3>4 DEF NotOver
  <2>2. \A p : PromptCall(p)' = PromptCall(p)
    BY <1>1, SameScript DEF PromptCall
  <2> QED  BY <1>1, <2>1, <2>2 DEF IInv, BusyInv
<1>14. CopyInv'
  <2> SUFFICES ASSUME kind = "cursor" PROVE CopyInv'
    BY <1>1 DEF CopyInv
  <2>1. copied \subseteq copied' /\ (e.type = "copied" => e.request \in copied')
    BY <1>1
  <2>2. ASSUME NEW j \in DOMAIN Queue', Queue'[j].type = "finished"
        PROVE  \/ Queue'[j].request \in copied'
               \/ \E i \in 1..(j - 1) : Queue'[i].type = "copied" /\ Queue'[i].request = Queue'[j].request
    <3>1. j + 1 \in DOMAIN Queue /\ Queue'[j] = Queue[j + 1] /\ j \in Nat \ {0}
      BY <1>3
    <3>2. CASE Queue[j + 1].request \in copied
      BY <2>1, <3>1, <3>2
    <3>3. CASE \E i \in 1..((j + 1) - 1) : Queue[i].type = "copied" /\ Queue[i].request = Queue[j + 1].request
      <4>1. PICK i \in 1..((j + 1) - 1) : Queue[i].type = "copied" /\ Queue[i].request = Queue[j + 1].request
        BY <3>3
      <4>2. CASE i = 1
        BY <1>3, <2>1, <3>1, <4>1, <4>2
      <4>3. CASE i # 1
        <5>1. i - 1 \in 1..(j - 1) /\ i - 1 \in DOMAIN Queue' /\ (i - 1) + 1 = i
          <6>1. i - 1 \in 1..(j - 1) /\ (i - 1) + 1 = i
            BY <3>1, <4>3
          <6>2. j \in 1..Len(Queue') /\ DOMAIN Queue' = 1..Len(Queue') /\ Len(Queue') \in Nat
            <7>1. Queue' \in Seq(Reports)
              BY <1>3, ConcatProperties DEF EventsOK, Queue
            <7> QED  BY <7>1, LenProperties
          <6> QED  BY <3>1, <6>1, <6>2
        <5>2. Queue'[i - 1] = Queue[i]
          BY <1>3, <5>1
        <5> QED  BY <3>1, <4>1, <5>1, <5>2
      <4> QED  BY <4>2, <4>3
    <3> QED  BY <2>2, <3>1, <3>2, <3>3 DEF IInv, CopyInv
  <2>3. \A p \in Prompts : turn'[p] = "finished" => p \in copied'
    <3> SUFFICES ASSUME NEW p \in Prompts, turn'[p] = "finished" PROVE p \in copied'
      OBVIOUS
    <3>1. CASE turn[p] = "finished"
      BY <2>1, <3>1 DEF IInv, CopyInv
    <3>2. CASE turn[p] # "finished"
      <4>1. e.type = "finished" /\ e.request = p
        BY <1>4, <3>2
      <4>2. \/ e.request \in copied
            \/ \E i \in 1..(1 - 1) : Queue[i].type = "copied" /\ Queue[i].request = e.request
        BY <1>3, <4>1 DEF IInv, CopyInv
      <4> QED  BY <2>1, <4>1, <4>2
    <3> QED  BY <3>1, <3>2
  <2> QED  BY <1>1, <2>2, <2>3 DEF IInv, CopyInv
<1> QED  BY <1>7, <1>8, <1>9, <1>10, <1>11, <1>12, <1>13, <1>14 DEF IInv, Steady

(* The program takes a frame or works.                                       *)
LEMMA NativeStep ==
  ASSUME IInv, NativeTakes \/ NativeWorks PROVE IInv' /\ Steady
<1>1. /\ UNCHANGED <<kind, uses, adapter, progress, outbox, after, phase, closePending, open, ops,
                     calls, events, quit, turn, compaction, copied, exited>>
  BY DEF NativeTakes, NativeWorks, driverVars, sessionVars, boundVars
<1>2. /\ TypeInv /\ PlanOK /\ EventsOK /\ NativeOK(native) /\ AdapterOK(adapter)
      /\ stdin \in Seq(Frames) /\ stdout \in Seq(Messages)
  BY DEF IInv, TypeInv, PipesOK
<1>3. PICK r : Says(r) /\ native' = r.native /\ stdout' = stdout \o r.out /\ stdin' \in Seq(Frames)
  <2>1. CASE NativeTakes
    <3>1. Head(stdin) \in Frames /\ Tail(stdin) \in Seq(Frames) /\ stdin' = Tail(stdin)
      BY <1>2, <2>1, HeadTailProperties DEF NativeTakes
    <3>2. PICK r \in Takes(Head(stdin)) : native' = r.native /\ stdout' = stdout \o r.out
      BY <2>1 DEF NativeTakes
    <3>3. Says(r)
      BY <1>2, <3>1, TakesOK
    <3> QED  BY <3>1, <3>2, <3>3
  <2>2. CASE NativeWorks
    <3>1. PICK r \in Works : native' = r.native /\ stdout' = stdout \o r.out
      BY <2>2 DEF NativeWorks
    <3>2. Says(r) /\ stdin' = stdin
      BY <1>2, <2>2, WorksOK DEF NativeWorks
    <3> QED  BY <1>2, <3>1, <3>2
  <2> QED  BY <2>1, <2>2
<1>4. NativeOK(native')
  BY <1>3 DEF Says
<1> DEFINE out == r.out
<1>12. /\ out \in Seq(Messages) /\ stdout' = stdout \o out
       /\ kind = "codex" => \A i \in DOMAIN out :
            out[i].type = "response" => out[i].status \in {"ok", "error"}
  BY <1>3 DEF Says
<1> HIDE DEF out
<1>5. /\ stdout' \in Seq(Messages)
      /\ \A i \in DOMAIN stdout' :
           \/ \E j \in DOMAIN stdout : stdout'[i] = stdout[j]
           \/ \E j \in DOMAIN out : stdout'[i] = out[j]
  <2>1. /\ stdout' \in Seq(Messages) /\ Len(stdout') = Len(stdout) + Len(out)
        /\ \A i \in 1..(Len(stdout) + Len(out)) : stdout'[i] =
             IF i <= Len(stdout) THEN stdout[i] ELSE out[i - Len(stdout)]
    BY <1>2, <1>12, ConcatProperties
  <2>2. /\ Len(stdout) \in Nat /\ Len(out) \in Nat /\ DOMAIN stdout = 1..Len(stdout)
        /\ DOMAIN out = 1..Len(out) /\ DOMAIN stdout' = 1..Len(stdout')
    BY <1>2, <1>12, <2>1, LenProperties
  <2>3. ASSUME NEW i \in DOMAIN stdout'
        PROVE  \/ \E j \in DOMAIN stdout : stdout'[i] = stdout[j]
               \/ \E j \in DOMAIN out : stdout'[i] = out[j]
    <3>1. CASE i <= Len(stdout)
      BY <2>1, <2>2, <3>1
    <3>2. CASE ~(i <= Len(stdout))
      <4>1. i - Len(stdout) \in DOMAIN out /\ stdout'[i] = out[i - Len(stdout)]
        BY <2>1, <2>2, <3>2
      <4> QED  BY <4>1
    <3> QED  BY <3>1, <3>2
  <2> QED  BY <2>1, <2>3
<1>6. kind = "codex" => \A i \in DOMAIN stdout' :
        stdout'[i].type = "response" => stdout'[i].status \in {"ok", "error"}
  <2>1. kind = "codex" => \A i \in DOMAIN stdout :
          stdout[i].type = "response" => stdout[i].status \in {"ok", "error"}
    BY DEF IInv, BusyInv
  <2> QED  BY <1>5, <1>12, <2>1
<1>7. Queue' = Queue /\ (Unfinished(progress)' <=> Unfinished(progress))
  BY <1>1, SameQueue DEF Unfinished
<1>8. /\ OpsOK' /\ CallsOK' /\ CallsOnce'
      /\ \A p \in Prompts : Coming(p)' => Coming(p)
      /\ Open("interrupt")' => Open("interrupt")
      /\ Aims' => progress.request = ops'["interrupt"].target
  BY <1>1, OpsStill
<1>9. ExitInv' /\ CopyInv' /\ \A p \in Prompts : Untouched(p) => Untouched(p)'
  BY <1>1, <1>7 DEF IInv, ExitInv, CopyInv, Untouched, Tells, Gone
<1>10. BusyInv'
  <2>1. \A p : PromptCall(p)' = PromptCall(p)
    BY <1>1, SameScript DEF PromptCall
  <2>2. \A p : NotOver(p)' <=> NotOver(p)
    BY <1>1, <1>7 DEF NotOver
  <2> QED  BY <1>1, <1>6, <1>7, <2>1, <2>2 DEF IInv, BusyInv
<1>11. DriverOK' /\ PipesOK' /\ EventsOK' /\ AdapterOK(adapter')
  BY <1>1, <1>2, <1>3, <1>5 DEF TypeInv, DriverOK, PipesOK, EventsOK
<1> QED  BY <1>1, <1>4, <1>7, <1>8, <1>9, <1>10, <1>11, Assemble DEF sessionVars

-----------------------------------------------------------------------------
(* At the beginning only the start of the harness is under way.              *)
LEMMA FirstAdapter ==
  ASSUME PlanOK, adapter = Adapter0[kind], native = Native0[kind]
  PROVE  AdapterOK(adapter) /\ NativeOK(native)
         /\ (kind = "cursor" => adapter.terminal = None)
         /\ (kind \in {"codex", "pi"} => adapter.prompt = None)
         /\ (kind = "pi" => adapter.compaction = None)
         /\ (kind = "cursor" => adapter.prompt = None)
<1>0. /\ None \in Absent /\ None \in Refs /\ None \in TurnRefs
      /\ \A T : <<>> \in Seq(T) /\ {} \in SUBSET T
  BY DEF Absent, Refs, TurnRefs
<1>1. CASE kind = "codex"
  <2>1. adapter = Codex!Adapter0 /\ native = Codex!Native0
    BY <1>1 DEF Adapter0, Native0
  <2>2. adapter \in CodexAdapters /\ adapter.prompt = None
    BY <1>0, <2>1 DEF Codex!Adapter0, CodexAdapters
  <2>3. native \in CodexNatives
    BY <1>0, <2>1 DEF Codex!Native0, CodexNatives
  <2> QED  BY <1>1, <2>2, <2>3 DEF AdapterOK, NativeOK
<1>2. CASE kind = "claude"
  <2>1. adapter = Claude!Adapter0 /\ native = Claude!Native0
    BY <1>2 DEF Adapter0, Native0
  <2>2. adapter \in ClaudeAdapters
    BY <1>0, <2>1 DEF Claude!Adapter0, ClaudeAdapters, Claude!NoAnswer, Replies
  <2>3. native \in ClaudeNatives
    BY <1>0, <2>1 DEF Claude!Native0, ClaudeNatives
  <2> QED  BY <1>2, <2>2, <2>3 DEF AdapterOK, NativeOK
<1>3. CASE kind = "pi"
  <2>1. adapter = Pi!Adapter0 /\ native = Pi!Native0
    BY <1>3 DEF Adapter0, Native0
  <2>2. adapter \in PiAdapters /\ adapter.prompt = None /\ adapter.compaction = None
    BY <1>0, <2>1 DEF Pi!Adapter0, PiAdapters
  <2>3. native \in PiNatives
    BY <1>0, <2>1 DEF Pi!Native0, PiNatives
  <2> QED  BY <1>3, <2>2, <2>3 DEF AdapterOK, NativeOK
<1>4. CASE kind = "cursor"
  <2>1. adapter = Cursor!Adapter0 /\ native = Cursor!Native0
    BY <1>4 DEF Adapter0, Native0
  <2>2. adapter \in CursorAdapters /\ adapter.terminal = None /\ adapter.prompt = None
    BY <1>0, <2>1 DEF Cursor!Adapter0, CursorAdapters
  <2>3. native \in CursorNatives
    BY <1>0, <2>1 DEF Cursor!Native0, CursorNatives
  <2> QED  BY <1>4, <2>2, <2>3 DEF AdapterOK, NativeOK
<1> QED  BY <1>1, <1>2, <1>3, <1>4, KindKnown

(* The invariant holds in the beginning.                                     *)
LEMMA InitStep == Init => IInv
<1> SUFFICES ASSUME Init PROVE IInv
  OBVIOUS
<1>1. PlanOK
  BY DEF Init, PlanOK
<1>2. \A op \in Ops : /\ ops[op].state = (IF op = "start" THEN "ready" ELSE "idle")
                      /\ ops[op].step = 1 /\ ops[op].target = None
  BY DEF Init
<1>3. ops \in [Ops -> Operation]
  BY DEF Init, Operation, Calling, Refs, Absent
<1>4. \A p \in Prompts : ops[p].state = "idle"
  BY <1>2, OpsKnown
<1>5. /\ ops["interrupt"].state = "idle" /\ ops["start"].state = "ready"
      /\ ops["start"].step = 1 /\ "start" \in Ops /\ 1 \in DOMAIN Script("start")
  <2>1. 1 \in DOMAIN Script("start")
    BY <1>1, ControlScript
  <2> QED  BY <1>2, <2>1, OpsKnown
<1>6. /\ calls = <<>> /\ outbox = <<>> /\ events = <<>> /\ stdin = <<>> /\ stdout = <<>>
      /\ progress = Resting /\ after = None /\ ~exited
      /\ turn = [p \in Prompts |-> "none"]
  BY DEF Init
<1>7. /\ DOMAIN calls = {} /\ DOMAIN stdout = {} /\ Queue = <<>> /\ DOMAIN Queue = {}
      /\ Len(events) = 0
  BY <1>6 DEF Queue
<1>8. /\ AdapterOK(adapter) /\ NativeOK(native)
      /\ (kind = "cursor" => adapter.terminal = None)
      /\ (kind = "cursor" => adapter.prompt = None)
      /\ (kind = "pi" => adapter.compaction = None)
  BY <1>1, FirstAdapter DEF Init
<1>9. progress.request = None /\ ~Unfinished(progress) /\ progress \in Turned
  BY <1>6 DEF Resting, Unfinished, Turned, Refs, TurnRefs, Absent, Names
<1>10. TypeInv
  <2>1. OpsOK
    BY <1>2, <1>3, <1>5 DEF OpsOK, Open
  <2>2. CallsOK /\ PipesOK
    BY <1>6, <1>7 DEF CallsOK, PipesOK
  <2>3. EventsOK
    BY <1>6, <1>7, DriverAssumption DEF EventsOK
  <2>4. DriverOK
    BY <1>9 DEF Init, DriverOK, Absent
  <2>5. SessionOK
    BY DEF Init, SessionOK
  <2> QED  BY <1>1, <1>8, <2>1, <2>2, <2>3, <2>4, <2>5 DEF TypeInv
<1>11. CallsOnce
  BY <1>4, <1>6, <1>7 DEF CallsOnce
<1>12. ComingInv
  BY <1>6, <1>7, <1>8, <1>9, NamesAssumption DEF ComingInv, Untouched
<1>13. SentOnce /\ FreeInv /\ ExitInv
  BY <1>6, <1>7, <1>9 DEF SentOnce, FreeInv, ExitInv
<1>14. InterruptInv
  BY <1>5, <1>6 DEF InterruptInv, Aims, Open
<1>15. BusyInv
  BY <1>6, <1>7, <1>8, <1>9 DEF BusyInv
<1>16. CopyInv
  BY <1>6, <1>7, <1>8 DEF CopyInv
<1> QED  BY <1>10, <1>11, <1>12, <1>13, <1>14, <1>15, <1>16 DEF IInv

(* Every step of the session, of the Handle, of the driver and of the        *)
(* program keeps the invariant.                                              *)
LEMMA NextStep == IInv /\ [Next]_vars => IInv' /\ Steady
<1> SUFFICES ASSUME IInv, [Next]_vars PROVE IInv' /\ Steady
  OBVIOUS
<1>1. ASSUME NEW p \in Prompts, SendPrompt(p) PROVE IInv' /\ Steady
  BY <1>1, SendPromptStep
<1>2. ASSUME NEW op \in Ops, Control(op) PROVE IInv' /\ Steady
  BY <1>2, ControlStep
<1>3. ASSUME NEW op \in Ops, HandleStep(op) PROVE IInv' /\ Steady
  BY <1>3, CallStepStep, SettleStep DEF HandleStep
<1>4. ASSUME NEW op \in Ops, TimeOut(op) PROVE IInv' /\ Steady
  BY <1>4, TimeOutStep
<1>5. CASE Compact
  BY <1>5, CompactStep
<1>6. CASE SessionLearns
  BY <1>6, LearnStep
<1>7. CASE Record
  BY <1>7, RecordStep
<1>8. CASE Shutdown \/ Freeze \/ Thaw \/ NativeExits \/ UNCHANGED vars
  BY <1>8, RestStep
<1>9. CASE DriverStep
  BY <1>9, DenyStep, AcceptStep, ReadStep, SendStep, TickStep, EndStep, LeaveStep
     DEF DriverStep
<1>10. CASE NativeTakes \/ NativeWorks
  BY <1>10, NativeStep
<1> QED  BY <1>1, <1>2, <1>3, <1>4, <1>5, <1>6, <1>7, <1>8, <1>9, <1>10 DEF Next

(* The invariant holds in every reachable state.                             *)
THEOREM Invariant == Spec => []IInv
BY InitStep, NextStep, PTL DEF Spec

(* The channels, the pipes and the records hold what the code puts there,    *)
(* and the channel to the session never more than it has room for.           *)
THEOREM TypesHold == Spec => []TypeOK
<1>1. IInv => TypeOK
  <2> SUFFICES ASSUME IInv PROVE TypeOK
    OBVIOUS
  <2>1. /\ PlanOK /\ OpsOK /\ CallsOK /\ PipesOK /\ EventsOK /\ DriverOK /\ SessionOK
    BY DEF IInv, TypeInv
  <2>2. progress.request \in Prompts \cup {None}
    BY <2>1 DEF DriverOK, Turned, Refs, Absent
  <2>3. \A op \in Ops : /\ ops[op].state \in Calling
                        /\ ops[op].target \in Prompts \cup {None}
                        /\ Open(op) => ops[op].step \in DOMAIN Script(op)
    BY <2>1 DEF OpsOK, Operation, Refs, Absent
  <2>4. \A i \in DOMAIN calls : calls[i].op \in Ops
    BY <2>1 DEF CallsOK, CallOK, Handed
  <2>5. \A i \in DOMAIN stdin : stdin[i].ref \in Prompts \cup {None}
    <3>1. stdin \in Seq(Frames)
      BY <2>1 DEF PipesOK
    <3>2. \A i \in DOMAIN stdin : stdin[i] \in Frames
      BY <3>1, ElementOfSeq, LenProperties
    <3> QED  BY <3>2 DEF Frames, Refs, Absent
  <2> QED  BY <2>1, <2>2, <2>3, <2>4, <2>5
           DEF TypeOK, PlanOK, EventsOK, DriverOK, SessionOK
<1> QED  BY <1>1, Invariant, PTL

(* An interrupt of Codex that waits for the end of a turn watches the        *)
(* progress of that turn, never that of the next prompt.                     *)
THEOREM InterruptsAim == Spec => []InterruptSeesItsTurn
<1>1. IInv => InterruptSeesItsTurn
  <2> SUFFICES ASSUME IInv, NEW op \in Ops, ops[op].state = "settling"
               PROVE  progress.request = ops[op].target
    BY DEF InterruptSeesItsTurn
  <2>1. kind = "codex" /\ op = "interrupt"
    BY DEF IInv, TypeInv, OpsOK
  <2> QED  BY <2>1 DEF IInv, InterruptInv, Aims
<1> QED  BY <1>1, Invariant, PTL

(* Between turns the driver takes the next prompt: it is denied as busy only *)
(* by Claude's adapter.                                                      *)
THEOREM PromptsFindItFree == Spec => []FreeBetweenTurns
BY Free, Invariant, PTL

(* A Cursor turn has ended for the session only when its chat was copied.    *)
THEOREM HistoriesComplete == Spec => []HistoryBeforeEnd
<1>1. IInv => HistoryBeforeEnd
  BY DEF IInv, CopyInv, HistoryBeforeEnd
<1> QED  BY <1>1, Invariant, PTL
=============================================================================
