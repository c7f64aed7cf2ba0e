--------------------------------- MODULE Pi ---------------------------------
(* The Pi adapter (runtime/pi.rs) and, as far as the adapter sees it, the    *)
(* native program.  Operators only: Driver holds the state.  Records of      *)
(* items, usage and native history, rewinds (forks) and delegation are left  *)
(* out.                                                                      *)
EXTENDS Wire

(* accepted: Pi answered the prompt.  mask: the frames of a close that Pi    *)
(* has confirmed.                                                            *)
Adapter0 == [prompt |-> None, compaction |-> None, accepted |-> FALSE,
             interrupting |-> FALSE, mask |-> {}]

Script(op) ==
  CASE op = "start"     -> <<Step("call", "get_state"), Step("call", "get_commands"),
                             Step("call", "get_fork_messages")>>
    [] op = "interrupt" -> <<Step("control", "clear_queue"), Step("control", "abort")>>
    [] op = "steer"     -> <<Step("control", "steer")>>
    [] op = "compact"   -> <<Step("call", "compact")>>
    [] OTHER            -> <<Step("call", "get_available_thinking_levels"),
                             Step("call", "set_thinking_level"),
                             Step("call", "get_state"), Step("request", "prompt")>>

Encode(a, id, method, request) ==
  [a EXCEPT !.prompt       = IF request # None THEN id ELSE @,
            !.accepted     = @ /\ request = None,
            !.interrupting = (@ /\ request = None) \/ method = "abort",
            !.compaction   = IF method = "compact" THEN id ELSE @]

(* probe: is the prompt in flight settled?  Its answer names the prompt, so  *)
(* that a late one is not taken for the next prompt's.                       *)
Probe(a) == Frame("get_state", <<"settled", a.prompt>>, None)

-----------------------------------------------------------------------------
(* receive.  The turn ends when a probe finds Pi idle, not when Pi says that *)
(* it settled: it says so too before it compacts and retries.                *)

Response(m, id) == m.type = "response" /\ id # None /\ m.id = id
AnyProbe(a, m) ==     \* Mutant: Pi may be busy
  m.type = "response" /\ m.id = <<"settled", a.prompt>> /\ a.accepted
IdleProbe(a, m) ==
  /\ m.type = "response" /\ m.id = <<"settled", a.prompt>>
  /\ a.accepted /\ m.ref = "idle"

Outcome(a, p) ==
  CASE a.interrupting   -> "interrupted"
    [] p.status # None  -> p.status
    [] ~p.started       -> "completed"
    [] OTHER            -> "unknown"

TurnAfter(a, p, m) ==
  CASE IdleProbe(a, m) -> Ended(p)
    [] Response(m, a.prompt) /\ m.status # "ok" -> [p EXCEPT !.finished = TRUE]
    [] m.type = "agent_start" -> Begun(p)
    [] m.type = "message_end" -> [p EXCEPT !.status = m.status]
    [] m.type = "extension_error" /\ ~p.started -> [p EXCEPT !.status = "failed"]
    [] OTHER -> p

Receive(a, p, m) ==
  [adapter  |-> [a EXCEPT !.compaction = IF Response(m, a.compaction) THEN None ELSE @,
                          !.accepted   = IF Response(m, a.prompt) THEN m.status = "ok" ELSE @],
   progress |-> TurnAfter(a, p, m),
   events   |->
     (IF Response(m, a.compaction)
        THEN <<Event("compacted", None, IF m.status = "ok" THEN "completed" ELSE "failed")>>
        ELSE <<>>) \o
     (IF IdleProbe(a, m) THEN FinishEvents(p, Outcome(a, p)) ELSE <<>>) \o
     (IF m.type = "agent_start" THEN StartEvents(p) ELSE <<>>)]

Reply(a, m) ==
  IF m.type = "response" /\ m.id[1] \notin {"settled", "close"}
    THEN Answer(m.id, m.status = "ok") ELSE NoAnswer

(* respond: ask for the state after the prompt was accepted and whenever Pi  *)
(* says that it settled (the checkpoint asked for with it is left out).      *)
(* (Mutant: the first probe is the only one.)                                *)
RespondsOnce(a, m) ==
  IF a.prompt # None /\ Response(m, a.prompt) /\ m.status = "ok" THEN <<Probe(a)>> ELSE <<>>
Responds(a, m) ==
  IF a.prompt # None /\ (m.type = "agent_settled" \/ (Response(m, a.prompt) /\ m.status = "ok"))
    THEN <<Probe(a)>> ELSE <<>>

CloseFrames(a) == <<Frame("clear_queue", <<"close", 1>>, None),
                    Frame("abort_bash",  <<"close", 2>>, None),
                    Frame("abort",       <<"close", 3>>, None)>>
AtClose(a)     == [a EXCEPT !.interrupting = TRUE]
Closing(a, m)  ==
  IF m.type = "response" /\ m.status = "ok" /\ m.id[1] = "close"
    THEN [a EXCEPT !.mask = @ \cup {m.id[2]}] ELSE a
Closed(a)      == a.mask = 1 .. 3

-----------------------------------------------------------------------------
(* The native program.  A prompt is refused, handled without the agent, or   *)
(* starts the agent; a steer waits in Pi's own queue; the agent may settle,  *)
(* compact and go on once; an abort ends the turn unless the queue holds     *)
(* more.  Pi counts as busy before it answers the prompt.                    *)

Native0 == [run |-> "idle", ref |-> None, queued |-> FALSE, retried |-> FALSE,
            compact |-> None]

Only(n, out) == [native |-> n, out |-> out]
Ok(m)        == Msg("response", m.id, None, "ok")
Error(m)     == Msg("response", m.id, None, "error")
Says(type)   == Msg(type, None, None, None)
Said(status) == Msg("message_end", None, None, status)
Busy(n)      == n.run # "idle" \/ n.queued \/ n.compact # None

Rest(n) == [n EXCEPT !.run = "idle", !.ref = None]

TakesPrompt(n, m) ==
  {Only(n, <<Error(m)>>)} \cup
  (IF Busy(n) THEN {} ELSE
     {Only(n, <<Ok(m)>>), Only(n, <<Says("extension_error"), Ok(m)>>),
      Only([n EXCEPT !.run = "running", !.ref = m.ref, !.retried = FALSE],
           <<Ok(m), Says("agent_start")>>)})

Takes(n, m) ==
  CASE m.method = "prompt" -> TakesPrompt(n, m)
    [] m.method = "steer" ->
         IF n.run = "running" THEN {Only([n EXCEPT !.queued = TRUE], <<Ok(m)>>)}
                              ELSE {Only(n, <<Error(m)>>)}
    [] m.method = "clear_queue" -> {Only([n EXCEPT !.queued = FALSE], <<Ok(m)>>)}
    [] m.method = "abort" ->
         IF n.run = "idle" THEN {Only(n, <<Ok(m)>>)}
         ELSE IF n.queued
           THEN {Only([n EXCEPT !.run = "running", !.queued = FALSE], <<Ok(m)>>)}
           ELSE {Only(Rest(n), <<Says("agent_settled"), Ok(m)>>),
                 Only(Rest(n), <<Said("interrupted"), Says("agent_settled"), Ok(m)>>)}
    [] m.method = "compact" -> {Only([n EXCEPT !.compact = m.id], <<>>)}
    [] m.method = "get_state" ->
         {Only(n, <<Msg("response", m.id, IF Busy(n) THEN "busy" ELSE "idle", "ok")>>)}
    [] OTHER -> {Only(n, <<Ok(m)>>)}

Works(n) ==
  (CASE n.run = "running" /\ n.queued -> {Only([n EXCEPT !.queued = FALSE], <<>>)}
     [] n.run = "running" /\ ~n.queued ->
          {Only(Rest(n), <<Said(s), Says("agent_settled")>>) : s \in {"completed", "failed"}}
          \cup (IF n.retried THEN {} ELSE
                  {Only([n EXCEPT !.run = "compacting", !.retried = TRUE],
                        <<Says("agent_settled")>>)})
     [] n.run = "compacting" ->
          {Only([n EXCEPT !.run = "running"], <<Says("agent_start")>>)}
     [] OTHER -> {}) \cup
  (IF n.compact = None THEN {} ELSE
     {Only([n EXCEPT !.compact = None], <<Msg("response", n.compact, None, s)>>) :
        s \in {"ok", "error"}})
=============================================================================
