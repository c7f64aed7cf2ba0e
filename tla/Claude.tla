------------------------------- MODULE Claude -------------------------------
(* The Claude adapter (runtime/claude.rs) and, as far as the adapter sees    *)
(* it, the native program.  Operators only: Driver holds the state.  Records *)
(* of items, usage and native history, notices and delegation are left out.  *)
EXTENDS Wire

(* active: the prompt in flight, as [id, request].  users: the user messages *)
(* sent and not yet over.  reply: what the last message answered.            *)
Adapter0 ==
  [active |-> None, users |-> {}, reply |-> NoAnswer, interrupting |-> FALSE,
   compacted |-> FALSE, confirmed |-> FALSE, failed |-> FALSE]

Script(op) ==
  CASE op = "start"     -> <<Step("call", "initialize"), Step("call", "apply_flag_settings"),
                             Step("call", "bootstrap")>>
    [] op = "interrupt" -> <<Step("control", "interrupt")>>
    [] op = "steer"     -> <<>>
    [] op = "compact"   -> <<Step("call", "compact")>>
    [] OTHER            -> <<Step("call", "apply_flag_settings"), Step("request", "prompt")>>

(* A user message is remembered until a result names it.                     *)
Encode(a, id, method, request) ==
  [a EXCEPT !.users        = IF method \in {"prompt", "bootstrap", "compact"}
                               THEN @ \cup {[id |-> id, kind |-> method]} ELSE @,
            !.active       = IF request # None THEN [id |-> id, request |-> request] ELSE @,
            !.interrupting = IF request # None THEN FALSE ELSE @ \/ method = "interrupt",
            !.compacted    = IF method = "compact" THEN FALSE ELSE @]

-----------------------------------------------------------------------------
(* receive.  The lifecycle of a message answers its call; a bootstrap is     *)
(* answered by its result alone.                                             *)

Called(a, m)   == {u \in a.users : u.id = m.id}
IsActive(a, m) == a.active # None /\ a.active.id = m.id

LifecycleReply(a, m) ==
  IF /\ m.status \in {"queued", "rejected", "cancelled"}
     /\ \E u \in Called(a, m) : u.kind # "bootstrap"
    THEN Answer(m.id, m.status = "queued") ELSE NoAnswer

OnLifecycle(a, p, m) ==
  LET begins == m.status = "started" /\ IsActive(a, m) /\ Called(a, m) # {}
  IN  [adapter  |-> [a EXCEPT !.reply = LifecycleReply(a, m)],
       progress |-> IF begins THEN Begun(p) ELSE p,
       events   |-> IF begins THEN StartEvents(p) ELSE <<>>]

(* A result ends the messages it names: the bootstrap, a compaction, and the *)
(* turn of the active prompt.                                                *)
OnResult(a, p, m) ==
  LET well    == m.status = "success"
      boots   == \E u \in Called(a, m) : u.kind = "bootstrap"
      packs   == \E u \in Called(a, m) : u.kind = "compact"
      status  == IF a.interrupting THEN "interrupted"
                 ELSE IF well THEN "completed" ELSE "failed"
      packed  == IF a.compacted /\ well THEN "completed" ELSE "failed"
  IN  [adapter  |-> [a EXCEPT !.users = @ \ Called(a, m), !.failed = ~well,
                              !.reply = IF boots THEN Answer(m.id, well) ELSE NoAnswer,
                              !.active = IF IsActive(a, m) THEN None ELSE @],
       progress |-> IF IsActive(a, m) THEN Ended(p) ELSE p,
       events   |-> (IF packs THEN <<Event("compacted", None, packed)>> ELSE <<>>) \o
                    (IF IsActive(a, m) THEN FinishEvents(p, status) ELSE <<>>)]

Receive(a, p, m) ==
  LET quiet == [a EXCEPT !.reply = NoAnswer]
  IN  CASE m.type = "control_response" ->
             [adapter |-> [a EXCEPT !.reply = IF m.id = <<"close", 1>> THEN NoAnswer
                                              ELSE Answer(m.id, m.status = "success")],
              progress |-> p, events |-> <<>>]
        [] m.type = "lifecycle" -> OnLifecycle(quiet, p, m)
        [] m.type = "result"    -> OnResult(quiet, p, m)
        [] OTHER -> [adapter  |-> [quiet EXCEPT !.compacted = @ \/ m.type = "compact_boundary"],
                     progress |-> p, events |-> <<>>]

Reply(a, m) == a.reply

(* Closing interrupts the turn and the native queue; stdin is closed once    *)
(* that is confirmed.  The exit code of a failed last turn is a clean one.   *)
CloseFrames(a)  == <<Frame("interrupt", <<"close", 1>>, None)>>
Closing(a, m)   ==
  [a EXCEPT !.confirmed = /\ m.type = "control_response" /\ m.id = <<"close", 1>>
                          /\ m.status = "success"]
Closed(a)       == a.confirmed
CleanExit(a, code) == code = 0 \/ (code = 1 /\ a.confirmed /\ a.failed)

-----------------------------------------------------------------------------
(* The native program: a queue of user messages and the turn that runs.  An  *)
(* interrupt ends the turn and drops the queue; a message that was queued    *)
(* ends with a result that names it.                                         *)

Native0 == [queue |-> <<>>, turn |-> None, packed |-> FALSE]

Only(n, out)        == [native |-> n, out |-> out]
Control(m, status)  == Msg("control_response", m.id, None, status)
Lifecycle(u, state) == Msg("lifecycle", u.id, None, state)
Result(u, status)   == Msg("result", u.id, None, status)

Takes(n, m) ==
  LET user  == [id |-> m.id, ref |-> m.ref, method |-> m.method]
      rests == [n EXCEPT !.queue = <<>>, !.turn = None]
      open  == (IF n.turn = None THEN <<>> ELSE <<n.turn>>) \o n.queue
      ends  == [i \in DOMAIN open |-> Result(open[i], "error")]
  IN  CASE m.method \in {"prompt", "compact"} ->
             {Only([n EXCEPT !.queue = Append(@, user)], <<Lifecycle(user, "queued")>>),
              Only(n, <<Lifecycle(user, "rejected")>>)}
        [] m.method = "bootstrap" ->
             {Only(n, <<Result(user, s)>>) : s \in {"success", "error"}}
        [] m.method = "interrupt" ->
             {Only(rests, Append(ends, Control(m, "success"))),
              Only(rests, <<Control(m, "success")>> \o ends)}
        [] m.method = "apply_flag_settings" ->
             {Only(n, <<Control(m, s)>>) : s \in {"success", "error"}}
        [] OTHER -> {Only(n, <<Control(m, "success")>>)}

Works(n) ==
  IF n.turn = None
    THEN IF n.queue = <<>> THEN {} ELSE
           {Only([queue |-> Tail(n.queue), turn |-> Head(n.queue), packed |-> FALSE],
                 <<Lifecycle(Head(n.queue), "started")>>)}
    ELSE {Only([n EXCEPT !.turn = None], <<Result(n.turn, s)>>) : s \in {"success", "error"}}
         \cup (IF n.turn.method = "compact" /\ ~n.packed
                 THEN {Only([n EXCEPT !.packed = TRUE],
                            <<Msg("compact_boundary", None, None, None)>>)} ELSE {})
=============================================================================
