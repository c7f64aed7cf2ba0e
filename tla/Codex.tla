------------------------------- MODULE Codex --------------------------------
(* The Codex adapter (runtime/codex.rs) and, as far as the adapter sees it,  *)
(* the native app server.  Operators only: Driver holds the state.  Records  *)
(* of items, usage and native history, and rewinds (forks), are left out.    *)
EXTENDS Wire

(* prompt: the call that carried the prompt.  compaction: the call that      *)
(* asked for one and the native turn that runs it, once that is known.       *)
Adapter0 == [prompt |-> None, compaction |-> None, turn |-> None]

(* The calls of each operation, in order.  "settle" waits for the turn's     *)
(* end before the processes it left are terminated.                          *)
Script(op) ==
  CASE op = "start"     -> <<Step("call", "initialize"), Step("notify", "initialized"),
                             Step("call", "thread/start")>>
    [] op = "interrupt" -> <<Step("control", "turn/interrupt"), Step("settle", "turn"),
                             Step("call", "terminate")>>
    [] op = "steer"     -> <<Step("control", "turn/steer")>>
    [] op = "compact"   -> <<Step("call", "thread/compact/start")>>
    [] OTHER            -> <<Step("request", "turn/start")>>

(* interrupt and steer name the native turn, so it has to be known.          *)
Targetable(progress) == progress.turn # None

Encode(a, id, method, request) ==
  [a EXCEPT !.prompt     = IF request # None THEN id ELSE @,
            !.compaction = IF method = "thread/compact/start" THEN id ELSE @,
            !.turn       = IF method = "thread/compact/start" THEN None ELSE @]

-----------------------------------------------------------------------------
(* receive, part one: the compaction.  A rejected call ends it silently (the *)
(* caller is told); otherwise the first turn that starts is taken for it and *)
(* its end is the compaction's, or a bare thread/compacted is.               *)

ClaimsTurn(a, m) == a.compaction # None /\ a.turn = None /\ m.type = "turn/started"
CompactionEnds(a, m) ==
  /\ a.compaction # None
  /\ \/ m.type = "turn/completed" /\ a.turn # None /\ m.ref = a.turn
     \/ m.type = "thread/compacted" /\ a.turn = None
CompactionRefused(a, m) ==
  a.compaction # None /\ m.type = "response" /\ m.id = a.compaction /\ m.status = "error"

AfterCompaction(a, m) ==
  IF CompactionRefused(a, m) \/ CompactionEnds(a, m)
    THEN [a EXCEPT !.compaction = None, !.turn = None]
    ELSE IF ClaimsTurn(a, m) THEN [a EXCEPT !.turn = m.ref] ELSE a
CompactionEvents(a, m) ==
  IF ~CompactionEnds(a, m) THEN <<>>
  ELSE <<Event("compacted", None,
               IF m.type = "turn/completed" THEN m.status ELSE "completed")>>

(* receive, part two: the turn.  A rejected prompt ends it without an event: *)
(* the caller is told.  (Mutant: the rejection is only the caller's.)        *)
RejectedStays(a, p, m) == p
Rejected(a, p, m) ==
  IF m.type = "response" /\ m.id = a.prompt /\ m.status = "error"
    THEN [p EXCEPT !.finished = TRUE] ELSE p
Receive(a, p, m) ==
  LET q == Rejected(a, p, m)
      turned == [q EXCEPT !.turn = m.ref]
      turn ==
        CASE m.type = "turn/started" ->
               [progress |-> Begun(turned), events |-> StartEvents(turned)]
          [] m.type = "item/started" /\ m.ref = q.turn ->
               [progress |-> [q EXCEPT !.shell = TRUE], events |-> <<>>]
          [] m.type = "turn/completed" /\ q.turn # None /\ m.ref = q.turn ->
               [progress |-> Ended(q), events |-> FinishEvents(q, m.status)]
          [] OTHER -> [progress |-> q, events |-> <<>>]
  IN  [adapter |-> AfterCompaction(a, m), progress |-> turn.progress,
       events  |-> CompactionEvents(a, m) \o turn.events]

Reply(a, m) == IF m.type = "response" THEN Answer(m.id, m.status = "ok") ELSE NoAnswer

-----------------------------------------------------------------------------
(* The native program.  A turn is answered and announced in either order;    *)
(* the app server may refuse a prompt or a compaction; a compaction runs as  *)
(* a turn of its own or is announced when it is over.                        *)

Native0 == [turn |-> None, shell |-> FALSE, compacting |-> "no"]

Ok(m)     == Msg("response", m.id, None, "ok")
Error(m)  == Msg("response", m.id, None, "error")
Only(n, out) == [native |-> n, out |-> out]

Takes(n, m) ==
  LET began   == [n EXCEPT !.turn = m.ref, !.shell = FALSE]
      rests   == [n EXCEPT !.turn = None]
      news    == Msg("turn/started", None, m.ref, None)
      aborted == Msg("turn/completed", None, m.ref, "interrupted")
  IN  CASE m.method = "turn/start" ->
             {Only(n, <<Error(m)>>)} \cup
             (IF n.turn = None
                THEN {Only(began, <<Ok(m), news>>), Only(began, <<news, Ok(m)>>)} ELSE {})
        [] m.method = "turn/interrupt" ->
             IF n.turn # None /\ n.turn = m.ref
               THEN {Only(rests, <<Ok(m), aborted>>), Only(rests, <<aborted, Ok(m)>>)}
               ELSE {Only(n, <<Error(m)>>)}
        [] m.method = "turn/steer" ->
             {Only(n, <<IF n.turn # None /\ n.turn = m.ref THEN Ok(m) ELSE Error(m)>>)}
        [] m.method = "thread/compact/start" ->
             {Only(n, <<Error(m)>>), Only([n EXCEPT !.compacting = "asked"], <<Ok(m)>>)}
        [] m.method = "initialized" -> {Only(n, <<>>)}
        [] OTHER -> {Only(n, <<Ok(m)>>)}

Works(n) ==
  (IF n.turn \in {None, "compaction"} THEN {} ELSE
     (IF n.shell THEN {} ELSE
        {Only([n EXCEPT !.shell = TRUE], <<Msg("item/started", None, n.turn, None)>>)}) \cup
     {Only([n EXCEPT !.turn = None], <<Msg("turn/completed", None, n.turn, s)>>) :
        s \in {"completed", "failed"}}) \cup
  (CASE n.compacting = "asked" ->
          {Only([n EXCEPT !.turn = "compaction", !.compacting = "turn"],
                <<Msg("turn/started", None, "compaction", None)>>),
           Only([n EXCEPT !.compacting = "no"], <<Msg("thread/compacted", None, None, None)>>)}
     [] n.compacting = "turn" ->
          {Only([n EXCEPT !.turn = None, !.compacting = "no"],
                <<Msg("turn/completed", None, "compaction", s)>>) : s \in {"completed", "failed"}}
     [] OTHER -> {})
=============================================================================
