------------------------------- MODULE Cursor -------------------------------
(* The ACP adapter of Cursor and fx (runtime/cursor.rs), and Cloudroom's own *)
(* driver around the Cursor CLI at the other end (runtime/cursor_print.rs).  *)
(* Operators only: Driver holds the state.  Records of items and the answers *)
(* to permission requests and questions are left out.                        *)
EXTENDS Wire

(* prompt: the call whose answer ends the turn.  cancel, restart: the calls  *)
(* of an interrupt and of a steer that wait for that answer.  ack: the call  *)
(* the last answer stands for.  dirty, worker: the copy of the chat that is  *)
(* due and the one being made, for the request whose end it will hold.       *)
(* terminal: the end of the turn, not yet reported.                          *)
Adapter0 ==
  [prompt |-> None, cancel |-> None, restart |-> None, ack |-> None, responses |-> <<>>,
   closing |-> FALSE, dirty |-> FALSE, worker |-> None, terminal |-> None]

(* Fast is set before each prompt; the prompt is answered when it is written.*)
Script(op) ==
  CASE op = "start"     -> <<Step("call", "initialize"), Step("call", "session/new"),
                             Step("call", "session/set_config_option")>>
    [] op = "interrupt" -> <<Step("control", "session/cancel")>>
    [] op = "steer"     -> <<Step("control", "cloudroom/steer")>>
    [] op = "compact"   -> <<>>
    [] OTHER            -> <<Step("call", "session/set_config_option"),
                             Step("dispatch", "session/prompt")>>

Valid(a, method) ==
  method \in {"cloudroom/steer", "session/cancel"} =>
    a.prompt # None /\ a.restart = None /\ a.cancel = None

Encode(a, id, method, request) ==
  [a EXCEPT !.prompt  = IF request # None THEN id ELSE @,
            !.restart = IF method = "cloudroom/steer" THEN id ELSE @,
            !.cancel  = IF method = "session/cancel" THEN id ELSE @]

(* A steer is a cancel now and a prompt once the turn has stopped.           *)
Outgoing(id, method, ref) ==
  Frame(IF method = "cloudroom/steer" THEN "session/cancel" ELSE method, id, ref)

-----------------------------------------------------------------------------
(* receive *)

AnswersPrompt(a, m) == m.type = "response" /\ a.prompt # None /\ m.id = a.prompt

(* The turn that stopped goes on with the steered prompt ...                 *)
Restarts(a, m)  == a.restart # None /\ m.status \in {"end_turn", "cancelled"}
Restarted(a, p, m) ==
  [adapter  |-> [a EXCEPT !.responses = <<Frame("session/prompt", a.restart, p.request)>>,
                          !.ack = [source |-> m.id, id |-> a.restart],
                          !.prompt = a.restart, !.restart = None, !.dirty = TRUE],
   progress |-> p, events |-> <<>>]

(* ... or it is over: the control that waited is answered, and the end is    *)
(* held back until the chat has been copied.                                 *)
WaitsForCancel(a) == a.cancel     \* Mutant: a steer that met the end waits for ever
Waiting(a) == IF a.cancel # None THEN a.cancel ELSE a.restart
Over(a, p, m) ==
  LET waiting == Waiting(a)
      status  == CASE m.status = "end_turn"  -> "completed"
                   [] m.status = "cancelled" -> "interrupted"
                   [] OTHER                  -> "failed"
  IN  [adapter  |-> [a EXCEPT !.prompt = None, !.cancel = None,
                              !.restart = IF a.cancel # None THEN @ ELSE None,
                              !.ack = IF waiting = None THEN None
                                      ELSE [source |-> m.id, id |-> waiting],
                              !.dirty = TRUE, !.terminal = Event("finished", p.request, status)],
       progress |-> [Begun(p) EXCEPT !.finished = TRUE],
       events   |-> StartEvents(p)]

Receive(a, p, m) ==
  LET b == [a EXCEPT !.ack = None, !.responses = <<>>]
  IN  CASE AnswersPrompt(b, m) /\ Restarts(b, m)  -> Restarted(b, p, m)
        [] AnswersPrompt(b, m) /\ ~Restarts(b, m) -> Over(b, p, m)
        [] m.type \in {"update", "tool"} /\ b.prompt # None ->
             [adapter  |-> [b EXCEPT !.dirty = @ \/ m.type = "tool"],
              progress |-> Begun(p), events |-> StartEvents(p)]
        [] OTHER -> [adapter |-> b, progress |-> p, events |-> <<>>]

Reply(a, m) ==
  IF m.type # "response" THEN NoAnswer
  ELSE Answer(IF a.ack # None THEN a.ack.id ELSE m.id, m.status # "error")
Responds(a, m) == a.responses

-----------------------------------------------------------------------------
(* capture: the worker is polled; a copy that is due starts when none is     *)
(* being made; the end of the turn follows once no copy is due or being made.*)
(* The results are what a poll may find: the worker at work or done.         *)

Pending(a)        == a.worker # None \/ a.dirty
CapturePending(a) == Pending(a) \/ a.terminal # None

NextCopyLate(a) ==     \* Mutant: a copy due while one is made counts as made
  [a EXCEPT !.dirty = FALSE,
            !.worker = IF @ # None \/ ~a.dirty THEN @
                       ELSE IF a.terminal # None THEN a.terminal.request ELSE "partial"]
NextCopy(a) ==
  IF a.worker = None /\ a.dirty
    THEN [a EXCEPT !.dirty = FALSE,
                   !.worker = IF a.terminal # None THEN a.terminal.request ELSE "partial"]
    ELSE a
Polls(a) ==
  {[adapter |-> NextCopy(a), events |-> <<>>]} \cup
  (IF a.worker = None THEN {} ELSE
     {[adapter |-> NextCopy([a EXCEPT !.worker = None]),
       events  |-> <<Event("copied", a.worker, None)>>]})
Released(c) ==
  IF Pending(c.adapter) \/ c.adapter.terminal = None THEN c
  ELSE [adapter |-> [c.adapter EXCEPT !.terminal = None],
        events  |-> Append(c.events, c.adapter.terminal)]
Capture(a) == {Released(c) : c \in Polls(a)}

AtClose(a)     == [a EXCEPT !.closing = TRUE, !.restart = None]
CloseFrames(a) ==
  IF a.prompt = None THEN <<>> ELSE <<Frame("session/cancel", <<"close", 1>>, None)>>
Closing(a, m)  == a
Closed(a)      == a.closing /\ a.prompt = None

-----------------------------------------------------------------------------
(* cursor_print: one cursor-agent a prompt.  turn: STATE.turn.  leaving: the *)
(* answer of a turn whose thread has cleared STATE.turn and not replied yet. *)

Native0 == [turn |-> None, ref |-> None, cancelled |-> FALSE, leaving |-> None,
            said |-> FALSE, tooled |-> FALSE]

Only(n, out)     == [native |-> n, out |-> out]
Answered(id, s)  == Msg("response", id, None, s)

Takes(n, m) ==
  CASE m.method = "session/cancel" ->
         {Only([n EXCEPT !.cancelled = @ \/ n.turn # None], <<>>)}
    [] m.method = "session/prompt" ->
         {Only(n, <<Answered(m.id, "error")>>)} \cup
         (IF n.turn # None THEN {} ELSE
            {Only([n EXCEPT !.turn = m.id, !.ref = m.ref, !.cancelled = FALSE,
                            !.said = FALSE, !.tooled = FALSE], <<>>)})
    [] m.method = "session/set_config_option" ->
         {Only(n, <<Answered(m.id, s)>>) : s \in {"ok", "error"}}
    [] OTHER -> {Only(n, <<Answered(m.id, "ok")>>)}

(* The agent says something, uses a tool, and ends; a cancel only marks the  *)
(* turn and signals the agent, which still ends by itself.                   *)
Leaves(n, outcome) ==
  Only([n EXCEPT !.turn = None, !.ref = None, !.cancelled = FALSE,
                 !.leaving = Answered(n.turn, IF n.cancelled THEN "cancelled" ELSE outcome)],
       <<>>)
Works(n) ==
  (IF n.turn = None \/ n.leaving # None THEN {} ELSE
     {Leaves(n, s) : s \in {"end_turn", "error"}} \cup
     (IF n.said THEN {} ELSE
        {Only([n EXCEPT !.said = TRUE], <<Msg("update", None, None, None)>>)}) \cup
     (IF n.tooled THEN {} ELSE
        {Only([n EXCEPT !.tooled = TRUE], <<Msg("tool", None, None, None)>>)})) \cup
  (IF n.leaving = None THEN {} ELSE {Only([n EXCEPT !.leaving = None], <<n.leaving>>)})
=============================================================================
