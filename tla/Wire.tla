-------------------------------- MODULE Wire --------------------------------
(* What the harness driver (runtime/process.rs) and the four adapters hand   *)
(* to each other: calls, frames, messages, events and the progress of the    *)
(* turn the driver owns (runtime/mod.rs, Progress and Event).                *)
EXTENDS Naturals, Sequences

CONSTANTS Prompts,   \* the prompts the session sends, each at most once
          None       \* no value

(* None is no prompt and no call of an operation; the names of the           *)
(* operations, of Pi's probes, of the frames of a close, of a copy between   *)
(* turns, of Codex's own turn and of what Pi says of its state are no        *)
(* prompts.                                                                  *)
ASSUME NamesAssumption ==
  /\ None \notin Prompts \cup
       ((Prompts \cup {"start", "interrupt", "steer", "compact"}) \X Nat)
  /\ Prompts \cap {"start", "interrupt", "steer", "compact", "settled", "close", "partial",
                   "compaction", "idle", "busy"} = {}

(* What the session asks of a Handle: one operation of each kind.            *)
Ops == Prompts \cup {"start", "interrupt", "steer", "compact"}

-----------------------------------------------------------------------------
(* A frame goes to the native program, a message comes back from it.  The id *)
(* of a call is the operation and its step (the code counts calls instead).  *)

Frame(method, id, ref)       == [method |-> method, id |-> id, ref |-> ref]
Msg(type, id, ref, status)   == [type |-> type, id |-> id, ref |-> ref, status |-> status]
Event(type, request, status) == [type |-> type, request |-> request, status |-> status]

(* The answer a message gives to a call; NoAnswer when it gives none.        *)
Answer(id, ok) == <<[id |-> id, ok |-> ok]>>
NoAnswer       == <<>>

(* One step of an operation: the method of its call and how it is sent.      *)
Step(mode, method) == [mode |-> mode, method |-> method]

-----------------------------------------------------------------------------
(* Progress: the turn the driver works on, as the adapter knows it.          *)

Resting == [request |-> None, turn |-> None, started |-> FALSE, finished |-> FALSE,
            status |-> None, shell |-> FALSE]
Fresh(request)  == [Resting EXCEPT !.request = request]
Unfinished(p)   == p.request # None /\ ~p.finished

(* Progress::started and Progress::finished: at most one event of each kind  *)
(* a request, and no start after the end.                                    *)
(* (Mutant of CanStart: a turn that is over may start.)                      *)
CanStartLate(p) == p.request # None /\ ~p.started
CanStart(p)     == Unfinished(p) /\ ~p.started
Begun(p)        == IF CanStart(p) THEN [p EXCEPT !.started = TRUE] ELSE p
StartEvents(p)  == IF CanStart(p) THEN <<Event("started", p.request, None)>> ELSE <<>>
Ended(p)        == IF Unfinished(p) THEN [p EXCEPT !.finished = TRUE] ELSE p
FinishEvents(p, status) ==
  IF Unfinished(p) THEN <<Event("finished", p.request, status)>> ELSE <<>>
=============================================================================
