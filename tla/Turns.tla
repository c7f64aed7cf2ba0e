-------------------------------- MODULE Turns -------------------------------
(* What a harness promises the session, whichever program it runs: one turn  *)
(* at a time, each with one outcome, and silence after the exit.             *)
CONSTANTS Prompts

VARIABLES turn,        \* none, sent, started, finished, refused, lost
          compaction,  \* none, asked, ended
          exited

vars == <<turn, compaction, exited>>

InFlight == {p \in Prompts : turn[p] \in {"sent", "started"}}

Init ==
  /\ turn = [p \in Prompts |-> "none"] /\ compaction = "none" /\ exited = FALSE

Send(p) ==
  /\ ~exited /\ InFlight = {} /\ compaction # "asked" /\ turn[p] = "none"
  /\ turn' = [turn EXCEPT ![p] = "sent"] /\ UNCHANGED <<compaction, exited>>

(* A turn starts once, ends once, and is refused only before it starts.      *)
Begin(p) ==
  /\ ~exited /\ turn[p] = "sent"
  /\ turn' = [turn EXCEPT ![p] = "started"] /\ UNCHANGED <<compaction, exited>>
Finish(p) ==
  /\ ~exited /\ p \in InFlight
  /\ turn' = [turn EXCEPT ![p] = "finished"] /\ UNCHANGED <<compaction, exited>>
Refuse(p) ==
  /\ ~exited /\ turn[p] = "sent"
  /\ turn' = [turn EXCEPT ![p] = "refused"] /\ UNCHANGED <<compaction, exited>>

Ask ==
  /\ ~exited /\ InFlight = {} /\ compaction = "none"
  /\ compaction' = "asked" /\ UNCHANGED <<turn, exited>>
Packed ==
  /\ ~exited /\ compaction = "asked"
  /\ compaction' = "ended" /\ UNCHANGED <<turn, exited>>

Exit ==
  /\ ~exited /\ exited' = TRUE
  /\ turn' = [p \in Prompts |-> IF p \in InFlight THEN "lost" ELSE turn[p]]
  /\ compaction' = IF compaction = "asked" THEN "ended" ELSE compaction

Next == (\E p \in Prompts : Send(p) \/ Begin(p) \/ Finish(p) \/ Refuse(p))
        \/ Ask \/ Packed \/ Exit

Spec == Init /\ [][Next]_vars
=============================================================================
