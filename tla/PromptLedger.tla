---------------------------- MODULE PromptLedger ----------------------------
(***************************************************************************)
(* What a cloudroom session promises about the prompts it accepts: each is *)
(* claimed durably before it is handed to the harness, is handed over at   *)
(* most once, and is never handed over once it was dropped.                *)
(***************************************************************************)
CONSTANT Item

VARIABLES
  waiting,   \* accepted, still owed a turn
  claimed,   \* a turn was recorded for it
  dropped,   \* cancelled or failed before a turn
  ran        \* handed to the harness

pvars == <<waiting, claimed, dropped, ran>>

Init == waiting = {} /\ claimed = {} /\ dropped = {} /\ ran = {}

New(p) == p \notin waiting \cup claimed \cup dropped

Accept(p) ==
  /\ New(p) /\ waiting' = waiting \cup {p}
  /\ UNCHANGED <<claimed, dropped, ran>>

Claim(p) ==
  /\ New(p) \/ p \in waiting
  /\ waiting' = waiting \ {p} /\ claimed' = claimed \cup {p}
  /\ UNCHANGED <<dropped, ran>>

Drop(ps) ==
  /\ waiting' = waiting \ ps /\ dropped' = dropped \cup ps
  /\ UNCHANGED <<claimed, ran>>

Run(p) ==
  /\ p \in claimed \ ran
  /\ ran' = ran \cup {p}
  /\ UNCHANGED <<waiting, claimed, dropped>>

Next ==
  \/ \E p \in Item : Accept(p) \/ Claim(p) \/ Run(p)
  \/ \E ps \in SUBSET waiting : Drop(ps)

Spec == Init /\ [][Next]_pvars
=============================================================================
