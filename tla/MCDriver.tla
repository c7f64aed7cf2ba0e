------------------------------ MODULE MCDriver ------------------------------
(* A small instance of Driver: two prompts, and for each harness the ways in *)
(* which its controls, a freeze of the workload and one fault may meet.      *)
EXTENDS Driver, TLC

CONSTANTS p1, p2
MCPrompts == {p1, p2}

Plan(k, used, frozen, broken) ==
  [kind |-> k, uses |-> used, freezes |-> frozen, faults |-> broken]

MCPlans ==
  {Plan("codex",  {p1, p2, "interrupt", "compact", "shutdown"}, 0, 0),
   Plan("codex",  {p1, p2, "interrupt", "steer"}, 1, 0),
   Plan("codex",  {p1, p2, "steer", "compact"}, 0, 1),
   Plan("claude", {p1, p2, "interrupt", "compact"}, 0, 1),
   Plan("claude", {p1, "interrupt", "shutdown"}, 1, 0),
   Plan("claude", {p1, "compact", "steer", "shutdown"}, 0, 0),
   Plan("pi",     {p1, p2, "interrupt"}, 0, 0),
   Plan("pi",     {p1, "interrupt", "steer"}, 0, 0),
   Plan("pi",     {p1, "interrupt", "shutdown"}, 0, 0),
   Plan("pi",     {p1, "compact"}, 0, 1),
   Plan("cursor", {p1, p2, "steer"}, 0, 0),
   Plan("cursor", {p1, "interrupt", "steer"}, 0, 0),
   Plan("cursor", {p1, "steer", "shutdown"}, 0, 0),
   Plan("cursor", {p1, "interrupt"}, 1, 0),
   Plan("cursor", {p1, p2, "compact"}, 0, 1)}
=============================================================================
