----------------------------- MODULE MCServices -----------------------------
(* Small instances of Teleport, StorageGuard, MacBridge and Workspaces, side *)
(* by side: they share no state, so a behaviour moves one of them, its part. *)
EXTENDS Teleport, StorageGuard, MacBridge, Workspaces, TLC

VARIABLE part

services == <<teleportVars, storageVars, macVars, workspaceVars, part>>

CONSTANTS t1, t2, r1, r2, w1, w2, h1, c1, c2

MCTransfers    == {t1, t2}
MCConversation == [t \in MCTransfers |-> "thread"]
MCFiles        == {"native", "project", "context", "attachment"}
MCKind         == [i \in MCFiles |-> i]
MCSize         == [i \in MCFiles |-> IF i = "project" THEN 2 ELSE 1]
MCDigest       == [i \in MCFiles |-> IF i = "project" THEN None ELSE 1]

TPlan(moved, files, used, faulty) ==
  [transfers |-> moved, files |-> files, uses |-> used, faults |-> faulty]
MCTeleportPlans ==
  {TPlan({t1, t2}, {"native"}, {"close"}, 1),
   TPlan({t1}, {"native", "project", "context"}, {"cancel"}, 1),
   TPlan({t1}, {"native"}, {"fail", r1, r2}, 1),
   TPlan({t1}, {"native"}, {"fail", r1}, 2),
   TPlan({t1}, {"native"}, {"stop", "sleep", r1}, 1),
   TPlan({t1}, {"native", "attachment"}, {"stop", "sleep", r1}, 0),
   TPlan({t1}, {"native", "attachment"}, {"fail", "close", r1}, 1),
   TPlan({t1}, {"native", "attachment"}, {"drain", "fill", "sleep"}, 2)}

MCCommands == {c1, c2}

MCStoragePlans == {{w1, w2}, {w1, h1}}

MCNames      == {<<"app">>, <<"app", "a">>}
MCAgentPaths == {<<"app">>}

-----------------------------------------------------------------------------
Init ==
  /\ part \in {"teleport", "storage", "mac", "workspaces"}
  /\ TeleportInit /\ StorageInit /\ MacInit /\ WorkspacesInit
  /\ part # "teleport" => course = TPlan({t1, t2}, {"native"}, {"close"}, 1)
  /\ part # "storage" => space = 4 /\ ~group[w2].used
  /\ part # "workspaces" => \A id \in WorkspaceIds : registry[id] = NoPath

Next ==
  \/ /\ part = "teleport" /\ TeleportNext
     /\ UNCHANGED <<storageVars, macVars, workspaceVars, part>>
  \/ /\ part = "storage" /\ StorageNext
     /\ UNCHANGED <<teleportVars, macVars, workspaceVars, part>>
  \/ /\ part = "mac" /\ MacNext
     /\ UNCHANGED <<teleportVars, storageVars, workspaceVars, part>>
  \/ /\ part = "workspaces" /\ WorkspacesNext
     /\ UNCHANGED <<teleportVars, storageVars, macVars, part>>

(* A component whose part it is not has nothing that fairness would ask for, *)
(* but for the guard's loop.                                                 *)
FairSpec ==
  /\ Init /\ [][Next]_services
  /\ FairTo(t1) /\ WF_teleportVars(Undrain \/ FreeDisk)
  /\ MacFairness /\ WF_storageVars(Follows)
  /\ WF_storageVars(part = "storage" /\ GuardRuns)

(* The states of the four components have their types.                       *)
TypeOK == TeleportTypeOK /\ StorageTypeOK /\ MacTypeOK /\ WorkspacesTypeOK

(* A running transfer does not stall in silence: while the client goes on,   *)
(* its view comes to say complete or to name an error, unless the session    *)
(* was closed or sleeps, or a file changed while it was sent.  Transfers are *)
(* alike, so one is watched, and only its requests are asked to go on.       *)
NoSilentStall == MovesOn(t1)

(* An agent that waits for its Mac is answered, and one told that its        *)
(* command may still finish finds the result under that id, unless it left,  *)
(* the helper gave up, or the service was restarted (mac/mod.rs:329).        *)
JobsResolve == Resolves(c1)
=============================================================================
