\* Teleports, disk protection, jobs on a Mac and the registry of folders.
SPECIFICATION FairSpec
CONSTANTS
  None = None
  NoProgram = NoProgram
  Nil = Nil
  NoPath = NoPath
  t1 = t1
  t2 = t2
  r1 = r1
  r2 = r2
  w1 = w1
  w2 = w2
  h1 = h1
  Transfers <- MCTransfers
  Conversation <- MCConversation
  Files <- MCFiles
  Kind <- MCKind
  Size <- MCSize
  Digest <- MCDigest
  Versions = {1, 2}
  Retries = {r1, r2}
  TeleportPlans <- MCTeleportPlans
  Pause = 1
  Recover = 2
  Warning = 3
  Spaces = {0, 2, 4}
  Writers = {w1, w2}
  Harnesses = {h1}
  StoragePlans <- MCStoragePlans
  MaxMishaps = 1
  c1 = c1
  c2 = c2
  Commands <- MCCommands
  MaxNext = 3
  MaxLosses = 1
  WorkspaceIds = {"a", "b"}
  Names <- MCNames
  AgentPaths <- MCAgentPaths
  MaxStops = 2
INVARIANTS TypeOK OneOwner QueuedOnce StartedWhole RestWhileCleaned ResultIsOwn PathsHeld
PROPERTIES NoSilentStall WorkResumes JobsResolve
CHECK_DEADLOCK FALSE
