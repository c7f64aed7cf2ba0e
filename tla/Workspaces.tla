----------------------------- MODULE Workspaces -----------------------------
(* The registry of project folders (workspace/mod.rs): which path each       *)
(* workspace id has.  A registration is a file of its own, written aside,    *)
(* synced, renamed into place and followed by a sync of the registry.        *)
EXTENDS Integers, Sequences

CONSTANTS
  WorkspaceIds,
  Names,          \* names asked for, each in the parts that "-" joins
  AgentPaths,     \* bound: the paths agents meddle with
  MaxStops,       \* deaths of the service and power losses
  NoPath

ASSUME WorkspacesAssumption == MaxStops \in Nat /\ NoPath \notin WorkspaceIds

VARIABLES
  folder,      \* what an agent would find at each path below the root
  registry,    \* the registrations as processes see them
  versions,    \* the registries a power loss may leave
  resolving,   \* the resolve that holds the allocation lock
  returned,    \* <<id, path>> that resolve has returned to a command
  held,        \* those that a session or a transfer has recorded
  stops

workspaceVars == <<folder, registry, versions, resolving, returned, held, stops>>

Long(id, name) == Append(name, id)
FolderPaths == Names \cup {Long(id, name) : id \in WorkspaceIds, name \in Names}

ASSUME FoldersAssumption == NoPath \notin FolderPaths /\ AgentPaths \subseteq FolderPaths

NotResolving == [at |-> "none", id |-> NoPath, path |-> NoPath]

-----------------------------------------------------------------------------
(* get and list: a registered path that has become a link is off the         *)
(* monitored filesystem, and refuses every listing.                          *)

OnFilesystem(path) == folder[path] # "link"
Registered(id)     == registry[id] # NoPath
OnRoot(id)         == Registered(id) => OnFilesystem(registry[id])
Listable           == \A id \in WorkspaceIds : OnRoot(id)

(* A path is free if nobody registered it and nothing is there.  (Mutant:    *)
(* only what is on disk counts.)                                             *)
UnavailableOnDisk(path) == folder[path] # "absent"
Unavailable(path) ==
  folder[path] # "absent" \/ \E id \in WorkspaceIds : registry[id] = path
Chosen(id, name) == IF Unavailable(name) THEN Long(id, name) ELSE name

(* resolve: an id that is registered keeps its path, whatever name is asked. *)
ResolveKnown(id) ==
  /\ resolving = NotResolving /\ Registered(id) /\ OnRoot(id)
  /\ returned' = returned \cup {<<id, registry[id]>>}
  /\ UNCHANGED <<folder, registry, versions, resolving, held, stops>>
ResolveNew(id, name) ==
  /\ resolving = NotResolving /\ ~Registered(id) /\ Listable
  /\ ~Unavailable(Chosen(id, name))
  /\ resolving' = [at |-> "writing", id |-> id, path |-> Chosen(id, name)]
  /\ UNCHANGED <<folder, registry, versions, returned, held, stops>>
RegistrationRenamed ==
  /\ resolving.at = "writing"
  /\ registry' = [registry EXCEPT ![resolving.id] = resolving.path]
  /\ versions' = versions \cup {registry'}
  /\ resolving' = [resolving EXCEPT !.at = "syncing"]
  /\ UNCHANGED <<folder, returned, held, stops>>
RegistrationSynced ==
  /\ resolving.at = "syncing"
  /\ versions' = {registry}
  /\ returned' = returned \cup {<<resolving.id, resolving.path>>}
  /\ resolving' = NotResolving
  /\ UNCHANGED <<folder, registry, held, stops>>
(* A write, a rename or a sync fails, and the lock is given back.            *)
ResolveFails ==
  /\ resolving # NotResolving /\ stops < MaxStops
  /\ resolving' = NotResolving /\ stops' = stops + 1
  /\ UNCHANGED <<folder, registry, versions, returned, held>>
(* The command appends its receipt or saves its manifest, with a sync; what  *)
(* was renamed before then survives as well.                                 *)
HoldPath(x) ==
  /\ x \in returned
  /\ held' = held \cup {x} /\ returned' = returned \ {x}
  /\ versions' = {registry}
  /\ UNCHANGED <<folder, registry, resolving, stops>>

-----------------------------------------------------------------------------
(* ensure_directory, for a session or a transfer that has its path.          *)
EnsureDirectory(x) ==
  /\ x \in returned \cup held /\ folder[x[2]] = "absent"
  /\ folder' = [folder EXCEPT ![x[2]] = "directory"]
  /\ UNCHANGED <<registry, versions, resolving, returned, held, stops>>

(* Agents make, remove and replace whatever they like below the root.        *)
AgentChanges(path) ==
  /\ \E x \in {"absent", "directory", "link"} \ {folder[path]} :
       folder' = [folder EXCEPT ![path] = x]
  /\ UNCHANGED <<registry, versions, resolving, returned, held, stops>>

(* The service dies; or the machine loses its power, and with it a rename    *)
(* that was not synced and any new directory.                                *)
ServiceDies ==
  /\ stops < MaxStops /\ stops' = stops + 1
  /\ resolving' = NotResolving /\ returned' = {}
  /\ UNCHANGED <<folder, registry, versions, held>>
PowerFails ==
  /\ stops < MaxStops /\ stops' = stops + 1
  /\ resolving' = NotResolving /\ returned' = {}
  /\ registry' \in versions /\ versions' = {registry'}
  /\ folder' \in {folder, [p \in FolderPaths |-> "absent"]}
  /\ UNCHANGED held

-----------------------------------------------------------------------------
(* An older version may have left a reservation (`pending') of any folder.   *)
WorkspacesInit ==
  /\ folder = [p \in FolderPaths |-> "absent"]
  /\ registry \in {[id \in WorkspaceIds |-> IF id = x THEN p ELSE NoPath] :
                     x \in WorkspaceIds \cup {NoPath}, p \in FolderPaths}
  /\ versions = {registry}
  /\ resolving = NotResolving /\ returned = {} /\ held = {} /\ stops = 0

WorkspacesNext ==
  \/ \E id \in WorkspaceIds : ResolveKnown(id) \/ \E name \in Names : ResolveNew(id, name)
  \/ \E x \in returned \cup held : EnsureDirectory(x) \/ HoldPath(x)
  \/ RegistrationRenamed \/ RegistrationSynced \/ ResolveFails
  \/ \E path \in AgentPaths : AgentChanges(path)
  \/ ServiceDies \/ PowerFails

WorkspacesSpec == WorkspacesInit /\ [][WorkspacesNext]_workspaceVars

-----------------------------------------------------------------------------
WorkspacesTypeOK ==
  /\ folder \in [FolderPaths -> {"absent", "directory", "link"}]
  /\ registry \in [WorkspaceIds -> FolderPaths \cup {NoPath}]
  /\ versions \subseteq [WorkspaceIds -> FolderPaths \cup {NoPath}] /\ registry \in versions
  /\ returned \cup held \subseteq WorkspaceIds \X FolderPaths
  /\ resolving \in [at : {"none", "writing", "syncing"}, id : WorkspaceIds \cup {NoPath},
                    path : FolderPaths \cup {NoPath}]
  /\ stops \in 0..MaxStops

(* The path of a session's workspace is that workspace's alone and for ever: *)
(* before its folder exists, after an agent removed it, across failed writes *)
(* and power losses, although names collide and the long path of one id may  *)
(* be the name another asks for (workspace/mod.rs:186).                      *)
PathsHeld ==
  \A x, y \in returned \cup held : x[1] = y[1] <=> x[2] = y[2]
=============================================================================
