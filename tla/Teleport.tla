------------------------------ MODULE Teleport ------------------------------
(* A local conversation moves to the cloud (session/teleport.rs): prepared,  *)
(* uploaded file by file, then activated by one record that makes a session  *)
(* of it.  Requests of one transfer are serialized by its lock, which they   *)
(* hold across their awaits; the sessions are reached under another lock.    *)
EXTENDS Integers, Sequences, SequencesExt

CONSTANTS
  Transfers, Conversation,   \* native_id of each transfer
  Files, Kind, Size,         \* what a manifest may list, in chunks
  Digest,                    \* the version the manifest pins, or None
  Versions,                  \* contents a changing local file may have
  Retries,                   \* ids of explicit retries
  TeleportPlans,             \* what one behaviour may use
  None

Given == {i \in Files : Kind[i] \in {"native", "context"}}  \* sent before start

ASSUME TeleportAssumption ==
  /\ \A i \in Files : Size[i] \in Nat /\ Digest[i] \in Versions \cup {None}
  /\ None \notin Versions \cup Retries
  /\ None \notin [by : Transfers, version : Versions \cup {None}]
  /\ \A p \in TeleportPlans :
       p.transfers \subseteq Transfers /\ p.files \subseteq Files /\ p.faults \in Nat

VARIABLES
  course,        \* which transfers, files, operations and how many faults
  transfer,      \* manifest.json, saved by transfer_save
  parts,         \* <index>.part, what has arrived of each file
  disk,          \* the files as install_transfer placed them
  conversation,  \* the harness's own copy of each native conversation
  request,       \* what holds the transfer's lock, at its await
  entering,      \* activations between the drain check and the lock
  threads,       \* the sessions made of transfers
  unsafe,        \* storage.blocks, or a journal that cannot be written
  drained,
  troubles       \* faults that happened

teleportVars == <<course, transfer, parts, disk, conversation, request, entering,
                  threads, unsafe, drained, troubles>>
unchangedUpload  == <<transfer, parts, disk, conversation>>
unchangedWorld   == <<course, unsafe, drained, troubles>>

Active  == course.transfers
Listed  == course.files
Can(op) == op \in course.uses

-----------------------------------------------------------------------------
(* The manifest and what is saved of a transfer.                             *)

Valid(files) ==
  /\ \E n \in files : \A i \in files : Kind[i] = "native" <=> i = n
  /\ \A i \in files : /\ Kind[i] \in {"native", "context", "project", "attachment"}
                      /\ Digest[i] = None => i \notin Given

Absent == [saved |-> FALSE, cancelled |-> FALSE, files |-> {},
           digests |-> [i \in Files |-> None]]
Fresh  == [Absent EXCEPT !.saved = TRUE]

AllIn(t)      == transfer[t].files = Listed
NeedsNotice   == Listed \ Given # {}

Idle           == [at |-> "idle", file |-> None, retry |-> None]
Hold(t, at, i, r) ==
  request' = [request EXCEPT ![t] = [at |-> at, file |-> i, retry |-> r]]
Free(t)        == request' = [request EXCEPT ![t] = Idle]
At(t, at)      == t \in Active /\ request[t].at = at
TransfersBusy  == \E t \in Active : request[t] # Idle
Trouble        == troubles < course.faults /\ troubles' = troubles + 1

-----------------------------------------------------------------------------
(* The session of a transfer: what Manager does with its records.  `log' is  *)
(* the order of its receipts.                                                *)

NoThread == [state |-> "none", startup |-> "none", queue |-> <<>>, paused |-> FALSE,
             closing |-> FALSE, output |-> FALSE, dispatched |-> FALSE, log |-> <<>>]
Imported(ids) ==
  [NoThread EXCEPT !.state = "resuming", !.queue = ids, !.log = ids]

Handoff     == <<"handoff">>
Follow      == <<"queued">>
Ready       == <<"ready">>
ResumeOf(r) == <<"resume", r>>
RetryOf(r)  == <<"retry", r>>

Exists(t)   == threads[t] # NoThread
(* Mutant: a receipt counts while its prompt is queued.                      *)
KnownQueued(s, id) == id \in ToSet(s.queue)
Known(s, id) == id \in ToSet(s.log)
Work(s)     == s.queue # <<>> /\ ~s.paused
Closed(s)   == s.closing \/ s.state = "closed"

(* advance: wake what sleeps, or dispatch the next prompt of an idle harness *)
Advance(s, room) ==
  IF s.state = "sleeping" /\ Work(s) THEN [s EXCEPT !.state = "resuming"]
  ELSE IF s.state = "idle" /\ Work(s) /\ room /\ ~s.closing
    THEN [s EXCEPT !.state = "running", !.queue = Tail(@), !.dispatched = TRUE]
  ELSE s

Queued(s, id) == [s EXCEPT !.queue = Append(@, id), !.log = Append(@, id)]
Failed(s)     == [s EXCEPT !.queue = <<>>]

(* command: a known id answers with its receipt.                             *)
Accepts(s, command) ==
  /\ ~drained /\ ~Closed(s)
  /\ s.state = "lost" => command = "resume" /\ s.startup # "none"
  /\ command = "prompt" => ~unsafe
Prompted(s, id) ==
  IF Known(s, id) THEN s ELSE Advance(Queued(s, id), ~unsafe)
Resumed(s, id) ==
  IF Known(s, id) THEN s
  ELSE LET u == [s EXCEPT !.paused = FALSE, !.log = Append(@, id)]
       IN  IF s.state = "lost" THEN [u EXCEPT !.state = "resuming"]
           ELSE Advance(u, ~unsafe)

(* A closed session gave its conversation back.  (Mutant: only a session     *)
(* with a harness owns one.)                                                 *)
NativeInUseLive(n) ==
  \E t \in Active : Exists(t) /\ Conversation[t] = n
                    /\ threads[t].state \in {"idle", "running", "closing"}
NativeInUse(n) ==
  \E t \in Active : Exists(t) /\ Conversation[t] = n /\ threads[t].state # "closed"

-----------------------------------------------------------------------------
(* transfer_view.                                                            *)

Announced(t) == NeedsNotice => Known(threads[t], Ready)
Complete(t)  == Exists(t) /\ threads[t].output /\ Announced(t) /\ AllIn(t)
Phase(t) ==
  CASE Complete(t)           -> "complete"
    [] ~Complete(t) /\ Exists(t) -> "running"
    [] ~Exists(t) /\ transfer[t].cancelled -> "cancelled"
    [] OTHER -> "uploading"
ViewError(t) ==
  LET s == threads[t]
  IN  CASE ~Exists(t)                       -> "none"
        [] s.startup # "none"               -> s.startup
        [] s.output                         -> "none"
        [] s.paused                         -> "paused_before_output"
        [] s.state \in {"closed", "lost"}   -> "cloud_process_unavailable"
        [] s.state = "idle" /\ s.queue = <<>> -> "no_cloud_output"
        [] OTHER                            -> "none"

-----------------------------------------------------------------------------
(* teleport_prepare: the checks, then history, models and the workspace,     *)
(* each awaited, and the first save.  A saved transfer is only viewed.       *)

Prepare(t) ==
  /\ At(t, "idle") /\ ~transfer[t].saved /\ Valid(Listed)
  /\ ~unsafe /\ ~drained
  /\ Hold(t, "preparing", None, None)
  /\ UNCHANGED <<unchangedUpload, unchangedWorld, entering, threads>>

Prepared(t) ==
  /\ At(t, "preparing") /\ ~Exists(t)
  /\ transfer' = [transfer EXCEPT ![t] = Fresh] /\ Free(t)
  /\ UNCHANGED <<unchangedWorld, parts, disk, conversation, entering, threads>>

(* teleport_cancel.  (Mutant: the session is not looked for.)                *)
CancelAnyTransfer(t) ==
  /\ Can("cancel") /\ At(t, "idle") /\ transfer[t].saved
  /\ transfer' = [transfer EXCEPT ![t].cancelled = TRUE]
  /\ UNCHANGED <<unchangedWorld, parts, disk, conversation, request, entering, threads>>
CancelTransfer(t) ==
  /\ Can("cancel") /\ At(t, "idle") /\ transfer[t].saved /\ ~Exists(t)
  /\ transfer' = [transfer EXCEPT ![t].cancelled = TRUE]
  /\ UNCHANGED <<unchangedWorld, parts, disk, conversation, request, entering, threads>>

-----------------------------------------------------------------------------
(* teleport_upload: `bytes' at `offset' of a file said to have version v.    *)
(* The digest is pinned and saved first, whatever becomes of the bytes.      *)

Pinned(t, i, v) ==
  /\ Digest[i] \in {None, v} /\ transfer[t].digests[i] \in {None, v}
(* (Mutant: more than the file has is taken.)                                *)
FitsAnyEnd(t, i, offset, bytes) ==
  LET part == parts[t][i]
  IN  /\ offset <= Len(part)
      /\ offset < Len(part) => SubSeq(part, offset + 1, offset + Len(bytes)) = bytes
Fits(t, i, offset, bytes) ==
  LET part == parts[t][i]
      end  == offset + Len(bytes)
  IN  /\ end <= Size[i] /\ offset <= Len(part)
      /\ offset < Len(part) => /\ end <= Len(part)
                               /\ SubSeq(part, offset + 1, end) = bytes
Written(t, i, offset, bytes) ==
  IF offset < Len(parts[t][i]) THEN parts[t][i] ELSE parts[t][i] \o bytes

(* What follows the bytes: nothing to install yet, a conversation that is in *)
(* use, or the installer, awaited.  (Mutant: a repeated upload is only       *)
(* answered.)                                                                *)
AfterBytesViews(t, i, whole) ==
  IF i \in transfer[t].files THEN Free(t)
  ELSE IF ~whole THEN Hold(t, "announcing", None, None)
  ELSE IF Kind[i] = "native" /\ NativeInUse(Conversation[t]) THEN Free(t)
  ELSE Hold(t, "installing", i, None)
AfterBytes(t, i, whole) ==
  IF ~whole THEN Hold(t, "announcing", None, None)
  ELSE IF Kind[i] = "native" /\ NativeInUse(Conversation[t]) THEN Free(t)
  ELSE Hold(t, "installing", i, None)

Upload(t, i, offset, v, bytes) ==
  /\ At(t, "idle") /\ transfer[t].saved /\ i \in Listed
  /\ ~transfer[t].cancelled /\ ~unsafe
  /\ Pinned(t, i, v)
  /\ transfer' = [transfer EXCEPT ![t].digests[i] = v]
  /\ IF i \in transfer[t].files
       THEN AfterBytes(t, i, FALSE) /\ UNCHANGED parts
     ELSE IF ~Fits(t, i, offset, bytes) THEN UNCHANGED <<request, parts>>
     ELSE LET part == Written(t, i, offset, bytes)
          IN  /\ parts' = [parts EXCEPT ![t][i] = part]
              /\ AfterBytes(t, i, Len(part) = Size[i])
  /\ UNCHANGED <<unchangedWorld, disk, conversation, entering, threads>>

(* files.py checks size and digest of what it copies, links it into place    *)
(* if nothing else is there, and replaces only a native conversation.        *)
Sound(t, i) == \A k \in 1..Len(parts[t][i]) : parts[t][i][k] = transfer[t].digests[i]
InPlace(t, i) ==
  IF Kind[i] = "native"
    THEN /\ conversation' = [conversation EXCEPT
                ![Conversation[t]] = [by |-> t, version |-> transfer[t].digests[i]]]
         /\ UNCHANGED disk
    ELSE /\ disk' = [disk EXCEPT ![t][i] = transfer[t].digests[i]]
         /\ UNCHANGED conversation

Installed(t) ==
  LET i == request[t].file
  IN  /\ At(t, "installing") /\ Sound(t, i)
      /\ InPlace(t, i)
      /\ transfer' = [transfer EXCEPT ![t].files = @ \cup {i}]
      /\ Hold(t, "announcing", None, None)
      /\ UNCHANGED <<unchangedWorld, parts, entering, threads>>

(* "teleport file validation failed"                                         *)
Mismatched(t) ==
  /\ At(t, "installing") /\ ~Sound(t, request[t].file) /\ Free(t)
  /\ UNCHANGED <<unchangedUpload, unchangedWorld, entering, threads>>

(* The history store, the installer, the attachment or a directory fails.    *)
AwaitFails(t) ==
  /\ \E at \in {"preparing", "installing", "attaching"} : At(t, at)
  /\ Trouble /\ Free(t)
  /\ UNCHANGED <<unchangedUpload, course, unsafe, drained, entering, threads>>

-----------------------------------------------------------------------------
(* teleport_files_ready, the last step of an upload and of an activation:    *)
(* one receipt tells the session that everything has arrived.                *)

Notice(t) ==
  AllIn(t) /\ NeedsNotice /\ Exists(t) /\ ~Known(threads[t], Ready)
Announce(t) ==
  /\ At(t, "announcing")
  /\ threads' = IF Notice(t) /\ ~Closed(threads[t])
                  THEN [threads EXCEPT ![t] = Advance(Queued(@, Ready), ~unsafe)]
                  ELSE threads
  /\ IF request[t].retry = None \/ (Notice(t) /\ Closed(threads[t])) THEN Free(t)
     ELSE Hold(t, "retrying", None, request[t].retry)
  /\ UNCHANGED <<unchangedUpload, unchangedWorld, entering>>

-----------------------------------------------------------------------------
(* teleport_activate.  The drain is looked at before the lock is taken.      *)

Enter(t, r) ==
  /\ t \in Active /\ ~drained
  /\ ~\E x \in entering : x[1] = t
  /\ entering' = entering \cup {<<t, r>>}
  /\ UNCHANGED <<unchangedUpload, unchangedWorld, request, threads>>

Activate(t, r) ==
  /\ <<t, r>> \in entering /\ At(t, "idle")
  /\ entering' = entering \ {<<t, r>>}
  /\ IF ~transfer[t].saved THEN UNCHANGED request
     ELSE IF Exists(t) THEN Hold(t, "announcing", None, r)
     ELSE IF transfer[t].cancelled \/ ~(Listed \cap Given \subseteq transfer[t].files)
       THEN UNCHANGED request
     ELSE Hold(t, "attaching", None, None)
  /\ UNCHANGED <<unchangedUpload, unchangedWorld, threads>>

(* The index is attached; then, under the service's lock, one record holds   *)
(* the ownership and every prompt of the handoff.                            *)
Attached(t) ==
  /\ At(t, "attaching")
  /\ IF unsafe \/ NativeInUse(Conversation[t]) THEN Free(t) /\ UNCHANGED threads
     ELSE /\ threads' = [threads EXCEPT ![t] = Imported(<<Handoff, Follow>>)]
          /\ Hold(t, "announcing", None, None)
  /\ UNCHANGED <<unchangedUpload, unchangedWorld, entering>>

-----------------------------------------------------------------------------
(* teleport_retry: look at the session, then two commands, each by its id.   *)

Retry(t) ==
  LET s == threads[t]
      r == request[t].retry
      resume == s.paused \/ s.startup # "none" \/ Known(s, ResumeOf(r))
      busy   == s.state = "running" \/ s.queue # <<>>
  IN  /\ At(t, "retrying")
      /\ IF s.output THEN IF resume THEN Hold(t, "reviving", None, r) ELSE Free(t)
         ELSE IF resume THEN Hold(t, "resuming", None, r)
         ELSE IF busy /\ ~Known(s, RetryOf(r)) THEN Free(t)
         ELSE Hold(t, "prompting", None, r)
      /\ UNCHANGED <<unchangedUpload, unchangedWorld, entering, threads>>

RetryResumes(t) ==
  LET s  == threads[t]
      id == ResumeOf(request[t].retry)
      ok == Known(s, id) \/ Accepts(s, "resume")
  IN  /\ At(t, "resuming") \/ At(t, "reviving")
      /\ threads' = IF ok THEN [threads EXCEPT ![t] = Resumed(s, id)] ELSE threads
      /\ IF ok /\ At(t, "resuming") THEN Hold(t, "prompting", None, request[t].retry)
         ELSE Free(t)
      /\ UNCHANGED <<unchangedUpload, unchangedWorld, entering>>

RetryPrompts(t) ==
  LET s  == threads[t]
      id == RetryOf(request[t].retry)
  IN  /\ At(t, "prompting") /\ Free(t)
      /\ threads' = IF Known(s, id) \/ Accepts(s, "prompt")
                      THEN [threads EXCEPT ![t] = Prompted(s, id)] ELSE threads
      /\ UNCHANGED <<unchangedUpload, unchangedWorld, entering>>

-----------------------------------------------------------------------------
(* What else happens to the session: its harness is launched, works, sleeps, *)
(* exits; its user stops or closes it.  Session says how.                    *)

Become(t, s) ==
  /\ threads' = [threads EXCEPT ![t] = s]
  /\ UNCHANGED <<unchangedUpload, request, entering>>
Steady(t, s) == Become(t, s) /\ UNCHANGED unchangedWorld

ThreadReady(t) ==
  LET s == threads[t]
  IN  /\ s.state = "resuming" /\ ~s.closing /\ ~unsafe
      /\ Steady(t, Advance([s EXCEPT !.state = "idle", !.startup = "none"], TRUE))
ThreadFails(t) ==
  LET s == threads[t]
  IN  /\ Can("fail") /\ s.state = "resuming" /\ ~s.closing /\ Trouble
      /\ \/ Become(t, [s EXCEPT !.state = "lost", !.startup = "timeout"])
         \/ Become(t, Failed([s EXCEPT !.state = "lost", !.startup = "failed"]))
      /\ UNCHANGED <<course, unsafe, drained>>
ThreadSpeaks(t) ==
  LET s == threads[t]
  IN  s.state = "running" /\ ~s.output /\ Steady(t, [s EXCEPT !.output = TRUE])
ThreadEnds(t) ==
  LET s == threads[t]
  IN  s.state = "running" /\ Steady(t, Advance([s EXCEPT !.state = "idle"], ~unsafe))
ThreadSleeps(t) ==
  LET s == threads[t]
  IN  /\ Can("sleep") /\ s.state = "idle" /\ ~Work(s)
      /\ Steady(t, [s EXCEPT !.state = "sleeping"])
ThreadExits(t) ==
  LET s == threads[t]
  IN  /\ s.state \in {"idle", "running", "closing"} /\ Trouble
      /\ \/ ~s.closing /\ Become(t, [s EXCEPT !.state = "resuming"])
         \/ Become(t, Failed([s EXCEPT !.state = "lost"]))
      /\ UNCHANGED <<course, unsafe, drained>>

Stop(t) ==
  LET s == threads[t]
  IN  /\ Can("stop") /\ Exists(t) /\ ~Closed(s) /\ s.state # "lost"
      /\ ~Known(s, <<"stop">>)
      /\ Steady(t, [s EXCEPT !.paused = TRUE, !.log = Append(@, <<"stop">>)])
Close(t) ==
  LET s == threads[t]
  IN  /\ Can("close") /\ Exists(t) /\ ~Closed(s) /\ s.state # "lost"
      /\ \E state \in {"closing", "closed"} :
           /\ s.state \in {"idle", "running"} => state = "closing"
           /\ s.state = "sleeping" => state = "closed"
           /\ Steady(t, Failed([s EXCEPT !.closing = TRUE, !.state = state]))
ThreadCloses(t) ==
  LET s == threads[t]
  IN  s.state = "closing" /\ Steady(t, [s EXCEPT !.state = "closed"])

(* The machine: a drain takes hold when nothing runs, space runs out and     *)
(* comes back, and the service dies and starts again.                        *)
ThreadBusy(t) ==
  LET s == threads[t]
  IN  s.state \in {"resuming", "running", "closing"} \/ (s.state # "none" /\ Work(s))
Drain ==
  /\ Can("drain") /\ ~drained /\ Trouble /\ ~TransfersBusy
  /\ ~\E t \in Active : ThreadBusy(t)
  /\ drained' = TRUE
  /\ UNCHANGED <<unchangedUpload, course, unsafe, request, entering, threads>>
Undrain ==
  /\ drained /\ drained' = FALSE
  /\ UNCHANGED <<unchangedUpload, course, unsafe, troubles, request, entering, threads>>
FillDisk ==
  /\ Can("fill") /\ ~unsafe /\ Trouble /\ unsafe' = TRUE
  /\ UNCHANGED <<unchangedUpload, course, drained, request, entering, threads>>
FreeDisk ==
  /\ unsafe /\ unsafe' = FALSE
  /\ threads' = [t \in Transfers |-> Advance(threads[t], TRUE)]
  /\ UNCHANGED <<unchangedUpload, course, drained, troubles, request, entering>>

Rebooted(s, awake) ==
  CASE s.state \in {"none", "closed"}      -> s
    [] s.state = "lost"                    -> IF s.startup = "timeout" THEN s ELSE Failed(s)
    [] s.state = "closing" \/ (s.state = "resuming" /\ s.dispatched /\ s.startup # "timeout")
                                           -> Failed([s EXCEPT !.state = "lost"])
    [] s.state = "sleeping" /\ ~Work(s)    -> s
    [] OTHER -> [s EXCEPT !.state = IF Work(s) \/ awake THEN "resuming" ELSE "sleeping"]

(* An installer that was at work may still have placed its file.             *)
RestartService ==
  /\ Trouble
  /\ \/ UNCHANGED <<disk, conversation>>
     \/ \E t \in Active : At(t, "installing") /\ Sound(t, request[t].file)
                          /\ InPlace(t, request[t].file)
  /\ request' = [t \in Transfers |-> Idle] /\ entering' = {} /\ drained' = FALSE
  /\ \E awake \in BOOLEAN :
       threads' = [t \in Transfers |-> Rebooted(threads[t], awake)]
  /\ UNCHANGED <<course, transfer, parts, unsafe>>

-----------------------------------------------------------------------------
TeleportInit ==
  /\ course \in TeleportPlans
  /\ transfer     = [t \in Transfers |-> Absent]
  /\ parts        = [t \in Transfers |-> [i \in Files |-> <<>>]]
  /\ disk         = [t \in Transfers |-> [i \in Files |-> None]]
  /\ conversation = [n \in {Conversation[t] : t \in Transfers} |-> None]
  /\ request      = [t \in Transfers |-> Idle]
  /\ threads      = [t \in Transfers |-> NoThread]
  /\ entering = {} /\ unsafe = FALSE /\ drained = FALSE /\ troubles = 0

Chunks == UNION {[1..n -> Versions] : n \in 0..2}

(* The client's next bytes of a file that arrived unspoiled, said to be what *)
(* they are; when all have arrived it repeats one until the transfer ends.   *)
NextBytes(t) ==
  \E i \in Listed, v \in Versions :
    LET part == parts[t][i]
    IN  /\ i \in transfer[t].files => AllIn(t)
        /\ Upload(t, i, Len(part), v, [k \in 1..(Size[i] - Len(part)) |-> v])

AwaitEnds(t) ==
  \/ Prepared(t) \/ Installed(t) \/ Mismatched(t) \/ Announce(t) \/ Attached(t)
  \/ Retry(t) \/ RetryResumes(t) \/ RetryPrompts(t)
ThreadMoves(t) == ThreadReady(t) \/ ThreadEnds(t) \/ ThreadCloses(t)

TeleportNext ==
  \/ \E t \in Active :
       \/ Prepare(t) \/ CancelTransfer(t)
       \/ \E i \in Files, offset \in 0..2, v \in Versions, bytes \in Chunks :
            Upload(t, i, offset, v, bytes)
       \/ \E r \in (Retries \cap course.uses) \cup {None} : Enter(t, r) \/ Activate(t, r)
       \/ AwaitEnds(t) \/ AwaitFails(t)
       \/ ThreadMoves(t) \/ ThreadFails(t) \/ ThreadSpeaks(t) \/ ThreadSleeps(t)
       \/ ThreadExits(t) \/ Stop(t) \/ Close(t)
  \/ Drain \/ Undrain \/ FillDisk \/ FreeDisk \/ RestartService

(* The tasks of the service run on, space and the machine come back, and the *)
(* client goes on with its uploads.                                          *)
FairTo(t) ==
  /\ WF_teleportVars(AwaitEnds(t))
  /\ WF_teleportVars(ThreadMoves(t))
  /\ SF_teleportVars(t \in Active /\ NextBytes(t))
TeleportFairness ==
  WF_teleportVars(Undrain \/ FreeDisk) /\ \A t \in Transfers : FairTo(t)

TeleportSpec == TeleportInit /\ [][TeleportNext]_teleportVars /\ TeleportFairness

-----------------------------------------------------------------------------
ThreadStates == {"none", "resuming", "idle", "running", "sleeping", "lost",
                 "closing", "closed"}
Ids == {Handoff, Follow, Ready, <<"stop">>}
       \cup {ResumeOf(r) : r \in Retries} \cup {RetryOf(r) : r \in Retries}

TeleportTypeOK ==
  /\ transfer \in [Transfers -> [saved : BOOLEAN, cancelled : BOOLEAN,
       files : SUBSET Files, digests : [Files -> Versions \cup {None}]]]
  /\ \A t \in Transfers, i \in Files :
       parts[t][i] \in Seq(Versions) /\ Len(parts[t][i]) <= Size[i]
  /\ disk \in [Transfers -> [Files -> Versions \cup {None}]]
  /\ \A t \in Transfers :
       /\ threads[t].state \in ThreadStates
       /\ threads[t].startup \in {"none", "timeout", "failed"}
       /\ ToSet(threads[t].queue) \subseteq ToSet(threads[t].log)
       /\ ToSet(threads[t].log) \subseteq Ids
  /\ entering \subseteq Transfers \X (Retries \cup {None})
  /\ unsafe \in BOOLEAN /\ drained \in BOOLEAN /\ troubles \in 0..course.faults

(* A native conversation has one session that is not closed, whichever       *)
(* transfers of it were uploaded, activated and retried at once: what the    *)
(* check under the service's lock is for (teleport.rs:198).                  *)
OneOwner ==
  \A t, u \in Active :
    t # u /\ Conversation[t] = Conversation[u] /\ Exists(t) /\ Exists(u)
      => "closed" \in {threads[t].state, threads[u].state}

(* No prompt of a handoff, no notice and no explicit retry enters a session  *)
(* twice, however often its request is repeated, across lost replies,        *)
(* restarts and refusals between its two commands (teleport.rs:655).         *)
QueuedOnce == \A t \in Active : IsInjective(threads[t].log)

(* A session runs only on a transfer that was not cancelled and that holds   *)
(* everything the harness needs, and what manifest.json says has arrived is  *)
(* on disk, byte for byte of the version pinned by its first upload.         *)
StartedWhole ==
  \A t \in Active :
    /\ Exists(t) => /\ transfer[t].saved /\ ~transfer[t].cancelled
                    /\ Listed \cap Given \subseteq transfer[t].files
    /\ \A i \in transfer[t].files :
         IF Kind[i] = "native" THEN conversation[Conversation[t]] # None
         ELSE disk[t][i] # None /\ disk[t][i] = transfer[t].digests[i] /\ Sound(t, i)

(* A transfer that is running comes to a state its view has a word for.      *)
Spoiled(t) == \E i \in Listed : ~Sound(t, i)
MovesOn(t) ==
  (t \in Active /\ Phase(t) = "running")
    ~> \/ Phase(t) = "complete" \/ ViewError(t) # "none"
       \/ Closed(threads[t]) \/ threads[t].state = "sleeping" \/ Spoiled(t)
=============================================================================
