--------------------------- MODULE TeleportProofs ---------------------------
(***************************************************************************)
(* Proofs about Teleport for any transfers, files, versions and retries,    *)
(* and any number of faults.                                                *)
(***************************************************************************)
EXTENDS Teleport, TLAPS

Thread == [state : ThreadStates, startup : {"none", "timeout", "failed"},
           queue : Seq(Ids), paused : BOOLEAN, closing : BOOLEAN, output : BOOLEAN,
           dispatched : BOOLEAN, log : Seq(Ids)]

(* A session has each receipt once; until it exists it has nothing.          *)
Good(s) ==
  /\ s \in Thread /\ IsInjective(s.log)
  /\ s.state = "none" => s = NoThread

(* What a step may make of a session that exists: it does not vanish, and    *)
(* once closed it stays closed.                                              *)
Continues(s, u) ==
  /\ s.state # "none" => u.state # "none"
  /\ s.state = "none" => u.state = "none"
  /\ s.state = "closed" => u.state = "closed"

-----------------------------------------------------------------------------
LEMMA NoThreadGood == Good(NoThread)
<1>1. <<>> \in Seq(Ids) /\ IsInjective(<<>>)
  BY DEF IsInjective
<1> QED  BY <1>1 DEF Good, NoThread, Thread, ThreadStates

(* A receipt that is not in the log may be appended.                         *)
LEMMA LogGrows ==
  ASSUME NEW log \in Seq(Ids), IsInjective(log), NEW id \in Ids, id \notin ToSet(log)
  PROVE  Append(log, id) \in Seq(Ids) /\ IsInjective(Append(log, id))
<1>1. /\ Append(log, id) \in Seq(Ids)
      /\ DOMAIN Append(log, id) = 1..(Len(log) + 1) /\ Len(log) \in Nat
      /\ \A k \in 1..Len(log) : Append(log, id)[k] = log[k]
      /\ Append(log, id)[Len(log) + 1] = id
  OBVIOUS
<1>2. \A k \in 1..Len(log) : log[k] # id
  BY DEF ToSet
<1>3. \A a, b \in 1..Len(log) : log[a] = log[b] => a = b
  BY DEF IsInjective
<1>4. ASSUME NEW a \in 1..(Len(log) + 1), NEW b \in 1..(Len(log) + 1),
             Append(log, id)[a] = Append(log, id)[b]
      PROVE  a = b
  <2>1. CASE a \in 1..Len(log) /\ b \in 1..Len(log)
    BY <1>1, <1>3, <1>4, <2>1
  <2>2. CASE a = Len(log) + 1 /\ b \in 1..Len(log)
    BY <1>1, <1>2, <1>4, <2>2
  <2>3. CASE b = Len(log) + 1 /\ a \in 1..Len(log)
    BY <1>1, <1>2, <1>4, <2>3
  <2>4. CASE a = Len(log) + 1 /\ b = Len(log) + 1
    BY <2>4
  <2>5. \A c \in 1..(Len(log) + 1) : c \in 1..Len(log) \/ c = Len(log) + 1
    BY <1>1
  <2> QED  BY <2>1, <2>2, <2>3, <2>4, <2>5
<1> QED  BY <1>1, <1>4 DEF IsInjective

(* A step that leaves the log alone.                                         *)
LEMMA SameLog ==
  ASSUME NEW s, Good(s), s.state # "none", NEW u \in Thread, u.log = s.log,
         u.state # "none", s.state = "closed" => u.state = "closed"
  PROVE  Good(u) /\ Continues(s, u)
BY DEF Good, Continues

LEMMA AdvanceFollows ==
  ASSUME NEW s, Good(s), NEW room \in BOOLEAN
  PROVE  Good(Advance(s, room)) /\ Continues(s, Advance(s, room))
<1>0. s \in Thread
  BY DEF Good
<1>1. CASE s.state = "sleeping" /\ Work(s)
  <2> DEFINE u == [s EXCEPT !.state = "resuming"]
  <2>1. u \in Thread /\ u.log = s.log /\ u.state = "resuming"
    BY <1>0 DEF Thread, ThreadStates
  <2>2. Advance(s, room) = u
    BY <1>1 DEF Advance
  <2> HIDE DEF u
  <2> QED  BY <1>1, <2>1, <2>2, SameLog
<1>2. CASE s.state = "idle" /\ Work(s) /\ room /\ ~s.closing
  <2> DEFINE u == [s EXCEPT !.state = "running", !.queue = Tail(@), !.dispatched = TRUE]
  <2>1. Tail(s.queue) \in Seq(Ids)
    BY <1>0, <1>2 DEF Thread, Work
  <2>2. u \in Thread /\ u.log = s.log /\ u.state = "running"
    BY <1>0, <2>1 DEF Thread, ThreadStates
  <2>3. Advance(s, room) = u
    BY <1>2 DEF Advance
  <2> HIDE DEF u
  <2> QED  BY <1>2, <2>2, <2>3, SameLog
<1>3. CASE /\ ~(s.state = "sleeping" /\ Work(s))
           /\ ~(s.state = "idle" /\ Work(s) /\ room /\ ~s.closing)
  <2>1. Advance(s, room) = s
    BY <1>3 DEF Advance
  <2> QED  BY <2>1 DEF Continues
<1> QED  BY <1>1, <1>2, <1>3

LEMMA FollowsTransitive ==
  ASSUME NEW s, NEW u, NEW v, Continues(s, u), Continues(u, v) PROVE Continues(s, v)
BY DEF Continues

LEMMA QueuedFollows ==
  ASSUME NEW s, Good(s), s.state # "none", NEW id \in Ids, ~Known(s, id)
  PROVE  Good(Queued(s, id)) /\ Continues(s, Queued(s, id))
<1>1. s \in Thread /\ s.log \in Seq(Ids) /\ s.queue \in Seq(Ids) /\ IsInjective(s.log)
  BY DEF Good, Thread
<1>2. Append(s.log, id) \in Seq(Ids) /\ IsInjective(Append(s.log, id))
  BY <1>1, LogGrows DEF Known
<1>3. Append(s.queue, id) \in Seq(Ids)
  BY <1>1
<1>4. Queued(s, id) \in Thread /\ Queued(s, id).log = Append(s.log, id)
      /\ Queued(s, id).state = s.state
  BY <1>1, <1>2, <1>3 DEF Queued, Thread
<1> QED  BY <1>2, <1>4 DEF Good, Continues

LEMMA PromptedFollows ==
  ASSUME NEW s, Good(s), s.state # "none", NEW id \in Ids, unsafe \in BOOLEAN
  PROVE  Good(Prompted(s, id)) /\ Continues(s, Prompted(s, id))
<1>1. CASE Known(s, id)
  BY <1>1 DEF Prompted, Continues
<1>2. CASE ~Known(s, id)
  <2>1. Good(Queued(s, id)) /\ Continues(s, Queued(s, id))
    BY <1>2, QueuedFollows
  <2>2. /\ Good(Advance(Queued(s, id), ~unsafe))
        /\ Continues(Queued(s, id), Advance(Queued(s, id), ~unsafe))
    BY <2>1, AdvanceFollows
  <2> QED  BY <1>2, <2>1, <2>2, FollowsTransitive DEF Prompted
<1> QED  BY <1>1, <1>2

LEMMA ResumedFollows ==
  ASSUME NEW s, Good(s), s.state # "none", NEW id \in Ids, unsafe \in BOOLEAN
  PROVE  Good(Resumed(s, id)) /\ Continues(s, Resumed(s, id))
<1>1. CASE Known(s, id)
  BY <1>1 DEF Resumed, Continues
<1>2. CASE ~Known(s, id)
  <2> DEFINE u == [s EXCEPT !.paused = FALSE, !.log = Append(@, id)]
  <2> DEFINE v == [u EXCEPT !.state = "resuming"]
  <2>1. s \in Thread /\ s.log \in Seq(Ids) /\ IsInjective(s.log)
    BY DEF Good, Thread
  <2>2. Append(s.log, id) \in Seq(Ids) /\ IsInjective(Append(s.log, id))
    BY <1>2, <2>1, LogGrows DEF Known
  <2>3. u \in Thread /\ u.log = Append(s.log, id) /\ u.state = s.state
    BY <2>1, <2>2 DEF Thread
  <2>4. Resumed(s, id) = IF s.state = "lost" THEN v ELSE Advance(u, ~unsafe)
    BY <1>2 DEF Resumed
  <2> HIDE DEF u
  <2>5. Good(u) /\ Continues(s, u)
    BY <2>2, <2>3 DEF Good, Continues
  <2>6. v \in Thread /\ v.log = u.log /\ v.state = "resuming"
    BY <2>3 DEF Thread, ThreadStates
  <2> HIDE DEF v
  <2>7. CASE s.state = "lost"
    <3>1. Good(v) /\ Continues(u, v)
      BY <2>3, <2>5, <2>6, <2>7, SameLog
    <3> QED  BY <2>4, <2>5, <2>7, <3>1, FollowsTransitive
  <2>8. CASE s.state # "lost"
    <3>1. Good(Advance(u, ~unsafe)) /\ Continues(u, Advance(u, ~unsafe))
      BY <2>5, AdvanceFollows
    <3> QED  BY <2>4, <2>5, <2>8, <3>1, FollowsTransitive
  <2> QED  BY <2>7, <2>8
<1> QED  BY <1>1, <1>2

(* A thread moves to another state, perhaps with its startup or its flags.   *)
LEMMA MovedFollows ==
  ASSUME NEW s, Good(s), s.state # "none", s.state # "closed",
         NEW u \in Thread, u.log = s.log, u.state # "none"
  PROVE  Good(u) /\ Continues(s, u)
BY SameLog

LEMMA RebootedFollows ==
  ASSUME NEW s, Good(s), NEW awake \in BOOLEAN
  PROVE  Good(Rebooted(s, awake)) /\ Continues(s, Rebooted(s, awake))
<1> DEFINE u == Rebooted(s, awake)
<1>0. s \in Thread /\ <<>> \in Seq(Ids)
  BY DEF Good
<1>1. CASE s.state \in {"none", "closed"}
  BY <1>1 DEF Rebooted, Continues
<1>2. CASE s.state \notin {"none", "closed"}
  <2>1. \/ u = s
        \/ u = Failed(s)
        \/ u = Failed([s EXCEPT !.state = "lost"])
        \/ u = [s EXCEPT !.state = "resuming"]
        \/ u = [s EXCEPT !.state = "sleeping"]
    BY <1>2 DEF Rebooted
  <2>2. \A x \in Thread : /\ Failed(x) \in Thread /\ Failed(x).log = x.log
                          /\ Failed(x).state = x.state
    BY <1>0 DEF Failed, Thread
  <2>3. \A state \in {"lost", "resuming", "sleeping"} :
          /\ [s EXCEPT !.state = state] \in Thread
          /\ [s EXCEPT !.state = state].log = s.log
          /\ [s EXCEPT !.state = state].state = state
    BY <1>0 DEF Thread, ThreadStates
  <2>4. u \in Thread /\ u.log = s.log /\ u.state # "none"
    BY <1>0, <1>2, <2>1, <2>2, <2>3
  <2> QED  BY <1>2, <2>4, MovedFollows
<1> QED  BY <1>1, <1>2

LEMMA ImportedGood ==
  LET s == Imported(<<Handoff, Follow>>) IN Good(s) /\ s.state = "resuming"
<1> DEFINE ids == <<Handoff, Follow>>
<1>1. ids \in Seq(Ids)
  BY DEF Ids
<1>2. IsInjective(ids)
  BY DEF IsInjective, Handoff, Follow
<1> HIDE DEF ids
<1>3. NoThread \in Thread
  BY NoThreadGood DEF Good
<1>4. /\ Imported(ids) \in Thread /\ Imported(ids).log = ids
      /\ Imported(ids).state = "resuming"
  BY <1>1, <1>3 DEF Imported, Thread, ThreadStates
<1>5. Good(Imported(ids)) /\ Imported(ids).state = "resuming"
  BY <1>2, <1>4 DEF Good
<1> QED  BY <1>5 DEF ids

-----------------------------------------------------------------------------
TransferRecord == [saved : BOOLEAN, cancelled : BOOLEAN, files : SUBSET Files,
                   digests : [Files -> Versions \cup {None}]]
Answering      == {"retrying", "reviving", "resuming", "prompting"}
RequestRecord  == [at : Answering \cup {"idle", "preparing", "announcing", "installing",
                                        "attaching"},
                   file : Files \cup {None}, retry : Retries \cup {None}]
Placed         == [by : Transfers, version : Versions \cup {None}]

TypeInv ==
  /\ course \in TeleportPlans /\ unsafe \in BOOLEAN
  /\ transfer \in [Transfers -> TransferRecord]
  /\ request \in [Transfers -> RequestRecord]
  /\ threads \in [Transfers -> Thread]
  /\ parts = [t \in Transfers |-> parts[t]]
  /\ \A t \in Transfers : parts[t] = [i \in Files |-> parts[t][i]]
  /\ disk \in [Transfers -> [Files -> Versions \cup {None}]]
  /\ conversation \in [{Conversation[t] : t \in Transfers} -> Placed \cup {None}]

ThreadsInv == \A t \in Transfers : Good(threads[t])

(* What a request found before its await still holds after it, as no other   *)
(* request of the transfer came between.                                     *)
Startable(t) ==
  /\ transfer[t].saved /\ ~transfer[t].cancelled
  /\ Listed \cap Given \subseteq transfer[t].files
LockOK(q, t) ==
  /\ q.at \in Answering => Exists(t) /\ q.retry \in Retries
  /\ q.at = "announcing" /\ q.retry # None => Exists(t)
  /\ q.at = "attaching" => Startable(t) /\ ~Exists(t)
  /\ q.at = "installing" => q.file \in Files /\ transfer[t].digests[q.file] \in Versions
LockInv  == \A t \in Transfers : LockOK(request[t], t)
WholeInv == \A t \in Transfers : Exists(t) => Startable(t)

FileWhole(t, i) ==
  IF Kind[i] = "native" THEN conversation[Conversation[t]] # None
  ELSE disk[t][i] # None /\ disk[t][i] = transfer[t].digests[i] /\ Sound(t, i)
FilesInv == \A t \in Transfers : \A i \in transfer[t].files : FileWhole(t, i)

IInv == TypeInv /\ ThreadsInv /\ OneOwner /\ LockInv /\ WholeInv /\ FilesInv

LEMMA ActiveTransfers == TypeInv => Active \subseteq Transfers /\ Listed \subseteq Files
BY TeleportAssumption DEF TypeInv, Active, Listed

LEMMA ExistsState ==
  ThreadsInv => \A t \in Transfers : Exists(t) <=> threads[t].state # "none"
BY DEF ThreadsInv, Good, Exists, NoThread

(* Sessions that only go on: none appears, and none that is closed owns      *)
(* anything again.                                                           *)
LEMMA ThreadsGoOn ==
  ASSUME TypeInv, ThreadsInv, OneOwner, course' = course,
         threads' \in [Transfers -> Thread],
         \A t \in Transfers : Good(threads'[t]) /\ Continues(threads[t], threads'[t])
  PROVE  /\ ThreadsInv' /\ OneOwner'
         /\ \A t \in Transfers : Exists(t)' = Exists(t)
<1>1. ThreadsInv'
  BY DEF ThreadsInv
<1>2. \A t \in Transfers : Exists(t)' <=> threads'[t].state # "none"
  BY <1>1 DEF ThreadsInv, Good, Exists, NoThread
<1>3. \A t \in Transfers : Exists(t)' = Exists(t)
  BY <1>2, ExistsState DEF Continues, Exists
<1>4. OneOwner'
  <2> SUFFICES ASSUME NEW t \in Active, NEW u \in Active, t # u,
                      Conversation[t] = Conversation[u], Exists(t)', Exists(u)'
               PROVE  "closed" \in {threads'[t].state, threads'[u].state}
    BY DEF OneOwner, Active
  <2>1. t \in Transfers /\ u \in Transfers
    BY ActiveTransfers
  <2>2. "closed" \in {threads[t].state, threads[u].state}
    BY <1>3, <2>1 DEF OneOwner
  <2> QED  BY <2>1, <2>2 DEF Continues
<1> QED  BY <1>1, <1>3, <1>4

LEMMA OneThread ==
  ASSUME TypeInv, ThreadsInv, NEW t \in Transfers, NEW s, Good(s), Continues(threads[t], s),
         threads' = [threads EXCEPT ![t] = s]
  PROVE  /\ threads' \in [Transfers -> Thread]
         /\ \A u \in Transfers : Good(threads'[u]) /\ Continues(threads[u], threads'[u])
<1>1. s \in Thread /\ threads \in [Transfers -> Thread]
  BY DEF Good, TypeInv
<1>2. threads'[t] = s /\ \A u \in Transfers \ {t} : threads'[u] = threads[u]
  BY <1>1
<1>3. \A u \in Transfers : Continues(threads[u], threads[u]) /\ Good(threads[u])
  BY DEF Continues, ThreadsInv
<1> QED  BY <1>1, <1>2, <1>3

LEMMA SameThreads ==
  ASSUME TypeInv, ThreadsInv, threads' = threads
  PROVE  /\ threads' \in [Transfers -> Thread]
         /\ \A u \in Transfers : Good(threads'[u]) /\ Continues(threads[u], threads'[u])
BY DEF TypeInv, ThreadsInv, Continues

(* A step that leaves the uploads alone, of a request that may go on to what *)
(* it found.                                                                 *)
LEMMA GoOnInv ==
  ASSUME IInv, UNCHANGED <<unchangedUpload, course>>, unsafe' \in BOOLEAN,
         threads' \in [Transfers -> Thread],
         \A t \in Transfers : Good(threads'[t]) /\ Continues(threads[t], threads'[t]),
         request' \in [Transfers -> RequestRecord],
         \A t \in Transfers : request'[t] = request[t] \/ LockOK(request'[t], t)
  PROVE  IInv'
<1>1. /\ ThreadsInv' /\ OneOwner'
      /\ \A t \in Transfers : Exists(t)' = Exists(t)
  BY ThreadsGoOn DEF IInv
<1>2. TypeInv'
  BY DEF IInv, TypeInv, unchangedUpload
<1>3. \A t \in Transfers : Startable(t)' = Startable(t)
  BY DEF Startable, unchangedUpload, Listed
<1>4. LockInv'
  <2>1. \A t \in Transfers : LockOK(request'[t], t)
    BY DEF IInv, LockInv
  <2> QED  BY <1>1, <1>3, <2>1 DEF LockInv, LockOK, unchangedUpload
<1>5. WholeInv'
  BY <1>1, <1>3 DEF IInv, WholeInv
<1>6. FilesInv'
  BY DEF IInv, FilesInv, FileWhole, Sound, unchangedUpload
<1> QED  BY <1>1, <1>2, <1>4, <1>5, <1>6 DEF IInv

LEMMA HoldOK ==
  ASSUME TypeInv, NEW t \in Transfers, NEW q \in RequestRecord, LockOK(q, t),
         request' = [request EXCEPT ![t] = q]
  PROVE  /\ request' \in [Transfers -> RequestRecord]
         /\ \A u \in Transfers : request'[u] = request[u] \/ LockOK(request'[u], u)
BY DEF TypeInv

LEMMA FreeOK ==
  ASSUME TypeInv, NEW t \in Transfers, Free(t)
  PROVE  /\ request' \in [Transfers -> RequestRecord]
         /\ \A u \in Transfers : request'[u] = request[u] \/ LockOK(request'[u], u)
<1>1. Idle \in RequestRecord /\ Idle.at = "idle"
  BY DEF Idle, RequestRecord, Answering
<1>2. LockOK(Idle, t)
  BY <1>1 DEF LockOK, Answering
<1> QED  BY <1>1, <1>2, HoldOK DEF Free

LEMMA SameRequests ==
  ASSUME TypeInv, request' = request
  PROVE  /\ request' \in [Transfers -> RequestRecord]
         /\ \A u \in Transfers : request'[u] = request[u] \/ LockOK(request'[u], u)
BY DEF TypeInv

LEMMA HeldOK ==
  ASSUME TypeInv, NEW t \in Transfers,
         NEW at \in Answering \cup {"idle", "preparing", "announcing", "installing",
                                    "attaching"},
         NEW i \in Files \cup {None}, NEW r \in Retries \cup {None},
         at \in Answering => Exists(t) /\ r \in Retries,
         at = "announcing" /\ r # None => Exists(t),
         at = "attaching" => Startable(t) /\ ~Exists(t),
         at = "installing" => i \in Files /\ transfer[t].digests[i] \in Versions,
         Hold(t, at, i, r)
  PROVE  /\ request' \in [Transfers -> RequestRecord]
         /\ \A u \in Transfers : request'[u] = request[u] \/ LockOK(request'[u], u)
<1> DEFINE q == [at |-> at, file |-> i, retry |-> r]
<1>1. q \in RequestRecord /\ q.at = at /\ q.file = i /\ q.retry = r
  BY DEF RequestRecord
<1>2. request' = [request EXCEPT ![t] = q]
  BY DEF Hold
<1> HIDE DEF q
<1>3. LockOK(q, t)
  BY <1>1 DEF LockOK
<1> QED  BY <1>1, <1>2, <1>3, HoldOK

(* What a request that is at its await knows.                                *)
LEMMA AtFacts ==
  ASSUME IInv, NEW t, NEW at, At(t, at)
  PROVE  /\ TypeInv /\ ThreadsInv /\ t \in Transfers /\ t \in Active
         /\ request[t] \in RequestRecord /\ request[t].at = at /\ LockOK(request[t], t)
         /\ Good(threads[t]) /\ unsafe \in BOOLEAN /\ (~unsafe) \in BOOLEAN
         /\ (Exists(t) <=> threads[t].state # "none")
<1>1. TypeInv /\ ThreadsInv /\ t \in Active /\ request[t].at = at /\ unsafe \in BOOLEAN
  BY DEF IInv, At, TypeInv
<1>2. t \in Transfers
  BY <1>1, ActiveTransfers
<1>3. request[t] \in RequestRecord /\ LockOK(request[t], t)
  BY <1>1, <1>2 DEF IInv, TypeInv, LockInv
<1>4. Good(threads[t])
  BY <1>2 DEF IInv, ThreadsInv
<1> QED  BY <1>1, <1>2, <1>3, <1>4, ExistsState

-----------------------------------------------------------------------------
LEMMA PrepareInv ==
  ASSUME IInv, NEW t \in Active, Prepare(t) PROVE IInv'
<1>1. At(t, "idle") /\ Hold(t, "preparing", None, None)
      /\ UNCHANGED <<unchangedUpload, unchangedWorld, threads>>
  BY DEF Prepare
<1>2. /\ request' \in [Transfers -> RequestRecord]
      /\ \A u \in Transfers : request'[u] = request[u] \/ LockOK(request'[u], u)
  BY <1>1, AtFacts, HeldOK DEF Answering
<1> QED  BY <1>1, <1>2, AtFacts, SameThreads, GoOnInv DEF unchangedWorld

LEMMA MismatchedInv ==
  ASSUME IInv, NEW t \in Active, Mismatched(t) PROVE IInv'
<1>1. At(t, "installing") /\ Free(t)
      /\ UNCHANGED <<unchangedUpload, unchangedWorld, threads>>
  BY DEF Mismatched
<1> QED  BY <1>1, AtFacts, FreeOK, SameThreads, GoOnInv DEF unchangedWorld

LEMMA AwaitFailsInv ==
  ASSUME IInv, NEW t \in Active, AwaitFails(t) PROVE IInv'
<1>1. PICK at \in {"preparing", "installing", "attaching"} : At(t, at)
  BY DEF AwaitFails
<1>2. Free(t) /\ UNCHANGED <<unchangedUpload, course, unsafe, threads>>
  BY DEF AwaitFails
<1> QED  BY <1>1, <1>2, AtFacts, FreeOK, SameThreads, GoOnInv

LEMMA EnterInv ==
  ASSUME IInv, NEW t, NEW r, Enter(t, r) PROVE IInv'
<1>1. /\ UNCHANGED <<unchangedUpload, course, unsafe, threads, request>>
      /\ TypeInv /\ ThreadsInv /\ unsafe \in BOOLEAN
  BY DEF Enter, IInv, TypeInv, unchangedWorld
<1> QED  BY <1>1, SameRequests, SameThreads, GoOnInv

LEMMA ActivateInv ==
  ASSUME IInv, NEW t \in Active, NEW r \in Retries \cup {None}, Activate(t, r)
  PROVE  IInv'
<1>1. At(t, "idle") /\ UNCHANGED <<unchangedUpload, unchangedWorld, threads>>
  BY DEF Activate
<1>2. /\ request' \in [Transfers -> RequestRecord]
      /\ \A u \in Transfers : request'[u] = request[u] \/ LockOK(request'[u], u)
  <2>1. CASE request' = request
    BY <1>1, <2>1, AtFacts, SameRequests
  <2>2. CASE Exists(t) /\ Hold(t, "announcing", None, r)
    BY <1>1, <2>2, AtFacts, HeldOK DEF Answering
  <2>3. CASE ~Exists(t) /\ Startable(t) /\ Hold(t, "attaching", None, None)
    BY <1>1, <2>3, AtFacts, HeldOK DEF Answering
  <2> QED  BY <2>1, <2>2, <2>3 DEF Activate, Startable
<1> QED  BY <1>1, <1>2, AtFacts, SameThreads, GoOnInv DEF unchangedWorld

LEMMA AnnounceInv ==
  ASSUME IInv, NEW t \in Active, Announce(t) PROVE IInv'
<1> DEFINE s == Advance(Queued(threads[t], Ready), ~unsafe)
<1>1. At(t, "announcing") /\ UNCHANGED <<unchangedUpload, unchangedWorld>>
  BY DEF Announce
<1>2. \/ threads' = threads
      \/ Notice(t) /\ threads' = [threads EXCEPT ![t] = s]
  BY DEF Announce
<1>3. /\ threads' \in [Transfers -> Thread]
      /\ \A u \in Transfers : Good(threads'[u]) /\ Continues(threads[u], threads'[u])
  <2>1. CASE threads' = threads
    BY <1>1, <2>1, AtFacts, SameThreads
  <2>2. CASE Notice(t) /\ threads' = [threads EXCEPT ![t] = s]
    <3>1. threads[t].state # "none" /\ ~Known(threads[t], Ready) /\ Ready \in Ids
      BY <1>1, <2>2, AtFacts DEF Notice, Ids
    <3>2. Good(Queued(threads[t], Ready)) /\ Continues(threads[t], Queued(threads[t], Ready))
      BY <1>1, <3>1, AtFacts, QueuedFollows
    <3>3. Good(s) /\ Continues(Queued(threads[t], Ready), s)
      BY <1>1, <3>2, AtFacts, AdvanceFollows
    <3> HIDE DEF s
    <3>4. Continues(threads[t], s)
      BY <3>2, <3>3, FollowsTransitive
    <3> QED  BY <1>1, <2>2, <3>3, <3>4, AtFacts, OneThread
  <2> QED  BY <1>2, <2>1, <2>2
<1>4. /\ request' \in [Transfers -> RequestRecord]
      /\ \A u \in Transfers : request'[u] = request[u] \/ LockOK(request'[u], u)
  <2>1. CASE Free(t)
    BY <1>1, <2>1, AtFacts, FreeOK
  <2>2. CASE request[t].retry # None /\ Hold(t, "retrying", None, request[t].retry)
    <3>1. Exists(t) /\ request[t].retry \in Retries
      BY <1>1, <2>2, AtFacts DEF LockOK, RequestRecord
    <3> QED  BY <1>1, <2>2, <3>1, AtFacts, HeldOK DEF Answering
  <2> QED  BY <2>1, <2>2 DEF Announce
<1> QED  BY <1>1, <1>3, <1>4, AtFacts, GoOnInv DEF unchangedWorld

LEMMA RetryInv ==
  ASSUME IInv, NEW t \in Active, Retry(t) PROVE IInv'
<1> DEFINE r == request[t].retry
<1>1. At(t, "retrying") /\ UNCHANGED <<unchangedUpload, unchangedWorld, threads>>
  BY DEF Retry
<1>2. Exists(t) /\ r \in Retries
  BY <1>1, AtFacts DEF LockOK, Answering
<1>3. \/ Free(t)
      \/ \E at \in {"reviving", "resuming", "prompting"} : Hold(t, at, None, r)
  BY DEF Retry
<1>4. /\ request' \in [Transfers -> RequestRecord]
      /\ \A u \in Transfers : request'[u] = request[u] \/ LockOK(request'[u], u)
  <2>1. CASE Free(t)
    BY <1>1, <2>1, AtFacts, FreeOK
  <2>2. ASSUME NEW at \in {"reviving", "resuming", "prompting"}, Hold(t, at, None, r)
        PROVE  <1>4!:
    BY <1>1, <1>2, <2>2, AtFacts, HeldOK DEF Answering
  <2> QED  BY <1>3, <2>1, <2>2
<1> QED  BY <1>1, <1>4, AtFacts, SameThreads, GoOnInv DEF unchangedWorld

LEMMA RetryResumesInv ==
  ASSUME IInv, NEW t \in Active, RetryResumes(t) PROVE IInv'
<1> DEFINE r == request[t].retry
<1> DEFINE s == Resumed(threads[t], ResumeOf(r))
<1>1. PICK at \in {"resuming", "reviving"} : At(t, at)
  BY DEF RetryResumes
<1>2. UNCHANGED <<unchangedUpload, unchangedWorld>>
  BY DEF RetryResumes
<1>3. Exists(t) /\ r \in Retries
  BY <1>1, AtFacts DEF LockOK, Answering
<1>4. threads' = threads \/ threads' = [threads EXCEPT ![t] = s]
  BY DEF RetryResumes
<1>5. Good(s) /\ Continues(threads[t], s)
  <2>1. ResumeOf(r) \in Ids /\ threads[t].state # "none"
    BY <1>1, <1>3, AtFacts DEF Ids
  <2> QED  BY <1>1, <2>1, AtFacts, ResumedFollows
<1> HIDE DEF s
<1>6. /\ threads' \in [Transfers -> Thread]
      /\ \A u \in Transfers : Good(threads'[u]) /\ Continues(threads[u], threads'[u])
  <2>1. CASE threads' = threads
    BY <1>1, <2>1, AtFacts, SameThreads
  <2>2. CASE threads' = [threads EXCEPT ![t] = s]
    BY <1>1, <1>5, <2>2, AtFacts, OneThread
  <2> QED  BY <1>4, <2>1, <2>2
<1>7. /\ request' \in [Transfers -> RequestRecord]
      /\ \A u \in Transfers : request'[u] = request[u] \/ LockOK(request'[u], u)
  <2>1. CASE Free(t)
    BY <1>1, <2>1, AtFacts, FreeOK
  <2>2. CASE Hold(t, "prompting", None, r)
    BY <1>1, <1>3, <2>2, AtFacts, HeldOK DEF Answering
  <2> QED  BY <2>1, <2>2 DEF RetryResumes
<1> QED  BY <1>1, <1>2, <1>6, <1>7, AtFacts, GoOnInv DEF unchangedWorld

LEMMA RetryPromptsInv ==
  ASSUME IInv, NEW t \in Active, RetryPrompts(t) PROVE IInv'
<1> DEFINE r == request[t].retry
<1> DEFINE s == Prompted(threads[t], RetryOf(r))
<1>1. At(t, "prompting") /\ Free(t) /\ UNCHANGED <<unchangedUpload, unchangedWorld>>
  BY DEF RetryPrompts
<1>2. Exists(t) /\ r \in Retries
  BY <1>1, AtFacts DEF LockOK, Answering
<1>3. threads' = threads \/ threads' = [threads EXCEPT ![t] = s]
  BY DEF RetryPrompts
<1>4. Good(s) /\ Continues(threads[t], s)
  <2>1. RetryOf(r) \in Ids /\ threads[t].state # "none"
    BY <1>1, <1>2, AtFacts DEF Ids
  <2> QED  BY <1>1, <2>1, AtFacts, PromptedFollows
<1> HIDE DEF s
<1>5. /\ threads' \in [Transfers -> Thread]
      /\ \A u \in Transfers : Good(threads'[u]) /\ Continues(threads[u], threads'[u])
  <2>1. CASE threads' = threads
    BY <1>1, <2>1, AtFacts, SameThreads
  <2>2. CASE threads' = [threads EXCEPT ![t] = s]
    BY <1>1, <1>4, <2>2, AtFacts, OneThread
  <2> QED  BY <1>3, <2>1, <2>2
<1> QED  BY <1>1, <1>5, AtFacts, FreeOK, GoOnInv DEF unchangedWorld

-----------------------------------------------------------------------------
LEMMA BecomeInv ==
  ASSUME IInv, NEW t \in Active, NEW s, Good(s), Continues(threads[t], s), Become(t, s),
         UNCHANGED <<course, unsafe>>
  PROVE  IInv'
<1>1. TypeInv /\ ThreadsInv /\ unsafe \in BOOLEAN /\ t \in Transfers
  BY ActiveTransfers DEF IInv, TypeInv
<1>2. UNCHANGED unchangedUpload /\ request' = request
      /\ threads' = [threads EXCEPT ![t] = s]
  BY DEF Become
<1> QED  BY <1>1, <1>2, OneThread, SameRequests, GoOnInv

(* The harness moves a session that is not closed, and gives no receipt.     *)
LEMMA MovesInv ==
  ASSUME IInv, NEW t \in Active, threads[t].state \notin {"none", "closed"},
         NEW s \in Thread, s.log = threads[t].log, s.state # "none", Become(t, s),
         UNCHANGED <<course, unsafe>>
  PROVE  IInv'
<1>1. Good(threads[t])
  BY ActiveTransfers DEF IInv, ThreadsInv
<1>2. Good(s) /\ Continues(threads[t], s)
  BY <1>1, MovedFollows
<1> QED  BY <1>2, BecomeInv

LEMMA ThreadTyped ==
  ASSUME IInv, NEW t \in Active
  PROVE  Good(threads[t]) /\ threads[t] \in Thread /\ unsafe \in BOOLEAN
BY ActiveTransfers DEF IInv, ThreadsInv, Good, TypeInv

LEMMA ThreadReadyInv ==
  ASSUME IInv, NEW t \in Active, ThreadReady(t) PROVE IInv'
<1> DEFINE u == [threads[t] EXCEPT !.state = "idle", !.startup = "none"]
<1>1. u \in Thread /\ u.log = threads[t].log /\ u.state = "idle"
  BY ThreadTyped DEF Thread, ThreadStates
<1>2. threads[t].state = "resuming" /\ Become(t, Advance(u, TRUE))
      /\ UNCHANGED <<course, unsafe>>
  BY DEF ThreadReady, Steady, unchangedWorld
<1> HIDE DEF u
<1>3. Good(u) /\ Continues(threads[t], u)
  BY <1>1, <1>2, ThreadTyped, MovedFollows
<1>4. Good(Advance(u, TRUE)) /\ Continues(u, Advance(u, TRUE))
  BY <1>3, AdvanceFollows
<1>5. Continues(threads[t], Advance(u, TRUE))
  BY <1>3, <1>4, FollowsTransitive
<1> QED  BY <1>2, <1>4, <1>5, BecomeInv

LEMMA ThreadEndsInv ==
  ASSUME IInv, NEW t \in Active, ThreadEnds(t) PROVE IInv'
<1> DEFINE u == [threads[t] EXCEPT !.state = "idle"]
<1> DEFINE v == Advance(u, ~unsafe)
<1>1. u \in Thread /\ u.log = threads[t].log /\ u.state = "idle"
  BY ThreadTyped DEF Thread, ThreadStates
<1>2. threads[t].state = "running" /\ Become(t, v) /\ UNCHANGED <<course, unsafe>>
  BY DEF ThreadEnds, Steady, unchangedWorld
<1> HIDE DEF u
<1>3. Good(u) /\ Continues(threads[t], u)
  BY <1>1, <1>2, ThreadTyped, MovedFollows
<1>4. Good(v) /\ Continues(u, v)
  BY <1>3, ThreadTyped, AdvanceFollows
<1> HIDE DEF v
<1>5. Continues(threads[t], v)
  BY <1>3, <1>4, FollowsTransitive
<1> QED  BY <1>2, <1>4, <1>5, BecomeInv

LEMMA FailedTyped ==
  ASSUME NEW s \in Thread
  PROVE  Failed(s) \in Thread /\ Failed(s).log = s.log /\ Failed(s).state = s.state
<1>1. <<>> \in Seq(Ids)
  OBVIOUS
<1> QED  BY <1>1 DEF Failed, Thread

LEMMA ThreadFailsInv ==
  ASSUME IInv, NEW t \in Active, ThreadFails(t) PROVE IInv'
<1> DEFINE s == threads[t]
<1> DEFINE u == [s EXCEPT !.state = "lost", !.startup = "timeout"]
<1> DEFINE v == [s EXCEPT !.state = "lost", !.startup = "failed"]
<1>1. /\ u \in Thread /\ u.log = s.log /\ u.state = "lost"
      /\ v \in Thread /\ v.log = s.log /\ v.state = "lost"
  BY ThreadTyped DEF Thread, ThreadStates
<1>2. /\ s.state = "resuming" /\ UNCHANGED <<course, unsafe>>
      /\ Become(t, u) \/ Become(t, Failed(v))
  BY DEF ThreadFails
<1> HIDE DEF u, v
<1> QED  BY <1>1, <1>2, FailedTyped, MovesInv

LEMMA ThreadSpeaksInv ==
  ASSUME IInv, NEW t \in Active, ThreadSpeaks(t) PROVE IInv'
<1> DEFINE u == [threads[t] EXCEPT !.output = TRUE]
<1>1. u \in Thread /\ u.log = threads[t].log /\ u.state = threads[t].state
  BY ThreadTyped DEF Thread
<1>2. threads[t].state = "running" /\ Become(t, u) /\ UNCHANGED <<course, unsafe>>
  BY DEF ThreadSpeaks, Steady, unchangedWorld
<1> HIDE DEF u
<1> QED  BY <1>1, <1>2, MovesInv

LEMMA ThreadSleepsInv ==
  ASSUME IInv, NEW t \in Active, ThreadSleeps(t) PROVE IInv'
<1> DEFINE u == [threads[t] EXCEPT !.state = "sleeping"]
<1>1. u \in Thread /\ u.log = threads[t].log /\ u.state = "sleeping"
  BY ThreadTyped DEF Thread, ThreadStates
<1>2. threads[t].state = "idle" /\ Become(t, u) /\ UNCHANGED <<course, unsafe>>
  BY DEF ThreadSleeps, Steady, unchangedWorld
<1> HIDE DEF u
<1> QED  BY <1>1, <1>2, MovesInv

LEMMA ThreadExitsInv ==
  ASSUME IInv, NEW t \in Active, ThreadExits(t) PROVE IInv'
<1> DEFINE s == threads[t]
<1> DEFINE u == [s EXCEPT !.state = "resuming"]
<1> DEFINE v == [s EXCEPT !.state = "lost"]
<1>1. /\ u \in Thread /\ u.log = s.log /\ u.state = "resuming"
      /\ v \in Thread /\ v.log = s.log /\ v.state = "lost"
  BY ThreadTyped DEF Thread, ThreadStates
<1>2. /\ s.state \in {"idle", "running", "closing"} /\ UNCHANGED <<course, unsafe>>
      /\ Become(t, u) \/ Become(t, Failed(v))
  BY DEF ThreadExits
<1> HIDE DEF u, v
<1> QED  BY <1>1, <1>2, FailedTyped, MovesInv

LEMMA ThreadClosesInv ==
  ASSUME IInv, NEW t \in Active, ThreadCloses(t) PROVE IInv'
<1> DEFINE u == [threads[t] EXCEPT !.state = "closed"]
<1>1. u \in Thread /\ u.log = threads[t].log /\ u.state = "closed"
  BY ThreadTyped DEF Thread, ThreadStates
<1>2. threads[t].state = "closing" /\ Become(t, u) /\ UNCHANGED <<course, unsafe>>
  BY DEF ThreadCloses, Steady, unchangedWorld
<1> HIDE DEF u
<1> QED  BY <1>1, <1>2, MovesInv

LEMMA CloseInv ==
  ASSUME IInv, NEW t \in Active, Close(t) PROVE IInv'
<1> DEFINE s == threads[t]
<1> DEFINE u(state) == [s EXCEPT !.closing = TRUE, !.state = state]
<1>1. PICK state \in {"closing", "closed"} : Steady(t, Failed(u(state)))
  BY DEF Close
<1>2. u(state) \in Thread /\ u(state).log = s.log /\ u(state).state = state
  BY ThreadTyped DEF Thread, ThreadStates
<1>3. s.state \notin {"none", "closed"}
  BY ThreadTyped DEF Close, Closed, Good, Exists
<1>4. Become(t, Failed(u(state))) /\ UNCHANGED <<course, unsafe>>
  BY <1>1 DEF Steady, unchangedWorld
<1> HIDE DEF u
<1> QED  BY <1>2, <1>3, <1>4, FailedTyped, MovesInv

LEMMA StopInv ==
  ASSUME IInv, NEW t \in Active, Stop(t) PROVE IInv'
<1> DEFINE s == threads[t]
<1> DEFINE u == [s EXCEPT !.paused = TRUE, !.log = Append(@, <<"stop">>)]
<1>1. s \in Thread /\ s.log \in Seq(Ids) /\ IsInjective(s.log) /\ Good(s)
  BY ThreadTyped DEF Good, Thread
<1>2. s.state # "none" /\ <<"stop">> \in Ids /\ <<"stop">> \notin ToSet(s.log)
  BY <1>1 DEF Stop, Good, Exists, Known, Ids
<1>3. Append(s.log, <<"stop">>) \in Seq(Ids) /\ IsInjective(Append(s.log, <<"stop">>))
  BY <1>1, <1>2, LogGrows
<1>4. u \in Thread /\ u.log = Append(s.log, <<"stop">>) /\ u.state = s.state
  BY <1>1, <1>3 DEF Thread
<1>5. Become(t, u) /\ UNCHANGED <<course, unsafe>>
  BY DEF Stop, Steady, unchangedWorld
<1> HIDE DEF u
<1>6. Good(u) /\ Continues(s, u)
  BY <1>2, <1>3, <1>4 DEF Good, Continues
<1> QED  BY <1>5, <1>6, BecomeInv

-----------------------------------------------------------------------------
(* The machine drains, fills up and has room again.                          *)
LEMMA MachineInv ==
  ASSUME IInv, Drain \/ Undrain \/ FillDisk \/ FreeDisk PROVE IInv'
<1>1. /\ TypeInv /\ ThreadsInv
      /\ UNCHANGED <<unchangedUpload, course, request>> /\ unsafe' \in BOOLEAN
  BY DEF Drain, Undrain, FillDisk, FreeDisk, IInv, TypeInv
<1>2. /\ threads' \in [Transfers -> Thread]
      /\ \A t \in Transfers : Good(threads'[t]) /\ Continues(threads[t], threads'[t])
  <2>1. CASE threads' = threads
    BY <1>1, <2>1, SameThreads
  <2>2. CASE threads' = [t \in Transfers |-> Advance(threads[t], TRUE)]
    <3>1. \A t \in Transfers : /\ Good(Advance(threads[t], TRUE))
                               /\ Continues(threads[t], Advance(threads[t], TRUE))
      BY <1>1, AdvanceFollows DEF ThreadsInv
    <3> QED  BY <2>2, <3>1 DEF Good
  <2> QED  BY <2>1, <2>2 DEF Drain, Undrain, FillDisk, FreeDisk
<1> QED  BY <1>1, <1>2, SameRequests, GoOnInv

-----------------------------------------------------------------------------
(* A step on one transfer under its lock; the sessions stand still.          *)
LEMMA OneTransfer ==
  ASSUME IInv, NEW t \in Transfers, UNCHANGED <<course, threads>>, TypeInv',
         \A u \in Transfers \ {t} : transfer'[u] = transfer[u] /\ request'[u] = request[u],
         LockOK(request[t], t)', Exists(t) => Startable(t)', FilesInv'
  PROVE  IInv'
<1>1. \A u \in Transfers : Exists(u)' = Exists(u)
  BY DEF Exists
<1>2. ThreadsInv' /\ OneOwner'
  BY DEF IInv, ThreadsInv, OneOwner, Active, Exists
<1>3. \A u \in Transfers \ {t} : Startable(u)' = Startable(u)
  BY DEF Startable, Listed
<1>4. LockInv'
  <2>1. \A u \in Transfers \ {t} : LockOK(request[u], u)'
    BY <1>1, <1>3 DEF IInv, LockInv, LockOK
  <2> QED  BY <2>1 DEF LockInv
<1>5. WholeInv'
  BY <1>1, <1>3 DEF IInv, WholeInv
<1> QED  BY <1>2, <1>4, <1>5 DEF IInv

(* The lock is given back, or was not taken.                                 *)
LEMMA IdleOK ==
  ASSUME NEW t, request'[t].at = "idle" PROVE LockOK(request[t], t)'
BY DEF LockOK, Answering

LEMMA PreparedInv ==
  ASSUME IInv, NEW t \in Active, Prepared(t) PROVE IInv'
<1>1. /\ At(t, "preparing") /\ ~Exists(t) /\ Free(t)
      /\ transfer' = [transfer EXCEPT ![t] = Fresh]
      /\ UNCHANGED <<course, unsafe, parts, disk, conversation, threads>>
  BY DEF Prepared, unchangedWorld
<1>2. TypeInv /\ t \in Transfers
  BY <1>1, AtFacts
<1>3. Fresh \in TransferRecord /\ Fresh.files = {}
  BY DEF Fresh, Absent, TransferRecord
<1>4. Idle \in RequestRecord /\ Idle.at = "idle"
  BY DEF Idle, RequestRecord, Answering
<1>5. /\ transfer' \in [Transfers -> TransferRecord] /\ transfer'[t] = Fresh
      /\ request' \in [Transfers -> RequestRecord] /\ request'[t] = Idle
      /\ \A u \in Transfers \ {t} : transfer'[u] = transfer[u] /\ request'[u] = request[u]
  BY <1>1, <1>2, <1>3, <1>4 DEF Free, TypeInv
<1>6. TypeInv'
  BY <1>1, <1>2, <1>5 DEF TypeInv
<1>7. FilesInv'
  <2> SUFFICES ASSUME NEW u \in Transfers, NEW i \in transfer'[u].files PROVE FileWhole(u, i)'
    BY DEF FilesInv
  <2>1. u # t
    BY <1>3, <1>5
  <2> QED  BY <1>1, <1>5, <2>1 DEF IInv, FilesInv, FileWhole, Sound
<1>8. LockOK(request[t], t)'
  BY <1>4, <1>5, IdleOK
<1> QED  BY <1>1, <1>2, <1>5, <1>6, <1>7, <1>8, OneTransfer

LEMMA CancelTransferInv ==
  ASSUME IInv, NEW t \in Active, CancelTransfer(t) PROVE IInv'
<1>1. /\ At(t, "idle") /\ ~Exists(t)
      /\ transfer' = [transfer EXCEPT ![t].cancelled = TRUE]
      /\ UNCHANGED <<course, unsafe, parts, disk, conversation, threads, request>>
  BY DEF CancelTransfer, unchangedWorld
<1>2. TypeInv /\ t \in Transfers /\ request[t].at = "idle"
  BY <1>1, AtFacts
<1> DEFINE q == [transfer[t] EXCEPT !.cancelled = TRUE]
<1>3. q \in TransferRecord /\ q.files = transfer[t].files /\ q.digests = transfer[t].digests
  BY <1>2 DEF TypeInv, TransferRecord
<1>4. transfer' = [transfer EXCEPT ![t] = q]
  BY <1>1
<1> HIDE DEF q
<1>5. /\ transfer' \in [Transfers -> TransferRecord] /\ transfer'[t] = q
      /\ \A u \in Transfers \ {t} : transfer'[u] = transfer[u]
  BY <1>2, <1>3, <1>4 DEF TypeInv
<1>6. TypeInv'
  BY <1>1, <1>2, <1>5 DEF TypeInv
<1>7. \A u \in Transfers : /\ transfer'[u].files = transfer[u].files
                           /\ transfer'[u].digests = transfer[u].digests
  BY <1>3, <1>5
<1>8. FilesInv'
  BY <1>1, <1>7 DEF IInv, FilesInv, FileWhole, Sound
<1>9. LockOK(request[t], t)'
  BY <1>1, <1>2, IdleOK
<1> QED  BY <1>1, <1>2, <1>5, <1>6, <1>8, <1>9, OneTransfer

(* Bytes of a file that has arrived change nothing; those of another only    *)
(* its part, and pin the version it is said to have.                         *)
LEMMA UploadInv ==
  ASSUME IInv, NEW t \in Active, NEW i \in Files, NEW offset, NEW v \in Versions, NEW bytes,
         Upload(t, i, offset, v, bytes)
  PROVE  IInv'
<1> DEFINE part == Written(t, i, offset, bytes)
<1>1. /\ At(t, "idle") /\ Pinned(t, i, v)
      /\ transfer' = [transfer EXCEPT ![t].digests[i] = v]
      /\ UNCHANGED <<course, unsafe, disk, conversation, threads>>
  BY DEF Upload, unchangedWorld
<1>2. \/ parts' = parts
      \/ i \notin transfer[t].files /\ parts' = [parts EXCEPT ![t][i] = part]
  BY DEF Upload
<1>3. TypeInv /\ t \in Transfers /\ request[t].at = "idle"
  BY <1>1, AtFacts
<1> DEFINE q == [transfer[t] EXCEPT !.digests[i] = v]
<1>4. /\ q \in TransferRecord /\ q.files = transfer[t].files /\ q.saved = transfer[t].saved
      /\ q.cancelled = transfer[t].cancelled /\ q.digests[i] = v
      /\ \A j \in Files \ {i} : q.digests[j] = transfer[t].digests[j]
  <2>1. transfer[t] \in TransferRecord
    BY <1>3 DEF TypeInv
  <2> QED  BY <2>1 DEF TransferRecord
<1>5. transfer' = [transfer EXCEPT ![t] = q]
  BY <1>1
<1> HIDE DEF q
<1>6. /\ transfer' \in [Transfers -> TransferRecord] /\ transfer'[t] = q
      /\ \A u \in Transfers \ {t} : transfer'[u] = transfer[u]
  BY <1>3, <1>4, <1>5 DEF TypeInv
<1>7. \/ request' = request
      \/ \E x \in RequestRecord :
           /\ request' = [request EXCEPT ![t] = x]
           /\ x.at \in {"idle", "announcing", "installing"}
           /\ x.at = "announcing" => x.retry = None
           /\ x.at = "installing" => x.file = i
  <2>1. Idle \in RequestRecord /\ Idle.at = "idle"
    BY DEF Idle, RequestRecord, Answering
  <2> DEFINE a == [at |-> "announcing", file |-> None, retry |-> None]
  <2> DEFINE b == [at |-> "installing", file |-> i, retry |-> None]
  <2>2. /\ a \in RequestRecord /\ a.at = "announcing" /\ a.retry = None
        /\ b \in RequestRecord /\ b.at = "installing" /\ b.file = i
    BY DEF RequestRecord, Answering
  <2>3. \/ request' = request \/ request' = [request EXCEPT ![t] = Idle]
        \/ request' = [request EXCEPT ![t] = a] \/ request' = [request EXCEPT ![t] = b]
    BY DEF Upload, AfterBytes, Free, Hold
  <2> HIDE DEF a, b
  <2> QED  BY <2>1, <2>2, <2>3
<1>8. /\ request' \in [Transfers -> RequestRecord]
      /\ \A u \in Transfers \ {t} : request'[u] = request[u]
  BY <1>3, <1>7 DEF TypeInv
<1>9. /\ parts' = [u \in Transfers |-> parts'[u]]
      /\ \A u \in Transfers : parts'[u] = [j \in Files |-> parts'[u][j]]
      /\ \A u \in Transfers, j \in Files :
           parts'[u][j] = parts[u][j] \/ (u = t /\ j = i /\ i \notin transfer[t].files)
  <2>1. CASE parts' = parts
    BY <1>3, <2>1 DEF TypeInv
  <2>2. CASE i \notin transfer[t].files /\ parts' = [parts EXCEPT ![t][i] = part]
    <3> DEFINE row == [parts[t] EXCEPT ![i] = part]
    <3>1. parts' = [parts EXCEPT ![t] = row]
      BY <2>2
    <3>2. /\ row = [j \in Files |-> row[j]]
          /\ \A j \in Files \ {i} : row[j] = parts[t][j]
      BY <1>3 DEF TypeInv
    <3> HIDE DEF row
    <3>3. /\ parts' = [u \in Transfers |-> parts'[u]] /\ parts'[t] = row
          /\ \A u \in Transfers \ {t} : parts'[u] = parts[u]
      BY <1>3, <3>1 DEF TypeInv
    <3>4. \A u \in Transfers \ {t} : parts'[u] = [j \in Files |-> parts'[u][j]]
      BY <1>3, <3>3 DEF TypeInv
    <3>5. parts'[t] = [j \in Files |-> parts'[t][j]]
      BY <3>2, <3>3
    <3>6. \A u \in Transfers, j \in Files : parts'[u][j] = parts[u][j] \/ (u = t /\ j = i)
      BY <3>2, <3>3
    <3> QED  BY <2>2, <3>3, <3>4, <3>5, <3>6
  <2> QED  BY <1>2, <2>1, <2>2
<1>10. TypeInv'
  BY <1>1, <1>3, <1>6, <1>8, <1>9 DEF TypeInv
<1>11. LockOK(request[t], t)'
  <2>1. CASE request' = request
    BY <1>3, <2>1, IdleOK
  <2>2. CASE request'[t].at \in {"idle", "announcing", "installing"}
             /\ (request'[t].at = "announcing" => request'[t].retry = None)
             /\ (request'[t].at = "installing" => request'[t].file = i)
    BY <1>4, <1>6, <2>2 DEF LockOK, Answering
  <2> QED  BY <1>3, <1>7, <2>1, <2>2 DEF TypeInv
<1>12. Exists(t) => Startable(t)'
  BY <1>1, <1>3, <1>4, <1>6 DEF IInv, WholeInv, Startable, Listed
<1>13. FilesInv'
  <2> SUFFICES ASSUME NEW u \in Transfers, NEW j \in transfer'[u].files PROVE FileWhole(u, j)'
    BY DEF FilesInv
  <2>1. j \in transfer[u].files /\ FileWhole(u, j) /\ j \in Files
    <3>1. transfer'[u].files = transfer[u].files /\ transfer[u] \in TransferRecord
      BY <1>3, <1>4, <1>6 DEF TypeInv
    <3> QED  BY <3>1 DEF IInv, FilesInv, TransferRecord
  <2>2. parts'[u][j] = parts[u][j]
    BY <1>9, <2>1
  <2>3. CASE Kind[j] = "native"
    BY <1>1, <2>1, <2>3 DEF FileWhole
  <2>4. CASE Kind[j] # "native"
    <3>1. disk[u][j] # None /\ disk[u][j] = transfer[u].digests[j] /\ Sound(u, j)
      BY <2>1, <2>4 DEF FileWhole
    <3>2. transfer'[u].digests[j] = transfer[u].digests[j]
      BY <1>1, <1>4, <1>6, <2>1, <3>1 DEF Pinned
    <3> QED  BY <1>1, <2>2, <2>4, <3>1, <3>2 DEF FileWhole, Sound
  <2> QED  BY <2>3, <2>4
<1> QED  BY <1>1, <1>3, <1>6, <1>8, <1>10, <1>11, <1>12, <1>13, OneTransfer

-----------------------------------------------------------------------------
(* A sound file is put in place as the version that was pinned, and what     *)
(* other transfers have in place stays.                                      *)
LEMMA InPlaceWhole ==
  ASSUME TypeInv, FilesInv, NEW t \in Transfers, NEW i \in Files, InPlace(t, i), Sound(t, i),
         transfer[t].digests[i] \in Versions, parts' = parts
  PROVE  /\ disk' \in [Transfers -> [Files -> Versions \cup {None}]]
         /\ conversation' \in [{Conversation[u] : u \in Transfers} -> Placed \cup {None}]
         /\ \A u \in Transfers : \A j \in Files :
              FileWhole(u, j) \/ (u = t /\ j = i) =>
                IF Kind[j] = "native" THEN conversation'[Conversation[u]] # None
                ELSE disk'[u][j] # None /\ disk'[u][j] = transfer[u].digests[j] /\ Sound(u, j)
<1> USE TeleportAssumption
<1>1. CASE Kind[i] = "native"
  <2> DEFINE x == [by |-> t, version |-> transfer[t].digests[i]]
  <2>1. x \in Placed /\ x # None
    BY DEF Placed
  <2>2. conversation' = [conversation EXCEPT ![Conversation[t]] = x] /\ disk' = disk
    BY <1>1 DEF InPlace
  <2> HIDE DEF x
  <2>3. conversation' \in [{Conversation[u] : u \in Transfers} -> Placed \cup {None}]
    BY <2>1, <2>2 DEF TypeInv
  <2>4. \A u \in Transfers :
          \/ conversation'[Conversation[u]] = conversation[Conversation[u]] /\ u # t
          \/ conversation'[Conversation[u]] # None
    BY <2>1, <2>2 DEF TypeInv
  <2> QED  BY <1>1, <2>2, <2>3, <2>4 DEF FileWhole, TypeInv
<1>2. CASE Kind[i] # "native"
  <2> DEFINE v == transfer[t].digests[i]
  <2> DEFINE row == [disk[t] EXCEPT ![i] = v]
  <2>1. disk' = [disk EXCEPT ![t] = row] /\ conversation' = conversation
    BY <1>2 DEF InPlace
  <2>2. row \in [Files -> Versions \cup {None}] /\ row[i] = v
        /\ \A j \in Files \ {i} : row[j] = disk[t][j]
    BY DEF TypeInv
  <2> HIDE DEF row
  <2>3. /\ disk' \in [Transfers -> [Files -> Versions \cup {None}]] /\ disk'[t] = row
        /\ \A u \in Transfers \ {t} : disk'[u] = disk[u]
    BY <2>1, <2>2 DEF TypeInv
  <2>4. conversation' \in [{Conversation[u] : u \in Transfers} -> Placed \cup {None}]
    BY <2>1 DEF TypeInv
  <2>5. \A u \in Transfers, j \in Files :
          \/ disk'[u][j] = disk[u][j] /\ ~(u = t /\ j = i)
          \/ u = t /\ j = i /\ disk'[u][j] = v
    BY <2>2, <2>3
  <2>6. v # None
    OBVIOUS
  <2> QED  BY <1>2, <2>1, <2>3, <2>4, <2>5, <2>6 DEF FileWhole
<1> QED  BY <1>1, <1>2

LEMMA InstalledInv ==
  ASSUME IInv, NEW t \in Active, Installed(t) PROVE IInv'
<1> DEFINE i == request[t].file
<1> DEFINE q == [transfer[t] EXCEPT !.files = @ \cup {i}]
<1>1. /\ At(t, "installing") /\ Sound(t, i) /\ InPlace(t, i)
      /\ transfer' = [transfer EXCEPT ![t].files = @ \cup {i}]
      /\ Hold(t, "announcing", None, None)
      /\ UNCHANGED <<course, unsafe, parts, threads>>
  BY DEF Installed, unchangedWorld
<1>2. TypeInv /\ FilesInv /\ t \in Transfers /\ i \in Files
      /\ transfer[t].digests[i] \in Versions
  BY <1>1, AtFacts DEF IInv, LockOK
<1>3. /\ q \in TransferRecord /\ q.files = transfer[t].files \cup {i}
      /\ q.digests = transfer[t].digests /\ q.saved = transfer[t].saved
      /\ q.cancelled = transfer[t].cancelled
  <2>1. transfer[t] \in TransferRecord
    BY <1>2 DEF TypeInv
  <2> QED  BY <1>2, <2>1 DEF TransferRecord
<1>4. transfer' = [transfer EXCEPT ![t] = q]
  BY <1>1
<1> HIDE DEF q
<1>5. /\ transfer' \in [Transfers -> TransferRecord] /\ transfer'[t] = q
      /\ \A u \in Transfers \ {t} : transfer'[u] = transfer[u]
  BY <1>2, <1>3, <1>4 DEF TypeInv
<1>6. /\ disk' \in [Transfers -> [Files -> Versions \cup {None}]]
      /\ conversation' \in [{Conversation[u] : u \in Transfers} -> Placed \cup {None}]
      /\ \A u \in Transfers : \A j \in Files :
           FileWhole(u, j) \/ (u = t /\ j = i) =>
             IF Kind[j] = "native" THEN conversation'[Conversation[u]] # None
             ELSE disk'[u][j] # None /\ disk'[u][j] = transfer[u].digests[j] /\ Sound(u, j)
  BY <1>1, <1>2, InPlaceWhole
<1>7. /\ request' \in [Transfers -> RequestRecord]
      /\ request'[t].at = "announcing" /\ request'[t].retry = None
      /\ \A u \in Transfers \ {t} : request'[u] = request[u]
  <2> DEFINE a == [at |-> "announcing", file |-> None, retry |-> None]
  <2>1. a \in RequestRecord /\ a.at = "announcing" /\ a.retry = None
    BY DEF RequestRecord, Answering
  <2>2. request' = [request EXCEPT ![t] = a]
    BY <1>1 DEF Hold
  <2> HIDE DEF a
  <2> QED  BY <1>2, <2>1, <2>2 DEF TypeInv
<1>8. TypeInv'
  BY <1>1, <1>2, <1>5, <1>6, <1>7 DEF TypeInv
<1>9. LockOK(request[t], t)'
  BY <1>7 DEF LockOK, Answering
<1>10. Exists(t) => Startable(t)'
  BY <1>1, <1>2, <1>3, <1>5 DEF IInv, WholeInv, Startable, Listed
<1>11. FilesInv'
  <2> SUFFICES ASSUME NEW u \in Transfers, NEW j \in transfer'[u].files PROVE FileWhole(u, j)'
    BY DEF FilesInv
  <2>1. transfer'[u].digests = transfer[u].digests
    BY <1>3, <1>5
  <2>2. j \in transfer[u].files \/ (u = t /\ j = i)
    BY <1>3, <1>5
  <2>3. j \in Files
    BY <1>2, <2>2 DEF TypeInv, TransferRecord
  <2>4. FileWhole(u, j) \/ (u = t /\ j = i)
    BY <1>2, <2>2 DEF FilesInv
  <2>5. IF Kind[j] = "native" THEN conversation'[Conversation[u]] # None
        ELSE disk'[u][j] # None /\ disk'[u][j] = transfer[u].digests[j] /\ Sound(u, j)
    BY <1>6, <2>3, <2>4
  <2> QED  BY <1>1, <2>1, <2>5 DEF FileWhole, Sound
<1> QED  BY <1>1, <1>2, <1>5, <1>7, <1>8, <1>9, <1>10, <1>11, OneTransfer

(* The record that makes a session is written only if no other session owns  *)
(* the conversation.                                                         *)
LEMMA AttachedInv ==
  ASSUME IInv, NEW t \in Active, Attached(t) PROVE IInv'
<1>1. At(t, "attaching") /\ UNCHANGED <<unchangedUpload, unchangedWorld>>
  BY DEF Attached
<1>2. /\ TypeInv /\ ThreadsInv /\ t \in Transfers /\ Startable(t) /\ ~Exists(t)
  BY <1>1, AtFacts DEF LockOK
<1>3. CASE Free(t) /\ threads' = threads
  BY <1>1, <1>2, <1>3, AtFacts, FreeOK, SameThreads, GoOnInv DEF unchangedWorld
<1>4. CASE ~NativeInUse(Conversation[t])
           /\ threads' = [threads EXCEPT ![t] = Imported(<<Handoff, Follow>>)]
           /\ Hold(t, "announcing", None, None)
  <2> DEFINE s == Imported(<<Handoff, Follow>>)
  <2>1. Good(s) /\ s.state = "resuming" /\ s \in Thread
    BY ImportedGood DEF Good
  <2>2. threads' = [threads EXCEPT ![t] = s]
    BY <1>4
  <2> HIDE DEF s
  <2>3. /\ threads' \in [Transfers -> Thread] /\ threads'[t] = s
        /\ \A u \in Transfers \ {t} : threads'[u] = threads[u]
    BY <1>2, <2>1, <2>2 DEF TypeInv
  <2>4. /\ request' \in [Transfers -> RequestRecord]
        /\ request'[t].at = "announcing" /\ request'[t].retry = None
        /\ \A u \in Transfers \ {t} : request'[u] = request[u]
    <3> DEFINE a == [at |-> "announcing", file |-> None, retry |-> None]
    <3>1. a \in RequestRecord /\ a.at = "announcing" /\ a.retry = None
      BY DEF RequestRecord, Answering
    <3>2. request' = [request EXCEPT ![t] = a]
      BY <1>4 DEF Hold
    <3> HIDE DEF a
    <3> QED  BY <1>2, <3>1, <3>2 DEF TypeInv
  <2>5. TypeInv'
    BY <1>1, <1>2, <2>3, <2>4 DEF TypeInv, unchangedUpload, unchangedWorld
  <2>6. ThreadsInv'
    BY <1>2, <2>1, <2>3 DEF ThreadsInv
  <2>7. \A u \in Transfers \ {t} : Exists(u)' = Exists(u)
    BY <2>3 DEF Exists
  <2>8. OneOwner'
    <3> SUFFICES ASSUME NEW x \in Active, NEW y \in Active, x # y,
                        Conversation[x] = Conversation[y], Exists(x)', Exists(y)'
                 PROVE  "closed" \in {threads'[x].state, threads'[y].state}
      BY <1>1 DEF OneOwner, Active, unchangedWorld
    <3>1. \A u \in Active \ {t} :
            Conversation[u] = Conversation[t] /\ Exists(u)' => threads'[u].state = "closed"
      BY <1>2, <1>4, <2>3, <2>7, ActiveTransfers DEF NativeInUse
    <3>2. CASE x = t \/ y = t
      BY <3>1, <3>2
    <3>3. CASE x # t /\ y # t
      BY <1>2, <2>3, <2>7, <3>3, ActiveTransfers DEF IInv, OneOwner
    <3> QED  BY <3>2, <3>3
  <2>9. \A u \in Transfers : Startable(u)' = Startable(u)
    BY <1>1 DEF Startable, Listed, unchangedUpload, unchangedWorld
  <2>10. LockInv'
    <3>1. LockOK(request[t], t)'
      BY <2>4 DEF LockOK, Answering
    <3>2. \A u \in Transfers \ {t} : LockOK(request[u], u)'
      BY <1>1, <2>4, <2>7, <2>9 DEF IInv, LockInv, LockOK, unchangedUpload
    <3> QED  BY <3>1, <3>2 DEF LockInv
  <2>11. WholeInv'
    BY <1>2, <2>7, <2>9 DEF IInv, WholeInv
  <2>12. FilesInv'
    BY <1>1 DEF IInv, FilesInv, FileWhole, Sound, unchangedUpload
  <2> QED  BY <2>5, <2>6, <2>8, <2>10, <2>11, <2>12 DEF IInv
<1> QED  BY <1>3, <1>4 DEF Attached

LEMMA RestartServiceInv ==
  ASSUME IInv, RestartService PROVE IInv'
<1>1. PICK awake \in BOOLEAN :
        threads' = [t \in Transfers |-> Rebooted(threads[t], awake)]
  BY DEF RestartService
<1>2. /\ TypeInv /\ ThreadsInv /\ OneOwner /\ FilesInv
      /\ request' = [t \in Transfers |-> Idle]
      /\ UNCHANGED <<course, transfer, parts, unsafe>>
  BY DEF RestartService, IInv
<1>3. /\ threads' \in [Transfers -> Thread]
      /\ \A t \in Transfers : Good(threads'[t]) /\ Continues(threads[t], threads'[t])
  <2>1. \A t \in Transfers : /\ Good(Rebooted(threads[t], awake))
                             /\ Continues(threads[t], Rebooted(threads[t], awake))
    BY <1>2, RebootedFollows DEF ThreadsInv
  <2> QED  BY <1>1, <2>1 DEF Good
<1>4. /\ ThreadsInv' /\ OneOwner'
      /\ \A t \in Transfers : Exists(t)' = Exists(t)
  BY <1>2, <1>3, ThreadsGoOn
<1>5. /\ disk' \in [Transfers -> [Files -> Versions \cup {None}]]
      /\ conversation' \in [{Conversation[u] : u \in Transfers} -> Placed \cup {None}]
      /\ \A u \in Transfers : \A j \in Files :
           FileWhole(u, j) =>
             IF Kind[j] = "native" THEN conversation'[Conversation[u]] # None
             ELSE disk'[u][j] # None /\ disk'[u][j] = transfer[u].digests[j] /\ Sound(u, j)
  <2>1. CASE UNCHANGED <<disk, conversation>>
    BY <1>2, <2>1 DEF TypeInv, FileWhole
  <2>2. ASSUME NEW t \in Active, At(t, "installing"), Sound(t, request[t].file),
               InPlace(t, request[t].file)
        PROVE  <1>5!:
    <3>1. t \in Transfers /\ request[t].file \in Files
          /\ transfer[t].digests[request[t].file] \in Versions
      BY <2>2, AtFacts DEF LockOK
    <3> QED  BY <1>2, <2>2, <3>1, InPlaceWhole
  <2> QED  BY <2>1, <2>2 DEF RestartService
<1>6. Idle \in RequestRecord /\ Idle.at = "idle"
  BY DEF Idle, RequestRecord, Answering
<1>7. TypeInv'
  BY <1>2, <1>3, <1>5, <1>6 DEF TypeInv
<1>8. LockInv'
  BY <1>2, <1>6, IdleOK DEF LockInv
<1>9. WholeInv'
  BY <1>2, <1>4 DEF IInv, WholeInv, Startable, Listed
<1>10. FilesInv'
  <2> SUFFICES ASSUME NEW u \in Transfers, NEW j \in transfer[u].files PROVE FileWhole(u, j)'
    BY <1>2 DEF FilesInv
  <2>1. FileWhole(u, j) /\ j \in Files
    BY <1>2 DEF FilesInv, TypeInv, TransferRecord
  <2> QED  BY <1>2, <1>5, <2>1 DEF FileWhole, Sound
<1> QED  BY <1>4, <1>7, <1>8, <1>9, <1>10 DEF IInv

-----------------------------------------------------------------------------
LEMMA InitInv == TeleportInit => IInv
<1> SUFFICES ASSUME TeleportInit PROVE IInv
  OBVIOUS
<1>1. /\ course \in TeleportPlans /\ unsafe = FALSE
      /\ \A t \in Transfers : /\ transfer[t] = Absent /\ request[t] = Idle
                              /\ threads[t] = NoThread
  BY DEF TeleportInit
<1>2. Absent \in TransferRecord /\ Absent.files = {}
  BY DEF Absent, TransferRecord
<1>3. Idle \in RequestRecord /\ Idle.at = "idle"
  BY DEF Idle, RequestRecord, Answering
<1>4. NoThread \in Thread
  BY NoThreadGood DEF Good
<1>5. TypeInv
  BY <1>2, <1>3, <1>4 DEF TeleportInit, TypeInv
<1>6. ThreadsInv
  BY <1>1, NoThreadGood DEF ThreadsInv
<1>7. \A t \in Transfers : ~Exists(t)
  BY <1>1 DEF Exists
<1>8. OneOwner /\ WholeInv
  BY <1>5, <1>7, ActiveTransfers DEF OneOwner, WholeInv
<1>9. LockInv
  BY <1>1, <1>3 DEF LockInv, LockOK, Answering
<1>10. FilesInv
  BY <1>1, <1>2 DEF FilesInv
<1> QED  BY <1>5, <1>6, <1>8, <1>9, <1>10 DEF IInv

LEMMA StepInv == IInv /\ [TeleportNext]_teleportVars => IInv'
<1> SUFFICES ASSUME IInv, [TeleportNext]_teleportVars PROVE IInv'
  OBVIOUS
<1>1. CASE UNCHANGED teleportVars
  <2>1. /\ UNCHANGED <<unchangedUpload, course, request, threads>> /\ unsafe' \in BOOLEAN
        /\ TypeInv /\ ThreadsInv
    BY <1>1 DEF teleportVars, unchangedUpload, IInv, TypeInv
  <2> QED  BY <2>1, SameThreads, SameRequests, GoOnInv
<1>2. ASSUME NEW t \in Active, NEW i \in Files, NEW offset \in 0..2, NEW v \in Versions,
             NEW bytes \in Chunks, Upload(t, i, offset, v, bytes)
      PROVE  IInv'
  BY <1>2, UploadInv
<1>3. ASSUME NEW t \in Active, NEW r \in (Retries \cap course.uses) \cup {None},
             Enter(t, r) \/ Activate(t, r)
      PROVE  IInv'
  BY <1>3, EnterInv, ActivateInv
<1>4. ASSUME NEW t \in Active, AwaitEnds(t) PROVE IInv'
  BY <1>4, PreparedInv, InstalledInv, MismatchedInv, AnnounceInv, AttachedInv, RetryInv,
     RetryResumesInv, RetryPromptsInv
  DEF AwaitEnds
<1>5. ASSUME NEW t \in Active, ThreadMoves(t) PROVE IInv'
  BY <1>5, ThreadReadyInv, ThreadEndsInv, ThreadClosesInv DEF ThreadMoves
<1>6. ASSUME NEW t \in Active,
             \/ ThreadFails(t) \/ ThreadSpeaks(t) \/ ThreadSleeps(t) \/ ThreadExits(t)
             \/ Stop(t) \/ Close(t)
      PROVE  IInv'
  BY <1>6, ThreadFailsInv, ThreadSpeaksInv, ThreadSleepsInv, ThreadExitsInv, StopInv, CloseInv
<1>7. ASSUME NEW t \in Active, Prepare(t) \/ CancelTransfer(t) \/ AwaitFails(t) PROVE IInv'
  BY <1>7, PrepareInv, CancelTransferInv, AwaitFailsInv
<1> QED
  BY <1>1, <1>2, <1>3, <1>4, <1>5, <1>6, <1>7, MachineInv, RestartServiceInv DEF TeleportNext

THEOREM TeleportInductive == TeleportSpec => []IInv
BY InitInv, StepInv, PTL DEF TeleportSpec

(* Of two transfers of one conversation, activated and retried in whatever   *)
(* order, at most one has a session that is not closed.                      *)
THEOREM ConversationHasOneOwner == TeleportSpec => []OneOwner
BY TeleportInductive, PTL DEF IInv

(* A session holds no prompt, notice or retry twice, whatever is repeated.   *)
THEOREM HandoffQueuedOnce == TeleportSpec => []QueuedOnce
<1>1. IInv => QueuedOnce
  BY ActiveTransfers DEF IInv, ThreadsInv, Good, QueuedOnce
<1> QED  BY <1>1, TeleportInductive, PTL

(* A session starts only on a whole transfer, and what the manifest says has *)
(* arrived is on disk as it was pinned.                                      *)
THEOREM StartsWhole == TeleportSpec => []StartedWhole
<1>1. IInv => StartedWhole
  BY ActiveTransfers DEF IInv, WholeInv, Startable, FilesInv, FileWhole, StartedWhole
<1> QED  BY <1>1, TeleportInductive, PTL
-----------------------------------------------------------------------------
(* What the type says beyond the invariant: the bytes of a part, the prompts *)
(* that wait, the activations at the door and the faults that happened.      *)

(* What waits in a session has its receipt.                                  *)
Trail(s) == ToSet(s.queue) \subseteq ToSet(s.log)

PartsInv ==
  \A t \in Transfers, i \in Files :
    parts[t][i] \in Seq(Versions) /\ Len(parts[t][i]) <= Size[i]
TrailInv == \A t \in Transfers : Trail(threads[t])
DoorInv  ==
  /\ entering \subseteq Transfers \X (Retries \cup {None})
  /\ drained \in BOOLEAN /\ troubles \in 0..course.faults

(* The members of a sequence, of one that grew by one and of one that lost   *)
(* its first.                                                                *)
LEMMA Members ==
  ASSUME NEW S, NEW q \in Seq(S), NEW x \in S
  PROVE  /\ ToSet(Append(q, x)) = ToSet(q) \cup {x}
         /\ q # <<>> => ToSet(Tail(q)) \subseteq ToSet(q)
         /\ ToSet(<<>>) = {}
<1>1. ToSet(Append(q, x)) = ToSet(q) \cup {x}
  <2>1. /\ DOMAIN Append(q, x) = 1..(Len(q) + 1) /\ Len(q) \in Nat /\ DOMAIN q = 1..Len(q)
        /\ \A k \in 1..Len(q) : Append(q, x)[k] = q[k]
        /\ Append(q, x)[Len(q) + 1] = x
    OBVIOUS
  <2>2. \A k \in 1..(Len(q) + 1) : k \in 1..Len(q) \/ k = Len(q) + 1
    BY <2>1
  <2>3. 1..Len(q) \subseteq 1..(Len(q) + 1) /\ Len(q) + 1 \in 1..(Len(q) + 1)
    BY <2>1
  <2>4. ToSet(Append(q, x)) \subseteq ToSet(q) \cup {x}
    BY <2>1, <2>2 DEF ToSet
  <2>5. ToSet(q) \cup {x} \subseteq ToSet(Append(q, x))
    BY <2>1, <2>3 DEF ToSet
  <2> QED  BY <2>4, <2>5
<1>2. ASSUME q # <<>> PROVE ToSet(Tail(q)) \subseteq ToSet(q)
  <2>1. /\ DOMAIN Tail(q) = 1..(Len(q) - 1) /\ DOMAIN q = 1..Len(q) /\ Len(q) \in Nat
        /\ \A k \in 1..(Len(q) - 1) : Tail(q)[k] = q[k + 1] /\ k + 1 \in 1..Len(q)
    BY <1>2
  <2> QED  BY <2>1 DEF ToSet
<1>3. ToSet(<<>>) = {}
  BY DEF ToSet
<1> QED  BY <1>1, <1>2, <1>3

(* A session whose state and flags change keeps its trail.                   *)
LEMMA SameTrail ==
  ASSUME NEW s, Trail(s), NEW u, u.queue = s.queue, u.log = s.log PROVE Trail(u)
BY DEF Trail

LEMMA AdvanceTrail ==
  ASSUME NEW s \in Thread, Trail(s), NEW room PROVE Trail(Advance(s, room))
<1>1. CASE s.state = "sleeping" /\ Work(s)
  <2> DEFINE u == [s EXCEPT !.state = "resuming"]
  <2>1. u.queue = s.queue /\ u.log = s.log
    BY DEF Thread
  <2>2. Advance(s, room) = u
    BY <1>1 DEF Advance
  <2> HIDE DEF u
  <2> QED  BY <2>1, <2>2, SameTrail
<1>2. CASE s.state = "idle" /\ Work(s) /\ room /\ ~s.closing
  <2> DEFINE u == [s EXCEPT !.state = "running", !.queue = Tail(@), !.dispatched = TRUE]
  <2>1. u.queue = Tail(s.queue) /\ u.log = s.log /\ s.queue \in Seq(Ids) /\ s.queue # <<>>
    BY <1>2 DEF Thread, Work
  <2>2. Advance(s, room) = u
    BY <1>2 DEF Advance
  <2>3. ToSet(Tail(s.queue)) \subseteq ToSet(s.queue)
    BY <2>1, Members DEF Ids
  <2> HIDE DEF u
  <2> QED  BY <2>1, <2>2, <2>3 DEF Trail
<1>3. CASE /\ ~(s.state = "sleeping" /\ Work(s))
           /\ ~(s.state = "idle" /\ Work(s) /\ room /\ ~s.closing)
  BY <1>3 DEF Advance
<1> QED  BY <1>1, <1>2, <1>3

LEMMA QueuedTrail ==
  ASSUME NEW s \in Thread, Trail(s), NEW id \in Ids
  PROVE  Queued(s, id) \in Thread /\ Trail(Queued(s, id))
<1>1. s.queue \in Seq(Ids) /\ s.log \in Seq(Ids)
  BY DEF Thread
<1>2. /\ ToSet(Append(s.queue, id)) = ToSet(s.queue) \cup {id}
      /\ ToSet(Append(s.log, id)) = ToSet(s.log) \cup {id}
      /\ Append(s.queue, id) \in Seq(Ids) /\ Append(s.log, id) \in Seq(Ids)
  BY <1>1, Members
<1>3. /\ Queued(s, id).queue = Append(s.queue, id) /\ Queued(s, id).log = Append(s.log, id)
      /\ Queued(s, id) \in Thread
  BY <1>2 DEF Queued, Thread
<1> QED  BY <1>2, <1>3 DEF Trail

LEMMA PromptedTrail ==
  ASSUME NEW s \in Thread, Trail(s), NEW id \in Ids PROVE Trail(Prompted(s, id))
BY QueuedTrail, AdvanceTrail DEF Prompted

LEMMA ResumedTrail ==
  ASSUME NEW s \in Thread, Trail(s), NEW id \in Ids PROVE Trail(Resumed(s, id))
<1>1. CASE Known(s, id)
  BY <1>1 DEF Resumed
<1>2. CASE ~Known(s, id)
  <2> DEFINE u == [s EXCEPT !.paused = FALSE, !.log = Append(@, id)]
  <2> DEFINE v == [u EXCEPT !.state = "resuming"]
  <2>1. s.log \in Seq(Ids) /\ Append(s.log, id) \in Seq(Ids)
    BY DEF Thread
  <2>2. u \in Thread /\ u.log = Append(s.log, id) /\ u.queue = s.queue
    BY <2>1 DEF Thread
  <2>3. Resumed(s, id) = IF s.state = "lost" THEN v ELSE Advance(u, ~unsafe)
    BY <1>2 DEF Resumed
  <2> HIDE DEF u
  <2>4. Trail(u)
    BY <2>1, <2>2, Members DEF Trail
  <2>5. v.queue = u.queue /\ v.log = u.log
    BY <2>2 DEF Thread
  <2> HIDE DEF v
  <2> QED  BY <2>2, <2>3, <2>4, <2>5, SameTrail, AdvanceTrail
<1> QED  BY <1>1, <1>2

LEMMA FailedTrail ==
  ASSUME NEW s \in Thread PROVE Failed(s) \in Thread /\ Trail(Failed(s))
<1>1. <<>> \in Seq(Ids) /\ ToSet(<<>>) = {}
  BY DEF ToSet
<1>2. Failed(s) \in Thread /\ Failed(s).queue = <<>>
  BY <1>1 DEF Failed, Thread
<1> QED  BY <1>1, <1>2 DEF Trail

(* A session that moves to another state, with its startup.                  *)
LEMMA MovedTrail ==
  ASSUME NEW s \in Thread, Trail(s), NEW state \in ThreadStates,
         NEW startup \in {"none", "timeout", "failed"}
  PROVE  LET u == [s EXCEPT !.state = state]
             v == [s EXCEPT !.state = state, !.startup = startup]
         IN  u \in Thread /\ Trail(u) /\ v \in Thread /\ Trail(v)
BY DEF Thread, Trail

LEMMA RebootedTrail ==
  ASSUME NEW s \in Thread, Trail(s), NEW awake PROVE Trail(Rebooted(s, awake))
<1>1. \/ Rebooted(s, awake) = s
      \/ Rebooted(s, awake) = Failed(s)
      \/ Rebooted(s, awake) = Failed([s EXCEPT !.state = "lost"])
      \/ Rebooted(s, awake) = [s EXCEPT !.state = "resuming"]
      \/ Rebooted(s, awake) = [s EXCEPT !.state = "sleeping"]
  BY DEF Rebooted
<1>2. \A state \in {"lost", "resuming", "sleeping"} :
        [s EXCEPT !.state = state] \in Thread /\ Trail([s EXCEPT !.state = state])
  BY MovedTrail DEF ThreadStates
<1> QED  BY <1>1, <1>2, FailedTrail
-----------------------------------------------------------------------------
(* What an upload writes fits the file.                                      *)
LEMMA UploadParts ==
  ASSUME IInv, PartsInv, NEW t \in Active, NEW i \in Files, NEW offset \in 0..2,
         NEW v \in Versions, NEW bytes \in Chunks, Upload(t, i, offset, v, bytes)
  PROVE  PartsInv'
<1>1. t \in Transfers
  BY ActiveTransfers DEF IInv
<1>2. CASE parts' = parts
  BY <1>2 DEF PartsInv
<1>3. CASE /\ Fits(t, i, offset, bytes)
           /\ parts' = [parts EXCEPT ![t][i] = Written(t, i, offset, bytes)]
  <2> DEFINE old == parts[t][i]
             new == Written(t, i, offset, bytes)
  <2>1. old \in Seq(Versions) /\ Len(old) <= Size[i] /\ Len(old) \in Nat /\ Size[i] \in Nat
    BY <1>1, TeleportAssumption DEF PartsInv
  <2>2. bytes \in Seq(Versions) /\ Len(bytes) \in Nat
    <3>1. PICK n \in 0..2 : bytes \in [1..n -> Versions]
      BY DEF Chunks
    <3> QED  BY <3>1
  <2>3. offset + Len(bytes) <= Size[i] /\ offset <= Len(old)
    BY <1>3 DEF Fits
  <2>4. new \in Seq(Versions) /\ Len(new) <= Size[i]
    <3>1. CASE offset < Len(old)
      BY <2>1, <3>1 DEF Written
    <3>2. CASE ~(offset < Len(old))
      <4>1. new = old \o bytes /\ offset = Len(old)
        BY <2>1, <2>3, <3>2 DEF Written
      <4>2. old \o bytes \in Seq(Versions) /\ Len(old \o bytes) = Len(old) + Len(bytes)
        BY <2>1, <2>2
      <4> QED  BY <2>3, <4>1, <4>2
    <3> QED  BY <3>1, <3>2
  <2> HIDE DEF new
  <2>5. \A u \in Transfers, j \in Files :
          parts'[u][j] = IF u = t /\ j = i THEN new ELSE parts[u][j]
    <3>1. /\ parts = [u \in Transfers |-> parts[u]]
          /\ \A u \in Transfers : parts[u] = [j \in Files |-> parts[u][j]]
      BY DEF IInv, TypeInv
    <3>2. parts' = [parts EXCEPT ![t][i] = new]
      BY <1>3 DEF new
    <3> QED  BY <1>1, <3>1, <3>2
  <2> QED  BY <2>4, <2>5 DEF PartsInv
<1> QED  BY <1>2, <1>3 DEF Upload

(* Nothing but an upload writes bytes.                                       *)
LEMMA PartsStep == IInv /\ PartsInv /\ [TeleportNext]_teleportVars => PartsInv'
<1> SUFFICES ASSUME IInv, PartsInv, [TeleportNext]_teleportVars PROVE PartsInv'
  OBVIOUS
<1>1. ASSUME NEW t \in Active, NEW i \in Files, NEW offset \in 0..2, NEW v \in Versions,
             NEW bytes \in Chunks, Upload(t, i, offset, v, bytes)
      PROVE  PartsInv'
  BY <1>1, UploadParts
<1>2. ASSUME parts' = parts PROVE PartsInv'
  BY <1>2 DEF PartsInv
<1>3. CASE UNCHANGED teleportVars
  BY <1>2, <1>3 DEF teleportVars
<1>4. ASSUME NEW t \in Active,
             \/ Prepare(t) \/ CancelTransfer(t) \/ AwaitFails(t)
             \/ \E r \in (Retries \cap course.uses) \cup {None} : Enter(t, r) \/ Activate(t, r)
      PROVE  parts' = parts
  BY <1>4 DEF Prepare, CancelTransfer, AwaitFails, Enter, Activate, unchangedUpload
<1>5. ASSUME NEW t \in Active, AwaitEnds(t) PROVE parts' = parts
  BY <1>5
  DEF AwaitEnds, Prepared, Installed, Mismatched, Announce, Attached, Retry, RetryResumes,
      RetryPrompts, unchangedUpload
<1>6. ASSUME NEW t \in Active,
             \/ ThreadMoves(t) \/ ThreadFails(t) \/ ThreadSpeaks(t) \/ ThreadSleeps(t)
             \/ ThreadExits(t) \/ Stop(t) \/ Close(t)
      PROVE  parts' = parts
  BY <1>6
  DEF ThreadMoves, ThreadReady, ThreadEnds, ThreadCloses, ThreadFails, ThreadSpeaks,
      ThreadSleeps, ThreadExits, Stop, Close, Steady, Become, unchangedUpload
<1>7. ASSUME Drain \/ Undrain \/ FillDisk \/ FreeDisk \/ RestartService PROVE parts' = parts
  BY <1>7 DEF Drain, Undrain, FillDisk, FreeDisk, RestartService, unchangedUpload
<1> QED  BY <1>1, <1>2, <1>3, <1>4, <1>5, <1>6, <1>7 DEF TeleportNext

(* One session changes, to what has its trail.                               *)
LEMMA OneTrail ==
  ASSUME TypeInv, TrailInv, NEW t \in Transfers, NEW s, Trail(s),
         threads' = [threads EXCEPT ![t] = s]
  PROVE  TrailInv'
<1>1. threads'[t] = s /\ \A u \in Transfers \ {t} : threads'[u] = threads[u]
  BY DEF TypeInv
<1> QED  BY <1>1 DEF TrailInv

LEMMA AnnounceTrail ==
  ASSUME TypeInv, TrailInv, NEW t \in Transfers, Announce(t) PROVE TrailInv'
<1>1. CASE threads' = threads
  BY <1>1 DEF TrailInv
<1>2. CASE threads' = [threads EXCEPT ![t] = Advance(Queued(@, Ready), ~unsafe)]
  <2>1. threads[t] \in Thread /\ Trail(threads[t]) /\ Ready \in Ids
    BY DEF TypeInv, TrailInv, Ids
  <2>2. Trail(Advance(Queued(threads[t], Ready), ~unsafe))
    BY <2>1, QueuedTrail, AdvanceTrail
  <2> QED  BY <1>2, <2>2, OneTrail
<1> QED  BY <1>1, <1>2 DEF Announce

LEMMA AttachedTrail ==
  ASSUME TypeInv, TrailInv, NEW t \in Transfers, Attached(t) PROVE TrailInv'
<1>1. CASE threads' = threads
  BY <1>1 DEF TrailInv
<1>2. CASE threads' = [threads EXCEPT ![t] = Imported(<<Handoff, Follow>>)]
  <2>1. Trail(Imported(<<Handoff, Follow>>))
    BY DEF Imported, NoThread, Trail
  <2> QED  BY <1>2, <2>1, OneTrail
<1> QED  BY <1>1, <1>2 DEF Attached

LEMMA RetryTrail ==
  ASSUME TypeInv, TrailInv, LockInv, NEW t \in Transfers,
         RetryResumes(t) \/ RetryPrompts(t)
  PROVE  TrailInv'
<1> DEFINE s == threads[t]
           r == request[t].retry
<1>1. s \in Thread /\ Trail(s)
  BY DEF TypeInv, TrailInv
<1>2. r \in Retries
  BY DEF RetryResumes, RetryPrompts, At, LockInv, LockOK, Answering
<1>3. ResumeOf(r) \in Ids /\ RetryOf(r) \in Ids
  BY <1>2 DEF Ids
<1>4. Trail(Resumed(s, ResumeOf(r))) /\ Trail(Prompted(s, RetryOf(r)))
  BY <1>1, <1>3, ResumedTrail, PromptedTrail
<1>5. \/ threads' = threads
      \/ threads' = [threads EXCEPT ![t] = Resumed(s, ResumeOf(r))]
      \/ threads' = [threads EXCEPT ![t] = Prompted(s, RetryOf(r))]
  BY DEF RetryResumes, RetryPrompts
<1>6. CASE threads' = threads
  BY <1>6 DEF TrailInv
<1> QED  BY <1>4, <1>5, <1>6, OneTrail

(* What happens to a session of its own: it moves, speaks, fails, closes.    *)
LEMMA ThreadTrail ==
  ASSUME TypeInv, TrailInv, NEW t \in Transfers,
         \/ ThreadMoves(t) \/ ThreadFails(t) \/ ThreadSpeaks(t) \/ ThreadSleeps(t)
         \/ ThreadExits(t) \/ Stop(t) \/ Close(t)
  PROVE  TrailInv'
<1> DEFINE s == threads[t]
<1>1. s \in Thread /\ Trail(s)
  BY DEF TypeInv, TrailInv
<1>2. ASSUME NEW state \in ThreadStates
      PROVE  [s EXCEPT !.state = state] \in Thread /\ Trail([s EXCEPT !.state = state])
  BY <1>1, MovedTrail
<1>3. CASE ThreadMoves(t)
  <2>1. CASE ThreadReady(t)
    <3> DEFINE u == [s EXCEPT !.state = "idle", !.startup = "none"]
    <3>1. u \in Thread /\ Trail(u)
      BY <1>1, MovedTrail DEF ThreadStates
    <3>2. threads' = [threads EXCEPT ![t] = Advance(u, TRUE)]
      BY <2>1 DEF ThreadReady, Steady, Become
    <3> HIDE DEF u
    <3> QED  BY <3>1, <3>2, AdvanceTrail, OneTrail
  <2>2. CASE ThreadEnds(t)
    <3> DEFINE u == [s EXCEPT !.state = "idle"]
    <3>1. u \in Thread /\ Trail(u)
      BY <1>2 DEF ThreadStates
    <3>2. threads' = [threads EXCEPT ![t] = Advance(u, ~unsafe)]
      BY <2>2 DEF ThreadEnds, Steady, Become
    <3> HIDE DEF u
    <3> QED  BY <3>1, <3>2, AdvanceTrail, OneTrail
  <2>3. CASE ThreadCloses(t)
    <3>1. threads' = [threads EXCEPT ![t] = [s EXCEPT !.state = "closed"]]
      BY <2>3 DEF ThreadCloses, Steady, Become
    <3> QED  BY <1>2, <3>1, OneTrail DEF ThreadStates
  <2> QED  BY <1>3, <2>1, <2>2, <2>3 DEF ThreadMoves
<1>4. CASE ThreadFails(t)
  <2> DEFINE u == [s EXCEPT !.state = "lost", !.startup = "timeout"]
             v == [s EXCEPT !.state = "lost", !.startup = "failed"]
  <2>1. u \in Thread /\ Trail(u) /\ v \in Thread
    BY <1>1, MovedTrail DEF ThreadStates
  <2>2. \/ threads' = [threads EXCEPT ![t] = u]
        \/ threads' = [threads EXCEPT ![t] = Failed(v)]
    BY <1>4 DEF ThreadFails, Become
  <2> HIDE DEF u, v
  <2> QED  BY <2>1, <2>2, FailedTrail, OneTrail
<1>5. CASE ThreadSpeaks(t)
  <2>1. Trail([s EXCEPT !.output = TRUE])
    BY <1>1 DEF Thread, Trail
  <2>2. threads' = [threads EXCEPT ![t] = [s EXCEPT !.output = TRUE]]
    BY <1>5 DEF ThreadSpeaks, Steady, Become
  <2> QED  BY <2>1, <2>2, OneTrail
<1>6. CASE ThreadSleeps(t)
  <2>1. threads' = [threads EXCEPT ![t] = [s EXCEPT !.state = "sleeping"]]
    BY <1>6 DEF ThreadSleeps, Steady, Become
  <2> QED  BY <1>2, <2>1, OneTrail DEF ThreadStates
<1>7. CASE ThreadExits(t)
  <2>1. \/ threads' = [threads EXCEPT ![t] = [s EXCEPT !.state = "resuming"]]
        \/ threads' = [threads EXCEPT ![t] = Failed([s EXCEPT !.state = "lost"])]
    BY <1>7 DEF ThreadExits, Become
  <2>2. Trail([s EXCEPT !.state = "resuming"])
    BY <1>2 DEF ThreadStates
  <2>3. Trail(Failed([s EXCEPT !.state = "lost"]))
    BY <1>2, FailedTrail DEF ThreadStates
  <2> QED  BY <2>1, <2>2, <2>3, OneTrail
<1>8. CASE Stop(t)
  <2> DEFINE u == [s EXCEPT !.paused = TRUE, !.log = Append(@, <<"stop">>)]
  <2>1. s.log \in Seq(Ids) /\ <<"stop">> \in Ids
    BY <1>1 DEF Thread, Ids
  <2>2. ToSet(Append(s.log, <<"stop">>)) = ToSet(s.log) \cup {<<"stop">>}
    BY <2>1, Members
  <2>3. u.queue = s.queue /\ u.log = Append(s.log, <<"stop">>)
    BY <1>1 DEF Thread
  <2>4. threads' = [threads EXCEPT ![t] = u]
    BY <1>8 DEF Stop, Steady, Become
  <2> HIDE DEF u
  <2>5. Trail(u)
    BY <1>1, <2>2, <2>3 DEF Trail
  <2> QED  BY <2>4, <2>5, OneTrail
<1>9. CASE Close(t)
  <2>1. PICK state \in {"closing", "closed"} :
          threads' = [threads EXCEPT ![t] = Failed([s EXCEPT !.closing = TRUE, !.state = state])]
    BY <1>9 DEF Close, Steady, Become
  <2>2. [s EXCEPT !.closing = TRUE, !.state = state] \in Thread
    BY <1>1 DEF Thread, ThreadStates
  <2> QED  BY <2>1, <2>2, FailedTrail, OneTrail
<1> QED  BY <1>3, <1>4, <1>5, <1>6, <1>7, <1>8, <1>9

(* In every session, what waits has its receipt, whatever happens.           *)
LEMMA TrailStep == IInv /\ TrailInv /\ [TeleportNext]_teleportVars => TrailInv'
<1> SUFFICES ASSUME IInv, TrailInv, [TeleportNext]_teleportVars PROVE TrailInv'
  OBVIOUS
<1>0. /\ TypeInv /\ LockInv /\ Active \subseteq Transfers
      /\ \A t \in Transfers : threads[t] \in Thread /\ Trail(threads[t])
  BY ActiveTransfers DEF IInv, TypeInv, TrailInv
<1>1. ASSUME threads' = threads PROVE TrailInv'
  BY <1>1 DEF TrailInv
<1>2. CASE UNCHANGED teleportVars
  BY <1>1, <1>2 DEF teleportVars
<1>3. ASSUME NEW t \in Active,
             \/ Prepare(t) \/ CancelTransfer(t) \/ AwaitFails(t)
             \/ \E i \in Files, offset \in 0..2, v \in Versions, bytes \in Chunks :
                  Upload(t, i, offset, v, bytes)
             \/ \E r \in (Retries \cap course.uses) \cup {None} : Enter(t, r) \/ Activate(t, r)
      PROVE  threads' = threads
  BY <1>3
  DEF Prepare, CancelTransfer, AwaitFails, Upload, Enter, Activate, unchangedUpload
<1>4. ASSUME NEW t \in Active, AwaitEnds(t) PROVE TrailInv'
  <2>1. CASE Prepared(t) \/ Installed(t) \/ Mismatched(t) \/ Retry(t)
    BY <1>1, <2>1 DEF Prepared, Installed, Mismatched, Retry
  <2> QED
    BY <1>0, <1>4, <2>1, AnnounceTrail, AttachedTrail, RetryTrail DEF AwaitEnds
<1>5. ASSUME NEW t \in Active,
             \/ ThreadMoves(t) \/ ThreadFails(t) \/ ThreadSpeaks(t) \/ ThreadSleeps(t)
             \/ ThreadExits(t) \/ Stop(t) \/ Close(t)
      PROVE  TrailInv'
  BY <1>0, <1>5, ThreadTrail
<1>6. ASSUME Drain \/ Undrain \/ FillDisk PROVE threads' = threads
  BY <1>6 DEF Drain, Undrain, FillDisk
<1>7. CASE FreeDisk
  <2>1. \A t \in Transfers : threads'[t] = Advance(threads[t], TRUE)
    BY <1>7 DEF FreeDisk
  <2> QED  BY <1>0, <2>1, AdvanceTrail DEF TrailInv
<1>8. CASE RestartService
  <2>1. PICK awake \in BOOLEAN : \A t \in Transfers : threads'[t] = Rebooted(threads[t], awake)
    BY <1>8 DEF RestartService
  <2> QED  BY <1>0, <2>1, RebootedTrail DEF TrailInv
<1> QED  BY <1>1, <1>2, <1>3, <1>4, <1>5, <1>6, <1>7, <1>8 DEF TeleportNext
(* A fault counts only while the course allows one more.                     *)
LEMMA TroubleTyped ==
  ASSUME IInv, DoorInv, Trouble \/ troubles' = troubles, course' = course
  PROVE  troubles' \in 0..course'.faults
<1>1. course.faults \in Nat /\ troubles \in 0..course.faults
  BY TeleportAssumption DEF IInv, TypeInv, DoorInv
<1> QED  BY <1>1 DEF Trouble

LEMMA DoorStep == IInv /\ DoorInv /\ [TeleportNext]_teleportVars => DoorInv'
<1> SUFFICES ASSUME IInv, DoorInv, [TeleportNext]_teleportVars PROVE DoorInv'
  OBVIOUS
<1>0. Active \subseteq Transfers
  BY ActiveTransfers DEF IInv
<1>1. ASSUME course' = course, Trouble \/ troubles' = troubles,
             entering' \subseteq Transfers \X (Retries \cup {None}), drained' \in BOOLEAN
      PROVE  DoorInv'
  BY <1>1, TroubleTyped DEF DoorInv
<1>2. CASE UNCHANGED teleportVars
  BY <1>2 DEF teleportVars, DoorInv
<1>3. ASSUME NEW t \in Active, NEW r \in (Retries \cap course.uses) \cup {None},
             Enter(t, r) \/ Activate(t, r)
      PROVE  DoorInv'
  <2>1. entering' = entering \cup {<<t, r>>} \/ entering' \subseteq entering
    BY <1>3 DEF Enter, Activate
  <2>2. entering' \subseteq Transfers \X (Retries \cup {None})
    BY <1>0, <2>1 DEF DoorInv
  <2> QED  BY <1>1, <1>3, <2>2 DEF Enter, Activate, unchangedWorld, DoorInv
<1>4. ASSUME NEW t \in Active,
             \/ Prepare(t) \/ CancelTransfer(t) \/ AwaitFails(t) \/ AwaitEnds(t)
             \/ \E i \in Files, offset \in 0..2, v \in Versions, bytes \in Chunks :
                  Upload(t, i, offset, v, bytes)
      PROVE  DoorInv'
  <2>1. /\ entering' = entering /\ drained' = drained /\ course' = course
        /\ Trouble \/ troubles' = troubles
    BY <1>4
    DEF Prepare, CancelTransfer, AwaitFails, AwaitEnds, Upload, Prepared, Installed,
        Mismatched, Announce, Attached, Retry, RetryResumes, RetryPrompts, unchangedWorld
  <2> QED  BY <1>1, <2>1 DEF DoorInv
<1>5. ASSUME NEW t \in Active,
             \/ ThreadMoves(t) \/ ThreadFails(t) \/ ThreadSpeaks(t) \/ ThreadSleeps(t)
             \/ ThreadExits(t) \/ Stop(t) \/ Close(t)
      PROVE  DoorInv'
  <2>1. /\ entering' = entering /\ drained' = drained /\ course' = course
        /\ Trouble \/ troubles' = troubles
    BY <1>5
    DEF ThreadMoves, ThreadReady, ThreadEnds, ThreadCloses, ThreadFails, ThreadSpeaks,
        ThreadSleeps, ThreadExits, Stop, Close, Steady, Become, unchangedWorld
  <2> QED  BY <1>1, <2>1 DEF DoorInv
<1>6. ASSUME Drain \/ Undrain \/ FillDisk \/ FreeDisk \/ RestartService PROVE DoorInv'
  <2>1. /\ entering' \in {entering, {}} /\ drained' \in {drained, TRUE, FALSE}
        /\ course' = course
        /\ Trouble \/ troubles' = troubles
    BY <1>6 DEF Drain, Undrain, FillDisk, FreeDisk, RestartService
  <2> QED  BY <1>1, <2>1 DEF DoorInv
<1> QED  BY <1>2, <1>3, <1>4, <1>5, <1>6 DEF TeleportNext

-----------------------------------------------------------------------------
(* The invariant with all that the type says.                                *)
TransferInv == IInv /\ PartsInv /\ TrailInv /\ DoorInv

LEMMA TransferInit == TeleportInit => TransferInv
<1> SUFFICES ASSUME TeleportInit PROVE TransferInv
  OBVIOUS
<1>1. PartsInv
  <2>1. ASSUME NEW t \in Transfers, NEW i \in Files PROVE parts[t][i] = <<>> /\ Size[i] \in Nat
    BY TeleportAssumption DEF TeleportInit
  <2>2. <<>> \in Seq(Versions) /\ Len(<<>>) = 0
    OBVIOUS
  <2>3. ASSUME NEW t \in Transfers, NEW i \in Files
        PROVE  parts[t][i] \in Seq(Versions) /\ Len(parts[t][i]) <= Size[i]
    <3>1. parts[t][i] = <<>> /\ Size[i] \in Nat
      BY <2>1
    <3>2. Len(parts[t][i]) = 0
      BY <2>2, <3>1
    <3> QED  BY <2>2, <3>1, <3>2
  <2> QED  BY <2>3 DEF PartsInv
<1>2. TrailInv
  BY DEF TeleportInit, TrailInv, Trail, NoThread, ToSet
<1>3. DoorInv
  <2>1. course.faults \in Nat /\ troubles = 0
    BY TeleportAssumption DEF TeleportInit
  <2>2. 0 \in 0..course.faults
    BY <2>1
  <2> QED  BY <2>1, <2>2 DEF TeleportInit, DoorInv
<1> QED  BY <1>1, <1>2, <1>3, InitInv DEF TransferInv

LEMMA TransferStep == TransferInv /\ [TeleportNext]_teleportVars => TransferInv'
BY StepInv, PartsStep, TrailStep, DoorStep DEF TransferInv

LEMMA TransferTyped == TransferInv => TeleportTypeOK
<1> SUFFICES ASSUME TransferInv PROVE TeleportTypeOK
  OBVIOUS
<1>1. \A t \in Transfers :
        /\ threads[t].state \in ThreadStates
        /\ threads[t].startup \in {"none", "timeout", "failed"}
        /\ threads[t].log \in Seq(Ids)
  BY DEF TransferInv, IInv, TypeInv, Thread
<1>2. \A t \in Transfers : ToSet(threads[t].log) \subseteq Ids
  BY <1>1 DEF ToSet
<1> QED
  BY <1>1, <1>2
  DEF TransferInv, IInv, TypeInv, PartsInv, TrailInv, Trail, DoorInv, TeleportTypeOK,
      TransferRecord

(* The state of the transfers has its type: no part is longer than its file  *)
(* is said to be, and no prompt waits in a session without its receipt.      *)
THEOREM TeleportTypeCorrect == TeleportSpec => []TeleportTypeOK
<1>1. TeleportInit => TransferInv
  BY TransferInit
<1>2. TransferInv /\ [TeleportNext]_teleportVars => TransferInv'
  BY TransferStep
<1>3. TransferInv => TeleportTypeOK
  BY TransferTyped
<1> QED  BY <1>1, <1>2, <1>3, PTL DEF TeleportSpec
=============================================================================
