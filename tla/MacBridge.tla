----------------------------- MODULE MacBridge -----------------------------
(* Agents run commands on the user's paired Mac (mac/mod.rs): the service    *)
(* hands a job to the helper's event stream and waits for reports.  The      *)
(* helper is MacJobs of preview/client.py: it runs every job it reads, and   *)
(* posts what became of it whether or not a stream is open.                  *)
EXTENDS Integers, Sequences

CONSTANTS
  Commands,     \* local_run calls, each with a command of its own
  MaxNext,      \* ids and generations drawn from Mac::next
  MaxLosses,    \* lost streams, lost replies, deaths and expiries
  Nil

(* What a call is told that is not the result of its command.                *)
Answers == {"unavailable", "unknown", "gone"}

ASSUME MacAssumption ==
  /\ MaxNext \in Nat /\ MaxLosses \in Nat
  /\ Nil \notin Commands \cup Answers /\ Commands \cap Answers = {}

VARIABLES
  pid,       \* of the running service; no two services have the same
  counter,   \* Mac::next
  helper,    \* generation of the stream that gets the jobs
  open,      \* generations whose channel still has its receiver
  channel,   \* what each stream has not yet delivered
  jobs,      \* Mac::jobs: acked and result of each id
  caller,    \* the local_run of each command
  link,      \* the stream the Mac reads
  work,      \* the execute threads of the Mac
  excused,   \* ghost: ids whose result is given up
  losses

macVars == <<pid, counter, helper, open, channel, jobs, caller, link, work, excused, losses>>
macStreams == <<counter, helper, open, link>>

Loss == losses < MaxLosses /\ losses' = losses + 1

NoJob   == [known |-> FALSE, acked |-> FALSE, result |-> Nil]
NewJob  == [NoJob EXCEPT !.known = TRUE]
NoCall  == [at |-> "none", id |-> Nil, stream |-> Nil, late |-> FALSE, told |-> Nil]

Slots   == 0..(MaxNext - 1)
Pids    == 0..MaxLosses
(* Job ids carry the pid.  (Mutant: they do not.)                            *)
JobIdBare(p, n) == <<0, n>>
JobId(p, n) == <<p, n>>
JobIds == Pids \X Slots

ASSUME IdsAssumption == Nil \notin JobIds \cup Slots

Connected(g) == helper = g
Post(g, message) ==
  IF g \in open THEN [channel EXCEPT ![g] = Append(@, message)] ELSE channel

-----------------------------------------------------------------------------
(* stream: the newest connection replaces older ones; a task clears the      *)
(* helper once its receiver is gone, unless a newer one is there.            *)

MacConnects ==
  /\ link = Nil /\ counter < MaxNext
  /\ counter' = counter + 1 /\ helper' = counter /\ link' = counter
  /\ open' = open \cup {counter}
  /\ channel' = [channel EXCEPT ![counter] = <<>>]
  /\ UNCHANGED <<pid, jobs, caller, work, excused, losses>>
LinkBreaks ==
  /\ link # Nil /\ Loss /\ link' = Nil
  /\ UNCHANGED <<pid, counter, helper, open, channel, jobs, caller, work, excused>>
ReceiverDropped(g) ==
  /\ g \in open /\ g # link
  /\ open' = open \ {g} /\ channel' = [channel EXCEPT ![g] = <<>>]
  /\ UNCHANGED <<pid, counter, helper, jobs, caller, link, work, excused, losses>>
StreamClosed(g) ==
  /\ helper = g /\ g \notin open
  /\ helper' = Nil
  /\ UNCHANGED <<pid, counter, open, channel, jobs, caller, link, work, excused, losses>>

-----------------------------------------------------------------------------
(* local_run: insert the job, send it, then look until there is an answer.   *)

Told(c, answer) == [caller EXCEPT ![c].at = "told", ![c].told = answer]
Call(c, at)     == caller[c].at = at
Job(c)          == jobs[caller[c].id]

RunOffline(c) ==
  /\ Call(c, "none") /\ helper = Nil
  /\ caller' = Told(c, "unavailable")
  /\ UNCHANGED <<pid, macStreams, channel, jobs, work, excused, losses>>
Run(c) ==
  /\ Call(c, "none") /\ helper # Nil /\ counter < MaxNext
  /\ LET id == JobId(pid, counter)
     IN  /\ jobs' = [jobs EXCEPT ![id] = NewJob]
         /\ caller' = [caller EXCEPT ![c] =
              [NoCall EXCEPT !.at = "sending", !.id = id, !.stream = helper]]
  /\ counter' = counter + 1
  /\ UNCHANGED <<pid, helper, open, channel, link, work, excused, losses>>
SendJob(c) ==
  LET g == caller[c].stream
      id == caller[c].id
  IN  /\ Call(c, "sending")
      /\ IF g \in open
           THEN /\ channel' = Post(g, [what |-> "job", id |-> id, command |-> c])
                /\ caller' = [caller EXCEPT ![c].at = "waiting"] /\ UNCHANGED jobs
           ELSE /\ jobs' = [jobs EXCEPT ![id] = NoJob]
                /\ caller' = Told(c, "unavailable") /\ UNCHANGED channel
      /\ UNCHANGED <<pid, macStreams, work, excused, losses>>

(* An answer that is not a result of the Mac's cancels the job as it leaves. *)
Cancelled(c) ==
  Post(caller[c].stream, [what |-> "cancel", id |-> caller[c].id, command |-> c])

AckPasses(c) ==
  /\ Call(c, "waiting") /\ ~caller[c].late
  /\ caller' = [caller EXCEPT ![c].late = TRUE]
  /\ UNCHANGED <<pid, macStreams, channel, jobs, work, excused, losses>>
LookResult(c) ==
  /\ Call(c, "waiting") /\ Job(c).result # Nil
  /\ caller' = Told(c, Job(c).result)
  /\ UNCHANGED <<pid, macStreams, channel, jobs, work, excused, losses>>
LookWithdraws(c) ==
  /\ Call(c, "waiting") /\ Job(c).result = Nil
  /\ ~Job(c).known \/ (~Job(c).acked /\ (~Connected(caller[c].stream) \/ caller[c].late))
  /\ jobs' = [jobs EXCEPT ![caller[c].id] = NoJob]
  /\ caller' = Told(c, "unavailable") /\ channel' = Cancelled(c)
  /\ UNCHANGED <<pid, macStreams, work, excused, losses>>
(* (Mutant: the job is withdrawn although it was acknowledged.)              *)
LookForgets(c) ==
  /\ Call(c, "waiting") /\ Job(c).result = Nil
  /\ Job(c).acked /\ ~Connected(caller[c].stream)
  /\ jobs' = [jobs EXCEPT ![caller[c].id] = NoJob]
  /\ caller' = Told(c, "unknown")
  /\ UNCHANGED <<pid, macStreams, channel, work, excused, losses>>
LookUnknown(c) ==
  /\ Call(c, "waiting") /\ Job(c).result = Nil
  /\ Job(c).acked /\ ~Connected(caller[c].stream)
  /\ caller' = Told(c, "unknown")
  /\ UNCHANGED <<pid, macStreams, channel, jobs, work, excused, losses>>

(* Dropped, for example after Stop.                                          *)
AgentLeaves(c) ==
  /\ Call(c, "sending") \/ Call(c, "waiting")
  /\ caller' = Told(c, "gone")
  /\ channel' = IF Call(c, "waiting") THEN Cancelled(c) ELSE channel
  /\ UNCHANGED <<pid, macStreams, jobs, work, excused, losses>>

(* Old jobs are dropped when another is inserted: an hour after the result.  *)
Expire(id) ==
  /\ jobs[id].known /\ Loss
  /\ jobs' = [jobs EXCEPT ![id] = NoJob] /\ excused' = excused \cup {id}
  /\ UNCHANGED <<pid, macStreams, channel, caller, work>>

-----------------------------------------------------------------------------
(* The Mac.                                                                  *)

Turned(w, at) == work' = (work \ {w}) \cup {[w EXCEPT !.at = at]}

ReadMessage ==
  /\ link # Nil /\ link \in open /\ channel[link] # <<>>
  /\ LET m == Head(channel[link])
         running == {w \in work : w.id = m.id /\ w.at = "running"}
     IN  work' = IF m.what = "job"
                   THEN work \cup {[id |-> m.id, command |-> m.command, at |-> "starting"]}
                   ELSE (work \ running) \cup {[w EXCEPT !.at = "ended"] : w \in running}
  /\ channel' = [channel EXCEPT ![link] = Tail(@)]
  /\ UNCHANGED <<pid, macStreams, jobs, caller, excused, losses>>

(* report "running": a failure or a refusal is ignored.                      *)
MacStarts(w) ==
  /\ w.at = "starting" /\ Turned(w, "running")
  /\ jobs' = IF jobs[w.id].known THEN [jobs EXCEPT ![w.id].acked = TRUE] ELSE jobs
  /\ UNCHANGED <<pid, macStreams, channel, caller, excused, losses>>
MacStartsUnheard(w) ==
  /\ w.at = "starting" /\ Loss /\ Turned(w, "running")
  /\ UNCHANGED <<pid, macStreams, channel, jobs, caller, excused>>
CommandEnds(w) ==
  /\ w.at = "running" /\ Turned(w, "ended")
  /\ UNCHANGED <<pid, macStreams, channel, jobs, caller, excused, losses>>

(* report "done", retried every five seconds, unknown or not.                *)
Reported(w) ==
  IF jobs[w.id].known
    THEN [jobs EXCEPT ![w.id] = [@ EXCEPT !.acked = TRUE, !.result = w.command]]
    ELSE jobs
MacReports(w) ==
  /\ w.at = "ended" /\ work' = work \ {w} /\ jobs' = Reported(w)
  /\ UNCHANGED <<pid, macStreams, channel, caller, excused, losses>>
ReplyLost(w) ==
  /\ w.at = "ended" /\ jobs[w.id].known /\ Loss /\ jobs' = Reported(w)
  /\ UNCHANGED <<pid, macStreams, channel, caller, work, excused>>
(* ... until an hour has passed, or the helper stops.                        *)
MacGivesUp(w) ==
  /\ Loss /\ work' = work \ {w} /\ excused' = excused \cup {w.id}
  /\ UNCHANGED <<pid, macStreams, channel, jobs, caller>>

(* The service starts again without its jobs and with its streams cut.       *)
MacRestart ==
  /\ Loss /\ pid' = pid + 1 /\ counter' = 0
  /\ helper' = Nil /\ open' = {} /\ link' = Nil
  /\ channel' = [g \in Slots |-> <<>>]
  /\ jobs' = [id \in JobIds |-> NoJob]
  /\ caller' = [c \in Commands |->
       IF Call(c, "sending") \/ Call(c, "waiting")
         THEN [caller[c] EXCEPT !.at = "told", !.told = "gone"] ELSE caller[c]]
  /\ excused' = excused \cup {id \in JobIds : jobs[id].known}
  /\ UNCHANGED work

-----------------------------------------------------------------------------
MacInit ==
  /\ pid = 0 /\ counter = 0 /\ helper = Nil /\ open = {}
  /\ channel = [g \in Slots |-> <<>>]
  /\ jobs = [id \in JobIds |-> NoJob]
  /\ caller = [c \in Commands |-> NoCall]
  /\ link = Nil /\ work = {} /\ excused = {} /\ losses = 0

Looks(c) == SendJob(c) \/ LookResult(c) \/ LookWithdraws(c) \/ LookUnknown(c)
WorkMoves(w) == MacStarts(w) \/ CommandEnds(w) \/ MacReports(w)
StreamEnds(g) == ReceiverDropped(g) \/ StreamClosed(g)

MacNext ==
  \/ MacConnects \/ LinkBreaks \/ ReadMessage \/ MacRestart
  \/ \E g \in Slots : StreamEnds(g)
  \/ \E c \in Commands :
       RunOffline(c) \/ Run(c) \/ Looks(c) \/ AckPasses(c) \/ AgentLeaves(c)
  \/ \E id \in JobIds : Expire(id)
  \/ \E w \in work :
       WorkMoves(w) \/ MacStartsUnheard(w) \/ ReplyLost(w) \/ MacGivesUp(w)

(* The loops of the service run, ten seconds pass, a dead stream is noticed, *)
(* commands end and the helper's reports get through.                        *)
(* Each is done once, so that one of them is taken is all that is asked.     *)
Progress ==
  \/ \E c \in Commands : Looks(c) \/ AckPasses(c)
  \/ \E g \in Slots : StreamEnds(g)
  \/ \E w \in work : WorkMoves(w)
MacFairness == WF_macVars(Progress)

MacSpec == MacInit /\ [][MacNext]_macVars /\ MacFairness

-----------------------------------------------------------------------------
MacTypeOK ==
  /\ pid \in Pids /\ counter \in 0..MaxNext /\ losses \in 0..MaxLosses
  /\ {helper, link} \subseteq Slots \cup {Nil} /\ open \subseteq Slots
  /\ jobs \in [JobIds -> [known : BOOLEAN, acked : BOOLEAN, result : Commands \cup {Nil}]]
  /\ channel \in [Slots ->
       Seq([what : {"job", "cancel"}, id : JobIds, command : Commands])]
  /\ caller \in [Commands ->
       [at : {"none", "sending", "waiting", "told"}, id : JobIds \cup {Nil},
        stream : Slots \cup {Nil}, late : BOOLEAN, told : Commands \cup Answers \cup {Nil}]]
  /\ work \subseteq [id : JobIds, command : Commands, at : {"starting", "running", "ended"}]
  /\ excused \subseteq JobIds

(* Whatever an agent is answered, or finds later under the id it was told,   *)
(* is of the command it asked for, although the helper goes on reporting     *)
(* jobs of a service that has been restarted.                                *)
ResultIsOwn ==
  \A c \in Commands :
    /\ caller[c].told \in Commands => caller[c].told = c
    /\ caller[c].told = "unknown" => Job(c).result \in {c, Nil}

(* An agent that waits is answered, and finds its result if told to look.    *)
Resolved(c) ==
  \/ caller[c].told \in Commands \cup (Answers \ {"unknown"})
  \/ caller[c].told = "unknown" /\ Job(c).result = c
  \/ caller[c].id \in excused
Resolves(c) == Call(c, "waiting") ~> Resolved(c)
=============================================================================
