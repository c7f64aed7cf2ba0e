--------------------------- MODULE SessionProofs ---------------------------
(***************************************************************************)
(* What Session guarantees for every set of requests, every bound and any   *)
(* number of crashes: its types, that no prompt reaches a harness twice,    *)
(* that a prompt which was cancelled or failed in the queue never runs,     *)
(* that a receipt which ended never changes, that it implements             *)
(* PromptLedger, that a ready session has a handle, that no harness is      *)
(* spawned beside another, that a harness is sent one prompt at a time,     *)
(* that prompts are sent in the order they arrived, and that nothing starts *)
(* while a drain holds.                                                     *)
(***************************************************************************)
EXTENDS Session, SessionRecordsProofs, SequenceTheorems

-----------------------------------------------------------------------------
(* The invariant.                                                           *)

(* Tasks: calls carry requests of their kind, and a call that came back has *)
(* one of the answers of the harness.                                       *)
Replies == {"waiting", "delivered", "completed", "failed", "unknown"}
TaskOK(t) ==
  /\ t \in Tasks
  /\ t.kind = "deliver" => t.request \in Prompts
  /\ t.kind = "interrupt" => t.request \in Interrupts \cup Stops
  /\ t.kind = "compact" => t.request \in Compacts /\ t.step # "completed"
  /\ t.kind \in {"deliver", "interrupt", "compact"} => t.step \in Replies

EventOK(e) ==
  /\ e \in Events
  /\ e.kind = "finished" => e.status \in {"completed", "interrupted", "failed"}
  /\ e.kind = "compacted" => e.status \in {"completed", "failed"}

TasksOK  == \A t \in tasks : TaskOK(t)
EventsOK == \A i \in DOMAIN events : EventOK(events[i])

(* Before the start request nothing was accepted and nothing runs.          *)
AbsentOK ==
  session.state = "absent" =>
    /\ session = Absent /\ tasks = {} /\ events = <<>>
    /\ handle = 0 /\ ~harness.live /\ guard.phase = "watching"

(* The ledger of prompts: one is queued, or claimed by a delivery, or sent, *)
(* or dropped; only a claim that still waits can be sent, there is one of   *)
(* them, and one that was refused was not sent.                             *)
Delivers(ts) == {t \in ts : t.kind = "deliver"}
Requested(ts)  == {t.request : t \in Delivers(ts)}
Waiting(ts)  == {t \in Delivers(ts) : t.step = "waiting"}

LedgerOK ==
  /\ Sound(session)
  /\ Elements(sent) \cup dropped \cup Requested(tasks) \subseteq Known(session)
  /\ Elements(session.queue) \cap (Elements(sent) \cup dropped \cup Requested(tasks)) = {}
  /\ (dropped \cup session.cancelled) \cap Elements(sent) = {}
  /\ \A t \in Waiting(tasks) :
       t.request \notin Elements(sent) \cup dropped \cup session.cancelled
  /\ \A t, u \in Delivers(tasks) : t.request = u.request => t = u
  /\ \A t \in Delivers(tasks) : t.step = "failed" => t.request \notin Elements(sent)
  /\ AtMostOnce

(* The queue keeps the order in which its prompts arrived, and what was     *)
(* claimed before, and sent or still to be sent, arrived earlier.           *)
Leaving == Elements(sent) \cup {t.request : t \in Waiting(tasks)}
OrderOK ==
  /\ Distinct(arrived) /\ Elements(arrived) = Known(session)
  /\ Within(session.queue, arrived)
  /\ \A p \in Leaving, q \in Elements(session.queue) : Precedes(arrived, p, q)

IInv == TypeOK /\ TasksOK /\ EventsOK /\ AbsentOK /\ LedgerOK /\ OrderOK

-----------------------------------------------------------------------------
(* What the handlers make of the session.                                   *)

(* The receipts a boot settles: an ended one stays, and the queue stays     *)
(* whole or fails.                                                          *)
LEMMA SettledFollows ==
  ASSUME NEW s, Sound(s)
  PROVE  /\ Follows(s, Settled(s))
         /\ Settled(s).current = s.current /\ Settled(s).state = s.state
<1> DEFINE t == Settled(s)
           rs == [r \in Requests |->
                   IF ~Unsettled(s, r) \/ (r \in Elements(s.queue) /\ Eligible(s))
                     THEN s.receipts[r]
                   ELSE IF r \in Elements(s.queue) THEN "failed" ELSE "unknown_after_restart"]
           q  == IF Eligible(s) THEN s.queue ELSE <<>>
<1>1. /\ s \in Sessions /\ s.queue \in Seq(Prompts) /\ Distinct(s.queue)
      /\ Prompts \subseteq Requests /\ Elements(s.queue) \subseteq Prompts
  BY SoundFields DEF Sound, Requests
<1>2. t = [s EXCEPT !.receipts = rs, !.queue = q, !.compact = FALSE]
  BY <1>1 DEF Settled, Sessions
<1>3. rs \in [Requests -> ReceiptStates]
  BY <1>1 DEF Sessions, ReceiptStates, Terminal
<1>4. q \in Seq(Prompts) /\ Distinct(q) /\ Elements(q) \subseteq Elements(s.queue)
      /\ (q # <<>> => Eligible(s) /\ q = s.queue) /\ Within(q, s.queue)
  <2>1. /\ Distinct(<<>>) /\ Elements(<<>>) = {} /\ <<>> \in Seq(Prompts)
        /\ Within(<<>>, s.queue) /\ Within(s.queue, s.queue)
    BY DEF Distinct, Elements, Within, Precedes
  <2> QED  BY <1>1, <2>1
<1>5. \A p \in Elements(q) : rs[p] = s.receipts[p]
  <2>1. Elements(<<>>) = {}
    BY DEF Elements
  <2> QED  BY <1>1, <1>4, <2>1
<1>6. \A r \in Requests : /\ s.receipts[r] \in Terminal => rs[r] = s.receipts[r]
                          /\ s.receipts[r] # "none" <=> rs[r] # "none"
  BY DEF Unsettled
<1> HIDE DEF t, rs, q
<1>7. /\ t \in Sessions /\ t.receipts = rs /\ t.queue = q /\ t.current = s.current
      /\ t.state = s.state /\ t.cancelled = s.cancelled /\ t.closing = s.closing
      /\ t.compact = FALSE
  BY <1>1, <1>2, <1>3, <1>4 DEF Sessions
<1>8. Known(t) = Known(s) /\ Kept(s, t)
  BY <1>1, <1>6, <1>7 DEF Known, Kept
<1>9. Sound(t)
  <2>1. Closes \subseteq Requests
    BY DEF Requests
  <2> QED  BY <1>1, <1>4, <1>5, <1>6, <1>7, <1>8, <2>1 DEF Sound
<1> QED  BY <1>4, <1>7, <1>8, <1>9 DEF Follows, Keeps, t

(* A boot settles the receipts and records what became of the session.      *)
LEMMA ReopenedFollows ==
  ASSUME NEW s, Sound(s)
  PROVE  Follows(s, Reopened(s))
<1> DEFINE t == Settled(s)
<1>1. Follows(s, t) /\ Sound(t)
  BY SettledFollows DEF Follows, Keeps
<1> HIDE DEF t
<1>2. ASSUME NEW st \in {"suspended", "process_lost"} PROVE Follows(s, State(t, st, None))
  <2>1. Follows(t, State(t, st, None))
    BY <1>1, MoveFollows DEF States
  <2> QED  BY <1>1, <2>1, FollowsAll
<1> QED  BY <1>1, <1>2 DEF Reopened, t

(* advance claims the front of the queue at most, and spawns the delivery   *)
(* of the prompt it claimed, or a relaunch.                                 *)
LEMMA AdvancedFacts ==
  ASSUME NEW s, Sound(s), NEW h, NEW rdy, NEW ended
  PROVE  /\ Keeps(s, Advanced(s, h, rdy, ended))
         /\ \/ Follows(s, Advanced(s, h, rdy, ended))
            \/ Turns(s, Advanced(s, h, rdy, ended))
         /\ \A u \in AdvanceTasks(s, h, rdy, ended) :
              \/ u = Relaunch
              \/ /\ s.queue # <<>>
                 /\ u = Deliver(Advanced(s, h, rdy, ended).current, h)
                 /\ Advanced(s, h, rdy, ended).current \in Elements(s.queue)
                 /\ Advanced(s, h, rdy, ended).current
                      \notin Elements(Advanced(s, h, rdy, ended).queue)
                 /\ Leads(s.queue, Advanced(s, h, rdy, ended).current,
                          Advanced(s, h, rdy, ended).queue)
<1> DEFINE a == Advanced(s, h, rdy, ended)
           W == Wakes(s, h)
           D == Dispatches(s, rdy, ended)
<1>1. s \in Sessions /\ s.queue \in Seq(Prompts) /\ Elements(s.queue) \subseteq Known(s)
  BY SoundFields DEF Sound
<1>2. CASE W
  <2>1. AdvanceTasks(s, h, rdy, ended) \subseteq {Relaunch}
    BY <1>2 DEF AdvanceTasks, Dispatches, Advances, Wakes
  <2>2. Follows(s, State(s, "resuming", None))
    BY MoveFollows DEF States
  <2> QED  BY <1>2, <2>1, <2>2 DEF Advanced, Follows
<1>3. CASE ~W /\ D
  <2> DEFINE p == NextPrompt(s)
             c == State(s, "starting_turn", p)
  <2>1. AdvanceTasks(s, h, rdy, ended) = {Deliver(p, h)} /\ a = c
    BY <1>3 DEF AdvanceTasks, Advanced
  <2>2. s.queue # <<>>
    BY <1>3 DEF Dispatches
  <2>3. /\ p \in Elements(s.queue) /\ p \in Known(s)
        /\ \A q \in Elements(s.queue) \ {p} : Precedes(s.queue, p, q)
    BY <1>1, <2>2, HeadFacts, HeadOrder DEF NextPrompt
  <2> HIDE DEF p
  <2>4. Keeps(s, c) /\ c.current = p /\ Elements(c.queue) = Elements(s.queue) \ {p}
    BY <2>3, ClaimKeeps
  <2>5. Turns(s, c)
    BY <2>4 DEF Turns, Keeps
  <2>6. Leads(s.queue, p, c.queue)
    BY <2>3, <2>4 DEF Leads
  <2> QED  BY <2>1, <2>2, <2>3, <2>4, <2>5, <2>6
<1>4. CASE ~W /\ ~D
  <2>1. AdvanceTasks(s, h, rdy, ended) = {}
    BY <1>4 DEF AdvanceTasks
  <2>2. Rests(s) \in States \ {"absent"} /\ Rests(s) # "starting_turn"
    BY DEF Rests, States
  <2>3. Follows(s, State(s, Rests(s), None))
    BY <2>2, MoveFollows
  <2> QED  BY <1>4, <2>1, <2>3, FollowsSelf DEF Advanced, Follows
<1> QED  BY <1>2, <1>3, <1>4

-----------------------------------------------------------------------------
(* One step of the ledger, for any handler.                                 *)

(* A task that may be there after a handler which leaves session t: an old  *)
(* one, one that was just answered, a call that delivers nothing, or the    *)
(* delivery of the prompt that t claims, the first of the queue.            *)
Claim(u, t) ==
  /\ u = Deliver(t.current, handle)
  /\ t.current \notin Elements(t.queue) \cup t.cancelled
  /\ t.current \in Elements(session.queue) \/ t.current \notin Known(session)
  /\ Leads(session.queue, t.current, t.queue)
Answers(u) ==
  /\ u.step # "waiting" /\ tasks' \ tasks \subseteq {u}
  /\ \E w \in Waiting(tasks) \ tasks' : w.request = u.request
May(u, t) ==
  \/ u \in tasks
  \/ TaskOK(u) /\ (u.kind = "deliver" => Claim(u, t) \/ Answers(u))

(* A handler whose records succeed the session, and which spawns no         *)
(* delivery but that of the prompt it claims, keeps the ledger.             *)
LEMMA LedgerStep ==
  ASSUME LedgerOK, Extends(session, session'), Observe(session'), sent' = sent,
         \A u \in tasks' : May(u, session')
  PROVE  LedgerOK'
<1> DEFINE t == session'
           c == session'.current
<1>1. /\ Sound(t) /\ Known(session) \subseteq Known(t)
      /\ \A p \in Elements(t.queue) : p \in Elements(session.queue) \/ p \notin Known(session)
      /\ \A p \in t.cancelled : p \in session.cancelled \cup Elements(session.queue)
  BY DEF Extends
<1>2. /\ \A p \in dropped' :
           p \in dropped \/ (p \in Elements(session.queue) /\ p \notin Elements(t.queue) /\ p # c)
      /\ dropped \subseteq dropped'
  BY DEF Observe
<1>3. /\ Elements(session.queue) \subseteq Known(session) /\ Known(t) \subseteq Prompts
      /\ c \in Known(t) \cup {None}
  BY <1>1, SoundFields DEF Sound, LedgerOK
<1>4. \A u \in Delivers(tasks') :
        \/ u \in Delivers(tasks)
        \/ Answers(u)
        \/ /\ u = Deliver(c, handle) /\ u.request = c /\ c \in Prompts /\ u.step = "waiting"
           /\ c \notin Elements(t.queue) \cup t.cancelled
           /\ c \in Elements(session.queue) \/ c \notin Known(session)
  BY DEF Delivers, May, Claim, TaskOK, Deliver, Task
<1>5. \A p \in Requested(tasks') :
        \/ p \in Requested(tasks)
        \/ /\ p = c /\ c \in Known(t) /\ c \notin Elements(t.queue) \cup t.cancelled
           /\ c \in Elements(session.queue) \/ c \notin Known(session)
  <2>1. \A u : Answers(u) => u.request \in Requested(tasks)
    BY DEF Answers, Waiting, Requested
  <2> QED  BY <1>3, <1>4, <2>1, RequestsAssumption DEF Requested, RequestsAssumption, Requests
<1>6. \A u \in Waiting(tasks') :
        \/ u \in Waiting(tasks)
        \/ /\ u = Deliver(c, handle) /\ u.request = c
           /\ c \notin Elements(t.queue) \cup t.cancelled
           /\ c \in Elements(session.queue) \/ c \notin Known(session)
  BY <1>4 DEF Waiting, Delivers, Answers
<1>7. \A u \in Waiting(tasks) : u.request \in Requested(tasks)
  BY DEF Waiting, Requested
<1> DEFINE L == Elements(sent) \cup dropped \cup Requested(tasks)
<1>8. /\ L \subseteq Known(session) /\ Elements(session.queue) \cap L = {}
      /\ (dropped \cup session.cancelled) \cap Elements(sent) = {}
      /\ \A u \in Waiting(tasks) : u.request \notin Elements(sent) \cup dropped \cup session.cancelled
      /\ \A u, v \in Delivers(tasks) : u.request = v.request => u = v
      /\ \A u \in Delivers(tasks) : u.step = "failed" => u.request \notin Elements(sent)
  BY DEF LedgerOK
<1> HIDE DEF t, c, L
<1>9. /\ dropped' \subseteq Known(t) /\ Elements(sent) \subseteq Known(t)
      /\ Requested(tasks') \subseteq Known(t)
  BY <1>1, <1>2, <1>3, <1>5, <1>8 DEF L
<1>10. Elements(t.queue) \cap (Elements(sent) \cup dropped' \cup Requested(tasks')) = {}
  BY <1>1, <1>2, <1>5, <1>8 DEF L
<1>11. (dropped' \cup t.cancelled) \cap Elements(sent) = {}
  BY <1>1, <1>2, <1>8 DEF L
<1>12. \A u \in Waiting(tasks') : u.request \notin Elements(sent) \cup dropped' \cup t.cancelled
  BY <1>1, <1>2, <1>6, <1>7, <1>8 DEF L
<1>13. \A u, v \in Delivers(tasks') : u.request = v.request => u = v
  <2> SUFFICES ASSUME NEW u \in Delivers(tasks'), NEW v \in Delivers(tasks'),
                      u.request = v.request
               PROVE  u = v
    OBVIOUS
  <2>1. c \notin Requested(tasks) \/ ~(c \in Elements(session.queue) \/ c \notin Known(session))
    BY <1>8 DEF L
  <2>2. ASSUME NEW x \in Delivers(tasks'), NEW y \in Delivers(tasks'), x.request = y.request,
               Answers(x)
        PROVE  x = y
    <3>1. PICK w \in Waiting(tasks) \ tasks' : w.request = x.request
      BY <2>2 DEF Answers
    <3>2. CASE y \in tasks
      <4>1. y = w
        BY <1>8, <2>2, <3>1, <3>2 DEF Delivers, Waiting
      <4> QED  BY <2>2, <3>1, <4>1 DEF Delivers
    <3>3. CASE y \notin tasks
      BY <2>2, <3>3 DEF Answers, Delivers
    <3> QED  BY <3>2, <3>3
  <2>3. \A x \in Delivers(tasks) : x.request \in Requested(tasks)
    BY DEF Requested
  <2> QED  BY <1>4, <1>8, <2>1, <2>2, <2>3
<1>14. \A u \in Delivers(tasks') : u.step = "failed" => u.request \notin Elements(sent)
  <2>1. \A u : Answers(u) => \E w \in Waiting(tasks) : w.request = u.request
    BY DEF Answers
  <2> QED  BY <1>4, <1>8, <2>1
<1>15. AtMostOnce'
  BY DEF AtMostOnce, LedgerOK
<1> QED  BY <1>1, <1>9, <1>10, <1>11, <1>12, <1>13, <1>14, <1>15 DEF LedgerOK, t

(* A delivery that is spawned is of the prompt the session claims, which    *)
(* arrived later than all that was sent.                                    *)
Handed ==
  /\ Within(arrived, arrived')
  /\ \A u \in Waiting(tasks') \ tasks :
       /\ u = Deliver(session'.current, handle)
       /\ \A p \in Elements(sent) : Precedes(arrived', p, u.request)

(* The handler keeps the order too: a prompt that arrives comes last.       *)
LEMMA OrderStep ==
  ASSUME GhostType, LedgerOK, OrderOK, Commits(session, session'), Observe(session'),
         sent' = sent, \A u \in tasks' : May(u, session')
  PROVE  OrderOK' /\ Handed
<1> DEFINE t == session'
           c == session'.current
<1>1. /\ Sound(session) /\ Sound(t) /\ Known(session) \subseteq Known(t)
      /\ \A p \in Elements(t.queue) : p \in Elements(session.queue) \/ p \notin Known(session)
      /\ \A a, b : Precedes(t.queue, a, b) =>
           Precedes(session.queue, a, b) \/ (a \in Elements(session.queue) /\ b \notin Known(session))
  BY DEF Commits, Extends, LedgerOK
<1>2. /\ arrived \in Seq(Prompts) /\ Elements(session.queue) \subseteq Known(session)
      /\ Elements(t.queue) \subseteq Known(t) /\ Known(t) \subseteq Prompts
  BY <1>1, SoundFields DEF GhostType
<1>3. Leaving \subseteq Known(session)
  BY DEF LedgerOK, Leaving, Waiting, Requested
<1>4. /\ Distinct(arrived) /\ Elements(arrived) = Known(session)
      /\ \A a, b : Precedes(session.queue, a, b) => Precedes(arrived, a, b)
      /\ \A p \in Leaving, q \in Elements(session.queue) : Precedes(arrived, p, q)
  BY DEF OrderOK, Within
<1>5. /\ Distinct(arrived') /\ Elements(arrived') = Known(t)
      /\ \A a, b : Precedes(arrived, a, b) => Precedes(arrived', a, b)
      /\ \A a, b : a \in Known(session) /\ b \in Known(t) \ Known(session) => Precedes(arrived', a, b)
  <2>1. New(t) = Known(t) \ Known(session)
    BY DEF New, Known
  <2>2. CASE New(t) = {}
    <3>1. arrived' = arrived /\ Known(t) = Known(session)
      BY <1>1, <2>1, <2>2 DEF Observe
    <3> QED  BY <1>4, <3>1
  <2>3. CASE New(t) # {}
    <3>1. PICK p \in Prompts \ Known(session) : Known(t) = Known(session) \cup {p}
      <4>1. Admits(session, t)
        BY <2>1, <2>3 DEF Commits, Settles, Turns
      <4> QED  BY <4>1 DEF Admits
    <3>2. New(t) = {p}
      BY <2>1, <3>1
    <3>3. arrived' = Append(arrived, p)
      BY <3>2 DEF Observe
    <3> HIDE DEF t
    <3> QED  BY <1>2, <1>4, <3>1, <3>3, AppendFacts, AppendOrder
  <2> QED  BY <2>2, <2>3
<1>6. \A u \in Waiting(tasks') :
        \/ u \in Waiting(tasks)
        \/ /\ u = Deliver(c, handle) /\ u.request = c /\ c \in Prompts
           /\ c \in Elements(session.queue) \/ c \notin Known(session)
           /\ Leads(session.queue, c, t.queue)
  BY DEF Waiting, Delivers, May, Claim, Answers, Deliver, Task, TaskOK
<1>7. \A p \in Leaving' :
        \/ p \in Leaving
        \/ /\ p = c
           /\ c \in Elements(session.queue) \/ c \notin Known(session)
           /\ Leads(session.queue, c, t.queue)
  BY <1>6 DEF Leaving
<1>8. c \in Prompts => c \in Known(t)
  BY <1>1, RequestsAssumption DEF Sound, RequestsAssumption, Requests
<1> HIDE DEF t, c
<1>9. \A a, b : Precedes(t.queue, a, b) => Precedes(arrived', a, b)
  <2> SUFFICES ASSUME NEW a, NEW b, Precedes(t.queue, a, b) PROVE Precedes(arrived', a, b)
    OBVIOUS
  <2>1. b \in Known(t)
    <3>1. t.queue \in Seq(Prompts)
      BY <1>1, SoundFields
    <3> QED  BY <1>2, <3>1, PrecedesFacts
  <2> QED  BY <1>1, <1>2, <1>4, <1>5, <2>1
<1>10. \A p \in Leaving', q \in Elements(t.queue) : Precedes(arrived', p, q)
  BY <1>1, <1>2, <1>3, <1>4, <1>5, <1>7 DEF Leads
<1>11. OrderOK'
  BY <1>5, <1>9, <1>10 DEF OrderOK, Within, t
<1>12. ASSUME NEW u \in Waiting(tasks') \ tasks
       PROVE  /\ u = Deliver(c, handle)
              /\ \A p \in Elements(sent) : Precedes(arrived', p, u.request)
  <2>1. /\ u = Deliver(c, handle) /\ u.request = c /\ c \in Known(t)
        /\ c \in Elements(session.queue) \/ c \notin Known(session)
    BY <1>6, <1>8 DEF Waiting, Delivers
  <2>2. \A p \in Elements(sent) : p \in Leaving /\ p \in Known(session)
    BY <1>3 DEF Leaving
  <2> QED  BY <1>4, <1>5, <2>1, <2>2
<1>13. Handed
  BY <1>5, <1>12 DEF Handed, Within, c
<1> QED  BY <1>11, <1>13

-----------------------------------------------------------------------------
(* One step of the invariant, for any handler: what is around the session   *)
(* and the tasks has its types, and the handler ends or is torn.            *)

(* What a step has to keep: the invariant, every receipt that ended, what   *)
(* was promised of the prompts, and their order.                            *)
Promised == [Ledger!Next]_(Ledger!pvars)
Preserved == IInv' /\ Kept(session, session') /\ Promised /\ Handed

Around ==
  /\ mode \in {"down", "opened", "up", "wedged"}
  /\ ServiceType /\ WorldType /\ EventsOK
  /\ restarts \in 0..MaxRestarts /\ faults \in 0..MaxFaults

(* The parts of the invariant that most steps use.                          *)
LEMMA AroundHolds ==
  ASSUME IInv
  PROVE  /\ Around /\ Sound(session) /\ session \in Sessions
         /\ \A t \in tasks : TaskOK(t)
BY DEF IInv, TypeOK, Around, LedgerOK, Sound, TasksOK

(* What is observed of a handler keeps the ghosts typed.                    *)
LEMMA GhostStep ==
  ASSUME GhostType, LedgerOK, Sound(session'), Observe(session'), sent' = sent
  PROVE  GhostType'
<1>1. dropped' \subseteq Prompts
  <2>1. Elements(session.queue) \subseteq Prompts
    BY SoundFields DEF LedgerOK
  <2> QED  BY <2>1 DEF GhostType, Observe
<1>2. arrived' \in Seq(Prompts)
  <2>1. CASE New(session') = {}
    BY <2>1 DEF GhostType, Observe
  <2>2. CASE New(session') # {}
    <3> DEFINE p == CHOOSE p \in New(session') : TRUE
    <3>1. p \in Prompts
      BY <2>2 DEF New
    <3>2. arrived' = Append(arrived, p)
      BY <2>2 DEF Observe
    <3> QED  BY <3>1, <3>2 DEF GhostType
  <2> QED  BY <2>1, <2>2
<1> QED  BY <1>1, <1>2 DEF GhostType

(* A handler drops some prompts of the queue, or claims one, or accepts one, *)
(* and hands none to the harness.                                           *)
LEMMA PromiseStep ==
  ASSUME LedgerOK, Commits(session, session'), Observe(session'), sent' = sent
  PROVE  Promised
<1> DEFINE t == session'
           c == session'.current
           W == Elements(session.queue)
           V == Elements(session'.queue)
           gone == {p \in W : p \notin V /\ c # p}
<1>1. /\ Sound(session) /\ Sound(t) /\ Known(session) \subseteq Known(t)
      /\ \A p \in V : p \in W \/ p \notin Known(session)
  BY DEF LedgerOK, Commits, Extends
<1>2. /\ W \subseteq Known(session) /\ V \subseteq Known(t) /\ Known(t) \subseteq Prompts
      /\ dropped \subseteq Known(session) /\ W \cap dropped = {} /\ session.current \notin W
      /\ None \notin W
  BY <1>1, SoundFields, NoneQueued DEF LedgerOK, Sound
<1>3. /\ dropped' = dropped \cup gone
      /\ Claimed = Known(session) \ (W \cup dropped)
      /\ Claimed' = Known(t) \ (V \cup dropped')
  BY DEF Observe, Claimed, Known
<1>4. Settles(session, t) \/ Turns(session, t) \/ Admits(session, t)
  BY DEF Commits
<1>5. /\ Settles(session, t) => Known(t) = Known(session) /\ c \notin W
      /\ Turns(session, t) => Known(t) = Known(session) /\ V = W \ {c}
      /\ Admits(session, t) => /\ W \subseteq V
                               /\ \E p \in Prompts \ Known(session) : Known(t) = Known(session) \cup {p}
  BY <1>2 DEF Settles, Turns, Admits
<1> HIDE DEF t, c, W, V
<1>6. /\ V = W /\ dropped' = dropped /\ Claimed' = Claimed => Promised
      /\ \A p \in Prompts : Ledger!Accept(p) \/ Ledger!Claim(p) => Promised
      /\ \A ps \in SUBSET W : Ledger!Drop(ps) => Promised
  BY DEF Promised, Ledger!pvars, Ledger!Next, V, W
<1>7. CASE Settles(session, t)
  <2>1. gone = W \ V /\ V \subseteq W /\ Claimed' = Claimed
    BY <1>1, <1>2, <1>3, <1>5, <1>7
  <2>2. Ledger!Drop(gone) <=>
          V = W \ gone /\ dropped' = dropped \cup gone /\ UNCHANGED <<Claimed, Elements(sent)>>
    BY DEF Ledger!Drop, V, W
  <2> QED  BY <1>3, <1>6, <2>1, <2>2
<1>8. CASE Turns(session, t)
  <2>1. CASE c \notin W
    BY <1>2, <1>3, <1>5, <1>6, <1>8, <2>1
  <2>2. CASE c \in W
    <3>1. c \in Prompts /\ dropped' = dropped /\ Claimed' = Claimed \cup {c}
      BY <1>2, <1>3, <1>5, <1>8, <2>2
    <3>2. Ledger!Claim(c) <=>
            /\ c \notin W \cup Claimed \cup dropped \/ c \in W
            /\ V = W \ {c} /\ Claimed' = Claimed \cup {c} /\ UNCHANGED <<dropped, Elements(sent)>>
      BY DEF Ledger!Claim, Ledger!New, V, W
    <3> QED  BY <1>5, <1>6, <1>8, <2>2, <3>1, <3>2
  <2> QED  BY <2>1, <2>2
<1>9. CASE Admits(session, t)
  <2>1. PICK p \in Prompts \ Known(session) : Known(t) = Known(session) \cup {p}
    BY <1>5, <1>9
  <2>2. /\ gone = {} /\ W \subseteq V /\ V \subseteq W \cup {p}
        /\ p \notin W \cup Claimed \cup dropped
    BY <1>1, <1>2, <1>3, <1>5, <1>9, <2>1
  <2>3. CASE p \in V
    <3>1. V = W \cup {p} /\ Claimed' = Claimed /\ dropped' = dropped
      BY <1>3, <2>1, <2>2, <2>3
    <3>2. Ledger!Accept(p) <=>
            /\ p \notin W \cup Claimed \cup dropped
            /\ V = W \cup {p} /\ UNCHANGED <<Claimed, dropped, Elements(sent)>>
      BY DEF Ledger!Accept, Ledger!New, V, W
    <3> QED  BY <1>6, <2>2, <3>1, <3>2
  <2>4. CASE p \notin V
    <3>1. V = W \ {p} /\ Claimed' = Claimed \cup {p} /\ dropped' = dropped
      BY <1>2, <1>3, <2>1, <2>2, <2>4
    <3>2. Ledger!Claim(p) <=>
            /\ p \notin W \cup Claimed \cup dropped \/ p \in W
            /\ V = W \ {p} /\ Claimed' = Claimed \cup {p} /\ UNCHANGED <<dropped, Elements(sent)>>
      BY DEF Ledger!Claim, Ledger!New, V, W
    <3> QED  BY <1>6, <2>2, <3>1, <3>2
  <2> QED  BY <2>3, <2>4
<1> QED  BY <1>4, <1>7, <1>8, <1>9

(* A handler that claims nothing commits what it settles.                   *)
LEMMA SucceedsCommits ==
  ASSUME NEW s, NEW t, Succeeds(s, t) \/ Commits(s, t)
  PROVE  Commits(s, t) /\ Extends(s, t)
BY DEF Succeeds, Commits

(* A handler that ends.                                                     *)
LEMMA HandlerStep ==
  ASSUME IInv, Succeeds(session, session') \/ Commits(session, session'), Observe(session'), sent' = sent,
         Around', AbsentOK', \A u \in tasks' : May(u, session')
  PROVE  Preserved
<1> USE SucceedsCommits
<1>1. LedgerOK' /\ Promised /\ OrderOK' /\ Handed
  BY LedgerStep, PromiseStep, OrderStep DEF IInv, TypeOK
<1>2. session' \in Sessions /\ Sound(session')
  BY DEF Extends, Sound
<1>3. TasksOK'
  BY DEF IInv, TasksOK, May
<1>4. tasks' \subseteq Tasks
  BY <1>3 DEF TasksOK, TaskOK
<1>5. GhostType'
  BY <1>2, GhostStep DEF IInv, TypeOK
<1>6. TypeOK'
  BY <1>2, <1>4, <1>5 DEF TypeOK, Around
<1>7. EventsOK'
  BY DEF Around
<1>8. Kept(session, session')
  BY DEF Extends
<1> QED  BY <1>1, <1>3, <1>6, <1>7, <1>8 DEF IInv, Preserved

(* A handler that ends with a session that was started.                     *)
LEMMA FinalStep ==
  ASSUME IInv, Succeeds(session, session') \/ Commits(session, session'), Observe(session'), sent' = sent,
         Around', session.state # "absent" \/ session'.state # "absent",
         \A u \in tasks' : May(u, session')
  PROVE  Preserved
<1>1. AbsentOK'
  BY SucceedsCommits DEF Extends, AbsentOK
<1> QED  BY <1>1, HandlerStep

(* What a service that holds nothing has.                                   *)
LEMMA Idle ==
  /\ 0 \in HarnessIds /\ \A b \in BOOLEAN : Watching(b) \in Guards
<1>1. 0 \in HarnessIds
  BY SessionAssumption DEF SessionAssumption, HarnessIds
<1> QED  BY <1>1 DEF Watching, Guards

(* What the end of the service leaves.                                      *)
LEMMA GoneStep ==
  ASSUME IInv, ServiceGone, orphan' \in BOOLEAN
  PROVE  /\ Around' /\ sent' = sent /\ tasks' = {} /\ events' = <<>> /\ handle' = 0
         /\ ~harness.live' /\ guard.phase' = "watching"
<1>1. ServiceType'
  BY Idle DEF ServiceGone, ServiceType
<1>2. WorldType'
  <2>1. harness' \in Processes
    BY DEF ServiceGone, NoHarness, IInv, TypeOK, WorldType, Processes
  <2>2. blocked' \in BOOLEAN /\ events' \in Seq(Events)
    BY DEF ServiceGone, IInv, TypeOK, WorldType
  <2> QED  BY <2>1, <2>2 DEF WorldType
<1>3. EventsOK'
  BY DEF ServiceGone, EventsOK
<1>4. restarts' \in 0..MaxRestarts /\ faults' \in 0..MaxFaults
  BY SessionAssumption DEF ServiceGone, IInv, TypeOK, SessionAssumption
<1> QED  BY <1>1, <1>2, <1>3, <1>4 DEF Around, ServiceGone, NoHarness, Watching

(* A handler cut short after any of its records: the service dies, or its   *)
(* journal refuses writes.                                                  *)
LEMMA TornStep ==
  ASSUME IInv, NEW possible, NEW orphaned \in BOOLEAN, Torn(possible, orphaned),
         \A t \in possible : Commits(session, t) /\ (t.state = "absent" => t = session)
  PROVE  Preserved
<1>1. PICK t \in possible : /\ session' = t /\ Observe(t)
                            /\ \/ ServiceGone /\ orphan' = (orphan \/ harness.live \/ orphaned)
                               \/ /\ faults < MaxFaults /\ faults' = faults + 1 /\ mode' = "wedged"
                                  /\ UNCHANGED <<handle, ready, releasing, stopping, draining, guard, tasks,
                                                 worldVars, sent, restarts>>
  BY DEF Torn
<1>2. Commits(session, session') /\ Observe(session')
      /\ (session'.state = "absent" => session' = session)
  BY <1>1
<1>3. CASE ServiceGone /\ orphan' = (orphan \/ harness.live \/ orphaned)
  <2>1. orphan' \in BOOLEAN
    BY <1>3 DEF IInv, TypeOK, WorldType, Processes
  <2>2. /\ Around' /\ sent' = sent /\ tasks' = {} /\ events' = <<>> /\ handle' = 0
        /\ ~harness.live' /\ guard.phase' = "watching"
    BY <1>3, <2>1, GoneStep
  <2>3. AbsentOK'
    BY <1>2, <2>2 DEF AbsentOK, IInv
  <2> QED  BY <1>2, <2>2, <2>3, HandlerStep
<1>4. CASE /\ faults < MaxFaults /\ faults' = faults + 1 /\ mode' = "wedged"
           /\ UNCHANGED <<handle, ready, releasing, stopping, draining, guard, tasks,
                          worldVars, sent, restarts>>
  <2>1. Around'
    <3>1. faults' \in 0..MaxFaults
      BY <1>4, SessionAssumption DEF IInv, TypeOK, SessionAssumption
    <3>2. ServiceType' /\ WorldType' /\ EventsOK' /\ restarts' = restarts
      BY <1>4 DEF IInv, TypeOK, ServiceType, WorldType, EventsOK, worldVars
    <3> QED  BY <1>4, <3>1, <3>2 DEF Around, IInv, TypeOK
  <2>2. AbsentOK'
    BY <1>2, <1>4 DEF AbsentOK, IInv, worldVars
  <2> QED  BY <1>2, <1>4, <2>1, <2>2, HandlerStep DEF May
<1> QED  BY <1>1, <1>3, <1>4

(* The handler ended with session t.                                        *)
Ends(t) ==
  /\ session' = t /\ Observe(t) /\ sent' = sent /\ Around'
  /\ \A u \in tasks' : May(u, t)

(* A handler as Commit describes it, of a session that was started.         *)
LEMMA CommitStep ==
  ASSUME IInv, session.state # "absent", NEW possible, NEW final,
         \A t \in possible : Succeeds(session, t) \/ Commits(session, t), final \in possible,
         Torn(possible, FALSE) \/ Ends(final)
  PROVE  Preserved
<1>1. \A t \in possible : Commits(session, t) /\ (t.state = "absent" => t = session)
  BY SucceedsCommits DEF Extends
<1>2. CASE Torn(possible, FALSE)
  BY <1>1, <1>2, TornStep
<1>3. CASE Ends(final)
  BY <1>3, FinalStep DEF Ends
<1> QED  BY <1>2, <1>3

(* A session that was started is not absent again.                          *)
LEMMA Present ==
  ASSUME IInv, \/ tasks # {} \/ events # <<>> \/ handle # 0 \/ harness.live
               \/ guard.phase # "watching" \/ session.native \/ session.compact
               \/ session.state # "absent"
  PROVE  session.state # "absent"
BY DEF IInv, AbsentOK, Absent

(* What the steps that leave parts alone keep.                              *)
LEMMA Unmoved ==
  ASSUME IInv
  PROVE  /\ Succeeds(session, session) /\ Sound(session)
         /\ (KeepService => ServiceType') /\ (KeepWorld => WorldType' /\ EventsOK')
         /\ (UNCHANGED faults => faults' \in 0..MaxFaults)
         /\ (Fault => faults' \in 0..MaxFaults)
         /\ (Quiet /\ UNCHANGED <<mode, restarts>> => Around')
<1>1. Succeeds(session, session) /\ Sound(session)
  BY AroundHolds, FollowsSelf, SucceedsFollows
<1>2. KeepService => ServiceType'
  BY AroundHolds DEF Around, KeepService, ServiceType
<1>3. KeepWorld => WorldType' /\ EventsOK'
  BY AroundHolds DEF Around, KeepWorld, WorldType, EventsOK
<1>4. Fault => faults' \in 0..MaxFaults
  BY AroundHolds, SessionAssumption DEF Fault, Around, SessionAssumption
<1>5. UNCHANGED faults => faults' \in 0..MaxFaults
  BY AroundHolds DEF Around
<1>6. Quiet /\ UNCHANGED <<mode, restarts>> => Around'
  BY <1>2, <1>3, <1>5, AroundHolds DEF Around, Quiet
<1> QED  BY <1>1, <1>2, <1>3, <1>4, <1>5, <1>6

(* What advance makes of a session that the handler got to.                 *)
LEMMA AdvanceStep ==
  ASSUME IInv, NEW s, Succeeds(session, s),
         Elements(s.queue) = Elements(session.queue), NEW rdy, NEW ended
  PROVE  /\ Commits(session, Advanced(s, handle, rdy, ended))
         /\ \A u \in AdvanceTasks(s, handle, rdy, ended) :
              May(u, Advanced(s, handle, rdy, ended))
<1> DEFINE a == Advanced(s, handle, rdy, ended)
<1>1. /\ Sound(s) /\ Keeps(s, a) /\ (Follows(s, a) \/ Turns(s, a))
      /\ \A u \in AdvanceTasks(s, handle, rdy, ended) :
           \/ u = Relaunch
           \/ /\ u = Deliver(a.current, handle) /\ a.current \in Elements(s.queue)
              /\ a.current \notin Elements(a.queue)
              /\ Leads(s.queue, a.current, a.queue)
  <2>1. Sound(s)
    BY DEF Succeeds, Extends
  <2> QED  BY <2>1, AdvancedFacts
<1> HIDE DEF a
<1>2. Commits(session, a)
  <2>1. Extends(session, a)
    BY <1>1, ExtendsThenKeeps DEF Succeeds
  <2>2. Follows(s, a) => Succeeds(session, a)
    BY SucceedsThenFollows
  <2>3. Turns(s, a) => Turns(session, a)
    BY DEF Turns, Succeeds, Settles
  <2> QED  BY <1>1, <2>1, <2>2, <2>3 DEF Commits, Succeeds
<1>3. a.cancelled = s.cancelled /\ Elements(s.queue) \cap s.cancelled = {}
      /\ \A p \in Elements(s.queue) : p \in Prompts /\ (p \in Elements(session.queue) \/ p \notin Known(session))
  BY <1>1, SoundFields DEF Follows, Keeps, Sound, Succeeds, Extends
<1>4. TaskOK(Relaunch)
  BY Idle DEF TaskOK, Relaunch, Task, Tasks, Steps
<1>5. ASSUME a.current \in Prompts PROVE TaskOK(Deliver(a.current, handle))
  <2>1. handle \in HarnessIds /\ Prompts \subseteq Requests
    BY AroundHolds DEF Around, ServiceType, Requests
  <2> QED  BY <1>5, <2>1 DEF TaskOK, Deliver, Task, Tasks, Steps, Replies
<1>6. Relaunch.kind = "relaunch"
  BY DEF Relaunch, Task
<1>7. \A p : Leads(s.queue, p, a.queue) => Leads(session.queue, p, a.queue)
  <2>1. Elements(a.queue) \subseteq Known(session)
    BY <1>1, Unmoved, SoundFields DEF Keeps
  <2> QED  BY <2>1 DEF Succeeds, Extends, Leads
<1>8. \A u \in AdvanceTasks(s, handle, rdy, ended) : May(u, a)
  BY <1>1, <1>3, <1>4, <1>5, <1>6, <1>7 DEF May, Claim
<1> QED  BY <1>2, <1>8 DEF a

(* The tasks a handler spawns beside.                                       *)
LEMMA TaskTypes ==
  ASSUME IInv
  PROVE  /\ TaskOK(Launch) /\ TaskOK(Relaunch) /\ TaskOK(Task("advance", None, None, 0))
         /\ \A p \in Prompts : TaskOK(Deliver(p, handle))
         /\ \A r \in Interrupts \cup Stops : TaskOK(InterruptTask(r))
         /\ \A r \in Compacts : TaskOK(Task("compact", r, None, handle))
         /\ Launch.kind = "launch" /\ Relaunch.kind = "relaunch"
         /\ Task("advance", None, None, 0).kind = "advance"
         /\ \A p \in Prompts : Deliver(p, handle).kind = "deliver"
         /\ \A r \in Requests : InterruptTask(r).kind = "interrupt"
         /\ \A r \in Requests : Task("compact", r, None, handle).kind = "compact"
<1>1. /\ handle \in HarnessIds /\ 0 \in HarnessIds /\ session.current \in Prompts \cup {None}
      /\ Prompts \subseteq Requests /\ Start \in Requests
      /\ Interrupts \cup Stops \cup Compacts \subseteq Requests
  BY AroundHolds, Idle, SoundFields DEF Around, ServiceType, Requests
<1>2. TaskOK(Launch) /\ TaskOK(Relaunch) /\ TaskOK(Task("advance", None, None, 0))
  BY <1>1 DEF TaskOK, Launch, Relaunch, Task, Tasks, Steps
<1>3. \A p \in Prompts : TaskOK(Deliver(p, handle))
  BY <1>1 DEF TaskOK, Deliver, Task, Tasks, Steps, Replies
<1>4. \A r \in Interrupts \cup Stops : TaskOK(InterruptTask(r))
  BY <1>1 DEF TaskOK, InterruptTask, Task, Tasks, Steps, Replies
<1>5. \A r \in Compacts : TaskOK(Task("compact", r, None, handle))
  BY <1>1 DEF TaskOK, Task, Tasks, Steps, Replies
<1> QED  BY <1>2, <1>3, <1>4, <1>5 DEF Launch, Relaunch, Task, Deliver, InterruptTask

-----------------------------------------------------------------------------
(* The boot.                                                                *)

(* Manager::open replays the journal and settles it.                        *)
LEMMA OpenStep ==
  ASSUME IInv, Open
  PROVE  Preserved
<1>1. Succeeds(session, session') /\ (session.state = "absent" => session' = session)
  BY Unmoved, ReopenedFollows, SucceedsFollows DEF Open
<1>2. Around' /\ Observe(session') /\ sent' = sent /\ tasks' = tasks
  BY Unmoved, AroundHolds DEF Open, Around
<1>3. AbsentOK'
  BY <1>1, <1>2 DEF AbsentOK, IInv, Succeeds, Extends, Open, KeepService, KeepWorld
<1> QED  BY <1>1, <1>2, <1>3, HandlerStep DEF May

(* Manager::open finds native history that it cannot read.                  *)
LEMMA OpenUnreadableStep ==
  ASSUME IInv, OpenUnreadable
  PROVE  Preserved
<1> DEFINE s1 == State(session, "process_lost", None)
<1>1. session.state # "absent"
  BY Present DEF OpenUnreadable
<1>2. Follows(session, s1) /\ Sound(s1)
  BY Unmoved, MoveFollows DEF States, Follows, Keeps
<1>3. Succeeds(session, FailPending(s1))
  <2> HIDE DEF s1
  <2> QED  BY <1>2, FailPendingFollows, FollowsAll, SucceedsFollows
<1>4. Around' /\ Observe(session') /\ sent' = sent /\ tasks' = tasks /\ session' = FailPending(s1)
  BY Unmoved, AroundHolds DEF OpenUnreadable, Around, Fault
<1> QED  BY <1>1, <1>3, <1>4, FinalStep DEF May

(* Restore_all relaunches the session, or lets it sleep.                    *)
LEMMA RestoreStep ==
  ASSUME IInv, Restore
  PROVE  Preserved
<1>1. Sound(session)
  BY Unmoved
<1>2. \A st \in {"resuming", "sleeping"} : Follows(session, State(session, st, None))
  BY <1>1, MoveFollows DEF States
<1>3. Follows(session, session') /\ (session.state = "absent" => session' = session)
  <2>1. session.state = "absent" => ~CanResume(session)
    BY DEF IInv, AbsentOK, Absent, CanResume
  <2> QED  BY <1>1, <1>2, <2>1, FollowsSelf DEF Restore
<1>4. Elements(session'.queue) = Elements(session.queue)
  BY <1>1, MoveFollows DEF Restore, States
<1>5. Observe(session')
  <2>1. dropped' = dropped /\ arrived' = arrived
    BY DEF Restore, ghostVars
  <2>2. session'.receipts = session.receipts
    <3>1. session \in Sessions
      BY AroundHolds
    <3> QED  BY <3>1 DEF Restore, State, Sessions
  <2>3. New(session') = {}
    BY <2>2 DEF New
  <2> QED  BY <1>4, <2>1, <2>3 DEF Observe
<1>6. Around'
  <2>1. ServiceType'
    BY Idle, AroundHolds DEF Restore, Around, ServiceType, Samples
  <2>2. WorldType' /\ EventsOK'
    BY AroundHolds DEF Restore, Around, WorldType, EventsOK, Samples
  <2> QED  BY <2>1, <2>2, AroundHolds DEF Restore, Around
<1>7. \A u \in tasks' : May(u, session')
  BY TaskTypes DEF Restore, May
<1>8. AbsentOK'
  <2>1. ASSUME session'.state = "absent" PROVE session' = Absent /\ session.state = "absent"
    BY <1>3, <2>1 DEF Follows, Keeps, IInv, AbsentOK
  <2>2. session.state = "absent" => ~WaitingStart(session) /\ ~CanResume(session)
    BY DEF IInv, AbsentOK, Absent, WaitingStart, CanResume
  <2>3. session.state = "absent" => tasks' = {}
    BY <2>2 DEF Restore
  <2>4. guard'.phase = "watching" /\ events' = events /\ handle' = handle /\ harness' = harness
    BY DEF Restore, Watching
  <2> QED  BY <2>1, <2>3, <2>4 DEF AbsentOK, IInv
<1>9. Succeeds(session, session') /\ sent' = sent
  BY <1>3, SucceedsFollows DEF Restore, ghostVars
<1> QED  BY <1>5, <1>6, <1>7, <1>8, <1>9, HandlerStep

-----------------------------------------------------------------------------
(* Commands.                                                                *)

Others == Interrupts \cup Stops \cup Resumes \cup Cancels \cup Compacts \cup Sleeps
            \cup Closes \cup {Start}

(* Requests carry a prompt, a compaction or another command, never two.     *)
LEMMA Kinds ==
  /\ Others \subseteq Requests \ Prompts /\ Prompts \subseteq Requests
  /\ Start \in Others /\ Compacts \cap (Interrupts \cup Stops \cup Resumes \cup Sleeps) = {}
BY RequestsAssumption DEF RequestsAssumption, Requests, Others

(* A command that reached the service starts from a session that has not    *)
(* seen the request.                                                        *)
LEMMA Accepting ==
  ASSUME IInv, NEW r \in Requests, Reaches(r)
  PROVE  /\ session.state # "absent" /\ Extends(session, Accept(session, r))
         /\ Sound(Accept(session, r)) /\ Accept(session, r).current = session.current
         /\ r \notin Prompts => /\ Succeeds(session, Accept(session, r))
                                /\ Elements(Accept(session, r).queue) = Elements(session.queue)
<1>1. session.state # "absent" /\ session.receipts[r] = "none"
  BY DEF Reaches
<1> QED  BY <1>1, Unmoved, AcceptFacts DEF Extends

(* The start request is accepted, and the launch spawned.                   *)
LEMMA StartSessionStep ==
  ASSUME IInv, StartSession
  PROVE  Preserved
<1> DEFINE s1 == Accept(session, Start)
<1>1. session = Absent /\ session.receipts[Start] = "none"
  BY DEF StartSession, IInv, AbsentOK, Absent, Requests
<1>2. Succeeds(session, s1) /\ s1.state = "pending"
  BY <1>1, Kinds, Unmoved, AcceptFacts
<1>3. \/ Torn({session, s1}, FALSE)
      \/ /\ session' = s1 /\ Observe(s1) /\ UNCHANGED <<mode, sent, restarts>>
         /\ tasks' = tasks \cup {Launch} /\ Quiet
  <2>1. {session} \cup {s1} = {session, s1}
    OBVIOUS
  <2> QED  BY <2>1 DEF StartSession, Commit
<1>4. \A u \in tasks \cup {Launch} : May(u, s1)
  BY TaskTypes DEF May
<1> HIDE DEF s1
<1> DEFINE P == {session, s1}
<1>5. CASE Torn(P, FALSE)
  <2>1. \A t \in P : Commits(session, t) /\ (t.state = "absent" => t = session)
    BY <1>2, Unmoved, SucceedsCommits
  <2> HIDE DEF P
  <2> QED  BY <1>5, <2>1, TornStep
<1>6. CASE ~Torn(P, FALSE)
  <2>1. session' = s1 /\ Around' /\ Observe(session') /\ sent' = sent
    BY <1>3, <1>6, Unmoved
  <2> QED  BY <1>2, <1>3, <1>4, <1>6, <2>1, FinalStep
<1> QED  BY <1>5, <1>6

(* A prompt is accepted, and claimed at once when the harness is idle.      *)
LEMMA PromptStep ==
  ASSUME IInv, NEW p \in Prompts, Prompt(p)
  PROVE  Preserved
<1> DEFINE s1 == Accept(session, p)
           claimed == State(s1, "starting_turn", p)
           woken == State(s1, "resuming", None)
           final == CASE DeliverNow -> claimed [] Wakes(s1, handle) -> woken [] OTHER -> s1
           spawned == CASE DeliverNow -> {Deliver(p, handle)}
                        [] Wakes(s1, handle) -> {Relaunch} [] OTHER -> {}
           P == {session, s1} \cup {final}
<1>1. /\ session.state # "absent" /\ Extends(session, s1) /\ Sound(s1)
      /\ Known(s1) = Known(session) \cup {p} /\ p \notin Known(session)
      /\ p \notin s1.cancelled /\ Elements(s1.queue) = Elements(session.queue) \cup {p}
  <2>1. p \in Requests /\ Reaches(p) /\ session.receipts[p] = "none"
    BY Kinds DEF Prompt, Reaches
  <2>2. session.state # "absent"
    BY <2>1 DEF Reaches
  <2>3. /\ Extends(session, s1) /\ s1.cancelled = session.cancelled
        /\ p \notin Known(session) /\ Known(s1) = Known(session) \cup {p}
        /\ p \notin session.cancelled
        /\ Elements(s1.queue) = IF p \in Prompts THEN Elements(session.queue) \cup {p}
                                ELSE Elements(session.queue)
    BY <2>1, AcceptFacts, Unmoved
  <2> HIDE DEF s1
  <2> QED  BY <2>2, <2>3 DEF Extends
<1>2. \/ Torn(P, FALSE)
      \/ /\ session' = final /\ Observe(final) /\ UNCHANGED <<mode, sent, restarts>>
         /\ tasks' = tasks \cup spawned /\ Quiet
  BY DEF Prompt, Commit
<1>3. DeliverNow => session.state = "idle" /\ s1.state = "idle"
  <2>1. s1.state = session.state
    BY Kinds, Unmoved, AcceptFacts, RequestsAssumption DEF Prompt, Reaches, RequestsAssumption
  <2> QED  BY <2>1 DEF DeliverNow
<1>4. \/ DeliverNow /\ final = claimed /\ spawned = {Deliver(p, handle)}
      \/ ~DeliverNow /\ Wakes(s1, handle) /\ final = woken /\ spawned = {Relaunch}
      \/ final = s1 /\ spawned = {}
  BY <1>3 DEF Wakes
<1> HIDE DEF s1, final, spawned
<1>5. /\ Keeps(s1, claimed) /\ claimed.current = p /\ claimed.cancelled = s1.cancelled
      /\ Elements(claimed.queue) = Elements(s1.queue) \ {p}
  BY <1>1, ClaimKeeps DEF Keeps
<1>6. Keeps(s1, woken) /\ Elements(woken.queue) = Elements(s1.queue)
  BY <1>1, MoveFollows DEF States, Follows
<1> HIDE DEF claimed, woken
<1>7. final \in P /\ \A t \in P : Succeeds(session, t) \/ Commits(session, t)
  <2>1. Elements(session.queue) \subseteq Known(session)
    BY Unmoved, SoundFields
  <2>2. Extends(session, claimed) /\ Extends(session, woken)
    BY <1>1, <1>5, <1>6, ExtendsThenKeeps
  <2>3. Admits(session, s1) /\ Admits(session, claimed) /\ Admits(session, woken)
    BY <1>1, <1>5, <1>6, <2>1 DEF Admits, Keeps
  <2> QED  BY <1>1, <1>4, <2>2, <2>3, Unmoved DEF Commits
<1>8. \A u \in tasks \cup spawned : May(u, final)
  <2>1. DeliverNow => Leads(session.queue, p, claimed.queue)
    <3>1. DeliverNow => Elements(session.queue) = {}
      BY DEF DeliverNow, Elements
    <3>2. DeliverNow => Elements(claimed.queue) = {}
      BY <1>1, <1>5, <3>1
    <3> QED  BY <3>2 DEF Leads
  <2> QED  BY <1>1, <1>4, <1>5, <2>1, TaskTypes DEF May, Claim
<1>9. Torn(P, FALSE) \/ Ends(final)
  BY <1>2, <1>8, Unmoved DEF Ends
<1> HIDE DEF P
<1> QED  BY <1>1, <1>7, <1>9, CommitStep

(* An interrupt is accepted, and its call spawned.                          *)
LEMMA InterruptTurnStep ==
  ASSUME IInv, NEW r \in Interrupts, InterruptTurn(r)
  PROVE  Preserved
<1> DEFINE s1 == Accept(session, r)
           P == {session} \cup {s1}
<1>1. session.state # "absent" /\ Succeeds(session, s1) /\ r \in Requests \ Prompts
  BY Accepting, Kinds DEF InterruptTurn, Others
<1>2. \/ Torn(P, FALSE)
      \/ /\ session' = s1 /\ Observe(s1) /\ UNCHANGED <<mode, sent, restarts>>
         /\ tasks' = tasks \cup {InterruptTask(r)} /\ Quiet
  BY DEF InterruptTurn, Commit
<1> HIDE DEF s1
<1>3. \A u \in tasks \cup {InterruptTask(r)} : May(u, s1)
  BY <1>1, TaskTypes DEF May
<1>4. s1 \in P /\ \A t \in P : Succeeds(session, t)
  BY <1>1, Unmoved
<1>5. Torn(P, FALSE) \/ Ends(s1)
  BY <1>2, <1>3, Unmoved DEF Ends
<1> HIDE DEF P
<1> QED  BY <1>1, <1>4, <1>5, CommitStep

(* A stop is accepted, with or without a turn to interrupt.                 *)
LEMMA StopTurnStep ==
  ASSUME IInv, NEW r \in Stops, StopTurn(r)
  PROVE  Preserved
<1> DEFINE s1 == Accept(session, r)
           s2 == Finish(s1, r, "completed")
           P == {session, s1} \cup {s2}
           Q == {session} \cup {s1}
<1>1. /\ session.state # "absent" /\ Succeeds(session, s1) /\ Sound(s1)
      /\ r \in Requests \ Prompts
  BY Accepting, Kinds DEF StopTurn, Others
<1>2. \/ Torn(P, FALSE) \/ Torn(Q, FALSE)
      \/ /\ session' = s2 /\ Observe(s2) /\ UNCHANGED <<mode, sent, restarts>>
         /\ UNCHANGED tasks /\ Quiet
      \/ /\ session' = s1 /\ Observe(s1) /\ UNCHANGED <<mode, sent, restarts>>
         /\ tasks' = tasks \cup {InterruptTask(r)} /\ Quiet
  BY DEF StopTurn, Commit
<1> HIDE DEF s1
<1>3. Succeeds(session, s2)
  BY <1>1, FinishFollows, SucceedsThenFollows DEF EndStates
<1> HIDE DEF s2
<1>4. /\ \A u \in tasks \cup {InterruptTask(r)} : May(u, s1)
      /\ \A u \in tasks : May(u, s2)
  BY <1>1, TaskTypes DEF May
<1>5. /\ s1 \in P /\ s2 \in P /\ \A t \in P : Succeeds(session, t)
      /\ s1 \in Q /\ \A t \in Q : Succeeds(session, t)
  BY <1>1, <1>3, Unmoved
<1>6. Torn(P, FALSE) \/ Torn(Q, FALSE) \/ Ends(s1) \/ Ends(s2)
  BY <1>2, <1>4, Unmoved DEF Ends
<1> HIDE DEF P, Q
<1> QED  BY <1>1, <1>5, <1>6, CommitStep

(* A resume retries a failed startup, or lets the queue move.               *)
LEMMA ResumeQueueStep ==
  ASSUME IInv, NEW r \in Resumes, ResumeQueue(r)
  PROVE  Preserved
<1> DEFINE s1 == Accept(session, r)
           woken == State(s1, "resuming", None)
           done == Finish(s1, r, "completed")
           P == {session, s1} \cup {woken}
           Q == {session, s1} \cup {done}
           later == Task("advance", None, None, 0)
<1>1. /\ session.state # "absent" /\ Succeeds(session, s1) /\ Sound(s1)
      /\ r \in Requests \ Prompts
  BY Accepting, Kinds DEF ResumeQueue, Others
<1>2. \/ Torn(P, FALSE) \/ Torn(Q, FALSE)
      \/ /\ session' = woken /\ Observe(woken) /\ UNCHANGED <<mode, sent, restarts>>
         /\ tasks' = tasks \cup {Relaunch} /\ Quiet
      \/ /\ session' = done /\ Observe(done) /\ UNCHANGED <<mode, sent, restarts>>
         /\ tasks' = tasks \cup {later} /\ Quiet
  BY DEF ResumeQueue, Commit
<1>3. /\ \A u \in tasks \cup {Relaunch} : May(u, woken)
      /\ \A u \in tasks \cup {later} : May(u, done)
  BY TaskTypes DEF May
<1> HIDE DEF s1
<1>4. Succeeds(session, woken) /\ Succeeds(session, done)
  BY <1>1, MoveFollows, FinishFollows, SucceedsThenFollows DEF EndStates, States
<1> HIDE DEF woken, done, later
<1>5. /\ woken \in P /\ \A t \in P : Succeeds(session, t)
      /\ done \in Q /\ \A t \in Q : Succeeds(session, t)
  BY <1>1, <1>4, Unmoved
<1>6. Torn(P, FALSE) \/ Torn(Q, FALSE) \/ Ends(woken) \/ Ends(done)
  BY <1>2, <1>3, Unmoved DEF Ends
<1> HIDE DEF P, Q
<1> QED  BY <1>1, <1>5, <1>6, CommitStep

(* A cancel takes its target out of the queue.                              *)
LEMMA CancelStep ==
  ASSUME IInv, NEW r \in Cancels, NEW p \in Prompts, Cancel(r, p)
  PROVE  Preserved
<1> DEFINE s1 == AcceptCancel(session, r, p)
           s2 == Finish(s1, r, "completed")
           P == {session, s1} \cup {s2}
<1>1. /\ session.state # "absent" /\ Succeeds(session, s1) /\ Sound(s1)
      /\ r \notin Prompts
  <2>1. /\ session.state # "absent" /\ r \in Requests \ Prompts /\ session.receipts[r] = "none"
        /\ p \in session.cancelled \cup Elements(session.queue)
    BY Kinds DEF Cancel, Reaches, Others
  <2> QED  BY <2>1, AcceptCancelFacts, Unmoved DEF Succeeds, Extends
<1>2. \/ Torn(P, FALSE)
      \/ /\ session' = s2 /\ Observe(s2) /\ UNCHANGED <<mode, sent, restarts>>
         /\ UNCHANGED tasks /\ Quiet
  BY DEF Cancel, Commit
<1> HIDE DEF s1
<1>3. Succeeds(session, s2)
  BY <1>1, FinishFollows, SucceedsThenFollows DEF EndStates
<1> HIDE DEF s2
<1>4. s2 \in P /\ \A t \in P : Succeeds(session, t)
  BY <1>1, <1>3, Unmoved
<1>5. Torn(P, FALSE) \/ Ends(s2)
  BY <1>2, Unmoved DEF Ends, May
<1> HIDE DEF P
<1> QED  BY <1>1, <1>4, <1>5, CommitStep

(* A compaction wakes a sleeping session.                                   *)
LEMMA CompactWakesStep ==
  ASSUME IInv, CompactWakes
  PROVE  Preserved
<1> DEFINE s1 == State(session, "resuming", None)
           P == {session} \cup {s1}
<1>1. session.state # "absent" /\ Succeeds(session, s1)
  BY Unmoved, MoveFollows, SucceedsFollows DEF CompactWakes, States
<1>2. \/ Torn(P, FALSE)
      \/ /\ session' = s1 /\ Observe(s1) /\ UNCHANGED <<mode, sent, restarts>>
         /\ tasks' = tasks \cup {Relaunch} /\ Quiet
  BY DEF CompactWakes, Commit
<1> HIDE DEF s1
<1>3. \A u \in tasks \cup {Relaunch} : May(u, s1)
  BY TaskTypes DEF May
<1>4. s1 \in P /\ \A t \in P : Succeeds(session, t)
  BY <1>1, Unmoved
<1>5. Torn(P, FALSE) \/ Ends(s1)
  BY <1>2, <1>3, Unmoved DEF Ends
<1> HIDE DEF P
<1> QED  BY <1>1, <1>4, <1>5, CommitStep

(* A compaction is accepted, and its call spawned.                          *)
LEMMA CompactStep ==
  ASSUME IInv, NEW r \in Compacts, Compact(r)
  PROVE  Preserved
<1> DEFINE s1 == Accept(session, r)
           s2 == State(s1, "running", None)
           call == Task("compact", r, None, handle)
           P == {session, s1} \cup {s2}
<1>1. /\ session.state # "absent" /\ Succeeds(session, s1) /\ Sound(s1)
      /\ r \in Requests \ Prompts
  BY Accepting, Kinds DEF Compact, Others
<1>2. \/ Torn(P, FALSE)
      \/ /\ session' = s2 /\ Observe(s2) /\ UNCHANGED <<mode, sent, restarts>>
         /\ tasks' = tasks \cup {call} /\ Quiet
  BY DEF Compact, Commit
<1>3. \A u \in tasks \cup {call} : May(u, s2)
  BY <1>1, TaskTypes DEF May
<1> HIDE DEF s1, call
<1>4. Succeeds(session, s2)
  BY <1>1, MoveFollows, SucceedsThenFollows DEF States
<1> HIDE DEF s2
<1>5. s2 \in P /\ \A t \in P : Succeeds(session, t)
  BY <1>1, <1>4, Unmoved
<1>6. Torn(P, FALSE) \/ Ends(s2)
  BY <1>2, <1>3, Unmoved DEF Ends
<1> HIDE DEF P
<1> QED  BY <1>1, <1>5, <1>6, CommitStep

(* Asking the harness to exit changes nothing else around the session.      *)
LEMMA Asked ==
  ASSUME IInv, harness' = AskExit(handle), UNCHANGED <<blocked, orphan, events>>
  PROVE  WorldType' /\ EventsOK'
<1>1. harness' \in Processes
  BY AroundHolds DEF AskExit, Around, WorldType, Processes
<1> QED  BY <1>1, AroundHolds DEF Around, WorldType, EventsOK

(* Release asks the idle harness to exit.                                   *)
LEMMA Releasing ==
  ASSUME IInv, Release
  PROVE  ServiceType' /\ WorldType' /\ EventsOK' /\ UNCHANGED faults
<1>1. ServiceType'
  BY AroundHolds DEF Release, Around, ServiceType
<1>2. WorldType' /\ EventsOK'
  BY Asked DEF Release
<1> QED  BY <1>1, <1>2 DEF Release

(* A close fails the queue and asks the harness to exit.                    *)
LEMMA CloseStep ==
  ASSUME IInv, NEW r \in Closes, Close(r)
  PROVE  Preserved
<1> DEFINE s1 == Accept(session, r)
           s2 == State(s1, "closing", session.current)
           s3 == FailPending(s2)
           s4 == State(s3, "closed", None)
           s5 == Finish(s4, r, "completed")
           final == IF handle = 0 THEN s5 ELSE s3
           P == ({session, s1} \cup PartlyFailed(s2) \cup {s4}) \cup {final}
<1>1. /\ session.state # "absent" /\ Succeeds(session, s1) /\ Sound(s1)
      /\ s1.current = session.current /\ r \notin Prompts
  BY Accepting, Kinds DEF Close, Others
<1>2. \/ Torn(P, FALSE)
      \/ /\ session' = final /\ Observe(final) /\ UNCHANGED <<mode, sent, restarts>>
         /\ harness' = AskExit(handle) /\ KeepService
         /\ UNCHANGED <<tasks, blocked, orphan, events, faults>>
  BY DEF Close, Commit
<1> HIDE DEF s1
<1>3. Succeeds(session, s2) /\ Sound(s2)
  BY <1>1, MoveFollows, SucceedsThenFollows DEF States
<1> HIDE DEF s2
<1>4. Succeeds(session, s3) /\ Sound(s3) /\ \A t \in PartlyFailed(s2) : Succeeds(session, t)
  BY <1>3, FailPendingFollows, SucceedsThenFollows
<1> HIDE DEF s3
<1>5. Succeeds(session, s4) /\ Sound(s4)
  BY <1>4, MoveFollows, SucceedsThenFollows DEF States
<1> HIDE DEF s4
<1>6. Succeeds(session, s5)
  BY <1>1, <1>5, FinishFollows, SucceedsThenFollows DEF EndStates
<1> HIDE DEF s5
<1>7. final \in P /\ \A t \in P : Succeeds(session, t)
  BY <1>1, <1>4, <1>5, <1>6, Unmoved
<1> HIDE DEF final
<1>8. Torn(P, FALSE) \/ Ends(final)
  BY <1>2, Asked, Unmoved, AroundHolds DEF Ends, May, Around
<1> HIDE DEF P
<1> QED  BY <1>1, <1>7, <1>8, CommitStep

(* A sleep request is accepted, or fulfilled at once.                       *)
LEMMA SleepStep ==
  ASSUME IInv, NEW r \in Sleeps, Sleep(r)
  PROVE  Preserved
<1> DEFINE s1 == Accept(session, r)
           z == State(s1, "sleeping", None)
           s2 == IF CanResume(s1) /\ s1.state # "sleeping" THEN z ELSE s1
           s3 == Finish(s2, r, "completed")
           rests == handle = 0 /\ ~Busy(s1)
           middle == IF rests THEN s2 ELSE s1
           final == IF rests THEN s3 ELSE s1
           P == {session, s1, middle} \cup {final}
<1>1. session.state # "absent" /\ Succeeds(session, s1) /\ Sound(s1) /\ r \notin Prompts
  BY Accepting, Kinds DEF Sleep, Others
<1>2. \/ Torn(P, FALSE)
      \/ /\ session' = final /\ Observe(final) /\ UNCHANGED <<mode, sent, restarts>>
         /\ UNCHANGED tasks /\ (Release \/ Quiet)
  BY DEF Sleep, Commit
<1> HIDE DEF s1
<1>3. Succeeds(session, z) /\ Sound(z)
  BY <1>1, MoveFollows, SucceedsThenFollows DEF States
<1> HIDE DEF z
<1>4. Succeeds(session, s2) /\ Sound(s2)
  BY <1>1, <1>3
<1> HIDE DEF s2
<1>5. Succeeds(session, s3)
  BY <1>1, <1>4, FinishFollows, SucceedsThenFollows DEF EndStates
<1> HIDE DEF s3
<1>6. final \in P /\ \A t \in P : Succeeds(session, t)
  BY <1>1, <1>4, <1>5, Unmoved
<1> HIDE DEF final, middle
<1>7. Release /\ UNCHANGED <<mode, restarts>> => Around'
  BY Releasing, AroundHolds DEF Around
<1>8. Torn(P, FALSE) \/ Ends(final)
  BY <1>2, <1>7, Unmoved DEF Ends, May
<1> HIDE DEF P
<1> QED  BY <1>1, <1>6, <1>8, CommitStep

(* A step that leaves the session and the ghosts alone.                     *)
LEMMA SameStep ==
  ASSUME IInv, UNCHANGED <<session, ghostVars>>, Around', session.state # "absent",
         \A u \in tasks' : May(u, session)
  PROVE  Preserved
<1>1. session' = session /\ sent' = sent /\ dropped' = dropped /\ arrived' = arrived
  BY DEF ghostVars
<1>2. Observe(session')
  BY <1>1 DEF Observe, New
<1> QED  BY <1>1, <1>2, Unmoved, FinalStep

(* An idle session lets its harness go.                                     *)
LEMMA SleepDueStep ==
  ASSUME IInv, SleepDue
  PROVE  Preserved
<1>1. session.state # "absent"
  BY Present DEF SleepDue, CanSleep
<1>2. Around'
  BY Releasing, AroundHolds DEF SleepDue, Around
<1> QED  BY <1>1, <1>2, SameStep DEF SleepDue, May

(* A drain holds or ends.                                                   *)
LEMMA DrainStep ==
  ASSUME IInv, Drain \/ Undrain
  PROVE  Preserved
<1>1. ServiceType'
  BY AroundHolds DEF Around, ServiceType, Drain, Undrain
<1>2. Around'
  BY <1>1, Unmoved, AroundHolds DEF Around, Drain, Undrain
<1>3. /\ session' = session /\ tasks' = tasks /\ sent' = sent /\ dropped' = dropped
      /\ arrived' = arrived /\ events' = events /\ handle' = handle /\ harness' = harness
      /\ guard' = guard
  BY DEF Drain, Undrain, KeepWorld, ghostVars
<1>4. Observe(session') /\ AbsentOK'
  BY <1>3 DEF Observe, New, AbsentOK, IInv
<1> QED  BY <1>2, <1>3, <1>4, Unmoved, HandlerStep DEF May

(* A planned stop begins.                                                   *)
LEMMA ShutdownStep ==
  ASSUME IInv, Shutdown
  PROVE  Preserved
<1> DEFINE s1 == State(session, "suspended", None)
           final == IF session.state = "resuming" /\ handle = 0 THEN s1 ELSE session
           P == {session} \cup {final}
<1>1. Succeeds(session, s1)
  BY Unmoved, MoveFollows, SucceedsFollows DEF States
<1>2. \/ Torn(P, FALSE)
      \/ /\ session' = final /\ Observe(final) /\ UNCHANGED <<mode, sent, restarts>>
         /\ stopping' = TRUE /\ harness' = AskExit(handle)
         /\ UNCHANGED <<handle, ready, releasing, draining, guard, tasks,
                        blocked, orphan, events, faults>>
  BY DEF Shutdown, Commit
<1>3. session.state = "absent" => final = session
  OBVIOUS
<1>4. Succeeds(session, final) /\ (final.state = "absent" => final = session)
  BY <1>1, <1>3, Unmoved DEF Succeeds, Extends
<1> HIDE DEF final
<1>5. CASE Torn(P, FALSE)
  <2>1. \A t \in P : Commits(session, t) /\ (t.state = "absent" => t = session)
    BY <1>4, Unmoved, SucceedsCommits
  <2> HIDE DEF P
  <2> QED  BY <1>5, <2>1, TornStep
<1>6. CASE ~Torn(P, FALSE)
  <2>1. ServiceType'
    BY <1>2, <1>6, AroundHolds DEF Around, ServiceType
  <2>2. Around'
    BY <1>2, <1>6, <2>1, Asked, AroundHolds DEF Around
  <2>3. AbsentOK'
    <3>1. session'.state = "absent" => session' = session
      BY <1>2, <1>4, <1>6
    <3>2. tasks' = tasks /\ events' = events /\ handle' = handle /\ guard' = guard
          /\ (~harness.live => ~harness'.live)
      BY <1>2, <1>6, AroundHolds DEF AskExit, Around, WorldType, Processes
    <3> QED  BY <3>1, <3>2 DEF AbsentOK, IInv
  <2> QED  BY <1>2, <1>4, <1>6, <2>2, <2>3, HandlerStep DEF May
<1> QED  BY <1>5, <1>6

-----------------------------------------------------------------------------
(* launch and relaunch.                                                     *)

(* A task that goes on is still one of its kind, and a call that came back  *)
(* does not wait any more.                                                  *)
LEMMA Becoming ==
  ASSUME IInv, NEW t \in tasks, NEW s, NEW step,
         \/ t.kind \in {"launch", "relaunch"} /\ step \in Steps
         \/ t.kind \in {"deliver", "interrupt", "compact"} /\ step \in Replies \ {"waiting"},
         t.kind = "deliver" => t.step = "waiting" /\ tasks' = Become(t, step),
         t.kind = "compact" => step # "completed"
  PROVE  \A u \in Become(t, step) : May(u, s)
<1> DEFINE v == [t EXCEPT !.step = step]
<1>1. TaskOK(t) /\ t \in Tasks
  BY AroundHolds DEF TaskOK
<1>2. Replies \subseteq Steps
  BY DEF Replies, Steps
<1>3. /\ v.kind = t.kind /\ v.request = t.request /\ v.target = t.target
      /\ v.harness = t.harness /\ v.step = step
      /\ v = [kind |-> t.kind, request |-> t.request, target |-> t.target,
              harness |-> t.harness, step |-> step]
  BY <1>1 DEF Tasks
<1>4. v \in Tasks
  BY <1>1, <1>2, <1>3 DEF Tasks
<1>5. TaskOK(v)
  BY <1>1, <1>3, <1>4 DEF TaskOK
<1>6. t.kind = "deliver" => Answers(v)
  BY <1>3 DEF Answers, Waiting, Delivers, Become
<1> HIDE DEF v
<1>7. May(v, s)
  BY <1>3, <1>5, <1>6 DEF May
<1> QED  BY <1>7 DEF May, Become, v

(* A session with tasks was started, and its tasks are well formed.         *)
LEMMA Spawned ==
  ASSUME IInv, NEW t \in tasks
  PROVE  session.state # "absent" /\ TaskOK(t)
BY Present, AroundHolds

(* A launch or relaunch got its permit, or gives up.                        *)
LEMMA AdmitStep ==
  ASSUME IInv, NEW t \in tasks, Admit(t)
  PROVE  Preserved
<1> DEFINE s1 == State(session, "suspended", None)
           final == IF t.kind = "relaunch" /\ ~session.closing THEN s1 ELSE session
           P == {session} \cup {final}
<1>1. session.state # "absent"
  BY Spawned
<1>2. Succeeds(session, s1)
  BY Unmoved, MoveFollows, SucceedsFollows DEF States
<1>3. \/ Torn(P, FALSE)
      \/ /\ session' = final /\ Observe(final) /\ UNCHANGED <<mode, sent, restarts>>
         /\ Retire(t) /\ Quiet
      \/ tasks' = Become(t, "admitted") /\ Quiet /\ Same
  BY DEF Admit, Commit
<1> HIDE DEF s1
<1>4. final \in P /\ \A x \in P : Succeeds(session, x)
  BY <1>2, Unmoved
<1> HIDE DEF final
<1>5. CASE tasks' = Become(t, "admitted") /\ Quiet /\ Same
  <2>1. \A u \in tasks' : May(u, session)
    BY <1>5, Becoming DEF Admit, Starts, Steps
  <2>2. Around'
    BY <1>5, Unmoved DEF Same
  <2> QED  BY <1>1, <1>5, <2>1, <2>2, SameStep DEF Same
<1>6. CASE ~(tasks' = Become(t, "admitted") /\ Quiet /\ Same)
  <2>1. Torn(P, FALSE) \/ Ends(final)
    BY <1>3, <1>6, Unmoved DEF Ends, May, Retire
  <2> HIDE DEF P
  <2> QED  BY <1>1, <1>4, <2>1, CommitStep
<1> QED  BY <1>5, <1>6

(* A task is dropped, and nothing else happens.                             *)
LEMMA DroppedStep ==
  ASSUME IInv, NEW t \in tasks, SpawnDropped(t) \/ RelaunchDropped(t)
  PROVE  Preserved
<1>1. session.state # "absent"
  BY Spawned
<1>2. Retire(t) /\ Quiet /\ Same
  BY DEF SpawnDropped, RelaunchDropped
<1>3. Around'
  BY <1>2, Unmoved DEF Same
<1> QED  BY <1>1, <1>2, <1>3, SameStep DEF Same, Retire, May

(* The process could not be spawned.                                        *)
LEMMA SpawnFailsStep ==
  ASSUME IInv, NEW t \in tasks, SpawnFails(t)
  PROVE  Preserved
<1>1. session.state # "absent"
  BY Spawned
<1>2. \A u \in tasks' : May(u, session')
  BY Becoming DEF SpawnFails, Starts, Steps
<1>3. Around'
  BY Unmoved, AroundHolds DEF SpawnFails, Around
<1>4. /\ Follows(session, State(session, "starting", None))
      /\ Elements(State(session, "starting", None).queue) = Elements(session.queue)
  BY Unmoved, MoveFollows DEF States
<1>5. Succeeds(session, session') /\ Elements(session'.queue) = Elements(session.queue)
  BY <1>4, Unmoved, SucceedsFollows DEF SpawnFails
<1>6. session'.receipts = session.receipts
  BY AroundHolds DEF SpawnFails, State, Sessions
<1>7. sent' = sent /\ dropped' = dropped /\ arrived' = arrived
  BY DEF SpawnFails, ghostVars
<1>8. Observe(session')
  BY <1>5, <1>6, <1>7 DEF Observe, New
<1> QED  BY <1>1, <1>2, <1>3, <1>5, <1>7, <1>8, FinalStep

(* The process is spawned and its id recorded; a torn record leaves an      *)
(* orphan.                                                                  *)
LEMMA SpawnStep ==
  ASSUME IInv, NEW t \in tasks, Spawn(t)
  PROVE  Preserved
<1> DEFINE s0 == State(session, "starting", None)
           s1 == IF t.kind = "launch" THEN s0 ELSE session
           s2 == Pid(s1, TRUE)
           id == harness.id + 1
           v == [t EXCEPT !.step = "starting", !.harness = id]
           P == {session, s1} \cup {s2}
           Q == {s1}
<1>1. session.state # "absent" /\ TaskOK(t) /\ t.kind \in {"launch", "relaunch"}
  BY Spawned DEF Spawn, Starts
<1>2. Succeeds(session, s0) /\ Sound(s0)
  BY Unmoved, MoveFollows, SucceedsFollows DEF States
<1>3. \/ Torn(P, FALSE) \/ Torn(Q, TRUE)
      \/ /\ session' = s2 /\ Observe(s2) /\ UNCHANGED <<mode, sent, restarts>>
         /\ harness' = [NoHarness EXCEPT !.id = id, !.live = TRUE]
         /\ orphan' = (orphan \/ harness.live) /\ handle' = id
         /\ events' = <<>> /\ tasks' = (tasks \ {t}) \cup {v}
         /\ UNCHANGED <<ready, releasing, stopping, draining, guard, blocked, faults>>
  BY DEF Spawn, Commit
<1>4. id \in HarnessIds
  BY AroundHolds, SessionAssumption
     DEF Spawn, Around, WorldType, Processes, HarnessIds, SessionAssumption
<1>5. TaskOK(v) /\ v.kind # "deliver"
  <2> HIDE DEF id
  <2>1. t \in Tasks
    BY <1>1 DEF TaskOK
  <2>2. v \in Tasks
    BY <1>4, <2>1 DEF Tasks, Steps
  <2>3. v.kind = t.kind
    BY <2>1 DEF Tasks
  <2> QED  BY <1>1, <2>2, <2>3 DEF TaskOK
<1> HIDE DEF s0, v, id
<1>6. Succeeds(session, s1) /\ Sound(s1)
  BY <1>2, Unmoved
<1> HIDE DEF s1
<1>7. Succeeds(session, s2)
  BY <1>6, FlagsFollow, SucceedsThenFollows
<1> HIDE DEF s2
<1>8. s2 \in P /\ \A x \in P : Succeeds(session, x)
  BY <1>6, <1>7, Unmoved
<1>9. CASE Torn(Q, TRUE)
  <2>1. \A x \in Q : Commits(session, x) /\ (x.state = "absent" => x = session)
    BY <1>1, <1>6, SucceedsCommits DEF Extends
  <2> HIDE DEF Q
  <2> QED  BY <1>9, <2>1, TornStep
<1>10. CASE ~Torn(Q, TRUE)
  <2>1. Torn(P, FALSE) \/ Ends(s2)
    <3>1. CASE ~Torn(P, FALSE)
      <4>1. harness' \in Processes
        BY <1>3, <1>4, <1>10, <3>1, AroundHolds DEF NoHarness, Processes
      <4>2. orphan' \in BOOLEAN
        BY <1>3, <1>10, <3>1, AroundHolds DEF Around, WorldType, Processes
      <4>3. <<>> \in Seq(Events) /\ DOMAIN <<>> = {}
        OBVIOUS
      <4>4. ServiceType' /\ WorldType' /\ EventsOK'
        BY <1>3, <1>4, <1>10, <3>1, <4>1, <4>2, <4>3, AroundHolds
           DEF Around, ServiceType, WorldType, EventsOK
      <4>5. Around'
        BY <1>3, <1>10, <3>1, <4>4, AroundHolds DEF Around
      <4>6. \A u \in tasks' : May(u, s2)
        BY <1>3, <1>5, <1>10, <3>1 DEF May
      <4> QED  BY <1>3, <1>10, <3>1, <4>5, <4>6 DEF Ends
    <3> QED  BY <3>1
  <2> HIDE DEF P
  <2> QED  BY <1>1, <1>8, <2>1, CommitStep
<1> QED  BY <1>9, <1>10

(* The handshake ends.                                                      *)
LEMMA HandshakeStep ==
  ASSUME IInv, NEW t \in tasks, Handshake(t)
  PROVE  Preserved
<1>1. session.state # "absent"
  BY Spawned
<1>2. \A u \in tasks' : May(u, session)
  BY Becoming DEF Handshake, Starts, Steps
<1>3. Around'
  BY Unmoved, AroundHolds DEF Handshake, Same, Around
<1> QED  BY <1>1, <1>2, <1>3, SameStep DEF Handshake, Same

(* The session goes on with its queue, once what led to it is recorded.     *)
LEMMA RunsStep ==
  ASSUME IInv, NEW t \in tasks, NEW partial, NEW now, Succeeds(session, now),
         Elements(now.queue) = Elements(session.queue),
         \A x \in partial : Succeeds(session, x), Runs(t, partial, now)
  PROVE  Preserved
<1> DEFINE a == Advanced(now, handle, TRUE, TRUE)
           new == AdvanceTasks(now, handle, TRUE, TRUE)
           P == (partial \cup {now}) \cup {a}
<1>1. session.state # "absent"
  BY Spawned
<1>2. Commits(session, a) /\ \A u \in new : May(u, a)
  BY AdvanceStep
<1>3. \/ Torn(P, FALSE)
      \/ /\ session' = a /\ Observe(a) /\ UNCHANGED <<mode, sent, restarts>>
         /\ ready' = TRUE /\ tasks' = (tasks \ {t}) \cup new /\ KeepWorld
         /\ UNCHANGED <<handle, releasing, stopping, draining, guard, faults>>
  BY DEF Runs, Commit
<1> HIDE DEF a, new
<1>4. a \in P /\ \A x \in P : Succeeds(session, x) \/ Commits(session, x)
  BY <1>2
<1>5. Torn(P, FALSE) \/ Ends(a)
  <2>1. CASE ~Torn(P, FALSE)
    <3>1. ServiceType'
      BY <1>3, <2>1, AroundHolds DEF Around, ServiceType
    <3>2. Around'
      BY <1>3, <2>1, <3>1, Unmoved, AroundHolds DEF Around
    <3>3. \A u \in tasks' : May(u, a)
      BY <1>2, <1>3, <2>1 DEF May
    <3> QED  BY <1>3, <2>1, <3>2, <3>3 DEF Ends
  <2> QED  BY <2>1
<1> HIDE DEF P
<1> QED  BY <1>1, <1>4, <1>5, CommitStep

(* An error handler asks the harness to exit.                               *)
LEMMA GivingUp ==
  ASSUME IInv, NEW t \in tasks, GiveUp(t), UNCHANGED <<mode, restarts>>
  PROVE  Around' /\ \A u \in tasks' : u \in tasks
BY Asked, Unmoved, AroundHolds DEF GiveUp, Retire, Around

(* A launch that succeeded records the start and goes on with the queue.    *)
LEMMA LaunchReadyStep ==
  ASSUME IInv, NEW t \in tasks, LaunchReady(t)
  PROVE  Preserved
<1> DEFINE s1 == Native(session)
           s2 == State(s1, "idle", None)
           s3 == Finish(s2, Start, "completed")
           s4 == FinishAll(s3, Accepted(Stops), "completed")
           P == {session} \cup {s1}
           Q == {session, s1, s2, s3}
<1>1. session.state # "absent"
  BY Spawned
<1>2. \/ Runs(t, Q, s4) \/ Torn(P, FALSE)
      \/ /\ session' = s1 /\ Observe(s1) /\ UNCHANGED <<mode, sent, restarts>>
         /\ tasks' = Become(t, "error") /\ Quiet
  BY DEF LaunchReady, Commit
<1>3. /\ Succeeds(session, s1) /\ Sound(s1)
      /\ Elements(s1.queue) = Elements(session.queue)
  BY Unmoved, FlagsFollow, SucceedsFollows
<1> HIDE DEF s1
<1>4. /\ Succeeds(session, s2) /\ Sound(s2)
      /\ Elements(s2.queue) = Elements(session.queue)
  BY <1>3, MoveFollows, SucceedsThenFollows DEF States
<1> HIDE DEF s2
<1>5. /\ Succeeds(session, s3) /\ Sound(s3)
      /\ Elements(s3.queue) = Elements(session.queue)
  <2>1. Start \notin Prompts /\ Start \notin Elements(s2.queue)
    BY <1>4, Kinds, SoundFields
  <2> QED  BY <1>4, <2>1, FinishFollows, SucceedsThenFollows DEF EndStates
<1> HIDE DEF s3
<1>6. Succeeds(session, s4) /\ Elements(s4.queue) = Elements(session.queue)
  <2>1. Accepted(Stops) \cap (Prompts \cup Compacts) = {}
    BY Kinds DEF Accepted, Others
  <2> QED  BY <1>5, <2>1, FinishAllFollows, SucceedsThenFollows DEF EndStates
<1> HIDE DEF s4
<1>7. CASE Runs(t, Q, s4)
  <2>1. \A x \in Q : Succeeds(session, x)
    BY <1>3, <1>4, <1>5, Unmoved
  <2> HIDE DEF Q
  <2> QED  BY <1>6, <1>7, <2>1, RunsStep
<1>8. CASE ~Runs(t, Q, s4)
  <2>1. \A u \in Become(t, "error") : May(u, s1)
    BY Becoming DEF LaunchReady, Starts, Steps
  <2>2. Torn(P, FALSE) \/ Ends(s1)
    BY <1>2, <1>8, <2>1, Unmoved DEF Ends
  <2>3. s1 \in P /\ \A x \in P : Succeeds(session, x)
    BY <1>3, Unmoved
  <2> HIDE DEF P
  <2> QED  BY <1>1, <2>2, <2>3, CommitStep
<1> QED  BY <1>7, <1>8

(* A launch that failed fails the queue.                                    *)
LEMMA LaunchErrorStep ==
  ASSUME IInv, NEW t \in tasks, LaunchError(t)
  PROVE  Preserved
<1> DEFINE s1 == Finish(session, Start, "failed")
           s2 == State(s1, "failed", None)
           s3 == FailPending(s2)
           P == ({session, s1} \cup PartlyFailed(s2)) \cup {s3}
<1>1. session.state # "absent"
  BY Spawned
<1>2. \/ Torn(P, FALSE)
      \/ /\ session' = s3 /\ Observe(s3) /\ UNCHANGED <<mode, sent, restarts>> /\ GiveUp(t)
  BY DEF LaunchError, Commit
<1>3. Succeeds(session, s1) /\ Sound(s1)
  BY Kinds, Unmoved, FinishFollows, SucceedsFollows DEF EndStates
<1> HIDE DEF s1
<1>4. Succeeds(session, s2) /\ Sound(s2)
  BY <1>3, MoveFollows, SucceedsThenFollows DEF States
<1> HIDE DEF s2
<1>5. Succeeds(session, s3) /\ \A x \in PartlyFailed(s2) : Succeeds(session, x)
  BY <1>4, FailPendingFollows, SucceedsThenFollows
<1> HIDE DEF s3
<1>6. s3 \in P /\ \A x \in P : Succeeds(session, x)
  BY <1>3, <1>5, Unmoved
<1>7. Torn(P, FALSE) \/ Ends(s3)
  BY <1>2, GivingUp DEF Ends, May
<1> HIDE DEF P
<1> QED  BY <1>1, <1>6, <1>7, CommitStep

(* A relaunch that succeeded goes on with the queue.                        *)
LEMMA RelaunchReadyStep ==
  ASSUME IInv, NEW t \in tasks, RelaunchReady(t)
  PROVE  Preserved
<1> DEFINE s1 == State(session, "idle", None)
           s2 == FinishAll(s1, Accepted(Resumes), "completed")
           s3 == StoragePaused(s2, FALSE)
           Q == {session, s1, s2}
<1>1. session.state # "absent"
  BY Spawned
<1>2. Runs(t, Q, s3) \/ (tasks' = Become(t, "error") /\ Quiet /\ Same)
  BY DEF RelaunchReady
<1>3. /\ Succeeds(session, s1) /\ Sound(s1)
      /\ Elements(s1.queue) = Elements(session.queue)
  BY Unmoved, MoveFollows, SucceedsFollows DEF States
<1> HIDE DEF s1
<1>4. /\ Succeeds(session, s2) /\ Sound(s2)
      /\ Elements(s2.queue) = Elements(session.queue)
  <2>1. Accepted(Resumes) \cap (Prompts \cup Compacts) = {}
    BY Kinds DEF Accepted, Others
  <2> QED  BY <1>3, <2>1, FinishAllFollows, SucceedsThenFollows DEF EndStates
<1> HIDE DEF s2
<1>5. Succeeds(session, s3) /\ Elements(s3.queue) = Elements(session.queue)
  BY <1>4, FlagsFollow, SucceedsThenFollows
<1> HIDE DEF s3
<1>6. CASE Runs(t, Q, s3)
  <2>1. \A x \in Q : Succeeds(session, x)
    BY <1>3, <1>4, Unmoved
  <2> HIDE DEF Q
  <2> QED  BY <1>5, <1>6, <2>1, RunsStep
<1>7. CASE tasks' = Become(t, "error") /\ Quiet /\ Same
  <2>1. \A u \in tasks' : May(u, session)
    BY <1>7, Becoming DEF RelaunchReady, Starts, Steps
  <2>2. Around'
    BY <1>7, Unmoved DEF Same
  <2> QED  BY <1>1, <1>7, <2>1, <2>2, SameStep DEF Same
<1> QED  BY <1>2, <1>6, <1>7

(* A relaunch that timed out keeps the queue; one that failed fails it.     *)
LEMMA RelaunchErrorStep ==
  ASSUME IInv, NEW t \in tasks, RelaunchError(t)
  PROVE  Preserved
<1> DEFINE timeout == t.step = "timeout"
           s1 == Lost(session, IF timeout THEN "startup_timeout" ELSE "resume_failed")
           f1 == FailPending(s1)
           s2 == IF timeout THEN s1 ELSE f1
           s3 == FinishAll(s2, Accepted(Resumes), "failed")
           P == ({session, s2} \cup (IF timeout THEN {} ELSE PartlyFailed(s1))) \cup {s3}
           Q == {} \cup {session}
<1>1. session.state # "absent"
  BY Spawned
<1>2. \/ Torn(P, FALSE) \/ Torn(Q, FALSE)
      \/ /\ session' = s3 /\ Observe(s3) /\ UNCHANGED <<mode, sent, restarts>> /\ GiveUp(t)
      \/ /\ session' = session /\ Observe(session) /\ UNCHANGED <<mode, sent, restarts>>
         /\ GiveUp(t)
  BY DEF RelaunchError, Commit
<1>3. Succeeds(session, s1) /\ Sound(s1)
  BY Unmoved, FlagsFollow, SucceedsFollows
<1> HIDE DEF s1
<1>4. /\ Succeeds(session, f1) /\ Sound(f1)
      /\ \A x \in PartlyFailed(s1) : Succeeds(session, x)
  BY <1>3, FailPendingFollows, SucceedsThenFollows
<1> HIDE DEF f1
<1>5. Succeeds(session, s2) /\ Sound(s2)
  BY <1>3, <1>4
<1> HIDE DEF s2
<1>6. Succeeds(session, s3)
  <2>1. Accepted(Resumes) \cap (Prompts \cup Compacts) = {}
    BY Kinds DEF Accepted, Others
  <2> QED  BY <1>5, <2>1, FinishAllFollows, SucceedsThenFollows DEF EndStates
<1> HIDE DEF s3, timeout
<1>7. /\ s3 \in P /\ \A x \in P : Succeeds(session, x)
      /\ session \in Q /\ \A x \in Q : Succeeds(session, x)
  BY <1>4, <1>5, <1>6, Unmoved
<1>8. Torn(P, FALSE) \/ Torn(Q, FALSE) \/ Ends(s3) \/ Ends(session)
  BY <1>2, GivingUp DEF Ends, May
<1> HIDE DEF P, Q
<1> QED  BY <1>1, <1>7, <1>8, CommitStep

-----------------------------------------------------------------------------
(* Calls and their answers.                                                 *)

(* An event of the harness is added to those not yet recorded.              *)
LEMMA EventAppended ==
  ASSUME IInv, NEW e, EventOK(e), events' = Append(events, e)
  PROVE  events' \in Seq(Events) /\ EventsOK'
<1>1. events \in Seq(Events) /\ e \in Events
  BY AroundHolds DEF Around, WorldType, EventOK
<1>2. /\ Len(events) \in Nat /\ DOMAIN events = 1..Len(events)
      /\ DOMAIN events' = 1..(Len(events) + 1) /\ events'[Len(events) + 1] = e
      /\ \A i \in 1..Len(events) : events'[i] = events[i]
  BY <1>1
<1>3. EventsOK'
  <2>1. \A i \in DOMAIN events : EventOK(events[i])
    BY AroundHolds DEF Around, EventsOK
  <2> QED  BY <1>2, <2>1 DEF EventsOK
<1> QED  BY <1>1, <1>3

(* The call is not taken: it comes back as unknown or refused.              *)
LEMMA NotTakenStep ==
  ASSUME IInv, NEW t \in tasks, t.kind \in {"deliver", "interrupt", "compact"}, KeepRest,
         t.step = "waiting", NEW refuses,
         Unanswered(t) \/ Refused(t, refuses)
  PROVE  Preserved
<1>1. session.state # "absent"
  BY Spawned
<1>2. \A u \in tasks' : May(u, session)
  BY Becoming DEF Unanswered, Refused, Replies
<1>3. ServiceType' /\ WorldType' /\ EventsOK'
  BY Unmoved, AroundHolds DEF KeepRest, Unanswered, Refused, NoEffect, Around, WorldType, EventsOK
<1>4. Around'
  BY <1>3, Unmoved, AroundHolds DEF KeepRest, Unanswered, Refused, Around
<1> QED  BY <1>1, <1>2, <1>4, SameStep DEF KeepRest, Unanswered, Refused, NoEffect, ghostVars

(* An interrupt call reaches the harness, or not.                           *)
LEMMA SendInterruptStep ==
  ASSUME IInv, NEW t \in tasks, SendInterrupt(t)
  PROVE  Preserved
<1>1. t.kind = "interrupt" /\ t.step = "waiting" /\ KeepRest
  BY DEF SendInterrupt, Calls
<1>2. CASE Unanswered(t) \/ Refused(t, harness.turn # t.target)
  BY <1>1, <1>2, NotTakenStep
<1>3. CASE Taken(t, "completed") /\ NoEffect
  <2>1. session.state # "absent"
    BY Spawned
  <2>2. \A u \in tasks' : May(u, session)
    BY <1>1, <1>3, Becoming DEF Taken, Replies
  <2>3. ServiceType' /\ WorldType' /\ EventsOK'
    BY <1>1, <1>3, Unmoved, AroundHolds DEF KeepRest, NoEffect, Around, WorldType, EventsOK
  <2>4. Around'
    BY <1>1, <1>3, <2>3, Unmoved, AroundHolds DEF KeepRest, Taken, Around
  <2> QED  BY <1>1, <1>3, <2>1, <2>2, <2>4, SameStep DEF KeepRest, NoEffect, ghostVars
<1> QED  BY <1>2, <1>3 DEF SendInterrupt

(* A compaction call reaches the harness, or not.                           *)
LEMMA SendCompactStep ==
  ASSUME IInv, NEW t \in tasks, SendCompact(t)
  PROVE  Preserved
<1>1. t.kind = "compact" /\ t.step = "waiting" /\ KeepRest
  BY DEF SendCompact, Calls
<1>2. CASE Unanswered(t) \/ Refused(t, FALSE)
  BY <1>1, <1>2, NotTakenStep
<1>3. CASE /\ Taken(t, "delivered")
           /\ harness' = [harness EXCEPT !.compacting = TRUE] /\ UNCHANGED <<events, sent>>
  <2>1. session.state # "absent"
    BY Spawned
  <2>2. \A u \in tasks' : May(u, session)
    BY <1>1, <1>3, Becoming DEF Taken, Replies
  <2>3. harness' \in Processes
    BY <1>3, AroundHolds DEF Around, WorldType, Processes
  <2>4. ServiceType' /\ WorldType' /\ EventsOK'
    BY <1>1, <1>3, <2>3, Unmoved, AroundHolds DEF KeepRest, Around, WorldType, EventsOK
  <2>5. Around'
    BY <1>1, <1>3, <2>4, Unmoved, AroundHolds DEF KeepRest, Taken, Around
  <2> QED  BY <1>1, <1>3, <2>1, <2>2, <2>5, SameStep DEF KeepRest, ghostVars
<1> QED  BY <1>2, <1>3 DEF SendCompact

(* The harness takes a prompt: the one delivery that waits for it is gone.  *)
LEMMA TakenLedger ==
  ASSUME IInv, NEW t \in Waiting(tasks), NEW step \in Replies \ {"waiting", "failed"},
         tasks' = Become(t, step), sent' = Append(sent, t.request),
         UNCHANGED <<session, dropped>>
  PROVE  LedgerOK'
<1> DEFINE r == t.request
           v == [t EXCEPT !.step = step]
<1>1. t \in tasks /\ t.kind = "deliver" /\ t.step = "waiting" /\ TaskOK(t) /\ r \in Prompts
  BY AroundHolds DEF Waiting, Delivers, TaskOK
<1>2. v.kind = "deliver" /\ v.request = r /\ v.step \notin {"waiting", "failed"}
  BY <1>1 DEF TaskOK, Tasks
<1>3. r \in Requested(tasks) /\ Requested(tasks) \subseteq Known(session)
  BY <1>1 DEF Requested, Delivers, IInv, LedgerOK
<1> HIDE DEF r, v
<1>4. /\ sent \in Seq(Prompts) /\ sent' \in Seq(Prompts)
      /\ Elements(sent') = Elements(sent) \cup {r}
      /\ Distinct(sent) /\ r \notin Elements(sent) => Distinct(sent')
  BY <1>1, AppendFacts DEF IInv, TypeOK, GhostType, r
<1>5. r \notin Elements(sent) \cup dropped \cup session.cancelled
  BY DEF IInv, LedgerOK, r
<1>6. Requested(tasks') \subseteq Requested(tasks)
  BY <1>2, <1>3 DEF Become, Requested, Delivers, v
<1>7. \A u \in Waiting(tasks') : u \in Waiting(tasks) /\ u # t
  BY <1>2 DEF Become, Waiting, Delivers, v
<1>8. \A u \in Delivers(tasks') : (u \in Delivers(tasks) /\ u.request # r) \/ u = v
  <2>1. \A u \in tasks' : (u \in tasks /\ u # t) \/ u = v
    BY DEF Become, v
  <2>2. \A u \in Delivers(tasks) : u.request = r => u = t
    BY <1>1 DEF IInv, LedgerOK, r, Delivers
  <2> QED  BY <2>1, <2>2 DEF Delivers
<1>9. AtMostOnce'
  BY <1>4, <1>5 DEF IInv, LedgerOK, AtMostOnce, Distinct
<1>10. /\ Sound(session')
       /\ Elements(sent') \cup dropped' \cup Requested(tasks') \subseteq Known(session')
  BY <1>3, <1>4, <1>6 DEF IInv, LedgerOK
<1>11. /\ Elements(session'.queue) \cap (Elements(sent') \cup dropped' \cup Requested(tasks')) = {}
       /\ (dropped' \cup session'.cancelled) \cap Elements(sent') = {}
  BY <1>3, <1>4, <1>5, <1>6 DEF IInv, LedgerOK
<1>12. /\ \A u \in Waiting(tasks') : u.request \notin Elements(sent') \cup dropped' \cup session'.cancelled
       /\ \A u, w \in Delivers(tasks') : u.request = w.request => u = w
       /\ \A u \in Delivers(tasks') : u.step = "failed" => u.request \notin Elements(sent')
  <2>1. \A u \in Waiting(tasks') : u.request # r
    BY <1>2, <1>7, <1>8 DEF Waiting
  <2> QED  BY <1>2, <1>4, <1>7, <1>8, <2>1 DEF IInv, LedgerOK
<1> QED  BY <1>9, <1>10, <1>11, <1>12 DEF LedgerOK

(* It changes nothing of their order.                                       *)
LEMMA TakenOrder ==
  ASSUME IInv, NEW t \in Waiting(tasks), NEW step \in Replies \ {"waiting"},
         tasks' = Become(t, step), sent' = Append(sent, t.request),
         UNCHANGED <<session, arrived>>
  PROVE  OrderOK' /\ Handed
<1> DEFINE v == [t EXCEPT !.step = step]
<1>1. t \in tasks /\ t.kind = "deliver" /\ TaskOK(t) /\ t.request \in Prompts
  BY AroundHolds DEF Waiting, Delivers, TaskOK
<1>2. v.step # "waiting"
  BY <1>1 DEF TaskOK, Tasks
<1> HIDE DEF v
<1>3. \A u \in Waiting(tasks') : u \in Waiting(tasks)
  BY <1>2 DEF Become, Waiting, Delivers, v
<1>4. Elements(sent') = Elements(sent) \cup {t.request}
  BY <1>1, AppendFacts DEF IInv, TypeOK, GhostType
<1>5. Leaving' \subseteq Leaving
  BY <1>3, <1>4 DEF Leaving
<1>6. Handed
  BY <1>3 DEF Handed, Within, Waiting, Delivers
<1> QED  BY <1>5, <1>6 DEF IInv, OrderOK

(* A delivery reaches the harness, or not.                                  *)
LEMMA SendPromptStep ==
  ASSUME IInv, NEW t \in tasks, SendPrompt(t)
  PROVE  Preserved
<1>1. t.kind = "deliver" /\ KeepRest /\ t \in Waiting(tasks)
  BY DEF SendPrompt, Calls, Waiting, Delivers
<1>2. CASE Unanswered(t) \/ Refused(t, harness.turn # None)
  BY <1>1, <1>2, NotTakenStep DEF Waiting
<1>3. CASE /\ harness.turn = None /\ Taken(t, "delivered")
           /\ harness' = [harness EXCEPT !.turn = t.request]
           /\ events' = Append(events, Event("started", t.request, ""))
           /\ sent' = Append(sent, t.request)
  <2>1. session.state # "absent" /\ TaskOK(t) /\ t.request \in Prompts
    BY <1>1, Spawned DEF TaskOK
  <2>2. \E step \in Replies \ {"waiting", "failed"} : tasks' = Become(t, step)
    BY <1>3 DEF Taken, Replies
  <2>3. \A u \in tasks' : May(u, session)
    BY <1>1, <2>2, Becoming DEF Waiting
  <2>4. TasksOK' /\ tasks' \subseteq Tasks
    BY <2>3, AroundHolds DEF May, TasksOK, TaskOK
  <2>5. UNCHANGED <<session, dropped, arrived>>
    BY <1>1 DEF KeepRest
  <2>6. LedgerOK' /\ OrderOK' /\ Handed
    BY <1>1, <1>3, <2>2, <2>5, TakenLedger, TakenOrder
  <2>7. harness' \in Processes
    BY <1>3, <2>1, AroundHolds DEF Around, WorldType, Processes
  <2>8. EventOK(Event("started", t.request, ""))
    <3>1. harness.id \in HarnessIds
      BY AroundHolds DEF Around, WorldType, Processes
    <3> QED  BY <2>1, <3>1 DEF EventOK, Event, Events
  <2>9. events' \in Seq(Events) /\ EventsOK'
    BY <1>3, <2>8, EventAppended
  <2>10. ServiceType' /\ WorldType'
    BY <1>1, <2>7, <2>9, Unmoved, AroundHolds DEF KeepRest, Around, WorldType
  <2>11. sent' \in Seq(Prompts)
    <3>1. sent \in Seq(Prompts)
      BY DEF IInv, TypeOK, GhostType
    <3> QED  BY <1>3, <2>1, <3>1, AppendFacts
  <2>12. GhostType'
    BY <2>5, <2>11 DEF IInv, TypeOK, GhostType
  <2>13. faults' \in 0..MaxFaults
    BY <1>3, Unmoved DEF Taken
  <2>14. TypeOK'
    BY <1>1, <2>4, <2>5, <2>10, <2>12, <2>13 DEF IInv, TypeOK, KeepRest
  <2>15. AbsentOK'
    BY <2>1, <2>5 DEF AbsentOK
  <2>16. Kept(session, session')
    BY <2>5 DEF Kept
  <2>17. Promised
    <3>1. /\ t.request \in Claimed \ Elements(sent)
          /\ Elements(sent') = Elements(sent) \cup {t.request}
      <4>1. t.request \in Requested(tasks) /\ sent \in Seq(Prompts)
        BY <1>1 DEF Waiting, Requested, IInv, TypeOK, GhostType
      <4>2. t.request \in Known(session) \ Elements(session.queue)
        BY <4>1 DEF IInv, LedgerOK
      <4>3. t.request \notin Elements(sent) \cup dropped
        BY <1>1 DEF IInv, LedgerOK
      <4> QED  BY <1>3, <2>1, <4>1, <4>2, <4>3, AppendFacts DEF Claimed, Known
    <3>2. UNCHANGED <<session.queue, Claimed, dropped>>
      BY <2>5 DEF Claimed
    <3>3. Ledger!Run(t.request)
      BY <3>1, <3>2 DEF Ledger!Run
    <3> QED  BY <2>1, <3>3 DEF Promised, Ledger!Next
  <2> QED  BY <2>4, <2>6, <2>9, <2>14, <2>15, <2>16, <2>17 DEF IInv, Preserved
<1> QED  BY <1>2, <1>3 DEF SendPrompt

(* The answer is recorded under the lock, and may let the queue move.       *)
LEMMA RecordReplyStep ==
  ASSUME IInv, NEW t \in tasks, RecordReply(t)
  PROVE  Preserved
<1> DEFINE s1 == Finish(session, t.request, t.step)
           ended == t.kind = "deliver"
           a == Advanced(s1, handle, ready, ended)
           new == AdvanceTasks(s1, handle, ready, ended)
           P == {session} \cup {s1}
           Q == {session, s1} \cup {a}
<1>1. /\ session.state # "absent" /\ TaskOK(t) /\ t.step \in Replies \ {"waiting"}
      /\ t.kind \in {"deliver", "interrupt", "compact"}
  BY Spawned DEF RecordReply, TaskOK
<1>2. \/ Torn(P, FALSE) \/ Torn(Q, FALSE)
      \/ Retire(t) /\ Quiet /\ Same
      \/ /\ session' = s1 /\ Observe(s1) /\ UNCHANGED <<mode, sent, restarts>>
         /\ Retire(t) /\ Quiet
      \/ /\ session' = a /\ Observe(a) /\ UNCHANGED <<mode, sent, restarts>>
         /\ tasks' = (tasks \ {t}) \cup new /\ Quiet
  BY DEF RecordReply, Commit
<1>3. /\ t.request \notin Elements(session.queue)
      /\ t.request \in Prompts => t.request \in Known(session)
  <2>1. CASE t.kind = "deliver"
    <3>1. t.request \in Requested(tasks)
      BY <2>1 DEF Requested, Delivers
    <3> QED  BY <3>1 DEF IInv, LedgerOK
  <2>2. CASE t.kind # "deliver"
    <3>1. t.request \in Interrupts \cup Stops \cup Compacts
      BY <1>1, <2>2 DEF TaskOK
    <3>2. t.request \notin Prompts
      BY <3>1, Kinds DEF Others
    <3> QED  BY <3>2, Unmoved, SoundFields
  <2> QED  BY <2>1, <2>2
<1>4. Succeeds(session, s1) /\ Elements(s1.queue) = Elements(session.queue)
  <2>1. t.step \in EndStates \cup {"delivered"}
    BY <1>1 DEF Replies, EndStates
  <2> QED  BY <1>3, <2>1, Unmoved, FinishFollows, SucceedsFollows
<1> HIDE DEF s1, ended
<1>5. Commits(session, a) /\ \A u \in new : May(u, a)
  BY <1>4, AdvanceStep
<1> HIDE DEF a, new
<1>6. CASE Retire(t) /\ Quiet /\ Same
  <2>1. Around'
    BY <1>6, Unmoved DEF Same
  <2> QED  BY <1>1, <1>6, <2>1, SameStep DEF Same, Retire, May
<1>7. CASE ~(Retire(t) /\ Quiet /\ Same)
  <2>1. /\ s1 \in P /\ \A x \in P : Succeeds(session, x)
        /\ a \in Q /\ \A x \in Q : Succeeds(session, x) \/ Commits(session, x)
    BY <1>4, <1>5, Unmoved
  <2>2. Torn(P, FALSE) \/ Torn(Q, FALSE) \/ Ends(s1) \/ Ends(a)
    BY <1>2, <1>5, <1>7, Unmoved DEF Ends, Retire, May
  <2> HIDE DEF P, Q
  <2> QED  BY <1>1, <2>1, <2>2, CommitStep
<1> QED  BY <1>6, <1>7

(* The second critical section of a resume.                                 *)
LEMMA AdvanceLaterStep ==
  ASSUME IInv, NEW t \in tasks, AdvanceLater(t)
  PROVE  Preserved
<1> DEFINE a == Advanced(session, handle, ready, FALSE)
           new == AdvanceTasks(session, handle, ready, FALSE)
           P == {session} \cup {a}
<1>1. session.state # "absent"
  BY Spawned
<1>2. \/ Torn(P, FALSE)
      \/ /\ session' = a /\ Observe(a) /\ UNCHANGED <<mode, sent, restarts>>
         /\ tasks' = (tasks \ {t}) \cup new /\ Quiet
  BY DEF AdvanceLater, Commit
<1>3. Commits(session, a) /\ \A u \in new : May(u, a)
  BY Unmoved, AdvanceStep
<1> HIDE DEF a, new
<1>4. a \in P /\ \A x \in P : Succeeds(session, x) \/ Commits(session, x)
  BY <1>3, Unmoved
<1>5. Torn(P, FALSE) \/ Ends(a)
  BY <1>2, <1>3, Unmoved DEF Ends, May
<1> HIDE DEF P
<1> QED  BY <1>1, <1>4, <1>5, CommitStep

-----------------------------------------------------------------------------
(* The harness process.                                                     *)

(* A process that emits an event.                                           *)
LEMMA EmitStep ==
  ASSUME IInv, KeepAll, harness.live, harness' \in Processes, orphan' \in BOOLEAN,
         faults' \in 0..MaxFaults, NEW e, EventOK(e), Emit(e)
  PROVE  Preserved
<1>1. session.state # "absent"
  BY Present
<1>2. events' \in Seq(Events) /\ EventsOK'
  BY EventAppended DEF Emit
<1>3. ServiceType' /\ WorldType'
  BY <1>2, Unmoved, AroundHolds DEF KeepAll, Around, WorldType
<1>4. Around'
  BY <1>2, <1>3, AroundHolds DEF KeepAll, Same, Around
<1> QED  BY <1>1, <1>4, SameStep DEF KeepAll, Same, May

(* Background jobs change no more than what the count of processes shows.   *)
LEMMA ForkStep ==
  ASSUME IInv, HarnessForks
  PROVE  /\ harness.live /\ harness' \in Processes
         /\ harness'.id = harness.id /\ harness'.live = harness.live
         /\ harness'.turn = harness.turn /\ harness'.compacting = harness.compacting
         /\ UNCHANGED <<session, ghostVars, restarts, mode, tasks, blocked>>
         /\ KeepService /\ UNCHANGED <<orphan, events, faults>>
<1>1. harness \in Processes /\ harness.jobs \in BOOLEAN
  BY AroundHolds DEF Around, WorldType, Processes
<1>2. harness.live
  BY DEF HarnessForks, Running
<1>3. harness' = [harness EXCEPT !.jobs = ~@]
  BY DEF HarnessForks
<1>4. (~harness.jobs) \in BOOLEAN
  BY <1>1
<1>5. /\ harness' \in Processes
      /\ harness'.id = harness.id /\ harness'.live = harness.live
      /\ harness'.turn = harness.turn /\ harness'.compacting = harness.compacting
  BY <1>1, <1>3, <1>4 DEF Processes
<1>6. /\ UNCHANGED <<session, ghostVars, restarts, mode, tasks, blocked>>
      /\ KeepService /\ UNCHANGED <<orphan, events, faults>>
  BY DEF HarnessForks, KeepAll, Same
<1> QED  BY <1>2, <1>5, <1>6

(* The harness finishes a turn or a compaction, runs jobs, exits or crashes. *)
LEMMA HarnessStep ==
  ASSUME IInv, Harness
  PROVE  Preserved
<1>1. harness \in Processes /\ orphan \in BOOLEAN
  BY AroundHolds DEF Around, WorldType
<1>2. [NoHarness EXCEPT !.id = harness.id] \in Processes
  BY <1>1 DEF NoHarness, Processes
<1>3. harness.id \in HarnessIds /\ harness.live \in BOOLEAN
  BY <1>1 DEF Processes
<1>4. CASE HarnessFinishes
  <2>1. PICK status \in {"completed", "interrupted", "failed"} :
          Emit(Event("finished", harness.turn, status))
    BY <1>4 DEF HarnessFinishes
  <2>2. EventOK(Event("finished", harness.turn, status))
    BY <1>1, <1>3, <1>4 DEF HarnessFinishes, EventOK, Event, Events, Processes
  <2>3. /\ harness' \in Processes /\ orphan' \in BOOLEAN /\ faults' \in 0..MaxFaults
        /\ KeepAll /\ harness.live
    BY <1>1, <1>4, Unmoved DEF HarnessFinishes, Processes, Acts
  <2> QED  BY <2>1, <2>2, <2>3, EmitStep
<1>5. CASE HarnessCompacts
  <2>1. PICK status \in {"completed", "failed"} : Emit(Event("compacted", None, status))
    BY <1>5 DEF HarnessCompacts
  <2>2. EventOK(Event("compacted", None, status))
    BY <1>3 DEF EventOK, Event, Events
  <2>3. /\ harness' \in Processes /\ orphan' \in BOOLEAN /\ faults' \in 0..MaxFaults
        /\ KeepAll /\ harness.live
    BY <1>1, <1>5, Unmoved DEF HarnessCompacts, Processes, Acts
  <2> QED  BY <2>1, <2>2, <2>3, EmitStep
<1>6. ASSUME NEW expected \in BOOLEAN, NEW cleaned \in BOOLEAN, Exit(expected, cleaned),
             faults' \in 0..MaxFaults
      PROVE  Preserved
  <2> DEFINE e == [Event("exited", None, IF expected THEN "expected" ELSE "unexpected")
                     EXCEPT !.cleaned = cleaned]
  <2>1. EventOK(e)
    BY <1>3 DEF EventOK, Event, Events
  <2>2. Emit(e) /\ harness' \in Processes /\ orphan' \in BOOLEAN /\ KeepAll /\ harness.live
    BY <1>1, <1>2, <1>6 DEF Exit
  <2> HIDE DEF e
  <2> QED  BY <1>6, <2>1, <2>2, EmitStep
<1>7. CASE HarnessExits
  <2>1. (~harness.frozen) \in BOOLEAN
    BY <1>1 DEF Processes
  <2> QED  BY <1>6, <1>7, <2>1, Unmoved DEF HarnessExits
<1>8. CASE HarnessCrashes
  BY <1>6, <1>8, Unmoved DEF HarnessCrashes
<1>9. CASE HarnessForks
  <2>1. session.state # "absent" /\ \A u \in tasks' : May(u, session)
    BY <1>9, ForkStep, Present DEF May
  <2>2. ServiceType' /\ WorldType' /\ EventsOK'
    BY <1>9, ForkStep, Unmoved, AroundHolds DEF Around, WorldType, EventsOK
  <2>3. Around'
    BY <1>9, <2>2, ForkStep, AroundHolds DEF Around
  <2> QED  BY <1>9, <2>1, <2>3, ForkStep, SameStep
<1> QED  BY <1>4, <1>5, <1>7, <1>8, <1>9 DEF Harness

-----------------------------------------------------------------------------
(* record_native.                                                           *)

(* The front of the events is well formed, and comes from a started         *)
(* session.                                                                 *)
LEMMA FrontOK ==
  ASSUME IInv, events # <<>>
  PROVE  EventOK(Front) /\ session.state # "absent"
<1>1. events \in Seq(Events) /\ \A i \in DOMAIN events : EventOK(events[i])
  BY AroundHolds DEF Around, WorldType, EventsOK
<1>2. Head(events) = events[1] /\ 1 \in DOMAIN events
  BY <1>1
<1> QED  BY <1>1, <1>2, Present DEF Front

(* The front of the events is taken off.                                    *)
LEMMA Heeding ==
  ASSUME IInv, events # <<>>, Heed
  PROVE  WorldType' /\ EventsOK' /\ faults' \in 0..MaxFaults
<1>1. events \in Seq(Events) /\ \A i \in DOMAIN events : EventOK(events[i])
  BY AroundHolds DEF Around, WorldType, EventsOK
<1>2. /\ Tail(events) \in Seq(Events)
      /\ \A i \in DOMAIN Tail(events) : i + 1 \in DOMAIN events /\ Tail(events)[i] = events[i + 1]
  BY <1>1
<1>3. EventsOK'
  BY <1>1, <1>2 DEF Heed, EventsOK
<1>4. WorldType'
  BY <1>2, AroundHolds DEF Heed, Around, WorldType
<1> QED  BY <1>3, <1>4, Unmoved DEF Heed

(* Letting go of the handle leaves the service typed.                       *)
LEMMA LettingGo ==
  ASSUME IInv, LetGo
  PROVE  Heed /\ ServiceType'
BY Idle, AroundHolds DEF LetGo, Around, ServiceType

(* The start of a turn is recorded.                                         *)
LEMMA RecordStartedStep ==
  ASSUME IInv, RecordStarted
  PROVE  Preserved
<1> DEFINE st == IF session.closing THEN "closing" ELSE "running"
           s1 == State(session, st, Front.request)
           final == IF ready /\ session.current = Front.request THEN s1 ELSE session
           P == {session} \cup {final}
<1>1. session.state # "absent"
  BY Present DEF RecordStarted, Records
<1>2. session.current = Front.request => Succeeds(session, s1)
  <2>1. st \in States \ {"absent", "starting_turn"} /\ st # "idle"
    BY DEF States
  <2> HIDE DEF st
  <2> QED  BY <2>1, Unmoved, MoveFollows, SucceedsFollows
<1>3. \/ Torn(P, FALSE)
      \/ /\ session' = final /\ Observe(final) /\ UNCHANGED <<mode, sent, restarts>>
         /\ UNCHANGED tasks /\ KeepService /\ Heed
  BY DEF RecordStarted, Commit
<1>4. final \in P /\ \A x \in P : Succeeds(session, x)
  BY <1>2, Unmoved
<1> HIDE DEF final
<1>5. Torn(P, FALSE) \/ Ends(final)
  BY <1>3, Unmoved, Heeding, AroundHolds DEF Ends, May, Around, RecordStarted, Records
<1> HIDE DEF P
<1> QED  BY <1>1, <1>4, <1>5, CommitStep

(* The end of a turn or of a compaction is recorded, and the queue moves.   *)
LEMMA EndedStep ==
  ASSUME IInv, events # <<>>, NEW s1, Succeeds(session, s1),
         Elements(s1.queue) = Elements(session.queue), NEW ended \in BOOLEAN,
         Commit({session, s1}, Advanced(s1, handle, ready, ended),
                /\ tasks' = tasks \cup AdvanceTasks(s1, handle, ready, ended)
                /\ KeepService /\ Heed)
  PROVE  Preserved
<1> DEFINE a == Advanced(s1, handle, ready, ended)
           new == AdvanceTasks(s1, handle, ready, ended)
           P == {session, s1} \cup {a}
<1>1. session.state # "absent"
  BY Present
<1>2. Commits(session, a) /\ \A u \in new : May(u, a)
  BY AdvanceStep
<1>3. \/ Torn(P, FALSE)
      \/ /\ session' = a /\ Observe(a) /\ UNCHANGED <<mode, sent, restarts>>
         /\ tasks' = tasks \cup new /\ KeepService /\ Heed
  BY DEF Commit
<1> HIDE DEF a, new
<1>4. a \in P /\ \A x \in P : Succeeds(session, x) \/ Commits(session, x)
  BY <1>2, Unmoved
<1>5. Torn(P, FALSE) \/ Ends(a)
  BY <1>2, <1>3, Unmoved, Heeding, AroundHolds DEF Ends, May, Around
<1> HIDE DEF P
<1> QED  BY <1>1, <1>4, <1>5, CommitStep

(* An event that changes nothing is taken off.                              *)
LEMMA HeedStep ==
  ASSUME IInv, events # <<>>, KeepService, Heed, Same, UNCHANGED tasks
  PROVE  Preserved
<1>1. Around'
  BY Unmoved, Heeding, AroundHolds DEF Same, Around
<1> QED  BY <1>1, Present, SameStep DEF Same, May

(* The end of a turn is recorded, and the queue moves.                      *)
LEMMA RecordFinishedStep ==
  ASSUME IInv, RecordFinished
  PROVE  Preserved
<1> DEFINE s1 == Finish(session, Front.request, Front.status)
<1>1. events # <<>> /\ Front.kind = "finished"
  BY DEF RecordFinished, Records
<1>2. CASE session.current = Front.request
  <2>1. Commit({session, s1}, Advanced(s1, handle, ready, TRUE),
               /\ tasks' = tasks \cup AdvanceTasks(s1, handle, ready, TRUE)
               /\ KeepService /\ Heed)
    BY <1>2 DEF RecordFinished
  <2>2. Front.status \in EndStates \cup {"delivered"}
    BY <1>1, FrontOK DEF EventOK, EndStates
  <2>3. Succeeds(session, s1) /\ Elements(s1.queue) = Elements(session.queue)
    <3>1. /\ Front.request \notin Elements(session.queue)
          /\ Front.request \in Prompts => Front.request \in Known(session)
      BY <1>2, Unmoved, RequestsAssumption DEF Sound, RequestsAssumption, Requests
    <3> QED  BY <2>2, <3>1, Unmoved, FinishFollows, SucceedsFollows
  <2> HIDE DEF s1
  <2> QED  BY <1>1, <2>1, <2>3, EndedStep
<1>3. CASE session.current # Front.request
  BY <1>1, <1>3, HeedStep DEF RecordFinished
<1> QED  BY <1>2, <1>3

(* The end of a compaction is recorded, and the queue moves.                *)
LEMMA RecordCompactedStep ==
  ASSUME IInv, RecordCompacted
  PROVE  Preserved
<1> DEFINE r == Compacting(session)
           s1 == Finish(session, r, Front.status)
<1>1. events # <<>> /\ Front.kind = "compacted"
  BY DEF RecordCompacted, Records
<1>2. CASE session.compact
  <2>1. Commit({session, s1}, Advanced(s1, handle, ready, FALSE),
               /\ tasks' = tasks \cup AdvanceTasks(s1, handle, ready, FALSE)
               /\ KeepService /\ Heed)
    BY <1>2 DEF RecordCompacted
  <2>2. Front.status \in EndStates /\ Front.status # "delivered"
    BY <1>1, FrontOK DEF EventOK, EndStates
  <2>3. Succeeds(session, s1) /\ Elements(s1.queue) = Elements(session.queue)
    <3>1. r \in Compacts
      BY <1>2, Unmoved DEF Compacting, Sound
    <3>2. r \notin Prompts /\ r \notin Elements(session.queue)
      BY <3>1, Kinds, Unmoved, SoundFields DEF Others
    <3> HIDE DEF r
    <3> QED  BY <2>2, <3>2, Unmoved, FinishFollows, SucceedsFollows
  <2> HIDE DEF s1
  <2> QED  BY <1>1, <2>1, <2>3, EndedStep
<1>3. CASE ~session.compact
  BY <1>1, <1>3, HeedStep DEF RecordCompacted
<1> QED  BY <1>2, <1>3

(* Recorded exits: the session lets go of its handle and may start again.   *)
LEMMA LetGoEnds ==
  ASSUME IInv, events # <<>>, LetGo, NEW final, session' = final, Observe(final),
         UNCHANGED <<mode, sent, restarts>>, NEW ts \in SUBSET {Relaunch},
         tasks' = tasks \cup ts
  PROVE  Ends(final)
<1>1. Around'
  BY LettingGo, Heeding, AroundHolds DEF Around
<1>2. \A u \in tasks' : May(u, final)
  BY TaskTypes DEF May
<1> QED  BY <1>1, <1>2 DEF Ends

(* The harness of a sleeping session has exited.                            *)
LEMMA RecordSleptStep ==
  ASSUME IInv, RecordSlept
  PROVE  Preserved
<1> DEFINE s1 == Pid(session, FALSE)
           s2 == State(s1, "sleeping", None)
           s3 == FinishAll(s2, Accepted(Sleeps), "completed")
           s4 == State(s3, "resuming", None)
           final == IF Wakes(s3, 0) THEN s4 ELSE s3
           ts == IF Wakes(s3, 0) THEN {Relaunch} ELSE {}
           P == {session, s1, s2, s3} \cup {final}
<1>1. events # <<>> /\ session.state # "absent"
  BY Present DEF RecordSlept, Records
<1>2. \/ Torn(P, FALSE)
      \/ /\ session' = final /\ Observe(final) /\ UNCHANGED <<mode, sent, restarts>>
         /\ tasks' = tasks \cup ts /\ LetGo
  BY DEF RecordSlept, Commit
<1>3. Succeeds(session, s1) /\ Sound(s1)
  BY Unmoved, FlagsFollow, SucceedsFollows
<1> HIDE DEF s1
<1>4. Succeeds(session, s2) /\ Sound(s2)
  BY <1>3, MoveFollows, SucceedsThenFollows DEF States
<1> HIDE DEF s2
<1>5. Succeeds(session, s3) /\ Sound(s3)
  <2>1. Accepted(Sleeps) \cap (Prompts \cup Compacts) = {}
    BY Kinds DEF Accepted, Others
  <2> QED  BY <1>4, <2>1, FinishAllFollows, SucceedsThenFollows DEF EndStates
<1> HIDE DEF s3
<1>6. Succeeds(session, s4)
  BY <1>5, MoveFollows, SucceedsThenFollows DEF States
<1> HIDE DEF s4
<1>7. final \in P /\ (\A x \in P : Succeeds(session, x)) /\ ts \in SUBSET {Relaunch}
  BY <1>3, <1>4, <1>5, <1>6, Unmoved
<1> HIDE DEF final, ts
<1>8. Torn(P, FALSE) \/ Ends(final)
  BY <1>1, <1>2, <1>7, LetGoEnds
<1> HIDE DEF P
<1> QED  BY <1>1, <1>7, <1>8, CommitStep

(* Any other exit: the turn is unknown, and the session recovers,           *)
(* suspends, or is lost with its queue.                                     *)
LEMMA RecordExitedStep ==
  ASSUME IInv, RecordExited
  PROVE  Preserved
<1> DEFINE expected  == Front.status = "expected"
           restoring == session.state = "resuming" /\ session.native
           resumable == /\ Front.cleaned
                        /\ \/ ready /\ CanResume(session)
                           \/ stopping /\ restoring
           recover   == resumable /\ ~stopping /\ ~session.recovery
           asked     == {r \in Interrupts \cup Stops :
                           session.receipts[r] \in {"accepted", "delivered", "unknown"}}
           state == IF expected /\ session.closing THEN "closed"
                    ELSE IF resumable /\ (stopping \/ recover) THEN "suspended"
                    ELSE "process_lost"
           gone  == IF Gone THEN "unknown" ELSE "unknown_after_restart"
           ended == Finish(session, session.current, gone)
           s1 == IF session.current = None THEN session ELSE ended
           s2 == FinishAll(s1, asked, "unknown_after_restart")
           s3 == IF Front.cleaned THEN Pid(s2, FALSE) ELSE s2
           s4 == State(s3, state, None)
           closed == IF expected THEN "completed" ELSE "unknown"
           s5 == IF session.closing THEN Finish(s4, CloseRequest(s4), closed) ELSE s4
           fails == state # "suspended" /\ session.startup # "startup_timeout"
           s6 == IF fails THEN FailPending(s5) ELSE s5
           partly == IF fails THEN PartlyFailed(s5) ELSE {}
           s7 == State(s6, "resuming", None)
           final == IF recover THEN s7 ELSE s6
           ts == IF recover THEN {Relaunch} ELSE {}
           P == ({session, s1, s2, s3, s4, s6} \cup partly) \cup {final}
<1>1. events # <<>> /\ session.state # "absent"
  BY Present DEF RecordExited, Records
<1>2. \/ Torn(P, FALSE)
      \/ /\ session' = final /\ Observe(final) /\ UNCHANGED <<mode, sent, restarts>>
         /\ tasks' = tasks \cup ts /\ LetGo
  BY DEF RecordExited, Commit
<1>3. /\ state \in States \ {"absent", "starting_turn"} /\ gone \in EndStates
      /\ closed \in EndStates /\ gone # "delivered" /\ closed # "delivered"
      /\ asked \cap (Prompts \cup Compacts) = {}
  BY Kinds DEF States, EndStates, Others
<1> HIDE DEF state, gone, closed, asked
<1>4. session.current # None => Succeeds(session, ended) /\ Sound(ended)
  <2>1. session.current # None => session.current \in Known(session)
    BY Unmoved DEF Sound
  <2> QED  BY <1>3, <2>1, Unmoved, FinishFollows, SucceedsFollows
<1> HIDE DEF ended
<1>5. Succeeds(session, s1) /\ Sound(s1)
  BY <1>4, Unmoved
<1> HIDE DEF s1
<1>6. Succeeds(session, s2) /\ Sound(s2)
  BY <1>3, <1>5, FinishAllFollows, SucceedsThenFollows DEF EndStates
<1> HIDE DEF s2
<1>7. Succeeds(session, s3) /\ Sound(s3)
  BY <1>6, FlagsFollow, SucceedsThenFollows
<1> HIDE DEF s3
<1>8. Succeeds(session, s4) /\ Sound(s4)
  BY <1>3, <1>7, MoveFollows, SucceedsThenFollows
<1> HIDE DEF s4
<1>9. Succeeds(session, s5) /\ Sound(s5)
  <2> DEFINE r == CloseRequest(s4)
             t == Finish(s4, r, closed)
  <2>1. session.closing => r \notin Prompts
    <3>1. session.closing => \E k \in Closes : s4.receipts[k] # "none"
      BY <1>8, Unmoved DEF Sound, Succeeds, Extends, Kept, Requests
    <3>2. session.closing => r \in Closes
      BY <3>1 DEF CloseRequest
    <3> QED  BY <3>2, Kinds DEF Others
  <2> HIDE DEF r
  <2>2. session.closing => Succeeds(session, t) /\ Sound(t)
    BY <1>3, <1>8, <2>1, FinishFollows, SucceedsThenFollows
  <2> HIDE DEF t
  <2>3. s5 = IF session.closing THEN t ELSE s4
    BY DEF t, r
  <2> QED  BY <1>8, <2>2, <2>3
<1> HIDE DEF s5, fails
<1>10. Succeeds(session, s6) /\ Sound(s6) /\ \A x \in partly : Succeeds(session, x)
  BY <1>9, FailPendingFollows, SucceedsThenFollows
<1> HIDE DEF s6, partly
<1>11. Succeeds(session, s7)
  BY <1>10, MoveFollows, SucceedsThenFollows DEF States
<1> HIDE DEF s7, recover
<1>12. final \in P /\ (\A x \in P : Succeeds(session, x)) /\ ts \in SUBSET {Relaunch}
  BY <1>5, <1>6, <1>7, <1>8, <1>10, <1>11, Unmoved
<1> HIDE DEF final, ts
<1>13. Torn(P, FALSE) \/ Ends(final)
  BY <1>1, <1>2, <1>12, LetGoEnds
<1> HIDE DEF P
<1> QED  BY <1>1, <1>12, <1>13, CommitStep

-----------------------------------------------------------------------------
(* The storage guard, and ends of the service.                              *)

(* Steps after which the session, the tasks and the harness are as before.  *)
LEMMA LookStep ==
  ASSUME IInv, SampleExpires \/ GuardLooks
  PROVE  Preserved
<1>1. guard' \in Guards
  <2>1. CASE SampleExpires
    BY <2>1, AroundHolds DEF SampleExpires, KeepService, Around, ServiceType
  <2>2. CASE GuardLooks
    <3>1. PICK low \in BOOLEAN :
            guard' = IF handle = 0 \/ ~(low \/ guard.was) THEN Watching(low)
                     ELSE [phase |-> IF low THEN "pausing" ELSE "thawing",
                           harness |-> handle, was |-> TRUE]
      BY <2>2 DEF GuardLooks, Samples
    <3>2. Watching(low) \in Guards /\ handle \in HarnessIds
      BY Idle, AroundHolds DEF Around, ServiceType
    <3> QED  BY <3>1, <3>2 DEF Guards
  <2> QED  BY <2>1, <2>2
<1>2. blocked' \in BOOLEAN
  BY DEF SampleExpires, GuardLooks, Samples
<1>3. ServiceType' /\ WorldType' /\ EventsOK'
  BY <1>1, <1>2, AroundHolds
     DEF Around, ServiceType, WorldType, EventsOK, SampleExpires, GuardLooks, KeepService
<1>4. Around'
  BY <1>3, AroundHolds DEF Around, SampleExpires, GuardLooks, Same
<1>5. /\ session' = session /\ tasks' = tasks /\ sent' = sent /\ dropped' = dropped
      /\ arrived' = arrived /\ events' = events /\ handle' = handle /\ harness' = harness
  BY DEF SampleExpires, GuardLooks, KeepService, Same, ghostVars
<1>6. handle = 0 => guard'.phase = "watching" \/ guard' = guard
  BY DEF SampleExpires, GuardLooks, KeepService, Watching
<1>7. Observe(session') /\ AbsentOK'
  BY <1>5, <1>6 DEF Observe, New, AbsentOK, IInv
<1> QED  BY <1>4, <1>5, <1>7, Unmoved, HandlerStep DEF May

(* The guard freezes or thaws a harness.                                    *)
LEMMA Freezing ==
  ASSUME IInv, NEW frozen \in BOOLEAN, Freeze(guard.harness, frozen),
         NEW b \in BOOLEAN, guard' = Watching(b), UNCHANGED <<mode, restarts>>
  PROVE  Around'
<1>1. harness' \in Processes
  BY AroundHolds DEF Freeze, Around, WorldType, Processes
<1>2. ServiceType'
  BY Idle, AroundHolds DEF Freeze, Around, ServiceType
<1>3. WorldType' /\ EventsOK'
  BY <1>1, AroundHolds DEF Freeze, Around, WorldType, EventsOK
<1> QED  BY <1>2, <1>3, AroundHolds DEF Freeze, Around

(* The guard records that the disk is full.                                 *)
LEMMA GuardPausesStep ==
  ASSUME IInv, GuardPauses
  PROVE  Preserved
<1> DEFINE s1 == StoragePaused(session, TRUE)
           P == {session} \cup {s1}
<1>1. session.state # "absent"
  BY Present DEF GuardPauses
<1>2. Succeeds(session, s1)
  BY Unmoved, FlagsFollow, SucceedsFollows
<1>3. \/ Torn(P, FALSE)
      \/ /\ session' = s1 /\ Observe(s1) /\ UNCHANGED <<mode, sent, restarts>>
         /\ guard' = Watching(TRUE) /\ UNCHANGED tasks /\ Freeze(guard.harness, TRUE)
  BY DEF GuardPauses, Commit
<1> HIDE DEF s1
<1>4. s1 \in P /\ \A x \in P : Succeeds(session, x)
  BY <1>2, Unmoved
<1>5. Torn(P, FALSE) \/ Ends(s1)
  BY <1>3, Freezing DEF Ends, May
<1> HIDE DEF P
<1> QED  BY <1>1, <1>4, <1>5, CommitStep

(* The guard records that there is room, and the queue moves.               *)
LEMMA GuardResumesStep ==
  ASSUME IInv, GuardResumes
  PROVE  Preserved
<1> DEFINE s1 == StoragePaused(session, FALSE)
           a == Advanced(s1, handle, ready, FALSE)
           new == AdvanceTasks(s1, handle, ready, FALSE)
           P == {session, s1} \cup {a}
<1>1. session.state # "absent"
  BY Present DEF GuardResumes
<1>2. Succeeds(session, s1) /\ Elements(s1.queue) = Elements(session.queue)
  BY Unmoved, FlagsFollow, SucceedsFollows
<1>3. \/ Torn(P, FALSE)
      \/ /\ session' = a /\ Observe(a) /\ UNCHANGED <<mode, sent, restarts>>
         /\ guard' = Watching(FALSE) /\ tasks' = tasks \cup new
         /\ Freeze(guard.harness, FALSE)
  BY DEF GuardResumes, Commit
<1> HIDE DEF s1
<1>4. Commits(session, a) /\ \A u \in new : May(u, a)
  BY <1>2, AdvanceStep
<1> HIDE DEF a, new
<1>5. a \in P /\ \A x \in P : Succeeds(session, x) \/ Commits(session, x)
  BY <1>2, <1>4, Unmoved
<1>6. Torn(P, FALSE) \/ Ends(a)
  BY <1>3, <1>4, Freezing DEF Ends, May
<1> HIDE DEF P
<1> QED  BY <1>1, <1>5, <1>6, CommitStep

(* The service ends between two handlers.                                   *)
LEMMA CrashStep ==
  ASSUME IInv, Crash
  PROVE  Preserved
<1>1. orphan' \in BOOLEAN
  BY AroundHolds DEF Crash, Around, WorldType, Processes
<1>2. /\ Around' /\ sent' = sent /\ tasks' = {} /\ events' = <<>> /\ handle' = 0
      /\ ~harness.live' /\ guard.phase' = "watching"
  BY <1>1, GoneStep DEF Crash
<1>3. session' = session /\ Observe(session')
  BY DEF Crash, Observe, New
<1>4. AbsentOK'
  BY <1>2, <1>3 DEF AbsentOK, IInv
<1> QED  BY <1>2, <1>3, <1>4, Unmoved, HandlerStep

(* The journal refuses the first write of a handler.                        *)
LEMMA WedgeStep ==
  ASSUME IInv, Wedge
  PROVE  Preserved
<1>1. faults' \in 0..MaxFaults
  BY AroundHolds, SessionAssumption DEF Wedge, Around, SessionAssumption
<1>2. ServiceType' /\ WorldType' /\ EventsOK'
  BY AroundHolds DEF Wedge, Around, ServiceType, WorldType, EventsOK, worldVars
<1>3. Around'
  BY <1>1, <1>2, AroundHolds DEF Wedge, Around
<1>4. /\ session' = session /\ tasks' = tasks /\ sent' = sent /\ dropped' = dropped
      /\ arrived' = arrived /\ events' = events /\ handle' = handle /\ harness' = harness
      /\ guard' = guard
  BY DEF Wedge, worldVars, ghostVars
<1>5. Observe(session') /\ AbsentOK'
  BY <1>4 DEF Observe, New, AbsentOK, IInv
<1> QED  BY <1>3, <1>4, <1>5, Unmoved, HandlerStep DEF May

-----------------------------------------------------------------------------
(* The invariant holds at the start and in every step.                      *)

(* The session before its start request is sound.                           *)
LEMMA AbsentSound == Sound(Absent)
<1>1. Absent \in Sessions
  BY DEF Absent, Sessions, States, ReceiptStates
<1> QED  BY <1>1 DEF Sound, Distinct, Elements, Absent, Known

(* The invariant holds initially.                                           *)
LEMMA InitIInv ==
  ASSUME Init
  PROVE  IInv
<1>1. ServiceType
  BY Idle DEF Init, ServiceType
<1>2. WorldType
  <2>1. NoHarness \in Processes
    BY Idle DEF NoHarness, Processes
  <2>2. <<>> \in Seq(Events)
    OBVIOUS
  <2>3. blocked = FALSE /\ harness = NoHarness /\ orphan = FALSE /\ events = <<>>
    BY DEF Init
  <2> QED  BY <2>1, <2>2, <2>3 DEF WorldType
<1>3. GhostType
  BY DEF Init, GhostType
<1>4. TypeOK
  BY <1>1, <1>2, <1>3, AbsentSound, SessionAssumption
     DEF Init, TypeOK, Sound, SessionAssumption
<1>5. TasksOK /\ EventsOK /\ AbsentOK
  BY DEF Init, TasksOK, EventsOK, AbsentOK, NoHarness, Watching
<1>6. LedgerOK
  <2>1. /\ session = Absent /\ sent = <<>> /\ dropped = {} /\ tasks = {}
        /\ Absent.cancelled = {}
    BY DEF Init, Absent
  <2>2. Elements(sent) = {} /\ Requested(tasks) = {} /\ Waiting(tasks) = {} /\ AtMostOnce
    BY <2>1 DEF Elements, Requested, Waiting, Delivers, AtMostOnce
  <2> QED  BY <2>1, <2>2, AbsentSound DEF LedgerOK, Delivers
<1>7. OrderOK
  <2>1. session.queue = <<>> /\ Known(session) = {} /\ arrived = <<>>
    BY Kinds DEF Init, Absent, Known
  <2> QED  BY <2>1 DEF OrderOK, Distinct, Elements, Within, Precedes
<1> QED  BY <1>4, <1>5, <1>6, <1>7 DEF IInv

(* Every step keeps the invariant and the receipts that ended.              *)
LEMMA NextIInv ==
  ASSUME IInv, [Next]_vars
  PROVE  Preserved
<1>1. CASE Boots
  BY <1>1, OpenStep, OpenUnreadableStep, RestoreStep DEF Boots
<1>2. CASE Commands
  BY <1>2, StartSessionStep, CompactWakesStep, PromptStep, InterruptTurnStep, StopTurnStep,
     ResumeQueueStep, CancelStep, CompactStep, SleepStep, CloseStep DEF Commands
<1>3. CASE RecordNative
  BY <1>3, RecordStartedStep, RecordFinishedStep, RecordCompactedStep, RecordSleptStep,
     RecordExitedStep DEF RecordNative
<1>4. CASE GuardLoop \/ SampleExpires
  BY <1>4, LookStep, GuardPausesStep, GuardResumesStep DEF GuardLoop
<1>5. CASE Harness
  BY <1>5, HarnessStep
<1>6. ASSUME NEW t \in tasks, Starting(t) PROVE Preserved
  BY <1>6, AdmitStep, DroppedStep, SpawnFailsStep, SpawnStep, HandshakeStep, LaunchReadyStep,
     LaunchErrorStep, RelaunchReadyStep, RelaunchErrorStep DEF Starting
<1>7. ASSUME NEW t \in tasks, Calling(t) PROVE Preserved
  BY <1>7, SendPromptStep, SendInterruptStep, SendCompactStep, RecordReplyStep,
     AdvanceLaterStep DEF Calling
<1>8. CASE SleepDue \/ Drain \/ Undrain \/ Shutdown \/ Crash \/ Wedge
  BY <1>8, SleepDueStep, DrainStep, ShutdownStep, CrashStep, WedgeStep
<1>9. CASE UNCHANGED vars
  <2>1. /\ session' = session /\ sent' = sent /\ tasks' = tasks /\ UNCHANGED ghostVars
        /\ UNCHANGED <<serviceVars, worldVars, restarts, faults>>
    BY <1>9 DEF vars, ghostVars
  <2>2. TypeOK'
    BY <1>9 DEF IInv, TypeOK, ServiceType, WorldType, GhostType, vars, serviceVars, worldVars,
       ghostVars
  <2>3. TasksOK' /\ EventsOK' /\ AbsentOK'
    BY <1>9 DEF IInv, TasksOK, EventsOK, AbsentOK, vars, serviceVars, worldVars
  <2>4. LedgerOK' /\ OrderOK'
    BY <1>9 DEF IInv, LedgerOK, AtMostOnce, OrderOK, Leaving, vars, ghostVars
  <2>5. Kept(session, session')
    BY <2>1 DEF Kept
  <2>6. Promised
    BY <2>1 DEF Promised, Ledger!pvars, Claimed, ghostVars
  <2>7. Handed
    BY <2>1 DEF Handed, Within, Waiting, Delivers, ghostVars
  <2> QED  BY <2>2, <2>3, <2>4, <2>5, <2>6, <2>7 DEF IInv, Preserved
<1> QED  BY <1>1, <1>2, <1>3, <1>4, <1>5, <1>6, <1>7, <1>8, <1>9 DEF Next

(* The invariant always holds.                                              *)
LEMMA Invariant == Spec => []IInv
<1>1. Init => IInv
  BY InitIInv
<1>2. IInv /\ [Next]_vars => IInv'
  BY NextIInv DEF Preserved
<1> QED  BY <1>1, <1>2, PTL DEF Spec

(* The state of the model has its types: no handler, crash or lost reply    *)
(* leaves the session, the tasks or the events outside of them.             *)
THEOREM SessionTypeCorrect == Spec => []TypeOK
<1>1. IInv => TypeOK
  BY DEF IInv
<1> QED  BY <1>1, Invariant, PTL

(* No prompt reaches a harness twice: Manager::advance and the prompt       *)
(* command record the claim of a prompt before its delivery is spawned, and *)
(* nothing puts a claimed prompt back in the queue.                         *)
THEOREM SentAtMostOnce == Spec => []AtMostOnce
<1>1. IInv => AtMostOnce
  BY DEF IInv, LedgerOK
<1> QED  BY <1>1, Invariant, PTL

(* A prompt that was cancelled (Manager::command), or failed while it was   *)
(* queued (Manager::fail_pending), never reaches a harness.                 *)
THEOREM CancelledNeverSent == Spec => []DroppedNeverRuns
<1>1. IInv => DroppedNeverRuns
  BY DEF IInv, LedgerOK, DroppedNeverRuns
<1> QED  BY <1>1, Invariant, PTL

(* What a restart would find in the queue is sound: every prompt once, and  *)
(* none that is current, was answered or was sent.                          *)
THEOREM QueueAlwaysSound == Spec => []QueueSound
<1>1. IInv => QueueSound
  BY DEF IInv, LedgerOK, Sound, Distinct, QueueSound
<1> QED  BY <1>1, Invariant, PTL

(* A receipt that ended never changes (finish_receipt), whatever arrives    *)
(* late and however often the service restarts.                             *)
THEOREM ReceiptsStayEnded == Spec => ReceiptsEnd
<1>1. IInv /\ [Next]_vars =>
        [\A r \in Requests :
           session.receipts[r] \in Terminal => session'.receipts[r] = session.receipts[r]]_vars
  BY NextIInv DEF Preserved, Kept
<1> QED  BY <1>1, Invariant, PTL DEF Spec, ReceiptsEnd

(* The session keeps its promise to whoever sends prompts: every record it  *)
(* commits (Manager::command, advance, fail_pending), however a handler is  *)
(* cut short, accepts one prompt, claims one for a turn, or drops what is   *)
(* queued; and only what was claimed and did not run yet reaches a harness. *)
THEOREM SessionRefinesPromptLedger == Spec => RefinesPromptLedger
<1>1. Init => Ledger!Init
  <2>1. Init => Elements(session.queue) = {} /\ Elements(sent) = {} /\ Claimed = {} /\ dropped = {}
    BY Kinds DEF Init, Absent, Elements, Claimed
  <2> QED  BY <2>1 DEF Ledger!Init
<1>2. IInv /\ [Next]_vars => [Ledger!Next]_(Ledger!pvars)
  BY NextIInv DEF Preserved, Promised
<1> QED  BY <1>1, <1>2, Invariant, PTL DEF Spec, RefinesPromptLedger, Ledger!Spec

-----------------------------------------------------------------------------
(* The harness of the session: which one the handle names, and that none is *)
(* spawned beside one that may still run.                                   *)

(* A ready session has a handle; the handle, and what waits to be recorded, *)
(* are of the harness spawned last; nothing follows its exit; and the       *)
(* record of its pid outlives the handle.                                   *)
Owned ==
  /\ ready \/ releasing => handle # 0
  /\ handle # 0 => handle = harness.id
  /\ harness.live \/ events # <<>> => handle # 0
  /\ \A i \in DOMAIN events :
       /\ events[i].harness = harness.id
       /\ events[i].kind = "exited" => i = Len(events) /\ ~harness.live
  /\ mode \in {"down", "opened"} => handle = 0 /\ tasks = {}
  /\ mode = "up" /\ handle # 0 => session.pid

(* Launches and relaunches, and those of them that did not spawn yet.       *)
Begun(ts) == {t \in ts : t.kind \in {"launch", "relaunch"}}
Fresh(ts) == {t \in Begun(ts) : t.step \in {"waiting", "admitted"}}
Retried   == {r \in Resumes : session.receipts[r] # "none"}

(* The states in which a start may be pending: nothing else starts one.     *)
DownStates == {"process_lost", "failed", "closed"}
Down   == session.state \in DownStates
Awaits ==
  /\ session.state # "sleeping"
  /\ Down \/ session.closing \/ stopping \/ session.state \in {"pending", "starting", "resuming"}

Uncleaned == \E i \in DOMAIN events : events[i].kind = "exited" /\ ~events[i].cleaned

(* One start is pending at most, and no session is ready meanwhile; while   *)
(* it did not spawn no harness runs; and what an exit that could not be     *)
(* confirmed leaves is known by its pid.  A sleeping session has no         *)
(* harness.  A startup that failed has ended before it is retried.          *)
Alone ==
  /\ \A t, u \in Begun(tasks) : t = u
  /\ Begun(tasks) # {} => Awaits /\ ~ready /\ ~releasing
  /\ Fresh(tasks) # {} => handle = 0 /\ ~orphan
  /\ orphan => Uncleaned \/ (handle = 0 /\ session.pid /\ Down)
  /\ session.state = "sleeping" => handle = 0
  /\ ready \/ releasing => ~Down
  /\ Retried = {} /\ session.startup # "none" => Begun(tasks) = {}

(* Nothing but a retry leads a session whose startup failed out of it.      *)
Spent == Retried = {} /\ session.startup # "none" => Down

HInv == Owned /\ OneHarness /\ Spent /\ (mode = "up" /\ RetriedOnce => Alone)

-----------------------------------------------------------------------------
(* Steps.                                                                   *)

(* A session t, of those a handler goes through, in which a startup that    *)
(* failed is still spent.                                                   *)
Yields(t) ==
  /\ Retried = {} /\ \A r \in Resumes : t.receipts[r] = "none"
  /\ t.startup # "none"
  =>
  \/ t.state \in DownStates
  \/ session.startup # "none" /\ (Down => t.state = session.state)

(* The service ends, or its journal refuses writes from now on.             *)
Over(P) ==
  /\ session' \in P
  /\ \/ ServiceGone
     \/ /\ mode = "up" /\ mode' = "wedged"
        /\ UNCHANGED <<handle, ready, releasing, draining, tasks, worldVars, sent>>

(* A torn handler is one of them.                                           *)
LEMMA TornOver ==
  ASSUME NEW P, NEW o \in BOOLEAN, Torn(P, o)
  PROVE  Over(P)
BY DEF Torn, Over

(* Retries are never forgotten.                                             *)
LEMMA KeptRetries ==
  ASSUME IInv, Kept(session, session')
  PROVE  /\ Retried \subseteq Retried'
         /\ RetriedOnce' => RetriedOnce
<1>1. Resumes \subseteq Requests
  BY DEF Requests
<1> QED  BY <1>1 DEF Kept, Retried, RetriedOnce

(* What yields is spent.                                                    *)
LEMMA YieldsSpent ==
  ASSUME IInv, HInv, Kept(session, session'), Yields(session')
  PROVE  Spent'
BY KeptRetries DEF HInv, Spent, Yields, Down, Retried

(* Nothing of this is disturbed by the end of the service.                  *)
LEMMA OverStep ==
  ASSUME IInv, HInv, Kept(session, session'), NEW P, Over(P), \A t \in P : Yields(t)
  PROVE  HInv'
<1>1. Spent'
  BY YieldsSpent DEF Over
<1>2. CASE ServiceGone
  <2>1. /\ mode' = "down" /\ handle' = 0 /\ ~ready' /\ ~releasing' /\ tasks' = {}
        /\ events' = <<>> /\ ~harness.live'
    BY <1>2 DEF ServiceGone, NoHarness
  <2>2. DOMAIN <<>> = {}
    OBVIOUS
  <2> QED  BY <1>1, <2>1, <2>2 DEF HInv, Owned, OneHarness
<1>3. CASE ~ServiceGone
  <2>1. /\ mode = "up" /\ mode' = "wedged" /\ tasks' = tasks
        /\ UNCHANGED <<handle, ready, releasing, harness, orphan, events>>
    BY <1>3 DEF Over, worldVars
  <2> QED  BY <1>1, <2>1, KeptRetries DEF HInv, Owned, OneHarness
<1> QED  BY <1>2, <1>3

(* A step that leaves the handle, its harness and the events it queued: it  *)
(* may queue or record one that is no exit, and its starts go on or end.    *)
Heeds ==
  \/ events' = events
  \/ /\ harness.live
     /\ \E e \in Events : /\ e.kind # "exited" /\ e.harness = harness.id
                          /\ events' = Append(events, e)
  \/ events # <<>> /\ Front.kind # "exited" /\ events' = Tail(events)
Replaced ==
  \/ Begun(tasks') \subseteq Begun(tasks) /\ Fresh(tasks') \subseteq Fresh(tasks)
  \/ \E t \in Begun(tasks) :
       \/ /\ Begun(tasks') \subseteq Begun(tasks) \ {t}
          /\ Fresh(tasks') \subseteq Fresh(tasks) \ {t}
       \/ \E u : /\ Begun(tasks') \subseteq (Begun(tasks) \ {t}) \cup {u}
                 /\ Fresh(tasks') \subseteq
                      (Fresh(tasks) \ {t}) \cup (IF t \in Fresh(tasks) THEN {u} ELSE {})
Calm ==
  /\ mode' = mode
  /\ handle' = handle /\ orphan' = orphan
  /\ harness'.id = harness.id /\ harness'.live = harness.live
  /\ Heeds /\ session'.pid = session.pid /\ Yields(session')
  /\ ready' => ready
  /\ releasing' => releasing \/ ready
  /\ tasks = {} => tasks' = {} \/ mode \in {"up", "wedged"}

(* What becomes of the session meanwhile.                                   *)
Patient ==
  /\ stopping => stopping'
  /\ Replaced
  /\ handle = 0 /\ Fresh(tasks) = {} /\ Down => Down'
  /\ ~ready /\ Awaits => Awaits'
  /\ Begun(tasks') # {} /\ Retried' = {} /\ session'.startup # "none"
       => session.startup # "none"
  /\ (ready' \/ releasing') /\ Down' => Down
  /\ handle # 0 /\ session'.state = "sleeping" => session.state = "sleeping"

(* Such a step keeps the owner of the harness.                              *)
LEMMA CalmOwned ==
  ASSUME IInv, Owned, Calm
  PROVE  Owned'
<1>1. /\ ready' \/ releasing' => handle' # 0
      /\ handle' # 0 => handle' = harness'.id
      /\ mode' \in {"down", "opened"} => handle' = 0 /\ tasks' = {}
      /\ mode' = "up" /\ handle' # 0 => session'.pid
  BY DEF Owned, Calm
<1>2. events \in Seq(Events)
  BY DEF IInv, TypeOK, WorldType
<1>3. CASE events' = events
  BY <1>1, <1>3 DEF Owned, Calm
<1>4. ASSUME NEW e \in Events, e.kind # "exited", e.harness = harness.id, harness.live,
             events' = Append(events, e)
      PROVE  Owned'
  <2>1. /\ Len(events') = Len(events) + 1 /\ DOMAIN events' = 1..(Len(events) + 1)
        /\ DOMAIN events = 1..Len(events) /\ Len(events) \in Nat
        /\ \A i \in 1..Len(events) : events'[i] = events[i]
        /\ events'[Len(events) + 1] = e
    BY <1>2, <1>4
  <2>2. \A i \in DOMAIN events : events[i].harness = harness.id /\ events[i].kind # "exited"
    BY <1>4 DEF Owned
  <2>3. \A i \in DOMAIN events' : events'[i].harness = harness.id /\ events'[i].kind # "exited"
    BY <1>4, <2>1, <2>2
  <2>4. handle # 0
    BY <1>4 DEF Owned
  <2> QED  BY <1>1, <2>3, <2>4 DEF Owned, Calm
<1>5. CASE events # <<>> /\ events' = Tail(events)
  <2>1. /\ DOMAIN events = 1..Len(events) /\ Len(events) \in Nat
        /\ Len(events') = Len(events) - 1 /\ DOMAIN events' = 1..(Len(events) - 1)
        /\ \A i \in DOMAIN events' : events'[i] = events[i + 1] /\ i + 1 \in DOMAIN events
    BY <1>2, <1>5
  <2>2. \A i \in DOMAIN events' :
          /\ events'[i].harness = harness.id
          /\ events'[i].kind = "exited" => i = Len(events') /\ ~harness.live
    BY <2>1 DEF Owned
  <2>3. handle # 0
    BY <1>5 DEF Owned
  <2> QED  BY <1>1, <2>2, <2>3 DEF Owned, Calm
<1> QED  BY <1>3, <1>4, <1>5 DEF Calm, Heeds

(* An exit that was not confirmed stays to be recorded.                     *)
LEMMA UncleanedStays ==
  ASSUME IInv, Uncleaned, Heeds
  PROVE  Uncleaned'
<1>1. events \in Seq(Events)
  BY DEF IInv, TypeOK, WorldType
<1>2. PICK i \in DOMAIN events : events[i].kind = "exited" /\ ~events[i].cleaned
  BY DEF Uncleaned
<1>3. CASE events' = events
  BY <1>2, <1>3 DEF Uncleaned
<1>4. ASSUME NEW e \in Events, events' = Append(events, e) PROVE Uncleaned'
  <2>1. i \in DOMAIN events' /\ events'[i] = events[i]
    BY <1>1, <1>2, <1>4
  <2> QED  BY <1>2, <2>1 DEF Uncleaned
<1>5. CASE events # <<>> /\ Front.kind # "exited" /\ events' = Tail(events)
  <2>1. i # 1
    BY <1>2, <1>5 DEF Front
  <2>2. i - 1 \in DOMAIN events' /\ events'[i - 1] = events[i]
    BY <1>1, <1>2, <1>5, <2>1
  <2> QED  BY <1>2, <2>2 DEF Uncleaned
<1> QED  BY <1>3, <1>4, <1>5 DEF Heeds

(* It keeps everything.                                                     *)
LEMMA CalmStep ==
  ASSUME IInv, HInv, Kept(session, session'), Calm, mode = "up" /\ RetriedOnce => Patient
  PROVE  HInv'
<1>1. Owned'
  BY CalmOwned DEF HInv
<1>2. Retried \subseteq Retried' /\ (RetriedOnce' => RetriedOnce)
  BY KeptRetries
<1>3. OneHarness'
  BY <1>2 DEF HInv, OneHarness, Calm
<1>4. ASSUME mode' = "up", RetriedOnce' PROVE Alone'
  <2>1. Alone /\ Patient /\ Owned
    BY <1>2, <1>4 DEF HInv, Calm
  <2>2. Replaced
    BY <2>1 DEF Patient
  <2>3. /\ \A t, u \in Begun(tasks') : t = u
        /\ Begun(tasks') # {} => Begun(tasks) # {}
        /\ Fresh(tasks') # {} => Fresh(tasks) # {}
    BY <2>1, <2>2 DEF Alone, Replaced
  <2>4. Begun(tasks') # {} => Awaits' /\ ~ready' /\ ~releasing'
    BY <2>1, <2>3 DEF Alone, Patient, Calm
  <2>5. Fresh(tasks') # {} => handle' = 0 /\ ~orphan'
    BY <2>1, <2>3 DEF Alone, Calm
  <2>6. orphan' => Uncleaned' \/ (handle' = 0 /\ session'.pid /\ Down')
    <3>1. CASE Uncleaned
      BY <3>1, UncleanedStays DEF Calm
    <3>2. CASE orphan /\ ~Uncleaned
      <4>1. handle = 0 /\ session.pid /\ Down /\ Fresh(tasks) = {}
        BY <2>1, <3>2 DEF Alone
      <4> QED  BY <2>1, <4>1 DEF Patient, Calm
    <3> QED  BY <3>1, <3>2 DEF Calm
  <2>7. session'.state = "sleeping" => handle' = 0
    BY <2>1 DEF Alone, Patient, Calm
  <2>8. ready' \/ releasing' => ~Down'
    BY <2>1 DEF Alone, Patient, Calm
  <2>9. Retried' = {} /\ session'.startup # "none" => Begun(tasks') = {}
    BY <1>2, <2>1, <2>3 DEF Alone, Patient
  <2> QED  BY <2>3, <2>4, <2>5, <2>6, <2>7, <2>8, <2>9 DEF Alone
<1> QED  BY <1>1, <1>3, <1>4, YieldsSpent DEF HInv, Calm

(* So does a handshake that makes the session ready: its start ends, and no *)
(* other is pending.                                                        *)
LEMMA ReadyStep ==
  ASSUME IInv, HInv, Kept(session, session'), mode = "up", mode' = mode, handle # 0,
         UNCHANGED <<handle, releasing, harness, events, orphan>>, session'.pid = session.pid,
         session'.state # "sleeping", session'.state \notin DownStates, Yields(session'),
         NEW t \in Begun(tasks), Begun(tasks') \subseteq Begun(tasks) \ {t}
  PROVE  HInv'
<1>1. Owned'
  BY DEF HInv, Owned
<1>2. Retried \subseteq Retried' /\ (RetriedOnce' => RetriedOnce)
  BY KeptRetries
<1>3. OneHarness'
  BY <1>2 DEF HInv, OneHarness
<1>4. ASSUME RetriedOnce' PROVE Alone'
  <2>1. Alone
    BY <1>2, <1>4 DEF HInv
  <2>2. Fresh(tasks) = {} /\ (orphan => Uncleaned)
    BY <2>1 DEF Alone
  <2>3. Fresh(tasks') = {} /\ Uncleaned' = Uncleaned
    <3>1. Fresh(tasks') \subseteq Fresh(tasks)
      BY DEF Fresh
    <3> QED  BY <2>2, <3>1 DEF Uncleaned
  <2>4. Begun(tasks') = {}
    BY <2>1 DEF Alone
  <2> QED  BY <2>2, <2>3, <2>4 DEF Alone, Down
<1> QED  BY <1>1, <1>3, <1>4, YieldsSpent DEF HInv

(* So does a handler that starts a harness while none runs and no start is  *)
(* pending.                                                                 *)
LEMMA StartStep ==
  ASSUME IInv, HInv, Kept(session, session'), mode' = "up", handle' = 0, harness'.live = FALSE,
         events' = <<>>, ~ready', ~releasing', RetriedOnce' => ~orphan',
         NEW u, Begun(tasks') \subseteq Begun(tasks) \cup {u},
         session'.state \in {"pending", "resuming"}, Yields(session'),
         RetriedOnce' => Begun(tasks) = {}
  PROVE  HInv'
<1>1. DOMAIN <<>> = {}
  OBVIOUS
<1>2. Owned'
  BY <1>1 DEF HInv, Owned
<1>3. Spent' /\ ~Down'
  BY YieldsSpent DEF Down, DownStates
<1>4. ASSUME RetriedOnce' PROVE Alone'
  <2>1. \A v, w \in Begun(tasks') : v = w
    BY <1>4
  <2>2. Awaits'
    BY DEF Awaits
  <2> QED  BY <1>3, <1>4, <2>1, <2>2 DEF Alone, Spent
<1> QED  BY <1>2, <1>3, <1>4 DEF HInv, OneHarness

(* The exit is the last event: the harness does not run any more, and no    *)
(* start that did not spawn is pending.                                     *)
LEMMA ExitFacts ==
  ASSUME IInv, HInv, Records("exited")
  PROVE  /\ Tail(events) = <<>> /\ ~harness.live /\ handle # 0 /\ session.pid
         /\ RetriedOnce =>
              /\ Alone /\ Fresh(tasks) = {}
              /\ ready \/ releasing => Begun(tasks) = {}
              /\ Front.cleaned => ~orphan
<1>1. events \in Seq(Events) /\ events # <<>> /\ Front.kind = "exited" /\ mode = "up"
  BY DEF IInv, TypeOK, WorldType, Records
<1>2. 1 \in DOMAIN events /\ Front = events[1]
  BY <1>1 DEF Front
<1>3. Len(events) = 1 /\ ~harness.live /\ handle # 0 /\ session.pid
  BY <1>1, <1>2 DEF HInv, Owned
<1>4. Tail(events) = <<>>
  <2>1. Tail(events) \in Seq(Events) /\ Len(Tail(events)) = 0
    BY <1>1, <1>3
  <2> QED  BY <2>1, EmptySeq
<1>5. ASSUME RetriedOnce
      PROVE  /\ Alone /\ Fresh(tasks) = {}
             /\ ready \/ releasing => Begun(tasks) = {}
             /\ Front.cleaned => ~orphan
  <2>1. Alone
    BY <1>1, <1>5 DEF HInv
  <2>2. \A i \in DOMAIN events : i = 1
    BY <1>1, <1>3
  <2> QED  BY <1>2, <1>3, <2>1, <2>2 DEF Alone, Uncleaned
<1> QED  BY <1>3, <1>4, <1>5

(* A session that lets go of a harness whose end is not confirmed, or while *)
(* another start is pending, is down or stopping.                           *)
LEMMA LetGoStep ==
  ASSUME IInv, HInv, Kept(session, session'), Records("exited"), LetGo, mode' = mode,
         Begun(tasks') \subseteq Begun(tasks),
         ~Front.cleaned => session'.pid /\ Down',
         ~ready /\ ~releasing => Awaits', Yields(session'),
         session'.startup # "none" => session.startup # "none"
  PROVE  HInv'
<1>1. /\ mode = "up" /\ handle' = 0 /\ ~ready' /\ ~releasing' /\ events' = Tail(events)
      /\ UNCHANGED <<stopping, harness, orphan>>
  BY DEF LetGo, Heed, Records
<1>2. Tail(events) = <<>> /\ DOMAIN <<>> = {} /\ ~harness.live
  BY ExitFacts
<1>3. Owned'
  BY <1>1, <1>2 DEF HInv, Owned
<1>4. Retried \subseteq Retried' /\ (RetriedOnce' => RetriedOnce)
  BY KeptRetries
<1>5. ASSUME RetriedOnce' PROVE Alone'
  <2>1. /\ Alone /\ Fresh(tasks) = {} /\ (ready \/ releasing => Begun(tasks) = {})
        /\ (Front.cleaned => ~orphan)
    BY <1>4, <1>5, ExitFacts
  <2>2. Fresh(tasks') = {}
    BY <2>1 DEF Fresh, Begun
  <2> QED  BY <1>1, <1>4, <2>1, <2>2 DEF Alone
<1>6. OneHarness'
  BY <1>1, <1>2 DEF OneHarness
<1> QED  BY <1>3, <1>5, <1>6, YieldsSpent DEF HInv

(* A process that ends may leave what was not confirmed.                    *)
LEMMA ExitStep ==
  ASSUME IInv, HInv, Kept(session, session'), NEW expected \in BOOLEAN,
         NEW cleaned \in BOOLEAN, Exit(expected, cleaned)
  PROVE  HInv'
<1> DEFINE st == IF expected THEN "expected" ELSE "unexpected"
           e  == [Event("exited", None, st) EXCEPT !.cleaned = cleaned]
<1>1. /\ harness.live /\ events' = Append(events, e)
      /\ harness' = [NoHarness EXCEPT !.id = harness.id] /\ orphan' = (orphan \/ ~cleaned)
      /\ UNCHANGED <<session, mode, tasks, handle, ready, releasing, stopping>>
  BY DEF Exit, Emit, KeepAll, KeepService, Same
<1>2. e.kind = "exited" /\ e.harness = harness.id /\ e.cleaned = cleaned
  BY DEF Event
<1>3. harness'.id = harness.id /\ harness'.live = FALSE
  BY <1>1 DEF NoHarness
<1>4. events \in Seq(Events)
  BY DEF IInv, TypeOK, WorldType
<1> HIDE DEF e
<1>5. /\ Len(events') = Len(events) + 1 /\ DOMAIN events' = 1..(Len(events) + 1)
      /\ DOMAIN events = 1..Len(events) /\ Len(events) \in Nat
      /\ \A i \in 1..Len(events) : events'[i] = events[i]
      /\ events'[Len(events) + 1] = e
  BY <1>1, <1>4
<1>6. \A i \in DOMAIN events : events[i].harness = harness.id /\ events[i].kind # "exited"
  BY <1>1 DEF HInv, Owned
<1>7. handle # 0
  BY <1>1 DEF HInv, Owned
<1>8. \A i \in DOMAIN events' :
        /\ events'[i].harness = harness.id
        /\ events'[i].kind = "exited" => i = Len(events')
  BY <1>2, <1>5, <1>6
<1>9. Owned'
  BY <1>1, <1>3, <1>7, <1>8 DEF HInv, Owned
<1>10. Uncleaned' <=> ~cleaned
  <2>1. Len(events) + 1 \in DOMAIN events'
    BY <1>5
  <2> QED  BY <1>2, <1>5, <1>6, <2>1 DEF Uncleaned
<1>11. ASSUME mode' = "up", RetriedOnce' PROVE Alone'
  <2>1. Alone
    BY <1>1, <1>11 DEF HInv, RetriedOnce
  <2>2. ~orphan /\ Fresh(tasks) = {}
    BY <1>6, <1>7, <2>1 DEF Alone, Uncleaned
  <2>3. /\ Fresh(tasks') = Fresh(tasks) /\ Begun(tasks') = Begun(tasks)
        /\ Retried' = Retried /\ Awaits' = Awaits /\ Down' = Down
    BY <1>1 DEF Retried, Awaits, Down
  <2> QED  BY <1>1, <1>10, <2>1, <2>2, <2>3 DEF Alone
<1>12. Spent'
  BY <1>1 DEF HInv, Spent, Retried, Down
<1> QED  BY <1>3, <1>9, <1>11, <1>12 DEF HInv, OneHarness

-----------------------------------------------------------------------------
(* The sessions of the handlers.                                            *)

(* Without a ready harness advance does nothing, unless it wakes a sleeping *)
(* session.                                                                 *)
LEMMA NoAdvance ==
  ASSUME NEW s, NEW h, NEW rdy, NEW ended
  PROVE  /\ ~rdy /\ ~Wakes(s, h) => Advanced(s, h, rdy, ended) = s
         /\ ~Wakes(s, h) => \A u \in AdvanceTasks(s, h, rdy, ended) : u.kind = "deliver"
         /\ Wakes(s, h) => /\ Advanced(s, h, rdy, ended) = State(s, "resuming", None)
                           /\ AdvanceTasks(s, h, rdy, ended) = {Relaunch}
                           /\ s.state = "sleeping" /\ h = 0
BY DEF Advanced, AdvanceTasks, Dispatches, Advances, Wakes, Deliver, Task

(* What a record makes of the state; none that is used here touches the     *)
(* pid, takes the closing mark back, or records that a startup failed.      *)
Shaped(s) == {"state", "pid", "closing", "startup"} \subseteq DOMAIN s
Spares(s, t) == t.startup # "none" => s.startup # "none"
Turned(s, t, st) ==
  Shaped(s) =>
    Shaped(t) /\ t.state = st /\ t.pid = s.pid /\ (s.closing => t.closing) /\ Spares(s, t)
Leaves(s, t) == Turned(s, t, s.state)

(* The record of a failed startup does.                                     *)
Falls(s, t) ==
  Shaped(s) =>
    Shaped(t) /\ t.state = "process_lost" /\ t.pid = s.pid /\ (s.closing => t.closing)

(* Sessions have these fields, and records compose.                         *)
LEMMA ShapesCompose ==
  /\ IInv => Shaped(session)
  /\ \A s : Leaves(s, s)
  /\ \A s, t, u, a, b : Turned(s, t, a) /\ Turned(t, u, b) => Turned(s, u, b)
  /\ \A s, t, u, a : Turned(s, t, a) /\ Leaves(t, u) => Turned(s, u, a)
  /\ \A s, t, u : Falls(s, t) /\ Leaves(t, u) => Falls(s, u)
<1>1. IInv => Shaped(session)
  BY DEF IInv, TypeOK, Sessions, Shaped
<1>2. /\ \A s : Leaves(s, s)
      /\ \A s, t, u, a, b : Turned(s, t, a) /\ Turned(t, u, b) => Turned(s, u, b)
  BY DEF Leaves, Turned, Spares
<1>3. /\ \A s, t, u, a : Turned(s, t, a) /\ Leaves(t, u) => Turned(s, u, a)
      /\ \A s, t, u : Falls(s, t) /\ Leaves(t, u) => Falls(s, u)
  BY DEF Leaves, Turned, Spares, Falls
<1> QED  BY <1>1, <1>2, <1>3

(* Receipts leave the state alone; state records set it.                    *)
LEMMA RecordsTurn ==
  ASSUME NEW s, NEW r, NEW p, NEW rs, NEW st
  PROVE  /\ r # Start => Leaves(s, Accept(s, r))
         /\ r # Start => Leaves(s, AcceptCancel(s, r, p))
         /\ Leaves(s, Finish(s, r, st))
         /\ Leaves(s, FinishAll(s, rs, st))
         /\ Leaves(s, FailPending(s)) /\ \A t \in PartlyFailed(s) : Leaves(s, t)
         /\ Leaves(s, StoragePaused(s, st))
         /\ Leaves(s, Native(s))
         /\ Turned(s, State(s, st, p), st)
         /\ Falls(s, Lost(s, p))
<1> USE DEF Leaves, Turned, Shaped, Spares
<1>1. r # Start => Leaves(s, Accept(s, r))
  BY DEF Accept
<1>2. r # Start => Leaves(s, AcceptCancel(s, r, p))
  BY DEF Accept, AcceptCancel
<1>3. Leaves(s, Finish(s, r, st))
  BY DEF Finish
<1>4. Leaves(s, FinishAll(s, rs, st)) /\ Leaves(s, FailPending(s))
  BY DEF FinishAll, FailPending, FailFirst
<1>5. Leaves(s, StoragePaused(s, st)) /\ Leaves(s, Native(s))
  BY DEF StoragePaused, Native
<1>6. Turned(s, State(s, st, p), st)
  BY DEF State
<1>7. Falls(s, Lost(s, p))
  BY DEF State, Lost, Falls
<1>8. \A t \in PartlyFailed(s) : Leaves(s, t)
  BY DEF PartlyFailed, FailFirst
<1> QED  BY <1>1, <1>2, <1>3, <1>4, <1>5, <1>6, <1>7, <1>8

(* The sessions that yield: what left the state alone, or is down, and all  *)
(* that came of a session that was not down, or whose startup did not fail. *)
LEMMA Yielding ==
  ASSUME IInv, HInv
  PROVE  /\ Yields(session)
         /\ \A t : Leaves(session, t) => Yields(t)
         /\ \A t, st : /\ Turned(session, t, st)
                       /\ Retried = {} => ~Down \/ session.startup = "none" \/ st \in DownStates
                       => Yields(t)
         /\ \A t : Falls(session, t) => Yields(t)
<1>1. Shaped(session) /\ Spent
  BY ShapesCompose DEF HInv
<1> QED  BY <1>1 DEF Leaves, Turned, Spares, Falls, Yields, Spent, Down, DownStates

(* A handler that leaves the state alone has patience.                      *)
LEMMA LeavesPatient ==
  ASSUME IInv, Leaves(session, session'), stopping => stopping', Replaced
  PROVE  Patient /\ session'.pid = session.pid
BY ShapesCompose DEF Leaves, Turned, Spares, Patient, Awaits, Down

(* What wakes a sleeping session starts a harness where none was.           *)
LEMMA WakeStep ==
  ASSUME IInv, HInv, Kept(session, session'), mode = "up", mode' = "up", handle = 0,
         UNCHANGED <<handle, ready, releasing, orphan>>,
         harness'.live = harness.live, Heeds,
         NEW u, Begun(tasks') \subseteq Begun(tasks) \cup {u},
         session.state = "sleeping", session'.state = "resuming", Spares(session, session')
  PROVE  HInv'
<1>1. ~ready /\ ~releasing /\ ~harness.live /\ events = <<>>
  BY DEF HInv, Owned
<1>2. events' = <<>> /\ harness'.live = FALSE
  <2>1. harness \in Processes
    BY DEF IInv, TypeOK, WorldType
  <2> QED  BY <1>1, <2>1 DEF Heeds, Processes
<1>3. ASSUME RetriedOnce'
      PROVE  ~orphan' /\ Begun(tasks) = {}
  <2>1. Alone
    BY <1>3, KeptRetries DEF HInv
  <2> QED  BY <1>1, <2>1 DEF Alone, Awaits, Down, DownStates, Uncleaned
<1>4. Yields(session')
  BY DEF HInv, Spent, Yields, Spares, Down, DownStates
<1> QED  BY <1>1, <1>2, <1>3, <1>4, StartStep

(* Before a retry no start is pending beside a ready harness, and such a    *)
(* session is not down.                                                     *)
LEMMA NonePending ==
  ASSUME HInv, mode = "up"
  PROVE  /\ ready => handle # 0
         /\ handle # 0 /\ Retried = {} => Fresh(tasks) = {}
         /\ Retried = {} => Alone
<1>1. Retried = {} => RetriedOnce
  BY DEF Retried, RetriedOnce
<1> QED  BY <1>1 DEF HInv, Owned, Alone

(* A handler with a ready harness has patience whatever it records.         *)
LEMMA ReadyPatient ==
  ASSUME HInv, mode = "up", ready, stopping => stopping', Replaced,
         session'.state = "sleeping" => session.state = "sleeping",
         Down' => Down, Spares(session, session')
  PROVE  Patient
BY NonePending DEF Patient, Spares

(* What advance makes of the session yields.                                *)
LEMMA AdvanceYields ==
  ASSUME IInv, HInv, mode = "up", NEW s1, Leaves(session, s1), NEW ended
  PROVE  /\ Yields(Advanced(s1, handle, ready, ended))
         /\ Spares(session, Advanced(s1, handle, ready, ended))
<1> DEFINE t == Advanced(s1, handle, ready, ended)
<1>1. Shaped(session) /\ (Retried = {} /\ ready => ~Down)
  BY ShapesCompose, NonePending DEF Alone
<1>2. s1.state = session.state /\ Shaped(s1) /\ Spares(session, s1)
  BY <1>1 DEF Leaves, Turned
<1>3. \A st, p : Turned(session, State(s1, st, p), st)
  <2>1. \A st, p : Turned(s1, State(s1, st, p), st)
    BY RecordsTurn
  <2> QED  BY <2>1, ShapesCompose DEF Leaves
<1>4. CASE t = s1
  BY <1>2, <1>4, Yielding
<1>5. CASE t # s1
  <2>1. \E st, p : t = State(s1, st, p)
    BY <1>5 DEF Advanced
  <2>2. Retried = {} => ~Down
    BY <1>1, <1>2, <1>5, NoAdvance DEF Down, DownStates
  <2> QED  BY <1>1, <1>3, <2>1, <2>2, Yielding DEF Turned
<1> QED  BY <1>4, <1>5

(* advance, at the end of a handler that recorded s1.                       *)
LEMMA AdvanceKeeps ==
  ASSUME IInv, HInv, Kept(session, session'), mode = "up", mode' = "up",
         NEW s1, Leaves(session, s1), NEW ended, session' = Advanced(s1, handle, ready, ended),
         UNCHANGED <<handle, ready, releasing, stopping, orphan>>,
         harness'.id = harness.id, harness'.live = harness.live, Heeds,
         tasks' \subseteq tasks \cup AdvanceTasks(s1, handle, ready, ended)
  PROVE  HInv'
<1>1. Shaped(session)
  BY ShapesCompose
<1>2. s1.state = session.state /\ s1.pid = session.pid /\ Shaped(s1)
  BY <1>1 DEF Leaves, Turned
<1>3. CASE Wakes(s1, handle)
  <2>1. /\ session' = State(s1, "resuming", None) /\ handle = 0 /\ session.state = "sleeping"
        /\ tasks' \subseteq tasks \cup {Relaunch}
    BY <1>2, <1>3, NoAdvance
  <2>2. session'.state = "resuming"
    <3>1. Turned(s1, session', "resuming")
      BY <2>1, RecordsTurn
    <3> QED  BY <1>2, <3>1 DEF Turned
  <2>3. Begun(tasks') \subseteq Begun(tasks) \cup {Relaunch}
    BY <2>1 DEF Begun
  <2> QED  BY <2>1, <2>2, <2>3, AdvanceYields, WakeStep
<1>4. CASE ~Wakes(s1, handle)
  <2>1. Begun(tasks') \subseteq Begun(tasks) /\ Fresh(tasks') \subseteq Fresh(tasks)
    BY <1>4, NoAdvance DEF Begun, Fresh
  <2>2. Replaced
    BY <2>1 DEF Replaced
  <2>3. session'.pid = session.pid
    <3>1. \A st, p : State(s1, st, p).pid = s1.pid
      BY <1>2, RecordsTurn DEF Turned
    <3> QED  BY <1>2, <3>1 DEF Advanced
  <2>4. Patient
    <3>1. CASE ready
      <4>1. \A st, p : State(s1, st, p).state = st
        BY <1>2, RecordsTurn DEF Turned
      <4>2. /\ session'.state = "sleeping" => session.state = "sleeping"
            /\ Down' => Down
        BY <1>2, <1>4, <4>1 DEF Advanced, Rests, Down, DownStates
      <4> QED  BY <2>2, <3>1, <4>2, AdvanceYields, ReadyPatient
    <3>2. CASE ~ready
      <4>1. session' = s1
        BY <1>4, <3>2, NoAdvance
      <4> QED  BY <2>2, <4>1, LeavesPatient
    <3> QED  BY <3>1, <3>2
  <2> QED  BY <2>1, <2>3, <2>4, AdvanceYields, CalmStep DEF Calm
<1> QED  BY <1>3, <1>4

-----------------------------------------------------------------------------
(* Commands.                                                                *)

(* A command that leaves the state alone, and starts no harness.            *)
LEMMA CommandKeeps ==
  ASSUME IInv, HInv, Kept(session, session'), mode = "up", mode' = mode, Quiet,
         Begun(tasks') \subseteq Begun(tasks), Leaves(session, session')
  PROVE  HInv'
<1>1. Replaced
  BY DEF Replaced, Fresh
<1>2. Patient /\ session'.pid = session.pid
  BY <1>1, LeavesPatient DEF Quiet, KeepService
<1>3. Calm
  BY <1>2, Yielding DEF Calm, Quiet, KeepService, KeepWorld, Heeds
<1> QED  BY <1>2, <1>3, CalmStep

(* Tasks that answer to commands are no starts.                             *)
LEMMA CallsBegin ==
  ASSUME NEW kind, kind \notin {"launch", "relaunch"}, NEW r, NEW target, NEW h, NEW ts
  PROVE  Begun(ts \cup {Task(kind, r, target, h)}) = Begun(ts)
BY DEF Begun, Task

(* The start of the session.                                                *)
LEMMA StartSessionHarness ==
  ASSUME IInv, HInv, Kept(session, session'), StartSession
  PROVE  HInv'
<1> DEFINE s1 == Accept(session, Start)
           P == {session} \cup {s1}
<1>1. \/ Over(P)
      \/ session' = s1 /\ tasks' = tasks \cup {Launch} /\ Quiet /\ mode' = mode
  BY TornOver DEF StartSession, Commit
<1>2. session = Absent /\ tasks = {} /\ events = <<>> /\ handle = 0 /\ ~harness.live /\ mode = "up"
  BY DEF StartSession, IInv, AbsentOK
<1>3. s1.state = "pending" /\ s1.startup = "none"
  BY <1>2 DEF Accept, Absent
<1>4. ~ready /\ ~releasing
  BY <1>2 DEF HInv, Owned
<1>5. CASE ~Over(P)
  <2>1. Begun(tasks) = {} /\ Begun(tasks') \subseteq Begun(tasks) \cup {Launch}
    BY <1>1, <1>2, <1>5 DEF Begun
  <2>2. RetriedOnce' => ~orphan
    <3>1. RetriedOnce' => Alone
      BY <1>2, KeptRetries DEF HInv
    <3> QED  BY <1>2, <3>1 DEF Alone, Uncleaned, Down, DownStates, Absent
  <2>3. harness'.live = FALSE
    BY <1>1, <1>2, <1>5 DEF Quiet, KeepWorld, IInv, TypeOK, WorldType, Processes
  <2> HIDE DEF s1
  <2>4. /\ mode' = "up" /\ handle' = 0 /\ events' = <<>> /\ ~ready' /\ ~releasing'
        /\ orphan' = orphan /\ session'.state = "pending" /\ Yields(session')
    BY <1>1, <1>2, <1>3, <1>4, <1>5 DEF Quiet, KeepService, KeepWorld, Yields
  <2> QED  BY <2>1, <2>2, <2>3, <2>4, StartStep
<1>6. \A t \in P : Yields(t)
  BY <1>3, Yielding DEF Yields
<1> HIDE DEF P
<1> QED  BY <1>5, <1>6, OverStep

(* A prompt: claimed for the idle harness, or queued, or it wakes the       *)
(* session.                                                                 *)
LEMMA PromptHarness ==
  ASSUME IInv, HInv, Kept(session, session'), NEW p \in Prompts, Prompt(p)
  PROVE  HInv'
<1> DEFINE s1 == Accept(session, p)
           claimed == State(s1, "starting_turn", p)
           woken == State(s1, "resuming", None)
           final == CASE DeliverNow -> claimed [] Wakes(s1, handle) -> woken [] OTHER -> s1
           spawned == CASE DeliverNow -> {Deliver(p, handle)}
                        [] Wakes(s1, handle) -> {Relaunch} [] OTHER -> {}
           P == {session, s1} \cup {final}
<1>1. /\ mode = "up" /\ ~Down /\ Leaves(session, s1) /\ Turned(s1, claimed, "starting_turn")
      /\ Turned(s1, woken, "resuming")
  BY RecordsTurn, RequestsAssumption DEF Prompt, Reaches, RequestsAssumption, Unavailable, Down, DownStates
<1>2. \/ Over(P)
      \/ Quiet /\ mode' = mode /\ session' = final /\ tasks' = tasks \cup spawned
  BY TornOver DEF Prompt, Commit
<1>3. Wakes(s1, handle) => s1.state = "sleeping" /\ handle = 0
  BY DEF Wakes
<1>4. DeliverNow => session.state = "idle"
  BY DEF DeliverNow
<1> HIDE DEF s1, claimed, woken
<1>5. Shaped(session) /\ s1.state = session.state /\ Shaped(s1) /\ s1.pid = session.pid
  BY <1>1, ShapesCompose DEF Leaves, Turned
<1>6. \/ DeliverNow /\ final = claimed /\ spawned = {Deliver(p, handle)}
      \/ ~DeliverNow /\ Wakes(s1, handle) /\ final = woken /\ spawned = {Relaunch}
      \/ ~DeliverNow /\ ~Wakes(s1, handle) /\ final = s1 /\ spawned = {}
  BY <1>3, <1>5, <1>4
<1> HIDE DEF final, spawned
<1>7. CASE Over(P)
  <2>1. Turned(session, claimed, "starting_turn") /\ Turned(session, woken, "resuming")
    BY <1>1, ShapesCompose DEF Leaves
  <2>2. \A t \in P : Yields(t)
    BY <1>1, <1>6, <2>1, Yielding
  <2> HIDE DEF P
  <2> QED  BY <1>7, <2>2, OverStep
<1>8. CASE ~Over(P) /\ DeliverNow
  <2>1. Begun(tasks') \subseteq Begun(tasks)
    BY <1>2, <1>6, <1>8, CallsBegin DEF Deliver
  <2>2. Replaced
    BY <2>1 DEF Replaced, Fresh
  <2>3. Patient
    <3>1. ready /\ mode = "up" /\ stopping' = stopping
      BY <1>1, <1>2, <1>8 DEF DeliverNow, Quiet, KeepService
    <3>2. session'.state = "starting_turn" /\ Spares(session, session')
      BY <1>1, <1>2, <1>5, <1>6, <1>8 DEF Leaves, Turned, Spares
    <3> QED  BY <2>2, <3>1, <3>2, ReadyPatient DEF Down, DownStates
  <2>4. session'.pid = session.pid /\ Yields(session')
    <3>1. Turned(session, claimed, "starting_turn")
      BY <1>1, ShapesCompose DEF Leaves
    <3> QED  BY <1>1, <1>2, <1>5, <1>6, <1>8, <3>1, Yielding DEF Turned
  <2>5. Calm
    BY <1>1, <1>2, <1>8, <2>4 DEF Calm, Quiet, KeepService, KeepWorld, Heeds
  <2> QED  BY <2>3, <2>5, CalmStep
<1>9. CASE ~Over(P) /\ ~DeliverNow /\ Wakes(s1, handle)
  <2>1. Begun(tasks') \subseteq Begun(tasks) \cup {Relaunch}
    BY <1>2, <1>6, <1>9 DEF Begun
  <2>2. session'.state = "resuming" /\ Spares(session, session')
    BY <1>1, <1>2, <1>5, <1>6, <1>9 DEF Leaves, Turned, Spares
  <2> QED  BY <1>1, <1>2, <1>3, <1>5, <1>9, <2>1, <2>2, WakeStep
           DEF Quiet, KeepService, KeepWorld, Heeds
<1>10. CASE ~Over(P) /\ ~DeliverNow /\ ~Wakes(s1, handle)
  BY <1>1, <1>2, <1>6, <1>10, CommandKeeps DEF Begun
<1> QED  BY <1>7, <1>8, <1>9, <1>10

(* Interrupts and stops call the harness there is.                          *)
LEMMA InterruptHarness ==
  ASSUME IInv, HInv, Kept(session, session'), NEW r \in Requests,
         r # Start, InterruptTurn(r) \/ StopTurn(r)
  PROVE  HInv'
<1> DEFINE s1 == Accept(session, r)
           s2 == Finish(s1, r, "completed")
           P == {session, s1, s2}
<1>1. mode = "up" /\ Leaves(session, s1) /\ Leaves(s1, s2)
  BY RecordsTurn DEF InterruptTurn, StopTurn, Reaches
<1>2. Leaves(session, s2)
  BY <1>1, ShapesCompose DEF Leaves
<1>3. \/ \E Q \in SUBSET P : Over(Q)
      \/ /\ Quiet /\ mode' = mode /\ session' \in {s1, s2}
         /\ tasks' = tasks \/ tasks' = tasks \cup {InterruptTask(r)}
  <2>1. /\ {session} \cup {s1} \subseteq P /\ {session, s1} \cup {s2} \subseteq P
    OBVIOUS
  <2> QED  BY <2>1, TornOver DEF InterruptTurn, StopTurn, Commit
<1> HIDE DEF s1, s2
<1>4. Begun(tasks \cup {InterruptTask(r)}) = Begun(tasks)
  BY CallsBegin DEF InterruptTask
<1>5. \A t \in P : Yields(t)
  BY <1>1, <1>2, Yielding
<1> HIDE DEF P
<1> QED  BY <1>1, <1>2, <1>3, <1>4, <1>5, OverStep, CommandKeeps

(* Resuming the queue, or the retry of a failed startup, the first of which *)
(* finds no harness and no other start.                                     *)
LEMMA ResumeQueueHarness ==
  ASSUME IInv, HInv, Kept(session, session'), NEW r \in Resumes, ResumeQueue(r)
  PROVE  HInv'
<1> DEFINE s1 == Accept(session, r)
           retry == State(s1, "resuming", None)
           s2 == Finish(s1, r, "completed")
           advance == Task("advance", None, None, 0)
           P == {session, s1, s2, retry}
<1>1. /\ mode = "up" /\ r \in Requests /\ session.receipts[r] = "none" /\ session.state # "absent"
      /\ Leaves(session, s1) /\ Leaves(s1, s2) /\ Turned(s1, retry, "resuming")
  <2>1. r # Start
    BY RequestsAssumption DEF RequestsAssumption
  <2> QED  BY <2>1, RecordsTurn DEF ResumeQueue, Reaches, Requests
<1>2. Leaves(session, s2)
  BY <1>1, ShapesCompose DEF Leaves
<1>3. \/ \E Q \in SUBSET P : Over(Q)
      \/ RetryStartup /\ session' = retry /\ tasks' = tasks \cup {Relaunch} /\ Quiet /\ mode' = mode
      \/ ~RetryStartup /\ session' = s2 /\ tasks' = tasks \cup {advance} /\ Quiet /\ mode' = mode
  <2>1. {session, s1} \cup {s2} \subseteq P /\ {session, s1} \cup {retry} \subseteq P
    OBVIOUS
  <2> QED  BY <2>1, TornOver DEF ResumeQueue, Commit
<1>4. retry.receipts[r] = "accepted"
  <2>1. session.receipts \in [Requests -> ReceiptStates]
    BY DEF IInv, TypeOK, Sessions
  <2> QED  BY <1>1, <2>1 DEF State, Accept
<1>5. \A t \in P : Yields(t)
  <2>1. Yields(retry)
    BY <1>4 DEF Yields
  <2> QED  BY <1>1, <1>2, <2>1, Yielding
<1> HIDE DEF s1, s2, retry, P
<1>6. ASSUME RetryStartup, session' = retry, tasks' = tasks \cup {Relaunch}, Quiet, mode' = mode
      PROVE  HInv'
  <2>1. /\ session' = retry /\ tasks' = tasks \cup {Relaunch} /\ Quiet /\ mode' = mode
        /\ session.state = "process_lost" /\ session.startup # "none"
        /\ handle = 0 /\ ~session.pid
    BY <1>6 DEF RetryStartup
  <2>4. session'.state = "resuming"
    BY <1>1, <2>1, ShapesCompose DEF Leaves, Turned
  <2>5. ~ready /\ ~releasing /\ ~harness.live /\ events = <<>>
    BY <2>1 DEF HInv, Owned
  <2>6. r \in Retried' /\ Yields(session')
    BY <2>1, <1>4 DEF Retried, Yields
  <2>7. ASSUME RetriedOnce' PROVE ~orphan /\ Begun(tasks) = {}
    <3>1. Retried = {}
      <4>1. \A q \in Retried' : q = r
        BY <2>6, <2>7 DEF Retried, RetriedOnce
      <4>2. r \notin Retried
        BY <1>1 DEF Retried
      <4> QED  BY <4>1, <4>2, KeptRetries
    <3>2. Alone /\ ~Uncleaned
      BY <1>1, <2>5, <3>1, NonePending DEF Uncleaned
    <3> QED  BY <2>1, <3>1, <3>2 DEF Alone, Fresh
  <2>8. harness.live = FALSE
    BY <2>5 DEF IInv, TypeOK, WorldType, Processes
  <2>9. /\ mode' = "up" /\ handle' = 0 /\ events' = <<>> /\ ~ready' /\ ~releasing'
        /\ orphan' = orphan /\ harness'.live = FALSE
    BY <1>1, <2>1, <2>5, <2>8 DEF Quiet, KeepService, KeepWorld
  <2>10. Begun(tasks') \subseteq Begun(tasks) \cup {Relaunch}
    BY <2>1 DEF Begun
  <2> QED  BY <2>4, <2>6, <2>7, <2>9, <2>10, StartStep
<1>7. ASSUME session' = s2, tasks' = tasks \cup {advance}, Quiet, mode' = mode
      PROVE  HInv'
  <2>1. Begun(tasks') = Begun(tasks)
    BY <1>7, CallsBegin
  <2> QED  BY <1>1, <1>2, <1>7, <2>1, CommandKeeps
<1> QED  BY <1>3, <1>6, <1>7, <1>5, OverStep

(* Cancels.                                                                 *)
LEMMA CancelHarness ==
  ASSUME IInv, HInv, Kept(session, session'), NEW r \in Cancels, NEW p \in Prompts, Cancel(r, p)
  PROVE  HInv'
<1> DEFINE s1 == AcceptCancel(session, r, p)
           s2 == Finish(s1, r, "completed")
           P == {session, s1} \cup {s2}
<1>1. mode = "up" /\ Leaves(session, s1) /\ Leaves(s1, s2)
  <2>1. r # Start
    BY RequestsAssumption DEF RequestsAssumption
  <2> QED  BY <2>1, RecordsTurn DEF Cancel, Reaches
<1>2. Leaves(session, s2)
  BY <1>1, ShapesCompose DEF Leaves
<1>3. Over(P) \/ (Quiet /\ mode' = mode /\ session' = s2 /\ tasks' = tasks)
  BY TornOver DEF Cancel, Commit
<1>4. \A t \in P : Yields(t)
  BY <1>1, <1>2, Yielding
<1> HIDE DEF s1, s2, P
<1> QED  BY <1>1, <1>2, <1>3, <1>4, OverStep, CommandKeeps

(* A compaction that finds the session asleep wakes it.                     *)
LEMMA CompactWakesHarness ==
  ASSUME IInv, HInv, Kept(session, session'), CompactWakes
  PROVE  HInv'
<1> DEFINE s1 == State(session, "resuming", None)
           P == {session} \cup {s1}
<1>1. /\ mode = "up" /\ session.state = "sleeping" /\ Turned(session, s1, "resuming")
  BY RecordsTurn DEF CompactWakes, Reaches
<1>2. Over(P) \/ (Quiet /\ mode' = mode /\ session' = s1 /\ tasks' = tasks \cup {Relaunch})
  BY TornOver DEF CompactWakes, Commit
<1>3. \A t \in P : Yields(t)
  BY <1>1, Yielding DEF Down, DownStates
<1> HIDE DEF s1, P
<1>4. CASE ~Over(P)
  <2>1. /\ session'.state = "resuming" /\ session'.pid = session.pid
        /\ Spares(session, session') /\ Yields(session')
    <3>1. Shaped(session) /\ Turned(session, session', "resuming")
      BY <1>1, <1>2, <1>4, ShapesCompose
    <3>2. Yields(session')
      BY <1>1, <3>1, Yielding DEF Down, DownStates
    <3> QED  BY <3>1, <3>2 DEF Turned
  <2>2. Begun(tasks') \subseteq Begun(tasks) \cup {Relaunch}
    BY <1>2, <1>4 DEF Begun
  <2>3. CASE handle = 0
    BY <1>1, <1>2, <1>4, <2>1, <2>2, <2>3, WakeStep DEF Quiet, KeepService, KeepWorld, Heeds
  <2>4. CASE handle # 0
    <3>1. Calm
      BY <1>1, <1>2, <1>4, <2>1 DEF Calm, Quiet, KeepService, KeepWorld, Heeds
    <3>2. ~RetriedOnce
      BY <1>1, <2>4 DEF HInv, Alone
    <3>3. ~RetriedOnce' /\ Owned'
      BY <3>1, <3>2, KeptRetries, CalmOwned DEF HInv
    <3> QED  BY <2>1, <3>3, YieldsSpent DEF HInv, OneHarness
  <2> QED  BY <2>3, <2>4
<1> QED  BY <1>3, <1>4, OverStep

(* A compaction is asked of an idle harness.                                *)
LEMMA CompactHarness ==
  ASSUME IInv, HInv, Kept(session, session'), NEW r \in Compacts, Compact(r)
  PROVE  HInv'
<1> DEFINE s1 == Accept(session, r)
           s2 == State(s1, "running", None)
           asks == Task("compact", r, None, handle)
           P == {session, s1} \cup {s2}
<1>1. /\ ~Down /\ mode = "up" /\ ready /\ Leaves(session, s1) /\ Turned(s1, s2, "running")
  <2>1. r # Start
    BY RequestsAssumption DEF RequestsAssumption
  <2> QED  BY <2>1, RecordsTurn DEF Compact, Reaches, Down, DownStates
<1>2. Over(P) \/ (Quiet /\ mode' = mode /\ session' = s2 /\ tasks' = tasks \cup {asks})
  BY TornOver DEF Compact, Commit
<1>3. Turned(session, s2, "running") /\ \A t \in P : Yields(t)
  <2>1. Turned(session, s2, "running")
    BY <1>1, ShapesCompose DEF Leaves
  <2> QED  BY <1>1, <2>1, Yielding
<1> HIDE DEF s1, s2, P
<1>4. CASE ~Over(P)
  <2>1. /\ session'.state = "running" /\ session'.pid = session.pid
        /\ Spares(session, session') /\ Yields(session')
    <3>1. Shaped(session) /\ Turned(session, session', "running")
      BY <1>2, <1>3, <1>4, ShapesCompose
    <3>2. Yields(session')
      BY <1>1, <3>1, Yielding
    <3> QED  BY <3>1, <3>2 DEF Turned
  <2>2. Begun(tasks') = Begun(tasks)
    BY <1>2, <1>4, CallsBegin
  <2>3. Replaced
    BY <2>2 DEF Replaced, Fresh
  <2>4. stopping' = stopping
    BY <1>2, <1>4 DEF Quiet, KeepService
  <2>5. Patient
    BY <1>1, <2>1, <2>3, <2>4, ReadyPatient DEF Down, DownStates
  <2>6. Calm
    BY <1>1, <1>2, <1>4, <2>1 DEF Calm, Quiet, KeepService, KeepWorld, Heeds
  <2> QED  BY <2>5, <2>6, CalmStep
<1> QED  BY <1>3, <1>4, OverStep

(* A harness that is asked to exit, frozen or thawed is still the same.     *)
LEMMA SameHarness ==
  ASSUME IInv
  PROVE  /\ \A h : AskExit(h).id = harness.id /\ AskExit(h).live = harness.live
         /\ \A h, f : Freeze(h, f) => harness'.id = harness.id /\ harness'.live = harness.live
<1>1. harness \in Processes
  BY DEF IInv, TypeOK, WorldType
<1> QED  BY <1>1 DEF AskExit, Freeze, Processes

(* A close.                                                                 *)
LEMMA CloseHarness ==
  ASSUME IInv, HInv, Kept(session, session'), NEW r \in Closes, Close(r)
  PROVE  HInv'
<1> DEFINE s1 == Accept(session, r)
           s2 == State(s1, "closing", session.current)
           s3 == FailPending(s2)
           s4 == State(s3, "closed", None)
           s5 == Finish(s4, r, "completed")
           P == ({session, s1} \cup PartlyFailed(s2) \cup {s4})
                  \cup {IF handle = 0 THEN s5 ELSE s3}
<1>1. /\ mode = "up" /\ ~Down /\ Shaped(session) /\ Leaves(session, s1)
      /\ Turned(s1, s2, "closing") /\ Leaves(s2, s3) /\ Turned(s3, s4, "closed") /\ Leaves(s4, s5)
      /\ \A t \in PartlyFailed(s2) : Leaves(s2, t)
  <2>1. r # Start
    BY RequestsAssumption DEF RequestsAssumption
  <2> QED  BY <2>1, RecordsTurn, ShapesCompose DEF Close, Reaches, Unavailable, Down, DownStates
<1>2. s1.closing = TRUE
  <2>1. session \in Sessions
    BY DEF IInv, TypeOK
  <2> QED  BY <2>1 DEF Accept, Sessions
<1>3. \/ Over(P)
      \/ /\ KeepService /\ mode' = mode
         /\ session' \in P /\ (session' = s3 \/ (handle = 0 /\ session' = s5))
         /\ harness' = AskExit(handle) /\ UNCHANGED <<tasks, blocked, orphan, events, faults>>
  <2> DEFINE final == IF handle = 0 THEN s5 ELSE s3
  <2>1. \/ Torn(P, FALSE)
        \/ /\ KeepService /\ mode' = mode /\ session' = final
           /\ harness' = AskExit(handle)
           /\ UNCHANGED <<tasks, blocked, orphan, events, faults>>
    BY DEF Close, Commit
  <2> HIDE DEF s1, s2, s3, s4, s5
  <2>2. final \in P /\ (final = s3 \/ (handle = 0 /\ final = s5))
    OBVIOUS
  <2> HIDE DEF final, P
  <2> QED  BY <2>1, <2>2, TornOver
<1>4. \A t \in P : Yields(t)
  <2>1. Turned(session, s2, "closing")
    BY <1>1, ShapesCompose DEF Leaves
  <2>2. Turned(session, s3, "closing") /\ \A t \in PartlyFailed(s2) : Turned(session, t, "closing")
    BY <1>1, <2>1, ShapesCompose
  <2>3. Turned(session, s4, "closed")
    BY <1>1, <2>2, ShapesCompose
  <2>4. Turned(session, s5, "closed")
    BY <1>1, <2>3, ShapesCompose
  <2> HIDE DEF s1, s2, s3, s4, s5
  <2> QED  BY <1>1, <2>2, <2>3, <2>4, Yielding
<1> HIDE DEF s1, s2, s3, s4, s5, P
<1>5. /\ s3.state = "closing" /\ s3.pid = session.pid /\ s3.closing
      /\ s5.state = "closed" /\ s5.pid = session.pid
      /\ Spares(session, s3) /\ Spares(session, s5)
  BY <1>1, <1>2 DEF Leaves, Turned, Spares
<1>6. CASE ~Over(P)
  <2>1. handle = 0 => ~ready /\ ~releasing
    BY DEF HInv, Owned
  <2>2. Patient
    BY <1>1, <1>3, <1>5, <1>6, <2>1
       DEF Patient, Replaced, Awaits, Down, DownStates, KeepService, Spares
  <2>3. Calm
    BY <1>1, <1>3, <1>4, <1>5, <1>6, SameHarness DEF Calm, Heeds, KeepService
  <2> QED  BY <2>2, <2>3, CalmStep
<1> QED  BY <1>4, <1>6, OverStep

(* A sleep: the idle harness is released, or the session that has none      *)
(* sleeps at once.                                                          *)
LEMMA ReleaseStep ==
  ASSUME IInv, HInv, Kept(session, session'), Leaves(session, session'), mode = "up",
         mode' = mode, ready, Release, tasks' = tasks
  PROVE  HInv'
<1>1. Patient /\ session'.pid = session.pid
  BY LeavesPatient DEF Replaced, Release
<1>2. Calm
  BY <1>1, SameHarness, Yielding DEF Calm, Release, Heeds
<1> QED  BY <1>1, <1>2, CalmStep

(* A sleep command.                                                         *)
LEMMA SleepHarness ==
  ASSUME IInv, HInv, Kept(session, session'), NEW r \in Sleeps, Sleep(r)
  PROVE  HInv'
<1> DEFINE s1 == Accept(session, r)
           resting == State(s1, "sleeping", None)
           s2 == IF CanResume(s1) /\ s1.state # "sleeping" THEN resting ELSE s1
           rests == handle = 0 /\ ~Busy(s1)
           final == IF rests THEN Finish(s2, r, "completed") ELSE s1
           P == {session, s1, IF rests THEN s2 ELSE s1} \cup {final}
<1>1. mode = "up" /\ Shaped(session) /\ Leaves(session, s1) /\ Turned(s1, resting, "sleeping")
  <2>1. r # Start
    BY RequestsAssumption DEF RequestsAssumption
  <2> QED  BY <2>1, RecordsTurn, ShapesCompose DEF Sleep, Reaches
<1>2. Leaves(s2, Finish(s2, r, "completed"))
  BY RecordsTurn
<1>3. s1.state = session.state /\ s1.pid = session.pid /\ Shaped(s1)
  BY <1>1 DEF Leaves, Turned
<1>4. CanSleep(s1) => ready /\ ~rests
  BY DEF CanSleep
<1>5. \/ Over(P)
      \/ /\ mode' = mode /\ session' = final /\ tasks' = tasks
         /\ IF CanSleep(s1) THEN Release ELSE Quiet
  BY TornOver DEF Sleep, Commit
<1>6. ~rests => final = s1
  OBVIOUS
<1>7. rests => final = Finish(s2, r, "completed") /\ handle = 0 /\ ~Busy(s1)
  OBVIOUS
<1>8. /\ s1.state \in DownStates \cup {"resuming", "sleeping"} \/ s1.closing => s2 = s1
      /\ s2 \in {s1, resting}
  BY DEF CanResume, DownStates
<1>9. P \subseteq {session, s1, s2, final}
  OBVIOUS
<1> HIDE DEF s1, s2, resting, rests, final, P
<1>10. /\ Yields(session) /\ Yields(s1) /\ Yields(s2)
       /\ Yields(final) /\ Spares(session, final)
  <2>1. Turned(session, resting, "sleeping")
    BY <1>1, ShapesCompose DEF Leaves
  <2>2. Leaves(session, s2) \/ (~Down /\ Turned(session, s2, "sleeping"))
    BY <1>1, <1>3, <1>8, <2>1 DEF Down
  <2>3. Leaves(session, final) \/ (~Down /\ Turned(session, final, "sleeping"))
    <3>1. CASE rests
      BY <1>2, <1>7, <2>2, <3>1, ShapesCompose DEF Leaves
    <3> QED  BY <1>1, <1>6, <3>1
  <2> QED  BY <1>1, <2>2, <2>3, Yielding DEF Leaves, Turned
<1>11. CASE ~Over(P) /\ CanSleep(s1)
  BY <1>1, <1>4, <1>5, <1>6, <1>11, ReleaseStep
<1>12. CASE ~Over(P) /\ ~CanSleep(s1) /\ ~rests
  BY <1>1, <1>5, <1>6, <1>12, CommandKeeps
<1>13. CASE ~Over(P) /\ ~CanSleep(s1) /\ rests
  <2>1. /\ session'.pid = session.pid /\ session'.state \in {session.state, "sleeping"}
        /\ session'.state # session.state =>
             session.state \notin DownStates \cup {"resuming"} /\ ~s1.closing
        /\ session'.state = session.state \/ session'.state = "sleeping"
        /\ session.closing => s1.closing /\ session'.closing
    BY <1>1, <1>2, <1>3, <1>5, <1>7, <1>8, <1>13 DEF Leaves, Turned
  <2>2. Quiet /\ tasks' = tasks /\ mode' = mode /\ handle = 0
    BY <1>5, <1>7, <1>13
  <2>3. session.state \notin {"pending", "starting"}
    BY <1>3, <1>7, <1>13 DEF Busy
  <2>4. Calm
    BY <1>1, <1>5, <1>10, <1>13, <2>1, <2>2 DEF Calm, Heeds, Quiet, KeepService, KeepWorld
  <2>5. CASE ~stopping
    <3>1. Spares(session, session')
      BY <1>5, <1>10, <1>13
    <3>2. Patient
      BY <2>1, <2>2, <2>3, <2>5, <3>1
         DEF Patient, Replaced, Awaits, Down, DownStates, Quiet, KeepService, Spares
    <3> QED  BY <2>4, <3>2, CalmStep
  <2> QED  BY <2>5 DEF Sleep, Reaches
<1>14. \A t \in P : Yields(t)
  BY <1>9, <1>10
<1> QED  BY <1>11, <1>12, <1>13, <1>14, OverStep

(* A sleep that is due, and drains.                                         *)
LEMMA DueHarness ==
  ASSUME IInv, HInv, Kept(session, session'), SleepDue \/ Drain \/ Undrain
  PROVE  HInv'
<1>1. CASE SleepDue
  BY <1>1, ShapesCompose, ReleaseStep DEF SleepDue, CanSleep
<1>2. CASE Drain \/ Undrain
  <2>1. /\ mode = "up" /\ session' = session /\ tasks' = tasks /\ KeepWorld
        /\ UNCHANGED <<mode, handle, ready, releasing, stopping>>
    BY <1>2 DEF Drain, Undrain
  <2>2. Patient /\ session'.pid = session.pid
    BY <2>1, LeavesPatient, ShapesCompose DEF Replaced
  <2>3. Calm
    BY <2>1, Yielding DEF Calm, KeepWorld, Heeds
  <2> QED  BY <2>2, <2>3, CalmStep
<1> QED  BY <1>1, <1>2

(* A planned stop.                                                          *)
LEMMA ShutdownHarness ==
  ASSUME IInv, HInv, Kept(session, session'), Shutdown
  PROVE  HInv'
<1> DEFINE s1 == State(session, "suspended", None)
           final == IF session.state = "resuming" /\ handle = 0 THEN s1 ELSE session
           P == {session} \cup {final}
<1>1. mode = "up" /\ Shaped(session) /\ Turned(session, s1, "suspended")
  BY RecordsTurn, ShapesCompose DEF Shutdown
<1>2. \/ Over(P)
      \/ /\ mode' = mode /\ stopping' = TRUE /\ harness' = AskExit(handle)
         /\ session' = final
         /\ UNCHANGED <<handle, ready, releasing, tasks, orphan, events>>
  BY TornOver DEF Shutdown, Commit
<1>3. final = session \/ (session.state = "resuming" /\ final = s1)
  OBVIOUS
<1> HIDE DEF s1, final
<1>4. \A t \in P : Yields(t)
  BY <1>1, <1>3, Yielding DEF Down, DownStates
<1>5. CASE ~Over(P)
  <2>1. /\ session'.pid = session.pid /\ Spares(session, session') /\ session' \in P
        /\ session' = session \/ (session.state = "resuming" /\ session'.state = "suspended")
    BY <1>1, <1>2, <1>3, <1>5 DEF Turned, Spares
  <2> HIDE DEF P
  <2>2. Patient
    BY <1>2, <1>5, <2>1 DEF Patient, Replaced, Awaits, Down, DownStates, Spares
  <2>3. Calm
    BY <1>1, <1>2, <1>4, <1>5, <2>1, SameHarness DEF Calm, Heeds
  <2> QED  BY <2>2, <2>3, CalmStep
<1> HIDE DEF P
<1> QED  BY <1>4, <1>5, OverStep

-----------------------------------------------------------------------------
(* Starting.                                                                *)

(* A start that goes on, or ends.                                           *)
LEMMA GoesOn ==
  ASSUME IInv, NEW t \in Begun(tasks)
  PROVE  /\ Retire(t) => Replaced
         /\ \A step : /\ step \notin {"waiting", "admitted"} \/ t \in Fresh(tasks)
                      /\ tasks' = Become(t, step)
                      => Replaced
<1>1. Retire(t) => Begun(tasks') \subseteq Begun(tasks) /\ Fresh(tasks') \subseteq Fresh(tasks)
  BY DEF Retire, Begun, Fresh
<1>2. ASSUME NEW step, step \notin {"waiting", "admitted"} \/ t \in Fresh(tasks),
             tasks' = Become(t, step)
      PROVE  Replaced
  <2> DEFINE u == [t EXCEPT !.step = step]
  <2>1. tasks' = (tasks \ {t}) \cup {u}
    BY <1>2 DEF Become
  <2>2. u.step = step
    <3>1. t \in Tasks
      BY DEF Begun, IInv, TypeOK
    <3> QED  BY <3>1 DEF Tasks
  <2> HIDE DEF u
  <2>3. Begun(tasks') \subseteq (Begun(tasks) \ {t}) \cup {u}
    BY <2>1 DEF Begun
  <2>4. Fresh(tasks') \subseteq (Fresh(tasks) \ {t}) \cup (IF t \in Fresh(tasks) THEN {u} ELSE {})
    BY <1>2, <2>1, <2>2 DEF Fresh, Begun
  <2> QED  BY <2>3, <2>4 DEF Replaced
<1> QED  BY <1>1, <1>2 DEF Replaced

(* While a start is pending, before a retry, no startup failed: whatever    *)
(* the start records yields.                                                *)
LEMMA StartYields ==
  ASSUME IInv, HInv, mode = "up", NEW t \in Begun(tasks)
  PROVE  \A s : Spares(session, s) => Yields(s)
BY NonePending DEF Alone, Spares, Yields

(* So does what is not down, and what a ready session records.              *)
LEMMA SparesYield ==
  ASSUME IInv, HInv
  PROVE  /\ \A s : Spares(session, s) /\ (s.state \in DownStates \cup {session.state} \/ ~Down)
                   => Yields(s)
         /\ mode = "up" /\ (ready \/ releasing) => \A s : Spares(session, s) => Yields(s)
BY NonePending DEF HInv, Spent, Alone, Spares, Yields

(* A start that leaves the session's state alone.                           *)
LEMMA StartKeeps ==
  ASSUME IInv, HInv, Kept(session, session'), NEW t \in Begun(tasks), NEW step,
         step \notin {"waiting", "admitted"} \/ t \in Fresh(tasks), tasks' = Become(t, step),
         KeepService, KeepWorld, mode' = mode, Leaves(session, session')
  PROVE  HInv'
<1>1. Replaced
  BY GoesOn
<1>2. Patient /\ session'.pid = session.pid
  BY <1>1, LeavesPatient DEF KeepService
<1>3. Calm
  BY <1>2, Yielding DEF Calm, KeepService, KeepWorld, Heeds, Begun
<1> QED  BY <1>2, <1>3, CalmStep

(* A start waits for room on the disk.                                      *)
LEMMA AdmitHarness ==
  ASSUME IInv, HInv, Kept(session, session'), NEW t, Admit(t)
  PROVE  HInv'
<1> DEFINE s1 == State(session, "suspended", None)
           final == IF t.kind = "relaunch" /\ ~session.closing THEN s1 ELSE session
           P == {session} \cup {final}
<1>1. mode = "up" /\ t \in Begun(tasks) /\ t \in Fresh(tasks) /\ Shaped(session)
      /\ Turned(session, s1, "suspended")
  BY ShapesCompose, RecordsTurn DEF Admit, Starts, Begun, Fresh
<1>2. \/ Over(P)
      \/ Retire(t) /\ Quiet /\ mode' = mode /\ session' = final /\ Gone
      \/ tasks' = Become(t, "admitted") /\ Quiet /\ session' = session /\ mode' = mode
  BY TornOver DEF Admit, Commit, Same
<1>3. final = session \/ (~session.closing /\ final = s1)
  OBVIOUS
<1> HIDE DEF s1, final
<1>4. \A s \in P : Yields(s)
  <2>1. Spares(session, session) /\ Spares(session, s1)
    BY <1>1 DEF Turned, Spares
  <2> QED  BY <1>1, <1>3, <2>1, StartYields
<1> HIDE DEF P
<1>5. CASE Retire(t) /\ Quiet /\ mode' = mode /\ session' = final /\ Gone
  <2>1. Replaced
    BY <1>1, <1>5, GoesOn
  <2>2. /\ session'.pid = session.pid /\ Spares(session, session')
        /\ session' = session \/ (stopping /\ session'.state = "suspended")
    BY <1>1, <1>3, <1>5 DEF Turned, Spares, Gone
  <2>3. Patient
    BY <1>1, <1>5, <2>1, <2>2
       DEF Patient, Awaits, Down, DownStates, Quiet, KeepService, Spares
  <2>4. Calm
    BY <1>1, <1>5, <2>2, StartYields DEF Calm, Quiet, KeepService, KeepWorld, Heeds
  <2> QED  BY <2>3, <2>4, CalmStep
<1>6. CASE tasks' = Become(t, "admitted") /\ Quiet /\ session' = session /\ mode' = mode
  BY <1>1, <1>6, StartKeeps, ShapesCompose DEF Quiet
<1> QED  BY <1>2, <1>4, <1>5, <1>6, OverStep

(* A start that is not wanted any more.                                     *)
LEMMA DroppedHarness ==
  ASSUME IInv, HInv, Kept(session, session'), NEW t, SpawnDropped(t) \/ RelaunchDropped(t)
  PROVE  HInv'
<1>1. mode = "up" /\ Retire(t) /\ Quiet /\ session' = session /\ mode' = mode
  BY DEF SpawnDropped, RelaunchDropped, Same
<1>2. Begun(tasks') \subseteq Begun(tasks)
  BY <1>1 DEF Begun, Retire
<1> QED  BY <1>1, <1>2, CommandKeeps, ShapesCompose

(* A start that cannot spawn.                                               *)
LEMMA SpawnFailsHarness ==
  ASSUME IInv, HInv, Kept(session, session'), NEW t, SpawnFails(t)
  PROVE  HInv'
<1> DEFINE s1 == State(session, "starting", None)
<1>1. /\ mode = "up" /\ t \in Begun(tasks) /\ t \in Fresh(tasks) /\ Shaped(session)
      /\ Turned(session, s1, "starting")
  BY ShapesCompose, RecordsTurn DEF SpawnFails, Starts, Begun, Fresh
<1>2. /\ tasks' = Become(t, "error") /\ KeepService /\ KeepWorld /\ mode' = mode
      /\ session' = session \/ session' = s1
  BY DEF SpawnFails
<1> HIDE DEF s1
<1>3. Replaced
  BY <1>1, <1>2, GoesOn
<1>4. /\ session'.pid = session.pid /\ Spares(session, session')
      /\ session' = session \/ session'.state = "starting"
  BY <1>1, <1>2 DEF Turned, Spares
<1>5. Patient
  BY <1>1, <1>2, <1>3, <1>4 DEF Patient, Awaits, Down, DownStates, KeepService, Spares
<1>6. Calm
  BY <1>1, <1>2, <1>4, StartYields DEF Calm, KeepService, KeepWorld, Heeds
<1> QED  BY <1>5, <1>6, CalmStep

(* A start that spawned a harness was the only one, and no harness ran.     *)
LEMMA SpawnHarness ==
  ASSUME IInv, HInv, Kept(session, session'), NEW t, Spawn(t)
  PROVE  HInv'
<1> DEFINE starting == State(session, "starting", None)
           claimed == IF t.kind = "launch" THEN starting ELSE session
           final == Pid(claimed, TRUE)
           id == harness.id + 1
           u == [t EXCEPT !.step = "starting", !.harness = id]
           P == {session, claimed} \cup {final}
<1>1. mode = "up" /\ t \in Begun(tasks) /\ t \in Fresh(tasks) /\ session \in Sessions
  BY DEF Spawn, Starts, Begun, Fresh, IInv, TypeOK
<1>2. \/ Over(P) \/ Over({claimed})
      \/ /\ session' = final /\ mode' = mode
         /\ harness' = [NoHarness EXCEPT !.id = id, !.live = TRUE]
         /\ orphan' = (orphan \/ harness.live) /\ handle' = id /\ events' = <<>>
         /\ tasks' = (tasks \ {t}) \cup {u}
         /\ UNCHANGED <<ready, releasing, stopping>>
  BY TornOver DEF Spawn, Commit
<1>3. harness.id \in Nat
  BY SessionAssumption DEF SessionAssumption, IInv, TypeOK, WorldType, Processes, HarnessIds
<1>4. /\ final.pid = TRUE /\ final.closing = session.closing
      /\ final.state \in {session.state, "starting"}
      /\ Spares(session, claimed) /\ Spares(session, final)
  BY <1>1 DEF Pid, State, Sessions, Spares
<1>5. \A s \in P : Yields(s)
  <2> HIDE DEF claimed, final
  <2>1. Spares(session, session)
    BY DEF Spares
  <2> QED  BY <1>1, <1>4, <2>1, StartYields
<1>6. CASE ~Over(P) /\ ~Over({claimed})
  <2>1. Yields(session') /\ session' = final
    BY <1>2, <1>5, <1>6
  <2>2. harness'.id = id /\ harness'.live = TRUE /\ DOMAIN <<>> = {}
    <3>1. /\ [NoHarness EXCEPT !.id = id, !.live = TRUE].id = id
          /\ [NoHarness EXCEPT !.id = id, !.live = TRUE].live = TRUE
      BY DEF NoHarness
    <3>2. DOMAIN <<>> = {}
      OBVIOUS
    <3> QED  BY <1>2, <1>6, <3>1, <3>2
  <2>3. u.step = "starting"
    <3>1. t \in Tasks
      BY <1>1 DEF Begun, IInv, TypeOK
    <3> QED  BY <3>1 DEF Tasks
  <2> HIDE DEF claimed, final, u, P
  <2>4. Owned'
    BY <1>1, <1>2, <1>3, <1>4, <1>6, <2>2 DEF Owned
  <2>5. ASSUME RetriedOnce' PROVE ~orphan' /\ Alone'
    <3>1. Alone /\ Retried \subseteq Retried' /\ Owned
      BY <1>1, <2>5, KeptRetries DEF HInv
    <3>2. /\ \A v \in Begun(tasks) : v = t
          /\ Awaits /\ ~ready /\ ~releasing /\ handle = 0 /\ ~orphan
          /\ Retried = {} => session.startup = "none"
      BY <1>1, <3>1 DEF Alone
    <3>3. ~orphan'
      BY <1>2, <1>6, <3>1, <3>2 DEF Owned
    <3>4. Begun(tasks') \subseteq {u} /\ Fresh(tasks') = {}
      BY <1>2, <1>6, <2>3, <3>2 DEF Fresh, Begun
    <3>5. ~ready' /\ ~releasing' /\ Awaits'
      BY <1>2, <1>4, <1>6, <2>1, <3>2 DEF Awaits, Down, DownStates
    <3>6. session'.state # "sleeping" /\ (Retried' = {} => session'.startup = "none")
      BY <1>4, <2>1, <3>1, <3>2 DEF Awaits, Spares
    <3> QED  BY <3>3, <3>4, <3>5, <3>6 DEF Alone
  <2> QED  BY <2>1, <2>4, <2>5, YieldsSpent DEF HInv, OneHarness
<1>7. \A s \in {claimed} : Yields(s)
  BY <1>5
<1> HIDE DEF claimed, P
<1> QED  BY <1>5, <1>6, <1>7, OverStep

(* The handshake.                                                           *)
LEMMA HandshakeHarness ==
  ASSUME IInv, HInv, Kept(session, session'), NEW t, Handshake(t)
  PROVE  HInv'
<1>1. /\ t \in Begun(tasks) /\ KeepService /\ KeepWorld /\ mode' = mode /\ session' = session
      /\ \E step \in {"ready", "error", "timeout"} : tasks' = Become(t, step)
  BY DEF Handshake, Starts, Begun, Same
<1> QED  BY <1>1, StartKeeps, ShapesCompose

(* A harness that is ready: its session is, and goes on.                    *)
LEMMA RunsHarness ==
  ASSUME IInv, HInv, Kept(session, session'), mode = "up", handle # 0, NEW t \in Begun(tasks),
         NEW now, Turned(session, now, "idle"),
         NEW partial, \A s \in partial : Spares(session, s), Runs(t, partial, now)
  PROVE  HInv'
<1> DEFINE final == Advanced(now, handle, TRUE, TRUE)
           P == (partial \cup {now}) \cup {final}
<1>1. /\ Shaped(now) /\ now.state = "idle" /\ now.pid = session.pid
      /\ Spares(session, now)
  BY ShapesCompose DEF Turned
<1>2. ~Wakes(now, handle)
  BY <1>1 DEF Wakes
<1>3. /\ final.pid = session.pid /\ final.state # "sleeping" /\ final.state \notin DownStates
      /\ Spares(session, final)
  <2>1. \A st, p : /\ State(now, st, p).pid = now.pid /\ State(now, st, p).state = st
                   /\ Spares(now, State(now, st, p))
    <3>1. \A st, p : Turned(now, State(now, st, p), st)
      BY RecordsTurn
    <3> QED  BY <1>1, <3>1 DEF Turned
  <2>2. \/ final = now
        \/ \E p : \E st \in {"starting_turn", "interrupting", "running", "idle"} :
             final = State(now, st, p)
    BY <1>2 DEF Advanced, Rests
  <2> HIDE DEF final
  <2> QED  BY <1>1, <2>1, <2>2 DEF DownStates, Spares
<1>4. \A s \in P : Yields(s)
  BY <1>1, <1>3, StartYields
<1>5. CASE ~Over(P)
  <2>1. /\ session' = final /\ mode' = mode /\ KeepWorld
        /\ tasks' = (tasks \ {t}) \cup AdvanceTasks(now, handle, TRUE, TRUE)
        /\ UNCHANGED <<handle, releasing>>
    BY <1>5, TornOver DEF Runs, Commit
  <2>2. Begun(tasks') \subseteq Begun(tasks) \ {t}
    BY <1>2, <2>1, NoAdvance DEF Begun
  <2> HIDE DEF final
  <2> QED  BY <1>3, <1>4, <2>1, <2>2, ReadyStep DEF KeepWorld
<1> HIDE DEF P
<1> QED  BY <1>4, <1>5, OverStep

(* A launch that is ready.                                                  *)
LEMMA LaunchReadyHarness ==
  ASSUME IInv, HInv, Kept(session, session'), NEW t, LaunchReady(t)
  PROVE  HInv'
<1> DEFINE s1 == Native(session)
           s2 == State(s1, "idle", None)
           s3 == Finish(s2, Start, "completed")
           s4 == FinishAll(s3, Accepted(Stops), "completed")
<1>1. mode = "up" /\ t \in Begun(tasks) /\ Leaves(session, s1)
  BY RecordsTurn DEF LaunchReady, Starts, Begun
<1>2. /\ Turned(session, s2, "idle") /\ Turned(session, s3, "idle")
      /\ Turned(session, s4, "idle")
  <2>1. Turned(s1, s2, "idle") /\ Leaves(s2, s3) /\ Leaves(s3, s4)
    BY RecordsTurn
  <2> HIDE DEF s1, s2, s3, s4
  <2> QED  BY <1>1, <2>1, ShapesCompose DEF Leaves
<1>3. CASE handle = 0
  <2>1. Over({session} \cup {s1})
          \/ (session' = s1 /\ tasks' = Become(t, "error") /\ Quiet /\ mode' = mode)
    BY <1>3, TornOver DEF LaunchReady, Commit
  <2>2. \A s \in {session} \cup {s1} : Yields(s)
    BY <1>1, Yielding
  <2> HIDE DEF s1
  <2> QED  BY <1>1, <2>1, <2>2, OverStep, StartKeeps DEF Quiet
<1>4. CASE handle # 0
  <2>1. Runs(t, {session, s1, s2, s3}, s4)
    BY <1>4 DEF LaunchReady
  <2> HIDE DEF s1, s2, s3, s4
  <2>2. \A s \in {session, s1, s2, s3} : Spares(session, s)
    BY <1>1, <1>2, ShapesCompose DEF Leaves, Turned, Spares
  <2> QED  BY <1>1, <1>2, <1>4, <2>1, <2>2, RunsHarness
<1> QED  BY <1>3, <1>4

(* A relaunch that is ready.                                                *)
LEMMA RelaunchReadyHarness ==
  ASSUME IInv, HInv, Kept(session, session'), NEW t, RelaunchReady(t)
  PROVE  HInv'
<1> DEFINE s1 == State(session, "idle", None)
           s2 == FinishAll(s1, Accepted(Resumes), "completed")
           s3 == StoragePaused(s2, FALSE)
<1>1. mode = "up" /\ t \in Begun(tasks) /\ Turned(session, s1, "idle")
  BY RecordsTurn DEF RelaunchReady, Starts, Begun
<1>2. Turned(session, s2, "idle") /\ Turned(session, s3, "idle")
  <2>1. Leaves(s1, s2) /\ Leaves(s2, s3)
    BY RecordsTurn
  <2> HIDE DEF s1, s2, s3
  <2> QED  BY <1>1, <2>1, ShapesCompose
<1>3. CASE handle = 0
  <2>1. session' = session /\ tasks' = Become(t, "error") /\ Quiet /\ mode' = mode
    BY <1>3 DEF RelaunchReady, Same
  <2> QED  BY <1>1, <2>1, StartKeeps, ShapesCompose DEF Quiet
<1>4. CASE handle # 0
  <2>1. Runs(t, {session, s1, s2}, s3)
    BY <1>4 DEF RelaunchReady
  <2> HIDE DEF s1, s2, s3
  <2>2. \A s \in {session, s1, s2} : Spares(session, s)
    BY <1>1, <1>2, ShapesCompose DEF Turned, Spares
  <2> QED  BY <1>1, <1>2, <1>4, <2>1, <2>2, RunsHarness
<1> QED  BY <1>3, <1>4

(* A start that failed: it was the only one.                                *)
LEMMA GiveUpHarness ==
  ASSUME IInv, HInv, Kept(session, session'), mode = "up", mode' = mode, NEW t \in Begun(tasks),
         t \notin Fresh(tasks), GiveUp(t),
         Leaves(session, session') \/ Falls(session, session')
           \/ Turned(session, session', "failed")
  PROVE  HInv'
<1>1. Replaced /\ stopping' = stopping
  BY GoesOn DEF GiveUp, KeepService
<1>2. Shaped(session)
  BY ShapesCompose
<1>3. session'.pid = session.pid
  BY <1>2 DEF Leaves, Turned, Falls
<1>4. ASSUME RetriedOnce PROVE Patient
  <2>1. CASE Leaves(session, session')
    BY <1>1, <2>1, LeavesPatient
  <2>2. CASE ~Leaves(session, session')
    <3>1. session'.state \in DownStates
      BY <1>2, <2>2 DEF Turned, Falls, DownStates
    <3>2. Begun(tasks) = {t} /\ ~ready' /\ ~releasing'
      BY <1>4 DEF HInv, Alone, GiveUp, KeepService
    <3>3. Begun(tasks') = {}
      BY <3>2 DEF GiveUp, Retire, Begun
    <3> QED  BY <1>1, <3>1, <3>2, <3>3 DEF Patient, Awaits, Down, DownStates
  <2> QED  BY <2>1, <2>2
<1>5. Yields(session')
  BY Yielding DEF DownStates
<1>6. Calm
  BY <1>3, <1>5, SameHarness DEF Calm, GiveUp, KeepService, Heeds
<1> QED  BY <1>4, <1>6, CalmStep

(* A launch that failed.                                                    *)
LEMMA LaunchErrorHarness ==
  ASSUME IInv, HInv, Kept(session, session'), NEW t, LaunchError(t)
  PROVE  HInv'
<1> DEFINE s1 == Finish(session, Start, "failed")
           s2 == State(s1, "failed", None)
           s3 == FailPending(s2)
           P == ({session, s1} \cup PartlyFailed(s2)) \cup {s3}
<1>1. mode = "up" /\ t \in Begun(tasks) /\ t \notin Fresh(tasks)
  BY DEF LaunchError, Starts, Begun, Fresh
<1>2. Over(P) \/ (session' = s3 /\ mode' = mode /\ GiveUp(t))
  BY TornOver DEF LaunchError, Commit
<1>3. /\ Leaves(session, s1) /\ Turned(s1, s2, "failed") /\ Leaves(s2, s3)
      /\ \A s \in PartlyFailed(s2) : Leaves(s2, s)
  BY RecordsTurn
<1> HIDE DEF s1, s2, s3
<1>4. /\ Turned(session, s3, "failed")
      /\ \A s \in PartlyFailed(s2) : Turned(session, s, "failed")
  <2>1. Turned(session, s2, "failed")
    BY <1>3, ShapesCompose DEF Leaves
  <2> QED  BY <1>3, <2>1, ShapesCompose
<1>5. \A s \in P : Yields(s)
  BY <1>3, <1>4, Yielding DEF DownStates
<1> HIDE DEF P
<1> QED  BY <1>1, <1>2, <1>4, <1>5, OverStep, GiveUpHarness

(* A relaunch that failed.                                                  *)
LEMMA RelaunchErrorHarness ==
  ASSUME IInv, HInv, Kept(session, session'), NEW t, RelaunchError(t)
  PROVE  HInv'
<1> DEFINE timeout == t.step = "timeout"
           s1 == Lost(session, IF timeout THEN "startup_timeout" ELSE "resume_failed")
           failed == FailPending(s1)
           s2 == IF timeout THEN s1 ELSE failed
           s3 == FinishAll(s2, Accepted(Resumes), "failed")
           P == {session, s2, s3} \cup PartlyFailed(s1)
<1>1. mode = "up" /\ t \in Begun(tasks) /\ t \notin Fresh(tasks)
  BY DEF RelaunchError, Starts, Begun, Fresh
<1>2. /\ Falls(session, s1) /\ Leaves(s1, failed) /\ Leaves(s2, s3)
      /\ \A s \in PartlyFailed(s1) : Leaves(s1, s)
  BY RecordsTurn
<1>3. s2 \in {s1, failed}
  OBVIOUS
<1>4. \/ \E Q \in SUBSET P : Over(Q)
      \/ session' \in {session, s3} /\ mode' = mode /\ GiveUp(t)
  <2>1. /\ ({session, s2} \cup (IF timeout THEN {} ELSE PartlyFailed(s1))) \cup {s3} \subseteq P
        /\ {} \cup {session} \subseteq P
    OBVIOUS
  <2> QED  BY <2>1, TornOver DEF RelaunchError, Commit
<1> HIDE DEF s1, failed, s2, s3
<1>5. Falls(session, s3) /\ \A s \in P : s = session \/ Falls(session, s)
  <2>1. Falls(session, s2)
    BY <1>2, <1>3, ShapesCompose
  <2> QED  BY <1>2, <2>1, ShapesCompose
<1>6. \A s \in P : Yields(s)
  BY <1>5, Yielding
<1> HIDE DEF P
<1> QED  BY <1>1, <1>4, <1>5, <1>6, OverStep, GiveUpHarness, ShapesCompose

-----------------------------------------------------------------------------
(* Calls, events and the guard.                                             *)

(* A step that starts nothing, and leaves the handle and the state alone.   *)
LEMMA AsideStep ==
  ASSUME IInv, HInv, Kept(session, session'), Leaves(session, session'), mode' = mode,
         UNCHANGED <<handle, ready, releasing, stopping, orphan>>,
         harness'.id = harness.id, harness'.live = harness.live, Heeds,
         Begun(tasks') \subseteq Begun(tasks), tasks = {} => tasks' = {}
  PROVE  HInv'
<1>1. Replaced
  BY DEF Replaced, Fresh
<1>2. Patient /\ session'.pid = session.pid
  BY <1>1, LeavesPatient
<1>3. Calm
  BY <1>2, Yielding DEF Calm
<1> QED  BY <1>2, <1>3, CalmStep

(* Calls of the harness, whatever comes of them.                            *)
LEMMA SendHarness ==
  ASSUME IInv, HInv, Kept(session, session'), NEW t,
         SendPrompt(t) \/ SendInterrupt(t) \/ SendCompact(t)
  PROVE  HInv'
<1>1. /\ t \in tasks /\ t.kind \in {"deliver", "interrupt", "compact"}
      /\ KeepRest /\ \E step : tasks' = Become(t, step)
  BY DEF SendPrompt, SendInterrupt, SendCompact, Calls, Unanswered, Refused, Taken
<1>2. harness \in Processes /\ t \in Tasks
  BY <1>1 DEF IInv, TypeOK, WorldType
<1>3. Begun(tasks') \subseteq Begun(tasks)
  <2>1. \A step : [t EXCEPT !.step = step].kind = t.kind
    BY <1>2 DEF Tasks
  <2> QED  BY <1>1, <2>1 DEF Begun, Become
<1>4. harness'.id = harness.id /\ harness'.live = harness.live
  BY <1>2 DEF SendPrompt, SendInterrupt, SendCompact, Unanswered, Refused, NoEffect, Processes
<1>5. Heeds
  <2>1. CASE events' = events
    BY <2>1 DEF Heeds
  <2>2. CASE events' # events
    <3> DEFINE e == Event("started", t.request, "")
    <3>1. events' = Append(events, e) /\ t.kind = "deliver" /\ harness.live
      BY <2>2 DEF SendPrompt, SendInterrupt, SendCompact, Unanswered, Refused, NoEffect, Taken,
                  Heard, Reachable, Running, Calls
    <3>2. t.request \in Prompts
      BY <1>1, <3>1 DEF IInv, TasksOK, TaskOK
    <3>3. e \in Events /\ e.kind = "started" /\ e.harness = harness.id
      BY <1>2, <3>2 DEF Event, Events, Processes
    <3> QED  BY <3>1, <3>3 DEF Heeds
  <2> QED  BY <2>1, <2>2
<1> QED  BY <1>1, <1>3, <1>4, <1>5, AsideStep, ShapesCompose DEF KeepRest, KeepService

(* The answers of calls.                                                    *)
LEMMA RecordReplyHarness ==
  ASSUME IInv, HInv, Kept(session, session'), NEW t, RecordReply(t)
  PROVE  HInv'
<1> DEFINE s1 == Finish(session, t.request, t.step)
           ended == t.kind = "deliver"
           P == {session, s1, Advanced(s1, handle, ready, ended)}
<1>1. mode = "up" /\ Leaves(session, s1)
  BY RecordsTurn DEF RecordReply
<1>2. \/ \E Q \in SUBSET P : Over(Q)
      \/ /\ session' \in {session, s1} /\ Retire(t) /\ Quiet /\ mode' = mode
      \/ /\ session' = Advanced(s1, handle, ready, ended) /\ Quiet /\ mode' = mode
         /\ tasks' = (tasks \ {t}) \cup AdvanceTasks(s1, handle, ready, ended)
  <2>1. /\ {session} \cup {s1} \subseteq P
        /\ {session, s1} \cup {Advanced(s1, handle, ready, ended)} \subseteq P
    OBVIOUS
  <2> QED  BY <2>1, TornOver DEF RecordReply, Commit, Same
<1> HIDE DEF s1, ended
<1>3. CASE session' \in {session, s1} /\ Retire(t) /\ Quiet /\ mode' = mode
  <2>1. Begun(tasks') \subseteq Begun(tasks)
    BY <1>3 DEF Retire, Begun
  <2> QED  BY <1>1, <1>3, <2>1, CommandKeeps, ShapesCompose
<1>4. CASE /\ session' = Advanced(s1, handle, ready, ended) /\ Quiet /\ mode' = mode
           /\ tasks' = (tasks \ {t}) \cup AdvanceTasks(s1, handle, ready, ended)
  BY <1>1, <1>4, AdvanceKeeps DEF Quiet, KeepService, KeepWorld, Heeds
<1>5. \A s \in P : Yields(s)
  BY <1>1, Yielding, AdvanceYields
<1> HIDE DEF P
<1> QED  BY <1>2, <1>3, <1>4, <1>5, OverStep

(* The second part of a resume.                                             *)
LEMMA AdvanceLaterHarness ==
  ASSUME IInv, HInv, Kept(session, session'), NEW t, AdvanceLater(t)
  PROVE  HInv'
<1> DEFINE P == {session} \cup {Advanced(session, handle, ready, FALSE)}
<1>1. mode = "up" /\ Leaves(session, session)
  BY ShapesCompose DEF AdvanceLater
<1>2. \/ Over(P)
      \/ /\ session' = Advanced(session, handle, ready, FALSE) /\ Quiet /\ mode' = mode
         /\ tasks' = (tasks \ {t}) \cup AdvanceTasks(session, handle, ready, FALSE)
  BY TornOver DEF AdvanceLater, Commit
<1>3. CASE ~Over(P)
  BY <1>1, <1>2, <1>3, AdvanceKeeps DEF Quiet, KeepService, KeepWorld, Heeds
<1>4. \A s \in P : Yields(s)
  BY <1>1, Yielding, AdvanceYields
<1> HIDE DEF P
<1> QED  BY <1>3, <1>4, OverStep

(* What the harness process does.                                           *)
LEMMA ProcessHarness ==
  ASSUME IInv, HInv, Kept(session, session'), Harness
  PROVE  HInv'
<1>1. harness \in Processes
  BY DEF IInv, TypeOK, WorldType
<1>2. CASE HarnessExits
  <2>1. (~harness.frozen) \in BOOLEAN
    BY <1>1 DEF Processes
  <2> QED  BY <1>2, <2>1, ExitStep DEF HarnessExits
<1>3. CASE HarnessCrashes
  BY <1>3, ExitStep DEF HarnessCrashes
<1>4. CASE HarnessFinishes \/ HarnessCompacts
  <2>1. \E e \in Events : e.kind # "exited" /\ e.harness = harness.id /\ events' = Append(events, e)
    <3>1. CASE HarnessFinishes
      <4>1. PICK status \in {"completed", "interrupted", "failed"} :
              events' = Append(events, Event("finished", harness.turn, status))
        BY <3>1 DEF HarnessFinishes, Emit
      <4>2. Event("finished", harness.turn, status) \in Events
        BY <1>1, <3>1 DEF HarnessFinishes, Event, Events, Processes
      <4> QED  BY <4>1, <4>2 DEF Event
    <3>2. CASE HarnessCompacts
      <4>1. PICK status \in {"completed", "failed"} :
              events' = Append(events, Event("compacted", None, status))
        BY <3>2 DEF HarnessCompacts, Emit
      <4>2. Event("compacted", None, status) \in Events
        BY <1>1 DEF Event, Events, Processes
      <4> QED  BY <4>1, <4>2 DEF Event
    <3> QED  BY <1>4, <3>1, <3>2
  <2>2. /\ harness.live /\ harness'.id = harness.id /\ harness'.live = harness.live
        /\ session' = session /\ mode' = mode /\ tasks' = tasks
        /\ UNCHANGED <<handle, ready, releasing, stopping, orphan>>
    BY <1>1, <1>4 DEF HarnessFinishes, HarnessCompacts, Acts, KeepAll, KeepService, Same, Processes
  <2> QED  BY <2>1, <2>2, AsideStep, ShapesCompose DEF Heeds
<1>5. CASE HarnessForks
  <2>1. /\ harness'.id = harness.id /\ harness'.live = harness.live
        /\ session' = session /\ mode' = mode /\ tasks' = tasks
        /\ UNCHANGED <<handle, ready, releasing, stopping, orphan, events>>
    BY <1>5, ForkStep DEF KeepService
  <2> QED  BY <2>1, AsideStep, ShapesCompose DEF Heeds
<1> QED  BY <1>2, <1>3, <1>4, <1>5 DEF Harness

(* The guard, and the age of its sample.                                    *)
LEMMA GuardHarness ==
  ASSUME IInv, HInv, Kept(session, session'), GuardLoop \/ SampleExpires
  PROVE  HInv'
<1>1. CASE GuardLooks \/ SampleExpires
  <2>1. /\ session' = session /\ mode' = mode
        /\ UNCHANGED <<handle, ready, releasing, stopping, orphan, tasks, harness, events>>
    BY <1>1 DEF GuardLooks, SampleExpires, Same, KeepService
  <2> QED  BY <2>1, AsideStep, ShapesCompose DEF Heeds
<1>2. CASE GuardPauses
  <2> DEFINE s1 == StoragePaused(session, TRUE)
             P  == {session} \cup {s1}
  <2>1. Leaves(session, s1)
    BY RecordsTurn
  <2>2. \/ Over(P)
        \/ /\ session' = s1 /\ mode' = mode /\ tasks' = tasks /\ Freeze(guard.harness, TRUE)
    BY <1>2, TornOver DEF GuardPauses, Commit
  <2> HIDE DEF s1
  <2>3. CASE ~Over(P)
    <3>1. /\ harness'.id = harness.id /\ harness'.live = harness.live
          /\ UNCHANGED <<handle, ready, releasing, stopping, orphan, events>>
      BY <2>2, <2>3, SameHarness DEF Freeze
    <3> QED  BY <2>1, <2>2, <2>3, <3>1, AsideStep DEF Heeds
  <2>4. \A s \in P : Yields(s)
    BY <2>1, Yielding
  <2> HIDE DEF P
  <2> QED  BY <2>3, <2>4, OverStep
<1>3. CASE GuardResumes
  <2> DEFINE s1 == StoragePaused(session, FALSE)
             P  == {session, s1} \cup {Advanced(s1, handle, ready, FALSE)}
  <2>1. Leaves(session, s1) /\ mode = "up"
    BY <1>3, RecordsTurn DEF GuardResumes
  <2>2. \/ Over(P)
        \/ /\ session' = Advanced(s1, handle, ready, FALSE) /\ mode' = mode
           /\ tasks' = tasks \cup AdvanceTasks(s1, handle, ready, FALSE)
           /\ Freeze(guard.harness, FALSE)
    BY <1>3, TornOver DEF GuardResumes, Commit
  <2> HIDE DEF s1
  <2>3. CASE ~Over(P)
    <3>1. /\ harness'.id = harness.id /\ harness'.live = harness.live
          /\ UNCHANGED <<handle, ready, releasing, stopping, orphan, events>>
      BY <2>2, <2>3, SameHarness DEF Freeze
    <3> QED  BY <2>1, <2>2, <2>3, <3>1, AdvanceKeeps DEF Heeds
  <2>4. \A s \in P : Yields(s)
    BY <2>1, Yielding, AdvanceYields
  <2> HIDE DEF P
  <2> QED  BY <2>3, <2>4, OverStep
<1> QED  BY <1>1, <1>2, <1>3 DEF GuardLoop

(* A boot: no harness runs, and what ran before is cleared.                 *)
LEMMA BootHarness ==
  ASSUME IInv, HInv, Kept(session, session'), Boots
  PROVE  HInv'
<1>1. /\ mode \in {"down", "opened"} /\ handle = 0 /\ tasks = {} /\ ~harness.live
      /\ ~ready /\ ~releasing /\ events = <<>> /\ DOMAIN events = {}
  <2>1. mode \in {"down", "opened"} /\ DOMAIN <<>> = {}
    BY DEF Boots, Open, OpenUnreadable, Restore
  <2> QED  BY <2>1 DEF HInv, Owned
<1>2. /\ handle' = 0 /\ ~ready' /\ ~releasing'
      /\ events' = <<>> /\ DOMAIN events' = {} /\ harness' = harness
  BY <1>1 DEF Boots, Open, OpenUnreadable, Restore, KeepService, KeepWorld
<1>3. CASE Open \/ OpenUnreadable
  <2>1. mode' = "opened" /\ tasks' = {}
    BY <1>1, <1>3 DEF Open, OpenUnreadable
  <2>2. Yields(session')
    <3>1. CASE Open
      <4> DEFINE settled == Settled(session)
      <4>1. settled.state = session.state /\ settled.startup = session.startup
            /\ Shaped(session) /\ Shaped(settled)
        BY ShapesCompose DEF Settled, Shaped
      <4>2. \A st : Turned(settled, State(settled, st, None), st)
        BY RecordsTurn
      <4> HIDE DEF settled
      <4>3. \/ session' = session \/ session' = settled
            \/ ~Down /\ \E st : session' = State(settled, st, None)
        BY <3>1 DEF Open, Reopened, Down, DownStates, settled
      <4>4. Spares(session, session') /\ (session'.state = session.state \/ ~Down)
        BY <4>1, <4>2, <4>3 DEF Turned, Spares
      <4> QED  BY <4>4, SparesYield
    <3>2. CASE OpenUnreadable
      <4> DEFINE lost == State(session, "process_lost", None)
      <4>1. Turned(session, lost, "process_lost") /\ Leaves(lost, FailPending(lost))
            /\ session' = FailPending(lost)
        BY <3>2, RecordsTurn DEF OpenUnreadable
      <4>2. Turned(session, session', "process_lost")
        BY <4>1, ShapesCompose
      <4> QED  BY <4>2, Yielding DEF DownStates
    <3> QED  BY <1>3, <3>1, <3>2
  <2> QED  BY <1>1, <1>2, <2>1, <2>2, YieldsSpent DEF HInv, Owned, OneHarness
<1>4. CASE Restore
  <2> DEFINE awaken == State(session, "resuming", None)
             rest   == State(session, "sleeping", None)
  <2>1. /\ mode' = "up" /\ orphan' = FALSE /\ Turned(session, awaken, "resuming")
        /\ Turned(session, rest, "sleeping") /\ Shaped(session)
    BY <1>4, RecordsTurn, ShapesCompose DEF Restore
  <2>2. PICK awake \in BOOLEAN :
          /\ session' = IF CanResume(session) THEN (IF awake THEN awaken ELSE rest) ELSE session
          /\ tasks' = CASE WaitingStart(session)        -> {Launch}
                        [] awake /\ CanResume(session) -> {Relaunch}
                        [] OTHER                       -> {}
    <3>1. \E awake \in BOOLEAN :
            /\ session' = IF CanResume(session)
                            THEN State(session, IF awake THEN "resuming" ELSE "sleeping", None)
                            ELSE session
            /\ tasks' = CASE WaitingStart(session)        -> {Launch}
                          [] awake /\ CanResume(session) -> {Relaunch}
                          [] OTHER                       -> {}
      BY <1>4 DEF Restore
    <3> QED  BY <3>1
  <2>3. WaitingStart(session) => session.state = "pending" /\ ~CanResume(session)
    BY DEF WaitingStart, CanResume
  <2> HIDE DEF awaken, rest
  <2>4. tasks' # {} => session'.state \in {"pending", "resuming"}
    BY <2>1, <2>2, <2>3 DEF Turned
  <2>5. \A t, u \in tasks' : t = u
    BY <2>2, <2>3
  <2>6. /\ \A t, u \in Begun(tasks') : t = u
        /\ Begun(tasks') # {} \/ Fresh(tasks') # {} => tasks' # {}
    BY <2>5 DEF Fresh, Begun
  <2>7. Yields(session')
    <3>1. CanResume(session) => ~Down
      BY DEF CanResume, Down, DownStates
    <3>2. Spares(session, session') /\ (session' = session \/ ~Down)
      BY <2>1, <2>2, <3>1 DEF Turned, Spares
    <3> QED  BY <3>2, SparesYield
  <2>8. Spent'
    BY <2>7, YieldsSpent
  <2>9. Alone'
    BY <1>2, <2>1, <2>4, <2>6, <2>8 DEF Alone, Awaits, Spent, Down, DownStates
  <2>10. Owned' /\ OneHarness'
    BY <1>1, <1>2, <2>1 DEF Owned, OneHarness
  <2> QED  BY <2>8, <2>9, <2>10 DEF HInv
<1> QED  BY <1>3, <1>4 DEF Boots

-----------------------------------------------------------------------------
(* What the session records of its harness.                                 *)

(* An event that is no exit is taken off.                                   *)
LEMMA HeedsFront ==
  ASSUME IInv, NEW kind, Records(kind), kind # "exited", Heed
  PROVE  /\ Heeds /\ harness'.id = harness.id /\ harness'.live = harness.live
         /\ orphan' = orphan /\ mode = "up"
BY DEF Records, Heed, Heeds

(* A turn that started.                                                     *)
LEMMA RecordStartedHarness ==
  ASSUME IInv, HInv, Kept(session, session'), RecordStarted
  PROVE  HInv'
<1> DEFINE st == IF session.closing THEN "closing" ELSE "running"
           s1 == State(session, st, Front.request)
           final == IF ready /\ session.current = Front.request THEN s1 ELSE session
           P == {session} \cup {final}
<1>1. Records("started") /\ mode = "up" /\ Turned(session, s1, st) /\ Shaped(session)
  BY RecordsTurn, ShapesCompose DEF RecordStarted, Records
<1>2. \/ Over(P)
      \/ session' = final /\ tasks' = tasks /\ KeepService /\ Heed /\ mode' = mode
  BY TornOver DEF RecordStarted, Commit
<1>3. st # "sleeping" /\ st \notin DownStates
  BY DEF DownStates
<1> HIDE DEF s1, st
<1>4. final = session \/ (ready /\ final = s1)
  OBVIOUS
<1>5. Spares(session, final) /\ Yields(final)
  BY <1>1, <1>4, Yielding, SparesYield DEF Turned, Spares
<1> HIDE DEF final
<1>6. CASE ~Over(P)
  <2>1. /\ Heeds /\ harness'.id = harness.id /\ harness'.live = harness.live
        /\ orphan' = orphan /\ mode = "up"
    BY <1>1, <1>2, <1>6, HeedsFront
  <2>2. CASE session' = session
    BY <1>2, <1>6, <2>1, <2>2, AsideStep, ShapesCompose DEF KeepService
  <2>3. CASE ready /\ session' = s1
    <3>1. session'.state = st /\ session'.pid = session.pid
      BY <1>1, <2>3 DEF Turned
    <3>2. stopping' = stopping /\ Replaced
      BY <1>2, <1>6 DEF Replaced, KeepService
    <3>3. Patient
      BY <1>2, <1>3, <1>5, <1>6, <2>1, <2>3, <3>1, <3>2, ReadyPatient DEF Down
    <3>4. Calm
      BY <1>2, <1>5, <1>6, <2>1, <3>1 DEF Calm, KeepService
    <3> QED  BY <3>3, <3>4, CalmStep
  <2> QED  BY <1>2, <1>4, <1>6, <2>2, <2>3
<1>7. \A s \in P : Yields(s)
  BY <1>5, Yielding
<1> HIDE DEF P
<1> QED  BY <1>6, <1>7, OverStep

(* A turn or a compaction that finished.                                    *)
LEMMA RecordEndedHarness ==
  ASSUME IInv, HInv, Kept(session, session'), RecordFinished \/ RecordCompacted
  PROVE  HInv'
<1> DEFINE kind == IF RecordFinished THEN "finished" ELSE "compacted"
           request == IF RecordFinished THEN Front.request ELSE Compacting(session)
           s1 == Finish(session, request, Front.status)
           P == {session, s1} \cup {Advanced(s1, handle, ready, RecordFinished)}
<1>1. Records(kind) /\ kind # "exited" /\ Leaves(session, s1) /\ Leaves(session, session)
  BY RecordsTurn, ShapesCompose DEF RecordFinished, RecordCompacted
<1>2. \/ Over(P)
      \/ session' = session /\ tasks' = tasks /\ KeepService /\ Heed /\ mode' = mode
      \/ /\ session' = Advanced(s1, handle, ready, RecordFinished)
         /\ tasks' = tasks \cup AdvanceTasks(s1, handle, ready, RecordFinished)
         /\ KeepService /\ Heed /\ mode' = mode
  <2>1. CASE RecordFinished
    BY <2>1, TornOver DEF RecordFinished, Commit, Same
  <2>2. CASE ~RecordFinished
    <3>1. RecordFinished = FALSE
      BY <2>2
    <3>2. \/ Over({session, s1} \cup {Advanced(s1, handle, ready, FALSE)})
          \/ session' = session /\ tasks' = tasks /\ KeepService /\ Heed /\ mode' = mode
          \/ /\ session' = Advanced(s1, handle, ready, FALSE)
             /\ tasks' = tasks \cup AdvanceTasks(s1, handle, ready, FALSE)
             /\ KeepService /\ Heed /\ mode' = mode
      BY <2>2, TornOver DEF RecordCompacted, Commit, Same
    <3> QED  BY <3>1, <3>2
  <2> QED  BY <2>1, <2>2
<1> HIDE DEF s1, kind
<1>3. CASE ~Over(P)
  <2>1. /\ Heeds /\ harness'.id = harness.id /\ harness'.live = harness.live
        /\ orphan' = orphan /\ mode = "up"
    BY <1>1, <1>2, <1>3, HeedsFront
  <2>2. CASE session' = session /\ tasks' = tasks /\ KeepService /\ mode' = mode
    BY <1>1, <2>1, <2>2, AsideStep DEF KeepService
  <2>3. ASSUME NEW ended, session' = Advanced(s1, handle, ready, ended), mode' = mode, KeepService,
               tasks' = tasks \cup AdvanceTasks(s1, handle, ready, ended)
        PROVE  HInv'
    BY <1>1, <2>1, <2>3, AdvanceKeeps DEF KeepService
  <2> QED  BY <1>2, <1>3, <2>2, <2>3
<1>4. mode = "up"
  BY <1>1 DEF Records
<1>5. \A s \in P : Yields(s)
  BY <1>1, <1>4, Yielding, AdvanceYields
<1> HIDE DEF P
<1> QED  BY <1>3, <1>5, OverStep

(* The session wakes, or recovers, from the exit of its harness.            *)
LEMMA RestartStep ==
  ASSUME IInv, HInv, Kept(session, session'), Records("exited"), Front.cleaned, LetGo, mode' = mode,
         ready \/ releasing, tasks' = tasks \cup {Relaunch}, session'.state = "resuming",
         Yields(session')
  PROVE  HInv'
<1>1. /\ Tail(events) = <<>> /\ ~harness.live
      /\ RetriedOnce => ~orphan /\ Begun(tasks) = {}
  BY ExitFacts
<1>2. /\ mode' = "up" /\ handle' = 0 /\ events' = <<>> /\ ~ready' /\ ~releasing'
      /\ orphan' = orphan /\ harness' = harness
  BY <1>1 DEF LetGo, Heed, Records
<1>3. harness.live = FALSE
  BY <1>1 DEF IInv, TypeOK, WorldType, Processes
<1>4. RetriedOnce' => ~orphan' /\ Begun(tasks) = {}
  BY <1>1, <1>2, KeptRetries
<1>5. Begun(tasks') \subseteq Begun(tasks) \cup {Relaunch}
  BY DEF Begun
<1> QED  BY <1>2, <1>3, <1>4, <1>5, StartStep

(* The harness was released: the session sleeps, or wakes at once.          *)
LEMMA RecordSleptHarness ==
  ASSUME IInv, HInv, Kept(session, session'), RecordSlept
  PROVE  HInv'
<1> DEFINE s1 == Pid(session, FALSE)
           s2 == State(s1, "sleeping", None)
           s3 == FinishAll(s2, Accepted(Sleeps), "completed")
           s4 == State(s3, "resuming", None)
           P == {session, s1, s2, s3, s4}
<1>1. /\ Records("exited") /\ releasing /\ Front.cleaned /\ Shaped(s1) /\ Spares(session, s1)
      /\ Turned(s1, s2, "sleeping") /\ Leaves(s2, s3) /\ Turned(s3, s4, "resuming")
  BY RecordsTurn, ShapesCompose DEF RecordSlept, Slept, Pid, Shaped, Spares
<1>2. \/ \E Q \in SUBSET P : Over(Q)
      \/ /\ LetGo /\ mode' = mode
         /\ \/ session' = s4 /\ tasks' = tasks \cup {Relaunch}
            \/ session' = s3 /\ tasks' = tasks
  <2> DEFINE final == IF Wakes(s3, 0) THEN s4 ELSE s3
  <2>1. {session, s1, s2, s3} \cup {final} \subseteq P
    OBVIOUS
  <2> QED  BY <2>1, TornOver DEF RecordSlept, Commit
<1> HIDE DEF s1, s2, s3, s4
<1>3. s4.state = "resuming"
  BY <1>1 DEF Leaves, Turned
<1>4. \A s \in P : Spares(session, s)
  BY <1>1 DEF Leaves, Turned, Spares
<1>5. \A s \in P : Yields(s)
  BY <1>1, <1>4, SparesYield DEF Records
<1>6. CASE LetGo /\ mode' = mode /\ session' = s4 /\ tasks' = tasks \cup {Relaunch}
  BY <1>1, <1>3, <1>5, <1>6, RestartStep
<1>7. CASE LetGo /\ mode' = mode /\ session' = s3 /\ tasks' = tasks
  BY <1>1, <1>4, <1>5, <1>7, LetGoStep DEF Spares
<1> HIDE DEF P
<1> QED  BY <1>2, <1>5, <1>6, <1>7, OverStep

(* Any other exit.                                                          *)
LEMMA RecordExitedHarness ==
  ASSUME IInv, HInv, Kept(session, session'), RecordExited
  PROVE  HInv'
<1> DEFINE expected  == Front.status = "expected"
           restoring == session.state = "resuming" /\ session.native
           resumable == /\ Front.cleaned
                        /\ \/ ready /\ CanResume(session)
                           \/ stopping /\ restoring
           recover   == resumable /\ ~stopping /\ ~session.recovery
           asked     == {r \in Interrupts \cup Stops :
                           session.receipts[r] \in {"accepted", "delivered", "unknown"}}
           st == IF expected /\ session.closing THEN "closed"
                 ELSE IF resumable /\ (stopping \/ recover) THEN "suspended"
                 ELSE "process_lost"
           gone  == IF Gone THEN "unknown" ELSE "unknown_after_restart"
           ended == Finish(session, session.current, gone)
           s1 == IF session.current = None THEN session ELSE ended
           s2 == FinishAll(s1, asked, "unknown_after_restart")
           s3 == IF Front.cleaned THEN Pid(s2, FALSE) ELSE s2
           s4 == State(s3, st, None)
           answer == IF expected THEN "completed" ELSE "unknown"
           closed == Finish(s4, CloseRequest(s4), answer)
           s5 == IF session.closing THEN closed ELSE s4
           fails == st # "suspended" /\ session.startup # "startup_timeout"
           failed == FailPending(s5)
           s6 == IF fails THEN failed ELSE s5
           partly == IF fails THEN PartlyFailed(s5) ELSE {}
           s7 == State(s6, "resuming", None)
           final == IF recover THEN s7 ELSE s6
           ts == IF recover THEN {Relaunch} ELSE {}
           P == ({session, s1, s2, s3, s4, s6} \cup partly) \cup {final}
<1>1. Records("exited") /\ Shaped(session)
  BY ShapesCompose DEF RecordExited
<1>2. \/ Torn(P, FALSE)
      \/ /\ session' = final /\ Observe(final) /\ UNCHANGED <<mode, sent, restarts>>
         /\ tasks' = tasks \cup ts /\ LetGo
  BY DEF RecordExited, Commit
<1>3. /\ recover => ready /\ Front.cleaned
      /\ ~recover /\ st = "suspended" => stopping
      /\ ~Front.cleaned => st \in {"closed", "process_lost"}
      /\ st \in {"closed", "suspended", "process_lost"}
      /\ recover \/ st = "suspended" => ~Down
      /\ partly = {} \/ partly = PartlyFailed(s5)
  BY DEF Down, DownStates, CanResume
<1> HIDE DEF recover, st, asked, gone, answer, fails, partly
<1>4. Leaves(session, ended)
  BY RecordsTurn
<1> HIDE DEF ended
<1>5. Leaves(session, s1) /\ Shaped(s1)
  BY <1>1, <1>4, ShapesCompose DEF Leaves, Turned
<1> HIDE DEF s1
<1>6. Leaves(session, s2) /\ Shaped(s2)
  <2>1. Leaves(s1, s2)
    BY RecordsTurn
  <2> QED  BY <1>1, <1>5, <2>1 DEF Leaves, Turned, Spares
<1> HIDE DEF s2
<1>7. /\ Shaped(s3) /\ s3.state = session.state /\ Spares(session, s3)
      /\ ~Front.cleaned => s3.pid = session.pid
  BY <1>1, <1>6 DEF Pid, Shaped, Leaves, Turned, Spares
<1> HIDE DEF s3
<1> DEFINE Left(s) ==
             /\ Shaped(s) /\ s.state = st /\ Spares(session, s)
             /\ ~Front.cleaned => s.pid = session.pid
<1>8. Left(s4)
  <2>1. Turned(s3, s4, st)
    BY RecordsTurn
  <2> QED  BY <1>7, <2>1 DEF Turned, Spares
<1>9. Leaves(s4, closed)
  BY RecordsTurn
<1> HIDE DEF s4, closed
<1>10. Left(s5)
  BY <1>8, <1>9 DEF Leaves, Turned, Spares
<1>11. Leaves(s5, failed) /\ \A s \in PartlyFailed(s5) : Leaves(s5, s)
  BY RecordsTurn
<1> HIDE DEF s5, failed
<1>12. Left(s6) /\ \A s \in partly : Left(s)
  <2>1. \A s : Leaves(s5, s) => Left(s)
    BY <1>10 DEF Leaves, Turned, Spares
  <2>2. s6 \in {s5, failed}
    OBVIOUS
  <2> QED  BY <1>3, <1>10, <1>11, <2>1, <2>2
<1> HIDE DEF s6
<1>13. s7.state = "resuming" /\ Spares(session, s7)
  <2>1. Turned(s6, s7, "resuming")
    BY RecordsTurn
  <2> QED  BY <1>12, <2>1 DEF Turned, Spares
<1> HIDE DEF s7
<1>14. \A s \in P : Yields(s)
  <2>1. \A s : Left(s) => Yields(s)
    BY <1>3, SparesYield DEF DownStates
  <2>2. recover => Yields(s7)
    BY <1>3, <1>13, SparesYield
  <2>3. Yields(session) /\ Yields(s1) /\ Yields(s2) /\ Yields(s3)
    BY <1>5, <1>6, <1>7, Yielding, SparesYield
  <2>4. final \in {s6, s7} /\ (final = s7 => recover \/ s6 = s7)
    OBVIOUS
  <2>5. Yields(s4) /\ Yields(s6) /\ \A s \in partly : Yields(s)
    BY <1>8, <1>12, <2>1
  <2> HIDE DEF final, Left
  <2> QED  BY <2>2, <2>3, <2>4, <2>5
<1>15. \/ Over(P)
       \/ /\ LetGo /\ mode' = mode
          /\ \/ recover /\ session' = s7 /\ tasks' = tasks \cup {Relaunch}
             \/ ~recover /\ session' = s6 /\ tasks' = tasks
  <2>1. CASE Torn(P, FALSE)
    BY <2>1, TornOver
  <2>2. CASE session' = final /\ mode' = mode /\ tasks' = tasks \cup ts /\ LetGo
    BY <2>2
  <2> QED  BY <1>2, <2>1, <2>2
<1> HIDE DEF P, final, ts
<1>16. CASE LetGo /\ mode' = mode /\ recover /\ session' = s7 /\ tasks' = tasks \cup {Relaunch}
  BY <1>1, <1>3, <1>13, <1>16, RestartStep, SparesYield
<1>17. CASE LetGo /\ mode' = mode /\ ~recover /\ session' = s6 /\ tasks' = tasks
  <2>1. session.pid /\ stopping' = stopping
    BY <1>1, <1>17, ExitFacts DEF LetGo
  <2>2. ~Front.cleaned => session'.pid /\ Down'
    BY <1>3, <1>12, <1>17, <2>1 DEF Down, DownStates
  <2>3. Awaits'
    BY <1>3, <1>12, <1>17, <2>1 DEF Awaits, Down, DownStates
  <2>4. Yields(session') /\ (session'.startup # "none" => session.startup # "none")
    BY <1>3, <1>12, <1>17, SparesYield DEF Spares, DownStates
  <2>5. Begun(tasks') \subseteq Begun(tasks)
    BY <1>17
  <2> HIDE DEF Left
  <2> QED  BY <1>1, <1>17, <2>2, <2>3, <2>4, <2>5, LetGoStep
<1> QED  BY <1>14, <1>15, <1>16, <1>17, OverStep

-----------------------------------------------------------------------------
(* All steps.                                                               *)

(* No harness runs at first.                                                *)
LEMMA InitHInv ==
  ASSUME Init
  PROVE  HInv
<1>1. DOMAIN <<>> = {}
  OBVIOUS
<1> QED  BY <1>1 DEF Init, HInv, Owned, OneHarness, NoHarness, Spent, Absent

(* Every step keeps the harness of the session.                             *)
LEMMA NextHInv ==
  ASSUME IInv, HInv, [Next]_vars
  PROVE  HInv'
<1> Kept(session, session')
  BY NextIInv DEF Preserved
<1>1. CASE Boots \/ RecordNative \/ GuardLoop \/ SampleExpires \/ Harness
  BY <1>1, BootHarness, GuardHarness, ProcessHarness, RecordStartedHarness, RecordEndedHarness,
     RecordSleptHarness, RecordExitedHarness DEF RecordNative
<1>2. CASE Commands
  <2>1. \A r \in Interrupts \cup Stops : r \in Requests /\ r # Start
    BY RequestsAssumption DEF RequestsAssumption, Requests
  <2> QED  BY <1>2, <2>1, StartSessionHarness, CompactWakesHarness, PromptHarness, InterruptHarness,
              ResumeQueueHarness, CancelHarness, CompactHarness, SleepHarness, CloseHarness
           DEF Commands
<1>3. ASSUME NEW t \in tasks, Starting(t) PROVE HInv'
  BY <1>3, AdmitHarness, DroppedHarness, SpawnFailsHarness, SpawnHarness, HandshakeHarness,
     LaunchReadyHarness, LaunchErrorHarness, RelaunchReadyHarness, RelaunchErrorHarness
     DEF Starting
<1>4. ASSUME NEW t \in tasks, Calling(t) PROVE HInv'
  BY <1>4, SendHarness, RecordReplyHarness, AdvanceLaterHarness DEF Calling
<1>5. CASE SleepDue \/ Drain \/ Undrain \/ Shutdown
  BY <1>5, DueHarness, ShutdownHarness
<1>6. CASE Crash \/ Wedge
  <2>1. Over({session}) /\ \A s \in {session} : Yields(s)
    BY <1>6, Yielding DEF Crash, Wedge, Over, ghostVars
  <2> QED  BY <2>1, OverStep
<1>7. CASE UNCHANGED vars
  <2>1. /\ session' = session /\ mode' = mode /\ tasks' = tasks /\ harness' = harness
        /\ UNCHANGED <<handle, ready, releasing, stopping, orphan, events>>
    BY <1>7 DEF vars, serviceVars, worldVars
  <2> QED  BY <2>1, AsideStep, ShapesCompose DEF Heeds
<1> QED  BY <1>1, <1>2, <1>3, <1>4, <1>5, <1>6, <1>7 DEF Next

(* The invariant of the harness always holds.                               *)
LEMMA HarnessInvariant == Spec => []HInv
<1>1. Init => HInv
  BY InitHInv
<1>2. IInv /\ HInv /\ [Next]_vars => HInv'
  BY NextHInv
<1> QED  BY <1>1, <1>2, Invariant, PTL DEF Spec

(* A ready session holds the handle of the harness spawned last (what       *)
(* Manager::command unwraps), and what record_native has yet to record is   *)
(* of that harness: no event of another one is ever dropped.                *)
THEOREM ReadySessionHasHandle == Spec => []ReadyHasHandle
<1>1. IInv /\ HInv => ReadyHasHandle
  <2> SUFFICES ASSUME IInv, HInv PROVE ReadyHasHandle
    OBVIOUS
  <2>1. mode = "up" /\ events # <<>> => Ours
    <3> SUFFICES ASSUME events # <<>> PROVE Ours
      OBVIOUS
    <3>1. events \in Seq(Events)
      BY DEF IInv, TypeOK, WorldType
    <3>2. 1 \in DOMAIN events /\ Front = events[1]
      BY <3>1 DEF Front
    <3> QED  BY <3>2 DEF HInv, Owned, Ours
  <2> QED  BY <2>1 DEF HInv, Owned, ReadyHasHandle
<1> QED  BY <1>1, Invariant, HarnessInvariant, PTL

(* Manager::relaunch never spawns a harness beside one that may still be    *)
(* alive, whatever exits were not confirmed, and however often the service  *)
(* crashes, wakes or sleeps, as long as one failed startup at most was      *)
(* retried.                                                                 *)
THEOREM OneHarnessAtATime == Spec => []OneHarness
<1>1. HInv => OneHarness
  BY DEF HInv
<1> QED  BY <1>1, HarnessInvariant, PTL

-----------------------------------------------------------------------------
(* The turn of the harness, and what the session knows of it.               *)

(* The deliveries that wait to reach the harness spawned last; and the      *)
(* prompts that it runs, is to be told to run, or was last heard of.        *)
Called == {t \in Waiting(tasks) : t.harness = harness.id}
Due == ({harness.turn} \cup {events[i].request : i \in DOMAIN events}
          \cup {t.request : t \in Called}) \ {None}

(* What runs, and what events tell of, was sent; and a turn that finished   *)
(* is not heard of again.                                                   *)
Told ==
  /\ \A t \in Waiting(tasks) : t.harness <= harness.id
  /\ ~harness.live => harness.turn = None
  /\ harness.turn \in Elements(sent) \cup {None}
  /\ \A i \in DOMAIN events :
       /\ events[i].request \in Elements(sent) \cup {None}
       /\ events[i].kind = "finished" =>
            /\ events[i].request \notin {None, harness.turn}
            /\ \A j \in DOMAIN events : j > i => events[j].request # events[i].request

(* All of it is of the turn the session has recorded, while it is ready.    *)
Follow ==
  mode = "up" /\ RetriedOnce /\ handle # 0 => \A q \in Due : session.current = q /\ ready

(* What remains of that once the journal refuses writes.                    *)
Wedged ==
  mode = "wedged" /\ RetriedOnce /\ harness.live =>
    /\ \A t, u \in Called : t = u
    /\ Called # {} => harness.turn = None

(* Prompts are sent in the order they arrived, and so will the next be.     *)
Sorted ==
  RetriedOnce =>
    /\ Within(sent, arrived)
    /\ harness.live => \A t \in Called, p \in Elements(sent) : Precedes(arrived, p, t.request)

TInv == Told /\ Follow /\ Wedged /\ Sorted

(* What a handler leaves of what was due.                                   *)
Left == ({harness.turn} \cup {events'[i].request : i \in DOMAIN events'}
           \cup {t.request : t \in Called \cap tasks'}) \ {None}

(* A handler keeps the turn when the session and its being ready stay, when *)
(* there was none, or when it has ended; and it spawns a delivery only of a *)
(* ready session.                                                           *)
Spawns == Waiting(tasks') \ tasks # {}
Minds ==
  /\ mode = "up" /\ handle' = handle
  /\ \/ session'.current = session.current /\ (ready => ready')
     \/ ~ready
     \/ session.current = None
     \/ Left = {}
  /\ Spawns => ready'

(* Tasks that are there after a step are old, or spawned by it.             *)
LEMMA CalledStep ==
  ASSUME IInv, Handed, harness'.id = harness.id, NEW u \in Called'
  PROVE  \/ u \in Called /\ u \in tasks'
         \/ /\ Spawns /\ u.request = session'.current
            /\ \A p \in Elements(sent) : Precedes(arrived', p, u.request)
<1>1. u \in Waiting(tasks') /\ u.harness = harness.id /\ u \in tasks'
  BY DEF Called, Waiting, Delivers
<1>2. CASE u \in tasks
  BY <1>1, <1>2 DEF Called, Waiting, Delivers
<1>3. CASE u \notin tasks
  <2>1. /\ Spawns /\ u = Deliver(session'.current, handle)
        /\ \A p \in Elements(sent) : Precedes(arrived', p, u.request)
    BY <1>1, <1>3 DEF Spawns, Handed
  <2> QED  BY <2>1 DEF Deliver, Task
<1> QED  BY <1>2, <1>3

(* The events that are left after a step that records the first of them.    *)
LEMMA EventsLeft ==
  ASSUME IInv, events' = events \/ (events # <<>> /\ events' = Tail(events))
  PROVE  \E k \in {0, 1} : \A i \in DOMAIN events' :
           i \in Nat /\ i + k \in DOMAIN events /\ events'[i] = events[i + k]
<1>1. events \in Seq(Events)
  BY DEF IInv, TypeOK, WorldType
<1>2. CASE events' = events
  <2>1. \A i \in DOMAIN events' : i \in Nat /\ i + 0 \in DOMAIN events /\ events'[i] = events[i + 0]
    BY <1>1, <1>2
  <2> QED  BY <2>1
<1>3. CASE events # <<>> /\ events' = Tail(events)
  <2>1. \A i \in DOMAIN events' : i \in Nat /\ i + 1 \in DOMAIN events /\ events'[i] = events[i + 1]
    BY <1>1, <1>3
  <2> QED  BY <2>1
<1> QED  BY <1>2, <1>3

(* A step that leaves the harness and its turn, and queues no event.        *)
LEMMA TurnStep ==
  ASSUME IInv, HInv, TInv, Kept(session, session'), Handed, sent' = sent,
         harness'.id = harness.id, harness'.live = harness.live, harness'.turn = harness.turn,
         events' = events \/ (events # <<>> /\ events' = Tail(events)),
         mode' = "wedged" => mode = "wedged" /\ ~Spawns,
         mode' = "up" /\ RetriedOnce /\ handle' # 0 => Minds
  PROVE  TInv'
<1>1. RetriedOnce' => RetriedOnce
  BY KeptRetries
<1>2. /\ harness.id \in Nat /\ handle \in {0, harness.id}
      /\ \A t \in tasks : t \in Tasks /\ t.harness \in Nat
  <2>1. harness.id \in Nat
    BY AroundHolds DEF Around, WorldType, Processes, HarnessIds
  <2>2. \A t \in tasks : t \in Tasks /\ t.harness \in Nat
    BY AroundHolds DEF TaskOK, Tasks, HarnessIds
  <2> QED  BY <2>1, <2>2 DEF HInv, Owned
<1>3. PICK k \in {0, 1} : \A i \in DOMAIN events' :
        i \in Nat /\ i + k \in DOMAIN events /\ events'[i] = events[i + k]
  BY EventsLeft
<1>4. Told'
  <2>1. \A t \in Waiting(tasks') : t.harness <= harness.id
    <3>1. \A t \in Waiting(tasks') \ tasks : t.harness = handle
      BY DEF Handed, Deliver, Task
    <3>2. \A t \in Waiting(tasks') : t \in tasks => t \in Waiting(tasks)
      BY DEF Waiting, Delivers
    <3> QED  BY <1>2, <3>1, <3>2 DEF TInv, Told
  <2>2. ASSUME NEW i \in DOMAIN events'
        PROVE  /\ events'[i].request \in Elements(sent) \cup {None}
               /\ events'[i].kind = "finished" =>
                    /\ events'[i].request \notin {None, harness.turn}
                    /\ \A j \in DOMAIN events' : j > i => events'[j].request # events'[i].request
    <3>1. i \in Nat /\ i + k \in DOMAIN events /\ events'[i] = events[i + k]
      BY <1>3
    <3>2. \A j \in DOMAIN events' : j > i =>
            j + k \in DOMAIN events /\ j + k > i + k /\ events'[j] = events[j + k]
      BY <1>3, <3>1
    <3> QED  BY <3>1, <3>2 DEF TInv, Told
  <2> QED  BY <2>1, <2>2 DEF TInv, Told
<1>5. Follow'
  <2> SUFFICES ASSUME mode' = "up", RetriedOnce', handle' # 0, NEW q \in Due'
               PROVE  session'.current = q /\ ready'
    BY DEF Follow
  <2>1. Minds /\ \A x \in Due : session.current = x /\ ready
    BY <1>1 DEF TInv, Follow, Minds
  <2>2. q \in Left \/ (Spawns /\ q = session'.current)
    <3>1. q # None /\ (q = harness.turn \/ (\E i \in DOMAIN events' : q = events'[i].request)
                        \/ \E u \in Called' : q = u.request)
      BY DEF Due
    <3>2. ASSUME NEW u \in Called', q = u.request PROVE q \in Left \/ (Spawns /\ q = session'.current)
      BY <3>1, <3>2, CalledStep DEF Left
    <3> QED  BY <3>1, <3>2 DEF Left
  <2>3. Left \subseteq Due
    BY <1>3 DEF Left, Due
  <2>4. None \notin Due
    BY DEF Due
  <2> QED  BY <2>1, <2>2, <2>3, <2>4 DEF Minds
<1>6. Wedged'
  <2>1. ASSUME mode' = "wedged" PROVE Called' \subseteq Called
    BY <2>1, CalledStep
  <2> QED  BY <1>1, <2>1 DEF TInv, Wedged
<1>7. Sorted'
  <2> SUFFICES ASSUME RetriedOnce' PROVE Sorted'
    BY DEF Sorted
  <2>1. Within(sent, arrived')
    BY <1>1 DEF TInv, Sorted, Handed, Within
  <2>2. ASSUME harness.live, NEW t \in Called', NEW p \in Elements(sent)
        PROVE  Precedes(arrived', p, t.request)
    <3>1. CASE t \in Called
      BY <1>1, <2>2, <3>1 DEF TInv, Sorted, Handed, Within
    <3>2. CASE t \notin Called
      BY <2>2, <3>2, CalledStep
    <3> QED  BY <3>1, <3>2
  <2> QED  BY <2>1, <2>2 DEF Sorted
<1> QED  BY <1>4, <1>5, <1>6, <1>7 DEF TInv

(* The events after one more, and which prompt it names.                    *)
LEMMA EventsMore ==
  ASSUME IInv, NEW e, e \in Events, events' = Append(events, e)
  PROVE  \A i \in DOMAIN events' :
           \/ i \in DOMAIN events /\ events'[i] = events[i]
           \/ events'[i] = e /\ \A j \in DOMAIN events' : ~(j > i)
<1>1. events \in Seq(Events)
  BY DEF IInv, TypeOK, WorldType
<1>2. /\ Len(events) \in Nat /\ DOMAIN events = 1..Len(events)
      /\ DOMAIN events' = 1..(Len(events) + 1) /\ events'[Len(events) + 1] = e
      /\ \A i \in 1..Len(events) : events'[i] = events[i]
  BY <1>1
<1> QED  BY <1>2

(* The end of the service, and a journal that refuses writes.               *)
LEMMA OverTurn ==
  ASSUME IInv, HInv, TInv, Kept(session, session'), Handed, NEW P, Over(P)
  PROVE  TInv'
<1>1. RetriedOnce' => RetriedOnce
  BY KeptRetries
<1>2. CASE ServiceGone
  <2>1. /\ mode' = "down" /\ tasks' = {} /\ events' = <<>> /\ sent' = sent
        /\ harness'.turn = None /\ ~harness'.live
    BY <1>2 DEF ServiceGone, NoHarness
  <2>2. Waiting(tasks') = {} /\ DOMAIN events' = {}
    BY <2>1 DEF Waiting, Delivers
  <2>3. Told'
    BY <2>1, <2>2 DEF Told
  <2>4. Sorted'
    BY <1>1, <2>1 DEF TInv, Sorted, Handed, Within
  <2> QED  BY <2>1, <2>3, <2>4 DEF TInv, Follow, Wedged
<1>3. CASE ~ServiceGone
  <2>1. /\ mode = "up" /\ mode' = "wedged" /\ tasks' = tasks /\ sent' = sent
        /\ handle' = handle /\ harness' = harness /\ events' = events
    BY <1>3 DEF Over, worldVars
  <2>2. Told'
    BY <2>1 DEF TInv, Told
  <2>3. Sorted'
    BY <1>1, <2>1 DEF TInv, Sorted, Handed, Within, Called
  <2>4. Wedged'
    <3> SUFFICES ASSUME RetriedOnce, harness.live
                 PROVE  (\A t, u \in Called : t = u) /\ (Called # {} => harness.turn = None)
      BY <1>1, <2>1 DEF Wedged, Called
    <3>1. handle # 0 /\ \A q \in Due : session.current = q
      BY <2>1 DEF HInv, Owned, TInv, Follow
    <3>2. \A t \in Called : /\ t \in Delivers(tasks) /\ t.request \notin Elements(sent)
                            /\ t.request \in Prompts /\ t.request # None
      <4>1. \A t \in Called : t \in Waiting(tasks) /\ t \in Delivers(tasks) /\ t \in tasks
        BY DEF Called, Waiting, Delivers
      <4> QED  BY <4>1, AroundHolds, RequestsAssumption
               DEF IInv, LedgerOK, TaskOK, Delivers, RequestsAssumption, Requests
    <3>3. \A t \in Called : session.current = t.request
      BY <3>1, <3>2 DEF Due
    <3>4. \A t, u \in Called : t = u
      BY <3>2, <3>3 DEF IInv, LedgerOK
    <3>5. harness.turn # None => harness.turn = session.current /\ harness.turn \in Elements(sent)
      BY <3>1 DEF Due, TInv, Told
    <3> QED  BY <3>2, <3>3, <3>4, <3>5
  <2> QED  BY <2>1, <2>2, <2>3, <2>4 DEF TInv, Follow
<1> QED  BY <1>2, <1>3

(* The harness does something on its own, and an event tells of it.         *)
LEMMA EmitTurn ==
  ASSUME IInv, HInv, TInv, Handed, NEW e \in Events, events' = Append(events, e),
         UNCHANGED <<session, mode, handle, ready, tasks, sent, arrived>>,
         harness'.id = harness.id, harness'.live => harness.live,
         \/ e.request = None /\ e.kind # "finished" /\ harness'.turn \in {harness.turn, None}
         \/ e.request = harness.turn /\ harness.turn # None /\ harness'.turn = None,
         ~harness'.live => harness'.turn = None
  PROVE  TInv'
<1>1. harness'.turn \in {harness.turn, None} /\ e.request \in {harness.turn, None}
  OBVIOUS
<1>2. \A i \in DOMAIN events' :
        \/ i \in DOMAIN events /\ events'[i] = events[i]
        \/ events'[i] = e /\ \A j \in DOMAIN events' : ~(j > i)
  BY EventsMore
<1>3. ASSUME NEW i \in DOMAIN events'
      PROVE  /\ events'[i].request \in Elements(sent) \cup {None}
             /\ events'[i].kind = "finished" =>
                  /\ events'[i].request \notin {None, harness'.turn}
                  /\ \A j \in DOMAIN events' : j > i => events'[j].request # events'[i].request
  <2>1. CASE events'[i] = e /\ \A j \in DOMAIN events' : ~(j > i)
    BY <2>1 DEF TInv, Told
  <2>2. CASE i \in DOMAIN events /\ events'[i] = events[i]
    <3>1. events[i].kind = "finished" => events[i].request \notin {None, harness.turn}
      BY <2>2 DEF TInv, Told
    <3>2. \A j \in DOMAIN events' : (j \in DOMAIN events /\ events'[j] = events[j]) \/ events'[j] = e
      BY <1>2
    <3> QED  BY <1>1, <2>2, <3>1, <3>2 DEF TInv, Told
  <2> QED  BY <1>2, <2>1, <2>2
<1>4. Told'
  BY <1>1, <1>3 DEF TInv, Told
<1>5. Called' = Called
  BY DEF Called
<1>6. Due' \subseteq Due
  BY <1>1, <1>2, <1>5 DEF Due
<1>7. RetriedOnce' = RetriedOnce
  BY DEF RetriedOnce
<1>8. Follow' /\ Wedged'
  BY <1>1, <1>5, <1>6, <1>7 DEF TInv, Follow, Wedged
<1>9. Sorted'
  BY <1>5, <1>7 DEF TInv, Sorted
<1> QED  BY <1>4, <1>8, <1>9 DEF TInv

(* A delivery that may reach the running harness is the only one, and it    *)
(* finds no turn.                                                           *)
LEMMA CalledOnce ==
  ASSUME IInv, HInv, TInv, RetriedOnce, harness.live, NEW t \in Called
  PROVE  Called = {t} /\ harness.turn = None
<1>1. \A u \in Called : u \in Waiting(tasks) /\ u \in Delivers(tasks) /\ u \in tasks
  BY DEF Called, Waiting, Delivers
<1>2. \A u \in Called : u.request \in Prompts /\ u.request # None /\ u.request \notin Elements(sent)
  BY <1>1, AroundHolds, RequestsAssumption
     DEF IInv, LedgerOK, TaskOK, Delivers, RequestsAssumption, Requests
<1>3. handle # 0 /\ mode \in {"up", "wedged"}
  BY <1>1 DEF HInv, Owned, IInv, TypeOK
<1>4. CASE mode = "up"
  <2>1. \A q \in Due : session.current = q
    BY <1>3, <1>4 DEF TInv, Follow
  <2>2. \A u \in Called : session.current = u.request
    BY <1>2, <2>1 DEF Due
  <2>3. \A u \in Called : u = t
    BY <1>1, <2>2 DEF IInv, LedgerOK
  <2>4. harness.turn # None => harness.turn = session.current /\ harness.turn \in Elements(sent)
    BY <2>1 DEF Due, TInv, Told
  <2> QED  BY <1>2, <2>2, <2>3, <2>4
<1>5. CASE mode = "wedged"
  BY <1>5 DEF TInv, Wedged
<1> QED  BY <1>3, <1>4, <1>5

(* The harness takes a prompt.                                              *)
LEMMA TakenTurn ==
  ASSUME IInv, HInv, TInv, Handed, NEW t \in Called, harness.live, harness.turn = None,
         NEW step, step # "waiting", tasks' = Become(t, step), sent' = Append(sent, t.request),
         events' = Append(events, Event("started", t.request, "")),
         UNCHANGED <<session, mode, handle, ready, arrived>>,
         harness'.id = harness.id, harness'.live = harness.live, harness'.turn = t.request
  PROVE  TInv'
<1> DEFINE r == t.request
           e == Event("started", r, "")
<1>1. /\ t \in tasks /\ TaskOK(t) /\ r \in Prompts /\ r # None
      /\ r \notin Elements(sent) /\ t \in Waiting(tasks)
  <2>1. t \in Waiting(tasks) /\ t \in tasks /\ t.kind = "deliver"
    BY DEF Called, Waiting, Delivers
  <2> QED  BY <2>1, AroundHolds, RequestsAssumption
           DEF IInv, LedgerOK, TaskOK, RequestsAssumption, Requests
<1>2. e \in Events /\ e.request = r /\ e.kind = "started"
  <2>1. harness.id \in HarnessIds
    BY AroundHolds DEF Around, WorldType, Processes
  <2> QED  BY <1>1, <2>1 DEF Event, Events
<1>3. \A i \in DOMAIN events' :
        \/ i \in DOMAIN events /\ events'[i] = events[i]
        \/ events'[i] = e /\ \A j \in DOMAIN events' : ~(j > i)
  BY <1>2, EventsMore
<1>4. sent \in Seq(Prompts) /\ Elements(sent') = Elements(sent) \cup {r}
  BY <1>1, AppendFacts DEF IInv, TypeOK, GhostType
<1>5. \A u \in Waiting(tasks') : u \in Waiting(tasks) /\ u # t
  <2>1. [t EXCEPT !.step = step].step = step
    BY <1>1 DEF TaskOK, Tasks
  <2> QED  BY <2>1 DEF Become, Waiting, Delivers
<1>6. Called' \subseteq Called \ {t}
  BY <1>5 DEF Called
<1> HIDE DEF e, r
<1>7. ASSUME NEW i \in DOMAIN events'
      PROVE  /\ events'[i].request \in Elements(sent') \cup {None}
             /\ events'[i].kind = "finished" =>
                  /\ events'[i].request \notin {None, r}
                  /\ \A j \in DOMAIN events' : j > i => events'[j].request # events'[i].request
  <2>1. CASE events'[i] = e /\ \A j \in DOMAIN events' : ~(j > i)
    BY <1>2, <1>4, <2>1
  <2>2. CASE i \in DOMAIN events /\ events'[i] = events[i]
    <3>1. /\ events[i].request \in Elements(sent) \cup {None}
          /\ events[i].kind = "finished" => events[i].request # None
      BY <2>2 DEF TInv, Told
    <3>2. \A j \in DOMAIN events' : (j \in DOMAIN events /\ events'[j] = events[j]) \/ events'[j] = e
      BY <1>3
    <3>3. events[i].kind = "finished" =>
            \A j \in DOMAIN events : j > i => events[j].request # events[i].request
      BY <2>2 DEF TInv, Told
    <3>4. events[i].kind = "finished" => events[i].request \notin {None, r}
      BY <1>1, <3>1
    <3>5. ASSUME events[i].kind = "finished", NEW j \in DOMAIN events', j > i
          PROVE  events'[j].request # events[i].request
      BY <1>2, <3>2, <3>3, <3>4, <3>5
    <3> QED  BY <1>4, <2>2, <3>1, <3>4, <3>5
  <2> QED  BY <1>3, <2>1, <2>2
<1>8. Told'
  BY <1>4, <1>5, <1>7 DEF TInv, Told, r
<1>9. RetriedOnce' = RetriedOnce
  BY DEF RetriedOnce
<1>10. RetriedOnce => Called' = {}
  BY <1>6, CalledOnce
<1>11. Due' \subseteq Due
  <2>1. r \in Due
    BY <1>1 DEF Due, r
  <2>2. \A i \in DOMAIN events' : events'[i].request \in Due \cup {None}
    BY <1>2, <1>3, <2>1 DEF Due
  <2>3. \A u \in Called' : u.request \in Due \cup {None}
    BY <1>6 DEF Due
  <2>4. ASSUME NEW q \in Due' PROVE q \in Due
    <3>1. q # None /\ (q = r \/ (\E i \in DOMAIN events' : q = events'[i].request)
                         \/ \E u \in Called' : q = u.request)
      BY DEF Due, r
    <3> QED  BY <2>1, <2>2, <2>3, <3>1
  <2> QED  BY <2>4
<1>12. Follow' /\ Wedged'
  BY <1>9, <1>10, <1>11 DEF TInv, Follow, Wedged
<1>13. Sorted'
  <2> SUFFICES ASSUME RetriedOnce PROVE Within(sent', arrived)
    BY <1>9, <1>10 DEF Sorted
  <2>1. \A p \in Elements(sent) : Precedes(arrived, p, r)
    BY DEF TInv, Sorted, r
  <2>2. Within(sent, arrived) /\ sent' = Append(sent, r)
    BY DEF TInv, Sorted, r
  <2> QED  BY <1>1, <1>4, <2>1, <2>2, WithinAppend
<1> QED  BY <1>8, <1>12, <1>13 DEF TInv

(* A harness is spawned: nothing was told of it yet.                        *)
LEMMA SpawnedTurn ==
  ASSUME IInv, HInv, TInv, Kept(session, session'), Handed, ~Spawns, sent' = sent,
         harness'.id = harness.id + 1, harness'.turn = None, events' = <<>>, mode' = "up"
  PROVE  TInv'
<1>1. RetriedOnce' => RetriedOnce
  BY KeptRetries
<1>2. harness.id \in Nat /\ \A t \in tasks : t.harness \in Nat
  <2>1. harness.id \in Nat
    BY AroundHolds DEF Around, WorldType, Processes, HarnessIds
  <2>2. \A t \in tasks : t.harness \in Nat
    BY AroundHolds DEF TaskOK, Tasks, HarnessIds
  <2> QED  BY <2>1, <2>2
<1>3. \A t \in Waiting(tasks') : t \in tasks /\ t.harness <= harness.id
  <2>1. \A t \in Waiting(tasks') : t \in tasks /\ t \in Waiting(tasks)
    BY DEF Spawns, Waiting, Delivers
  <2> QED  BY <2>1 DEF TInv, Told
<1>4. Called' = {}
  BY <1>2, <1>3 DEF Called
<1>5. Told'
  BY <1>2, <1>3 DEF Told
<1>6. Due' = {}
  BY <1>4 DEF Due
<1>7. Sorted'
  BY <1>1, <1>4 DEF TInv, Sorted, Handed, Within
<1> QED  BY <1>5, <1>6, <1>7 DEF TInv, Follow, Wedged

(* What handlers that do not speak to the harness leave alone.              *)
Aside ==
  /\ sent' = sent
  /\ harness'.id = harness.id /\ harness'.live = harness.live /\ harness'.turn = harness.turn
  /\ events' = events \/ (events # <<>> /\ events' = Tail(events))

(* A record that leaves the turn of a session alone.                        *)
Stays(s, t) ==
  "current" \in DOMAIN s => "current" \in DOMAIN t /\ t.current = s.current

(* All of them do but the one of the state.                                 *)
LEMMA RecordsStay ==
  ASSUME NEW s, NEW r, NEW p, NEW rs, NEW st
  PROVE  /\ Stays(s, Accept(s, r)) /\ Stays(s, AcceptCancel(s, r, p))
         /\ Stays(s, Finish(s, r, st)) /\ Stays(s, FinishAll(s, rs, st))
         /\ Stays(s, FailPending(s)) /\ Stays(s, StoragePaused(s, st))
         /\ "current" \in DOMAIN s =>
              "current" \in DOMAIN State(s, st, p) /\ State(s, st, p).current = p
<1> USE DEF Stays
<1>1. Stays(s, Accept(s, r)) /\ Stays(s, AcceptCancel(s, r, p))
  BY DEF Accept, AcceptCancel
<1>2. Stays(s, Finish(s, r, st)) /\ Stays(s, FinishAll(s, rs, st))
  BY DEF Finish, FinishAll
<1>3. Stays(s, FailPending(s)) /\ Stays(s, StoragePaused(s, st))
  BY DEF FailPending, FailFirst, StoragePaused
<1>4. "current" \in DOMAIN s =>
        "current" \in DOMAIN State(s, st, p) /\ State(s, st, p).current = p
  BY DEF State
<1> QED  BY <1>1, <1>2, <1>3, <1>4

(* They compose, and sessions have a turn.                                  *)
LEMMA StaysCompose ==
  /\ IInv => "current" \in DOMAIN session
  /\ \A s : Stays(s, s)
  /\ \A s, t, u : Stays(s, t) /\ Stays(t, u) => Stays(s, u)
<1>1. IInv => "current" \in DOMAIN session
  BY DEF IInv, TypeOK, Sessions
<1> QED  BY <1>1 DEF Stays

(* Handlers that deliver nothing.                                           *)
LEMMA NotSpawned ==
  /\ tasks' \subseteq tasks => ~Spawns
  /\ \A u : tasks' \subseteq tasks \cup {u} /\ (u.kind # "deliver" \/ u.step # "waiting") => ~Spawns
BY DEF Spawns, Waiting, Delivers

(* A handler of a service that is up.                                       *)
LEMMA UpTurn ==
  ASSUME IInv, HInv, TInv, Kept(session, session'), Handed, Aside,
         mode = "up", mode' = mode, RetriedOnce /\ handle' # 0 => Minds
  PROVE  TInv'
BY TurnStep DEF Aside

(* One that leaves the turn of the session alone, and delivers nothing.     *)
LEMMA KeepsTurn ==
  ASSUME IInv, HInv, TInv, Kept(session, session'), Handed, Aside,
         mode' = mode, handle' = handle, ready => ready', Stays(session, session'), ~Spawns
  PROVE  TInv'
<1>1. session'.current = session.current
  BY StaysCompose DEF Stays
<1>2. mode = "up" => Minds
  BY <1>1 DEF Minds
<1> QED  BY <1>2, TurnStep DEF Aside

(* One that wakes or starts: the session has no harness.                    *)
LEMMA NoneTurn ==
  ASSUME IInv, HInv, TInv, Kept(session, session'), Handed, Aside,
         mode' \in {"up", "opened"}, mode' = "up" /\ RetriedOnce => handle' = 0
  PROVE  TInv'
BY TurnStep DEF Aside

(* One that ends with an advance: the turn has ended, or there is none.     *)
LEMMA AdvanceTurn ==
  ASSUME IInv, HInv, TInv, Kept(session, session'), Handed, Aside,
         mode = "up", mode' = mode, UNCHANGED <<handle, ready>>,
         NEW s1, Stays(session, s1), NEW ended, session' = Advanced(s1, handle, ready, ended),
         tasks' \subseteq tasks \cup AdvanceTasks(s1, handle, ready, ended),
         RetriedOnce /\ handle # 0 /\ ended => Left = {}
  PROVE  TInv'
<1>1. s1.current = session.current
  BY StaysCompose DEF Stays
<1> SUFFICES ASSUME RetriedOnce, handle # 0 PROVE Minds
  BY UpTurn
<1>2. ~Wakes(s1, handle)
  BY DEF Wakes
<1>3. CASE Advances(s1, ready, ended)
  <2>1. ready /\ (ended \/ session.current = None)
    BY <1>1, <1>3 DEF Advances
  <2>2. Left = {} \/ session.current = None
    BY <2>1
  <2> QED  BY <2>1, <2>2 DEF Minds
<1>4. CASE ~Advances(s1, ready, ended)
  <2>1. session' = s1 /\ tasks' \subseteq tasks
    BY <1>2, <1>4 DEF Advanced, AdvanceTasks, Dispatches
  <2>2. ~Spawns
    BY <2>1, NotSpawned
  <2> QED  BY <1>1, <2>1, <2>2 DEF Minds
<1> QED  BY <1>3, <1>4

(* One of a start: the session is not ready yet.                            *)
LEMMA StartTurn ==
  ASSUME IInv, HInv, TInv, Kept(session, session'), Handed, Aside,
         mode = "up", mode' = mode, handle' = handle, Begun(tasks) # {}, Spawns => ready'
  PROVE  TInv'
<1>1. RetriedOnce => ~ready
  BY DEF HInv, Alone
<1>2. RetriedOnce => Minds
  BY <1>1 DEF Minds
<1> QED  BY <1>2, UpTurn

(* What leaves the process alone.                                           *)
LEMMA QuietAside ==
  ASSUME IInv, sent' = sent
  PROVE  /\ KeepWorld => Aside
         /\ UNCHANGED <<harness, events>> => Aside
         /\ Heed /\ events # <<>> => Aside
         /\ \A h : harness' = AskExit(h) /\ events' = events => Aside
         /\ \A h, f : Freeze(h, f) => Aside
<1>1. harness \in Processes
  BY DEF IInv, TypeOK, WorldType
<1>2. KeepWorld \/ UNCHANGED <<harness, events>> \/ (Heed /\ events # <<>>) => Aside
  BY DEF Aside, KeepWorld, Heed
<1>3. \A h : AskExit(h).id = harness.id /\ AskExit(h).live = harness.live
             /\ AskExit(h).turn = harness.turn
  BY <1>1 DEF AskExit, Processes
<1>4. ASSUME NEW h, NEW f, Freeze(h, f) PROVE Aside
  <2>1. harness'.id = harness.id /\ harness'.live = harness.live /\ harness'.turn = harness.turn
    BY <1>1, <1>4 DEF Freeze, Processes
  <2> QED  BY <1>4, <2>1 DEF Freeze, Aside
<1> QED  BY <1>2, <1>3, <1>4 DEF Aside

-----------------------------------------------------------------------------
(* The turn across boots, commands, sleep and stops.                        *)

(* A boot finds no harness, and no task.                                    *)
LEMMA BootTurn ==
  ASSUME IInv, HInv, TInv, Kept(session, session'), Handed, Boots
  PROVE  TInv'
<1>1. handle = 0 /\ mode' \in {"up", "opened"} /\ handle' = handle /\ sent' = sent
      /\ UNCHANGED <<harness, events>>
  BY DEF Boots, Open, OpenUnreadable, Restore, KeepService, KeepWorld, HInv, Owned, ghostVars
<1> QED  BY <1>1, QuietAside, NoneTurn

(* The start of the session.                                                *)
LEMMA StartSessionTurn ==
  ASSUME IInv, HInv, TInv, Kept(session, session'), Handed, StartSession
  PROVE  TInv'
<1> DEFINE P == {session} \cup {Accept(session, Start)}
<1>1. handle = 0 /\ mode = "up"
  BY DEF StartSession, IInv, AbsentOK
<1>2. Over(P) \/ (Quiet /\ mode' = mode /\ sent' = sent)
  BY TornOver DEF StartSession, Commit
<1> HIDE DEF P
<1>3. CASE ~Over(P)
  BY <1>1, <1>2, <1>3, QuietAside, NoneTurn DEF Quiet, KeepService
<1> QED  BY <1>3, OverTurn

(* A prompt is claimed for an idle harness, which has no turn.              *)
LEMMA PromptTurn ==
  ASSUME IInv, HInv, TInv, Kept(session, session'), Handed, NEW p \in Prompts, Prompt(p)
  PROVE  TInv'
<1> DEFINE s1 == Accept(session, p)
           claimed == State(s1, "starting_turn", p)
           woken == State(s1, "resuming", None)
           final == CASE DeliverNow -> claimed [] Wakes(s1, handle) -> woken [] OTHER -> s1
           spawned == CASE DeliverNow -> {Deliver(p, handle)}
                        [] Wakes(s1, handle) -> {Relaunch} [] OTHER -> {}
           P == {session, s1} \cup {final}
<1>1. \/ Over(P)
      \/ Quiet /\ mode' = mode /\ sent' = sent /\ session' = final /\ tasks' = tasks \cup spawned
  BY TornOver DEF Prompt, Commit
<1>2. mode = "up" /\ Stays(session, s1)
  BY RecordsStay DEF Prompt, Reaches
<1>3. DeliverNow => session.current = None /\ ready
  BY AroundHolds DEF DeliverNow, Sound
<1>4. ~DeliverNow /\ ~Wakes(s1, handle) => final = s1 /\ spawned = {}
  OBVIOUS
<1>5. Wakes(s1, handle) => handle = 0
  BY DEF Wakes
<1> HIDE DEF s1, final, spawned, P
<1>6. CASE ~Over(P)
  <2>1. /\ Aside /\ mode' = mode /\ UNCHANGED <<handle, ready>>
        /\ session' = final /\ tasks' = tasks \cup spawned
    BY <1>1, <1>6, QuietAside DEF Quiet, KeepService
  <2>2. CASE DeliverNow
    BY <1>2, <1>3, <2>1, <2>2, UpTurn DEF Minds
  <2>3. CASE Wakes(s1, handle)
    BY <1>2, <1>5, <2>1, <2>3, NoneTurn
  <2>4. CASE ~DeliverNow /\ ~Wakes(s1, handle)
    <3>1. ~Spawns
      BY <1>4, <2>1, <2>4, NotSpawned
    <3> QED  BY <1>2, <1>4, <2>1, <2>4, <3>1, KeepsTurn
  <2> QED  BY <2>2, <2>3, <2>4
<1> QED  BY <1>6, OverTurn

(* Interrupts and stops leave the turn to its end.                          *)
LEMMA InterruptCommandTurn ==
  ASSUME IInv, HInv, TInv, Kept(session, session'), Handed, NEW r \in Requests,
         InterruptTurn(r) \/ StopTurn(r)
  PROVE  TInv'
<1> DEFINE s1 == Accept(session, r)
           s2 == Finish(s1, r, "completed")
           P == {session, s1, s2}
<1>1. \/ \E Q : Over(Q)
      \/ /\ Quiet /\ mode' = mode /\ sent' = sent /\ session' \in {s1, s2}
         /\ tasks' \subseteq tasks \cup {InterruptTask(r)}
  BY TornOver DEF InterruptTurn, StopTurn, Commit
<1>2. Stays(session, s1) /\ Stays(s1, s2)
  BY RecordsStay
<1> HIDE DEF s1, s2
<1>3. Stays(session, s1) /\ Stays(session, s2)
  BY <1>2, StaysCompose
<1>4. \A u \in {InterruptTask(r)} : u.kind # "deliver"
  BY DEF InterruptTask, Task
<1>5. CASE ~(\E Q : Over(Q))
  <2>1. /\ Aside /\ mode' = mode /\ UNCHANGED <<handle, ready>> /\ Stays(session, session')
        /\ ~Spawns
    BY <1>1, <1>3, <1>4, <1>5, QuietAside, NotSpawned DEF Quiet, KeepService
  <2> QED  BY <2>1, KeepsTurn
<1> QED  BY <1>5, OverTurn

(* A retry finds no harness; resuming the queue leaves the turn alone.      *)
LEMMA ResumeQueueTurn ==
  ASSUME IInv, HInv, TInv, Kept(session, session'), Handed, NEW r \in Resumes, ResumeQueue(r)
  PROVE  TInv'
<1> DEFINE s1 == Accept(session, r)
           s2 == Finish(s1, r, "completed")
           advance == Task("advance", None, None, 0)
<1>1. \/ \E Q : Over(Q)
      \/ handle = 0 /\ Quiet /\ mode' = mode /\ sent' = sent
      \/ session' = s2 /\ tasks' = tasks \cup {advance} /\ Quiet /\ mode' = mode /\ sent' = sent
  BY TornOver DEF ResumeQueue, RetryStartup, Commit
<1>2. Stays(session, s1) /\ Stays(s1, s2) /\ mode = "up"
  BY RecordsStay DEF ResumeQueue, Reaches
<1>3. advance.kind # "deliver"
  BY DEF Task
<1> HIDE DEF s1, s2, advance
<1>4. Stays(session, s2)
  BY <1>2, StaysCompose
<1>5. CASE handle = 0 /\ Quiet /\ mode' = mode /\ sent' = sent
  BY <1>2, <1>5, QuietAside, NoneTurn DEF Quiet, KeepService
<1>6. CASE session' = s2 /\ tasks' = tasks \cup {advance} /\ Quiet /\ mode' = mode /\ sent' = sent
  <2>1. Aside /\ UNCHANGED <<handle, ready>> /\ ~Spawns
    BY <1>3, <1>6, QuietAside, NotSpawned DEF Quiet, KeepService
  <2> QED  BY <1>4, <1>6, <2>1, KeepsTurn
<1> QED  BY <1>1, <1>5, <1>6, OverTurn

(* Cancels.                                                                 *)
LEMMA CancelTurn ==
  ASSUME IInv, HInv, TInv, Kept(session, session'), Handed, NEW r \in Cancels, NEW p \in Prompts,
         Cancel(r, p)
  PROVE  TInv'
<1> DEFINE s1 == AcceptCancel(session, r, p)
           s2 == Finish(s1, r, "completed")
<1>1. \/ \E Q : Over(Q)
      \/ session' = s2 /\ tasks' = tasks /\ Quiet /\ mode' = mode /\ sent' = sent
  BY TornOver DEF Cancel, Commit
<1>2. Stays(session, s1) /\ Stays(s1, s2)
  BY RecordsStay
<1> HIDE DEF s1, s2
<1>3. Stays(session, s2)
  BY <1>2, StaysCompose
<1>4. CASE session' = s2 /\ tasks' = tasks /\ Quiet /\ mode' = mode /\ sent' = sent
  <2>1. Aside /\ UNCHANGED <<handle, ready>> /\ ~Spawns
    BY <1>4, QuietAside, NotSpawned DEF Quiet, KeepService
  <2> QED  BY <1>3, <1>4, <2>1, KeepsTurn
<1> QED  BY <1>1, <1>4, OverTurn

(* A compaction finds the session asleep, or idle.                          *)
LEMMA CompactTurn ==
  ASSUME IInv, HInv, TInv, Kept(session, session'), Handed,
         CompactWakes \/ \E r \in Compacts : Compact(r)
  PROVE  TInv'
<1>1. mode = "up" /\ (RetriedOnce => handle = 0 \/ (session.current = None /\ ready))
  BY DEF CompactWakes, Compact, Reaches, HInv, Alone
<1>2. (\E Q : Over(Q)) \/ (Quiet /\ mode' = mode /\ sent' = sent)
  BY TornOver DEF CompactWakes, Compact, Commit
<1>3. CASE Quiet /\ mode' = mode /\ sent' = sent
  <2>1. Aside /\ UNCHANGED <<handle, ready>>
    BY <1>3, QuietAside DEF Quiet, KeepService
  <2> QED  BY <1>1, <1>3, <2>1, UpTurn DEF Minds
<1> QED  BY <1>2, <1>3, OverTurn

(* A close leaves the turn to the exit of its harness, if it has one.       *)
LEMMA CloseTurn ==
  ASSUME IInv, HInv, TInv, Kept(session, session'), Handed, NEW r \in Closes, Close(r)
  PROVE  TInv'
<1> DEFINE s1 == Accept(session, r)
           s2 == State(s1, "closing", session.current)
           s3 == FailPending(s2)
           s4 == State(s3, "closed", None)
           final == IF handle = 0 THEN Finish(s4, r, "completed") ELSE s3
<1>1. mode = "up" /\ (handle # 0 => final = s3)
  BY DEF Close, Reaches
<1>2. \/ \E Q : Over(Q)
      \/ /\ session' = final /\ KeepService /\ mode' = mode /\ sent' = sent
         /\ harness' = AskExit(handle) /\ tasks' = tasks /\ events' = events
  BY TornOver DEF Close, Commit
<1>3. Stays(session, s3)
  <2>1. "current" \in DOMAIN s1 /\ Stays(s2, s3)
    BY RecordsStay, StaysCompose DEF Stays
  <2>2. "current" \in DOMAIN s2 /\ s2.current = session.current
    BY <2>1, RecordsStay
  <2> HIDE DEF s2, s3
  <2> QED  BY <2>1, <2>2 DEF Stays
<1> HIDE DEF s3, final
<1>4. CASE ~(\E Q : Over(Q))
  <2>1. /\ Aside /\ mode' = mode /\ UNCHANGED <<handle, ready>>
        /\ session' = final /\ ~Spawns
    BY <1>2, <1>4, QuietAside, NotSpawned DEF KeepService
  <2>2. CASE handle = 0
    BY <1>1, <2>1, <2>2, NoneTurn
  <2>3. CASE handle # 0
    BY <1>1, <1>3, <2>1, <2>3, KeepsTurn
  <2> QED  BY <2>2, <2>3
<1> QED  BY <1>4, OverTurn

(* What is released has no turn.                                            *)
LEMMA SleepTurn ==
  ASSUME IInv, HInv, TInv, Kept(session, session'), Handed, NEW r \in Sleeps, Sleep(r)
  PROVE  TInv'
<1> DEFINE s1 == Accept(session, r)
           s2 == IF CanResume(s1) /\ s1.state # "sleeping" THEN State(s1, "sleeping", None) ELSE s1
           rests == handle = 0 /\ ~Busy(s1)
           final == IF rests THEN Finish(s2, r, "completed") ELSE s1
<1>1. mode = "up" /\ Stays(session, s1) /\ (handle # 0 => final = s1)
  BY RecordsStay DEF Sleep, Reaches
<1>2. CanSleep(s1) => s1.current = None
  BY DEF CanSleep, Busy
<1>3. \/ \E Q : Over(Q)
      \/ /\ session' = final /\ mode' = mode /\ sent' = sent /\ tasks' = tasks
         /\ IF CanSleep(s1) THEN Release ELSE Quiet
  BY TornOver DEF Sleep, Commit
<1> HIDE DEF s1, final
<1>4. CASE ~(\E Q : Over(Q))
  <2>1. Aside /\ mode' = mode /\ handle' = handle /\ session' = final /\ ~Spawns
    BY <1>3, <1>4, QuietAside, NotSpawned DEF Quiet, KeepService, Release
  <2>3. CASE handle = 0
    BY <1>1, <2>1, <2>3, NoneTurn
  <2>4. CASE handle # 0 /\ CanSleep(s1)
    <3>1. session.current = None
      BY <1>1, <1>2, <2>4, StaysCompose DEF Stays
    <3> QED  BY <1>1, <2>1, <3>1, UpTurn DEF Minds
  <2>5. CASE handle # 0 /\ ~CanSleep(s1)
    <3>1. ready' = ready
      BY <1>3, <1>4, <2>5 DEF Quiet, KeepService
    <3> QED  BY <1>1, <2>1, <2>5, <3>1, KeepsTurn
  <2> QED  BY <2>3, <2>4, <2>5
<1> QED  BY <1>4, OverTurn

(* A sleep that is due, drains and planned stops.                           *)
LEMMA DueTurn ==
  ASSUME IInv, HInv, TInv, Kept(session, session'), Handed,
         SleepDue \/ Drain \/ Undrain \/ Shutdown
  PROVE  TInv'
<1>1. CASE SleepDue
  <2>1. /\ mode = "up" /\ mode' = mode /\ session.current = None /\ handle' = handle
        /\ Aside /\ ~Spawns
    BY <1>1, QuietAside, NotSpawned DEF SleepDue, CanSleep, Busy, Release, ghostVars
  <2>2. Minds
    BY <2>1 DEF Minds
  <2> QED  BY <2>1, <2>2, UpTurn
<1>2. CASE Drain \/ Undrain
  <2>1. /\ session' = session /\ mode' = mode /\ UNCHANGED <<handle, ready>>
        /\ Aside /\ ~Spawns
    BY <1>2, QuietAside, NotSpawned DEF Drain, Undrain, ghostVars
  <2> QED  BY <2>1, KeepsTurn, StaysCompose
<1>3. CASE Shutdown
  <2>1. mode = "up"
    BY <1>3 DEF Shutdown
  <2>2. \/ \E Q : Over(Q)
        \/ /\ handle = 0 \/ session' = session
           /\ mode' = mode /\ sent' = sent /\ UNCHANGED <<handle, ready, tasks, events>>
           /\ harness' = AskExit(handle)
    BY <1>3, TornOver DEF Shutdown, Commit
  <2>3. CASE ~(\E Q : Over(Q))
    <3>1. /\ handle = 0 \/ session' = session
          /\ mode' = mode /\ UNCHANGED <<handle, ready>> /\ Aside /\ ~Spawns
      BY <2>2, <2>3, QuietAside, NotSpawned
    <3> QED  BY <2>1, <3>1, NoneTurn, KeepsTurn, StaysCompose
  <2> QED  BY <2>3, OverTurn
<1> QED  BY <1>1, <1>2, <1>3

-----------------------------------------------------------------------------
(* The turn across starts.                                                  *)

(* A start that goes on delivers nothing.                                   *)
LEMMA StartSpawns ==
  ASSUME IInv, NEW t \in Begun(tasks)
  PROVE  /\ Retire(t) => ~Spawns
         /\ \A step : tasks' = Become(t, step) => ~Spawns
<1>1. t.kind # "deliver" /\ t \in Tasks
  BY DEF Begun, IInv, TypeOK
<1>2. \A step : [t EXCEPT !.step = step].kind = t.kind
  BY <1>1 DEF Tasks
<1> QED  BY <1>1, <1>2 DEF Retire, Become, Spawns, Waiting, Delivers

(* A start that did not spawn yet, is dropped, or shakes hands.             *)
LEMMA BeginTurn ==
  ASSUME IInv, HInv, TInv, Kept(session, session'), Handed, NEW t \in tasks,
         Admit(t) \/ SpawnDropped(t) \/ SpawnFails(t) \/ Handshake(t) \/ RelaunchDropped(t)
  PROVE  TInv'
<1>1. t \in Begun(tasks)
  BY DEF Admit, SpawnDropped, SpawnFails, Handshake, RelaunchDropped, Starts, Begun
<1>2. \/ \E Q : Over(Q)
      \/ /\ mode' = mode /\ sent' = sent /\ KeepService /\ KeepWorld
         /\ Retire(t) \/ \E step : tasks' = Become(t, step)
         /\ mode = "up" \/ session' = session
  BY TornOver DEF Admit, SpawnDropped, SpawnFails, Handshake, RelaunchDropped, Commit, Same, Quiet,
                  ghostVars
<1>3. CASE ~(\E Q : Over(Q))
  <2>1. Aside /\ mode' = mode /\ UNCHANGED <<handle, ready>> /\ ~Spawns
        /\ (mode = "up" \/ session' = session)
    BY <1>1, <1>2, <1>3, QuietAside, StartSpawns DEF KeepService
  <2>2. CASE mode = "up"
    BY <1>1, <2>1, <2>2, StartTurn
  <2>3. CASE session' = session
    BY <2>1, <2>3, KeepsTurn, StaysCompose
  <2> QED  BY <2>1, <2>2, <2>3
<1> QED  BY <1>3, OverTurn

(* A start that spawns.                                                     *)
LEMMA SpawnTurn ==
  ASSUME IInv, HInv, TInv, Kept(session, session'), Handed, NEW t \in tasks, Spawn(t)
  PROVE  TInv'
<1> DEFINE id == harness.id + 1
           u == [t EXCEPT !.step = "starting", !.harness = id]
<1>1. t \in Begun(tasks) /\ mode = "up"
  BY DEF Spawn, Starts, Begun
<1>2. \/ \E Q : Over(Q)
      \/ /\ mode' = mode /\ sent' = sent
         /\ harness' = [NoHarness EXCEPT !.id = id, !.live = TRUE]
         /\ events' = <<>> /\ tasks' = (tasks \ {t}) \cup {u}
  BY TornOver DEF Spawn, Commit
<1>3. CASE ~(\E Q : Over(Q))
  <2>1. t.kind # "deliver" /\ t \in Tasks
    BY <1>1 DEF Begun, IInv, TypeOK
  <2>2. u.kind = t.kind
    BY <2>1 DEF Tasks
  <2> HIDE DEF u
  <2>3. ~Spawns
    BY <1>2, <1>3, <2>1, <2>2, NotSpawned
  <2>4. harness'.id = id /\ harness'.turn = None
    BY <1>2, <1>3 DEF NoHarness
  <2> QED  BY <1>1, <1>2, <1>3, <2>3, <2>4, SpawnedTurn
<1> QED  BY <1>3, OverTurn

(* A start that ends: the session was not ready while it was pending.       *)
LEMMA StartedTurn ==
  ASSUME IInv, HInv, TInv, Kept(session, session'), Handed, NEW t \in tasks,
         LaunchReady(t) \/ RelaunchReady(t) \/ LaunchError(t) \/ RelaunchError(t)
  PROVE  TInv'
<1>1. t \in Begun(tasks) /\ mode = "up"
  BY DEF LaunchReady, RelaunchReady, LaunchError, RelaunchError, Starts, Begun
<1>2. ASSUME NEW partial, NEW now, Runs(t, partial, now) PROVE TInv'
  <2>1. \/ \E Q : Over(Q)
        \/ mode' = mode /\ sent' = sent /\ ready' = TRUE /\ KeepWorld /\ handle' = handle
    BY <1>2, TornOver DEF Runs, Commit
  <2>2. CASE ~(\E Q : Over(Q))
    <3>1. Aside /\ mode' = mode /\ handle' = handle /\ ready'
      BY <2>1, <2>2, QuietAside
    <3> QED  BY <1>1, <3>1, StartTurn
  <2> QED  BY <2>2, OverTurn
<1>3. ASSUME sent' = sent, mode' = mode,
             GiveUp(t) \/ ((\E step : tasks' = Become(t, step)) /\ Quiet)
      PROVE  TInv'
  <2>1. Aside /\ handle' = handle /\ ~Spawns
    BY <1>1, <1>3, QuietAside, StartSpawns DEF GiveUp, Quiet, KeepService
  <2> QED  BY <1>1, <1>3, <2>1, StartTurn
<1>4. \/ \E Q : Over(Q)
      \/ \E partial, now : Runs(t, partial, now)
      \/ /\ sent' = sent /\ mode' = mode
         /\ GiveUp(t) \/ ((\E step : tasks' = Become(t, step)) /\ Quiet)
  <2>1. CASE LaunchReady(t)
    <3>1. CASE handle = 0
      BY <2>1, <3>1, TornOver DEF LaunchReady, Commit
    <3>2. CASE handle # 0
      BY <2>1, <3>2 DEF LaunchReady
    <3> QED  BY <3>1, <3>2
  <2>2. CASE RelaunchReady(t)
    <3>1. CASE handle = 0
      BY <2>2, <3>1 DEF RelaunchReady, Same, ghostVars
    <3>2. CASE handle # 0
      BY <2>2, <3>2 DEF RelaunchReady
    <3> QED  BY <3>1, <3>2
  <2>3. CASE LaunchError(t)
    BY <2>3, TornOver DEF LaunchError, Commit
  <2>4. CASE RelaunchError(t)
    BY <2>4, TornOver DEF RelaunchError, Commit
  <2> QED  BY <2>1, <2>2, <2>3, <2>4
<1> QED  BY <1>2, <1>3, <1>4, OverTurn

-----------------------------------------------------------------------------
(* The turn across calls and their answers.                                 *)

(* A call that the harness does not take as a prompt.                       *)
LEMMA CallTurn ==
  ASSUME IInv, HInv, TInv, Kept(session, session'), Handed, NEW t \in tasks, NEW step,
         tasks' = Become(t, step), step # "waiting", KeepRest, sent' = sent, events' = events,
         harness'.id = harness.id, harness'.live = harness.live, harness'.turn = harness.turn
  PROVE  TInv'
<1>1. t \in Tasks
  BY DEF IInv, TypeOK
<1>2. [t EXCEPT !.step = step].step = step
  BY <1>1 DEF Tasks
<1>3. ~Spawns
  BY <1>2 DEF Become, Spawns, Waiting, Delivers
<1> QED  BY <1>3, KeepsTurn, StaysCompose DEF Aside, KeepRest, KeepService

(* Calls of the harness: only a waiting delivery of a session whose turn it *)
(* is gets to the harness, and it finds no other turn.                      *)
LEMMA SendTurn ==
  ASSUME IInv, HInv, TInv, Kept(session, session'), Handed, NEW t \in tasks,
         SendPrompt(t) \/ SendInterrupt(t) \/ SendCompact(t)
  PROVE  TInv'
<1>1. harness \in Processes /\ KeepRest
  BY DEF IInv, TypeOK, WorldType, SendPrompt, SendInterrupt, SendCompact
<1>2. CASE SendInterrupt(t) \/ SendCompact(t) \/ (SendPrompt(t) /\ (Unanswered(t) \/ Refused(t, harness.turn # None)))
  <2>1. /\ \E step \in {"unknown", "failed", "completed", "delivered"} : tasks' = Become(t, step)
        /\ sent' = sent /\ events' = events
        /\ harness' = harness \/ harness' = [harness EXCEPT !.compacting = TRUE]
    BY <1>2 DEF SendInterrupt, SendCompact, Unanswered, Refused, Taken, NoEffect
  <2>2. harness'.id = harness.id /\ harness'.live = harness.live /\ harness'.turn = harness.turn
    BY <1>1, <2>1 DEF Processes
  <2> QED  BY <1>1, <2>1, <2>2, CallTurn
<1>3. CASE ~(SendInterrupt(t) \/ SendCompact(t) \/ (SendPrompt(t) /\ (Unanswered(t) \/ Refused(t, harness.turn # None))))
  <2>1. PICK step \in {"delivered", "unknown"} : tasks' = Become(t, step)
    BY <1>3 DEF SendPrompt, Taken
  <2>2. /\ Calls(t, "deliver") /\ Heard(t) /\ harness.turn = None
        /\ harness' = [harness EXCEPT !.turn = t.request]
        /\ events' = Append(events, Event("started", t.request, ""))
        /\ sent' = Append(sent, t.request)
    BY <1>3 DEF SendPrompt, Taken
  <2>3. t \in Called /\ harness.live
    BY <2>2 DEF Called, Waiting, Delivers, Calls, Heard, Reachable, Running
  <2>4. harness'.id = harness.id /\ harness'.live = harness.live /\ harness'.turn = t.request
    BY <1>1, <2>2 DEF Processes
  <2> QED  BY <1>1, <2>1, <2>2, <2>3, <2>4, TakenTurn DEF KeepRest, KeepService
<1> QED  BY <1>2, <1>3

(* Its answer: the refusal of a turn tells that the turn was not taken.     *)
LEMMA RecordReplyTurn ==
  ASSUME IInv, HInv, TInv, Kept(session, session'), Handed, NEW t \in tasks, RecordReply(t)
  PROVE  TInv'
<1> DEFINE s1 == Finish(session, t.request, t.step)
           ended == t.kind = "deliver"
<1>1. \/ \E Q : Over(Q)
      \/ session' \in {session, s1} /\ Retire(t) /\ Quiet /\ mode' = mode /\ sent' = sent
      \/ /\ Moves(t, s1) /\ session' = Advanced(s1, handle, ready, ended)
         /\ Quiet /\ mode' = mode /\ sent' = sent
         /\ tasks' = (tasks \ {t}) \cup AdvanceTasks(s1, handle, ready, ended)
  BY TornOver DEF RecordReply, Commit, Same, ghostVars
<1>2. mode = "up" /\ Stays(session, s1) /\ Stays(session, session) /\ t.step # "waiting"
  BY RecordsStay, StaysCompose DEF RecordReply
<1>3. Moves(t, s1) /\ ended => t.step = "failed" /\ session.current = t.request
  <2>1. s1.current = session.current
    BY <1>2, StaysCompose DEF Stays
  <2> QED  BY <2>1 DEF Moves
<1> HIDE DEF s1
<1>4. CASE session' \in {session, s1} /\ Retire(t) /\ Quiet /\ mode' = mode /\ sent' = sent
  <2>1. Aside /\ UNCHANGED <<handle, ready>> /\ ~Spawns
    BY <1>4, QuietAside, NotSpawned DEF Quiet, KeepService, Retire
  <2> QED  BY <1>2, <1>4, <2>1, KeepsTurn
<1>5. CASE /\ Moves(t, s1) /\ session' = Advanced(s1, handle, ready, ended)
           /\ Quiet /\ mode' = mode /\ sent' = sent
           /\ tasks' = (tasks \ {t}) \cup AdvanceTasks(s1, handle, ready, ended)
  <2>1. Aside /\ UNCHANGED <<handle, ready, harness, events>>
    BY <1>5, QuietAside DEF Quiet, KeepService, KeepWorld
  <2>2. ASSUME RetriedOnce, handle # 0, ended, NEW q \in Left PROVE FALSE
    <3>1. t \in Delivers(tasks) /\ t.step = "failed" /\ session.current = t.request
      BY <1>3, <1>5, <2>2 DEF Delivers
    <3>2. t.request \notin Elements(sent) /\ \A u \in Delivers(tasks) : u.request = t.request => u = t
      BY <3>1 DEF IInv, LedgerOK
    <3>3. q # None /\ q \in Due
      BY <2>1, <2>2 DEF Left, Due
    <3>4. q = t.request
      BY <1>2, <2>2, <3>1, <3>3 DEF TInv, Follow
    <3>5. harness.turn \in Elements(sent) \cup {None}
          /\ \A i \in DOMAIN events : events[i].request \in Elements(sent) \cup {None}
      BY DEF TInv, Told
    <3>6. \A u \in Called : u \in Delivers(tasks) /\ u.step = "waiting"
      BY DEF Called, Waiting
    <3>7. \/ q = harness.turn \/ \E i \in DOMAIN events : q = events[i].request
          \/ \E u \in Called : q = u.request
      BY <2>1, <2>2 DEF Left
    <3> QED  BY <3>1, <3>2, <3>3, <3>4, <3>5, <3>6, <3>7
  <2>3. RetriedOnce /\ handle # 0 /\ ended => Left = {}
    BY <2>2
  <2> HIDE DEF ended
  <2> QED  BY <1>2, <1>5, <2>1, <2>3, AdvanceTurn
<1> QED  BY <1>1, <1>4, <1>5, OverTurn

(* The second part of a resume.                                             *)
LEMMA AdvanceLaterTurn ==
  ASSUME IInv, HInv, TInv, Kept(session, session'), Handed, NEW t \in tasks, AdvanceLater(t)
  PROVE  TInv'
<1>1. \/ \E Q : Over(Q)
      \/ /\ session' = Advanced(session, handle, ready, FALSE)
         /\ Quiet /\ mode' = mode /\ sent' = sent
         /\ tasks' \subseteq tasks \cup AdvanceTasks(session, handle, ready, FALSE)
  BY TornOver DEF AdvanceLater, Commit
<1>2. CASE ~(\E Q : Over(Q))
  <2>1. Aside /\ UNCHANGED <<handle, ready>>
    BY <1>1, <1>2, QuietAside DEF Quiet, KeepService
  <2> QED  BY <1>1, <1>2, <2>1, AdvanceTurn, StaysCompose DEF AdvanceLater
<1> QED  BY <1>2, OverTurn

-----------------------------------------------------------------------------
(* The turn across what the harness does, what is recorded of it, and the   *)
(* guard.                                                                   *)

(* The process ends its turn, or exits, and an event says so.               *)
LEMMA ProcessTurn ==
  ASSUME IInv, HInv, TInv, Kept(session, session'), Handed, Harness
  PROVE  TInv'
<1>1. harness \in Processes
  BY DEF IInv, TypeOK, WorldType
<1>2. /\ UNCHANGED <<session, mode, handle, ready, tasks, sent, arrived>>
  BY DEF Harness, HarnessFinishes, HarnessCompacts, HarnessForks, HarnessExits, HarnessCrashes,
         Exit, KeepAll, KeepService, Same, ghostVars
<1>3. CASE HarnessFinishes
  <2>1. PICK status \in {"completed", "interrupted", "failed"} :
          events' = Append(events, Event("finished", harness.turn, status))
    BY <1>3 DEF HarnessFinishes, Emit
  <2> DEFINE e == Event("finished", harness.turn, status)
  <2>2. e \in Events /\ e.request = harness.turn
    BY <1>1, <1>3 DEF HarnessFinishes, Event, Events, Processes
  <2>3. /\ harness'.id = harness.id /\ harness'.live = harness.live /\ harness'.turn = None
        /\ harness.turn # None
    BY <1>1, <1>3 DEF HarnessFinishes, Processes
  <2>4. events' = Append(events, e)
    BY <2>1
  <2> HIDE DEF e
  <2> QED  BY <1>2, <2>2, <2>3, <2>4, EmitTurn
<1>4. CASE HarnessCompacts
  <2>1. PICK status \in {"completed", "failed"} :
          events' = Append(events, Event("compacted", None, status))
    BY <1>4 DEF HarnessCompacts, Emit
  <2> DEFINE e == Event("compacted", None, status)
  <2>2. e \in Events /\ e.request = None /\ e.kind # "finished"
    BY <1>1 DEF Event, Events, Processes
  <2>3. /\ harness'.id = harness.id /\ harness'.live = harness.live /\ harness'.turn = harness.turn
        /\ harness.live
    BY <1>1, <1>4 DEF HarnessCompacts, Acts, Processes
  <2>4. events' = Append(events, e)
    BY <2>1
  <2> HIDE DEF e
  <2> QED  BY <1>2, <2>2, <2>3, <2>4, EmitTurn
<1>5. ASSUME NEW expected \in BOOLEAN, NEW cleaned \in BOOLEAN, Exit(expected, cleaned)
      PROVE  TInv'
  <2> DEFINE e == [Event("exited", None, IF expected THEN "expected" ELSE "unexpected")
                     EXCEPT !.cleaned = cleaned]
  <2>1. events' = Append(events, e)
    BY <1>5 DEF Exit, Emit
  <2>2. e \in Events /\ e.request = None /\ e.kind # "finished"
    BY <1>1 DEF Event, Events, Processes
  <2>3. harness'.id = harness.id /\ harness'.live = FALSE /\ harness'.turn = None
    BY <1>5 DEF Exit, NoHarness
  <2> HIDE DEF e
  <2> QED  BY <1>2, <2>1, <2>2, <2>3, EmitTurn
<1>6. CASE HarnessExits
  <2>1. (~harness.frozen) \in BOOLEAN
    BY <1>1 DEF Processes
  <2> QED  BY <1>5, <1>6, <2>1 DEF HarnessExits
<1>7. CASE HarnessCrashes
  BY <1>5, <1>7 DEF HarnessCrashes
<1>8. CASE HarnessForks
  <2>1. Aside /\ ~Spawns
    BY <1>2, <1>8, ForkStep, NotSpawned DEF Aside
  <2> QED  BY <1>2, <2>1, KeepsTurn, StaysCompose
<1> QED  BY <1>3, <1>4, <1>6, <1>7, <1>8 DEF Harness

(* A turn that started is the one the session has recorded.                 *)
LEMMA RecordStartedTurn ==
  ASSUME IInv, HInv, TInv, Kept(session, session'), Handed, RecordStarted
  PROVE  TInv'
<1> DEFINE final == IF ready /\ session.current = Front.request
                      THEN State(session, IF session.closing THEN "closing" ELSE "running",
                                 Front.request)
                      ELSE session
<1>1. events # <<>>
      /\ \/ \E Q : Over(Q)
         \/ /\ session' = final /\ mode' = mode /\ sent' = sent /\ tasks' = tasks
            /\ KeepService /\ Heed
  BY TornOver DEF RecordStarted, Records, Commit
<1>2. Stays(session, final)
  BY RecordsStay DEF Stays
<1> HIDE DEF final
<1>3. CASE ~(\E Q : Over(Q))
  <2>1. Aside /\ mode' = mode /\ UNCHANGED <<handle, ready>> /\ ~Spawns
    BY <1>1, <1>3, QuietAside, NotSpawned DEF KeepService
  <2> QED  BY <1>1, <1>2, <1>3, <2>1, KeepsTurn
<1> QED  BY <1>1, <1>3, OverTurn

(* A turn that finished is not heard of again; a compaction was no turn.    *)
LEMMA RecordEndedTurn ==
  ASSUME IInv, HInv, TInv, Kept(session, session'), Handed, RecordFinished \/ RecordCompacted
  PROVE  TInv'
<1> DEFINE request == IF RecordFinished THEN Front.request ELSE Compacting(session)
           s1 == Finish(session, request, Front.status)
<1>1. mode = "up" /\ events # <<>> /\ (RecordFinished => Front.kind = "finished")
  BY DEF RecordFinished, RecordCompacted, Records
<1>2. \/ \E Q : Over(Q)
      \/ session' = session /\ tasks' = tasks /\ KeepService /\ Heed /\ mode' = mode /\ sent' = sent
      \/ \E ended \in BOOLEAN :
           /\ ended => RecordFinished /\ session.current = Front.request
           /\ session' = Advanced(s1, handle, ready, ended)
           /\ tasks' = tasks \cup AdvanceTasks(s1, handle, ready, ended)
           /\ KeepService /\ Heed /\ mode' = mode /\ sent' = sent
  <2>1. CASE RecordFinished
    <3>1. CASE session.current = Front.request
      <4>1. \/ \E Q : Over(Q)
            \/ /\ session' = Advanced(s1, handle, ready, TRUE)
               /\ tasks' = tasks \cup AdvanceTasks(s1, handle, ready, TRUE)
               /\ KeepService /\ Heed /\ mode' = mode /\ sent' = sent
        BY <2>1, <3>1, TornOver DEF RecordFinished, Commit
      <4> HIDE DEF s1
      <4> QED  BY <2>1, <3>1, <4>1
    <3>2. CASE session.current # Front.request
      BY <2>1, <3>2 DEF RecordFinished, Same, ghostVars
    <3> QED  BY <3>1, <3>2
  <2>2. CASE ~RecordFinished
    <3>1. CASE session.compact
      <4>1. \/ \E Q : Over(Q)
            \/ /\ session' = Advanced(s1, handle, ready, FALSE)
               /\ tasks' = tasks \cup AdvanceTasks(s1, handle, ready, FALSE)
               /\ KeepService /\ Heed /\ mode' = mode /\ sent' = sent
        BY <2>2, <3>1, TornOver DEF RecordCompacted, Commit
      <4> HIDE DEF s1
      <4> QED  BY <4>1
    <3>2. CASE ~session.compact
      BY <2>2, <3>2 DEF RecordCompacted, Same, ghostVars
    <3> QED  BY <3>1, <3>2
  <2> QED  BY <2>1, <2>2
<1>3. Stays(session, s1)
  BY RecordsStay
<1> HIDE DEF s1
<1>4. CASE session' = session /\ tasks' = tasks /\ KeepService /\ Heed /\ mode' = mode /\ sent' = sent
  <2>1. Aside /\ UNCHANGED <<handle, ready>> /\ ~Spawns
    BY <1>1, <1>4, QuietAside, NotSpawned DEF KeepService
  <2> QED  BY <1>4, <2>1, KeepsTurn, StaysCompose
<1>5. ASSUME NEW ended \in BOOLEAN,
             ended => RecordFinished /\ session.current = Front.request,
             session' = Advanced(s1, handle, ready, ended),
             tasks' = tasks \cup AdvanceTasks(s1, handle, ready, ended),
             KeepService, Heed, mode' = mode, sent' = sent
      PROVE  TInv'
  <2>1. Aside /\ UNCHANGED <<handle, ready>> /\ harness' = harness /\ events' = Tail(events)
    BY <1>1, <1>5, QuietAside DEF KeepService, Heed
  <2>2. events \in Seq(Events)
    BY DEF IInv, TypeOK, WorldType
  <2>3. /\ 1 \in DOMAIN events /\ Front = events[1]
        /\ \A i \in DOMAIN events' : i + 1 \in DOMAIN events /\ i + 1 > 1 /\ events'[i] = events[i + 1]
    BY <1>1, <2>1, <2>2 DEF Front
  <2>4. ASSUME ended, NEW q \in Left, q = session.current PROVE FALSE
    <3>1. q = events[1].request /\ events[1].kind = "finished"
      BY <1>1, <1>5, <2>3, <2>4
    <3>2. /\ q # None /\ q # harness.turn /\ q \in Elements(sent)
          /\ \A j \in DOMAIN events : j > 1 => events[j].request # q
      BY <2>3, <3>1 DEF TInv, Told
    <3>3. \A u \in Called : u.request \notin Elements(sent)
      BY DEF Called, IInv, LedgerOK
    <3>4. \A i \in DOMAIN events' : q # events'[i].request
      BY <2>3, <3>2
    <3>5. \/ q = harness.turn \/ \E i \in DOMAIN events' : q = events'[i].request
          \/ \E u \in Called : q = u.request
      BY <2>4 DEF Left
    <3> QED  BY <3>2, <3>3, <3>4, <3>5
  <2>5. ASSUME RetriedOnce, handle # 0, NEW q \in Left PROVE q = session.current
    <3>1. q \in Due
      <4>1. q # None /\ (q = harness.turn \/ (\E i \in DOMAIN events' : q = events'[i].request)
                           \/ \E u \in Called : q = u.request)
        BY <2>5 DEF Left
      <4> QED  BY <2>3, <4>1 DEF Due
    <3> QED  BY <1>1, <2>5, <3>1 DEF TInv, Follow
  <2>6. RetriedOnce /\ handle # 0 /\ ended => Left = {}
    BY <2>4, <2>5
  <2> QED  BY <1>1, <1>3, <1>5, <2>1, <2>6, AdvanceTurn
<1> QED  BY <1>2, <1>4, <1>5, OverTurn

(* A harness whose exit is recorded takes its turn with it.                 *)
LEMMA LetGoTurn ==
  ASSUME IInv, HInv, TInv, Kept(session, session'), Handed, mode = "up", events # <<>>,
         LetGo, mode' = mode, sent' = sent
  PROVE  TInv'
BY QuietAside, NoneTurn DEF LetGo

(* An exit that is recorded lets go of the harness, unless it is torn.      *)
LEMMA ExitLetsGo ==
  ASSUME RecordExited
  PROVE  (\E P : Over(P)) \/ (LetGo /\ mode' = mode /\ sent' = sent)
<1> DEFINE expected  == Front.status = "expected"
           restoring == session.state = "resuming" /\ session.native
           resumable == /\ Front.cleaned
                        /\ \/ ready /\ CanResume(session)
                           \/ stopping /\ restoring
           recover   == resumable /\ ~stopping /\ ~session.recovery
           asked     == {r \in Interrupts \cup Stops :
                           session.receipts[r] \in {"accepted", "delivered", "unknown"}}
           st == IF expected /\ session.closing THEN "closed"
                 ELSE IF resumable /\ (stopping \/ recover) THEN "suspended"
                 ELSE "process_lost"
           gone  == IF Gone THEN "unknown" ELSE "unknown_after_restart"
           ended == Finish(session, session.current, gone)
           s1 == IF session.current = None THEN session ELSE ended
           s2 == FinishAll(s1, asked, "unknown_after_restart")
           s3 == IF Front.cleaned THEN Pid(s2, FALSE) ELSE s2
           s4 == State(s3, st, None)
           answer == IF expected THEN "completed" ELSE "unknown"
           closed == Finish(s4, CloseRequest(s4), answer)
           s5 == IF session.closing THEN closed ELSE s4
           fails == st # "suspended" /\ session.startup # "startup_timeout"
           failed == FailPending(s5)
           s6 == IF fails THEN failed ELSE s5
           partly == IF fails THEN PartlyFailed(s5) ELSE {}
           s7 == State(s6, "resuming", None)
           final == IF recover THEN s7 ELSE s6
           ts == IF recover THEN {Relaunch} ELSE {}
           P == ({session, s1, s2, s3, s4, s6} \cup partly) \cup {final}
<1>1. Torn(P, FALSE) \/ (LetGo /\ mode' = mode /\ sent' = sent)
  BY DEF RecordExited, Commit
<1> HIDE DEF P
<1> QED  BY <1>1, TornOver

(* The exit of the harness ends its turn.                                   *)
LEMMA RecordExitTurn ==
  ASSUME IInv, HInv, TInv, Kept(session, session'), Handed, RecordSlept \/ RecordExited
  PROVE  TInv'
<1>1. mode = "up" /\ events # <<>>
  BY DEF RecordSlept, RecordExited, Records
<1>2. (\E P : Over(P)) \/ (LetGo /\ mode' = mode /\ sent' = sent)
  BY ExitLetsGo, TornOver DEF RecordSlept, Commit
<1> QED  BY <1>1, <1>2, OverTurn, LetGoTurn

(* The guard, and the age of its sample.                                    *)
LEMMA GuardTurn ==
  ASSUME IInv, HInv, TInv, Kept(session, session'), Handed, GuardLoop \/ SampleExpires
  PROVE  TInv'
<1>1. CASE GuardLooks \/ SampleExpires
  <2>1. /\ Aside /\ session' = session /\ mode' = mode /\ UNCHANGED <<handle, ready>> /\ ~Spawns
    BY <1>1, QuietAside, NotSpawned DEF GuardLooks, SampleExpires, Same, KeepService, ghostVars
  <2> QED  BY <2>1, KeepsTurn, StaysCompose
<1>2. CASE GuardPauses
  <2> DEFINE s1 == StoragePaused(session, TRUE)
  <2>1. \/ \E Q : Over(Q)
        \/ session' = s1 /\ mode' = mode /\ sent' = sent /\ tasks' = tasks /\ Freeze(guard.harness, TRUE)
    BY <1>2, TornOver DEF GuardPauses, Commit
  <2>2. Stays(session, s1)
    BY RecordsStay
  <2> HIDE DEF s1
  <2>3. CASE ~(\E Q : Over(Q))
    <3>1. Aside /\ UNCHANGED <<handle, ready>> /\ ~Spawns
      BY <2>1, <2>3, QuietAside, NotSpawned DEF Freeze
    <3> QED  BY <2>1, <2>2, <2>3, <3>1, KeepsTurn
  <2> QED  BY <2>3, OverTurn
<1>3. CASE GuardResumes
  <2> DEFINE s1 == StoragePaused(session, FALSE)
  <2>1. \/ \E Q : Over(Q)
        \/ /\ session' = Advanced(s1, handle, ready, FALSE) /\ mode' = mode /\ sent' = sent
           /\ tasks' = tasks \cup AdvanceTasks(s1, handle, ready, FALSE)
           /\ Freeze(guard.harness, FALSE)
    BY <1>3, TornOver DEF GuardResumes, Commit
  <2>2. Stays(session, s1) /\ mode = "up"
    BY <1>3, RecordsStay DEF GuardResumes
  <2> HIDE DEF s1
  <2>3. CASE ~(\E Q : Over(Q))
    <3>1. Aside /\ UNCHANGED <<handle, ready>>
      BY <2>1, <2>3, QuietAside DEF Freeze
    <3> QED  BY <2>1, <2>2, <2>3, <3>1, AdvanceTurn
  <2> QED  BY <2>3, OverTurn
<1> QED  BY <1>1, <1>2, <1>3 DEF GuardLoop

-----------------------------------------------------------------------------
(* All steps, again.                                                        *)

(* Nothing runs at first.                                                   *)
LEMMA InitTInv ==
  ASSUME Init
  PROVE  TInv
<1>1. DOMAIN <<>> = {} /\ Waiting({}) = {}
  BY DEF Waiting, Delivers
<1>2. Told
  BY <1>1 DEF Init, Told, NoHarness
<1>3. Sorted
  <2>1. Within(<<>>, arrived)
    BY <1>1 DEF Within, Precedes
  <2> QED  BY <1>1, <2>1 DEF Init, Sorted, NoHarness
<1> QED  BY <1>2, <1>3 DEF Init, TInv, Follow, Wedged

(* Every step keeps the turn.                                               *)
LEMMA NextTInv ==
  ASSUME IInv, HInv, TInv, [Next]_vars
  PROVE  TInv'
<1> Kept(session, session') /\ Handed
  BY NextIInv DEF Preserved
<1>1. CASE Boots \/ RecordNative \/ GuardLoop \/ SampleExpires \/ Harness
  BY <1>1, BootTurn, GuardTurn, ProcessTurn, RecordStartedTurn, RecordEndedTurn, RecordExitTurn
     DEF RecordNative
<1>2. CASE Commands
  <2>1. \A r \in Interrupts \cup Stops : r \in Requests
    BY DEF Requests
  <2> QED  BY <1>2, <2>1, StartSessionTurn, PromptTurn, InterruptCommandTurn, ResumeQueueTurn,
              CancelTurn, CompactTurn, SleepTurn, CloseTurn
           DEF Commands
<1>3. ASSUME NEW t \in tasks, Starting(t) PROVE TInv'
  BY <1>3, BeginTurn, SpawnTurn, StartedTurn DEF Starting
<1>4. ASSUME NEW t \in tasks, Calling(t) PROVE TInv'
  BY <1>4, SendTurn, RecordReplyTurn, AdvanceLaterTurn DEF Calling
<1>5. CASE SleepDue \/ Drain \/ Undrain \/ Shutdown
  BY <1>5, DueTurn
<1>6. CASE Crash \/ Wedge
  <2>1. Over({session})
    BY <1>6 DEF Crash, Wedge, Over, ghostVars
  <2> QED  BY <2>1, OverTurn
<1>7. CASE UNCHANGED vars
  <2>1. /\ session' = session /\ mode' = mode /\ UNCHANGED <<handle, ready>> /\ Aside /\ ~Spawns
    BY <1>7, QuietAside, NotSpawned DEF vars, serviceVars, worldVars, ghostVars
  <2> QED  BY <2>1, KeepsTurn, StaysCompose
<1> QED  BY <1>1, <1>2, <1>3, <1>4, <1>5, <1>6, <1>7 DEF Next

(* The invariant of the turn always holds.                                  *)
LEMMA TurnInvariant == Spec => []TInv
<1>1. Init => TInv
  BY InitTInv
<1>2. IInv /\ HInv /\ TInv /\ [Next]_vars => TInv'
  BY NextTInv
<1> QED  BY <1>1, <1>2, Invariant, HarnessInvariant, PTL DEF Spec

(* The session never sends a prompt to a harness that runs another turn:    *)
(* with what it recorded, what it has yet to record and what is on its way  *)
(* to the harness, it is never behind, across lost replies, refusals, late  *)
(* answers, interrupts, compactions, crashes and a journal that refuses     *)
(* writes.                                                                  *)
THEOREM OneTurnAtATime == Spec => []OneTurn
<1>1. IInv /\ HInv /\ TInv => OneTurn
  <2> SUFFICES ASSUME IInv, HInv, TInv, RetriedOnce, NEW t \in tasks,
                      Calls(t, "deliver"), Heard(t)
               PROVE  harness.turn = None
    BY DEF OneTurn
  <2>1. t \in Called /\ harness.live
    BY DEF Called, Waiting, Delivers, Calls, Heard, Reachable, Running
  <2> QED  BY <2>1, CalledOnce
<1> QED  BY <1>1, Invariant, HarnessInvariant, TurnInvariant, PTL

(* Prompts reach a harness in the order in which they were accepted, across *)
(* restarts, wakes, cancellations and refused deliveries.                   *)
THEOREM PromptsSentInOrder == Spec => []InOrder
<1>1. IInv /\ TInv => InOrder
  <2> SUFFICES ASSUME IInv, TInv, RetriedOnce, NEW i \in DOMAIN sent, NEW j \in DOMAIN sent, i < j
               PROVE  Position(arrived, sent[i]) < Position(arrived, sent[j])
    BY DEF InOrder
  <2>1. Precedes(sent, sent[i], sent[j])
    BY DEF Precedes
  <2>2. Within(sent, arrived)
    BY DEF TInv, Sorted
  <2>3. Precedes(arrived, sent[i], sent[j])
    BY <2>1, <2>2 DEF Within
  <2>4. arrived \in Seq(Prompts) /\ Distinct(arrived)
    BY DEF IInv, TypeOK, GhostType, OrderOK
  <2> QED  BY <2>3, <2>4, PrecedesFacts
<1> QED  BY <1>1, Invariant, TurnInvariant, PTL
-----------------------------------------------------------------------------
(* Compactions, and what a drain stops.                                     *)

(* What the records of a session leave alone: it closes once, and what is   *)
(* known of a close or of a compaction whose reply was lost stays (Trails); *)
(* the compaction under way goes on (Carries); and the queue finds nothing    *)
(* new to run (Drains).                                                     *)
Fitting(s) ==
  /\ {"state", "queue", "paused", "compact", "closing", "receipts"} \subseteq DOMAIN s
  /\ DOMAIN s.receipts = Requests /\ s.queue \in Seq(Prompts)
Trails(s, t) ==
  Fitting(s) =>
    /\ Fitting(t) /\ (s.closing => t.closing)
    /\ t.state = "closed" => s.state = "closed" \/ t.closing
    /\ \A r \in Closes : s.receipts[r] # "none" => t.receipts[r] # "none"
    /\ \A k \in Compacts : s.receipts[k] = "unknown" => t.receipts[k] = "unknown"
Carries(s, t) ==
  Fitting(s) =>
    (t.compact <=> s.compact) /\ \A k \in Compacts : t.receipts[k] = s.receipts[k]
Drains(s, t) ==
  Fitting(s) => (s.queue = <<>> => t.queue = <<>>) /\ (s.paused => t.paused)
Eases(s, t) == Trails(s, t) /\ Carries(s, t) /\ Drains(s, t)

(* Sessions have these fields, and records compose.                         *)
LEMMA EasesCompose ==
  /\ IInv => Fitting(session)
  /\ \A s : Trails(s, s) /\ Eases(s, s)
  /\ \A s, t, u : Trails(s, t) /\ Trails(t, u) => Trails(s, u)
  /\ \A s, t, u : Eases(s, t) /\ Eases(t, u) => Eases(s, u)
  /\ \A s, t, u : Trails(s, t) /\ Drains(s, t) /\ Eases(t, u) => Trails(s, u) /\ Drains(s, u)
  /\ \A s, t, u : Trails(s, t) /\ Carries(s, t) /\ Eases(t, u) => Trails(s, u) /\ Carries(s, u)
<1>1. IInv => Fitting(session)
  BY DEF IInv, TypeOK, Sessions, Fitting
<1>2. \A s : Trails(s, s) /\ Eases(s, s)
  BY DEF Eases, Trails, Carries, Drains
<1>3. \A s, t, u : Trails(s, t) /\ Trails(t, u) => Trails(s, u)
  BY DEF Trails
<1>4. \A s, t, u : Trails(s, t) /\ Carries(s, t) /\ Carries(t, u) => Carries(s, u)
  BY DEF Trails, Carries
<1>5. \A s, t, u : Trails(s, t) /\ Drains(s, t) /\ Drains(t, u) => Drains(s, u)
  BY DEF Trails, Drains
<1> QED  BY <1>1, <1>2, <1>3, <1>4, <1>5 DEF Eases

(* An empty queue loses nothing, and any other stays a queue.               *)
LEMMA EasesQueue ==
  ASSUME NEW q \in Seq(Prompts), NEW p
  PROVE  /\ Without(q, p) \in Seq(Prompts) /\ (q = <<>> => Without(q, p) = <<>>)
         /\ \A n \in 0..Len(q) : /\ SubSeq(q, n + 1, Len(q)) \in Seq(Prompts)
                                 /\ q = <<>> => SubSeq(q, n + 1, Len(q)) = <<>>
<1>1. Without(q, p) \in Seq(Prompts) /\ (q = <<>> => Without(q, p) = <<>>)
  <2>1. CASE p \notin Elements(q)
    BY <2>1 DEF Without
  <2>2. CASE p \in Elements(q)
    <3> DEFINE n == Len(q) - 1
    <3>1. Position(q, p) \in 1..Len(q) /\ Len(q) \in Nat
      BY <2>2, PositionFacts
    <3>2. n \in Nat /\ q # <<>>
      BY <3>1
    <3>3. \A i \in 1..n : q[i] \in Prompts /\ q[i + 1] \in Prompts
      BY <3>1
    <3>4. Without(q, p) = [i \in 1..n |-> IF i < Position(q, p) THEN q[i] ELSE q[i + 1]]
      BY <2>2 DEF Without
    <3> QED  BY <3>2, <3>3, <3>4
  <2> QED  BY <2>1, <2>2
<1>2. ASSUME NEW n \in 0..Len(q)
      PROVE  /\ SubSeq(q, n + 1, Len(q)) \in Seq(Prompts)
             /\ q = <<>> => SubSeq(q, n + 1, Len(q)) = <<>>
  <2>1. Len(q) \in Nat /\ Len(q) - n \in Nat
    OBVIOUS
  <2>2. /\ SubSeq(q, n + 1, Len(q)) = [i \in 1..(Len(q) - n) |-> q[i + n]]
        /\ \A i \in 1..(Len(q) - n) : q[i + n] \in Prompts
    BY <2>1
  <2> QED  BY <2>1, <2>2
<1> QED  BY <1>1, <1>2

(* All of them do but those of a compaction, a prompt and a resume.         *)
LEMMA RecordsEase ==
  ASSUME NEW s, NEW r \in Requests \ Compacts, NEW p, NEW st, st # "none"
  PROVE  /\ Trails(s, Accept(s, r)) /\ Carries(s, Accept(s, r))
         /\ r \notin Prompts \cup Resumes => Eases(s, Accept(s, r))
         /\ r \notin Prompts \cup Resumes => Eases(s, AcceptCancel(s, r, p))
         /\ Eases(s, Finish(s, r, st))
<1>1. /\ Trails(s, Accept(s, r)) /\ Carries(s, Accept(s, r))
      /\ r \notin Prompts \cup Resumes => Drains(s, Accept(s, r))
  <2> DEFINE t == Accept(s, r)
  <2>1. Fitting(s) =>
          /\ {"state", "queue", "paused", "compact", "closing", "receipts"} \subseteq DOMAIN t
          /\ t.receipts = [s.receipts EXCEPT ![r] = "accepted"]
          /\ t.state \in {"pending", s.state} /\ t.compact = (s.compact \/ r \in Compacts)
          /\ t.closing = (s.closing \/ r \in Closes)
    BY DEF Accept, Fitting
  <2>2. Fitting(s) =>
          /\ t.queue = IF r \in Prompts THEN Append(s.queue, r) ELSE s.queue
          /\ t.paused = IF r \in Stops THEN TRUE ELSE IF r \in Resumes THEN FALSE ELSE s.paused
    BY DEF Accept, Fitting
  <2> HIDE DEF t
  <2>3. Fitting(s) => /\ DOMAIN t.receipts = Requests
                      /\ \A k \in Requests : t.receipts[k] = IF k = r THEN "accepted" ELSE s.receipts[k]
    BY <2>1 DEF Fitting
  <2>4. Compacts \subseteq Requests /\ Closes \subseteq Requests
    BY DEF Requests
  <2>5. Fitting(s) => t.queue \in Seq(Prompts)
    <3>1. Fitting(s) /\ r \in Prompts => Append(s.queue, r) \in Seq(Prompts)
      BY AppendFacts DEF Fitting
    <3> QED  BY <2>2, <3>1 DEF Fitting
  <2>6. Trails(s, t)
    BY <2>1, <2>3, <2>4, <2>5 DEF Trails, Fitting
  <2>7. Carries(s, t)
    BY <2>1, <2>3, <2>4 DEF Carries
  <2>8. r \notin Prompts \cup Resumes => Drains(s, t)
    BY <2>2 DEF Drains
  <2> QED  BY <2>6, <2>7, <2>8 DEF t
<1>2. r \notin Prompts \cup Resumes => Eases(Accept(s, r), AcceptCancel(s, r, p))
  BY EasesQueue DEF AcceptCancel, Accept, Eases, Trails, Carries, Drains, Fitting
<1>3. Eases(s, Finish(s, r, st))
  <2>1. CASE Ended(s, r) \/ s.receipts[r] = st
    BY <2>1, EasesCompose DEF Finish
  <2>2. CASE ~(Ended(s, r) \/ s.receipts[r] = st)
    <3> DEFINE t == Finish(s, r, st)
    <3>1. t = [s EXCEPT !.receipts[r] = st,
                 !.queue    = IF r \in Prompts /\ st # "delivered" THEN Without(@, r) ELSE @,
                 !.recovery = IF r \in Prompts /\ st \in {"completed", "interrupted"}
                                THEN FALSE ELSE @,
                 !.compact  = IF r \in Compacts THEN st = "delivered" ELSE @]
      BY <2>2 DEF Finish
    <3>2. Fitting(s) => /\ t.queue \in {s.queue, Without(s.queue, r)}
                        /\ t.state = s.state /\ t.closing = s.closing /\ t.paused = s.paused
                        /\ t.compact = s.compact
                        /\ t.receipts = [s.receipts EXCEPT ![r] = st]
                        /\ {"state", "queue", "paused", "compact", "closing", "receipts"} \subseteq DOMAIN t
      BY <3>1 DEF Fitting
    <3> HIDE DEF t
    <3>3. Fitting(s) => t.queue \in Seq(Prompts) /\ (s.queue = <<>> => t.queue = <<>>)
      BY <3>2, EasesQueue DEF Fitting
    <3>4. Compacts \subseteq Requests /\ Closes \subseteq Requests
      BY DEF Requests
    <3>5. Fitting(s) => /\ DOMAIN t.receipts = Requests
                        /\ \A k \in Requests : t.receipts[k] = IF k = r THEN st ELSE s.receipts[k]
      BY <3>2 DEF Fitting
    <3>6. Trails(s, t)
      BY <3>2, <3>3, <3>4, <3>5 DEF Trails, Fitting
    <3>7. Carries(s, t) /\ Drains(s, t)
      BY <3>2, <3>3, <3>4, <3>5 DEF Carries, Drains
    <3> QED  BY <3>6, <3>7 DEF Eases, t
  <2> QED  BY <2>1, <2>2
<1> QED  BY <1>1, <1>2, <1>3, EasesCompose DEF Eases

(* Nor do the loops, the flags and the state move any of it.                *)
LEMMA StatesEase ==
  ASSUME NEW s, NEW p, NEW st
  PROVE  /\ \A rs : rs \cap Compacts = {} /\ st # "none" => Eases(s, FinishAll(s, rs, st))
         /\ Eases(s, FailPending(s)) /\ \A t \in PartlyFailed(s) : Eases(s, t)
         /\ Eases(s, StoragePaused(s, st)) /\ Eases(s, Pid(s, st)) /\ Eases(s, Native(s))
         /\ st # "closed" \/ s.closing => Eases(s, State(s, st, p))
         /\ Eases(s, Lost(s, p))
<1>0. Compacts \subseteq Requests /\ Closes \subseteq Requests /\ Compacts \cap Prompts = {}
  BY RequestsAssumption DEF Requests, RequestsAssumption
<1>1. ASSUME NEW rs, rs \cap Compacts = {}, st # "none" PROVE Eases(s, FinishAll(s, rs, st))
  BY <1>0, <1>1 DEF FinishAll, Eases, Trails, Carries, Drains, Fitting
<1>2. ASSUME Fitting(s) => s.queue \in Seq(Prompts), NEW n \in 0..Len(s.queue)
      PROVE  Eases(s, FailFirst(s, n))
  <2> DEFINE t == FailFirst(s, n)
             failed == {s.queue[i] : i \in 1..n}
  <2>1. Fitting(s) => /\ t.queue = SubSeq(s.queue, n + 1, Len(s.queue))
                      /\ t.state = s.state /\ t.closing = s.closing /\ t.paused = s.paused
                      /\ t.compact = s.compact
                      /\ t.receipts = [r \in Requests |-> IF r \in failed THEN "failed" ELSE s.receipts[r]]
                      /\ {"state", "queue", "paused", "compact", "closing", "receipts"} \subseteq DOMAIN t
    BY DEF FailFirst, Fitting
  <2>2. Fitting(s) => failed \subseteq Prompts
    BY DEF Fitting
  <2>3. Fitting(s) => t.queue \in Seq(Prompts) /\ (s.queue = <<>> => t.queue = <<>>)
    BY <2>1, EasesQueue DEF Fitting
  <2> HIDE DEF t, failed
  <2>4. Fitting(s) => \A k \in Compacts : t.receipts[k] = s.receipts[k]
    BY <1>0, <2>1, <2>2
  <2>5. Trails(s, t)
    BY <1>0, <2>1, <2>3, <2>4 DEF Trails, Fitting
  <2>6. Carries(s, t) /\ Drains(s, t)
    BY <2>1, <2>3, <2>4 DEF Carries, Drains
  <2> QED  BY <2>5, <2>6 DEF Eases, t
<1>3. ~Fitting(s) => \A t : Eases(s, t)
  BY DEF Eases, Trails, Carries, Drains
<1>4. Eases(s, FailPending(s)) /\ \A t \in PartlyFailed(s) : Eases(s, t)
  <2>1. Fitting(s) => Len(s.queue) \in 0..Len(s.queue)
    BY DEF Fitting
  <2> QED  BY <1>2, <1>3, <2>1 DEF FailPending, PartlyFailed, Fitting
<1>5. Eases(s, StoragePaused(s, st)) /\ Eases(s, Pid(s, st)) /\ Eases(s, Native(s))
  BY DEF StoragePaused, Pid, Native, Eases, Trails, Carries, Drains, Fitting
<1>6. ASSUME NEW x, NEW y, x # "closed" \/ s.closing PROVE Eases(s, State(s, x, y))
  <2> DEFINE t == State(s, x, y)
  <2>1. Fitting(s) => /\ t.queue \in {s.queue, Without(s.queue, y)}
                      /\ t.state = x /\ t.closing = s.closing /\ t.paused = s.paused
                      /\ t.compact = s.compact /\ t.receipts = s.receipts
                      /\ {"state", "queue", "paused", "compact", "closing", "receipts"} \subseteq DOMAIN t
    BY DEF State, Fitting
  <2> HIDE DEF t
  <2>2. Fitting(s) => t.queue \in Seq(Prompts) /\ (s.queue = <<>> => t.queue = <<>>)
    BY <2>1, EasesQueue DEF Fitting
  <2>3. Trails(s, t)
    BY <1>6, <2>1, <2>2 DEF Trails, Fitting
  <2>4. Carries(s, t) /\ Drains(s, t)
    BY <2>1, <2>2 DEF Carries, Drains
  <2> QED  BY <2>3, <2>4 DEF Eases, t
<1>7. Eases(s, Lost(s, p))
  <2> DEFINE t == State(s, "process_lost", None)
  <2>1. Eases(s, t)
    BY <1>6
  <2>2. Eases(t, [t EXCEPT !.startup = p])
    <3> HIDE DEF t
    <3> QED  BY DEF Eases, Trails, Carries, Drains, Fitting
  <2> HIDE DEF t
  <2>3. Lost(s, p) = [t EXCEPT !.startup = p]
    BY DEF Lost, t
  <2> QED  BY <2>1, <2>2, <2>3, EasesCompose
<1> QED  BY <1>1, <1>4, <1>5, <1>6, <1>7

(* What advance makes of a session.                                         *)
LEMMA AdvanceEases ==
  ASSUME NEW s, NEW h, NEW rdy, NEW ended
  PROVE  Eases(s, Advanced(s, h, rdy, ended))
<1>1. Eases(s, s) /\ \A st, p : st # "closed" => Eases(s, State(s, st, p))
  BY EasesCompose, StatesEase
<1>2. Rests(s) # "closed"
  BY DEF Rests
<1> QED  BY <1>1, <1>2 DEF Advanced

(* The compactions on their way to the harness of the session, or refused   *)
(* by it; and the events that end one.                                      *)
Compactions(ts) == {t \in ts : t.kind = "compact"}
Flying    == {t \in Compactions(tasks) : t.harness = handle /\ t.step \in {"waiting", "failed"}}
Compacted == {i \in DOMAIN events : events[i].kind = "compacted"}
Holding   == draining /\ RetriedOnce /\ CompactsAnswered

(* A closed session stays closed.  Each compaction has a receipt of its own,*)
(* and none waits for a harness to come.                                    *)
Shut == session.state = "closed" => session.closing
Reported ==
  /\ \A t \in Compactions(tasks) : t.harness <= harness.id
  /\ mode = "up" =>
       \A t \in Compactions(tasks) :
         /\ session.receipts[t.request] \notin {"none", "unknown"}
         /\ \A u \in Compactions(tasks) : u.request = t.request => u = t

(* A compaction is on its way, at work, or ended and not yet recorded: one  *)
(* of them at most, and the session knows that it compacts, and is ready.   *)
Flight ==
  mode = "up" /\ RetriedOnce /\ CompactsAnswered /\ handle # 0 =>
    /\ Flying # {} \/ harness.compacting \/ Compacted # {} => session.compact /\ ready
    /\ \A t, u \in Flying : t = u
    /\ \A i, j \in Compacted : i = j
    /\ Flying # {} => ~harness.compacting /\ Compacted = {}
    /\ harness.compacting => Compacted = {}

(* While a drain holds the queue does not move, and nothing is on its way   *)
(* to the harness that would begin there.                                   *)
Drained ==
  Holding =>
    /\ mode \in {"up", "wedged"}
    /\ mode = "up" => session.queue = <<>> \/ session.paused \/ session.closing
    /\ harness.live =>
         /\ Called = {}
         /\ \A t \in Compactions(tasks) : t.harness = harness.id => t.step # "waiting"

DInv == Shut /\ Reported /\ Flight /\ Drained

(* What a handler leaves alone of the process: no compaction begins or ends.*)
Passes == \E k \in {0, 1} : \A i \in Compacted' : i \in Nat /\ i + k \in Compacted
Soft ==
  /\ harness'.id = harness.id /\ (harness'.live => harness.live)
  /\ (harness'.compacting => harness.compacting) /\ Passes

(* A handler that begins none, and, while a drain holds, no turn.           *)
Mild ==
  /\ mode' = mode /\ (draining' => draining) /\ Soft
  /\ handle' \in {handle, 0} /\ (handle' # 0 /\ ready /\ session.compact => ready')
  /\ Compactions(tasks') \subseteq tasks
  /\ Holding => ~Spawns
Eased ==
  /\ Trails(session, session') /\ Carries(session, session')
  /\ Holding => Drains(session, session')

(* A closed session stays so, and the reply to a compaction that was lost   *)
(* stays lost.                                                              *)
LEMMA TrailsStay ==
  ASSUME IInv, DInv, Kept(session, session'), Trails(session, session')
  PROVE  /\ Shut' /\ (CompactsAnswered' => CompactsAnswered)
         /\ (RetriedOnce' => RetriedOnce) /\ (draining /\ Holding' => Holding)
         /\ session.closing => session'.closing
<1>1. Fitting(session) /\ (RetriedOnce' => RetriedOnce)
  BY EasesCompose, KeptRetries
<1>2. Shut' /\ (session.closing => session'.closing)
  BY <1>1 DEF Trails, Shut, DInv
<1>3. CompactsAnswered' => CompactsAnswered
  BY <1>1 DEF Trails, CompactsAnswered
<1> QED  BY <1>1, <1>2, <1>3 DEF Holding

(* The end of the service, and a journal that refuses writes.               *)
LEMMA OverDrain ==
  ASSUME IInv, HInv, TInv, DInv, Kept(session, session'), Trails(session, session'),
         NEW P, Over(P)
  PROVE  DInv'
<1>1. CASE ServiceGone
  <2>1. mode' = "down" /\ tasks' = {} /\ draining' = FALSE
    BY <1>1 DEF ServiceGone
  <2>2. Compactions(tasks') = {}
    BY <2>1 DEF Compactions
  <2> QED  BY <2>1, <2>2, TrailsStay DEF DInv, Reported, Flight, Drained, Holding
<1>2. CASE ~ServiceGone
  <2>1. /\ mode = "up" /\ mode' = "wedged"
        /\ UNCHANGED <<draining, tasks, harness>>
    BY <1>2 DEF Over, worldVars
  <2>2. Reported'
    BY <2>1 DEF DInv, Reported
  <2>3. Drained'
    BY <2>1, TrailsStay DEF DInv, Drained, Holding, Called
  <2> QED  BY <2>1, <2>2, <2>3, TrailsStay DEF DInv, Flight
<1> QED  BY <1>1, <1>2

(* Any handler that begins nothing.                                         *)
LEMMA MildStep ==
  ASSUME IInv, HInv, TInv, DInv, Kept(session, session'), Handed, Mild, Eased
  PROVE  DInv'
<1>1. /\ Shut' /\ (CompactsAnswered' => CompactsAnswered) /\ (RetriedOnce' => RetriedOnce)
      /\ (Holding' => Holding) /\ (session.closing => session'.closing)
  BY TrailsStay DEF Mild, Eased, Holding
<1>2. /\ Fitting(session) /\ (session'.compact <=> session.compact)
      /\ \A k \in Compacts : session'.receipts[k] = session.receipts[k]
  BY EasesCompose DEF Eased, Carries
<1>3. \A t \in Compactions(tasks') : t \in Compactions(tasks) /\ t.request \in Compacts
  BY AroundHolds DEF Mild, Compactions, TaskOK
<1>4. Reported'
  BY <1>2, <1>3 DEF Mild, Soft, DInv, Reported
<1>5. ASSUME mode' = "up", RetriedOnce', CompactsAnswered', handle' # 0 PROVE Flight'
  <2>1. handle' = handle /\ \A t \in Flying' : t \in Flying
    BY <1>3, <1>5 DEF Mild, Flying
  <2>2. PICK k \in {0, 1} : \A i \in Compacted' : i \in Nat /\ i + k \in Compacted
    BY DEF Mild, Soft, Passes
  <2>3. /\ Flying # {} \/ harness.compacting \/ Compacted # {} => session.compact /\ ready
        /\ \A t, u \in Flying : t = u
        /\ \A i, j \in Compacted : i = j
        /\ Flying # {} => ~harness.compacting /\ Compacted = {}
        /\ harness.compacting => Compacted = {}
    BY <1>1, <1>5, <2>1 DEF DInv, Flight, Mild
  <2>4. \A i, j \in Compacted' : i = j
    <3> SUFFICES ASSUME NEW i \in Compacted', NEW j \in Compacted' PROVE i = j
      OBVIOUS
    <3>1. i \in Nat /\ j \in Nat /\ i + k = j + k
      BY <2>2, <2>3
    <3> QED  BY <3>1
  <2>5. Compacted' # {} => Compacted # {}
    BY <2>2
  <2>6. harness'.compacting => harness.compacting
    BY DEF Mild, Soft
  <2>7. session'.compact /\ ready' <=> session'.compact /\ ready'
    OBVIOUS
  <2>8. session.compact /\ ready => session'.compact /\ ready'
    BY <1>2, <1>5 DEF Mild
  <2> QED  BY <2>1, <2>3, <2>4, <2>5, <2>6, <2>8 DEF Flight
<1>6. Drained'
  <2> SUFFICES ASSUME Holding' PROVE Drained'
    BY DEF Drained
  <2>1. Holding /\ mode' = mode /\ ~Spawns
    BY <1>1 DEF Mild
  <2>2. mode' = "up" => session'.queue = <<>> \/ session'.paused \/ session'.closing
    BY <1>1, <1>2, <2>1 DEF DInv, Drained, Eased, Drains
  <2>3. Called' \subseteq Called
    BY <2>1, CalledStep DEF Mild, Soft
  <2>4. harness'.id = harness.id /\ (harness'.live => harness.live)
    BY DEF Mild, Soft
  <2> QED  BY <1>3, <2>1, <2>2, <2>3, <2>4 DEF DInv, Drained
<1> QED  BY <1>1, <1>4, <1>5, <1>6 DEF DInv, Flight

(* What leaves the events alone but for the first, or adds another kind.    *)
LEMMA PassesStep ==
  ASSUME IInv
  PROVE  /\ events' = events \/ (events # <<>> /\ events' = Tail(events)) => Passes
         /\ \A e \in Events : events' = Append(events, e) /\ e.kind # "compacted" => Passes
<1>1. ASSUME events' = events \/ (events # <<>> /\ events' = Tail(events)) PROVE Passes
  <2>1. PICK k \in {0, 1} : \A i \in DOMAIN events' :
          i \in Nat /\ i + k \in DOMAIN events /\ events'[i] = events[i + k]
    BY <1>1, EventsLeft
  <2> QED  BY <2>1 DEF Passes, Compacted
<1>2. ASSUME NEW e \in Events, events' = Append(events, e), e.kind # "compacted" PROVE Passes
  <2>1. \A i \in DOMAIN events' :
          (i \in DOMAIN events /\ events'[i] = events[i]) \/ events'[i] = e
    BY <1>2, EventsMore
  <2>2. \A i \in DOMAIN events : i \in Nat /\ i + 0 = i
    BY DEF IInv, TypeOK, WorldType
  <2>3. \A i \in Compacted' : i \in Nat /\ i + 0 \in Compacted
    BY <1>2, <2>1, <2>2 DEF Compacted
  <2> QED  BY <2>3 DEF Passes
<1> QED  BY <1>1, <1>2

(* What leaves the process alone.                                           *)
LEMMA QuietSoft ==
  ASSUME IInv
  PROVE  /\ KeepWorld \/ UNCHANGED <<harness, events>> => Soft
         /\ Heed /\ events # <<>> => Soft
         /\ \A h : harness' = AskExit(h) /\ events' = events => Soft
         /\ \A h, f : Freeze(h, f) => Soft
<1>1. harness \in Processes
  BY DEF IInv, TypeOK, WorldType
<1>2. KeepWorld \/ UNCHANGED <<harness, events>> \/ (Heed /\ events # <<>>) => Soft
  BY PassesStep DEF Soft, KeepWorld, Heed
<1>3. \A h : AskExit(h).id = harness.id /\ AskExit(h).live = harness.live
             /\ AskExit(h).compacting = harness.compacting
  BY <1>1 DEF AskExit, Processes
<1>4. ASSUME NEW h, NEW f, Freeze(h, f) PROVE Soft
  <2>1. /\ harness'.id = harness.id /\ harness'.live = harness.live
        /\ harness'.compacting = harness.compacting
    BY <1>1, <1>4 DEF Freeze, Processes
  <2> QED  BY <1>4, <2>1, PassesStep DEF Freeze, Soft
<1> QED  BY <1>2, <1>3, <1>4, PassesStep DEF Soft

(* No handler spawns a compaction but the command; and while a drain holds  *)
(* none spawns a delivery: it finds no prompt that it may claim.            *)
LEMMA HeldBack ==
  ASSUME NEW s, NEW rdy, NEW ended, NEW u \in AdvanceTasks(s, handle, rdy, ended)
  PROVE  /\ u.kind # "compact"
         /\ IInv /\ DInv /\ mode = "up" /\ Holding /\ Trails(session, s) /\ Drains(session, s)
              => u.kind # "deliver"
<1>1. CASE Wakes(s, handle)
  <2>1. u = Relaunch
    BY <1>1 DEF AdvanceTasks, Wakes, Dispatches, Advances
  <2> QED  BY <2>1 DEF Relaunch, Task
<1>2. CASE ~Wakes(s, handle)
  <2>1. Dispatches(s, rdy, ended) /\ u = Deliver(NextPrompt(s), handle)
    BY <1>2 DEF AdvanceTasks
  <2>2. s.queue # <<>> /\ ~s.paused /\ ~s.closing
    BY <2>1 DEF Dispatches, Advances, Held
  <2>3. ~(IInv /\ DInv /\ mode = "up" /\ Holding /\ Trails(session, s) /\ Drains(session, s))
    BY <2>2, EasesCompose DEF DInv, Drained, Trails, Drains
  <2> QED  BY <2>1, <2>3 DEF Deliver, Task
<1> QED  BY <1>1, <1>2

(* A handler that spawns tasks of other kinds.                              *)
LEMMA EasyDrain ==
  ASSUME IInv, HInv, TInv, DInv, Kept(session, session'), Handed, Soft, Eased,
         mode' = mode, draining' => draining,
         handle' \in {handle, 0}, handle' # 0 /\ ready /\ session.compact => ready',
         NEW ts, tasks' \subseteq tasks \cup ts,
         \A u \in ts : u.kind # "compact" /\ (Holding /\ u.step = "waiting" => u.kind # "deliver")
  PROVE  DInv'
<1>1. Compactions(tasks') \subseteq tasks
  BY DEF Compactions
<1>2. Holding => ~Spawns
  BY DEF Spawns, Waiting, Delivers
<1> QED  BY <1>1, <1>2, MildStep DEF Mild

(* One that ends with an advance.                                           *)
LEMMA AdvanceDrain ==
  ASSUME IInv, HInv, TInv, DInv, Kept(session, session'), Handed, Soft,
         mode = "up", mode' = mode, UNCHANGED <<handle, draining>>, ready => ready',
         NEW s, Eases(session, s), NEW rdy, NEW ended, session' = Advanced(s, handle, rdy, ended),
         tasks' \subseteq tasks \cup AdvanceTasks(s, handle, rdy, ended)
  PROVE  DInv'
<1> DEFINE ts == AdvanceTasks(s, handle, rdy, ended)
<1>1. Eases(session, session')
  BY AdvanceEases, EasesCompose
<1>2. \A u \in ts : u.kind # "compact" /\ (Holding /\ u.step = "waiting" => u.kind # "deliver")
  BY HeldBack DEF Eases
<1> HIDE DEF ts
<1>3. tasks' \subseteq tasks \cup ts
  BY DEF ts
<1> QED  BY <1>1, <1>2, <1>3, EasyDrain DEF Eases, Eased

(* One that spawns nothing, or starts.                                      *)
LEMMA CommandDrain ==
  ASSUME IInv, HInv, TInv, DInv, Kept(session, session'), Handed, Soft, Eases(session, session'),
         mode' = mode, draining' => draining,
         handle' \in {handle, 0}, handle' # 0 /\ ready /\ session.compact => ready',
         tasks' \subseteq tasks \/ \E u : u.kind \in {"launch", "relaunch", "interrupt", "advance"} /\ tasks' \subseteq tasks \cup {u}
  PROVE  DInv'
<1>1. Eased
  BY DEF Eases, Eased
<1>2. CASE tasks' \subseteq tasks
  <2> DEFINE none == {}
  <2>1. tasks' \subseteq tasks \cup none /\ \A v \in none : FALSE
    BY <1>2
  <2> HIDE DEF none
  <2> QED  BY <1>1, <2>1, EasyDrain
<1>3. CASE ~(tasks' \subseteq tasks)
  <2>1. PICK u : u.kind \in {"launch", "relaunch", "interrupt", "advance"} /\ tasks' \subseteq tasks \cup {u}
    BY <1>3
  <2>2. \A v \in {u} : v.kind # "compact" /\ v.kind # "deliver"
    BY <2>1
  <2> QED  BY <1>1, <2>1, <2>2, EasyDrain
<1> QED  BY <1>2, <1>3

(* The records of a compaction.                                             *)
LEMMA CompactionRecords ==
  ASSUME IInv, NEW k \in Compacts, NEW st \in {"delivered", "completed", "failed", "unknown"}
  PROVE  /\ session.receipts[k] = "none" =>
              LET s == Accept(session, k) IN
                /\ Trails(session, s) /\ Drains(session, s) /\ s.compact
                /\ \A r \in Requests : s.receipts[r] = IF r = k THEN "accepted" ELSE session.receipts[r]
         /\ session.receipts[k] # "unknown" =>
              LET s == Finish(session, k, st) IN
                /\ Trails(session, s) /\ Drains(session, s)
                /\ s = session \/ ((s.compact <=> st = "delivered") /\ s.receipts[k] = st)
                /\ \A r \in Requests : r # k => s.receipts[r] = session.receipts[r]
<1>1. k \in Requests /\ k \notin Prompts \cup Resumes \cup Closes \cup Stops /\ k # Start
      /\ Compacts \subseteq Requests /\ Closes \subseteq Requests
  BY RequestsAssumption DEF RequestsAssumption, Requests
<1>2. Fitting(session)
  BY EasesCompose
<1>3. ASSUME session.receipts[k] = "none"
      PROVE  LET s == Accept(session, k) IN
               /\ Trails(session, s) /\ Drains(session, s) /\ s.compact
               /\ \A r \in Requests : s.receipts[r] = IF r = k THEN "accepted" ELSE session.receipts[r]
  <2> DEFINE s == Accept(session, k)
  <2>1. /\ {"state", "queue", "paused", "compact", "closing", "receipts"} \subseteq DOMAIN s
        /\ s.receipts = [session.receipts EXCEPT ![k] = "accepted"]
        /\ s.state = session.state /\ s.compact = TRUE
        /\ (s.closing <=> session.closing)
        /\ s.queue = session.queue /\ s.paused = session.paused
    BY <1>1, <1>2 DEF Accept, Fitting
  <2> HIDE DEF s
  <2>2. DOMAIN s.receipts = Requests
        /\ \A r \in Requests : s.receipts[r] = IF r = k THEN "accepted" ELSE session.receipts[r]
    BY <1>2, <2>1 DEF Fitting
  <2>3. Trails(session, s)
    BY <1>1, <1>3, <2>1, <2>2 DEF Trails, Fitting
  <2>4. Drains(session, s)
    BY <2>1 DEF Drains
  <2> QED  BY <2>1, <2>2, <2>3, <2>4 DEF s
<1>4. ASSUME session.receipts[k] # "unknown"
      PROVE  LET s == Finish(session, k, st) IN
               /\ Trails(session, s) /\ Drains(session, s)
               /\ s = session \/ ((s.compact <=> st = "delivered") /\ s.receipts[k] = st)
               /\ \A r \in Requests : r # k => s.receipts[r] = session.receipts[r]
  <2> DEFINE s == Finish(session, k, st)
  <2>1. CASE Ended(session, k) \/ session.receipts[k] = st
    <3>1. s = session
      BY <2>1 DEF Finish
    <3> QED  BY <3>1, EasesCompose DEF Eases
  <2>2. CASE ~(Ended(session, k) \/ session.receipts[k] = st)
    <3>1. s = [session EXCEPT !.receipts[k] = st,
                 !.queue    = IF k \in Prompts /\ st # "delivered" THEN Without(@, k) ELSE @,
                 !.recovery = IF k \in Prompts /\ st \in {"completed", "interrupted"}
                                THEN FALSE ELSE @,
                 !.compact  = IF k \in Compacts THEN st = "delivered" ELSE @]
      BY <2>2 DEF Finish
    <3>2. /\ {"state", "queue", "paused", "compact", "closing", "receipts"} \subseteq DOMAIN s
          /\ s.receipts = [session.receipts EXCEPT ![k] = st]
          /\ s.state = session.state /\ (s.compact <=> st = "delivered")
          /\ s.closing = session.closing /\ s.queue = session.queue /\ s.paused = session.paused
      BY <1>1, <1>2, <3>1 DEF Fitting
    <3> HIDE DEF s
    <3>3. DOMAIN s.receipts = Requests
          /\ \A r \in Requests : s.receipts[r] = IF r = k THEN st ELSE session.receipts[r]
      BY <1>2, <3>2 DEF Fitting
    <3>4. Trails(session, s)
      BY <1>1, <1>4, <3>2, <3>3 DEF Trails, Fitting
    <3>5. Drains(session, s)
      BY <3>2 DEF Drains
    <3> QED  BY <1>1, <3>2, <3>3, <3>4, <3>5 DEF s
  <2> QED  BY <2>1, <2>2
<1> QED  BY <1>3, <1>4

-----------------------------------------------------------------------------
(* The compaction across boots, commands, sleep and stops.                  *)

(* A boot finds no drain.                                                   *)
LEMMA BootDrain ==
  ASSUME IInv, HInv, TInv, DInv, Kept(session, session'), Handed, Boots
  PROVE  DInv'
<1>1. handle' = 0 /\ draining' = draining /\ ~Holding
  BY DEF Boots, Open, OpenUnreadable, Restore, KeepService, HInv, Owned, DInv, Drained
<1>2. \A t \in tasks' : t.kind # "compact"
  <2>1. tasks = {}
    BY DEF Boots, Open, OpenUnreadable, Restore, HInv, Owned
  <2> QED  BY <2>1 DEF Boots, Open, OpenUnreadable, Restore, Launch, Relaunch, Task
<1>3. Trails(session, Reopened(session))
  <2> DEFINE s == Settled(session)
  <2>1. /\ {"state", "queue", "paused", "compact", "closing", "receipts"} \subseteq DOMAIN s
        /\ s.state = session.state /\ s.closing = session.closing
        /\ s.queue \in {session.queue, <<>>}
        /\ DOMAIN s.receipts = Requests
        /\ \A r \in Requests : \/ s.receipts[r] = session.receipts[r]
                               \/ Unsettled(session, r) /\ s.receipts[r] \in Terminal
    BY EasesCompose DEF Settled, Fitting, Terminal
  <2> HIDE DEF s
  <2>2. \A r \in Requests : /\ session.receipts[r] = "unknown" => s.receipts[r] = "unknown"
                            /\ session.receipts[r] # "none" => s.receipts[r] # "none"
    BY <2>1 DEF Unsettled, Terminal
  <2>3. Compacts \subseteq Requests /\ Closes \subseteq Requests
    BY DEF Requests
  <2>6. s.queue \in Seq(Prompts)
    <3>1. <<>> \in Seq(Prompts)
      OBVIOUS
    <3> QED  BY <2>1, <3>1, EasesCompose DEF Fitting
  <2>4. Trails(session, s)
    BY <2>1, <2>2, <2>3, <2>6 DEF Trails, Fitting
  <2>5. \A st \in {"suspended", "process_lost"} : Trails(s, State(s, st, None))
    BY StatesEase DEF Eases
  <2> QED  BY <2>4, <2>5, EasesCompose DEF Reopened, s
<1>4. Trails(session, session')
  <2>1. /\ Trails(session, session)
        /\ \A st \in {"process_lost", "resuming", "sleeping"} : Trails(session, State(session, st, None))
    BY EasesCompose, StatesEase DEF Eases
  <2>2. Trails(session, FailPending(State(session, "process_lost", None)))
    <3> DEFINE s == State(session, "process_lost", None)
    <3>1. Trails(session, s)
      BY <2>1
    <3> HIDE DEF s
    <3>2. Trails(s, FailPending(s))
      BY StatesEase DEF Eases
    <3>3. Trails(session, FailPending(s))
      BY <3>1, <3>2, EasesCompose
    <3> QED  BY <3>3 DEF s
  <2> QED  BY <1>3, <2>1, <2>2 DEF Boots, Open, OpenUnreadable, Restore
<1>5. Shut' /\ ~Holding'
  BY <1>1, <1>4, TrailsStay DEF Holding
<1>6. Compactions(tasks') = {}
  BY <1>2 DEF Compactions
<1> QED  BY <1>1, <1>5, <1>6 DEF DInv, Reported, Flight, Drained

(* The start of the session.                                                *)
LEMMA StartSessionDrain ==
  ASSUME IInv, HInv, TInv, DInv, Kept(session, session'), Handed, StartSession
  PROVE  DInv'
<1> DEFINE s1 == Accept(session, Start)
           P == {session} \cup {s1}
<1>1. Start \in Requests \ Compacts /\ Start \notin Prompts \cup Resumes
  BY RequestsAssumption DEF RequestsAssumption, Requests
<1>2. Eases(session, s1)
  BY <1>1, RecordsEase
<1>3. \A t \in P : Trails(session, t)
  BY <1>2, EasesCompose DEF Eases
<1>4. Over(P) \/ (session' = s1 /\ mode' = mode /\ Quiet /\ tasks' = tasks \cup {Launch})
  BY TornOver DEF StartSession, Commit
<1> HIDE DEF s1, P
<1>5. CASE ~Over(P)
  <2>1. Soft /\ UNCHANGED <<handle, ready, draining>>
    BY <1>4, <1>5, QuietSoft DEF Quiet, KeepService
  <2>2. Launch.kind = "launch"
    BY DEF Launch, Task
  <2> QED  BY <1>2, <1>4, <1>5, <2>1, <2>2, CommandDrain
<1> QED  BY <1>3, <1>5, OverDrain DEF Over

(* A compaction that wakes the session.                                     *)
LEMMA CompactWakesDrain ==
  ASSUME IInv, HInv, TInv, DInv, Kept(session, session'), Handed, CompactWakes
  PROVE  DInv'
<1> DEFINE s1 == State(session, "resuming", None)
           P == {session} \cup {s1}
<1>1. Eases(session, s1)
  BY StatesEase
<1>2. \A t \in P : Trails(session, t)
  BY <1>1, EasesCompose DEF Eases
<1>3. Over(P) \/ (session' = s1 /\ mode' = mode /\ Quiet /\ tasks' = tasks \cup {Relaunch})
  BY TornOver DEF CompactWakes, Commit
<1> HIDE DEF s1, P
<1>4. CASE ~Over(P)
  <2>1. Soft /\ UNCHANGED <<handle, ready, draining>>
    BY <1>3, <1>4, QuietSoft DEF Quiet, KeepService
  <2>2. Relaunch.kind = "relaunch"
    BY DEF Relaunch, Task
  <2> QED  BY <1>1, <1>3, <1>4, <2>1, <2>2, CommandDrain
<1> QED  BY <1>2, <1>4, OverDrain DEF Over

(* A prompt is not accepted while the service drains.                       *)
LEMMA PromptDrain ==
  ASSUME IInv, HInv, TInv, DInv, Kept(session, session'), Handed, NEW p \in Prompts, Prompt(p)
  PROVE  DInv'
<1> DEFINE s1 == Accept(session, p)
           claimed == State(s1, "starting_turn", p)
           woken == State(s1, "resuming", None)
           final == CASE DeliverNow -> claimed [] Wakes(s1, handle) -> woken [] OTHER -> s1
           spawned == CASE DeliverNow -> {Deliver(p, handle)}
                        [] Wakes(s1, handle) -> {Relaunch} [] OTHER -> {}
           P == {session, s1} \cup {final}
<1>1. \/ Over(P)
      \/ Quiet /\ mode' = mode /\ session' = final /\ tasks' = tasks \cup spawned
  BY TornOver DEF Prompt, Commit
<1>2. ~Holding /\ p \in Requests \ Compacts
  BY RequestsAssumption DEF Prompt, Holding, RequestsAssumption, Requests
<1>3. Trails(session, s1) /\ Carries(session, s1)
  BY <1>2, RecordsEase
<1>4. \A u \in spawned : u.kind # "compact"
  <2>1. Deliver(p, handle).kind = "deliver" /\ Relaunch.kind = "relaunch"
    BY DEF Deliver, Relaunch, Task
  <2>2. \A u \in spawned : u = Deliver(p, handle) \/ u = Relaunch
    BY DEF DeliverNow, Wakes
  <2> QED  BY <2>1, <2>2
<1> HIDE DEF s1, spawned
<1>5. Eases(s1, claimed) /\ Eases(s1, woken) /\ Eases(s1, s1)
  BY StatesEase, EasesCompose
<1> HIDE DEF claimed, woken
<1>6. final \in {claimed, woken, s1}
  BY DEF DeliverNow, Wakes
<1> HIDE DEF final
<1>7. Trails(session, final) /\ Carries(session, final)
  BY <1>3, <1>5, <1>6, EasesCompose
<1>8. \A t \in P : Trails(session, t)
  BY <1>3, <1>7, EasesCompose
<1> HIDE DEF P
<1>9. CASE ~Over(P)
  <2>1. Soft /\ UNCHANGED <<handle, ready, draining>>
    BY <1>1, <1>9, QuietSoft DEF Quiet, KeepService
  <2>2. Eased
    BY <1>1, <1>2, <1>7, <1>9 DEF Eased
  <2> QED  BY <1>1, <1>2, <1>4, <1>9, <2>1, <2>2, EasyDrain
<1> QED  BY <1>8, <1>9, OverDrain DEF Over

(* Interrupts and stops.                                                    *)
LEMMA InterruptCommandDrain ==
  ASSUME IInv, HInv, TInv, DInv, Kept(session, session'), Handed, NEW r \in Interrupts \cup Stops,
         InterruptTurn(r) \/ StopTurn(r)
  PROVE  DInv'
<1> DEFINE s1 == Accept(session, r)
           s2 == Finish(s1, r, "completed")
           P == {session, s1, s2}
<1>1. \/ Over({session} \cup {s1}) \/ Over({session, s1} \cup {s2})
      \/ /\ Quiet /\ mode' = mode /\ session' \in {s1, s2}
         /\ tasks' = tasks \/ tasks' = tasks \cup {InterruptTask(r)}
  BY TornOver DEF InterruptTurn, StopTurn, Commit
<1>2. r \in Requests \ Compacts /\ r \notin Prompts \cup Resumes
  BY RequestsAssumption DEF RequestsAssumption, Requests
<1>3. Eases(session, s1) /\ Eases(s1, s2)
  BY <1>2, RecordsEase
<1> HIDE DEF s1, s2
<1>4. Eases(session, s1) /\ Eases(session, s2)
  BY <1>3, EasesCompose
<1>5. \A t \in P : Trails(session, t)
  BY <1>4, EasesCompose DEF Eases
<1>6. CASE Over({session} \cup {s1}) \/ Over({session, s1} \cup {s2})
  <2>1. Over(P)
    BY <1>6 DEF Over
  <2> HIDE DEF P
  <2> QED  BY <1>5, <2>1, OverDrain DEF Over
<1>7. CASE /\ Quiet /\ mode' = mode /\ session' \in {s1, s2}
           /\ tasks' = tasks \/ tasks' = tasks \cup {InterruptTask(r)}
  <2>1. Soft /\ UNCHANGED <<handle, ready, draining>> /\ Eases(session, session')
    BY <1>4, <1>7, QuietSoft DEF Quiet, KeepService
  <2>2. InterruptTask(r).kind = "interrupt"
    BY DEF InterruptTask, Task
  <2> QED  BY <1>7, <2>1, <2>2, CommandDrain
<1> QED  BY <1>1, <1>6, <1>7

(* The queue is not resumed while the service drains.                       *)
LEMMA ResumeQueueDrain ==
  ASSUME IInv, HInv, TInv, DInv, Kept(session, session'), Handed, NEW r \in Resumes, ResumeQueue(r)
  PROVE  DInv'
<1> DEFINE s1 == Accept(session, r)
           s2 == Finish(s1, r, "completed")
           woken == State(s1, "resuming", None)
           advance == Task("advance", None, None, 0)
           P == {session, s1} \cup {s2}
           Q == {session, s1} \cup {woken}
<1>1. \/ Over(P) \/ Over(Q)
      \/ session' = woken /\ tasks' = tasks \cup {Relaunch} /\ Quiet /\ mode' = mode
      \/ session' = s2 /\ tasks' = tasks \cup {advance} /\ Quiet /\ mode' = mode
  BY TornOver DEF ResumeQueue, Commit
<1>2. ~Holding /\ r \in Requests \ Compacts
  BY RequestsAssumption DEF ResumeQueue, Holding, RequestsAssumption, Requests
<1>3. /\ Trails(session, s1) /\ Carries(session, s1)
      /\ Eases(s1, s2) /\ Eases(s1, woken)
  BY <1>2, RecordsEase, StatesEase
<1>4. advance.kind = "advance" /\ Relaunch.kind = "relaunch"
  BY DEF Relaunch, Task
<1> HIDE DEF s1, s2, woken, advance
<1>5. \A t \in {s2, woken} : Trails(session, t) /\ Carries(session, t)
  BY <1>3, EasesCompose
<1>6. \A t \in P \cup Q : Trails(session, t)
  BY <1>3, <1>5, EasesCompose
<1> HIDE DEF P, Q
<1>7. CASE Over(P) \/ Over(Q)
  BY <1>6, <1>7, OverDrain DEF Over
<1>8. CASE ~(Over(P) \/ Over(Q))
  <2>1. Soft /\ UNCHANGED <<handle, ready, draining>>
    BY <1>1, <1>8, QuietSoft DEF Quiet, KeepService
  <2>2. Eased
    BY <1>1, <1>2, <1>5, <1>8 DEF Eased
  <2>3. PICK u : u.kind \in {"advance", "relaunch"} /\ tasks' = tasks \cup {u} /\ mode' = mode
    BY <1>1, <1>4, <1>8
  <2> DEFINE spawned == {u}
  <2>4. /\ tasks' \subseteq tasks \cup spawned /\ (draining' => draining)
        /\ \A v \in spawned : v.kind # "compact" /\ v.kind # "deliver"
    BY <2>1, <2>3
  <2> HIDE DEF spawned
  <2> QED  BY <2>1, <2>2, <2>3, <2>4, EasyDrain
<1> QED  BY <1>7, <1>8

(* Cancels.                                                                 *)
LEMMA CancelDrain ==
  ASSUME IInv, HInv, TInv, DInv, Kept(session, session'), Handed, NEW r \in Cancels, NEW p \in Prompts,
         Cancel(r, p)
  PROVE  DInv'
<1> DEFINE s1 == AcceptCancel(session, r, p)
           s2 == Finish(s1, r, "completed")
           P == {session, s1} \cup {s2}
<1>1. Over(P) \/ (session' = s2 /\ tasks' = tasks /\ Quiet /\ mode' = mode)
  BY TornOver DEF Cancel, Commit
<1>2. r \in Requests \ Compacts /\ r \notin Prompts \cup Resumes
  BY RequestsAssumption DEF RequestsAssumption, Requests
<1>3. Eases(session, s1) /\ Eases(s1, s2)
  BY <1>2, RecordsEase
<1> HIDE DEF s1, s2
<1>4. Eases(session, s2)
  BY <1>3, EasesCompose
<1>5. \A t \in P : Trails(session, t)
  BY <1>3, <1>4, EasesCompose DEF Eases
<1> HIDE DEF P
<1>6. CASE ~Over(P)
  <2>1. Soft /\ UNCHANGED <<handle, ready, draining>>
    BY <1>1, <1>6, QuietSoft DEF Quiet, KeepService
  <2> QED  BY <1>1, <1>4, <1>6, <2>1, CommandDrain
<1> QED  BY <1>5, <1>6, OverDrain DEF Over

(* A compaction of an idle session: there is no other, and no drain.        *)
LEMMA CompactDrain ==
  ASSUME IInv, HInv, TInv, DInv, Kept(session, session'), Handed, NEW k \in Compacts, Compact(k)
  PROVE  DInv'
<1> DEFINE s1 == Accept(session, k)
           s2 == State(s1, "running", None)
           u  == Task("compact", k, None, handle)
           P  == {session, s1} \cup {s2}
<1>1. /\ mode = "up" /\ ~draining /\ ~session.compact /\ ready /\ handle # 0
      /\ session.receipts[k] = "none" /\ k \in Requests
  BY DEF Compact, Reaches, Requests
<1>2. \/ Over(P)
      \/ session' = s2 /\ mode' = mode /\ tasks' = tasks \cup {u} /\ Quiet
  BY TornOver DEF Compact, Commit
<1>3. /\ Trails(session, s1) /\ s1.compact
      /\ \A r \in Requests : s1.receipts[r] = IF r = k THEN "accepted" ELSE session.receipts[r]
  BY <1>1, CompactionRecords
<1>4. Eases(s1, s2)
  BY StatesEase
<1>5. s2.compact = s1.compact /\ s2.receipts = s1.receipts
  <2>1. {"compact", "receipts"} \subseteq DOMAIN s1
    BY EasesCompose DEF Accept, Fitting
  <2> HIDE DEF s1
  <2> QED  BY <2>1 DEF State
<1>6. u.kind = "compact" /\ u.request = k /\ u.harness = handle
  BY DEF Task
<1> HIDE DEF s1, s2, u
<1>7. Trails(session, s2)
  BY <1>3, <1>4, EasesCompose DEF Eases
<1>8. \A t \in P : Trails(session, t)
  BY <1>3, <1>7, EasesCompose
<1> HIDE DEF P
<1>9. CASE ~Over(P)
  <2>1. /\ session' = s2 /\ mode' = mode /\ tasks' = tasks \cup {u}
        /\ UNCHANGED <<handle, ready, draining, harness, events>>
    BY <1>2, <1>9 DEF Quiet, KeepService, KeepWorld
  <2>2. Shut' /\ (RetriedOnce' /\ CompactsAnswered' => RetriedOnce /\ CompactsAnswered)
    BY <1>7, <2>1, TrailsStay
  <2>3. \A t \in Compactions(tasks) : t.request \in Requests
    BY AroundHolds DEF Compactions, TaskOK, Requests
  <2>4. \A t \in Compactions(tasks') : t \in Compactions(tasks) \/ t = u
    BY <2>1 DEF Compactions
  <2>5. /\ \A t \in Compactions(tasks) :
             /\ t.request # k /\ session'.receipts[t.request] = session.receipts[t.request]
        /\ session'.receipts[k] = "accepted" /\ session'.compact
    BY <1>1, <1>3, <1>5, <2>1, <2>3 DEF DInv, Reported
  <2>6. Reported'
    <3>1. u.harness <= harness.id
      <4>1. handle = harness.id /\ harness.id \in Nat
        BY <1>1, AroundHolds DEF HInv, Owned, Around, WorldType, Processes, HarnessIds
      <4> QED  BY <1>6, <4>1
    <3>2. \A t \in Compactions(tasks') : t.harness <= harness'.id
      BY <2>1, <2>4, <3>1 DEF DInv, Reported
    <3>3. \A t \in Compactions(tasks') : session'.receipts[t.request] \notin {"none", "unknown"}
      BY <1>1, <1>6, <2>4, <2>5 DEF DInv, Reported
    <3>4. \A t, v \in Compactions(tasks') : v.request = t.request => v = t
      BY <1>1, <1>6, <2>4, <2>5 DEF DInv, Reported
    <3> QED  BY <3>2, <3>3, <3>4 DEF Reported
  <2>7. ASSUME RetriedOnce', CompactsAnswered' PROVE Flight'
    <3>1. Flying = {} /\ ~harness.compacting /\ Compacted = {}
      BY <1>1, <2>2, <2>7 DEF DInv, Flight
    <3>2. \A t \in Flying' : t = u
      BY <2>1, <2>4, <3>1 DEF Flying
    <3>3. Compacted' = {} /\ ~harness'.compacting /\ session'.compact /\ ready'
      BY <1>1, <2>1, <2>5, <3>1 DEF Compacted
    <3> QED  BY <3>2, <3>3 DEF Flight
  <2>8. ~Holding'
    BY <1>1, <2>1 DEF Holding
  <2> QED  BY <2>2, <2>6, <2>7, <2>8 DEF DInv, Flight, Drained
<1> QED  BY <1>8, <1>9, OverDrain DEF Over

(* A close.                                                                 *)
LEMMA CloseDrain ==
  ASSUME IInv, HInv, TInv, DInv, Kept(session, session'), Handed, NEW r \in Closes, Close(r)
  PROVE  DInv'
<1> DEFINE s1 == Accept(session, r)
           s2 == State(s1, "closing", session.current)
           s3 == FailPending(s2)
           s4 == State(s3, "closed", None)
           s5 == Finish(s4, r, "completed")
           final == IF handle = 0 THEN s5 ELSE s3
           P == ({session, s1} \cup PartlyFailed(s2) \cup {s4}) \cup {final}
<1>1. \/ Over(P)
      \/ /\ session' = final /\ mode' = mode /\ harness' = AskExit(handle) /\ KeepService
         /\ UNCHANGED <<tasks, events>>
  BY TornOver DEF Close, Commit
<1>2. r \in Requests \ Compacts /\ r \notin Prompts \cup Resumes
  BY RequestsAssumption DEF RequestsAssumption, Requests
<1>3. Eases(session, s1) /\ s1.closing /\ Fitting(s1)
  <2>1. Eases(session, s1)
    BY <1>2, RecordsEase
  <2>2. s1.closing
    BY EasesCompose DEF Accept, Fitting
  <2> QED  BY <2>1, <2>2, EasesCompose DEF Eases, Trails
<1>4. Eases(s1, s2) /\ Eases(s2, s3) /\ \A t \in PartlyFailed(s2) : Eases(s2, t)
  BY StatesEase
<1>5. Eases(s4, s5)
  BY <1>2, RecordsEase
<1>6. s3.closing => Eases(s3, s4)
  <2> HIDE DEF s3
  <2> QED  BY StatesEase
<1> HIDE DEF s1, s2, s3, s4, s5
<1>7. Eases(s3, s4)
  BY <1>3, <1>4, <1>6 DEF Eases, Trails
<1>8. /\ Eases(session, s3) /\ Eases(session, s4) /\ Eases(session, s5)
      /\ \A t \in PartlyFailed(s2) : Eases(session, t)
  <2>1. Eases(session, s2)
    BY <1>3, <1>4, EasesCompose
  <2>2. Eases(session, s3) /\ \A t \in PartlyFailed(s2) : Eases(session, t)
    BY <1>4, <2>1, EasesCompose
  <2>3. Eases(session, s4)
    BY <1>7, <2>2, EasesCompose
  <2> QED  BY <1>5, <2>2, <2>3, EasesCompose
<1>9. \A t \in P : Trails(session, t)
  <2>1. \A t \in PartlyFailed(s2) \cup {s1, s3, s4, s5} : Trails(session, t)
    BY <1>3, <1>8 DEF Eases
  <2>2. \A t \in P : t = session \/ t \in PartlyFailed(s2) \cup {s1, s3, s4, s5}
    OBVIOUS
  <2> HIDE DEF P
  <2> QED  BY <2>1, <2>2, EasesCompose
<1> HIDE DEF P
<1>10. CASE ~Over(P)
  <2>1. Soft /\ UNCHANGED <<handle, ready, draining>> /\ Eases(session, session')
    BY <1>1, <1>8, <1>10, QuietSoft DEF KeepService
  <2> QED  BY <1>1, <1>10, <2>1, CommandDrain
<1> QED  BY <1>9, <1>10, OverDrain DEF Over

(* What is released does not compact.                                       *)
LEMMA SleepDrain ==
  ASSUME IInv, HInv, TInv, DInv, Kept(session, session'), Handed, NEW r \in Sleeps, Sleep(r)
  PROVE  DInv'
<1> DEFINE s1 == Accept(session, r)
           s2 == IF CanResume(s1) /\ s1.state # "sleeping" THEN State(s1, "sleeping", None) ELSE s1
           s3 == Finish(s2, r, "completed")
           rests == handle = 0 /\ ~Busy(s1)
           final == IF rests THEN s3 ELSE s1
           P == {session, s1, IF rests THEN s2 ELSE s1} \cup {final}
<1>1. \/ Over(P)
      \/ /\ session' = final /\ mode' = mode /\ tasks' = tasks
         /\ IF CanSleep(s1) THEN Release ELSE Quiet
  BY TornOver DEF Sleep, Commit
<1>2. r \in Requests \ Compacts /\ r \notin Prompts \cup Resumes
  BY RequestsAssumption DEF RequestsAssumption, Requests
<1>3. Eases(session, s1)
  BY <1>2, RecordsEase
<1>4. Eases(s1, s2) /\ Eases(s2, s3)
  <2>1. Eases(s1, State(s1, "sleeping", None)) /\ Eases(s1, s1)
    BY StatesEase, EasesCompose
  <2>2. Eases(s1, s2)
    BY <2>1
  <2> HIDE DEF s2
  <2> QED  BY <1>2, <2>2, RecordsEase
<1>5. CanSleep(s1) => ~session.compact
  <2>1. CanSleep(s1) => ~s1.compact
    BY DEF CanSleep
  <2> QED  BY <1>3, <2>1, EasesCompose DEF Eases, Carries
<1> HIDE DEF s1, s2, s3, rests
<1>6. Eases(session, s2) /\ Eases(session, s3)
  BY <1>3, <1>4, EasesCompose
<1>7. \A t \in P : Trails(session, t)
  BY <1>3, <1>6, EasesCompose DEF Eases
<1> HIDE DEF P
<1>8. CASE ~Over(P)
  <2>1. Soft /\ UNCHANGED <<handle, draining>> /\ (ready /\ session.compact => ready')
    BY <1>1, <1>5, <1>8, QuietSoft DEF Quiet, KeepService, Release
  <2>2. Eases(session, session')
    BY <1>1, <1>3, <1>6, <1>8
  <2> QED  BY <1>1, <1>8, <2>1, <2>2, CommandDrain
<1> QED  BY <1>7, <1>8, OverDrain DEF Over

(* A drain begins when no turn, no prompt and no compaction is under way.   *)
LEMMA DrainBegins ==
  ASSUME IInv, HInv, TInv, DInv, Drain
  PROVE  DInv'
<1>1. /\ mode = "up" /\ session' = session
      /\ UNCHANGED <<mode, handle, ready, tasks, harness, events>>
  BY DEF Drain, KeepWorld
<1>2. Reported' /\ Flight' /\ Shut'
  <2>1. /\ Flying' = Flying /\ Compacted' = Compacted
        /\ (RetriedOnce' <=> RetriedOnce) /\ (CompactsAnswered' <=> CompactsAnswered)
    BY <1>1 DEF Flying, Compacted, RetriedOnce, CompactsAnswered
  <2> QED  BY <1>1, <2>1 DEF DInv, Reported, Flight, Shut
<1>3. ASSUME RetriedOnce, CompactsAnswered
      PROVE  /\ session.queue = <<>> \/ session.paused \/ session.closing
             /\ harness.live =>
                  /\ Called = {}
                  /\ \A t \in Compactions(tasks) : t.harness = harness.id => t.step # "waiting"
  <2>1. \A t \in Called : t.request \in Due /\ t.request # None
    <3>1. \A t \in Called : t.request \in Prompts /\ t.request # None
      <4>1. \A t \in Called : t \in tasks /\ t.kind = "deliver"
        BY DEF Called, Waiting, Delivers
      <4> QED  BY <4>1, AroundHolds, RequestsAssumption DEF TaskOK, RequestsAssumption, Requests
    <3> QED  BY <3>1 DEF Due
  <2>2. harness.live => handle # 0 /\ handle = harness.id
    BY DEF HInv, Owned
  <2>3. /\ harness.live => \A t \in Called : session.current = t.request /\ ready
        /\ \A t \in Called : t.request # None
        /\ harness.live /\ Flying # {} => session.compact /\ ready
    BY <1>1, <1>3, <2>1, <2>2 DEF TInv, Follow, DInv, Flight
  <2>4. CASE ~Busy(session) /\ ~session.compact
    <3>1. session.current = None /\ (session.queue = <<>> \/ session.paused)
      BY <2>4 DEF Busy, HasWork
    <3>2. harness.live => Called = {} /\ Flying = {}
      BY <2>3, <2>4, <3>1
    <3> QED  BY <2>2, <3>1, <3>2 DEF Flying
  <2>5. CASE session.state = "closed"
    <3>1. session.closing /\ ~ready
      BY <1>1, <1>3, <2>5 DEF DInv, Shut, HInv, Alone, Down, DownStates
    <3>2. harness.live => Called = {} /\ Flying = {}
      BY <2>3, <3>1
    <3> QED  BY <2>2, <3>1, <3>2 DEF Flying
  <2>6. CASE session.state = "absent"
    BY <2>6 DEF IInv, AbsentOK, Absent
  <2> QED  BY <2>4, <2>5, <2>6 DEF Drain
<1>4. Drained'
  <2>1. /\ (RetriedOnce' <=> RetriedOnce) /\ (CompactsAnswered' <=> CompactsAnswered)
        /\ Called' = Called
    BY <1>1 DEF RetriedOnce, CompactsAnswered, Called
  <2> QED  BY <1>1, <1>3, <2>1 DEF Drained, Holding
<1> QED  BY <1>2, <1>4 DEF DInv

(* A sleep that is due, drains and planned stops.                           *)
LEMMA DueDrain ==
  ASSUME IInv, HInv, TInv, DInv, Kept(session, session'), Handed,
         SleepDue \/ Drain \/ Undrain \/ Shutdown
  PROVE  DInv'
<1>1. CASE SleepDue
  <2>1. /\ session' = session /\ mode' = mode /\ UNCHANGED <<handle, draining, tasks>>
        /\ ~session.compact /\ Soft
    BY <1>1, QuietSoft DEF SleepDue, CanSleep, Release
  <2> QED  BY <2>1, CommandDrain, EasesCompose
<1>2. CASE Drain
  BY <1>2, DrainBegins
<1>3. CASE Undrain
  <2>1. /\ session' = session /\ mode' = mode /\ UNCHANGED <<handle, ready, tasks>>
        /\ ~draining' /\ Soft
    BY <1>3, QuietSoft DEF Undrain
  <2> QED  BY <2>1, CommandDrain, EasesCompose
<1>4. CASE Shutdown
  <2> DEFINE s1 == State(session, "suspended", None)
             waiting == session.state = "resuming" /\ handle = 0
             final == IF waiting THEN s1 ELSE session
             P == {session} \cup {final}
  <2>1. \/ Over(P)
        \/ /\ session' = final /\ mode' = mode /\ harness' = AskExit(handle)
           /\ UNCHANGED <<handle, ready, draining, tasks, events>>
    BY <1>4, TornOver DEF Shutdown, Commit
  <2>2. Eases(session, final)
    BY StatesEase, EasesCompose
  <2>3. \A t \in P : Trails(session, t)
    BY <2>2, EasesCompose DEF Eases
  <2> HIDE DEF final, P
  <2>4. CASE ~Over(P)
    <3>1. Soft
      BY <2>1, <2>4, QuietSoft
    <3> QED  BY <2>1, <2>2, <2>4, <3>1, CommandDrain
  <2> QED  BY <2>3, <2>4, OverDrain DEF Over
<1> QED  BY <1>1, <1>2, <1>3, <1>4

-----------------------------------------------------------------------------
(* The compaction across starts.                                            *)

(* A start that goes on, or is dropped, spawns no other task.               *)
LEMMA StartTasks ==
  ASSUME IInv, NEW t \in Begun(tasks)
  PROVE  /\ Retire(t) => tasks' \subseteq tasks
         /\ \A step : tasks' = Become(t, step) =>
              \E u : u.kind \in {"launch", "relaunch", "interrupt", "advance"}
                     /\ tasks' \subseteq tasks \cup {u}
<1>1. t.kind \in {"launch", "relaunch"} /\ t \in Tasks
  BY DEF Begun, IInv, TypeOK
<1>2. ASSUME NEW step, tasks' = Become(t, step)
      PROVE  \E u : u.kind \in {"launch", "relaunch", "interrupt", "advance"}
                    /\ tasks' \subseteq tasks \cup {u}
  <2> DEFINE u == [t EXCEPT !.step = step]
  <2>1. u.kind = t.kind
    BY <1>1 DEF Tasks
  <2>2. tasks' \subseteq tasks \cup {u}
    BY <1>2 DEF Become
  <2> HIDE DEF u
  <2> QED  BY <1>1, <2>1, <2>2
<1> QED  BY <1>2 DEF Retire

(* A start that did not spawn yet, is dropped, or shakes hands.             *)
LEMMA BeginDrain ==
  ASSUME IInv, HInv, TInv, DInv, Kept(session, session'), Handed, NEW t \in tasks,
         Admit(t) \/ SpawnDropped(t) \/ SpawnFails(t) \/ Handshake(t) \/ RelaunchDropped(t)
  PROVE  DInv'
<1> DEFINE s1 == State(session, "suspended", None)
           s2 == State(session, "starting", None)
           P == {session, s1}
<1>1. t \in Begun(tasks)
  BY DEF Admit, SpawnDropped, SpawnFails, Handshake, RelaunchDropped, Starts, Begun
<1>2. \/ Over({session} \cup {IF t.kind = "relaunch" /\ ~session.closing THEN s1 ELSE session})
      \/ /\ mode' = mode /\ KeepService /\ KeepWorld /\ session' \in {session, s1, s2}
         /\ Retire(t) \/ \E step : tasks' = Become(t, step)
  BY TornOver DEF Admit, SpawnDropped, SpawnFails, Handshake, RelaunchDropped, Commit, Same, Quiet
<1>3. Eases(session, s1) /\ Eases(session, s2) /\ Eases(session, session)
  BY StatesEase, EasesCompose
<1> HIDE DEF s1, s2
<1>4. CASE Over({session} \cup {IF t.kind = "relaunch" /\ ~session.closing THEN s1 ELSE session})
  <2>1. Over(P) /\ \A s \in P : Trails(session, s)
    BY <1>3, <1>4 DEF Over, Eases
  <2> HIDE DEF P
  <2> QED  BY <2>1, OverDrain DEF Over
<1>5. CASE /\ mode' = mode /\ KeepService /\ KeepWorld /\ session' \in {session, s1, s2}
           /\ Retire(t) \/ \E step : tasks' = Become(t, step)
  <2>1. Soft /\ UNCHANGED <<handle, ready, draining>> /\ Eases(session, session')
    BY <1>3, <1>5, QuietSoft DEF KeepService
  <2> QED  BY <1>1, <1>5, <2>1, StartTasks, CommandDrain
<1> QED  BY <1>2, <1>4, <1>5

(* A harness is spawned: nothing is on its way to it.                       *)
LEMMA SpawnDrain ==
  ASSUME IInv, HInv, TInv, DInv, Kept(session, session'), Handed, NEW t \in tasks, Spawn(t)
  PROVE  DInv'
<1> DEFINE id == harness.id + 1
           u  == [t EXCEPT !.step = "starting", !.harness = id]
           s1 == State(session, "starting", None)
           claimed == IF t.kind = "launch" THEN s1 ELSE session
           s2 == Pid(claimed, TRUE)
           P  == {session, claimed, s2}
<1>1. t \in Begun(tasks) /\ mode = "up"
  BY DEF Spawn, Starts, Begun
<1>2. \/ Over({session, claimed} \cup {s2}) \/ Over({claimed})
      \/ /\ session' = s2 /\ mode' = mode /\ draining' = draining
         /\ harness' = [NoHarness EXCEPT !.id = id, !.live = TRUE]
         /\ handle' = id /\ events' = <<>> /\ tasks' = (tasks \ {t}) \cup {u}
  BY TornOver DEF Spawn, Commit
<1>3. Eases(session, claimed) /\ Eases(claimed, s2)
  <2>1. Eases(session, s1) /\ Eases(session, session)
    BY StatesEase, EasesCompose
  <2> QED  BY <2>1, StatesEase
<1> HIDE DEF claimed, s2
<1>4. Eases(session, s2)
  BY <1>3, EasesCompose
<1>5. \A s \in P : Trails(session, s)
  BY <1>3, <1>4, EasesCompose DEF Eases
<1>6. CASE Over({session, claimed} \cup {s2}) \/ Over({claimed})
  <2>1. Over(P)
    BY <1>6 DEF Over
  <2> HIDE DEF P
  <2> QED  BY <1>5, <2>1, OverDrain DEF Over
<1>7. CASE /\ session' = s2 /\ mode' = mode /\ draining' = draining
           /\ harness' = [NoHarness EXCEPT !.id = id, !.live = TRUE]
           /\ handle' = id /\ events' = <<>> /\ tasks' = (tasks \ {t}) \cup {u}
  <2>1. t.kind \in {"launch", "relaunch"} /\ t \in Tasks
    BY <1>1 DEF Begun, IInv, TypeOK
  <2>2. u.kind = t.kind
    BY <2>1 DEF Tasks
  <2> HIDE DEF u
  <2>3. /\ \A v \in Compactions(tasks') : v \in Compactions(tasks) /\ v.request \in Compacts
        /\ \A v \in Waiting(tasks') : v \in Waiting(tasks)
    <3>1. \A v \in Compactions(tasks') : v \in Compactions(tasks) /\ v \in tasks
      BY <1>7, <2>1, <2>2 DEF Compactions
    <3>2. \A v \in Waiting(tasks') : v \in Waiting(tasks)
      BY <1>7, <2>1, <2>2 DEF Waiting, Delivers
    <3> QED  BY <3>1, <3>2, AroundHolds DEF Compactions, TaskOK
  <2>4. /\ \A v \in Compactions(tasks') : v.harness \in Nat /\ v.harness <= harness.id
        /\ \A v \in Waiting(tasks') : v.harness \in Nat /\ v.harness <= harness.id
    <3>1. \A v \in tasks : v.harness \in Nat
      BY AroundHolds DEF TaskOK, Tasks, HarnessIds
    <3>2. \A v \in Compactions(tasks) : v \in tasks /\ v.harness <= harness.id
      BY DEF DInv, Reported, Compactions
    <3>3. \A v \in Waiting(tasks) : v \in tasks /\ v.harness <= harness.id
      BY DEF TInv, Told, Waiting, Delivers
    <3> QED  BY <2>3, <3>1, <3>2, <3>3
  <2>5. harness.id \in Nat /\ harness'.id = id /\ ~harness'.compacting
    BY <1>7, AroundHolds DEF NoHarness, Around, WorldType, Processes, HarnessIds
  <2>6. \A v \in Compactions(tasks') \cup Waiting(tasks') : v.harness # id /\ v.harness <= id
    BY <2>4, <2>5
  <2>7. Fitting(session) /\ Trails(session, session') /\ Carries(session, session') /\ Drains(session, session')
    BY <1>4, <1>7, EasesCompose DEF Eases
  <2>8. Shut' /\ (Holding' => Holding) /\ (session.closing => session'.closing)
    BY <1>7, <2>7, TrailsStay DEF Holding
  <2>9. Reported'
    BY <1>1, <2>3, <2>5, <2>6, <2>7 DEF Reported, DInv, Carries
  <2>10. Flight'
    <3>1. Flying' = {}
      BY <1>7, <2>6 DEF Flying
    <3>2. Compacted' = {}
      BY <1>7 DEF Compacted
    <3> QED  BY <2>5, <3>1, <3>2 DEF Flight
  <2>11. Drained'
    <3>1. Called' = {}
      BY <2>5, <2>6 DEF Called
    <3>2. Holding' => session'.queue = <<>> \/ session'.paused \/ session'.closing
      BY <1>1, <2>7, <2>8 DEF DInv, Drained, Drains
    <3> QED  BY <1>1, <1>7, <2>5, <2>6, <3>1, <3>2 DEF Drained
  <2> QED  BY <2>8, <2>9, <2>10, <2>11 DEF DInv
<1> QED  BY <1>2, <1>6, <1>7

(* The session goes on with its queue.                                      *)
LEMMA RunsDrain ==
  ASSUME IInv, HInv, TInv, DInv, Kept(session, session'), Handed, mode = "up",
         NEW t \in tasks, NEW partial, NEW now, Runs(t, partial, now),
         \A s \in partial : Eases(session, s), Eases(session, now)
  PROVE  DInv'
<1> DEFINE a == Advanced(now, handle, TRUE, TRUE)
           P == (partial \cup {now}) \cup {a}
<1>1. \/ Over(P)
      \/ /\ session' = a /\ mode' = mode /\ ready' = TRUE /\ UNCHANGED <<handle, draining>> /\ KeepWorld
         /\ tasks' \subseteq tasks \cup AdvanceTasks(now, handle, TRUE, TRUE)
  BY TornOver DEF Runs, Commit
<1>2. Eases(session, a)
  BY AdvanceEases, EasesCompose
<1>3. \A s \in P : Trails(session, s)
  <2> HIDE DEF a
  <2> QED  BY <1>2 DEF Eases
<1> HIDE DEF P
<1>4. CASE ~Over(P)
  <2>1. Soft
    BY <1>1, <1>4, QuietSoft
  <2> QED  BY <1>1, <1>4, <2>1, AdvanceDrain
<1> QED  BY <1>3, <1>4, OverDrain DEF Over

(* An error of a start ends in one handler.                                 *)
LEMMA GiveUpDrain ==
  ASSUME IInv, HInv, TInv, DInv, Kept(session, session'), Handed, NEW t \in Begun(tasks),
         mode' = mode, GiveUp(t) \/ ((\E step : tasks' = Become(t, step)) /\ Quiet),
         Eases(session, session')
  PROVE  DInv'
<1>1. Soft /\ UNCHANGED <<handle, ready, draining>>
  BY QuietSoft DEF GiveUp, Quiet, KeepService
<1>2. Retire(t) \/ \E step : tasks' = Become(t, step)
  BY DEF GiveUp
<1> QED  BY <1>1, <1>2, StartTasks, CommandDrain

(* A launch that is ready.                                                  *)
LEMMA LaunchReadyDrain ==
  ASSUME IInv, HInv, TInv, DInv, Kept(session, session'), Handed, NEW t \in tasks, LaunchReady(t)
  PROVE  DInv'
<1> DEFINE s1 == Native(session)
           s2 == State(s1, "idle", None)
           s3 == Finish(s2, Start, "completed")
           rs == Accepted(Stops)
           s4 == FinishAll(s3, rs, "completed")
           P == {session} \cup {s1}
           Q == {session, s1, s2, s3}
<1>1. mode = "up" /\ t \in Begun(tasks)
  BY DEF LaunchReady, Starts, Begun
<1>2. \/ Over(P)
      \/ session' = s1 /\ mode' = mode /\ (\E step : tasks' = Become(t, step)) /\ Quiet
      \/ Runs(t, Q, s4)
  <2>1. CASE handle = 0
    BY <2>1, TornOver DEF LaunchReady, Commit
  <2>2. CASE handle # 0
    BY <2>2 DEF LaunchReady
  <2> QED  BY <2>1, <2>2
<1>3. Start \in Requests \ Compacts /\ rs \cap Compacts = {}
  BY RequestsAssumption DEF RequestsAssumption, Requests, Accepted
<1>4. Eases(session, s1) /\ Eases(s1, s2)
  BY StatesEase
<1>5. Eases(s2, s3)
  <2> HIDE DEF s2
  <2> QED  BY <1>3, RecordsEase
<1>6. Eases(s3, s4)
  <2> HIDE DEF s3, rs
  <2> QED  BY <1>3, StatesEase
<1> HIDE DEF s1, s2, s3, s4
<1>7. Eases(session, s2)
  BY <1>4, EasesCompose
<1>8. Eases(session, s3)
  BY <1>5, <1>7, EasesCompose
<1>9. Eases(session, s4)
  BY <1>6, <1>8, EasesCompose
<1>10. \A s \in P \cup Q : Eases(session, s)
  BY <1>4, <1>7, <1>8, EasesCompose
<1> HIDE DEF P, Q
<1>11. CASE Over(P)
  BY <1>10, <1>11, OverDrain DEF Over, Eases
<1>12. CASE session' = s1 /\ mode' = mode /\ (\E step : tasks' = Become(t, step)) /\ Quiet
  BY <1>1, <1>4, <1>12, GiveUpDrain
<1>13. CASE Runs(t, Q, s4)
  BY <1>1, <1>9, <1>10, <1>13, RunsDrain
<1> QED  BY <1>2, <1>11, <1>12, <1>13

(* A relaunch that is ready.                                                *)
LEMMA RelaunchReadyDrain ==
  ASSUME IInv, HInv, TInv, DInv, Kept(session, session'), Handed, NEW t \in tasks, RelaunchReady(t)
  PROVE  DInv'
<1> DEFINE s1 == State(session, "idle", None)
           rs == Accepted(Resumes)
           s2 == FinishAll(s1, rs, "completed")
           s3 == StoragePaused(s2, FALSE)
           Q == {session, s1, s2}
<1>1. mode = "up" /\ t \in Begun(tasks)
  BY DEF RelaunchReady, Starts, Begun
<1>2. \/ session' = session /\ mode' = mode /\ (\E step : tasks' = Become(t, step)) /\ Quiet
      \/ Runs(t, Q, s3)
  <2>1. CASE handle = 0
    BY <2>1 DEF RelaunchReady, Same
  <2>2. CASE handle # 0
    BY <2>2 DEF RelaunchReady
  <2> QED  BY <2>1, <2>2
<1>3. rs \cap Compacts = {}
  BY RequestsAssumption DEF RequestsAssumption, Accepted
<1>4. Eases(session, s1)
  BY StatesEase
<1>5. Eases(s1, s2) /\ Eases(s2, s3)
  <2> HIDE DEF s1, rs
  <2> QED  BY <1>3, StatesEase
<1> HIDE DEF s1, s2, s3
<1>6. Eases(session, s2)
  BY <1>4, <1>5, EasesCompose
<1>7. Eases(session, s3)
  BY <1>5, <1>6, EasesCompose
<1>8. \A s \in Q : Eases(session, s)
  BY <1>4, <1>6, EasesCompose
<1> HIDE DEF Q
<1>9. CASE session' = session /\ mode' = mode /\ (\E step : tasks' = Become(t, step)) /\ Quiet
  BY <1>1, <1>9, EasesCompose, GiveUpDrain
<1>10. CASE Runs(t, Q, s3)
  BY <1>1, <1>7, <1>8, <1>10, RunsDrain
<1> QED  BY <1>2, <1>9, <1>10

(* A launch that failed.                                                    *)
LEMMA LaunchErrorDrain ==
  ASSUME IInv, HInv, TInv, DInv, Kept(session, session'), Handed, NEW t \in tasks, LaunchError(t)
  PROVE  DInv'
<1> DEFINE s1 == Finish(session, Start, "failed")
           s2 == State(s1, "failed", None)
           s3 == FailPending(s2)
           P == ({session, s1} \cup PartlyFailed(s2)) \cup {s3}
<1>1. mode = "up" /\ t \in Begun(tasks)
  BY DEF LaunchError, Starts, Begun
<1>2. Over(P) \/ (session' = s3 /\ mode' = mode /\ GiveUp(t))
  BY TornOver DEF LaunchError, Commit
<1>3. Start \in Requests \ Compacts
  BY RequestsAssumption DEF RequestsAssumption, Requests
<1>4. Eases(session, s1)
  BY <1>3, RecordsEase
<1>5. Eases(s1, s2)
  <2> HIDE DEF s1
  <2> QED  BY StatesEase
<1>6. Eases(s2, s3) /\ \A s \in PartlyFailed(s2) : Eases(s2, s)
  <2> HIDE DEF s2
  <2> QED  BY StatesEase
<1> HIDE DEF s1, s2, s3
<1>7. Eases(session, s2)
  BY <1>4, <1>5, EasesCompose
<1>8. Eases(session, s3) /\ \A s \in PartlyFailed(s2) : Eases(session, s)
  BY <1>6, <1>7, EasesCompose
<1>9. \A s \in P : Trails(session, s)
  BY <1>4, <1>8, EasesCompose DEF Eases
<1> HIDE DEF P
<1>10. CASE session' = s3 /\ mode' = mode /\ GiveUp(t)
  BY <1>1, <1>8, <1>10, GiveUpDrain
<1> QED  BY <1>2, <1>9, <1>10, OverDrain DEF Over

(* A relaunch that failed.                                                  *)
LEMMA RelaunchErrorDrain ==
  ASSUME IInv, HInv, TInv, DInv, Kept(session, session'), Handed, NEW t \in tasks, RelaunchError(t)
  PROVE  DInv'
<1> DEFINE timeout == t.step = "timeout"
           s1 == Lost(session, IF timeout THEN "startup_timeout" ELSE "resume_failed")
           s2 == IF timeout THEN s1 ELSE FailPending(s1)
           rs == Accepted(Resumes)
           s3 == FinishAll(s2, rs, "failed")
           P == ({session, s2} \cup (IF timeout THEN {} ELSE PartlyFailed(s1))) \cup {s3}
           Q == {} \cup {session}
<1>1. mode = "up" /\ t \in Begun(tasks)
  BY DEF RelaunchError, Starts, Begun
<1>2. \/ Over(P) \/ Over(Q)
      \/ session' \in {session, s3} /\ mode' = mode /\ GiveUp(t)
  <2>1. CASE session.closing
    BY <2>1, TornOver DEF RelaunchError, Commit
  <2>2. CASE ~session.closing
    BY <2>2, TornOver DEF RelaunchError, Commit
  <2> QED  BY <2>1, <2>2
<1>3. rs \cap Compacts = {}
  BY RequestsAssumption DEF RequestsAssumption, Accepted
<1>4. Eases(session, s1)
  BY StatesEase
<1>5. Eases(s1, s2) /\ \A s \in PartlyFailed(s1) : Eases(s1, s)
  <2> HIDE DEF s1
  <2>1. Eases(s1, s1) /\ Eases(s1, FailPending(s1)) /\ \A s \in PartlyFailed(s1) : Eases(s1, s)
    BY StatesEase, EasesCompose
  <2> QED  BY <2>1
<1>6. Eases(s2, s3)
  <2> HIDE DEF s2, rs
  <2> QED  BY <1>3, StatesEase
<1> HIDE DEF s1, s2, s3
<1>7. Eases(session, s2) /\ \A s \in PartlyFailed(s1) : Eases(session, s)
  BY <1>4, <1>5, EasesCompose
<1>8. Eases(session, s3) /\ Eases(session, session)
  BY <1>6, <1>7, EasesCompose
<1>9. \A s \in P \cup Q : Trails(session, s)
  BY <1>7, <1>8 DEF Eases
<1> HIDE DEF P, Q
<1>10. CASE session' \in {session, s3} /\ mode' = mode /\ GiveUp(t)
  BY <1>1, <1>8, <1>10, GiveUpDrain
<1> QED  BY <1>2, <1>9, <1>10, OverDrain DEF Over

-----------------------------------------------------------------------------
(* The compaction across calls and their answers.                           *)

(* What becomes of a compaction call: with the others it keeps its receipt, *)
(* and it flies on only if it was refused.                                  *)
LEMMA CallBecomes ==
  ASSUME IInv, DInv, NEW t \in tasks, t.kind = "compact", t.step = "waiting",
         NEW step \in {"delivered", "failed", "unknown"}, tasks' = Become(t, step),
         UNCHANGED <<session, mode, handle>>, harness'.id = harness.id
  PROVE  /\ Reported'
         /\ \A v \in Compactions(tasks') : v \in Compactions(tasks) \/ v.step = step
         /\ \A v, w \in Flying' :
              mode = "up" /\ (\A x, y \in Flying : x = y) => v = w
         /\ Flying' # {} => Flying # {} /\ (step = "failed" \/ Flying # {t})
<1> DEFINE u == [t EXCEPT !.step = step]
<1>1. /\ u.kind = "compact" /\ u.request = t.request /\ u.harness = t.harness /\ u.step = step
      /\ t \in Compactions(tasks)
  BY DEF IInv, TypeOK, Tasks, Compactions
<1>2. tasks' = (tasks \ {t}) \cup {u}
  BY DEF Become
<1> HIDE DEF u
<1>3. \A v \in Compactions(tasks') : (v \in Compactions(tasks) /\ v # t) \/ v = u
  BY <1>2 DEF Compactions
<1>4. Reported'
  <2>1. \A v \in Compactions(tasks') : v.harness <= harness'.id
    BY <1>1, <1>3 DEF DInv, Reported
  <2>2. ASSUME mode = "up"
        PROVE  \A v \in Compactions(tasks') :
                 /\ session'.receipts[v.request] \notin {"none", "unknown"}
                 /\ \A w \in Compactions(tasks') : w.request = v.request => w = v
    BY <1>1, <1>3, <2>2 DEF DInv, Reported
  <2> QED  BY <2>1, <2>2 DEF Reported
<1>5. \A v \in Flying' : (v \in Flying /\ v # t) \/ (v = u /\ step = "failed" /\ t \in Flying)
  BY <1>1, <1>3 DEF Flying
<1>6. \A v, w \in Flying' : (\A x, y \in Flying : x = y) => v = w
  BY <1>5
<1>7. Flying' # {} => Flying # {} /\ (step = "failed" \/ Flying # {t})
  BY <1>5
<1> QED  BY <1>1, <1>3, <1>4, <1>6, <1>7

(* A compaction call: the harness takes it only when no drain holds.        *)
LEMMA SendCompactDrain ==
  ASSUME IInv, HInv, TInv, DInv, Kept(session, session'), Handed, NEW t \in tasks, SendCompact(t)
  PROVE  /\ DInv'
         /\ Holding => (harness'.compacting => harness.compacting)
<1>1. /\ t.kind = "compact" /\ t.step = "waiting" /\ t \in Compactions(tasks)
      /\ UNCHANGED <<session, mode, handle, ready, draining, events>>
  BY DEF SendCompact, Calls, KeepRest, KeepService, Compactions, Unanswered, Refused, NoEffect
<1>2. PICK step \in {"delivered", "failed", "unknown"} :
        /\ tasks' = Become(t, step)
        /\ \/ step \in {"failed", "unknown"} /\ harness' = harness
           \/ /\ step \in {"delivered", "unknown"} /\ Heard(t)
              /\ harness' = [harness EXCEPT !.compacting = TRUE]
  BY DEF SendCompact, Unanswered, Refused, Taken, NoEffect
<1>3. /\ harness'.id = harness.id /\ harness'.live = harness.live
      /\ harness' = harness \/ harness'.compacting = TRUE
  BY <1>2, AroundHolds DEF Around, WorldType, Processes
<1>4. /\ Reported'
      /\ \A v \in Compactions(tasks') : v \in Compactions(tasks) \/ v.step = step
      /\ \A v, w \in Flying' : mode = "up" /\ (\A x, y \in Flying : x = y) => v = w
      /\ Flying' # {} => Flying # {} /\ (step = "failed" \/ Flying # {t})
  BY <1>1, <1>2, <1>3, CallBecomes
<1>5. /\ Shut' /\ (RetriedOnce' <=> RetriedOnce) /\ (CompactsAnswered' <=> CompactsAnswered)
      /\ Compacted' = Compacted
  BY <1>1 DEF DInv, Shut, RetriedOnce, CompactsAnswered, Compacted
<1>6. Heard(t) => harness.live /\ t.harness = harness.id
  BY DEF Heard, Reachable, Running
<1>7. Drained'
  <2>1. Called' \subseteq Called
    <3>1. \A v \in Called' : v \in tasks \/ v.step = step
      BY <1>2, AroundHolds DEF Become, Called, Waiting, Delivers, TaskOK, Tasks
    <3> QED  BY <1>3, <3>1 DEF Called, Waiting, Delivers
  <2> QED  BY <1>1, <1>3, <1>4, <1>5, <2>1 DEF DInv, Drained, Holding
<1>8. ASSUME mode = "up", RetriedOnce, CompactsAnswered, handle # 0 PROVE Flight'
  <2>1. /\ Flying # {} \/ harness.compacting \/ Compacted # {} => session.compact /\ ready
        /\ \A v, w \in Flying : v = w
        /\ \A i, j \in Compacted : i = j
        /\ Flying # {} => ~harness.compacting /\ Compacted = {}
        /\ harness.compacting => Compacted = {}
    BY <1>8 DEF DInv, Flight
  <2>2. CASE harness' = harness
    BY <1>1, <1>4, <1>5, <1>8, <2>1, <2>2 DEF Flight
  <2>3. CASE harness' # harness
    <3>1. step # "failed" /\ t.harness = harness.id
      BY <1>2, <1>6, <2>3
    <3>2. t \in Flying
      BY <1>1, <1>8, <3>1 DEF Flying, HInv, Owned
    <3>3. Flying' = {}
      BY <1>4, <2>1, <3>1, <3>2
    <3> QED  BY <1>1, <1>5, <2>1, <3>2, <3>3 DEF Flight
  <2> QED  BY <2>2, <2>3
<1>9. Flight'
  BY <1>1, <1>5, <1>8 DEF Flight
<1>10. Holding => (harness'.compacting => harness.compacting)
  <2>1. Holding => ~Heard(t)
    BY <1>1, <1>6 DEF DInv, Drained
  <2> QED  BY <1>2, <2>1
<1> QED  BY <1>4, <1>5, <1>7, <1>9, <1>10 DEF DInv

(* Other calls: a prompt is taken only when no drain holds.                 *)
LEMMA SendDrain ==
  ASSUME IInv, HInv, TInv, DInv, Kept(session, session'), Handed, NEW t \in tasks,
         SendPrompt(t) \/ SendInterrupt(t)
  PROVE  /\ DInv'
         /\ Holding => sent' = sent
         /\ harness'.compacting = harness.compacting
<1>1. /\ t.kind \in {"deliver", "interrupt"} /\ t \in Tasks
      /\ UNCHANGED <<session, mode, handle, ready, draining>>
  BY DEF SendPrompt, SendInterrupt, Calls, KeepRest, KeepService, IInv, TypeOK
<1>2. PICK step \in {"unknown", "failed", "completed", "delivered"} : tasks' = Become(t, step)
  BY DEF SendPrompt, SendInterrupt, Unanswered, Refused, Taken
<1>3. \/ UNCHANGED <<harness, events, sent>>
      \/ /\ Calls(t, "deliver") /\ Heard(t)
         /\ harness' = [harness EXCEPT !.turn = t.request]
         /\ events' = Append(events, Event("started", t.request, ""))
  BY DEF SendPrompt, SendInterrupt, Unanswered, Refused, Taken, NoEffect
<1>4. /\ harness'.id = harness.id /\ harness'.live = harness.live
      /\ harness'.compacting = harness.compacting
  BY <1>3, AroundHolds DEF Around, WorldType, Processes
<1>5. Passes
  <2>1. CASE UNCHANGED <<harness, events, sent>>
    BY <2>1, PassesStep
  <2>2. CASE /\ Calls(t, "deliver")
             /\ events' = Append(events, Event("started", t.request, ""))
    <3> DEFINE e == Event("started", t.request, "")
    <3>1. e \in Events /\ e.kind = "started"
      BY <2>2, AroundHolds DEF Calls, TaskOK, Event, Events, Around, WorldType, Processes
    <3>2. events' = Append(events, e)
      BY <2>2
    <3> HIDE DEF e
    <3> QED  BY <3>1, <3>2, PassesStep
  <2> QED  BY <1>3, <2>1, <2>2
<1>6. Soft
  BY <1>4, <1>5 DEF Soft
<1>7. Eased
  BY <1>1, EasesCompose DEF Eases, Eased
<1> DEFINE u  == [t EXCEPT !.step = step]
           ts == {u}
<1>8. \A v \in ts : v.kind # "compact" /\ v.step # "waiting"
  BY <1>1 DEF Tasks
<1>9. tasks' \subseteq tasks \cup ts
  BY <1>2 DEF Become
<1> HIDE DEF ts
<1>10. DInv'
  BY <1>1, <1>6, <1>7, <1>8, <1>9, EasyDrain
<1>11. Holding => sent' = sent
  <2>1. Calls(t, "deliver") /\ Heard(t) => t \in Called /\ harness.live
    BY DEF Called, Waiting, Delivers, Calls, Heard, Reachable, Running
  <2> QED  BY <1>3, <2>1 DEF DInv, Drained
<1> QED  BY <1>4, <1>10, <1>11

(* The end of a compaction, or the answer of the harness to its call, is    *)
(* recorded: an end when nothing of it is left, a lost reply when its call  *)
(* is gone.                                                                 *)
LEMMA SettleDrain ==
  ASSUME IInv, HInv, TInv, DInv, Kept(session, session'), Handed, Soft,
         mode = "up", mode' = mode, UNCHANGED <<handle, ready, draining, harness>>,
         NEW k \in Compacts, session.receipts[k] \notin {"none", "unknown"},
         NEW st \in {"delivered", "completed", "failed", "unknown"},
         NEW s, s = Finish(session, k, st), NEW ended,
         session' = s \/ session' = Advanced(s, handle, ready, ended),
         tasks' \subseteq tasks \cup AdvanceTasks(s, handle, ready, ended),
         st = "unknown" => \A u \in Compactions(tasks') : u.request # k,
         /\ RetriedOnce /\ CompactsAnswered /\ handle # 0 /\ st \in {"completed", "failed"}
         => Flying' = {} /\ ~harness.compacting /\ Compacted' = {}
  PROVE  DInv'
<1> DEFINE ts == AdvanceTasks(s, handle, ready, ended)
<1>1. /\ Trails(session, s) /\ Drains(session, s)
      /\ s = session \/ ((s.compact <=> st = "delivered") /\ s.receipts[k] = st)
      /\ \A r \in Requests : r # k => s.receipts[r] = session.receipts[r]
  BY CompactionRecords
<1>2. Eases(s, session') /\ Fitting(s)
  BY <1>1, AdvanceEases, EasesCompose DEF Trails
<1>3. \A u \in ts : u.kind # "compact" /\ (Holding => u.kind # "deliver")
  BY <1>1, HeldBack
<1> HIDE DEF ts
<1>4. tasks' \subseteq tasks \cup ts
  BY DEF ts
<1>5. CASE s = session
  BY <1>2, <1>3, <1>4, <1>5, EasyDrain DEF Eases, Eased
<1>6. CASE s # session
  <2>1. Trails(session, session') /\ Drains(session, session')
    BY <1>1, <1>2, EasesCompose
  <2>2. /\ (session'.compact <=> st = "delivered") /\ session'.receipts[k] = st
        /\ \A r \in Compacts : r # k => session'.receipts[r] = session.receipts[r]
    <3>1. Compacts \subseteq Requests
      BY DEF Requests
    <3> QED  BY <1>1, <1>2, <1>6, <3>1 DEF Eases, Carries
  <2>3. /\ Shut' /\ (RetriedOnce' => RetriedOnce) /\ (CompactsAnswered' => CompactsAnswered)
        /\ (Holding' => Holding) /\ (session.closing => session'.closing)
    BY <2>1, TrailsStay DEF Holding
  <2>4. \A u \in Compactions(tasks') : u \in Compactions(tasks) /\ u.request \in Compacts
    BY <1>3, <1>4, AroundHolds DEF Compactions, TaskOK
  <2>5. /\ harness'.id = harness.id /\ (harness'.live => harness.live)
        /\ (harness'.compacting => harness.compacting) /\ Passes
    BY DEF Soft
  <2>6. Reported'
    <3>1. \A u \in Compactions(tasks') : session'.receipts[u.request] \notin {"none", "unknown"}
      BY <2>2, <2>4 DEF DInv, Reported
    <3> QED  BY <2>4, <2>5, <3>1 DEF DInv, Reported
  <2>7. ASSUME RetriedOnce', CompactsAnswered', handle # 0 PROVE Flight'
    <3>1. st # "unknown"
      BY <2>2, <2>7 DEF CompactsAnswered
    <3>2. CASE st = "delivered"
      <4>1. /\ Flying # {} \/ harness.compacting \/ Compacted # {} => session.compact /\ ready
            /\ \A t, u \in Flying : t = u
            /\ \A i, j \in Compacted : i = j
            /\ Flying # {} => ~harness.compacting /\ Compacted = {}
            /\ harness.compacting => Compacted = {}
        BY <2>3, <2>7 DEF DInv, Flight
      <4>2. \A t \in Flying' : t \in Flying
        BY <2>4 DEF Flying
      <4>3. PICK j \in {0, 1} : \A i \in Compacted' : i \in Nat /\ i + j \in Compacted
        BY <2>5 DEF Passes
      <4>4. \A i, n \in Compacted' : i = n
        <5> SUFFICES ASSUME NEW i \in Compacted', NEW n \in Compacted' PROVE i = n
          OBVIOUS
        <5>1. i \in Nat /\ n \in Nat /\ i + j = n + j
          BY <4>1, <4>3
        <5> QED  BY <5>1
      <4>5. Compacted' # {} => Compacted # {}
        BY <4>3
      <4> QED  BY <2>2, <3>2, <4>1, <4>2, <4>4, <4>5 DEF Flight
    <3>3. CASE st \in {"completed", "failed"}
      <4>1. Flying' = {} /\ ~harness.compacting /\ Compacted' = {}
        BY <2>3, <2>7, <3>3
      <4> QED  BY <4>1 DEF Flight
    <3> QED  BY <3>1, <3>2, <3>3
  <2>8. Drained'
    <3> SUFFICES ASSUME Holding' PROVE Drained'
      BY DEF Drained
    <3>1. Holding /\ Fitting(session)
      BY <2>3, EasesCompose
    <3>2. ~Spawns
      BY <1>3, <1>4, <3>1 DEF Spawns, Waiting, Delivers
    <3>3. session'.queue = <<>> \/ session'.paused \/ session'.closing
      BY <2>1, <2>3, <3>1 DEF DInv, Drained, Drains
    <3>4. Called' \subseteq Called
      BY <2>5, <3>2, CalledStep
    <3> QED  BY <2>4, <2>5, <3>1, <3>3, <3>4 DEF DInv, Drained
  <2> QED  BY <2>3, <2>6, <2>7, <2>8 DEF DInv, Flight
<1> QED  BY <1>5, <1>6

(* An answer is recorded.                                                   *)
LEMMA RecordReplyDrain ==
  ASSUME IInv, HInv, TInv, DInv, Kept(session, session'), Handed, NEW t \in tasks, RecordReply(t)
  PROVE  DInv'
<1> DEFINE k  == t.request
           s1 == Finish(session, k, t.step)
           ended == t.kind = "deliver"
           a == Advanced(s1, handle, ready, ended)
           P == {session, s1, a}
<1>1. /\ mode = "up" /\ TaskOK(t) /\ t.step \in {"delivered", "completed", "failed", "unknown"}
      /\ t.kind \in {"deliver", "interrupt", "compact"}
  BY AroundHolds DEF RecordReply, TaskOK, Replies
<1>2. \/ Over({session} \cup {s1}) \/ Over({session, s1} \cup {a})
      \/ Retire(t) /\ Quiet /\ session' = session /\ mode' = mode
      \/ /\ handle = t.harness /\ Quiet /\ mode' = mode
         /\ \/ ~Moves(t, s1) /\ session' = s1 /\ Retire(t)
            \/ /\ Moves(t, s1) /\ session' = a
               /\ tasks' = (tasks \ {t}) \cup AdvanceTasks(s1, handle, ready, ended)
  BY TornOver DEF RecordReply, Commit, Same
<1>3. Trails(session, s1)
  <2>1. CASE t.kind = "compact"
    <3>1. k \in Compacts /\ session.receipts[k] # "unknown"
      BY <1>1, <2>1 DEF TaskOK, DInv, Reported, Compactions
    <3> QED  BY <1>1, <3>1, CompactionRecords
  <2>2. CASE t.kind # "compact"
    <3>1. k \in Requests \ Compacts
      BY <1>1, <2>2, RequestsAssumption DEF TaskOK, RequestsAssumption, Requests
    <3> QED  BY <1>1, <3>1, RecordsEase DEF Eases
  <2> QED  BY <2>1, <2>2
<1>4. Eases(s1, a)
  BY AdvanceEases
<1>5. \A s \in P : Trails(session, s)
  <2> HIDE DEF s1, a
  <2> QED  BY <1>3, <1>4, EasesCompose DEF Eases
<1>6. CASE Over({session} \cup {s1}) \/ Over({session, s1} \cup {a})
  <2> HIDE DEF s1, a
  <2>1. Over(P)
    BY <1>6 DEF Over
  <2> HIDE DEF P
  <2> QED  BY <1>5, <2>1, OverDrain DEF Over
<1>7. ASSUME Quiet PROVE Soft /\ UNCHANGED <<handle, ready, draining, harness, events>>
  BY <1>7, QuietSoft DEF Quiet, KeepService, KeepWorld
<1>8. CASE Retire(t) /\ Quiet /\ session' = session /\ mode' = mode
  BY <1>7, <1>8, EasesCompose, CommandDrain DEF Retire
<1>9. CASE /\ handle = t.harness /\ Quiet /\ mode' = mode
           /\ \/ ~Moves(t, s1) /\ session' = s1 /\ Retire(t)
              \/ /\ Moves(t, s1) /\ session' = a
                 /\ tasks' = (tasks \ {t}) \cup AdvanceTasks(s1, handle, ready, ended)
  <2>1. tasks' \subseteq (tasks \ {t}) \cup AdvanceTasks(s1, handle, ready, ended)
    BY <1>9 DEF Retire
  <2>2. CASE t.kind # "compact"
    <3>1. k \in Requests \ Compacts
      BY <1>1, <2>2, RequestsAssumption DEF TaskOK, RequestsAssumption, Requests
    <3>2. Eases(session, s1)
      BY <1>1, <3>1, RecordsEase
    <3> HIDE DEF s1, ended
    <3>3. CASE session' = s1 /\ Retire(t)
      BY <1>7, <1>9, <3>2, <3>3, CommandDrain DEF Retire
    <3>4. CASE session' = a
      BY <1>1, <1>7, <1>9, <2>1, <3>2, <3>4, AdvanceDrain
    <3> QED  BY <1>9, <3>3, <3>4
  <2>3. CASE t.kind = "compact"
    <3>1. /\ k \in Compacts /\ t.step \in {"delivered", "failed", "unknown"}
          /\ t \in Compactions(tasks)
      BY <1>1, <2>3 DEF TaskOK, Compactions
    <3>2. session.receipts[k] \notin {"none", "unknown"}
          /\ \A u \in Compactions(tasks) : u.request = k => u = t
      BY <1>1, <3>1 DEF DInv, Reported
    <3>3. \A u \in Compactions(tasks') : u \in Compactions(tasks) /\ u # t
      <4> HIDE DEF s1, ended
      <4>1. \A u \in AdvanceTasks(s1, handle, ready, ended) : u.kind # "compact"
        BY HeldBack
      <4> QED  BY <2>1, <4>1 DEF Compactions
    <3>4. \A u \in Compactions(tasks') : u.request # k
      BY <3>2, <3>3
    <3>5. ASSUME RetriedOnce, CompactsAnswered, handle # 0, t.step \in {"completed", "failed"}
          PROVE  Flying' = {} /\ ~harness.compacting /\ Compacted' = {}
      <4>1. t \in Flying
        BY <1>9, <3>1, <3>5 DEF Flying
      <4>2. Flying = {t} /\ ~harness.compacting /\ Compacted = {}
        BY <1>1, <3>5, <4>1 DEF DInv, Flight
      <4>3. handle' = handle /\ events' = events
        BY <1>7, <1>9
      <4>4. Flying' \subseteq Flying \ {t}
        BY <3>3, <4>3 DEF Flying
      <4> QED  BY <4>2, <4>3, <4>4 DEF Compacted
    <3>6. s1 = Finish(session, k, t.step) /\ (session' = s1 \/ session' = Advanced(s1, handle, ready, ended))
      BY <1>9
    <3>7. tasks' \subseteq tasks \cup AdvanceTasks(s1, handle, ready, ended)
      BY <2>1
    <3> HIDE DEF s1, ended, k
    <3> QED  BY <1>1, <1>7, <1>9, <3>1, <3>2, <3>4, <3>5, <3>6, <3>7, SettleDrain
  <2> QED  BY <2>2, <2>3
<1> QED  BY <1>2, <1>6, <1>8, <1>9

(* The second part of a resume.                                             *)
LEMMA AdvanceLaterDrain ==
  ASSUME IInv, HInv, TInv, DInv, Kept(session, session'), Handed, NEW t \in tasks, AdvanceLater(t)
  PROVE  DInv'
<1> DEFINE a == Advanced(session, handle, ready, FALSE)
           P == {session} \cup {a}
<1>1. mode = "up"
  BY DEF AdvanceLater
<1>2. \/ Over(P)
      \/ /\ session' = a /\ Quiet /\ mode' = mode
         /\ tasks' \subseteq tasks \cup AdvanceTasks(session, handle, ready, FALSE)
  BY TornOver DEF AdvanceLater, Commit
<1>3. Eases(session, a) /\ Eases(session, session)
  BY AdvanceEases, EasesCompose
<1>4. \A s \in P : Trails(session, s)
  <2> HIDE DEF a
  <2> QED  BY <1>3 DEF Eases
<1> HIDE DEF P
<1>5. CASE ~Over(P)
  <2>1. Soft /\ UNCHANGED <<handle, ready, draining>>
    BY <1>2, <1>5, QuietSoft DEF Quiet, KeepService
  <2> QED  BY <1>1, <1>2, <1>3, <1>5, <2>1, AdvanceDrain
<1> QED  BY <1>4, <1>5, OverDrain DEF Over

-----------------------------------------------------------------------------
(* The compaction across what the harness does, what is recorded of it, and *)
(* the guard.                                                               *)

(* The process ends its turn, or exits.                                     *)
LEMMA ProcessDrain ==
  ASSUME IInv, HInv, TInv, DInv, Kept(session, session'), Handed, Harness, ~HarnessCompacts
  PROVE  DInv' /\ (harness'.compacting => harness.compacting)
<1>1. harness \in Processes
  BY DEF IInv, TypeOK, WorldType
<1>2. /\ UNCHANGED <<session, mode, handle, ready, draining, tasks>>
  BY DEF Harness, HarnessFinishes, HarnessForks, HarnessExits, HarnessCrashes, Exit, KeepAll,
         KeepService, Same
<1>3. Soft
  <2>1. CASE HarnessFinishes
    <3>1. PICK status \in {"completed", "interrupted", "failed"} :
            events' = Append(events, Event("finished", harness.turn, status))
      BY <2>1 DEF HarnessFinishes, Emit
    <3> DEFINE e == Event("finished", harness.turn, status)
    <3>2. e \in Events /\ e.kind # "compacted"
      BY <1>1 DEF Event, Events, Processes
    <3>3. events' = Append(events, e)
      BY <3>1
    <3> HIDE DEF e
    <3>4. harness'.id = harness.id /\ harness'.live = harness.live
          /\ harness'.compacting = harness.compacting
      BY <1>1, <2>1 DEF HarnessFinishes, Processes
    <3> QED  BY <3>2, <3>3, <3>4, PassesStep DEF Soft
  <2>2. ASSUME NEW expected \in BOOLEAN, NEW cleaned \in BOOLEAN, Exit(expected, cleaned)
        PROVE  Soft
    <3> DEFINE e == [Event("exited", None, IF expected THEN "expected" ELSE "unexpected")
                       EXCEPT !.cleaned = cleaned]
    <3>1. events' = Append(events, e)
      BY <2>2 DEF Exit, Emit
    <3>2. e \in Events /\ e.kind # "compacted"
      BY <1>1 DEF Event, Events, Processes
    <3>3. harness'.id = harness.id /\ ~harness'.live /\ ~harness'.compacting
      BY <2>2 DEF Exit, NoHarness
    <3> HIDE DEF e
    <3> QED  BY <3>1, <3>2, <3>3, PassesStep DEF Soft
  <2>3. CASE HarnessExits
    <3>1. (~harness.frozen) \in BOOLEAN
      BY <1>1 DEF Processes
    <3> QED  BY <2>2, <2>3, <3>1 DEF HarnessExits
  <2>4. CASE HarnessCrashes
    BY <2>2, <2>4 DEF HarnessCrashes
  <2>5. CASE HarnessForks
    BY <2>5, ForkStep, PassesStep DEF Soft
  <2> QED  BY <2>1, <2>3, <2>4, <2>5 DEF Harness
<1>4. Eases(session, session')
  BY <1>2, EasesCompose
<1> QED  BY <1>2, <1>3, <1>4, CommandDrain DEF Soft

(* It ends its compaction: there is no other.                               *)
LEMMA CompactedDrain ==
  ASSUME IInv, HInv, TInv, DInv, HarnessCompacts
  PROVE  DInv' /\ ~harness'.compacting
<1>1. /\ UNCHANGED <<session, mode, handle, ready, draining, tasks>>
      /\ harness'.id = harness.id /\ harness'.live = harness.live /\ ~harness'.compacting
      /\ harness.compacting
  BY AroundHolds DEF HarnessCompacts, KeepAll, KeepService, Same, Around, WorldType, Processes
<1>2. PICK e \in Events : events' = Append(events, e)
  <2>1. PICK status \in {"completed", "failed"} :
          events' = Append(events, Event("compacted", None, status))
    BY DEF HarnessCompacts, Emit
  <2>2. Event("compacted", None, status) \in Events
    BY AroundHolds DEF Event, Events, Around, WorldType, Processes
  <2> QED  BY <2>1, <2>2
<1>3. /\ (RetriedOnce' <=> RetriedOnce) /\ (CompactsAnswered' <=> CompactsAnswered)
      /\ Flying' = Flying /\ Called' = Called
  BY <1>1 DEF RetriedOnce, CompactsAnswered, Flying, Called
<1>4. Shut' /\ Reported' /\ Drained'
  BY <1>1, <1>3 DEF DInv, Shut, Reported, Drained, Holding
<1>5. ASSUME mode = "up", RetriedOnce, CompactsAnswered, handle # 0 PROVE Flight'
  <2>1. session.compact /\ ready /\ Flying = {} /\ Compacted = {}
    BY <1>1, <1>5 DEF DInv, Flight
  <2>2. \A i \in DOMAIN events' :
          (i \in DOMAIN events /\ events'[i] = events[i]) \/ i = Len(events) + 1
    <3>1. events \in Seq(Events)
      BY DEF IInv, TypeOK, WorldType
    <3> QED  BY <1>2, <3>1
  <2>3. \A i \in Compacted' : i = Len(events) + 1
    BY <2>1, <2>2 DEF Compacted
  <2> QED  BY <1>1, <1>3, <2>1, <2>3 DEF Flight
<1>6. Flight'
  BY <1>1, <1>3, <1>5 DEF Flight
<1> QED  BY <1>1, <1>4, <1>6 DEF DInv

(* A turn that started.                                                     *)
LEMMA RecordStartedDrain ==
  ASSUME IInv, HInv, TInv, DInv, Kept(session, session'), Handed, RecordStarted
  PROVE  DInv'
<1> DEFINE s1 == State(session, IF session.closing THEN "closing" ELSE "running", Front.request)
           final == IF ready /\ session.current = Front.request THEN s1 ELSE session
           P == {session} \cup {final}
<1>1. events # <<>>
      /\ (Over(P) \/ (session' = final /\ mode' = mode /\ tasks' = tasks /\ KeepService /\ Heed))
  BY TornOver DEF RecordStarted, Records, Commit
<1>2. Eases(session, s1) /\ Eases(session, session)
  BY StatesEase, EasesCompose
<1> HIDE DEF s1
<1>3. Eases(session, final)
  BY <1>2
<1> HIDE DEF final
<1>4. \A s \in P : Trails(session, s)
  BY <1>2, <1>3 DEF Eases
<1> HIDE DEF P
<1>5. CASE ~Over(P)
  <2>1. Soft /\ UNCHANGED <<handle, ready, draining>>
    BY <1>1, <1>5, QuietSoft DEF KeepService
  <2> QED  BY <1>1, <1>3, <1>5, <2>1, CommandDrain
<1> QED  BY <1>1, <1>4, <1>5, OverDrain DEF Over

(* A turn that finished.                                                    *)
LEMMA RecordFinishedDrain ==
  ASSUME IInv, HInv, TInv, DInv, Kept(session, session'), Handed, RecordFinished
  PROVE  DInv'
<1> DEFINE s1 == Finish(session, Front.request, Front.status)
           a == Advanced(s1, handle, ready, TRUE)
           P == {session, s1} \cup {a}
<1>1. mode = "up" /\ events # <<>> /\ Front = events[1] /\ Front.kind = "finished" /\ 1 \in DOMAIN events
  BY DEF RecordFinished, Records, Front, IInv, TypeOK, WorldType
<1>2. Front.request \in Requests \ Compacts /\ Front.status # "none"
  <2>1. /\ Front.request \in Prompts \cup {None} /\ Front.request # None
        /\ Front.status \in {"completed", "interrupted", "failed"}
    BY <1>1 DEF IInv, EventsOK, EventOK, Events, TInv, Told
  <2> QED  BY <2>1, RequestsAssumption DEF RequestsAssumption, Requests
<1>3. Eases(session, s1)
  BY <1>2, RecordsEase
<1>4. \/ Over(P)
      \/ session' = session /\ tasks' = tasks /\ KeepService /\ Heed /\ mode' = mode
      \/ /\ session' = a /\ tasks' = tasks \cup AdvanceTasks(s1, handle, ready, TRUE)
         /\ KeepService /\ Heed /\ mode' = mode
  <2>1. CASE session.current = Front.request
    BY <2>1, TornOver DEF RecordFinished, Commit
  <2>2. CASE session.current # Front.request
    BY <2>2 DEF RecordFinished, Same
  <2> QED  BY <2>1, <2>2
<1>5. Eases(s1, a)
  BY AdvanceEases
<1> HIDE DEF s1
<1>6. \A s \in P : Trails(session, s)
  <2> HIDE DEF a
  <2> QED  BY <1>3, <1>5, EasesCompose DEF Eases
<1> HIDE DEF P
<1>7. ASSUME KeepService, Heed PROVE Soft /\ UNCHANGED <<handle, ready, draining>>
  BY <1>1, <1>7, QuietSoft DEF KeepService
<1>8. CASE session' = session /\ tasks' = tasks /\ KeepService /\ Heed /\ mode' = mode
  BY <1>7, <1>8, EasesCompose, CommandDrain
<1>9. CASE /\ session' = a /\ tasks' = tasks \cup AdvanceTasks(s1, handle, ready, TRUE)
           /\ KeepService /\ Heed /\ mode' = mode
  <2>1. tasks' \subseteq tasks \cup AdvanceTasks(s1, handle, ready, TRUE)
    BY <1>9
  <2>2. Soft /\ handle' = handle /\ draining' = draining /\ (ready => ready')
    BY <1>7, <1>9
  <2> QED  BY <1>1, <1>3, <1>9, <2>1, <2>2, AdvanceDrain
<1> QED  BY <1>4, <1>6, <1>8, <1>9, OverDrain DEF Over

(* A compaction that ended: it was the one the session knows of.            *)
LEMMA RecordCompactedDrain ==
  ASSUME IInv, HInv, TInv, DInv, Kept(session, session'), Handed, RecordCompacted
  PROVE  DInv'
<1> DEFINE k  == Compacting(session)
           st == Front.status
           ended == FALSE
           s1 == Finish(session, k, st)
           a == Advanced(s1, handle, ready, ended)
           P == {session, s1} \cup {a}
<1>1. mode = "up" /\ events # <<>> /\ Front = events[1] /\ Front.kind = "compacted" /\ 1 \in DOMAIN events
  BY DEF RecordCompacted, Records, Front, IInv, TypeOK, WorldType
<1>2. st \in {"completed", "failed"}
  BY <1>1 DEF IInv, EventsOK, EventOK
<1>3. ASSUME KeepService, Heed
      PROVE  Soft /\ UNCHANGED <<handle, ready, draining, harness>> /\ events' = Tail(events)
  BY <1>1, <1>3, QuietSoft DEF KeepService, Heed
<1>4. CASE ~session.compact
  <2>1. session' = session /\ tasks' = tasks /\ KeepService /\ Heed /\ mode' = mode
    BY <1>4 DEF RecordCompacted, Same
  <2> QED  BY <1>3, <2>1, EasesCompose, CommandDrain
<1>5. CASE session.compact
  <2>1. \/ Over(P)
        \/ /\ session' = a /\ tasks' = tasks \cup AdvanceTasks(s1, handle, ready, ended)
           /\ KeepService /\ Heed /\ mode' = mode
    BY <1>5, TornOver DEF RecordCompacted, Commit
  <2>2. k \in Compacts /\ session.receipts[k] \in {"accepted", "delivered"}
    BY <1>5, AroundHolds DEF Sound, Compacting
  <2>3. Trails(session, s1)
    BY <1>2, <2>2, CompactionRecords
  <2>4. Eases(s1, a)
    BY AdvanceEases
  <2>5. \A s \in P : Trails(session, s)
    <3> HIDE DEF s1, a
    <3> QED  BY <2>3, <2>4, EasesCompose DEF Eases
  <2>6. CASE ~Over(P)
    <3>1. /\ session' = a /\ tasks' = tasks \cup AdvanceTasks(s1, handle, ready, ended)
          /\ mode' = mode /\ Soft /\ UNCHANGED <<handle, ready, draining, harness>>
          /\ events' = Tail(events)
      BY <1>3, <2>1, <2>6
    <3>2. ASSUME RetriedOnce, CompactsAnswered, handle # 0
          PROVE  Flying' = {} /\ ~harness.compacting /\ Compacted' = {}
      <4>1. 1 \in Compacted
        BY <1>1 DEF Compacted
      <4>2. Flying = {} /\ ~harness.compacting /\ \A i \in Compacted : i = 1
        BY <1>1, <3>2, <4>1 DEF DInv, Flight
      <4>3. \A i \in DOMAIN events' : i + 1 \in DOMAIN events /\ i + 1 # 1 /\ events'[i] = events[i + 1]
        <5>1. events \in Seq(Events)
          BY DEF IInv, TypeOK, WorldType
        <5> QED  BY <1>1, <3>1, <5>1
      <4>4. Compacted' = {}
        BY <4>2, <4>3 DEF Compacted
      <4>5. \A u \in AdvanceTasks(s1, handle, ready, ended) : u.kind # "compact"
        <5> HIDE DEF s1
        <5> QED  BY HeldBack
      <4>6. Flying' = {}
        <5> HIDE DEF s1, a
        <5> QED  BY <3>1, <4>2, <4>5 DEF Flying, Compactions
      <4> QED  BY <4>2, <4>4, <4>6
    <3>3. s1 = Finish(session, k, st) /\ session' = Advanced(s1, handle, ready, ended)
          /\ tasks' \subseteq tasks \cup AdvanceTasks(s1, handle, ready, ended)
          /\ st \in {"delivered", "completed", "failed", "unknown"}
          /\ session.receipts[k] \notin {"none", "unknown"}
      BY <1>2, <2>2, <3>1
    <3>4. /\ st = "unknown" => \A u \in Compactions(tasks') : u.request # k
          /\ RetriedOnce /\ CompactsAnswered /\ handle # 0 /\ st \in {"completed", "failed"}
             => Flying' = {} /\ ~harness.compacting /\ Compacted' = {}
      BY <1>2, <3>2
    <3>5. Soft /\ mode' = mode /\ UNCHANGED <<handle, ready, draining, harness>>
      BY <3>1
    <3> HIDE DEF s1, st, k, ended, a, P
    <3> QED  BY <1>1, <2>2, <3>3, <3>4, <3>5, SettleDrain, SMTT(60)
  <2> HIDE DEF P
  <2> QED  BY <2>5, <2>6, OverDrain DEF Over
<1> QED  BY <1>4, <1>5

(* The exit of a harness lets go of the handle.                             *)
LEMMA LetGoDrain ==
  ASSUME IInv, HInv, TInv, DInv, Kept(session, session'), Handed, events # <<>>, LetGo,
         mode' = mode, Eases(session, session'),
         tasks' \subseteq tasks \/ tasks' \subseteq tasks \cup {Relaunch}
  PROVE  DInv'
<1>1. Soft /\ handle' = 0 /\ draining' = draining
  BY QuietSoft DEF LetGo
<1>2. Relaunch.kind = "relaunch"
  BY DEF Relaunch, Task
<1> QED  BY <1>1, <1>2, CommandDrain

(* An idle harness that was released.                                       *)
LEMMA RecordSleptDrain ==
  ASSUME IInv, HInv, TInv, DInv, Kept(session, session'), Handed, RecordSlept
  PROVE  DInv'
<1> DEFINE s1 == Pid(session, FALSE)
           s2 == State(s1, "sleeping", None)
           rs == Accepted(Sleeps)
           s3 == FinishAll(s2, rs, "completed")
           s4 == State(s3, "resuming", None)
           final == IF Wakes(s3, 0) THEN s4 ELSE s3
           P == {session, s1, s2, s3} \cup {final}
<1>1. events # <<>>
      /\ \/ Over(P)
         \/ /\ session' = final /\ mode' = mode /\ LetGo
            /\ tasks' = tasks \/ tasks' = tasks \cup {Relaunch}
  BY TornOver DEF RecordSlept, Records, Commit
<1>2. Eases(session, s1) /\ Eases(s1, s2)
  BY StatesEase
<1>3. Eases(s2, s3)
  <2>1. rs \cap Compacts = {}
    BY RequestsAssumption DEF RequestsAssumption, Accepted
  <2> HIDE DEF s2, rs
  <2> QED  BY <2>1, StatesEase
<1> HIDE DEF s1, s2, s3
<1>4. Eases(s3, s4)
  BY StatesEase
<1> HIDE DEF s4
<1>5. Eases(session, s2) /\ Eases(session, s3) /\ Eases(session, final)
  <2>1. Eases(session, s2) /\ Eases(session, s3)
    BY <1>2, <1>3, EasesCompose
  <2>2. Eases(session, s4)
    BY <1>4, <2>1, EasesCompose
  <2> QED  BY <2>1, <2>2
<1> HIDE DEF final
<1>6. \A s \in P : Trails(session, s)
  BY <1>2, <1>5, EasesCompose DEF Eases
<1> HIDE DEF P
<1>7. CASE session' = final /\ mode' = mode /\ LetGo
           /\ (tasks' = tasks \/ tasks' = tasks \cup {Relaunch})
  BY <1>1, <1>5, <1>7, LetGoDrain
<1> QED  BY <1>1, <1>6, <1>7, OverDrain DEF Over

(* Any other exit.                                                          *)
LEMMA RecordExitedDrain ==
  ASSUME IInv, HInv, TInv, DInv, Kept(session, session'), Handed, RecordExited
  PROVE  DInv'
<1> DEFINE expected  == Front.status = "expected"
           restoring == session.state = "resuming" /\ session.native
           resumable == /\ Front.cleaned
                        /\ \/ ready /\ CanResume(session)
                           \/ stopping /\ restoring
           recover   == resumable /\ ~stopping /\ ~session.recovery
           asked     == {r \in Interrupts \cup Stops :
                           session.receipts[r] \in {"accepted", "delivered", "unknown"}}
           st == IF expected /\ session.closing THEN "closed"
                 ELSE IF resumable /\ (stopping \/ recover) THEN "suspended"
                 ELSE "process_lost"
           gone  == IF Gone THEN "unknown" ELSE "unknown_after_restart"
           ended == Finish(session, session.current, gone)
           s1 == IF session.current = None THEN session ELSE ended
           s2 == FinishAll(s1, asked, "unknown_after_restart")
           reaped == Pid(s2, FALSE)
           s3 == IF Front.cleaned THEN reaped ELSE s2
           s4 == State(s3, st, None)
           answer == IF expected THEN "completed" ELSE "unknown"
           r == CloseRequest(s4)
           closed == Finish(s4, r, answer)
           s5 == IF session.closing THEN closed ELSE s4
           fails == st # "suspended" /\ session.startup # "startup_timeout"
           failed == FailPending(s5)
           s6 == IF fails THEN failed ELSE s5
           partly == IF fails THEN PartlyFailed(s5) ELSE {}
           s7 == State(s6, "resuming", None)
           final == IF recover THEN s7 ELSE s6
           ts == IF recover THEN {Relaunch} ELSE {}
           P == ({session, s1, s2, s3, s4, s6} \cup partly) \cup {final}
<1>1. events # <<>> /\ Fitting(session) /\ Sound(session)
  BY EasesCompose, AroundHolds DEF RecordExited, Records
<1>2. \/ Torn(P, FALSE)
      \/ session' = final /\ mode' = mode /\ tasks' = tasks \cup ts /\ LetGo
  BY DEF RecordExited, Commit
<1>3. /\ st = "closed" => session.closing
      /\ asked \cap Compacts = {}
      /\ gone # "none" /\ answer # "none"
      /\ ts \subseteq {Relaunch}
      /\ partly = {} \/ partly = PartlyFailed(s5)
  BY RequestsAssumption DEF RequestsAssumption
<1> HIDE DEF recover, st, asked, gone, answer, fails, partly, ts
<1>4. session.current # None => Eases(session, ended)
  <2>1. session.current # None => session.current \in Requests \ Compacts
    BY <1>1, RequestsAssumption DEF Sound, Sessions, Known, RequestsAssumption, Requests
  <2> QED  BY <1>3, <2>1, RecordsEase
<1> HIDE DEF ended
<1>5. Eases(session, s1)
  BY <1>4, EasesCompose
<1> HIDE DEF s1
<1>6. Eases(session, s2)
  <2>1. Eases(s1, s2)
    BY <1>3, StatesEase
  <2> HIDE DEF s2
  <2> QED  BY <1>5, <2>1, EasesCompose
<1> HIDE DEF s2
<1>7. Eases(session, s3)
  <2>1. Eases(s2, reaped)
    BY StatesEase
  <2>2. s3 = s2 \/ s3 = reaped
    OBVIOUS
  <2> HIDE DEF reaped, s3
  <2> QED  BY <1>6, <2>1, <2>2, EasesCompose
<1> HIDE DEF s3
<1>8. Eases(session, s4)
  <2>1. st # "closed" \/ s3.closing
    BY <1>1, <1>3, <1>7 DEF Eases, Trails
  <2>2. Eases(s3, s4)
    BY <2>1, StatesEase
  <2> HIDE DEF s4
  <2> QED  BY <1>7, <2>2, EasesCompose
<1> HIDE DEF s4
<1>9. session.closing => Eases(session, closed)
  <2>1. session.closing => \E q \in Closes : session.receipts[q] # "none"
    BY <1>1 DEF Sound
  <2>2. session.closing => \E q \in Closes : s4.receipts[q] # "none"
    BY <1>1, <1>8, <2>1 DEF Eases, Trails
  <2>3. session.closing => r \in Closes
    BY <2>2 DEF CloseRequest
  <2>4. session.closing => r \in Requests \ Compacts
    BY <2>3, RequestsAssumption DEF RequestsAssumption, Requests
  <2> HIDE DEF r
  <2>5. session.closing => Eases(s4, closed)
    BY <1>3, <2>4, RecordsEase
  <2> HIDE DEF closed
  <2> QED  BY <1>8, <2>5, EasesCompose
<1> HIDE DEF closed
<1>10. Eases(session, s5)
  BY <1>8, <1>9
<1> HIDE DEF s5
<1>11. Eases(s5, failed) /\ \A s \in PartlyFailed(s5) : Eases(s5, s)
  BY StatesEase
<1> HIDE DEF failed
<1>12. Eases(session, s6) /\ \A s \in partly : Eases(session, s)
  <2>1. s6 = s5 \/ s6 = failed
    OBVIOUS
  <2> HIDE DEF s6
  <2> QED  BY <1>3, <1>10, <1>11, <2>1, EasesCompose
<1> HIDE DEF s6
<1>13. Eases(session, final)
  <2>1. Eases(s6, s7)
    BY StatesEase
  <2>2. final = s6 \/ final = s7
    OBVIOUS
  <2> HIDE DEF s7, final
  <2> QED  BY <1>12, <2>1, <2>2, EasesCompose
<1> HIDE DEF s7, final
<1>14. \A s \in P : Trails(session, s)
  BY <1>5, <1>6, <1>7, <1>8, <1>12, <1>13, EasesCompose DEF Eases
<1> HIDE DEF P
<1>15. CASE Torn(P, FALSE)
  <2>1. Over(P)
    BY <1>15, TornOver
  <2> QED  BY <1>14, <2>1, OverDrain DEF Over
<1>16. CASE session' = final /\ mode' = mode /\ tasks' = tasks \cup ts /\ LetGo
  BY <1>1, <1>3, <1>13, <1>16, LetGoDrain
<1> QED  BY <1>2, <1>15, <1>16

(* The guard, and the age of its sample.                                    *)
LEMMA GuardDrain ==
  ASSUME IInv, HInv, TInv, DInv, Kept(session, session'), Handed, GuardLoop \/ SampleExpires
  PROVE  DInv'
<1>1. CASE GuardLooks \/ SampleExpires
  <2>1. /\ session' = session /\ mode' = mode /\ UNCHANGED <<handle, ready, draining, tasks>>
        /\ UNCHANGED <<harness, events>>
    BY <1>1 DEF GuardLooks, SampleExpires, Same, KeepService
  <2> QED  BY <2>1, QuietSoft, EasesCompose, CommandDrain
<1>2. CASE GuardPauses
  <2> DEFINE s1 == StoragePaused(session, TRUE)
             P == {session} \cup {s1}
  <2>1. \/ Over(P)
        \/ session' = s1 /\ mode' = mode /\ tasks' = tasks /\ Freeze(guard.harness, TRUE)
    BY <1>2, TornOver DEF GuardPauses, Commit
  <2>2. Eases(session, s1)
    BY StatesEase
  <2> HIDE DEF s1
  <2>3. \A s \in P : Trails(session, s)
    BY <2>2, EasesCompose DEF Eases
  <2> HIDE DEF P
  <2>4. CASE session' = s1 /\ mode' = mode /\ tasks' = tasks /\ Freeze(guard.harness, TRUE)
    <3>1. Soft /\ UNCHANGED <<handle, ready, draining>>
      BY <2>4, QuietSoft DEF Freeze
    <3> QED  BY <2>2, <2>4, <3>1, CommandDrain
  <2> QED  BY <2>1, <2>3, <2>4, OverDrain DEF Over
<1>3. CASE GuardResumes
  <2> DEFINE ended == FALSE
             s1 == StoragePaused(session, FALSE)
             a == Advanced(s1, handle, ready, ended)
             P == {session, s1} \cup {a}
  <2>1. \/ Over(P)
        \/ /\ session' = a /\ mode' = mode
           /\ tasks' = tasks \cup AdvanceTasks(s1, handle, ready, ended)
           /\ Freeze(guard.harness, FALSE)
    BY <1>3, TornOver DEF GuardResumes, Commit
  <2>2. Eases(session, s1) /\ mode = "up"
    BY <1>3, StatesEase DEF GuardResumes
  <2>3. Eases(s1, a)
    BY AdvanceEases
  <2> HIDE DEF s1, ended
  <2>4. \A s \in P : Trails(session, s)
    <3> HIDE DEF a
    <3> QED  BY <2>2, <2>3, EasesCompose DEF Eases
  <2> HIDE DEF P
  <2>5. CASE /\ session' = a /\ mode' = mode
             /\ tasks' = tasks \cup AdvanceTasks(s1, handle, ready, ended)
             /\ Freeze(guard.harness, FALSE)
    <3>1. Soft /\ UNCHANGED <<handle, draining>> /\ (ready => ready')
      BY <2>5, QuietSoft DEF Freeze
    <3>2. tasks' \subseteq tasks \cup AdvanceTasks(s1, handle, ready, ended)
      BY <2>5
    <3> QED  BY <2>2, <2>5, <3>1, <3>2, AdvanceDrain
  <2> QED  BY <2>1, <2>4, <2>5, OverDrain DEF Over
<1> QED  BY <1>1, <1>2, <1>3 DEF GuardLoop

-----------------------------------------------------------------------------
(* All steps, once more.                                                    *)

(* Nothing drains at first.                                                 *)
LEMMA InitDInv ==
  ASSUME Init
  PROVE  DInv
<1>1. session.state = "absent"
  BY DEF Init, Absent
<1>2. Compactions(tasks) = {}
  BY DEF Init, Compactions
<1>3. ~draining /\ mode = "down"
  BY DEF Init
<1> QED  BY <1>1, <1>2, <1>3 DEF DInv, Shut, Reported, Flight, Drained, Holding

(* Every step keeps the drain.                                              *)
LEMMA NextDInv ==
  ASSUME IInv, HInv, TInv, DInv, [Next]_vars
  PROVE  DInv'
<1> Kept(session, session') /\ Handed
  BY NextIInv DEF Preserved
<1>1. CASE Boots \/ RecordNative \/ GuardLoop \/ SampleExpires \/ Harness
  BY <1>1, BootDrain, GuardDrain, ProcessDrain, CompactedDrain, RecordStartedDrain,
     RecordFinishedDrain, RecordCompactedDrain, RecordSleptDrain, RecordExitedDrain
     DEF RecordNative
<1>2. CASE Commands
  BY <1>2, StartSessionDrain, CompactWakesDrain, PromptDrain, InterruptCommandDrain,
     ResumeQueueDrain, CancelDrain, CompactDrain, SleepDrain, CloseDrain
     DEF Commands
<1>3. ASSUME NEW t \in tasks, Starting(t) PROVE DInv'
  BY <1>3, BeginDrain, SpawnDrain, LaunchReadyDrain, LaunchErrorDrain, RelaunchReadyDrain,
     RelaunchErrorDrain DEF Starting
<1>4. ASSUME NEW t \in tasks, Calling(t) PROVE DInv'
  BY <1>4, SendDrain, SendCompactDrain, RecordReplyDrain, AdvanceLaterDrain DEF Calling
<1>5. CASE SleepDue \/ Drain \/ Undrain \/ Shutdown
  BY <1>5, DueDrain
<1>6. CASE Crash \/ Wedge
  <2>1. Over({session}) /\ session' = session
    BY <1>6 DEF Crash, Wedge, Over, ghostVars
  <2> QED  BY <2>1, OverDrain, EasesCompose
<1>7. CASE UNCHANGED vars
  <2>1. /\ session' = session /\ mode' = mode /\ UNCHANGED <<handle, ready, draining, tasks>>
        /\ UNCHANGED <<harness, events>>
    BY <1>7 DEF vars, serviceVars, worldVars, ghostVars
  <2> QED  BY <2>1, QuietSoft, EasesCompose, CommandDrain
<1> QED  BY <1>1, <1>2, <1>3, <1>4, <1>5, <1>6, <1>7 DEF Next

(* The invariant of the drain always holds.                                 *)
LEMMA DrainInvariant == Spec => []DInv
<1>1. Init => DInv
  BY InitDInv
<1>2. IInv /\ HInv /\ TInv /\ DInv /\ [Next]_vars => DInv'
  BY NextDInv
<1> QED  BY <1>1, <1>2, Invariant, HarnessInvariant, TurnInvariant, PTL DEF Spec

(* A step that begins neither a turn nor a compaction.                      *)
Idles == sent' = sent /\ (harness'.compacting => harness.compacting)

(* A handler that lets the harness be, asks it to exit, or freezes it.      *)
LEMMA IdlesStep ==
  ASSUME IInv
  PROVE  /\ \A P : Over(P) => Idles
         /\ sent' = sent /\ harness' = harness => Idles
         /\ \A h : sent' = sent /\ harness' = AskExit(h) => Idles
         /\ \A h, f : sent' = sent /\ Freeze(h, f) => Idles
<1>1. harness \in Processes
  BY DEF IInv, TypeOK, WorldType
<1>2. ASSUME NEW P, Over(P) PROVE Idles
  BY <1>2 DEF Over, ServiceGone, worldVars, NoHarness, Idles
<1>3. \A h : AskExit(h).compacting = harness.compacting
  BY <1>1 DEF AskExit, Processes
<1>4. ASSUME NEW h, NEW f, Freeze(h, f) PROVE harness'.compacting = harness.compacting
  BY <1>1, <1>4 DEF Freeze, Processes
<1> QED  BY <1>2, <1>3, <1>4 DEF Idles

(* Commands, boots, stops and the guard.                                    *)
LEMMA CommandsIdle ==
  ASSUME IInv,
         Boots \/ Commands \/ GuardLoop \/ SampleExpires
           \/ SleepDue \/ Drain \/ Undrain \/ Shutdown \/ Crash \/ Wedge
  PROVE  Idles
<1>1. CASE Boots
  <2>1. sent' = sent /\ harness' = harness
    BY <1>1 DEF Boots, Open, OpenUnreadable, Restore, KeepWorld, ghostVars
  <2> QED  BY <2>1, IdlesStep
<1>2. CASE StartSession \/ CompactWakes
  <2>1. (\E P : Over(P)) \/ (sent' = sent /\ harness' = harness)
    BY <1>2, TornOver DEF StartSession, CompactWakes, Commit, Quiet, KeepWorld
  <2> QED  BY <2>1, IdlesStep
<1>3. ASSUME NEW p \in Prompts, Prompt(p) PROVE Idles
  <2>1. (\E P : Over(P)) \/ (sent' = sent /\ harness' = harness)
    BY <1>3, TornOver DEF Prompt, Commit, Quiet, KeepWorld
  <2> QED  BY <2>1, IdlesStep
<1>4. ASSUME NEW r, InterruptTurn(r) \/ StopTurn(r) PROVE Idles
  <2>1. (\E P : Over(P)) \/ (sent' = sent /\ harness' = harness)
    BY <1>4, TornOver DEF InterruptTurn, StopTurn, Commit, Quiet, KeepWorld
  <2> QED  BY <2>1, IdlesStep
<1>5. ASSUME NEW r, ResumeQueue(r) PROVE Idles
  <2>1. (\E P : Over(P)) \/ (sent' = sent /\ harness' = harness)
    BY <1>5, TornOver DEF ResumeQueue, Commit, Quiet, KeepWorld
  <2> QED  BY <2>1, IdlesStep
<1>6. ASSUME NEW r, NEW p, Cancel(r, p) PROVE Idles
  <2>1. (\E P : Over(P)) \/ (sent' = sent /\ harness' = harness)
    BY <1>6, TornOver DEF Cancel, Commit, Quiet, KeepWorld
  <2> QED  BY <2>1, IdlesStep
<1>7. ASSUME NEW r, Compact(r) PROVE Idles
  <2>1. (\E P : Over(P)) \/ (sent' = sent /\ harness' = harness)
    BY <1>7, TornOver DEF Compact, Commit, Quiet, KeepWorld
  <2> QED  BY <2>1, IdlesStep
<1>8. ASSUME NEW r, Close(r) PROVE Idles
  <2>1. (\E P : Over(P)) \/ (sent' = sent /\ harness' = AskExit(handle))
    BY <1>8, TornOver DEF Close, Commit
  <2> QED  BY <2>1, IdlesStep
<1>9. ASSUME NEW r, Sleep(r) PROVE Idles
  <2>1. \/ \E P : Over(P)
        \/ sent' = sent /\ (harness' = harness \/ harness' = AskExit(handle))
    BY <1>9, TornOver DEF Sleep, Commit, Quiet, KeepWorld, Release
  <2> QED  BY <2>1, IdlesStep
<1>10. CASE SleepDue \/ Drain \/ Undrain
  <2>1. sent' = sent /\ (harness' = harness \/ harness' = AskExit(handle))
    BY <1>10 DEF SleepDue, Drain, Undrain, Release, KeepWorld, ghostVars
  <2> QED  BY <2>1, IdlesStep
<1>11. CASE Shutdown
  <2>1. (\E P : Over(P)) \/ (sent' = sent /\ harness' = AskExit(handle))
    BY <1>11, TornOver DEF Shutdown, Commit
  <2> QED  BY <2>1, IdlesStep
<1>12. CASE Crash \/ Wedge
  <2>1. Over({session})
    BY <1>12 DEF Crash, Wedge, Over, ghostVars
  <2> QED  BY <2>1, IdlesStep
<1>13. CASE SampleExpires \/ GuardLooks
  <2>1. sent' = sent /\ harness' = harness
    BY <1>13 DEF SampleExpires, GuardLooks, Same, ghostVars
  <2> QED  BY <2>1, IdlesStep
<1>14. CASE GuardPauses \/ GuardResumes
  <2>1. (\E P : Over(P)) \/ (sent' = sent /\ \E f : Freeze(guard.harness, f))
    BY <1>14, TornOver DEF GuardPauses, GuardResumes, Commit
  <2> QED  BY <2>1, IdlesStep
<1> QED  BY <1>1, <1>2, <1>3, <1>4, <1>5, <1>6, <1>7, <1>8, <1>9, <1>10, <1>11, <1>12, <1>13, <1>14
         DEF Commands, GuardLoop

(* Starts of a harness, and what is recorded of one.                        *)
LEMMA RecordsIdle ==
  ASSUME IInv
  PROVE  /\ \A t \in tasks : Starting(t) \/ RecordReply(t) \/ AdvanceLater(t) => Idles
         /\ RecordNative => Idles
<1>1. ASSUME NEW t \in tasks, Admit(t) \/ SpawnDropped(t) \/ SpawnFails(t) \/ Handshake(t) \/ RelaunchDropped(t)
      PROVE  Idles
  <2>1. (\E P : Over(P)) \/ (sent' = sent /\ harness' = harness)
    BY <1>1, TornOver DEF Admit, SpawnDropped, SpawnFails, Handshake, RelaunchDropped, Commit, Quiet,
       KeepWorld, Same, ghostVars
  <2> QED  BY <2>1, IdlesStep
<1>2. ASSUME NEW t \in tasks, Spawn(t) PROVE Idles
  <2>1. \/ \E P : Over(P)
        \/ sent' = sent /\ ~harness'.compacting
    BY <1>2, TornOver DEF Spawn, Commit, NoHarness
  <2> QED  BY <2>1, IdlesStep DEF Idles
<1>3. ASSUME NEW t \in tasks, LaunchReady(t) PROVE Idles
  <2>1. (\E P : Over(P)) \/ (sent' = sent /\ harness' = harness)
    BY <1>3, TornOver DEF LaunchReady, Runs, Commit, Quiet, KeepWorld
  <2> QED  BY <2>1, IdlesStep
<1>4. ASSUME NEW t \in tasks, RelaunchReady(t) PROVE Idles
  <2>1. (\E P : Over(P)) \/ (sent' = sent /\ harness' = harness)
    BY <1>4, TornOver DEF RelaunchReady, Runs, Commit, Quiet, KeepWorld, Same, ghostVars
  <2> QED  BY <2>1, IdlesStep
<1>5. ASSUME NEW t \in tasks, LaunchError(t) PROVE Idles
  <2>1. (\E P : Over(P)) \/ (sent' = sent /\ harness' = AskExit(handle))
    BY <1>5, TornOver DEF LaunchError, GiveUp, Commit
  <2> QED  BY <2>1, IdlesStep
<1>6. ASSUME NEW t \in tasks, RelaunchError(t) PROVE Idles
  <2>1. (\E P : Over(P)) \/ (sent' = sent /\ harness' = AskExit(handle))
    BY <1>6, TornOver DEF RelaunchError, GiveUp, Commit
  <2> QED  BY <2>1, IdlesStep
<1>7. ASSUME NEW t \in tasks, RecordReply(t) \/ AdvanceLater(t) PROVE Idles
  <2>1. (\E P : Over(P)) \/ (sent' = sent /\ harness' = harness)
    BY <1>7, TornOver DEF RecordReply, AdvanceLater, Commit, Quiet, KeepWorld, Same, ghostVars
  <2> QED  BY <2>1, IdlesStep
<1>8. CASE RecordStarted \/ RecordFinished \/ RecordCompacted
  <2>1. (\E P : Over(P)) \/ (sent' = sent /\ harness' = harness)
    BY <1>8, TornOver DEF RecordStarted, RecordFinished, RecordCompacted, Commit, Heed, Same, ghostVars
  <2> QED  BY <2>1, IdlesStep
<1>9. CASE RecordSlept
  <2>1. (\E P : Over(P)) \/ (sent' = sent /\ harness' = harness)
    BY <1>9, TornOver DEF RecordSlept, Commit, LetGo, Heed
  <2> QED  BY <2>1, IdlesStep
<1>10. CASE RecordExited
  <2>1. (\E P : Over(P)) \/ (sent' = sent /\ harness' = harness)
    BY <1>10, ExitLetsGo DEF LetGo, Heed
  <2> QED  BY <2>1, IdlesStep
<1> QED  BY <1>1, <1>2, <1>3, <1>4, <1>5, <1>6, <1>7, <1>8, <1>9, <1>10 DEF Starting, RecordNative

(* While a drain holds, nothing starts: no prompt reaches the harness and   *)
(* no compaction begins, whatever was queued, on its way or refused when    *)
(* the drain began, and whatever resumes, wakes or fails while it lasts.    *)
THEOREM DrainsHold == Spec => DrainHolds
<1> DEFINE A == RetriedOnce /\ CompactsAnswered /\ draining /\ draining' => Idles
<1>1. ASSUME IInv, HInv, TInv, DInv, [Next]_vars PROVE [A]_vars
  <2> SUFFICES ASSUME Next, Holding PROVE Idles
    BY <1>1 DEF Holding
  <2> Kept(session, session') /\ Handed
    BY <1>1, NextIInv DEF Preserved
  <2>1. CASE Harness
    <3>1. sent' = sent
      BY <2>1 DEF Harness, HarnessFinishes, HarnessCompacts, HarnessForks, HarnessExits,
         HarnessCrashes, Exit, KeepAll, Same, ghostVars
    <3>2. harness'.compacting => harness.compacting
      BY <1>1, <2>1, ProcessDrain, CompactedDrain
    <3> QED  BY <3>1, <3>2 DEF Idles
  <2>2. ASSUME NEW t \in tasks, SendPrompt(t) \/ SendInterrupt(t) PROVE Idles
    BY <1>1, <2>2, SendDrain DEF Idles
  <2>3. ASSUME NEW t \in tasks, SendCompact(t) PROVE Idles
    <3>1. sent' = sent
      BY <2>3 DEF SendCompact, Unanswered, Refused, NoEffect
    <3>2. harness'.compacting => harness.compacting
      BY <1>1, <2>3, SendCompactDrain
    <3> QED  BY <3>1, <3>2 DEF Idles
  <2> QED  BY <1>1, <2>1, <2>2, <2>3, CommandsIdle, RecordsIdle DEF Next, Calling
<1>2. Spec => [][A]_vars
  <2> HIDE DEF A
  <2> QED  BY <1>1, Invariant, HarnessInvariant, TurnInvariant, DrainInvariant, PTL DEF Spec
<1> QED  BY <1>2 DEF DrainHolds, Idles
=============================================================================
