--------------------------- MODULE SessionRecords ---------------------------
(***************************************************************************)
(* What the journal records of one conversation fold to: Local::apply and  *)
(* the receipt helpers of src/session/state.rs, the cancelled flag of      *)
(* src/session/prompt.rs, and the predicates of Session.  Every operator   *)
(* maps a session to the session after one record (or one loop of records). *)
(***************************************************************************)
EXTENDS Naturals, Sequences

CONSTANTS
  Prompts, Interrupts, Stops, Resumes, Cancels, Compacts, Sleeps, Closes,
                  \* request ids, by the command they carry
  Start,          \* the request that starts the session
  None            \* no request

Requests == Prompts \cup Interrupts \cup Stops \cup Resumes \cup Cancels
              \cup Compacts \cup Sleeps \cup Closes \cup {Start}

ASSUME RequestsAssumption ==
  /\ None \notin Requests
  /\ Start \notin Prompts \cup Interrupts \cup Stops \cup Resumes \cup Cancels
                    \cup Compacts \cup Sleeps \cup Closes
  /\ Prompts \cap (Interrupts \cup Stops \cup Resumes \cup Cancels \cup Compacts
                     \cup Sleeps \cup Closes) = {}
  /\ Compacts \cap (Interrupts \cup Stops \cup Resumes \cup Cancels \cup Sleeps
                      \cup Closes) = {}
  /\ Resumes \cap (Interrupts \cup Stops \cup Cancels \cup Sleeps \cup Closes) = {}

(* Receipt states that finish_receipt never leaves.  "unknown" is not one.  *)
Terminal == {"completed", "interrupted", "failed", "unknown_after_restart"}
ReceiptStates == {"none", "accepted", "delivered", "unknown"} \cup Terminal

States == {"absent", "pending", "starting", "resuming", "starting_turn", "running",
           "interrupting", "closing", "idle", "sleeping", "suspended", "closed",
           "failed", "process_lost"}

(* A persisted session; Absent describes the fields.                        *)
Sessions == [state : States, current : Prompts \cup {None}, queue : Seq(Prompts),
             receipts : [Requests -> ReceiptStates], paused : BOOLEAN, storage : BOOLEAN,
             compact : BOOLEAN, closing : BOOLEAN, cancelled : SUBSET Prompts,
             recovery : BOOLEAN, native : BOOLEAN, dispatched : BOOLEAN,
             startup : {"none", "startup_timeout", "resume_failed"}, pid : BOOLEAN]

-----------------------------------------------------------------------------
(* Sequences without repetitions.                                           *)

Elements(q)    == {q[i] : i \in DOMAIN q}
Position(q, p) == CHOOSE i \in DOMAIN q : q[i] = p
Without(q, p)  ==
  IF p \in Elements(q)
    THEN [i \in 1..(Len(q) - 1) |-> IF i < Position(q, p) THEN q[i] ELSE q[i + 1]]
    ELSE q

-----------------------------------------------------------------------------
(* The fold: what one record makes of the session (Local::apply).           *)

Absent ==
  [state |-> "absent", current |-> None, queue |-> <<>>,
   receipts |-> [r \in Requests |-> "none"],
   paused |-> FALSE,      \* queue_paused
   storage |-> FALSE,     \* storage_paused
   compact |-> FALSE,     \* compacting: compact_request is some
   closing |-> FALSE,     \* close_request is some
   cancelled |-> {},      \* prompts whose cancelled flag is set
   recovery |-> FALSE,    \* recovery_attempted
   native |-> FALSE,      \* native_id and native_path are some
   dispatched |-> FALSE,  \* has_dispatched
   startup |-> "none",    \* startup_error
   pid |-> FALSE]         \* harness_pid is some

(* The first receipt of a request.                                          *)
Accept(s, r) ==
  [s EXCEPT !.receipts[r] = "accepted",
            !.state    = IF r = Start THEN "pending" ELSE @,
            !.queue    = IF r \in Prompts THEN Append(@, r) ELSE @,
            !.recovery = IF r \in Prompts THEN FALSE ELSE @,
            !.paused   = IF r \in Stops THEN TRUE ELSE IF r \in Resumes THEN FALSE ELSE @,
            !.compact  = @ \/ r \in Compacts,
            !.closing  = @ \/ r \in Closes]

(* Mutant: only the flag is set.                                            *)
AcceptCancelFlag(s, r, p) == [Accept(s, r) EXCEPT !.cancelled = @ \cup {p}]

(* A cancel receipt also takes its target out of the queue.                 *)
AcceptCancel(s, r, p) ==
  [Accept(s, r) EXCEPT !.queue = Without(@, p), !.cancelled = @ \cup {p}]

(* Mutant: the receipt is overwritten whatever it says.                     *)
NeverEnded(s, r) == FALSE
Ended(s, r) == s.receipts[r] \in Terminal

(* finish_receipt: a no-op on a terminal receipt.                           *)
Finish(s, r, st) ==
  IF Ended(s, r) \/ s.receipts[r] = st THEN s
  ELSE [s EXCEPT !.receipts[r] = st,
                 !.queue    = IF r \in Prompts /\ st # "delivered" THEN Without(@, r) ELSE @,
                 !.recovery = IF r \in Prompts /\ st \in {"completed", "interrupted"}
                                THEN FALSE ELSE @,
                 !.compact  = IF r \in Compacts THEN st = "delivered" ELSE @]

(* A loop of finish_receipt over control requests.                          *)
FinishAll(s, rs, st) ==
  [s EXCEPT !.receipts =
     [r \in Requests |-> IF r \in rs /\ @[r] \notin Terminal THEN st ELSE @[r]]]

(* fail_pending over the first n queued prompts, and over all of them.      *)
FailFirst(s, n) ==
  [s EXCEPT !.queue = SubSeq(@, n + 1, Len(@)),
            !.receipts = [r \in Requests |->
               IF r \in {s.queue[i] : i \in 1..n} THEN "failed" ELSE @[r]]]
FailPending(s)  == FailFirst(s, Len(s.queue))
PartlyFailed(s) == {FailFirst(s, n) : n \in 0..Len(s.queue)}

(* The record that claims a prompt for a turn takes it out of the queue.    *)
(* (Mutant: the one that says the turn runs does.)                          *)
ClaimsLate(st) == st = "running"
Claims(st) == st = "starting_turn"

(* A "state" record; one without a request id clears current_request.       *)
State(s, st, p) ==
  [s EXCEPT !.state      = st,
            !.current    = p,
            !.recovery   = @ \/ st = "resuming",
            !.startup    = IF st = "idle" THEN "none" ELSE @,
            !.dispatched = @ \/ st = "starting_turn",
            !.queue      = IF Claims(st) THEN Without(@, p) ELSE @]

(* Mutant: swapped arguments.                                               *)
LostSwapped(s, code) == [State(s, code, None) EXCEPT !.startup = "process_lost"]
Lost(s, code)  == [State(s, "process_lost", None) EXCEPT !.startup = code]
Pid(s, known)  == [s EXCEPT !.pid = known]
Native(s)      == [s EXCEPT !.native = TRUE]
StoragePaused(s, paused) == [s EXCEPT !.storage = paused]

-----------------------------------------------------------------------------
(* Session predicates.                                                      *)

CanResume(s) ==
  /\ s.native /\ ~s.closing
  /\ s.state \notin {"closed", "process_lost", "failed", "resuming"}
WaitingStart(s) ==
  /\ s.state = "pending" /\ ~s.closing /\ ~s.native /\ ~s.pid
  /\ s.receipts[Start] = "accepted"
InterruptPending(s) ==
  \E r \in Interrupts \cup Stops : s.receipts[r] \in {"accepted", "delivered"}
HasWork(s) == s.queue # <<>> /\ ~s.paused
(* Mutant: neither the turn nor the queue is looked at.                     *)
BusyStates(s) == s.state \in {"pending", "starting", "resuming", "running"}
Busy(s) ==
  \/ s.current # None \/ HasWork(s)
  \/ s.state \in {"pending", "starting", "resuming", "starting_turn", "running"}
Unavailable(s) == s.state \in {"closed", "process_lost", "failed"}
CloseRequest(s) == CHOOSE r \in Closes : s.receipts[r] # "none"
=============================================================================
