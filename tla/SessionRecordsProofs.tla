------------------------ MODULE SessionRecordsProofs ------------------------
(***************************************************************************)
(* What the records of a session preserve, for every set of requests: a     *)
(* sound session stays sound, its queue only loses prompts, and receipts    *)
(* that ended stay as they are.                                             *)
(***************************************************************************)
EXTENDS SessionRecords, TLAPS

Distinct(q) == \A i, j \in DOMAIN q : q[i] = q[j] => i = j

(* Where a stands before b, or before all of w; and a queue that keeps the  *)
(* order of another.                                                        *)
Precedes(q, a, b) == \E i, j \in DOMAIN q : i < j /\ q[i] = a /\ q[j] = b
Leads(q, a, w) == \A b \in Elements(w) : Precedes(q, a, b)
Within(w, q) == \A a, b : Precedes(w, a, b) => Precedes(q, a, b)

-----------------------------------------------------------------------------
(* Queues.                                                                  *)

(* Appending a prompt adds it to the elements, and keeps a queue without    *)
(* repetitions when the prompt is new.                                      *)
LEMMA AppendFacts ==
  ASSUME NEW q \in Seq(Prompts), NEW p \in Prompts
  PROVE  /\ Append(q, p) \in Seq(Prompts)
         /\ Elements(Append(q, p)) = Elements(q) \cup {p}
         /\ Distinct(q) /\ p \notin Elements(q) => Distinct(Append(q, p))
<1>1. /\ Append(q, p) \in Seq(Prompts) /\ Len(Append(q, p)) = Len(q) + 1
      /\ Len(q) \in Nat /\ DOMAIN q = 1..Len(q)
      /\ \A i \in 1..Len(q) : Append(q, p)[i] = q[i]
      /\ Append(q, p)[Len(q) + 1] = p
      /\ DOMAIN Append(q, p) = 1..(Len(q) + 1)
  OBVIOUS
<1>2. Elements(Append(q, p)) = Elements(q) \cup {p}
  BY <1>1 DEF Elements
<1>3. Distinct(q) /\ p \notin Elements(q) => Distinct(Append(q, p))
  BY <1>1 DEF Elements, Distinct
<1> QED  BY <1>1, <1>2, <1>3

(* The front of a queue is one of its prompts.                              *)
LEMMA HeadFacts ==
  ASSUME NEW q \in Seq(Prompts), q # <<>>
  PROVE  Head(q) \in Prompts /\ Head(q) \in Elements(q)
<1>1. Len(q) \in Nat /\ Len(q) > 0 /\ Head(q) = q[1] /\ DOMAIN q = 1..Len(q)
  OBVIOUS
<1> QED  BY <1>1 DEF Elements

(* Position finds an element.                                               *)
LEMMA PositionFacts ==
  ASSUME NEW q \in Seq(Prompts), NEW p \in Elements(q)
  PROVE  Position(q, p) \in 1..Len(q) /\ q[Position(q, p)] = p
<1>1. \E i \in DOMAIN q : q[i] = p
  BY DEF Elements
<1>2. DOMAIN q = 1..Len(q)
  OBVIOUS
<1> QED  BY <1>1, <1>2 DEF Position

(* Without removes one prompt and keeps the others, each once.              *)
LEMMA WithoutFacts ==
  ASSUME NEW q \in Seq(Prompts), Distinct(q), NEW p
  PROVE  /\ Without(q, p) \in Seq(Prompts) /\ Distinct(Without(q, p))
         /\ Elements(Without(q, p)) = Elements(q) \ {p}
<1>1. CASE p \notin Elements(q)
  BY <1>1 DEF Without
<1>2. CASE p \in Elements(q)
  <2> DEFINE k == Position(q, p)
             n == Len(q) - 1
             w == Without(q, p)
  <2>1. k \in 1..Len(q) /\ q[k] = p /\ Len(q) \in Nat /\ DOMAIN q = 1..Len(q) /\ n \in Nat
    BY <1>2, PositionFacts
  <2>2. w = [i \in 1..n |-> IF i < k THEN q[i] ELSE q[i + 1]]
    BY <1>2 DEF Without
  <2>3. \A i \in 1..n : i \in 1..Len(q) /\ i + 1 \in 1..Len(q) /\ q[i] \in Prompts /\ q[i + 1] \in Prompts
    BY <2>1
  <2>4. w \in Seq(Prompts) /\ DOMAIN w = 1..n
    BY <2>1, <2>2, <2>3
  <2>5. Distinct(w)
    BY <2>1, <2>2, <2>3, <2>4 DEF Distinct
  <2>6. ASSUME NEW x \in Elements(w) PROVE x \in Elements(q) /\ x # p
    <3>1. PICK i \in 1..n : x = w[i]
      BY <2>4 DEF Elements
    <3> DEFINE j == IF i < k THEN i ELSE i + 1
    <3>2. j \in 1..Len(q) /\ j # k
      BY <2>1, <2>3
    <3>3. x = q[j]
      BY <2>2, <3>1
    <3>4. x \in Elements(q)
      BY <2>1, <3>2, <3>3 DEF Elements
    <3>5. x # p
      BY <2>1, <3>2, <3>3 DEF Distinct
    <3> QED  BY <3>4, <3>5
  <2>7. ASSUME NEW x \in Elements(q), x # p PROVE x \in Elements(w)
    <3>1. PICK j \in 1..Len(q) : x = q[j]
      BY <2>1 DEF Elements
    <3>2. CASE j < k
      BY <2>1, <2>2, <2>4, <3>1, <3>2 DEF Elements
    <3>3. CASE j > k
      <4>1. j - 1 \in 1..n /\ ~(j - 1 < k) /\ (j - 1) + 1 = j
        BY <2>1, <3>3
      <4>2. w[j - 1] = x
        BY <2>2, <3>1, <4>1
      <4> QED  BY <2>4, <4>1, <4>2 DEF Elements
    <3> QED  BY <2>1, <2>7, <3>1, <3>2, <3>3
  <2> QED  BY <2>4, <2>5, <2>6, <2>7
<1> QED  BY <1>1, <1>2

(* The rest of a queue after its first n prompts.                           *)
LEMMA SubSeqFacts ==
  ASSUME NEW q \in Seq(Prompts), Distinct(q), NEW n \in 0..Len(q)
  PROVE  /\ SubSeq(q, n + 1, Len(q)) \in Seq(Prompts)
         /\ Distinct(SubSeq(q, n + 1, Len(q)))
         /\ Elements(SubSeq(q, n + 1, Len(q))) = Elements(q) \ {q[i] : i \in 1..n}
<1> DEFINE s == SubSeq(q, n + 1, Len(q))
           m == Len(q) - n
<1>1. Len(q) \in Nat /\ DOMAIN q = 1..Len(q) /\ m \in Nat
  OBVIOUS
<1>2. s = [i \in 1..m |-> q[i + n]]
  BY <1>1
<1>3. \A i \in 1..m : i + n \in 1..Len(q) /\ q[i + n] \in Prompts
  BY <1>1
<1>4. s \in Seq(Prompts) /\ DOMAIN s = 1..m
  BY <1>1, <1>2, <1>3
<1>5. Distinct(s)
  BY <1>1, <1>2, <1>3, <1>4 DEF Distinct
<1>6. ASSUME NEW x \in Elements(s) PROVE x \in Elements(q) /\ x \notin {q[i] : i \in 1..n}
  <2>1. PICK i \in 1..m : x = s[i]
    BY <1>4 DEF Elements
  <2>2. x = q[i + n] /\ i + n \in 1..Len(q) /\ ~(i + n \in 1..n)
    BY <1>1, <1>2, <1>3, <2>1
  <2> QED  BY <1>1, <2>2 DEF Elements, Distinct
<1>7. ASSUME NEW x \in Elements(q), x \notin {q[i] : i \in 1..n} PROVE x \in Elements(s)
  <2>1. PICK j \in 1..Len(q) : x = q[j]
    BY <1>1 DEF Elements
  <2>2. j - n \in 1..m /\ (j - n) + n = j
    BY <1>1, <1>7, <2>1
  <2>3. s[j - n] = x
    BY <1>2, <2>1, <2>2
  <2> QED  BY <1>4, <2>2, <2>3 DEF Elements
<1> QED  BY <1>4, <1>5, <1>6, <1>7

(* The order of a queue that loses its first prompts, or one of them.       *)
LEMMA SubSeqOrder ==
  ASSUME NEW q \in Seq(Prompts), NEW n \in 0..Len(q)
  PROVE  Within(SubSeq(q, n + 1, Len(q)), q)
<1> DEFINE s == SubSeq(q, n + 1, Len(q))
           m == Len(q) - n
<1>1. Len(q) \in Nat /\ DOMAIN q = 1..Len(q) /\ m \in Nat
  OBVIOUS
<1>2. s = [i \in 1..m |-> q[i + n]] /\ DOMAIN s = 1..m
  BY <1>1
<1>3. ASSUME NEW a, NEW b, Precedes(s, a, b) PROVE Precedes(q, a, b)
  <2>1. PICK i, j \in 1..m : i < j /\ q[i + n] = a /\ q[j + n] = b
    BY <1>2, <1>3 DEF Precedes
  <2>2. i + n \in 1..Len(q) /\ j + n \in 1..Len(q) /\ i + n < j + n
    BY <1>1, <2>1
  <2> QED  BY <1>1, <2>1, <2>2 DEF Precedes
<1> QED  BY <1>3 DEF Within

LEMMA WithoutOrder ==
  ASSUME NEW q \in Seq(Prompts), NEW p
  PROVE  Within(Without(q, p), q)
<1>1. CASE p \notin Elements(q)
  BY <1>1 DEF Without, Within
<1>2. CASE p \in Elements(q)
  <2> DEFINE k == Position(q, p)
             n == Len(q) - 1
             w == Without(q, p)
             at(i) == IF i < k THEN i ELSE i + 1
  <2>1. k \in 1..Len(q) /\ Len(q) \in Nat /\ DOMAIN q = 1..Len(q) /\ n \in Nat
    BY <1>2, PositionFacts
  <2>2. w = [i \in 1..n |-> IF i < k THEN q[i] ELSE q[i + 1]]
    BY <1>2 DEF Without
  <2>3. DOMAIN w = 1..n /\ \A i \in 1..n : w[i] = q[at(i)] /\ at(i) \in 1..Len(q)
    BY <2>1, <2>2
  <2>4. ASSUME NEW a, NEW b, Precedes(w, a, b) PROVE Precedes(q, a, b)
    <3>1. PICK i, j \in 1..n : i < j /\ w[i] = a /\ w[j] = b
      BY <2>3, <2>4 DEF Precedes
    <3>2. at(i) < at(j)
      BY <2>1, <3>1
    <3>3. q[at(i)] = a /\ q[at(j)] = b /\ at(i) \in 1..Len(q) /\ at(j) \in 1..Len(q)
      BY <2>3, <3>1
    <3> HIDE DEF at
    <3> QED  BY <2>1, <3>2, <3>3 DEF Precedes
  <2> QED  BY <2>4 DEF Within
<1> QED  BY <1>1, <1>2

(* A prompt that is added comes last.                                       *)
LEMMA AppendOrder ==
  ASSUME NEW q \in Seq(Prompts), NEW p \in Prompts
  PROVE  \A a, b : Precedes(Append(q, p), a, b) <=> Precedes(q, a, b) \/ (a \in Elements(q) /\ b = p)
<1> DEFINE w == Append(q, p)
<1>1. /\ Len(q) \in Nat /\ DOMAIN q = 1..Len(q) /\ DOMAIN w = 1..(Len(q) + 1)
      /\ \A i \in 1..Len(q) : w[i] = q[i]
      /\ w[Len(q) + 1] = p
  OBVIOUS
<1> HIDE DEF w
<1>2. ASSUME NEW a, NEW b, Precedes(w, a, b)
      PROVE  Precedes(q, a, b) \/ (a \in Elements(q) /\ b = p)
  <2>1. PICK i, j \in 1..(Len(q) + 1) : i < j /\ w[i] = a /\ w[j] = b
    BY <1>1, <1>2 DEF Precedes
  <2>2. i \in 1..Len(q) /\ q[i] = a
    BY <1>1, <2>1
  <2>3. CASE j = Len(q) + 1
    BY <1>1, <2>1, <2>2, <2>3 DEF Elements
  <2>4. CASE j # Len(q) + 1
    <3>1. j \in 1..Len(q) /\ q[j] = b
      BY <1>1, <2>1, <2>4
    <3> QED  BY <1>1, <2>1, <2>2, <3>1 DEF Precedes
  <2> QED  BY <2>3, <2>4
<1>3. ASSUME NEW a, NEW b, Precedes(q, a, b) PROVE Precedes(w, a, b)
  <2>1. PICK i, j \in 1..Len(q) : i < j /\ q[i] = a /\ q[j] = b
    BY <1>1, <1>3 DEF Precedes
  <2>2. i \in 1..(Len(q) + 1) /\ j \in 1..(Len(q) + 1) /\ w[i] = a /\ w[j] = b
    BY <1>1, <2>1
  <2> QED  BY <1>1, <2>1, <2>2 DEF Precedes
<1>4. ASSUME NEW a \in Elements(q) PROVE Precedes(w, a, p)
  <2>1. PICK i \in 1..Len(q) : q[i] = a
    BY <1>1 DEF Elements
  <2>2. i \in 1..(Len(q) + 1) /\ w[i] = a /\ Len(q) + 1 \in 1..(Len(q) + 1) /\ i < Len(q) + 1
    BY <1>1, <2>1
  <2> QED  BY <1>1, <2>2 DEF Precedes
<1> QED  BY <1>2, <1>3, <1>4 DEF w

(* What may come last may be appended.                                      *)
LEMMA WithinAppend ==
  ASSUME NEW q \in Seq(Prompts), NEW p \in Prompts, NEW w, Within(q, w),
         \A x \in Elements(q) : Precedes(w, x, p)
  PROVE  Within(Append(q, p), w)
<1>1. ASSUME NEW a, NEW b, Precedes(Append(q, p), a, b) PROVE Precedes(w, a, b)
  <2>1. Precedes(q, a, b) \/ (a \in Elements(q) /\ b = p)
    BY <1>1, AppendOrder
  <2> QED  BY <2>1 DEF Within
<1> QED  BY <1>1 DEF Within

(* The front of a queue comes before all other prompts.                     *)
LEMMA HeadOrder ==
  ASSUME NEW q \in Seq(Prompts), NEW b \in Elements(q), b # Head(q)
  PROVE  Precedes(q, Head(q), b)
<1>1. Len(q) \in Nat /\ DOMAIN q = 1..Len(q)
  OBVIOUS
<1>2. PICK j \in 1..Len(q) : q[j] = b
  BY <1>1 DEF Elements
<1>3. q # <<>> /\ Head(q) = q[1]
  BY <1>1, <1>2
<1>4. 1 \in 1..Len(q) /\ 1 < j
  BY <1>1, <1>2, <1>3
<1> QED  BY <1>1, <1>2, <1>3, <1>4 DEF Precedes

(* Elements that stand in a queue; of two prompts of a queue without        *)
(* repetitions, the positions tell which stands first.                      *)
LEMMA PrecedesFacts ==
  ASSUME NEW q \in Seq(Prompts), NEW a, NEW b, Precedes(q, a, b)
  PROVE  /\ a \in Elements(q) /\ b \in Elements(q)
         /\ Distinct(q) => Position(q, a) < Position(q, b)
<1>1. PICK i, j \in DOMAIN q : i < j /\ q[i] = a /\ q[j] = b
  BY DEF Precedes
<1>2. a \in Elements(q) /\ b \in Elements(q)
  BY <1>1 DEF Elements
<1>3. DOMAIN q = 1..Len(q)
  OBVIOUS
<1>4. Distinct(q) => Position(q, a) = i /\ Position(q, b) = j
  BY <1>1, <1>2, <1>3, PositionFacts DEF Distinct
<1> QED  BY <1>1, <1>2, <1>4

-----------------------------------------------------------------------------
(* A sound session: queued prompts are accepted, not current and not        *)
(* cancelled, what is current or cancelled was accepted once, an idle       *)
(* session has no turn, and a session that closes or compacts was asked to. *)
(* A record keeps a session when it stays sound, its queue only loses       *)
(* prompts, no prompt is forgotten or appears, and no receipt that ended    *)
(* changes.  It follows when it claims no prompt besides.                   *)

Known(s) == {p \in Prompts : s.receipts[p] # "none"}

Sound(s) ==
  /\ s \in Sessions /\ Distinct(s.queue)
  /\ \A p \in Elements(s.queue) :
       s.receipts[p] = "accepted" /\ p # s.current /\ p \notin s.cancelled
  /\ s.cancelled \subseteq Known(s) /\ s.current \in Known(s) \cup {None}
  /\ s.state = "idle" => s.current = None
  /\ s.closing => \E r \in Closes : s.receipts[r] # "none"
  /\ s.compact => \E r \in Compacts : s.receipts[r] \in {"accepted", "delivered"}

Kept(s, t) ==
  \A r \in Requests : /\ s.receipts[r] \in Terminal => t.receipts[r] = s.receipts[r]
                      /\ s.receipts[r] # "none" => t.receipts[r] # "none"
Keeps(s, t) ==
  /\ Sound(t)
  /\ Elements(t.queue) \subseteq Elements(s.queue) /\ Within(t.queue, s.queue)
  /\ Known(t) = Known(s)
  /\ t.cancelled = s.cancelled /\ Kept(s, t)
  /\ t.state = "absent" => s.state = "absent"
Follows(s, t) == Keeps(s, t) /\ t.current \in {s.current, None}

(* Queues hold prompts.                                                     *)
LEMMA QueueElements ==
  ASSUME NEW q \in Seq(Prompts)
  PROVE  Elements(q) \subseteq Prompts
BY DEF Elements

(* The types of the fields of a sound session; what it queues is known.     *)
LEMMA SoundFields ==
  ASSUME NEW s, Sound(s)
  PROVE  /\ s.queue \in Seq(Prompts) /\ Elements(s.queue) \subseteq Known(s)
         /\ Known(s) \subseteq Prompts /\ s.cancelled \subseteq Prompts
         /\ s.current \in Prompts \cup {None} /\ s.state \in States
         /\ s.receipts \in [Requests -> ReceiptStates]
<1>1. s.queue \in Seq(Prompts) /\ s.cancelled \subseteq Prompts /\ s.state \in States
      /\ s.receipts \in [Requests -> ReceiptStates] /\ s.current \in Prompts \cup {None}
  BY DEF Sound, Sessions
<1> QED  BY <1>1, QueueElements DEF Sound, Known

(* A handler may record nothing.                                            *)
LEMMA FollowsSelf ==
  ASSUME NEW s, Sound(s)
  PROVE  Follows(s, s)
BY DEF Follows, Keeps, Kept, Within

(* Records compose.                                                         *)
LEMMA FollowsAll ==
  ASSUME NEW s, NEW t, NEW u, Follows(s, t), Follows(t, u)
  PROVE  Follows(s, u)
<1>1. Kept(s, u) /\ Within(u.queue, s.queue)
  BY DEF Follows, Keeps, Kept, Within
<1> QED  BY <1>1 DEF Follows, Keeps

(* None is not a prompt, so that it is in no queue.                         *)
LEMMA NoneQueued ==
  ASSUME NEW s, Sound(s)
  PROVE  None \notin Elements(s.queue)
BY SoundFields, RequestsAssumption DEF RequestsAssumption, Requests

(* A state record: for a prompt that leaves the queue, or is not in it.     *)
LEMMA StateKeeps ==
  ASSUME NEW s, Sound(s), NEW st \in States \ {"absent"}, NEW p \in Known(s) \cup {None},
         st # "starting_turn" => p \notin Elements(s.queue), st = "idle" => p = None
  PROVE  /\ Keeps(s, State(s, st, p))
         /\ State(s, st, p).state = st /\ State(s, st, p).current = p
         /\ Elements(State(s, st, p).queue) =
              IF st = "starting_turn" THEN Elements(s.queue) \ {p} ELSE Elements(s.queue)
<1> DEFINE t == State(s, st, p)
           q == IF st = "starting_turn" THEN Without(s.queue, p) ELSE s.queue
<1>1. /\ s \in Sessions /\ s.queue \in Seq(Prompts) /\ Distinct(s.queue)
      /\ p \in Prompts \cup {None}
  BY SoundFields DEF Sound
<1>2. /\ q \in Seq(Prompts) /\ Distinct(q)
      /\ Elements(q) = IF st = "starting_turn" THEN Elements(s.queue) \ {p} ELSE Elements(s.queue)
      /\ Within(q, s.queue)
  <2>1. Within(s.queue, s.queue)
    BY DEF Within
  <2> QED  BY <1>1, <2>1, WithoutFacts, WithoutOrder
<1>3. /\ t.queue = q /\ t.state = st /\ t.current = p
      /\ t.receipts = s.receipts /\ t.cancelled = s.cancelled
      /\ t.closing = s.closing /\ t.compact = s.compact
  BY <1>1 DEF State, Claims, Sessions
<1>4. t \in Sessions
  <2> DEFINE recovery == s.recovery \/ st = "resuming"
             startup == IF st = "idle" THEN "none" ELSE s.startup
             dispatched == s.dispatched \/ st = "starting_turn"
  <2>1. recovery \in BOOLEAN /\ dispatched \in BOOLEAN
    OBVIOUS
  <2>2. startup \in {"none", "startup_timeout", "resume_failed"}
    BY <1>1 DEF Sessions
  <2>3. t = [s EXCEPT !.state = st, !.current = p, !.recovery = recovery,
                      !.startup = startup, !.dispatched = dispatched, !.queue = q]
    BY DEF State, Claims
  <2> HIDE DEF t, q, recovery, startup, dispatched
  <2> QED  BY <1>1, <1>2, <2>1, <2>2, <2>3 DEF Sessions
<1>5. Sound(t)
  BY <1>2, <1>3, <1>4 DEF Sound, Known
<1> QED  BY <1>2, <1>3, <1>5 DEF Keeps, Kept, Known

(* The two uses: a prompt is claimed for a turn, or nothing leaves the queue. *)
LEMMA ClaimKeeps ==
  ASSUME NEW s, Sound(s), NEW p \in Known(s)
  PROVE  /\ Keeps(s, State(s, "starting_turn", p))
         /\ State(s, "starting_turn", p).state = "starting_turn"
         /\ State(s, "starting_turn", p).current = p
         /\ Elements(State(s, "starting_turn", p).queue) = Elements(s.queue) \ {p}
<1> DEFINE st == "starting_turn"
<1>1. /\ st \in States \ {"absent"} /\ (st # "starting_turn" => p \notin Elements(s.queue))
      /\ st = "idle" => p = None
  BY DEF States
<1>2. p \in Known(s) \cup {None}
  OBVIOUS
<1>3. st = "starting_turn"
  OBVIOUS
<1> HIDE DEF st
<1>4. /\ Keeps(s, State(s, st, p))
      /\ State(s, st, p).state = st /\ State(s, st, p).current = p
      /\ Elements(State(s, st, p).queue) =
           IF st = "starting_turn" THEN Elements(s.queue) \ {p} ELSE Elements(s.queue)
  BY <1>1, <1>2, StateKeeps
<1> QED  BY <1>3, <1>4

(* A record of any other state, for no prompt or the current one.           *)
LEMMA MoveFollows ==
  ASSUME NEW s, Sound(s), NEW st \in States \ {"absent", "starting_turn"}
  PROVE  /\ Follows(s, State(s, st, None))
         /\ st # "idle" => Follows(s, State(s, st, s.current))
         /\ State(s, st, None).state = st /\ State(s, st, s.current).state = st
         /\ State(s, st, None).current = None /\ State(s, st, s.current).current = s.current
         /\ Elements(State(s, st, None).queue) = Elements(s.queue)
<1>1. None \notin Elements(s.queue) /\ s.current \notin Elements(s.queue)
  BY NoneQueued DEF Sound
<1>2. s.current \in Known(s) \cup {None}
  BY DEF Sound
<1>3. /\ Keeps(s, State(s, st, None)) /\ State(s, st, None).state = st
      /\ State(s, st, None).current = None
      /\ Elements(State(s, st, None).queue) = Elements(s.queue)
  BY <1>1, StateKeeps
<1>4. CASE st # "idle"
  BY <1>1, <1>2, <1>3, <1>4, StateKeeps DEF Follows
<1>5. CASE st = "idle"
  <2>1. State(s, st, s.current).state = st /\ State(s, st, s.current).current = s.current
    BY DEF Sound, Sessions, State
  <2> QED  BY <1>3, <1>5, <2>1 DEF Follows
<1> QED  BY <1>4, <1>5

EndStates == {"completed", "interrupted", "failed", "unknown", "unknown_after_restart"}

(* Finish_receipt: a receipt ends, or a prompt that is not queued is        *)
(* delivered.                                                               *)
LEMMA FinishFollows ==
  ASSUME NEW s, Sound(s), NEW r, NEW st \in EndStates \cup {"delivered"},
         st = "delivered" => r \notin Elements(s.queue), r \in Prompts => r \in Known(s)
  PROVE  /\ Follows(s, Finish(s, r, st))
         /\ Finish(s, r, st).current = s.current /\ Finish(s, r, st).state = s.state
         /\ r \notin Elements(s.queue) => Elements(Finish(s, r, st).queue) = Elements(s.queue)
<1> DEFINE t == Finish(s, r, st)
           q == IF r \in Prompts /\ st # "delivered" THEN Without(s.queue, r) ELSE s.queue
<1>1. /\ s \in Sessions /\ s.queue \in Seq(Prompts) /\ Distinct(s.queue)
      /\ Elements(s.queue) \subseteq Prompts
  BY SoundFields DEF Sound
<1>2. /\ q \in Seq(Prompts) /\ Distinct(q)
      /\ Elements(q) = Elements(s.queue) \ {r} \/ (q = s.queue /\ r \notin Elements(s.queue))
      /\ Within(q, s.queue)
  <2>1. Within(s.queue, s.queue)
    BY DEF Within
  <2> QED  BY <1>1, <2>1, WithoutFacts, WithoutOrder
<1>3. CASE Ended(s, r) \/ s.receipts[r] = st
  BY <1>3, FollowsSelf DEF Finish
<1>4. CASE ~(Ended(s, r) \/ s.receipts[r] = st)
  <2>1. t = [s EXCEPT !.receipts[r] = st, !.queue = q, !.recovery = t.recovery,
                      !.compact = t.compact]
    BY <1>1, <1>4 DEF Finish, Sessions
  <2>2. t.recovery \in BOOLEAN /\ t.compact \in BOOLEAN
    BY <1>1, <1>4 DEF Finish, Sessions
  <2>3. st \in ReceiptStates /\ st # "none"
    BY DEF EndStates, ReceiptStates, Terminal
  <2>4. t \in Sessions
    <3> DEFINE recovery == t.recovery
               compact  == t.compact
    <3>1. t = [s EXCEPT !.receipts[r] = st, !.queue = q, !.recovery = recovery,
                        !.compact = compact]
      BY <2>1
    <3>2. recovery \in BOOLEAN /\ compact \in BOOLEAN
      BY <2>2
    <3> HIDE DEF t, q, recovery, compact
    <3> QED  BY <1>1, <1>2, <2>3, <3>1, <3>2 DEF Sessions
  <2>5. /\ t.queue = q /\ t.current = s.current /\ t.state = s.state
        /\ t.cancelled = s.cancelled
        /\ t.receipts = [s.receipts EXCEPT ![r] = st]
    BY <1>1, <2>1 DEF Sessions
  <2>6. \A x \in Requests : t.receipts[x] = IF x = r THEN st ELSE s.receipts[x]
    BY <1>1, <2>5 DEF Sessions
  <2>7. Prompts \subseteq Requests
    BY DEF Requests
  <2>8. Known(s) = Known(t)
    BY <2>3, <2>6, <2>7 DEF Known
  <2>9. /\ t.closing => \E k \in Closes : t.receipts[k] # "none"
        /\ t.compact => \E k \in Compacts : t.receipts[k] \in {"accepted", "delivered"}
    <3>1. /\ t.closing = s.closing
          /\ t.compact = IF r \in Compacts THEN st = "delivered" ELSE s.compact
      BY <1>1, <1>4 DEF Finish, Sessions
    <3>2. Closes \subseteq Requests /\ Compacts \subseteq Requests
      BY DEF Requests
    <3>3. t.closing => \E k \in Closes : t.receipts[k] # "none"
      BY <2>3, <2>6, <3>1, <3>2 DEF Sound
    <3>4. CASE r \in Compacts
      <4>1. t.receipts[r] = st
        BY <2>6, <3>2, <3>4
      <4> QED  BY <3>1, <3>3, <3>4, <4>1
    <3>5. CASE r \notin Compacts
      <4>1. \A k \in Compacts : t.receipts[k] = s.receipts[k]
        BY <2>6, <3>2, <3>5
      <4>2. t.compact = s.compact
        BY <3>1, <3>5
      <4> QED  BY <3>3, <4>1, <4>2 DEF Sound
    <3> QED  BY <3>4, <3>5
  <2>10. Sound(t)
    BY <1>1, <1>2, <2>4, <2>5, <2>6, <2>7, <2>8, <2>9 DEF Sound
  <2>11. Kept(s, t)
    BY <1>4, <2>3, <2>6 DEF Kept, Ended
  <2> QED  BY <1>2, <2>5, <2>8, <2>10, <2>11 DEF Follows, Keeps
<1> QED  BY <1>3, <1>4

(* Finish_receipt over control requests.                                    *)
LEMMA FinishAllFollows ==
  ASSUME NEW s, Sound(s), NEW rs, rs \cap (Prompts \cup Compacts) = {}, NEW st \in EndStates
  PROVE  /\ Follows(s, FinishAll(s, rs, st))
         /\ FinishAll(s, rs, st).current = s.current /\ FinishAll(s, rs, st).state = s.state
         /\ FinishAll(s, rs, st).queue = s.queue
<1> DEFINE t == FinishAll(s, rs, st)
<1>1. s \in Sessions /\ Elements(s.queue) \subseteq Prompts /\ Prompts \subseteq Requests
  BY SoundFields DEF Sound, Requests
<1>2. st \in ReceiptStates /\ st # "none"
  BY DEF EndStates, ReceiptStates, Terminal
<1>3. t \in Sessions
  BY <1>1, <1>2 DEF FinishAll, Sessions
<1>4. /\ t.queue = s.queue /\ t.current = s.current /\ t.state = s.state
      /\ t.cancelled = s.cancelled /\ t.closing = s.closing /\ t.compact = s.compact
      /\ \A x \in Requests : t.receipts[x] =
           IF x \in rs /\ s.receipts[x] \notin Terminal THEN st ELSE s.receipts[x]
  BY <1>1 DEF FinishAll, Sessions
<1>5. Known(s) = Known(t) /\ Kept(s, t)
  BY <1>1, <1>2, <1>4 DEF Known, Kept
<1>6. Sound(t)
  <2>1. Closes \subseteq Requests /\ Compacts \subseteq Requests
    BY DEF Requests
  <2> QED  BY <1>1, <1>2, <1>3, <1>4, <1>5, <2>1 DEF Sound
<1>7. Within(t.queue, s.queue)
  BY <1>4 DEF Within
<1> QED  BY <1>4, <1>5, <1>6, <1>7 DEF Follows, Keeps

(* The first prompts of the queue fail.                                     *)
LEMMA FailFirstFollows ==
  ASSUME NEW s, Sound(s), NEW n \in 0..Len(s.queue)
  PROVE  /\ Follows(s, FailFirst(s, n))
         /\ FailFirst(s, n).current = s.current /\ FailFirst(s, n).state = s.state
<1> DEFINE t  == FailFirst(s, n)
           q  == SubSeq(s.queue, n + 1, Len(s.queue))
           rs == {s.queue[i] : i \in 1..n}
<1>1. /\ s \in Sessions /\ Elements(s.queue) \subseteq Prompts /\ Prompts \subseteq Requests
      /\ s.queue \in Seq(Prompts) /\ Distinct(s.queue)
  BY SoundFields DEF Sound, Requests
<1>2. /\ q \in Seq(Prompts) /\ Distinct(q) /\ Elements(q) = Elements(s.queue) \ rs
      /\ Within(q, s.queue)
  BY <1>1, SubSeqFacts, SubSeqOrder
<1>3. rs \subseteq Elements(s.queue)
  <2>1. Len(s.queue) \in Nat /\ DOMAIN s.queue = 1..Len(s.queue)
    BY <1>1
  <2> QED  BY <2>1 DEF Elements
<1>4. t \in Sessions
  BY <1>1, <1>2 DEF FailFirst, Sessions, ReceiptStates, Terminal
<1>5. /\ t.queue = q /\ t.current = s.current /\ t.state = s.state
      /\ t.cancelled = s.cancelled /\ t.closing = s.closing /\ t.compact = s.compact
      /\ \A x \in Requests : t.receipts[x] = IF x \in rs THEN "failed" ELSE s.receipts[x]
  BY <1>1 DEF FailFirst, Sessions
<1>6. Known(t) = Known(s) /\ Kept(s, t)
  BY <1>1, <1>3, <1>5 DEF Known, Kept, Sound, Terminal
<1>7. Sound(t)
  <2>1. /\ Closes \subseteq Requests /\ Compacts \subseteq Requests
        /\ Compacts \cap Prompts = {}
    BY RequestsAssumption DEF Requests, RequestsAssumption
  <2> QED  BY <1>1, <1>2, <1>3, <1>4, <1>5, <1>6, <2>1 DEF Sound
<1> QED  BY <1>2, <1>5, <1>6, <1>7 DEF Follows, Keeps

(* Fail_pending, whole or cut short by a crash.                             *)
LEMMA FailPendingFollows ==
  ASSUME NEW s, Sound(s)
  PROVE  /\ Follows(s, FailPending(s)) /\ \A t \in PartlyFailed(s) : Follows(s, t)
         /\ FailPending(s).current = s.current /\ FailPending(s).state = s.state
<1>1. Len(s.queue) \in 0..Len(s.queue)
  BY SoundFields
<1> QED  BY <1>1, FailFirstFollows DEF FailPending, PartlyFailed

(* Records that change a flag only.                                         *)
LEMMA FlagsFollow ==
  ASSUME NEW s, Sound(s), NEW b \in BOOLEAN, NEW c \in {"none", "startup_timeout", "resume_failed"}
  PROVE  /\ Follows(s, Pid(s, b)) /\ Follows(s, Native(s)) /\ Follows(s, StoragePaused(s, b))
         /\ Follows(s, Lost(s, c))
         /\ Pid(s, b).current = s.current /\ Native(s).current = s.current
         /\ StoragePaused(s, b).current = s.current
         /\ Pid(s, b).queue = s.queue /\ Native(s).queue = s.queue
         /\ StoragePaused(s, b).queue = s.queue
<1> DEFINE Same(t) == /\ t \in Sessions /\ t.queue = s.queue /\ t.receipts = s.receipts
                      /\ t.cancelled = s.cancelled /\ t.current = s.current
                      /\ t.state = s.state /\ t.closing = s.closing /\ t.compact = s.compact
<1>1. s \in Sessions
  BY DEF Sound
<1>2. Same(Pid(s, b)) /\ Same(Native(s)) /\ Same(StoragePaused(s, b))
  BY <1>1 DEF Pid, Native, StoragePaused, Sessions
<1>3. ASSUME NEW t, Same(t) PROVE Follows(s, t)
  BY <1>3 DEF Follows, Keeps, Sound, Known, Kept, Within
<1>4. Follows(s, Lost(s, c))
  <2> DEFINE u == State(s, "process_lost", None)
  <2>1. Follows(s, u) /\ u.state = "process_lost"
    BY MoveFollows DEF States
  <2>2. Lost(s, c) = [u EXCEPT !.startup = c] /\ u \in Sessions
    BY <2>1 DEF Lost, Follows, Keeps, Sound
  <2>3. Lost(s, c) \in Sessions
    BY <2>2 DEF Sessions
  <2>4. /\ Lost(s, c).queue = u.queue /\ Lost(s, c).receipts = u.receipts
        /\ Lost(s, c).cancelled = u.cancelled /\ Lost(s, c).current = u.current
        /\ Lost(s, c).state = u.state /\ Lost(s, c).closing = u.closing
        /\ Lost(s, c).compact = u.compact
    BY <2>2 DEF Sessions
  <2> QED  BY <2>1, <2>3, <2>4 DEF Follows, Keeps, Sound, Known, Kept
<1> QED  BY <1>2, <1>3, <1>4

-----------------------------------------------------------------------------
(* One handler: what may have been committed of it.  A prompt enters the    *)
(* queue only when it was not known before, and is cancelled only out of    *)
(* the queue.                                                               *)

Extends(s, t) ==
  /\ Sound(t) /\ Known(s) \subseteq Known(t) /\ Kept(s, t)
  /\ \A p \in Elements(t.queue) : p \in Elements(s.queue) \/ p \notin Known(s)
  /\ \A a, b : Precedes(t.queue, a, b) =>
       Precedes(s.queue, a, b) \/ (a \in Elements(s.queue) /\ b \notin Known(s))
  /\ \A p \in t.cancelled : p \in s.cancelled \cup Elements(s.queue)
  /\ t.state = "absent" => s.state = "absent"

(* The handler claimed nothing so far, it claimed one prompt of the queue   *)
(* and dropped none, or it accepted one prompt.                             *)
Settles(s, t) == Known(t) = Known(s) /\ t.current \in {s.current, None}
Turns(s, t)   == Known(t) = Known(s) /\ Elements(t.queue) = Elements(s.queue) \ {t.current}
Admits(s, t)  ==
  /\ Elements(s.queue) \subseteq Elements(t.queue)
  /\ \E p \in Prompts \ Known(s) : Known(t) = Known(s) \cup {p}

Succeeds(s, t) == Extends(s, t) /\ Settles(s, t)
Commits(s, t)  == Extends(s, t) /\ (Settles(s, t) \/ Turns(s, t) \/ Admits(s, t))

(* A handler may commit nothing, and goes on from what it committed.        *)
LEMMA SucceedsFollows ==
  ASSUME NEW s, NEW t, Follows(s, t)
  PROVE  Succeeds(s, t) /\ Sound(t)
BY DEF Follows, Keeps, Succeeds, Extends, Settles, Within

(* A handler that goes on records more.                                     *)
LEMMA ExtendsThenKeeps ==
  ASSUME NEW s, NEW t, NEW u, Extends(s, t), Keeps(t, u)
  PROVE  Extends(s, u)
<1>1. Kept(s, u)
  BY DEF Extends, Keeps, Kept
<1>2. \A a, b : Precedes(u.queue, a, b) =>
        Precedes(s.queue, a, b) \/ (a \in Elements(s.queue) /\ b \notin Known(s))
  BY DEF Extends, Keeps, Within
<1> QED  BY <1>1, <1>2 DEF Extends, Keeps

(* ... and still claims nothing.                                            *)
LEMMA SucceedsThenFollows ==
  ASSUME NEW s, NEW t, NEW u, Succeeds(s, t), Follows(t, u)
  PROVE  Succeeds(s, u) /\ Sound(u)
<1>1. Extends(s, u) /\ Sound(u)
  BY ExtendsThenKeeps DEF Succeeds, Follows, Keeps
<1>2. Settles(s, u)
  BY DEF Succeeds, Settles, Follows, Keeps
<1> QED  BY <1>1, <1>2 DEF Succeeds

(* The first receipt of a request adds a prompt at the end of the queue, or *)
(* leaves the queue alone.                                                  *)
LEMMA AcceptFacts ==
  ASSUME NEW s, Sound(s), NEW r \in Requests, s.receipts[r] = "none"
  PROVE  /\ Extends(s, Accept(s, r))
         /\ r \notin Prompts => Succeeds(s, Accept(s, r))
         /\ Elements(Accept(s, r).queue) =
              IF r \in Prompts THEN Elements(s.queue) \cup {r} ELSE Elements(s.queue)
         /\ Accept(s, r).current = s.current /\ Accept(s, r).cancelled = s.cancelled
         /\ Accept(s, r).state = IF r = Start THEN "pending" ELSE s.state
         /\ Accept(s, r).receipts = [s.receipts EXCEPT ![r] = "accepted"]
         /\ r \in Prompts => /\ r \notin Known(s) /\ Known(Accept(s, r)) = Known(s) \cup {r}
                             /\ r \notin s.cancelled /\ r # s.current
<1> DEFINE t == Accept(s, r)
           q == IF r \in Prompts THEN Append(s.queue, r) ELSE s.queue
<1>1. /\ s \in Sessions /\ s.queue \in Seq(Prompts) /\ Distinct(s.queue)
      /\ Elements(s.queue) \subseteq Known(s) /\ Prompts \subseteq Requests
  BY SoundFields DEF Sound, Requests
<1>2. r \notin Elements(s.queue) /\ r \notin Known(s) /\ r \notin s.cancelled
      /\ (r \in Prompts => r # s.current)
  <2>1. r \notin Known(s)
    BY DEF Known
  <2> QED  BY <1>1, <2>1, RequestsAssumption DEF Sound, RequestsAssumption, Requests
<1>3. /\ q \in Seq(Prompts) /\ Distinct(q)
      /\ Elements(q) = IF r \in Prompts THEN Elements(s.queue) \cup {r} ELSE Elements(s.queue)
      /\ \A a, b : Precedes(q, a, b) =>
           Precedes(s.queue, a, b) \/ (a \in Elements(s.queue) /\ b \notin Known(s))
  BY <1>1, <1>2, AppendFacts, AppendOrder
<1>4. t \in Sessions
  <2> DEFINE st == IF r = Start THEN "pending" ELSE s.state
             recovery == IF r \in Prompts THEN FALSE ELSE s.recovery
             paused == IF r \in Stops THEN TRUE ELSE IF r \in Resumes THEN FALSE ELSE s.paused
             compact == s.compact \/ r \in Compacts
             closing == s.closing \/ r \in Closes
             receipts == [s.receipts EXCEPT ![r] = "accepted"]
  <2>1. /\ st \in States /\ recovery \in BOOLEAN /\ paused \in BOOLEAN
        /\ compact \in BOOLEAN /\ closing \in BOOLEAN
    BY <1>1 DEF Sessions, States
  <2>2. t = [s EXCEPT !.receipts = receipts, !.state = st, !.queue = q,
                      !.recovery = recovery, !.paused = paused, !.compact = compact,
                      !.closing = closing]
    BY DEF Accept
  <2>3. receipts \in [Requests -> ReceiptStates]
    BY <1>1 DEF Sessions, ReceiptStates
  <2> HIDE DEF t, q, st, recovery, paused, compact, closing, receipts
  <2>4. t = [state |-> st, current |-> s.current, queue |-> q, receipts |-> receipts,
             paused |-> paused, storage |-> s.storage, compact |-> compact,
             closing |-> closing, cancelled |-> s.cancelled, recovery |-> recovery,
             native |-> s.native, dispatched |-> s.dispatched, startup |-> s.startup,
             pid |-> s.pid]
    BY <1>1, <2>2 DEF Sessions
  <2> QED  BY <1>1, <1>3, <2>1, <2>3, <2>4 DEF Sessions
<1>5. /\ t.queue = q /\ t.current = s.current /\ t.cancelled = s.cancelled
      /\ t.state = IF r = Start THEN "pending" ELSE s.state
      /\ t.receipts = [s.receipts EXCEPT ![r] = "accepted"]
  BY <1>1 DEF Accept, Sessions
<1>6. \A x \in Requests : t.receipts[x] = IF x = r THEN "accepted" ELSE s.receipts[x]
  BY <1>1, <1>5 DEF Sessions
<1>7. /\ Known(s) \subseteq Known(t) /\ (r \in Prompts => Known(t) = Known(s) \cup {r})
      /\ (r \notin Prompts => Known(t) = Known(s))
  BY <1>1, <1>6 DEF Known
<1>8. Sound(t)
  <2>1. \A p \in Elements(q) : t.receipts[p] = "accepted" /\ p # s.current /\ p \notin s.cancelled
    BY <1>1, <1>2, <1>3, <1>6 DEF Sound, Known
  <2>2. /\ t.closing => \E k \in Closes : t.receipts[k] # "none"
        /\ t.compact => \E k \in Compacts : t.receipts[k] \in {"accepted", "delivered"}
    <3>1. t.closing = (s.closing \/ r \in Closes) /\ t.compact = (s.compact \/ r \in Compacts)
      BY <1>1 DEF Accept, Sessions
    <3>2. Closes \subseteq Requests /\ Compacts \subseteq Requests
      BY DEF Requests
    <3> QED  BY <1>6, <3>1, <3>2 DEF Sound
  <2> HIDE DEF t, q
  <2> QED  BY <1>3, <1>4, <1>5, <1>7, <2>1, <2>2 DEF Sound
<1>9. Kept(s, t)
  BY <1>6 DEF Kept, Terminal
<1>10. /\ \A p \in Elements(t.queue) : p \in Elements(s.queue) \/ p \notin Known(s)
       /\ \A p \in t.cancelled : p \in s.cancelled
       /\ t.state = "absent" => s.state = "absent"
       /\ \A a, b : Precedes(t.queue, a, b) =>
            Precedes(s.queue, a, b) \/ (a \in Elements(s.queue) /\ b \notin Known(s))
  <2> HIDE DEF t, q
  <2> QED  BY <1>2, <1>3, <1>5
<1> HIDE DEF t, q
<1>11. Extends(s, t)
  BY <1>7, <1>8, <1>9, <1>10 DEF Extends
<1>12. r \notin Prompts => Succeeds(s, t)
  BY <1>5, <1>7, <1>11 DEF Succeeds, Settles
<1> QED  BY <1>2, <1>3, <1>5, <1>7, <1>11, <1>12 DEF t

(* A cancel receipt takes its target out of the queue.                      *)
LEMMA AcceptCancelFacts ==
  ASSUME NEW s, Sound(s), NEW r \in Requests \ Prompts, s.receipts[r] = "none",
         NEW p \in s.cancelled \cup Elements(s.queue)
  PROVE  Succeeds(s, AcceptCancel(s, r, p))
<1> DEFINE a == Accept(s, r)
           t == AcceptCancel(s, r, p)
           q == Without(a.queue, p)
<1>1. /\ Succeeds(s, a) /\ Elements(a.queue) = Elements(s.queue)
      /\ a.cancelled = s.cancelled
  BY AcceptFacts
<1>2. a \in Sessions /\ a.queue \in Seq(Prompts) /\ Distinct(a.queue) /\ Sound(a)
  BY <1>1, SoundFields DEF Succeeds, Extends, Sound
<1>3. /\ q \in Seq(Prompts) /\ Distinct(q) /\ Elements(q) = Elements(a.queue) \ {p}
      /\ Within(q, a.queue)
  BY <1>2, WithoutFacts, WithoutOrder
<1>4. p \in Known(s) /\ p \in Prompts
  BY SoundFields DEF Sound
<1>5. t = [a EXCEPT !.queue = q, !.cancelled = @ \cup {p}]
  BY DEF AcceptCancel
<1> HIDE DEF a, t, q
<1>6. /\ t.queue = q /\ t.cancelled = a.cancelled \cup {p} /\ t.current = a.current
      /\ t.state = a.state /\ t.receipts = a.receipts
      /\ t.closing = a.closing /\ t.compact = a.compact
  BY <1>2, <1>5 DEF Sessions
<1>7. t \in Sessions
  BY <1>2, <1>3, <1>4, <1>5 DEF Sessions
<1>8. Sound(t) /\ Known(t) = Known(a)
  BY <1>1, <1>2, <1>3, <1>4, <1>6, <1>7 DEF Sound, Known, Succeeds, Extends
<1>9. Kept(s, t)
  BY <1>1, <1>6 DEF Succeeds, Extends, Kept
<1>10. \A x, y : Precedes(t.queue, x, y) =>
         Precedes(s.queue, x, y) \/ (x \in Elements(s.queue) /\ y \notin Known(s))
  BY <1>1, <1>3, <1>6 DEF Succeeds, Extends, Within
<1> QED  BY <1>1, <1>3, <1>6, <1>8, <1>9, <1>10 DEF Succeeds, Extends, Settles, t
=============================================================================
