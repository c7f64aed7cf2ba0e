-------------------------- MODULE DriverTurnProofs --------------------------
(***************************************************************************)
(* What the program works on, for any plans and any room in the channels:   *)
(* once the session takes a prompt for over, the program does not run it    *)
(* and never will.                                                          *)
(***************************************************************************)
EXTENDS DriverProofs

-----------------------------------------------------------------------------
(* What the program works on.  A frame may carry a prompt to it; the program *)
(* holds a prompt when it works on it or will read it; a prompt is past when *)
(* it does not and never will.                                               *)
Carries(f) == f.method \in {"turn/start", "prompt", "session/prompt"}
Holds(p)   == p \in NativeTurns \/ Written(p)
Past(p)    == ~Holds(p) /\ ~Coming(p)

(* The id of a frame tells what it is for.                                   *)
Framed(f) ==
  /\ Carries(f) => f.ref \in Prompts /\ f.id = PromptCall(f.ref)
  /\ \A p \in Prompts : f.id = PromptCall(p) => Carries(f)
  /\ kind = "pi" /\ f.id[1] = "settled" => f.method = "get_state"
  /\ kind = "claude" /\ f.method = "compact" => f.ref \notin Prompts
  /\ kind = "codex" => (f.method = "thread/compact/start" <=> f.id = <<"compact", 1>>)
FramesInv == kind # "cursor" => \A i \in DOMAIN stdin : Framed(stdin[i])

(* The program holds at most the prompt that the driver works on, once: on   *)
(* its way or at work.                                                       *)
TokenInv ==
  kind # "cursor" =>
    /\ \A p \in Prompts : Holds(p) => progress.request = p /\ ~progress.finished
    /\ \A i, j \in DOMAIN stdin : Carries(stdin[i]) /\ Carries(stdin[j]) => i = j
    /\ \A p \in Prompts : p \in NativeTurns => \A i \in DOMAIN stdin : ~Carries(stdin[i])

(* The messages with which the driver takes a prompt for over say so when    *)
(* the program is done with it.                                              *)
Final(m, p) ==
  \/ /\ kind = "codex"
     /\ \/ m.type = "turn/completed" /\ m.ref = p
        \/ m.type = "response" /\ m.id = PromptCall(p) /\ m.status = "error"
  \/ /\ kind = "pi" /\ m.type = "response"
     /\ \/ m.id = PromptCall(p) /\ m.status # "ok"
        \/ m.id = <<"settled", PromptCall(p)>> /\ m.ref = "idle"
  \/ /\ kind = "claude" /\ m.id = PromptCall(p)
     /\ \/ m.type \in {"result", "control_response"}
        \/ m.type = "lifecycle" /\ m.status \in {"rejected", "cancelled"}
DoneInv == \A i \in DOMAIN stdout : \A p \in Prompts : Final(stdout[i], p) => Past(p)

(* A compaction holds the next prompt back.                                  *)
AskedInv == compaction = "asked" => \A p \in Prompts : turn[p] # "sent"

(* Codex runs a compaction as a turn of its own.  The compaction that may    *)
(* still be asked for, or was and is not over, as the driver knows it; the   *)
(* frame that asks for it, the start of its turn and its ends.               *)
PackComing == \/ ops["compact"].state \in {"idle", "ready"}
              \/ \E i \in DOMAIN calls : calls[i].op = "compact"
PackLive   == PackComing \/ adapter.compaction # None
IsPack(f)    == f.method = "thread/compact/start"
PackStart(m) == m.type = "turn/started" /\ m.ref = "compaction"
PackEnd(m)   == \/ m.type = "turn/completed" /\ m.ref = "compaction"
                \/ m.type = "thread/compacted"
                \/ m.type = "response" /\ m.id = <<"compact", 1>> /\ m.status = "error"

(* It is asked for once, by its one call,                                    *)
PackCalls ==
  /\ \A i, j \in DOMAIN calls : calls[i].op = "compact" /\ calls[j].op = "compact" => i = j
  /\ \A i \in DOMAIN calls : calls[i].op = "compact" =>
       ops["compact"].state \in {"queued", "failed"}
  /\ adapter.compaction \in {None, <<"compact", 1>>} /\ adapter.turn \in {None, "compaction"}
  /\ PackComing => adapter.compaction = None
(* whatever the pipes and the program have of it belongs to a compaction     *)
(* that the driver waits for, and its end comes last,                        *)
PackPipes ==
  /\ \A i \in DOMAIN stdin : IsPack(stdin[i]) =>
       /\ native.compacting = "no" /\ adapter.compaction # None
       /\ \A j \in DOMAIN stdin : IsPack(stdin[j]) => j = i
       /\ \A j \in DOMAIN stdout : ~PackStart(stdout[j]) /\ ~PackEnd(stdout[j])
  /\ native.compacting # "no" =>
       adapter.compaction # None /\ \A j \in DOMAIN stdout : ~PackEnd(stdout[j])
  /\ native.compacting = "asked" => \A j \in DOMAIN stdout : ~PackStart(stdout[j])
  /\ \A i \in DOMAIN stdout : PackEnd(stdout[i]) =>
       /\ adapter.compaction # None
       /\ \A j \in DOMAIN stdout : /\ PackEnd(stdout[j]) => j = i
                                   /\ PackStart(stdout[j]) => j < i
  /\ \A i \in DOMAIN stdout : PackStart(stdout[i]) => adapter.compaction # None
(* and no turn runs until the session has learnt of its end.                 *)
PackSession ==
  /\ \A i \in DOMAIN Queue : Queue[i].type = "compacted" => ~PackLive
  /\ ops["compact"].state = "refused" => ~PackLive
  /\ PackLive /\ ops["compact"].state # "idle" =>
       ~Unfinished(progress) /\ (compaction = "asked" \/ exited)
  /\ after # None => after.type # "response"
PackInv == kind = "codex" => PackCalls /\ PackPipes /\ PackSession

(* The turn that Codex says it started is the prompt's, and is not over.     *)
CodexInv ==
  kind = "codex" =>
    /\ \A i \in DOMAIN stdout : stdout[i].type = "turn/started" =>
         /\ stdout[i].ref \in Prompts \cup {"compaction"}
         /\ stdout[i].ref \in Prompts =>
              /\ progress.request = stdout[i].ref /\ ~progress.finished
              /\ \A j \in DOMAIN stdout : Final(stdout[j], stdout[i].ref) => i < j
    /\ Unfinished(progress) => progress.turn \in {None, progress.request}

(* A probe of Pi is sent when the prompt it asks for is on its way before it.*)
PiInv ==
  kind = "pi" =>
    /\ adapter.prompt # None => progress.request # None
    /\ native.run = "idle" => native.ref = None
    /\ native.compact # None => /\ native.compact[1] # "settled"
                                /\ \A p \in Prompts : native.compact # PromptCall(p)
    /\ \A i \in DOMAIN stdin : \A p \in Prompts : stdin[i].id = <<"settled", PromptCall(p)>> =>
         /\ ~Coming(p)
         /\ \A j \in DOMAIN stdin : Carries(stdin[j]) /\ stdin[j].ref = p => j < i

(* The messages Claude has are the session's, each prompt once, and a prompt *)
(* that the driver rejects or the session takes for over is past.            *)
User(u) == /\ u.ref \in Prompts => u.id = PromptCall(u.ref)
           /\ \A p \in Prompts : u.id = PromptCall(p) => u.ref \in Prompts
Over(p) == \/ ops[p].state = "refused" \/ turn[p] \in {"finished", "refused"}
           \/ \E i \in DOMAIN Queue : Queue[i].type = "finished" /\ Queue[i].request = p
QueueInv ==
  kind = "claude" =>
    /\ \A i \in DOMAIN native.queue : User(native.queue[i])
    /\ native.turn # None => User(native.turn)
    /\ \A i, j \in DOMAIN native.queue :
         native.queue[i].ref \in Prompts /\ native.queue[j].ref \in Prompts => i = j
    /\ native.turn # None /\ native.turn.ref \in Prompts =>
         \A i \in DOMAIN native.queue : native.queue[i].ref \notin Prompts
SaysNo(a, p) == a.reply # NoAnswer /\ a.reply[1].id = PromptCall(p) /\ ~a.reply[1].ok
ReplyInv ==
  kind = "claude" =>
    /\ adapter.active # None =>
         progress.request # None /\ adapter.active.id = PromptCall(progress.request)
    /\ \A p \in Prompts : SaysNo(adapter, p) => Past(p)
OverInv ==
  kind = "claude" => /\ ops["compact"].target = None
                     /\ \A p \in Prompts : Over(p) => ~Holds(p)

(* Cursor: the calls whose answer ends a turn, and their frames and answers. *)
(* There is one at a time, and the driver works on its prompt.               *)
Turning    == {PromptCall(p) : p \in Prompts} \cup {<<"steer", 1>>}
Answers(m) == m.type = "response" /\ m.id \in Turning
Silent     == \A i \in DOMAIN stdout : ~Answers(stdout[i])
CursorInv ==
  kind = "cursor" =>
    /\ adapter.prompt \in Turning \cup {None} /\ adapter.restart \in {None, <<"steer", 1>>}
    /\ adapter.prompt # None => Unfinished(progress)
    /\ after # None => adapter.responses = <<>>
    /\ \A i \in DOMAIN stdin :
         /\ stdin[i].id \in Turning => stdin[i].method \in {"session/prompt", "session/cancel"}
         /\ Carries(stdin[i]) =>
              /\ adapter.prompt # None
              /\ adapter.prompt = stdin[i].id /\ progress.request = stdin[i].ref
              /\ native.turn = None /\ native.leaving = None /\ Silent
              /\ \A j \in DOMAIN stdin : Carries(stdin[j]) => j = i
    /\ native.turn = None <=> native.ref = None
    /\ native.turn # None =>
         /\ adapter.prompt = native.turn /\ progress.request = native.ref
         /\ native.leaving = None /\ Silent
    /\ native.leaving # None =>
         /\ native.leaving.type = "response" /\ adapter.prompt # None
         /\ native.leaving.id = adapter.prompt /\ Silent
    /\ \A i \in DOMAIN stdout : Answers(stdout[i]) =>
         /\ adapter.prompt # None /\ stdout[i].id = adapter.prompt
         /\ \A j \in DOMAIN stdout : Answers(stdout[j]) => i = j

SInv == /\ FramesInv /\ TokenInv /\ DoneInv /\ AskedInv /\ PackInv /\ CodexInv /\ PiInv
        /\ QueueInv /\ ReplyInv /\ OverInv /\ CursorInv

-----------------------------------------------------------------------------
(* Two sequences joined, and a sequence without its head.                    *)
Joins(s, t, u) ==
  /\ Len(s) \in Nat /\ DOMAIN s = 1..Len(s) /\ Len(t) \in Nat /\ DOMAIN t = 1..Len(t)
  /\ \A i \in DOMAIN s : i \in DOMAIN u /\ u[i] = s[i]
  /\ \A i \in DOMAIN u :
       i \in DOMAIN s \/ \E j \in DOMAIN t : i = Len(s) + j /\ u[i] = t[j]
  /\ \A j \in DOMAIN t : Len(s) + j \in DOMAIN u /\ u[Len(s) + j] = t[j]
Drops(s, u) ==
  /\ 1 \in DOMAIN s /\ Head(s) = s[1] /\ DOMAIN s \subseteq Nat \ {0}
  /\ \A i \in DOMAIN u : i + 1 \in DOMAIN s /\ u[i] = s[i + 1] /\ i \in Nat \ {0}

(* What \o does to the elements,                                             *)
LEMMA Joined ==
  ASSUME NEW S, NEW s \in Seq(S), NEW t \in Seq(S)
  PROVE  Joins(s, t, s \o t)
<1> DEFINE u == s \o t
<1>1. /\ Len(u) = Len(s) + Len(t) /\ u \in Seq(S)
      /\ \A i \in 1..(Len(s) + Len(t)) :
           u[i] = IF i <= Len(s) THEN s[i] ELSE t[i - Len(s)]
  BY ConcatProperties
<1>2. /\ Len(s) \in Nat /\ Len(t) \in Nat
      /\ DOMAIN s = 1..Len(s) /\ DOMAIN t = 1..Len(t) /\ DOMAIN u = 1..(Len(s) + Len(t))
  BY <1>1, LenProperties
<1> HIDE DEF u
<1>3. \A i \in DOMAIN s : i \in DOMAIN u /\ u[i] = s[i]
  BY <1>1, <1>2
<1>4. ASSUME NEW i \in DOMAIN u, i \notin DOMAIN s
      PROVE  \E j \in DOMAIN t : i = Len(s) + j /\ u[i] = t[j]
  <2>1. i - Len(s) \in DOMAIN t /\ i = Len(s) + (i - Len(s)) /\ u[i] = t[i - Len(s)]
    BY <1>1, <1>2, <1>4
  <2> QED  BY <2>1
<1>5. \A j \in DOMAIN t : Len(s) + j \in DOMAIN u /\ u[Len(s) + j] = t[j]
  <2> SUFFICES ASSUME NEW j \in DOMAIN t
               PROVE  Len(s) + j \in DOMAIN u /\ u[Len(s) + j] = t[j]
    OBVIOUS
  <2>1. Len(s) + j \in 1..(Len(s) + Len(t)) /\ ~(Len(s) + j <= Len(s)) /\ (Len(s) + j) - Len(s) = j
    BY <1>2
  <2> QED  BY <1>1, <1>2, <2>1
<1>6. Joins(s, t, u)
  BY <1>2, <1>3, <1>4, <1>5 DEF Joins
<1> QED  BY <1>6 DEF u

(* what Append does,                                                         *)
LEMMA Appended ==
  ASSUME NEW S, NEW s \in Seq(S), NEW x \in S
  PROVE  Joins(s, <<x>>, Append(s, x)) /\ <<x>>[1] = x /\ DOMAIN <<x>> = 1..1
<1>1. <<x>> \in Seq(S) /\ Append(s, x) = s \o <<x>>
  OBVIOUS
<1>2. <<x>>[1] = x /\ DOMAIN <<x>> = 1..1
  OBVIOUS
<1> QED  BY <1>1, <1>2, Joined

(* and what Tail does.                                                       *)
LEMMA Shifted ==
  ASSUME NEW S, NEW s \in Seq(S), s # <<>>
  PROVE  Drops(s, Tail(s)) /\ s[1] \in S
<1> DEFINE u == Tail(s)
<1>1. /\ DOMAIN s = 1..Len(s) /\ Len(s) \in Nat /\ Len(s) # 0
  BY LenProperties, EmptySeq
<1>2. /\ u \in Seq(S) /\ Len(u) = Len(s) - 1
      /\ \A i \in 1..(Len(s) - 1) : u[i] = s[i + 1]
  BY <1>1, HeadTailProperties
<1>3. DOMAIN u = 1..(Len(s) - 1)
  BY <1>2, LenProperties
<1> HIDE DEF u
<1>4. \A i \in DOMAIN u : i + 1 \in DOMAIN s /\ u[i] = s[i + 1] /\ i \in Nat \ {0}
  BY <1>1, <1>2, <1>3
<1>5. 1 \in DOMAIN s /\ Head(s) = s[1] /\ s[1] \in S
  BY <1>1, ElementOfSeq
<1> QED  BY <1>1, <1>4, <1>5 DEF Drops, u

-----------------------------------------------------------------------------
(* The words do not depend on more than the harness.                         *)
LEMMA SameWords ==
  ASSUME kind' = kind
  PROVE  /\ \A p : PromptCall(p)' = PromptCall(p)
         /\ \A f : Framed(f)' <=> Framed(f)
         /\ \A m, p : Final(m, p)' <=> Final(m, p)
         /\ \A u : User(u)' <=> User(u)
         /\ Turning' = Turning /\ \A m : Answers(m)' <=> Answers(m)
<1>1. \A p : PromptCall(p)' = PromptCall(p)
  BY SameScript DEF PromptCall
<1>2. Turning' = Turning
  BY <1>1 DEF Turning
<1>3. \A f : Framed(f)' <=> Framed(f)
  BY <1>1 DEF Framed, Carries
<1>4. \A m, p : Final(m, p)' <=> Final(m, p)
  BY <1>1 DEF Final
<1>5. \A u : User(u)' <=> User(u)
  BY <1>1 DEF User
<1> QED  BY <1>1, <1>2, <1>3, <1>4, <1>5 DEF Answers

(* A prompt on its way is a frame that carries it.                           *)
LEMMA WrittenCarries ==
  \A p : Written(p) <=> \E i \in DOMAIN stdin : Carries(stdin[i]) /\ stdin[i].ref = p
BY DEF Written, Carries

(* A prompt that the program holds is the driver's, which is not done with   *)
(* it and will not accept it again.                                          *)
LEMMA Held ==
  ASSUME IInv, TokenInv, kind # "cursor", NEW p \in Prompts, Holds(p)
  PROVE  progress.request = p /\ Unfinished(progress) /\ ~Coming(p) /\ ~Past(p)
<1>1. progress.request = p /\ ~progress.finished /\ p # None
  BY NamesAssumption DEF TokenInv
<1> QED  BY <1>1 DEF IInv, ComingInv, Untouched, Unfinished, Past

(* A step that leaves the driver's turn, the pipes and the program alone.    *)
Calm == UNCHANGED <<kind, adapter, progress, after, stdin, stdout, native>>

(* Such a step changes nothing of what they have.                            *)
LEMMA CalmKeeps ==
  ASSUME SInv, Calm, Steady
  PROVE  /\ FramesInv' /\ TokenInv' /\ DoneInv' /\ CodexInv' /\ PiInv' /\ QueueInv'
         /\ ReplyInv' /\ CursorInv'
         /\ \A p : Holds(p)' <=> Holds(p)
<1>1. /\ kind' = kind /\ adapter' = adapter /\ progress' = progress /\ after' = after
      /\ stdin' = stdin /\ stdout' = stdout /\ native' = native
  BY DEF Calm
<1>2. \A p : Written(p)' <=> Written(p)
  BY <1>1 DEF Written
<1>3. NativeTurns' = NativeTurns
  BY <1>1 DEF NativeTurns
<1>4. \A p : Holds(p)' <=> Holds(p)
  BY <1>2, <1>3 DEF Holds
<1>5. \A p \in Prompts : Past(p) => Past(p)'
  BY <1>4 DEF Past, Steady
<1>6. FramesInv' /\ TokenInv' /\ DoneInv'
  <2>1. FramesInv'
    BY <1>1, SameWords DEF SInv, FramesInv
  <2>2. TokenInv'
    BY <1>1, <1>3, <1>4 DEF SInv, TokenInv, Carries
  <2>3. DoneInv'
    BY <1>1, <1>5, SameWords DEF SInv, DoneInv
  <2> QED  BY <2>1, <2>2, <2>3
<1>7. CodexInv'
  BY <1>1, SameWords DEF SInv, CodexInv, Unfinished
<1>8. PiInv'
  BY <1>1, SameWords DEF SInv, PiInv, Steady, Carries
<1>9. QueueInv' /\ ReplyInv'
  <2>1. QueueInv'
    BY <1>1, SameWords DEF SInv, QueueInv
  <2>2. ReplyInv'
    BY <1>1, <1>5, SameWords DEF SInv, ReplyInv, SaysNo
  <2> QED  BY <2>1, <2>2
<1>10. CursorInv'
  BY <1>1, SameWords DEF SInv, CursorInv, Silent, Carries, Unfinished
<1> QED  BY <1>4, <1>6, <1>7, <1>8, <1>9, <1>10

-----------------------------------------------------------------------------
(* Fewer: the program has taken a frame or none.  Took(p): it was p's.       *)
Fewer   == stdin' = stdin \/ (stdin # <<>> /\ stdin' = Tail(stdin))
Took(p) == /\ stdin # <<>> /\ stdin' = Tail(stdin)
           /\ Carries(stdin[1]) /\ stdin[1].ref = p

(* What is left of the frames was there before.                              *)
LEMMA FewerLeft ==
  ASSUME stdin \in Seq(Frames), Fewer
  PROVE  /\ \E k \in 0..1 : \A i \in DOMAIN stdin' :
              i + k \in DOMAIN stdin /\ stdin'[i] = stdin[i + k]
         /\ DOMAIN stdin \subseteq Nat \ {0}
         /\ \A p : Took(p) => /\ 1 \in DOMAIN stdin /\ Head(stdin) = stdin[1]
                              /\ \A i \in DOMAIN stdin' :
                                   /\ i + 1 \in DOMAIN stdin /\ i + 1 # 1
                                   /\ stdin'[i] = stdin[i + 1]
<1>1. DOMAIN stdin \subseteq Nat \ {0}
  BY LenProperties
<1>2. CASE stdin' = stdin
  <2>1. \A i \in DOMAIN stdin' : i + 0 \in DOMAIN stdin /\ stdin'[i] = stdin[i + 0]
    BY <1>1, <1>2
  <2>2. \A p : Took(p) => (stdin # <<>> /\ stdin' = Tail(stdin))
    BY DEF Took
  <2>3. stdin # <<>> /\ stdin' = Tail(stdin) => Drops(stdin, stdin')
    BY Shifted
  <2>4. \A p : Took(p) => Drops(stdin, stdin')
    BY <2>2, <2>3
  <2>5. \E k \in 0..1 : \A i \in DOMAIN stdin' : i + k \in DOMAIN stdin /\ stdin'[i] = stdin[i + k]
    BY <2>1
  <2> QED  BY <1>1, <2>4, <2>5 DEF Drops
<1>3. CASE stdin # <<>> /\ stdin' = Tail(stdin)
  <2>1. Drops(stdin, stdin')
    BY <1>3, Shifted
  <2> QED  BY <1>1, <2>1 DEF Drops
<1> QED  BY <1>2, <1>3 DEF Fewer

(* What a step of the program may do with the prompts it holds: it works     *)
(* only on one that it has taken, and says the end of one that it lets go.   *)
Moves(out) ==
  /\ UNCHANGED <<kind, progress>> /\ Fewer
  /\ stdout' = stdout \o out /\ out \in Seq(Messages)
  /\ \A p \in Prompts : p \in NativeTurns' => p \in NativeTurns \/ Took(p)
  /\ \A i \in DOMAIN out : \A p \in Prompts : Final(out[i], p) =>
       /\ p \notin NativeTurns'
       /\ p \in NativeTurns \/ Took(p) \/ Past(p)

(* Then the driver still learns the end of a prompt only when it is past.    *)
LEMMA MovesKeep ==
  ASSUME IInv, SInv, Steady, kind # "cursor", NEW out, Moves(out)
  PROVE  /\ FramesInv' /\ TokenInv' /\ DoneInv'
         /\ \A p \in Prompts : Holds(p)' => Holds(p)
         /\ \A p \in Prompts : Past(p) => Past(p)'
<1>1. /\ stdin \in Seq(Frames) /\ stdout \in Seq(Messages) /\ kind' = kind
      /\ progress' = progress /\ TokenInv /\ FramesInv /\ DoneInv
  BY DEF IInv, TypeInv, PipesOK, Moves, SInv
<1>2. PICK k \in 0..1 : \A i \in DOMAIN stdin' : i + k \in DOMAIN stdin /\ stdin'[i] = stdin[i + k]
  BY <1>1, FewerLeft DEF Moves
<1>3. \A p : Took(p) => /\ 1 \in DOMAIN stdin
                        /\ \A i \in DOMAIN stdin' : /\ i + 1 \in DOMAIN stdin /\ i + 1 # 1
                                                    /\ stdin'[i] = stdin[i + 1]
  BY <1>1, FewerLeft DEF Moves
<1>4. \A p : Took(p) => Written(p)
  BY <1>3 DEF Took, Written, Carries
<1>5. \A p : Written(p)' => Written(p)
  BY <1>2 DEF Written
<1>6. \A p \in Prompts : Holds(p)' => Holds(p)
  BY <1>4, <1>5 DEF Holds, Moves
<1>7. \A p \in Prompts : Past(p) => Past(p)'
  BY <1>6 DEF Past, Steady
<1>8. FramesInv'
  BY <1>1, <1>2, SameWords DEF FramesInv
<1>9. \A p \in Prompts : p \in NativeTurns \/ Took(p) => \A i \in DOMAIN stdin' : ~Carries(stdin'[i])
  <2> SUFFICES ASSUME NEW p \in Prompts, p \in NativeTurns \/ Took(p),
                      NEW i \in DOMAIN stdin', Carries(stdin'[i])
               PROVE  FALSE
    BY DEF Carries
  <2>1. CASE p \in NativeTurns
    BY <1>1, <1>2, <2>1 DEF TokenInv
  <2>2. CASE Took(p)
    BY <1>1, <1>3, <2>2 DEF TokenInv, Took
  <2> QED  BY <2>1, <2>2
<1>10. TokenInv'
  <2>1. \A p \in Prompts : Holds(p)' => progress'.request = p /\ ~progress'.finished
    BY <1>1, <1>6 DEF TokenInv
  <2>2. \A i, j \in DOMAIN stdin' : Carries(stdin'[i]) /\ Carries(stdin'[j]) => i = j
    <3> SUFFICES ASSUME NEW i \in DOMAIN stdin', NEW j \in DOMAIN stdin',
                        Carries(stdin'[i]), Carries(stdin'[j])
                 PROVE  i = j
      OBVIOUS
    <3>1. i + k = j + k /\ i + k \in Nat
      BY <1>1, <1>2, FewerLeft DEF TokenInv, Moves
    <3>2. i \in Nat /\ j \in Nat
      <4>1. stdin' \in Seq(Frames)
        BY <1>1, HeadTailProperties DEF Moves, Fewer
      <4> QED  BY <4>1, LenProperties
    <3> QED  BY <3>1, <3>2
  <2>3. \A p \in Prompts : p \in NativeTurns' => \A i \in DOMAIN stdin' : ~Carries(stdin'[i])
    BY <1>9 DEF Moves
  <2> QED  BY <2>1, <2>2, <2>3 DEF TokenInv, Carries
<1>11. DoneInv'
  <2>1. \A p \in Prompts : p \in NativeTurns \/ Took(p) => ~Coming(p)
    BY <1>1, <1>4, Held DEF Holds
  <2>2. \A j \in DOMAIN out : \A p \in Prompts : Final(out[j], p) => Past(p)'
    <3> SUFFICES ASSUME NEW j \in DOMAIN out, NEW p \in Prompts, Final(out[j], p) PROVE Past(p)'
      OBVIOUS
    <3>1. p \notin NativeTurns' /\ (p \in NativeTurns \/ Took(p) \/ Past(p))
      BY DEF Moves
    <3>2. CASE Past(p)
      BY <1>7, <3>2
    <3>3. CASE p \in NativeTurns \/ Took(p)
      <4>1. ~Written(p)'
        BY <1>9, <3>3 DEF Written, Carries
      <4>2. ~Coming(p)'
        BY <2>1, <3>3 DEF Steady
      <4> QED  BY <3>1, <4>1, <4>2 DEF Past, Holds
    <3> QED  BY <3>1, <3>2, <3>3
  <2>3. Joins(stdout, out, stdout')
    BY <1>1, Joined DEF Moves
  <2>4. \A i \in DOMAIN stdout' : \A p \in Prompts : Final(stdout'[i], p) => Past(p)'
    BY <1>1, <1>7, <2>2, <2>3 DEF Joins, DoneInv
  <2> QED  BY <1>1, <2>4, SameWords DEF DoneInv
<1> QED  BY <1>6, <1>7, <1>8, <1>10, <1>11

-----------------------------------------------------------------------------
(* What a step of the driver may do, but for the acceptance of a prompt: it  *)
(* writes frames that carry none, and is done with its turn when the program *)
(* is.                                                                       *)
Drives(fs) ==
  /\ UNCHANGED <<kind, native>>
  /\ Joins(stdin, fs, stdin')
  /\ \A i \in DOMAIN fs : Framed(fs[i]) /\ ~Carries(fs[i])
  /\ stdout' = stdout \/ (stdout # <<>> /\ stdout' = Tail(stdout))
  /\ progress'.request = progress.request
  /\ \A p \in Prompts : progress'.finished /\ Unfinished(progress) /\ progress.request = p => Past(p)

(* Then the program holds what it held.                                      *)
LEMMA DrivesKeep ==
  ASSUME IInv, SInv, Steady, kind # "cursor", NEW fs, Drives(fs)
  PROVE  /\ FramesInv' /\ TokenInv' /\ DoneInv'
         /\ \A p \in Prompts : Holds(p)' <=> Holds(p)
         /\ \A p \in Prompts : Past(p) => Past(p)'
<1>1. /\ stdin \in Seq(Frames) /\ stdout \in Seq(Messages) /\ kind' = kind
      /\ native' = native /\ TokenInv /\ FramesInv /\ DoneInv
  BY DEF IInv, TypeInv, PipesOK, Drives, SInv
<1>2. /\ \A i \in DOMAIN stdin : i \in DOMAIN stdin' /\ stdin'[i] = stdin[i]
      /\ \A i \in DOMAIN stdin' : i \in DOMAIN stdin \/ \E j \in DOMAIN fs : stdin'[i] = fs[j]
      /\ \A j \in DOMAIN fs : ~Carries(fs[j]) /\ Framed(fs[j])
  BY DEF Drives, Joins
<1>3. \A i \in DOMAIN stdin' : Carries(stdin'[i]) => i \in DOMAIN stdin /\ stdin'[i] = stdin[i]
  BY <1>2
<1>4. \A p : Written(p)' <=> Written(p)
  BY <1>2, <1>3 DEF Written, Carries
<1>5. NativeTurns' = NativeTurns
  BY <1>1 DEF NativeTurns
<1>6. \A p \in Prompts : Holds(p)' <=> Holds(p)
  BY <1>4, <1>5 DEF Holds
<1>7. \A p \in Prompts : Past(p) => Past(p)'
  BY <1>6 DEF Past, Steady
<1>8. FramesInv'
  BY <1>1, <1>2, SameWords DEF FramesInv
<1>9. TokenInv'
  <2>1. \A p \in Prompts : Holds(p)' => progress'.request = p /\ ~progress'.finished
    <3> SUFFICES ASSUME NEW p \in Prompts, Holds(p)'
                 PROVE  progress'.request = p /\ ~progress'.finished
      OBVIOUS
    <3>1. progress.request = p /\ Unfinished(progress) /\ ~Past(p)
      BY <1>1, <1>6, Held
    <3> QED  BY <3>1 DEF Drives
  <2>2. \A i, j \in DOMAIN stdin' : Carries(stdin'[i]) /\ Carries(stdin'[j]) => i = j
    BY <1>1, <1>3 DEF TokenInv
  <2>3. \A p \in Prompts : p \in NativeTurns' => \A i \in DOMAIN stdin' : ~Carries(stdin'[i])
    BY <1>1, <1>3, <1>5 DEF TokenInv
  <2> QED  BY <2>1, <2>2, <2>3 DEF TokenInv, Carries
<1>10. DoneInv'
  <2>1. \A i \in DOMAIN stdout' : \E j \in DOMAIN stdout : stdout'[i] = stdout[j]
    <3>1. CASE stdout' = stdout
      BY <3>1
    <3>2. CASE stdout # <<>> /\ stdout' = Tail(stdout)
      BY <1>1, <3>2, Shifted DEF Drops
    <3> QED  BY <3>1, <3>2 DEF Drives
  <2> QED  BY <1>1, <1>7, <2>1, SameWords DEF DoneInv
<1> QED  BY <1>6, <1>7, <1>8, <1>9, <1>10

-----------------------------------------------------------------------------
(* What Codex does with a frame: it answers and stays as it is, begins the   *)
(* turn of a prompt, ends its turn, or will compact.                         *)
OkTo(m)      == Msg("response", m.id, None, "ok")
ErrorTo(m)   == Msg("response", m.id, None, "error")
CodexRests(m, r) ==
  /\ r.native = native
  /\ \A i \in DOMAIN r.out : /\ i = 1 /\ r.out[i] \in {OkTo(m), ErrorTo(m)}
                             /\ IsPack(m) => r.out[i] = ErrorTo(m)
CodexBegins(m, r) ==
  /\ m.method = "turn/start" /\ r.native.turn = m.ref
  /\ r.native.compacting = native.compacting
  /\ \A i \in DOMAIN r.out : r.out[i] \in {OkTo(m), Msg("turn/started", None, m.ref, None)}
CodexStops(m, r) ==
  /\ m.method = "turn/interrupt" /\ native.turn = m.ref /\ m.ref # None
  /\ r.native.turn = None /\ r.native.compacting = native.compacting
  /\ \A i \in DOMAIN r.out :
       r.out[i] \in {OkTo(m), Msg("turn/completed", None, m.ref, "interrupted")}
CodexPacks(m, r) ==
  /\ IsPack(m) /\ r.native.turn = native.turn /\ r.native.compacting = "asked"
  /\ \A i \in DOMAIN r.out : r.out[i] = OkTo(m)

(* The elements of short sequences.                                          *)
LEMMA Elements ==
  /\ DOMAIN <<>> = {}
  /\ \A x : \A i \in DOMAIN <<x>> : i = 1 /\ <<x>>[i] = x
  /\ \A x, y : \A i \in DOMAIN <<x, y>> : <<x, y>>[i] \in {x, y}
  /\ \A x, y, z : \A i \in DOMAIN <<x, y, z>> : <<x, y, z>>[i] \in {x, y, z}
OBVIOUS

(* What it does with a frame is one of these.                                *)
LEMMA CodexTaking ==
  ASSUME kind = "codex", native \in CodexNatives, NEW m \in Frames, NEW r \in Takes(m)
  PROVE  CodexRests(m, r) \/ CodexBegins(m, r) \/ CodexStops(m, r) \/ CodexPacks(m, r)
<1> DEFINE n == native
           ok == OkTo(m)
           error == ErrorTo(m)
           news == Msg("turn/started", None, m.ref, None)
           aborted == Msg("turn/completed", None, m.ref, "interrupted")
<1>1. r \in Codex!Takes(n, m)
  BY DEF Takes
<1>2. Codex!Ok(m) = ok /\ Codex!Error(m) = error
  BY CodexWords DEF Codex!Ok, Codex!Error, OkTo, ErrorTo
<1>3. /\ [n EXCEPT !.turn = m.ref, !.shell = FALSE].turn = m.ref
      /\ [n EXCEPT !.turn = m.ref, !.shell = FALSE].compacting = n.compacting
      /\ [n EXCEPT !.turn = None].turn = None
      /\ [n EXCEPT !.turn = None].compacting = n.compacting
      /\ [n EXCEPT !.compacting = "asked"].turn = n.turn
      /\ [n EXCEPT !.compacting = "asked"].compacting = "asked"
  BY DEF CodexNatives
<1> HIDE DEF ok, error, news, aborted
<1>4. CASE m.method = "turn/start"
  <2>1. \/ r.native = n /\ r.out = <<error>>
        \/ /\ r.native = [n EXCEPT !.turn = m.ref, !.shell = FALSE]
           /\ r.out = <<ok, news>> \/ r.out = <<news, ok>>
    BY <1>1, <1>2, <1>4, CodexWords DEF Codex!Takes, Codex!Only, news
  <2>2. CASE r.native = n /\ r.out = <<error>>
    BY <2>2, Elements DEF CodexRests, error
  <2>3. CASE /\ r.native = [n EXCEPT !.turn = m.ref, !.shell = FALSE]
             /\ r.out = <<ok, news>> \/ r.out = <<news, ok>>
    <3>1. \A i \in DOMAIN r.out : r.out[i] \in {ok, news}
      BY <2>3, Elements
    <3> QED  BY <1>3, <1>4, <2>3, <3>1 DEF CodexBegins, ok, news
  <2> QED  BY <2>1, <2>2, <2>3
<1>5. CASE m.method = "turn/interrupt"
  <2>1. \/ r.native = n /\ r.out = <<error>>
        \/ /\ r.native = [n EXCEPT !.turn = None] /\ n.turn # None /\ n.turn = m.ref
           /\ r.out = <<ok, aborted>> \/ r.out = <<aborted, ok>>
    BY <1>1, <1>2, <1>5, CodexWords DEF Codex!Takes, Codex!Only, aborted
  <2>2. CASE r.native = n /\ r.out = <<error>>
    BY <2>2, Elements DEF CodexRests, error
  <2>3. CASE /\ r.native = [n EXCEPT !.turn = None] /\ n.turn # None /\ n.turn = m.ref
             /\ r.out = <<ok, aborted>> \/ r.out = <<aborted, ok>>
    <3>1. \A i \in DOMAIN r.out : r.out[i] \in {ok, aborted}
      BY <2>3, Elements
    <3> QED  BY <1>3, <1>5, <2>3, <3>1 DEF CodexStops, ok, aborted
  <2> QED  BY <2>1, <2>2, <2>3
<1>6. CASE m.method = "thread/compact/start"
  <2>1. \/ r.native = n /\ r.out = <<error>>
        \/ r.native = [n EXCEPT !.compacting = "asked"] /\ r.out = <<ok>>
    BY <1>1, <1>2, <1>6 DEF Codex!Takes, Codex!Only
  <2>2. CASE r.native = n /\ r.out = <<error>>
    BY <2>2, Elements DEF CodexRests, error
  <2>3. CASE r.native = [n EXCEPT !.compacting = "asked"] /\ r.out = <<ok>>
    BY <1>3, <1>6, <2>3, Elements DEF CodexPacks, IsPack, ok
  <2> QED  BY <2>1, <2>2, <2>3
<1>7. CASE m.method \notin {"turn/start", "turn/interrupt", "thread/compact/start"}
  <2>1. r.native = n /\ (r.out = <<>> \/ r.out = <<ok>> \/ r.out = <<error>>)
    BY <1>1, <1>2, <1>7 DEF Codex!Takes, Codex!Only
  <2>2. \A i \in DOMAIN r.out : i = 1 /\ r.out[i] \in {ok, error}
    BY <2>1, Elements
  <2> QED  BY <1>7, <2>1, <2>2 DEF CodexRests, IsPack, ok, error
<1> QED  BY <1>4, <1>5, <1>6, <1>7

(* What Codex does by itself: it uses a shell, ends its turn, begins the     *)
(* compaction as a turn or ends it.                                          *)
CodexShells(r) ==
  /\ r.native.turn = native.turn /\ r.native.compacting = native.compacting
  /\ r.out = <<Msg("item/started", None, native.turn, None)>>
CodexEnds(r) ==
  /\ native.turn \notin {None, "compaction"} /\ r.native.turn = None
  /\ r.native.compacting = native.compacting
  /\ \E s \in Names : r.out = <<Msg("turn/completed", None, native.turn, s)>>
CodexStarts(r) ==
  /\ native.compacting = "asked" /\ r.native.turn = "compaction" /\ r.native.compacting = "turn"
  /\ r.out = <<Msg("turn/started", None, "compaction", None)>>
CodexPacked(r) ==
  /\ native.compacting # "no" /\ r.native.turn \in {native.turn, None}
  /\ r.native.compacting = "no"
  /\ \/ native.compacting = "asked" /\ r.out = <<Msg("thread/compacted", None, None, None)>>
     \/ native.compacting = "turn"
        /\ \E s \in Names : r.out = <<Msg("turn/completed", None, "compaction", s)>>

(* What it does by itself is one of these.                                   *)
LEMMA CodexWorking ==
  ASSUME kind = "codex", native \in CodexNatives, NEW r \in Works
  PROVE  CodexShells(r) \/ CodexEnds(r) \/ CodexStarts(r) \/ CodexPacked(r)
<1> DEFINE n == native
<1>1. /\ r \in Codex!Works(n) /\ {"completed", "failed"} \subseteq Names
      /\ n.compacting \in {"no", "asked", "turn"}
  BY DEF Works, Names, CodexNatives
<1>2. /\ [n EXCEPT !.shell = TRUE].turn = n.turn /\ [n EXCEPT !.shell = TRUE].compacting = n.compacting
      /\ [n EXCEPT !.turn = None].turn = None
      /\ [n EXCEPT !.turn = None].compacting = n.compacting
      /\ [n EXCEPT !.turn = "compaction", !.compacting = "turn"].turn = "compaction"
      /\ [n EXCEPT !.turn = "compaction", !.compacting = "turn"].compacting = "turn"
      /\ [n EXCEPT !.compacting = "no"].turn = n.turn
      /\ [n EXCEPT !.compacting = "no"].compacting = "no"
      /\ [n EXCEPT !.turn = None, !.compacting = "no"].turn = None
      /\ [n EXCEPT !.turn = None, !.compacting = "no"].compacting = "no"
  BY DEF CodexNatives
<1>3. \/ /\ r.native = [n EXCEPT !.shell = TRUE]
         /\ r.out = <<Msg("item/started", None, n.turn, None)>>
      \/ /\ n.turn \notin {None, "compaction"} /\ r.native = [n EXCEPT !.turn = None]
         /\ \E s \in {"completed", "failed"} : r.out = <<Msg("turn/completed", None, n.turn, s)>>
      \/ /\ n.compacting = "asked"
         /\ r.native = [n EXCEPT !.turn = "compaction", !.compacting = "turn"]
         /\ r.out = <<Msg("turn/started", None, "compaction", None)>>
      \/ /\ n.compacting = "asked" /\ r.native = [n EXCEPT !.compacting = "no"]
         /\ r.out = <<Msg("thread/compacted", None, None, None)>>
      \/ /\ n.compacting = "turn" /\ r.native = [n EXCEPT !.turn = None, !.compacting = "no"]
         /\ \E s \in {"completed", "failed"} :
              r.out = <<Msg("turn/completed", None, "compaction", s)>>
  <2>1. \A t, i, ref, s : Codex!Msg(t, i, ref, s) = Msg(t, i, ref, s)
    BY CodexWords
  <2> DEFINE A == IF n.turn \in {None, "compaction"} THEN {} ELSE
                    (IF n.shell THEN {} ELSE
                       {Codex!Only([n EXCEPT !.shell = TRUE],
                                   <<Codex!Msg("item/started", None, n.turn, None)>>)}) \cup
                    {Codex!Only([n EXCEPT !.turn = None],
                                <<Codex!Msg("turn/completed", None, n.turn, s)>>) :
                       s \in {"completed", "failed"}}
  <2>2. CASE r \in A
    <3>1. /\ n.turn \notin {None, "compaction"}
          /\ \/ r = Codex!Only([n EXCEPT !.shell = TRUE],
                               <<Codex!Msg("item/started", None, n.turn, None)>>)
             \/ \E s \in {"completed", "failed"} :
                  r = Codex!Only([n EXCEPT !.turn = None],
                                 <<Codex!Msg("turn/completed", None, n.turn, s)>>)
      BY <2>2
    <3>2. CASE r = Codex!Only([n EXCEPT !.shell = TRUE],
                              <<Codex!Msg("item/started", None, n.turn, None)>>)
      BY <2>1, <3>2 DEF Codex!Only
    <3>3. CASE \E s \in {"completed", "failed"} :
                 r = Codex!Only([n EXCEPT !.turn = None],
                                <<Codex!Msg("turn/completed", None, n.turn, s)>>)
      BY <2>1, <3>1, <3>3 DEF Codex!Only
    <3> QED  BY <3>1, <3>2, <3>3
  <2>3. CASE r \notin A /\ n.compacting = "asked"
    <3>1. r \in {Codex!Only([n EXCEPT !.turn = "compaction", !.compacting = "turn"],
                            <<Codex!Msg("turn/started", None, "compaction", None)>>),
                 Codex!Only([n EXCEPT !.compacting = "no"],
                            <<Codex!Msg("thread/compacted", None, None, None)>>)}
      BY <1>1, <2>3 DEF Codex!Works
    <3> QED  BY <2>1, <2>3, <3>1 DEF Codex!Only
  <2>4. CASE r \notin A /\ n.compacting = "turn"
    <3>1. \E s \in {"completed", "failed"} :
            r = Codex!Only([n EXCEPT !.turn = None, !.compacting = "no"],
                           <<Codex!Msg("turn/completed", None, "compaction", s)>>)
      BY <1>1, <2>4 DEF Codex!Works
    <3> QED  BY <2>1, <2>4, <3>1 DEF Codex!Only
  <2>5. CASE r \notin A /\ n.compacting = "no"
    BY <1>1, <2>5 DEF Codex!Works
  <2> QED  BY <1>1, <2>2, <2>3, <2>4, <2>5
<1> QED  BY <1>1, <1>2, <1>3 DEF CodexShells, CodexEnds, CodexStarts, CodexPacked

-----------------------------------------------------------------------------
(* A step of the program that does r.                                        *)
Acts(r) ==
  /\ UNCHANGED <<kind, adapter, progress, outbox, after, ops, calls, events, turn, compaction,
                 copied, exited>>
  /\ native' = r.native /\ stdout' = stdout \o r.out /\ r.out \in Seq(Messages)
  /\ \/ stdin' = stdin /\ r \in Works
     \/ /\ stdin # <<>> /\ stdin' = Tail(stdin) /\ stdin[1] \in Frames /\ 1 \in DOMAIN stdin
        /\ r \in Takes(stdin[1])

(* Each of its steps does something.                                         *)
LEMMA Acting ==
  ASSUME IInv, NativeTakes \/ NativeWorks PROVE \E r : Acts(r)
<1>1. /\ UNCHANGED <<kind, adapter, progress, outbox, after, ops, calls, events, turn, compaction,
                     copied, exited>>
      /\ TypeInv /\ PlanOK /\ NativeOK(native) /\ stdin \in Seq(Frames)
  BY DEF NativeTakes, NativeWorks, driverVars, sessionVars, IInv, TypeInv, PipesOK
<1>2. CASE NativeTakes
  <2>1. stdin # <<>> /\ stdin' = Tail(stdin)
    BY <1>2 DEF NativeTakes
  <2>2. Drops(stdin, Tail(stdin)) /\ stdin[1] \in Frames
    BY <1>1, <2>1, Shifted
  <2>3. PICK r \in Takes(stdin[1]) : native' = r.native /\ stdout' = stdout \o r.out
    BY <1>2, <2>2 DEF NativeTakes, Drops
  <2>4. Says(r)
    BY <1>1, <2>2, TakesOK
  <2> QED  BY <1>1, <2>1, <2>2, <2>3, <2>4 DEF Acts, Says, Drops
<1>3. CASE NativeWorks
  <2>1. PICK r \in Works : native' = r.native /\ stdout' = stdout \o r.out /\ stdin' = stdin
    BY <1>3 DEF NativeWorks
  <2>2. Says(r)
    BY <1>1, WorksOK
  <2> QED  BY <1>1, <2>1, <2>2 DEF Acts, Says
<1> QED  BY <1>2, <1>3

(* A frame that names the call of a prompt carries that prompt.              *)
LEMMA Named ==
  ASSUME NEW f, Framed(f), NEW p \in Prompts, f.id = PromptCall(p)
  PROVE  Carries(f) /\ f.ref = p
<1>1. Carries(f) /\ f.ref \in Prompts /\ PromptCall(f.ref) = PromptCall(p)
  BY DEF Framed
<1> QED  BY <1>1 DEF PromptCall

(* Codex lets go of a prompt only with its end or its refusal.               *)
LEMMA CodexMoves ==
  ASSUME IInv, SInv, kind = "codex", NEW r, Acts(r) PROVE Moves(r.out)
<1>1. /\ kind' = kind /\ progress' = progress /\ native' = r.native /\ Fewer
      /\ stdout' = stdout \o r.out /\ r.out \in Seq(Messages)
      /\ NativeTurns = {native.turn} /\ NativeTurns' = {r.native.turn}
  BY DEF Acts, Fewer, NativeTurns
<1>2. /\ native \in CodexNatives /\ TokenInv /\ FramesInv /\ "compaction" \notin Prompts
      /\ None \notin Prompts
  BY NamesAssumption DEF IInv, TypeInv, NativeOK, SInv
<1> DEFINE m == stdin[1]
<1> SUFFICES /\ \A p \in Prompts : p = r.native.turn => p = native.turn \/ Took(p)
             /\ \A i \in DOMAIN r.out : \A p \in Prompts : Final(r.out[i], p) =>
                  /\ p # r.native.turn
                  /\ p = native.turn \/ Took(p) \/ Past(p)
  BY <1>1 DEF Moves
<1>3. CASE /\ stdin # <<>> /\ stdin' = Tail(stdin) /\ m \in Frames /\ 1 \in DOMAIN stdin
           /\ r \in Takes(m)
  <2>1. Framed(m) /\ \A p : Carries(m) /\ m.ref = p => Took(p)
    BY <1>2, <1>3 DEF FramesInv, Took
  <2>2. \A p \in Prompts : p = native.turn => ~Carries(m)
    BY <1>1, <1>2, <1>3 DEF TokenInv
  <2>3. CASE CodexRests(m, r)
    <3> SUFFICES ASSUME NEW i \in DOMAIN r.out, NEW p \in Prompts, Final(r.out[i], p)
                 PROVE  p # r.native.turn /\ Took(p)
      BY <2>3 DEF CodexRests
    <3>1. r.out[i] \in {OkTo(m), ErrorTo(m)} /\ r.native = native
      BY <2>3 DEF CodexRests
    <3>2. m.id = PromptCall(p)
      BY <3>1 DEF Final, OkTo, ErrorTo, Msg
    <3>3. Carries(m) /\ m.ref = p
      BY <2>1, <3>2, Named
    <3> QED  BY <2>1, <2>2, <3>1, <3>3
  <2>4. CASE CodexBegins(m, r)
    <3>1. Carries(m) /\ r.native.turn = m.ref
      BY <2>4 DEF CodexBegins, Carries
    <3>2. \A i \in DOMAIN r.out : \A p \in Prompts : ~Final(r.out[i], p)
      BY <2>4, <1>3 DEF CodexBegins, Final, OkTo, Msg
    <3> QED  BY <2>1, <3>1, <3>2
  <2>5. CASE CodexStops(m, r)
    <3>1. \A i \in DOMAIN r.out : \A p \in Prompts : Final(r.out[i], p) => p = m.ref
      BY <2>5, <1>3 DEF CodexStops, Final, OkTo, Msg
    <3> QED  BY <1>2, <2>5, <3>1 DEF CodexStops
  <2>6. CASE CodexPacks(m, r)
    <3>1. \A i \in DOMAIN r.out : \A p \in Prompts : ~Final(r.out[i], p)
      BY <2>6, <1>3 DEF CodexPacks, Final, OkTo, Msg
    <3> QED  BY <2>6, <3>1 DEF CodexPacks
  <2> QED  BY <1>2, <1>3, <2>3, <2>4, <2>5, <2>6, CodexTaking
<1>4. CASE stdin' = stdin /\ r \in Works
  <2>1. CASE CodexShells(r)
    <3>1. \A i \in DOMAIN r.out : \A p \in Prompts : ~Final(r.out[i], p)
      BY <1>4, <2>1, Elements DEF CodexShells, Final, Msg
    <3> QED  BY <2>1, <3>1 DEF CodexShells
  <2>2. CASE CodexEnds(r)
    <3>1. PICK s : r.out = <<Msg("turn/completed", None, native.turn, s)>>
      BY <2>2 DEF CodexEnds
    <3>2. \A i \in DOMAIN r.out : \A p \in Prompts : Final(r.out[i], p) => p = native.turn
      BY <1>4, <3>1, Elements DEF Final, Msg
    <3> QED  BY <1>2, <2>2, <3>2 DEF CodexEnds
  <2>3. CASE CodexStarts(r)
    <3>1. \A i \in DOMAIN r.out : \A p \in Prompts : ~Final(r.out[i], p)
      BY <1>4, <2>3, Elements DEF CodexStarts, Final, Msg
    <3> QED  BY <1>2, <2>3, <3>1 DEF CodexStarts
  <2>4. CASE CodexPacked(r)
    <3>1. CASE r.out = <<Msg("thread/compacted", None, None, None)>>
      <4>1. \A i \in DOMAIN r.out : \A p \in Prompts : ~Final(r.out[i], p)
        BY <1>4, <3>1, Elements DEF Final, Msg
      <4> QED  BY <1>2, <2>4, <4>1 DEF CodexPacked
    <3>2. CASE \E s \in Names : r.out = <<Msg("turn/completed", None, "compaction", s)>>
      <4>1. PICK s : r.out = <<Msg("turn/completed", None, "compaction", s)>>
        BY <3>2
      <4>2. \A i \in DOMAIN r.out : \A p \in Prompts : ~Final(r.out[i], p)
        BY <1>2, <1>4, <4>1, Elements DEF Final, Msg
      <4> QED  BY <1>2, <2>4, <4>2 DEF CodexPacked
    <3> QED  BY <2>4, <3>1, <3>2 DEF CodexPacked
  <2> QED  BY <1>2, <1>4, <2>1, <2>2, <2>3, <2>4, CodexWorking
<1> QED  BY <1>3, <1>4 DEF Acts

(* Each message with which Codex ends something says an end.                 *)
LEMMA CodexEndings ==
  ASSUME NEW r, CodexEnds(r) \/ CodexPacked(r)
  PROVE  \A j \in DOMAIN r.out : j = 1 /\ r.out[j].type \in {"turn/completed", "thread/compacted"}
<1>1. \/ \E ref, s : r.out = <<Msg("turn/completed", None, ref, s)>>
      \/ r.out = <<Msg("thread/compacted", None, None, None)>>
  BY DEF CodexEnds, CodexPacked
<1>2. CASE r.out = <<Msg("thread/compacted", None, None, None)>>
  BY <1>2, Elements DEF Msg
<1>3. CASE \E ref, s : r.out = <<Msg("turn/completed", None, ref, s)>>
  <2>1. PICK ref, s : r.out = <<Msg("turn/completed", None, ref, s)>>
    BY <1>3
  <2> QED  BY <2>1, Elements DEF Msg
<1> QED  BY <1>1, <1>2, <1>3

(* A turn that Codex says it started is the compaction's or that of the      *)
(* prompt it has just taken.                                                 *)
LEMMA CodexNews ==
  ASSUME IInv, SInv, kind = "codex", NEW r, Acts(r),
         NEW j \in DOMAIN r.out, r.out[j].type = "turn/started"
  PROVE  \/ r.out[j].ref = "compaction"
         \/ /\ r.out[j].ref \in Prompts /\ Took(r.out[j].ref)
            /\ \A k \in DOMAIN r.out : ~Final(r.out[k], r.out[j].ref)
<1>1. native \in CodexNatives /\ FramesInv
  BY DEF IInv, TypeInv, NativeOK, SInv
<1> DEFINE m == stdin[1]
<1>2. CASE /\ stdin # <<>> /\ stdin' = Tail(stdin) /\ m \in Frames /\ 1 \in DOMAIN stdin
           /\ r \in Takes(m)
  <2>1. CodexBegins(m, r)
    <3>1. ~CodexRests(m, r) /\ ~CodexStops(m, r) /\ ~CodexPacks(m, r)
      BY DEF CodexRests, CodexStops, CodexPacks, OkTo, ErrorTo, Msg
    <3> QED  BY <1>1, <1>2, <3>1, CodexTaking
  <2>2. Carries(m) /\ m.ref \in Prompts /\ Took(m.ref)
    BY <1>1, <1>2, <2>1 DEF CodexBegins, Carries, FramesInv, Framed, Took
  <2>3. r.out[j].ref = m.ref
    BY <2>1 DEF CodexBegins, OkTo, Msg
  <2>4. \A k \in DOMAIN r.out : ~Final(r.out[k], m.ref)
    BY <2>1, <1>2 DEF CodexBegins, Final, OkTo, Msg
  <2> QED  BY <2>2, <2>3, <2>4
<1>3. CASE stdin' = stdin /\ r \in Works
  <2>1. CodexStarts(r)
    <3>1. ~CodexShells(r)
      BY Elements DEF CodexShells, Msg
    <3>2. ~CodexEnds(r)
      BY CodexEndings
    <3>3. ~CodexPacked(r)
      BY CodexEndings
    <3> QED  BY <1>1, <1>3, <3>1, <3>2, <3>3, CodexWorking
  <2> QED  BY <2>1, Elements DEF CodexStarts, Msg
<1> QED  BY <1>2, <1>3 DEF Acts

(* So the turns that it says it started are not over.                        *)
LEMMA CodexTurns ==
  ASSUME IInv, SInv, kind = "codex", NEW r, Acts(r) PROVE CodexInv'
<1>1. /\ kind' = kind /\ progress' = progress /\ stdout' = stdout \o r.out
      /\ r.out \in Seq(Messages) /\ stdout \in Seq(Messages) /\ stdin \in Seq(Frames) /\ Fewer
      /\ CodexInv /\ TokenInv /\ DoneInv
  BY DEF Acts, IInv, TypeInv, PipesOK, SInv, Fewer
<1>2. Joins(stdout, r.out, stdout')
  BY <1>1, Joined
<1>3. Unfinished(progress)' => progress'.turn \in {None, progress'.request}
  BY <1>1 DEF CodexInv, Unfinished
<1>4. ASSUME NEW i \in DOMAIN stdout', stdout'[i].type = "turn/started"
      PROVE  /\ stdout'[i].ref \in Prompts \cup {"compaction"}
             /\ stdout'[i].ref \in Prompts =>
                  /\ progress.request = stdout'[i].ref /\ ~progress.finished
                  /\ \A j \in DOMAIN stdout' : Final(stdout'[j], stdout'[i].ref) => i < j
  <2>1. CASE i \in DOMAIN stdout
    <3>1. stdout'[i] = stdout[i]
      BY <1>2, <2>1 DEF Joins
    <3>2. \A j \in DOMAIN stdout' : i < j \/ (j \in DOMAIN stdout /\ stdout'[j] = stdout[j])
      BY <1>2, <2>1 DEF Joins
    <3> QED  BY <1>1, <1>4, <2>1, <3>1, <3>2 DEF CodexInv
  <2>2. CASE i \notin DOMAIN stdout
    <3>1. PICK j \in DOMAIN r.out : stdout'[i] = r.out[j]
      BY <1>2, <2>2 DEF Joins
    <3>2. CASE r.out[j].ref = "compaction"
      BY <3>1, <3>2, NamesAssumption
    <3>3. CASE /\ r.out[j].ref \in Prompts /\ Took(r.out[j].ref)
               /\ \A k \in DOMAIN r.out : ~Final(r.out[k], r.out[j].ref)
      <4> DEFINE p == r.out[j].ref
      <4>1. Holds(p)
        BY <1>1, <3>3, FewerLeft DEF Took, Holds, Written, Carries
      <4> HIDE DEF p
      <4>0. p \in Prompts /\ p = stdout'[i].ref
        BY <3>1, <3>3 DEF p
      <4>2. progress.request = p /\ ~progress.finished /\ ~Past(p)
        BY <1>1, <4>0, <4>1, Held DEF Unfinished
      <4>3. \A k \in DOMAIN stdout' : ~Final(stdout'[k], p)
        <5> SUFFICES ASSUME NEW k \in DOMAIN stdout', Final(stdout'[k], p) PROVE FALSE
          OBVIOUS
        <5>1. k \in DOMAIN stdout \/ \E l \in DOMAIN r.out : stdout'[k] = r.out[l]
          BY <1>2 DEF Joins
        <5>2. k \notin DOMAIN stdout
          BY <1>1, <1>2, <4>0, <4>2 DEF Joins, DoneInv
        <5> QED  BY <3>3, <5>1, <5>2 DEF p
      <4> QED  BY <4>0, <4>2, <4>3
    <3> QED  BY <1>4, <3>1, <3>2, <3>3, CodexNews
  <2> QED  BY <2>1, <2>2
<1> QED  BY <1>1, <1>3, <1>4, SameWords DEF CodexInv

-----------------------------------------------------------------------------
(* What Codex does for its compaction: nothing; it will run it; it starts    *)
(* the turn; or it says its end, once.                                       *)
PackIdles(r) ==
  /\ native'.compacting = native.compacting
  /\ \A j \in DOMAIN r.out : ~PackStart(r.out[j]) /\ ~PackEnd(r.out[j])
PackAsks(r) ==
  /\ stdin # <<>> /\ stdin' = Tail(stdin) /\ IsPack(stdin[1]) /\ native'.compacting = "asked"
  /\ \A j \in DOMAIN r.out : ~PackStart(r.out[j]) /\ ~PackEnd(r.out[j])
PackStarts(r) ==
  /\ native.compacting = "asked" /\ native'.compacting = "turn" /\ stdin' = stdin
  /\ \A j \in DOMAIN r.out : ~PackEnd(r.out[j])
PackEnds(r) ==
  /\ native'.compacting = "no"
  /\ \/ native.compacting # "no" /\ stdin' = stdin
     \/ stdin # <<>> /\ stdin' = Tail(stdin) /\ IsPack(stdin[1])
  /\ \A j \in DOMAIN r.out : j = 1 /\ ~PackStart(r.out[j])

(* What it does is one of these.                                             *)
LEMMA CodexCompacts ==
  ASSUME IInv, SInv, kind = "codex", NEW r, Acts(r)
  PROVE  PackIdles(r) \/ PackAsks(r) \/ PackStarts(r) \/ PackEnds(r)
<1>1. /\ native \in CodexNatives /\ FramesInv /\ PackPipes /\ native' = r.native
      /\ None \notin Prompts /\ "compaction" \notin Prompts
  BY NamesAssumption DEF IInv, TypeInv, NativeOK, SInv, PackInv, Acts
<1> DEFINE m == stdin[1]
<1>2. CASE /\ stdin # <<>> /\ stdin' = Tail(stdin) /\ m \in Frames /\ 1 \in DOMAIN stdin
           /\ r \in Takes(m)
  <2>1. Framed(m) /\ m.ref \in Refs
    BY <1>1, <1>2 DEF FramesInv, Frames
  <2>2. CASE CodexRests(m, r) /\ IsPack(m)
    <3>1. native.compacting = "no"
      BY <1>1, <1>2, <2>2 DEF PackPipes
    <3>2. \A j \in DOMAIN r.out : j = 1 /\ r.out[j].type = "response"
      BY <2>2 DEF CodexRests, OkTo, ErrorTo, Msg
    <3> QED  BY <1>1, <1>2, <2>2, <3>1, <3>2 DEF PackEnds, CodexRests, PackStart
  <2>3. CASE CodexRests(m, r) /\ ~IsPack(m)
    <3>1. m.id # <<"compact", 1>>
      BY <1>2, <2>1, <2>3 DEF Framed, IsPack
    <3>2. \A j \in DOMAIN r.out : ~PackStart(r.out[j]) /\ ~PackEnd(r.out[j])
      BY <2>3, <3>1 DEF CodexRests, PackStart, PackEnd, OkTo, ErrorTo, Msg
    <3> QED  BY <1>1, <2>3, <3>2 DEF PackIdles, CodexRests
  <2>4. CASE CodexBegins(m, r)
    <3>1. m.ref \in Prompts
      BY <2>1, <2>4 DEF Framed, Carries, CodexBegins
    <3>2. \A j \in DOMAIN r.out : ~PackStart(r.out[j]) /\ ~PackEnd(r.out[j])
      BY <1>1, <2>4, <3>1 DEF CodexBegins, PackStart, PackEnd, OkTo, Msg
    <3> QED  BY <1>1, <2>4, <3>2 DEF PackIdles, CodexBegins
  <2>5. CASE CodexStops(m, r)
    <3>1. m.ref # "compaction"
      BY <1>1, <2>1, <2>5 DEF Refs, Absent, CodexStops
    <3>2. \A j \in DOMAIN r.out : ~PackStart(r.out[j]) /\ ~PackEnd(r.out[j])
      BY <1>1, <2>5, <3>1 DEF CodexStops, PackStart, PackEnd, OkTo, Msg
    <3> QED  BY <1>1, <2>5, <3>2 DEF PackIdles, CodexStops
  <2>6. CASE CodexPacks(m, r)
    <3>1. \A j \in DOMAIN r.out : ~PackStart(r.out[j]) /\ ~PackEnd(r.out[j])
      BY <2>6 DEF CodexPacks, PackStart, PackEnd, OkTo, Msg
    <3> QED  BY <1>1, <1>2, <2>6, <3>1 DEF PackAsks, CodexPacks
  <2> QED  BY <1>1, <1>2, <2>2, <2>3, <2>4, <2>5, <2>6, CodexTaking
<1>3. CASE stdin' = stdin /\ r \in Works
  <2>1. CASE CodexShells(r)
    <3>1. \A j \in DOMAIN r.out : ~PackStart(r.out[j]) /\ ~PackEnd(r.out[j])
      BY <2>1, Elements DEF CodexShells, PackStart, PackEnd, Msg
    <3> QED  BY <1>1, <2>1, <3>1 DEF PackIdles, CodexShells
  <2>2. CASE CodexEnds(r)
    <3>1. PICK s : r.out = <<Msg("turn/completed", None, native.turn, s)>>
      BY <2>2 DEF CodexEnds
    <3>2. \A j \in DOMAIN r.out : ~PackStart(r.out[j]) /\ ~PackEnd(r.out[j])
      BY <2>2, <3>1, Elements DEF CodexEnds, PackStart, PackEnd, Msg
    <3> QED  BY <1>1, <2>2, <3>2 DEF PackIdles, CodexEnds
  <2>3. CASE CodexStarts(r)
    <3>1. \A j \in DOMAIN r.out : ~PackEnd(r.out[j])
      BY <2>3, Elements DEF CodexStarts, PackEnd, Msg
    <3> QED  BY <1>1, <1>3, <2>3, <3>1 DEF PackStarts, CodexStarts
  <2>4. CASE CodexPacked(r)
    <3>1. \A j \in DOMAIN r.out : j = 1 /\ ~PackStart(r.out[j])
      BY <2>4, CodexEndings DEF PackStart
    <3> QED  BY <1>1, <1>3, <2>4, <3>1 DEF PackEnds, CodexPacked
  <2> QED  BY <1>1, <1>3, <2>1, <2>2, <2>3, <2>4, CodexWorking
<1> QED  BY <1>2, <1>3 DEF Acts

(* Codex keeps the order of what it says of its compaction.                  *)
LEMMA PackActs ==
  ASSUME IInv, SInv, kind = "codex", NEW r, Acts(r) PROVE PackPipes'
<1>1. /\ adapter' = adapter /\ stdout' = stdout \o r.out
      /\ r.out \in Seq(Messages) /\ stdout \in Seq(Messages) /\ stdin \in Seq(Frames)
      /\ Fewer /\ PackPipes /\ native \in CodexNatives
  BY DEF Acts, IInv, TypeInv, PipesOK, SInv, PackInv, Fewer, NativeOK
<1>2. /\ Len(stdout) \in Nat /\ DOMAIN stdout = 1..Len(stdout)
      /\ \A i \in DOMAIN stdout : i \in DOMAIN stdout' /\ stdout'[i] = stdout[i]
      /\ \A i \in DOMAIN stdout' : \/ i \in DOMAIN stdout /\ stdout'[i] = stdout[i]
                                   \/ \E j \in DOMAIN r.out : /\ i = Len(stdout) + j
                                                              /\ stdout'[i] = r.out[j]
      /\ DOMAIN r.out \subseteq Nat \ {0}
  BY <1>1, Joined DEF Joins
<1>3. PICK k \in 0..1 : \A i \in DOMAIN stdin' : i + k \in DOMAIN stdin /\ stdin'[i] = stdin[i + k]
  BY <1>1, FewerLeft
<1>4. DOMAIN stdin \subseteq Nat \ {0} /\ DOMAIN stdin' \subseteq Nat
  <2>1. stdin' \in Seq(Frames)
    BY <1>1, HeadTailProperties DEF Fewer
  <2> QED  BY <1>1, <2>1, LenProperties
<1>5. stdin # <<>> /\ stdin' = Tail(stdin) =>
        /\ 1 \in DOMAIN stdin
        /\ \A i \in DOMAIN stdin' : i + 1 # 1 /\ i + 1 \in DOMAIN stdin /\ stdin'[i] = stdin[i + 1]
  <2>1. stdin # <<>> /\ stdin' = Tail(stdin) => Drops(stdin, stdin')
    BY <1>1, Shifted
  <2> QED  BY <2>1 DEF Drops
<1>6. CASE PackIdles(r)
  <2>1. \A i \in DOMAIN stdout' : PackStart(stdout'[i]) \/ PackEnd(stdout'[i]) =>
          i \in DOMAIN stdout /\ stdout'[i] = stdout[i]
    BY <1>2, <1>6 DEF PackIdles
  <2>2. \A i \in DOMAIN stdin' : IsPack(stdin'[i]) =>
          /\ native'.compacting = "no" /\ adapter'.compaction # None
          /\ \A j \in DOMAIN stdin' : IsPack(stdin'[j]) => j = i
          /\ \A j \in DOMAIN stdout' : ~PackStart(stdout'[j]) /\ ~PackEnd(stdout'[j])
    <3> SUFFICES ASSUME NEW i \in DOMAIN stdin', IsPack(stdin'[i])
                 PROVE  /\ native'.compacting = "no" /\ adapter'.compaction # None
                        /\ \A j \in DOMAIN stdin' : IsPack(stdin'[j]) => j = i
                        /\ \A j \in DOMAIN stdout' : ~PackStart(stdout'[j]) /\ ~PackEnd(stdout'[j])
      OBVIOUS
    <3>1. i + k \in DOMAIN stdin /\ IsPack(stdin[i + k])
      BY <1>3
    <3>2. \A j \in DOMAIN stdin' : IsPack(stdin'[j]) => j + k = i + k
      BY <1>1, <1>3, <3>1 DEF PackPipes
    <3>3. \A j \in DOMAIN stdin' : j + k = i + k => j = i
      BY <1>4
    <3> QED  BY <1>1, <1>6, <2>1, <3>1, <3>2, <3>3 DEF PackPipes, PackIdles
  <2>3. native'.compacting # "no" =>
          adapter'.compaction # None /\ \A j \in DOMAIN stdout' : ~PackEnd(stdout'[j])
    BY <1>1, <1>6, <2>1 DEF PackPipes, PackIdles
  <2>4. native'.compacting = "asked" => \A j \in DOMAIN stdout' : ~PackStart(stdout'[j])
    BY <1>1, <1>6, <2>1 DEF PackPipes, PackIdles
  <2>5. \A i \in DOMAIN stdout' : PackEnd(stdout'[i]) =>
          /\ adapter'.compaction # None
          /\ \A j \in DOMAIN stdout' : /\ PackEnd(stdout'[j]) => j = i
                                       /\ PackStart(stdout'[j]) => j < i
    BY <1>1, <2>1 DEF PackPipes
  <2>6. \A i \in DOMAIN stdout' : PackStart(stdout'[i]) => adapter'.compaction # None
    BY <1>1, <2>1 DEF PackPipes
  <2> QED  BY <2>2, <2>3, <2>4, <2>5, <2>6 DEF PackPipes, IsPack, PackStart, PackEnd
<1>7. CASE PackAsks(r)
  <2>1. \A i \in DOMAIN stdin' : ~IsPack(stdin'[i])
    BY <1>1, <1>5, <1>7 DEF PackPipes, PackAsks
  <2>2. adapter'.compaction # None /\ native'.compacting = "asked"
    BY <1>1, <1>5, <1>7 DEF PackPipes, PackAsks
  <2>3. \A j \in DOMAIN stdout' : ~PackStart(stdout'[j]) /\ ~PackEnd(stdout'[j])
    BY <1>1, <1>2, <1>5, <1>7 DEF PackPipes, PackAsks
  <2> QED  BY <2>1, <2>2, <2>3 DEF PackPipes, IsPack, PackStart, PackEnd
<1>8. CASE PackStarts(r)
  <2>1. \A i \in DOMAIN stdin' : ~IsPack(stdin'[i])
    BY <1>1, <1>8 DEF PackPipes, PackStarts
  <2>2. adapter'.compaction # None /\ native'.compacting = "turn"
    BY <1>1, <1>8 DEF PackPipes, PackStarts
  <2>3. \A j \in DOMAIN stdout' : ~PackEnd(stdout'[j])
    BY <1>1, <1>2, <1>8 DEF PackPipes, PackStarts
  <2> QED  BY <2>1, <2>2, <2>3 DEF PackPipes, IsPack, PackStart, PackEnd
<1>9. CASE PackEnds(r)
  <2>1. \A i \in DOMAIN stdin' : ~IsPack(stdin'[i])
    BY <1>1, <1>5, <1>9 DEF PackPipes, PackEnds
  <2>2. adapter'.compaction # None /\ native'.compacting = "no"
    BY <1>1, <1>5, <1>9 DEF PackPipes, PackEnds
  <2>3. \A j \in DOMAIN stdout : ~PackEnd(stdout[j])
    BY <1>1, <1>5, <1>9 DEF PackPipes, PackEnds
  <2>4. \A i \in DOMAIN stdout' : PackStart(stdout'[i]) => i \in DOMAIN stdout
    BY <1>2, <1>9 DEF PackEnds
  <2>5. \A i \in DOMAIN stdout' : PackEnd(stdout'[i]) => i = Len(stdout) + 1
    BY <1>2, <1>9, <2>3 DEF PackEnds
  <2>6. \A i, j \in DOMAIN stdout' : PackEnd(stdout'[i]) /\ PackStart(stdout'[j]) => j < i
    BY <1>2, <2>4, <2>5
  <2> QED  BY <2>1, <2>2, <2>5, <2>6 DEF PackPipes, IsPack, PackStart, PackEnd
<1> QED  BY <1>6, <1>7, <1>8, <1>9, CodexCompacts

(* What a step of the program keeps by leaving the session, the Handle and   *)
(* the driver alone.                                                         *)
LEMMA ActsKeep ==
  ASSUME IInv, SInv, NEW r, Acts(r)
  PROVE  /\ AskedInv' /\ (kind = "codex" => PackCalls' /\ PackSession')
         /\ Queue' = Queue /\ (\A p : Over(p)' <=> Over(p))
<1>1. /\ kind' = kind /\ adapter' = adapter /\ progress' = progress /\ after' = after
      /\ ops' = ops /\ calls' = calls /\ turn' = turn /\ compaction' = compaction
      /\ exited' = exited /\ events' = events /\ outbox' = outbox
  BY DEF Acts
<1>2. Queue' = Queue
  BY <1>1, SameQueue
<1>3. AskedInv'
  BY <1>1 DEF SInv, AskedInv
<1>4. (PackComing' <=> PackComing) /\ (PackLive' <=> PackLive)
  BY <1>1 DEF PackLive, PackComing
<1>5. kind = "codex" => PackCalls' /\ PackSession'
  BY <1>1, <1>2, <1>4 DEF SInv, PackInv, PackCalls, PackSession, Unfinished
<1>6. \A p : Over(p)' <=> Over(p)
  BY <1>1, <1>2 DEF Over
<1> QED  BY <1>2, <1>3, <1>5, <1>6

(* Codex at work.                                                            *)
LEMMA CodexActs ==
  ASSUME IInv, SInv, Steady, kind = "codex", NEW r, Acts(r) PROVE SInv'
<1>1. kind' = kind
  BY DEF Acts
<1>2. FramesInv' /\ TokenInv' /\ DoneInv'
  BY CodexMoves, MovesKeep
<1>3. AskedInv' /\ PackInv' /\ CodexInv'
  BY ActsKeep, PackActs, CodexTurns DEF PackInv
<1>4. PiInv' /\ QueueInv' /\ ReplyInv' /\ OverInv' /\ CursorInv'
  BY <1>1 DEF PiInv, QueueInv, ReplyInv, OverInv, CursorInv
<1> QED  BY <1>2, <1>3, <1>4 DEF SInv

-----------------------------------------------------------------------------
(* What Pi does: it goes on, rests, or begins with the prompt of a frame; it *)
(* remembers the compaction it was asked for; and each of its answers is     *)
(* about the frame.                                                          *)
PiGoesOn(r) == \/ /\ r.native.ref = native.ref
                  /\ r.native.run = "idle" => native.run = "idle"
               \/ r.native.ref = None
PiKeeps(m, r) ==
  /\ \/ PiGoesOn(r)
     \/ m.method = "prompt" /\ r.native.ref = m.ref /\ r.native.run = "running"
  /\ \/ r.native.compact = native.compact
     \/ m.method = "compact" /\ r.native.compact = m.id
PiAnswers(m, r) ==
  \A i \in DOMAIN r.out : r.out[i].type = "response" =>
    /\ r.out[i].id = m.id
    /\ m.method = "get_state" /\ r.out[i].ref = "idle" => native.run = "idle" /\ r.native = native
    /\ Carries(m) /\ r.out[i].status # "ok" => r.native = native

(* Pi taking a frame.                                                        *)
LEMMA PiTaking ==
  ASSUME kind = "pi", native \in PiNatives, NEW m \in Frames, NEW r \in Takes(m)
  PROVE  PiKeeps(m, r) /\ PiAnswers(m, r)
<1> DEFINE n == native
           said(t) == Msg(t, None, None, None)
           last == Msg("message_end", None, None, "interrupted")
           ok == Msg("response", m.id, None, "ok")
           error == Msg("response", m.id, None, "error")
           state(w) == Msg("response", m.id, w, "ok")
           only(k, out) == [native |-> k, out |-> out]
<1>1. r \in Pi!Takes(n, m)
  BY DEF Takes
<1>2. /\ Pi!Ok(m) = ok /\ Pi!Error(m) = error /\ \A t : Pi!Says(t) = said(t)
      /\ Pi!Said("interrupted") = last
      /\ Pi!Msg("response", m.id, "busy", "ok") = state("busy")
      /\ Pi!Msg("response", m.id, "idle", "ok") = state("idle")
  BY PiWords DEF Pi!Ok, Pi!Error, Pi!Says, Pi!Said
<1>3. \A k, out : Pi!Only(k, out) = only(k, out)
  BY DEF Pi!Only
<1>4. /\ ok.type = "response" /\ ok.id = m.id /\ ok.status = "ok"
      /\ error.type = "response" /\ error.id = m.id
      /\ \A w : /\ state(w).type = "response" /\ state(w).id = m.id /\ state(w).ref = w
                /\ state(w).status = "ok"
      /\ last.type # "response" /\ \A t : said(t).type = t
  BY DEF Msg
<1> HIDE DEF said, last, ok, error, state
<1>5. CASE m.method = "prompt"
  <2> DEFINE begun == [n EXCEPT !.run = "running", !.ref = m.ref, !.retried = FALSE]
  <2>0. begun.run = "running" /\ begun.ref = m.ref /\ begun.compact = n.compact
    BY DEF PiNatives
  <2>1. \/ r.native = n /\ r.out \in {<<error>>, <<ok>>, <<said("extension_error"), ok>>}
        \/ r.native = begun /\ r.out = <<ok, said("agent_start")>>
    BY <1>1, <1>2, <1>3, <1>5 DEF Pi!Takes, Pi!TakesPrompt
  <2> HIDE DEF begun
  <2>2. PiKeeps(m, r)
    BY <1>5, <2>0, <2>1 DEF PiKeeps, PiGoesOn
  <2>3. CASE r.native = n /\ r.out \in {<<error>>, <<ok>>, <<said("extension_error"), ok>>}
    <3>1. \A i \in DOMAIN r.out : r.out[i] \in {error, ok, said("extension_error")}
      BY <2>3, Elements
    <3> QED  BY <1>4, <1>5, <2>2, <2>3, <3>1 DEF PiAnswers, Carries
  <2>4. CASE r.native = begun /\ r.out = <<ok, said("agent_start")>>
    <3>1. \A i \in DOMAIN r.out : r.out[i] \in {ok, said("agent_start")}
      BY <2>4, Elements
    <3> QED  BY <1>4, <1>5, <2>2, <3>1 DEF PiAnswers, Carries
  <2> QED  BY <2>1, <2>3, <2>4
<1>6. CASE m.method \in {"steer", "clear_queue", "compact"}
  <2>0. /\ [n EXCEPT !.queued = TRUE].ref = n.ref /\ [n EXCEPT !.queued = TRUE].run = n.run
        /\ [n EXCEPT !.queued = TRUE].compact = n.compact
        /\ [n EXCEPT !.queued = FALSE].ref = n.ref /\ [n EXCEPT !.queued = FALSE].run = n.run
        /\ [n EXCEPT !.queued = FALSE].compact = n.compact
        /\ [n EXCEPT !.compact = m.id].ref = n.ref /\ [n EXCEPT !.compact = m.id].run = n.run
        /\ [n EXCEPT !.compact = m.id].compact = m.id
    BY DEF PiNatives
  <2>1. /\ \/ r.native \in {n, [n EXCEPT !.queued = TRUE], [n EXCEPT !.queued = FALSE]}
           \/ r.native = [n EXCEPT !.compact = m.id] /\ m.method = "compact"
        /\ r.out \in {<<error>>, <<ok>>, <<>>}
    BY <1>1, <1>2, <1>3, <1>6 DEF Pi!Takes
  <2>2. PiKeeps(m, r)
    BY <2>0, <2>1 DEF PiKeeps, PiGoesOn
  <2>3. \A i \in DOMAIN r.out : r.out[i] \in {error, ok}
    BY <2>1, Elements
  <2> QED  BY <1>4, <1>6, <2>2, <2>3 DEF PiAnswers, Carries
<1>7. CASE m.method = "abort"
  <2>0. /\ [n EXCEPT !.run = "running", !.queued = FALSE].ref = n.ref
        /\ [n EXCEPT !.run = "running", !.queued = FALSE].run = "running"
        /\ [n EXCEPT !.run = "running", !.queued = FALSE].compact = n.compact
        /\ Pi!Rest(n).ref = None /\ Pi!Rest(n).compact = n.compact
    BY DEF PiNatives, Pi!Rest
  <2>1. /\ r.native \in {n, [n EXCEPT !.run = "running", !.queued = FALSE], Pi!Rest(n)}
        /\ r.out \in {<<ok>>, <<said("agent_settled"), ok>>, <<last, said("agent_settled"), ok>>}
    BY <1>1, <1>2, <1>3, <1>7 DEF Pi!Takes
  <2>2. PiKeeps(m, r)
    BY <2>0, <2>1 DEF PiKeeps, PiGoesOn
  <2>3. \A i \in DOMAIN r.out : r.out[i] \in {ok, last, said("agent_settled")}
    BY <2>1, Elements
  <2> QED  BY <1>4, <1>7, <2>2, <2>3 DEF PiAnswers, Carries
<1>8. CASE m.method = "get_state"
  <2>1. /\ r.native = n
        /\ r.out = <<state("busy")>> \/ (r.out = <<state("idle")>> /\ n.run = "idle")
    BY <1>1, <1>2, <1>3, <1>8 DEF Pi!Takes, Pi!Busy
  <2>2. PiKeeps(m, r)
    BY <2>1 DEF PiKeeps, PiGoesOn
  <2>3. \A i \in DOMAIN r.out : \/ r.out[i] = state("busy")
                                \/ r.out[i] = state("idle") /\ n.run = "idle"
    BY <2>1, Elements
  <2> QED  BY <1>4, <1>8, <2>1, <2>2, <2>3 DEF PiAnswers, Carries
<1>9. CASE m.method \notin {"prompt", "steer", "clear_queue", "compact", "abort", "get_state"}
  <2>1. r.native = n /\ r.out = <<ok>>
    BY <1>1, <1>2, <1>3, <1>9 DEF Pi!Takes
  <2>2. \A i \in DOMAIN r.out : r.out[i] = ok
    BY <2>1, Elements
  <2> QED  BY <1>4, <1>9, <2>1, <2>2 DEF PiAnswers, PiKeeps, PiGoesOn
<1> QED  BY <1>5, <1>6, <1>7, <1>8, <1>9

(* Pi by itself.                                                             *)
LEMMA PiWorking ==
  ASSUME kind = "pi", native \in PiNatives, NEW r \in Works
  PROVE  /\ PiGoesOn(r) /\ r.native.compact \in {native.compact, None}
         /\ \A i \in DOMAIN r.out : r.out[i].type = "response" =>
              native.compact # None /\ r.out[i].id = native.compact
<1> DEFINE n == native
           emptier == [n EXCEPT !.queued = FALSE]
           rests == [n EXCEPT !.run = "idle", !.ref = None]
           packing == [n EXCEPT !.run = "compacting", !.retried = TRUE]
           again == [n EXCEPT !.run = "running"]
           packed == [n EXCEPT !.compact = None]
           said(t) == Msg(t, None, None, None)
           last(x) == Msg("message_end", None, None, x)
           answer(x) == Msg("response", n.compact, None, x)
           only(k, out) == [native |-> k, out |-> out]
<1>1. /\ emptier.ref = n.ref /\ emptier.run = n.run /\ emptier.compact = n.compact
      /\ rests.ref = None /\ rests.compact = n.compact
      /\ packing.ref = n.ref /\ packing.run = "compacting" /\ packing.compact = n.compact
      /\ again.ref = n.ref /\ again.run = "running" /\ again.compact = n.compact
      /\ packed.ref = n.ref /\ packed.run = n.run /\ packed.compact = None
  BY DEF PiNatives
<1>2. /\ \A x : last(x).type # "response" /\ answer(x).id = n.compact
      /\ said("agent_settled").type # "response" /\ said("agent_start").type # "response"
  BY DEF Msg
<1>5. \/ r = only(emptier, <<>>)
      \/ \E x \in {"completed", "failed"} : r = only(rests, <<last(x), said("agent_settled")>>)
      \/ r = only(packing, <<said("agent_settled")>>)
      \/ r = only(again, <<said("agent_start")>>)
      \/ n.compact # None /\ \E x \in {"ok", "error"} : r = only(packed, <<answer(x)>>)
  <2>1. r \in Pi!Works(n)
    BY DEF Works
  <2>2. /\ Pi!Rest(n) = rests /\ \A t : Pi!Says(t) = said(t) /\ \A x : Pi!Said(x) = last(x)
        /\ \A x : Pi!Msg("response", n.compact, None, x) = answer(x)
    BY PiWords DEF Pi!Says, Pi!Said, Pi!Rest
  <2>3. \A k, out : Pi!Only(k, out) = only(k, out)
    BY DEF Pi!Only
  <2> HIDE DEF only, said, last, answer, rests
  <2>4. \/ r \in {only([n EXCEPT !.queued = FALSE], <<>>), only(packing, <<said("agent_settled")>>),
                  only(again, <<said("agent_start")>>)}
        \/ r \in {only(rests, <<last(x), said("agent_settled")>>) : x \in {"completed", "failed"}}
        \/ n.compact # None /\ r \in {only(packed, <<answer(x)>>) : x \in {"ok", "error"}}
    BY <2>1, <2>2, <2>3 DEF Pi!Works
  <2> QED  BY <2>4
<1> HIDE DEF emptier, rests, packing, again, packed, said, last, answer
<1>6. CASE r = only(emptier, <<>>)
  <2>1. r.native = emptier /\ r.out = <<>>
    BY <1>6
  <2> QED  BY <1>1, <2>1, Elements DEF PiGoesOn
<1>7. CASE \E x \in {"completed", "failed"} : r = only(rests, <<last(x), said("agent_settled")>>)
  <2>1. PICK x : r.native = rests /\ r.out = <<last(x), said("agent_settled")>>
    BY <1>7
  <2>2. \A i \in DOMAIN r.out : r.out[i] \in {last(x), said("agent_settled")}
    BY <2>1, Elements
  <2> QED  BY <1>1, <1>2, <2>1, <2>2 DEF PiGoesOn
<1>8. CASE r = only(packing, <<said("agent_settled")>>)
  <2>1. r.native = packing /\ r.out = <<said("agent_settled")>>
    BY <1>8
  <2>2. \A i \in DOMAIN r.out : r.out[i] = said("agent_settled")
    BY <2>1, Elements
  <2> QED  BY <1>1, <1>2, <2>1, <2>2 DEF PiGoesOn
<1>9. CASE r = only(again, <<said("agent_start")>>)
  <2>1. r.native = again /\ r.out = <<said("agent_start")>>
    BY <1>9
  <2>2. \A i \in DOMAIN r.out : r.out[i] = said("agent_start")
    BY <2>1, Elements
  <2> QED  BY <1>1, <1>2, <2>1, <2>2 DEF PiGoesOn
<1>10. CASE n.compact # None /\ \E x \in {"ok", "error"} : r = only(packed, <<answer(x)>>)
  <2>1. PICK x : r.native = packed /\ r.out = <<answer(x)>>
    BY <1>10
  <2>2. \A i \in DOMAIN r.out : r.out[i] = answer(x)
    BY <2>1, Elements
  <2> QED  BY <1>1, <1>2, <1>10, <2>1, <2>2 DEF PiGoesOn
<1> QED  BY <1>5, <1>6, <1>7, <1>8, <1>9, <1>10

(* Pi lets go of a prompt that it refuses or was found idle with.            *)
LEMMA PiMoves ==
  ASSUME IInv, SInv, kind = "pi", NEW r, Acts(r) PROVE Moves(r.out)
<1>1. /\ kind' = kind /\ progress' = progress /\ native' = r.native /\ Fewer
      /\ stdout' = stdout \o r.out /\ r.out \in Seq(Messages)
      /\ NativeTurns = {native.ref} /\ NativeTurns' = {r.native.ref}
  BY DEF Acts, Fewer, NativeTurns
<1>2. native \in PiNatives /\ TokenInv /\ FramesInv /\ PiInv /\ None \notin Prompts
      /\ stdin \in Seq(Frames)
  BY NamesAssumption DEF IInv, TypeInv, NativeOK, PipesOK, SInv
<1> DEFINE m == stdin[1]
<1> SUFFICES /\ \A p \in Prompts : p = r.native.ref => p = native.ref \/ Took(p)
             /\ \A i \in DOMAIN r.out : \A p \in Prompts : Final(r.out[i], p) =>
                  /\ p # r.native.ref
                  /\ p = native.ref \/ Took(p) \/ Past(p)
  BY <1>1 DEF Moves
<1>3. CASE /\ stdin # <<>> /\ stdin' = Tail(stdin) /\ m \in Frames /\ 1 \in DOMAIN stdin
           /\ r \in Takes(m)
  <2>1. Framed(m) /\ \A p : Carries(m) /\ m.ref = p => Took(p)
    BY <1>2, <1>3 DEF FramesInv, Took
  <2>2. \A p \in Prompts : p = native.ref => ~Carries(m)
    BY <1>1, <1>2, <1>3 DEF TokenInv
  <2>3. PiKeeps(m, r) /\ PiAnswers(m, r)
    BY <1>2, <1>3, PiTaking
  <2>4. \A p \in Prompts : p = r.native.ref => p = native.ref \/ Took(p)
    BY <1>2, <2>1, <2>3 DEF PiKeeps, PiGoesOn, Carries
  <2>5. ASSUME NEW i \in DOMAIN r.out, NEW p \in Prompts, Final(r.out[i], p)
        PROVE  p # r.native.ref /\ (Took(p) \/ Past(p))
    <3>1. r.out[i].type = "response" /\ r.out[i].id = m.id
      BY <2>3, <2>5 DEF Final, PiAnswers
    <3>2. CASE m.id = PromptCall(p) /\ r.out[i].status # "ok"
      <4>1. Carries(m) /\ m.ref = p
        BY <2>1, <3>2, Named
      <4>2. r.native = native
        BY <2>3, <3>1, <3>2, <4>1 DEF PiAnswers
      <4> QED  BY <2>1, <2>2, <4>1, <4>2
    <3>3. CASE m.id = <<"settled", PromptCall(p)>> /\ r.out[i].ref = "idle"
      <4>1. m.method = "get_state"
        BY <2>1, <3>3 DEF Framed
      <4>2. native.run = "idle" /\ r.native = native
        BY <2>3, <3>1, <3>3, <4>1 DEF PiAnswers
      <4>3. native.ref = None
        BY <1>2, <4>2 DEF PiInv
      <4>4. ~Coming(p) /\ \A j \in DOMAIN stdin : Carries(stdin[j]) /\ stdin[j].ref = p => j < 1
        BY <1>2, <1>3, <3>3 DEF PiInv
      <4>5. DOMAIN stdin \subseteq Nat \ {0}
        BY <1>2, LenProperties
      <4>6. ~Written(p)
        BY <4>4, <4>5, WrittenCarries
      <4> QED  BY <1>1, <1>2, <4>2, <4>3, <4>4, <4>6 DEF Past, Holds
    <3> QED  BY <2>5, <3>1, <3>2, <3>3 DEF Final
  <2> QED  BY <2>4, <2>5
<1>4. CASE stdin' = stdin /\ r \in Works
  <2>1. PiGoesOn(r)
    BY <1>2, <1>4, PiWorking
  <2>2. \A i \in DOMAIN r.out : r.out[i].type = "response" =>
          native.compact # None /\ r.out[i].id = native.compact
    BY <1>2, <1>4, PiWorking
  <2>3. \A i \in DOMAIN r.out : \A p \in Prompts : ~Final(r.out[i], p)
    BY <1>2, <1>4, <2>2 DEF Final, PiInv
  <2> QED  BY <1>2, <2>1, <2>3 DEF PiGoesOn
<1> QED  BY <1>3, <1>4 DEF Acts

(* What Pi was asked is still on its way in the same order.                  *)
LEMMA PiProbes ==
  ASSUME IInv, SInv, Steady, kind = "pi", NEW r, Acts(r) PROVE PiInv'
<1>1. /\ kind' = kind /\ progress' = progress /\ adapter' = adapter /\ native' = r.native
      /\ native \in PiNatives /\ FramesInv /\ PiInv /\ None \notin Prompts
      /\ stdin \in Seq(Frames) /\ Fewer
  BY NamesAssumption DEF Acts, Fewer, IInv, TypeInv, NativeOK, PipesOK, SInv
<1>2. /\ native'.run = "idle" => native'.ref = None
      /\ native'.compact # None => /\ native'.compact[1] # "settled"
                                   /\ \A p \in Prompts : native'.compact # PromptCall(p)
  <2>1. CASE stdin # <<>> /\ stdin[1] \in Frames /\ 1 \in DOMAIN stdin /\ r \in Takes(stdin[1])
    <3>1. PiKeeps(stdin[1], r) /\ Framed(stdin[1])
      BY <1>1, <2>1, PiTaking DEF FramesInv
    <3>2. stdin[1].method = "compact" => /\ stdin[1].id[1] # "settled"
                                         /\ \A p \in Prompts : stdin[1].id # PromptCall(p)
      BY <1>1, <3>1 DEF Framed, Carries
    <3> QED  BY <1>1, <3>1, <3>2 DEF PiKeeps, PiGoesOn, PiInv
  <2>2. CASE r \in Works
    <3>1. PiGoesOn(r) /\ r.native.compact \in {native.compact, None}
      BY <1>1, <2>2, PiWorking
    <3> QED  BY <1>1, <3>1 DEF PiGoesOn, PiInv
  <2> QED  BY <2>1, <2>2 DEF Acts
<1>3. PICK k \in 0..1 : \A i \in DOMAIN stdin' : i + k \in DOMAIN stdin /\ stdin'[i] = stdin[i + k]
  BY <1>1, FewerLeft
<1>4. DOMAIN stdin' \subseteq Nat
  <2>1. stdin' \in Seq(Frames)
    BY <1>1, HeadTailProperties DEF Fewer
  <2> QED  BY <2>1, LenProperties
<1>5. ASSUME NEW i \in DOMAIN stdin', NEW p \in Prompts, stdin'[i].id = <<"settled", PromptCall(p)>>
      PROVE  /\ ~Coming(p)'
             /\ \A j \in DOMAIN stdin' : Carries(stdin'[j]) /\ stdin'[j].ref = p => j < i
  <2>1. i + k \in DOMAIN stdin /\ stdin[i + k].id = <<"settled", PromptCall(p)>>
    BY <1>3, <1>5
  <2>2. ~Coming(p) /\ \A j \in DOMAIN stdin : Carries(stdin[j]) /\ stdin[j].ref = p => j < i + k
    BY <1>1, <2>1 DEF PiInv
  <2>3. \A j \in DOMAIN stdin' : Carries(stdin'[j]) /\ stdin'[j].ref = p => j + k < i + k
    BY <1>3, <2>2
  <2>4. \A j \in DOMAIN stdin' : j + k < i + k => j < i
    BY <1>4
  <2> QED  BY <2>2, <2>3, <2>4 DEF Steady
<1>6. adapter'.prompt # None => progress'.request # None
  BY <1>1 DEF PiInv
<1> QED  BY <1>1, <1>2, <1>5, <1>6, SameWords DEF PiInv, Carries

(* Pi at work.                                                               *)
LEMMA PiActs ==
  ASSUME IInv, SInv, Steady, kind = "pi", NEW r, Acts(r) PROVE SInv'
<1>1. kind' = kind
  BY DEF Acts
<1>2. FramesInv' /\ TokenInv' /\ DoneInv'
  BY PiMoves, MovesKeep
<1>3. AskedInv' /\ PiInv'
  BY ActsKeep, PiProbes
<1>4. PackInv' /\ CodexInv' /\ QueueInv' /\ ReplyInv' /\ OverInv' /\ CursorInv'
  BY <1>1 DEF PackInv, CodexInv, QueueInv, ReplyInv, OverInv, CursorInv
<1> QED  BY <1>2, <1>3, <1>4 DEF SInv

-----------------------------------------------------------------------------
(* The messages Claude has: the one at work and those in its queue.          *)
Has(u) == \/ native.turn # None /\ u = native.turn
          \/ \E i \in DOMAIN native.queue : u = native.queue[i]

(* What Claude does with a frame: it queues the message; it answers and goes *)
(* on; or it drops all that it has and says the end of each.                 *)
ClaudeQueues(m, r) ==
  /\ m.method \in {"prompt", "compact"} /\ r.native.turn = native.turn
  /\ r.native.queue = Append(native.queue, [id |-> m.id, ref |-> m.ref, method |-> m.method])
  /\ \A i \in DOMAIN r.out : r.out[i].type = "lifecycle" /\ r.out[i].status = "queued"
ClaudeRests(m, r) ==
  r.native = native /\ \A i \in DOMAIN r.out : r.out[i].id = m.id
ClaudeDrops(m, r) ==
  /\ r.native.queue = <<>> /\ r.native.turn = None
  /\ \A i \in DOMAIN r.out : r.out[i].id = m.id \/ \E u : Has(u) /\ r.out[i].id = u.id

(* A function on an initial segment is a sequence.                           *)
LEMMA Segment ==
  ASSUME NEW S, NEW n \in Nat, NEW f \in [1..n -> S] PROVE f \in Seq(S) /\ DOMAIN f = 1..n
BY SeqDef

(* The ends of the messages it has name them.                                *)
Opened == (IF native.turn = None THEN <<>> ELSE <<native.turn>>) \o native.queue
Ending == [i \in DOMAIN Opened |-> Claude!Result(Opened[i], "error")]

(* The results with which the program answers its turn name what it had.     *)
LEMMA Endings ==
  ASSUME kind = "claude", native \in ClaudeNatives
  PROVE  Ending \in Seq(Messages) /\ \A i \in DOMAIN Ending : \E u : Has(u) /\ Ending[i].id = u.id
<1> DEFINE first == IF native.turn = None THEN <<>> ELSE <<native.turn>>
           opened == Opened
           ends == Ending
<1>1. native.queue \in Seq(Users) /\ native.turn \in Users \cup Absent
  BY DEF ClaudeNatives
<1>2. /\ first \in Seq(Users)
      /\ \A i \in DOMAIN first : native.turn # None /\ first[i] = native.turn
  <2>1. CASE native.turn = None
    BY <2>1, Elements
  <2>2. CASE native.turn # None
    BY <1>1, <2>2, Elements, PairOK DEF Absent
  <2> QED  BY <2>1, <2>2
<1>3. Joins(first, native.queue, opened) /\ opened \in Seq(Users)
  BY <1>1, <1>2, Joined, ConcatProperties DEF Opened
<1> HIDE DEF first, opened
<1>4. \A i \in DOMAIN opened : Has(opened[i])
  BY <1>2, <1>3 DEF Joins, Has
<1>5. DOMAIN opened = 1..Len(opened) /\ Len(opened) \in Nat /\ \A i \in 1..Len(opened) : opened[i] \in Users
  BY <1>3, LenProperties
<1>6. \A u \in Users : Claude!Result(u, "error") \in Messages /\ Claude!Result(u, "error").id = u.id
  BY ClaudeWords DEF Claude!Result, Msg, Messages, Lines, Users, Names, Types, TurnRefs, Refs, Absent
<1>7. ends = [i \in DOMAIN opened |-> Claude!Result(opened[i], "error")]
  BY DEF Ending, opened
<1> HIDE DEF ends
<1>8. ends \in [1..Len(opened) -> Messages]
  BY <1>5, <1>6, <1>7
<1>9. ends \in Seq(Messages) /\ DOMAIN ends = DOMAIN opened
  BY <1>5, <1>8, Segment
<1>10. \A i \in DOMAIN ends : Has(opened[i]) /\ ends[i].id = opened[i].id
  BY <1>4, <1>5, <1>6, <1>7, <1>9
<1> QED  BY <1>9, <1>10 DEF ends

(* Claude taking a frame.                                                    *)
LEMMA ClaudeTaking ==
  ASSUME kind = "claude", native \in ClaudeNatives, NEW m \in Frames, NEW r \in Takes(m)
  PROVE  ClaudeQueues(m, r) \/ ClaudeRests(m, r) \/ ClaudeDrops(m, r)
<1> DEFINE n == native
           user == [id |-> m.id, ref |-> m.ref, method |-> m.method]
           rests == [n EXCEPT !.queue = <<>>, !.turn = None]
           ends == Ending
           longer == [n EXCEPT !.queue = Append(@, user)]
           control(s) == Claude!Control(m, s)
           life(s) == Claude!Lifecycle(user, s)
           result(s) == Claude!Result(user, s)
<1>1. /\ \A s : /\ control(s).id = m.id /\ life(s).id = m.id /\ result(s).id = m.id
                /\ life(s).type = "lifecycle" /\ life(s).status = s
      /\ control("success") \in Messages
  BY ClaudeWords DEF Claude!Control, Claude!Lifecycle, Claude!Result, Msg, Messages, Lines, Frames,
     Names, Types, TurnRefs, Refs, Absent
<1>2. /\ longer.queue = Append(n.queue, user) /\ longer.turn = n.turn
      /\ rests.queue = <<>> /\ rests.turn = None
  BY DEF ClaudeNatives
<1>3. ends \in Seq(Messages) /\ \A i \in DOMAIN ends : \E u : Has(u) /\ ends[i].id = u.id
  BY Endings
<1>4. r \in Claude!Takes(n, m)
  BY DEF Takes
<1>5. CASE m.method \in {"prompt", "compact"}
  <2>1. \/ r = [native |-> longer, out |-> <<life("queued")>>]
        \/ r = [native |-> n, out |-> <<life("rejected")>>]
    BY <1>4, <1>5 DEF Claude!Takes, Claude!Only
  <2> HIDE DEF life, longer
  <2>2. CASE r = [native |-> longer, out |-> <<life("queued")>>]
    <3>1. r.native = longer /\ \A i \in DOMAIN r.out : r.out[i] = life("queued")
      BY <2>2, Elements
    <3> QED  BY <1>1, <1>2, <1>5, <3>1 DEF ClaudeQueues
  <2>3. CASE r = [native |-> n, out |-> <<life("rejected")>>]
    <3>1. r.native = n /\ \A i \in DOMAIN r.out : r.out[i] = life("rejected")
      BY <2>3, Elements
    <3> QED  BY <1>1, <3>1 DEF ClaudeRests
  <2> QED  BY <2>1, <2>2, <2>3
<1>6. CASE m.method = "bootstrap"
  <2>1. \E s : r = [native |-> n, out |-> <<result(s)>>]
    <3>1. r \in {[native |-> n, out |-> <<result("success")>>],
                 [native |-> n, out |-> <<result("error")>>]}
      BY <1>4, <1>6 DEF Claude!Takes, Claude!Only
    <3> HIDE DEF n, result
    <3> QED  BY <3>1
  <2> HIDE DEF result
  <2>2. PICK s : r = [native |-> n, out |-> <<result(s)>>]
    BY <2>1
  <2>3. r.native = n /\ \A i \in DOMAIN r.out : r.out[i] = result(s)
    BY <2>2, Elements
  <2> QED  BY <1>1, <2>3 DEF ClaudeRests
<1>7. CASE m.method = "interrupt"
  <2>1. /\ r.native = rests
        /\ r.out = Append(ends, control("success")) \/ r.out = <<control("success")>> \o ends
    <3>1. r \in {[native |-> rests, out |-> Append(ends, control("success"))],
                 [native |-> rests, out |-> <<control("success")>> \o ends]}
      BY <1>4, <1>7 DEF Claude!Takes, Claude!Only, Ending, Opened
    <3> HIDE DEF rests, ends, control
    <3> QED  BY <3>1
  <2> HIDE DEF ends, rests, control
  <2>2. \A i \in DOMAIN r.out : \/ r.out[i] = control("success")
                                \/ \E j \in DOMAIN ends : r.out[i] = ends[j]
    <3> DEFINE one == <<control("success")>>
    <3>1. one \in Seq(Messages)
      BY <1>1, PairOK
    <3>2. Joins(ends, one, Append(ends, control("success"))) /\ Joins(one, ends, one \o ends)
      BY <1>1, <1>3, <3>1, Appended, Joined
    <3>3. \A i \in DOMAIN one : one[i] = control("success")
      BY Elements
    <3>4. r.out = Append(ends, control("success")) \/ r.out = one \o ends
      BY <2>1
    <3> HIDE DEF one
    <3>5. Joins(ends, one, r.out) \/ Joins(one, ends, r.out)
      BY <3>2, <3>4
    <3> QED  BY <3>3, <3>5 DEF Joins
  <2>3. control("success").id = m.id
    BY <1>1
  <2>4. \A i \in DOMAIN r.out : r.out[i].id = m.id \/ \E u : Has(u) /\ r.out[i].id = u.id
    BY <1>3, <2>2, <2>3
  <2>5. r.native.queue = <<>> /\ r.native.turn = None
    BY <1>2, <2>1
  <2> QED  BY <2>4, <2>5 DEF ClaudeDrops
<1>8. CASE m.method \notin {"prompt", "compact", "bootstrap", "interrupt"}
  <2>1. \E s : r = [native |-> n, out |-> <<control(s)>>]
    <3>1. r \in {[native |-> n, out |-> <<control("success")>>],
                 [native |-> n, out |-> <<control("error")>>]}
      BY <1>4, <1>8 DEF Claude!Takes, Claude!Only
    <3> HIDE DEF n, control
    <3> QED  BY <3>1
  <2> HIDE DEF control
  <2>2. PICK s : r = [native |-> n, out |-> <<control(s)>>]
    BY <2>1
  <2>3. r.native = n /\ \A i \in DOMAIN r.out : r.out[i] = control(s)
    BY <2>2, Elements
  <2> QED  BY <1>1, <2>3 DEF ClaudeRests
<1> QED  BY <1>5, <1>6, <1>7, <1>8

(* What Claude does by itself: it starts the next message, ends the one at   *)
(* work, or says that it has compacted.                                      *)
ClaudeStarts(r) ==
  /\ native.turn = None /\ native.queue # <<>>
  /\ r.native.turn = Head(native.queue) /\ r.native.queue = Tail(native.queue)
  /\ \A i \in DOMAIN r.out : r.out[i].type = "lifecycle" /\ r.out[i].status = "started"
ClaudeEnds(r) ==
  /\ native.turn # None /\ r.native.turn = None /\ r.native.queue = native.queue
  /\ \A i \in DOMAIN r.out : r.out[i].id = native.turn.id
ClaudePacks(r) ==
  /\ r.native.turn = native.turn /\ r.native.queue = native.queue
  /\ \A i \in DOMAIN r.out : r.out[i].type = "compact_boundary"

(* Claude by itself.                                                         *)
LEMMA ClaudeWorking ==
  ASSUME kind = "claude", native \in ClaudeNatives, NEW r \in Works
  PROVE  ClaudeStarts(r) \/ ClaudeEnds(r) \/ ClaudePacks(r)
<1> DEFINE n == native
<1>1. CASE n.turn = None
  <2> DEFINE next == [queue |-> Tail(n.queue), turn |-> Head(n.queue), packed |-> FALSE]
             started == Msg("lifecycle", Head(n.queue).id, None, "started")
  <2>1. n.queue # <<>> /\ r = [native |-> next, out |-> <<started>>]
    BY <1>1, ClaudeWords DEF Works, Claude!Works, Claude!Only, Claude!Lifecycle
  <2>2. started.type = "lifecycle" /\ started.status = "started"
    BY DEF Msg
  <2>3. next.queue = Tail(n.queue) /\ next.turn = Head(n.queue)
    OBVIOUS
  <2> HIDE DEF next, started
  <2>4. r.native = next /\ \A i \in DOMAIN r.out : r.out[i] = started
    BY <2>1, Elements
  <2> QED  BY <1>1, <2>1, <2>2, <2>3, <2>4 DEF ClaudeStarts
<1>2. CASE n.turn # None
  <2> DEFINE rests == [n EXCEPT !.turn = None]
             packs == [n EXCEPT !.packed = TRUE]
             result(x) == Msg("result", n.turn.id, None, x)
             packed == Msg("compact_boundary", None, None, None)
  <2>1. \/ \E x \in {"success", "error"} : r = [native |-> rests, out |-> <<result(x)>>]
        \/ r = [native |-> packs, out |-> <<packed>>]
    <3>1. r \in Claude!Works(n)
      BY DEF Works
    <3> HIDE DEF n
    <3>2. \/ \E x \in {"success", "error"} :
               r = Claude!Only(rests, <<Claude!Result(n.turn, x)>>)
          \/ r = Claude!Only(packs, <<Claude!Msg("compact_boundary", None, None, None)>>)
      BY <1>2, <3>1 DEF Claude!Works
    <3> QED  BY <3>2, ClaudeWords DEF Claude!Only, Claude!Result
  <2>2. /\ rests.turn = None /\ rests.queue = n.queue /\ packs.turn = n.turn /\ packs.queue = n.queue
        /\ packed.type = "compact_boundary" /\ \A x : result(x).id = n.turn.id
    BY DEF ClaudeNatives, Msg
  <2> HIDE DEF rests, packs, result, packed
  <2>3. CASE \E x \in {"success", "error"} : r = [native |-> rests, out |-> <<result(x)>>]
    <3>1. PICK x : r = [native |-> rests, out |-> <<result(x)>>]
      BY <2>3
    <3>2. r.native = rests /\ \A i \in DOMAIN r.out : r.out[i] = result(x)
      BY <3>1, Elements
    <3> QED  BY <1>2, <2>2, <3>2 DEF ClaudeEnds
  <2>4. CASE r = [native |-> packs, out |-> <<packed>>]
    <3>1. r.native = packs /\ \A i \in DOMAIN r.out : r.out[i] = packed
      BY <2>4, Elements
    <3> QED  BY <2>2, <3>1 DEF ClaudePacks
  <2> QED  BY <2>1, <2>3, <2>4
<1> QED  BY <1>1, <1>2

(* The prompts Claude holds are those of the messages it has.                *)
LEMMA ClaudeHolds ==
  ASSUME kind = "claude", native \in ClaudeNatives
  PROVE  \A p : p \in NativeTurns <=> \E u : Has(u) /\ u.ref = p
<1>1. NativeTurns = {u.ref : u \in ({native.turn} \ {None}) \cup
                        {native.queue[i] : i \in DOMAIN native.queue}}
  BY DEF NativeTurns
<1>2. \A u : u \in ({native.turn} \ {None}) \cup {native.queue[i] : i \in DOMAIN native.queue}
               <=> Has(u)
  BY DEF Has
<1> DEFINE all == ({native.turn} \ {None}) \cup {native.queue[i] : i \in DOMAIN native.queue}
<1> HIDE DEF all
<1>3. NativeTurns = {u.ref : u \in all} /\ \A u : u \in all <=> Has(u)
  BY <1>1, <1>2 DEF all
<1> QED  BY <1>3

(* What it has after a step is what it had, or also the message of a frame.  *)
Left(r) ==
  \/ r.native.queue = native.queue /\ r.native.turn \in {native.turn, None}
  \/ r.native.queue = <<>> /\ r.native.turn = None
  \/ /\ native.turn = None /\ native.queue # <<>>
     /\ r.native.turn = Head(native.queue) /\ r.native.queue = Tail(native.queue)

(* What it has left it had before.                                           *)
LEMMA ClaudeLeft ==
  ASSUME kind = "claude", native \in ClaudeNatives, NEW r, native' = r.native, Left(r)
  PROVE  \A u : Has(u)' => Has(u)
<1>1. CASE r.native.queue = native.queue /\ r.native.turn \in {native.turn, None}
  BY <1>1 DEF Has
<1>2. CASE r.native.queue = <<>> /\ r.native.turn = None
  BY <1>2, Elements DEF Has
<1>3. CASE /\ native.turn = None /\ native.queue # <<>>
           /\ r.native.turn = Head(native.queue) /\ r.native.queue = Tail(native.queue)
  <2>1. Drops(native.queue, r.native.queue)
    BY <1>3, Shifted DEF ClaudeNatives
  <2> QED  BY <1>3, <2>1 DEF Has, Drops
<1> QED  BY <1>1, <1>2, <1>3 DEF Left

(* A message that Claude has and that names the call of a prompt is its.     *)
LEMMA UserNamed ==
  ASSUME QueueInv, kind = "claude", NEW u, Has(u), NEW p \in Prompts, u.id = PromptCall(p)
  PROVE  u.ref = p
<1>1. User(u)
  BY DEF QueueInv, Has
<1>2. u.ref \in Prompts /\ PromptCall(u.ref) = PromptCall(p)
  BY <1>1 DEF User
<1> QED  BY <1>2 DEF PromptCall

(* Claude lets go of a prompt with its end or its refusal.                   *)
LEMMA ClaudeMoves ==
  ASSUME IInv, SInv, kind = "claude", NEW r, Acts(r) PROVE Moves(r.out)
<1>1. /\ kind' = kind /\ progress' = progress /\ native' = r.native /\ Fewer
      /\ stdout' = stdout \o r.out /\ r.out \in Seq(Messages)
  BY DEF Acts, Fewer
<1>2. native \in ClaudeNatives /\ TokenInv /\ FramesInv /\ QueueInv /\ None \notin Prompts
  BY NamesAssumption DEF IInv, TypeInv, NativeOK, SInv
<1>3. \A p : p \in NativeTurns <=> \E u : Has(u) /\ u.ref = p
  BY <1>2, ClaudeHolds
<1>4. \A p : p \in NativeTurns' <=> \E u : Has(u)' /\ u.ref = p
  <2> DEFINE all == ({native'.turn} \ {None}) \cup {native'.queue[i] : i \in DOMAIN native'.queue}
  <2>1. NativeTurns' = {u.ref : u \in all}
    BY <1>1 DEF NativeTurns
  <2>2. \A u : u \in all <=> Has(u)'
    BY DEF Has
  <2> HIDE DEF all
  <2> QED  BY <2>1, <2>2
<1> DEFINE m == stdin[1]
<1> SUFFICES /\ \A p \in Prompts : p \in NativeTurns' => p \in NativeTurns \/ Took(p)
             /\ \A i \in DOMAIN r.out : \A p \in Prompts : Final(r.out[i], p) =>
                  p \notin NativeTurns' /\ (p \in NativeTurns \/ Took(p))
  BY <1>1 DEF Moves
<1>5. \A i \in DOMAIN r.out : \A p \in Prompts : Final(r.out[i], p) =>
        /\ r.out[i].id = PromptCall(p) /\ r.out[i].type # "compact_boundary"
        /\ r.out[i].status \notin {"queued", "started"} \/ r.out[i].type # "lifecycle"
  BY DEF Final
<1>6. Left(r) => \A p : p \in NativeTurns' => p \in NativeTurns
  BY <1>1, <1>2, <1>3, <1>4, ClaudeLeft
<1>7. CASE /\ stdin # <<>> /\ stdin' = Tail(stdin) /\ m \in Frames /\ 1 \in DOMAIN stdin
           /\ r \in Takes(m)
  <2>1. Framed(m) /\ \A p : Carries(m) /\ m.ref = p => Took(p)
    BY <1>2, <1>7 DEF FramesInv, Took
  <2>2. \A p \in Prompts : m.id = PromptCall(p) => Took(p) /\ p \notin NativeTurns
    BY <1>2, <1>7, <2>1, Named DEF TokenInv
  <2>3. CASE ClaudeQueues(m, r)
    <3>1. \A i \in DOMAIN r.out : \A p \in Prompts : ~Final(r.out[i], p)
      BY <1>5, <2>3 DEF ClaudeQueues
    <3>2. \A u : Has(u)' => Has(u) \/ u.ref = m.ref
      <4> DEFINE user == [id |-> m.id, ref |-> m.ref, method |-> m.method]
      <4>1. user \in Users /\ native.queue \in Seq(Users) /\ user.ref = m.ref
        BY <1>2, <1>7 DEF Users, Frames, ClaudeNatives
      <4> HIDE DEF user
      <4>2. Joins(native.queue, <<user>>, Append(native.queue, user)) /\ \A i \in DOMAIN <<user>> : <<user>>[i] = user
        BY <4>1, Appended, Elements
      <4>3. native'.queue = Append(native.queue, user) /\ native'.turn = native.turn
        BY <1>1, <2>3 DEF ClaudeQueues, user
      <4> DEFINE one == <<user>>
      <4> HIDE DEF one
      <4>4. Joins(native.queue, one, native'.queue) /\ \A i \in DOMAIN one : one[i] = user
        BY <4>2, <4>3 DEF one
      <4> QED  BY <4>1, <4>3, <4>4 DEF Has, Joins
    <3>3. m.ref \in Prompts => Carries(m)
      BY <2>1, <2>3 DEF ClaudeQueues, Framed, Carries
    <3> QED  BY <1>3, <1>4, <2>1, <3>1, <3>2, <3>3
  <2>4. CASE ClaudeRests(m, r)
    <3>1. Left(r)
      BY <2>4 DEF ClaudeRests, Left
    <3> QED  BY <1>5, <1>6, <2>2, <2>4, <3>1 DEF ClaudeRests
  <2>5. CASE ClaudeDrops(m, r)
    <3>1. Left(r) /\ \A u : ~Has(u)'
      BY <1>1, <2>5, Elements DEF ClaudeDrops, Left, Has
    <3>2. ASSUME NEW i \in DOMAIN r.out, NEW p \in Prompts, Final(r.out[i], p)
          PROVE  p \in NativeTurns \/ Took(p)
      <4>1. r.out[i].id = PromptCall(p)
        BY <1>5, <3>2
      <4>2. CASE \E u : Has(u) /\ r.out[i].id = u.id
        BY <1>2, <1>3, <4>1, <4>2, UserNamed
      <4> QED  BY <2>2, <2>5, <4>1, <4>2 DEF ClaudeDrops
    <3> QED  BY <1>4, <1>6, <3>1, <3>2
  <2> QED  BY <1>2, <1>7, <2>3, <2>4, <2>5, ClaudeTaking
<1>8. CASE stdin' = stdin /\ r \in Works
  <2>1. CASE ClaudeStarts(r) \/ ClaudePacks(r)
    <3>1. Left(r)
      BY <2>1 DEF ClaudeStarts, ClaudePacks, Left
    <3>2. \A i \in DOMAIN r.out : \A p \in Prompts : ~Final(r.out[i], p)
      BY <1>5, <2>1 DEF ClaudeStarts, ClaudePacks
    <3> QED  BY <1>6, <3>1, <3>2
  <2>2. CASE ClaudeEnds(r)
    <3>1. Left(r) /\ Has(native.turn)
      BY <2>2 DEF ClaudeEnds, Left, Has
    <3>2. ASSUME NEW i \in DOMAIN r.out, NEW p \in Prompts, Final(r.out[i], p)
          PROVE  p \in NativeTurns /\ p \notin NativeTurns'
      <4>1. native.turn.id = PromptCall(p)
        BY <1>5, <2>2, <3>2 DEF ClaudeEnds
      <4>2. native.turn.ref = p
        BY <1>2, <3>1, <4>1, UserNamed
      <4>3. \A u : Has(u)' => u.ref # p
        BY <1>1, <1>2, <2>2, <4>2 DEF ClaudeEnds, Has, QueueInv
      <4> QED  BY <1>3, <1>4, <3>1, <4>2, <4>3
    <3> QED  BY <1>6, <3>1, <3>2
  <2> QED  BY <1>2, <1>8, <2>1, <2>2, ClaudeWorking
<1> QED  BY <1>7, <1>8 DEF Acts

(* The messages it has are the session's, each prompt once.                  *)
LEMMA ClaudeQueue ==
  ASSUME IInv, SInv, kind = "claude", NEW r, Acts(r) PROVE QueueInv'
<1>1. /\ kind' = kind /\ native' = r.native /\ native \in ClaudeNatives /\ QueueInv
      /\ TokenInv /\ FramesInv
  BY DEF Acts, IInv, TypeInv, NativeOK, SInv
<1>2. \A u : Has(u) => User(u)
  BY <1>1 DEF QueueInv, Has
<1>3. CASE Left(r)
  <2>1. \A u : Has(u)' => User(u)
    BY <1>1, <1>2, <1>3, ClaudeLeft
  <2>2. /\ \A i \in DOMAIN native'.queue : User(native'.queue[i])
        /\ native'.turn # None => User(native'.turn)
    BY <2>1 DEF Has
  <2>3. /\ \A i, j \in DOMAIN native'.queue :
             native'.queue[i].ref \in Prompts /\ native'.queue[j].ref \in Prompts => i = j
        /\ native'.turn # None /\ native'.turn.ref \in Prompts =>
             \A i \in DOMAIN native'.queue : native'.queue[i].ref \notin Prompts
    <3>1. CASE r.native.queue = native.queue /\ r.native.turn \in {native.turn, None}
      BY <1>1, <3>1 DEF QueueInv
    <3>2. CASE r.native.queue = <<>> /\ r.native.turn = None
      BY <1>1, <3>2, Elements
    <3>3. CASE /\ native.turn = None /\ native.queue # <<>>
               /\ r.native.turn = Head(native.queue) /\ r.native.queue = Tail(native.queue)
      <4>1. Drops(native.queue, native'.queue) /\ native'.turn = Head(native.queue)
        BY <1>1, <3>3, Shifted DEF ClaudeNatives
      <4>2. \A i, j \in DOMAIN native'.queue : i + 1 = j + 1 => i = j
        BY <4>1 DEF Drops
      <4>3. \A i \in DOMAIN native'.queue : i + 1 # 1
        BY <4>1 DEF Drops
      <4> QED  BY <1>1, <4>1, <4>2, <4>3 DEF QueueInv, Drops
    <3> QED  BY <1>3, <3>1, <3>2, <3>3 DEF Left
  <2> QED  BY <1>1, <2>2, <2>3, SameWords DEF QueueInv
<1>4. CASE /\ stdin # <<>> /\ stdin' = Tail(stdin) /\ stdin[1] \in Frames /\ 1 \in DOMAIN stdin
           /\ ClaudeQueues(stdin[1], r)
  <2> DEFINE m == stdin[1]
             user == [id |-> m.id, ref |-> m.ref, method |-> m.method]
             one == <<user>>
  <2>1. /\ user \in Users /\ native.queue \in Seq(Users) /\ user.ref = m.ref /\ user.id = m.id
        /\ Framed(m)
    BY <1>1, <1>4 DEF Users, Frames, ClaudeNatives, FramesInv
  <2>2. m.ref \in Prompts => Carries(m)
    BY <1>4, <2>1 DEF ClaudeQueues, Framed, Carries
  <2>3. User(user)
    BY <1>1, <2>1, <2>2 DEF User, Framed
  <2>4. m.ref \in Prompts => \A u : Has(u) => u.ref \notin Prompts
    BY <1>1, <1>4, <2>2, ClaudeHolds DEF TokenInv
  <2>5. native'.queue = Append(native.queue, user) /\ native'.turn = native.turn
    BY <1>1, <1>4 DEF ClaudeQueues
  <2> HIDE DEF user
  <2>6. Joins(native.queue, one, native'.queue) /\ \A i \in DOMAIN one : i = 1 /\ one[i] = user
    BY <2>1, <2>5, Appended, Elements
  <2> HIDE DEF one
  <2>7. \A i \in DOMAIN native'.queue :
          \/ i \in DOMAIN native.queue /\ native'.queue[i] = native.queue[i]
          \/ i = Len(native.queue) + 1 /\ native'.queue[i] = user
    BY <2>6 DEF Joins
  <2>8. /\ \A i \in DOMAIN native'.queue : User(native'.queue[i])
        /\ native'.turn # None => User(native'.turn)
    BY <1>1, <2>3, <2>5, <2>7 DEF QueueInv
  <2>9. \A i \in DOMAIN native.queue : user.ref \in Prompts => native.queue[i].ref \notin Prompts
    BY <2>1, <2>4 DEF Has
  <2>10. /\ \A i, j \in DOMAIN native'.queue :
              native'.queue[i].ref \in Prompts /\ native'.queue[j].ref \in Prompts => i = j
         /\ native'.turn # None /\ native'.turn.ref \in Prompts =>
              \A i \in DOMAIN native'.queue : native'.queue[i].ref \notin Prompts
    BY <1>1, <2>1, <2>4, <2>5, <2>7, <2>9 DEF QueueInv, Has
  <2> QED  BY <1>1, <2>8, <2>10, SameWords DEF QueueInv
<1>5. Left(r) \/ \E m : /\ stdin # <<>> /\ stdin' = Tail(stdin) /\ m = stdin[1] /\ m \in Frames
                         /\ 1 \in DOMAIN stdin /\ ClaudeQueues(m, r)
  <2>1. \A m : ClaudeRests(m, r) \/ ClaudeDrops(m, r) => Left(r)
    BY DEF ClaudeRests, ClaudeDrops, Left
  <2>2. ClaudeStarts(r) \/ ClaudeEnds(r) \/ ClaudePacks(r) => Left(r)
    BY DEF ClaudeStarts, ClaudeEnds, ClaudePacks, Left
  <2> QED  BY <1>1, <2>1, <2>2, ClaudeTaking, ClaudeWorking DEF Acts
<1> QED  BY <1>3, <1>4, <1>5

(* Claude at work.                                                           *)
LEMMA ClaudeActs ==
  ASSUME IInv, SInv, Steady, kind = "claude", NEW r, Acts(r) PROVE SInv'
<1>1. kind' = kind /\ adapter' = adapter /\ ops' = ops
  BY DEF Acts
<1>2. /\ FramesInv' /\ TokenInv' /\ DoneInv'
      /\ \A p \in Prompts : (Holds(p)' => Holds(p)) /\ (Past(p) => Past(p)')
  BY ClaudeMoves, MovesKeep
<1>3. AskedInv' /\ QueueInv' /\ \A p : Over(p)' <=> Over(p)
  BY ActsKeep, ClaudeQueue
<1>4. ReplyInv' /\ OverInv'
  <2>1. ReplyInv'
    BY <1>1, <1>2, SameWords DEF SInv, ReplyInv, SaysNo, Acts
  <2> QED  BY <1>1, <1>2, <1>3, <2>1 DEF SInv, OverInv
<1>5. PackInv' /\ CodexInv' /\ PiInv' /\ CursorInv'
  BY <1>1 DEF PackInv, CodexInv, PiInv, CursorInv
<1> QED  BY <1>2, <1>3, <1>4, <1>5 DEF SInv

-----------------------------------------------------------------------------
(* What Cursor does with a frame: it answers at once, but not a cancel; or   *)
(* it begins the turn that was asked for.                                    *)
CursorRests(m, r) ==
  /\ r.native.turn = native.turn /\ r.native.ref = native.ref /\ r.native.leaving = native.leaving
  /\ \A i \in DOMAIN r.out : i = 1 /\ r.out[i].id = m.id /\ m.method # "session/cancel"
CursorBegins(m, r) ==
  /\ m.method = "session/prompt" /\ r.native.turn = m.id /\ r.native.ref = m.ref
  /\ r.native.leaving = native.leaving /\ DOMAIN r.out = {}

(* Cursor taking a frame.                                                    *)
LEMMA CursorTaking ==
  ASSUME kind = "cursor", native \in CursorNatives, NEW m \in Frames, NEW r \in Takes(m)
  PROVE  CursorRests(m, r) \/ CursorBegins(m, r)
<1> DEFINE n == native
           begun == [n EXCEPT !.turn = m.id, !.ref = m.ref, !.cancelled = FALSE,
                              !.said = FALSE, !.tooled = FALSE]
           marked(x) == [n EXCEPT !.cancelled = x]
           answer(s) == Msg("response", m.id, None, s)
<1>1. /\ begun.turn = m.id /\ begun.ref = m.ref /\ begun.leaving = n.leaving
      /\ \A x : marked(x).turn = n.turn /\ marked(x).ref = n.ref /\ marked(x).leaving = n.leaving
      /\ \A s : answer(s).id = m.id
  BY DEF CursorNatives, Msg
<1>2. CASE m.method = "session/cancel"
  <2> DEFINE x == n.cancelled \/ n.turn # None
  <2>1. r = [native |-> marked(x), out |-> <<>>]
    BY <1>2 DEF Takes, Cursor!Takes, Cursor!Only
  <2> HIDE DEF marked, x
  <2>2. r.native = marked(x) /\ r.out = <<>>
    BY <2>1
  <2> QED  BY <1>1, <2>2, Elements DEF CursorRests
<1>3. CASE m.method # "session/cancel"
  <2>1. \/ r = [native |-> begun, out |-> <<>>] /\ m.method = "session/prompt"
        \/ \E s \in {"ok", "error"} : r = [native |-> n, out |-> <<answer(s)>>]
    <3>1. CASE m.method = "session/prompt"
      BY <3>1, CursorWords DEF Takes, Cursor!Takes, Cursor!Only, Cursor!Answered
    <3>2. CASE m.method # "session/prompt"
      BY <1>3, <3>2, CursorWords DEF Takes, Cursor!Takes, Cursor!Only, Cursor!Answered
    <3> QED  BY <3>1, <3>2
  <2> HIDE DEF begun, answer
  <2>2. CASE r = [native |-> begun, out |-> <<>>] /\ m.method = "session/prompt"
    <3>1. r.native = begun /\ r.out = <<>>
      BY <2>2
    <3> QED  BY <1>1, <2>2, <3>1, Elements DEF CursorBegins
  <2>3. CASE \E s \in {"ok", "error"} : r = [native |-> n, out |-> <<answer(s)>>]
    <3>1. PICK s : r = [native |-> n, out |-> <<answer(s)>>]
      BY <2>3
    <3>2. r.native = n /\ \A i \in DOMAIN r.out : i = 1 /\ r.out[i] = answer(s)
      BY <3>1, Elements
    <3> QED  BY <1>1, <1>3, <3>2 DEF CursorRests
  <2> QED  BY <2>1, <2>2, <2>3
<1> QED  BY <1>2, <1>3

(* What Cursor does by itself: its turn is over, it says something, or it    *)
(* gives the answer of the turn that is over.                                *)
CursorLeaves(r) ==
  /\ native.turn # None /\ r.native.turn = None /\ r.native.ref = None
  /\ r.native.leaving.type = "response" /\ r.native.leaving.id = native.turn
  /\ DOMAIN r.out = {}
CursorSays(r) ==
  /\ r.native.turn = native.turn /\ r.native.ref = native.ref /\ r.native.leaving = native.leaving
  /\ \A i \in DOMAIN r.out : r.out[i].type # "response"
CursorReplies(r) ==
  /\ native.leaving # None /\ r.native.leaving = None
  /\ r.native.turn = native.turn /\ r.native.ref = native.ref
  /\ \A i \in DOMAIN r.out : i = 1 /\ r.out[i] = native.leaving

(* Cursor by itself.                                                         *)
LEMMA CursorWorking ==
  ASSUME kind = "cursor", native \in CursorNatives, NEW r \in Works
  PROVE  CursorLeaves(r) \/ CursorSays(r) \/ CursorReplies(r)
<1> DEFINE n == native
           left(s) == [n EXCEPT !.turn = None, !.ref = None, !.cancelled = FALSE,
                                !.leaving = Msg("response", n.turn, None, s)]
           said == [n EXCEPT !.said = TRUE]
           tooled == [n EXCEPT !.tooled = TRUE]
           gone == [n EXCEPT !.leaving = None]
           update == Msg("update", None, None, None)
           tool == Msg("tool", None, None, None)
<1>1. \/ /\ n.turn # None
         /\ \E s \in {"end_turn", "error"} :
              r = [native |-> left(IF n.cancelled THEN "cancelled" ELSE s), out |-> <<>>]
      \/ r = [native |-> said, out |-> <<update>>]
      \/ r = [native |-> tooled, out |-> <<tool>>]
      \/ n.leaving # None /\ r = [native |-> gone, out |-> <<n.leaving>>]
  BY CursorWords DEF Works, Cursor!Works, Cursor!Only, Cursor!Leaves, Cursor!Answered
<1>2. /\ \A s : /\ left(s).turn = None /\ left(s).ref = None
                /\ left(s).leaving.type = "response" /\ left(s).leaving.id = n.turn
      /\ said.turn = n.turn /\ said.ref = n.ref /\ said.leaving = n.leaving
      /\ tooled.turn = n.turn /\ tooled.ref = n.ref /\ tooled.leaving = n.leaving
      /\ gone.turn = n.turn /\ gone.ref = n.ref /\ gone.leaving = None
      /\ update.type # "response" /\ tool.type # "response"
  BY DEF CursorNatives, Msg
<1> HIDE DEF left, said, tooled, gone, update, tool
<1>3. CASE /\ n.turn # None
           /\ \E s \in {"end_turn", "error"} :
                r = [native |-> left(IF n.cancelled THEN "cancelled" ELSE s), out |-> <<>>]
  <2>1. PICK s : r = [native |-> left(s), out |-> <<>>]
    BY <1>3
  <2>2. r.native = left(s) /\ r.out = <<>>
    BY <2>1
  <2> QED  BY <1>2, <1>3, <2>2, Elements DEF CursorLeaves
<1>4. CASE r = [native |-> said, out |-> <<update>>]
  <2>1. r.native = said /\ \A i \in DOMAIN r.out : r.out[i] = update
    BY <1>4, Elements
  <2> QED  BY <1>2, <2>1 DEF CursorSays
<1>5. CASE r = [native |-> tooled, out |-> <<tool>>]
  <2>1. r.native = tooled /\ \A i \in DOMAIN r.out : r.out[i] = tool
    BY <1>5, Elements
  <2> QED  BY <1>2, <2>1 DEF CursorSays
<1>6. CASE n.leaving # None /\ r = [native |-> gone, out |-> <<n.leaving>>]
  <2>1. r.native = gone /\ \A i \in DOMAIN r.out : i = 1 /\ r.out[i] = n.leaving
    BY <1>6, Elements
  <2> QED  BY <1>2, <1>6, <2>1 DEF CursorReplies
<1> QED  BY <1>1, <1>3, <1>4, <1>5, <1>6

-----------------------------------------------------------------------------
(* The frames that ask Cursor for a turn, what it works on and its answer.   *)
CursorFrames ==
  \A i \in DOMAIN stdin :
    /\ stdin[i].id \in Turning => stdin[i].method \in {"session/prompt", "session/cancel"}
    /\ Carries(stdin[i]) =>
         /\ adapter.prompt # None
         /\ adapter.prompt = stdin[i].id /\ progress.request = stdin[i].ref
         /\ native.turn = None /\ native.leaving = None /\ Silent
         /\ \A j \in DOMAIN stdin : Carries(stdin[j]) => j = i
CursorTurn ==
  /\ native.turn = None <=> native.ref = None
  /\ native.turn # None => /\ adapter.prompt = native.turn /\ progress.request = native.ref
                           /\ native.leaving = None /\ Silent
  /\ native.leaving # None => /\ native.leaving.type = "response" /\ adapter.prompt # None
                              /\ native.leaving.id = adapter.prompt /\ Silent
CursorAnswers ==
  \A i \in DOMAIN stdout : Answers(stdout[i]) =>
    /\ adapter.prompt # None /\ stdout[i].id = adapter.prompt
    /\ \A j \in DOMAIN stdout : Answers(stdout[j]) => i = j
CursorAdapter ==
  /\ adapter.prompt \in Turning \cup {None} /\ adapter.restart \in {None, <<"steer", 1>>}
  /\ adapter.prompt # None => Unfinished(progress)
  /\ after # None => adapter.responses = <<>>

(* Together they are what holds of Cursor.                                   *)
LEMMA CursorParts ==
  /\ CursorInv <=> (kind = "cursor" => CursorAdapter /\ CursorFrames /\ CursorTurn /\ CursorAnswers)
  /\ CursorInv' <=>
       (kind' = "cursor" => CursorAdapter' /\ CursorFrames' /\ CursorTurn' /\ CursorAnswers')
BY DEF CursorInv, CursorAdapter, CursorFrames, CursorTurn, CursorAnswers

(* Cursor has one turn at a time.                                            *)
LEMMA CursorTurns ==
  ASSUME IInv, SInv, kind = "cursor", NEW r, Acts(r) PROVE CursorInv'
<1>1. /\ kind' = kind /\ adapter' = adapter /\ progress' = progress /\ after' = after
      /\ native' = r.native /\ stdout' = stdout \o r.out /\ r.out \in Seq(Messages)
      /\ stdout \in Seq(Messages) /\ stdin \in Seq(Frames) /\ native \in CursorNatives /\ Fewer
      /\ Unfinished(progress)' = Unfinished(progress)
  BY DEF Acts, Fewer, IInv, TypeInv, PipesOK, NativeOK, Unfinished
<1>2. CursorAdapter /\ CursorFrames /\ CursorTurn /\ CursorAnswers
  BY CursorParts DEF SInv
<1>3. CursorAdapter'
  BY <1>1, <1>2, SameWords DEF CursorAdapter
<1>4. PICK k \in 0..1 : \A i \in DOMAIN stdin' : i + k \in DOMAIN stdin /\ stdin'[i] = stdin[i + k]
  BY <1>1, FewerLeft
<1>5. /\ \A i, j \in DOMAIN stdin' : i + k = j + k => i = j
      /\ stdin # <<>> /\ stdin' = Tail(stdin) => /\ 1 \in DOMAIN stdin
                              /\ \A i \in DOMAIN stdin' : /\ i + 1 # 1 /\ i + 1 \in DOMAIN stdin
                                                          /\ stdin'[i] = stdin[i + 1]
  <2>1. stdin' \in Seq(Frames)
    BY <1>1, HeadTailProperties DEF Fewer
  <2>2. stdin # <<>> /\ stdin' = Tail(stdin) => Drops(stdin, stdin')
    BY <1>1, Shifted
  <2>3. DOMAIN stdin' \subseteq Nat
    BY <2>1, LenProperties
  <2> QED  BY <2>2, <2>3 DEF Drops
<1>6. /\ \A i \in DOMAIN stdout' : \/ i \in DOMAIN stdout /\ stdout'[i] = stdout[i]
                                   \/ \E j \in DOMAIN r.out : /\ i = Len(stdout) + j
                                                              /\ stdout'[i] = r.out[j]
  BY <1>1, Joined DEF Joins
<1>7. /\ \A i \in DOMAIN stdin' : /\ stdin'[i].id \in Turning =>
                                       stdin'[i].method \in {"session/prompt", "session/cancel"}
                                  /\ Carries(stdin'[i]) => Carries(stdin[i + k])
      /\ Turning' = Turning /\ \A x : (Answers(x)' <=> Answers(x)) /\ (Carries(x)' <=> Carries(x))
  BY <1>1, <1>2, <1>4, SameWords DEF CursorFrames, Carries
<1>8. CASE /\ (\A j \in DOMAIN r.out : ~Answers(r.out[j]))
           /\ native'.turn = native.turn /\ native'.ref = native.ref
           /\ native'.leaving = native.leaving
  <2>1. \A i \in DOMAIN stdout' : Answers(stdout'[i]) => i \in DOMAIN stdout /\ stdout'[i] = stdout[i]
    BY <1>6, <1>8
  <2>2. Silent => Silent'
    BY <1>7, <2>1 DEF Silent
  <2>3. CursorFrames'
    <3> SUFFICES ASSUME NEW i \in DOMAIN stdin', Carries(stdin'[i])
                 PROVE  /\ adapter.prompt # None
                        /\ adapter.prompt = stdin'[i].id /\ progress.request = stdin'[i].ref
                        /\ native'.turn = None /\ native'.leaving = None /\ Silent'
                        /\ \A j \in DOMAIN stdin' : Carries(stdin'[j]) => j = i
      BY <1>1, <1>7 DEF CursorFrames
    <3>1. /\ i + k \in DOMAIN stdin /\ stdin'[i] = stdin[i + k]
          /\ \A j \in DOMAIN stdin' : j + k \in DOMAIN stdin /\ stdin'[j] = stdin[j + k]
      BY <1>4
    <3>2. \A j \in DOMAIN stdin' : Carries(stdin'[j]) => j + k = i + k
      BY <1>2, <3>1 DEF CursorFrames
    <3> QED  BY <1>2, <1>5, <1>8, <2>2, <3>1, <3>2 DEF CursorFrames
  <2>4. CursorTurn'
    BY <1>1, <1>2, <1>8, <2>2 DEF CursorTurn
  <2>5. CursorAnswers'
    BY <1>1, <1>2, <1>7, <2>1 DEF CursorAnswers
  <2> QED  BY <1>3, <2>3, <2>4, <2>5, CursorParts
<1>9. CASE /\ stdin # <<>> /\ stdin' = Tail(stdin) /\ stdin[1] \in Frames /\ 1 \in DOMAIN stdin
           /\ r \in Takes(stdin[1])
  <2> DEFINE m == stdin[1]
  <2>1. ASSUME Carries(m)
        PROVE  /\ adapter.prompt # None /\ adapter.prompt = m.id /\ progress.request = m.ref
               /\ native.turn = None /\ native.ref = None /\ native.leaving = None /\ Silent
               /\ progress.request # None /\ \A i \in DOMAIN stdin' : ~Carries(stdin'[i])
    BY <1>2, <1>5, <1>9, <2>1 DEF CursorFrames, CursorTurn, CursorAdapter, Unfinished
  <2>2. CASE CursorRests(m, r) /\ \A j \in DOMAIN r.out : ~Answers(r.out[j])
    BY <1>1, <1>8, <2>2 DEF CursorRests
  <2>3. CASE CursorRests(m, r) /\ \E j \in DOMAIN r.out : Answers(r.out[j])
    <3>1. Carries(m)
      BY <1>2, <1>9, <2>3 DEF CursorRests, CursorFrames, Answers, Carries
    <3>2. \A i \in DOMAIN stdout' : Answers(stdout'[i]) => i = Len(stdout) + 1 /\ stdout'[i].id = m.id
      BY <1>6, <2>1, <2>3, <3>1 DEF CursorRests, Silent
    <3>3. CursorFrames' /\ CursorTurn'
      BY <1>1, <1>7, <2>1, <2>3, <3>1 DEF CursorFrames, CursorTurn, CursorRests
    <3>4. CursorAnswers'
      BY <1>1, <1>7, <2>1, <3>1, <3>2 DEF CursorAnswers
    <3> QED  BY <1>3, <3>3, <3>4, CursorParts
  <2>4. CASE CursorBegins(m, r)
    <3>1. Carries(m)
      BY <2>4 DEF CursorBegins, Carries
    <3>2. \A i \in DOMAIN stdout' : ~Answers(stdout'[i])
      BY <1>6, <2>1, <2>4, <3>1 DEF CursorBegins, Silent
    <3>3. CursorFrames'
      BY <1>1, <1>7, <2>1, <3>1 DEF CursorFrames
    <3>4. CursorTurn' /\ CursorAnswers'
      BY <1>1, <1>7, <2>1, <2>4, <3>1, <3>2 DEF CursorTurn, CursorAnswers, CursorBegins, Silent
    <3> QED  BY <1>3, <3>3, <3>4, CursorParts
  <2> QED  BY <1>1, <1>9, <2>2, <2>3, <2>4, CursorTaking
<1>10. CASE stdin' = stdin /\ r \in Works
  <2>1. CASE CursorLeaves(r)
    <3>1. /\ adapter.prompt = native.turn /\ adapter.prompt # None /\ Silent
          /\ \A i \in DOMAIN stdin' : ~Carries(stdin'[i])
      BY <1>2, <1>10, <2>1 DEF CursorLeaves, CursorTurn, CursorFrames
    <3>2. \A i \in DOMAIN stdout' : ~Answers(stdout'[i])
      BY <1>6, <2>1, <3>1 DEF CursorLeaves, Silent
    <3>3. CursorFrames'
      BY <1>1, <1>7, <3>1 DEF CursorFrames
    <3>4. CursorTurn' /\ CursorAnswers'
      BY <1>1, <1>7, <2>1, <3>1, <3>2 DEF CursorTurn, CursorAnswers, CursorLeaves, Silent
    <3> QED  BY <1>3, <3>3, <3>4, CursorParts
  <2>2. CASE CursorSays(r)
    BY <1>1, <1>8, <2>2 DEF CursorSays, Answers
  <2>3. CASE CursorReplies(r)
    <3>1. /\ native.leaving.id = adapter.prompt /\ adapter.prompt # None /\ Silent
          /\ native.turn = None /\ native.ref = None
          /\ \A i \in DOMAIN stdin' : ~Carries(stdin'[i])
      BY <1>2, <1>10, <2>3 DEF CursorReplies, CursorTurn, CursorFrames
    <3>2. \A i \in DOMAIN stdout' : Answers(stdout'[i]) =>
            i = Len(stdout) + 1 /\ stdout'[i].id = adapter.prompt
      BY <1>6, <2>3, <3>1 DEF CursorReplies, Silent
    <3>3. CursorFrames'
      BY <1>1, <1>7, <3>1 DEF CursorFrames
    <3>4. CursorTurn' /\ CursorAnswers'
      BY <1>1, <1>7, <2>3, <3>1, <3>2 DEF CursorTurn, CursorAnswers, CursorReplies
    <3> QED  BY <1>3, <3>3, <3>4, CursorParts
  <2> QED  BY <1>1, <1>10, <2>1, <2>2, <2>3, CursorWorking
<1> QED  BY <1>9, <1>10 DEF Acts

(* Cursor at work,                                                           *)
LEMMA CursorActs ==
  ASSUME IInv, SInv, kind = "cursor", NEW r, Acts(r) PROVE SInv'
<1>1. kind' = "cursor"
  BY DEF Acts
<1>2. AskedInv' /\ CursorInv'
  BY ActsKeep, CursorTurns
<1>3. FramesInv' /\ TokenInv' /\ DoneInv' /\ PackInv' /\ CodexInv' /\ PiInv' /\ QueueInv'
      /\ ReplyInv' /\ OverInv'
  BY <1>1 DEF FramesInv, TokenInv, DoneInv, Final, PackInv, CodexInv, PiInv, QueueInv, ReplyInv,
     OverInv
<1> QED  BY <1>2, <1>3 DEF SInv

(* and every program at work.                                                *)
LEMMA NativeSound ==
  ASSUME IInv, SInv, Steady, NativeTakes \/ NativeWorks PROVE SInv'
<1>1. PICK r : Acts(r)
  BY Acting
<1> QED  BY <1>1, CodexActs, ClaudeActs, PiActs, CursorActs, KindKnown DEF IInv, TypeInv

-----------------------------------------------------------------------------
(* A calm step and the compaction of Codex: it has one call at most and does *)
(* not come back, and a refusal is the end of it.                            *)
PackSteps ==
  /\ \A i, j \in DOMAIN calls' : calls'[i].op = "compact" /\ calls'[j].op = "compact" => i = j
  /\ \A i \in DOMAIN calls' : calls'[i].op = "compact" =>
       ops'["compact"].state \in {"queued", "failed"}
  /\ PackComing' => PackComing
  /\ ops'["compact"].state = "idle" <=> ops["compact"].state = "idle"
  /\ ops'["compact"].state = "refused" =>
       ops["compact"].state = "refused" \/ (PackComing /\ ~PackComing')
(* It announces no end that was not announced,                               *)
QueueStays ==
  \A i \in DOMAIN Queue' : Queue'[i].type \in {"compacted", "finished"} =>
    \E j \in DOMAIN Queue : Queue[j] = Queue'[i]
(* and the session learns of the end of a prompt that was over.              *)
Learns ==
  /\ AskedInv'
  /\ kind = "codex" /\ PackLive' /\ (compaction = "asked" \/ exited) =>
       compaction' = "asked" \/ exited'
  /\ \A p \in Prompts : turn'[p] \in {"finished", "refused"} => Over(p)
Refuses ==
  /\ ops'["compact"].target = ops["compact"].target
  /\ \A p \in Prompts : ops'[p].state = "refused" => ops[p].state = "refused" \/ ~Holds(p)

(* Such a step is sound.                                                     *)
LEMMA StepCalm ==
  ASSUME IInv, SInv, Calm, Steady, QueueStays, Learns, kind = "codex" => PackSteps,
         kind = "claude" => Refuses
  PROVE  SInv'
<1>1. /\ FramesInv' /\ TokenInv' /\ DoneInv' /\ CodexInv' /\ PiInv' /\ QueueInv'
      /\ ReplyInv' /\ CursorInv'
      /\ \A p : Holds(p)' <=> Holds(p)
  BY CalmKeeps
<1>2. /\ kind' = kind /\ adapter' = adapter /\ progress' = progress /\ after' = after
      /\ stdin' = stdin /\ stdout' = stdout /\ native' = native
  BY DEF Calm
<1>3. PackInv'
  <2> SUFFICES ASSUME kind = "codex" PROVE PackCalls' /\ PackPipes' /\ PackSession'
    BY <1>2 DEF PackInv
  <2>1. PackCalls /\ PackPipes /\ PackSession /\ PackSteps
    BY DEF SInv, PackInv
  <2>2. PackLive' => PackLive
    BY <1>2, <2>1 DEF PackSteps, PackLive
  <2>3. PackCalls'
    <3>1. PackComing' => adapter'.compaction = None
      BY <1>2, <2>1 DEF PackSteps, PackCalls
    <3> QED  BY <1>2, <2>1, <3>1 DEF PackSteps, PackCalls
  <2>4. PackPipes'
    BY <1>2, <2>1 DEF PackPipes, IsPack, PackStart, PackEnd
  <2>5. PackSession'
    <3>1. \A i \in DOMAIN Queue' : Queue'[i].type = "compacted" => ~PackLive'
      <4> SUFFICES ASSUME NEW i \in DOMAIN Queue', Queue'[i].type = "compacted" PROVE ~PackLive'
        OBVIOUS
      <4>1. PICK j \in DOMAIN Queue : Queue[j] = Queue'[i]
        BY DEF QueueStays
      <4>2. Queue[j].type = "compacted"
        BY <4>1
      <4> QED  BY <2>1, <2>2, <4>2 DEF PackSession
    <3>2. ops'["compact"].state = "refused" => ~PackLive'
      <4>1. PackComing => adapter'.compaction = None
        BY <1>2, <2>1 DEF PackCalls
      <4> QED  BY <2>1, <2>2, <4>1 DEF PackSteps, PackSession, PackLive
    <3>3. PackLive' /\ ops'["compact"].state # "idle" =>
            ~Unfinished(progress)' /\ (compaction' = "asked" \/ exited')
      <4>1. Unfinished(progress)' <=> Unfinished(progress)
        BY <1>2 DEF Unfinished
      <4> QED  BY <2>1, <2>2, <4>1 DEF PackSteps, PackSession, Learns
    <3>4. after' # None => after'.type # "response"
      BY <1>2, <2>1 DEF PackSession
    <3> QED  BY <3>1, <3>2, <3>3, <3>4 DEF PackSession
  <2> QED  BY <2>3, <2>4, <2>5
<1>4. OverInv'
  <2> SUFFICES ASSUME kind = "claude"
               PROVE  /\ ops'["compact"].target = None
                      /\ \A p \in Prompts : Over(p)' => ~Holds(p)'
    BY <1>2 DEF OverInv
  <2>1. Refuses /\ ops["compact"].target = None /\ \A p \in Prompts : Over(p) => ~Holds(p)
    BY DEF SInv, OverInv
  <2>2. ASSUME NEW p \in Prompts, Over(p)' PROVE ~Holds(p)
    <3>1. CASE ops'[p].state = "refused"
      BY <2>1, <3>1 DEF Refuses, Over
    <3>2. CASE turn'[p] \in {"finished", "refused"}
      BY <2>1, <3>2 DEF Learns
    <3>3. CASE \E i \in DOMAIN Queue' : Queue'[i].type = "finished" /\ Queue'[i].request = p
      <4>1. PICK i \in DOMAIN Queue' : Queue'[i].type = "finished" /\ Queue'[i].request = p
        BY <3>3
      <4>2. PICK j \in DOMAIN Queue : Queue[j] = Queue'[i]
        BY <4>1 DEF QueueStays
      <4>3. Queue[j].type = "finished" /\ Queue[j].request = p
        BY <4>1, <4>2
      <4> QED  BY <2>1, <4>3 DEF Over
    <3> QED  BY <2>2, <3>1, <3>2, <3>3 DEF Over
  <2> QED  BY <1>1, <2>1, <2>2 DEF Refuses
<1> QED  BY <1>1, <1>3, <1>4 DEF SInv, Learns

(* The calls for a compaction stay, or go with the first call.               *)
PackStays ==
  \E k \in 0..1 : \A i \in DOMAIN calls' : calls'[i].op = "compact" =>
    i + k \in DOMAIN calls /\ calls'[i] = calls[i + k]

(* An operation that is not the compaction leaves that as it was.            *)
LEMMA SamePack ==
  ASSUME IInv, IInv', SInv, kind = "codex", PackStays, ops'["compact"] = ops["compact"]
  PROVE  PackSteps
<1>1. PackCalls
  BY DEF SInv, PackInv
<1>2. PICK k \in 0..1 : \A i \in DOMAIN calls' : calls'[i].op = "compact" =>
        i + k \in DOMAIN calls /\ calls'[i] = calls[i + k]
  BY DEF PackStays
<1>3. DOMAIN calls' \subseteq Nat
  <2>1. calls' \in Seq(Handed)
    BY DEF IInv, TypeInv, CallsOK
  <2> QED  BY <2>1, LenProperties
<1>4. \A i, j \in DOMAIN calls' : calls'[i].op = "compact" /\ calls'[j].op = "compact" => i = j
  <2> SUFFICES ASSUME NEW i \in DOMAIN calls', NEW j \in DOMAIN calls',
                      calls'[i].op = "compact", calls'[j].op = "compact"
               PROVE  i = j
    OBVIOUS
  <2>1. i + k = j + k
    BY <1>1, <1>2 DEF PackCalls
  <2> QED  BY <1>3, <2>1
<1>5. PackComing' => PackComing
  BY <1>2 DEF PackComing
<1>6. \A i \in DOMAIN calls' : calls'[i].op = "compact" =>
        ops'["compact"].state \in {"queued", "failed"}
  BY <1>1, <1>2 DEF PackCalls
<1> QED  BY <1>4, <1>5, <1>6 DEF PackSteps

(* A step of the Handle leaves what the session knows.                       *)
LEMMA LearnsStill ==
  ASSUME SInv, UNCHANGED <<turn, compaction, exited>>
  PROVE  Learns
BY DEF SInv, AskedInv, Learns, Over

-----------------------------------------------------------------------------
(* What the Handle and the session do is calm.                               *)
LEMMA OpCalm ==
  ASSUME IInv, IInv', SInv, Steady, Calm, UNCHANGED <<turn, compaction, exited, events, outbox>>,
         NEW op \in Ops, OpStep(op),
         ops'[op].state = "refused" => op \notin Prompts \/ ~Holds(op) \/ kind = "cursor",
         kind = "codex" => PackSteps
  PROVE  SInv'
<1>1. QueueStays
  BY SameQueue DEF QueueStays
<1>2. kind = "claude" => Refuses
  <2> SUFFICES ASSUME kind = "claude" PROVE Refuses
    OBVIOUS
  <2>1. \A x \in Ops : ops'[x].target = ops[x].target
    BY DEF OpStep
  <2>2. \A p \in Prompts : ops'[p].state = "refused" => ops[p].state = "refused" \/ ~Holds(p)
    BY OpsKnown DEF OpStep
  <2> QED  BY <2>1, <2>2, OpsKnown DEF Refuses
<1> QED  BY <1>1, <1>2, LearnsStill, StepCalm

(* A call times out, and an interrupt settles.                               *)
LEMMA WaitCalm ==
  ASSUME IInv, IInv', SInv, Steady, NEW op \in Ops, TimeOut(op) \/ Settle(op)
  PROVE  SInv'
<1>1. /\ Calm /\ UNCHANGED <<turn, compaction, exited, events, outbox>> /\ calls' = calls
      /\ ops[op].state \in {"queued", "pending", "settling"}
      /\ \/ ops' = [ops EXCEPT ![op].state = "failed"]
         \/ /\ ops[op].state = "settling"
            /\ ops' = Forward(ops, op) \/ ops' = Done(ops, op)
  BY DEF TimeOut, Settle, Calm, sessionVars, driverVars, pipeVars, nativeVars
<1>2. ops \in [Ops -> Operation] /\ OpsOK /\ PackInv
  BY DEF IInv, TypeInv, OpsOK, SInv
<1>3. OpStep(op) /\ ops'[op].state # "refused"
  <2>1. CASE ops' = [ops EXCEPT ![op].state = "failed"]
    BY <1>2, <2>1, SetState DEF Calling
  <2>2. CASE ops' = Forward(ops, op)
    BY <1>2, <2>2, SetForward
  <2>3. CASE ops' = Done(ops, op)
    BY <1>2, <2>3, SetState DEF Done, Calling
  <2> QED  BY <1>1, <2>1, <2>2, <2>3
<1>4. ASSUME kind = "codex" PROVE PackSteps
  <2>1. PackStays
    <3>1. DOMAIN calls \subseteq Nat
      BY LenProperties DEF IInv, TypeInv, CallsOK
    <3>2. \A i \in DOMAIN calls' : i + 0 \in DOMAIN calls /\ calls'[i] = calls[i + 0]
      BY <1>1, <3>1
    <3> QED  BY <3>2 DEF PackStays
  <2>2. CASE op # "compact"
    <3>1. ops'["compact"] = ops["compact"]
      BY <1>3, <2>2, OpsKnown DEF OpStep
    <3> QED  BY <1>4, <2>1, <3>1, SamePack
  <2>3. CASE op = "compact"
    <3>1. ops[op].state # "settling"
      BY <1>2, <2>3 DEF OpsOK
    <3>2. ops'["compact"].state = "failed"
      BY <1>1, <1>2, <2>3, <3>1, SetState DEF Calling
    <3>3. PackCalls
      BY <1>2, <1>4 DEF PackInv
    <3> QED  BY <1>1, <2>3, <3>2, <3>3 DEF PackSteps, PackCalls, PackComing
  <2> QED  BY <2>2, <2>3
<1> QED  BY <1>1, <1>3, <1>4, OpCalm

(* The Handle makes a call: only one for the compaction of Codex.            *)
LEMMA CallCalm ==
  ASSUME IInv, IInv', SInv, Steady, NEW op \in Ops, CallStep(op)
  PROVE  SInv'
<1> DEFINE step == Script(op)[ops[op].step]
           call == [op |-> op, step |-> ops[op].step, mode |-> step.mode,
                    method |-> step.method]
<1>1. /\ Calm /\ UNCHANGED <<turn, compaction, exited, events, outbox>>
      /\ ops[op].state = "ready"
  BY DEF CallStep, Calm, sessionVars, driverVars, pipeVars, nativeVars
<1>2. /\ ops \in [Ops -> Operation] /\ OpsOK /\ PackInv /\ CallsOK /\ PlanOK
      /\ calls \in Seq(Handed) /\ calls' \in Seq(Handed)
  BY DEF IInv, TypeInv, OpsOK, SInv, CallsOK
<1>3. \/ step.mode = "settle" /\ ops' = [ops EXCEPT ![op].state = "settling"] /\ calls' = calls
      \/ ops' = [ops EXCEPT ![op].state = "failed"] /\ calls' = calls
      \/ /\ step.mode # "settle" /\ calls' = Append(calls, call)
         /\ ops' = IF step.mode = "notify" THEN Forward(ops, op)
                   ELSE [ops EXCEPT ![op].state = "queued"]
  <2> DEFINE lost == Gone \/ (quit /\ step.mode # "notify")
  <2>1. CASE step.mode = "settle"
    BY <2>1 DEF CallStep
  <2>2. CASE step.mode # "settle" /\ lost
    BY <2>2 DEF CallStep
  <2>3. CASE step.mode # "settle" /\ ~lost
    BY <2>3 DEF CallStep
  <2> QED  BY <2>1, <2>2, <2>3
<1>4. call.op = op
  OBVIOUS
<1>5. call \in Handed
  <2>1. ops[op].step \in DOMAIN Script(op) /\ ops[op].step \in Nat \ {0}
    BY <1>1, <1>2 DEF OpsOK, Open, Operation
  <2>2. step.mode \in Modes /\ step.method \in Methods
    <3>1. CASE op \in Prompts
      BY <1>2, <2>1, <3>1, PromptScript
    <3>2. CASE op \notin Prompts
      <4>1. op \in {"start", "interrupt", "steer", "compact"}
        BY <3>2, OpsKnown
      <4> QED  BY <1>2, <2>1, <4>1, ControlScript DEF Modes
    <3> QED  BY <3>1, <3>2
  <2> HIDE DEF step
  <2> QED  BY <2>1, <2>2 DEF Handed
<1>6. kind = "codex" /\ op = "compact" => step.mode = "call"
  <2> SUFFICES ASSUME kind = "codex", op = "compact" PROVE step.mode = "call"
    OBVIOUS
  <2>1. Script(op) = <<Step("call", "thread/compact/start")>>
    BY DEF Script, Codex!Script, Codex!Step, Step
  <2>2. ops[op].step \in DOMAIN Script(op)
    BY <1>1, <1>2 DEF OpsOK, Open
  <2>3. ops[op].step = 1
    BY <2>1, <2>2, Tuples
  <2> QED  BY <2>1, <2>3, Tuples DEF Step
<1> HIDE DEF call, step
<1>7. OpStep(op) /\ ops'[op].state # "refused" /\ ops'[op].state # "idle"
  <2>1. CASE ops' = Forward(ops, op)
    BY <1>2, <2>1, SetForward
  <2>2. CASE \E s \in {"settling", "failed", "queued"} : ops' = [ops EXCEPT ![op].state = s]
    BY <1>2, <2>2, SetState DEF Calling
  <2> QED  BY <1>3, <2>1, <2>2
<1>8. ASSUME kind = "codex" PROVE PackSteps
  <2>0. DOMAIN calls \subseteq Nat /\ PackCalls
    BY <1>2, <1>8, LenProperties DEF PackInv
  <2>1. \A i \in DOMAIN calls' : \/ i \in DOMAIN calls /\ calls'[i] = calls[i]
                                 \/ /\ i = Len(calls) + 1 /\ calls'[i] = call
                                    /\ calls' = Append(calls, call)
    <3>1. CASE calls' = calls
      BY <3>1
    <3>2. CASE calls' = Append(calls, call)
      <4>1. Joins(calls, <<call>>, calls') /\ <<call>>[1] = call /\ DOMAIN <<call>> = 1..1
        BY <1>2, <1>5, <3>2, Appended
      <4> QED  BY <3>2, <4>1 DEF Joins
    <3> QED  BY <1>3, <3>1, <3>2
  <2>2. CASE op # "compact"
    <3>1. ops'["compact"] = ops["compact"]
      BY <1>7, <2>2, OpsKnown DEF OpStep
    <3>2. \A i \in DOMAIN calls' : calls'[i].op = "compact" =>
            i + 0 \in DOMAIN calls /\ calls'[i] = calls[i + 0]
      BY <1>4, <2>0, <2>1, <2>2
    <3> QED  BY <1>8, <3>1, <3>2, SamePack DEF PackStays
  <2>3. CASE op = "compact"
    <3>1. \A i \in DOMAIN calls : calls[i].op # "compact"
      BY <1>1, <2>0, <2>3 DEF PackCalls
    <3>2. \/ calls' = calls /\ ops'["compact"].state \in {"settling", "failed"}
          \/ ops'["compact"].state = "queued"
      BY <1>2, <1>3, <1>6, <1>8, <2>3, SetState DEF Calling
    <3>3. \A i \in DOMAIN calls' : calls'[i].op = "compact" =>
            i = Len(calls) + 1 /\ calls' = Append(calls, call)
      BY <2>1, <3>1
    <3>4. \A i \in DOMAIN calls' : calls'[i].op = "compact" => ops'["compact"].state = "queued"
      BY <3>1, <3>2
    <3>5. PackComing
      BY <1>1, <2>3 DEF PackComing
    <3> QED  BY <1>1, <1>7, <2>3, <3>3, <3>4, <3>5 DEF PackSteps
  <2> QED  BY <2>2, <2>3
<1> QED  BY <1>1, <1>7, <1>8, OpCalm

(* The driver denies a call: the prompt's was not accepted.                  *)
LEMMA DenyCalm ==
  ASSUME IInv, IInv', SInv, Steady, DenyCall
  PROVE  SInv'
<1> DEFINE c == Head(calls)
           op == c.op
<1>1. /\ Calm /\ UNCHANGED <<turn, compaction, exited, events, outbox>>
      /\ calls # <<>> /\ calls' = Tail(calls)
      /\ ops' = IF Waiting(c) THEN [ops EXCEPT ![op].state = "refused"] ELSE ops
  BY DEF DenyCall, Calm, Takeable, Tell, sessionVars, driverVars, pipeVars, nativeVars
<1>2. ops \in [Ops -> Operation] /\ CallsOK /\ PackInv /\ TokenInv
  BY DEF IInv, TypeInv, OpsOK, SInv
<1>3. /\ 1 \in DOMAIN calls /\ c = calls[1]
      /\ \A i \in DOMAIN calls' : i + 1 \in DOMAIN calls /\ i + 1 # 1 /\ calls'[i] = calls[i + 1]
  BY <1>1, <1>2, HeadDropped
<1>4. op \in Ops
  BY <1>2, <1>3 DEF CallsOK, CallOK, Handed
<1>5. OpStep(op)
  <2>1. CASE ops' = [ops EXCEPT ![op].state = "refused"]
    <3> HIDE DEF op
    <3> QED  BY <1>2, <1>4, <2>1, SetState DEF Calling
  <2>2. CASE ops' = ops
    BY <1>2, <2>2 DEF OpStep
  <2> QED  BY <1>1, <2>1, <2>2
<1>6. op \in Prompts /\ Waiting(c) => ~Holds(op) \/ kind = "cursor"
  <2> SUFFICES ASSUME op \in Prompts, Waiting(c), Holds(op), kind # "cursor" PROVE FALSE
    OBVIOUS
  <2>1. Coming(op)
    BY <1>1, CalledComing
  <2> QED  BY <1>2, <2>1, Held
<1>7. ASSUME kind = "codex" PROVE PackSteps
  <2>0. PackCalls
    BY <1>2, <1>7 DEF PackInv
  <2>1. CASE op = "compact" /\ Waiting(c)
    <3>1. \A i \in DOMAIN calls' : calls'[i].op # "compact"
      BY <1>3, <2>0, <2>1 DEF PackCalls
    <3>2. ops'["compact"].state = "refused"
      BY <1>1, <1>2, <1>4, <2>1, SetState DEF Calling
    <3>3. PackComing /\ ops["compact"].state # "idle"
      BY <1>3, <2>1 DEF PackComing, Waiting
    <3> QED  BY <3>1, <3>2, <3>3 DEF PackSteps, PackComing
  <2>2. CASE ~(op = "compact" /\ Waiting(c))
    <3>1. ops'["compact"] = ops["compact"]
      BY <1>1, <1>5, <2>2, OpsKnown DEF OpStep
    <3>2. PackStays
      BY <1>3 DEF PackStays
    <3> QED  BY <1>7, <3>1, <3>2, SamePack
  <2> QED  BY <2>1, <2>2
<1>8. ops'[op].state = "refused" => op \notin Prompts \/ ~Holds(op) \/ kind = "cursor" \/ ops' = ops
  BY <1>1, <1>6
<1> HIDE DEF op, c
<1>9. CASE ops' # ops
  BY <1>1, <1>4, <1>5, <1>7, <1>8, <1>9, OpCalm
<1>10. CASE ops' = ops
  <2>1. QueueStays
    BY <1>1, SameQueue DEF QueueStays
  <2>2. Refuses
    BY <1>10 DEF Refuses
  <2> QED  BY <1>1, <1>7, <2>1, <2>2, LearnsStill, StepCalm
<1> QED  BY <1>9, <1>10

-----------------------------------------------------------------------------
(* The driver leaves: calls that wait fail.                                  *)
LEMMA LeaveCalm ==
  ASSUME IInv, IInv', SInv, Steady, Leave
  PROVE  SInv'
<1>1. /\ Calm /\ UNCHANGED <<turn, compaction, exited>>
      /\ calls' = <<>> /\ outbox = <<>> /\ outbox' = outbox
      /\ ops' = [op \in Ops |-> IF ops[op].state \in {"queued", "pending"}
                                  THEN [ops[op] EXCEPT !.state = "failed"] ELSE ops[op]]
  BY DEF Leave, Calm, sessionVars, pipeVars, nativeVars
<1>2. ops \in [Ops -> Operation] /\ events \in Seq(Reports) /\ events' \in Seq(Reports)
  BY DEF IInv, TypeInv, OpsOK, EventsOK
<1>3. \A op \in Ops : /\ ops'[op].target = ops[op].target
                      /\ ops'[op].state = IF ops[op].state \in {"queued", "pending"} THEN "failed"
                                          ELSE ops[op].state
  <2> SUFFICES ASSUME NEW op \in Ops
               PROVE  /\ ops'[op].target = ops[op].target
                      /\ ops'[op].state = IF ops[op].state \in {"queued", "pending"} THEN "failed"
                                          ELSE ops[op].state
    OBVIOUS
  <2>1. ops[op] \in Operation
    BY <1>2
  <2> QED  BY <1>1, <2>1 DEF Operation
<1>4. QueueStays
  <2>1. PICK e : /\ e \in Reports /\ e.type = "exited" /\ events' = Append(events, e)
    <3>1. PICK expected :
            events' = Append(events, Event("exited", None, IF expected THEN "expected" ELSE None))
      BY DEF Leave
    <3> DEFINE s == IF expected THEN "expected" ELSE None
    <3>2. s \in Names
      BY DEF Names, Absent
    <3> HIDE DEF s
    <3>3. Event("exited", None, s) \in Reports /\ Event("exited", None, s).type = "exited"
      BY <3>2 DEF Event, Reports, Happens, Refs, Absent
    <3> QED  BY <3>1, <3>3 DEF s
  <2>2. Queue = events /\ Queue' = events'
    BY <1>1, <1>2, ConcatEmptySeq DEF Queue
  <2>3. Joins(events, <<e>>, events') /\ <<e>>[1] = e /\ DOMAIN <<e>> = 1..1
    BY <1>2, <2>1, Appended
  <2> QED  BY <2>1, <2>2, <2>3 DEF QueueStays, Joins
<1>5. PackSteps
  <2>1. DOMAIN calls' = {}
    BY <1>1
  <2>2. "compact" \in Ops
    BY OpsKnown
  <2> QED  BY <1>3, <2>1, <2>2 DEF PackSteps, PackComing
<1>6. Refuses
  BY <1>3, OpsKnown DEF Refuses
<1> QED  BY <1>1, <1>4, <1>5, <1>6, LearnsStill, StepCalm

(* The session controls a turn                                               *)
LEMMA ControlCalm ==
  ASSUME IInv, IInv', SInv, Steady, NEW op \in Ops, Control(op)
  PROVE  SInv'
<1>1. /\ Calm /\ UNCHANGED <<turn, compaction, exited, events, outbox, calls>> /\ IsControl(op)
  BY DEF Control, Calm, sessionVars, driverVars, pipeVars, nativeVars
<1>2. \A x \in Ops : x # op => ops'[x] = ops[x]
  <2>1. PICK p \in Current :
          At(op, IF Targetable(p) /\ Script(op) # <<>> THEN "ready" ELSE "refused", p)
    BY DEF Control
  <2>2. ops \in [Ops -> Operation]
    BY DEF IInv, TypeInv, OpsOK
  <2> QED  BY <2>1, <2>2 DEF At
<1>3. ops'["compact"] = ops["compact"] /\ \A p \in Prompts : ops'[p] = ops[p]
  BY <1>1, <1>2, OpsKnown DEF IsControl
<1>4. QueueStays
  BY <1>1, SameQueue DEF QueueStays
<1>5. PackStays
  <2>1. DOMAIN calls \subseteq Nat
    BY LenProperties DEF IInv, TypeInv, CallsOK
  <2>2. \A i \in DOMAIN calls' : i + 0 \in DOMAIN calls /\ calls'[i] = calls[i + 0]
    BY <1>1, <2>1
  <2> QED  BY <2>2 DEF PackStays
<1>6. kind = "codex" => PackSteps
  BY <1>3, <1>5, SamePack
<1>7. Refuses
  BY <1>3 DEF Refuses
<1> QED  BY <1>1, <1>4, <1>6, <1>7, LearnsStill, StepCalm

(* and sends a prompt,                                                       *)
LEMMA SendPromptCalm ==
  ASSUME IInv, IInv', SInv, Steady, NEW p \in Prompts, SendPrompt(p)
  PROVE  SInv'
<1>1. /\ Calm /\ UNCHANGED <<compaction, exited, events, outbox, calls>> /\ Idle
      /\ turn' = [turn EXCEPT ![p] = "sent"] /\ At(p, "ready", p)
  BY DEF SendPrompt, Calm, driverVars, pipeVars, nativeVars
<1>2. ops \in [Ops -> Operation] /\ p \in Ops /\ "ready" \in Calling /\ p \in Refs
  BY OpsKnown DEF IInv, TypeInv, OpsOK, Calling, Refs
<1>3. /\ \A x \in Ops : x # p => ops'[x] = ops[x]
      /\ ops'[p].state = "ready"
  BY <1>1, <1>2, SetAt
<1>4. "compact" \in Ops /\ "compact" # p
  BY OpsKnown
<1>5. QueueStays
  BY <1>1, SameQueue DEF QueueStays
<1>6. PackStays
  <2>1. DOMAIN calls \subseteq Nat
    BY LenProperties DEF IInv, TypeInv, CallsOK
  <2>2. \A i \in DOMAIN calls' : i + 0 \in DOMAIN calls /\ calls'[i] = calls[i + 0]
    BY <1>1, <2>1
  <2> QED  BY <2>2 DEF PackStays
<1>7. kind = "codex" => PackSteps
  BY <1>3, <1>4, <1>6, SamePack
<1>8. Refuses
  BY <1>3, <1>4, OpsKnown DEF Refuses
<1>9. Learns
  <2>1. \A q \in Prompts : turn'[q] \in {"finished", "refused"} => turn[q] \in {"finished", "refused"}
    BY <1>1 DEF IInv, TypeInv, SessionOK
  <2>2. AskedInv'
    BY <1>1 DEF AskedInv, Idle
  <2> QED  BY <1>1, <2>1, <2>2 DEF Learns, Over
<1> QED  BY <1>1, <1>5, <1>7, <1>8, <1>9, StepCalm

(* learns of a refusal,                                                      *)
LEMMA LearnCalm ==
  ASSUME IInv, IInv', SInv, Steady, SessionLearns
  PROVE  SInv'
<1>1. /\ Calm /\ UNCHANGED <<exited, events, outbox, calls, ops>> /\ Refused
  BY DEF SessionLearns, Refused, Calm, driverVars, pipeVars, nativeVars
<1>2. QueueStays
  BY <1>1, SameQueue DEF QueueStays
<1>3. PackStays
  <2>1. DOMAIN calls \subseteq Nat
    BY LenProperties DEF IInv, TypeInv, CallsOK
  <2>2. \A i \in DOMAIN calls' : i + 0 \in DOMAIN calls /\ calls'[i] = calls[i + 0]
    BY <1>1, <2>1
  <2> QED  BY <2>2 DEF PackStays
<1>4. kind = "codex" => PackSteps
  BY <1>1, <1>3, SamePack
<1>5. Refuses
  BY <1>1 DEF Refuses
<1>6. CASE /\ \E p \in Prompts : /\ ops[p].state = "refused" /\ turn[p] \in {"sent", "started"}
                                 /\ turn' = [turn EXCEPT ![p] = "refused"]
           /\ UNCHANGED compaction
  <2>1. PICK p \in Prompts : /\ ops[p].state = "refused"
                             /\ turn' = [turn EXCEPT ![p] = "refused"]
    BY <1>6
  <2>2. \A q \in Prompts : /\ turn'[q] = "sent" => turn[q] = "sent"
                           /\ turn'[q] \in {"finished", "refused"} =>
                                q = p \/ turn[q] \in {"finished", "refused"}
    BY <2>1 DEF IInv, TypeInv, SessionOK
  <2>3. AskedInv'
    BY <1>6, <2>2 DEF SInv, AskedInv
  <2>4. \A q \in Prompts : turn'[q] \in {"finished", "refused"} => Over(q)
    BY <2>1, <2>2 DEF Over
  <2>5. Learns
    BY <1>1, <1>6, <2>3, <2>4 DEF Learns
  <2> QED  BY <1>1, <1>2, <1>4, <1>5, <2>5, StepCalm
<1>7. CASE /\ ops["compact"].state = "refused" /\ compaction' = "ended" /\ UNCHANGED turn
  <2>1. AskedInv'
    BY <1>7 DEF AskedInv
  <2>2. kind = "codex" => ~PackLive'
    <3>1. PackLive' => PackLive
      BY <1>1 DEF PackLive, PackComing, Calm
    <3> QED  BY <1>7, <3>1 DEF SInv, PackInv, PackSession
  <2>3. Learns
    BY <1>7, <2>1, <2>2 DEF Learns, Over
  <2> QED  BY <1>1, <1>2, <1>4, <1>5, <2>3, StepCalm
<1> QED  BY <1>1, <1>6, <1>7 DEF Refused

(* and records an event, whose turn or compaction was over.                  *)
LEMMA RecordCalm ==
  ASSUME IInv, IInv', SInv, Steady, Record
  PROVE  SInv'
<1>0. PICK e : e = Head(events)
  OBVIOUS
<1>1. /\ Calm /\ UNCHANGED <<outbox, calls, ops>>
      /\ events # <<>> /\ events' = Tail(events)
      /\ turn' = CASE e.type = "started"  -> [turn EXCEPT ![e.request] = "started"]
                   [] e.type = "finished" -> [turn EXCEPT ![e.request] = "finished"]
                   [] e.type = "exited"   -> Lost
                   [] OTHER               -> turn
      /\ compaction' \in {compaction, "ended"}
      /\ e.type \notin {"compacted", "exited"} => compaction' = compaction
      /\ exited' = (exited \/ e.type = "exited")
  BY <1>0 DEF Record, Calm, driverVars, pipeVars, nativeVars
<1>2. EventsOK /\ turn \in [Prompts -> {"none", "sent", "started", "finished", "refused", "lost"}]
  BY DEF IInv, TypeInv, SessionOK
<1>3. /\ 1 \in DOMAIN Queue /\ Queue[1] = e
      /\ \A i \in DOMAIN Queue' : i + 1 \in DOMAIN Queue /\ Queue'[i] = Queue[i + 1]
  BY <1>0, <1>1, <1>2, QueueShrinks
<1>4. QueueStays
  BY <1>3 DEF QueueStays
<1>5. PackStays
  <2>1. DOMAIN calls \subseteq Nat
    BY LenProperties DEF IInv, TypeInv, CallsOK
  <2>2. \A i \in DOMAIN calls' : i + 0 \in DOMAIN calls /\ calls'[i] = calls[i + 0]
    BY <1>1, <2>1
  <2> QED  BY <2>2 DEF PackStays
<1>6. kind = "codex" => PackSteps
  BY <1>1, <1>5, SamePack
<1>7. Refuses
  BY <1>1 DEF Refuses
<1>8. \A p \in Prompts :
        /\ turn'[p] = "sent" => turn[p] = "sent"
        /\ turn'[p] \in {"finished", "refused"} =>
             turn[p] \in {"finished", "refused"} \/ (e.type = "finished" /\ e.request = p)
  <2>1. CASE e.type = "started"
    <3>1. turn' = [turn EXCEPT ![e.request] = "started"]
      BY <1>1, <2>1
    <3> QED  BY <1>2, <3>1
  <2>2. CASE e.type = "finished"
    <3>1. turn' = [turn EXCEPT ![e.request] = "finished"]
      BY <1>1, <2>2
    <3> QED  BY <1>2, <2>2, <3>1
  <2>3. CASE e.type = "exited"
    <3>1. turn' = Lost
      BY <1>1, <2>3
    <3> QED  BY <3>1 DEF Lost
  <2>4. CASE e.type \notin {"started", "finished", "exited"}
    <3>1. turn' = turn
      BY <1>1, <2>4
    <3> QED  BY <3>1
  <2> QED  BY <2>1, <2>2, <2>3, <2>4
<1>9. Learns
  <2>1. AskedInv'
    BY <1>1, <1>8 DEF SInv, AskedInv
  <2>2. \A p \in Prompts : turn'[p] \in {"finished", "refused"} => Over(p)
    BY <1>3, <1>8 DEF Over
  <2>3. ASSUME kind = "codex", PackLive' PROVE e.type # "compacted"
    <3>1. PackLive
      BY <1>1, <2>3 DEF PackLive, PackComing, Calm
    <3> QED  BY <1>3, <2>3, <3>1 DEF SInv, PackInv, PackSession
  <2> QED  BY <1>1, <2>1, <2>2, <2>3 DEF Learns
<1> QED  BY <1>1, <1>4, <1>6, <1>7, <1>9, StepCalm

(* The workload and the exit concern neither.                                *)
LEMMA RestCalm ==
  ASSUME IInv, IInv', SInv, Steady,
         Shutdown \/ Freeze \/ Thaw \/ NativeExits \/ LoopEnds \/ UNCHANGED vars
  PROVE  SInv'
<1>1. Calm /\ UNCHANGED <<turn, compaction, exited, events, outbox, calls, ops>>
  BY DEF Shutdown, Freeze, Thaw, NativeExits, LoopEnds, Calm, vars, driverVars, pipeVars,
         nativeVars, sessionVars
<1>2. QueueStays
  BY <1>1, SameQueue DEF QueueStays
<1>3. PackStays
  <2>1. DOMAIN calls \subseteq Nat
    BY LenProperties DEF IInv, TypeInv, CallsOK
  <2>2. \A i \in DOMAIN calls' : i + 0 \in DOMAIN calls /\ calls'[i] = calls[i + 0]
    BY <1>1, <2>1
  <2> QED  BY <2>2 DEF PackStays
<1>4. kind = "codex" => PackSteps
  BY <1>1, <1>3, SamePack
<1>5. Refuses
  BY <1>1 DEF Refuses
<1> QED  BY <1>1, <1>2, <1>4, <1>5, LearnsStill, StepCalm

(* The session asks for a compaction: the driver is free.                    *)
LEMMA CompactSound ==
  ASSUME IInv, IInv', SInv, Steady, Compact
  PROVE  SInv'
<1> DEFINE s == IF Script("compact") = <<>> THEN "refused" ELSE "ready"
<1>1. /\ Calm /\ UNCHANGED <<turn, exited, events, outbox, calls>> /\ Idle
      /\ ops["compact"].state = "idle" /\ At("compact", s, None)
      /\ IF Script("compact") = <<>> THEN compaction' = compaction ELSE compaction' = "asked"
  BY DEF Compact, Calm, driverVars, pipeVars, nativeVars
<1>2. /\ ops \in [Ops -> Operation] /\ "compact" \in Ops /\ None \in Refs /\ s \in Calling
  BY OpsKnown DEF IInv, TypeInv, OpsOK, Refs, Absent, Calling
<1>3. kind = "codex" => s = "ready" /\ compaction' = "asked"
  <2>1. kind = "codex" => Script("compact") # <<>>
    <3>1. kind = "codex" => Script("compact") = <<Step("call", "thread/compact/start")>>
      BY DEF Script, Codex!Script, Codex!Step, Step
    <3> QED  BY <3>1
  <2> QED  BY <1>1, <2>1
<1> HIDE DEF s
<1>4. /\ ops'["compact"].state = s /\ ops'["compact"].target = None
      /\ \A x \in Ops : x # "compact" => ops'[x] = ops[x]
  BY <1>1, <1>2, SetAt
<1>5. \A p \in Prompts : ops'[p] = ops[p]
  BY <1>4, OpsKnown
<1>6. /\ FramesInv' /\ TokenInv' /\ DoneInv' /\ CodexInv' /\ PiInv' /\ QueueInv'
      /\ ReplyInv' /\ CursorInv'
      /\ \A p : Holds(p)' <=> Holds(p)
  BY <1>1, CalmKeeps
<1>7. AskedInv'
  <2>1. \A p \in Prompts : turn[p] # "sent"
    BY <1>1 DEF Idle, Current
  <2> QED  BY <1>1, <2>1 DEF AskedInv
<1>8. Queue' = Queue /\ kind' = kind
  BY <1>1, SameQueue DEF Calm
<1>9. OverInv'
  <2>1. \A p \in Prompts : Over(p)' <=> Over(p)
    BY <1>1, <1>5, <1>8 DEF Over
  <2> QED  BY <1>4, <1>6, <1>8, <2>1 DEF SInv, OverInv
<1>10. PackInv'
  <2> SUFFICES ASSUME kind = "codex" PROVE PackCalls' /\ PackPipes' /\ PackSession'
    BY <1>8 DEF PackInv
  <2>1. PackCalls /\ PackPipes /\ PackSession /\ PackComing /\ PackLive
    BY <1>1 DEF SInv, PackInv, PackComing, PackLive
  <2>2. /\ adapter' = adapter /\ stdin' = stdin /\ stdout' = stdout /\ native' = native
        /\ after' = after /\ progress' = progress /\ calls' = calls
    BY <1>1 DEF Calm
  <2>3. \A i \in DOMAIN calls : calls[i].op # "compact"
    BY <1>1, <2>1 DEF PackCalls
  <2>4. PackCalls'
    BY <2>1, <2>2, <2>3 DEF PackCalls
  <2>5. PackPipes'
    BY <2>1, <2>2 DEF PackPipes, IsPack, PackStart, PackEnd
  <2>6. ~Unfinished(progress)'
    <3>1. ~Unfinished(progress)
      BY <1>1, Free DEF FreeBetweenTurns
    <3> QED  BY <2>2, <3>1 DEF Unfinished
  <2>7. PackSession'
    BY <1>3, <1>4, <1>8, <2>1, <2>2, <2>6 DEF PackSession
  <2> QED  BY <2>4, <2>5, <2>7
<1> QED  BY <1>6, <1>7, <1>9, <1>10 DEF SInv

-----------------------------------------------------------------------------
(* The step of a script of that many, its number and its method.            *)
Is(op, i, n, k, method) == Len(Script(op)) = n /\ i = k /\ Script(op)[i].method = method

(* The method of a call says what the call is for.                           *)
LEMMA ScriptMethods ==
  ASSUME PlanOK, NEW op \in Ops, NEW i \in DOMAIN Script(op)
  PROVE  LET method == Script(op)[i].method
         IN  /\ method \in {"turn/start", "prompt", "session/prompt"} <=>
                  op \in Prompts /\ i = Len(Script(op))
             /\ kind = "codex"  => (method = "thread/compact/start" <=> op = "compact" /\ i = 1)
             /\ kind = "codex"  => (op = "compact" => i = 1)
             /\ kind = "claude" => (method = "compact" <=> op = "compact")
             /\ kind = "cursor" => /\ method = "cloudroom/steer" => op = "steer" /\ i = 1
                                   /\ op = "steer" => method = "cloudroom/steer" /\ i = 1
                                   /\ op = "interrupt" <=> method = "session/cancel"
                                   /\ op # "compact"
<1>1. /\ op \in {"start", "interrupt", "steer", "compact"} \/ op \in Prompts
      /\ op \in Prompts <=> op \notin {"start", "interrupt", "steer", "compact"}
  BY OpsKnown
<1>2. CASE kind = "codex"
  <2>1. CASE op = "start"
    <3>1. Script(op) = <<Step("call", "initialize"), Step("notify", "initialized"),
                       Step("call", "thread/start")>>
      BY <1>1, <1>2, <2>1 DEF Script, Codex!Script, Codex!Step, Step
    <3>2. \/ Is(op, i, 3, 1, "initialize")
          \/ Is(op, i, 3, 2, "initialized")
          \/ Is(op, i, 3, 3, "thread/start")
      BY <3>1, Tuples DEF Step, Is
    <3> QED  BY <1>1, <1>2, <2>1, <3>2 DEF Is
  <2>2. CASE op = "interrupt"
    <3>1. Script(op) = <<Step("control", "turn/interrupt"), Step("settle", "turn"),
                       Step("call", "terminate")>>
      BY <1>1, <1>2, <2>2 DEF Script, Codex!Script, Codex!Step, Step
    <3>2. \/ Is(op, i, 3, 1, "turn/interrupt")
          \/ Is(op, i, 3, 2, "turn")
          \/ Is(op, i, 3, 3, "terminate")
      BY <3>1, Tuples DEF Step, Is
    <3> QED  BY <1>1, <1>2, <2>2, <3>2 DEF Is
  <2>3. CASE op = "steer"
    <3>1. Script(op) = <<Step("control", "turn/steer")>>
      BY <1>1, <1>2, <2>3 DEF Script, Codex!Script, Codex!Step, Step
    <3>2. Is(op, i, 1, 1, "turn/steer")
      BY <3>1, Tuples DEF Step, Is
    <3> QED  BY <1>1, <1>2, <2>3, <3>2 DEF Is
  <2>4. CASE op = "compact"
    <3>1. Script(op) = <<Step("call", "thread/compact/start")>>
      BY <1>1, <1>2, <2>4 DEF Script, Codex!Script, Codex!Step, Step
    <3>2. Is(op, i, 1, 1, "thread/compact/start")
      BY <3>1, Tuples DEF Step, Is
    <3> QED  BY <1>1, <1>2, <2>4, <3>2 DEF Is
  <2>5. CASE op \in Prompts
    <3>1. Script(op) = <<Step("request", "turn/start")>>
      BY <1>1, <1>2, <2>5 DEF Script, Codex!Script, Codex!Step, Step
    <3>2. Is(op, i, 1, 1, "turn/start")
      BY <3>1, Tuples DEF Step, Is
    <3>3. i \in Nat /\ Len(Script(op)) \in Nat
      BY <2>5, PromptScript
    <3>4. Script(op)[i].method \in {"turn/start", "prompt", "session/prompt"} <=> i = Len(Script(op))
      BY <3>2, <3>3 DEF Is
    <3>5. op \notin {"start", "interrupt", "steer", "compact"}
      BY <1>1, <2>5
    <3>6. Script(op)[i].method \notin {"thread/compact/start", "compact", "cloudroom/steer", "session/cancel"}
      BY <3>2 DEF Is
    <3> QED  BY <1>2, <2>5, <3>4, <3>5, <3>6
  <2> QED  BY <1>1, <2>1, <2>2, <2>3, <2>4, <2>5
<1>3. CASE kind = "claude"
  <2>1. CASE op = "start"
    <3>1. Script(op) = <<Step("call", "initialize"), Step("call", "apply_flag_settings"),
                       Step("call", "bootstrap")>>
      BY <1>1, <1>3, <2>1 DEF Script, Claude!Script, Claude!Step, Step
    <3>2. \/ Is(op, i, 3, 1, "initialize")
          \/ Is(op, i, 3, 2, "apply_flag_settings")
          \/ Is(op, i, 3, 3, "bootstrap")
      BY <3>1, Tuples DEF Step, Is
    <3> QED  BY <1>1, <1>3, <2>1, <3>2 DEF Is
  <2>2. CASE op = "interrupt"
    <3>1. Script(op) = <<Step("control", "interrupt")>>
      BY <1>1, <1>3, <2>2 DEF Script, Claude!Script, Claude!Step, Step
    <3>2. Is(op, i, 1, 1, "interrupt")
      BY <3>1, Tuples DEF Step, Is
    <3> QED  BY <1>1, <1>3, <2>2, <3>2 DEF Is
  <2>3. CASE op = "steer"
    <3>1. Script(op) = <<>>
      BY <1>1, <1>3, <2>3 DEF Script, Claude!Script, Claude!Step, Step
    <3> QED  BY <3>1, Tuples
  <2>4. CASE op = "compact"
    <3>1. Script(op) = <<Step("call", "compact")>>
      BY <1>1, <1>3, <2>4 DEF Script, Claude!Script, Claude!Step, Step
    <3>2. Is(op, i, 1, 1, "compact")
      BY <3>1, Tuples DEF Step, Is
    <3> QED  BY <1>1, <1>3, <2>4, <3>2 DEF Is
  <2>5. CASE op \in Prompts
    <3>1. Script(op) = <<Step("call", "apply_flag_settings"), Step("request", "prompt")>>
      BY <1>1, <1>3, <2>5 DEF Script, Claude!Script, Claude!Step, Step
    <3>2. \/ i # Len(Script(op)) /\ Script(op)[i].method = "apply_flag_settings"
          \/ i = Len(Script(op)) /\ Script(op)[i].method = "prompt"
      BY <3>1, Tuples DEF Step
    <3>3. Script(op)[i].method \in {"turn/start", "prompt", "session/prompt"} <=> i = Len(Script(op))
      BY <3>2
    <3>4. op \notin {"start", "interrupt", "steer", "compact"}
      BY <1>1, <2>5
    <3>5. Script(op)[i].method \notin {"thread/compact/start", "compact", "cloudroom/steer", "session/cancel"}
      BY <3>2
    <3> QED  BY <1>3, <2>5, <3>3, <3>4, <3>5
  <2> QED  BY <1>1, <2>1, <2>2, <2>3, <2>4, <2>5
<1>4. CASE kind = "pi"
  <2>1. CASE op = "start"
    <3>1. Script(op) = <<Step("call", "get_state"), Step("call", "get_commands"),
                       Step("call", "get_fork_messages")>>
      BY <1>1, <1>4, <2>1 DEF Script, Pi!Script, Pi!Step, Step
    <3>2. \/ Is(op, i, 3, 1, "get_state")
          \/ Is(op, i, 3, 2, "get_commands")
          \/ Is(op, i, 3, 3, "get_fork_messages")
      BY <3>1, Tuples DEF Step, Is
    <3> QED  BY <1>1, <1>4, <2>1, <3>2 DEF Is
  <2>2. CASE op = "interrupt"
    <3>1. Script(op) = <<Step("control", "clear_queue"), Step("control", "abort")>>
      BY <1>1, <1>4, <2>2 DEF Script, Pi!Script, Pi!Step, Step
    <3>2. \/ Is(op, i, 2, 1, "clear_queue")
          \/ Is(op, i, 2, 2, "abort")
      BY <3>1, Tuples DEF Step, Is
    <3> QED  BY <1>1, <1>4, <2>2, <3>2 DEF Is
  <2>3. CASE op = "steer"
    <3>1. Script(op) = <<Step("control", "steer")>>
      BY <1>1, <1>4, <2>3 DEF Script, Pi!Script, Pi!Step, Step
    <3>2. Is(op, i, 1, 1, "steer")
      BY <3>1, Tuples DEF Step, Is
    <3> QED  BY <1>1, <1>4, <2>3, <3>2 DEF Is
  <2>4. CASE op = "compact"
    <3>1. Script(op) = <<Step("call", "compact")>>
      BY <1>1, <1>4, <2>4 DEF Script, Pi!Script, Pi!Step, Step
    <3>2. Is(op, i, 1, 1, "compact")
      BY <3>1, Tuples DEF Step, Is
    <3> QED  BY <1>1, <1>4, <2>4, <3>2 DEF Is
  <2>5. CASE op \in Prompts
    <3>1. Script(op) = <<Step("call", "get_available_thinking_levels"),
                       Step("call", "set_thinking_level"), Step("call", "get_state"), Step("request", "prompt")>>
      BY <1>1, <1>4, <2>5 DEF Script, Pi!Script, Pi!Step, Step
    <3>2. \/ i # Len(Script(op)) /\ Script(op)[i].method = "get_available_thinking_levels"
          \/ i # Len(Script(op)) /\ Script(op)[i].method = "set_thinking_level"
          \/ i # Len(Script(op)) /\ Script(op)[i].method = "get_state"
          \/ i = Len(Script(op)) /\ Script(op)[i].method = "prompt"
      BY <3>1, Tuples DEF Step
    <3>3. Script(op)[i].method \in {"turn/start", "prompt", "session/prompt"} <=> i = Len(Script(op))
      BY <3>2
    <3>4. op \notin {"start", "interrupt", "steer", "compact"}
      BY <1>1, <2>5
    <3>5. Script(op)[i].method \notin {"thread/compact/start", "compact", "cloudroom/steer", "session/cancel"}
      BY <3>2
    <3> QED  BY <1>4, <2>5, <3>3, <3>4, <3>5
  <2> QED  BY <1>1, <2>1, <2>2, <2>3, <2>4, <2>5
<1>5. CASE kind = "cursor"
  <2>1. CASE op = "start"
    <3>1. Script(op) = <<Step("call", "initialize"), Step("call", "session/new"),
                       Step("call", "session/set_config_option")>>
      BY <1>1, <1>5, <2>1 DEF Script, Cursor!Script, Cursor!Step, Step
    <3>2. \/ Is(op, i, 3, 1, "initialize")
          \/ Is(op, i, 3, 2, "session/new")
          \/ Is(op, i, 3, 3, "session/set_config_option")
      BY <3>1, Tuples DEF Step, Is
    <3> QED  BY <1>1, <1>5, <2>1, <3>2 DEF Is
  <2>2. CASE op = "interrupt"
    <3>1. Script(op) = <<Step("control", "session/cancel")>>
      BY <1>1, <1>5, <2>2 DEF Script, Cursor!Script, Cursor!Step, Step
    <3>2. Is(op, i, 1, 1, "session/cancel")
      BY <3>1, Tuples DEF Step, Is
    <3> QED  BY <1>1, <1>5, <2>2, <3>2 DEF Is
  <2>3. CASE op = "steer"
    <3>1. Script(op) = <<Step("control", "cloudroom/steer")>>
      BY <1>1, <1>5, <2>3 DEF Script, Cursor!Script, Cursor!Step, Step
    <3>2. Is(op, i, 1, 1, "cloudroom/steer")
      BY <3>1, Tuples DEF Step, Is
    <3> QED  BY <1>1, <1>5, <2>3, <3>2 DEF Is
  <2>4. CASE op = "compact"
    <3>1. Script(op) = <<>>
      BY <1>1, <1>5, <2>4 DEF Script, Cursor!Script, Cursor!Step, Step
    <3> QED  BY <3>1, Tuples
  <2>5. CASE op \in Prompts
    <3>1. Script(op) = <<Step("call", "session/set_config_option"),
                       Step("dispatch", "session/prompt")>>
      BY <1>1, <1>5, <2>5 DEF Script, Cursor!Script, Cursor!Step, Step
    <3>2. \/ i # Len(Script(op)) /\ Script(op)[i].method = "session/set_config_option"
          \/ i = Len(Script(op)) /\ Script(op)[i].method = "session/prompt"
      BY <3>1, Tuples DEF Step
    <3>3. Script(op)[i].method \in {"turn/start", "prompt", "session/prompt"} <=> i = Len(Script(op))
      BY <3>2
    <3>4. op \notin {"start", "interrupt", "steer", "compact"}
      BY <1>1, <2>5
    <3>5. Script(op)[i].method \notin {"thread/compact/start", "compact", "cloudroom/steer", "session/cancel"}
      BY <3>2
    <3> QED  BY <1>5, <2>5, <3>3, <3>4, <3>5
  <2> QED  BY <1>1, <2>1, <2>2, <2>3, <2>4, <2>5
<1> QED  BY <1>2, <1>3, <1>4, <1>5, KindKnown

(* The frame that goes out for a call.                                       *)
Sends(c) == Outgoing(<<c.op, c.step>>, c.method, IF CarriesPrompt(c) THEN c.op ELSE ops[c.op].target)
(* What taking a call does to the driver's turn: a prompt finds it over.     *)
Accepted(c) ==
  /\ Accepts(c) /\ CallOK(c) /\ phase = "running"
  /\ CarriesPrompt(c) <=> c.op \in Prompts /\ c.step = Len(Script(c.op))
  /\ CarriesPrompt(c) => /\ ~Unfinished(progress) /\ Coming(c.op) /\ ~Coming(c.op)'
                         /\ turn[c.op] = "sent" /\ Untouched(c.op)
                         /\ ops[c.op].state \in {"queued", "failed"}
  /\ Sends(c) \in Frames /\ Joins(stdin, <<Sends(c)>>, stdin')
  /\ <<Sends(c)>>[1] = Sends(c) /\ DOMAIN <<Sends(c)>> = 1..1
  /\ adapter' = Encode(<<c.op, c.step>>, c.method, IF CarriesPrompt(c) THEN c.op ELSE None)
  /\ 1 \in DOMAIN calls /\ c = calls[1]
  /\ \A i \in DOMAIN calls' : i + 1 \in DOMAIN calls /\ i + 1 # 1 /\ calls'[i] = calls[i + 1]

(* The driver takes no other call.                                           *)
LEMMA AcceptedCall ==
  ASSUME IInv, AcceptCall
  PROVE  Accepted(Head(calls))
<1>0. PICK c : c = Head(calls)
  OBVIOUS
<1> DEFINE id == <<c.op, c.step>>
           request == IF CarriesPrompt(c) THEN c.op ELSE None
           ref == IF CarriesPrompt(c) THEN c.op ELSE ops[c.op].target
<1>1. /\ Accepts(c) /\ calls # <<>> /\ phase = "running" /\ calls' = Tail(calls)
      /\ CarriesPrompt(c) => ~Unfinished(progress)
      /\ adapter' = Encode(id, c.method, request)
      /\ stdin' = Append(stdin, Sends(c))
  BY <1>0, AcceptChanges DEF AcceptCall, Takeable, Denied, IsBusy, Sends
<1>2. /\ PlanOK /\ OpsOK /\ CallsOK /\ stdin \in Seq(Frames) /\ 1 \in DOMAIN calls /\ c = calls[1]
      /\ \A i \in DOMAIN calls' : i + 1 \in DOMAIN calls /\ i + 1 # 1 /\ calls'[i] = calls[i + 1]
  BY <1>0, <1>1, HeadDropped DEF IInv, TypeInv, PipesOK
<1>3. CallOK(c) /\ c \in Handed /\ c.step \in Nat \ {0} /\ c.op \in Ops /\ c.method \in Methods
  BY <1>2 DEF CallsOK, CallOK, Handed
<1>4. CarriesPrompt(c) <=> c.op \in Prompts /\ c.step = Len(Script(c.op))
  BY <1>2, <1>3, Carrier
<1>5. c.op \in Prompts => ops[c.op].state \in {"queued", "failed"} /\ ops[c.op].step = c.step
  BY <1>2 DEF IInv, CallsOnce
<1>6. ASSUME CarriesPrompt(c)
      PROVE  Coming(c.op) /\ ~Coming(c.op)' /\ turn[c.op] = "sent" /\ Untouched(c.op)
  <2>1. Coming(c.op) /\ c.op \in Prompts
    BY <1>0, <1>1, <1>4, <1>6, CalledComing
  <2>2. turn[c.op] \in {"none", "sent", "lost"} /\ Untouched(c.op)
    BY <2>1 DEF IInv, ComingInv
  <2>3. turn[c.op] = "sent"
    BY <1>1, <1>5, <2>1, <2>2 DEF IInv, CallsOnce, ExitInv, Gone
  <2>4. ~Coming(c.op)'
    <3>1. turn'[c.op] # "none" /\ kind' = kind
      BY <1>1, <2>3 DEF Accepts
    <3>2. /\ ops'[c.op].state # "ready" /\ ops'[c.op].step = Len(Script(c.op))
          /\ \A i \in DOMAIN calls' : calls'[i].op # c.op
      BY <1>1, <1>4, <1>5, <1>6, <2>1 DEF Accepts
    <3>3. ~(ops'[c.op].step < Len(Script(c.op)))
      BY <1>3, <1>4, <1>6, <3>2
    <3> QED  BY <3>1, <3>2, <3>3, SameScript DEF Coming
  <2> QED  BY <2>1, <2>2, <2>3, <2>4
<1>7. Sends(c) \in Frames
  <2>1. ref \in Refs /\ id \in Callers
    <3>1. ops[c.op].target \in Refs
      BY <1>2, <1>3 DEF OpsOK, Operation
    <3> QED  BY <1>3, <1>4, <3>1 DEF Refs, Callers
  <2>2. Outgoing(id, c.method, ref) \in Frames
    <3> HIDE DEF id, ref
    <3> QED  BY <1>2, <1>3, <2>1, OutgoingOK
  <2> QED  BY <2>2 DEF Sends
<1>8. /\ Joins(stdin, <<Sends(c)>>, stdin')
      /\ <<Sends(c)>>[1] = Sends(c) /\ DOMAIN <<Sends(c)>> = 1..1
  BY <1>1, <1>2, <1>7, Appended
<1>9. CarriesPrompt(c) => ops[c.op].state \in {"queued", "failed"}
  BY <1>4, <1>5
<1>10. Accepted(c)
  <2> HIDE DEF ref
  <2> QED  BY <1>1, <1>2, <1>3, <1>4, <1>6, <1>7, <1>8, <1>9 DEF Accepted
<1> QED  BY <1>0, <1>10

-----------------------------------------------------------------------------
(* The frame of a call that carries a prompt is the prompt's.                *)
LEMMA SentFrame ==
  ASSUME IInv, SInv, NEW c, Accepted(c), kind # "cursor"
  PROVE  LET f == Sends(c)
         IN  /\ Framed(f) /\ (Carries(f) <=> CarriesPrompt(c))
             /\ f.id = <<c.op, c.step>> /\ f.method = c.method
             /\ CarriesPrompt(c) => f.ref = c.op
<1> DEFINE f == Sends(c)
           ref == IF CarriesPrompt(c) THEN c.op ELSE ops[c.op].target
<1>1. f.method = c.method /\ f.id = <<c.op, c.step>> /\ f.ref = ref
  BY DEF Sends, Outgoing, Frame
<1>2. /\ PlanOK /\ c.op \in Ops /\ c.step \in DOMAIN Script(c.op)
      /\ c.method = Script(c.op)[c.step].method
      /\ CarriesPrompt(c) <=> c.op \in Prompts /\ c.step = Len(Script(c.op))
  BY DEF Accepted, Accepts, CallOK, IInv, TypeInv
<1>3. /\ c.method \in {"turn/start", "prompt", "session/prompt"} <=> CarriesPrompt(c)
      /\ kind = "codex"  => (c.method = "thread/compact/start" <=> c.op = "compact" /\ c.step = 1)
      /\ kind = "claude" => (c.method = "compact" <=> c.op = "compact")
  BY <1>2, ScriptMethods
<1> HIDE DEF f
<1>4. Carries(f) <=> CarriesPrompt(c)
  BY <1>1, <1>3 DEF Carries
<1>5. f.id[1] = c.op /\ f.id[2] = c.step
  BY <1>1
<1>6. Framed(f)
  <2>1. Carries(f) => f.ref \in Prompts /\ f.id = PromptCall(f.ref)
    BY <1>1, <1>2, <1>4 DEF PromptCall
  <2>2. ASSUME NEW p \in Prompts, f.id = PromptCall(p) PROVE Carries(f)
    <3>1. c.op = p /\ c.step = Len(Script(p))
      BY <1>5, <2>2 DEF PromptCall
    <3> QED  BY <1>2, <1>4, <3>1
  <2>3. f.id[1] # "settled"
    BY <1>2, <1>5, SpareNames
  <2>4. kind = "claude" /\ f.method = "compact" => f.ref \notin Prompts
    <3> SUFFICES ASSUME kind = "claude", c.method = "compact" PROVE f.ref \notin Prompts
      BY <1>1
    <3>1. c.op = "compact" /\ ~CarriesPrompt(c)
      BY <1>2, <1>3, OpsKnown
    <3>2. ops["compact"].target = None
      BY DEF SInv, OverInv
    <3> QED  BY <1>1, <3>1, <3>2, NamesAssumption
  <2>5. kind = "codex" => (f.method = "thread/compact/start" <=> f.id = <<"compact", 1>>)
    BY <1>1, <1>3
  <2> QED  BY <2>1, <2>2, <2>3, <2>4, <2>5 DEF Framed
<1>7. Framed(f) /\ (Carries(f) <=> CarriesPrompt(c)) /\ f.id = <<c.op, c.step>>
      /\ f.method = c.method /\ (CarriesPrompt(c) => f.ref = c.op)
  BY <1>1, <1>4, <1>6
<1> QED  BY <1>7 DEF f

(* The program holds the prompt that was taken, and no other.                *)
LEMMA AcceptKeeps ==
  ASSUME IInv, SInv, Steady, NEW c, Accepted(c), kind # "cursor"
  PROVE  /\ FramesInv' /\ TokenInv' /\ DoneInv'
         /\ \A p \in Prompts : Holds(p)' <=> Holds(p) \/ (CarriesPrompt(c) /\ p = c.op)
         /\ \A p \in Prompts : Past(p) => Past(p)'
         /\ CarriesPrompt(c) => \A p \in Prompts : ~Holds(p)
<1>0. PICK f : f = Sends(c)
  OBVIOUS
<1>1. /\ kind' = kind /\ native' = native /\ stdout' = stdout
      /\ Joins(stdin, <<f>>, stdin') /\ <<f>>[1] = f /\ DOMAIN <<f>> = 1..1
      /\ progress' = IF CarriesPrompt(c) THEN Fresh(c.op) ELSE progress
      /\ CarriesPrompt(c) => /\ ~Unfinished(progress) /\ Coming(c.op) /\ c.op \in Prompts
  BY <1>0 DEF Accepted, Accepts
<1>2. /\ Framed(f) /\ (Carries(f) <=> CarriesPrompt(c))
      /\ CarriesPrompt(c) => f.ref = c.op
  BY <1>0, SentFrame
<1>3. TokenInv /\ FramesInv /\ DoneInv
  BY DEF SInv
<1>4. CarriesPrompt(c) => \A p \in Prompts : ~Holds(p)
  BY <1>1, <1>3, Held
<1>5. /\ \A i \in DOMAIN stdin : i \in DOMAIN stdin' /\ stdin'[i] = stdin[i]
      /\ \A i \in DOMAIN stdin' : \/ i \in DOMAIN stdin /\ stdin'[i] = stdin[i]
                                  \/ i = Len(stdin) + 1 /\ stdin'[i] = f
      /\ Len(stdin) + 1 \in DOMAIN stdin' /\ stdin'[Len(stdin) + 1] = f
  BY <1>1 DEF Joins
<1>6. CarriesPrompt(c) => \A i \in DOMAIN stdin : ~Carries(stdin[i])
  <2> SUFFICES ASSUME CarriesPrompt(c), NEW i \in DOMAIN stdin, Carries(stdin[i]) PROVE FALSE
    BY DEF Carries
  <2>1. stdin[i].ref \in Prompts
    BY <1>3 DEF FramesInv, Framed
  <2> QED  BY <1>4, <2>1, WrittenCarries DEF Holds
<1>7. NativeTurns' = NativeTurns
  BY <1>1 DEF NativeTurns
<1>8. \A p \in Prompts : Written(p)' <=> Written(p) \/ (CarriesPrompt(c) /\ p = c.op)
  <2> SUFFICES ASSUME NEW p \in Prompts
               PROVE  Written(p)' <=> Written(p) \/ (CarriesPrompt(c) /\ p = c.op)
    OBVIOUS
  <2>1. Written(p)' <=> \E i \in DOMAIN stdin' : Carries(stdin'[i]) /\ stdin'[i].ref = p
    BY DEF Written, Carries
  <2>2. Written(p) <=> \E i \in DOMAIN stdin : Carries(stdin[i]) /\ stdin[i].ref = p
    BY DEF Written, Carries
  <2> QED  BY <1>2, <1>5, <2>1, <2>2
<1>9. \A p \in Prompts : Holds(p)' <=> Holds(p) \/ (CarriesPrompt(c) /\ p = c.op)
  BY <1>7, <1>8 DEF Holds
<1>10. \A p \in Prompts : Past(p) => Past(p)'
  BY <1>1, <1>9 DEF Past, Steady
<1>11. FramesInv'
  BY <1>1, <1>2, <1>3, <1>5, SameWords DEF FramesInv
<1>12. TokenInv'
  <2>1. CarriesPrompt(c) => progress'.request = c.op /\ ~progress'.finished
    BY <1>1 DEF Fresh, Resting
  <2>2. \A p \in Prompts : Holds(p)' => progress'.request = p /\ ~progress'.finished
    BY <1>1, <1>3, <1>4, <1>9, <2>1 DEF TokenInv
  <2>3. \A i, j \in DOMAIN stdin' : Carries(stdin'[i]) /\ Carries(stdin'[j]) => i = j
    BY <1>2, <1>3, <1>5, <1>6 DEF TokenInv
  <2>4. \A p \in Prompts : p \in NativeTurns => \A i \in DOMAIN stdin' : ~Carries(stdin'[i])
    <3> SUFFICES ASSUME NEW p \in Prompts, p \in NativeTurns
                 PROVE  \A i \in DOMAIN stdin' : ~Carries(stdin'[i])
      OBVIOUS
    <3>1. ~CarriesPrompt(c)
      BY <1>4 DEF Holds
    <3>2. \A i \in DOMAIN stdin : ~Carries(stdin[i])
      BY <1>3 DEF TokenInv
    <3> QED  BY <1>2, <1>5, <3>1, <3>2
  <2> QED  BY <1>7, <2>2, <2>3, <2>4 DEF TokenInv, Carries
<1>13. DoneInv'
  BY <1>1, <1>3, <1>10, SameWords DEF DoneInv
<1> QED  BY <1>4, <1>9, <1>10, <1>11, <1>12, <1>13

-----------------------------------------------------------------------------
(* Codex: the compaction is asked for once, and before the next prompt.      *)
LEMMA CodexAccepts ==
  ASSUME IInv, IInv', SInv, Steady, NEW c, Accepted(c), kind = "codex"
  PROVE  PackInv' /\ CodexInv'
<1>0. PICK f : f = Sends(c)
  OBVIOUS
<1>1. /\ kind' = kind /\ native' = native /\ stdout' = stdout /\ after' = after
      /\ events' = events /\ outbox' = outbox
      /\ compaction' = compaction /\ exited' = exited /\ phase = "running"
      /\ Joins(stdin, <<f>>, stdin') /\ <<f>>[1] = f /\ DOMAIN <<f>> = 1..1
      /\ progress' = IF CarriesPrompt(c) THEN Fresh(c.op) ELSE progress
      /\ CarriesPrompt(c) => ~Unfinished(progress) /\ turn[c.op] = "sent" /\ c.op \in Prompts
      /\ c.op \in Ops /\ OpStep(c.op)
      /\ ops' = ops \/ ops'[c.op].state \in {"ok", "pending"}
      /\ 1 \in DOMAIN calls /\ c = calls[1]
      /\ \A i \in DOMAIN calls' : i + 1 \in DOMAIN calls /\ i + 1 # 1 /\ calls'[i] = calls[i + 1]
  BY <1>0 DEF Accepted, Accepts
<1>2. /\ f.method = "thread/compact/start" <=> c.op = "compact"
      /\ c.method = "thread/compact/start" <=> c.op = "compact"
      /\ c.op = "compact" => <<c.op, c.step>> = <<"compact", 1>>
  <2>1. PlanOK /\ c.step \in DOMAIN Script(c.op) /\ c.method = Script(c.op)[c.step].method
    BY DEF Accepted, CallOK, IInv, TypeInv
  <2>2. f.method = c.method
    BY <1>0, SentFrame
  <2> QED  BY <1>1, <2>1, <2>2, ScriptMethods
<1>3. /\ adapter'.compaction = IF c.op = "compact" THEN <<"compact", 1>> ELSE adapter.compaction
      /\ adapter'.turn = IF c.op = "compact" THEN None ELSE adapter.turn
  <2> DEFINE request == IF CarriesPrompt(c) THEN c.op ELSE None
             id == <<c.op, c.step>>
  <2>1. adapter' = Codex!Encode(adapter, id, c.method, request)
    BY DEF Accepted, Encode
  <2>2. adapter \in CodexAdapters
    BY DEF IInv, TypeInv, AdapterOK
  <2> HIDE DEF request, id
  <2>3. /\ adapter'.compaction = IF c.method = "thread/compact/start" THEN id ELSE adapter.compaction
        /\ adapter'.turn = IF c.method = "thread/compact/start" THEN None ELSE adapter.turn
    BY <2>1, <2>2 DEF Codex!Encode, CodexAdapters
  <2> QED  BY <1>2, <2>3 DEF id
<1>4. PackCalls /\ PackPipes /\ PackSession /\ CodexInv /\ AskedInv
  BY DEF SInv, PackInv
<1>5. /\ \A i \in DOMAIN stdin : i \in DOMAIN stdin' /\ stdin'[i] = stdin[i]
      /\ \A i \in DOMAIN stdin' : \/ i \in DOMAIN stdin /\ stdin'[i] = stdin[i]
                                  \/ i = Len(stdin) + 1 /\ stdin'[i] = f
  BY <1>1 DEF Joins
<1>6. Queue' = Queue
  BY <1>1, SameQueue
<1>7. "compact" \in Ops /\ "compact" \notin Prompts /\ (CarriesPrompt(c) => c.op # "compact")
  BY <1>1, OpsKnown
<1>8. ASSUME c.op = "compact" PROVE PackInv'
  <2>1. PackComing /\ adapter.compaction = None /\ ops["compact"].state \in {"queued", "failed"}
    BY <1>1, <1>4, <1>8 DEF PackComing, PackCalls
  <2>2. /\ \A i \in DOMAIN calls' : calls'[i].op # "compact"
        /\ ops'["compact"].state \notin {"idle", "ready", "refused"}
    BY <1>1, <1>4, <1>8, <2>1 DEF PackCalls
  <2>3. ~PackComing' /\ PackCalls'
    BY <1>3, <1>8, <2>2 DEF PackComing, PackCalls
  <2>4. PackPipes'
    <3>1. \A i \in DOMAIN stdin : ~IsPack(stdin[i])
      BY <1>4, <2>1 DEF PackPipes
    <3>2. \A i \in DOMAIN stdin' : IsPack(stdin'[i]) => i = Len(stdin) + 1
      BY <1>5, <3>1
    <3>3. native.compacting = "no" /\ \A i \in DOMAIN stdout : ~PackStart(stdout[i]) /\ ~PackEnd(stdout[i])
      BY <1>4, <2>1 DEF PackPipes
    <3>4. adapter'.compaction # None
      BY <1>3, <1>8, NamesAssumption
    <3> QED  BY <1>1, <3>2, <3>3, <3>4 DEF PackPipes, IsPack, PackStart, PackEnd
  <2>5. PackSession'
    <3>1. /\ PackLive /\ ops["compact"].state # "idle" /\ ~Unfinished(progress)'
          /\ \A i \in DOMAIN Queue : Queue[i].type # "compacted"
      BY <1>1, <1>4, <1>7, <1>8, <2>1 DEF PackLive, PackSession, Unfinished
    <3> QED  BY <1>1, <1>4, <1>6, <2>2, <3>1 DEF PackSession
  <2> QED  BY <2>3, <2>4, <2>5 DEF PackInv
<1>9. ASSUME c.op # "compact" PROVE PackInv'
  <2>1. adapter'.compaction = adapter.compaction /\ adapter'.turn = adapter.turn
        /\ ops'["compact"] = ops["compact"]
    BY <1>1, <1>3, <1>7, <1>9 DEF OpStep
  <2>2. PackSteps
    <3>1. PackStays
      BY <1>1 DEF PackStays
    <3> QED  BY <2>1, <3>1, SamePack
  <2>3. PackCalls' /\ (PackLive' => PackLive)
    BY <1>4, <2>1, <2>2 DEF PackSteps, PackCalls, PackLive
  <2>4. PackPipes'
    <3>1. \A i \in DOMAIN stdin' : IsPack(stdin'[i]) => i \in DOMAIN stdin /\ IsPack(stdin[i])
      BY <1>2, <1>5, <1>9 DEF IsPack
    <3>2. \A i \in DOMAIN stdin' : IsPack(stdin'[i]) =>
            /\ native.compacting = "no" /\ adapter.compaction # None
            /\ \A j \in DOMAIN stdin' : IsPack(stdin'[j]) => j = i
            /\ \A j \in DOMAIN stdout : ~PackStart(stdout[j]) /\ ~PackEnd(stdout[j])
      BY <1>4, <3>1 DEF PackPipes
    <3> QED  BY <1>1, <1>4, <2>1, <3>2 DEF PackPipes, IsPack, PackStart, PackEnd
  <2>5. PackSession'
    <3>1. PackLive /\ ops["compact"].state # "idle" => ~CarriesPrompt(c)
      BY <1>1, <1>4 DEF PackSession, AskedInv, IInv, ExitInv, Gone
    <3>2. PackLive' /\ ops'["compact"].state # "idle" =>
            ~Unfinished(progress)' /\ (compaction' = "asked" \/ exited')
      BY <1>1, <1>4, <2>1, <2>3, <3>1 DEF PackSession, Unfinished
    <3> QED  BY <1>1, <1>4, <1>6, <2>1, <2>3, <3>2 DEF PackSession
  <2> QED  BY <2>3, <2>4, <2>5 DEF PackInv
<1>10. CodexInv'
  <2>1. CASE ~CarriesPrompt(c)
    BY <1>1, <1>4, <2>1, SameWords DEF CodexInv, Unfinished
  <2>2. CASE CarriesPrompt(c)
    <3>1. progress'.turn = None
      BY <1>1, <2>2 DEF Fresh, Resting
    <3>2. \A i \in DOMAIN stdout : stdout[i].type = "turn/started" => stdout[i].ref = "compaction"
      <4> SUFFICES ASSUME NEW i \in DOMAIN stdout, stdout[i].type = "turn/started",
                          stdout[i].ref # "compaction"
                   PROVE  FALSE
        OBVIOUS
      <4>1. stdout[i].ref \in Prompts /\ progress.request = stdout[i].ref /\ ~progress.finished
        BY <1>4 DEF CodexInv
      <4> QED  BY <1>1, <2>2, <4>1, NamesAssumption DEF Unfinished
    <3>3. "compaction" \notin Prompts
      BY NamesAssumption
    <3> QED  BY <1>1, <3>1, <3>2, <3>3 DEF CodexInv
  <2> QED  BY <2>1, <2>2
<1> QED  BY <1>8, <1>9, <1>10

(* Pi: the prompt of a call is not one that a probe asks for.                *)
LEMMA PiAccepts ==
  ASSUME IInv, SInv, Steady, NEW c, Accepted(c), kind = "pi"
  PROVE  PiInv'
<1>0. PICK f : f = Sends(c)
  OBVIOUS
<1>1. /\ kind' = kind /\ native' = native
      /\ Joins(stdin, <<f>>, stdin') /\ <<f>>[1] = f /\ DOMAIN <<f>> = 1..1
      /\ progress' = IF CarriesPrompt(c) THEN Fresh(c.op) ELSE progress
      /\ adapter'.prompt = IF CarriesPrompt(c) THEN PromptCall(c.op) ELSE adapter.prompt
      /\ CarriesPrompt(c) => c.op \in Prompts /\ Coming(c.op)
      /\ c.op \in Ops
  BY <1>0 DEF Accepted, Accepts
<1>2. /\ f.id = <<c.op, c.step>> /\ (Carries(f) <=> CarriesPrompt(c))
      /\ CarriesPrompt(c) => f.ref = c.op
  BY <1>0, SentFrame
<1>3. PiInv
  BY DEF SInv
<1>4. /\ \A i \in DOMAIN stdin : i \in DOMAIN stdin' /\ stdin'[i] = stdin[i]
      /\ \A i \in DOMAIN stdin' : \/ i \in DOMAIN stdin /\ stdin'[i] = stdin[i]
                                  \/ i = Len(stdin) + 1 /\ stdin'[i] = f
  BY <1>1 DEF Joins
<1>5. adapter'.prompt # None => progress'.request # None
  BY <1>1, <1>3, NamesAssumption DEF PiInv, Fresh, Resting
<1>6. ASSUME NEW i \in DOMAIN stdin', NEW p \in Prompts, stdin'[i].id = <<"settled", PromptCall(p)>>
      PROVE  /\ ~Coming(p)'
             /\ \A j \in DOMAIN stdin' : Carries(stdin'[j]) /\ stdin'[j].ref = p => j < i
  <2>1. f.id # <<"settled", PromptCall(p)>>
    BY <1>1, <1>2, SpareNames
  <2>2. i \in DOMAIN stdin /\ stdin[i].id = <<"settled", PromptCall(p)>>
    BY <1>4, <1>6, <2>1
  <2>3. ~Coming(p) /\ \A j \in DOMAIN stdin : Carries(stdin[j]) /\ stdin[j].ref = p => j < i
    BY <1>3, <2>2 DEF PiInv
  <2>4. ~(Carries(f) /\ f.ref = p)
    BY <1>1, <1>2, <2>3
  <2> QED  BY <1>4, <2>3, <2>4 DEF Steady
<1>7. \A p : PromptCall(p)' = PromptCall(p)
  BY <1>1, SameWords
<1> QED  BY <1>1, <1>3, <1>5, <1>6, <1>7 DEF PiInv, Carries

-----------------------------------------------------------------------------
(* Claude: the prompt that is taken was not rejected or over.                *)
LEMMA ClaudeAccepts ==
  ASSUME IInv, SInv, Steady, NEW c, Accepted(c), kind = "claude"
  PROVE  QueueInv' /\ ReplyInv' /\ OverInv'
<1>1. /\ kind' = kind /\ native' = native /\ events' = events /\ outbox' = outbox /\ turn' = turn
      /\ progress' = IF CarriesPrompt(c) THEN Fresh(c.op) ELSE progress
      /\ CarriesPrompt(c) => /\ c.op \in Prompts /\ c.step = Len(Script(c.op))
                             /\ turn[c.op] = "sent" /\ Untouched(c.op)
                             /\ ops[c.op].state \in {"queued", "failed"}
      /\ c.op \in Ops /\ OpStep(c.op)
      /\ ops' = ops \/ ops'[c.op].state \in {"ok", "pending"}
  BY DEF Accepted, Accepts
<1>2. QueueInv /\ ReplyInv /\ OverInv
  BY DEF SInv
<1>3. /\ \A p \in Prompts : Holds(p)' <=> Holds(p) \/ (CarriesPrompt(c) /\ p = c.op)
      /\ \A p \in Prompts : Past(p) => Past(p)'
  BY AcceptKeeps
<1>4. /\ adapter'.active = IF CarriesPrompt(c) THEN [id |-> <<c.op, c.step>>, request |-> c.op]
                           ELSE adapter.active
      /\ adapter'.reply = adapter.reply
  <2> DEFINE request == IF CarriesPrompt(c) THEN c.op ELSE None
             id == <<c.op, c.step>>
  <2>1. adapter' = Claude!Encode(adapter, id, c.method, request)
    BY DEF Accepted, Encode
  <2>2. adapter \in ClaudeAdapters
    BY DEF IInv, TypeInv, AdapterOK
  <2>3. request # None <=> CarriesPrompt(c)
    BY <1>1, NamesAssumption
  <2> HIDE DEF request, id
  <2>4. /\ adapter'.active = IF request # None THEN [id |-> id, request |-> request] ELSE adapter.active
        /\ adapter'.reply = adapter.reply
    BY <2>1, <2>2 DEF Claude!Encode, ClaudeAdapters
  <2> QED  BY <2>3, <2>4 DEF id, request
<1>5. QueueInv'
  BY <1>1, <1>2, SameWords DEF QueueInv
<1>6. ReplyInv'
  <2>1. adapter'.active # None => progress'.request # None /\ adapter'.active.id = PromptCall(progress'.request)
    <3>1. CASE CarriesPrompt(c)
      BY <1>1, <1>4, <3>1, NamesAssumption DEF Fresh, Resting, PromptCall
    <3>2. CASE ~CarriesPrompt(c)
      BY <1>1, <1>2, <1>4, <3>2 DEF ReplyInv
    <3> QED  BY <3>1, <3>2
  <2>2. \A p : PromptCall(p)' = PromptCall(p)
    BY <1>1, SameWords
  <2> QED  BY <1>1, <1>2, <1>3, <1>4, <2>1, <2>2 DEF ReplyInv, SaysNo
<1>7. OverInv'
  <2>1. ops'["compact"].target = ops["compact"].target
    BY <1>1, OpsKnown DEF OpStep
  <2>2. \A p \in Prompts : ops'[p].state = "refused" => ops[p].state = "refused"
    BY <1>1, OpsKnown DEF OpStep
  <2>3. Queue' = Queue
    BY <1>1, SameQueue
  <2>4. \A p \in Prompts : Over(p)' => Over(p)
    BY <1>1, <2>2, <2>3 DEF Over
  <2>5. CarriesPrompt(c) => ~Over(c.op)
    <3> SUFFICES ASSUME CarriesPrompt(c), Over(c.op) PROVE FALSE
      OBVIOUS
    <3>1. \A i \in DOMAIN Queue : ~(Queue[i].type = "finished" /\ Queue[i].request = c.op)
      BY <1>1 DEF Untouched, Tells
    <3> QED  BY <1>1, <3>1 DEF Over
  <2> QED  BY <1>1, <1>2, <1>3, <2>1, <2>4, <2>5 DEF OverInv
<1> QED  BY <1>5, <1>6, <1>7

(* Cursor: the prompt that is taken finds no other; a steer waits for the    *)
(* answer of the turn.                                                       *)
LEMMA CursorAccepts ==
  ASSUME IInv, SInv, Steady, NEW c, Accepted(c), kind = "cursor"
  PROVE  CursorInv'
<1>0. PICK f : f = Sends(c)
  OBVIOUS
<1> DEFINE id == <<c.op, c.step>>
<1>1. /\ kind' = kind /\ native' = native /\ stdout' = stdout /\ after' = after
      /\ Joins(stdin, <<f>>, stdin') /\ <<f>>[1] = f /\ DOMAIN <<f>> = 1..1
      /\ progress' = IF CarriesPrompt(c) THEN Fresh(c.op) ELSE progress
      /\ CarriesPrompt(c) <=> c.op \in Prompts /\ c.step = Len(Script(c.op))
      /\ CarriesPrompt(c) => ~Unfinished(progress)
      /\ c.op \in Ops
  BY <1>0 DEF Accepted, Accepts
<1>2. CursorInv
  BY DEF SInv
<1>3. /\ c.method \in {"turn/start", "prompt", "session/prompt"} <=> CarriesPrompt(c)
      /\ c.method = "cloudroom/steer" => c.op = "steer" /\ c.step = 1
      /\ c.op = "steer" => c.method = "cloudroom/steer" /\ c.step = 1
  <2>1. PlanOK /\ c.step \in DOMAIN Script(c.op) /\ c.method = Script(c.op)[c.step].method
    BY DEF Accepted, CallOK, IInv, TypeInv
  <2> QED  BY <1>1, <2>1, ScriptMethods
<1>4. /\ adapter'.prompt = IF CarriesPrompt(c) THEN id ELSE adapter.prompt
      /\ adapter'.restart = IF c.method = "cloudroom/steer" THEN id ELSE adapter.restart
      /\ adapter'.responses = adapter.responses
  <2> DEFINE request == IF CarriesPrompt(c) THEN c.op ELSE None
  <2>1. adapter' = Cursor!Encode(adapter, id, c.method, request)
    BY DEF Accepted, Encode
  <2>2. adapter \in CursorAdapters
    BY DEF IInv, TypeInv, AdapterOK
  <2>3. request # None <=> CarriesPrompt(c)
    BY <1>1, NamesAssumption
  <2> HIDE DEF request, id
  <2>4. /\ adapter'.prompt = IF request # None THEN id ELSE adapter.prompt
        /\ adapter'.restart = IF c.method = "cloudroom/steer" THEN id ELSE adapter.restart
        /\ adapter'.responses = adapter.responses
    BY <2>1, <2>2 DEF Cursor!Encode, CursorAdapters
  <2> QED  BY <2>3, <2>4
<1>5. /\ f.method = IF c.method = "cloudroom/steer" THEN "session/cancel" ELSE c.method
      /\ f.id = id /\ (CarriesPrompt(c) => f.ref = c.op)
  BY <1>0 DEF Sends, Outgoing, Cursor!Outgoing, Cursor!Frame
<1>6. /\ id \in Turning <=> CarriesPrompt(c) \/ c.op = "steer"
      /\ CarriesPrompt(c) => id = PromptCall(c.op) /\ id # None
  <2>1. id \in Turning => CarriesPrompt(c) \/ c.op = "steer"
    <3>1. CASE id = <<"steer", 1>>
      BY <3>1
    <3>2. ASSUME NEW p \in Prompts, id = PromptCall(p) PROVE CarriesPrompt(c)
      <4>1. c.op = p /\ c.step = Len(Script(p))
        BY <3>2 DEF PromptCall
      <4> QED  BY <1>1, <4>1
    <3> QED  BY <3>1, <3>2 DEF Turning
  <2>2. CarriesPrompt(c) => id = PromptCall(c.op) /\ id \in Turning
    BY <1>1 DEF PromptCall, Turning
  <2>3. c.op = "steer" => id \in Turning
    BY <1>3 DEF Turning
  <2>4. CarriesPrompt(c) => id # None
    <3> SUFFICES ASSUME CarriesPrompt(c) PROVE id # None
      OBVIOUS
    <3>1. c.step \in Nat
      BY DEF Accepted, CallOK, Handed
    <3> QED  BY <1>1, <3>1, NamesAssumption
  <2> QED  BY <2>1, <2>2, <2>3, <2>4
<1>7. (Carries(f) <=> CarriesPrompt(c)) /\ (CarriesPrompt(c) => c.method = "session/prompt")
  <2>1. CarriesPrompt(c) => c.method = "session/prompt"
    <3> SUFFICES ASSUME CarriesPrompt(c) PROVE c.method = "session/prompt"
      OBVIOUS
    <3>1. c.op \notin {"start", "interrupt", "steer", "compact"}
      BY <1>1, OpsKnown
    <3>2. Script(c.op) = <<Step("call", "session/set_config_option"),
                           Step("dispatch", "session/prompt")>>
      BY <3>1 DEF Script, Cursor!Script, Cursor!Step, Step
    <3>3. c.method = Script(c.op)[c.step].method
      BY DEF Accepted, CallOK
    <3> QED  BY <1>1, <3>2, <3>3, Tuples DEF Step
  <2> QED  BY <1>3, <1>5, <2>1 DEF Carries
<1> HIDE DEF id
<1>8. /\ \A i \in DOMAIN stdin : i \in DOMAIN stdin' /\ stdin'[i] = stdin[i]
      /\ \A i \in DOMAIN stdin' : \/ i \in DOMAIN stdin /\ stdin'[i] = stdin[i]
                                  \/ i = Len(stdin) + 1 /\ stdin'[i] = f
  BY <1>1 DEF Joins
<1>9. adapter'.prompt \in Turning \cup {None} /\ adapter'.restart \in {None, <<"steer", 1>>}
  BY <1>2, <1>3, <1>4, <1>6 DEF CursorInv, id
<1>10. adapter'.prompt # None => Unfinished(progress')
  BY <1>1, <1>2, <1>4, NamesAssumption DEF CursorInv, Unfinished, Fresh, Resting
<1>11. \A i \in DOMAIN stdin' : stdin'[i].id \in Turning =>
         stdin'[i].method \in {"session/prompt", "session/cancel"}
  <2>1. f.id \in Turning => f.method \in {"session/prompt", "session/cancel"}
    BY <1>3, <1>5, <1>6, <1>7 DEF Carries
  <2> QED  BY <1>2, <1>8, <2>1 DEF CursorInv
<1>12. CASE ~CarriesPrompt(c)
  <2>1. adapter'.prompt = adapter.prompt /\ progress' = progress
    BY <1>1, <1>4, <1>12
  <2>2. \A i \in DOMAIN stdin' : Carries(stdin'[i]) => i \in DOMAIN stdin /\ stdin'[i] = stdin[i]
    BY <1>7, <1>8, <1>12
  <2>3. \A i \in DOMAIN stdin' : Carries(stdin'[i]) =>
          /\ adapter.prompt # None
          /\ adapter.prompt = stdin'[i].id /\ progress.request = stdin'[i].ref
          /\ native.turn = None /\ native.leaving = None /\ Silent
          /\ \A j \in DOMAIN stdin' : Carries(stdin'[j]) => j = i
    BY <1>2, <2>2 DEF CursorInv
  <2> QED  BY <1>1, <1>2, <1>4, <1>9, <1>10, <1>11, <2>1, <2>3, SameWords
           DEF CursorInv, Silent, Carries, Unfinished
<1>13. CASE CarriesPrompt(c)
  <2>1. adapter.prompt = None
    BY <1>1, <1>2, <1>13 DEF CursorInv
  <2>2. /\ \A i \in DOMAIN stdin : ~Carries(stdin[i])
        /\ native.turn = None /\ native.leaving = None /\ Silent
    BY <1>2, <2>1 DEF CursorInv, Silent
  <2>3. /\ adapter'.prompt # None /\ adapter'.prompt = f.id /\ progress'.request = f.ref
    BY <1>1, <1>4, <1>5, <1>6, <1>13 DEF Fresh, Resting
  <2>4. \A i \in DOMAIN stdin' : Carries(stdin'[i]) => i = Len(stdin) + 1 /\ stdin'[i] = f
    BY <1>8, <2>2
  <2>5. \A i \in DOMAIN stdout : ~Answers(stdout[i])
    BY <2>2 DEF Silent
  <2> QED  BY <1>1, <1>2, <1>4, <1>9, <1>10, <1>11, <2>2, <2>3, <2>4, <2>5, SameWords
           DEF CursorInv, Silent, Carries, Unfinished
<1> QED  BY <1>12, <1>13

-----------------------------------------------------------------------------
(* The parts that are about one harness say nothing of the others.           *)
LEMMA OtherHarness ==
  /\ kind = "cursor"  => FramesInv /\ TokenInv /\ DoneInv
  /\ kind # "codex"  => PackInv /\ CodexInv
  /\ kind # "pi"     => PiInv
  /\ kind # "claude" => QueueInv /\ ReplyInv /\ OverInv
  /\ kind # "cursor" => CursorInv
  /\ kind' = "cursor"  => FramesInv' /\ TokenInv' /\ DoneInv'
  /\ kind' # "codex"  => PackInv' /\ CodexInv'
  /\ kind' # "pi"     => PiInv'
  /\ kind' # "claude" => QueueInv' /\ ReplyInv' /\ OverInv'
  /\ kind' # "cursor" => CursorInv'
<1>1. kind = "cursor" => FramesInv /\ TokenInv /\ DoneInv
  BY DEF FramesInv, TokenInv, DoneInv, Final
<1>2. kind' = "cursor" => FramesInv' /\ TokenInv' /\ DoneInv'
  BY DEF FramesInv, TokenInv, DoneInv, Final
<1>3. /\ kind # "codex"  => PackInv /\ CodexInv
      /\ kind' # "codex"  => PackInv' /\ CodexInv'
  BY DEF PackInv, CodexInv
<1>4. /\ kind # "pi"     => PiInv
      /\ kind' # "pi"     => PiInv'
  BY DEF PiInv
<1>5. /\ kind # "claude" => QueueInv /\ ReplyInv /\ OverInv
      /\ kind' # "claude" => QueueInv' /\ ReplyInv' /\ OverInv'
  BY DEF QueueInv, ReplyInv, OverInv
<1>6. /\ kind # "cursor" => CursorInv
      /\ kind' # "cursor" => CursorInv'
  BY DEF CursorInv
<1> QED  BY <1>1, <1>2, <1>3, <1>4, <1>5, <1>6

(* The driver takes a call.                                                  *)
LEMMA AcceptSound ==
  ASSUME IInv, IInv', SInv, Steady, AcceptCall
  PROVE  SInv'
<1>0. PICK c : Accepted(c)
  BY AcceptedCall
<1>1. /\ kind' = kind /\ turn' = turn /\ compaction' = compaction
      /\ kind \in {"codex", "claude", "pi", "cursor"}
  BY <1>0, KindKnown DEF Accepted, Accepts, IInv, TypeInv
<1>2. AskedInv'
  BY <1>1 DEF SInv, AskedInv
<1>3. kind # "cursor" => FramesInv' /\ TokenInv' /\ DoneInv'
  BY <1>0, AcceptKeeps
<1>4. /\ kind = "codex"  => PackInv' /\ CodexInv'
      /\ kind = "pi"     => PiInv'
      /\ kind = "claude" => QueueInv' /\ ReplyInv' /\ OverInv'
      /\ kind = "cursor" => CursorInv'
  BY <1>0, CodexAccepts, PiAccepts, ClaudeAccepts, CursorAccepts
<1> QED  BY <1>1, <1>2, <1>3, <1>4, OtherHarness DEF SInv

-----------------------------------------------------------------------------
(* The answers to a message, as far as turns go; none is given while events  *)
(* of it are on their way.                                                   *)
Told(a, m) ==
  /\ adapter' \in {a, Closing(a, m)}
  /\ stdin' = stdin \/ stdin' = stdin \o Responds(a, m)
  /\ \/ ops' = ops
     \/ \E op \in Ops : Advances(op)
     \/ \E op \in Ops : /\ Rejects(op) /\ Reply(a, m) # NoAnswer
                        /\ Reply(a, m)[1].id = <<op, ops[op].step>> /\ ~Reply(a, m)[1].ok

(* The answers are the adapter's, and no more.                               *)
LEMMA AnsweredTold ==
  ASSUME NEW a, NEW m, Answered(a, m)
  PROVE  Told(a, m) /\ after' = None
<1> DEFINE reply == Reply(a, m)
           heard == {op \in Ops : /\ reply # NoAnswer /\ ops[op].state = "pending"
                                  /\ reply[1].id = <<op, ops[op].step>>}
           op == CHOOSE o \in heard : TRUE
<1>1. /\ adapter' \in {a, Closing(a, m)} /\ after' = None
      /\ stdin' = stdin \/ stdin' = stdin \o Responds(a, m)
  BY DEF Answered
<1>2. \/ ops' = ops
      \/ \E o \in Ops : Advances(o)
      \/ \E o \in Ops : /\ Rejects(o) /\ reply # NoAnswer
                        /\ reply[1].id = <<o, ops[o].step>> /\ ~reply[1].ok
  <2>1. CASE heard = {}
    BY <2>1 DEF Answered
  <2>2. CASE heard # {}
    <3>1. op \in heard
      BY <2>2
    <3>2. op \in Ops /\ reply # NoAnswer /\ ops[op].state = "pending"
          /\ reply[1].id = <<op, ops[op].step>>
      BY <3>1
    <3>3. ops' = IF reply[1].ok THEN Forward(ops, op) ELSE [ops EXCEPT ![op].state = "refused"]
      BY <2>2 DEF Answered
    <3> HIDE DEF heard, op, reply
    <3> QED  BY <3>2, <3>3 DEF Advances, Rejects
  <2> QED  BY <2>1, <2>2
<1> QED  BY <1>1, <1>2 DEF Told

(* The driver reads m, which the adapter receives as r.                      *)
Reading(m, r) ==
  /\ UNCHANGED <<kind, phase, calls, events, native, turn, compaction, exited>>
  /\ outbox = <<>> /\ m \in Messages /\ 1 \in DOMAIN stdout /\ m = stdout[1]
  /\ stdout # <<>> /\ stdout' = Tail(stdout) /\ Drops(stdout, stdout')
  /\ r = Receive(m) /\ Speaks(r) /\ progress' = r.progress /\ outbox' = r.events
  /\ Told(r.adapter, m) /\ Hears(r.adapter, m) /\ Grown(r.events)
  /\ after' = None \/ (after' = m /\ r.events # <<>>)

(* Reading a line is reading its message.                                    *)
LEMMA ReadReading ==
  ASSUME IInv, ReadLine
  PROVE  Reading(Head(stdout), Receive(Head(stdout)))
<1>0. PICK m, r : m = Head(stdout) /\ r = Receive(m)
  OBVIOUS
<1>1. /\ UNCHANGED <<kind, uses, phase, calls, events, native, quit, sessionVars>>
      /\ outbox = <<>> /\ stdout # <<>> /\ stdout' = Tail(stdout) /\ m \in Messages
      /\ progress' = r.progress /\ outbox' = r.events /\ Speaks(r) /\ Hears(r.adapter, m)
      /\ after' \in {m, None} /\ (r.events = <<>> => after' = None)
  BY <1>0, ReadChanges
<1>2. Told(r.adapter, m)
  <2>1. CASE r.events = <<>>
    BY <1>0, <2>1, AnsweredTold DEF ReadLine
  <2>2. CASE r.events # <<>>
    <3>1. adapter' = r.adapter /\ UNCHANGED <<stdin, ops>>
      BY <1>0, <2>2 DEF ReadLine
    <3> QED  BY <3>1 DEF Told
  <2> QED  BY <2>1, <2>2
<1>3. stdout \in Seq(Messages) /\ EventsOK
  BY DEF IInv, TypeInv, PipesOK
<1>4. Drops(stdout, stdout') /\ 1 \in DOMAIN stdout /\ m = stdout[1]
  <2>1. Drops(stdout, stdout')
    BY <1>1, <1>3, Shifted
  <2> QED  BY <1>0, <2>1 DEF Drops
<1>5. Grown(r.events)
  <2>1. r.events \in Seq(Reports)
    BY <1>1 DEF Speaks, Telling
  <2> QED  BY <1>1, <1>3, <2>1, OutboxFilled
<1>6. after' = None \/ (after' = m /\ r.events # <<>>)
  BY <1>1
<1> QED  BY <1>0, <1>1, <1>2, <1>4, <1>5, <1>6 DEF Reading, sessionVars

(* The driver sends an event; the answers are due after the last one.        *)
Sending ==
  /\ UNCHANGED <<kind, phase, progress, calls, native, stdout, turn, compaction, exited>>
  /\ Queue' = Queue /\ after' \in {after, None}
  /\ Told(adapter, after) /\ (after = None => UNCHANGED <<adapter, stdin, ops>>)

(* Sending an event answers at most the message that waited for it.          *)
LEMMA SendSending ==
  ASSUME IInv, SendEvent
  PROVE  Sending
<1>1. /\ UNCHANGED <<kind, phase, progress, calls, native, stdout, turn, compaction, exited>>
      /\ outbox # <<>> /\ HasRoom /\ events' = Append(events, Head(outbox)) /\ outbox' = Tail(outbox)
  BY DEF SendEvent, nativeVars, sessionVars, boundVars
<1>2. Queue' = Queue
  BY <1>1, SendSameQueue DEF IInv, TypeInv
<1>3. CASE Tail(outbox) = <<>> /\ after # None
  <2>1. Told(adapter, after) /\ after' = None
    BY <1>3, AnsweredTold DEF SendEvent
  <2> QED  BY <1>1, <1>2, <1>3, <2>1 DEF Sending
<1>4. CASE ~(Tail(outbox) = <<>> /\ after # None)
  <2>1. UNCHANGED <<adapter, after, stdin, ops>>
    BY <1>4 DEF SendEvent
  <2>2. Told(adapter, after)
    BY <2>1 DEF Told
  <2> QED  BY <1>1, <1>2, <2>1, <2>2 DEF Sending
<1> QED  BY <1>3, <1>4

-----------------------------------------------------------------------------
(* What Codex's adapter makes of a message: it forgets the compaction or     *)
(* takes a turn for it, and ends its own turn on an answer that refuses it   *)
(* or at the end of the native turn that it knows.                           *)
PackDone(m) == Codex!CompactionRefused(adapter, m) \/ Codex!CompactionEnds(adapter, m)

(* What Codex's adapter makes of a message.                                  *)
LEMMA CodexHeard ==
  ASSUME kind = "codex", adapter \in CodexAdapters, progress \in Turned, NEW m \in Messages
  PROVE  LET r == Receive(m)
         IN  /\ PackDone(m) => r.adapter.compaction = None /\ r.adapter.turn = None
             /\ ~PackDone(m) =>
                  /\ r.adapter.compaction = adapter.compaction
                  /\ r.adapter.turn = IF Codex!ClaimsTurn(adapter, m) THEN m.ref ELSE adapter.turn
             /\ r.progress.turn = IF m.type = "turn/started" THEN m.ref ELSE progress.turn
             /\ r.progress.finished =>
                  \/ progress.finished
                  \/ m.type = "response" /\ m.id = adapter.prompt /\ m.status = "error"
                  \/ m.type = "turn/completed" /\ progress.turn # None /\ m.ref = progress.turn
             /\ \A i \in DOMAIN r.events : r.events[i].type = "compacted" =>
                  Codex!CompactionEnds(adapter, m)
<1> DEFINE q == Codex!Rejected(adapter, progress, m)
           u == [q EXCEPT !.turn = m.ref]
           b == Codex!AfterCompaction(adapter, m)
           c == Codex!CompactionEvents(adapter, m)
           r == Receive(m)
           t == CASE m.type = "turn/started" -> StartEvents(u)
                  [] m.type = "item/started" /\ m.ref = q.turn -> <<>>
                  [] m.type = "turn/completed" /\ q.turn # None /\ m.ref = q.turn
                       -> FinishEvents(q, m.status)
                  [] OTHER -> <<>>
           x == CASE m.type = "turn/started" -> Begun(u)
                  [] m.type = "item/started" /\ m.ref = q.turn -> [q EXCEPT !.shell = TRUE]
                  [] m.type = "turn/completed" /\ q.turn # None /\ m.ref = q.turn -> Ended(q)
                  [] OTHER -> q
<1>1. r.adapter = b /\ r.progress = x /\ r.events = c \o t
  <2>1. CASE m.type = "turn/started"
    BY <2>1, CodexWords DEF Receive, Codex!Receive
  <2>2. CASE m.type = "item/started" /\ m.ref = q.turn
    BY <2>2, CodexWords DEF Receive, Codex!Receive
  <2>3. CASE m.type = "turn/completed" /\ q.turn # None /\ m.ref = q.turn
    BY <2>3, CodexWords DEF Receive, Codex!Receive
  <2>4. CASE /\ m.type # "turn/started" /\ ~(m.type = "item/started" /\ m.ref = q.turn)
             /\ ~(m.type = "turn/completed" /\ q.turn # None /\ m.ref = q.turn)
    BY <2>4, CodexWords DEF Receive, Codex!Receive
  <2> QED  BY <2>1, <2>2, <2>3, <2>4
<1>2. /\ q \in Turned /\ q.turn = progress.turn
      /\ q.finished => \/ progress.finished
                       \/ m.type = "response" /\ m.id = adapter.prompt /\ m.status = "error"
      /\ u \in Turned /\ u.turn = m.ref /\ u.finished = q.finished
  <2>1. /\ q \in Turned /\ q.turn = progress.turn
        /\ q.finished => \/ progress.finished
                         \/ m.type = "response" /\ m.id = adapter.prompt /\ m.status = "error"
    BY DEF Codex!Rejected, Turned
  <2> HIDE DEF q
  <2>2. u \in Turned /\ u.turn = m.ref /\ u.finished = q.finished
    BY <2>1 DEF Turned, Messages, Lines
  <2> QED  BY <2>1, <2>2
<1>3. /\ PackDone(m) => b.compaction = None /\ b.turn = None
      /\ ~PackDone(m) =>
           /\ b.compaction = adapter.compaction
           /\ b.turn = IF Codex!ClaimsTurn(adapter, m) THEN m.ref ELSE adapter.turn
  BY DEF PackDone, Codex!AfterCompaction, CodexAdapters
<1> HIDE DEF q, u, b, r
<1>4. /\ x.turn = IF m.type = "turn/started" THEN m.ref ELSE progress.turn
      /\ x.finished => \/ q.finished
                       \/ m.type = "turn/completed" /\ progress.turn # None /\ m.ref = progress.turn
  <2>1. CASE m.type = "turn/started"
    BY <1>2, <2>1 DEF Begun, Turned
  <2>2. CASE m.type = "item/started" /\ m.ref = q.turn
    BY <1>2, <2>2 DEF Turned
  <2>3. CASE m.type = "turn/completed" /\ q.turn # None /\ m.ref = q.turn
    BY <1>2, <2>3 DEF Ended, Turned
  <2>4. CASE /\ m.type # "turn/started" /\ ~(m.type = "item/started" /\ m.ref = q.turn)
             /\ ~(m.type = "turn/completed" /\ q.turn # None /\ m.ref = q.turn)
    BY <1>2, <2>4
  <2> QED  BY <2>1, <2>2, <2>3, <2>4
<1>5. \A i \in DOMAIN r.events : r.events[i].type = "compacted" => Codex!CompactionEnds(adapter, m)
  <2> SUFFICES ASSUME ~Codex!CompactionEnds(adapter, m)
               PROVE  \A i \in DOMAIN r.events : r.events[i].type # "compacted"
    OBVIOUS
  <2>1. c = <<>>
    BY DEF Codex!CompactionEvents
  <2> DEFINE e == Event("started", u.request, None)
             f == Event("finished", q.request, m.status)
  <2>2. t = <<>> \/ t = <<e>> \/ t = <<f>>
    BY DEF StartEvents, FinishEvents
  <2>3. e.type # "compacted" /\ f.type # "compacted"
    BY DEF Event
  <2> HIDE DEF c, t, e, f
  <2>4. <<>> \o t = t
    <3>1. /\ <<>> \o <<>> = <<>>
          /\ <<>> \o <<e>> = <<e>> /\ <<>> \o <<f>> = <<f>>
      OBVIOUS
    <3> QED  BY <2>2, <3>1
  <2>5. r.events = t
    BY <1>1, <2>1, <2>4
  <2> SUFFICES \A i \in DOMAIN t : t[i].type # "compacted"
    BY <2>5
  <2>6. CASE t = <<>>
    BY <2>6, Tuples
  <2>7. CASE t = <<e>>
    BY <2>3, <2>7
  <2>8. CASE t = <<f>>
    BY <2>3, <2>8
  <2> QED  BY <2>2, <2>6, <2>7, <2>8
<1> HIDE DEF x
<1>6. QED
  BY <1>1, <1>2, <1>3, <1>4, <1>5 DEF r

-----------------------------------------------------------------------------
(* Nothing added to a sequence.                                              *)
LEMMA NothingJoined ==
  ASSUME NEW S, NEW s \in Seq(S) PROVE Joins(s, <<>>, s) /\ s \o <<>> = s
<1>1. <<>> \in Seq(S) /\ s \o <<>> = s
  BY ConcatProperties, EmptySeq, SeqEqual
<1> QED  BY <1>1, Joined

(* Codex owes no frames and confirms no close.                               *)
LEMMA CodexTold ==
  ASSUME IInv, kind = "codex", NEW a, NEW m, Told(a, m)
  PROVE  adapter' = a /\ stdin' = stdin
<1>1. Responds(a, m) = <<>> /\ Closing(a, m) = a
  BY DEF Responds, Closing
<1>2. stdin \o <<>> = stdin
  BY NothingJoined DEF IInv, TypeInv, PipesOK
<1> QED  BY <1>1, <1>2 DEF Told

(* An answer of Codex ends the wait of its compaction's call, or refuses it. *)
PackHears(m) ==
  /\ \A i \in DOMAIN calls' : calls'[i].op = "compact" =>
       ops'["compact"].state \in {"queued", "failed"}
  /\ PackComing' => PackComing
  /\ ops'["compact"].state = "idle" <=> ops["compact"].state = "idle"
  /\ ops'["compact"].state = "refused" =>
       ops["compact"].state = "refused"
       \/ (m.type = "response" /\ m.id = <<"compact", 1>> /\ m.status # "ok")

(* An answer tells the compaction's call and no other operation of it.       *)
LEMMA CodexHears ==
  ASSUME IInv, SInv, kind = "codex", calls' = calls, NEW m,
         \/ ops' = ops
         \/ \E op \in Ops : Advances(op)
         \/ \E op \in Ops : Rejects(op) /\ Refusal(m, op)
  PROVE  PackHears(m)
<1>1. PackCalls /\ ops \in [Ops -> Operation] /\ OpsOK /\ "compact" \in Ops
  BY OpsKnown DEF SInv, PackInv, IInv, TypeInv, OpsOK
<1>2. ops["compact"].state = "pending" =>
        /\ ops["compact"].step = 1 /\ Last("compact")
        /\ \A i \in DOMAIN calls : calls[i].op # "compact"
  <2> SUFFICES ASSUME ops["compact"].state = "pending"
               PROVE  /\ ops["compact"].step = 1 /\ Last("compact")
                      /\ \A i \in DOMAIN calls : calls[i].op # "compact"
    OBVIOUS
  <2>1. Script("compact") = <<Step("call", "thread/compact/start")>>
    BY DEF Script, Codex!Script, Codex!Step, Step
  <2>2. ops["compact"].step \in DOMAIN Script("compact")
    BY <1>1 DEF OpsOK, Open
  <2>3. DOMAIN Script("compact") = 1..1 /\ Len(Script("compact")) = 1
    BY <2>1, Tuples
  <2>4. ops["compact"].step = 1
    BY <2>2, <2>3
  <2>5. \A i \in DOMAIN calls : calls[i].op # "compact"
    BY <1>1 DEF PackCalls
  <2> QED  BY <2>3, <2>4, <2>5 DEF Last
<1>3. CASE ops'["compact"] = ops["compact"]
  BY <1>1, <1>3 DEF PackHears, PackCalls, PackComing
<1>4. CASE ops'["compact"] # ops["compact"]
  <2>1. \/ Advances("compact")
        \/ Rejects("compact") /\ Refusal(m, "compact")
    <3>1. ASSUME NEW op \in Ops, Advances(op), op # "compact" PROVE FALSE
      BY <1>1, <1>4, <3>1, SetForward DEF Advances, OpStep
    <3>2. ASSUME NEW op \in Ops, Rejects(op), op # "compact" PROVE FALSE
      BY <1>1, <1>4, <3>2, SetState DEF Rejects, OpStep, Calling
    <3> QED  BY <1>4, <3>1, <3>2
  <2>2. CASE Advances("compact")
    <3>1. ops["compact"].state = "pending" /\ ops'["compact"].state = "ok"
      BY <1>1, <1>2, <2>2, SetForward DEF Advances
    <3> QED  BY <1>2, <3>1 DEF PackHears, PackComing
  <2>3. CASE Rejects("compact") /\ Refusal(m, "compact")
    <3>1. ops["compact"].state = "pending" /\ ops'["compact"].state = "refused"
      BY <1>1, <2>3, SetState DEF Rejects, Calling
    <3>2. m.type = "response" /\ m.id = <<"compact", 1>> /\ m.status # "ok"
      BY <1>2, <2>3, <3>1 DEF Refusal
    <3> QED  BY <1>2, <3>1, <3>2 DEF PackHears, PackComing
  <2> QED  BY <2>1, <2>2, <2>3
<1> QED  BY <1>3, <1>4

-----------------------------------------------------------------------------
(* Reading what Codex says.  The end of a compaction is the last word on it, *)
(* and no turn runs before the session has it.                               *)
LEMMA CodexReads ==
  ASSUME IInv, IInv', SInv, Steady, kind = "codex", NEW m, NEW r, Reading(m, r)
  PROVE  FramesInv' /\ TokenInv' /\ DoneInv' /\ PackInv' /\ CodexInv'
<1>1. /\ kind' = kind /\ native' = native /\ calls' = calls
      /\ compaction' = compaction /\ exited' = exited
      /\ m \in Messages /\ 1 \in DOMAIN stdout /\ m = stdout[1]
      /\ stdout # <<>> /\ stdout' = Tail(stdout)
      /\ \A i \in DOMAIN stdout' : /\ i + 1 \in DOMAIN stdout /\ stdout'[i] = stdout[i + 1]
                                   /\ i \in Nat \ {0}
      /\ DOMAIN stdout \subseteq Nat \ {0}
      /\ progress' = r.progress /\ Grown(r.events)
      /\ after' = None \/ (after' = m /\ r.events # <<>>)
  BY DEF Reading, Drops
<1>2. r = Receive(m) /\ Told(r.adapter, m) /\ Hears(r.adapter, m) /\ Kept(r.progress)
  BY DEF Reading, Speaks
<1>3. /\ adapter \in CodexAdapters /\ progress \in Turned /\ stdin \in Seq(Frames)
  BY DEF IInv, TypeInv, AdapterOK, DriverOK, PipesOK
<1>4. PackCalls /\ PackPipes /\ PackSession /\ CodexInv /\ DoneInv
  BY DEF SInv, PackInv
<1>5. adapter' = r.adapter /\ stdin' = stdin
  BY <1>2, CodexTold
<1>6. /\ PackDone(m) => adapter'.compaction = None /\ adapter'.turn = None
      /\ ~PackDone(m) =>
           /\ adapter'.compaction = adapter.compaction
           /\ adapter'.turn = IF Codex!ClaimsTurn(adapter, m) THEN m.ref ELSE adapter.turn
      /\ progress'.turn = IF m.type = "turn/started" THEN m.ref ELSE progress.turn
      /\ progress'.finished =>
           \/ progress.finished
           \/ m.type = "response" /\ m.id = adapter.prompt /\ m.status = "error"
           \/ m.type = "turn/completed" /\ progress.turn # None /\ m.ref = progress.turn
      /\ \A i \in DOMAIN r.events : r.events[i].type = "compacted" =>
           Codex!CompactionEnds(adapter, m)
  BY <1>1, <1>2, <1>3, <1>5, CodexHeard
<1>7. /\ progress'.request = progress.request /\ (progress.finished => progress'.finished)
      /\ (Unfinished(progress)' => Unfinished(progress))
  BY <1>1, <1>2 DEF Kept, Unfinished
<1>8. m.type = "response" => after' = None /\ m.status \in {"ok", "error"}
  BY <1>1, <1>2, <1>3, CodexReceives DEF IInv, BusyInv
<1>9. adapter.compaction # None =>
        /\ ~PackComing /\ PackLive /\ ops["compact"].state # "idle" /\ ~Unfinished(progress)
  BY <1>4 DEF PackCalls, PackLive, PackComing, PackSession
<1>10. PackDone(m) => PackEnd(m) /\ adapter.compaction # None
  BY <1>4 DEF PackDone, Codex!CompactionRefused, Codex!CompactionEnds, PackCalls, PackEnd
<1>11. Codex!ClaimsTurn(adapter, m) => m.ref = "compaction"
  <2> SUFFICES ASSUME Codex!ClaimsTurn(adapter, m), m.ref # "compaction" PROVE FALSE
    OBVIOUS
  <2>1. m.type = "turn/started" /\ adapter.compaction # None
    BY DEF Codex!ClaimsTurn
  <2>2. m.ref \in Prompts /\ progress.request = m.ref /\ ~progress.finished
    BY <1>1, <1>4, <2>1 DEF CodexInv
  <2> QED  BY <1>9, <2>1, <2>2, NamesAssumption DEF Unfinished
<1>12. \A p \in Prompts : progress'.finished /\ Unfinished(progress) /\ progress.request = p => Final(m, p)
  <2> SUFFICES ASSUME NEW p \in Prompts, progress'.finished, Unfinished(progress), progress.request = p
               PROVE  Final(m, p)
    OBVIOUS
  <2>1. p # None /\ adapter.prompt = PromptCall(p) /\ progress.turn \in {None, p}
    BY <1>4, NamesAssumption DEF IInv, BusyInv, CodexInv
  <2> QED  BY <1>6, <2>1 DEF Final, Unfinished
<1>13. \A p \in Prompts : Final(m, p) => Past(p)
  BY <1>1, <1>4 DEF DoneInv
<1>14. Drives(<<>>)
  <2>1. Joins(stdin, <<>>, stdin')
    BY <1>3, <1>5, NothingJoined
  <2>2. \A i \in DOMAIN <<>> : FALSE
    OBVIOUS
  <2> QED  BY <1>1, <1>7, <1>12, <1>13, <2>1, <2>2 DEF Drives
<1>15. FramesInv' /\ TokenInv' /\ DoneInv'
  BY <1>14, DrivesKeep
<1>16. PackHears(m)
  BY <1>1, <1>2, CodexHears DEF Hears
<1>17. PackLive' => PackLive /\ ~PackDone(m)
  BY <1>6, <1>9, <1>10, <1>16 DEF PackHears, PackLive
<1>18. PackCalls'
  <2>1. adapter'.compaction \in {None, <<"compact", 1>>} /\ adapter'.turn \in {None, "compaction"}
    BY <1>4, <1>6, <1>11 DEF PackCalls
  <2>2. PackComing' => adapter'.compaction = None
    BY <1>4, <1>6, <1>16 DEF PackCalls, PackHears
  <2> QED  BY <1>1, <1>4, <1>16, <2>1, <2>2 DEF PackCalls, PackHears
<1>19. PackPipes'
  <2>1. CASE PackDone(m)
    <3>1. PackEnd(stdout[1])
      BY <1>1, <1>10, <2>1
    <3>2. /\ \A i \in DOMAIN stdin : ~IsPack(stdin[i])
          /\ native.compacting = "no"
          /\ \A j \in DOMAIN stdout : /\ PackEnd(stdout[j]) => j = 1
                                      /\ PackStart(stdout[j]) => j < 1
      BY <1>1, <1>4, <3>1 DEF PackPipes
    <3>3. \A j \in DOMAIN stdout' : ~PackEnd(stdout'[j]) /\ ~PackStart(stdout'[j])
      <4> SUFFICES ASSUME NEW j \in DOMAIN stdout'
                   PROVE  ~PackEnd(stdout'[j]) /\ ~PackStart(stdout'[j])
        OBVIOUS
      <4>1. j + 1 \in DOMAIN stdout /\ stdout'[j] = stdout[j + 1] /\ j + 1 # 1 /\ ~(j + 1 < 1)
        BY <1>1
      <4> QED  BY <3>2, <4>1
    <3>4. \A i \in DOMAIN stdin' : ~IsPack(stdin'[i])
      BY <1>5, <3>2
    <3> QED  BY <1>1, <3>2, <3>3, <3>4 DEF PackPipes, IsPack, PackStart, PackEnd
  <2>2. CASE ~PackDone(m)
    <3>1. adapter'.compaction = adapter.compaction
      BY <1>6, <2>2
    <3>2. \A i \in DOMAIN stdout' : PackEnd(stdout'[i]) =>
            /\ adapter.compaction # None
            /\ \A j \in DOMAIN stdout' : /\ PackEnd(stdout'[j]) => j = i
                                         /\ PackStart(stdout'[j]) => j < i
      <4> SUFFICES ASSUME NEW i \in DOMAIN stdout', PackEnd(stdout'[i]), NEW j \in DOMAIN stdout'
                   PROVE  /\ adapter.compaction # None
                          /\ PackEnd(stdout'[j]) => j = i
                          /\ PackStart(stdout'[j]) => j < i
        BY <1>4, <1>1 DEF PackPipes
      <4>1. /\ i + 1 \in DOMAIN stdout /\ stdout'[i] = stdout[i + 1] /\ i \in Nat
            /\ j + 1 \in DOMAIN stdout /\ stdout'[j] = stdout[j + 1] /\ j \in Nat
        BY <1>1
      <4>2. /\ adapter.compaction # None
            /\ PackEnd(stdout[j + 1]) => j + 1 = i + 1
            /\ PackStart(stdout[j + 1]) => j + 1 < i + 1
        BY <1>4, <4>1 DEF PackPipes
      <4> QED  BY <4>1, <4>2
    <3>3. \A i \in DOMAIN stdout' : \E k \in DOMAIN stdout : stdout'[i] = stdout[k]
      BY <1>1
    <3>4. /\ \A i \in DOMAIN stdin' : IsPack(stdin'[i]) =>
               /\ native.compacting = "no" /\ adapter.compaction # None
               /\ \A j \in DOMAIN stdin' : IsPack(stdin'[j]) => j = i
               /\ \A j \in DOMAIN stdout' : ~PackStart(stdout'[j]) /\ ~PackEnd(stdout'[j])
          /\ native.compacting # "no" =>
               adapter.compaction # None /\ \A j \in DOMAIN stdout' : ~PackEnd(stdout'[j])
          /\ native.compacting = "asked" => \A j \in DOMAIN stdout' : ~PackStart(stdout'[j])
          /\ \A i \in DOMAIN stdout' : PackStart(stdout'[i]) => adapter.compaction # None
      BY <1>4, <1>5, <3>3 DEF PackPipes
    <3> QED  BY <1>1, <3>1, <3>2, <3>4 DEF PackPipes, IsPack, PackStart, PackEnd
  <2> QED  BY <2>1, <2>2
<1>20. PackSession'
  <2>1. \A i \in DOMAIN Queue' : Queue'[i].type = "compacted" => ~PackLive'
    <3> SUFFICES ASSUME NEW i \in DOMAIN Queue', Queue'[i].type = "compacted", PackLive' PROVE FALSE
      OBVIOUS
    <3>1. CASE i \in DOMAIN Queue
      <4>1. Queue[i].type = "compacted"
        BY <1>1, <3>1 DEF Grown
      <4> QED  BY <1>4, <1>17, <3>1, <4>1 DEF PackSession
    <3>2. CASE \E j \in DOMAIN r.events : Queue'[i] = r.events[j]
      BY <1>6, <1>17, <3>2 DEF PackDone
    <3> QED  BY <1>1, <3>1, <3>2 DEF Grown
  <2>2. ops'["compact"].state = "refused" => ~PackLive'
    <3> SUFFICES ASSUME m.type = "response", m.id = <<"compact", 1>>, m.status # "ok" PROVE ~PackLive'
      BY <1>4, <1>16, <1>17 DEF PackHears, PackSession
    <3>1. PackEnd(stdout[1])
      BY <1>1, <1>8 DEF PackEnd
    <3>2. adapter.compaction = m.id /\ adapter.compaction # None
      BY <1>1, <1>4, <3>1 DEF PackPipes, PackCalls
    <3>3. PackDone(m)
      BY <1>8, <3>2 DEF PackDone, Codex!CompactionRefused
    <3> QED  BY <1>17, <3>3
  <2>3. PackLive' /\ ops'["compact"].state # "idle" =>
          ~Unfinished(progress)' /\ (compaction' = "asked" \/ exited')
    BY <1>1, <1>4, <1>7, <1>16, <1>17 DEF PackHears, PackSession
  <2>4. after' # None => after'.type # "response"
    BY <1>1, <1>8
  <2> QED  BY <2>1, <2>2, <2>3, <2>4 DEF PackSession
<1>21. CodexInv'
  <2>1. ASSUME NEW i \in DOMAIN stdout', stdout'[i].type = "turn/started"
        PROVE  /\ stdout'[i].ref \in Prompts \cup {"compaction"}
               /\ stdout'[i].ref \in Prompts =>
                    /\ progress'.request = stdout'[i].ref /\ ~progress'.finished
                    /\ \A j \in DOMAIN stdout' : Final(stdout'[j], stdout'[i].ref) => i < j
    <3>1. i + 1 \in DOMAIN stdout /\ stdout'[i] = stdout[i + 1] /\ i \in Nat \ {0}
      BY <1>1
    <3>2. stdout'[i].ref \in Prompts \cup {"compaction"}
      BY <1>4, <2>1, <3>1 DEF CodexInv
    <3>3. ASSUME NEW p \in Prompts, stdout'[i].ref = p
          PROVE  /\ progress'.request = p /\ ~progress'.finished
                 /\ \A j \in DOMAIN stdout' : Final(stdout'[j], p) => i < j
      <4>1. /\ progress.request = p /\ ~progress.finished /\ p # None
            /\ \A j \in DOMAIN stdout : Final(stdout[j], p) => i + 1 < j
        BY <1>4, <2>1, <3>1, <3>3, NamesAssumption DEF CodexInv
      <4>2. ~Final(m, p)
        <5>1. ~(i + 1 < 1)
          BY <3>1
        <5> QED  BY <1>1, <4>1, <5>1
      <4>3. progress'.request = p /\ ~progress'.finished
        BY <1>7, <1>12, <4>1, <4>2 DEF Unfinished
      <4>4. ASSUME NEW j \in DOMAIN stdout', Final(stdout'[j], p) PROVE i < j
        <5>1. j + 1 \in DOMAIN stdout /\ stdout'[j] = stdout[j + 1] /\ j \in Nat \ {0}
          BY <1>1
        <5>2. i + 1 < j + 1
          BY <4>1, <4>4, <5>1
        <5> QED  BY <3>1, <5>1, <5>2
      <4> QED  BY <4>3, <4>4
    <3> QED  BY <3>2, <3>3
  <2>2. Unfinished(progress)' => progress'.turn \in {None, progress'.request}
    <3> SUFFICES ASSUME Unfinished(progress)' PROVE progress'.turn \in {None, progress'.request}
      OBVIOUS
    <3>1. Unfinished(progress)
      BY <1>7
    <3>2. CASE m.type = "turn/started"
      <4>1. m.ref \in Prompts \cup {"compaction"} /\ (m.ref \in Prompts => progress.request = m.ref)
        BY <1>1, <1>4, <3>2 DEF CodexInv
      <4>2. m.ref # "compaction"
        <5> SUFFICES ASSUME m.ref = "compaction" PROVE FALSE
          OBVIOUS
        <5>1. adapter.compaction # None
          BY <1>1, <1>4, <3>2 DEF PackStart, PackPipes
        <5> QED  BY <1>9, <3>1, <5>1
      <4> QED  BY <1>6, <1>7, <3>2, <4>1, <4>2
    <3>3. CASE m.type # "turn/started"
      BY <1>4, <1>6, <1>7, <3>1, <3>3 DEF CodexInv
    <3> QED  BY <3>2, <3>3
  <2> QED  BY <1>1, <2>1, <2>2, SameWords DEF CodexInv
<1> QED  BY <1>1, <1>15, <1>18, <1>19, <1>20, <1>21 DEF PackInv

-----------------------------------------------------------------------------
(* Pi is owed probes of the prompt that the driver works on, and frames of a *)
(* close.                                                                    *)
Probes(fs) ==
  /\ UNCHANGED <<kind, native>> /\ progress'.request = progress.request
  /\ adapter'.prompt = adapter.prompt /\ Joins(stdin, fs, stdin')
  /\ \A i \in DOMAIN fs :
       /\ Framed(fs[i]) /\ ~Carries(fs[i])
       /\ fs[i].id[1] = "settled" =>
            adapter.prompt # None /\ fs[i].id = <<"settled", adapter.prompt>>

(* Pi's answers to a message are probes of the prompt it was sent.           *)
LEMMA PiTold ==
  ASSUME IInv, kind = "pi", NEW a, AdapterOK(a), NEW m \in Messages, Told(a, m),
         a.prompt = adapter.prompt,
         UNCHANGED <<kind, native>>, progress'.request = progress.request
  PROVE  \E fs : Probes(fs)
<1>1. /\ stdin \in Seq(Frames) /\ PlanOK
  BY DEF IInv, TypeInv, PipesOK
<1>2. adapter'.prompt = adapter.prompt
  <2>1. adapter' \in {a, Closing(a, m)}
    BY DEF Told
  <2>2. SameTurn(a, Closing(a, m))
    BY <1>1, ClosingOK
  <2> QED  BY <2>1, <2>2 DEF SameTurn
<1>3. CASE stdin' = stdin
  <2>1. Joins(stdin, <<>>, stdin')
    BY <1>1, <1>3, NothingJoined
  <2>2. \A i \in DOMAIN <<>> : FALSE
    OBVIOUS
  <2>3. Probes(<<>>)
    BY <1>2, <2>1, <2>2 DEF Probes
  <2> QED  BY <2>3
<1>4. CASE stdin' = stdin \o Responds(a, m) /\ stdin' # stdin
  <2>0. PICK f : f = Pi!Probe(a)
    OBVIOUS
  <2>1. /\ Responds(a, m) = <<>> \/ (Responds(a, m) = <<f>> /\ a.prompt # None)
        /\ Responds(a, m) \in Seq(Frames)
    BY <1>1, <2>0, RespondsOK DEF Responds, Pi!Responds
  <2>2. stdin \o <<>> = stdin
    BY <1>1, NothingJoined
  <2>3. Responds(a, m) = <<f>> /\ a.prompt # None
    BY <1>4, <2>1, <2>2
  <2>4. Joins(stdin, <<f>>, stdin')
    BY <1>1, <1>4, <2>1, <2>3, Joined
  <2>5. f.method = "get_state" /\ f.id = <<"settled", adapter.prompt>>
    BY <2>0, PiWords DEF Pi!Probe, Frame
  <2>6. ~Carries(f) /\ Framed(f)
    <3>1. ~Carries(f)
      BY <2>5 DEF Carries
    <3>2. \A p \in Prompts : f.id # PromptCall(p)
      BY <2>5, NamesAssumption DEF PromptCall
    <3> QED  BY <2>5, <3>1, <3>2 DEF Framed
  <2>7. \A i \in DOMAIN <<f>> : <<f>>[i] = f
    OBVIOUS
  <2>8. Probes(<<f>>)
    BY <1>2, <2>3, <2>4, <2>5, <2>6, <2>7 DEF Probes
  <2> QED  BY <2>8
<1> QED  BY <1>3, <1>4 DEF Told

(* The prompt that it asks for is accepted, and on its way before it.        *)
LEMMA ProbesKeep ==
  ASSUME IInv, SInv, Steady, kind = "pi", NEW fs, Probes(fs)
  PROVE  PiInv'
<1>1. /\ kind' = kind /\ native' = native /\ progress'.request = progress.request
      /\ adapter'.prompt = adapter.prompt /\ PiInv
  BY DEF Probes, SInv
<1>2. /\ \A i \in DOMAIN stdin : i \in DOMAIN stdin' /\ stdin'[i] = stdin[i]
      /\ \A i \in DOMAIN stdin' :
           \/ i \in DOMAIN stdin /\ stdin'[i] = stdin[i]
           \/ /\ i > Len(stdin) /\ ~Carries(stdin'[i])
              /\ stdin'[i].id[1] = "settled" =>
                   adapter.prompt # None /\ stdin'[i].id = <<"settled", adapter.prompt>>
      /\ Len(stdin) \in Nat /\ DOMAIN stdin = 1..Len(stdin)
  <2>1. /\ Len(stdin) \in Nat /\ DOMAIN stdin = 1..Len(stdin)
        /\ Len(fs) \in Nat /\ DOMAIN fs = 1..Len(fs)
        /\ \A i \in DOMAIN stdin : i \in DOMAIN stdin' /\ stdin'[i] = stdin[i]
        /\ \A i \in DOMAIN stdin' :
             i \in DOMAIN stdin \/ \E j \in DOMAIN fs : i = Len(stdin) + j /\ stdin'[i] = fs[j]
        /\ \A i \in DOMAIN fs :
             /\ ~Carries(fs[i])
             /\ fs[i].id[1] = "settled" =>
                  adapter.prompt # None /\ fs[i].id = <<"settled", adapter.prompt>>
    BY DEF Probes, Joins
  <2>2. ASSUME NEW i \in DOMAIN stdin', i \notin DOMAIN stdin
        PROVE  /\ i > Len(stdin) /\ ~Carries(stdin'[i])
               /\ stdin'[i].id[1] = "settled" =>
                    adapter.prompt # None /\ stdin'[i].id = <<"settled", adapter.prompt>>
    <3>1. PICK j \in DOMAIN fs : i = Len(stdin) + j /\ stdin'[i] = fs[j]
      BY <2>1, <2>2
    <3> QED  BY <2>1, <3>1
  <2> QED  BY <2>1, <2>2
<1>3. ASSUME NEW i \in DOMAIN stdin', NEW p \in Prompts, stdin'[i].id = <<"settled", PromptCall(p)>>
      PROVE  /\ ~Coming(p)'
             /\ \A j \in DOMAIN stdin' : Carries(stdin'[j]) /\ stdin'[j].ref = p => j < i
  <2>1. CASE i \in DOMAIN stdin
    <3>1. ~Coming(p) /\ \A j \in DOMAIN stdin : Carries(stdin[j]) /\ stdin[j].ref = p => j < i
      BY <1>1, <1>2, <1>3, <2>1 DEF PiInv
    <3> QED  BY <1>2, <3>1 DEF Steady
  <2>2. CASE i \notin DOMAIN stdin
    <3>1. i > Len(stdin) /\ adapter.prompt # None /\ stdin'[i].id = <<"settled", adapter.prompt>>
      <4>1. stdin'[i].id[1] = "settled"
        BY <1>3
      <4> QED  BY <1>2, <2>2, <4>1
    <3>2. adapter.prompt = PromptCall(progress.request)
      BY <1>1, <3>1 DEF PiInv, IInv, BusyInv
    <3>3. PromptCall(p) = PromptCall(progress.request)
      <4>1. <<"settled", PromptCall(p)>> = <<"settled", adapter.prompt>>
        BY <1>3, <3>1
      <4> QED  BY <3>2, <4>1
    <3>4. p = progress.request
      BY <3>3 DEF PromptCall
    <3>5. ~Coming(p)
      BY <3>4 DEF IInv, ComingInv, Untouched
    <3>6. \A j \in DOMAIN stdin' : Carries(stdin'[j]) => j < i
      <4> SUFFICES ASSUME NEW j \in DOMAIN stdin', Carries(stdin'[j]) PROVE j < i
        OBVIOUS
      <4>1. j \in 1..Len(stdin)
        BY <1>2
      <4>2. i \in Int
        BY <1>2, <2>2 DEF Probes, Joins
      <4> QED  BY <1>2, <3>1, <4>1, <4>2
    <3> QED  BY <3>5, <3>6 DEF Steady
  <2> QED  BY <2>1, <2>2
<1>4. \A p : PromptCall(p)' = PromptCall(p)
  BY <1>1, SameWords
<1> QED  BY <1>1, <1>3, <1>4 DEF PiInv, Carries

(* Pi's turn ends on an answer that refuses it or a probe that finds Pi idle.*)
LEMMA PiHeard ==
  ASSUME kind = "pi", adapter \in PiAdapters, progress \in Turned, NEW m \in Messages,
         Receive(m).progress.finished
  PROVE  \/ progress.finished \/ Pi!IdleProbe(adapter, m)
         \/ Pi!Response(m, adapter.prompt) /\ m.status # "ok"
<1>1. Receive(m).progress = Pi!TurnAfter(adapter, progress, m)
  BY DEF Receive, Pi!Receive
<1> SUFFICES ASSUME ~Pi!IdleProbe(adapter, m), ~(Pi!Response(m, adapter.prompt) /\ m.status # "ok")
             PROVE  progress.finished
  OBVIOUS
<1>2. Pi!TurnAfter(adapter, progress, m).finished = progress.finished
  <2>1. CASE m.type = "agent_start"
    BY <2>1, PiWords DEF Pi!TurnAfter, Begun, Turned
  <2>2. CASE m.type = "message_end"
    BY <2>2 DEF Pi!TurnAfter, Turned
  <2>3. CASE m.type = "extension_error" /\ ~progress.started
    BY <2>3 DEF Pi!TurnAfter, Turned
  <2>4. CASE m.type \notin {"agent_start", "message_end"} /\ ~(m.type = "extension_error" /\ ~progress.started)
    BY <2>4 DEF Pi!TurnAfter, Turned
  <2> QED  BY <2>1, <2>2, <2>3, <2>4
<1> QED  BY <1>1, <1>2

(* Reading what Pi says.                                                     *)
LEMMA PiReads ==
  ASSUME IInv, SInv, Steady, kind = "pi", NEW m, NEW r, Reading(m, r)
  PROVE  FramesInv' /\ TokenInv' /\ DoneInv' /\ PiInv'
<1>1. /\ kind' = kind /\ native' = native /\ m \in Messages /\ 1 \in DOMAIN stdout /\ m = stdout[1]
      /\ stdout # <<>> /\ stdout' = Tail(stdout) /\ progress' = r.progress
      /\ r = Receive(m) /\ Told(r.adapter, m) /\ AdapterOK(r.adapter) /\ Kept(r.progress)
  BY DEF Reading, Speaks
<1>2. adapter \in PiAdapters /\ progress \in Turned
  BY DEF IInv, TypeInv, AdapterOK, DriverOK
<1>3. r.adapter.prompt = adapter.prompt
  BY <1>1, <1>2, PiReceives DEF IInv, BusyInv
<1>4. progress'.request = progress.request
  BY <1>1 DEF Kept
<1>5. PICK fs : Probes(fs)
  BY <1>1, <1>3, <1>4, PiTold
<1>6. \A p \in Prompts : progress'.finished /\ Unfinished(progress) /\ progress.request = p => Past(p)
  <2> SUFFICES ASSUME NEW p \in Prompts, progress'.finished, Unfinished(progress), progress.request = p
               PROVE  Past(p)
    OBVIOUS
  <2>1. p # None /\ adapter.prompt = PromptCall(p)
    BY NamesAssumption DEF IInv, BusyInv
  <2>2. Pi!IdleProbe(adapter, m) \/ (Pi!Response(m, adapter.prompt) /\ m.status # "ok")
    BY <1>1, <1>2, PiHeard DEF Unfinished
  <2>3. Final(m, p)
    BY <2>1, <2>2 DEF Final, Pi!IdleProbe, Pi!Response
  <2> QED  BY <1>1, <2>3 DEF SInv, DoneInv
<1>7. Drives(fs)
  BY <1>1, <1>4, <1>5, <1>6 DEF Drives, Probes
<1> QED  BY <1>5, <1>7, ProbesKeep, DrivesKeep

(* Sending an event of Pi's.                                                 *)
LEMMA PiSends ==
  ASSUME IInv, SInv, Steady, kind = "pi", Sending
  PROVE  FramesInv' /\ TokenInv' /\ DoneInv' /\ PiInv'
<1>1. /\ kind' = kind /\ native' = native /\ progress' = progress /\ stdout' = stdout
      /\ Told(adapter, after) /\ (after = None => UNCHANGED <<adapter, stdin, ops>>)
      /\ stdin \in Seq(Frames) /\ after \in Messages \cup {None} /\ AdapterOK(adapter)
  BY DEF Sending, IInv, TypeInv, PipesOK, DriverOK, Absent
<1>2. PICK fs : Probes(fs)
  <2>1. CASE after = None
    <3>1. Joins(stdin, <<>>, stdin')
      BY <1>1, <2>1, NothingJoined
    <3>2. \A i \in DOMAIN <<>> : FALSE
      OBVIOUS
    <3>3. Probes(<<>>)
      BY <1>1, <2>1, <3>1, <3>2 DEF Probes
    <3> QED  BY <3>3
  <2>2. CASE after # None
    BY <1>1, <2>2, PiTold
  <2> QED  BY <2>1, <2>2
<1>3. Drives(fs)
  BY <1>1, <1>2 DEF Drives, Probes, Unfinished
<1> QED  BY <1>2, <1>3, ProbesKeep, DrivesKeep

-----------------------------------------------------------------------------
(* What Claude's adapter makes of a message: it denies only a prompt whose   *)
(* last word this is, and ends its turn only on the result of the active one.*)
Denies(m) == \/ m.type \in {"result", "control_response"}
             \/ m.type = "lifecycle" /\ m.status \in {"rejected", "cancelled"}

(* An answer has an id and says yes or no.                                   *)
LEMMA AnswerParts ==
  ASSUME NEW id, NEW ok \in BOOLEAN
  PROVE  Answer(id, ok) # NoAnswer /\ Answer(id, ok)[1].id = id /\ Answer(id, ok)[1].ok = ok
<1>0. PICK e : e = [id |-> id, ok |-> ok]
  OBVIOUS
<1>1. Answer(id, ok) = <<e>> /\ e.id = id /\ e.ok = ok
  BY <1>0 DEF Answer
<1>2. <<e>> # <<>> /\ <<e>>[1] = e
  BY Tuples
<1> QED  BY <1>1, <1>2 DEF NoAnswer

(* What Claude's adapter makes of a message.                                 *)
LEMMA ClaudeHeard ==
  ASSUME kind = "claude", adapter \in ClaudeAdapters, progress \in Turned, NEW m \in Messages
  PROVE  LET r == Receive(m)
         IN  /\ r.adapter.active \in {adapter.active, None}
             /\ \A p : SaysNo(r.adapter, p) => m.id = PromptCall(p) /\ Denies(m)
             /\ r.progress.finished => \/ progress.finished
                                       \/ m.type = "result" /\ Claude!IsActive(adapter, m)
<1> DEFINE a == adapter
           quiet == [a EXCEPT !.reply = NoAnswer]
           r == Receive(m)
<1>1. /\ quiet \in ClaudeAdapters /\ quiet.active = a.active /\ quiet.reply = NoAnswer
      /\ quiet.users = a.users
      /\ Claude!IsActive(quiet, m) <=> Claude!IsActive(a, m)
  <2>1. NoAnswer \in Replies
    BY EmptySeq DEF NoAnswer, Replies
  <2> QED  BY <2>1 DEF ClaudeAdapters, Claude!IsActive
<1> HIDE DEF quiet
<1>2. CASE m.type = "control_response"
  <2> DEFINE ok == m.status = "success"
             x == IF m.id = <<"close", 1>> THEN NoAnswer ELSE Answer(m.id, ok)
  <2>1. r.adapter = [a EXCEPT !.reply = x] /\ r.progress = progress
    BY <1>2, ClaudeWords DEF Receive, Claude!Receive
  <2> HIDE DEF r
  <2>2. r.adapter.active = a.active /\ r.adapter.reply = x
    <3> HIDE DEF x
    <3> QED  BY <2>1 DEF ClaudeAdapters
  <2>3. ASSUME NEW p, SaysNo(r.adapter, p) PROVE m.id = PromptCall(p) /\ Denies(m)
    <3>1. x # NoAnswer /\ x[1].id = PromptCall(p)
      <4> HIDE DEF x
      <4> QED  BY <2>2, <2>3 DEF SaysNo
    <3>2. x = Answer(m.id, ok) /\ Answer(m.id, ok)[1].id = m.id
      BY <3>1, AnswerParts
    <3> HIDE DEF x, ok
    <3> QED  BY <1>2, <3>1, <3>2 DEF Denies
  <2> QED  BY <2>1, <2>2, <2>3 DEF r
<1>3. CASE m.type = "lifecycle"
  <2> DEFINE x == Claude!LifecycleReply(quiet, m)
             ok == m.status = "queued"
             begins == m.status = "started" /\ Claude!IsActive(quiet, m) /\ Claude!Called(quiet, m) # {}
  <2>1. r.adapter = [quiet EXCEPT !.reply = x] /\ r.progress = IF begins THEN Begun(progress) ELSE progress
    BY <1>3, ClaudeWords DEF Receive, Claude!Receive, Claude!OnLifecycle, quiet
  <2> HIDE DEF r, begins
  <2>2. r.adapter.active = a.active /\ r.adapter.reply = x
    <3> HIDE DEF x
    <3> QED  BY <1>1, <2>1 DEF ClaudeAdapters
  <2>3. ASSUME NEW p, SaysNo(r.adapter, p) PROVE m.id = PromptCall(p) /\ Denies(m)
    <3>1. x # NoAnswer /\ x[1].id = PromptCall(p) /\ ~x[1].ok
      <4> HIDE DEF x
      <4> QED  BY <2>2, <2>3 DEF SaysNo
    <3>2. x = Answer(m.id, ok) /\ m.status \in {"queued", "rejected", "cancelled"}
      BY <3>1, ClaudeWords DEF Claude!LifecycleReply
    <3>3. Answer(m.id, ok)[1].id = m.id /\ Answer(m.id, ok)[1].ok = ok
      BY AnswerParts
    <3>4. ~ok /\ m.id = PromptCall(p)
      <4> HIDE DEF x, ok
      <4> QED  BY <3>1, <3>2, <3>3
    <3> QED  BY <1>3, <3>2, <3>4 DEF Denies
  <2>4. r.progress.finished => progress.finished
    BY <2>1 DEF Begun, Turned
  <2> QED  BY <2>2, <2>3, <2>4 DEF r
<1>4. CASE m.type = "result"
  <2> DEFINE well == m.status = "success"
             boots == \E u \in Claude!Called(quiet, m) : u.kind = "bootstrap"
             x == IF boots THEN Answer(m.id, well) ELSE NoAnswer
             y == IF Claude!IsActive(quiet, m) THEN None ELSE quiet.active
             u == quiet.users \ Claude!Called(quiet, m)
             z == ~well
  <2>1. /\ r.adapter = [quiet EXCEPT !.users = u, !.failed = z, !.reply = x, !.active = y]
        /\ r.progress = IF Claude!IsActive(quiet, m) THEN Ended(progress) ELSE progress
    BY <1>4, ClaudeWords DEF Receive, Claude!Receive, Claude!OnResult, quiet
  <2> HIDE DEF r
  <2>2. r.adapter.active = y /\ r.adapter.reply = x
    <3> HIDE DEF x, y, u, z
    <3> QED  BY <1>1, <2>1 DEF ClaudeAdapters
  <2>3. ASSUME NEW p, SaysNo(r.adapter, p) PROVE m.id = PromptCall(p) /\ Denies(m)
    <3>1. x # NoAnswer /\ x[1].id = PromptCall(p)
      <4> HIDE DEF x
      <4> QED  BY <2>2, <2>3 DEF SaysNo
    <3> HIDE DEF boots
    <3>2. x = Answer(m.id, well) /\ Answer(m.id, well)[1].id = m.id
      BY <3>1, AnswerParts
    <3> HIDE DEF x, well
    <3> QED  BY <1>4, <3>1, <3>2 DEF Denies
  <2>4. r.progress.finished => progress.finished \/ Claude!IsActive(adapter, m)
    BY <1>1, <2>1
  <2> QED  BY <1>1, <1>4, <2>2, <2>3, <2>4 DEF r
<1>5. CASE m.type \notin {"control_response", "lifecycle", "result"}
  <2> DEFINE x == quiet.compacted \/ m.type = "compact_boundary"
  <2>1. r.adapter = [quiet EXCEPT !.compacted = x] /\ r.progress = progress
    BY <1>5, ClaudeWords DEF Receive, Claude!Receive, quiet
  <2> HIDE DEF r, x
  <2>2. r.adapter.active = a.active /\ r.adapter.reply = NoAnswer
    BY <1>1, <2>1 DEF ClaudeAdapters
  <2> QED  BY <2>1, <2>2 DEF r, SaysNo
<1> QED  BY <1>2, <1>3, <1>4, <1>5

-----------------------------------------------------------------------------
(* Claude is owed no frames, and the call of a prompt that it refuses is not *)
(* the last or was denied.                                                   *)
LEMMA ClaudeTold ==
  ASSUME IInv, SInv, kind = "claude", NEW a, AdapterOK(a), NEW m, Told(a, m),
         \A p \in Prompts : SaysNo(a, p) => ~Holds(p)
  PROVE  /\ stdin' = stdin /\ adapter'.active = a.active /\ adapter'.reply = a.reply
         /\ ops'["compact"].target = ops["compact"].target
         /\ \A p \in Prompts : ops'[p].state = "refused" => ops[p].state = "refused" \/ ~Holds(p)
<1>1. /\ stdin \in Seq(Frames) /\ PlanOK /\ ops \in [Ops -> Operation] /\ OpsOK
      /\ "compact" \in Ops /\ Prompts \subseteq Ops
  BY OpsKnown DEF IInv, TypeInv, PipesOK, OpsOK
<1>2. stdin' = stdin
  <2>1. Responds(a, m) = <<>>
    BY DEF Responds
  <2> QED  BY <1>1, <2>1, NothingJoined DEF Told
<1>3. adapter'.active = a.active /\ adapter'.reply = a.reply
  <2>1. \E x : Closing(a, m) = [a EXCEPT !.confirmed = x]
    BY DEF Closing, Claude!Closing
  <2>2. Closing(a, m).active = a.active /\ Closing(a, m).reply = a.reply
    BY <2>1 DEF AdapterOK, ClaudeAdapters
  <2> QED  BY <2>2 DEF Told
<1>4. \/ ops' = ops
      \/ \E op \in Ops : Advances(op)
      \/ \E op \in Ops : /\ Rejects(op) /\ a.reply # NoAnswer
                         /\ a.reply[1].id = <<op, ops[op].step>> /\ ~a.reply[1].ok
  BY DEF Told, Reply, Claude!Reply
<1>5. CASE ops' = ops
  BY <1>2, <1>3, <1>5
<1>6. ASSUME NEW op \in Ops, Advances(op)
      PROVE  /\ ops'["compact"].target = ops["compact"].target
             /\ \A p \in Prompts : ops'[p].state = "refused" => ops[p].state = "refused" \/ ~Holds(p)
  BY <1>1, <1>6, SetForward DEF Advances, OpStep
<1>7. ASSUME NEW op \in Ops, Rejects(op), a.reply # NoAnswer,
             a.reply[1].id = <<op, ops[op].step>>, ~a.reply[1].ok
      PROVE  /\ ops'["compact"].target = ops["compact"].target
             /\ \A p \in Prompts : ops'[p].state = "refused" => ops[p].state = "refused" \/ ~Holds(p)
  <2>1. OpStep(op)
    BY <1>1, <1>7, SetState DEF Rejects, Calling
  <2>2. op \in Prompts => ~Holds(op)
    <3> SUFFICES ASSUME op \in Prompts, Holds(op) PROVE FALSE
      OBVIOUS
    <3>1. ~Coming(op)
      BY Held DEF SInv
    <3>2. ops[op].state = "pending" /\ ops[op].step \in DOMAIN Script(op)
      BY <1>1, <1>7 DEF Rejects, OpsOK, Open
    <3>3. ops[op].step = Len(Script(op))
      BY <1>1, <3>1, <3>2, PromptScript DEF Coming
    <3>4. SaysNo(a, op)
      BY <1>7, <3>3 DEF SaysNo, PromptCall
    <3> QED  BY <3>4
  <2> QED  BY <1>1, <2>1, <2>2 DEF OpStep
<1> QED  BY <1>2, <1>3, <1>4, <1>5, <1>6, <1>7

(* What Claude has said to be done with stays so.                            *)
LEMMA ClaudeKeeps ==
  ASSUME IInv, SInv, Steady, kind = "claude",
         UNCHANGED <<kind, native, turn>>, progress'.request = progress.request,
         adapter'.active \in {adapter.active, None},
         \A p \in Prompts : SaysNo(adapter', p) => Past(p),
         \A p \in Prompts : Holds(p)' <=> Holds(p),
         ops'["compact"].target = ops["compact"].target,
         \A p \in Prompts : ops'[p].state = "refused" => ops[p].state = "refused" \/ ~Holds(p),
         NEW es, Grown(es),
         \A i \in DOMAIN es : es[i].type = "finished" => es[i].request = progress.request,
         \A i \in DOMAIN es : es[i].type = "finished" /\ progress.request \in Prompts =>
           ~Holds(progress.request)
  PROVE  QueueInv' /\ ReplyInv' /\ OverInv'
<1>1. QueueInv /\ ReplyInv /\ OverInv
  BY DEF SInv
<1>2. QueueInv'
  BY <1>1, SameWords DEF QueueInv
<1>3. ReplyInv'
  <2>1. \A p \in Prompts : Past(p) => Past(p)'
    BY DEF Past, Steady
  <2>2. \A p : PromptCall(p)' = PromptCall(p)
    BY SameWords
  <2>3. \A p \in Prompts : SaysNo(adapter, p)' => Past(p)'
    BY <2>1, <2>2 DEF SaysNo
  <2> QED  BY <1>1, <2>2, <2>3 DEF ReplyInv
<1>4. OverInv'
  <2>1. ASSUME NEW p \in Prompts, Over(p)' PROVE ~Holds(p)
    <3>1. CASE ops'[p].state = "refused" \/ turn'[p] \in {"finished", "refused"}
      BY <1>1, <3>1 DEF OverInv, Over
    <3>2. ASSUME NEW i \in DOMAIN Queue', Queue'[i].type = "finished", Queue'[i].request = p
          PROVE  ~Holds(p)
      <4>1. CASE i \in DOMAIN Queue
        <5>1. Queue'[i] = Queue[i]
          BY <3>2, <4>1 DEF Grown
        <5> QED  BY <1>1, <3>2, <4>1, <5>1 DEF OverInv, Over
      <4>2. CASE \E j \in DOMAIN es : Queue'[i] = es[j]
        BY <3>2, <4>2
      <4> QED  BY <3>2, <4>1, <4>2 DEF Grown
    <3> QED  BY <2>1, <3>1, <3>2 DEF Over
  <2> QED  BY <1>1, <2>1 DEF OverInv
<1> QED  BY <1>2, <1>3, <1>4

(* Reading what Claude says.                                                 *)
LEMMA ClaudeReads ==
  ASSUME IInv, SInv, Steady, kind = "claude", NEW m, NEW r, Reading(m, r)
  PROVE  FramesInv' /\ TokenInv' /\ DoneInv' /\ QueueInv' /\ ReplyInv' /\ OverInv'
<1>1. /\ kind' = kind /\ native' = native /\ turn' = turn
      /\ m \in Messages /\ 1 \in DOMAIN stdout /\ m = stdout[1]
      /\ stdout # <<>> /\ stdout' = Tail(stdout) /\ progress' = r.progress /\ Grown(r.events)
      /\ r = Receive(m) /\ Told(r.adapter, m) /\ AdapterOK(r.adapter) /\ Kept(r.progress)
      /\ Telling(r.events, r.progress)
  BY DEF Reading, Speaks
<1>2. adapter \in ClaudeAdapters /\ progress \in Turned /\ stdin \in Seq(Frames)
  BY DEF IInv, TypeInv, AdapterOK, DriverOK, PipesOK
<1>3. /\ r.adapter.active \in {adapter.active, None}
      /\ \A p : SaysNo(r.adapter, p) => m.id = PromptCall(p) /\ Denies(m)
      /\ r.progress.finished => \/ progress.finished
                                \/ m.type = "result" /\ Claude!IsActive(adapter, m)
  BY <1>1, <1>2, ClaudeHeard
<1>4. \A p \in Prompts : Final(m, p) => Past(p)
  BY <1>1 DEF SInv, DoneInv
<1>5. \A p \in Prompts : SaysNo(r.adapter, p) => Past(p)
  BY <1>3, <1>4 DEF Final, Denies
<1>6. \A p \in Prompts : progress'.finished /\ Unfinished(progress) /\ progress.request = p => Past(p)
  <2> SUFFICES ASSUME NEW p \in Prompts, progress'.finished, Unfinished(progress), progress.request = p
               PROVE  Past(p)
    OBVIOUS
  <2>1. m.type = "result" /\ Claude!IsActive(adapter, m)
    BY <1>1, <1>3 DEF Unfinished
  <2>2. m.id = PromptCall(p)
    BY <2>1 DEF Claude!IsActive, SInv, ReplyInv
  <2> QED  BY <1>4, <2>1, <2>2 DEF Final
<1>7. /\ stdin' = stdin /\ adapter'.active = r.adapter.active /\ adapter'.reply = r.adapter.reply
      /\ ops'["compact"].target = ops["compact"].target
      /\ \A p \in Prompts : ops'[p].state = "refused" => ops[p].state = "refused" \/ ~Holds(p)
  <2>1. \A p \in Prompts : SaysNo(r.adapter, p) => ~Holds(p)
    BY <1>5 DEF Past
  <2> QED  BY <1>1, <2>1, ClaudeTold
<1>8. progress'.request = progress.request
  BY <1>1 DEF Kept
<1>9. Drives(<<>>)
  <2>1. Joins(stdin, <<>>, stdin')
    BY <1>2, <1>7, NothingJoined
  <2>2. \A i \in DOMAIN <<>> : FALSE
    OBVIOUS
  <2> QED  BY <1>1, <1>6, <1>8, <2>1, <2>2 DEF Drives
<1>10. FramesInv' /\ TokenInv' /\ DoneInv' /\ \A p \in Prompts : Holds(p)' <=> Holds(p)
  BY <1>9, DrivesKeep
<1>11. /\ \A i \in DOMAIN r.events : r.events[i].type = "finished" => r.events[i].request = progress.request
       /\ \A i \in DOMAIN r.events : r.events[i].type = "finished" /\ progress.request \in Prompts =>
            ~Holds(progress.request)
  <2> SUFFICES ASSUME NEW i \in DOMAIN r.events, r.events[i].type = "finished"
               PROVE  /\ r.events[i].request = progress.request
                      /\ progress.request \in Prompts => ~Holds(progress.request)
    OBVIOUS
  <2>1. r.events[i].request = progress.request /\ Unfinished(progress) /\ progress'.finished
    BY <1>1 DEF Telling, TurnEvent
  <2> QED  BY <1>6, <2>1 DEF Past
<1>12. \A p \in Prompts : SaysNo(adapter', p) => Past(p)
  BY <1>5, <1>7 DEF SaysNo
<1> QED  BY <1>1, <1>3, <1>7, <1>8, <1>10, <1>11, <1>12, ClaudeKeeps

(* Sending an event of Claude's.                                             *)
LEMMA ClaudeSends ==
  ASSUME IInv, SInv, Steady, kind = "claude", Sending
  PROVE  FramesInv' /\ TokenInv' /\ DoneInv' /\ QueueInv' /\ ReplyInv' /\ OverInv'
<1>1. /\ kind' = kind /\ native' = native /\ turn' = turn /\ progress' = progress /\ stdout' = stdout
      /\ Told(adapter, after) /\ Queue' = Queue
      /\ stdin \in Seq(Frames) /\ AdapterOK(adapter) /\ EventsOK
  BY DEF Sending, IInv, TypeInv, PipesOK
<1>2. \A p \in Prompts : SaysNo(adapter, p) => Past(p)
  BY DEF SInv, ReplyInv
<1>3. /\ stdin' = stdin /\ adapter'.active = adapter.active /\ adapter'.reply = adapter.reply
      /\ ops'["compact"].target = ops["compact"].target
      /\ \A p \in Prompts : ops'[p].state = "refused" => ops[p].state = "refused" \/ ~Holds(p)
  <2>1. \A p \in Prompts : SaysNo(adapter, p) => ~Holds(p)
    BY <1>2 DEF Past
  <2> QED  BY <1>1, <2>1, ClaudeTold
<1>4. Drives(<<>>)
  <2>1. Joins(stdin, <<>>, stdin')
    BY <1>1, <1>3, NothingJoined
  <2>2. \A i \in DOMAIN <<>> : FALSE
    OBVIOUS
  <2> QED  BY <1>1, <2>1, <2>2 DEF Drives, Unfinished
<1>5. FramesInv' /\ TokenInv' /\ DoneInv' /\ \A p \in Prompts : Holds(p)' <=> Holds(p)
  BY <1>4, DrivesKeep
<1>6. Grown(<<>>)
  <2>1. Queue \in Seq(Reports)
    BY <1>1, ConcatProperties DEF EventsOK, Queue
  <2>2. Queue' = Queue \o <<>> /\ <<>> \in Seq(Reports)
    BY <1>1, <2>1, NothingJoined, EmptySeq
  <2> QED  BY <1>1, <2>2, QueueGrown
<1>7. \A i \in DOMAIN <<>> : FALSE
  OBVIOUS
<1>8. \A p \in Prompts : SaysNo(adapter', p) => Past(p)
  BY <1>2, <1>3 DEF SaysNo
<1> QED  BY <1>1, <1>3, <1>5, <1>6, <1>7, <1>8, ClaudeKeeps

-----------------------------------------------------------------------------
(* Sending an event of Codex's: no answer to a call waits for that.          *)
LEMMA CodexSends ==
  ASSUME IInv, SInv, Steady, kind = "codex", Sending
  PROVE  FramesInv' /\ TokenInv' /\ DoneInv' /\ PackInv' /\ CodexInv'
<1>1. /\ kind' = kind /\ native' = native /\ progress' = progress /\ stdout' = stdout
      /\ calls' = calls /\ compaction' = compaction /\ exited' = exited
      /\ Told(adapter, after) /\ Queue' = Queue /\ after' \in {after, None}
      /\ after = None => UNCHANGED <<adapter, stdin, ops>>
      /\ stdin \in Seq(Frames)
  BY DEF Sending, IInv, TypeInv, PipesOK
<1>2. PackCalls /\ PackPipes /\ PackSession /\ CodexInv
  BY DEF SInv, PackInv
<1>3. adapter' = adapter /\ stdin' = stdin
  BY <1>1, CodexTold
<1>4. Drives(<<>>)
  <2>1. Joins(stdin, <<>>, stdin')
    BY <1>1, <1>3, NothingJoined
  <2>2. \A i \in DOMAIN <<>> : FALSE
    OBVIOUS
  <2> QED  BY <1>1, <2>1, <2>2 DEF Drives, Unfinished
<1>5. FramesInv' /\ TokenInv' /\ DoneInv'
  BY <1>4, DrivesKeep
<1>6. CodexInv'
  BY <1>1, <1>2, SameWords DEF CodexInv, Unfinished
<1>7. PackHears(after) /\ (after = None => ops' = ops)
  <2>1. CASE after = None
    BY <1>1, <2>1, CodexHears
  <2>2. CASE after # None
    <3>1. Reply(adapter, after) = NoAnswer
      BY <1>2, <2>2, CodexWords DEF PackSession, Reply, Codex!Reply
    <3>2. ops' = ops \/ \E op \in Ops : Advances(op)
      BY <1>1, <3>1 DEF Told
    <3> QED  BY <1>1, <2>2, <3>2, CodexHears
  <2> QED  BY <2>1, <2>2
<1>8. ops'["compact"].state = "refused" => ops["compact"].state = "refused"
  BY <1>2, <1>7 DEF PackHears, PackSession
<1>9. PackLive' => PackLive
  BY <1>3, <1>7 DEF PackHears, PackLive
<1>10. PackCalls'
  BY <1>1, <1>2, <1>3, <1>7 DEF PackCalls, PackHears
<1>11. PackPipes'
  BY <1>1, <1>2, <1>3 DEF PackPipes, IsPack, PackStart, PackEnd
<1>12. PackSession'
  <2>1. Unfinished(progress)' <=> Unfinished(progress)
    BY <1>1 DEF Unfinished
  <2>2. ops'["compact"].state = "idle" <=> ops["compact"].state = "idle"
    BY <1>7 DEF PackHears
  <2>3. after' # None => after'.type # "response"
    BY <1>1, <1>2 DEF PackSession
  <2> QED  BY <1>1, <1>2, <1>8, <1>9, <2>1, <2>2, <2>3 DEF PackSession
<1> QED  BY <1>5, <1>6, <1>10, <1>11, <1>12 DEF PackInv

(* The frames of a close carry no prompt.                                    *)
LEMMA CloseFramed ==
  ASSUME PlanOK, kind \in {"claude", "pi"}, NEW i \in DOMAIN CloseFrames
  PROVE  /\ Framed(CloseFrames[i]) /\ ~Carries(CloseFrames[i])
         /\ CloseFrames[i].id[1] = "close"
<1> DEFINE f == CloseFrames[i]
<1>1. f.method \in {"interrupt", "clear_queue", "abort_bash", "abort"} /\ f.id[1] = "close"
  <2>1. CASE kind = "claude"
    <3>0. PICK x : x = Frame("interrupt", <<"close", 1>>, None)
      OBVIOUS
    <3>1. CloseFrames = <<x>> /\ x.method = "interrupt" /\ x.id[1] = "close"
      BY <2>1, <3>0, ClaudeWords DEF CloseFrames, Claude!CloseFrames, Frame
    <3> HIDE DEF CloseFrames
    <3> QED  BY <3>1
  <2>2. CASE kind = "pi"
    <3>0. PICK x, y, z : /\ x = Frame("clear_queue", <<"close", 1>>, None)
                         /\ y = Frame("abort_bash",  <<"close", 2>>, None)
                         /\ z = Frame("abort",       <<"close", 3>>, None)
      OBVIOUS
    <3>1. /\ CloseFrames = <<x, y, z>> /\ x.method = "clear_queue" /\ x.id[1] = "close"
          /\ y.method = "abort_bash" /\ y.id[1] = "close"
          /\ z.method = "abort" /\ z.id[1] = "close"
      BY <2>2, <3>0, PiWords DEF CloseFrames, Pi!CloseFrames, Frame
    <3>2. i \in 1..3 /\ (i = 1 => f = x) /\ (i = 2 => f = y) /\ (i = 3 => f = z)
      <4> HIDE DEF CloseFrames
      <4> QED  BY <3>1, Tuples
    <3>3. i = 1 \/ i = 2 \/ i = 3
      BY <3>2
    <3> HIDE DEF f, CloseFrames
    <3> QED  BY <3>1, <3>2, <3>3
  <2> QED  BY <2>1, <2>2
<1> HIDE DEF f
<1>2. ~Carries(f)
  BY <1>1 DEF Carries
<1>3. Framed(f)
  <2>1. \A p \in Prompts : f.id # PromptCall(p)
    BY <1>1, NamesAssumption DEF PromptCall
  <2> QED  BY <1>1, <1>2, <2>1 DEF Framed
<1> QED  BY <1>1, <1>2, <1>3 DEF f

(* The close is written.                                                     *)
LEMMA StopSound ==
  ASSUME IInv, IInv', SInv, Steady, Stop, kind # "cursor"
  PROVE  SInv'
<1>1. /\ UNCHANGED <<kind, progress, outbox, after, ops, calls, events, stdout, native, turn,
                     compaction, exited>>
      /\ adapter' = AtClose /\ stdin' = stdin \o CloseFrames
  BY DEF Stop, nativeVars, sessionVars
<1>2. /\ PlanOK /\ stdin \in Seq(Frames) /\ AdapterOK(adapter) /\ EventsOK
      /\ kind \in {"codex", "claude", "pi"}
  BY KindKnown DEF IInv, TypeInv, PipesOK
<1>3. CloseFrames \in Seq(Frames) /\ SameTurn(adapter, adapter')
  BY <1>1, <1>2, AtCloseOK
<1>4. Queue' = Queue
  BY <1>1, SameQueue
<1>5. AskedInv'
  BY <1>1 DEF SInv, AskedInv
<1>6. CASE kind = "codex"
  <2>1. stdin' = stdin /\ adapter' = adapter
    <3>1. CloseFrames = <<>> /\ AtClose = adapter
      BY <1>6 DEF CloseFrames, AtClose
    <3> QED  BY <1>1, <1>2, <3>1, NothingJoined
  <2>2. Calm
    BY <1>1, <2>1 DEF Calm
  <2>3. QueueStays
    BY <1>4 DEF QueueStays
  <2>4. PackSteps
    <3>1. DOMAIN calls \subseteq Nat
      BY LenProperties DEF IInv, TypeInv, CallsOK
    <3>2. \A i \in DOMAIN calls' : i + 0 \in DOMAIN calls /\ calls'[i] = calls[i + 0]
      BY <1>1, <3>1
    <3>3. PackStays
      BY <3>2 DEF PackStays
    <3> QED  BY <1>1, <1>6, <3>3, SamePack
  <2> QED  BY <1>1, <1>6, <2>2, <2>3, <2>4, LearnsStill, StepCalm
<1>7. CASE kind \in {"claude", "pi"}
  <2>1. \A i \in DOMAIN CloseFrames : /\ Framed(CloseFrames[i]) /\ ~Carries(CloseFrames[i])
                                      /\ CloseFrames[i].id[1] = "close"
    BY <1>2, <1>7, CloseFramed
  <2>2. PICK fs : fs = CloseFrames
    OBVIOUS
  <2>3. Joins(stdin, fs, stdin')
    BY <1>1, <1>2, <1>3, <2>2, Joined
  <2>4. Drives(fs)
    BY <1>1, <2>1, <2>2, <2>3 DEF Drives, Unfinished
  <2>5. FramesInv' /\ TokenInv' /\ DoneInv' /\ \A p \in Prompts : Holds(p)' <=> Holds(p)
    BY <1>7, <2>4, DrivesKeep
  <2>6. kind = "pi" => PiInv'
    <3> SUFFICES ASSUME kind = "pi" PROVE PiInv'
      OBVIOUS
    <3>1. adapter'.prompt = adapter.prompt
      BY <1>3 DEF SameTurn
    <3>2. Probes(fs)
      BY <1>1, <2>1, <2>2, <2>3, <3>1 DEF Probes
    <3> QED  BY <3>2, ProbesKeep
  <2>7. kind = "claude" => QueueInv' /\ ReplyInv' /\ OverInv'
    <3> SUFFICES ASSUME kind = "claude" PROVE QueueInv' /\ ReplyInv' /\ OverInv'
      OBVIOUS
    <3>1. adapter' = adapter
      BY <1>1 DEF AtClose
    <3>2. Grown(<<>>)
      <4>1. Queue \in Seq(Reports)
        BY <1>2, ConcatProperties DEF EventsOK, Queue
      <4>2. Queue' = Queue \o <<>> /\ <<>> \in Seq(Reports)
        BY <1>4, <4>1, NothingJoined, EmptySeq
      <4> QED  BY <1>2, <4>2, QueueGrown
    <3>3. \A i \in DOMAIN <<>> : FALSE
      OBVIOUS
    <3>4. \A p \in Prompts : SaysNo(adapter', p) => Past(p)
      BY <3>1 DEF SInv, ReplyInv, SaysNo
    <3> QED  BY <1>1, <2>5, <3>1, <3>2, <3>3, <3>4, ClaudeKeeps
  <2> QED  BY <1>1, <1>5, <1>7, <2>5, <2>6, <2>7, OtherHarness DEF SInv
<1> QED  BY <1>2, <1>6, <1>7

-----------------------------------------------------------------------------
(* A step of the driver that takes no answer to Cursor's turn and asks for   *)
(* no other.                                                                 *)
Fewest == \E k \in 0..1 : \A i \in DOMAIN stdout' :
            i \in Nat /\ i + k \in DOMAIN stdout /\ stdout'[i] = stdout[i + k]

(* Such a step keeps what is known of Cursor's turn.                         *)
LEMMA CursorStays ==
  ASSUME CursorInv, kind = "cursor", UNCHANGED <<kind, native>>,
         adapter'.prompt = adapter.prompt, adapter'.restart \in {adapter.restart, None},
         after' # None => adapter'.responses = <<>>,
         progress'.request = progress.request, Unfinished(progress) => Unfinished(progress)',
         Fewest,
         \A i \in DOMAIN stdin' :
           \/ i \in DOMAIN stdin /\ stdin'[i] = stdin[i]
           \/ ~Carries(stdin'[i]) /\ stdin'[i].method = "session/cancel"
  PROVE  CursorInv'
<1>1. PICK k \in 0..1 : \A i \in DOMAIN stdout' :
        i \in Nat /\ i + k \in DOMAIN stdout /\ stdout'[i] = stdout[i + k]
  BY DEF Fewest
<1>2. Silent => \A i \in DOMAIN stdout' : ~Answers(stdout'[i])
  BY <1>1 DEF Silent
<1>3. Silent => Silent'
  BY <1>2, SameWords DEF Silent
<1>4. \A i \in DOMAIN stdin' :
        /\ stdin'[i].id \in Turning => stdin'[i].method \in {"session/prompt", "session/cancel"}
        /\ Carries(stdin'[i]) =>
             /\ adapter.prompt # None
             /\ adapter.prompt = stdin'[i].id /\ progress.request = stdin'[i].ref
             /\ native.turn = None /\ native.leaving = None /\ Silent
             /\ \A j \in DOMAIN stdin' : Carries(stdin'[j]) => j = i
  BY DEF CursorInv
<1>5. \A i \in DOMAIN stdout' : Answers(stdout'[i]) =>
        /\ adapter.prompt # None /\ stdout'[i].id = adapter.prompt
        /\ \A j \in DOMAIN stdout' : Answers(stdout'[j]) => i = j
  <2> SUFFICES ASSUME NEW i \in DOMAIN stdout', Answers(stdout'[i])
               PROVE  /\ adapter.prompt # None /\ stdout'[i].id = adapter.prompt
                      /\ \A j \in DOMAIN stdout' : Answers(stdout'[j]) => i = j
    OBVIOUS
  <2>1. adapter.prompt # None /\ stdout'[i].id = adapter.prompt
    BY <1>1 DEF CursorInv
  <2>2. ASSUME NEW j \in DOMAIN stdout', Answers(stdout'[j]) PROVE i = j
    <3>1. i + k = j + k
      BY <1>1, <2>2 DEF CursorInv
    <3> QED  BY <1>1, <3>1
  <2> QED  BY <2>1, <2>2
<1>6. /\ adapter'.prompt \in Turning \cup {None} /\ adapter'.restart \in {None, <<"steer", 1>>}
      /\ adapter'.prompt # None => Unfinished(progress)'
  BY DEF CursorInv
<1>7. /\ native.turn = None <=> native.ref = None
      /\ native.turn # None =>
           /\ adapter.prompt = native.turn /\ progress.request = native.ref
           /\ native.leaving = None /\ Silent'
      /\ native.leaving # None =>
           /\ native.leaving.type = "response" /\ adapter.prompt # None
           /\ native.leaving.id = adapter.prompt /\ Silent'
  BY <1>3 DEF CursorInv
<1> QED  BY <1>3, <1>4, <1>5, <1>6, <1>7, SameWords DEF CursorInv, Carries

(* What Cursor's adapter makes of a message.                                 *)
Resumes(m, r) ==
  /\ m.type = "response" /\ m.id = adapter.prompt /\ adapter.prompt # None
  /\ adapter.restart # None /\ r.adapter.prompt = adapter.restart /\ r.adapter.restart = None
  /\ r.adapter.responses = <<Frame("session/prompt", adapter.restart, progress.request)>>
  /\ r.progress = progress /\ r.events = <<>>
Stops(m, r) ==
  /\ m.type = "response" /\ m.id = adapter.prompt /\ adapter.prompt # None
  /\ r.adapter.prompt = None /\ r.adapter.restart \in {adapter.restart, None}
  /\ r.adapter.responses = <<>>
Passes(r) ==
  /\ r.adapter.prompt = adapter.prompt /\ r.adapter.restart = adapter.restart
  /\ r.adapter.responses = <<>>
  /\ r.progress.request = progress.request /\ r.progress.finished = progress.finished

(* It goes on with a steered prompt, is over, or is not at an end.           *)
LEMMA CursorHeard ==
  ASSUME kind = "cursor", adapter \in CursorAdapters, progress \in Turned, NEW m \in Messages
  PROVE  LET r == Receive(m) IN Resumes(m, r) \/ Stops(m, r) \/ Passes(r)
<1> DEFINE a == adapter
           b == [a EXCEPT !.ack = None, !.responses = <<>>]
           r == Receive(m)
<1>1. /\ b.prompt = a.prompt /\ b.restart = a.restart /\ b.responses = <<>> /\ b.cancel = a.cancel
      /\ b.dirty = a.dirty /\ b \in CursorAdapters
  <2>1. <<>> \in Seq(Frames)
    BY EmptySeq
  <2> QED  BY <2>1 DEF CursorAdapters, Absent
<1> HIDE DEF b
<1>2. CASE Cursor!AnswersPrompt(b, m) /\ Cursor!Restarts(b, m)
  <2> DEFINE f == Cursor!Frame("session/prompt", b.restart, progress.request)
             k == [source |-> m.id, id |-> b.restart]
             fs == <<f>>
  <2> DEFINE s == Cursor!Restarted(b, progress, m)
  <2>0. m.type = "response"
    BY <1>2 DEF Cursor!AnswersPrompt
  <2>1. r = s
    BY <1>2, <2>0 DEF Receive, Cursor!Receive, b
  <2>2. /\ r.adapter = [b EXCEPT !.responses = fs, !.ack = k, !.prompt = b.restart,
                                 !.restart = None, !.dirty = TRUE]
        /\ r.progress = progress /\ r.events = <<>>
    BY <2>1, CursorWords DEF Cursor!Restarted
  <2>3. fs = <<Frame("session/prompt", a.restart, progress.request)>>
    BY <1>1, CursorWords
  <2> HIDE DEF r, f, k, fs
  <2>4. r.adapter.prompt = b.restart /\ r.adapter.restart = None /\ r.adapter.responses = fs
    BY <1>1, <2>2 DEF CursorAdapters
  <2> QED  BY <1>1, <1>2, <2>2, <2>3, <2>4
           DEF Resumes, Cursor!AnswersPrompt, Cursor!Restarts, r
<1>3. CASE Cursor!AnswersPrompt(b, m) /\ ~Cursor!Restarts(b, m)
  <2> DEFINE x == IF b.cancel # None THEN b.restart ELSE None
             w == Cursor!Waiting(b)
             k == IF w = None THEN None ELSE [source |-> m.id, id |-> w]
             e == Event("finished", progress.request,
                        CASE m.status = "end_turn"  -> "completed"
                          [] m.status = "cancelled" -> "interrupted"
                          [] OTHER                  -> "failed")
             s == Cursor!Over(b, progress, m)
  <2>0. m.type = "response"
    BY <1>3 DEF Cursor!AnswersPrompt
  <2>1. r = s
    BY <1>3, <2>0 DEF Receive, Cursor!Receive, b
  <2>2. s.adapter = [b EXCEPT !.prompt = None, !.cancel = None, !.restart = x, !.ack = k,
                              !.dirty = TRUE, !.terminal = e]
    BY CursorWords DEF Cursor!Over
  <2> HIDE DEF r, x, k, e, s
  <2>3. r.adapter.prompt = None /\ r.adapter.restart = x /\ r.adapter.responses = b.responses
    BY <1>1, <2>1, <2>2 DEF CursorAdapters
  <2>4. x \in {a.restart, None}
    BY <1>1 DEF x
  <2> QED  BY <1>1, <1>3, <2>3, <2>4 DEF Stops, Cursor!AnswersPrompt, r
<1>4. CASE ~Cursor!AnswersPrompt(b, m)
  <2>1. CASE m.type \in {"update", "tool"} /\ b.prompt # None
    <3> DEFINE d == b.dirty \/ m.type = "tool"
    <3>1. r.adapter = [b EXCEPT !.dirty = d] /\ r.progress = Begun(progress)
      BY <1>4, <2>1, CursorWords DEF Receive, Cursor!Receive, b
    <3> HIDE DEF r, d
    <3>2. /\ r.adapter.prompt = b.prompt /\ r.adapter.restart = b.restart
          /\ r.adapter.responses = b.responses
      BY <1>1, <3>1 DEF CursorAdapters
    <3>3. r.progress.request = progress.request /\ r.progress.finished = progress.finished
      BY <3>1 DEF Begun, Turned
    <3> QED  BY <1>1, <3>2, <3>3 DEF Passes, r
  <2>2. CASE ~(m.type \in {"update", "tool"} /\ b.prompt # None)
    <3>1. r.adapter = b /\ r.progress = progress
      BY <1>4, <2>2 DEF Receive, Cursor!Receive, b
    <3> QED  BY <1>1, <3>1 DEF Passes
  <2> QED  BY <2>1, <2>2
<1> QED  BY <1>2, <1>3, <1>4

(* An answer that ends a turn finds no other, and no turn at work.           *)
LEMMA TurnAnswered ==
  ASSUME IInv, SInv, kind = "cursor", NEW m, NEW r, Reading(m, r),
         m.type = "response", m.id = adapter.prompt, adapter.prompt # None
  PROVE  /\ \A i \in DOMAIN stdin : ~Carries(stdin[i])
         /\ native.turn = None /\ native.ref = None /\ native.leaving = None
         /\ \A i \in DOMAIN stdout' : ~Answers(stdout'[i])
<1>1. CursorInv /\ Answers(m) /\ 1 \in DOMAIN stdout /\ m = stdout[1] /\ Drops(stdout, stdout')
  BY DEF SInv, CursorInv, Answers, Reading
<1>2. ~Silent
  BY <1>1 DEF Silent
<1>3. ASSUME NEW i \in DOMAIN stdout', Answers(stdout'[i]) PROVE FALSE
  <2>1. i + 1 \in DOMAIN stdout /\ Answers(stdout[i + 1]) /\ i \in Nat \ {0}
    BY <1>1, <1>3 DEF Drops
  <2>2. i + 1 = 1
    BY <1>1, <2>1 DEF CursorInv
  <2> QED  BY <2>1, <2>2
<1> QED  BY <1>1, <1>2, <1>3 DEF CursorInv

(* The turn goes on with the steered prompt,                                 *)
LEMMA CursorResumes ==
  ASSUME IInv, SInv, kind = "cursor", NEW m, NEW r, Reading(m, r), Resumes(m, r),
         UNCHANGED <<kind, native>>, adapter' = r.adapter,
         \/ stdin' = stdin
         \/ Joins(stdin, <<Frame("session/prompt", adapter.restart, progress.request)>>, stdin')
  PROVE  CursorInv'
<1>0. PICK f : f = Frame("session/prompt", adapter.restart, progress.request)
  OBVIOUS
<1>1. /\ adapter.prompt # None /\ adapter.restart # None
      /\ adapter'.prompt = adapter.restart /\ adapter'.restart = None
      /\ progress' = progress /\ after' = None
  BY DEF Resumes, Reading
<1>2. /\ CursorInv /\ \A i \in DOMAIN stdin : ~Carries(stdin[i])
      /\ native.turn = None /\ native.ref = None /\ native.leaving = None
      /\ \A i \in DOMAIN stdout' : ~Answers(stdout'[i])
  BY TurnAnswered DEF Resumes, SInv
<1>3. adapter.restart = <<"steer", 1>> /\ <<"steer", 1>> \in Turning
  BY <1>1, <1>2 DEF CursorInv, Turning
<1>4. Silent' /\ Turning' = Turning /\ \A x : Answers(x)' <=> Answers(x)
  BY <1>2, SameWords DEF Silent
<1>5. f.method = "session/prompt" /\ f.id = adapter.restart /\ f.ref = progress.request
  BY <1>0 DEF Frame
<1>6. \A i \in DOMAIN stdin' :
        \/ i \in DOMAIN stdin /\ stdin'[i] = stdin[i]
        \/ i = Len(stdin) + 1 /\ stdin'[i] = f
  <2>1. CASE stdin' = stdin
    BY <2>1
  <2>2. CASE Joins(stdin, <<f>>, stdin')
    <3>1. \A j \in DOMAIN <<f>> : j = 1 /\ <<f>>[j] = f
      BY Elements
    <3> QED  BY <2>2, <3>1 DEF Joins
  <2> QED  BY <1>0, <2>1, <2>2
<1>7. \A i \in DOMAIN stdin' :
        /\ stdin'[i].id \in Turning => stdin'[i].method \in {"session/prompt", "session/cancel"}
        /\ Carries(stdin'[i]) =>
             /\ i = Len(stdin) + 1 /\ stdin'[i].id = adapter.restart
             /\ stdin'[i].ref = progress.request
  BY <1>2, <1>5, <1>6 DEF CursorInv, Carries
<1>8. \A i \in DOMAIN stdin' : Carries(stdin'[i]) => \A j \in DOMAIN stdin' : Carries(stdin'[j]) => j = i
  BY <1>7
<1>9. Unfinished(progress)'
  BY <1>1, <1>2 DEF CursorInv, Unfinished
<1> QED  BY <1>1, <1>2, <1>3, <1>4, <1>7, <1>8, <1>9 DEF CursorInv, Carries

(* or it is over,                                                            *)
LEMMA CursorStops ==
  ASSUME IInv, SInv, kind = "cursor", NEW m, NEW r, Reading(m, r), Stops(m, r),
         UNCHANGED <<kind, native, stdin>>, adapter' = r.adapter
  PROVE  CursorInv'
<1>1. /\ adapter'.prompt = None /\ adapter'.restart \in {adapter.restart, None}
      /\ adapter'.responses = <<>>
  BY DEF Stops
<1>2. /\ CursorInv /\ \A i \in DOMAIN stdin : ~Carries(stdin[i])
      /\ native.turn = None /\ native.ref = None /\ native.leaving = None
      /\ \A i \in DOMAIN stdout' : ~Answers(stdout'[i])
  BY TurnAnswered DEF Stops, SInv
<1>3. adapter'.restart \in {None, <<"steer", 1>>}
  BY <1>1, <1>2 DEF CursorInv
<1>4. Turning' = Turning /\ \A x : Answers(x)' <=> Answers(x)
  BY SameWords
<1> QED  BY <1>1, <1>2, <1>3, <1>4 DEF CursorInv, Carries

(* or it goes on.                                                            *)
LEMMA CursorReads ==
  ASSUME IInv, SInv, kind = "cursor", NEW m, NEW r, Reading(m, r)
  PROVE  CursorInv'
<1>1. /\ UNCHANGED <<kind, native>> /\ m \in Messages /\ r = Receive(m) /\ Drops(stdout, stdout')
      /\ Told(r.adapter, m) /\ progress' = r.progress
      /\ stdin \in Seq(Frames) /\ adapter \in CursorAdapters /\ progress \in Turned
  BY DEF Reading, IInv, TypeInv, PipesOK, AdapterOK, DriverOK
<1>2. Resumes(m, r) \/ Stops(m, r) \/ Passes(r)
  BY <1>1, CursorHeard
<1>3. Closing(r.adapter, m) = r.adapter /\ Responds(r.adapter, m) = r.adapter.responses
  BY DEF Closing, Responds, Cursor!Responds
<1>4. adapter' = r.adapter /\ (stdin' = stdin \/ stdin' = stdin \o r.adapter.responses)
  BY <1>1, <1>3 DEF Told
<1>5. stdin \o <<>> = stdin
  BY <1>1, NothingJoined
<1>6. CASE Resumes(m, r)
  <2>0. PICK f : f = Frame("session/prompt", adapter.restart, progress.request)
    OBVIOUS
  <2>1. r.adapter.responses = <<f>> /\ r.adapter.responses \in Seq(Frames)
    <3>1. r.adapter \in CursorAdapters
      BY DEF Reading, Speaks, AdapterOK
    <3> QED  BY <1>6, <2>0, <3>1 DEF Resumes, CursorAdapters
  <2>2. stdin' = stdin \/ Joins(stdin, <<f>>, stdin')
    BY <1>1, <1>4, <2>1, Joined
  <2> QED  BY <1>1, <1>4, <1>6, <2>0, <2>2, CursorResumes
<1>7. CASE Stops(m, r)
  BY <1>1, <1>4, <1>5, <1>7, CursorStops DEF Stops
<1>8. CASE Passes(r)
  <2>1. stdin' = stdin /\ adapter'.responses = <<>> /\ adapter'.prompt = adapter.prompt
        /\ adapter'.restart \in {adapter.restart, None}
    BY <1>4, <1>5, <1>8 DEF Passes
  <2>2. progress'.request = progress.request /\ (Unfinished(progress) => Unfinished(progress)')
    BY <1>1, <1>8 DEF Passes, Unfinished
  <2>3. Fewest
    BY <1>1 DEF Fewest, Drops
  <2> QED  BY <1>1, <2>1, <2>2, <2>3, CursorStays DEF SInv
<1> QED  BY <1>2, <1>6, <1>7, <1>8

(* The answers that wait for events owe the program nothing.                 *)
LEMMA CursorSends ==
  ASSUME IInv, SInv, kind = "cursor", Sending
  PROVE  CursorInv'
<1>1. /\ UNCHANGED <<kind, native, progress, stdout>> /\ Told(adapter, after) /\ CursorInv
      /\ after' \in {after, None} /\ (after = None => UNCHANGED <<adapter, stdin>>)
      /\ stdin \in Seq(Frames) /\ stdout \in Seq(Messages)
  BY DEF Sending, IInv, TypeInv, PipesOK, SInv
<1>2. adapter' = adapter /\ stdin' = stdin
  <2>1. CASE after = None
    BY <1>1, <2>1
  <2>2. CASE after # None
    <3>1. Closing(adapter, after) = adapter /\ Responds(adapter, after) = <<>>
      BY <1>1, <2>2 DEF Closing, Responds, Cursor!Responds, CursorInv
    <3>2. stdin \o <<>> = stdin
      BY <1>1, NothingJoined
    <3> QED  BY <1>1, <3>1, <3>2 DEF Told
  <2> QED  BY <2>1, <2>2
<1>3. Fewest
  <2>1. DOMAIN stdout \subseteq Nat
    BY <1>1, LenProperties
  <2>2. \A i \in DOMAIN stdout' : i \in Nat /\ i + 0 \in DOMAIN stdout /\ stdout'[i] = stdout[i + 0]
    BY <1>1, <2>1
  <2> QED  BY <2>2 DEF Fewest
<1>4. Unfinished(progress) => Unfinished(progress)'
  BY <1>1 DEF Unfinished
<1>5. after' # None => adapter'.responses = <<>>
  BY <1>1, <1>2 DEF CursorInv
<1> QED  BY <1>1, <1>2, <1>3, <1>4, <1>5, CursorStays

(* The close marks Cursor's turn cancelled; a steer is given up.             *)
LEMMA CursorCloses ==
  ASSUME IInv, SInv, kind = "cursor", Stop
  PROVE  CursorInv'
<1>1. /\ UNCHANGED <<kind, native, progress, stdout, after>>
      /\ adapter' = AtClose /\ stdin' = stdin \o CloseFrames
      /\ PlanOK /\ stdin \in Seq(Frames) /\ stdout \in Seq(Messages) /\ CursorInv
      /\ adapter \in CursorAdapters /\ AdapterOK(adapter)
  BY DEF Stop, nativeVars, IInv, TypeInv, PipesOK, AdapterOK, SInv
<1>2. /\ adapter'.prompt = adapter.prompt /\ adapter'.restart = None
      /\ adapter'.responses = adapter.responses
  <2>1. adapter' = [adapter EXCEPT !.closing = TRUE, !.restart = None]
    BY <1>1 DEF AtClose, Cursor!AtClose
  <2> QED  BY <1>1, <2>1 DEF CursorAdapters
<1>3. PICK f : f = Frame("session/cancel", <<"close", 1>>, None)
  OBVIOUS
<1>4. CloseFrames = <<>> \/ CloseFrames = <<f>>
  BY <1>3, CursorWords DEF CloseFrames, Cursor!CloseFrames
<1>5. ~Carries(f) /\ f.method = "session/cancel"
  BY <1>3 DEF Frame, Carries
<1>6. \A i \in DOMAIN stdin' : \/ i \in DOMAIN stdin /\ stdin'[i] = stdin[i]
                               \/ stdin'[i] = f
  <2>1. CASE CloseFrames = <<>>
    BY <1>1, <2>1, NothingJoined
  <2>2. CASE CloseFrames = <<f>>
    <3>1. CloseFrames \in Seq(Frames)
      BY <1>1, AtCloseOK
    <3>2. Joins(stdin, <<f>>, stdin')
      BY <1>1, <2>2, <3>1, Joined
    <3>3. \A j \in DOMAIN <<f>> : <<f>>[j] = f
      BY Elements
    <3> QED  BY <3>2, <3>3 DEF Joins
  <2> QED  BY <1>4, <2>1, <2>2
<1>7. Fewest
  <2>1. DOMAIN stdout \subseteq Nat
    BY <1>1, LenProperties
  <2>2. \A i \in DOMAIN stdout' : i \in Nat /\ i + 0 \in DOMAIN stdout /\ stdout'[i] = stdout[i + 0]
    BY <1>1, <2>1
  <2> QED  BY <2>2 DEF Fewest
<1>8. Unfinished(progress) => Unfinished(progress)'
  BY <1>1 DEF Unfinished
<1>9. after' # None => adapter'.responses = <<>>
  BY <1>1, <1>2 DEF CursorInv
<1> QED  BY <1>1, <1>2, <1>5, <1>6, <1>7, <1>8, <1>9, CursorStays

(* Looking after the copy changes nothing of the turn.                       *)
LEMMA CaptureTurn ==
  ASSUME kind = "cursor", adapter \in CursorAdapters, NEW c \in Capture
  PROVE  /\ c.adapter.prompt = adapter.prompt /\ c.adapter.restart = adapter.restart
         /\ c.adapter.responses = adapter.responses
<1> DEFINE Same(x) == /\ x.prompt = adapter.prompt /\ x.restart = adapter.restart
                      /\ x.responses = adapter.responses
           next(x) == Cursor!NextCopy(x)
           gone == [adapter EXCEPT !.worker = None]
<1>1. PICK d \in Cursor!Polls(adapter) : c = Cursor!Released(d)
  BY DEF Capture, Cursor!Capture
<1>2. ASSUME NEW x \in CursorAdapters PROVE next(x) \in CursorAdapters /\ (Same(x) => Same(next(x)))
  <2> DEFINE w == IF x.terminal # None THEN x.terminal.request ELSE "partial"
  <2>1. w \in Refs \cup {"partial"}
    BY DEF CursorAdapters, Ends, Refs, Absent
  <2>2. next(x) \in {x, [x EXCEPT !.dirty = FALSE, !.worker = w]}
    BY DEF Cursor!NextCopy
  <2> HIDE DEF next, w
  <2> QED  BY <2>1, <2>2 DEF CursorAdapters
<1>3. gone \in CursorAdapters /\ Same(gone) /\ Same(adapter)
  BY DEF CursorAdapters, Refs, Absent
<1>4. d.adapter \in {next(adapter), next(gone)}
  BY CursorWords DEF Cursor!Polls
<1>5. d.adapter \in CursorAdapters /\ Same(d.adapter)
  <2> HIDE DEF next, gone
  <2> QED  BY <1>2, <1>3, <1>4
<1> DEFINE y == [d.adapter EXCEPT !.terminal = None]
<1>6. c.adapter \in {d.adapter, y}
  BY <1>1 DEF Cursor!Released
<1>7. Same(y)
  BY <1>5 DEF CursorAdapters
<1> HIDE DEF y
<1> QED  BY <1>5, <1>6, <1>7

(* Neither does it change what the program works on.                         *)
LEMMA TickSound ==
  ASSUME IInv, SInv, Tick
  PROVE  SInv'
<1>1. PICK c \in Capture : adapter' = c.adapter
  BY DEF Tick
<1>2. /\ UNCHANGED <<kind, progress, after, stdin, stdout, native, turn, compaction>>
      /\ kind = "cursor" /\ CursorInv /\ AskedInv /\ adapter \in CursorAdapters
      /\ stdout \in Seq(Messages)
  BY DEF Tick, CapturePending, pipeVars, nativeVars, sessionVars, SInv, IInv, TypeInv, PipesOK, AdapterOK
<1>3. /\ adapter'.prompt = adapter.prompt /\ adapter'.restart = adapter.restart
      /\ adapter'.responses = adapter.responses
  BY <1>1, <1>2, CaptureTurn
<1>4. Fewest
  <2>1. DOMAIN stdout \subseteq Nat
    BY <1>2, LenProperties
  <2>2. \A i \in DOMAIN stdout' : i \in Nat /\ i + 0 \in DOMAIN stdout /\ stdout'[i] = stdout[i + 0]
    BY <1>2, <2>1
  <2> QED  BY <2>2 DEF Fewest
<1>5. Unfinished(progress) => Unfinished(progress)'
  BY <1>2 DEF Unfinished
<1>6. after' # None => adapter'.responses = <<>>
  BY <1>2, <1>3 DEF CursorInv
<1>7. CursorInv'
  BY <1>2, <1>3, <1>4, <1>5, <1>6, CursorStays
<1>8. AskedInv'
  BY <1>2 DEF AskedInv
<1> QED  BY <1>2, <1>7, <1>8, OtherHarness DEF SInv

(* Every harness taken together.                                             *)
LEMMA StopsSound ==
  ASSUME IInv, IInv', SInv, Steady, Stop
  PROVE  SInv'
<1>1. CASE kind = "cursor"
  <2>1. CursorInv'
    BY <1>1, CursorCloses
  <2>2. kind' = kind /\ AskedInv'
    BY DEF Stop, sessionVars, SInv, AskedInv
  <2> QED  BY <1>1, <2>1, <2>2, OtherHarness DEF SInv
<1> QED  BY <1>1, StopSound

(* Reading keeps what the program works on, whatever the harness,            *)
LEMMA ReadSound ==
  ASSUME IInv, IInv', SInv, Steady, ReadLine
  PROVE  SInv'
<1>0. PICK m, r : m = Head(stdout) /\ r = Receive(Head(stdout))
  OBVIOUS
<1>1. Reading(m, r)
  BY <1>0, ReadReading
<1>2. kind' = kind /\ AskedInv'
  BY <1>1 DEF Reading, SInv, AskedInv
<1>3. kind \in {"codex", "claude", "pi", "cursor"}
  BY KindKnown DEF IInv, TypeInv
<1>4. CASE kind = "codex"
  BY <1>1, <1>2, <1>4, CodexReads, OtherHarness DEF SInv
<1>5. CASE kind = "claude"
  BY <1>1, <1>2, <1>5, ClaudeReads, OtherHarness DEF SInv
<1>6. CASE kind = "pi"
  BY <1>1, <1>2, <1>6, PiReads, OtherHarness DEF SInv
<1>7. CASE kind = "cursor"
  BY <1>1, <1>2, <1>7, CursorReads, OtherHarness DEF SInv
<1> QED  BY <1>3, <1>4, <1>5, <1>6, <1>7

(* and so does sending what was read.                                        *)
LEMMA SendSound ==
  ASSUME IInv, SInv, Steady, SendEvent
  PROVE  SInv'
<1>1. Sending
  BY SendSending
<1>2. kind' = kind /\ AskedInv'
  BY <1>1 DEF Sending, SInv, AskedInv
<1>3. kind \in {"codex", "claude", "pi", "cursor"}
  BY KindKnown DEF IInv, TypeInv
<1>4. CASE kind = "codex"
  BY <1>1, <1>2, <1>4, CodexSends, OtherHarness DEF SInv
<1>5. CASE kind = "claude"
  BY <1>1, <1>2, <1>5, ClaudeSends, OtherHarness DEF SInv
<1>6. CASE kind = "pi"
  BY <1>1, <1>2, <1>6, PiSends, OtherHarness DEF SInv
<1>7. CASE kind = "cursor"
  BY <1>1, <1>2, <1>7, CursorSends, OtherHarness DEF SInv
<1> QED  BY <1>3, <1>4, <1>5, <1>6, <1>7

-----------------------------------------------------------------------------
(* At the beginning the program has nothing.                                 *)
LEMMA FirstNative ==
  ASSUME PlanOK, adapter = Adapter0[kind], native = Native0[kind]
  PROVE  /\ \A p \in Prompts : kind # "cursor" => p \notin NativeTurns
         /\ kind = "codex" => /\ adapter.compaction = None /\ adapter.turn = None
                              /\ native.compacting = "no"
         /\ kind = "claude" => /\ native.queue = <<>> /\ native.turn = None
                               /\ adapter.active = None /\ adapter.reply = NoAnswer
         /\ kind = "pi" => adapter.prompt = None /\ native.ref = None /\ native.compact = None
         /\ kind = "cursor" => /\ adapter.prompt = None /\ adapter.restart = None
                               /\ native.turn = None /\ native.ref = None /\ native.leaving = None
<1>0. \A p \in Prompts : p # None
  BY NamesAssumption
<1>1. CASE kind = "codex"
  <2>1. adapter = Codex!Adapter0 /\ native = Codex!Native0
    BY <1>1 DEF Adapter0, Native0
  <2> QED  BY <1>0, <1>1, <2>1 DEF Codex!Adapter0, Codex!Native0, NativeTurns
<1>2. CASE kind = "claude"
  <2>1. adapter = Claude!Adapter0 /\ native = Claude!Native0
    BY <1>2 DEF Adapter0, Native0
  <2>2. /\ native.queue = <<>> /\ native.turn = None
        /\ adapter.active = None /\ adapter.reply = NoAnswer
    BY <2>1, ClaudeWords DEF Claude!Adapter0, Claude!Native0
  <2>3. NativeTurns = {}
    BY <1>2, <2>2 DEF NativeTurns
  <2> QED  BY <1>2, <2>2, <2>3
<1>3. CASE kind = "pi"
  <2>1. adapter = Pi!Adapter0 /\ native = Pi!Native0
    BY <1>3 DEF Adapter0, Native0
  <2> QED  BY <1>0, <1>3, <2>1 DEF Pi!Adapter0, Pi!Native0, NativeTurns
<1>4. CASE kind = "cursor"
  <2>1. adapter = Cursor!Adapter0 /\ native = Cursor!Native0
    BY <1>4 DEF Adapter0, Native0
  <2> QED  BY <1>4, <2>1 DEF Cursor!Adapter0, Cursor!Native0
<1> QED  BY <1>1, <1>2, <1>3, <1>4, KindKnown

(* The program works on nothing in the beginning.                            *)
LEMMA SInit == Init => SInv
<1> SUFFICES ASSUME Init PROVE SInv
  OBVIOUS
<1>1. /\ PlanOK /\ kind \in {"codex", "claude", "pi", "cursor"}
      /\ adapter = Adapter0[kind] /\ native = Native0[kind]
  BY KindKnown DEF Init, PlanOK
<1>2. /\ DOMAIN stdin = {} /\ DOMAIN stdout = {} /\ DOMAIN calls = {} /\ DOMAIN Queue = {}
      /\ after = None /\ compaction = "none" /\ progress = Resting
      /\ turn = [p \in Prompts |-> "none"]
  BY DEF Init, Queue
<1>3. /\ ops["compact"].state = "idle" /\ ops["compact"].target = None
      /\ \A p \in Prompts : ops[p].state = "idle"
  BY OpsKnown DEF Init
<1>4. progress.request = None /\ ~Unfinished(progress)
  BY <1>2 DEF Resting, Unfinished
<1>5. /\ \A p \in Prompts : kind # "cursor" => p \notin NativeTurns
      /\ kind = "codex" => /\ adapter.compaction = None /\ adapter.turn = None
                           /\ native.compacting = "no"
      /\ kind = "claude" => /\ native.queue = <<>> /\ native.turn = None
                            /\ adapter.active = None /\ adapter.reply = NoAnswer
      /\ kind = "pi" => adapter.prompt = None /\ native.ref = None /\ native.compact = None
      /\ kind = "cursor" => /\ adapter.prompt = None /\ adapter.restart = None
                            /\ native.turn = None /\ native.ref = None /\ native.leaving = None
  BY <1>1, FirstNative
<1>6. \A p \in Prompts : kind # "cursor" => ~Holds(p)
  BY <1>2, <1>5 DEF Holds, Written
<1>7. FramesInv /\ TokenInv /\ DoneInv /\ AskedInv
  BY <1>2, <1>6 DEF FramesInv, TokenInv, DoneInv, AskedInv
<1>8. PackInv /\ CodexInv
  BY <1>2, <1>3, <1>4, <1>5 DEF PackInv, PackCalls, PackPipes, PackSession, CodexInv
<1>9. PiInv
  BY <1>2, <1>4, <1>5 DEF PiInv
<1>10. QueueInv /\ ReplyInv
  BY <1>5, Elements DEF QueueInv, ReplyInv, SaysNo
<1>11. OverInv
  BY <1>3, <1>6 DEF OverInv
<1>12. CursorInv
  BY <1>2, <1>5 DEF CursorInv
<1> QED  BY <1>7, <1>8, <1>9, <1>10, <1>11, <1>12 DEF SInv

(* Every step of the session, of the Handle, of the driver and of the        *)
(* program keeps what the program works on.                                  *)
LEMMA SNext == IInv /\ SInv /\ [Next]_vars => SInv'
<1> SUFFICES ASSUME IInv, SInv, [Next]_vars PROVE SInv'
  OBVIOUS
<1>0. IInv' /\ Steady
  BY NextStep
<1>1. ASSUME NEW p \in Prompts, SendPrompt(p) PROVE SInv'
  BY <1>0, <1>1, SendPromptCalm
<1>2. ASSUME NEW op \in Ops, Control(op) PROVE SInv'
  BY <1>0, <1>2, ControlCalm
<1>3. ASSUME NEW op \in Ops, HandleStep(op) PROVE SInv'
  BY <1>0, <1>3, CallCalm, WaitCalm DEF HandleStep
<1>4. ASSUME NEW op \in Ops, TimeOut(op) PROVE SInv'
  BY <1>0, <1>4, WaitCalm
<1>5. CASE Compact
  BY <1>0, <1>5, CompactSound
<1>6. CASE SessionLearns
  BY <1>0, <1>6, LearnCalm
<1>7. CASE Record
  BY <1>0, <1>7, RecordCalm
<1>8. CASE Shutdown \/ Freeze \/ Thaw \/ NativeExits \/ LoopEnds \/ UNCHANGED vars
  BY <1>0, <1>8, RestCalm
<1>9. CASE DriverStep
  BY <1>0, <1>8, <1>9, DenyCalm, AcceptSound, ReadSound, SendSound, TickSound, StopsSound,
     LeaveCalm DEF DriverStep
<1>10. CASE NativeTakes \/ NativeWorks
  BY <1>0, <1>10, NativeSound
<1> QED  BY <1>1, <1>2, <1>3, <1>4, <1>5, <1>6, <1>7, <1>8, <1>9, <1>10 DEF Next

(* What the program works on, in every reachable state.                      *)
THEOREM WorkInvariant == Spec => []SInv
BY InitStep, NextStep, SInit, SNext, PTL DEF Spec

(* Once the session takes a prompt for finished or refused, the program does *)
(* not run it and never will: it is on no pipe, in no queue, and no          *)
(* compaction, retry or steered prompt goes on with it.                      *)
THEOREM TurnsSound == Spec => []TurnSound
<1>1. IInv /\ SInv => TurnSound
  <2> SUFFICES ASSUME IInv, SInv, NEW p \in Prompts, turn[p] \in {"finished", "refused"}, Holds(p)
               PROVE  FALSE
    BY DEF TurnSound, Holds
  <2>1. CASE kind = "claude"
    BY <2>1 DEF SInv, OverInv, Over
  <2>2. CASE kind # "claude"
    <3>1. progress.request = p /\ Unfinished(progress)
      <4>1. CASE kind # "cursor"
        BY <4>1, Held DEF SInv
      <4>2. CASE kind = "cursor"
        <5>1. CursorInv /\ p # None
          BY NamesAssumption DEF SInv
        <5>2. CASE p \in NativeTurns
          BY <4>2, <5>1, <5>2 DEF NativeTurns, CursorInv
        <5>3. CASE Written(p)
          <6>1. PICK i \in DOMAIN stdin : Carries(stdin[i]) /\ stdin[i].ref = p
            BY <5>3, WrittenCarries
          <6> QED  BY <4>2, <5>1, <6>1 DEF CursorInv
        <5> QED  BY <5>2, <5>3 DEF Holds
      <4> QED  BY <4>1, <4>2
    <3>2. NotOver(p)
      BY <2>2, <3>1 DEF IInv, BusyInv
    <3> QED  BY <3>2 DEF NotOver
  <2> QED  BY <2>1, <2>2
<1> QED  BY <1>1, Invariant, WorkInvariant, PTL
=============================================================================
