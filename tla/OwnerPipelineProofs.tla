-------------------------- MODULE OwnerPipelineProofs --------------------------
(***************************************************************************)
(* Theorems about one project on its way to the hand-off, for any number   *)
(* of requests in flight, goals and confirmations, with and without failed *)
(* writes: nothing is reviewed or handed off with questions open, nothing  *)
(* is handed off without an approval and a package, and, while requests do *)
(* not overlap, the package is of an approved goal and no confirmation is  *)
(* used twice.                                                             *)
(*                                                                         *)
(* None of this is inductive about project_state.json alone: a call in     *)
(* flight holds the state it is going to save, and that state must be as   *)
(* good as the one on file when it is saved, whatever has been saved in    *)
(* between.                                                                *)
(***************************************************************************)
EXTENDS OwnerPipeline, TLAPS

Ops == {"idle", "intake", "answers", "options", "draft", "doc loop", "verify",
        "handoff", "expand", "expanded", "checkpoint", "summary", "chat",
        "propose"}

Documented == {"DOCUMENTATION_REVIEW", "EXECUTION_HANDOFF_READY",
               "EXECUTION_HANDOFF_CREATED"}

\* What ApproveDocumentation leaves and createExecutionHandoff asks for.
Ready(s) ==
  /\ s.at = "EXECUTION_HANDOFF_READY"
  /\ s.docs = "DOCS_APPROVED" /\ s.pkg = "READY_FOR_HANDOFF"

Waiting(s) == s.pkg = "APPROVED_PENDING_FORGE"

\* A state that may be on file, whatever has overlapped or failed.
Sound(s) ==
  /\ s \in States
  /\ s.at \in Documented => s.discovery = "complete"
  /\ s.discovery # "vague" => s.goal # 0
  /\ s.pkg # "in work" => approved # {}
  /\ s.pending # NoPending => s.pending.key <= keys

\* A call whose later turn leaves such a state.
SoundCall(k) ==
  /\ k \in [op : Ops, save : States]
  /\ Sound(k.save)
  /\ k.op \in {"intake", "answers", "handoff", "propose"} => k.save.goal # 0
  /\ k.op = "intake" => k.save.at = "IDEATION" /\ k.save.pkg = "in work"
  /\ k.op = "chat" => k.save.pending # NoPending
  /\ k.op = "handoff" => k.save.at = "EXECUTION_HANDOFF_CREATED"
                         /\ k.save.pending = NoPending
  /\ k.op # "handoff" /\ Waiting(k.save) => package # 0

\* What a state has besides, while calls neither overlap nor fail.
Lawful(s) ==
  /\ Waiting(s) => package \in approved
  /\ Ready(s) => s.goal \in approved
  /\ s.pending # NoPending => s.pending.key \notin used

LawfulCall(k) ==
  /\ k.op = "handoff" => k.save.goal \in approved
  /\ k.op # "handoff" => Lawful(k.save)
  /\ k.op \in {"expand", "expanded"} => ~Ready(st)

OneCall == \A c, d \in Calls : calls[c] # Idle /\ calls[d] # Idle => c = d

Counted ==
  /\ goals \in 0 .. MaxGoals /\ keys \in 0 .. MaxKeys
  /\ smooth \in BOOLEAN
  /\ used \subseteq 0 .. keys
  /\ calls \in [Calls -> [op : Ops, save : States]]

SoundAll ==
  /\ Sound(st)
  /\ Waiting(st) => package # 0
  /\ \A c \in Calls : SoundCall(calls[c])

SmoothAll ==
  smooth => /\ OneCall
            /\ Lawful(st)
            /\ \A c \in Calls : LawfulCall(calls[c])

OwnerInv == Counted /\ SoundAll /\ SmoothAll

-----------------------------------------------------------------------------
(* States and calls stay good while others take their turns *)

\* What no step takes back.
Growth ==
  /\ goals' \in 0 .. MaxGoals /\ keys' \in 0 .. MaxKeys /\ keys <= keys'
  /\ smooth' \in BOOLEAN
  /\ approved \subseteq approved'
  /\ used' \subseteq 0 .. keys'
  /\ package # 0 => package' # 0

LEMMA Bounds == MaxGoals \in Nat /\ MaxKeys \in Nat
BY OwnerAssumption

LEMMA DefaultTyped == DefaultState \in States /\ DefaultState.pending = NoPending
<1>1. 0 \in 0 .. MaxGoals /\ 0 \in 0 .. MaxKeys
  BY Bounds
<1> QED
  BY <1>1 DEF DefaultState, States, Stages, NoPending

LEMMA SoundKept ==
  ASSUME Counted, Growth, NEW s, Sound(s)
  PROVE  Sound(s)'
<1>1. s.pending.key \in 0 .. MaxKeys
  BY DEF Sound, States
<1>2. s.pending.key \in Nat /\ keys \in Nat /\ keys' \in Nat /\ keys <= keys'
  BY <1>1, Bounds DEF Counted, Growth
<1>3. \A n \in Nat : n <= keys => n <= keys'
  BY <1>2
<1>4. s.pending # NoPending => s.pending.key <= keys'
  BY <1>2, <1>3 DEF Sound
<1> QED
  BY <1>4 DEF Sound, Growth

LEMMA SoundCallKept ==
  ASSUME Counted, Growth, NEW k, SoundCall(k)
  PROVE  SoundCall(k)'
<1>1. Sound(k.save)'
  BY SoundKept DEF SoundCall
<1> QED
  BY <1>1 DEF SoundCall, Waiting, Growth

LEMMA IdleIsFine ==
  /\ Counted => SoundCall(Idle)
  /\ Counted' => SoundCall(Idle)'
  /\ LawfulCall(Idle) /\ LawfulCall(Idle)'
<1>1. Idle \in [op : Ops, save : States] /\ Idle.op = "idle"
      /\ Idle.save = DefaultState
  BY DefaultTyped DEF Idle, Ops
<1>2. /\ DefaultState.at = "DISCUSSION" /\ DefaultState.discovery = "vague"
      /\ DefaultState.pkg = "in work"
  BY DEF DefaultState
<1> QED
  BY <1>1, <1>2, DefaultTyped
     DEF SoundCall, Sound, Documented, LawfulCall, Lawful, Waiting, Ready

\* A turn of call c: the other calls keep what they are going to save.
LEMMA TurnStep ==
  ASSUME OwnerInv, Growth, NEW c \in Calls, NEW k,
         calls' = [calls EXCEPT ![c] = k],
         smooth' => smooth /\ \A d \in Calls \ {c} : calls[d] = Idle,
         Sound(st)', Waiting(st)' => package' # 0, SoundCall(k)',
         smooth' => Lawful(st)' /\ LawfulCall(k)'
  PROVE  OwnerInv'
<1>1. Counted'
  BY DEF OwnerInv, Counted, Growth, SoundCall
<1>2. ASSUME NEW d \in Calls PROVE SoundCall(calls[d])'
  <2>1. CASE d = c
    BY <2>1 DEF OwnerInv, Counted
  <2>2. CASE d # c
    BY <2>2, SoundCallKept DEF OwnerInv, Counted, SoundAll
  <2> QED BY <2>1, <2>2
<1>3. SmoothAll'
  <2> SUFFICES ASSUME smooth' PROVE (OneCall /\ Lawful(st) /\ \A d \in Calls : LawfulCall(calls[d]))'
    BY DEF SmoothAll
  <2>1. \A d \in Calls \ {c} : calls'[d] = Idle
    BY DEF OwnerInv, Counted
  <2>2. calls'[c] = k
    BY DEF OwnerInv, Counted
  <2> QED BY <2>1, <2>2, IdleIsFine DEF OneCall
<1> QED
  BY <1>1, <1>2, <1>3 DEF OwnerInv, SoundAll

\* A turn of no call in flight.
LEMMA LoneStep ==
  ASSUME OwnerInv, Growth, calls' = calls,
         smooth' => smooth /\ \A d \in Calls : calls[d] = Idle,
         Sound(st)', Waiting(st)' => package' # 0,
         smooth' => Lawful(st)'
  PROVE  OwnerInv'
<1>1. Counted'
  BY DEF OwnerInv, Counted, Growth
<1>2. \A d \in Calls : SoundCall(calls[d])'
  BY SoundCallKept DEF OwnerInv, SoundAll
<1>3. SmoothAll'
  BY IdleIsFine DEF SmoothAll, OneCall
<1> QED
  BY <1>1, <1>2, <1>3 DEF OwnerInv, SoundAll

\* A request that waits: nothing is saved yet.
LEMMA WaitStep ==
  ASSUME OwnerInv, goals' \in 0 .. MaxGoals, NEW c \in Calls, NEW op, NEW save,
         Wait(c, op, save), UNCHANGED <<st, package, keys, approved, used>>,
         SoundCall([op |-> op, save |-> save]),
         smooth => LawfulCall([op |-> op, save |-> save])
  PROVE  OwnerInv'
<1> DEFINE k == [op |-> op, save |-> save]
<1>1. Growth
  BY Bounds DEF OwnerInv, Counted, Growth, Wait
<1>2. Sound(st)' /\ (Waiting(st)' => package' # 0) /\ SoundCall(k)'
  BY DEF OwnerInv, SoundAll, Sound, Waiting, SoundCall
<1>3. smooth' => Lawful(st)' /\ LawfulCall(k)'
  BY DEF OwnerInv, SmoothAll, Wait, Counted, Lawful, LawfulCall, Ready, Waiting
<1>4. calls' = [calls EXCEPT ![c] = k]
      /\ (smooth' => smooth /\ \A d \in Calls \ {c} : calls[d] = Idle)
  BY DEF Wait
<1> HIDE DEF k
<1> QED
  BY <1>1, <1>2, <1>3, <1>4, TurnStep

\* The last turn of call c, which saves s.
LEMMA SaveStep ==
  ASSUME OwnerInv, goals' \in 0 .. MaxGoals, NEW c \in Calls, NEW s,
         calls[c].op # "idle", Reply(c), st' = s, smooth' \in BOOLEAN, smooth' => smooth,
         UNCHANGED <<package, keys, approved, used>>,
         Sound(s), Waiting(s) => package # 0, smooth => Lawful(s)
  PROVE  OwnerInv'
<1>1. Growth
  BY Bounds DEF OwnerInv, Counted, Growth
<1>2. Sound(st)' /\ (Waiting(st)' => package' # 0)
  BY DEF Sound, Waiting
<1>3. smooth' => Lawful(st)'
  BY DEF Lawful, Ready, Waiting
<1>4. smooth => \A d \in Calls \ {c} : calls[d] = Idle
  BY DEF OwnerInv, SmoothAll, OneCall, Idle
<1>5. SoundCall(Idle)' /\ LawfulCall(Idle)'
  BY <1>1, IdleIsFine, Bounds DEF OwnerInv, Counted, Growth, Reply, SoundCall
<1> QED
  BY <1>1, <1>2, <1>3, <1>4, <1>5, TurnStep DEF Reply

\* A handler that saves s without waiting.
LEMMA AtOnceStep ==
  ASSUME OwnerInv, AtOnce, goals' \in 0 .. MaxGoals, NEW s, st' = s,
         UNCHANGED <<package, keys, approved, used>>,
         Sound(s), Waiting(s) => package # 0, smooth => Lawful(s)
  PROVE  OwnerInv'
<1>1. Growth
  BY Bounds DEF OwnerInv, Counted, Growth, AtOnce
<1>2. Sound(st)' /\ (Waiting(st)' => package' # 0)
  BY DEF Sound, Waiting
<1>3. smooth' => Lawful(st)'
  BY DEF Lawful, Ready, Waiting, AtOnce
<1> QED
  BY <1>1, <1>2, <1>3, LoneStep DEF AtOnce

-----------------------------------------------------------------------------
(* Discovery and options *)

LEMMA IntakeKept ==
  ASSUME OwnerInv, NEW c \in Calls, BeginIntake(c)
  PROVE  OwnerInv'
<1> DEFINE s == [Unready(st) EXCEPT !.goal = goals + 1, !.discovery = "vague",
                                    !.at = "IDEATION"]
<1>1. goals + 1 \in 0 .. MaxGoals /\ goals + 1 # 0 /\ goals' \in 0 .. MaxGoals
  BY Bounds DEF BeginIntake, NewGoal, OwnerInv, Counted
<1>2. st \in States
  BY DEF OwnerInv, SoundAll, Sound
<1>3. /\ s \in States /\ s.goal # 0 /\ s.at = "IDEATION" /\ s.pkg = "in work"
      /\ s.discovery = "vague" /\ s.pending = st.pending
  BY <1>1, <1>2 DEF Unready, States, Stages
<1> HIDE DEF s
<1>4. SoundCall([op |-> "intake", save |-> s])
  BY <1>3 DEF OwnerInv, SoundAll, Sound, SoundCall, Ops, Documented, Waiting
<1>5. smooth => LawfulCall([op |-> "intake", save |-> s])
  BY <1>3 DEF OwnerInv, SmoothAll, LawfulCall, Lawful, Waiting, Ready
<1> QED
  BY <1>1, <1>4, <1>5, WaitStep DEF BeginIntake, s

LEMMA AnswerKept ==
  ASSUME OwnerInv, NEW c \in Calls, BeginAnswer(c)
  PROVE  OwnerInv'
<1>1. Sound(st) /\ (Waiting(st) => package # 0) /\ st.goal # 0
  BY DEF OwnerInv, SoundAll, Sound, BeginAnswer, HasQuestions
<1>2. SoundCall([op |-> "answers", save |-> st])
  BY <1>1 DEF SoundCall, Ops, Sound
<1>3. smooth => LawfulCall([op |-> "answers", save |-> st])
  BY DEF OwnerInv, SmoothAll, LawfulCall
<1> QED
  BY <1>2, <1>3, WaitStep DEF BeginAnswer, OwnerInv, Counted

\* What a discovery makes of a state that no later stage has.
LEMMA FoundSound ==
  ASSUME NEW s, Sound(s), s.goal # 0,
         NEW found \in Findings, NEW at \in Stages \ Documented
  PROVE  Sound([s EXCEPT !.discovery = found, !.at = at])
<1> DEFINE t == [s EXCEPT !.discovery = found, !.at = at]
<1>1. /\ t \in States /\ t.at = at /\ t.discovery = found /\ t.goal = s.goal
      /\ t.pkg = s.pkg /\ t.pending = s.pending
  BY DEF Sound, States, Findings
<1> HIDE DEF t
<1>2. Sound(t)
  BY <1>1 DEF Sound
<1> QED
  BY <1>2 DEF t

LEMMA FoundLawful ==
  ASSUME NEW s, NEW t, Lawful(s), s \in States, t \in States,
         t.pkg = s.pkg, t.pending = s.pending, ~Ready(t)
  PROVE  Lawful(t)
BY DEF Lawful, Waiting

\* The last turn of intakeProject and of answerClarification.
LEMMA FoundKept ==
  ASSUME OwnerInv, NEW c \in Calls, calls[c].op \in {"intake", "answers"}, Reply(c),
         NEW found \in Findings, NEW at \in Stages \ Documented,
         st' = [Kept(c) EXCEPT !.discovery = found, !.at = at],
         UNCHANGED <<package, goals, keys, approved, used, smooth>>
  PROVE  OwnerInv'
<1> DEFINE t == [Kept(c) EXCEPT !.discovery = found, !.at = at]
<1>1. /\ Sound(Kept(c)) /\ Kept(c).goal # 0 /\ Kept(c) \in States
      /\ Waiting(Kept(c)) => package # 0
  BY DEF OwnerInv, SoundAll, SoundCall, Sound, Kept
<1>2. /\ t \in States /\ t.pkg = Kept(c).pkg /\ t.pending = Kept(c).pending
      /\ t.at = at
  BY <1>1 DEF States, Findings
<1>3. Sound(t)
  BY <1>1, FoundSound
<1>4. smooth => Lawful(Kept(c))
  BY DEF OwnerInv, SmoothAll, LawfulCall, Kept
<1>5. ~Ready(t)
  BY <1>2 DEF Ready, Documented
<1> HIDE DEF t
<1>6. smooth => Lawful(t)
  BY <1>1, <1>2, <1>4, <1>5, FoundLawful
<1>7. Waiting(t) => package # 0
  BY <1>1, <1>2 DEF Waiting
<1> QED
  BY <1>3, <1>6, <1>7, SaveStep DEF t, OwnerInv, Counted

LEMMA BlockedKept ==
  ASSUME OwnerInv, NEW c \in Calls, calls[c].op \in {"intake", "answers"}, Reply(c),
         st' = Blocked(Kept(c)),
         UNCHANGED <<package, goals, keys, approved, used, smooth>>
  PROVE  OwnerInv'
<1> DEFINE found == IF HasQuestions(Kept(c)) THEN "open" ELSE "vague"
           at == "INVALID_ARCHITECTURE"
<1>1. Kept(c) \in States
  BY DEF OwnerInv, SoundAll, SoundCall, Sound, Kept
<1>2. st' = [Kept(c) EXCEPT !.discovery = found, !.at = at]
  BY <1>1 DEF States, Blocked
<1>3. found \in Findings /\ at \in Stages \ Documented
  BY DEF Stages, Documented, Findings
<1> HIDE DEF found, at
<1> QED
  BY <1>2, <1>3, FoundKept

LEMMA EndIntakeKept ==
  ASSUME OwnerInv, NEW c \in Calls, EndIntake(c)
  PROVE  OwnerInv'
<1>1. Kept(c) \in States /\ Kept(c).at = "IDEATION"
  BY DEF OwnerInv, SoundAll, SoundCall, Sound, Kept, EndIntake
<1>2. ASSUME NEW found \in Findings,
             LET s == [Kept(c) EXCEPT !.discovery = found]
             IN  st' = [s EXCEPT !.at = IF HasQuestions(s) THEN "DISCOVERY_REQUIRED" ELSE @]
      PROVE  OwnerInv'
  <2> DEFINE s == [Kept(c) EXCEPT !.discovery = found]
             at == IF HasQuestions(s) THEN "DISCOVERY_REQUIRED" ELSE "IDEATION"
  <2>1. st' = [Kept(c) EXCEPT !.discovery = found, !.at = at]
    BY <1>1, <1>2 DEF States
  <2>2. at \in Stages \ Documented
    BY DEF Stages, Documented
  <2> HIDE DEF at
  <2> QED
    BY <2>1, <2>2, FoundKept DEF EndIntake
<1> QED
  BY <1>2, BlockedKept DEF EndIntake

LEMMA EndAnswerKept ==
  ASSUME OwnerInv, NEW c \in Calls, EndAnswer(c)
  PROVE  OwnerInv'
<1>1. Kept(c) \in States
  BY DEF OwnerInv, SoundAll, SoundCall, Sound, Kept, EndAnswer
<1>2. ASSUME NEW found \in Findings,
             LET s == [Kept(c) EXCEPT !.discovery = found]
             IN  st' = [s EXCEPT !.at = IF CalledComplete(s) THEN "IDEATION"
                                                             ELSE "DISCOVERY_REQUIRED"]
      PROVE  OwnerInv'
  <2> DEFINE s == [Kept(c) EXCEPT !.discovery = found]
             at == IF CalledComplete(s) THEN "IDEATION" ELSE "DISCOVERY_REQUIRED"
  <2>1. st' = [Kept(c) EXCEPT !.discovery = found, !.at = at]
    BY <1>1, <1>2 DEF States
  <2>2. at \in Stages \ Documented
    BY DEF Stages, Documented
  <2> HIDE DEF at
  <2> QED
    BY <2>1, <2>2, FoundKept DEF EndAnswer
<1> QED
  BY <1>2, BlockedKept DEF EndAnswer

\* What most handlers make of a state: its requirements stay, and it gets no
\* nearer to a hand-off.
LEMMA Changed ==
  ASSUME NEW s, NEW t, Sound(s), t \in States,
         t.goal = s.goal, t.discovery = s.discovery,
         t.pending = s.pending \/ t.pending = NoPending,
         t.pkg = s.pkg \/ t.pkg = "in work",
         t.at \in Documented => t.discovery = "complete",
         Ready(t) => Ready(s)
  PROVE  Sound(t) /\ (Lawful(s) => Lawful(t)) /\ (Waiting(t) => Waiting(s))
BY DEF Sound, Lawful, Waiting

LEMMA OptionsKept ==
  ASSUME OwnerInv, NEW c \in Calls, BeginOptions(c)
  PROVE  OwnerInv'
<1> PICK reopen \in BOOLEAN :
      Wait(c, "options", [Unready(st) EXCEPT !.accepted = @ /\ ~reopen,
                                             !.at = "OPTION_DECISION"])
  BY DEF BeginOptions
<1> DEFINE s == [Unready(st) EXCEPT !.accepted = @ /\ ~reopen, !.at = "OPTION_DECISION"]
<1>1. Sound(st) /\ st \in States
  BY DEF OwnerInv, SoundAll, Sound
<1>2. /\ s \in States /\ s.goal = st.goal /\ s.discovery = st.discovery
      /\ s.pending = st.pending /\ s.pkg = "in work" /\ s.at = "OPTION_DECISION"
  BY <1>1 DEF Unready, States, Stages
<1> HIDE DEF s
<1>3. Sound(s) /\ (Lawful(st) => Lawful(s)) /\ ~Waiting(s)
  BY <1>1, <1>2, Changed DEF Ready, Documented, Waiting
<1>4. SoundCall([op |-> "options", save |-> s])
  BY <1>2, <1>3 DEF SoundCall, Ops
<1>5. smooth => LawfulCall([op |-> "options", save |-> s])
  BY <1>3 DEF OwnerInv, SmoothAll, LawfulCall
<1> QED
  BY <1>4, <1>5, WaitStep DEF BeginOptions, s, OwnerInv, Counted

\* The last turn of a call that saves what it has kept.
LEMMA KeptSaved ==
  ASSUME OwnerInv, NEW c \in Calls, calls[c].op \notin {"idle", "handoff"},
         Reply(c), st' = Kept(c), smooth' \in BOOLEAN, smooth' => smooth,
         UNCHANGED <<package, goals, keys, approved, used>>
  PROVE  OwnerInv'
<1>1. Sound(Kept(c)) /\ (Waiting(Kept(c)) => package # 0)
  BY DEF OwnerInv, SoundAll, SoundCall, Kept
<1>2. smooth => Lawful(Kept(c))
  BY DEF OwnerInv, SmoothAll, LawfulCall, Kept
<1> QED
  BY <1>1, <1>2, SaveStep DEF OwnerInv, Counted

\* The last turn of a call that leaves the state as it is by now.
LEMMA NothingSaved ==
  ASSUME OwnerInv, NEW c \in Calls, calls[c].op # "idle",
         Reply(c), st' = st, smooth' \in BOOLEAN, smooth' => smooth,
         UNCHANGED <<package, goals, keys, approved, used>>
  PROVE  OwnerInv'
<1>1. Sound(st) /\ (Waiting(st) => package # 0) /\ (smooth => Lawful(st))
  BY DEF OwnerInv, SoundAll, SmoothAll
<1> QED
  BY <1>1, SaveStep DEF OwnerInv, Counted

LEMMA DecideOptionKept ==
  ASSUME OwnerInv, DecideOption
  PROVE  OwnerInv'
<1> DEFINE s == [st EXCEPT !.at = "DOCUMENTATION", !.docs = "in work", !.accepted = TRUE]
<1>1. Sound(st) /\ st \in States
  BY DEF OwnerInv, SoundAll, Sound
<1>2. /\ s \in States /\ s.goal = st.goal /\ s.discovery = st.discovery
      /\ s.pending = st.pending /\ s.pkg = st.pkg /\ s.at = "DOCUMENTATION"
  BY <1>1 DEF States, Stages
<1> HIDE DEF s
<1>3. Sound(s) /\ (Lawful(st) => Lawful(s)) /\ (Waiting(s) => Waiting(st))
  BY <1>1, <1>2, Changed DEF Ready, Documented
<1> QED
  BY <1>3, AtOnceStep DEF DecideOption, s, OwnerInv, Counted, SoundAll, SmoothAll

-----------------------------------------------------------------------------
(* Documentation *)

\* A new key is one that nothing has used.
LEMMA AskedSound ==
  ASSUME OwnerInv, NewKey, smooth' \in BOOLEAN, UNCHANGED <<package, goals, approved, used>>,
         NEW s, Sound(s), NEW operation \in {"draft", "handoff", "transition"},
         st' = Asking(s, operation)
  PROVE  Growth /\ Sound(st)' /\ (Waiting(st)' => Waiting(s)) /\ (Lawful(s) => Lawful(st)')
<1>1. keys \in Nat /\ keys' = keys + 1 /\ keys + 1 \in 0 .. MaxKeys /\ keys <= keys + 1
      /\ goals \in 0 .. MaxGoals /\ used \subseteq 0 .. keys
  BY Bounds DEF NewKey, OwnerInv, Counted
<1>2. keys + 1 \notin used /\ used \subseteq 0 .. (keys + 1)
  BY <1>1
<1>3. Growth
  BY <1>1, <1>2 DEF Growth
<1>4. s \in States
  BY DEF Sound
<1>5. /\ st' \in States /\ st'.goal = s.goal /\ st'.discovery = s.discovery
      /\ st'.pending.key = keys + 1 /\ st'.pkg = s.pkg /\ st'.at = s.at
      /\ st'.docs = s.docs
  BY <1>1, <1>4 DEF Asking, States
<1>6. Sound(st)'
  <2>1. keys + 1 <= keys + 1
    BY <1>1
  <2>2. st'.pending.key <= keys'
    BY <1>1, <1>5, <2>1, Zenon
  <2> QED
    BY <1>5, <2>2 DEF Sound
<1>7. (Waiting(st)' => Waiting(s)) /\ (Lawful(s) => Lawful(st)')
  BY <1>2, <1>5 DEF Lawful, Ready, Waiting
<1> QED
  BY <1>3, <1>6, <1>7

\* saveDocumentationDraft and createExecutionHandoff ask first.
LEMMA AskKept ==
  ASSUME OwnerInv, NEW operation \in {"draft", "handoff"}, AtOnce, NewKey,
         st' = Asking(st, operation), UNCHANGED <<package, goals, approved, used>>
  PROVE  OwnerInv'
<1>1. Sound(st) /\ (Waiting(st) => package # 0) /\ (smooth => Lawful(st))
  BY DEF OwnerInv, SoundAll, SmoothAll
<1>2. smooth' \in BOOLEAN /\ (smooth' => smooth)
  BY DEF AtOnce, OwnerInv, Counted
<1>3. Growth /\ Sound(st)' /\ (Waiting(st)' => Waiting(st)) /\ (Lawful(st) => Lawful(st)')
  BY <1>1, <1>2, AskedSound
<1> QED
  BY <1>1, <1>2, <1>3, LoneStep DEF AtOnce

LEMMA GiveDraftKept ==
  ASSUME OwnerInv, GiveDraft
  PROVE  OwnerInv'
<1> DEFINE s == Drafted(st)
<1>1. Sound(st) /\ st \in States /\ st.discovery = "complete"
  BY DEF OwnerInv, SoundAll, Sound, GiveDraft, DiscoveryComplete, CalledComplete,
         HasQuestions
<1>2. /\ s \in States /\ s.goal = st.goal /\ s.discovery = st.discovery
      /\ s.pending = st.pending /\ s.pkg = st.pkg /\ s.at = "DOCUMENTATION_REVIEW"
  BY <1>1 DEF Drafted, States, Stages
<1> HIDE DEF s
<1>3. Sound(s) /\ (Lawful(st) => Lawful(s)) /\ (Waiting(s) => Waiting(st))
  BY <1>1, <1>2, Changed DEF Ready, Documented
<1> QED
  BY <1>3, AtOnceStep DEF GiveDraft, s, OwnerInv, Counted, SoundAll, SmoothAll

LEMMA EndDraftKept ==
  ASSUME OwnerInv, NEW c \in Calls, EndDraft(c)
  PROVE  OwnerInv'
<1> PICK saved \in BOOLEAN :
      /\ st' = IF saved THEN Kept(c) ELSE st
      /\ smooth' = (smooth /\ saved)
  BY DEF EndDraft
<1>1. /\ calls[c].op = "draft" /\ Reply(c)
      /\ UNCHANGED <<package, goals, keys, approved, used>>
  BY DEF EndDraft
<1>2. smooth' \in BOOLEAN /\ (smooth' => smooth)
  BY DEF OwnerInv, Counted
<1>3. CASE saved
  BY <1>1, <1>2, <1>3, KeptSaved
<1>4. CASE ~saved
  BY <1>1, <1>2, <1>4, NothingSaved
<1> QED
  BY <1>3, <1>4

LEMMA ApproveKept ==
  ASSUME OwnerInv, ApproveDocumentation
  PROVE  OwnerInv'
<1>1. Sound(st) /\ st \in States /\ st.discovery = "complete"
  BY DEF OwnerInv, SoundAll, Sound, ApproveDocumentation, DiscoveryComplete,
         CalledComplete, HasQuestions
<1>2. /\ st' \in States /\ st'.goal = st.goal /\ st'.discovery = st.discovery
      /\ st'.pending = st.pending /\ st'.pkg = "READY_FOR_HANDOFF"
      /\ st'.at = "EXECUTION_HANDOFF_READY"
  BY <1>1 DEF ApproveDocumentation, States, Stages
<1>3. approved' = approved \cup {st.goal} /\ UNCHANGED <<package, goals, keys, used>>
      /\ AtOnce
  BY DEF ApproveDocumentation
<1>4. Growth
  BY <1>3, Bounds DEF OwnerInv, Counted, Growth, AtOnce
<1>5. Sound(st)' /\ ~Waiting(st)'
  BY <1>1, <1>2, <1>3 DEF Sound, Waiting
<1>6. smooth' => Lawful(st)'
  BY <1>2, <1>3 DEF OwnerInv, SmoothAll, Lawful, Waiting, AtOnce
<1> QED
  BY <1>3, <1>4, <1>5, <1>6, LoneStep DEF AtOnce

\* A call that keeps nothing it will save, but perhaps a goal.
LEMMA DefaultCall ==
  ASSUME OwnerInv, NEW op \in {"doc loop", "expand"},
         op = "expand" => ~Ready(st)
  PROVE  /\ SoundCall([op |-> op, save |-> DefaultState])
         /\ LawfulCall([op |-> op, save |-> DefaultState])
<1>1. /\ DefaultState.at = "DISCUSSION" /\ DefaultState.discovery = "vague"
      /\ DefaultState.pkg = "in work" /\ DefaultState.goal = 0
  BY DEF DefaultState
<1> QED
  BY <1>1, DefaultTyped
     DEF SoundCall, Sound, Documented, LawfulCall, Lawful, Waiting, Ready, Ops

LEMMA DocLoopKept ==
  ASSUME OwnerInv, NEW c \in Calls, BeginDocLoop(c)
  PROVE  OwnerInv'
BY DefaultCall, WaitStep DEF BeginDocLoop, OwnerInv, Counted

LEMMA EndDocLoopKept ==
  ASSUME OwnerInv, NEW c \in Calls, EndDocLoop(c)
  PROVE  OwnerInv'
BY NothingSaved DEF EndDocLoop, OwnerInv, Counted

\* attemptSelfCorrection
LEMMA CorrectedFine ==
  ASSUME OwnerInv
  PROVE  /\ Sound(Corrected(st)) /\ (Waiting(Corrected(st)) => package # 0)
         /\ smooth => Lawful(Corrected(st))
<1> DEFINE s == Corrected(st)
<1>1. Sound(st) /\ st \in States
  BY DEF OwnerInv, SoundAll, Sound
<1>2. /\ s \in States /\ s.goal = st.goal /\ s.discovery = st.discovery
      /\ s.pending = st.pending /\ s.pkg = st.pkg /\ s.at = st.at
      /\ s.docs = "DRAFT_READY"
  BY <1>1 DEF Corrected, States
<1> HIDE DEF s
<1>3. Sound(s) /\ (Lawful(st) => Lawful(s)) /\ (Waiting(s) => Waiting(st))
  <2>1. s.at \in Documented => s.discovery = "complete"
    BY <1>1, <1>2 DEF Sound
  <2> QED
    BY <1>1, <1>2, <2>1, Changed DEF Ready
<1> QED
  BY <1>3 DEF s, OwnerInv, SoundAll, SmoothAll

LEMMA CorrectKept ==
  ASSUME OwnerInv, CorrectAtOnce
  PROVE  OwnerInv'
BY CorrectedFine, AtOnceStep DEF CorrectAtOnce, OwnerInv, Counted

LEMMA VerifyKept ==
  ASSUME OwnerInv, NEW c \in Calls, BeginVerify(c)
  PROVE  OwnerInv'
<1>1. SoundCall([op |-> "verify", save |-> Corrected(st)])
  <2>1. Corrected(st) \in States
    BY CorrectedFine DEF Sound
  <2> QED
    BY <2>1, CorrectedFine DEF SoundCall, Ops
<1>2. smooth => LawfulCall([op |-> "verify", save |-> Corrected(st)])
  BY CorrectedFine DEF LawfulCall
<1> QED
  BY <1>1, <1>2, WaitStep DEF BeginVerify, OwnerInv, Counted

-----------------------------------------------------------------------------
(* Confirmations and the hand-off *)

LEMMA AnsweredFine ==
  ASSUME OwnerInv
  PROVE  /\ Answered(st) \in States /\ Answered(st).pending = NoPending
         /\ Answered(st).at = st.at /\ Answered(st).docs = st.docs
         /\ Answered(st).pkg = st.pkg /\ Answered(st).goal = st.goal
         /\ Answered(st).discovery = st.discovery
         /\ Sound(Answered(st)) /\ (Lawful(st) => Lawful(Answered(st)))
<1> DEFINE s == Answered(st)
<1>1. Sound(st) /\ st \in States
  BY DEF OwnerInv, SoundAll, Sound
<1>2. /\ s \in States /\ s.goal = st.goal /\ s.discovery = st.discovery
      /\ s.pending = NoPending /\ s.pkg = st.pkg /\ s.at = st.at /\ s.docs = st.docs
  BY <1>1, DefaultTyped DEF Answered, States, DefaultState
<1> HIDE DEF s
<1>3. s.at \in Documented => s.discovery = "complete"
  BY <1>1, <1>2 DEF Sound
<1>4. Sound(s) /\ (Lawful(st) => Lawful(s))
  BY <1>1, <1>2, <1>3, Changed DEF Ready
<1> QED
  BY <1>2, <1>4 DEF s

LEMMA ExpireKept ==
  ASSUME OwnerInv, ExpirePending
  PROVE  OwnerInv'
<1>1. Waiting(Answered(st)) => package # 0
  BY AnsweredFine DEF Waiting, OwnerInv, SoundAll
<1> QED
  BY <1>1, AnsweredFine, AtOnceStep DEF ExpirePending, OwnerInv, Counted, SmoothAll

\* A confirmation on file has a key that has been generated.
LEMMA UsedGrows ==
  ASSUME OwnerInv, st.pending # NoPending, used' = used \cup {st.pending.key},
         smooth' \in BOOLEAN, UNCHANGED <<package, goals, keys, approved>>
  PROVE  Growth
<1>1. st.pending.key \in 0 .. MaxKeys /\ st.pending.key <= keys
  BY DEF OwnerInv, SoundAll, Sound, States
<1>2. keys \in Nat
  BY Bounds DEF OwnerInv, Counted
<1>3. st.pending.key \in Nat
  BY <1>1, Bounds
<1>4. st.pending.key \in 0 .. keys /\ keys <= keys
  BY <1>1, <1>2, <1>3
<1> QED
  BY <1>4 DEF Growth, OwnerInv, Counted

\* The confirmed operation waits for its provider.
LEMMA RanFine ==
  ASSUME OwnerInv, NEW operation, MayRun(operation, Answered(st)),
         NEW k, k = [op |-> operation, save |-> Ran(operation, Answered(st))]
  PROVE  /\ SoundCall(k)
         /\ smooth => LawfulCall(k)
         /\ k.save.pending = NoPending /\ k.op \in {"draft", "handoff"}
<1> DEFINE a == Answered(st)
           s == Ran(operation, a)
<1>1. /\ a \in States /\ a.pending = NoPending /\ Sound(a)
      /\ Waiting(a) => package # 0
      /\ smooth => Lawful(a)
  BY AnsweredFine DEF OwnerInv, SoundAll, SmoothAll, Waiting
<1>2. operation \in {"draft", "handoff"} /\ a.discovery = "complete"
  <2> HIDE DEF a
  <2>1. MayRun(operation, a)
    BY DEF a
  <2> QED
    BY <1>1, <2>1 DEF MayRun, HandoffReady, DiscoveryComplete, CalledComplete,
                      HasQuestions, States
<1>3. operation = "handoff" => Ready(a)
  BY DEF MayRun, HandoffReady, Ready
<1>4. /\ s \in States /\ s.goal = a.goal /\ s.discovery = a.discovery
      /\ s.pending = NoPending
      /\ operation = "draft" => s.pkg = a.pkg /\ s.at = "DOCUMENTATION_REVIEW"
      /\ operation = "handoff" => s.at = "EXECUTION_HANDOFF_CREATED"
  <2> HIDE DEF a
  <2> QED
    BY <1>1, <1>2 DEF Ran, Drafted, States, Stages
<1>5. k.op = operation /\ k.save = s /\ k \in [op : Ops, save : States]
  <2> HIDE DEF a, s
  <2> QED
    BY <1>2, <1>4 DEF Ops, a, s
<1> HIDE DEF a, s
<1>6. SoundCall(k)
  <2>1. s.pkg # "in work" => approved # {}
    BY <1>1, <1>2, <1>3, <1>4 DEF Sound, Ready
  <2>2. Sound(s)
    BY <1>1, <1>2, <1>4, <2>1 DEF Sound
  <2>3. operation = "draft" /\ Waiting(s) => package # 0
    BY <1>1, <1>4 DEF Waiting
  <2>4. s.goal # 0
    BY <1>1, <1>2, <1>4 DEF Sound
  <2> QED
    BY <2>2, <2>3, <2>4, <1>2, <1>4, <1>5 DEF SoundCall
<1>7. smooth => LawfulCall(k)
  BY <1>1, <1>2, <1>3, <1>4, <1>5 DEF LawfulCall, Lawful, Waiting, Ready
<1> QED
  BY <1>2, <1>4, <1>5, <1>6, <1>7

LEMMA ConfirmPendingKept ==
  ASSUME OwnerInv, NEW c \in Calls, ConfirmPending(c)
  PROVE  OwnerInv'
<1>1. /\ st.pending # NoPending /\ st' = Answered(st)
      /\ used' = used \cup {st.pending.key}
      /\ UNCHANGED <<draft, package, goals, keys, approved>>
  BY DEF ConfirmPending
<1>2. Sound(Answered(st)) /\ (Waiting(Answered(st)) => package # 0)
      /\ (smooth => Lawful(Answered(st))) /\ Answered(st).pending = NoPending
  BY AnsweredFine DEF OwnerInv, SoundAll, SmoothAll, Waiting
<1>3. smooth' \in BOOLEAN => Growth
  BY <1>1, UsedGrows
<1>4. Sound(st)' /\ (Waiting(st)' => package' # 0) /\ (smooth => Lawful(st)')
  BY <1>1, <1>2 DEF Sound, Waiting, Lawful, Ready
<1>5. CASE MayRun(st.pending.operation, Answered(st))
  <2> DEFINE operation == st.pending.operation
  <2>1. PICK k : k = [op |-> operation, save |-> Ran(operation, Answered(st))]
    OBVIOUS
  <2>2. /\ SoundCall(k) /\ (smooth => LawfulCall(k))
        /\ k.save.pending = NoPending /\ k.op \in {"draft", "handoff"}
    BY <1>5, <2>1, RanFine
  <2>3. /\ calls' = [calls EXCEPT ![c] = k]
        /\ smooth' = (smooth /\ \A d \in Calls \ {c} : calls[d] = Idle)
    BY <1>1, <1>5, <2>1 DEF ConfirmPending, Wait
  <2>4. Growth
    BY <1>3, <2>3
  <2>5. SoundCall(k)'
    BY <2>2, <2>4, SoundCallKept DEF OwnerInv
  <2>6. smooth => LawfulCall(k)'
    BY <1>1, <2>2 DEF LawfulCall, Lawful, Waiting, Ready
  <2> QED
    BY <1>4, <2>3, <2>4, <2>5, <2>6, TurnStep
<1>6. CASE ~MayRun(st.pending.operation, Answered(st))
  <2>1. AtOnce
    BY <1>1, <1>6 DEF ConfirmPending
  <2> QED
    BY <1>3, <1>4, <2>1, LoneStep DEF AtOnce
<1> QED
  BY <1>5, <1>6

LEMMA HandoffKept ==
  ASSUME OwnerInv, NEW c \in Calls, EndHandoff(c)
  PROVE  OwnerInv'
<1> PICK saved \in BOOLEAN :
      /\ st' = IF saved THEN Kept(c) ELSE st
      /\ smooth' = (smooth /\ saved)
  BY DEF EndHandoff
<1>1. /\ calls[c].op = "handoff" /\ Reply(c) /\ package' = Kept(c).goal
      /\ UNCHANGED <<draft, goals, keys, approved, used>>
  BY DEF EndHandoff
<1>2. /\ Sound(st) /\ Sound(Kept(c)) /\ package' # 0
      /\ Kept(c).at = "EXECUTION_HANDOFF_CREATED" /\ Kept(c).pending = NoPending
      /\ smooth => Kept(c).goal \in approved
  BY <1>1 DEF OwnerInv, SoundAll, SmoothAll, SoundCall, LawfulCall, Kept
<1>3. Growth
  BY <1>1, <1>2, Bounds DEF OwnerInv, Counted, Growth
<1>4. Sound(st)' /\ (smooth' => Lawful(st)')
  BY <1>1, <1>2 DEF Sound, Lawful, Waiting, Ready
<1>5. smooth => \A d \in Calls \ {c} : calls[d] = Idle
  BY <1>1 DEF OwnerInv, SmoothAll, OneCall, Idle
<1>6. SoundCall(Idle)' /\ LawfulCall(Idle)'
  BY <1>1, <1>3, IdleIsFine, Bounds DEF OwnerInv, Counted, Growth, Reply, SoundCall
<1> QED
  BY <1>1, <1>2, <1>3, <1>4, <1>5, <1>6, TurnStep DEF Reply

-----------------------------------------------------------------------------
(* The chat *)

LEMMA ExpandKept ==
  ASSUME OwnerInv, NEW c \in Calls, BeginExpand(c)
  PROVE  OwnerInv'
<1>1. Wait(c, "expand", DefaultState) /\ UNCHANGED <<draft, package, keys, approved, used>>
  BY DEF BeginExpand
<1>2. CASE st.at = "IDEATION" /\ UNCHANGED <<st, goals>>
  <2>1. ~Ready(st)
    BY <1>2 DEF Ready
  <2> QED
    BY <1>1, <1>2, <2>1, DefaultCall, WaitStep DEF OwnerInv, Counted
<1>3. CASE /\ st.at = "DISCUSSION"
           /\ IF st.goal = 0 THEN NewGoal ELSE UNCHANGED goals
           /\ st' = [st EXCEPT !.at = "IDEATION", !.goal = IF @ = 0 THEN goals' ELSE @]
  <2>1. st \in States /\ Sound(st) /\ (Waiting(st) => package # 0)
        /\ (smooth => Lawful(st))
    BY DEF OwnerInv, SoundAll, SmoothAll, Sound
  <2>2. goals' \in 0 .. MaxGoals /\ (st.goal = 0 => goals' # 0)
    BY <1>3, Bounds DEF NewGoal, OwnerInv, Counted
  <2>3. /\ st' \in States /\ st'.at = "IDEATION" /\ st'.goal # 0
        /\ st'.discovery = st.discovery /\ st'.pkg = st.pkg /\ st'.pending = st.pending
    BY <1>3, <2>1, <2>2 DEF States, Stages
  <2>4. Growth
    BY <1>1, <2>2, Bounds DEF OwnerInv, Counted, Growth, Wait
  <2>5. Sound(st)' /\ (Waiting(st)' => package' # 0)
    BY <1>1, <2>1, <2>3 DEF Sound, Waiting, Documented
  <2>6. ~Ready(st)' /\ (smooth => Lawful(st)')
    BY <1>1, <2>1, <2>3 DEF Lawful, Waiting, Ready
  <2>7. PICK k : k = [op |-> "expand", save |-> DefaultState]
    OBVIOUS
  <2>8. ~Ready(st)
    BY <1>3 DEF Ready
  <2>9. SoundCall(k) /\ k.op = "expand" /\ k.save = DefaultState
    BY <2>7, <2>8, DefaultCall
  <2>10. SoundCall(k)'
    BY <2>4, <2>9, SoundCallKept DEF OwnerInv
  <2>11. LawfulCall(k)'
    <3>1. DefaultState.pkg = "in work"
      BY DEF DefaultState
    <3>2. k.save.pkg = "in work" /\ k.save.pending = NoPending
      BY <2>9, <3>1, DefaultTyped
    <3> QED
      BY <2>6, <2>9, <3>2 DEF LawfulCall, Lawful, Waiting, Ready
  <2> QED
    BY <1>1, <2>4, <2>5, <2>6, <2>7, <2>10, <2>11, TurnStep DEF Wait
<1> QED
  BY <1>2, <1>3 DEF BeginExpand

LEMMA PivotKept ==
  ASSUME OwnerInv, NEW c \in Calls, Pivot(c)
  PROVE  OwnerInv'
<1>1. /\ calls[c].op = "expand" /\ NewGoal /\ st' = [st EXCEPT !.goal = goals']
      /\ calls' = [calls EXCEPT ![c].op = "expanded"]
      /\ UNCHANGED <<draft, package, keys, approved, used, smooth>>
  BY DEF Pivot
<1>2. /\ st \in States /\ Sound(st) /\ (Waiting(st) => package # 0)
      /\ calls[c] \in [op : Ops, save : States] /\ SoundCall(calls[c])
      /\ smooth => Lawful(st) /\ ~Ready(st) /\ Lawful(calls[c].save)
  BY <1>1 DEF OwnerInv, SoundAll, SmoothAll, Sound, Counted, LawfulCall
<1>3. goals' \in 0 .. MaxGoals /\ goals' # 0
  BY <1>1, Bounds DEF NewGoal, OwnerInv, Counted
<1>4. Growth
  BY <1>1, <1>3, Bounds DEF OwnerInv, Counted, Growth
<1>5. /\ st' \in States /\ st'.at = st.at /\ st'.goal # 0 /\ st'.docs = st.docs
      /\ st'.discovery = st.discovery /\ st'.pkg = st.pkg /\ st'.pending = st.pending
  BY <1>1, <1>2, <1>3 DEF States
<1>6. Sound(st)' /\ (Waiting(st)' => package' # 0)
  BY <1>1, <1>2, <1>5 DEF Sound, Waiting
<1>7. smooth => ~Ready(st)' /\ Lawful(st)'
  BY <1>1, <1>2, <1>5 DEF Lawful, Waiting, Ready
<1>8. PICK k : k = [op |-> "expanded", save |-> calls[c].save]
  OBVIOUS
<1>9. calls' = [calls EXCEPT ![c] = k]
  <2>1. k = [calls[c] EXCEPT !.op = "expanded"]
    BY <1>2, <1>8
  <2> QED
    BY <1>1, <2>1 DEF OwnerInv, Counted
<1>10. SoundCall(k)
  BY <1>1, <1>2, <1>8 DEF SoundCall, Ops
<1>11. SoundCall(k)'
  BY <1>4, <1>10, SoundCallKept DEF OwnerInv
<1>12. smooth => LawfulCall(k)'
  BY <1>1, <1>2, <1>7, <1>8 DEF LawfulCall, Lawful, Waiting, Ready
<1>13. smooth => \A d \in Calls \ {c} : calls[d] = Idle
  BY <1>1 DEF OwnerInv, SmoothAll, OneCall, Idle
<1> QED
  BY <1>1, <1>4, <1>6, <1>7, <1>9, <1>11, <1>12, <1>13, TurnStep

LEMMA CheckpointKept ==
  ASSUME OwnerInv, NEW c \in Calls, BeginCheckpoint(c)
  PROVE  OwnerInv'
<1>1. /\ calls[c].op # "idle"
      /\ calls' = [calls EXCEPT ![c] = [op |-> "checkpoint", save |-> Answered(st)]]
      /\ UNCHANGED <<st, draft, package, goals, keys, approved, used, smooth>>
  BY DEF BeginCheckpoint
<1>2. PICK k : k = [op |-> "checkpoint", save |-> Answered(st)]
  OBVIOUS
<1>3. SoundCall(k) /\ (smooth => LawfulCall(k))
  <2>1. Waiting(Answered(st)) => package # 0
    BY AnsweredFine DEF Waiting, OwnerInv, SoundAll
  <2>2. smooth => Lawful(Answered(st))
    BY AnsweredFine DEF OwnerInv, SmoothAll
  <2>3. k.op = "checkpoint" /\ k.save = Answered(st) /\ k \in [op : Ops, save : States]
    BY <1>2, AnsweredFine DEF Ops
  <2> QED
    BY <2>1, <2>2, <2>3, AnsweredFine DEF SoundCall, LawfulCall
<1>4. Growth
  BY <1>1, Bounds DEF OwnerInv, Counted, Growth
<1>5. SoundCall(k)'
  BY <1>3, <1>4, SoundCallKept DEF OwnerInv
<1>6. Sound(st)' /\ (Waiting(st)' => package' # 0)
  BY <1>1 DEF OwnerInv, SoundAll, Sound, Waiting
<1>7. smooth => Lawful(st)' /\ LawfulCall(k)'
  BY <1>1, <1>3 DEF OwnerInv, SmoothAll, Lawful, LawfulCall, Waiting, Ready
<1>8. smooth => \A d \in Calls \ {c} : calls[d] = Idle
  BY <1>1 DEF OwnerInv, SmoothAll, OneCall, Idle
<1> QED
  BY <1>1, <1>2, <1>4, <1>5, <1>6, <1>7, <1>8, TurnStep

LEMMA EndCheckpointKept ==
  ASSUME OwnerInv, NEW c \in Calls, EndCheckpoint(c)
  PROVE  OwnerInv'
<1>1. /\ calls[c].op = "checkpoint" /\ NewKey /\ Reply(c)
      /\ st' = Asking(Kept(c), "transition")
      /\ UNCHANGED <<draft, package, goals, approved, used, smooth>>
  BY DEF EndCheckpoint
<1>2. /\ Sound(Kept(c)) /\ (Waiting(Kept(c)) => package # 0)
      /\ smooth => Lawful(Kept(c))
  BY <1>1 DEF OwnerInv, SoundAll, SmoothAll, SoundCall, LawfulCall, Kept
<1>3. smooth' \in BOOLEAN
  BY <1>1 DEF OwnerInv, Counted
<1>4. Growth /\ Sound(st)' /\ (Waiting(st)' => Waiting(Kept(c)))
      /\ (Lawful(Kept(c)) => Lawful(st)')
  BY <1>1, <1>2, <1>3, AskedSound
<1>5. smooth => \A d \in Calls \ {c} : calls[d] = Idle
  BY <1>1 DEF OwnerInv, SmoothAll, OneCall, Idle
<1>6. SoundCall(Idle)' /\ LawfulCall(Idle)'
  BY <1>1, <1>4, IdleIsFine, Bounds DEF OwnerInv, Counted, Growth, Reply, SoundCall
<1> QED
  BY <1>1, <1>2, <1>4, <1>5, <1>6, TurnStep DEF Reply

\* A state that may be on file may be kept by a call that waits.
LEMMA SummaryKept ==
  ASSUME OwnerInv, NEW c \in Calls, BeginSummary(c) \/ BeginChat(c)
  PROVE  OwnerInv'
<1>1. PICK op \in {"summary", "chat"} :
        /\ Wait(c, op, st) /\ UNCHANGED <<st, package, goals, keys, approved, used>>
        /\ op = "chat" => st.pending # NoPending
  BY DEF BeginSummary, BeginChat
<1>2. Sound(st) /\ (Waiting(st) => package # 0) /\ (smooth => Lawful(st))
  BY DEF OwnerInv, SoundAll, SmoothAll
<1>3. SoundCall([op |-> op, save |-> st])
  BY <1>1, <1>2 DEF SoundCall, Ops, Sound
<1>4. smooth => LawfulCall([op |-> op, save |-> st])
  BY <1>2 DEF LawfulCall
<1> QED
  BY <1>1, <1>3, <1>4, WaitStep DEF OwnerInv, Counted

\* A new goal for a project that is nowhere near a hand-off.
LEMMA NewGoalFine ==
  ASSUME OwnerInv, NEW s, s \in States, s.goal # 0, s.discovery = st.discovery, s.pending = st.pending,
         s.pkg = st.pkg \/ s.pkg = "in work", s.at \notin Documented
  PROVE  Sound(s) /\ (Waiting(s) => package # 0) /\ (smooth => Lawful(s))
<1>1. Sound(s)
  BY DEF OwnerInv, SoundAll, Sound
<1> QED
  BY <1>1 DEF OwnerInv, SoundAll, SmoothAll, Lawful, Waiting, Ready, Documented

LEMMA AffirmKept ==
  ASSUME OwnerInv, AffirmIdea
  PROVE  OwnerInv'
<1>1. goals' \in 0 .. MaxGoals /\ goals' # 0
  BY Bounds DEF AffirmIdea, NewGoal, OwnerInv, Counted
<1>2. PICK s : s = [st EXCEPT !.at = "IDEATION", !.goal = goals']
  OBVIOUS
<1>3. st' = s /\ AtOnce /\ UNCHANGED <<package, keys, approved, used>>
  BY <1>2 DEF AffirmIdea
<1>4. st \in States
  BY DEF OwnerInv, SoundAll, Sound
<1>5. /\ s \in States /\ s.goal = goals' /\ s.discovery = st.discovery
      /\ s.pending = st.pending /\ s.pkg = st.pkg /\ s.at = "IDEATION"
  BY <1>1, <1>2, <1>4 DEF States, Stages
<1>6. Sound(s) /\ (Waiting(s) => package # 0) /\ (smooth => Lawful(s))
  BY <1>1, <1>5, NewGoalFine DEF Documented
<1> QED
  BY <1>1, <1>3, <1>6, AtOnceStep

LEMMA ConfirmTransitionKept ==
  ASSUME OwnerInv, NEW c \in Calls, ConfirmTransition(c)
  PROVE  OwnerInv'
<1> DEFINE at == IF st.pending.operation = "transition"
                 THEN "OPTION_DECISION" ELSE "DISCUSSION"
<1>1. /\ calls[c].op = "chat" /\ st.pending = Kept(c).pending /\ Reply(c)
      /\ st' = [Answered(st) EXCEPT !.at = at]
      /\ used' = used \cup {st.pending.key}
      /\ UNCHANGED <<draft, package, goals, keys, approved, smooth>>
  BY DEF ConfirmTransition
<1>2. at \in Stages \ Documented
  BY DEF Stages, Documented
<1> HIDE DEF at
<1>3. st.pending # NoPending
  BY <1>1 DEF OwnerInv, SoundAll, SoundCall, Kept
<1>4. Growth
  BY <1>1, <1>3, UsedGrows DEF OwnerInv, Counted
<1>5. /\ Sound(Answered(st)) /\ (Waiting(Answered(st)) => package # 0)
      /\ smooth => Lawful(Answered(st))
  BY AnsweredFine DEF OwnerInv, SoundAll, SmoothAll, Waiting
<1>6. /\ st' \in States /\ st'.at = at /\ st'.pending = NoPending
      /\ st'.goal = Answered(st).goal /\ st'.discovery = Answered(st).discovery
      /\ st'.pkg = Answered(st).pkg
  BY <1>1, <1>2, AnsweredFine DEF States
<1>7. Sound(st)' /\ (Waiting(st)' => package' # 0)
  BY <1>1, <1>2, <1>5, <1>6 DEF Sound, Waiting
<1>8. smooth => Lawful(st)'
  BY <1>1, <1>2, <1>5, <1>6 DEF Lawful, Waiting, Ready, Documented
<1>9. smooth => \A d \in Calls \ {c} : calls[d] = Idle
  BY <1>1 DEF OwnerInv, SmoothAll, OneCall, Idle
<1>10. SoundCall(Idle)' /\ LawfulCall(Idle)'
  BY <1>1, <1>4, IdleIsFine, Bounds DEF OwnerInv, Counted, Growth, Reply, SoundCall
<1> QED
  BY <1>1, <1>4, <1>7, <1>8, <1>9, <1>10, TurnStep DEF Reply

LEMMA CancelKept ==
  ASSUME OwnerInv, NEW c \in Calls, CancelPending(c)
  PROVE  OwnerInv'
<1>1. PICK s : s = Kept(c)
  OBVIOUS
<1>2. PICK t : t = Answered(s)
  OBVIOUS
<1>3. /\ calls[c].op = "chat" /\ Reply(c) /\ st' = t
      /\ UNCHANGED <<draft, package, goals, keys, approved, used, smooth>>
  BY <1>1, <1>2 DEF CancelPending
<1>4. Sound(s) /\ s \in States /\ (Waiting(s) => package # 0) /\ (smooth => Lawful(s))
  BY <1>1, <1>3 DEF OwnerInv, SoundAll, SmoothAll, SoundCall, LawfulCall, Kept, Sound
<1>5. /\ t \in States /\ t.goal = s.goal /\ t.discovery = s.discovery
      /\ t.pending = NoPending /\ t.pkg = s.pkg /\ t.at = s.at /\ t.docs = s.docs
  BY <1>2, <1>4, DefaultTyped DEF Answered, States
<1>6. t.at \in Documented => t.discovery = "complete"
  BY <1>4, <1>5 DEF Sound
<1>7. Sound(t) /\ (Lawful(s) => Lawful(t)) /\ (Waiting(t) => Waiting(s))
  BY <1>4, <1>5, <1>6, Changed DEF Ready
<1> QED
  BY <1>3, <1>4, <1>7, SaveStep DEF OwnerInv, Counted

-----------------------------------------------------------------------------
(* The workspace *)

LEMMA ProposeKept ==
  ASSUME OwnerInv, NEW c \in Calls, BeginPropose(c)
  PROVE  OwnerInv'
<1>1. PICK save : save = [DefaultState EXCEPT !.goal = goals + 1]
  OBVIOUS
<1>2. /\ NewGoal /\ Wait(c, "propose", save)
      /\ UNCHANGED <<st, draft, package, keys, approved, used>>
  BY <1>1 DEF BeginPropose
<1>3. goals + 1 \in 0 .. MaxGoals /\ goals + 1 # 0 /\ goals' \in 0 .. MaxGoals
  BY <1>2, Bounds DEF NewGoal, OwnerInv, Counted
<1>4. /\ DefaultState.at = "DISCUSSION" /\ DefaultState.discovery = "vague"
      /\ DefaultState.pkg = "in work"
  BY DEF DefaultState
<1>5. /\ save \in States /\ save.goal # 0 /\ save.at = "DISCUSSION"
      /\ save.discovery = "vague" /\ save.pkg = "in work" /\ save.pending = NoPending
  BY <1>1, <1>3, <1>4, DefaultTyped DEF States
<1>6. SoundCall([op |-> "propose", save |-> save])
  BY <1>5 DEF SoundCall, Sound, Documented, Waiting, Ops
<1>7. LawfulCall([op |-> "propose", save |-> save])
  BY <1>5 DEF LawfulCall, Lawful, Waiting, Ready
<1> QED
  BY <1>2, <1>3, <1>6, <1>7, WaitStep

LEMMA EndProposeKept ==
  ASSUME OwnerInv, NEW c \in Calls, EndPropose(c)
  PROVE  OwnerInv'
<1>1. /\ calls[c].op = "propose" /\ Reply(c)
      /\ UNCHANGED <<draft, package, goals, keys, approved, used, smooth>>
  BY DEF EndPropose
<1>2. Kept(c).goal \in 0 .. MaxGoals /\ Kept(c).goal # 0 /\ st \in States
  BY <1>1 DEF OwnerInv, SoundAll, SoundCall, Sound, Kept, States
<1>3. PICK s : s = [st EXCEPT !.goal = Kept(c).goal, !.at = "DOCUMENTATION",
                              !.docs = "in work", !.pkg = "in work"]
  OBVIOUS
<1>4. st' = s
  BY <1>3 DEF EndPropose
<1>5. /\ s \in States /\ s.goal = Kept(c).goal /\ s.discovery = st.discovery
      /\ s.pending = st.pending /\ s.pkg = "in work" /\ s.at = "DOCUMENTATION"
  BY <1>2, <1>3 DEF States, Stages
<1>6. Sound(s) /\ (Waiting(s) => package # 0) /\ (smooth => Lawful(s))
  BY <1>2, <1>5, NewGoalFine DEF Documented
<1> QED
  BY <1>1, <1>4, <1>6, SaveStep DEF OwnerInv, Counted

LEMMA DecideKept ==
  ASSUME OwnerInv, DecideWorkspace
  PROVE  OwnerInv'
<1>1. PICK saved \in BOOLEAN :
        /\ smooth' = (smooth /\ saved /\ \A c \in Calls : calls[c] = Idle)
        /\ st' = IF saved THEN [st EXCEPT !.at = "EXECUTION_PREPARATION",
                                          !.docs = "in work", !.pkg = "in work",
                                          !.accepted = TRUE]
                 ELSE st
  BY DEF DecideWorkspace
<1>2. package' = Workspace /\ UNCHANGED <<draft, calls, goals, keys, approved, used>>
  BY DEF DecideWorkspace
<1>3. package' # 0
  BY <1>2, Bounds DEF Workspace
<1>4. Growth
  BY <1>1, <1>2, <1>3, Bounds DEF OwnerInv, Counted, Growth
<1>5. Sound(st) /\ st \in States /\ (smooth => Lawful(st))
  BY DEF OwnerInv, SoundAll, SmoothAll, Sound
<1>6. saved => /\ st' \in States /\ st'.at = "EXECUTION_PREPARATION"
               /\ st'.pkg = "in work" /\ st'.goal = st.goal
               /\ st'.discovery = st.discovery /\ st'.pending = st.pending
  BY <1>1, <1>5 DEF States, Stages
<1>7. Sound(st)'
  <2>1. CASE saved
    BY <2>1, <1>2, <1>5, <1>6 DEF Sound, Documented
  <2>2. CASE ~saved
    BY <2>2, <1>1, <1>2, <1>5 DEF Sound
  <2> QED
    BY <2>1, <2>2
<1>8. ASSUME smooth' PROVE Lawful(st)'
  <2>1. smooth /\ saved
    BY <1>1, <1>8
  <2> QED
    BY <2>1, <1>2, <1>5, <1>6 DEF Lawful, Waiting, Ready
<1> QED
  BY <1>1, <1>2, <1>3, <1>4, <1>7, <1>8, LoneStep

LEMMA ListKept ==
  ASSUME OwnerInv, ListProjects
  PROVE  OwnerInv'
<1> DEFINE s == Unready(st)
<1>1. Sound(st) /\ st \in States
  BY DEF OwnerInv, SoundAll, Sound
<1>2. /\ s \in States /\ s.goal = st.goal /\ s.discovery = st.discovery
      /\ s.pending = st.pending /\ s.pkg = "in work" /\ s.at = st.at
  BY <1>1 DEF Unready, States
<1> HIDE DEF s
<1>3. s.at \in Documented => s.discovery = "complete"
  BY <1>1, <1>2 DEF Sound
<1>4. Sound(s) /\ (Lawful(st) => Lawful(s)) /\ (Waiting(s) => Waiting(st))
  BY <1>1, <1>2, <1>3, Changed DEF Ready
<1> QED
  BY <1>4, AtOnceStep DEF ListProjects, s, OwnerInv, Counted, SoundAll, SmoothAll

-----------------------------------------------------------------------------
(* Theorems *)

LEMMA InitKept == Init => OwnerInv
<1> SUFFICES ASSUME Init PROVE OwnerInv
  OBVIOUS
<1>1. /\ st = DefaultState /\ package = 0 /\ goals = 0 /\ keys = 0
      /\ calls = [c \in Calls |-> Idle] /\ used = {} /\ smooth = TRUE
  BY DEF Init
<1>2. /\ DefaultState.at = "DISCUSSION" /\ DefaultState.discovery = "vague"
      /\ DefaultState.pkg = "in work"
  BY DEF DefaultState
<1>3. Idle \in [op : Ops, save : States]
  BY DefaultTyped DEF Idle, Ops
<1>4. Counted
  BY <1>1, <1>3, Bounds DEF Counted
<1>5. Sound(st) /\ ~Waiting(st) /\ Lawful(st)
  BY <1>1, <1>2, DefaultTyped DEF Sound, Documented, Waiting, Lawful, Ready
<1>6. \A c \in Calls : calls[c] = Idle
  BY <1>1
<1> QED
  BY <1>4, <1>5, <1>6, IdleIsFine DEF OwnerInv, SoundAll, SmoothAll, OneCall

LEMMA RuntimeKept == OwnerInv /\ RuntimeStep => OwnerInv'
<1> SUFFICES ASSUME OwnerInv, RuntimeStep PROVE OwnerInv'
  OBVIOUS
<1>1. CASE AskForDraft \/ AskForHandoff
  BY <1>1, AskKept DEF AskForDraft, AskForHandoff
<1>2. ASSUME NEW c \in Calls, EndOptions(c) PROVE OwnerInv'
  BY <1>2, KeptSaved DEF EndOptions, OwnerInv, Counted
<1>3. ASSUME NEW c \in Calls, FailProvider(c) PROVE OwnerInv'
  BY <1>3, NothingSaved DEF FailProvider, Nothing, OwnerInv, Counted
<1> QED
  BY <1>1, <1>2, <1>3, DecideOptionKept, GiveDraftKept, ApproveKept, ExpireKept,
     IntakeKept, EndIntakeKept, AnswerKept, EndAnswerKept, OptionsKept, EndDraftKept,
     HandoffKept, ConfirmPendingKept DEF RuntimeStep

LEMMA DocsKept == OwnerInv /\ DocsStep => OwnerInv'
<1> SUFFICES ASSUME OwnerInv, DocsStep PROVE OwnerInv'
  OBVIOUS
<1>1. ASSUME NEW c \in Calls, EndVerify(c) PROVE OwnerInv'
  BY <1>1, KeptSaved DEF EndVerify, OwnerInv, Counted
<1> QED
  BY <1>1, CorrectKept, DocLoopKept, EndDocLoopKept, VerifyKept DEF DocsStep

LEMMA ChatKept == OwnerInv /\ ChatStep => OwnerInv'
<1> SUFFICES ASSUME OwnerInv, ChatStep PROVE OwnerInv'
  OBVIOUS
<1>1. ASSUME NEW c \in Calls, EndSummary(c) PROVE OwnerInv'
  BY <1>1, KeptSaved DEF EndSummary, OwnerInv, Counted
<1>2. ASSUME NEW c \in Calls, GiveUp(c) PROVE OwnerInv'
  BY <1>2, NothingSaved DEF GiveUp, Nothing, OwnerInv, Counted
<1> QED
  BY <1>1, <1>2, AffirmKept, ExpandKept, PivotKept, CheckpointKept, EndCheckpointKept,
     SummaryKept, ConfirmTransitionKept, CancelKept DEF ChatStep

LEMMA WorkspaceKept == OwnerInv /\ WorkspaceStep => OwnerInv'
<1> SUFFICES ASSUME OwnerInv, WorkspaceStep PROVE OwnerInv'
  OBVIOUS
<1>1. ASSUME NEW c \in Calls, AbandonProposal(c) PROVE OwnerInv'
  BY <1>1, NothingSaved DEF AbandonProposal, Nothing, OwnerInv, Counted
<1> QED
  BY <1>1, DecideKept, ListKept, ProposeKept, EndProposeKept DEF WorkspaceStep

LEMMA StutterKept == OwnerInv /\ UNCHANGED vars => OwnerInv'
<1> SUFFICES ASSUME OwnerInv, UNCHANGED vars PROVE OwnerInv'
  OBVIOUS
<1>1. Counted' /\ Growth
  BY Bounds DEF vars, OwnerInv, Counted, Growth
<1>2. Sound(st)' /\ (Waiting(st)' => package' # 0)
  BY DEF vars, OwnerInv, SoundAll, Sound, Waiting
<1>3. \A c \in Calls : SoundCall(calls[c])'
  BY <1>1, SoundCallKept DEF vars, OwnerInv, SoundAll
<1>4. SmoothAll'
  BY DEF vars, OwnerInv, SmoothAll, Lawful, LawfulCall, Waiting, Ready, OneCall
<1> QED
  BY <1>1, <1>2, <1>3, <1>4 DEF OwnerInv, SoundAll

\* The state on file and the states that waiting calls are going to save are
\* sound, whatever overlaps and fails.
THEOREM OwnerInvariant == PipelineSpec => []OwnerInv
<1>1. OwnerInv /\ [Next]_vars => OwnerInv'
  BY RuntimeKept, DocsKept, ChatKept, WorkspaceKept, StutterKept DEF Next
<1> QED
  BY InitKept, <1>1, PTL DEF PipelineSpec

\* No failed discovery, new goal, proposal, old checkpoint or stale save takes
\* a project into review or hand-off with questions open: what
\* assertRequirementDiscoveryComplete checks when a handler begins still holds
\* of what it saves when its provider has answered.
THEOREM DocsFollowDiscovery == PipelineSpec => []DiscoveryBeforeDocs
<1>1. OwnerInv => DiscoveryBeforeDocs
  BY DEF OwnerInv, SoundAll, Sound, Documented, DiscoveryBeforeDocs
<1> QED
  BY <1>1, OwnerInvariant, PTL

\* A project that waits for Forge has a package on disk and an approval behind
\* it, also when createExecutionHandoff has raced other writers or failed
\* between its two writes; without that the package is of an approved goal.
THEOREM HandoffFollowsApproval == PipelineSpec => []HandoffApproved
<1>1. OwnerInv => HandoffApproved
  BY DEF OwnerInv, SoundAll, SmoothAll, Sound, Lawful, Waiting, HandoffApproved
<1> QED
  BY <1>1, OwnerInvariant, PTL

\* While requests do not overlap, neither confirmPendingOperation nor
\* confirmTransition runs on a key that one of them has run on before.
THEOREM ConfirmationsSpent == PipelineSpec => ConfirmedOnce
<1>1. ASSUME OwnerInv, NEW c \in Calls, smooth, ConfirmPending(c) \/ ConfirmTransition(c)
      PROVE  st.pending.key \notin used
  <2>1. st.pending # NoPending
    BY <1>1 DEF ConfirmPending, ConfirmTransition, OwnerInv, SoundAll, SoundCall, Kept
  <2> QED
    BY <1>1, <2>1 DEF OwnerInv, SmoothAll, Lawful
<1>2. OwnerInv => [\A c \in Calls : smooth /\ (ConfirmPending(c) \/ ConfirmTransition(c))
                       => st.pending.key \notin used]_vars
  BY <1>1
<1> QED
  BY <1>2, OwnerInvariant, PTL DEF ConfirmedOnce

================================================================================
