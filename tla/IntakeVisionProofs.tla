--------------------------- MODULE IntakeVisionProofs ---------------------------
(***************************************************************************)
(* Theorems about the vision of a project, for any number of requests in   *)
(* flight, contents and loops, with and without failed writes: no loop is  *)
(* left without a vision, and, while requests wait one at a time and       *)
(* writes succeed, an approval locks what the owner was shown last and     *)
(* nothing but a confirmed idea touches an approved vision afterwards.     *)
(*                                                                         *)
(* The last two tie together what is kept apart: the reply the owner has   *)
(* seen, the inferred vision in intake_state.json, vision.md, the files    *)
(* copied at the upload and what a waiting call has read of them.          *)
(***************************************************************************)
EXTENDS IntakeVision, TLAPS

Chats == [mode : {"none", "CONVERSATION", "IDEA_REVIEW", "PIPELINE"},
          at : {"none", "DISCUSSION", "IDEATION", "OPTION_DECISION"},
          pending : BOOLEAN]

CallStates == [op : {"idle", "intake", "reply", "summary", "expand", "checkpoint", "answer"},
               iv : Nat, seen : Nat, chat : Chats]

IntakeTypeOK ==
  /\ source \in {"none", "partial", "full"}
  /\ vision \in [content : Nat, locked : BOOLEAN]
  /\ intake \in [stage : {"none", "AWAIT_VISION_APPROVAL", "APPROVED"}, iv : Nat]
  /\ chat \in Chats
  /\ summary \in Nat /\ loops \in Nat /\ produced \in Nat /\ shown \in Nat
  /\ calls \in [Calls -> CallStates]
  /\ smooth \in BOOLEAN

OneCall == \A c, d \in Calls : calls[c] # Idle /\ calls[d] # Idle => c = d

\* The open vision of an intake is the one in the last reply.
ReviewOpen == intake.stage = "AWAIT_VISION_APPROVAL"

InReview ==
  /\ intake.iv = shown
  /\ vision.locked \/ vision.content = shown

\* What a waiting call of the intake flow has read is still so.
InStep(c) ==
  /\ calls[c].op = "reply" => /\ ReviewOpen
                              /\ calls[c].iv = intake.iv /\ calls[c].seen = shown
  /\ calls[c].op = "intake" => intake.stage = "none" /\ source # "none"

Settled ==
  /\ ReviewOpen => InReview
  /\ intake.stage = "APPROVED" => vision.locked
  /\ source = "none" => intake.stage = "none"

SmoothIntake == smooth => OneCall /\ Settled /\ \A c \in Calls : InStep(c)

IntakeInv == IntakeTypeOK /\ LoopHasVision /\ SmoothIntake

-----------------------------------------------------------------------------
(* Types *)

LEMMA IdleTyped ==
  /\ Idle \in CallStates /\ Idle.op = "idle" /\ NoChat \in Chats
  /\ NoIntake \in [stage : {"none", "AWAIT_VISION_APPROVAL", "APPROVED"}, iv : Nat]
  /\ NoIntake.stage = "none"
  /\ NoVision \in [content : Nat, locked : BOOLEAN]
BY DEF Idle, CallStates, NoChat, Chats, NoIntake, NoVision

LEMMA WaitTyped ==
  ASSUME IntakeTypeOK, NEW c \in Calls, NEW w \in CallStates, Wait(c, w)
  PROVE  calls' \in [Calls -> CallStates] /\ smooth' \in BOOLEAN
BY DEF IntakeTypeOK, Wait

LEMMA ReplyTyped ==
  ASSUME IntakeTypeOK, NEW c \in Calls, Reply(c)
  PROVE  calls' \in [Calls -> CallStates]
BY IdleTyped DEF IntakeTypeOK, Reply

LEMMA ReadingTyped ==
  ASSUME IntakeTypeOK, NEW op \in {"summary", "checkpoint", "answer"}
  PROVE  Reading(op, chat) \in CallStates /\ Reading(op, chat).op = op
BY IdleTyped DEF Reading, CallStates, IntakeTypeOK

LEMMA IntakeFlowTyped == IntakeTypeOK /\ IntakeStep => IntakeTypeOK'
<1> SUFFICES ASSUME IntakeTypeOK, IntakeStep PROVE IntakeTypeOK'
  OBVIOUS
<1>1. CASE StopCopy
  BY <1>1 DEF StopCopy, IntakeTypeOK
<1>2. ASSUME NEW c \in Calls, StartIntake(c) PROVE IntakeTypeOK'
  <2>1. [Idle EXCEPT !.op = "intake"] \in CallStates
    BY IdleTyped DEF CallStates
  <2> QED
    BY <1>2, <2>1, WaitTyped DEF StartIntake, IntakeTypeOK
<1>3. ASSUME NEW c \in Calls, FailIntake(c) PROVE IntakeTypeOK'
  BY <1>3, ReplyTyped DEF FailIntake, IntakeTypeOK, disk
<1>4. ASSUME NEW c \in Calls, FinishIntake(c) PROVE IntakeTypeOK'
  BY <1>4, ReplyTyped DEF FinishIntake, IntakeTypeOK, Fresh
<1>5. ASSUME NEW c \in Calls, ReceiveReply(c) PROVE IntakeTypeOK'
  <2>1. [Idle EXCEPT !.op = "reply", !.iv = intake.iv, !.seen = shown] \in CallStates
    BY IdleTyped DEF CallStates, IntakeTypeOK
  <2> QED
    BY <1>5, <2>1, WaitTyped DEF ReceiveReply, IntakeTypeOK, disk
<1>6. ASSUME NEW c \in Calls, Approve(c) PROVE IntakeTypeOK'
  <2>1. calls[c].iv \in Nat
    BY DEF IntakeTypeOK, CallStates
  <2>2. PICK locked, created, started, saved \in BOOLEAN :
          LET lock == vision # NoVision /\ (locked \/ vision.locked)
              start == lock /\ created
          IN  /\ vision' = [vision EXCEPT !.locked = lock]
              /\ loops' = IF start THEN loops + 1 ELSE loops
              /\ intake' = IF start /\ started /\ saved
                           THEN [stage |-> "APPROVED", iv |-> calls[c].iv] ELSE intake
              /\ smooth' = (smooth /\ locked /\ created /\ started /\ saved)
    BY <1>6 DEF Approve
  <2>3. vision' \in [content : Nat, locked : BOOLEAN]
    BY <2>2 DEF IntakeTypeOK
  <2>4. intake' \in [stage : {"none", "AWAIT_VISION_APPROVAL", "APPROVED"}, iv : Nat]
    BY <2>1, <2>2 DEF IntakeTypeOK
  <2>5. loops' \in Nat /\ smooth' \in BOOLEAN
    BY <2>2 DEF IntakeTypeOK
  <2>6. calls' \in [Calls -> CallStates] /\ UNCHANGED <<source, chat, summary, produced, shown>>
    BY <1>6, ReplyTyped DEF Approve
  <2> QED
    BY <2>3, <2>4, <2>5, <2>6 DEF IntakeTypeOK
<1>7. ASSUME NEW c \in Calls, Reject(c) PROVE IntakeTypeOK'
  <2>1. calls' \in [Calls -> CallStates] /\ UNCHANGED <<produced, shown>>
    BY <1>7, ReplyTyped DEF Reject
  <2>2. CASE smooth' = FALSE /\ UNCHANGED disk
    BY <2>1, <2>2 DEF IntakeTypeOK, disk
  <2>3. CASE /\ source' = "none" /\ vision' = NoVision /\ intake' = NoIntake
             /\ chat' = NoChat /\ summary' = 0 /\ loops' = 0 /\ UNCHANGED smooth
    BY <2>1, <2>3, IdleTyped DEF IntakeTypeOK
  <2> QED
    BY <1>7, <2>2, <2>3 DEF Reject
<1>8. ASSUME NEW c \in Calls, Edit(c) PROVE IntakeTypeOK'
  BY <1>8, ReplyTyped DEF Edit, IntakeTypeOK, Fresh
<1>9. ASSUME NEW c \in Calls, AskAgain(c) PROVE IntakeTypeOK'
  <2>1. calls[c].iv \in Nat
    BY DEF IntakeTypeOK, CallStates
  <2> QED
    BY <1>9, <2>1, ReplyTyped DEF AskAgain, IntakeTypeOK, disk
<1> QED
  BY <1>1, <1>2, <1>3, <1>4, <1>5, <1>6, <1>7, <1>8, <1>9 DEF IntakeStep

LEMMA IdeaTyped == IntakeTypeOK /\ IdeaStep => IntakeTypeOK'
<1> SUFFICES ASSUME IntakeTypeOK, IdeaStep PROVE IntakeTypeOK'
  OBVIOUS
<1>1. CASE CreateProject \/ ListProjects \/ ReturnIdea
  <2>1. \A mode \in {"CONVERSATION", "PIPELINE"} :
          [mode |-> mode, at |-> "DISCUSSION", pending |-> FALSE] \in Chats
    BY DEF Chats
  <2>2. [chat EXCEPT !.mode = "CONVERSATION"] \in Chats
    BY DEF IntakeTypeOK, Chats
  <2>3. chat' \in Chats
    BY <1>1, <2>1, <2>2 DEF CreateProject, ListProjects, ReturnIdea
  <2> QED
    BY <1>1, <2>3 DEF CreateProject, ListProjects, ReturnIdea, IntakeTypeOK
<1>2. CASE ConfirmIdea
  <2>1. [chat EXCEPT !.mode = "PIPELINE", !.at = "IDEATION"] \in Chats
    BY DEF IntakeTypeOK, Chats
  <2> QED
    BY <1>2, <2>1 DEF ConfirmIdea, IntakeTypeOK
<1>3. ASSUME NEW c \in Calls, BeginSummary(c) PROVE IntakeTypeOK'
  BY <1>3, ReadingTyped, WaitTyped DEF BeginSummary, IntakeTypeOK, disk
<1>4. ASSUME NEW c \in Calls, EndSummary(c) PROVE IntakeTypeOK'
  <2>1. [calls[c].chat EXCEPT !.mode = "IDEA_REVIEW"] \in Chats
    BY DEF IntakeTypeOK, CallStates, Chats
  <2> QED
    BY <1>4, <2>1, ReplyTyped DEF EndSummary, IntakeTypeOK, Fresh
<1> QED
  BY <1>1, <1>2, <1>3, <1>4 DEF IdeaStep

LEMMA CheckpointTyped == IntakeTypeOK /\ CheckpointStep => IntakeTypeOK'
<1> SUFFICES ASSUME IntakeTypeOK, NEW c \in Calls,
                    \/ BeginExpand(c) \/ BeginCheckpoint(c) \/ EndCheckpoint(c)
                    \/ AnswerCheckpoint(c) \/ ConfirmTransition(c)
                    \/ CancelCheckpoint(c) \/ GiveUp(c)
             PROVE  IntakeTypeOK'
  BY DEF CheckpointStep
<1>1. CASE BeginExpand(c)
  <2>1. [Idle EXCEPT !.op = "expand"] \in CallStates
    BY IdleTyped DEF CallStates
  <2>2. [chat EXCEPT !.at = "IDEATION"] \in Chats
    BY DEF IntakeTypeOK, Chats
  <2> QED
    BY <1>1, <2>1, <2>2, WaitTyped DEF BeginExpand, IntakeTypeOK
<1>2. CASE BeginCheckpoint(c)
  BY <1>2, ReadingTyped DEF BeginCheckpoint, IntakeTypeOK, disk
<1>3. CASE EndCheckpoint(c) \/ CancelCheckpoint(c)
  <2>1. \A b \in BOOLEAN : [calls[c].chat EXCEPT !.pending = b] \in Chats
    BY DEF IntakeTypeOK, CallStates, Chats
  <2> QED
    BY <1>3, <2>1, ReplyTyped DEF EndCheckpoint, CancelCheckpoint, IntakeTypeOK
<1>4. CASE AnswerCheckpoint(c)
  BY <1>4, ReadingTyped, WaitTyped DEF AnswerCheckpoint, IntakeTypeOK, disk
<1>5. CASE ConfirmTransition(c)
  <2>1. [chat EXCEPT !.at = "OPTION_DECISION", !.pending = FALSE] \in Chats
    BY DEF IntakeTypeOK, Chats
  <2> QED
    BY <1>5, <2>1, ReplyTyped DEF ConfirmTransition, IntakeTypeOK
<1>6. CASE GiveUp(c)
  BY <1>6, ReplyTyped DEF GiveUp, IntakeTypeOK, disk
<1> QED
  BY <1>1, <1>2, <1>3, <1>4, <1>5, <1>6

LEMMA TypeKept == IntakeTypeOK /\ [Next]_vars => IntakeTypeOK'
<1>1. IntakeTypeOK /\ UNCHANGED vars => IntakeTypeOK'
  BY DEF IntakeTypeOK, vars, disk
<1> QED
  BY <1>1, IntakeFlowTyped, IdeaTyped, CheckpointTyped DEF Next

-----------------------------------------------------------------------------
(* No loop without a vision *)

LEMMA LoopVisionKept == IntakeTypeOK /\ LoopHasVision /\ [Next]_vars => LoopHasVision'
<1> SUFFICES ASSUME IntakeTypeOK, LoopHasVision, [Next]_vars, loops' > 0
             PROVE  vision' # NoVision
  BY DEF LoopHasVision
<1>1. /\ vision \in [content : Nat, locked : BOOLEAN] /\ NoVision.content = 0
      /\ NoVision.locked = FALSE /\ Fresh \in Nat /\ Fresh # 0
  BY DEF IntakeTypeOK, NoVision, Fresh
<1>2. CASE UNCHANGED <<vision, loops>>
  BY <1>2 DEF LoopHasVision
<1>3. ASSUME NEW c \in Calls, FinishIntake(c) \/ Edit(c) PROVE vision' # NoVision
  <2>1. vision' = vision \/ vision' = [content |-> Fresh, locked |-> FALSE]
    BY <1>3 DEF FinishIntake, Edit
  <2>2. loops' = loops
    BY <1>3 DEF FinishIntake, Edit
  <2> QED
    BY <1>1, <2>1, <2>2 DEF LoopHasVision
<1>4. ASSUME NEW c \in Calls, Approve(c) PROVE vision' # NoVision
  <2>1. PICK locked, created \in BOOLEAN :
          LET lock == vision # NoVision /\ (locked \/ vision.locked)
              start == lock /\ created
          IN  /\ vision' = [vision EXCEPT !.locked = lock]
              /\ loops' = IF start THEN loops + 1 ELSE loops
    BY <1>4 DEF Approve
  <2>2. CASE vision # NoVision /\ (locked \/ vision.locked)
    <3>1. vision'.locked = TRUE
      BY <1>1, <2>1, <2>2
    <3> QED
      BY <1>1, <3>1
  <2>3. CASE ~(vision # NoVision /\ (locked \/ vision.locked))
    <3>1. loops' = loops /\ vision' = [vision EXCEPT !.locked = FALSE]
      BY <2>1, <2>3
    <3>2. vision # NoVision /\ ~vision.locked
      BY <2>3, <3>1 DEF LoopHasVision
    <3>3. vision' = vision
      BY <1>1, <3>1, <3>2
    <3> QED
      BY <3>2, <3>3
  <2> QED
    BY <2>2, <2>3
<1>5. ASSUME NEW c \in Calls, Reject(c) PROVE vision' # NoVision
  BY <1>5 DEF Reject, disk, LoopHasVision
<1>6. CASE ConfirmIdea
  <2>1. vision'.locked = TRUE
    BY <1>6 DEF ConfirmIdea
  <2> QED
    BY <1>1, <2>1
<1>7. ASSUME NEW c \in Calls, ConfirmTransition(c) PROVE vision' # NoVision
  <2>1. PICK wrote \in BOOLEAN :
          vision' = [vision EXCEPT !.locked = @ \/ (wrote /\ vision # NoVision)]
    BY <1>7 DEF ConfirmTransition
  <2>2. vision # NoVision
    BY <1>7 DEF ConfirmTransition, LoopHasVision
  <2>3. CASE vision.content = 0
    <3>1. vision.locked = TRUE
      BY <1>1, <2>2, <2>3 DEF NoVision
    <3> QED
      BY <1>1, <2>1, <3>1
  <2>4. CASE vision.content # 0
    BY <1>1, <2>1, <2>4
  <2> QED
    BY <2>3, <2>4
<1> QED
  BY <1>2, <1>3, <1>4, <1>5, <1>6, <1>7
     DEF Next, IntakeStep, IdeaStep, CheckpointStep, vars, disk, StopCopy, StartIntake,
         FailIntake, ReceiveReply, AskAgain, CreateProject, ListProjects, ReturnIdea,
         BeginSummary, EndSummary, BeginExpand, BeginCheckpoint, EndCheckpoint,
         AnswerCheckpoint, CancelCheckpoint, GiveUp

-----------------------------------------------------------------------------
(* Requests that wait one at a time *)

\* A request begins to wait: alone, as long as all is smooth.
LEMMA WaitSmooth ==
  ASSUME IntakeInv, NEW c \in Calls, NEW w \in CallStates, w.op # "idle", Wait(c, w),
         smooth' => Settled',
         smooth' /\ calls'[c] = w => InStep(c)'
  PROVE  SmoothIntake'
<1> SUFFICES ASSUME smooth' PROVE (OneCall /\ Settled /\ \A d \in Calls : InStep(d))'
  BY DEF SmoothIntake
<1>1. /\ calls' = [calls EXCEPT ![c] = w] /\ calls \in [Calls -> CallStates]
      /\ \A d \in Calls \ {c} : calls[d] = Idle
  BY DEF Wait, IntakeInv, IntakeTypeOK
<1>2. calls'[c] = w /\ \A d \in Calls \ {c} : calls'[d] = Idle
  BY <1>1
<1>3. OneCall'
  BY <1>2 DEF OneCall
<1>4. \A d \in Calls : InStep(d)'
  BY <1>2, IdleTyped DEF InStep
<1> QED
  BY <1>3, <1>4

\* The last turn of the only request that waits.
LEMMA ReplySmooth ==
  ASSUME IntakeInv, NEW c \in Calls, calls[c].op # "idle", Reply(c),
         smooth' => smooth /\ Settled'
  PROVE  SmoothIntake'
<1> SUFFICES ASSUME smooth' PROVE (OneCall /\ Settled /\ \A d \in Calls : InStep(d))'
  BY DEF SmoothIntake
<1>1. \A d \in Calls : calls'[d] = Idle
  BY IdleTyped DEF Reply, IntakeInv, IntakeTypeOK, SmoothIntake, OneCall
<1> QED
  BY <1>1, IdleTyped DEF OneCall, InStep

\* What the flows of ideas and checkpoints leave alone.
LEMMA SettledKept ==
  ASSUME IntakeInv, smooth, UNCHANGED <<intake, shown>>,
         source' = "none" => source = "none",
         vision' = vision \/ vision'.locked
  PROVE  Settled'
BY DEF IntakeInv, SmoothIntake, Settled, ReviewOpen, InReview

\* A step of no request in flight.
LEMMA LoneSmooth ==
  ASSUME IntakeInv, UNCHANGED <<calls, intake, shown>>, smooth' => smooth,
         source' = "none" => source = "none",
         vision' = vision \/ vision'.locked
  PROVE  SmoothIntake'
<1> SUFFICES ASSUME smooth' PROVE (OneCall /\ Settled /\ \A d \in Calls : InStep(d))'
  BY DEF SmoothIntake
<1>1. Settled'
  BY SettledKept
<1>2. OneCall' /\ \A d \in Calls : InStep(d)'
  BY DEF IntakeInv, SmoothIntake, OneCall, InStep, ReviewOpen
<1> QED
  BY <1>1, <1>2

LEMMA IntakeFlowSmooth == IntakeInv /\ IntakeStep => SmoothIntake'
<1> SUFFICES ASSUME IntakeInv, IntakeStep PROVE SmoothIntake'
  OBVIOUS
<1>1. CASE StopCopy
  BY <1>1, LoneSmooth DEF StopCopy
<1>2. ASSUME NEW c \in Calls, StartIntake(c) PROVE SmoothIntake'
  <2>1. PICK w \in CallStates : w = [Idle EXCEPT !.op = "intake"]
    BY IdleTyped DEF CallStates
  <2>2. w.op = "intake"
    BY <2>1, IdleTyped DEF CallStates
  <2>3. Wait(c, w) /\ source = "none" /\ source' = "full"
        /\ UNCHANGED <<vision, intake, shown>>
    BY <1>2, <2>1 DEF StartIntake
  <2>4. smooth' => smooth
    BY <2>3 DEF Wait
  <2>5. smooth' => Settled'
    BY <2>3, <2>4, SettledKept
  <2>6. smooth' /\ calls'[c] = w => InStep(c)'
    BY <2>2, <2>3, <2>4 DEF IntakeInv, SmoothIntake, Settled, InStep
  <2> QED
    BY <2>2, <2>3, <2>5, <2>6, WaitSmooth
<1>3. ASSUME NEW c \in Calls, FailIntake(c) PROVE SmoothIntake'
  BY <1>3, SettledKept, ReplySmooth DEF FailIntake, disk
<1>4. ASSUME NEW c \in Calls, FinishIntake(c) PROVE SmoothIntake'
  <2>1. PICK wrote, saved \in BOOLEAN :
          /\ vision' = IF wrote THEN [content |-> Fresh, locked |-> FALSE] ELSE vision
          /\ intake' = IF wrote /\ saved
                       THEN [stage |-> "AWAIT_VISION_APPROVAL", iv |-> Fresh] ELSE intake
          /\ shown' = IF wrote THEN Fresh ELSE shown
          /\ smooth' = (smooth /\ wrote /\ saved)
    BY <1>4 DEF FinishIntake
  <2>2. calls[c].op = "intake" /\ Reply(c) /\ source' = source
    BY <1>4 DEF FinishIntake
  <2>3. smooth' => smooth /\ Settled'
    BY <2>1, <2>2 DEF IntakeInv, SmoothIntake, InStep, Settled, ReviewOpen, InReview
  <2> QED
    BY <2>2, <2>3, ReplySmooth
<1>5. ASSUME NEW c \in Calls, ReceiveReply(c) PROVE SmoothIntake'
  <2>1. PICK w \in CallStates :
          w = [Idle EXCEPT !.op = "reply", !.iv = intake.iv, !.seen = shown]
    BY IdleTyped DEF CallStates, IntakeInv, IntakeTypeOK
  <2>2. w.op = "reply" /\ w.iv = intake.iv /\ w.seen = shown
    BY <2>1, IdleTyped DEF CallStates
  <2>3. Wait(c, w) /\ ReviewOpen /\ UNCHANGED <<source, vision, intake, shown>>
    BY <1>5, <2>1 DEF ReceiveReply, ReviewOpen, disk
  <2>4. smooth' => Settled'
    BY <2>3, SettledKept DEF Wait
  <2>5. calls'[c] = w => InStep(c)'
    BY <2>2, <2>3 DEF InStep, ReviewOpen
  <2> QED
    BY <2>2, <2>3, <2>4, <2>5, WaitSmooth
<1>6. ASSUME NEW c \in Calls, Approve(c) PROVE SmoothIntake'
  <2>1. PICK locked, created, started, saved \in BOOLEAN :
          LET lock == vision # NoVision /\ (locked \/ vision.locked)
              start == lock /\ created
          IN  /\ vision' = [vision EXCEPT !.locked = lock]
              /\ intake' = IF start /\ started /\ saved
                           THEN [stage |-> "APPROVED", iv |-> calls[c].iv] ELSE intake
              /\ smooth' = (smooth /\ locked /\ created /\ started /\ saved)
    BY <1>6 DEF Approve
  <2>2. calls[c].op = "reply" /\ Reply(c) /\ UNCHANGED <<source, shown>>
    BY <1>6 DEF Approve
  <2>3. vision \in [content : Nat, locked : BOOLEAN]
    BY DEF IntakeInv, IntakeTypeOK
  <2>4. ASSUME smooth' PROVE smooth /\ Settled'
    <3>1. smooth /\ locked /\ created /\ started /\ saved
      BY <2>1, <2>4
    <3>2. CASE vision = NoVision
      <4>1. intake' = intake /\ vision' = vision
        BY <2>1, <2>3, <3>1, <3>2 DEF NoVision
      <4> QED
        BY <2>2, <3>1, <4>1, SettledKept
    <3>3. CASE vision # NoVision
      <4>1. vision'.locked = TRUE /\ intake'.stage = "APPROVED"
        BY <2>1, <2>3, <3>1, <3>3
      <4>2. source # "none"
        BY <2>2, <3>1 DEF IntakeInv, SmoothIntake, Settled, InStep, ReviewOpen
      <4> QED
        BY <2>2, <3>1, <4>1, <4>2 DEF Settled, ReviewOpen
    <3> QED
      BY <3>2, <3>3
  <2> QED
    BY <2>2, <2>4, ReplySmooth
<1>7. ASSUME NEW c \in Calls, Reject(c) PROVE SmoothIntake'
  <2>1. smooth' => smooth /\ Settled'
    BY <1>7, IdleTyped DEF Reject, Settled, ReviewOpen
  <2> QED
    BY <1>7, <2>1, ReplySmooth DEF Reject
<1>8. ASSUME NEW c \in Calls, Edit(c) PROVE SmoothIntake'
  <2>1. PICK wrote, saved \in BOOLEAN :
          /\ intake' = IF saved
                       THEN [stage |-> "AWAIT_VISION_APPROVAL", iv |-> Fresh] ELSE intake
          /\ vision' = IF wrote THEN [content |-> Fresh, locked |-> FALSE] ELSE vision
          /\ smooth' = (smooth /\ wrote /\ saved)
    BY <1>8 DEF Edit
  <2>2. calls[c].op = "reply" /\ Reply(c) /\ shown' = Fresh /\ source' = source
    BY <1>8 DEF Edit
  <2>3. smooth' => smooth /\ Settled'
    BY <2>1, <2>2 DEF IntakeInv, SmoothIntake, InStep, Settled, ReviewOpen, InReview
  <2> QED
    BY <2>2, <2>3, ReplySmooth
<1>9. ASSUME NEW c \in Calls, AskAgain(c) PROVE SmoothIntake'
  <2>1. smooth => shown' = shown
    BY <1>9 DEF AskAgain, IntakeInv, SmoothIntake, Settled, InStep, InReview
  <2>2. smooth' => smooth /\ Settled'
    BY <1>9, <2>1, SettledKept DEF AskAgain, disk
  <2> QED
    BY <1>9, <2>2, ReplySmooth DEF AskAgain
<1> QED
  BY <1>1, <1>2, <1>3, <1>4, <1>5, <1>6, <1>7, <1>8, <1>9 DEF IntakeStep

LEMMA IdeaSmooth == IntakeInv /\ IdeaStep => SmoothIntake'
<1> SUFFICES ASSUME IntakeInv, IdeaStep PROVE SmoothIntake'
  OBVIOUS
<1>1. CASE CreateProject \/ ListProjects \/ ReturnIdea
  BY <1>1, LoneSmooth DEF CreateProject, ListProjects, ReturnIdea
<1>2. CASE ConfirmIdea
  <2>1. /\ UNCHANGED <<calls, source, intake, shown>> /\ (smooth' => smooth)
        /\ vision' = [content |-> summary, locked |-> TRUE]
    BY <1>2 DEF ConfirmIdea
  <2> QED
    BY <2>1, LoneSmooth
<1>3. ASSUME NEW c \in Calls, BeginSummary(c) PROVE SmoothIntake'
  <2>1. PICK w \in CallStates : w = Reading("summary", chat) /\ w.op = "summary"
    BY ReadingTyped DEF IntakeInv
  <2>2. Wait(c, w) /\ UNCHANGED disk /\ UNCHANGED shown
    BY <1>3, <2>1 DEF BeginSummary
  <2>3. smooth' => Settled'
    BY <2>2, SettledKept DEF Wait, disk
  <2>4. calls'[c] = w => InStep(c)'
    BY <2>1 DEF InStep
  <2> QED
    BY <2>1, <2>2, <2>3, <2>4, WaitSmooth
<1>4. ASSUME NEW c \in Calls, EndSummary(c) PROVE SmoothIntake'
  <2>1. /\ calls[c].op = "summary" /\ Reply(c) /\ (smooth' => smooth)
        /\ UNCHANGED <<source, vision, intake, shown>>
    BY <1>4 DEF EndSummary
  <2> QED
    BY <2>1, SettledKept, ReplySmooth
<1> QED
  BY <1>1, <1>2, <1>3, <1>4 DEF IdeaStep

LEMMA CheckpointSmooth == IntakeInv /\ CheckpointStep => SmoothIntake'
<1> SUFFICES ASSUME IntakeInv, NEW c \in Calls,
                    \/ BeginExpand(c) \/ BeginCheckpoint(c) \/ EndCheckpoint(c)
                    \/ AnswerCheckpoint(c) \/ ConfirmTransition(c)
                    \/ CancelCheckpoint(c) \/ GiveUp(c)
             PROVE  SmoothIntake'
  BY DEF CheckpointStep
<1>1. CASE BeginExpand(c)
  <2>1. PICK w \in CallStates : w = [Idle EXCEPT !.op = "expand"]
    BY IdleTyped DEF CallStates
  <2>2. w.op = "expand"
    BY <2>1, IdleTyped DEF CallStates
  <2>3. Wait(c, w) /\ UNCHANGED <<source, vision, intake, shown>>
    BY <1>1, <2>1 DEF BeginExpand
  <2>4. smooth' => Settled'
    BY <2>3, SettledKept DEF Wait
  <2>5. calls'[c] = w => InStep(c)'
    BY <2>2 DEF InStep
  <2> QED
    BY <2>2, <2>3, <2>4, <2>5, WaitSmooth
<1>2. CASE BeginCheckpoint(c)
  <2>1. PICK w \in CallStates : w = Reading("checkpoint", chat) /\ w.op = "checkpoint"
    BY ReadingTyped DEF IntakeInv
  <2>2. /\ calls[c].op = "expand" /\ calls' = [calls EXCEPT ![c] = w]
        /\ UNCHANGED disk /\ UNCHANGED <<shown, smooth>>
    BY <1>2, <2>1 DEF BeginCheckpoint
  <2> SUFFICES ASSUME smooth' PROVE (OneCall /\ Settled /\ \A d \in Calls : InStep(d))'
    BY DEF SmoothIntake
  <2>3. Settled'
    BY <2>2, SettledKept DEF disk
  <2>4. calls'[c] = w /\ \A d \in Calls \ {c} : calls'[d] = Idle
    BY <2>2, IdleTyped DEF IntakeInv, IntakeTypeOK, SmoothIntake, OneCall
  <2> QED
    BY <2>1, <2>3, <2>4, IdleTyped DEF OneCall, InStep
<1>3. CASE EndCheckpoint(c) \/ CancelCheckpoint(c) \/ GiveUp(c)
  <2>1. /\ calls[c].op # "idle" /\ Reply(c) /\ smooth' = smooth
        /\ UNCHANGED <<source, vision, intake, shown>>
    BY <1>3 DEF EndCheckpoint, CancelCheckpoint, GiveUp, disk
  <2> QED
    BY <2>1, SettledKept, ReplySmooth
<1>4. CASE AnswerCheckpoint(c)
  <2>1. PICK w \in CallStates : w = Reading("answer", chat) /\ w.op = "answer"
    BY ReadingTyped DEF IntakeInv
  <2>2. Wait(c, w) /\ UNCHANGED disk /\ UNCHANGED shown
    BY <1>4, <2>1 DEF AnswerCheckpoint
  <2>3. smooth' => Settled'
    BY <2>2, SettledKept DEF Wait, disk
  <2>4. calls'[c] = w => InStep(c)'
    BY <2>1 DEF InStep
  <2> QED
    BY <2>1, <2>2, <2>3, <2>4, WaitSmooth
<1>5. CASE ConfirmTransition(c)
  <2>1. /\ calls[c].op = "answer" /\ Reply(c) /\ (smooth' => smooth)
        /\ UNCHANGED <<source, intake, shown>>
    BY <1>5 DEF ConfirmTransition
  <2>2. smooth' => vision' = vision \/ vision'.locked
    <3>1. vision \in [content : Nat, locked : BOOLEAN]
      BY DEF IntakeInv, IntakeTypeOK
    <3>2. PICK wrote \in BOOLEAN :
            vision' = [vision EXCEPT !.locked = @ \/ (wrote /\ vision # NoVision)]
      BY <1>5 DEF ConfirmTransition
    <3> QED
      BY <3>1, <3>2
  <2> QED
    BY <2>1, <2>2, SettledKept, ReplySmooth
<1> QED
  BY <1>1, <1>2, <1>3, <1>4, <1>5

-----------------------------------------------------------------------------
(* Theorems *)

LEMMA IntakeInit == Init => IntakeInv
<1> SUFFICES ASSUME Init PROVE IntakeInv
  OBVIOUS
<1>1. chat \in Chats
  <2>1. [mode |-> "CONVERSATION", at |-> "DISCUSSION", pending |-> FALSE] \in Chats
    BY DEF Chats
  <2> QED
    BY <2>1, IdleTyped DEF Init
<1>2. IntakeTypeOK
  BY <1>1, IdleTyped DEF Init, IntakeTypeOK
<1>3. LoopHasVision
  BY DEF Init, LoopHasVision
<1>4. SmoothIntake
  BY IdleTyped
     DEF Init, SmoothIntake, OneCall, Settled, ReviewOpen, InStep
<1> QED
  BY <1>2, <1>3, <1>4 DEF IntakeInv

\* The replies, intake_state.json, vision.md and the copied sources stay
\* together while requests wait one at a time and writes succeed.
THEOREM IntakeInvariant == IntakeSpec => []IntakeInv
<1>1. IntakeInv /\ [Next]_vars => IntakeInv'
  <2> SUFFICES ASSUME IntakeInv, [Next]_vars PROVE IntakeInv'
    OBVIOUS
  <2>1. IntakeTypeOK' /\ LoopHasVision'
    BY TypeKept, LoopVisionKept DEF IntakeInv
  <2>2. SmoothIntake'
    <3>1. CASE UNCHANGED vars
      BY <3>1 DEF vars, disk, IntakeInv, SmoothIntake, OneCall, Settled, ReviewOpen,
                  InReview, InStep
    <3>2. CASE Next
      BY <3>2, IntakeFlowSmooth, IdeaSmooth, CheckpointSmooth DEF Next
    <3> QED
      BY <3>1, <3>2
  <2> QED
    BY <2>1, <2>2 DEF IntakeInv
<1> QED
  BY IntakeInit, <1>1, PTL DEF IntakeSpec

\* The architect of a loop finds a vision.md, however approvals, rejections
\* (which delete the directory) and edits on a stale intake state overlap or
\* fail: start_loop comes after a lock, and nothing but a rejection, which
\* takes the loops along, removes the file.
THEOREM LoopsHaveVision == IntakeSpec => []LoopHasVision
BY IntakeInvariant, PTL DEF IntakeInv

\* While requests wait one at a time and writes succeed, vision.lock_vision
\* locks what the last reply of the intake flow has shown.
THEOREM ReviewedIsLocked == IntakeSpec => ApprovalLocksReviewed
<1>1. ASSUME IntakeInv, NEW c \in Calls, Approve(c), smooth, ~vision.locked, vision'.locked
      PROVE  vision'.content = calls[c].seen
  <2>1. calls[c].seen = shown /\ vision.content = shown
    BY <1>1 DEF Approve, IntakeInv, SmoothIntake, Settled, InReview, InStep
  <2>2. vision'.content = vision.content
    BY <1>1 DEF Approve, IntakeInv, IntakeTypeOK
  <2> QED
    BY <2>1, <2>2
<1>2. IntakeInv => [\A c \in Calls : Approve(c) /\ smooth /\ ~vision.locked /\ vision'.locked
                        => vision'.content = calls[c].seen]_vars
  BY <1>1
<1> QED
  BY <1>2, IntakeInvariant, PTL DEF ApprovalLocksReviewed

\* After an approval no second upload, edit or checkpoint replaces or unlocks
\* the vision of the loop, under the same conditions.
THEOREM ApprovedVisionLasts == IntakeSpec => ApprovedVisionKept
<1>1. ASSUME IntakeInv, [Next]_vars, intake.stage = "APPROVED", smooth', vision' # vision
      PROVE  ConfirmIdea
  <2>1. vision \in [content : Nat, locked : BOOLEAN] /\ (smooth => vision.locked)
    BY <1>1 DEF IntakeInv, IntakeTypeOK, SmoothIntake, Settled
  <2>2. ASSUME NEW c \in Calls, FinishIntake(c) \/ Approve(c) \/ Reject(c) \/ Edit(c)
        PROVE  FALSE
    <3>1. smooth /\ calls[c].op \in {"intake", "reply"}
      BY <1>1, <2>2 DEF FinishIntake, Approve, Reject, Edit, disk
    <3> QED
      BY <1>1, <3>1 DEF IntakeInv, SmoothIntake, InStep, ReviewOpen
  <2>3. ASSUME NEW c \in Calls, ConfirmTransition(c)
        PROVE  FALSE
    <3>1. PICK wrote \in BOOLEAN :
            vision' = [vision EXCEPT !.locked = @ \/ (wrote /\ vision # NoVision)]
      BY <2>3 DEF ConfirmTransition
    <3>2. smooth
      BY <1>1, <2>3 DEF ConfirmTransition
    <3>3. vision' = vision
      BY <2>1, <3>1, <3>2
    <3> QED
      BY <1>1, <3>3
  <2> QED
    BY <1>1, <2>2, <2>3
       DEF Next, IntakeStep, IdeaStep, CheckpointStep, vars, disk, StopCopy, StartIntake,
           FailIntake, ReceiveReply, AskAgain, CreateProject, ListProjects, ReturnIdea,
           BeginSummary, EndSummary, BeginExpand, BeginCheckpoint, EndCheckpoint,
           AnswerCheckpoint, CancelCheckpoint, GiveUp
<1>2. IntakeInv /\ [Next]_vars
        => [intake.stage = "APPROVED" /\ smooth' /\ vision' # vision => ConfirmIdea]_vars
  BY <1>1
<1> QED
  BY <1>2, IntakeInvariant, PTL DEF ApprovedVisionKept, IntakeSpec
=================================================================================
