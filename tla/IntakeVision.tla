----------------------------- MODULE IntakeVision -----------------------------
(***************************************************************************)
(* The vision of one project and the three flows that write it:            *)
(*   - intake of an existing code base (ai_os/intake_conversation_handler, *)
(*     runtime/tools/intake_tools, apiServer POST /chat), which infers a   *)
(*     vision and asks the owner to approve, edit or reject it;            *)
(*   - the idea flow (requestIdeaSummary and confirmIdea of                *)
(*     conversationEngine.js), which locks a summary of the conversation;  *)
(*   - the ideation checkpoint (processMessage, generateCheckpoint and     *)
(*     confirmTransition), whose confirmation locks whatever vision.md     *)
(*     holds.                                                              *)
(*                                                                         *)
(* A handler runs in one turn of the event loop up to a provider call (or  *)
(* the load of a grammar) and from there to its reply; what it read before *)
(* the wait it still uses after it.  A content stands for all the owner    *)
(* can see of a vision; every inference, edit and summary is a new one.    *)
(***************************************************************************)
EXTENDS Naturals

CONSTANTS
  Calls,        \* requests in flight together
  MaxContents,  \* bound on the contents ever produced
  MaxLoops,     \* bound on the loops of the project
  Faults        \* subset of {"copy", "io"}: what may fail

ASSUME IntakeAssumption == {MaxContents, MaxLoops} \subseteq Nat

VARIABLES
  source,   \* artifacts/projects/<id>/source/
  vision,   \* vision.md: its content (0: no file) and vision_locked
  intake,   \* intake_state.json: stage ("none": no file), inferred_vision
  chat,     \* project_state.json as far as the vision is concerned
  summary,  \* idea_summary.json (0: no file)
  loops,    \* number of loops below orchestration/
  calls,    \* per call: its op and the state it read before waiting
  produced, \* contents produced so far
  shown,    \* the vision in the last reply of the intake flow
  ratified, \* history: contents the owner has approved
  smooth    \* history: no two calls have waited together and no write has failed

disk == <<source, vision, intake, chat, summary, loops>>
vars == <<disk, calls, produced, shown, ratified, smooth>>

NoVision == [content |-> 0, locked |-> FALSE]
NoIntake == [stage |-> "none", iv |-> 0]
NoChat == [mode |-> "none", at |-> "none", pending |-> FALSE]
Idle == [op |-> "idle", iv |-> 0, seen |-> 0, chat |-> NoChat]

Fresh == produced + 1

-----------------------------------------------------------------------------
(* Calls *)

\* Call c starts to wait; it keeps what it has read so far, the intake state
\* (and what the owner has seen) or the project state.
Wait(c, waiting) ==
  /\ calls[c] = Idle
  /\ calls' = [calls EXCEPT ![c] = waiting]
  /\ smooth' = (smooth /\ \A d \in Calls \ {c} : calls[d] = Idle)

Reading(op, state) == [Idle EXCEPT !.op = op, !.chat = state]

Reply(c) == calls' = [calls EXCEPT ![c] = Idle]

\* A write to a project file is made, or fails and leaves it alone.
Wrote(ok) == ok \/ "io" \in Faults

-----------------------------------------------------------------------------
(* Intake of a code base *)

\* Mutant of StartIntake: sources of an earlier intake are copied over.
StartIntakeAnyway(c) ==
  /\ Wait(c, [Idle EXCEPT !.op = "intake"])
  /\ source' = "full"
  /\ UNCHANGED <<vision, intake, chat, summary, loops, produced, shown, ratified>>

\* An upload: project.intake_zip copies the files, unless some are there
\* already (TARGET_NOT_EMPTY), then the analysis waits for its grammars and
\* role.invoke for the model.
StartIntake(c) ==
  /\ source = "none"
  /\ Wait(c, [Idle EXCEPT !.op = "intake"])
  /\ source' = "full"
  /\ UNCHANGED <<vision, intake, chat, summary, loops, produced, shown, ratified>>

\* The copy stops at a file it cannot write or at the size cap; the files
\* copied so far stay.
StopCopy ==
  /\ "copy" \in Faults
  /\ source = "none"
  /\ source' = "partial"
  /\ UNCHANGED <<vision, intake, chat, summary, loops, calls, produced, shown,
                 ratified, smooth>>

\* The analysis or the inference fails; the copied files stay.
FailIntake(c) ==
  /\ calls[c].op = "intake"
  /\ Reply(c)
  /\ UNCHANGED <<disk, produced, shown, ratified, smooth>>

\* The vision is written unlocked, then the intake state; the result of the
\* second write is not looked at.
FinishIntake(c) == \E wrote, saved \in BOOLEAN :
  /\ Wrote(wrote) /\ Wrote(saved)
  /\ calls[c].op = "intake" /\ produced < MaxContents
  /\ Reply(c)
  /\ produced' = Fresh
  /\ vision' = IF wrote THEN [content |-> Fresh, locked |-> FALSE] ELSE vision
  /\ intake' = IF wrote /\ saved
               THEN [stage |-> "AWAIT_VISION_APPROVAL", iv |-> Fresh] ELSE intake
  /\ shown' = IF wrote THEN Fresh ELSE shown
  /\ smooth' = (smooth /\ wrote /\ saved)
  /\ UNCHANGED <<source, chat, summary, loops, ratified>>

-----------------------------------------------------------------------------
(* The owner's reply to an inferred vision *)

\* A message of the open session: the intake state is read, the intent
\* classified.
ReceiveReply(c) ==
  /\ intake.stage = "AWAIT_VISION_APPROVAL"
  /\ Wait(c, [Idle EXCEPT !.op = "reply", !.iv = intake.iv, !.seen = shown])
  /\ UNCHANGED <<disk, produced, shown, ratified>>

\* Mutant of Approve: the loop is started whatever lock_vision says.
ApproveUnlocked(c) == \E locked, saved \in BOOLEAN :
  /\ Wrote(locked) /\ Wrote(saved)
  /\ calls[c].op = "reply" /\ loops < MaxLoops
  /\ Reply(c)
  /\ ratified' = ratified \cup {calls[c].seen}
  /\ vision' = [vision EXCEPT !.locked = locked /\ vision # NoVision]
  /\ loops' = loops + 1
  /\ intake' = IF saved THEN [stage |-> "APPROVED", iv |-> calls[c].iv] ELSE intake
  /\ smooth' = (smooth /\ locked /\ saved)
  /\ UNCHANGED <<source, chat, summary, produced, shown>>

\* AFFIRM: vision.lock_vision locks the file as it is now (a locked one is
\* left alone), orchestration.start_loop creates a loop, and the state this
\* call read is saved as APPROVED.  The first failure ends the reply; a
\* loop whose second write fails has been created all the same.
Approve(c) == \E locked, created, started, saved \in BOOLEAN :
  /\ \A ok \in {locked, created, started, saved} : Wrote(ok)
  /\ calls[c].op = "reply" /\ loops < MaxLoops
  /\ Reply(c)
  /\ ratified' = ratified \cup {calls[c].seen}
  /\ LET lock == vision # NoVision /\ (locked \/ vision.locked)
         start == lock /\ created
     IN /\ vision' = [vision EXCEPT !.locked = lock]
        /\ loops' = IF start THEN loops + 1 ELSE loops
        /\ intake' = IF start /\ started /\ saved
                     THEN [stage |-> "APPROVED", iv |-> calls[c].iv] ELSE intake
  /\ smooth' = (smooth /\ locked /\ created /\ started /\ saved)
  /\ UNCHANGED <<source, chat, summary, produced, shown>>

\* REJECT: the project's directory is deleted, or the deletion fails; the
\* reply is the same.
Reject(c) ==
  /\ calls[c].op = "reply"
  /\ Reply(c)
  /\ \/ /\ source' = "none" /\ vision' = NoVision /\ intake' = NoIntake
        /\ chat' = NoChat /\ summary' = 0 /\ loops' = 0
        /\ UNCHANGED smooth
     \/ "io" \in Faults /\ smooth' = FALSE /\ UNCHANGED disk
  /\ UNCHANGED <<produced, shown, ratified>>

\* Mutant of Edit: the edit is kept in the intake state only.
EditStateOnly(c) ==
  /\ calls[c].op = "reply" /\ produced < MaxContents
  /\ Reply(c)
  /\ produced' = Fresh
  /\ intake' = [stage |-> "AWAIT_VISION_APPROVAL", iv |-> Fresh]
  /\ shown' = Fresh
  /\ UNCHANGED <<vision, source, chat, summary, loops, ratified, smooth>>

\* MODIFY with an edit of a known field: the edited state and the edited
\* vision, unlocked, are written; neither result is looked at.
Edit(c) == \E wrote, saved \in BOOLEAN :
  /\ Wrote(wrote) /\ Wrote(saved)
  /\ calls[c].op = "reply" /\ produced < MaxContents
  /\ Reply(c)
  /\ produced' = Fresh
  /\ intake' = IF saved THEN [stage |-> "AWAIT_VISION_APPROVAL", iv |-> Fresh] ELSE intake
  /\ vision' = IF wrote THEN [content |-> Fresh, locked |-> FALSE] ELSE vision
  /\ shown' = Fresh
  /\ smooth' = (smooth /\ wrote /\ saved)
  /\ UNCHANGED <<source, chat, summary, loops, ratified>>

\* UNCLEAR, or an edit of no known field: the vision is shown again, as this
\* call read it.
AskAgain(c) ==
  /\ calls[c].op = "reply"
  /\ Reply(c)
  /\ shown' = calls[c].iv
  /\ UNCHANGED <<disk, produced, ratified, smooth>>

-----------------------------------------------------------------------------
(* The idea flow *)

NoDirectory == /\ source = "none" /\ vision = NoVision /\ intake = NoIntake
               /\ chat = NoChat /\ summary = 0

\* createProject never takes an existing directory.
CreateProject ==
  /\ NoDirectory
  /\ chat' = [mode |-> "CONVERSATION", at |-> "DISCUSSION", pending |-> FALSE]
  /\ UNCHANGED <<source, vision, intake, summary, loops, calls, produced, shown,
                 ratified, smooth>>

\* listProjects writes a state for each directory; without one it assumes a
\* project from before the conversation mode.
ListProjects ==
  /\ ~NoDirectory /\ chat = NoChat
  /\ chat' = [mode |-> "PIPELINE", at |-> "DISCUSSION", pending |-> FALSE]
  /\ UNCHANGED <<source, vision, intake, summary, loops, calls, produced, shown,
                 ratified, smooth>>

\* requestIdeaSummary up to the synthesis.
BeginSummary(c) ==
  /\ chat.mode = "CONVERSATION"
  /\ Wait(c, Reading("summary", chat))
  /\ UNCHANGED <<disk, produced, shown, ratified>>

\* The summary is written, then the state read before the synthesis is saved
\* as IDEA_REVIEW.
EndSummary(c) == \E wrote, saved \in BOOLEAN :
  /\ Wrote(wrote) /\ Wrote(saved)
  /\ calls[c].op = "summary" /\ produced < MaxContents
  /\ Reply(c)
  /\ produced' = Fresh
  /\ summary' = IF wrote THEN Fresh ELSE summary
  /\ chat' = IF wrote /\ saved THEN [calls[c].chat EXCEPT !.mode = "IDEA_REVIEW"] ELSE chat
  /\ smooth' = (smooth /\ wrote /\ saved)
  /\ UNCHANGED <<source, vision, intake, loops, shown, ratified>>

\* confirmIdea, AFFIRM: the summary becomes the vision, locked; a loop is
\* started if it can be, and the pipeline entered.
ConfirmIdea == \E started, saved \in BOOLEAN :
  /\ Wrote(started) /\ Wrote(saved)
  /\ chat.mode = "IDEA_REVIEW" /\ summary # 0 /\ loops < MaxLoops
  /\ vision' = [content |-> summary, locked |-> TRUE]
  /\ ratified' = ratified \cup {summary}
  /\ loops' = IF started THEN loops + 1 ELSE loops
  /\ chat' = IF saved THEN [chat EXCEPT !.mode = "PIPELINE", !.at = "IDEATION"] ELSE chat
  /\ smooth' = (smooth /\ started /\ saved)
  /\ UNCHANGED <<source, intake, summary, calls, produced, shown>>

\* confirmIdea, REJECT or MODIFY.
ReturnIdea ==
  /\ chat.mode = "IDEA_REVIEW"
  /\ chat' = [chat EXCEPT !.mode = "CONVERSATION"]
  /\ UNCHANGED <<source, vision, intake, summary, loops, calls, produced, shown,
                 ratified, smooth>>

-----------------------------------------------------------------------------
(* The ideation checkpoint *)

\* processMessage of the pipeline: DISCUSSION becomes IDEATION, and the
\* ideation engine is asked.
BeginExpand(c) ==
  /\ chat.mode = "PIPELINE" /\ ~chat.pending
  /\ chat.at \in {"DISCUSSION", "IDEATION"}
  /\ chat' = [chat EXCEPT !.at = "IDEATION"]
  /\ Wait(c, [Idle EXCEPT !.op = "expand"])
  /\ UNCHANGED <<source, vision, intake, summary, loops, produced, shown, ratified>>

\* It is satisfied: generateCheckpoint reads the state, as it is by now, and
\* waits for a wording.
BeginCheckpoint(c) ==
  /\ calls[c].op = "expand" /\ chat # NoChat
  /\ calls' = [calls EXCEPT ![c] = Reading("checkpoint", chat)]
  /\ UNCHANGED <<disk, produced, shown, ratified, smooth>>

EndCheckpoint(c) ==
  /\ calls[c].op = "checkpoint"
  /\ Reply(c)
  /\ chat' = [calls[c].chat EXCEPT !.pending = TRUE]
  /\ UNCHANGED <<source, vision, intake, summary, loops, produced, shown, ratified, smooth>>

\* A message while a checkpoint is pending: its intent is classified.
AnswerCheckpoint(c) ==
  /\ chat.pending
  /\ Wait(c, Reading("answer", chat))
  /\ UNCHANGED <<disk, produced, shown, ratified>>

\* AFFIRM: confirmTransition reads the state again; if the confirmation is
\* still there it enters OPTION_DECISION and locks the vision there is.
\* A lock that fails is only logged.
ConfirmTransition(c) == \E wrote \in BOOLEAN :
  /\ Wrote(wrote)
  /\ calls[c].op = "answer" /\ chat.pending
  /\ Reply(c)
  /\ chat' = [chat EXCEPT !.at = "OPTION_DECISION", !.pending = FALSE]
  /\ vision' = [vision EXCEPT !.locked = @ \/ (wrote /\ vision # NoVision)]
  /\ smooth' = (smooth /\ wrote)
  /\ UNCHANGED <<source, intake, summary, loops, produced, shown, ratified>>

\* REJECT or MODIFY: the state read before the wait is saved without it.
CancelCheckpoint(c) ==
  /\ calls[c].op = "answer"
  /\ Reply(c)
  /\ chat' = [calls[c].chat EXCEPT !.pending = FALSE]
  /\ UNCHANGED <<source, vision, intake, summary, loops, produced, shown, ratified, smooth>>

\* The provider fails, the message is unclear or the confirmation is gone: no
\* checkpoint, no summary, or the checkpoint asked again.
GiveUp(c) ==
  /\ calls[c].op \in {"summary", "expand", "checkpoint", "answer"}
  /\ Reply(c)
  /\ UNCHANGED <<disk, produced, shown, ratified, smooth>>

-----------------------------------------------------------------------------
Init ==
  /\ source = "none" /\ vision = NoVision /\ intake = NoIntake
  /\ chat \in {NoChat, [mode |-> "CONVERSATION", at |-> "DISCUSSION", pending |-> FALSE]}
  /\ summary = 0 /\ loops = 0
  /\ calls = [c \in Calls |-> Idle]
  /\ produced = 0 /\ shown = 0 /\ ratified = {} /\ smooth = TRUE

IntakeStep == StopCopy \/ \E c \in Calls :
  \/ StartIntake(c) \/ FailIntake(c) \/ FinishIntake(c) \/ ReceiveReply(c)
  \/ Approve(c) \/ Reject(c) \/ Edit(c) \/ AskAgain(c)

IdeaStep == CreateProject \/ ListProjects \/ ConfirmIdea \/ ReturnIdea
            \/ \E c \in Calls : BeginSummary(c) \/ EndSummary(c)

CheckpointStep == \E c \in Calls :
  \/ BeginExpand(c) \/ BeginCheckpoint(c) \/ EndCheckpoint(c) \/ AnswerCheckpoint(c)
  \/ ConfirmTransition(c) \/ CancelCheckpoint(c) \/ GiveUp(c)

Next == IntakeStep \/ IdeaStep \/ CheckpointStep

IntakeSpec == Init /\ [][Next]_vars

-----------------------------------------------------------------------------
(* Properties *)

\* No loop runs without a vision: the architect of every loop finds the
\* vision.md its loop was started on, however approvals, rejections (which
\* delete the whole directory) and stale edits overlap or fail.
LoopHasVision == loops > 0 => vision # NoVision

\* While no two requests wait together and writes succeed, an approval that locks
\* the inferred vision locks the one the owner was shown last: every edit
\* reaches vision.md as well as the state and the reply.
ApprovalLocksReviewed ==
  [][\A c \in Calls : Approve(c) /\ smooth /\ ~vision.locked /\ vision'.locked
       => vision'.content = calls[c].seen]_vars

\* An approved intake keeps its vision: while no two requests wait together
\* and writes succeed, nothing but a confirmed idea replaces or unlocks the
\* vision the loop was started on.  A second upload is what could.
ApprovedVisionKept ==
  [][intake.stage = "APPROVED" /\ smooth' /\ vision' # vision => ConfirmIdea]_vars

\* What the intake contract says: an inferred vision is locked only after
\* the owner has ratified it (the confirmation of a checkpoint is not a
\* ratification).
InferredRatified == vision.locked => vision.content \in ratified
===============================================================================
