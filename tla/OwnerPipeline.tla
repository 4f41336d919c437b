----------------------------- MODULE OwnerPipeline -----------------------------
(***************************************************************************)
(* One project on its way from an idea to a hand-off, as                   *)
(* ai_os/projectRuntime.js leads it (discovery, options, documentation,    *)
(* execution package), with the other writers of its project_state.json    *)
(* and its files: the chat (processMessage, generateCheckpoint,            *)
(* confirmTransition and the summary of an idea of conversationEngine.js,  *)
(* expandIdea of ideationEngine.js), the verification and the              *)
(* documentation build loop, and the workspace of apiServer.js (proposals, *)
(* decision packets, the project list).                                    *)
(*                                                                         *)
(* The state is one JSON file, saved whole: a handler that waits for a     *)
(* provider saves what it read before, changed in a few fields, over       *)
(* whatever was saved meanwhile.  Confirmations of the runtime and of the  *)
(* chat share the field pending_confirmation.  What a handler writes       *)
(* without a provider in between is one step.                              *)
(***************************************************************************)
EXTENDS Naturals

CONSTANTS
  Calls,      \* requests in flight together
  MaxGoals,   \* bound on the goals the owner brings
  MaxKeys,    \* bound on the confirmation keys generated
  Faults      \* {} or {"io"}: a write may fail

ASSUME OwnerAssumption == {MaxGoals, MaxKeys} \subseteq Nat

VARIABLES
  st,        \* project_state.json
  draft,     \* whether ai_os/documentation/draft.md exists
  package,   \* execute/execution_package.json: the goal it was made for (0: no
             \* file; Workspace: the packet of a workspace decision)
  calls,     \* per call: what it does and the state it is going to save, which
             \* it read before waiting
  goals,     \* goals brought so far
  keys,      \* confirmation keys generated so far
  approved,  \* history: goals whose documentation has been approved
  used,      \* history: keys that have run their operation
  smooth     \* history: no two calls have overlapped and no write has failed

vars == <<st, draft, package, calls, goals, keys, approved, used, smooth>>

\* active_runtime_state
Stages == {"DISCUSSION", "DISCOVERY_REQUIRED", "IDEATION", "INVALID_ARCHITECTURE",
           "OPTION_DECISION", "DOCUMENTATION", "DOCUMENTATION_REVIEW",
           "EXECUTION_HANDOFF_READY", "EXECUTION_HANDOFF_CREATED",
           "EXECUTION_PREPARATION"}

\* A package about files a client has put together, not about a goal.
Workspace == MaxGoals + 1

NoPending == [operation |-> "none", key |-> 0]

\* The fields that decide what a handler does.  discovery stands for
\* requirement_completeness and open_questions (a provider may call the
\* requirements complete and ask on: "doubtful"); no handler tells the
\* documentation states EMPTY, DRAFTING and APPROVED apart, nor the package
\* states NOT_READY, DRAFTING and APPROVED (both "in work"); current_phase
\* changes with the other fields and is left out, and so is
\* conversation_mode: each part of the chat may be used at any time.
States == [at : Stages,
           discovery : {"vague", "open", "doubtful", "complete"},
           goal : 0..MaxGoals,
           accepted : BOOLEAN,
           docs : {"in work", "DRAFT_READY", "DOCS_APPROVED"},
           pkg : {"in work", "READY_FOR_HANDOFF", "APPROVED_PENDING_FORGE"},
           pending : [operation : {"none", "draft", "handoff", "transition"},
                      key : 0..MaxKeys]]

\* buildDefaultState
DefaultState == [at |-> "DISCUSSION", discovery |-> "vague", goal |-> 0,
                 accepted |-> FALSE, docs |-> "in work", pkg |-> "in work",
                 pending |-> NoPending]

Idle == [op |-> "idle", save |-> DefaultState]

-----------------------------------------------------------------------------
(* Calls, saves and confirmations *)

\* Call c waits for a provider.  What it will save is the state it has read,
\* with the changes it knows already.
Wait(c, op, save) ==
  /\ calls[c] = Idle
  /\ calls' = [calls EXCEPT ![c] = [op |-> op, save |-> save]]
  /\ smooth' = (smooth /\ \A d \in Calls \ {c} : calls[d] = Idle)

\* A handler that does not wait.
AtOnce ==
  /\ smooth' = (smooth /\ \A d \in Calls : calls[d] = Idle)
  /\ UNCHANGED calls

Reply(c) == calls' = [calls EXCEPT ![c] = Idle]

Kept(c) == calls[c].save

Fails == "io" \in Faults

HasQuestions(s) == s.discovery \in {"open", "doubtful"}

\* requirement_completeness, which is all that some of the handlers look at.
CalledComplete(s) == s.discovery \in {"doubtful", "complete"}

\* assertRequirementDiscoveryComplete
DiscoveryComplete(s) == CalledComplete(s) /\ ~HasQuestions(s)

\* setPendingOperation, and the like in generateCheckpoint.
Asking(s, operation) == [s EXCEPT !.pending = [operation |-> operation, key |-> keys + 1]]

NewKey == keys < MaxKeys /\ keys' = keys + 1

Answered(s) == [s EXCEPT !.pending = NoPending]

NewGoal == goals < MaxGoals /\ goals' = goals + 1

-----------------------------------------------------------------------------
(* Discovery *)

\* What an intake and new options withdraw.
Unready(s) == [s EXCEPT !.docs = "in work", !.pkg = "in work"]

\* The provider of a discovery fails: requirement_completeness is reset.
Blocked(s) == [s EXCEPT !.at = "INVALID_ARCHITECTURE",
                        !.discovery = IF HasQuestions(s) THEN "open" ELSE "vague"]

\* What a provider makes of the requirements.
Findings == {"vague", "open", "doubtful", "complete"}

BeginIntake(c) ==
  /\ NewGoal
  /\ Wait(c, "intake", [Unready(st) EXCEPT !.goal = goals + 1, !.discovery = "vague",
                                           !.at = "IDEATION"])
  /\ UNCHANGED <<st, draft, package, keys, approved, used>>

\* intakeProject after the discovery, which may have failed.
EndIntake(c) ==
  /\ calls[c].op = "intake"
  /\ Reply(c)
  /\ \/ \E found \in Findings :
          LET s == [Kept(c) EXCEPT !.discovery = found]
          IN  st' = [s EXCEPT !.at = IF HasQuestions(s) THEN "DISCOVERY_REQUIRED" ELSE @]
     \/ st' = Blocked(Kept(c))
  /\ UNCHANGED <<draft, package, goals, keys, approved, used, smooth>>

BeginAnswer(c) ==
  /\ HasQuestions(st)
  /\ Wait(c, "answers", st)
  /\ UNCHANGED <<st, draft, package, goals, keys, approved, used>>

\* answerClarification after the discovery.
EndAnswer(c) ==
  /\ calls[c].op = "answers"
  /\ Reply(c)
  /\ \/ \E found \in Findings :
          LET s == [Kept(c) EXCEPT !.discovery = found]
          IN  st' = [s EXCEPT !.at = IF CalledComplete(s) THEN "IDEATION"
                                                          ELSE "DISCOVERY_REQUIRED"]
     \/ st' = Blocked(Kept(c))
  /\ UNCHANGED <<draft, package, goals, keys, approved, used, smooth>>

-----------------------------------------------------------------------------
(* Options *)

\* registerOptions: options once accepted are only replaced when the caller
\* reopens the decision.
BeginOptions(c) == \E reopen \in BOOLEAN :
  /\ DiscoveryComplete(st)
  /\ st.accepted => reopen
  /\ Wait(c, "options", [Unready(st) EXCEPT !.accepted = @ /\ ~reopen,
                                            !.at = "OPTION_DECISION"])
  /\ UNCHANGED <<st, draft, package, goals, keys, approved, used>>

EndOptions(c) ==
  /\ calls[c].op = "options"
  /\ Reply(c)
  /\ st' = Kept(c)
  /\ UNCHANGED <<draft, package, goals, keys, approved, used, smooth>>

\* decideOption, which takes any option id.
DecideOption ==
  /\ AtOnce
  /\ DiscoveryComplete(st)
  /\ st' = [st EXCEPT !.at = "DOCUMENTATION", !.docs = "in work", !.accepted = TRUE]
  /\ UNCHANGED <<draft, package, goals, keys, approved, used>>

-----------------------------------------------------------------------------
(* Documentation *)

\* saveDocumentationDraft without a text is confirmed first.
AskForDraft ==
  /\ AtOnce
  /\ NewKey
  /\ st' = Asking(st, "draft")
  /\ UNCHANGED <<draft, package, goals, approved, used>>

Drafted(s) == [s EXCEPT !.at = "DOCUMENTATION_REVIEW", !.docs = "DRAFT_READY"]

\* With a text it is saved at once.
GiveDraft ==
  /\ AtOnce
  /\ DiscoveryComplete(st)
  /\ draft' = TRUE
  /\ st' = Drafted(st)
  /\ UNCHANGED <<package, goals, keys, approved, used>>

\* The file is written, then the state, unless that write fails.
EndDraft(c) == \E saved \in BOOLEAN :
  /\ saved \/ Fails
  /\ calls[c].op = "draft"
  /\ Reply(c)
  /\ draft' = TRUE
  /\ st' = IF saved THEN Kept(c) ELSE st
  /\ smooth' = (smooth /\ saved)
  /\ UNCHANGED <<package, goals, keys, approved, used>>

\* approveDocumentation asks for a draft, whichever goal it was written for.
ApproveDocumentation ==
  /\ AtOnce
  /\ draft /\ DiscoveryComplete(st)
  /\ st' = [st EXCEPT !.at = "EXECUTION_HANDOFF_READY", !.docs = "DOCS_APPROVED",
                      !.pkg = "READY_FOR_HANDOFF"]
  /\ approved' = approved \cup {st.goal}
  /\ UNCHANGED <<draft, package, goals, keys, used>>

\* runDocBuildLoop drafts a project that has no draft; it saves no state, and
\* the loop's own file decides nothing elsewhere.
BeginDocLoop(c) ==
  /\ CalledComplete(st) /\ ~draft
  /\ Wait(c, "doc loop", DefaultState)
  /\ UNCHANGED <<st, draft, package, goals, keys, approved, used>>

EndDocLoop(c) ==
  /\ calls[c].op = "doc loop"
  /\ Reply(c)
  /\ draft' = TRUE
  /\ UNCHANGED <<st, package, goals, keys, approved, used, smooth>>

\* attemptSelfCorrection: a draft on file makes the documentation ready.
Correctable == draft /\ st.docs = "in work"

Corrected(s) == [s EXCEPT !.docs = "DRAFT_READY"]

\* runVerification of a project that fails its first level.
CorrectAtOnce ==
  /\ AtOnce
  /\ st.goal = 0 \/ ~st.accepted \/ st.discovery = "vague"
  /\ Correctable
  /\ st' = Corrected(st)
  /\ UNCHANGED <<draft, package, goals, keys, approved, used>>

\* One that passes it is reviewed by a model; a review that fails saves the
\* state read before it.
BeginVerify(c) ==
  /\ st.goal # 0 /\ st.accepted
  /\ Correctable
  /\ Wait(c, "verify", Corrected(st))
  /\ UNCHANGED <<st, draft, package, goals, keys, approved, used>>

EndVerify(c) ==
  /\ calls[c].op = "verify"
  /\ Reply(c)
  /\ st' = Kept(c)
  /\ UNCHANGED <<draft, package, goals, keys, approved, used, smooth>>

-----------------------------------------------------------------------------
(* Hand-off *)

\* The four fields createExecutionHandoff looks at.
HandoffReady(s) ==
  /\ DiscoveryComplete(s)
  /\ s.at = "EXECUTION_HANDOFF_READY"
  /\ s.docs = "DOCS_APPROVED" /\ s.pkg = "READY_FOR_HANDOFF"

AskForHandoff ==
  /\ AtOnce
  /\ NewKey
  /\ st' = Asking(st, "handoff")
  /\ UNCHANGED <<draft, package, goals, approved, used>>

\* createExecutionHandoff: the package is written, then the state.
EndHandoff(c) == \E saved \in BOOLEAN :
  /\ saved \/ Fails
  /\ calls[c].op = "handoff"
  /\ Reply(c)
  /\ package' = Kept(c).goal
  /\ st' = IF saved THEN Kept(c) ELSE st
  /\ smooth' = (smooth /\ saved)
  /\ UNCHANGED <<draft, goals, keys, approved, used>>

\* What the confirmed operation makes of the state it reads.
Ran(operation, s) ==
  IF operation = "draft" THEN Drafted(s)
  ELSE [s EXCEPT !.at = "EXECUTION_HANDOFF_CREATED", !.pkg = "APPROVED_PENDING_FORGE"]

\* Mutant of MayRun: a decision taken is taken for a discovery complete.
MayRunDecided(operation, s) ==
  \/ operation = "draft" /\ s.accepted
  \/ operation = "handoff" /\ HandoffReady(s)

\* What it asks of it.
MayRun(operation, s) ==
  \/ operation = "draft" /\ DiscoveryComplete(s) /\ s.accepted
  \/ operation = "handoff" /\ HandoffReady(s)

\* Mutant of ConfirmPending: the confirmation is not cleared.
ConfirmKept(c) ==
  /\ st.pending # NoPending
  /\ used' = used \cup {st.pending.key}
  /\ IF MayRun(st.pending.operation, st) THEN Wait(c, st.pending.operation, Ran(st.pending.operation, st))
     ELSE AtOnce
  /\ UNCHANGED <<st, draft, package, goals, keys, approved>>

\* confirmPendingOperation clears the confirmation, then runs the operation;
\* one that the chat asked for is only cleared.
ConfirmPending(c) ==
  /\ st.pending # NoPending
  /\ st' = Answered(st)
  /\ used' = used \cup {st.pending.key}
  /\ IF MayRun(st.pending.operation, st')
     THEN Wait(c, st.pending.operation, Ran(st.pending.operation, st'))
     ELSE AtOnce
  /\ UNCHANGED <<draft, package, goals, keys, approved>>

\* After half an hour the confirmation only clears itself.
ExpirePending ==
  /\ AtOnce
  /\ st.pending # NoPending
  /\ st' = Answered(st)
  /\ UNCHANGED <<draft, package, goals, keys, approved, used>>

-----------------------------------------------------------------------------
(* The other writers *)

\* processMessage in ideation, up to expandIdea; the first message is the
\* goal of a project that has none.
BeginExpand(c) ==
  /\ st.pending = NoPending
  /\ \/ st.at = "IDEATION" /\ UNCHANGED <<st, goals>>
     \/ /\ st.at = "DISCUSSION"
        /\ IF st.goal = 0 THEN NewGoal ELSE UNCHANGED goals
        /\ st' = [st EXCEPT !.at = "IDEATION", !.goal = IF @ = 0 THEN goals' ELSE @]
  /\ Wait(c, "expand", DefaultState)
  /\ UNCHANGED <<draft, package, keys, approved, used>>

\* expandIdea finds the domain changed: the message becomes the goal of the
\* project as it is by now, and nothing else of it is withdrawn.
Pivot(c) ==
  /\ calls[c].op = "expand"
  /\ NewGoal
  /\ st' = [st EXCEPT !.goal = goals']
  /\ calls' = [calls EXCEPT ![c].op = "expanded"]
  /\ UNCHANGED <<draft, package, keys, approved, used, smooth>>

\* The idea is ready for options: generateCheckpoint reads the state, as it
\* is by now, and waits for a wording.
BeginCheckpoint(c) ==
  /\ calls[c].op \in {"expand", "expanded"}
  /\ calls' = [calls EXCEPT ![c] = [op |-> "checkpoint", save |-> Answered(st)]]
  /\ UNCHANGED <<st, draft, package, goals, keys, approved, used, smooth>>

EndCheckpoint(c) ==
  /\ calls[c].op = "checkpoint"
  /\ NewKey
  /\ Reply(c)
  /\ st' = Asking(Kept(c), "transition")
  /\ UNCHANGED <<draft, package, goals, approved, used, smooth>>

\* requestIdeaSummary saves the state read before the synthesis.
BeginSummary(c) ==
  /\ Wait(c, "summary", st)
  /\ UNCHANGED <<st, draft, package, goals, keys, approved, used>>

EndSummary(c) ==
  /\ calls[c].op = "summary"
  /\ Reply(c)
  /\ st' = Kept(c)
  /\ UNCHANGED <<draft, package, goals, keys, approved, used, smooth>>

\* Mutant of AffirmIdea: the stage is not reset.
AffirmIdeaInPlace ==
  /\ AtOnce
  /\ NewGoal
  /\ st' = [st EXCEPT !.goal = goals']
  /\ UNCHANGED <<draft, package, keys, approved, used>>

\* confirmIdea, AFFIRM: the summary has the goal now.
AffirmIdea ==
  /\ AtOnce
  /\ NewGoal
  /\ st' = [st EXCEPT !.at = "IDEATION", !.goal = goals']
  /\ UNCHANGED <<draft, package, keys, approved, used>>

\* A message while a confirmation is pending, the runtime's included: its
\* intent is classified.
BeginChat(c) ==
  /\ st.pending # NoPending
  /\ Wait(c, "chat", st)
  /\ UNCHANGED <<st, draft, package, goals, keys, approved, used>>

\* AFFIRM: confirmTransition reads the state again and insists on the same
\* key.  A confirmation of the runtime has no target_state; the stage is
\* then lost from the file and reads as DISCUSSION.
ConfirmTransition(c) ==
  /\ calls[c].op = "chat" /\ st.pending = Kept(c).pending
  /\ Reply(c)
  /\ st' = [Answered(st) EXCEPT !.at = IF st.pending.operation = "transition"
                                       THEN "OPTION_DECISION" ELSE "DISCUSSION"]
  /\ used' = used \cup {st.pending.key}
  /\ UNCHANGED <<draft, package, goals, keys, approved, smooth>>

\* REJECT or MODIFY: the state read before is saved without the confirmation.
CancelPending(c) ==
  /\ calls[c].op = "chat"
  /\ Reply(c)
  /\ st' = Answered(Kept(c))
  /\ UNCHANGED <<draft, package, goals, keys, approved, used, smooth>>

Nothing(c) ==
  /\ Reply(c)
  /\ UNCHANGED <<st, draft, package, goals, keys, approved, used, smooth>>

\* The provider of options, of a documentation or of the files to hand off
\* fails or answers with none.
FailProvider(c) == calls[c].op \in {"options", "draft", "handoff"} /\ Nothing(c)

\* In the chat a message is unclear, its confirmation is gone, or more
\* ideation is needed; a review passes; the documentation loop has no draft.
GiveUp(c) ==
  /\ calls[c].op \in {"expand", "expanded", "summary", "chat", "doc loop", "verify"}
  /\ Nothing(c)

\* assertWorkspaceDiscoveryComplete lets an idea and open questions pass.
WorkspaceOpen(s) == CalledComplete(s) \/ s.at = "IDEATION"

\* handlePropose, up to the provider; the request becomes the goal.
BeginPropose(c) ==
  /\ NewGoal
  /\ WorkspaceOpen(st)
  /\ Wait(c, "propose", [DefaultState EXCEPT !.goal = goals + 1])
  /\ UNCHANGED <<st, draft, package, keys, approved, used>>

\* A request done recently, or a file that has the proposed text, is a
\* duplicate and changes nothing.
AbandonProposal(c) == calls[c].op = "propose" /\ Nothing(c)

\* buildAiProposalArtifacts: unlike the runtime, persistProjectState reads
\* the file again before it saves.
EndPropose(c) ==
  /\ calls[c].op = "propose"
  /\ Reply(c)
  /\ st' = [st EXCEPT !.goal = Kept(c).goal, !.at = "DOCUMENTATION",
                      !.docs = "in work", !.pkg = "in work"]
  /\ UNCHANGED <<draft, package, goals, keys, approved, used, smooth>>

\* handleDecision: a draft of the client becomes a decision packet and the
\* package, then the state is saved, unless that write throws.
DecideWorkspace == \E saved \in BOOLEAN :
  /\ saved \/ Fails
  /\ WorkspaceOpen(st)
  /\ smooth' = (smooth /\ saved /\ \A c \in Calls : calls[c] = Idle)
  /\ package' = Workspace
  /\ st' = IF saved THEN [st EXCEPT !.at = "EXECUTION_PREPARATION", !.docs = "in work",
                                    !.pkg = "in work", !.accepted = TRUE]
           ELSE st
  /\ UNCHANGED <<draft, calls, goals, keys, approved, used>>

\* listProjects computes the documentation and package states afresh from
\* the proposals, the decision packet and the package on disk.
ListProjects ==
  /\ AtOnce
  /\ st' = Unready(st)
  /\ UNCHANGED <<draft, package, goals, keys, approved, used>>

-----------------------------------------------------------------------------
Init ==
  /\ st = DefaultState
  /\ draft = FALSE /\ package = 0
  /\ calls = [c \in Calls |-> Idle]
  /\ goals = 0 /\ keys = 0
  /\ approved = {} /\ used = {} /\ smooth = TRUE

RuntimeStep ==
  \/ DecideOption \/ AskForDraft \/ GiveDraft \/ ApproveDocumentation
  \/ AskForHandoff \/ ExpirePending
  \/ \E c \in Calls :
       \/ BeginIntake(c) \/ EndIntake(c) \/ BeginAnswer(c) \/ EndAnswer(c)
       \/ BeginOptions(c) \/ EndOptions(c) \/ EndDraft(c) \/ EndHandoff(c)
       \/ ConfirmPending(c) \/ FailProvider(c)

\* The loops around the documentation.
DocsStep ==
  \/ CorrectAtOnce
  \/ \E c \in Calls : BeginDocLoop(c) \/ EndDocLoop(c) \/ BeginVerify(c) \/ EndVerify(c)

WorkspaceStep ==
  \/ DecideWorkspace \/ ListProjects
  \/ \E c \in Calls : BeginPropose(c) \/ AbandonProposal(c) \/ EndPropose(c)

ChatStep ==
  \/ AffirmIdea
  \/ \E c \in Calls :
       \/ BeginExpand(c) \/ Pivot(c) \/ BeginCheckpoint(c) \/ EndCheckpoint(c)
       \/ BeginSummary(c) \/ EndSummary(c)
       \/ BeginChat(c) \/ ConfirmTransition(c) \/ CancelPending(c) \/ GiveUp(c)

Next == RuntimeStep \/ DocsStep \/ ChatStep \/ WorkspaceStep

PipelineSpec == Init /\ [][Next]_vars

-----------------------------------------------------------------------------
(* Properties *)

\* Review and hand-off are about requirements that are complete: no failed
\* discovery, new goal, proposal, checkpoint of an earlier conversation or
\* stale save leaves the project in such a stage with questions open.  (An
\* idea does get into DOCUMENTATION and EXECUTION_PREPARATION without, through
\* the workspace.)
DiscoveryBeforeDocs ==
  st.at \in {"DOCUMENTATION_REVIEW", "EXECUTION_HANDOFF_READY",
             "EXECUTION_HANDOFF_CREATED"} => st.discovery = "complete"

\* A project that waits for Forge has a package on disk and an approval
\* behind it, whatever overlapped or failed; if nothing did, the package is
\* of a goal whose documentation was approved.
HandoffApproved ==
  st.pkg = "APPROVED_PENDING_FORGE" =>
    /\ package # 0
    /\ approved # {}
    /\ smooth => package \in approved

\* A confirmation is good for one operation ("so we don't loop"), be it given
\* to the runtime or in the chat, while requests do not overlap.
ConfirmedOnce ==
  [][\A c \in Calls : smooth /\ (ConfirmPending(c) \/ ConfirmTransition(c))
       => st.pending.key \notin used]_vars
================================================================================
