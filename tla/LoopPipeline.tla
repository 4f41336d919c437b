----------------------------- MODULE LoopPipeline -----------------------------
(***************************************************************************)
(* The stage handlers of ai_os/conversationEngine.js that drive one loop   *)
(* from confirmIdea to finalizeDeliverable over the orchestration tools,   *)
(* with the MVP flag off.                                                  *)
(*                                                                         *)
(* A handler runs in turns.  In its first turn it tests the state of the   *)
(* loop and reads its inputs; then it waits for a model, a test run or a   *)
(* smoke run, and in a later turn it persists its output and moves the     *)
(* loop.  Nothing is tested again after the wait, and other handlers run   *)
(* their turns meanwhile: apiServer.js serves requests concurrently and    *)
(* holds no lock.  Each action below is one turn; a turn that stops at a   *)
(* failed write has the outcomes of OrchestrationTools.                    *)
(***************************************************************************)
EXTENDS OrchestrationTools, FiniteSets

CONSTANTS
  Calls,       \* handler calls that may be in flight together
  MaxQuality   \* test outcomes are 0 .. MaxQuality; the largest is PASS

ASSUME PipelineAssumption ==
  /\ IsFiniteSet(Calls)
  /\ MaxQuality \in Nat \ {0}

VARIABLES
  mode,       \* conversation_mode of the project
  artifacts,  \* reports present in the loop's directory
  files,      \* the build whose files are in the project directory
  manifest,   \* the build that build_manifest.json describes
  best,       \* best_attempt/: a build and its recorded score
  calls,      \* handler calls in flight
  tested,     \* history: the build that last passed its tests
  approved,   \* history: the build the reviewers last approved
  scores      \* history: the outcomes of the test runs so far

builds == <<files, manifest, best>>
history == <<tested, approved, scores>>
pipelineVars == <<loop, mode, artifacts, files, manifest, best, calls,
                  tested, approved, scores>>

Artifacts == {"design", "spec", "env_report", "test_plan", "review_report",
              "documentation", "quality_report", "deployment_plan", "summary"}

-----------------------------------------------------------------------------
(* Builds.  quality is what the test run will find: 0 does not parse,      *)
(* MaxQuality passes, the others fail with that score.                     *)

BuildIds == 1 .. 6 + Cardinality(Calls)
NoBuild == [id |-> 0, quality |-> 0]
NoBest == [build |-> NoBuild, score |-> -1]

Parses(b) == b.quality > 0
Passes(b) == b.quality = MaxQuality

-----------------------------------------------------------------------------
(* Stages.  A stage names what a call is waiting for.                      *)

\* The handlers whose later turn is: persist the role's output, then move.
SimpleStages == {"architect", "formalizeSpec", "reviewSpec", "estimateCost",
                 "reportEnv", "designTests", "judgeQuality", "deployProject"}

\* The handlers a client may call, by the state they test for.
HostStage ==
  [SPEC_WRITER_FORMALIZE      |-> "formalizeSpec",
   REVIEWER_SPEC              |-> "reviewSpec",
   COST_ESTIMATE              |-> "estimateCost",
   ENV_REPORT                 |-> "reportEnv",
   TEST_DESIGN                |-> "designTests",
   BUILDER                    |-> "buildProject",
   RUN_TESTS                  |-> "runTests",
   REVIEWER_CODE_AND_SECURITY |-> "reviewProject",
   DOCUMENTATION              |-> "documentProject",
   QUALITY_JUDGE              |-> "judgeQuality",
   DEPLOYMENT_OR_END          |-> "deployProject"]

\* Inputs a handler refuses to run without.
Needs(stage) ==
  CASE stage = "formalizeSpec" -> {"design"}
    [] stage = "runTests"      -> {"test_plan"}
    [] OTHER                   -> {"design", "spec"}

Output(stage) ==
  CASE stage = "architect"     -> {"design"}
    [] stage = "formalizeSpec" -> {"spec"}
    [] stage = "reportEnv"     -> {"env_report"}
    [] stage = "designTests"   -> {"test_plan"}
    [] stage = "judgeQuality"  -> {"quality_report"}
    [] stage = "deployProject" -> {"deployment_plan"}
    [] OTHER                   -> {}

\* The states the later turn of a simple stage may move the loop to.
Targets(stage) ==
  CASE stage = "architect"     -> {"SPEC_WRITER_FORMALIZE"}
    [] stage = "formalizeSpec" -> {"REVIEWER_SPEC"}
    [] stage = "reviewSpec"    -> {"COST_ESTIMATE", "ESCALATED"}
    [] stage = "estimateCost"  -> {"ENV_REPORT"}
    [] stage = "designTests"   -> {"BUILDER"}
    [] OTHER                   -> {}

IdleCall == [stage |-> "idle", seen |-> NoBuild, rebuild |-> FALSE]
Idle(c) == calls[c].stage = "idle"
Waiting(c, stage) == calls[c].stage = stage
Finish(c) == calls' = [calls EXCEPT ![c] = IdleCall]
WaitFor(c, stage) ==
  calls' = [calls EXCEPT ![c] =
    [stage   |-> stage,
     seen    |-> IF stage \in {"runTests", "reviewProject"} THEN files
                                                             ELSE NoBuild,
     rebuild |-> stage = "buildProject" /\ loop.count > 0]]

\* A second wait of the same call.
Continue(c, stage, seen) ==
  calls' = [calls EXCEPT ![c] =
    [stage |-> stage, seen |-> seen, rebuild |-> calls[c].rebuild]]

\* A build gets an id nothing refers to.
IdsInUse == {files.id, manifest.id, best.build.id, tested, approved}
            \union {calls[c].seen.id : c \in Calls}
FreshId == CHOOSE i \in BuildIds :
             /\ i \notin IdsInUse
             /\ \A j \in BuildIds : j < i => j \in IdsInUse

\* Whether the write of an output fails, the code testing it or not.
MayFail == IF "io" \in Faults THEN BOOLEAN ELSE {FALSE}

MoveOutcomes(to) == Outcomes(loop, AdvanceState(loop, to, "NORMAL"))

-----------------------------------------------------------------------------
PipelineInit ==
  /\ ToolInit
  /\ mode = "IDEA_REVIEW"
  /\ artifacts = {}
  /\ files = NoBuild /\ manifest = NoBuild /\ best = NoBest
  /\ calls = [c \in Calls |-> IdleCall]
  /\ tested = 0 /\ approved = 0 /\ scores = {}

\* confirmIdea AFFIRM, first turn.  loop is the directory the project's
\* loop_id names: when start_loop fails no id is saved, and a crash before
\* saveState leaves the project in IDEA_REVIEW with nothing to name.  A
\* client that names no architect_provider has the outcome of GiveUp.
ConfirmIdea(c) ==
  /\ mode = "IDEA_REVIEW"
  /\ Idle(c)
  /\ mode' = "PIPELINE"
  /\ \E startFails \in MayFail :
       IF startFails
         THEN UNCHANGED <<loop, calls>>
         ELSE /\ loop' = Completed(loop, StartLoop(loop, TRUE))
              /\ WaitFor(c, "architect")
  /\ UNCHANGED <<artifacts, builds, history>>

\* Mutant of AtHost: the handlers do not test the state of the loop.
AnyState(stage) == TRUE

AtHost(stage) == /\ loop.state \in DOMAIN HostStage
                 /\ HostStage[loop.state] = stage

\* The first turn of a handler: its guard and its inputs.
Begin(c) ==
  \E stage \in {HostStage[s] : s \in DOMAIN HostStage} :
    /\ Idle(c)
    /\ loop.file = "ok"
    /\ AtHost(stage)
    /\ Needs(stage) \subseteq artifacts
    /\ stage = "reviewProject" => manifest # NoBuild
    /\ WaitFor(c, stage)
    /\ UNCHANGED <<loop, mode, artifacts, builds, history>>

\* The role times out or fails, the test run cannot start, the smoke run
\* fails, the citation audit rejects: the handler answers and moves nothing.
GiveUp(c) ==
  /\ ~Idle(c)
  /\ Finish(c)
  /\ UNCHANGED <<loop, mode, artifacts, builds, history>>

\* Mutant of Checked: every handler moves on after a failed write.
CheckedNowhere == {}

\* The handlers that stop when the write of their output fails.
Checked == {"judgeQuality", "deployProject", "documentProject",
            "reviewProject", "finalizeDeliverable"}

\* The later turn of a simple stage.
CommitSimple(c) ==
  \E stage \in SimpleStages, writeFails \in MayFail :
    /\ Waiting(c, stage)
    /\ artifacts' = IF writeFails THEN artifacts
                                  ELSE artifacts \union Output(stage)
    /\ loop' \in IF Targets(stage) = {} \/ (writeFails /\ stage \in Checked)
                   THEN {loop}
                   ELSE UNION {MoveOutcomes(to) : to \in Targets(stage)}
    /\ Finish(c)
    /\ UNCHANGED <<mode, builds, history>>

-----------------------------------------------------------------------------
(* buildProject *)

\* builder.materialize writes all files in one turn.  A failed write ends
\* the handler with part of them written and the manifest as it was.
WriteFiles(c) ==
  \E quality \in 0 .. MaxQuality, writeFails \in MayFail :
    LET b == [id |-> FreshId, quality |-> IF writeFails THEN 0 ELSE quality]
    IN  /\ Waiting(c, "buildProject")
        /\ files' = b
        /\ IF writeFails
             THEN Finish(c)
             ELSE Continue(c, "smokeBuild", b)
        /\ UNCHANGED <<loop, mode, artifacts, manifest, best, history>>

\* Mutant of RestoreBest: the last attempt is left in place.
RestoreNothing(b) == UNCHANGED <<files, manifest>>

\* _restoreBestAttempt is best-effort: writes that fail are swallowed, the
\* files' and the manifest's each on their own.
RestoreBest(b) ==
  \E filesFail, manifestFails \in MayFail :
    IF b.build = NoBuild
      THEN UNCHANGED <<files, manifest>>
      ELSE /\ files' = IF filesFail THEN files ELSE b.build
           /\ manifest' = IF manifestFails THEN manifest ELSE b.build

\* A rebuild that does not parse is rejected and the best attempt restored.
RejectRebuild(c) ==
  /\ Waiting(c, "smokeBuild")
  /\ calls[c].rebuild /\ ~Parses(files)
  /\ RestoreBest(best)
  /\ Finish(c)
  /\ UNCHANGED <<loop, mode, artifacts, best, history>>

\* The manifest is written, and only then the loop moves.
FinishBuild(c) ==
  \E writeFails \in MayFail :
    /\ Waiting(c, "smokeBuild")
    /\ calls[c].rebuild => Parses(files)
    /\ manifest' = IF writeFails THEN manifest ELSE calls[c].seen
    /\ loop' \in IF writeFails THEN {loop} ELSE MoveOutcomes("RUN_TESTS")
    /\ Finish(c)
    /\ UNCHANGED <<mode, artifacts, files, best, history>>

-----------------------------------------------------------------------------
(* runTests *)

\* _scoreGreater: strictly better.
BetterScore(a, b) == a > b

\* _snapshotBestAttempt copies the files of the project directory under
\* the score of the run that just ended.
SnapshotBest(score) ==
  IF manifest # NoBuild /\ BetterScore(score, best.score)
    THEN [build |-> files, score |-> score] ELSE best

\* Mutant of TestVerdict: errors of the harness count as a pass.
AnyVerdict(b) == TRUE

TestVerdict(b) == Passes(b)

TestsPass(c) ==
  /\ Waiting(c, "runTests")
  /\ TestVerdict(calls[c].seen)
  /\ loop' \in MoveOutcomes("REVIEWER_CODE_AND_SECURITY")
  /\ tested' = calls[c].seen.id
  /\ scores' = scores \union {calls[c].seen.quality}
  /\ Finish(c)
  /\ UNCHANGED <<mode, artifacts, builds, approved>>

\* The attempt is recorded, then the loop goes back; when the cap escalates
\* it instead, the best attempt is restored.
TestsFail(c) ==
  LET score == calls[c].seen.quality
      lb    == LoopBack(loop)
  IN  /\ Waiting(c, "runTests")
      /\ ~TestVerdict(calls[c].seen)
      /\ loop' \in Outcomes(loop, lb)
      /\ best' = SnapshotBest(score)
      /\ scores' = scores \union {score}
      /\ IF CapExceeded(loop) /\ lb # <<>> /\ loop' = Completed(loop, lb)
           THEN RestoreBest(best')
           ELSE UNCHANGED <<files, manifest>>
      /\ Finish(c)
      /\ UNCHANGED <<mode, artifacts, tested, approved>>

-----------------------------------------------------------------------------
(* reviewProject, documentProject *)

\* The reviewer and the security auditor judge the files read in the first
\* turn; the merged report is persisted before the loop moves either way.
ReviewProject(c) ==
  \E approve \in BOOLEAN, writeFails \in MayFail :
    /\ Waiting(c, "reviewProject")
    /\ IF writeFails
         THEN UNCHANGED <<loop, artifacts, approved>>
         ELSE /\ artifacts' = artifacts \union {"review_report"}
              /\ approved' = IF approve THEN calls[c].seen.id ELSE approved
              /\ loop' \in IF approve THEN MoveOutcomes("DOCUMENTATION")
                                      ELSE Outcomes(loop, LoopBack(loop))
    /\ Finish(c)
    /\ UNCHANGED <<mode, builds, tested, scores>>

\* documentation.json is written; its claims are then cited and audited,
\* which waits for the knowledge base.
DocumentProject(c) ==
  \E writeFails \in MayFail :
    /\ Waiting(c, "documentProject")
    /\ IF writeFails /\ "documentProject" \in Checked
         THEN Finish(c)
         ELSE Continue(c, "auditDocumentation", NoBuild)
    /\ artifacts' = IF writeFails THEN artifacts
                                  ELSE artifacts \union {"documentation"}
    /\ UNCHANGED <<loop, mode, builds, history>>

PassAudit(c) ==
  /\ Waiting(c, "auditDocumentation")
  /\ loop' \in MoveOutcomes("QUALITY_JUDGE")
  /\ Finish(c)
  /\ UNCHANGED <<mode, artifacts, builds, history>>

-----------------------------------------------------------------------------
(* Handlers of a single turn *)

\* deployProject with deployment_enabled false: the gate is skipped.
SkipDeployment ==
  /\ loop.file = "ok"
  /\ loop.state = "DEPLOYMENT_OR_END"
  /\ loop' \in Outcomes(loop,
                        AdvanceState(loop, "LIVE_DELIVERABLE", "VACUOUS_SKIP"))
  /\ UNCHANGED <<mode, artifacts, builds, calls, history>>

FinalizeDeliverable ==
  \E writeFails \in MayFail :
    /\ loop.file = "ok"
    /\ loop.state = "LIVE_DELIVERABLE"
    /\ artifacts' = IF writeFails THEN artifacts
                                  ELSE artifacts \union {"summary"}
    /\ loop' \in IF writeFails /\ "finalizeDeliverable" \in Checked
                   THEN {loop} ELSE MoveOutcomes("COMPLETE")
    /\ UNCHANGED <<mode, builds, calls, history>>

\* Mutant of AtGate: an answer is accepted in any state.
AnyGate(g) == TRUE

AtGate(g) == loop.state = GateHost[g]

RespondGate ==
  \E g \in GateIds : \E response \in GateResponses[g] :
    /\ loop.file = "ok"
    /\ AtGate(g)
    /\ loop' \in Outcomes(loop, Respond(loop, g, response))
    /\ UNCHANGED <<mode, artifacts, builds, calls, history>>

\* The server dies between two turns: the calls waiting are forgotten.  A
\* death inside a turn is the turn stopped part-way, then this.
Crash ==
  /\ "crash" \in Faults
  /\ \E c \in Calls : ~Idle(c)
  /\ calls' = [c \in Calls |-> IdleCall]
  /\ UNCHANGED <<loop, mode, artifacts, builds, history>>

-----------------------------------------------------------------------------
CallTurn(c) ==
  \/ ConfirmIdea(c)
  \/ Begin(c)
  \/ GiveUp(c)
  \/ CommitSimple(c)
  \/ WriteFiles(c)
  \/ RejectRebuild(c)
  \/ FinishBuild(c)
  \/ TestsPass(c)
  \/ TestsFail(c)
  \/ ReviewProject(c)
  \/ DocumentProject(c)
  \/ PassAudit(c)

PipelineNext ==
  \/ \E c \in Calls : CallTurn(c)
  \/ SkipDeployment
  \/ FinalizeDeliverable
  \/ RespondGate
  \/ Crash

PipelineSpec == PipelineInit /\ [][PipelineNext]_pipelineVars

\* A builder answer that parses: the only one a rebuild is not rejected for.
WriteParsingFiles(c) == WriteFiles(c) /\ Parses(files')

\* Somebody keeps driving the loop: the stage that is due is called again
\* until it moves the loop and an open gate is answered; a role that may
\* time out or fail does not do so every time it is tried.
Driven ==
  /\ \A c \in Calls :
       /\ WF_pipelineVars(Begin(c))
       /\ SF_pipelineVars(CommitSimple(c))
       /\ SF_pipelineVars(WriteParsingFiles(c))
       /\ WF_pipelineVars(RejectRebuild(c))
       /\ SF_pipelineVars(FinishBuild(c))
       /\ SF_pipelineVars(TestsPass(c) \/ TestsFail(c))
       /\ SF_pipelineVars(ReviewProject(c))
       /\ SF_pipelineVars(DocumentProject(c))
       /\ SF_pipelineVars(PassAudit(c))
  /\ WF_pipelineVars(RespondGate)
  /\ WF_pipelineVars(FinalizeDeliverable)

DrivenSpec == PipelineSpec /\ Driven

-----------------------------------------------------------------------------
(* Properties *)

\* What the owner is offered is what was verified: from DOCUMENTATION on,
\* the files in the project directory are those build_manifest.json
\* records, they were tested, they pass, and the reviewers approved them.
VerifiedDeliverable ==
  loop.file = "ok" /\
  loop.state \in {"DOCUMENTATION", "QUALITY_JUDGE", "DEPLOYMENT_OR_END",
                  "LIVE_DELIVERABLE", "COMPLETE"} =>
    /\ files = manifest
    /\ Passes(manifest) /\ tested = manifest.id
    /\ approved = manifest.id

\* A stage whose handler checks the write of its output leaves that output
\* behind before the loop is past it, whichever calls overlap.
ReportsPrecedeMoves ==
  loop.file = "ok" =>
    /\ loop.state \in {"DOCUMENTATION", "QUALITY_JUDGE", "DEPLOYMENT_OR_END",
                       "LIVE_DELIVERABLE", "COMPLETE"}
         => "review_report" \in artifacts
    /\ loop.state \in {"QUALITY_JUDGE", "DEPLOYMENT_OR_END",
                       "LIVE_DELIVERABLE", "COMPLETE"}
         => "documentation" \in artifacts
    /\ loop.state = "COMPLETE" => "summary" \in artifacts

\* A terminal state has no outgoing transition (validateTransition).
TerminalStatesFinal ==
  [][loop.file = "ok" /\ loop.state \in TerminalStates
       => loop'.state = loop.state]_loop

EscalatedByTests ==
  loop.file = "ok" /\ loop.state = "ESCALATED" /\
  loop.last = Row("RUN_TESTS", "ESCALATED", "ESCALATE")

\* When failing tests exhaust the cap, what is left on disk, files and
\* manifest alike, is a build that failed no worse than any build that was
\* tested and failed (the purpose of _snapshotBestAttempt).
BestFailureKept ==
  EscalatedByTests =>
    /\ files = manifest
    /\ \A score \in scores \ {MaxQuality} : files.quality >= score

\* The cap ends every loop: one that got past the architect, whatever the
\* reviewers, the tests and the owner say, and however often they send it
\* back, reaches a terminal state.
LoopEnds ==
  loop.state = "SPEC_WRITER_FORMALIZE" ~> loop.state \in TerminalStates
=============================================================================
