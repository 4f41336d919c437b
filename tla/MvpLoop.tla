-------------------------------- MODULE MvpLoop --------------------------------
(***************************************************************************)
(* The owner's review loop of an MVP project: ai_os/mvpLoopEngine.js and   *)
(* what conversationEngine.js does with it in designTests, buildProject,   *)
(* runTests, _handleMvpReview and _handleMvpReengage.                      *)
(*                                                                         *)
(* The block mvp_loop and the loop_id live in project_state.json, which    *)
(* every handler reads whole in its first turn and saves whole in its      *)
(* last, with what it read in between put back.  The loop of each slice is *)
(* a directory of OrchestrationTools.  Of a specification only its         *)
(* acceptance criteria matter here, of a build the criteria it was made    *)
(* for and the owner's changes it was given.                               *)
(*                                                                         *)
(* The handlers take body.loop_id before the loop_id of the state; here no *)
(* client names another loop than the one the state does.                  *)
(***************************************************************************)
EXTENDS ConversationGraph, Sequences, FiniteSets

CONSTANTS
  Criteria,       \* acceptance criteria of the approved specification
  MaxSlices,      \* MVP_MAX_SLICES, literally 3 in the code
  MaxLoops,       \* bound: orchestration loops of the project
  MaxChanges,     \* bound: times the owner asks for changes in one loop
  BreakingHops,   \* bound: hops of the walk of a new loop that may fail
  Calls,          \* handler calls that may be in flight together
  PatientClient,  \* whether the client runs no tests under a pending review
  Faults          \* as in OrchestrationTools

ASSUME MvpAssumption ==
  /\ IsFiniteSet(Criteria) /\ Criteria # {}
  /\ MaxSlices \in Nat \ {0} /\ MaxLoops \in Nat \ {0} /\ MaxChanges \in Nat
  /\ BreakingHops \subseteq 1 .. 5
  /\ PatientClient \in BOOLEAN
  /\ Faults \subseteq {"io", "crash", "torn"}

VARIABLES
  mvp,       \* project_state.json: the block and the loop_id
  orch,      \* graph.json and log of every loop
  disk,      \* the other artifacts of every loop
  files,     \* the build in the project directory, shared by the slices
  calls,     \* handler calls in flight
  accepted,  \* history: the criteria of all slices the owner accepted
  signed,    \* history: on what report the owner accepted each loop's slice
  unseen     \* history: failing runs of a slice since its owner saw a report,
             \* counted up to 2

mvpVars == <<mvp, orch, disk, files, calls, accepted, signed, unseen>>
mvpHistory == <<accepted, signed, unseen>>

Tools == INSTANCE OrchestrationTools WITH loop <- orch[mvp.loop]

LoopIds == 1 .. MaxLoops

-----------------------------------------------------------------------------
(* Data *)

MvpTransitions ==
  [INACTIVE              |-> {"SCOPE_DERIVED"},
   SCOPE_DERIVED         |-> {"BUILDING"},
   BUILDING              |-> {"BUILDING", "AWAITING_OWNER_REVIEW",
                              "CAP_REACHED"},
   AWAITING_OWNER_REVIEW |-> {"AWAITING_OWNER_REVIEW", "BUILDING",
                              "ACCEPTED", "CAP_REACHED"},
   ACCEPTED              |-> {"SCOPE_DERIVED"},
   CAP_REACHED           |-> {}]

\* assertTransition, as its callers after a wait use it: a transition that
\* is not declared leaves the status it started from.
StatusAfter(from, to) == IF to \in MvpTransitions[from] THEN to ELSE from

\* spec.json, mvp_scope.json, test_plan.json, mvp_owner_feedback.json,
\* mvp_report.json and best_attempt/; feedback numbers the requests, 0 is no
\* file, and best holds the attempt that is kept, if any.
NoDisk == [spec |-> FALSE, scope |-> {}, plan |-> {}, feedback |-> 0,
           report |-> "none", best |-> {}]

\* failing stands for accepted_with_failing_tests.
Slice1 == [status |-> "INACTIVE", loop |-> 1, scope |-> {}, index |-> 1,
           failing |-> FALSE]

\* A call: what it waits for, the block it read, the criteria and changes
\* it works from, the report or the iteration count it read.
IdleCall == [stage |-> "idle", saved |-> Slice1, criteria |-> {},
             changes |-> 0, report |-> "none", count |-> 0]

Idle(c) == calls[c].stage = "idle"
Waiting(c, stage) == calls[c].stage = stage
Finish(c) == calls' = [calls EXCEPT ![c] = IdleCall]
WaitFor(c, stage, criteria, changes) ==
  calls' = [calls EXCEPT ![c] =
    [stage |-> stage, saved |-> mvp, criteria |-> criteria,
     changes |-> changes, report |-> disk[mvp.loop].report,
     count |-> orch[mvp.loop].count]]

-----------------------------------------------------------------------------
(* Writes *)

MayFail == IF "io" \in Faults THEN BOOLEAN ELSE {FALSE}

\* saveState, the last write of a turn: the whole file, or none of it.
SaveState(block) ==
  \E fails \in MayFail : mvp' = IF fails THEN mvp ELSE block

\* A tool call on loop l that leaves it as after; Done when it succeeded.
Moves(l, writes, after) ==
  /\ after \in Tools!Outcomes(orch[l], writes)
  /\ orch' = [orch EXCEPT ![l] = after]
Done(l, writes, after) ==
  writes # <<>> /\ after = Tools!Completed(orch[l], writes)

AdvanceTo(l, to) == Tools!AdvanceState(orch[l], to, "NORMAL")

At(l, state) == orch[l].file = "ok" /\ orch[l].state = state

-----------------------------------------------------------------------------
(* The project as the spec writer, the cost estimate and Gate 1 leave it:  *)
(* the first loop at TEST_DESIGN, nothing derived yet.                     *)

FirstLoop == [Tools!NoLoop EXCEPT
  !.file = "ok", !.state = "TEST_DESIGN",
  !.last = Tools!Row("ENV_REPORT", "TEST_DESIGN", "GATE_APPROVE")]

MvpInit ==
  /\ mvp = Slice1
  /\ orch = [l \in LoopIds |-> IF l = 1 THEN FirstLoop ELSE Tools!NoLoop]
  /\ disk = [l \in LoopIds |->
               IF l = 1 THEN [NoDisk EXCEPT !.spec = TRUE] ELSE NoDisk]
  /\ files = [criteria |-> {}, changes |-> 0]
  /\ calls = [c \in Calls |-> IdleCall]
  /\ accepted = {}
  /\ signed = [l \in LoopIds |-> "none"]
  /\ unseen = [l \in LoopIds |-> 0]

\* A role or the test run fails or times out: nothing is written.
GiveUp(c) ==
  /\ ~Idle(c)
  /\ Finish(c)
  /\ UNCHANGED <<mvp, orch, disk, files, mvpHistory>>

-----------------------------------------------------------------------------
(* designTests *)

\* scopedSpec: the criteria a stage works from, by the block it read.
EffectiveCriteria(block) ==
  IF block.status \in {"SCOPE_DERIVED", "BUILDING"} THEN block.scope
                                                    ELSE Criteria

BeginDesign(c) ==
  /\ Idle(c)
  /\ At(mvp.loop, "TEST_DESIGN") /\ disk[mvp.loop].spec
  /\ WaitFor(c, IF mvp.status = "INACTIVE" THEN "deriveScope"
                                           ELSE "designTests",
             EffectiveCriteria(mvp), 0)
  /\ UNCHANGED <<mvp, orch, disk, files, mvpHistory>>

\* validateScope of a scope together with what it excludes.
ValidScope(scope) == scope # {} /\ scope \subseteq Criteria

\* deriveScope, persistScope, saveState; then the role is called.
DeriveScope(c) ==
  \E scope \in {s \in SUBSET Criteria : ValidScope(s)}, persistFails, saveFails \in MayFail :
    LET saved == calls[c].saved
    IN  /\ Waiting(c, "deriveScope")
        /\ disk' = IF persistFails THEN disk
                   ELSE [disk EXCEPT ![saved.loop].scope = scope]
        /\ IF persistFails \/ saveFails
             THEN UNCHANGED mvp /\ Finish(c)
             ELSE /\ mvp' = [saved EXCEPT !.status = "SCOPE_DERIVED",
                                          !.scope = scope]
                  /\ calls' = [calls EXCEPT ![c].stage = "designTests",
                                            ![c].criteria = scope]
        /\ UNCHANGED <<orch, files, mvpHistory>>

\* Neither the write of the plan nor the move is looked at.
DesignTests(c) ==
  \E planFails \in MayFail :
    LET l == calls[c].saved.loop
    IN  /\ Waiting(c, "designTests")
        /\ disk' = IF planFails THEN disk
                   ELSE [disk EXCEPT ![l].plan = calls[c].criteria]
        /\ \E after \in Tools!Outcomes(orch[l], AdvanceTo(l, "BUILDER")) :
             Moves(l, AdvanceTo(l, "BUILDER"), after)
        /\ Finish(c)
        /\ UNCHANGED <<mvp, files, mvpHistory>>

-----------------------------------------------------------------------------
(* buildProject *)

\* Mutant of ChangesFor: only the build after the request reads it.
ChangesOnce(block) ==
  IF block.status = "BUILDING" /\ files.changes < disk[block.loop].feedback
    THEN disk[block.loop].feedback ELSE 0

\* A rebuild is given the changes the owner asked for last.
ChangesFor(block) ==
  IF block.status = "BUILDING" THEN disk[block.loop].feedback ELSE 0

BeginBuild(c) ==
  /\ Idle(c)
  /\ At(mvp.loop, "BUILDER") /\ disk[mvp.loop].spec
  /\ WaitFor(c, "buildProject", EffectiveCriteria(mvp), ChangesFor(mvp))
  /\ UNCHANGED <<mvp, orch, disk, files, mvpHistory>>

Built(c) == [criteria |-> calls[c].criteria, changes |-> calls[c].changes]

\* A directory with files of two builds was made, as a whole, for no more
\* than both were.
Mixed(a, b) ==
  [criteria |-> a.criteria \intersect b.criteria,
   changes  |-> IF a.changes < b.changes THEN a.changes ELSE b.changes]

\* Writing the files of build new over those of old, one by one.
Overwritten(old, new) ==
  {new} \union IF Faults = {} THEN {} ELSE {old, Mixed(old, new)}

\* Mutant of BestAttempt: one best attempt for the whole project.
AnyAttempt(artifacts, l) == UNION {artifacts[k].best : k \in LoopIds}

BestAttempt(artifacts, l) == artifacts[l].best

\* _restoreBestAttempt: the attempt kept for loop l goes over the current
\* build; each of its writes may fail, none of them is looked at.
Restored(artifacts, l, current) ==
  IF BestAttempt(artifacts, l) = {} THEN {current}
  ELSE UNION {Overwritten(current, b) : b \in BestAttempt(artifacts, l)}

\* Mutant of FirstBuild: any build of a block that has a scope.
AnyBuild(c) == mvp.status # "INACTIVE"

\* The status is flipped after the first build of a slice; the state is read
\* again for it.
FirstBuild(c) ==
  calls[c].saved.status = "SCOPE_DERIVED" /\ mvp.status = "SCOPE_DERIVED"

\* The loop moves, the result of which is not looked at.
FinishBuild(c) ==
  LET saved == calls[c].saved
  IN  /\ Waiting(c, "buildProject")
      /\ files' = Built(c)
      /\ \E after \in Tools!Outcomes(orch[saved.loop],
                                     AdvanceTo(saved.loop, "RUN_TESTS")) :
           Moves(saved.loop, AdvanceTo(saved.loop, "RUN_TESTS"), after)
      /\ IF FirstBuild(c)
           THEN SaveState([mvp EXCEPT !.status = "BUILDING"])
           ELSE UNCHANGED mvp
      /\ Finish(c)
      /\ UNCHANGED <<disk, mvpHistory>>

\* A write of the materializer fails half-way, or the smoke run or the
\* manifest after all of them: what was written stays.
FailBuild(c) ==
  /\ Waiting(c, "buildProject")
  /\ files' \in Overwritten(files, Built(c))
  /\ Finish(c)
  /\ UNCHANGED <<mvp, orch, disk, mvpHistory>>

\* A rebuild that does not parse: the best attempt of the loop is put back
\* over it and the loop stays where it is.
RejectRebuild(c) ==
  /\ Waiting(c, "buildProject")
  /\ calls[c].count > 0
  /\ files' \in Restored(disk, calls[c].saved.loop, Built(c))
  /\ Finish(c)
  /\ UNCHANGED <<mvp, orch, disk, mvpHistory>>

-----------------------------------------------------------------------------
(* runTests *)

BeginTests(c) ==
  /\ Idle(c)
  /\ At(mvp.loop, "RUN_TESTS") /\ disk[mvp.loop].plan # {}
  /\ PatientClient => mvp.status # "AWAITING_OWNER_REVIEW"
  /\ WaitFor(c, "runTests", {}, 0)
  /\ UNCHANGED <<mvp, orch, disk, files, mvpHistory>>

\* _mvpEnterOwnerReview: the report is persisted with the artifacts the run
\* left, then the state read before the run is saved with the new status.
EnterOwnerReview(c, kind, artifacts) ==
  LET saved == calls[c].saved
  IN  \E persistFails \in MayFail :
        /\ disk' = IF persistFails THEN artifacts
                   ELSE [artifacts EXCEPT ![saved.loop].report = kind]
        /\ IF ~persistFails /\ "AWAITING_OWNER_REVIEW" \in MvpTransitions[saved.status]
             THEN /\ SaveState([saved EXCEPT !.status = "AWAITING_OWNER_REVIEW"])
                  /\ unseen' = [unseen EXCEPT ![saved.loop] = 0]
             ELSE UNCHANGED <<mvp, unseen>>

\* Mutant of AwaitsOwner: the advance is not suppressed.
NeverAwaits(c) == FALSE

AwaitsOwner(c) == calls[c].saved.status = "BUILDING"

TestsPass(c) ==
  LET l == calls[c].saved.loop
  IN  /\ Waiting(c, "runTests")
      /\ IF AwaitsOwner(c)
           THEN /\ EnterOwnerReview(c, "PASS_REVIEW", disk)
                /\ UNCHANGED orch
           ELSE /\ \E after \in Tools!Outcomes(orch[l],
                           AdvanceTo(l, "REVIEWER_CODE_AND_SECURITY")) :
                     Moves(l, AdvanceTo(l, "REVIEWER_CODE_AND_SECURITY"), after)
                /\ UNCHANGED <<mvp, disk, unseen>>
      /\ Finish(c)
      /\ UNCHANGED <<files, accepted, signed>>

\* Mutant of OwnerArbitrates: only outstanding changes bring the owner in.
OwnerArbitratesChanges(c) ==
  AwaitsOwner(c) /\ disk[calls[c].saved.loop].feedback > 0

\* A failure goes to the owner when it concerns changes of theirs, or when
\* the one self-repair the loop has for free is spent.
OwnerArbitrates(c) ==
  /\ AwaitsOwner(c)
  /\ disk[calls[c].saved.loop].feedback > 0 \/ calls[c].count >= 1

\* _snapshotBestAttempt keeps the first attempt that failed, and a later one
\* when it is better; how good an attempt is, is left open.  A snapshot that
\* could not be written is one of which nothing can be restored.
Snapshots(best) == {{files}} \union IF best = {} THEN {} ELSE {best}

\* The cap has ended the loop: its best attempt is put back, and the state
\* read again before its status is flipped.
Escalated(c, artifacts) ==
  /\ files' \in Restored(artifacts, calls[c].saved.loop, files)
  /\ IF AwaitsOwner(c) /\ mvp.status = "BUILDING"
       THEN SaveState([mvp EXCEPT !.status = "CAP_REACHED"])
       ELSE UNCHANGED mvp

\* The attempt is kept if it is the best so far; then the owner is asked or
\* the loop goes back.
TestsFail(c) ==
  LET l  == calls[c].saved.loop
      lb == Tools!LoopBack(orch[l])
  IN  \E kept \in Snapshots(disk[l].best) :
        LET artifacts == [disk EXCEPT ![l].best = kept]
        IN  /\ Waiting(c, "runTests")
            /\ IF OwnerArbitrates(c)
                 THEN /\ EnterOwnerReview(c, "FAIL_REVIEW", artifacts)
                      /\ UNCHANGED <<orch, files>>
                 ELSE /\ disk' = artifacts
                      /\ \E after \in Tools!Outcomes(orch[l], lb) :
                           /\ Moves(l, lb, after)
                           /\ IF Done(l, lb, after) /\ after.state = "ESCALATED"
                                THEN Escalated(c, artifacts)
                                ELSE UNCHANGED <<mvp, files>>
                      /\ unseen' = IF AwaitsOwner(c)
                                     THEN [unseen EXCEPT ![l] = IF @ < 2 THEN @ + 1 ELSE 2]
                                     ELSE unseen
            /\ Finish(c)
            /\ UNCHANGED <<accepted, signed>>

-----------------------------------------------------------------------------
(* _handleMvpReview: the owner's reply, interpreted by a model             *)

BeginReview(c) ==
  /\ Idle(c)
  /\ mvp.status = "AWAITING_OWNER_REVIEW"
  /\ WaitFor(c, "ownerReview", {}, 0)
  /\ UNCHANGED <<orch, mvp, disk, files, mvpHistory>>

\* Not understood, or an acceptance that does not fit the report: the owner
\* is asked again and the state saved as it was read.
ReplyUnclear(c) ==
  /\ Waiting(c, "ownerReview")
  /\ SaveState(calls[c].saved)
  /\ Finish(c)
  /\ UNCHANGED <<orch, disk, files, mvpHistory>>

\* Mutant of Informed: a bare acceptance is taken for any report.
AnyAcceptance(decision, report) ==
  decision = "ACCEPT_WITH_FAILING_TESTS" => report = "FAIL_REVIEW"

\* A bare acceptance of a failing slice is not an informed decision.
Informed(decision, report) ==
  (decision = "ACCEPT_WITH_FAILING_TESTS") <=> (report = "FAIL_REVIEW")

\* The advance runTests suppressed is made now, and then the state saved.
ReplyAccept(c) ==
  \E decision \in {"ACCEPT", "ACCEPT_WITH_FAILING_TESTS"} :
    LET saved  == calls[c].saved
        l      == saved.loop
        writes == AdvanceTo(l, "REVIEWER_CODE_AND_SECURITY")
    IN  /\ Waiting(c, "ownerReview")
        /\ At(l, "RUN_TESTS")
        /\ Informed(decision, calls[c].report)
        /\ \E after \in Tools!Outcomes(orch[l], writes) :
             /\ Moves(l, writes, after)
             /\ IF Done(l, writes, after)
                  THEN /\ SaveState([saved EXCEPT
                            !.status  = StatusAfter(@, "ACCEPTED"),
                            !.failing = @ \/ decision # "ACCEPT"])
                       /\ accepted' = accepted \union saved.scope
                       /\ signed' = [signed EXCEPT ![l] = calls[c].report]
                  ELSE UNCHANGED <<mvp, accepted, signed>>
        /\ Finish(c)
        /\ UNCHANGED <<disk, files, unseen>>

\* The request replaces the one before it, the loop goes back, or escalates
\* at the cap, and then the state is saved.
ReplyRefine(c) ==
  \E persistFails \in MayFail :
    LET saved  == calls[c].saved
        l      == saved.loop
        writes == Tools!LoopBack(orch[l])
    IN  /\ Waiting(c, "ownerReview")
        /\ At(l, "RUN_TESTS")
        /\ disk[l].feedback < MaxChanges
        /\ IF persistFails
             THEN UNCHANGED <<mvp, orch, disk>>
             ELSE /\ disk' = [disk EXCEPT ![l].feedback = @ + 1]
                  /\ \E after \in Tools!Outcomes(orch[l], writes) :
                       /\ Moves(l, writes, after)
                       /\ IF Done(l, writes, after)
                            THEN SaveState([saved EXCEPT !.status =
                                   StatusAfter(@, IF after.state = "ESCALATED"
                                     THEN "CAP_REACHED" ELSE "BUILDING")])
                            ELSE UNCHANGED mvp
        /\ Finish(c)
        /\ UNCHANGED <<files, mvpHistory>>

-----------------------------------------------------------------------------
(* _handleMvpReengage: the owner asks for more of the same project         *)

\* Mutant of SliceAllowed: one slice too many.
SlicePassed(block) == block.scope # Criteria

\* sliceBoundCheck
SliceAllowed(block) == block.index < MaxSlices /\ block.scope # Criteria

BeginReengage(c) ==
  /\ Idle(c)
  /\ mvp.status = "ACCEPTED" /\ SliceAllowed(mvp) /\ disk[mvp.loop].spec
  /\ WaitFor(c, "reengage", {}, 0)
  /\ UNCHANGED <<mvp, orch, disk, files, mvpHistory>>

\* What interpretReengagement takes for a request: remaining criteria only.
Requests(block) == (SUBSET (Criteria \ block.scope)) \ {{}}

\* validateNextSliceScope: a strict superset of what is built.
ValidNextScope(scope, built) == ValidScope(scope) /\ built \subseteq scope /\ built # scope

\* The scope proposed is what is built with what is requested.
NextScopes(block) ==
  {s \in {block.scope \union request : request \in Requests(block)} :
     ValidNextScope(s, block.scope)}

SliceWalk == <<"OWNER_INTENT", "ARCHITECT_DESIGN", "SPEC_WRITER_FORMALIZE",
               "REVIEWER_SPEC", "COST_ESTIMATE", "ENV_REPORT">>

\* validateWalk, before the walk and before each of its hops.
WalkAllowed ==
  \A i \in 1 .. Len(SliceWalk) - 1 :
    TransitionAllowed(SliceWalk[i], SliceWalk[i + 1])

Hop(l, i) == Tools!AdvanceState(l, SliceWalk[i + 1], "VACUOUS_SKIP")

\* The new loop after the first i states of the walk.
Walked[i \in 1 .. Len(SliceWalk)] ==
  IF i = 1 THEN Tools!Completed(Tools!NoLoop,
                                Tools!StartLoop(Tools!NoLoop, FALSE))
  ELSE Tools!Completed(Walked[i - 1], Hop(Walked[i - 1], i - 1))

\* The loops a slice that could not be opened may leave behind.
Abandoned ==
  {Walked[Len(SliceWalk)]} \union
  UNION {Tools!Stopped(Walked[i], Hop(Walked[i], i)) :
           i \in BreakingHops}

NewLoop(l) ==
  /\ orch[l].file = "absent"
  /\ \A k \in LoopIds : orch[k].file = "absent" => l <= k

NextSlice(saved, l, scope) ==
  [saved EXCEPT !.status = "SCOPE_DERIVED", !.loop = l, !.scope = scope,
                !.index = @ + 1]

\* Mutant of OpenSlice: the project is moved before its loop is walked.
OpenSliceEarly(saved, l, scope) ==
  \E carried \in MayFail :
    /\ mvp' = NextSlice(saved, l, scope)
    /\ orch' = [orch EXCEPT ![l] = IF carried THEN Walked[1]
                                   ELSE Walked[Len(SliceWalk)]]
    /\ disk' = [disk EXCEPT ![l] = [NoDisk EXCEPT !.spec = ~carried,
                                                  !.scope = scope]]

\* start_loop, spec.json and architect_design.json carried over, the walk,
\* persistScope, saveState; whichever of them fails ends the turn.
OpenSlice(saved, l, scope) ==
  \/ /\ orch' = [orch EXCEPT ![l] = Walked[Len(SliceWalk)]]
     /\ disk' = [disk EXCEPT ![l] = [NoDisk EXCEPT !.spec  = TRUE,
                                                   !.scope = scope]]
     /\ SaveState(NextSlice(saved, l, scope))
  \/ \E part \in Abandoned, carried \in BOOLEAN :
       /\ "io" \in Faults
       /\ ~carried => part = Walked[1]
       /\ orch' = [orch EXCEPT ![l] = part]
       /\ disk' = [disk EXCEPT ![l].spec = carried]
       /\ UNCHANGED mvp

Reengage(c) ==
  \E l \in LoopIds, scope \in NextScopes(calls[c].saved) :
    /\ Waiting(c, "reengage")
    /\ WalkAllowed
    /\ NewLoop(l)
    /\ OpenSlice(calls[c].saved, l, scope)
    /\ Finish(c)
    /\ UNCHANGED <<files, mvpHistory>>

-----------------------------------------------------------------------------
(* The rest of the pipeline, as far as it moves the loop of a slice        *)

\* The owner answers Gate 1 for the plan of a further slice.
RespondGate1 ==
  \E response \in GateResponses[1] :
    LET writes == Tools!Respond(orch[mvp.loop], 1, response)
    IN  /\ At(mvp.loop, "ENV_REPORT")
        /\ \E after \in Tools!Outcomes(orch[mvp.loop], writes) :
             Moves(mvp.loop, writes, after)
        /\ UNCHANGED <<mvp, disk, files, calls, mvpHistory>>

\* The reviewers send an accepted slice back.
ReviewersReject ==
  LET writes == Tools!LoopBack(orch[mvp.loop])
  IN  /\ At(mvp.loop, "REVIEWER_CODE_AND_SECURITY")
      /\ \E after \in Tools!Outcomes(orch[mvp.loop], writes) :
           Moves(mvp.loop, writes, after)
      /\ UNCHANGED <<mvp, disk, files, calls, mvpHistory>>

-----------------------------------------------------------------------------
MvpTurn(c) ==
  \/ GiveUp(c)
  \/ BeginDesign(c)   \/ DeriveScope(c) \/ DesignTests(c)
  \/ BeginBuild(c)    \/ FinishBuild(c) \/ FailBuild(c) \/ RejectRebuild(c)
  \/ BeginTests(c)    \/ TestsPass(c)   \/ TestsFail(c)
  \/ BeginReview(c)   \/ ReplyUnclear(c) \/ ReplyAccept(c) \/ ReplyRefine(c)
  \/ BeginReengage(c) \/ Reengage(c)

MvpNext == (\E c \in Calls : MvpTurn(c)) \/ RespondGate1 \/ ReviewersReject

MvpSpec == MvpInit /\ [][MvpNext]_mvpVars

\* The client calls the stage that is due until it moves the loop; a role
\* or test run that may fail does not fail every time it is tried.
MvpDriven ==
  \A c \in Calls :
    /\ WF_mvpVars(BeginBuild(c)) /\ SF_mvpVars(FinishBuild(c))
    /\ WF_mvpVars(BeginTests(c)) /\ SF_mvpVars(TestsPass(c) \/ TestsFail(c))

DrivenMvpSpec == MvpSpec /\ MvpDriven

-----------------------------------------------------------------------------
(* Properties *)

\* An accepted slice is never built away (the reason validateNextSliceScope
\* gives for itself): the project directory is shared by all slices, and
\* what is rebuilt into it, in whatever slice, written to it in part, or put
\* back into it from an earlier attempt that failed its tests, was made for
\* every criterion the owner has accepted so far.
AcceptedKept == accepted \subseteq files.criteria

\* A further slice is opened whole or not at all ("the whole new-slice
\* construction completes BEFORE project_state is touched"): the loop the
\* project names has its specification, is past the walk, and its
\* mvp_scope.json is the scope in the block.
SliceWhole ==
  /\ disk[mvp.loop].spec
  /\ orch[mvp.loop].file = "ok"
  /\ \A i \in 1 .. Len(SliceWalk) - 1 : orch[mvp.loop].state # SliceWalk[i]
  /\ mvp.status # "INACTIVE" => disk[mvp.loop].scope = mvp.scope

\* The ceiling on rebuilds ("3 x 5 = 15 rebuild iterations per project,
\* ever"): the cap bounds each loop and the slice bound the loops that are
\* rebuilt, failed openings of a slice and their retries included.
RebuildCeiling == Cardinality({l \in LoopIds : orch[l].count > 0}) <= MaxSlices

\* The status in project_state.json follows the declared transitions,
\* although most saves do not look at the status they replace.
StatusEdges ==
  [][mvp'.status # mvp.status => mvp'.status \in MvpTransitions[mvp.status]]_mvp

\* No slice gets past RUN_TESTS without its owner: a loop enters the
\* reviewers' state only when the owner has accepted its slice, in this turn
\* or before the reviewers sent it back.
OwnerDecides ==
  [][\A l \in LoopIds :
       orch'[l].state = "REVIEWER_CODE_AND_SECURITY"
         /\ orch[l].state # "REVIEWER_CODE_AND_SECURITY"
       => signed'[l] # "none"]_mvpVars

\* A slice accepted on a report of failing tests carries the mark that all
\* later stages show (accepted_with_failing_tests).
FailingAcceptanceMarked ==
  mvp.status = "ACCEPTED" /\ signed[mvp.loop] = "FAIL_REVIEW" => mvp.failing

\* What the owner is shown was built with what they asked for last, however
\* often the build and its tests were repeated in between.
ChangesReachReview ==
  mvp.status = "AWAITING_OWNER_REVIEW" =>
    files.changes = disk[mvp.loop].feedback

\* The owner is consulted after at most one silent repair: no second failing
\* run of a slice under construction goes by without a report.
OneSilentRepair == \A l \in LoopIds : unseen[l] <= 1

\* A slice under construction comes before its owner, or the cap ends it.
OwnerConsulted ==
  mvp.status = "BUILDING" ~>
    mvp.status \in {"AWAITING_OWNER_REVIEW", "CAP_REACHED"}

\* While a review is pending the loop is held at RUN_TESTS.
ReviewHeld ==
  mvp.status = "AWAITING_OWNER_REVIEW" => orch[mvp.loop].state = "RUN_TESTS"
=============================================================================
