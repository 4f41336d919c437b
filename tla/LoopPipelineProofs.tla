-------------------------- MODULE LoopPipelineProofs --------------------------
(***************************************************************************)
(* Proofs about the stage handlers, for any number of calls in flight, any *)
(* cap and any faults: a handler changes the directory of a loop by one    *)
(* tool call per turn, so that all of OrchestrationToolsProofs holds of    *)
(* the pipeline; and no stage whose handler checks the write of its report *)
(* is passed without the report.                                           *)
(*                                                                         *)
(* Then about one call at a time.  What reaches the documentation is the   *)
(* build that was tested and approved, and no call leaves a terminal       *)
(* state: both need what is known of the build in every state of the loop, *)
(* and that a call in flight still finds the loop where it began.  And,    *)
(* without faults, a loop ended by its tests is left with its best failing *)
(* build: the kept attempt must never be worse than a score in the log.    *)
(***************************************************************************)
EXTENDS LoopPipeline, OrchestrationToolsProofs, FiniteSetTheorems, WellFoundedInduction

-----------------------------------------------------------------------------
(* The handlers implement the tools *)

\* A project that is still discussing its idea has no loop, and nothing of
\* its pipeline is running.
Unstarted ==
  mode = "IDEA_REVIEW" =>
    /\ loop.file = "absent"
    /\ \A c \in Calls : Idle(c)

\* Moving the loop is a call of orchestration.advance_state.
LEMMA MoveIsCall ==
  ASSUME NEW to \in States, loop' \in MoveOutcomes(to)
  PROVE  CallAdvanceState
  BY DEF MoveOutcomes, CallAdvanceState, Does

\* Every state a simple stage moves to is a state of the graph.
LEMMA TargetsAreStates == \A stage : Targets(stage) \subseteq States
  BY DEF Targets, States, ForwardStates, TerminalStates

\* Each turn is one tool call, or leaves the directory alone.
LEMMA TurnIsCall ==
  ASSUME Unstarted, PipelineNext
  PROVE  ToolNext \/ UNCHANGED loop
<1>1. ASSUME NEW c \in Calls, CallTurn(c)
      PROVE  ToolNext \/ UNCHANGED loop
  <2>1. CASE ConfirmIdea(c)
    BY <2>1 DEF ConfirmIdea, Unstarted, ToolNext, CallStartLoop, Does,
                Outcomes
  <2>2. CASE CommitSimple(c)
    <3>1. loop' = loop \/ \E to \in States : loop' \in MoveOutcomes(to)
      BY <2>2, TargetsAreStates DEF CommitSimple
    <3> QED BY <3>1, MoveIsCall DEF ToolNext
  <2>3. CASE FinishBuild(c)
    <3>1. loop' = loop \/ loop' \in MoveOutcomes("RUN_TESTS")
      BY <2>3 DEF FinishBuild
    <3> QED BY <3>1, MoveIsCall DEF ToolNext, States, ForwardStates
  <2>4. CASE TestsPass(c)
    BY <2>4, MoveIsCall DEF TestsPass, ToolNext, States, ForwardStates
  <2>5. CASE TestsFail(c)
    BY <2>5 DEF TestsFail, ToolNext, CallLoopBack, Does
  <2>6. CASE ReviewProject(c)
    <3>1. \/ loop' = loop
          \/ loop' \in MoveOutcomes("DOCUMENTATION")
          \/ loop' \in Outcomes(loop, LoopBack(loop))
      BY <2>6 DEF ReviewProject
    <3> QED BY <3>1, MoveIsCall
            DEF ToolNext, CallLoopBack, Does, States, ForwardStates
  <2>7. CASE PassAudit(c)
    BY <2>7, MoveIsCall DEF PassAudit, ToolNext, States, ForwardStates
  <2>8. CASE \/ Begin(c) \/ GiveUp(c) \/ WriteFiles(c)
             \/ RejectRebuild(c) \/ DocumentProject(c)
    BY <2>8 DEF Begin, GiveUp, WriteFiles, RejectRebuild, DocumentProject
  <2> QED BY <1>1, <2>1, <2>2, <2>3, <2>4, <2>5, <2>6, <2>7, <2>8
          DEF CallTurn
<1>2. CASE SkipDeployment
  BY <1>2 DEF SkipDeployment, ToolNext, CallAdvanceState, Does, States,
              ForwardStates
<1>3. CASE FinalizeDeliverable
  <2>1. loop' = loop \/ loop' \in MoveOutcomes("COMPLETE")
    BY <1>3 DEF FinalizeDeliverable
  <2> QED BY <2>1, MoveIsCall DEF ToolNext, States, TerminalStates
<1>4. CASE RespondGate
  BY <1>4 DEF RespondGate, AtGate, ToolNext, CallRespond, Does
<1>5. CASE Crash
  BY <1>5 DEF Crash
<1> QED BY <1>1, <1>2, <1>3, <1>4, <1>5 DEF PipelineNext

\* confirmIdea is the only handler that can run before there is a loop.
LEMMA UnstartedStep ==
  ASSUME Unstarted, [PipelineNext]_pipelineVars
  PROVE  Unstarted'
<1>1. CASE UNCHANGED pipelineVars
  BY <1>1 DEF pipelineVars, Unstarted, Idle
<1>2. CASE mode # "IDEA_REVIEW"
  <2>1. mode' # "IDEA_REVIEW"
    BY <1>2
       DEF PipelineNext, pipelineVars, CallTurn, ConfirmIdea, Begin, GiveUp,
           CommitSimple, WriteFiles, RejectRebuild, FinishBuild, TestsPass,
           TestsFail, ReviewProject, DocumentProject, PassAudit,
           SkipDeployment, FinalizeDeliverable, RespondGate, Crash
  <2> QED BY <2>1 DEF Unstarted
<1>3. CASE mode = "IDEA_REVIEW" /\ PipelineNext
  <2>1. loop.file = "absent" /\ \A c \in Calls : calls[c].stage = "idle"
    BY <1>3 DEF Unstarted, Idle
  <2>2. PICK c \in Calls : ConfirmIdea(c)
    BY <1>3, <2>1
       DEF PipelineNext, CallTurn, Begin, GiveUp, CommitSimple, WriteFiles,
           RejectRebuild, FinishBuild, TestsPass, TestsFail, ReviewProject,
           DocumentProject, PassAudit, SkipDeployment, FinalizeDeliverable,
           RespondGate, Crash, Waiting, Idle, SimpleStages
  <2> QED BY <2>2 DEF ConfirmIdea, Unstarted
<1> QED BY <1>1, <1>2, <1>3

\* The handlers, however many are in flight and wherever their turns stop,
\* implement the specification of the tools.
THEOREM ImplementsTools == PipelineSpec => ToolSpec
<1>1. PipelineInit => ToolInit /\ Unstarted
  BY DEF PipelineInit, ToolInit, NoLoop, Unstarted, Idle, IdleCall
<1>2. Unstarted /\ [PipelineNext]_pipelineVars => Unstarted'
  BY UnstartedStep
<1>3. Unstarted /\ [PipelineNext]_pipelineVars => [ToolNext]_loop
  BY TurnIsCall DEF pipelineVars
<1> QED BY <1>1, <1>2, <1>3, PTL DEF PipelineSpec, ToolSpec

\* Hence the pipeline keeps what the tools keep: the audit log, the charges
\* and the escalation documents, whichever handlers overlap.
THEOREM PipelineGood == PipelineSpec => []Good(loop)
  BY ImplementsTools, AlwaysGood, PTL

\* In particular the log and the graph of a loop stay in step.
THEOREM PipelineAuditTrail == PipelineSpec => []AuditBracketsState
  BY ImplementsTools, AuditTrail, PTL

-----------------------------------------------------------------------------
(* Where a call may leave the loop *)

\* A call that writes only directories of certain states leaves the loop in
\* one of them, or where it was.
LEMMA OutcomeStates ==
  ASSUME NEW l \in Loops, NEW writes \in Seq(WriteRecords), NEW S,
         \A i \in 1 .. Len(writes) : writes[i].disk.state \in S
  PROVE  \A m \in Outcomes(l, writes) : m.state \in S \union {l.state}
<1>1. Len(writes) \in Nat
      /\ \A i \in 1 .. Len(writes) : writes[i].disk \in Loops
  <2>1. Len(writes) \in Nat
        /\ \A i \in 1 .. Len(writes) : writes[i] \in WriteRecords
    OBVIOUS
  <2> QED BY <2>1 DEF WriteRecords
<1>2. \A i \in 0 .. Len(writes) :
        /\ After(l, writes, i) \in Loops
        /\ After(l, writes, i).state \in S \union {l.state}
  <2>1. TAKE i \in 0 .. Len(writes)
  <2>2. CASE i = 0
    BY <2>2 DEF After
  <2>3. CASE i # 0
    BY <1>1, <2>3 DEF After
  <2> QED BY <2>2, <2>3
<1>3. Completed(l, writes).state \in S \union {l.state}
  BY <1>1, <1>2 DEF Completed
<1>4. \A m \in Stopped(l, writes) : m.state \in S \union {l.state}
  BY <1>1, <1>2 DEF Stopped
<1>5. \A m \in Torn(l, writes) : m.state \in S \union {l.state}
  <2>1. TAKE m \in Torn(l, writes)
  <2>2. PICK i \in 1 .. Len(writes) :
          m = [After(l, writes, i - 1) EXCEPT !.file = "torn"]
    BY <2>1 DEF Torn
  <2>3. /\ After(l, writes, i - 1) \in Loops
        /\ After(l, writes, i - 1).state \in S \union {l.state}
    BY <1>1, <1>2, <2>2
  <2>4. m.state = After(l, writes, i - 1).state
    BY <2>2, <2>3 DEF Loops
  <2> QED BY <2>3, <2>4
<1> QED BY <1>3, <1>4, <1>5 DEF Outcomes

\* A refused call leaves the directory as it was.
LEMMA RefusedOutcome == \A l : Outcomes(l, <<>>) = {l}
<1>1. TAKE l
<1>2. Len(<<>>) = 0
  OBVIOUS
<1>3. Completed(l, <<>>) = l /\ Stopped(l, <<>>) = {} /\ Torn(l, <<>>) = {}
  BY <1>2 DEF Completed, After, Stopped, Torn
<1> QED BY <1>3 DEF Outcomes

\* A move ends at its target or where it began.
LEMMA MoveStates ==
  ASSUME NEW l, Good(l), l.file = "ok", NEW row \in Rows, row.from = l.state,
         row.type \notin {"LOOP_BACK", "ESCALATE"}
  PROVE  \A m \in Outcomes(l, Move(l, row)) : m.state \in {row.to, l.state}
<1> DEFINE w == Move(l, row)
<1>1. l \in Loops /\ w \in Seq(WriteRecords)
  BY MoveSound DEF Good, Sound
<1>2. Len(w) = 2 /\ w[1].disk = Logged(l, row)
      /\ w[2].disk = StateSet(Logged(l, row), row.to)
  BY DEF Move, Write
<1>3. w[1].disk.state = l.state /\ w[2].disk.state = row.to
  BY <1>1, <1>2 DEF Logged, StateSet, Loops
<1>4. \A i \in 1 .. Len(w) : w[i].disk.state \in {row.to, l.state}
  BY <1>2, <1>3
<1> QED BY <1>1, <1>4, OutcomeStates

\* A loop-back ends at BUILDER, ESCALATED or where it began.
LEMMA LoopBackStates ==
  ASSUME NEW l, Good(l), l.file = "ok"
  PROVE  \A m \in Outcomes(l, LoopBack(l)) :
           m.state \in {"BUILDER", "ESCALATED", l.state}
<1> DEFINE w == LoopBack(l)
           S == {"BUILDER", "ESCALATED", l.state}
<1>1. l \in Loops /\ w \in Seq(WriteRecords)
  BY LoopBackSound DEF Good, Sound
<1>2. \A i \in 1 .. Len(w) : w[i].disk.state \in S
  <2>1. CASE CapExceeded(l)
    <3> DEFINE d == Documented(l)
               row == Row(l.state, "ESCALATED", "ESCALATE")
    <3>1. w = <<Write("doc", d)>> \o <<Write("log", Logged(d, row)),
               Write("graph", StateSet(Logged(d, row), "ESCALATED"))>>
      BY <2>1 DEF LoopBack, TryAdvanceForLoopBack, TriggerEscalation, Move,
                  Row
    <3>2. Len(w) = 3 /\ w[1].disk = d /\ w[2].disk = Logged(d, row)
          /\ w[3].disk = StateSet(Logged(d, row), "ESCALATED")
      BY <3>1 DEF Write
    <3>3. d.state = l.state /\ Logged(d, row).state = l.state
          /\ StateSet(Logged(d, row), "ESCALATED").state = "ESCALATED"
      BY <1>1 DEF Documented, Logged, StateSet, Loops
    <3> QED BY <3>2, <3>3
  <2>2. CASE ~CapExceeded(l)
    <3> DEFINE d == Charged(l)
               row == Row(l.state, "BUILDER", "LOOP_BACK")
    <3>1. w = <<Write("graph", d)>> \o <<Write("log", Logged(d, row)),
               Write("graph", StateSet(Logged(d, row), "BUILDER"))>>
      BY <2>2 DEF LoopBack, TryAdvanceForLoopBack, Move, Row
    <3>2. Len(w) = 3 /\ w[1].disk = d /\ w[2].disk = Logged(d, row)
          /\ w[3].disk = StateSet(Logged(d, row), "BUILDER")
      BY <3>1 DEF Write
    <3>3. d.state = l.state /\ Logged(d, row).state = l.state
          /\ StateSet(Logged(d, row), "BUILDER").state = "BUILDER"
      BY <1>1 DEF Charged, Logged, StateSet, Loops
    <3> QED BY <3>2, <3>3
  <2> QED BY <2>1, <2>2
<1>3. \A m \in Outcomes(l, w) : m.state \in S \union {l.state}
  <2> HIDE DEF w, S
  <2> QED BY <1>1, <1>2, OutcomeStates
<1> QED BY <1>3

\* The same, of a directory whose graph may be unreadable.
LEMMA AdvanceOutcome ==
  ASSUME NEW l, Good(l), NEW to \in States,
         NEW type \in {"NORMAL", "VACUOUS_SKIP"},
         NEW m \in Outcomes(l, AdvanceState(l, to, type)), m.file = "ok"
  PROVE  l.file = "ok" /\ m.state \in {to, l.state}
<1>1. CASE l.file # "ok"
  BY <1>1, RefusedOutcome DEF AdvanceState
<1>2. CASE l.file = "ok"
  <2>1. Row(l.state, to, type) \in Rows
    BY DEF Good, Loops, Row, Rows, RowTypes
  <2> QED BY <1>2, <2>1, MoveStates DEF AdvanceState, Row
<1> QED BY <1>1, <1>2

LEMMA LoopBackOutcome ==
  ASSUME NEW l, Good(l), NEW m \in Outcomes(l, LoopBack(l)), m.file = "ok"
  PROVE  l.file = "ok" /\ m.state \in {"BUILDER", "ESCALATED", l.state}
<1>1. CASE l.file # "ok"
  BY <1>1, RefusedOutcome DEF LoopBack
<1>2. CASE l.file = "ok"
  BY <1>2, LoopBackStates
<1> QED BY <1>1, <1>2

\* An answer to a gate ends at BUILDER, ESCALATED or TEST_DESIGN, moves on
\* among the stages after the review, or ends where it began.
LEMMA GateOutcome ==
  ASSUME NEW l, Good(l), l.file = "ok", NEW g \in GateIds, l.state = GateHost[g],
         NEW response \in GateResponses[g], NEW m \in Outcomes(l, Respond(l, g, response)),
         m.file = "ok"
  PROVE  \/ m.state \in {"BUILDER", "ESCALATED", "TEST_DESIGN", l.state}
         \/ /\ l.state \in {"QUALITY_JUDGE", "DEPLOYMENT_OR_END"}
            /\ m.state \in {"DEPLOYMENT_OR_END", "LIVE_DELIVERABLE"}
<1>1. CASE response = "REJECT_AND_LOOP"
  <2>1. m \in Outcomes(l, LoopBack(l))
    BY <1>1 DEF Respond
  <2> QED BY <2>1, LoopBackOutcome
<1>2. CASE response # "REJECT_AND_LOOP"
  <2> DEFINE row == Row(GateHost[g], GateNext(g, response),
                        GateRowType(response))
  <2>1. /\ row \in Rows /\ row.from = l.state
        /\ row.type \notin {"LOOP_BACK", "ESCALATE"}
        /\ row.to = GateNext(g, response)
    <3>1. GateHost[g] \in States
      BY DEF Good, Loops
    <3>2. GateNext(g, response) \in States
      BY <1>2 DEF GateIds, GateResponses, GateNext, States,
                  ForwardStates, TerminalStates
    <3>3. GateRowType(response) \in RowTypes \ {"LOOP_BACK", "ESCALATE"}
      BY DEF GateRowType, RowTypes
    <3> QED BY <3>1, <3>2, <3>3 DEF Row, Rows
  <2>2. m \in Outcomes(l, Move(l, row))
    BY <1>2 DEF Respond
  <2>3. m.state \in {GateNext(g, response), l.state}
    BY <2>1, <2>2, MoveStates
  <2>4. \/ GateNext(g, response) \in {"ESCALATED", "TEST_DESIGN"}
        \/ /\ l.state \in {"QUALITY_JUDGE", "DEPLOYMENT_OR_END"}
           /\ GateNext(g, response) \in {"DEPLOYMENT_OR_END", "LIVE_DELIVERABLE"}
    BY <1>2 DEF GateHost, GateIds, GateResponses, GateNext
  <2> QED BY <2>3, <2>4
<1> QED BY <1>1, <1>2

-----------------------------------------------------------------------------
(* Reports precede moves *)

\* The inductive invariant.  A call that waits in the documentation stage
\* was admitted after the review report was written, and its own document is
\* written before it waits for the audit; it asks for neither again, so both
\* must be known of every call in flight.
Reported ==
  /\ ReportsPrecedeMoves
  /\ calls = [c \in Calls |-> calls[c]]
  /\ \A c \in Calls :
       /\ Waiting(c, "documentProject") => "review_report" \in artifacts
       /\ Waiting(c, "auditDocumentation") =>
            {"review_report", "documentation"} \subseteq artifacts

\* The states before the review's report is due.
EarlyStates == States \ {"DOCUMENTATION", "QUALITY_JUDGE",
                         "DEPLOYMENT_OR_END", "LIVE_DELIVERABLE", "COMPLETE"}

\* A loop that stays, or goes to an early state, owes no new report.
LEMMA NothingDue ==
  ASSUME ReportsPrecedeMoves, artifacts \subseteq artifacts',
         loop'.file = "ok" => /\ loop.file = "ok"
                              /\ loop'.state \in EarlyStates \union {loop.state}
  PROVE  ReportsPrecedeMoves'
  BY DEF ReportsPrecedeMoves, EarlyStates

\* A call that ends, or waits for something else than the documentation,
\* keeps what is known of the calls in flight.
LEMMA CallEnds ==
  ASSUME Reported, artifacts \subseteq artifacts', NEW c \in Calls, NEW r,
         calls' = [calls EXCEPT ![c] = r],
         r.stage \notin {"documentProject", "auditDocumentation"}
  PROVE  /\ calls' = [d \in Calls |-> calls'[d]]
         /\ \A d \in Calls :
              /\ Waiting(d, "documentProject")' => "review_report" \in artifacts'
              /\ Waiting(d, "auditDocumentation")' =>
                   {"review_report", "documentation"} \subseteq artifacts'
  BY DEF Reported, Waiting

\* What a call waits for is its stage.
LEMMA Waits ==
  ASSUME NEW c, NEW stage, WaitFor(c, stage)
  PROVE  \E r : calls' = [calls EXCEPT ![c] = r] /\ r.stage = stage
<1> DEFINE r == [stage   |-> stage,
                 seen    |-> IF stage \in {"runTests", "reviewProject"}
                               THEN files ELSE NoBuild,
                 rebuild |-> stage = "buildProject" /\ loop.count > 0]
<1>1. calls' = [calls EXCEPT ![c] = r]
  BY Zenon DEF WaitFor
<1>2. r.stage = stage
  BY Zenon
<1> HIDE DEF r
<1> QED BY <1>1, <1>2

LEMMA Continues ==
  ASSUME NEW c, NEW stage, NEW seen, Continue(c, stage, seen)
  PROVE  \E r : calls' = [calls EXCEPT ![c] = r] /\ r.stage = stage
<1> DEFINE r == [stage |-> stage, seen |-> seen, rebuild |-> calls[c].rebuild]
<1>1. calls' = [calls EXCEPT ![c] = r]
  BY DEF Continue
<1>2. r.stage = stage
  OBVIOUS
<1> HIDE DEF r
<1> QED BY <1>1, <1>2

\* confirmIdea creates the loop at the architect.
LEMMA Started ==
  ASSUME Good(loop)
  PROVE  /\ Completed(loop, StartLoop(loop, TRUE)).state = "ARCHITECT_DESIGN"
         /\ Completed(loop, StartLoop(loop, TRUE)).last.type = "NORMAL"
<1> DEFINE w == StartLoop(loop, TRUE)
           row == Row("OWNER_INTENT", "ARCHITECT_DESIGN", "NORMAL")
           logged == Logged(Created(loop), row)
           moved == StateSet(logged, row.to)
           w1 == Write("graph", Created(loop))
           w2 == Write("log", logged)
           w3 == Write("graph", moved)
<1>1. w = <<w1>> \o <<w2, w3>>
  BY DEF StartLoop, Move
<1>2. w3.disk = moved
  BY DEF Write
<1>3. Len(w) = 3 /\ w[3] = w3
  <2> HIDE DEF w1, w2, w3, w
  <2> QED BY <1>1
<1>4. moved.state = "ARCHITECT_DESIGN" /\ moved.last.type = "NORMAL"
  BY DEF StateSet, Logged, Created, Row, Good, Loops
<1> HIDE DEF w3, w, moved
<1>5. Completed(loop, w) = w[3].disk
  BY <1>3 DEF Completed, After
<1> QED BY <1>2, <1>3, <1>4, <1>5 DEF w

\* Each turn keeps the invariant.
LEMMA ReportedStep ==
  ASSUME Good(loop), Unstarted, Reported, [PipelineNext]_pipelineVars
  PROVE  Reported'
<1> USE DEF Finish, IdleCall
<1>1. CASE UNCHANGED pipelineVars
  BY <1>1 DEF pipelineVars, Reported, ReportsPrecedeMoves, Waiting
<1>2. ASSUME NEW c \in Calls, CallTurn(c)
      PROVE  Reported'
  <2>1. CASE ConfirmIdea(c)
    <3>1. artifacts' = artifacts /\ loop.file = "absent"
      BY <2>1 DEF ConfirmIdea, Unstarted
    <3>2. loop' = loop \/ loop'.state = "ARCHITECT_DESIGN"
      <4>1. CASE loop' = loop
        BY <4>1
      <4>2. CASE loop' = Completed(loop, StartLoop(loop, TRUE))
        BY <4>2, Started
      <4> QED BY <2>1, <4>1, <4>2 DEF ConfirmIdea
    <3>3. ReportsPrecedeMoves'
      BY <3>1, <3>2 DEF ReportsPrecedeMoves
    <3>4. \/ calls' = calls
          \/ \E r : calls' = [calls EXCEPT ![c] = r] /\ r.stage = "architect"
      BY <2>1, Waits DEF ConfirmIdea
    <3> QED BY <3>1, <3>3, <3>4, CallEnds DEF Reported, Waiting
  <2>2. CASE Begin(c)
    <3>1. PICK stage \in {HostStage[s] : s \in DOMAIN HostStage} :
            /\ loop.file = "ok"
            /\ AtHost(stage)
            /\ WaitFor(c, stage)
            /\ UNCHANGED <<loop, artifacts>>
      BY <2>2 DEF Begin
    <3>2. stage = "documentProject" => "review_report" \in artifacts
      <4>1. stage = "documentProject" => loop.state = "DOCUMENTATION"
        BY <3>1 DEF AtHost, HostStage
      <4> QED BY <3>1, <4>1 DEF Reported, ReportsPrecedeMoves
    <3>3. stage # "auditDocumentation"
      BY <3>1 DEF HostStage
    <3>4. PICK r : calls' = [calls EXCEPT ![c] = r] /\ r.stage = stage
      BY <3>1, Waits
    <3>5. ReportsPrecedeMoves'
      BY <3>1 DEF Reported, ReportsPrecedeMoves
    <3> QED BY <3>1, <3>2, <3>3, <3>4, <3>5 DEF Reported, Waiting
  <2>3. CASE GiveUp(c) \/ RejectRebuild(c)
    <3>1. UNCHANGED <<loop, artifacts>> /\ Finish(c)
      BY <2>3 DEF GiveUp, RejectRebuild
    <3>2. ReportsPrecedeMoves'
      BY <3>1 DEF Reported, ReportsPrecedeMoves
    <3> QED BY <3>1, <3>2, CallEnds DEF Reported
  <2>4. CASE CommitSimple(c)
    <3>1. Finish(c) /\ artifacts \subseteq artifacts'
      BY <2>4 DEF CommitSimple
    <3>2. loop' = loop \/ \E to \in EarlyStates : loop' \in MoveOutcomes(to)
      <4>1. \A stage : Targets(stage) \subseteq EarlyStates
        BY DEF Targets, EarlyStates, States, ForwardStates, TerminalStates
      <4> QED BY <2>4, <4>1 DEF CommitSimple
    <3>3. ReportsPrecedeMoves'
      <4>1. loop'.file = "ok" => loop.file = "ok" /\
              loop'.state \in EarlyStates \union {loop.state}
        BY <3>2, AdvanceOutcome DEF MoveOutcomes, EarlyStates
      <4> QED BY <3>1, <4>1, NothingDue DEF Reported
    <3> QED BY <3>1, <3>3, CallEnds DEF Reported
  <2>5. CASE WriteFiles(c)
    <3>1. /\ UNCHANGED <<loop, artifacts>>
          /\ \E r : calls' = [calls EXCEPT ![c] = r]
                    /\ r.stage \in {"idle", "smokeBuild"}
      <4>1. UNCHANGED <<loop, artifacts>>
            /\ (Finish(c) \/ \E b : Continue(c, "smokeBuild", b))
        BY <2>5 DEF WriteFiles
      <4>2. IdleCall.stage = "idle"
        OBVIOUS
      <4>3. CASE Finish(c)
        BY <4>1, <4>2, <4>3
      <4>4. CASE \E b : Continue(c, "smokeBuild", b)
        BY <4>1, <4>4, Continues
      <4> QED BY <4>1, <4>3, <4>4
    <3>2. ReportsPrecedeMoves'
      BY <3>1 DEF Reported, ReportsPrecedeMoves
    <3> QED BY <3>1, <3>2, CallEnds DEF Reported
  <2>6. CASE FinishBuild(c) \/ TestsPass(c)
    <3>1. /\ Finish(c) /\ artifacts' = artifacts
          /\ \/ loop' = loop
             \/ loop' \in MoveOutcomes("RUN_TESTS")
             \/ loop' \in MoveOutcomes("REVIEWER_CODE_AND_SECURITY")
      BY <2>6 DEF FinishBuild, TestsPass
    <3>2. {"RUN_TESTS", "REVIEWER_CODE_AND_SECURITY"} \subseteq EarlyStates
      BY DEF EarlyStates, States, ForwardStates
    <3>3. loop'.file = "ok" => loop.file = "ok" /\
            loop'.state \in EarlyStates \union {loop.state}
      BY <3>1, <3>2, AdvanceOutcome DEF MoveOutcomes, EarlyStates
    <3>4. ReportsPrecedeMoves'
      BY <3>1, <3>3, NothingDue DEF Reported
    <3> QED BY <3>1, <3>4, CallEnds DEF Reported
  <2>7. CASE TestsFail(c)
    <3>1. Finish(c) /\ artifacts' = artifacts
          /\ loop' \in Outcomes(loop, LoopBack(loop))
      BY <2>7 DEF TestsFail
    <3>2. loop'.file = "ok" => loop.file = "ok" /\
            loop'.state \in EarlyStates \union {loop.state}
      BY <3>1, LoopBackOutcome
         DEF EarlyStates, States, ForwardStates, TerminalStates
    <3>3. ReportsPrecedeMoves'
      BY <3>1, <3>2, NothingDue DEF Reported
    <3> QED BY <3>1, <3>3, CallEnds DEF Reported
  <2>8. CASE ReviewProject(c)
    <3>1. Finish(c) /\ artifacts \subseteq artifacts'
      BY <2>8 DEF ReviewProject
    <3>2. \/ loop' = loop
          \/ loop' \in Outcomes(loop, LoopBack(loop))
          \/ /\ loop' \in MoveOutcomes("DOCUMENTATION")
             /\ "review_report" \in artifacts'
      BY <2>8 DEF ReviewProject
    <3>3. CASE loop' = loop \/ loop' \in Outcomes(loop, LoopBack(loop))
      <4>1. loop'.file = "ok" => loop.file = "ok" /\
              loop'.state \in EarlyStates \union {loop.state}
        BY <3>3, LoopBackOutcome
           DEF EarlyStates, States, ForwardStates, TerminalStates
      <4> QED BY <3>1, <4>1, NothingDue, CallEnds DEF Reported
    <3>4. CASE /\ loop' \in MoveOutcomes("DOCUMENTATION")
               /\ "review_report" \in artifacts'
      <4>1. loop'.file = "ok" => loop.file = "ok" /\
              loop'.state \in {"DOCUMENTATION", loop.state}
        BY <3>4, AdvanceOutcome DEF MoveOutcomes, States, ForwardStates
      <4>2. ReportsPrecedeMoves'
        BY <3>1, <3>4, <4>1 DEF Reported, ReportsPrecedeMoves
      <4> QED BY <3>1, <4>2, CallEnds DEF Reported
    <3> QED BY <3>2, <3>3, <3>4
  <2>9. CASE DocumentProject(c)
    <3>1. loop' = loop /\ artifacts \subseteq artifacts'
          /\ Waiting(c, "documentProject")
      BY <2>9 DEF DocumentProject
    <3>2. ReportsPrecedeMoves'
      BY <3>1 DEF Reported, ReportsPrecedeMoves
    <3>3. \/ Finish(c)
          \/ /\ \E r : calls' = [calls EXCEPT ![c] = r]
                       /\ r.stage = "auditDocumentation"
             /\ "documentation" \in artifacts'
      BY <2>9 DEF DocumentProject, Continue, Checked
    <3>4. CASE Finish(c)
      BY <3>1, <3>2, <3>4, CallEnds DEF Reported
    <3>5. CASE /\ \E r : calls' = [calls EXCEPT ![c] = r]
                         /\ r.stage = "auditDocumentation"
               /\ "documentation" \in artifacts'
      BY <3>1, <3>2, <3>5 DEF Reported, Waiting
    <3> QED BY <3>3, <3>4, <3>5
  <2>10. CASE PassAudit(c)
    <3>1. Finish(c) /\ artifacts' = artifacts
          /\ loop' \in MoveOutcomes("QUALITY_JUDGE")
          /\ {"review_report", "documentation"} \subseteq artifacts
      BY <2>10 DEF PassAudit, Reported
    <3>2. loop'.file = "ok" => loop.file = "ok" /\
            loop'.state \in {"QUALITY_JUDGE", loop.state}
      BY <3>1, AdvanceOutcome DEF MoveOutcomes, States, ForwardStates
    <3>3. ReportsPrecedeMoves'
      BY <3>1, <3>2 DEF Reported, ReportsPrecedeMoves
    <3> QED BY <3>1, <3>3, CallEnds DEF Reported
  <2> QED BY <1>2, <2>1, <2>2, <2>3, <2>4, <2>5, <2>6, <2>7, <2>8, <2>9,
             <2>10 DEF CallTurn
<1>3. CASE SkipDeployment
  <2>1. /\ loop.state = "DEPLOYMENT_OR_END" /\ UNCHANGED <<artifacts, calls>>
        /\ loop' \in Outcomes(loop,
                       AdvanceState(loop, "LIVE_DELIVERABLE", "VACUOUS_SKIP"))
    BY <1>3 DEF SkipDeployment
  <2>2. loop'.file = "ok" => loop.file = "ok" /\
          loop'.state \in {"LIVE_DELIVERABLE", loop.state}
    BY <2>1, AdvanceOutcome DEF States, ForwardStates
  <2> QED BY <2>1, <2>2 DEF Reported, ReportsPrecedeMoves, Waiting
<1>4. CASE FinalizeDeliverable
  <2>1. /\ loop.file = "ok" /\ loop.state = "LIVE_DELIVERABLE"
        /\ artifacts \subseteq artifacts' /\ calls' = calls
        /\ \/ loop' = loop
           \/ loop' \in MoveOutcomes("COMPLETE") /\ "summary" \in artifacts'
    BY <1>4 DEF FinalizeDeliverable, Checked
  <2>2. loop'.file = "ok" =>
          \/ loop'.state = loop.state
          \/ loop'.state = "COMPLETE" /\ "summary" \in artifacts'
    BY <2>1, AdvanceOutcome DEF MoveOutcomes, States, TerminalStates
  <2> QED BY <2>1, <2>2 DEF Reported, ReportsPrecedeMoves, Waiting
<1>5. CASE RespondGate
  <2>0. PICK g \in GateIds : \E response \in GateResponses[g] :
          /\ loop.file = "ok" /\ AtGate(g)
          /\ loop' \in Outcomes(loop, Respond(loop, g, response))
          /\ UNCHANGED <<artifacts, calls>>
    BY <1>5 DEF RespondGate
  <2>1. PICK response \in GateResponses[g] :
          /\ loop.file = "ok" /\ AtGate(g)
          /\ loop' \in Outcomes(loop, Respond(loop, g, response))
          /\ UNCHANGED <<artifacts, calls>>
    BY <2>0
  <2>2. loop'.file = "ok" =>
          \/ loop'.state \in EarlyStates \union {loop.state}
          \/ /\ loop.state \in {"QUALITY_JUDGE", "DEPLOYMENT_OR_END"}
             /\ loop'.state \in {"DEPLOYMENT_OR_END", "LIVE_DELIVERABLE"}
    BY <2>1, GateOutcome
       DEF AtGate, EarlyStates, States, ForwardStates, TerminalStates
  <2>3. ReportsPrecedeMoves'
    BY <2>1, <2>2 DEF Reported, ReportsPrecedeMoves, EarlyStates
  <2> QED BY <2>1, <2>3 DEF Reported, Waiting
<1>6. CASE Crash
  <2>1. UNCHANGED <<loop, artifacts>> /\ calls' = [c \in Calls |-> IdleCall]
    BY <1>6 DEF Crash
  <2> QED BY <2>1 DEF Reported, ReportsPrecedeMoves, Waiting
<1> QED BY <1>1, <1>2, <1>3, <1>4, <1>5, <1>6 DEF PipelineNext

\* For every set of calls in flight, every cap and every fault, no stage
\* whose handler checks the write of its report is passed without it.
THEOREM ReportsPrecede == PipelineSpec => []ReportsPrecedeMoves
<1>1. PipelineInit => Unstarted /\ Reported
  BY DEF PipelineInit, ToolInit, NoLoop, Unstarted, Reported,
         ReportsPrecedeMoves, Waiting, Idle, IdleCall
<1>2. Unstarted /\ [PipelineNext]_pipelineVars => Unstarted'
  BY UnstartedStep
<1>3. Good(loop) /\ Unstarted /\ Reported /\ [PipelineNext]_pipelineVars
        => Reported'
  BY ReportedStep
<1>4. Reported => ReportsPrecedeMoves
  BY DEF Reported
<1> QED BY <1>1, <1>2, <1>3, <1>4, PipelineGood, PTL DEF PipelineSpec

-----------------------------------------------------------------------------
(* One call at a time                                                      *)
(*                                                                         *)
(* The state is tested before a handler waits and not after, so that what  *)
(* follows needs one handler in flight at a time: then the loop is still   *)
(* where the call was admitted when it resumes, since the handlers of a    *)
(* single turn, which are not kept out, move it only among other states.   *)

\* Where the loop is while a call that will move it waits.
Host ==
  [architect          |-> "ARCHITECT_DESIGN",
   formalizeSpec      |-> "SPEC_WRITER_FORMALIZE",
   reviewSpec         |-> "REVIEWER_SPEC",
   estimateCost       |-> "COST_ESTIMATE",
   designTests        |-> "TEST_DESIGN",
   buildProject       |-> "BUILDER",
   smokeBuild         |-> "BUILDER",
   runTests           |-> "RUN_TESTS",
   reviewProject      |-> "REVIEWER_CODE_AND_SECURITY",
   documentProject    |-> "DOCUMENTATION",
   auditDocumentation |-> "DOCUMENTATION"]

Late == {"DOCUMENTATION", "QUALITY_JUDGE", "DEPLOYMENT_OR_END",
         "LIVE_DELIVERABLE", "COMPLETE"}

\* A call still sees the files it has written or is judging.
Seeing == {"smokeBuild", "runTests", "reviewProject"}

CallPlaced(c) ==
  /\ calls[c].stage \in DOMAIN Host => loop.state = Host[calls[c].stage]
  /\ calls[c].stage \in Seeing => calls[c].seen = files

\* What is known of the build at each stage.
BuildKnown ==
  /\ loop.state \in {"RUN_TESTS", "REVIEWER_CODE_AND_SECURITY"} \union Late
       => files = manifest
  /\ loop.state \in {"REVIEWER_CODE_AND_SECURITY"} \union Late
       => Passes(manifest) /\ tested = manifest.id
  /\ loop.state \in Late => approved = manifest.id

Verified ==
  loop.file = "ok" => BuildKnown /\ \A c \in Calls : CallPlaced(c)

OneAtATime == \A c, d \in Calls : c = d

\* A loop that stays, or goes where nothing is known of a build, with a call
\* that has ended.
LEMMA EndedVerified ==
  ASSUME Verified, Reported, OneAtATime, NEW c \in Calls, Finish(c),
         loop'.file = "ok" => loop.file = "ok" /\ BuildKnown'
  PROVE  Verified'
<1>1. calls'[c] = IdleCall
  BY DEF Finish, Reported
<1>2. \A d \in Calls : CallPlaced(d)'
  BY <1>1 DEF OneAtATime, CallPlaced, IdleCall, Host, Seeing
<1> QED BY <1>2 DEF Verified

\* A call's record as it begins to wait.
LEMMA WaitRecord ==
  ASSUME Reported, NEW c \in Calls, NEW stage, WaitFor(c, stage)
  PROVE  /\ calls'[c].stage = stage
         /\ stage \in {"runTests", "reviewProject"} => calls'[c].seen = files
<1> DEFINE r == [stage   |-> stage,
                 seen    |-> IF stage \in {"runTests", "reviewProject"}
                               THEN files ELSE NoBuild,
                 rebuild |-> stage = "buildProject" /\ loop.count > 0]
<1>1. calls' = [calls EXCEPT ![c] = r]
  BY Zenon DEF WaitFor
<1>2. r.stage = stage /\ (stage \in {"runTests", "reviewProject"} => r.seen = files)
  OBVIOUS
<1> HIDE DEF r
<1>3. calls'[c] = r
  BY <1>1 DEF Reported
<1> QED BY <1>2, <1>3

LEMMA ContinueRecord ==
  ASSUME Reported, NEW c \in Calls, NEW stage, NEW seen, Continue(c, stage, seen)
  PROVE  calls'[c].stage = stage /\ calls'[c].seen = seen
<1> DEFINE r == [stage |-> stage, seen |-> seen, rebuild |-> calls[c].rebuild]
<1>1. calls' = [calls EXCEPT ![c] = r]
  BY DEF Continue
<1>2. r.stage = stage /\ r.seen = seen
  OBVIOUS
<1> HIDE DEF r
<1>3. calls'[c] = r
  BY <1>1 DEF Reported
<1> QED BY <1>2, <1>3

\* A loop-back beyond the cap, run to its end, escalates.
LEMMA Escalated ==
  ASSUME Good(loop), LoopBack(loop) # <<>>, CapExceeded(loop)
  PROVE  LET m == Completed(loop, LoopBack(loop)) IN
           m.state = "ESCALATED" /\ m.last = Row(loop.state, "ESCALATED", "ESCALATE")
<1> DEFINE d == Documented(loop)
           row == Row(loop.state, "ESCALATED", "ESCALATE")
           logged == Logged(d, row)
           moved == StateSet(logged, "ESCALATED")
           w1 == Write("doc", d)
           w2 == Write("log", logged)
           w3 == Write("graph", moved)
           w == LoopBack(loop)
<1>1. w = <<w1>> \o <<w2, w3>>
  BY DEF LoopBack, TryAdvanceForLoopBack, TriggerEscalation, Move, Row
<1>2. w3.disk = moved
  BY DEF Write
<1>3. Len(w) = 3 /\ w[3] = w3
  <2> HIDE DEF w1, w2, w3, w
  <2> QED BY <1>1
<1>4. moved.state = "ESCALATED" /\ moved.last = row
  BY DEF StateSet, Logged, Documented, Good, Loops
<1> HIDE DEF w3, w, moved, row
<1>5. Completed(loop, w) = w[3].disk
  BY <1>3 DEF Completed, After
<1> QED BY <1>2, <1>3, <1>4, <1>5 DEF w, row

LEMMA CallVerified ==
  ASSUME Good(loop), Unstarted, Reported, Verified, OneAtATime,
         NEW c \in Calls, CallTurn(c)
  PROVE  Verified'
<1> USE DEF Waiting
<1>1. CASE ConfirmIdea(c)
  <2>1. loop.file = "absent" /\ \A d \in Calls : calls[d].stage = "idle"
    BY <1>1 DEF ConfirmIdea, Unstarted, Idle
  <2>2. CASE loop' = loop
    BY <2>1, <2>2 DEF Verified
  <2>3. CASE /\ loop' = Completed(loop, StartLoop(loop, TRUE))
             /\ WaitFor(c, "architect")
    <3>1. loop'.state = "ARCHITECT_DESIGN"
      BY <2>3, Started
    <3>2. calls'[c].stage = "architect"
      BY <2>3, WaitRecord
    <3> QED BY <3>1, <3>2
            DEF Verified, BuildKnown, CallPlaced, Host, Late, Seeing, OneAtATime
  <2> QED BY <1>1, <2>2, <2>3 DEF ConfirmIdea
<1>2. CASE Begin(c)
  <2>1. PICK stage \in {HostStage[s] : s \in DOMAIN HostStage} :
          /\ loop.file = "ok" /\ AtHost(stage) /\ WaitFor(c, stage)
          /\ UNCHANGED <<loop, files, manifest, tested, approved>>
    BY <1>2 DEF Begin, builds, history
  <2>2. stage \in DOMAIN Host => loop.state = Host[stage]
    BY <2>1 DEF AtHost, HostStage, Host
  <2>3. stage # "smokeBuild"
    BY <2>1 DEF HostStage
  <2>4. CallPlaced(c)'
    BY <2>1, <2>2, <2>3, WaitRecord DEF CallPlaced, Seeing
  <2>5. BuildKnown'
    BY <2>1 DEF Verified, BuildKnown
  <2> QED BY <2>4, <2>5 DEF Verified, OneAtATime
<1>3. CASE GiveUp(c)
  <2>1. Finish(c) /\ UNCHANGED <<loop, files, manifest, tested, approved>>
    BY <1>3 DEF GiveUp, builds, history
  <2>2. Verified => (loop.file = "ok" => BuildKnown')
    BY <2>1 DEF Verified, BuildKnown
  <2> QED BY <2>1, <2>2, EndedVerified
<1>4. CASE CommitSimple(c)
  <2>1. Finish(c) /\ UNCHANGED <<files, manifest, tested, approved>>
    BY <1>4 DEF CommitSimple, builds, history
  <2>2. \/ loop' = loop
        \/ \E to \in {"SPEC_WRITER_FORMALIZE", "REVIEWER_SPEC", "COST_ESTIMATE",
                      "ESCALATED", "ENV_REPORT", "BUILDER"} : loop' \in MoveOutcomes(to)
    <3>1. \A stage : Targets(stage) \subseteq
            {"SPEC_WRITER_FORMALIZE", "REVIEWER_SPEC", "COST_ESTIMATE",
             "ESCALATED", "ENV_REPORT", "BUILDER"}
      BY DEF Targets
    <3> QED BY <1>4, <3>1 DEF CommitSimple
  <2>3. loop'.file = "ok" =>
          /\ loop.file = "ok"
          /\ loop'.state \in {loop.state, "SPEC_WRITER_FORMALIZE", "REVIEWER_SPEC",
                              "COST_ESTIMATE", "ESCALATED", "ENV_REPORT", "BUILDER"}
    <3>1. ASSUME NEW to \in {"SPEC_WRITER_FORMALIZE", "REVIEWER_SPEC", "COST_ESTIMATE",
                             "ESCALATED", "ENV_REPORT", "BUILDER"},
                 loop' \in MoveOutcomes(to), loop'.file = "ok"
          PROVE  loop.file = "ok" /\ loop'.state \in {to, loop.state}
      <4>1. to \in States
        BY DEF States, ForwardStates, TerminalStates
      <4> QED BY <3>1, <4>1, AdvanceOutcome DEF MoveOutcomes
    <3> QED BY <2>2, <3>1
  <2>4. loop'.file = "ok" => loop.file = "ok" /\ BuildKnown'
    BY <2>1, <2>3 DEF Verified, BuildKnown, Late
  <2> QED BY <2>1, <2>4, EndedVerified
<1>5. CASE WriteFiles(c)
  <2>1. UNCHANGED <<loop, manifest, tested, approved>> /\ calls[c].stage = "buildProject"
    BY <1>5 DEF WriteFiles, history
  <2>2. loop.file = "ok" => loop.state = "BUILDER"
    BY <2>1 DEF Verified, CallPlaced, Host
  <2>3. loop.file = "ok" => BuildKnown'
    BY <2>1, <2>2 DEF BuildKnown, Late
  <2>4. CASE Finish(c)
    BY <2>1, <2>3, <2>4, EndedVerified
  <2>5. CASE \E b : files' = b /\ Continue(c, "smokeBuild", b)
    <3>1. PICK b : files' = b /\ Continue(c, "smokeBuild", b)
      BY <2>5
    <3>2. calls'[c].stage = "smokeBuild" /\ calls'[c].seen = b
      BY <3>1, ContinueRecord
    <3>3. loop.file = "ok" => CallPlaced(c)'
      BY <2>1, <2>2, <3>1, <3>2 DEF CallPlaced, Host
    <3> QED BY <2>1, <2>3, <3>3 DEF Verified, OneAtATime
  <2> QED BY <1>5, <2>4, <2>5 DEF WriteFiles
<1>6. CASE RejectRebuild(c)
  <2>1. UNCHANGED <<loop, tested, approved>> /\ calls[c].stage = "smokeBuild" /\ Finish(c)
    BY <1>6 DEF RejectRebuild, history
  <2>2. loop.file = "ok" => loop.state = "BUILDER"
    BY <2>1 DEF Verified, CallPlaced, Host
  <2>3. loop.file = "ok" => BuildKnown'
    BY <2>1, <2>2 DEF BuildKnown, Late
  <2> QED BY <2>1, <2>3, EndedVerified
<1>7. CASE FinishBuild(c)
  <2>1. PICK writeFails \in MayFail :
          /\ manifest' = IF writeFails THEN manifest ELSE calls[c].seen
          /\ loop' \in IF writeFails THEN {loop} ELSE MoveOutcomes("RUN_TESTS")
          /\ calls[c].stage = "smokeBuild" /\ Finish(c)
          /\ UNCHANGED <<files, tested, approved>>
    BY <1>7 DEF FinishBuild, history
  <2>2. loop.file = "ok" => loop.state = "BUILDER" /\ calls[c].seen = files
    BY <2>1 DEF Verified, CallPlaced, Host, Seeing
  <2>3. CASE writeFails
    <3>1. loop.file = "ok" => BuildKnown'
      BY <2>1, <2>2, <2>3 DEF BuildKnown, Late
    <3> QED BY <2>1, <2>3, <3>1, EndedVerified
  <2>4. CASE ~writeFails
    <3>1. loop' \in MoveOutcomes("RUN_TESTS") /\ manifest' = calls[c].seen
      BY <2>1, <2>4
    <3>2. loop'.file = "ok" => loop.file = "ok" /\ loop'.state \in {"RUN_TESTS", loop.state}
      BY <3>1, AdvanceOutcome DEF MoveOutcomes, States, ForwardStates
    <3>3. loop'.file = "ok" => loop.file = "ok" /\ BuildKnown'
      BY <2>1, <2>2, <3>1, <3>2 DEF BuildKnown, Late
    <3> QED BY <2>1, <3>3, EndedVerified
  <2> QED BY <2>3, <2>4
<1>8. CASE TestsPass(c)
  <2>1. /\ calls[c].stage = "runTests" /\ Passes(calls[c].seen) /\ Finish(c)
        /\ loop' \in MoveOutcomes("REVIEWER_CODE_AND_SECURITY")
        /\ tested' = calls[c].seen.id /\ UNCHANGED <<files, manifest, approved>>
    BY <1>8 DEF TestsPass, TestVerdict, builds
  <2>2. loop.file = "ok" => /\ loop.state = "RUN_TESTS" /\ calls[c].seen = files
                            /\ files = manifest
    BY <2>1 DEF Verified, CallPlaced, BuildKnown, Host, Seeing
  <2>3. loop'.file = "ok" => /\ loop.file = "ok"
                             /\ loop'.state \in {"REVIEWER_CODE_AND_SECURITY", loop.state}
    BY <2>1, AdvanceOutcome DEF MoveOutcomes, States, ForwardStates
  <2>4. loop'.file = "ok" => loop.file = "ok" /\ BuildKnown'
    BY <2>1, <2>2, <2>3 DEF BuildKnown, Late, Passes
  <2> QED BY <2>1, <2>4, EndedVerified
<1>9. CASE TestsFail(c)
  <2>1. /\ calls[c].stage = "runTests" /\ Finish(c) /\ loop' \in Outcomes(loop, LoopBack(loop))
        /\ UNCHANGED <<tested, approved>>
        /\ \/ UNCHANGED <<files, manifest>>
           \/ LoopBack(loop) # <<>> /\ CapExceeded(loop) /\ loop' = Completed(loop, LoopBack(loop))
    BY <1>9 DEF TestsFail
  <2>2. loop.file = "ok" => loop.state = "RUN_TESTS" /\ files = manifest
    BY <2>1 DEF Verified, CallPlaced, BuildKnown, Host
  <2>3. loop'.file = "ok" => /\ loop.file = "ok"
                             /\ loop'.state \in {"BUILDER", "ESCALATED", loop.state}
    BY <2>1, LoopBackOutcome
  <2>4. ASSUME LoopBack(loop) # <<>>, CapExceeded(loop),
               loop' = Completed(loop, LoopBack(loop))
        PROVE  loop'.state = "ESCALATED"
    BY <2>4, Escalated
  <2>5. loop'.file = "ok" => loop.file = "ok" /\ BuildKnown'
    BY <2>1, <2>2, <2>3, <2>4 DEF BuildKnown, Late
  <2> QED BY <2>1, <2>5, EndedVerified
<1>10. CASE ReviewProject(c)
  <2>1. /\ calls[c].stage = "reviewProject" /\ Finish(c)
        /\ UNCHANGED <<files, manifest, tested>>
    BY <1>10 DEF ReviewProject, builds
  <2>2. loop.file = "ok" => /\ loop.state = "REVIEWER_CODE_AND_SECURITY"
                            /\ calls[c].seen = files /\ files = manifest
                            /\ Passes(manifest) /\ tested = manifest.id
    BY <2>1 DEF Verified, CallPlaced, BuildKnown, Host, Seeing
  <2>3. \/ loop' = loop /\ approved' = approved
        \/ loop' \in MoveOutcomes("DOCUMENTATION") /\ approved' = calls[c].seen.id
        \/ loop' \in Outcomes(loop, LoopBack(loop)) /\ approved' = approved
    BY <1>10 DEF ReviewProject
  <2>4. loop'.file = "ok" =>
          /\ loop.file = "ok"
          /\ \/ loop'.state \in {"BUILDER", "ESCALATED", loop.state}
             \/ loop'.state = "DOCUMENTATION" /\ approved' = calls[c].seen.id
    BY <2>3, AdvanceOutcome, LoopBackOutcome DEF MoveOutcomes, States, ForwardStates
  <2>5. loop'.file = "ok" => loop.file = "ok" /\ BuildKnown'
    BY <2>1, <2>2, <2>4 DEF BuildKnown, Late, Passes
  <2> QED BY <2>1, <2>5, EndedVerified
<1>11. CASE DocumentProject(c)
  <2>1. /\ calls[c].stage = "documentProject"
        /\ UNCHANGED <<loop, files, manifest, tested, approved>>
        /\ Finish(c) \/ Continue(c, "auditDocumentation", NoBuild)
    BY <1>11 DEF DocumentProject, builds, history
  <2>2. loop.file = "ok" => loop.state = "DOCUMENTATION" /\ BuildKnown'
    BY <2>1 DEF Verified, CallPlaced, BuildKnown, Host
  <2>3. CASE Finish(c)
    BY <2>1, <2>2, <2>3, EndedVerified
  <2>4. CASE Continue(c, "auditDocumentation", NoBuild)
    <3>1. calls'[c].stage = "auditDocumentation"
      BY <2>4, ContinueRecord
    <3>2. loop.file = "ok" => CallPlaced(c)'
      BY <2>1, <2>2, <3>1 DEF CallPlaced, Host, Seeing
    <3> QED BY <2>1, <2>2, <3>2 DEF Verified, OneAtATime
  <2> QED BY <2>1, <2>3, <2>4
<1>12. CASE PassAudit(c)
  <2>1. /\ calls[c].stage = "auditDocumentation" /\ Finish(c)
        /\ loop' \in MoveOutcomes("QUALITY_JUDGE")
        /\ UNCHANGED <<files, manifest, tested, approved>>
    BY <1>12 DEF PassAudit, builds, history
  <2>2. loop.file = "ok" => loop.state = "DOCUMENTATION" /\ BuildKnown
    BY <2>1 DEF Verified, CallPlaced, Host
  <2>3. loop'.file = "ok" => loop.file = "ok" /\ loop'.state \in {"QUALITY_JUDGE", loop.state}
    BY <2>1, AdvanceOutcome DEF MoveOutcomes, States, ForwardStates
  <2>4. loop'.file = "ok" => loop.file = "ok" /\ BuildKnown'
    BY <2>1, <2>2, <2>3 DEF BuildKnown, Late
  <2> QED BY <2>1, <2>4, EndedVerified
<1> QED BY <1>1, <1>2, <1>3, <1>4, <1>5, <1>6, <1>7, <1>8, <1>9, <1>10, <1>11, <1>12
        DEF CallTurn

\* The handlers of a single turn leave the files alone, and a crash forgets
\* the call that waited.
LEMMA VerifiedStep ==
  ASSUME Good(loop), Unstarted, Reported, Verified, OneAtATime,
         [PipelineNext]_pipelineVars
  PROVE  Verified'
<1>1. CASE UNCHANGED pipelineVars
  BY <1>1 DEF pipelineVars, builds, Verified, BuildKnown, CallPlaced
<1>2. ASSUME UNCHANGED <<calls, files, manifest, tested, approved>>, loop.file = "ok",
             loop'.file = "ok" =>
               \/ loop'.state = loop.state
               \/ /\ loop.state \notin {s \in States : \E t \in DOMAIN Host : Host[t] = s}
                  /\ \/ loop'.state \in {"BUILDER", "ESCALATED", "TEST_DESIGN"}
                     \/ loop.state \in Late /\ loop'.state \in Late
      PROVE  Verified'
  <2> SUFFICES ASSUME loop'.file = "ok" PROVE Verified'
    BY DEF Verified
  <2>1. CASE loop'.state = loop.state
    BY <1>2, <2>1 DEF Verified, BuildKnown, CallPlaced
  <2>2. CASE loop'.state # loop.state
    <3>1. BuildKnown'
      BY <1>2, <2>2 DEF Verified, BuildKnown, Late
    <3>2. ASSUME NEW c \in Calls PROVE CallPlaced(c)'
      <4>1. calls[c].stage \notin DOMAIN Host
        BY <1>2, <2>2 DEF Verified, CallPlaced, Good, Loops
      <4> QED BY <1>2, <4>1 DEF Verified, CallPlaced
    <3> QED BY <3>1, <3>2 DEF Verified
  <2> QED BY <2>1, <2>2
<1>3. {s \in States : \E t \in DOMAIN Host : Host[t] = s} =
        {"ARCHITECT_DESIGN", "SPEC_WRITER_FORMALIZE", "REVIEWER_SPEC", "COST_ESTIMATE",
         "TEST_DESIGN", "BUILDER", "RUN_TESTS", "REVIEWER_CODE_AND_SECURITY", "DOCUMENTATION"}
  BY DEF Host, States, ForwardStates
<1>4. CASE SkipDeployment
  <2>1. /\ loop.state = "DEPLOYMENT_OR_END" /\ loop.file = "ok"
        /\ UNCHANGED <<calls, files, manifest, tested, approved>>
        /\ loop' \in Outcomes(loop, AdvanceState(loop, "LIVE_DELIVERABLE", "VACUOUS_SKIP"))
    BY <1>4 DEF SkipDeployment, builds, history
  <2>2. loop'.file = "ok" => loop'.state \in {"LIVE_DELIVERABLE", loop.state}
    BY <2>1, AdvanceOutcome DEF States, ForwardStates
  <2> QED BY <1>2, <1>3, <2>1, <2>2 DEF Late
<1>5. CASE FinalizeDeliverable
  <2>1. /\ loop.state = "LIVE_DELIVERABLE" /\ loop.file = "ok"
        /\ UNCHANGED <<calls, files, manifest, tested, approved>>
        /\ loop' = loop \/ loop' \in MoveOutcomes("COMPLETE")
    BY <1>5 DEF FinalizeDeliverable, builds, history
  <2>2. loop'.file = "ok" => loop'.state \in {"COMPLETE", loop.state}
    BY <2>1, AdvanceOutcome DEF MoveOutcomes, States, TerminalStates
  <2> QED BY <1>2, <1>3, <2>1, <2>2 DEF Late
<1>6. CASE RespondGate
  <2>0. PICK g \in GateIds : \E response \in GateResponses[g] :
          /\ loop.file = "ok" /\ AtGate(g)
          /\ loop' \in Outcomes(loop, Respond(loop, g, response))
          /\ UNCHANGED <<calls, files, manifest, tested, approved>>
    BY <1>6 DEF RespondGate, builds, history
  <2>1. PICK response \in GateResponses[g] :
          /\ loop.file = "ok" /\ AtGate(g)
          /\ loop' \in Outcomes(loop, Respond(loop, g, response))
          /\ UNCHANGED <<calls, files, manifest, tested, approved>>
    BY <2>0
  <2>2. loop'.file = "ok" =>
          \/ loop'.state \in {"BUILDER", "ESCALATED", "TEST_DESIGN", loop.state}
          \/ /\ loop.state \in {"QUALITY_JUDGE", "DEPLOYMENT_OR_END"}
             /\ loop'.state \in {"DEPLOYMENT_OR_END", "LIVE_DELIVERABLE"}
    BY <2>1, GateOutcome DEF AtGate
  <2>3. loop.state \in {"ENV_REPORT", "QUALITY_JUDGE", "DEPLOYMENT_OR_END"}
    BY <2>1 DEF AtGate, GateHost, GateIds
  <2> QED BY <1>2, <1>3, <2>1, <2>2, <2>3 DEF Late
<1>7. CASE Crash
  <2>1. UNCHANGED <<loop, files, manifest, tested, approved>>
        /\ calls' = [c \in Calls |-> IdleCall]
    BY <1>7 DEF Crash, builds, history
  <2>2. \A c \in Calls : CallPlaced(c)'
    BY <2>1 DEF CallPlaced, IdleCall, Host, Seeing
  <2> QED BY <2>1, <2>2 DEF Verified, BuildKnown
<1> QED BY <1>1, <1>4, <1>5, <1>6, <1>7, CallVerified DEF PipelineNext

\* A loop in a terminal state has no waiting call that would move it, and no
\* handler is admitted there.
LEMMA TerminalStays ==
  ASSUME Unstarted, Verified, PipelineNext, loop.file = "ok", loop.state \in TerminalStates
  PROVE  loop' = loop
<1> USE DEF Waiting, TerminalStates
<1>1. \A c \in Calls : calls[c].stage \notin DOMAIN Host
  BY DEF Verified, CallPlaced, Host
<1>2. ASSUME NEW c \in Calls, CallTurn(c) PROVE loop' = loop
  <2>1. ~ConfirmIdea(c)
    BY DEF ConfirmIdea, Unstarted
  <2>2. CASE CommitSimple(c)
    <3>1. PICK stage \in SimpleStages, writeFails \in MayFail :
            /\ calls[c].stage = stage
            /\ loop' \in IF Targets(stage) = {} \/ (writeFails /\ stage \in Checked)
                           THEN {loop} ELSE UNION {MoveOutcomes(to) : to \in Targets(stage)}
      BY <2>2 DEF CommitSimple
    <3>2. stage \in {"reportEnv", "judgeQuality", "deployProject"}
      BY <1>1, <3>1 DEF Host, SimpleStages
    <3>3. Targets(stage) = {}
      BY <3>2 DEF Targets
    <3> QED BY <3>1, <3>3
  <2>3. /\ ~FinishBuild(c) /\ ~TestsPass(c) /\ ~TestsFail(c)
        /\ ~ReviewProject(c) /\ ~PassAudit(c)
    BY <1>1 DEF FinishBuild, TestsPass, TestsFail, ReviewProject, PassAudit, Host
  <2> QED BY <1>2, <2>1, <2>2, <2>3
          DEF CallTurn, Begin, GiveUp, WriteFiles, RejectRebuild, DocumentProject
<1>3. ~SkipDeployment /\ ~FinalizeDeliverable
  BY DEF SkipDeployment, FinalizeDeliverable
<1>4. ~RespondGate
  BY DEF RespondGate, AtGate, GateHost, GateIds
<1> QED BY <1>2, <1>3, <1>4 DEF PipelineNext, Crash

\* What holds of the handlers one at a time, under every fault.
LEMMA SerialGood ==
  ASSUME OneAtATime
  PROVE  PipelineSpec => [](Good(loop) /\ Unstarted /\ Reported /\ Verified)
<1>1. PipelineInit => Unstarted /\ Reported /\ Verified
  BY DEF PipelineInit, ToolInit, NoLoop, Unstarted, Reported, Verified,
         ReportsPrecedeMoves, Waiting, Idle, IdleCall
<1>2. Unstarted /\ [PipelineNext]_pipelineVars => Unstarted'
  BY UnstartedStep
<1>3. Good(loop) /\ Unstarted /\ Reported /\ [PipelineNext]_pipelineVars => Reported'
  BY ReportedStep
<1>4. Good(loop) /\ Unstarted /\ Reported /\ Verified /\ [PipelineNext]_pipelineVars
        => Verified'
  BY VerifiedStep
<1> QED BY <1>1, <1>2, <1>3, <1>4, PipelineGood, PTL DEF PipelineSpec

\* With one handler in flight at a time, and whatever write fails, tears or
\* is cut off by a crash: from DOCUMENTATION to COMPLETE the files on disk
\* are the ones the manifest describes, the tests passed and the reviewers
\* approved.
THEOREM DeliverableVerified ==
  ASSUME OneAtATime PROVE PipelineSpec => []VerifiedDeliverable
<1>1. Verified => VerifiedDeliverable
  BY DEF Verified, BuildKnown, Late, VerifiedDeliverable
<1> QED BY <1>1, SerialGood, PTL

\* And no handler leaves a terminal state, though advance_state does not ask
\* the transition table.
THEOREM TerminalFinal ==
  ASSUME OneAtATime PROVE PipelineSpec => TerminalStatesFinal
<1>1. Unstarted /\ Verified /\ [PipelineNext]_pipelineVars =>
        [loop.file = "ok" /\ loop.state \in TerminalStates
           => loop'.state = loop.state]_loop
  BY TerminalStays DEF pipelineVars
<1> QED BY <1>1, SerialGood, PTL DEF PipelineSpec, TerminalStatesFinal

-----------------------------------------------------------------------------
(* The best attempt                                                        *)
(*                                                                         *)
(* For one call at a time and without faults: the restore is best-effort.  *)

LEMMA OneMore ==
  ASSUME NEW S, NEW x, NEW k \in Nat, IsFiniteSet(S), Cardinality(S) <= k
  PROVE  IsFiniteSet(S \cup {x}) /\ Cardinality(S \cup {x}) <= k + 1
<1>1. Cardinality(S) \in Nat
  BY FS_CardinalityType
<1>2. /\ IsFiniteSet(S \cup {x})
      /\ Cardinality(S \cup {x}) = Cardinality(S) \/ Cardinality(S \cup {x}) = Cardinality(S) + 1
  BY FS_AddElement
<1> QED BY <1>1, <1>2

\* There are more ids than references to a build, so a new build gets one.
LEMMA FreshIdIsNew == FreshId \in BuildIds
<1> DEFINE n == Cardinality(Calls)
           T == {calls[c].seen.id : c \in Calls}
           f == [c \in Calls |-> calls[c].seen.id]
<1>1. IsFiniteSet(Calls) /\ n \in Nat
  BY PipelineAssumption, FS_CardinalityType
<1>2. f \in Surjection(Calls, T)
  BY DEF Surjection
<1>3. IsFiniteSet(T) /\ Cardinality(T) <= n
  BY <1>1, <1>2, FS_Surjection
<1> DEFINE T1 == T \cup {files.id}
           T2 == T1 \cup {manifest.id}
           T3 == T2 \cup {best.build.id}
           T4 == T3 \cup {tested}
           T5 == T4 \cup {approved}
<1> HIDE DEF T, n, f
<1>4. IsFiniteSet(T1) /\ Cardinality(T1) <= n + 1
  BY <1>1, <1>3, OneMore
<1> HIDE DEF T1
<1>5. IsFiniteSet(T2) /\ Cardinality(T2) <= n + 2
  <2>1. n + 1 \in Nat /\ n + 1 + 1 = n + 2
    BY <1>1
  <2> QED BY <1>4, <2>1, OneMore
<1> HIDE DEF T2
<1>6. IsFiniteSet(T3) /\ Cardinality(T3) <= n + 3
  <2>1. n + 2 \in Nat /\ n + 2 + 1 = n + 3
    BY <1>1
  <2> QED BY <1>5, <2>1, OneMore
<1> HIDE DEF T3
<1>7. IsFiniteSet(T4) /\ Cardinality(T4) <= n + 4
  <2>1. n + 3 \in Nat /\ n + 3 + 1 = n + 4
    BY <1>1
  <2> QED BY <1>6, <2>1, OneMore
<1> HIDE DEF T4
<1>8. IsFiniteSet(T5) /\ Cardinality(T5) <= n + 5
  <2>1. n + 4 \in Nat /\ n + 4 + 1 = n + 5
    BY <1>1
  <2> QED BY <1>7, <2>1, OneMore
<1> HIDE DEF T5
<1>9. IsFiniteSet(1 .. 6 + n) /\ Cardinality(1 .. 6 + n) = 6 + n
  BY <1>1, FS_Interval
<1>10. ~(1 .. 6 + n \subseteq T5)
  <2> SUFFICES ASSUME 1 .. 6 + n \subseteq T5 PROVE FALSE
    OBVIOUS
  <2>1. Cardinality(1 .. 6 + n) <= Cardinality(T5)
    BY <1>8, FS_Subset
  <2>2. Cardinality(T5) \in Nat
    BY <1>8, FS_CardinalityType
  <2> QED BY <1>1, <1>8, <1>9, <2>1, <2>2
<1>11. IdsInUse = T5
  BY DEF IdsInUse, T, T1, T2, T3, T4, T5
<1> DEFINE F == BuildIds \ IdsInUse
<1>12. F \subseteq Nat /\ F # {}
  BY <1>1, <1>10, <1>11 DEF BuildIds, n
<1>13. PICK i \in F : \A j \in F : ~(<<j, i>> \in OpToRel(<, Nat))
  BY <1>12, NatLessThanWellFounded, WFMin
<1>14. \A j \in F : ~(j < i)
  BY <1>12, <1>13 DEF OpToRel
<1>15. \A j \in BuildIds : j < i => j \in IdsInUse
  BY <1>14
<1> QED BY <1>13, <1>15 DEF FreshId

\* The row a completed call leaves last.
LEMMA LastOfMove ==
  ASSUME NEW l, Good(l), NEW row
  PROVE  LET m == Completed(l, Move(l, row)) IN m.last = row /\ m.state = row.to
<1> DEFINE w1 == Write("log", Logged(l, row))
           moved == StateSet(Logged(l, row), row.to)
           w2 == Write("graph", moved)
           w == Move(l, row)
<1>1. w = <<w1, w2>>
  BY DEF Move
<1>2. w2.disk = moved
  BY DEF Write
<1>3. moved.last = row /\ moved.state = row.to
  BY DEF StateSet, Logged, Good, Loops
<1> HIDE DEF w1, w2, moved, w
<1>4. Len(w) = 2 /\ w[2] = w2
  BY <1>1
<1>5. Completed(l, w) = w[2].disk
  BY <1>4 DEF Completed, After
<1> QED BY <1>2, <1>3, <1>4, <1>5 DEF w

LEMMA LastOfLoopBack ==
  ASSUME Good(loop), LoopBack(loop) # <<>>, ~CapExceeded(loop)
  PROVE  Completed(loop, LoopBack(loop)).last = Row(loop.state, "BUILDER", "LOOP_BACK")
<1> DEFINE d == Charged(loop)
           row == Row(loop.state, "BUILDER", "LOOP_BACK")
           logged == Logged(d, row)
           moved == StateSet(logged, "BUILDER")
           w1 == Write("graph", d)
           w2 == Write("log", logged)
           w3 == Write("graph", moved)
           w == LoopBack(loop)
<1>1. w = <<w1>> \o <<w2, w3>>
  BY DEF LoopBack, TryAdvanceForLoopBack, Move, Row
<1>2. w3.disk = moved
  BY DEF Write
<1>3. Len(w) = 3 /\ w[3] = w3
  <2> HIDE DEF w1, w2, w3, w
  <2> QED BY <1>1
<1>4. moved.last = row
  BY DEF StateSet, Logged, Charged, Good, Loops
<1> HIDE DEF w3, w, moved, row
<1>5. Completed(loop, w) = w[3].disk
  BY <1>3 DEF Completed, After
<1> QED BY <1>2, <1>3, <1>4, <1>5 DEF w, row

LEMMA FaultFree ==
  ASSUME Faults = {} PROVE \A l, w : Outcomes(l, w) = {Completed(l, w)}
BY DEF Outcomes

\* A step that neither sends the loop to the tests nor ends it there.
Quiet ==
  loop'.file = "ok" =>
    /\ loop.file = "ok"
    /\ loop'.state = "RUN_TESTS" => loop.state = "RUN_TESTS"
    /\ EscalatedByTests' => EscalatedByTests

LEMMA QuietMove ==
  ASSUME Faults = {}, Good(loop), NEW to \in States \ {"RUN_TESTS"},
         NEW type \in {"NORMAL", "VACUOUS_SKIP"},
         loop' \in Outcomes(loop, AdvanceState(loop, to, type))
  PROVE  Quiet
<1>1. CASE loop.file # "ok"
  <2>1. loop' = loop
    BY <1>1, RefusedOutcome DEF AdvanceState
  <2> QED BY <1>1, <2>1 DEF Quiet
<1>2. CASE loop.file = "ok"
  <2> DEFINE row == Row(loop.state, to, type)
  <2>1. loop' = Completed(loop, Move(loop, row))
    BY <1>2, FaultFree DEF AdvanceState
  <2>2. loop'.last = row /\ loop'.state = row.to
    BY <2>1, LastOfMove
  <2>3. row.to = to /\ row.type # "ESCALATE"
    BY DEF Row
  <2>4. ~EscalatedByTests'
    BY <2>2, <2>3 DEF EscalatedByTests, Row
  <2> QED BY <1>2, <2>2, <2>3, <2>4 DEF Quiet
<1> QED BY <1>1, <1>2

LEMMA QuietLoopBack ==
  ASSUME Faults = {}, Good(loop), loop.file = "ok" => loop.state # "RUN_TESTS",
         loop' \in Outcomes(loop, LoopBack(loop))
  PROVE  Quiet
<1>1. CASE LoopBack(loop) = <<>>
  <2>1. loop' = loop
    BY <1>1, RefusedOutcome
  <2> QED BY <2>1 DEF Quiet, EscalatedByTests
<1>2. CASE LoopBack(loop) # <<>>
  <2>1. loop.file = "ok" /\ loop' = Completed(loop, LoopBack(loop))
    BY <1>2, FaultFree DEF LoopBack
  <2>2. loop'.last \in {Row(loop.state, "BUILDER", "LOOP_BACK"),
                        Row(loop.state, "ESCALATED", "ESCALATE")}
    BY <1>2, <2>1, LastOfLoopBack, Escalated
  <2>3. loop'.last.from = loop.state
    BY <2>2 DEF Row
  <2>4. ~EscalatedByTests'
    BY <2>1, <2>3 DEF EscalatedByTests, Row
  <2>5. loop'.file = "ok" => loop'.state \in {"BUILDER", "ESCALATED", loop.state}
    BY LoopBackOutcome
  <2> QED BY <2>1, <2>4, <2>5 DEF Quiet
<1> QED BY <1>1, <1>2

LEMMA QuietGate ==
  ASSUME Faults = {}, Good(loop), loop.file = "ok", NEW g \in GateIds, AtGate(g),
         NEW response \in GateResponses[g], loop' \in Outcomes(loop, Respond(loop, g, response))
  PROVE  Quiet
<1>1. loop.state \in {"ENV_REPORT", "QUALITY_JUDGE", "DEPLOYMENT_OR_END"}
  BY DEF AtGate, GateHost, GateIds
<1>2. CASE response = "REJECT_AND_LOOP"
  <2>1. loop' \in Outcomes(loop, LoopBack(loop))
    BY <1>2 DEF Respond
  <2> QED BY <1>1, <2>1, QuietLoopBack
<1>3. CASE response # "REJECT_AND_LOOP"
  <2> DEFINE row == Row(GateHost[g], GateNext(g, response), GateRowType(response))
  <2>1. loop' = Completed(loop, Move(loop, row))
    BY <1>3, FaultFree DEF Respond
  <2>2. loop'.last = row
    BY <2>1, LastOfMove
  <2>3. row.type # "ESCALATE"
    BY DEF Row, GateRowType
  <2>4. ~EscalatedByTests'
    BY <2>2, <2>3 DEF EscalatedByTests, Row
  <2>5. loop'.file = "ok" =>
          \/ loop'.state \in {"BUILDER", "ESCALATED", "TEST_DESIGN", loop.state}
          \/ loop'.state \in {"DEPLOYMENT_OR_END", "LIVE_DELIVERABLE"}
    BY GateOutcome DEF AtGate
  <2> QED BY <1>1, <2>4, <2>5 DEF Quiet
<1> QED BY <1>2, <1>3

\* The best attempt is a build that has failed with its recorded score, and
\* none has failed with a better one; what a loop ended by its tests has on
\* disk is the best attempt.
Ranked ==
  /\ files.quality \in Nat /\ best.build.quality \in Nat /\ best.score \in Int
  /\ loop.state = "RUN_TESTS" => manifest.id # 0
  /\ \A c \in Calls : calls[c].stage = "smokeBuild" => calls[c].seen.id # 0
  /\ best # NoBest => best.build.id # 0 /\ best.build.quality = best.score
  /\ \A s \in scores : s \in Nat /\ (s # MaxQuality => best # NoBest /\ s <= best.score)
  /\ EscalatedByTests => files = manifest /\ best # NoBest /\ files = best.build

Attempts ==
  /\ mode = "IDEA_REVIEW" => files = NoBuild /\ best = NoBest /\ scores = {}
  /\ loop.file = "ok" => Ranked

\* A step that leaves the builds alone and is quiet.
LEMMA QuietRanked ==
  ASSUME Attempts, Quiet, UNCHANGED <<files, manifest, best>>,
         scores' \subseteq scores \cup {MaxQuality},
         \A c \in Calls : calls'[c] = calls[c] \/ calls'[c].stage # "smokeBuild"
  PROVE  loop'.file = "ok" => Ranked'
<1> SUFFICES ASSUME loop'.file = "ok" PROVE Ranked'
  OBVIOUS
<1>1. Ranked /\ (loop'.state = "RUN_TESTS" => loop.state = "RUN_TESTS")
      /\ (EscalatedByTests' => EscalatedByTests)
  BY DEF Quiet, Attempts
<1>2. \A c \in Calls : calls'[c].stage = "smokeBuild" => calls'[c].seen.id # 0
  BY <1>1 DEF Ranked
<1>3. \A s \in scores' : s \in Nat /\ (s # MaxQuality => best # NoBest /\ s <= best.score)
  BY <1>1, PipelineAssumption DEF Ranked
<1> QED BY <1>1, <1>2, <1>3 DEF Ranked

LEMMA QuietStill == ASSUME loop' = loop PROVE Quiet
BY DEF Quiet, EscalatedByTests

LEMMA ModeMoves ==
  ASSUME Unstarted, PipelineNext, mode' = "IDEA_REVIEW"
  PROVE  FALSE
<1>1. mode = "IDEA_REVIEW"
  BY DEF PipelineNext, CallTurn, ConfirmIdea, Begin, GiveUp,
         CommitSimple, WriteFiles, RejectRebuild, FinishBuild, TestsPass,
         TestsFail, ReviewProject, DocumentProject, PassAudit,
         SkipDeployment, FinalizeDeliverable, RespondGate, Crash
<1>2. loop.file = "absent" /\ \A c \in Calls : calls[c].stage = "idle"
  BY <1>1 DEF Unstarted, Idle
<1>3. PICK c \in Calls : ConfirmIdea(c)
  BY <1>2
     DEF PipelineNext, CallTurn, Begin, GiveUp, CommitSimple, WriteFiles,
         RejectRebuild, FinishBuild, TestsPass, TestsFail, ReviewProject,
         DocumentProject, PassAudit, SkipDeployment, FinalizeDeliverable,
         RespondGate, Crash, Waiting, Idle, SimpleStages
<1> QED BY <1>3 DEF ConfirmIdea

LEMMA FinishRecord ==
  ASSUME Reported, NEW c \in Calls, Finish(c)
  PROVE  \A d \in Calls : calls'[d] = calls[d] \/ calls'[d].stage # "smokeBuild"
BY DEF Finish, Reported, IdleCall

\* What a failing test run leaves: its attempt snapshot, and restored if the
\* loop has ended.
LEMMA TestsFailRanked ==
  ASSUME Faults = {}, Good(loop), Reported, Verified, OneAtATime, Attempts,
         NEW c \in Calls, TestsFail(c)
  PROVE  loop'.file = "ok" => Ranked'
<1> SUFFICES ASSUME loop'.file = "ok" PROVE Ranked'
  OBVIOUS
<1> DEFINE lb == LoopBack(loop)
<1>1. PICK score : score = calls[c].seen.quality
  OBVIOUS
<1>2. /\ calls[c].stage = "runTests" /\ ~Passes(calls[c].seen) /\ Finish(c)
      /\ loop' \in Outcomes(loop, lb)
      /\ best' = SnapshotBest(score) /\ scores' = scores \union {score}
      /\ IF CapExceeded(loop) /\ lb # <<>> /\ loop' = Completed(loop, lb)
           THEN RestoreBest(best') ELSE UNCHANGED <<files, manifest>>
  BY <1>1 DEF TestsFail, Waiting, TestVerdict
<1>3. loop.file = "ok" /\ loop'.state \in {"BUILDER", "ESCALATED", loop.state}
  BY <1>2, LoopBackOutcome
<1>4. Ranked /\ loop.state = "RUN_TESTS" /\ calls[c].seen = files /\ files = manifest
  BY <1>2, <1>3 DEF Attempts, Verified, CallPlaced, BuildKnown, Host, Seeing
<1>5. score = files.quality /\ score \in Nat /\ score # MaxQuality /\ files.id # 0
  BY <1>1, <1>2, <1>4 DEF Ranked, Passes
<1>6. manifest # NoBuild
  BY <1>4, <1>5 DEF NoBuild
<1>7. /\ best' # NoBest /\ best'.build.id # 0 /\ best'.build.quality = best'.score
      /\ best'.score \in Int /\ best'.build.quality \in Nat /\ score <= best'.score
      /\ best' = best \/ (best.score < best'.score)
  <2>1. CASE score > best.score
    <3>1. best' = [build |-> files, score |-> score]
      BY <1>2, <1>6, <2>1 DEF SnapshotBest, BetterScore
    <3>2. best'.score = score /\ best'.build = files
      BY <3>1
    <3>3. best' # NoBest
      BY <1>5, <3>2 DEF NoBest
    <3>4. best.score < score /\ score <= score
      BY <1>4, <1>5, <2>1 DEF Ranked
    <3> QED BY <1>4, <1>5, <3>2, <3>3, <3>4 DEF Ranked
  <2>2. CASE ~(score > best.score)
    <3>1. best' = best
      BY <1>2, <2>2 DEF SnapshotBest, BetterScore
    <3>2. score <= best.score
      BY <1>4, <1>5, <2>2 DEF Ranked
    <3>3. best # NoBest
      BY <1>5, <3>2 DEF NoBest
    <3> QED BY <1>4, <3>1, <3>2, <3>3 DEF Ranked
  <2> QED BY <2>1, <2>2
<1>8. \A s \in scores' : s \in Nat /\ (s # MaxQuality => best' # NoBest /\ s <= best'.score)
  <2> TAKE s \in scores'
  <2>1. CASE s = score
    BY <1>5, <1>7, <2>1
  <2>2. CASE s # score
    <3>1. s \in scores
      BY <1>2, <2>2
    <3>2. s \in Nat /\ (s # MaxQuality => s <= best.score) /\ best.score \in Int
      BY <1>4, <3>1 DEF Ranked
    <3> QED BY <1>7, <3>2
  <2> QED BY <2>1, <2>2
<1>9. \A d \in Calls : calls'[d].stage # "smokeBuild"
  BY <1>2 DEF Finish, Reported, OneAtATime, IdleCall
<1>10. lb # <<>> /\ loop' = Completed(loop, lb)
  <2>1. lb # <<>>
    BY <1>3 DEF LoopBack, TryAdvanceForLoopBack, TriggerEscalation, Move
  <2>2. loop' = Completed(loop, lb)
    BY <1>2, FaultFree
  <2> QED BY <2>1, <2>2
<1>11. CASE CapExceeded(loop)
  <2>1. RestoreBest(best') /\ loop'.state = "ESCALATED"
    BY <1>2, <1>10, <1>11, Escalated
  <2>2. files' = best'.build /\ manifest' = best'.build
    <3>1. best'.build # NoBuild
      BY <1>7 DEF NoBuild
    <3>2. MayFail = {FALSE}
      BY DEF MayFail
    <3> QED BY <2>1, <3>1, <3>2 DEF RestoreBest
  <2> QED BY <1>7, <1>8, <1>9, <2>1, <2>2 DEF Ranked
<1>12. CASE ~CapExceeded(loop)
  <2>1. loop'.last = Row(loop.state, "BUILDER", "LOOP_BACK")
    BY <1>10, <1>12, LastOfLoopBack
  <2>2. ~EscalatedByTests'
    BY <2>1 DEF EscalatedByTests, Row
  <2>3. UNCHANGED <<files, manifest>>
    BY <1>2, <1>12
  <2>4. manifest.id # 0 /\ files.quality \in Nat
    BY <1>4 DEF Ranked
  <2> QED BY <1>7, <1>8, <1>9, <2>2, <2>3, <2>4 DEF Ranked
<1> QED BY <1>11, <1>12

LEMMA BuildingRanked ==
  ASSUME Faults = {}, Reported, Verified, OneAtATime, Attempts,
         NEW c \in Calls, WriteFiles(c) \/ RejectRebuild(c)
  PROVE  loop'.file = "ok" => Ranked'
<1> SUFFICES ASSUME loop'.file = "ok" PROVE Ranked'
  OBVIOUS
<1>0. MayFail = {FALSE}
  BY DEF MayFail
<1>1. UNCHANGED <<loop, best, scores>> /\ calls[c].stage \in {"buildProject", "smokeBuild"}
  BY DEF WriteFiles, RejectRebuild, Waiting, history
<1>2. Ranked /\ loop.state = "BUILDER"
  BY <1>1 DEF Attempts, Verified, CallPlaced, Host
<1>3. loop'.state # "RUN_TESTS" /\ ~EscalatedByTests'
  BY <1>1, <1>2 DEF EscalatedByTests
<1>4. CASE WriteFiles(c)
  <2>1. PICK quality \in 0 .. MaxQuality :
          LET b == [id |-> FreshId, quality |-> quality]
          IN  files' = b /\ Continue(c, "smokeBuild", b)
    BY <1>0, <1>4 DEF WriteFiles
  <2>2. PICK b : b = [id |-> FreshId, quality |-> quality]
    OBVIOUS
  <2>3. files' = b /\ Continue(c, "smokeBuild", b)
    BY <2>1, <2>2
  <2>4. b.id \in BuildIds /\ b.quality \in Nat
    BY <2>2, FreshIdIsNew, PipelineAssumption
  <2>5. b.id # 0
    BY <2>4 DEF BuildIds
  <2>6. calls'[c].seen.id # 0
    BY <2>3, <2>5, ContinueRecord
  <2> QED BY <1>1, <1>2, <1>3, <2>3, <2>4, <2>6 DEF Ranked, OneAtATime
<1>5. CASE RejectRebuild(c)
  <2>1. files' \in {files, best.build} /\ Finish(c)
    BY <1>5 DEF RejectRebuild, RestoreBest
  <2>2. files'.quality \in Nat
    BY <1>2, <2>1 DEF Ranked
  <2>3. \A d \in Calls : calls'[d].stage # "smokeBuild"
    BY <2>1 DEF Finish, Reported, OneAtATime, IdleCall
  <2> QED BY <1>1, <1>2, <1>3, <2>2, <2>3 DEF Ranked
<1> QED BY <1>4, <1>5

LEMMA FinishBuildRanked ==
  ASSUME Faults = {}, Good(loop), Reported, Verified, OneAtATime, Attempts,
         NEW c \in Calls, FinishBuild(c)
  PROVE  loop'.file = "ok" => Ranked'
<1> SUFFICES ASSUME loop'.file = "ok" PROVE Ranked'
  OBVIOUS
<1>1. /\ calls[c].stage = "smokeBuild" /\ Finish(c) /\ manifest' = calls[c].seen
      /\ loop' \in Outcomes(loop, AdvanceState(loop, "RUN_TESTS", "NORMAL"))
      /\ UNCHANGED <<files, best, scores>>
  BY DEF FinishBuild, Waiting, MayFail, MoveOutcomes, history
<1>2. loop.file = "ok"
  BY <1>1, AdvanceOutcome DEF States, ForwardStates
<1>3. Ranked /\ calls[c].seen.id # 0
  BY <1>1, <1>2 DEF Attempts, Ranked
<1>4. loop' = Completed(loop, Move(loop, Row(loop.state, "RUN_TESTS", "NORMAL")))
  BY <1>1, <1>2, FaultFree DEF AdvanceState
<1>5. loop'.last = Row(loop.state, "RUN_TESTS", "NORMAL")
  BY <1>4, LastOfMove
<1>6. ~EscalatedByTests'
  BY <1>5 DEF EscalatedByTests, Row
<1>7. \A d \in Calls : calls'[d].stage # "smokeBuild"
  BY <1>1 DEF Finish, Reported, OneAtATime, IdleCall
<1> QED BY <1>1, <1>3, <1>6, <1>7 DEF Ranked

LEMMA AttemptsStep ==
  ASSUME Faults = {}, Good(loop), Unstarted, Reported, Verified, OneAtATime, Attempts,
         [PipelineNext]_pipelineVars
  PROVE  Attempts'
<1>1. CASE UNCHANGED pipelineVars
  BY <1>1 DEF pipelineVars, builds, Attempts, Ranked, EscalatedByTests
<1>2. ASSUME PipelineNext, loop'.file = "ok" => Ranked' PROVE Attempts'
  BY <1>2, ModeMoves DEF Attempts
<1>3. ASSUME NEW c \in Calls, CallTurn(c) PROVE loop'.file = "ok" => Ranked'
  <2> USE DEF Waiting
  <2>1. CASE ConfirmIdea(c)
    <3>1. /\ files = NoBuild /\ best = NoBest /\ scores = {} /\ loop.file = "absent"
          /\ UNCHANGED <<files, manifest, best, scores>>
      BY <2>1 DEF ConfirmIdea, Attempts, Unstarted, builds, history
    <3>2. CASE loop' = loop
      BY <3>1, <3>2
    <3>3. CASE /\ loop' = Completed(loop, StartLoop(loop, TRUE))
               /\ WaitFor(c, "architect")
      <4>1. loop'.state = "ARCHITECT_DESIGN"
        BY <3>3, Started
      <4>2. calls'[c].stage = "architect"
        BY <3>3, WaitRecord
      <4>3. files.quality \in Nat /\ best.build.quality \in Nat /\ best.score \in Int
        BY <3>1 DEF NoBuild, NoBest
      <4> QED BY <3>1, <4>1, <4>2, <4>3 DEF Ranked, EscalatedByTests, OneAtATime
    <3> QED BY <2>1, <3>2, <3>3 DEF ConfirmIdea
  <2>2. CASE Begin(c)
    <3>1. UNCHANGED <<loop, files, manifest, best, scores>>
      BY <2>2 DEF Begin, builds, history
    <3>2. PICK stage \in {HostStage[s] : s \in DOMAIN HostStage} : WaitFor(c, stage)
      BY <2>2 DEF Begin
    <3>3. calls'[c].stage # "smokeBuild"
      BY <3>2, WaitRecord DEF HostStage
    <3> QED BY <3>1, <3>3, QuietRanked, QuietStill DEF OneAtATime
  <2>3. CASE GiveUp(c)
    BY <2>3, QuietRanked, QuietStill, FinishRecord DEF GiveUp, builds, history
  <2>4. CASE CommitSimple(c)
    <3>1. Finish(c) /\ UNCHANGED <<files, manifest, best, scores>>
      BY <2>4 DEF CommitSimple, builds, history
    <3>2. \A stage : Targets(stage) \subseteq States \ {"RUN_TESTS"}
      BY DEF Targets, States, ForwardStates, TerminalStates
    <3>3. \/ loop' = loop
          \/ \E to \in States \ {"RUN_TESTS"} : loop' \in MoveOutcomes(to)
      BY <2>4, <3>2 DEF CommitSimple
    <3>4. Quiet
      BY <3>3, QuietMove, QuietStill DEF MoveOutcomes
    <3> QED BY <3>1, <3>4, QuietRanked, FinishRecord
  <2>5. CASE TestsPass(c)
    <3>1. /\ calls[c].stage = "runTests" /\ Passes(calls[c].seen) /\ Finish(c)
          /\ loop' \in Outcomes(loop, AdvanceState(loop, "REVIEWER_CODE_AND_SECURITY", "NORMAL"))
          /\ scores' = scores \cup {MaxQuality} /\ UNCHANGED <<files, manifest, best>>
      BY <2>5 DEF TestsPass, TestVerdict, builds, MoveOutcomes, Passes
    <3>2. Quiet
      BY <3>1, QuietMove DEF States, ForwardStates
    <3> QED BY <3>1, <3>2, QuietRanked, FinishRecord
  <2>6. CASE ReviewProject(c)
    <3>1. /\ calls[c].stage = "reviewProject" /\ Finish(c)
          /\ UNCHANGED <<files, manifest, best, scores>>
          /\ \/ loop' = loop
             \/ loop' \in Outcomes(loop, AdvanceState(loop, "DOCUMENTATION", "NORMAL"))
             \/ loop' \in Outcomes(loop, LoopBack(loop))
      BY <2>6 DEF ReviewProject, builds, MoveOutcomes
    <3>2. loop.file = "ok" => loop.state # "RUN_TESTS"
      BY <3>1 DEF Verified, CallPlaced, Host
    <3>3. Quiet
      BY <3>1, <3>2, QuietMove, QuietLoopBack, QuietStill DEF States, ForwardStates
    <3> QED BY <3>1, <3>3, QuietRanked, FinishRecord
  <2>7. CASE DocumentProject(c)
    <3>1. UNCHANGED <<loop, files, manifest, best, scores>>
      BY <2>7 DEF DocumentProject, builds, history
    <3>2. \A d \in Calls : calls'[d] = calls[d] \/ calls'[d].stage # "smokeBuild"
      BY <2>7, FinishRecord, ContinueRecord DEF DocumentProject, OneAtATime
    <3> QED BY <3>1, <3>2, QuietRanked, QuietStill
  <2>8. CASE PassAudit(c)
    <3>1. /\ Finish(c) /\ UNCHANGED <<files, manifest, best, scores>>
          /\ loop' \in Outcomes(loop, AdvanceState(loop, "QUALITY_JUDGE", "NORMAL"))
      BY <2>8 DEF PassAudit, builds, history, MoveOutcomes
    <3>2. Quiet
      BY <3>1, QuietMove DEF States, ForwardStates
    <3> QED BY <3>1, <3>2, QuietRanked, FinishRecord
  <2> QED BY <1>3, <2>1, <2>2, <2>3, <2>4, <2>5, <2>6, <2>7, <2>8, TestsFailRanked,
             BuildingRanked, FinishBuildRanked DEF CallTurn
<1>4. CASE SkipDeployment
  <2>1. /\ UNCHANGED <<calls, files, manifest, best, scores>>
        /\ loop' \in Outcomes(loop, AdvanceState(loop, "LIVE_DELIVERABLE", "VACUOUS_SKIP"))
    BY <1>4 DEF SkipDeployment, builds, history
  <2>2. Quiet
    BY <2>1, QuietMove DEF States, ForwardStates
  <2>3. loop'.file = "ok" => Ranked'
    BY <2>1, <2>2, QuietRanked
  <2> QED BY <1>2, <1>4, <2>3 DEF PipelineNext
<1>5. CASE FinalizeDeliverable
  <2>1. /\ UNCHANGED <<calls, files, manifest, best, scores>>
        /\ \/ loop' = loop
           \/ loop' \in Outcomes(loop, AdvanceState(loop, "COMPLETE", "NORMAL"))
    BY <1>5 DEF FinalizeDeliverable, builds, history, MoveOutcomes
  <2>2. Quiet
    BY <2>1, QuietMove, QuietStill DEF States, TerminalStates
  <2>3. loop'.file = "ok" => Ranked'
    BY <2>1, <2>2, QuietRanked
  <2> QED BY <1>2, <1>5, <2>3 DEF PipelineNext
<1>6. CASE RespondGate
  <2>1. UNCHANGED <<calls, files, manifest, best, scores>> /\ loop.file = "ok"
    BY <1>6 DEF RespondGate, builds, history
  <2>2. PICK g \in GateIds : \E response \in GateResponses[g] :
          AtGate(g) /\ loop' \in Outcomes(loop, Respond(loop, g, response))
    BY <1>6 DEF RespondGate
  <2>3. PICK response \in GateResponses[g] :
          AtGate(g) /\ loop' \in Outcomes(loop, Respond(loop, g, response))
    BY <2>2
  <2>4. Quiet
    BY <2>1, <2>3, QuietGate
  <2>5. loop'.file = "ok" => Ranked'
    BY <2>1, <2>4, QuietRanked
  <2> QED BY <1>2, <1>6, <2>5 DEF PipelineNext
<1>7. CASE Crash
  BY <1>7 DEF Crash
<1> QED BY <1>1, <1>2, <1>3, <1>4, <1>5, <1>6, <1>7 DEF PipelineNext

\* When failing tests exhaust the cap of a loop driven by one handler at a
\* time, the files and the manifest it leaves are the best attempt: no build
\* that was tested and failed had a better score.
THEOREM BestAttemptKept ==
  ASSUME OneAtATime, Faults = {} PROVE PipelineSpec => []BestFailureKept
<1>1. PipelineInit => Attempts
  BY DEF PipelineInit, ToolInit, NoLoop, Attempts
<1>2. Good(loop) /\ Unstarted /\ Reported /\ Verified /\ Attempts
        /\ [PipelineNext]_pipelineVars => Attempts'
  BY AttemptsStep
<1>3. Attempts => BestFailureKept
  <2> SUFFICES ASSUME Attempts, EscalatedByTests, NEW score \in scores \ {MaxQuality}
               PROVE  files.quality >= score /\ files = manifest
    BY DEF BestFailureKept, Attempts, EscalatedByTests, Ranked
  <2>1. Ranked
    BY DEF Attempts, EscalatedByTests
  <2>2. files = manifest /\ best # NoBest /\ files = best.build
    BY <2>1 DEF Ranked
  <2>3. best.build.quality = best.score /\ score \in Nat /\ score <= best.score
        /\ best.score \in Int
    BY <2>1, <2>2 DEF Ranked
  <2> QED BY <2>2, <2>3
<1> QED BY <1>1, <1>2, <1>3, SerialGood, PTL DEF PipelineSpec

=============================================================================
