--------------------------- MODULE ConversationGraph ---------------------------
(***************************************************************************)
(* The static part of the orchestration loop: state identifiers, the       *)
(* transition table, the iteration cap and the owner gates.  It follows    *)
(* runtime/orchestration/conversation_graph.js and the constant tables of  *)
(* runtime/orchestration/approval_gates.js.  There are no variables here.  *)
(***************************************************************************)
EXTENDS Integers

CONSTANT IterationCap   \* ITERATION_CAP, literally 5 in the code

ASSUME IterationCapAssumption == IterationCap \in Nat

TerminalStates == {"COMPLETE", "ESCALATED", "ABORTED_BY_OWNER"}

ForwardStates ==
  {"OWNER_INTENT", "ARCHITECT_DESIGN", "SPEC_WRITER_FORMALIZE",
   "REVIEWER_SPEC", "COST_ESTIMATE", "ENV_REPORT", "TEST_DESIGN",
   "BUILDER", "RUN_TESTS", "REVIEWER_CODE_AND_SECURITY", "DOCUMENTATION",
   "QUALITY_JUDGE", "DEPLOYMENT_OR_END", "LIVE_DELIVERABLE"}

States == ForwardStates \union TerminalStates

\* The rows of TRANSITION_TABLE whose "from" is a state.  The row from null
\* (loop creation) and the two wildcard rows are not edges of this set.
NamedEdges ==
  {<<"OWNER_INTENT", "ARCHITECT_DESIGN">>,
   <<"ARCHITECT_DESIGN", "SPEC_WRITER_FORMALIZE">>,
   <<"SPEC_WRITER_FORMALIZE", "REVIEWER_SPEC">>,
   <<"REVIEWER_SPEC", "COST_ESTIMATE">>,
   <<"REVIEWER_SPEC", "ESCALATED">>,
   <<"COST_ESTIMATE", "ENV_REPORT">>,
   <<"ENV_REPORT", "ENV_REPORT">>,
   <<"ENV_REPORT", "TEST_DESIGN">>,
   <<"ENV_REPORT", "ESCALATED">>,
   <<"TEST_DESIGN", "BUILDER">>,
   <<"BUILDER", "RUN_TESTS">>,
   <<"RUN_TESTS", "REVIEWER_CODE_AND_SECURITY">>,
   <<"REVIEWER_CODE_AND_SECURITY", "DOCUMENTATION">>,
   <<"REVIEWER_CODE_AND_SECURITY", "ESCALATED">>,
   <<"DOCUMENTATION", "QUALITY_JUDGE">>,
   <<"QUALITY_JUDGE", "QUALITY_JUDGE">>,
   <<"QUALITY_JUDGE", "DEPLOYMENT_OR_END">>,
   <<"QUALITY_JUDGE", "BUILDER">>,
   <<"QUALITY_JUDGE", "ESCALATED">>,
   <<"DEPLOYMENT_OR_END", "LIVE_DELIVERABLE">>,
   <<"DEPLOYMENT_OR_END", "DEPLOYMENT_OR_END">>,
   <<"DEPLOYMENT_OR_END", "ESCALATED">>,
   <<"LIVE_DELIVERABLE", "COMPLETE">>}

\* validateTransition: a terminal state has no successor; every other state
\* may take a named edge or one of the wildcard rows.
TransitionAllowed(from, to) ==
  /\ from \notin TerminalStates
  /\ \/ <<from, to>> \in NamedEdges
     \/ to \in {"ESCALATED", "ABORTED_BY_OWNER"}

-----------------------------------------------------------------------------
(* Owner gates *)

GateIds == {1, 2, 3}

GateHost ==
  [g \in GateIds |-> CASE g = 1 -> "ENV_REPORT"
                       [] g = 2 -> "QUALITY_JUDGE"
                       [] g = 3 -> "DEPLOYMENT_OR_END"]

GateResponses ==
  [g \in GateIds |->
     IF g = 2 THEN {"APPROVE_SHIP", "APPROVE_WITH_CAVEATS", "REJECT_AND_LOOP"}
              ELSE {"APPROVE", "REJECT"}]

\* Mutant of GateNext: the answer leaves the loop at the gate's host.
GateStays(g, response) == GateHost[g]

\* _NEXT_STATE
GateNext(g, response) ==
  CASE response = "REJECT" -> "ESCALATED"
    [] g = 1 /\ response = "APPROVE" -> "TEST_DESIGN"
    [] g = 2 -> "DEPLOYMENT_OR_END"
    [] g = 3 /\ response = "APPROVE" -> "LIVE_DELIVERABLE"

GateRowType(response) ==
  IF response = "REJECT" THEN "GATE_REJECT" ELSE "GATE_APPROVE"
=============================================================================
