-------------------------- MODULE OrchestrationTools --------------------------
(***************************************************************************)
(* The orchestration.* tools over the directory of one loop, graph.json,   *)
(* conversation_log.jsonl and escalation_<ts>.md                           *)
(* (runtime/tools/orchestration_tools.js, runtime/orchestration/           *)
(* {loop_state, iteration_controller, approval_gates}.js).                 *)
(*                                                                         *)
(* Every file access of these tools is synchronous and every await in them *)
(* resolves in the same turn of the event loop, so two calls never         *)
(* interleave.  What can come between two writes of one call is a failed   *)
(* write or the death of the server.  A call is therefore the sequence of  *)
(* the writes it makes, each with the directory as it is after the write;  *)
(* it completes, or stops after a proper prefix.                           *)
(*                                                                         *)
(* The append-only log is kept as a digest: its last row, its number of    *)
(* LOOP_BACK rows and whether it has an ESCALATE row.                      *)
(***************************************************************************)
EXTENDS ConversationGraph, Sequences

CONSTANT Faults   \* which of a failed write, a crash and a torn write occur

ASSUME FaultsAssumption == Faults \subseteq {"io", "crash", "torn"}

VARIABLE loop     \* the loop's directory

RowTypes == {"NORMAL", "VACUOUS_SKIP", "GATE_APPROVE", "GATE_REJECT",
             "LOOP_BACK", "ESCALATE", "ABORT"}
Rows == [from : States, to : States, type : RowTypes]
Row(from, to, type) == [from |-> from, to |-> to, type |-> type]

\* validateGraph bounds iteration_count by the cap.
Loops == [file          : {"absent", "ok", "torn"},   \* graph.json
          state         : States,                     \*   current_state
          count         : 0 .. IterationCap,          \*   iteration_count
          last          : Rows,                       \* the log's digest
          loopBacks     : Nat,
          escalated     : BOOLEAN,
          escalationDoc : BOOLEAN]                    \* escalation_<ts>.md

NoLoop == [file |-> "absent", state |-> "OWNER_INTENT", count |-> 0,
           loopBacks |-> 0,
           last |-> Row("OWNER_INTENT", "OWNER_INTENT", "NORMAL"),
           escalated |-> FALSE, escalationDoc |-> FALSE]

-----------------------------------------------------------------------------
(* Single writes, as functions on the directory. *)

\* createLoop
Created(l) == [l EXCEPT !.file = "ok", !.state = "OWNER_INTENT", !.count = 0]

\* appendAuditRow
Logged(l, row) ==
  [l EXCEPT !.last      = row,
            !.loopBacks = IF row.type = "LOOP_BACK" THEN @ + 1 ELSE @,
            !.escalated = @ \/ row.type = "ESCALATE"]

\* Mutant of StateSet: rebuilds the graph instead of changing one field.
StateRebuilt(l, to) == [Created(l) EXCEPT !.state = to]

\* setCurrentState
StateSet(l, to) == [l EXCEPT !.state = to]

\* The increment in tryAdvanceForLoopBack
Charged(l) == [l EXCEPT !.count = @ + 1]

\* The document triggerEscalation writes
Documented(l) == [l EXCEPT !.escalationDoc = TRUE]

\* A write: the file it goes to and the directory after it.
Write(file, l) == [to |-> file, disk |-> l]

-----------------------------------------------------------------------------
(* Calls, as sequences of writes.  An empty sequence is a call refused     *)
(* before its first write.                                                 *)

\* Mutant of Move: the state is moved before its row is logged.
MoveThenLog(l, row) ==
  <<Write("graph", StateSet(l, row.to)),
    Write("log", Logged(StateSet(l, row.to), row))>>

\* The row, then the state: what every tool ends with.
Move(l, row) ==
  <<Write("log", Logged(l, row)),
    Write("graph", StateSet(Logged(l, row), row.to))>>

StartLoop(l, intake) ==
  <<Write("graph", Created(l))>> \o
  IF intake
    THEN Move(Created(l), Row("OWNER_INTENT", "ARCHITECT_DESIGN", "NORMAL"))
    ELSE <<>>

AdvanceState(l, to, type) ==
  IF l.file = "ok" THEN Move(l, Row(l.state, to, type)) ELSE <<>>

Abort(l) ==
  IF l.file = "ok" /\ l.state \notin TerminalStates
    THEN Move(l, Row(l.state, "ABORTED_BY_OWNER", "ABORT")) ELSE <<>>

\* Mutant of CapExceeded: one iteration too many.
CapPassed(l) == l.count > IterationCap

\* checkCap
CapExceeded(l) == l.count >= IterationCap

\* Mutant of TriggerEscalation: the document is written last.
DocumentLast(l) ==
  Move(l, Row(l.state, "ESCALATED", "ESCALATE")) \o
  <<Write("doc", Documented(StateSet(
       Logged(l, Row(l.state, "ESCALATED", "ESCALATE")), "ESCALATED")))>>

TriggerEscalation(l) ==
  <<Write("doc", Documented(l))>> \o
  Move(Documented(l), Row(l.state, "ESCALATED", "ESCALATE"))

\* Mutant of TryAdvanceForLoopBack: the counter is written after the row.
LoopBackChargedLast(l) ==
  IF CapExceeded(l) THEN TriggerEscalation(l)
  ELSE <<Write("log", Logged(l, Row(l.state, "BUILDER", "LOOP_BACK"))),
         Write("graph", StateSet(Charged(
            Logged(l, Row(l.state, "BUILDER", "LOOP_BACK"))), "BUILDER"))>>

TryAdvanceForLoopBack(l) ==
  IF CapExceeded(l)
    THEN TriggerEscalation(l)
    ELSE <<Write("graph", Charged(l))>> \o
         Move(Charged(l), Row(l.state, "BUILDER", "LOOP_BACK"))

LoopBack(l) == IF l.file = "ok" THEN TryAdvanceForLoopBack(l) ELSE <<>>

\* fireGate: the row names the gate's host state, whatever the graph says.
Respond(l, g, response) ==
  CASE l.file # "ok" -> <<>>
    [] l.file = "ok" /\ response = "REJECT_AND_LOOP" -> LoopBack(l)
    [] l.file = "ok" /\ response # "REJECT_AND_LOOP" ->
         Move(l, Row(GateHost[g], GateNext(g, response),
                     GateRowType(response)))

-----------------------------------------------------------------------------
(* What a call does to the directory. *)

\* The directory after the first i writes.
After(l, writes, i) == IF i = 0 THEN l ELSE writes[i].disk

Completed(l, writes) == After(l, writes, Len(writes))

\* A write that fails ends the call in its catch block; dying ends it too.
Stopped(l, writes) == {After(l, writes, i) : i \in 0 .. Len(writes) - 1}

\* fs.writeFileSync truncates graph.json before it writes it.
Torn(l, writes) ==
  {[After(l, writes, i - 1) EXCEPT !.file = "torn"] :
      i \in {j \in 1 .. Len(writes) : writes[j].to = "graph"}}

\* The directories a call may leave behind, by the faults that may occur.
Outcomes(l, writes) ==
  {Completed(l, writes)} \union
  (IF Faults \intersect {"io", "crash"} # {} THEN Stopped(l, writes) ELSE {})
  \union
  (IF "torn" \in Faults THEN Torn(l, writes) ELSE {})

-----------------------------------------------------------------------------
(* The callers: any tool at any time.  A loop id is a fresh UUID in every  *)
(* production call of start_loop; respondGate, the only caller of          *)
(* orchestration.respond, first tests that the loop is at the gate's host. *)

Does(writes) == loop' \in Outcomes(loop, writes)

CallStartLoop ==
  /\ loop.file = "absent"
  /\ \E intake \in BOOLEAN : Does(StartLoop(loop, intake))

CallAdvanceState ==
  \E to \in States, type \in {"NORMAL", "VACUOUS_SKIP"} :
     Does(AdvanceState(loop, to, type))

CallRespond ==
  \E g \in GateIds : \E response \in GateResponses[g] :
     /\ loop.state = GateHost[g]
     /\ Does(Respond(loop, g, response))

CallLoopBack == Does(LoopBack(loop))

CallAbort == Does(Abort(loop))

ToolInit == loop = NoLoop

ToolNext ==
  \/ CallStartLoop
  \/ CallAdvanceState
  \/ CallRespond
  \/ CallLoopBack
  \/ CallAbort

ToolSpec == ToolInit /\ [][ToolNext]_loop

-----------------------------------------------------------------------------
(* Properties *)

\* Type invariant.  Loops bounds the persisted counter, so this also says
\* that no sequence of loop-backs, and no crash, ever persists an
\* iteration_count above the cap (iteration_controller.js header).
TypeOK == loop \in Loops

\* The audit row is written ahead of the move and never more than one move
\* ahead: wherever a call stops, graph.json holds the state the last row of
\* conversation_log.jsonl leads to, or the one it leads away from.
AuditBracketsState ==
  loop.file = "ok" => loop.state \in {loop.last.from, loop.last.to}

\* An ESCALATE row is never in the log without the escalation document that
\* triggerEscalation writes before it, nor before every iteration the cap
\* allows has been charged (checkCap).
EscalationEarned ==
  loop.escalated /\ loop.file = "ok" =>
    loop.escalationDoc /\ loop.count = IterationCap

\* Every return to BUILDER is paid for: the log never holds more LOOP_BACK
\* rows than the persisted counter has charged, so that the cap bounds the
\* rebuilds and not only the counter.  A crash may charge for a loop-back
\* that never happened, never the other way round.
LoopBacksCharged == loop.file = "ok" => loop.loopBacks <= loop.count

\* iteration_count is never lost by a later write of graph.json.
CounterNeverDecreases == [][loop'.count >= loop.count]_loop
=============================================================================
