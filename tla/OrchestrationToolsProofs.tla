----------------------- MODULE OrchestrationToolsProofs -----------------------
(***************************************************************************)
(* Proofs that the orchestration tools keep the invariants of              *)
(* OrchestrationTools whatever the cap, whatever the calls and wherever a  *)
(* failed, torn or interrupted write cuts one of them short.               *)
(*                                                                         *)
(* A call is a sequence of writes, so the argument has two halves: every   *)
(* directory a sequence passes through is Good (one lemma per sequence),   *)
(* and a call that is cut short leaves one of those directories, possibly  *)
(* torn (OutcomesGood).                                                    *)
(***************************************************************************)
EXTENDS OrchestrationTools, TLAPS

\* The inductive invariant, of one directory.  TypeOK alone is inductive
\* only with what the graph says of the log, and start_loop is harmless only
\* because a directory without a graph has no log.
Good(l) ==
  /\ l \in Loops
  /\ l.file = "absent" => l = NoLoop
  /\ l.file = "ok" =>
       /\ l.state \in {l.last.from, l.last.to}
       /\ l.escalated => l.escalationDoc /\ l.count = IterationCap
       /\ l.loopBacks <= l.count

Later(l, m) == Good(m) /\ m.count >= l.count

WriteRecords == [to : {"graph", "log", "doc"}, disk : Loops]

\* A sequence of writes all of whose directories are good.
Sound(l, writes) ==
  /\ writes \in Seq(WriteRecords)
  /\ \A i \in 1 .. Len(writes) : Later(l, writes[i].disk)

-----------------------------------------------------------------------------
(* Sequences of writes *)

\* A refused call, which writes nothing, is sound.
LEMMA NoWrites == \A l : Sound(l, <<>>)
  BY DEF Sound

\* A good write in front of a sound sequence gives a sound sequence.
LEMMA WriteFirst ==
  ASSUME NEW l \in Loops, NEW m, NEW writes, NEW f \in {"graph", "log", "doc"},
         Later(l, m), Sound(m, writes)
  PROVE  Sound(l, <<Write(f, m)>> \o writes)
<1> DEFINE w == <<Write(f, m)>> \o writes
<1>1. /\ m \in Loops
      /\ m.count \in Int /\ l.count \in Int
      /\ writes \in Seq(WriteRecords)
  BY IterationCapAssumption DEF Later, Good, Loops, Sound
<1>2. <<Write(f, m)>> \in Seq(WriteRecords)
  BY <1>1 DEF Write, WriteRecords
<1>3. w \in Seq(WriteRecords) /\ Len(w) = 1 + Len(writes)
  BY <1>1, <1>2
<1>4. \A i \in 1 .. Len(w) : Later(l, w[i].disk)
  <2>1. TAKE i \in 1 .. Len(w)
  <2>2. CASE i = 1
    <3>1. w[i] = Write(f, m)
      BY <1>1, <1>2, <2>2
    <3> QED BY <3>1 DEF Write
  <2>3. CASE i # 1
    <3>1. i - 1 \in 1 .. Len(writes) /\ w[i] = writes[i - 1]
      BY <1>1, <1>2, <1>3, <2>1, <2>3
    <3>2. Later(m, writes[i - 1].disk)
      BY <3>1 DEF Sound
    <3>3. writes[i - 1].disk.count \in Int
      BY <3>2, IterationCapAssumption DEF Later, Good, Loops
    <3> QED BY <1>1, <3>1, <3>2, <3>3 DEF Later
  <2> QED BY <2>2, <2>3
<1> QED BY <1>3, <1>4 DEF Sound

\* Two good writes one after the other.
LEMMA TwoWrites ==
  ASSUME NEW l \in Loops, NEW m, NEW n,
         NEW f \in {"graph", "log", "doc"}, NEW g \in {"graph", "log", "doc"},
         Later(l, m), Later(l, n)
  PROVE  Sound(l, <<Write(f, m), Write(g, n)>>)
<1> DEFINE w == <<Write(f, m), Write(g, n)>>
<1>1. m \in Loops /\ n \in Loops
  BY DEF Later, Good
<1>2. Write(f, m) \in WriteRecords /\ Write(g, n) \in WriteRecords
  BY <1>1 DEF Write, WriteRecords
<1>3. w \in Seq(WriteRecords) /\ Len(w) = 2
  BY <1>2
<1>4. w[1].disk = m /\ w[2].disk = n
  BY DEF Write
<1> QED BY <1>3, <1>4 DEF Sound

\* A call that completes, or is cut short by a failed write, a crash or a
\* torn write, leaves a good directory and never a smaller counter.
LEMMA OutcomesGood ==
  ASSUME NEW l, Good(l), NEW writes, Sound(l, writes)
  PROVE  \A m \in Outcomes(l, writes) : Later(l, m)
<1>1. l \in Loops /\ l.count \in Int /\ Len(writes) \in Nat
  BY IterationCapAssumption DEF Good, Loops, Sound
<1>2. \A i \in 0 .. Len(writes) : Later(l, After(l, writes, i))
  <2>1. TAKE i \in 0 .. Len(writes)
  <2>2. CASE i = 0
    BY <1>1, <2>2 DEF After, Later
  <2>3. CASE i # 0
    BY <1>1, <2>1, <2>3 DEF After, Sound
  <2> QED BY <2>2, <2>3
<1>3. Later(l, Completed(l, writes))
  BY <1>1, <1>2 DEF Completed
<1>4. \A m \in Stopped(l, writes) : Later(l, m)
  BY <1>1, <1>2 DEF Stopped
<1>5. \A m \in Torn(l, writes) : Later(l, m)
  <2>1. TAKE m \in Torn(l, writes)
  <2>2. PICK i \in 1 .. Len(writes) :
          m = [After(l, writes, i - 1) EXCEPT !.file = "torn"]
    BY <2>1 DEF Torn
  <2>3. Later(l, After(l, writes, i - 1))
    BY <1>1, <1>2, <2>2
  <2> QED BY <2>2, <2>3 DEF Later, Good, Loops
<1> QED BY <1>3, <1>4, <1>5 DEF Outcomes

-----------------------------------------------------------------------------
(* The calls *)

\* Logging a row that leads away from the current state, then moving.
LEMMA MoveSound ==
  ASSUME NEW l, Good(l), l.file = "ok", NEW row \in Rows,
         row.from = l.state,
         row.type = "LOOP_BACK" => l.loopBacks < l.count,
         row.type = "ESCALATE" => l.escalationDoc /\ l.count = IterationCap
  PROVE  Sound(l, Move(l, row))
<1> DEFINE logged == Logged(l, row)
           moved  == StateSet(logged, row.to)
<1>1. l \in Loops /\ l.count \in Int /\ l.loopBacks \in Nat
  BY IterationCapAssumption DEF Good, Loops
<1>2. Later(l, logged)
  <2>1. logged \in Loops
    <3>1. \A r \in Rows, n \in Nat, b \in BOOLEAN :
            [l EXCEPT !.last = r, !.loopBacks = n, !.escalated = b] \in Loops
      BY <1>1 DEF Loops
    <3>2. (IF row.type = "LOOP_BACK" THEN l.loopBacks + 1 ELSE l.loopBacks)
             \in Nat
      BY <1>1
    <3>3. (l.escalated \/ row.type = "ESCALATE") \in BOOLEAN
      OBVIOUS
    <3> QED BY <3>1, <3>2, <3>3 DEF Logged
  <2>2. logged.file = "ok" /\ logged.state = l.state
        /\ logged.count = l.count /\ logged.last = row
        /\ logged.escalationDoc = l.escalationDoc
    BY <1>1 DEF Logged, Loops
  <2>3. logged.loopBacks <= logged.count
    BY <1>1 DEF Logged, Loops, Good
  <2>4. logged.escalated => logged.escalationDoc
                            /\ logged.count = IterationCap
    BY <1>1 DEF Logged, Loops, Good
  <2> QED BY <1>1, <2>1, <2>2, <2>3, <2>4 DEF Later, Good
<1>3. Later(l, moved)
  <2>1. row.to \in States
    BY DEF Rows
  <2>2. moved \in Loops
    BY <1>2, <2>1 DEF Later, Good, StateSet, Loops
  <2>3. moved.file = "ok" /\ moved.state = moved.last.to
    BY <1>1 DEF StateSet, Logged, Loops
  <2>4. /\ moved.count = logged.count /\ moved.loopBacks = logged.loopBacks
        /\ moved.escalated = logged.escalated
        /\ moved.escalationDoc = logged.escalationDoc
        /\ logged.file = "ok"
    BY <1>1 DEF StateSet, Logged, Loops
  <2> QED BY <1>2, <2>2, <2>3, <2>4 DEF Later, Good
<1> QED BY <1>1, <1>2, <1>3, TwoWrites DEF Move

\* start_loop in a directory that does not exist.
LEMMA StartLoopSound ==
  ASSUME NEW l, Good(l), l.file = "absent", NEW intake \in BOOLEAN
  PROVE  Sound(l, StartLoop(l, intake))
<1> DEFINE made == Created(l)
           row  == Row("OWNER_INTENT", "ARCHITECT_DESIGN", "NORMAL")
<1>1. l = NoLoop /\ l \in Loops
  BY DEF Good
<1>2. /\ made.file = "ok" /\ made.state = "OWNER_INTENT" /\ made.count = 0
      /\ made.last = l.last /\ made.loopBacks = l.loopBacks
      /\ made.escalated = l.escalated
  BY <1>1 DEF Created, Loops
<1>3. Later(l, made)
  <2>1. "OWNER_INTENT" \in States /\ 0 \in 0 .. IterationCap
    BY IterationCapAssumption DEF States, ForwardStates
  <2>2. made \in Loops
    BY <1>1, <2>1 DEF Created, Loops
  <2>3. l.last.from = "OWNER_INTENT" /\ l.loopBacks = 0 /\ ~l.escalated
        /\ l.count = 0
    BY <1>1 DEF NoLoop, Row
  <2> QED BY <1>2, <2>2, <2>3 DEF Later, Good
<1>4. row \in Rows /\ row.from = "OWNER_INTENT" /\ row.type = "NORMAL"
  BY DEF Row, Rows, States, ForwardStates, RowTypes
<1>5. Sound(made, Move(made, row))
  BY <1>2, <1>3, <1>4, MoveSound DEF Later
<1>6. Sound(l, <<Write("graph", made)>> \o Move(made, row))
  BY <1>1, <1>3, <1>5, WriteFirst
<1>7. Sound(l, <<Write("graph", made)>> \o <<>>)
  BY <1>1, <1>3, NoWrites, WriteFirst
<1> QED BY <1>6, <1>7 DEF StartLoop

\* A rebuild is charged before it is logged; without a charge left the loop
\* is escalated, after its document is written.
LEMMA LoopBackSound ==
  ASSUME NEW l, Good(l)
  PROVE  Sound(l, LoopBack(l))
<1> DEFINE charged    == Charged(l)
           documented == Documented(l)
           back       == Row(l.state, "BUILDER", "LOOP_BACK")
           escalation == Row(l.state, "ESCALATED", "ESCALATE")
<1>1. l \in Loops /\ l.count \in 0 .. IterationCap /\ l.state \in States
  BY DEF Good, Loops
<1>2. back \in Rows /\ escalation \in Rows
  BY <1>1 DEF Row, Rows, States, ForwardStates, TerminalStates, RowTypes
<1>3. CASE l.file # "ok"
  BY <1>3, NoWrites DEF LoopBack
<1>4. CASE l.file = "ok" /\ CapExceeded(l)
  <2>1. l.count = IterationCap
    BY <1>1, <1>4, IterationCapAssumption DEF CapExceeded
  <2>2. /\ Later(l, documented) /\ documented.file = "ok"
        /\ documented.state = l.state /\ documented.escalationDoc
        /\ documented.count = IterationCap
    <3>1. /\ documented \in Loops /\ documented.file = "ok"
          /\ documented.state = l.state /\ documented.escalationDoc
          /\ documented.count = l.count /\ documented.last = l.last
          /\ documented.loopBacks = l.loopBacks
      BY <1>1, <1>4 DEF Documented, Loops
    <3>2. l.state \in {l.last.from, l.last.to} /\ l.loopBacks <= l.count
      BY <1>4 DEF Good
    <3> QED BY <1>1, <2>1, <3>1, <3>2 DEF Later, Good
  <2>3. Sound(documented, Move(documented, escalation))
    BY <1>2, <2>2, MoveSound DEF Later, Row
  <2>4. Sound(l, <<Write("doc", documented)>> \o Move(documented, escalation))
    BY <1>1, <2>2, <2>3, WriteFirst
  <2> QED BY <1>4, <2>4 DEF LoopBack, TryAdvanceForLoopBack, TriggerEscalation
<1>5. CASE l.file = "ok" /\ ~CapExceeded(l)
  <2>1. l.count + 1 \in 0 .. IterationCap
    BY <1>1, <1>5, IterationCapAssumption DEF CapExceeded
  <2>2. /\ charged \in Loops /\ charged.file = "ok"
        /\ charged.count = l.count + 1 /\ charged.state = l.state
        /\ charged.last = l.last /\ charged.loopBacks = l.loopBacks
        /\ charged.escalated = l.escalated
    BY <1>1, <1>5, <2>1 DEF Charged, Loops
  <2>3. l.loopBacks \in Nat /\ l.loopBacks <= l.count /\ ~l.escalated
    <3>1. l.loopBacks \in Nat /\ l.loopBacks <= l.count
      BY <1>5 DEF Good, Loops
    <3>2. l.count # IterationCap
      BY <1>1, <2>1, IterationCapAssumption
    <3> QED BY <1>5, <3>1, <3>2 DEF Good
  <2>4. Later(l, charged)
    BY <1>1, <1>5, <2>1, <2>2, <2>3 DEF Later, Good
  <2>5. Sound(charged, Move(charged, back))
    <3>1. charged.loopBacks < charged.count
      BY <1>1, <2>2, <2>3
    <3> QED BY <1>2, <2>2, <2>4, <3>1, MoveSound DEF Later, Row
  <2>6. Sound(l, <<Write("graph", charged)>> \o Move(charged, back))
    BY <1>1, <2>4, <2>5, WriteFirst
  <2> QED BY <1>5, <2>6 DEF LoopBack, TryAdvanceForLoopBack
<1> QED BY <1>3, <1>4, <1>5

\* The tools that log one row and move.
LEMMA AdvanceStateSound ==
  ASSUME NEW l, Good(l), NEW to \in States,
         NEW type \in {"NORMAL", "VACUOUS_SKIP"}
  PROVE  Sound(l, AdvanceState(l, to, type))
<1>1. CASE l.file # "ok"
  BY <1>1, NoWrites DEF AdvanceState
<1>2. CASE l.file = "ok"
  <2>1. Row(l.state, to, type) \in Rows
    BY DEF Good, Loops, Row, Rows, RowTypes
  <2> QED BY <1>2, <2>1, MoveSound DEF AdvanceState, Row
<1> QED BY <1>1, <1>2

LEMMA AbortSound ==
  ASSUME NEW l, Good(l)
  PROVE  Sound(l, Abort(l))
<1>1. CASE ~(l.file = "ok" /\ l.state \notin TerminalStates)
  BY <1>1, NoWrites DEF Abort
<1>2. CASE l.file = "ok" /\ l.state \notin TerminalStates
  <2>1. Row(l.state, "ABORTED_BY_OWNER", "ABORT") \in Rows
    BY DEF Good, Loops, Row, Rows, RowTypes, States, TerminalStates
  <2> QED BY <1>2, <2>1, MoveSound DEF Abort, Row
<1> QED BY <1>1, <1>2

\* An answer to the gate the loop is at.
LEMMA RespondSound ==
  ASSUME NEW l, Good(l), NEW g \in GateIds, NEW response \in GateResponses[g],
         l.state = GateHost[g]
  PROVE  Sound(l, Respond(l, g, response))
<1>1. CASE l.file # "ok"
  BY <1>1, NoWrites DEF Respond
<1>2. CASE l.file = "ok" /\ response = "REJECT_AND_LOOP"
  BY <1>2, LoopBackSound DEF Respond
<1>3. CASE l.file = "ok" /\ response # "REJECT_AND_LOOP"
  <2> DEFINE row == Row(GateHost[g], GateNext(g, response),
                        GateRowType(response))
  <2>1. GateHost[g] \in States
    BY DEF Good, Loops
  <2>2. GateNext(g, response) \in States
    BY <1>3 DEF GateIds, GateResponses, GateNext, States, ForwardStates,
                TerminalStates
  <2>3. row.type \notin {"LOOP_BACK", "ESCALATE"} /\ row.type \in RowTypes
    BY DEF GateRowType, Row, RowTypes
  <2>4. row \in Rows /\ row.from = l.state
    BY <2>1, <2>2, <2>3 DEF Row, Rows
  <2>5. Sound(l, Move(l, row))
    BY <1>3, <2>3, <2>4, MoveSound
  <2> QED BY <1>3, <2>5 DEF Respond
<1> QED BY <1>1, <1>2, <1>3

-----------------------------------------------------------------------------
(* The specification *)

\* A loop that does not exist yet is good.
LEMMA InitGood == ToolInit => Good(loop)
  BY IterationCapAssumption
     DEF ToolInit, Good, NoLoop, Loops, Row, Rows, States, ForwardStates,
         RowTypes

\* Every call leads from a good directory to a good one whose counter is no
\* smaller.
LEMMA NextGood == Good(loop) /\ ToolNext => Later(loop, loop')
<1> SUFFICES ASSUME Good(loop), ToolNext PROVE Later(loop, loop')
  OBVIOUS
<1>1. CASE CallStartLoop
  BY <1>1, StartLoopSound, OutcomesGood DEF CallStartLoop, Does
<1>2. CASE CallAdvanceState
  BY <1>2, AdvanceStateSound, OutcomesGood DEF CallAdvanceState, Does
<1>3. CASE CallRespond
  BY <1>3, RespondSound, OutcomesGood DEF CallRespond, Does
<1>4. CASE CallLoopBack
  BY <1>4, LoopBackSound, OutcomesGood DEF CallLoopBack, Does
<1>5. CASE CallAbort
  BY <1>5, AbortSound, OutcomesGood DEF CallAbort, Does
<1> QED BY <1>1, <1>2, <1>3, <1>4, <1>5 DEF ToolNext

\* The inductive invariant holds in every behaviour.
THEOREM AlwaysGood == ToolSpec => []Good(loop)
<1>1. Good(loop) /\ [ToolNext]_loop => Good(loop)'
  BY NextGood DEF Later
<1> QED BY <1>1, InitGood, PTL DEF ToolSpec

\* Type correctness: whatever the calls and wherever they stop, the
\* persisted iteration counter stays within the cap.
THEOREM ToolsTyped == ToolSpec => []TypeOK
<1>1. Good(loop) => TypeOK
  BY DEF Good, TypeOK
<1> QED BY <1>1, AlwaysGood, PTL

\* The audit log is never more than one move ahead of the graph, and never
\* behind it.
THEOREM AuditTrail == ToolSpec => []AuditBracketsState
<1>1. Good(loop) => AuditBracketsState
  BY DEF Good, AuditBracketsState
<1> QED BY <1>1, AlwaysGood, PTL

\* No ESCALATE row without its document and without the cap used up.
THEOREM Escalations == ToolSpec => []EscalationEarned
<1>1. Good(loop) => EscalationEarned
  BY DEF Good, EscalationEarned
<1> QED BY <1>1, AlwaysGood, PTL

\* No rebuild is logged that the persisted counter has not charged.
THEOREM Rebuilds == ToolSpec => []LoopBacksCharged
<1>1. Good(loop) => LoopBacksCharged
  BY DEF Good, LoopBacksCharged
<1> QED BY <1>1, AlwaysGood, PTL

\* No call, complete or cut short, loses a charge.
THEOREM CounterMonotone == ToolSpec => CounterNeverDecreases
<1>1. Good(loop) /\ [ToolNext]_loop => [loop'.count >= loop.count]_loop
  BY NextGood DEF Later
<1> QED BY <1>1, AlwaysGood, PTL DEF ToolSpec, CounterNeverDecreases
=============================================================================
